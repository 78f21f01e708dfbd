---------------------------- MODULE MessagesProofs ----------------------------
(***************************************************************************)
(* Proofs about CapsuleCodec and Messages, for any base, width, numbers,   *)
(* chunk sizes and limits.  First what is written is read back, number by  *)
(* number; then the invariants, which need it for the lengths that the     *)
(* decryptors accept.  An induction is by the least counterexample.        *)
(***************************************************************************)
EXTENDS Messages, SequenceTheorems, WellFoundedInduction, TLAPS

(* A set of naturals has a least element.                                     *)
LEMMA Least ==
    ASSUME NEW T, T \subseteq Nat, T # {}
    PROVE \E i \in T : \A j \in T : i <= j
<1>1. PICK i \in T : \A j \in T : <<j, i>> \notin OpToRel(<, Nat)
    BY NatLessThanWellFounded, WFMin
<1>2. ASSUME NEW j \in T PROVE i <= j
  <2>1. <<j, i>> \in Nat \X Nat
    OBVIOUS
  <2>2. ~(j < i)
    BY <1>1, <2>1 DEF OpToRel
  <2> QED BY <2>2
<1> QED BY <1>2

(* What holds at 0 and passes from each number to the next holds up to m.     *)
LEMMA Upwards ==
    ASSUME NEW m \in Nat, NEW T, 0 \in T, \A k \in 0..(m - 1) : k \in T => k + 1 \in T
    PROVE \A k \in 0..m : k \in T
<1> SUFFICES ASSUME \E k \in 0..m : k \notin T PROVE FALSE
    OBVIOUS
<1> DEFINE Bad == {k \in 0..m : k \notin T}
<1>1. Bad \subseteq Nat /\ Bad # {}
    OBVIOUS
<1>2. PICK i \in Bad : \A j \in Bad : i <= j
    BY <1>1, Least
<1>3. i \in 0..m /\ i # 0
    OBVIOUS
<1>4. i - 1 \in 0..(m - 1) /\ i - 1 \notin Bad
    BY <1>2, <1>3
<1>5. i - 1 \in T
    BY <1>4
<1> QED BY <1>3, <1>4, <1>5
-----------------------------------------------------------------------------
(* Powers and digits *)

(* The powers exist up to any exponent, hence are those that Power defines.   *)
LEMMA PowerDef == Power = [k \in 0..Width |-> IF k = 0 THEN 1 ELSE Base * Power[k - 1]]
<1> DEFINE P(f, m) == f = [k \in 0..m |-> IF k = 0 THEN 1 ELSE Base * f[k - 1]]
<1> DEFINE T == {m \in Nat : \E f : P(f, m)}
<1>1. 0 \in T
  <2>1. P([k \in 0..0 |-> 1], 0)
    OBVIOUS
  <2> QED BY <2>1
<1>2. ASSUME NEW m \in Nat, m \in T PROVE m + 1 \in T
  <2>1. PICK f : P(f, m)
    BY <1>2
  <2> DEFINE g == [k \in 0..(m + 1) |-> IF k = m + 1 THEN Base * f[m] ELSE f[k]]
  <2>2. P(g, m + 1)
    <3>1. ASSUME NEW k \in 0..(m + 1)
          PROVE g[k] = IF k = 0 THEN 1 ELSE Base * g[k - 1]
      <4>1. CASE k = m + 1
        BY <4>1
      <4>2. CASE k \in 0..m
        BY <2>1, <4>2
      <4> QED BY <4>1, <4>2
    <3> QED BY <3>1
  <2> HIDE DEF g
  <2>3. \E h : P(h, m + 1)
    BY <2>2
  <2> QED BY <2>3
<1>3. Width \in T
  <2> HIDE DEF T
  <2>1. \A k \in 0..Width : k \in T
    BY <1>1, <1>2, Upwards, Bytes
  <2> QED BY <2>1, Bytes
<1>4. PICK f : P(f, Width)
    BY <1>3
<1> QED BY <1>4 DEF Power

LEMMA PowerStep ==
    /\ Power[0] = 1
    /\ \A k \in 0..(Width - 1) : Power[k + 1] = Base * Power[k]
<1>1. ASSUME NEW k \in 0..(Width - 1) PROVE Power[k + 1] = Base * Power[k]
  <2>1. k + 1 \in 0..Width /\ k + 1 # 0 /\ (k + 1) - 1 = k
    BY Bytes
  <2> QED BY <2>1, PowerDef
<1>2. Power[0] = 1
    BY PowerDef, Bytes
<1> QED BY <1>1, <1>2

LEMMA PowerType == \A k \in 0..Width : Power[k] \in Nat \ {0}
<1> DEFINE T == {k \in Nat : Power[k] \in Nat \ {0}}
<1>1. 0 \in T
    BY PowerStep
<1>2. ASSUME NEW k \in 0..(Width - 1), k \in T PROVE k + 1 \in T
  <2>1. Power[k + 1] = Base * Power[k] /\ Power[k] \in Nat \ {0}
    BY <1>2, PowerStep
  <2>2. Base \in Nat \ {0, 1}
    BY Bytes
  <2>3. \A b, p \in Nat \ {0} : b * p \in Nat \ {0}
    OBVIOUS
  <2> QED BY <2>1, <2>2, <2>3
<1> HIDE DEF T
<1>3. \A k \in 0..Width : k \in T
    BY <1>1, <1>2, Upwards, Bytes
<1> QED BY <1>3 DEF T

(* Division by a product is division by one factor and then by the other.     *)
LEMMA DivStep ==
    ASSUME NEW n \in Nat, NEW b \in Nat \ {0, 1}, NEW p \in Nat \ {0}
    PROVE /\ n \div p \in Nat
          /\ n \div p = ((n \div (b * p)) * b) + ((n \div p) % b)
          /\ (n \div p) % b \in 0..(b - 1)
<1> DEFINE q == n \div p
<1>1. q \in Nat
    OBVIOUS
<1>2. q \div b = n \div (b * p)
    OBVIOUS
<1>3. \A x \in Nat : x = ((x \div b) * b) + (x % b) /\ x % b \in 0..(b - 1)
    OBVIOUS
<1>4. q = ((q \div b) * b) + (q % b) /\ q % b \in 0..(b - 1)
    BY <1>1, <1>3
<1> QED BY <1>1, <1>2, <1>4

(* The number that the first i digits of n are.                               *)
Lead(n, i) == n \div Power[Width - i]

Numbers == 0..(Power[Width] - 1)

LEMMA LeadStep ==
    ASSUME NEW n \in Numbers
    PROVE /\ Lead(n, 0) = 0 /\ Lead(n, Width) = n
          /\ \A i \in 0..Width : Lead(n, i) \in Nat
          /\ \A i \in 1..Width :
              /\ Lead(n, i) = Lead(n, i - 1) * Base + Padded(n)[i]
              /\ Padded(n)[i] \in 0..(Base - 1)
<1>1. n \in Nat /\ n < Power[Width] /\ Power[Width] \in Nat \ {0}
    BY PowerType, Bytes DEF Numbers
<1>2. \A p \in Nat \ {0} : n < p => n \div p = 0
    BY <1>1
<1>3. Lead(n, 0) = 0
  <2>1. Width - 0 = Width
    BY Bytes
  <2> QED BY <1>1, <1>2, <2>1 DEF Lead
<1>4. Lead(n, Width) = n
  <2>1. Width - Width = 0
    BY Bytes
  <2>2. n \div 1 = n
    BY <1>1
  <2> QED BY <2>1, <2>2, PowerStep DEF Lead
<1>5. ASSUME NEW i \in 0..Width PROVE Lead(n, i) \in Nat
  <2>1. Width - i \in 0..Width
    BY Bytes
  <2>2. Power[Width - i] \in Nat \ {0}
    BY <2>1, PowerType
  <2> QED BY <1>1, <2>2 DEF Lead
<1>6. ASSUME NEW i \in 1..Width
      PROVE /\ Lead(n, i) = Lead(n, i - 1) * Base + Padded(n)[i]
            /\ Padded(n)[i] \in 0..(Base - 1)
  <2>1. /\ Width - i \in 0..(Width - 1) /\ Width - i \in 0..Width
        /\ Width - (i - 1) = (Width - i) + 1
    BY Bytes
  <2>2. Power[Width - i] \in Nat \ {0} /\ Power[Width - (i - 1)] = Base * Power[Width - i]
    BY <2>1, PowerStep, PowerType
  <2>3. Padded(n)[i] = Lead(n, i) % Base
    BY DEF Padded, Lead
  <2>4. /\ Lead(n, i) = ((n \div (Base * Power[Width - i])) * Base) + (Lead(n, i) % Base)
        /\ Lead(n, i) % Base \in 0..(Base - 1)
    BY <1>1, <2>2, DivStep, Bytes DEF Lead
  <2> QED BY <2>2, <2>3, <2>4 DEF Lead
<1> QED BY <1>3, <1>4, <1>5, <1>6

(* The recursion of Number has one solution, so any is the number.            *)
LEMMA NumberIs ==
    ASSUME NEW s \in Seq(Nat), NEW g,
           g = [i \in 0..Len(s) |-> IF i = 0 THEN 0 ELSE g[i - 1] * Base + s[i]]
    PROVE Number(s) = g[Len(s)]
<1> DEFINE Solves(f) ==
      f = [i \in 0..Len(s) |-> IF i = 0 THEN 0 ELSE f[i - 1] * Base + s[i]]
<1>1. Solves(g)
    OBVIOUS
<1> DEFINE f == CHOOSE f : Solves(f)
<1>2. Solves(f)
    BY <1>1
<1>3. Number(s) = f[Len(s)]
    BY DEF Number
<1> HIDE DEF f
<1> DEFINE T == {i \in Nat : f[i] = g[i]}
<1>4. Len(s) \in Nat
    OBVIOUS
<1>5. 0 \in T
    BY <1>1, <1>2, <1>4
<1>6. ASSUME NEW k \in 0..(Len(s) - 1), k \in T PROVE k + 1 \in T
  <2>1. k + 1 \in 0..Len(s) /\ k + 1 # 0 /\ (k + 1) - 1 = k
    BY <1>4
  <2>2. f[k + 1] = f[k] * Base + s[k + 1]
    BY <1>2, <2>1
  <2>3. g[k + 1] = g[k] * Base + s[k + 1]
    BY <1>1, <2>1
  <2> QED BY <1>6, <2>2, <2>3, ConcatAssociative
<1>7. \A k \in 0..Len(s) : k \in T
  <2> HIDE DEF T
  <2> QED BY <1>4, <1>5, <1>6, Upwards
<1> QED BY <1>3, <1>4, <1>7

(* The bytes of a number are Width bytes.                                     *)
LEMMA PaddedType ==
    ASSUME NEW n \in Numbers
    PROVE Padded(n) \in Seq(Nat) /\ Len(Padded(n)) = Width
<1>1. \A i \in 1..Width : Padded(n)[i] \in Nat
    BY LeadStep, Bytes
<1>2. Padded(n) \in [1..Width -> Nat]
    BY <1>1 DEF Padded
<1> QED BY <1>2, Bytes

(* Without leading zeros the number is the same.                              *)
LEMMA NumberOfRest ==
    ASSUME NEW n \in Numbers, NEW z \in 0..Width, \A i \in 1..z : Padded(n)[i] = 0
    PROVE /\ Lead(n, z) = 0
          /\ SubSeq(Padded(n), z + 1, Width) \in Seq(Nat)
          /\ Len(SubSeq(Padded(n), z + 1, Width)) = Width - z
          /\ Number(SubSeq(Padded(n), z + 1, Width)) = n
<1> DEFINE T == {i \in Nat : Lead(n, i) = 0}
<1>1. Lead(n, z) = 0
  <2>1. 0 \in T
    BY LeadStep
  <2>2. ASSUME NEW k \in 0..(z - 1), k \in T PROVE k + 1 \in T
    <3>1. k + 1 \in 1..Width /\ (k + 1) - 1 = k /\ Padded(n)[k + 1] = 0 /\ Lead(n, k) = 0
      BY <2>2, Bytes
    <3>2. Lead(n, k + 1) = Lead(n, k) * Base + Padded(n)[k + 1]
      BY <3>1, LeadStep
    <3>3. Lead(n, k + 1) = 0
      BY <3>1, <3>2, Bytes
    <3> QED BY <3>3
  <2> HIDE DEF T
  <2>3. \A k \in 0..z : k \in T
    BY <2>1, <2>2, Upwards, Bytes
  <2>4. z \in T
    BY <2>3, Bytes
  <2> QED BY <2>4 DEF T
<1> DEFINE s == SubSeq(Padded(n), z + 1, Width)
           g == [i \in 0..(Width - z) |-> Lead(n, z + i)]
<1>2. s \in Seq(Nat) /\ Len(s) = Width - z /\ \A i \in 1..(Width - z) : s[i] = Padded(n)[z + i]
  <2>1. \A i \in (z + 1)..Width : Padded(n)[i] \in Nat
    BY PaddedType, Bytes
  <2>2. z + 1 \in Int /\ Width \in Int
    BY Bytes
  <2>3. /\ s \in Seq(Nat)
        /\ Len(s) = IF z + 1 <= Width THEN Width - (z + 1) + 1 ELSE 0
        /\ \A i \in 1..(Width - (z + 1) + 1) : s[i] = Padded(n)[z + 1 + i - 1]
    BY <2>1, <2>2, SubSeqProperties
  <2>4. \A i \in Int : z + 1 + i - 1 = z + i
    BY Bytes
  <2> QED BY <2>3, <2>4, Bytes
<1>3. g = [i \in 0..Len(s) |-> IF i = 0 THEN 0 ELSE g[i - 1] * Base + s[i]]
  <2>1. ASSUME NEW i \in 0..(Width - z)
        PROVE g[i] = IF i = 0 THEN 0 ELSE g[i - 1] * Base + s[i]
    <3>1. CASE i = 0
      <4>1. g[0] = Lead(n, z + 0) /\ z + 0 = z
        BY Bytes
      <4> QED BY <1>1, <3>1, <4>1
    <3>2. CASE i \in 1..(Width - z)
      <4>1. z + i \in 1..Width /\ (z + i) - 1 = z + (i - 1) /\ i - 1 \in 0..(Width - z)
        BY <3>2, Bytes
      <4>2. Lead(n, z + i) = Lead(n, (z + i) - 1) * Base + Padded(n)[z + i]
        BY <4>1, LeadStep
      <4>3. g[i] = Lead(n, z + i) /\ g[i - 1] = Lead(n, z + (i - 1))
        BY <4>1
      <4> QED BY <1>2, <3>2, <4>1, <4>2, <4>3
    <3> QED BY <3>1, <3>2, Bytes
  <2> HIDE DEF s
  <2>2. Len(s) = Width - z
    BY <1>2
  <2> QED BY <2>1, <2>2
<1>4. Number(s) = g[Len(s)]
  <2> HIDE DEF g, s
  <2> QED BY <1>2, <1>3, NumberIs
<1>5. g[Width - z] = n
  <2>1. z + (Width - z) = Width /\ Width - z \in 0..(Width - z)
    BY Bytes
  <2> QED BY <2>1, LeadStep
<1> QED BY <1>1, <1>2, <1>4, <1>5

(* Go drops the leading zeros and nothing else.                               *)
LEMMA MinimalIsRest ==
    ASSUME NEW n \in Numbers
    PROVE \E z \in 0..Width :
            /\ Minimal(n) = SubSeq(Padded(n), z + 1, Width)
            /\ \A i \in 1..z : Padded(n)[i] = 0
            /\ z < Width => Padded(n)[z + 1] # 0
<1> DEFINE Z == {k \in 0..Width : \A i \in 1..k : Padded(n)[i] = 0}
           z == Max(Z)
<1>1. \E k \in Z : \A j \in Z : k >= j
  <2> DEFINE T == {j \in 0..Width : Width - j \in Z}
  <2>1. Width \in T
    <3>1. Width - Width = 0 /\ Width \in 0..Width /\ 0 \in 0..Width
      BY Bytes
    <3>2. 0 \in Z
      BY <3>1
    <3> QED BY <3>1, <3>2
  <2>2. T \subseteq Nat
    BY Bytes
  <2>3. PICK i \in T : \A j \in T : i <= j
    BY <2>1, <2>2, Least
  <2>4. ASSUME NEW j \in Z PROVE Width - i >= j
    <3>1. j \in 0..Width /\ Width - j \in 0..Width /\ Width - (Width - j) = j
      BY Bytes
    <3>2. Width - j \in T
      BY <3>1
    <3>3. i <= Width - j /\ i \in 0..Width
      BY <2>3, <3>2
    <3> QED BY <3>1, <3>3, Bytes
  <2>5. Width - i \in Z
    BY <2>3
  <2> QED BY <2>4, <2>5
<1>2. z \in Z /\ \A j \in Z : z >= j
  <2> HIDE DEF Z
  <2> QED BY <1>1 DEF Max
<1>3. Minimal(n) = SubSeq(Padded(n), z + 1, Width)
    BY DEF Minimal
<1> HIDE DEF z
<1>4. ASSUME z < Width, Padded(n)[z + 1] = 0 PROVE FALSE
  <2>1. z + 1 \in 0..Width /\ \A i \in 1..(z + 1) : i \in 1..z \/ i = z + 1
    BY <1>2, <1>4, Bytes
  <2>2. z + 1 \in Z
    BY <1>2, <1>4, <2>1
  <2> QED BY <1>2, <2>1, <2>2, Bytes
<1> QED BY <1>2, <1>3, <1>4

(* What a library writes for a number: bytes that are the number, Width of    *)
(* them unless it is Go and the number is short, and then few less.           *)
LEMMA Written ==
    ASSUME NEW lib \in Libraries, NEW n \in Values
    PROVE /\ NumberFor(lib, n) \in Seq(Nat)
          /\ Number(NumberFor(lib, n)) = n
          /\ Len(NumberFor(lib, n)) \in (Width - MaxLost)..Width
          /\ Len(NumberFor(lib, n)) = Width <=> lib # Go \/ n >= Power[Width - 1]
<1>1. n \in Numbers /\ n >= Power[Width - MaxLost - 1]
  <2>1. Width \in 0..Width /\ Width - MaxLost - 1 \in 0..Width
    BY Bytes
  <2>2. Power[Width - MaxLost - 1] \in Nat /\ Power[Width] \in Nat
    BY <2>1, PowerType
  <2>3. n \in Power[Width - MaxLost - 1]..(Power[Width] - 1)
    BY ValuesFit
  <2> QED BY <2>2, <2>3 DEF Numbers
<1>2. CASE lib # Go
  <2>1. NumberFor(lib, n) = Padded(n)
    BY <1>2 DEF NumberFor
  <2>2. Padded(n) \in Seq(Nat) /\ Len(Padded(n)) = Width
    BY <1>1, PaddedType
  <2>3. SubSeq(Padded(n), 0 + 1, Width) = Padded(n)
    BY <2>2, SubSeqFull
  <2>4. 0 \in 0..Width /\ \A i \in 1..0 : Padded(n)[i] = 0
    BY Bytes
  <2>5. Number(Padded(n)) = n
    BY <1>1, <2>3, <2>4, NumberOfRest
  <2> QED BY <1>2, <2>1, <2>2, <2>5, Bytes
<1>3. CASE lib = Go
  <2>1. NumberFor(lib, n) = Minimal(n)
    BY <1>3 DEF NumberFor
  <2>2. PICK z \in 0..Width :
            /\ Minimal(n) = SubSeq(Padded(n), z + 1, Width)
            /\ \A i \in 1..z : Padded(n)[i] = 0
            /\ z < Width => Padded(n)[z + 1] # 0
    BY <1>1, MinimalIsRest
  <2>3. /\ Minimal(n) \in Seq(Nat) /\ Len(Minimal(n)) = Width - z
        /\ Number(Minimal(n)) = n
    BY <1>1, <2>2, NumberOfRest
  <2>4. \A p \in Nat \ {0} : n \div p = 0 => n < p
    BY <1>1 DEF Numbers
  <2>5. z <= MaxLost
    <3>1. SUFFICES ASSUME z > MaxLost PROVE FALSE
      BY Bytes
    <3>2. /\ MaxLost + 1 \in 0..Width /\ \A i \in 1..(MaxLost + 1) : i \in 1..z
          /\ Width - (MaxLost + 1) = Width - MaxLost - 1
          /\ Width - MaxLost - 1 \in 0..Width
      BY <3>1, Bytes
    <3>3. Lead(n, MaxLost + 1) = 0
      BY <1>1, <2>2, <3>2, NumberOfRest
    <3>4. n \div Power[Width - MaxLost - 1] = 0
      BY <3>2, <3>3 DEF Lead
    <3>5. Power[Width - MaxLost - 1] \in Nat \ {0}
      BY <3>2, PowerType
    <3> QED BY <1>1, <2>4, <3>4, <3>5 DEF Numbers
  <2>6. z = 0 <=> n >= Power[Width - 1]
    <3>1. /\ 1 \in 1..Width /\ 1 \in 0..Width /\ 1 - 1 = 0 /\ Width - 1 \in 0..Width
      BY Bytes
    <3>2. Lead(n, 1) = Lead(n, 0) * Base + Padded(n)[1] /\ Lead(n, 0) = 0
          /\ Padded(n)[1] \in 0..(Base - 1)
      BY <1>1, <3>1, LeadStep
    <3>3. Lead(n, 1) = Padded(n)[1]
      BY <3>2, Bytes
    <3>4. Power[Width - 1] \in Nat \ {0} /\ n \in Nat
      BY <1>1, <3>1, PowerType DEF Numbers
    <3>5. n \div Power[Width - 1] = 0 <=> n < Power[Width - 1]
      BY <3>4
    <3>6. Lead(n, 1) = 0 <=> n < Power[Width - 1]
      BY <3>5 DEF Lead
    <3>7. z = 0 <=> Padded(n)[1] # 0
      BY <2>2, <3>1, Bytes
    <3> QED BY <3>3, <3>4, <3>6, <3>7
  <2> QED BY <1>3, <2>1, <2>3, <2>5, <2>6, Bytes
<1> QED BY <1>2, <1>3

-----------------------------------------------------------------------------
(* Capsules *)

(* A decryptor reads what was written behind its length and stops there.      *)
LEMMA ReadOne ==
    ASSUME NEW lib \in Libraries, NEW w \in Seq(Nat), NEW t \in Seq(Nat), t # <<>>, NEW fs
    PROVE ReadField(lib, [rest |-> <<Len(w)>> \o w \o t, fields |-> fs, ok |-> TRUE])
            = IF lib = Swift /\ Len(w) # Width THEN Unread
              ELSE [rest |-> t, fields |-> Append(fs, Number(w)), ok |-> TRUE]
<1> DEFINE n == Len(w)
           data == w \o t
           rest == <<n>> \o w \o t
<1>1. n \in Nat /\ Len(t) \in Nat \ {0} /\ <<n>> \in Seq(Nat) /\ Len(<<n>>) = 1
    OBVIOUS
<1>2. data \in Seq(Nat) /\ Len(data) = n + Len(t)
    OBVIOUS
<1>3. rest = <<n>> \o data
    BY <1>1, ConcatAssociative
<1>4. rest # <<>> /\ Head(rest) = n /\ Tail(rest) = data
  <2>1. /\ rest \in Seq(Nat) /\ Len(rest) = 1 + Len(data) /\ rest[1] = n
        /\ \A i \in 1..Len(data) : rest[i + 1] = data[i]
    BY <1>1, <1>2, <1>3
  <2>2. rest # <<>>
    BY <1>2, <2>1
  <2>3. Head(rest) = n
    BY <2>1, <2>2
  <2>4. /\ Tail(rest) \in Seq(Nat) /\ Len(Tail(rest)) = Len(data)
        /\ \A i \in 1..Len(Tail(rest)) : Tail(rest)[i] = rest[i + 1]
    BY <1>2, <2>1, <2>2, HeadTailProperties
  <2>5. Tail(rest) = data
    BY <1>2, <2>1, <2>4, SeqEqual
  <2> QED BY <2>2, <2>3, <2>5
<1>5. Min({n, Len(data)}) = n
  <2>1. n <= Len(data)
    BY <1>1, <1>2
  <2> QED BY <1>1, <1>2, <2>1 DEF Min
<1>6. SubSeq(data, 1, n) = w
  <2>1. \A i \in 1..n : data[i] = w[i] /\ w[i] \in Nat
    BY <1>1
  <2>2. /\ SubSeq(data, 1, n) \in Seq(Nat)
        /\ Len(SubSeq(data, 1, n)) = IF 1 <= n THEN n - 1 + 1 ELSE 0
        /\ \A i \in 1..(n - 1 + 1) : SubSeq(data, 1, n)[i] = data[1 + i - 1]
    BY <1>1, <2>1, SubSeqProperties
  <2>3. Len(SubSeq(data, 1, n)) = n /\ \A i \in 1..n : SubSeq(data, 1, n)[i] = w[i]
    BY <1>1, <2>1, <2>2
  <2> QED BY <2>2, <2>3, SeqEqual
<1>7. w \o Zeros(n - n) = w
  <2>1. Zeros(n - n) \in Seq(Nat) /\ Len(Zeros(n - n)) = 0
    BY <1>1 DEF Zeros
  <2>2. Zeros(n - n) = <<>>
    BY <2>1
  <2> QED BY <2>2, ConcatEmptySeq
<1>8. SubSeq(data, n + 1, Len(data)) = t
  <2>1. \A i \in (n + 1)..Len(data) : data[i] \in Nat
    BY <1>1, <1>2
  <2>2. /\ SubSeq(data, n + 1, Len(data)) \in Seq(Nat)
        /\ Len(SubSeq(data, n + 1, Len(data)))
             = IF n + 1 <= Len(data) THEN Len(data) - (n + 1) + 1 ELSE 0
        /\ \A i \in 1..(Len(data) - (n + 1) + 1) :
             SubSeq(data, n + 1, Len(data))[i] = data[n + 1 + i - 1]
    BY <1>1, <1>2, <2>1, SubSeqProperties
  <2>3. Len(SubSeq(data, n + 1, Len(data))) = Len(t)
    BY <1>1, <1>2, <2>2
  <2>4. \A i \in 1..Len(t) : data[n + 1 + i - 1] = t[i]
    BY <1>1
  <2>5. \A i \in 1..Len(t) : SubSeq(data, n + 1, Len(data))[i] = t[i]
    BY <1>1, <1>2, <2>2, <2>4
  <2> QED BY <2>2, <2>3, <2>5, SeqEqual
<1>9. Readable(lib, n, Len(data)) <=> ~(lib = Swift /\ n # Width)
    BY <1>1, <1>2 DEF Readable
<1> HIDE DEF n, data, rest
<1> DEFINE r == [rest |-> rest, fields |-> fs, ok |-> TRUE]
<1>10. r.ok /\ r.rest = rest /\ r.fields = fs
    OBVIOUS
<1>11. ReadField(lib, r)
         = IF ~Readable(lib, n, Len(data)) THEN Unread
           ELSE [rest |-> t, fields |-> Append(fs, Number(w)), ok |-> TRUE]
  <2> HIDE DEF r
  <2> QED BY <1>4, <1>5, <1>6, <1>7, <1>8, <1>10 DEF ReadField
<1> QED BY <1>9, <1>11 DEF n, rest

(* Where a decryptor is: with the rest to read and the numbers so far.        *)
At(rest, fields) == [rest |-> rest, fields |-> fields, ok |-> TRUE]
With(fields, n) == Append(fields, n)

(* Swift does not read a number that Go wrote short.                          *)
Unreadable(d, lib, n) == d = Swift /\ lib = Go /\ n < Power[Width - 1]

(* One of the five numbers, read by any library.                              *)
LEMMA ReadWritten ==
    ASSUME NEW lib \in Libraries, NEW d \in Libraries, NEW n \in Values,
           NEW t \in Seq(Nat), t # <<>>, NEW fs
    PROVE ReadField(d, At(WriteField(lib, n) \o t, fs))
            = IF Unreadable(d, lib, n) THEN Unread ELSE At(t, With(fs, n))
<1>1. /\ NumberFor(lib, n) \in Seq(Nat) /\ Number(NumberFor(lib, n)) = n
      /\ Len(NumberFor(lib, n)) = Width <=> lib # Go \/ n >= Power[Width - 1]
    BY Written
<1>2. n \in Nat /\ Power[Width - 1] \in Nat
  <2>1. Width - MaxLost - 1 \in 0..Width /\ Width - 1 \in 0..Width
    BY Bytes
  <2> QED BY <2>1, PowerType, ValuesFit
<1>3. ReadField(d, At(WriteField(lib, n) \o t, fs))
        = IF d = Swift /\ Len(NumberFor(lib, n)) # Width THEN Unread
          ELSE At(t, With(fs, n))
    BY <1>1, ReadOne DEF WriteField, At, With
<1>4. d = Swift /\ Len(NumberFor(lib, n)) # Width <=> Unreadable(d, lib, n)
    BY <1>1, <1>2 DEF Unreadable
<1> QED BY <1>3, <1>4

LEMMA ReadUnread == \A lib \in Libraries : ReadField(lib, Unread) = Unread
<1>1. ~Unread.ok
    BY DEF Unread
<1> QED BY <1>1 DEF ReadField

(* The five reads of Decode, one after the other.                             *)
LEMMA DecodeReads ==
    ASSUME NEW lib, NEW bytes, NEW r1, NEW r2, NEW r3, NEW r4, NEW r5,
           r1 = ReadField(lib, [rest |-> bytes, fields |-> <<>>, ok |-> TRUE]),
           r2 = ReadField(lib, r1), r3 = ReadField(lib, r2),
           r4 = ReadField(lib, r3), r5 = ReadField(lib, r4)
    PROVE Decode(lib, bytes)
            = IF ~r5.ok \/ ~EndReadable(lib, r5.rest) THEN None
              ELSE [fields |-> r5.fields, chunkSize |-> ChunkSizeFor(lib, r5.rest[1])]
<1> DEFINE r0 == [rest |-> bytes, fields |-> <<>>, ok |-> TRUE]
           Reads(f) == f = [i \in 0..5 |-> IF i = 0 THEN r0 ELSE ReadField(lib, f[i - 1])]
           h == [i \in 0..5 |-> IF i = 0 THEN r0 ELSE <<r1, r2, r3, r4, r5>>[i]]
           f == CHOOSE f : Reads(f)
<1>1. Decode(lib, bytes)
        = IF ~f[5].ok \/ ~EndReadable(lib, f[5].rest) THEN None
          ELSE [fields |-> f[5].fields, chunkSize |-> ChunkSizeFor(lib, f[5].rest[1])]
    BY DEF Decode
<1>2. r1 = ReadField(lib, r0)
    OBVIOUS
<1> HIDE DEF r0
<1>3. Reads(h)
  <2>1. /\ h[0] = r0 /\ h[1] = r1 /\ h[2] = r2 /\ h[3] = r3 /\ h[4] = r4 /\ h[5] = r5
    OBVIOUS
  <2>2. ASSUME NEW i \in 0..5 PROVE h[i] = IF i = 0 THEN r0 ELSE ReadField(lib, h[i - 1])
    <3>1. i = 0 \/ i = 1 \/ i = 2 \/ i = 3 \/ i = 4 \/ i = 5
      OBVIOUS
    <3> HIDE DEF h
    <3>2. CASE i = 0
      BY <2>1, <3>2
    <3>3. CASE i = 1
      BY <1>2, <2>1, <3>3
    <3>4. CASE i = 2
      BY <2>1, <3>4
    <3>5. CASE i = 3
      BY <2>1, <3>5
    <3>6. CASE i = 4
      BY <2>1, <3>6
    <3>7. CASE i = 5
      BY <2>1, <3>7
    <3> QED BY <3>1, <3>2, <3>3, <3>4, <3>5, <3>6, <3>7
  <2> QED BY <2>2
<1>4. Reads(f)
  <2> HIDE DEF h
  <2> QED BY <1>3
<1> HIDE DEF f, h
<1>5. f[0] = r0 /\ \A i \in 1..5 : f[i] = ReadField(lib, f[i - 1])
    BY <1>4
<1>6. f[1] = r1
    BY <1>2, <1>5
<1>7. f[2] = r2
    BY <1>5, <1>6
<1>8. f[3] = r3
    BY <1>5, <1>7
<1>9. f[4] = r4
    BY <1>5, <1>8
<1>10. f[5] = r5
    BY <1>5, <1>9
<1> QED BY <1>1, <1>10

(* Concatenation under a name that the provers do not take apart.             *)
Join(x, y) == x \o y

LEMMA JoinType == \A x, y \in Seq(Nat) : Join(x, y) \in Seq(Nat)
BY DEF Join

LEMMA JoinAssociates ==
    ASSUME NEW x \in Seq(Nat), NEW y \in Seq(Nat), NEW z \in Seq(Nat)
    PROVE Join(Join(x, y), z) = Join(x, Join(y, z))
BY ConcatAssociative DEF Join

LEMMA Regroup ==
    ASSUME NEW a \in Seq(Nat), NEW b \in Seq(Nat), NEW c \in Seq(Nat),
           NEW d \in Seq(Nat), NEW e \in Seq(Nat), NEW f \in Seq(Nat)
    PROVE Join(Join(Join(Join(Join(a, b), c), d), e), f)
            = Join(a, Join(b, Join(c, Join(d, Join(e, f)))))
<1> DEFINE ef == Join(e, f)
           def == Join(d, ef)
           cdef == Join(c, def)
           ab == Join(a, b)
           abc == Join(ab, c)
           abcd == Join(abc, d)
<1>1. ab \in Seq(Nat) /\ ef \in Seq(Nat)
    BY JoinType
<1>2. abc \in Seq(Nat) /\ def \in Seq(Nat)
    BY <1>1, JoinType
<1>3. abcd \in Seq(Nat) /\ cdef \in Seq(Nat)
    BY <1>2, JoinType
<1>4. Join(Join(abcd, e), f) = Join(abcd, ef)
    BY <1>3, JoinAssociates
<1>5. Join(Join(abc, d), ef) = Join(abc, def)
    BY <1>1, <1>2, JoinAssociates
<1>6. Join(Join(ab, c), def) = Join(ab, cdef)
    BY <1>1, <1>2, JoinAssociates
<1>7. Join(Join(a, b), cdef) = Join(a, Join(b, cdef))
    BY <1>3, JoinAssociates
<1> QED BY <1>4, <1>5, <1>6, <1>7

(* The rest is never empty when a number is read.                             *)
Some == Seq(Nat) \ {<<>>}

(* After a refusal nothing is read.                                           *)
LEMMA ReadNext ==
    ASSUME NEW d \in Libraries, NEW lib \in Libraries, NEW n \in Values,
           NEW t \in Some, NEW fs, NEW r,
           r \in {Unread, At(Join(WriteField(lib, n), t), fs)}
    PROVE /\ ReadField(d, r) \in {Unread, At(t, With(fs, n))}
          /\ ReadField(d, r) = Unread <=> r = Unread \/ Unreadable(d, lib, n)
<1>1. \A rest, fields : At(rest, fields) # Unread
  <2>1. \A rest, fields : At(rest, fields).ok
    BY DEF At
  <2>2. ~Unread.ok
    BY DEF Unread
  <2> QED BY <2>1, <2>2
<1>2. CASE r = Unread
    BY <1>2, ReadUnread
<1>3. CASE r = At(WriteField(lib, n) \o t, fs)
  <2>1. ReadField(d, r) = IF Unreadable(d, lib, n) THEN Unread ELSE At(t, With(fs, n))
    BY <1>3, ReadWritten DEF Some
  <2> QED BY <1>1, <1>3, <2>1
<1> QED BY <1>2, <1>3 DEF Join

(* What a capsule's bytes are, each number before the rest.                   *)
Layout(lib, cap, t0, t1, t2, t3, t4) ==
    /\ t0 = Join(WriteField(lib, cap.fields[1]), t1)
    /\ t1 = Join(WriteField(lib, cap.fields[2]), t2)
    /\ t2 = Join(WriteField(lib, cap.fields[3]), t3)
    /\ t3 = Join(WriteField(lib, cap.fields[4]), t4)
    /\ t4 = Join(WriteField(lib, cap.fields[5]), <<cap.chunkSize, 0>>)

LEMMA EncodeRests ==
    ASSUME NEW lib \in Libraries, NEW cap,
           cap.fields \in [1..5 -> Values], cap.chunkSize \in ChunkSizes
    PROVE \E t0, t1, t2, t3, t4 \in Some :
            Encode(lib, cap) = t0 /\ Layout(lib, cap, t0, t1, t2, t3, t4)
<1> DEFINE w(i) == WriteField(lib, cap.fields[i])
           t5 == <<cap.chunkSize, 0>>
           t4 == Join(w(5), t5)
           t3 == Join(w(4), t4)
           t2 == Join(w(3), t3)
           t1 == Join(w(2), t2)
           t0 == Join(w(1), t1)
<1>1. \A i \in 1..5 : w(i) \in Seq(Nat) /\ Len(w(i)) >= 1
  <2>1. ASSUME NEW i \in 1..5 PROVE w(i) \in Seq(Nat) /\ Len(w(i)) >= 1
    <3>1. cap.fields[i] \in Values
      OBVIOUS
    <3>2. NumberFor(lib, cap.fields[i]) \in Seq(Nat)
      BY <3>1, Written
    <3> QED BY <3>2 DEF WriteField
  <2> QED BY <2>1
<1>2. t5 \in Seq(Nat) /\ cap.chunkSize \in Nat
  <2>1. cap.chunkSize \in 0..(2 * SignedMax + 1)
    BY ChunkSizesFit
  <2> QED BY <2>1
<1>3. Encode(lib, cap)
        = Join(Join(Join(Join(Join(w(1), w(2)), w(3)), w(4)), w(5)), t5)
    BY DEF Encode, Join
<1> HIDE DEF w, t5
<1>4. \A a, b \in Seq(Nat) : Join(a, b) \in Seq(Nat) /\ Len(Join(a, b)) = Len(a) + Len(b)
    BY DEF Join
<1>5. ASSUME NEW a \in Seq(Nat), NEW b \in Seq(Nat), Len(a) >= 1
      PROVE Join(a, b) \in Some
  <2>1. Join(a, b) \in Seq(Nat) /\ Len(Join(a, b)) >= 1
    BY <1>4, <1>5
  <2> QED BY <2>1 DEF Some
<1>6. t4 \in Some
    BY <1>1, <1>2, <1>5
<1>7. t3 \in Some
  <2> HIDE DEF t4
  <2> QED BY <1>1, <1>5, <1>6 DEF Some
<1>8. t2 \in Some
  <2> HIDE DEF t3
  <2> QED BY <1>1, <1>5, <1>7 DEF Some
<1>9. t1 \in Some
  <2> HIDE DEF t2
  <2> QED BY <1>1, <1>5, <1>8 DEF Some
<1>10. t0 \in Some
  <2> HIDE DEF t1
  <2> QED BY <1>1, <1>5, <1>9 DEF Some
<1>11. Encode(lib, cap) = t0
  <2>1. /\ w(1) \in Seq(Nat) /\ w(2) \in Seq(Nat) /\ w(3) \in Seq(Nat)
        /\ w(4) \in Seq(Nat) /\ w(5) \in Seq(Nat) /\ t5 \in Seq(Nat)
    BY <1>1, <1>2
  <2> QED BY <1>3, <2>1, Regroup
<1>12. Layout(lib, cap, t0, t1, t2, t3, t4)
    BY DEF Layout, w, t5
<1> HIDE DEF t0, t1, t2, t3, t4
<1> QED BY <1>6, <1>7, <1>8, <1>9, <1>10, <1>11, <1>12

LEMMA WithOne ==
    ASSUME NEW g \in Seq(Values), NEW x \in Values
    PROVE /\ With(g, x) \in Seq(Values) /\ Len(With(g, x)) = Len(g) + 1
          /\ \A i \in 1..Len(g) : With(g, x)[i] = g[i]
          /\ With(g, x)[Len(g) + 1] = x
BY AppendProperties DEF With

LEMMA With1 ==
    ASSUME NEW g \in Seq(Values), NEW x \in Values, Len(g) = 0
    PROVE /\ With(g, x) \in Seq(Values) /\ Len(With(g, x)) = 1
          /\ With(g, x)[1] = x
<1>1. /\ With(g, x) \in Seq(Values) /\ Len(With(g, x)) = Len(g) + 1
      /\ \A i \in 1..Len(g) : With(g, x)[i] = g[i]
      /\ With(g, x)[Len(g) + 1] = x
    BY WithOne, Zenon
<1> QED BY <1>1

LEMMA With2 ==
    ASSUME NEW g \in Seq(Values), NEW x \in Values, Len(g) = 1
    PROVE /\ With(g, x) \in Seq(Values) /\ Len(With(g, x)) = 2
          /\ With(g, x)[1] = g[1]
          /\ With(g, x)[2] = x
<1>1. /\ With(g, x) \in Seq(Values) /\ Len(With(g, x)) = Len(g) + 1
      /\ \A i \in 1..Len(g) : With(g, x)[i] = g[i]
      /\ With(g, x)[Len(g) + 1] = x
    BY WithOne, Zenon
<1> QED BY <1>1

LEMMA With3 ==
    ASSUME NEW g \in Seq(Values), NEW x \in Values, Len(g) = 2
    PROVE /\ With(g, x) \in Seq(Values) /\ Len(With(g, x)) = 3
          /\ With(g, x)[1] = g[1] /\ With(g, x)[2] = g[2]
          /\ With(g, x)[3] = x
<1>1. /\ With(g, x) \in Seq(Values) /\ Len(With(g, x)) = Len(g) + 1
      /\ \A i \in 1..Len(g) : With(g, x)[i] = g[i]
      /\ With(g, x)[Len(g) + 1] = x
    BY WithOne, Zenon
<1> QED BY <1>1

LEMMA With4 ==
    ASSUME NEW g \in Seq(Values), NEW x \in Values, Len(g) = 3
    PROVE /\ With(g, x) \in Seq(Values) /\ Len(With(g, x)) = 4
          /\ With(g, x)[1] = g[1] /\ With(g, x)[2] = g[2] /\ With(g, x)[3] = g[3]
          /\ With(g, x)[4] = x
<1>1. /\ With(g, x) \in Seq(Values) /\ Len(With(g, x)) = Len(g) + 1
      /\ \A i \in 1..Len(g) : With(g, x)[i] = g[i]
      /\ With(g, x)[Len(g) + 1] = x
    BY WithOne, Zenon
<1> QED BY <1>1

LEMMA With5 ==
    ASSUME NEW g \in Seq(Values), NEW x \in Values, Len(g) = 4
    PROVE /\ With(g, x) \in Seq(Values) /\ Len(With(g, x)) = 5
          /\ With(g, x)[1] = g[1] /\ With(g, x)[2] = g[2] /\ With(g, x)[3] = g[3]
          /\ With(g, x)[4] = g[4]
          /\ With(g, x)[5] = x
<1>1. /\ With(g, x) \in Seq(Values) /\ Len(With(g, x)) = Len(g) + 1
      /\ \A i \in 1..Len(g) : With(g, x)[i] = g[i]
      /\ With(g, x)[Len(g) + 1] = x
    BY WithOne, Zenon
<1> QED BY <1>1

LEMMA FiveFields ==
    ASSUME NEW f \in [1..5 -> Values]
    PROVE With(With(With(With(With(<<>>, f[1]), f[2]), f[3]), f[4]), f[5]) = f
<1>1. /\ f[1] \in Values /\ f[2] \in Values /\ f[3] \in Values
      /\ f[4] \in Values /\ f[5] \in Values
    OBVIOUS
<1>2. f \in Seq(Values) /\ Len(f) = 5
  <2>1. f \in Seq(Values)
    BY SeqDef
  <2>2. DOMAIN f = 1..5 /\ DOMAIN f = 1..Len(f) /\ Len(f) \in Nat
    BY <2>1, LenProperties
  <2>3. 5 \in 1..Len(f) /\ 1..Len(f) = 1..5
    BY <2>2
  <2>4. 5 <= Len(f) /\ Len(f) \in 1..5
    BY <2>2, <2>3
  <2> QED BY <2>1, <2>2, <2>4
<1> DEFINE f0 == <<>>
           f1 == With(f0, f[1])
           f2 == With(f1, f[2])
           f3 == With(f2, f[3])
           f4 == With(f3, f[4])
           f5 == With(f4, f[5])
<1>3. f0 \in Seq(Values) /\ Len(f0) = 0
    OBVIOUS
<1> HIDE DEF f0
<1>4. f1 \in Seq(Values) /\ Len(f1) = 1 /\ f1[1] = f[1]
    BY <1>1, <1>3, With1, Zenon
<1> HIDE DEF f1
<1>5. f2 \in Seq(Values) /\ Len(f2) = 2 /\ f2[1] = f[1] /\ f2[2] = f[2]
    BY <1>1, <1>4, With2, Zenon
<1> HIDE DEF f2
<1>6. /\ f3 \in Seq(Values) /\ Len(f3) = 3
      /\ f3[1] = f[1] /\ f3[2] = f[2] /\ f3[3] = f[3]
    BY <1>1, <1>5, With3, Zenon
<1> HIDE DEF f3
<1>7. /\ f4 \in Seq(Values) /\ Len(f4) = 4
      /\ f4[1] = f[1] /\ f4[2] = f[2] /\ f4[3] = f[3] /\ f4[4] = f[4]
    BY <1>1, <1>6, With4, Zenon
<1> HIDE DEF f4
<1>8. /\ f5 \in Seq(Values) /\ Len(f5) = 5
      /\ f5[1] = f[1] /\ f5[2] = f[2] /\ f5[3] = f[3] /\ f5[4] = f[4] /\ f5[5] = f[5]
    BY <1>1, <1>7, With5, Zenon
<1> HIDE DEF f5
<1>9. f5 = f
    BY <1>2, <1>8, SeqEqual
<1> QED BY <1>9 DEF f0, f1, f2, f3, f4, f5

(* What any library decodes of what any library encoded: the numbers and its  *)
(* own reading of the chunk size.  Only Swift refuses, a chunk size above its *)
(* maximum or a short number that Go wrote (encodeCapsule and decodeCapsule   *)
(* of the three libraries).                                                   *)
THEOREM RoundTrip ==
    ASSUME NEW lib \in Libraries, NEW d \in Libraries, NEW cap,
           cap.fields \in [1..5 -> Values], cap.chunkSize \in ChunkSizes
    PROVE Decode(d, Encode(lib, cap))
            = IF \/ d = Swift /\ cap.chunkSize > SwiftMax
                 \/ d = Swift /\ lib = Go /\ IsShort(cap.fields)
              THEN None
              ELSE [fields |-> cap.fields, chunkSize |-> ChunkSizeFor(d, cap.chunkSize)]
<1> DEFINE n(i) == cap.fields[i]
           bad(i) == Unreadable(d, lib, n(i))
           end == <<cap.chunkSize, 0>>
<1>0. PICK t0, t1, t2, t3, t4 \in Some :
        Encode(lib, cap) = t0 /\ Layout(lib, cap, t0, t1, t2, t3, t4)
    BY EncodeRests
<1>1. /\ Encode(lib, cap) = t0
      /\ t0 = Join(WriteField(lib, n(1)), t1) /\ t1 = Join(WriteField(lib, n(2)), t2)
      /\ t2 = Join(WriteField(lib, n(3)), t3) /\ t3 = Join(WriteField(lib, n(4)), t4)
      /\ t4 = Join(WriteField(lib, n(5)), end)
    BY <1>0 DEF Layout
<1>2. /\ n(1) \in Values /\ n(2) \in Values /\ n(3) \in Values
      /\ n(4) \in Values /\ n(5) \in Values
    OBVIOUS
<1>3. cap.chunkSize \in Nat
  <2>1. cap.chunkSize \in 0..(2 * SignedMax + 1)
    BY ChunkSizesFit
  <2> QED BY <2>1
<1>4. end \in Some /\ Len(end) = 2 /\ end[1] = cap.chunkSize /\ end[2] = 0
    BY <1>3 DEF Some
<1> HIDE DEF n, end
<1> DEFINE f0 == <<>>
           f1 == With(f0, n(1))
           f2 == With(f1, n(2))
           f3 == With(f2, n(3))
           f4 == With(f3, n(4))
           f5 == With(f4, n(5))
<1>5. f5 = cap.fields
    BY FiveFields DEF n
<1> HIDE DEF f0, f1, f2, f3, f4, f5
<1> DEFINE r0 == At(t0, f0)
           r1 == ReadField(d, r0)
           r2 == ReadField(d, r1)
           r3 == ReadField(d, r2)
           r4 == ReadField(d, r3)
           r5 == ReadField(d, r4)
<1>6. Decode(d, Encode(lib, cap))
        = IF ~r5.ok \/ ~EndReadable(d, r5.rest) THEN None
          ELSE [fields |-> r5.fields, chunkSize |-> ChunkSizeFor(d, r5.rest[1])]
  <2>1. r0 = [rest |-> Encode(lib, cap), fields |-> <<>>, ok |-> TRUE]
    BY <1>1 DEF At, f0
  <2> HIDE DEF r0
  <2> QED BY <2>1, DecodeReads
<1> HIDE DEF bad
<1>7. r1 \in {Unread, At(t1, f1)} /\ (r1 = Unread <=> bad(1))
  <2>1. r0 = At(Join(WriteField(lib, n(1)), t1), f0) /\ r0 # Unread
    BY <1>1 DEF At, Unread
  <2> HIDE DEF r0
  <2> QED BY <1>1, <1>2, <2>1, ReadNext DEF bad, f1
<1> HIDE DEF r1, r2, r3, r4, r5
<1>8. r2 \in {Unread, At(t2, f2)} /\ (r2 = Unread <=> bad(1) \/ bad(2))
  <2>1. r1 \in {Unread, At(Join(WriteField(lib, n(2)), t2), f1)}
    BY <1>1, <1>7
  <2>2. t2 \in Some /\ n(2) \in Values
    BY <1>1, <1>2
  <2>3. /\ r2 \in {Unread, At(t2, f2)}
        /\ r2 = Unread <=> r1 = Unread \/ bad(2)
    BY <2>1, <2>2, ReadNext DEF bad, f2, r2
  <2> QED BY <1>7, <2>3
<1>9. r3 \in {Unread, At(t3, f3)} /\ (r3 = Unread <=> bad(1) \/ bad(2) \/ bad(3))
  <2>1. r2 \in {Unread, At(Join(WriteField(lib, n(3)), t3), f2)}
    BY <1>1, <1>8
  <2>2. t3 \in Some /\ n(3) \in Values
    BY <1>1, <1>2
  <2>3. /\ r3 \in {Unread, At(t3, f3)}
        /\ r3 = Unread <=> r2 = Unread \/ bad(3)
    BY <2>1, <2>2, ReadNext DEF bad, f3, r3
  <2> QED BY <1>8, <2>3
<1>10. /\ r4 \in {Unread, At(t4, f4)}
       /\ r4 = Unread <=> bad(1) \/ bad(2) \/ bad(3) \/ bad(4)
  <2>1. r3 \in {Unread, At(Join(WriteField(lib, n(4)), t4), f3)}
    BY <1>1, <1>9
  <2>2. t4 \in Some /\ n(4) \in Values
    BY <1>1, <1>2
  <2>3. /\ r4 \in {Unread, At(t4, f4)}
        /\ r4 = Unread <=> r3 = Unread \/ bad(4)
    BY <2>1, <2>2, ReadNext DEF bad, f4, r4
  <2> QED BY <1>9, <2>3
<1>11. /\ r5 \in {Unread, At(end, f5)}
       /\ r5 = Unread <=> bad(1) \/ bad(2) \/ bad(3) \/ bad(4) \/ bad(5)
  <2>1. r4 \in {Unread, At(Join(WriteField(lib, n(5)), end), f4)}
    BY <1>1, <1>10
  <2>2. end \in Some /\ n(5) \in Values
    BY <1>2, <1>4
  <2>3. /\ r5 \in {Unread, At(end, f5)}
        /\ r5 = Unread <=> r4 = Unread \/ bad(5)
    BY <2>1, <2>2, ReadNext DEF bad, f5, r5
  <2> QED BY <1>10, <2>3
<1>12. r5 = Unread <=> d = Swift /\ lib = Go /\ IsShort(cap.fields)
  <2>1. IsShort(cap.fields) <=> \E i \in 1..5 : n(i) < Power[Width - 1]
    BY DEF IsShort, n
  <2>2. (\E i \in 1..5 : n(i) < Power[Width - 1])
          <=> \/ n(1) < Power[Width - 1] \/ n(2) < Power[Width - 1]
              \/ n(3) < Power[Width - 1] \/ n(4) < Power[Width - 1]
              \/ n(5) < Power[Width - 1]
    OBVIOUS
  <2> QED BY <1>11, <2>1, <2>2 DEF bad, Unreadable
<1>13. EndReadable(d, end) <=> ~(d = Swift /\ cap.chunkSize > SwiftMax)
  <2>1. SwiftMax \in Nat
    BY Limits
  <2>2. EndReadable(d, end) <=> (d = Swift => end[1] <= SwiftMax)
    BY <1>4 DEF EndReadable
  <2>3. EndReadable(d, end) <=> (d = Swift => cap.chunkSize <= SwiftMax)
    BY <1>4, <2>2
  <2> QED BY <1>3, <2>1, <2>3
<1>14. CASE r5 = Unread
  <2>1. ~r5.ok
    BY <1>14 DEF Unread
  <2> QED BY <1>6, <1>12, <1>14, <2>1
<1>15. CASE r5 # Unread
  <2>1. r5.ok /\ r5.rest = end /\ r5.fields = cap.fields
    BY <1>5, <1>11, <1>15 DEF At
  <2> QED BY <1>4, <1>6, <1>12, <1>13, <1>15, <2>1
<1> QED BY <1>14, <1>15

-----------------------------------------------------------------------------
(* Lengths *)

(* What a decryptor of d reads of what lib wrote, by a capsule's length: not  *)
(* a short number of Go's, by any library.                                    *)
ReadAs(d, lib, cap) ==
    IF (lib = Go /\ IsShort(cap.fields)) \/ (d = Swift /\ cap.chunkSize > SwiftMax)
    THEN None
    ELSE [fields |-> cap.fields, chunkSize |-> ChunkSizeFor(d, cap.chunkSize)]

Full(lib, cap) == ~(lib = Go /\ IsShort(cap.fields))

LEMMA SumOfFive ==
    ASSUME NEW w \in Nat, NEW lost \in Nat,
           NEW a \in Nat, NEW b \in Nat, NEW c \in Nat, NEW d \in Nat, NEW e \in Nat,
           a <= w, b <= w, c <= w, d <= w, e <= w,
           w <= a + lost, w <= b + lost, w <= c + lost, w <= d + lost, w <= e + lost
    PROVE LET sum == a + b + c + d + e
          IN  /\ sum \in Nat /\ sum <= 5 * w /\ 5 * w <= sum + 5 * lost
              /\ sum = 5 * w <=> a = w /\ b = w /\ c = w /\ d = w /\ e = w
OBVIOUS

LEMMA WrittenLength ==
    ASSUME NEW lib \in Libraries, NEW n \in Values
    PROVE /\ WriteField(lib, n) \in Seq(Nat)
          /\ Len(WriteField(lib, n)) = 1 + Len(NumberFor(lib, n))
          /\ Len(NumberFor(lib, n)) \in Nat
          /\ Len(NumberFor(lib, n)) <= Width
          /\ Width <= Len(NumberFor(lib, n)) + MaxLost
          /\ Len(NumberFor(lib, n)) = Width <=> ~(lib = Go /\ n < Power[Width - 1])
<1>1. /\ NumberFor(lib, n) \in Seq(Nat)
      /\ Len(NumberFor(lib, n)) \in (Width - MaxLost)..Width
      /\ Len(NumberFor(lib, n)) = Width <=> lib # Go \/ n >= Power[Width - 1]
    BY Written
<1>2. n \in Nat /\ Power[Width - 1] \in Nat
  <2>1. Width - MaxLost - 1 \in 0..Width /\ Width - 1 \in 0..Width
    BY Bytes
  <2> QED BY <2>1, PowerType, ValuesFit
<1>3. /\ WriteField(lib, n) \in Seq(Nat)
      /\ Len(WriteField(lib, n)) = 1 + Len(NumberFor(lib, n))
    BY <1>1 DEF WriteField
<1> QED BY <1>1, <1>2, <1>3, Bytes

(* Sequences and their lengths, of which nothing else is needed here.         *)
ByteSeqs == Seq(Nat)
Size(x) == Len(x)

LEMMA JoinSize ==
    \A x, y \in ByteSeqs : Join(x, y) \in ByteSeqs /\ Size(Join(x, y)) = Size(x) + Size(y)
BY DEF Join, ByteSeqs, Size

LEMMA JoinOfSix ==
    ASSUME NEW w1 \in ByteSeqs, NEW w2 \in ByteSeqs, NEW w3 \in ByteSeqs,
           NEW w4 \in ByteSeqs, NEW w5 \in ByteSeqs, NEW end \in ByteSeqs
    PROVE LET all == Join(Join(Join(Join(Join(w1, w2), w3), w4), w5), end)
          IN  /\ all \in ByteSeqs
              /\ Size(all) = Size(w1) + Size(w2) + Size(w3) + Size(w4) + Size(w5) + Size(end)
<1> DEFINE j2 == Join(w1, w2)
           j3 == Join(j2, w3)
           j4 == Join(j3, w4)
           j5 == Join(j4, w5)
           all == Join(j5, end)
<1>1. j2 \in ByteSeqs /\ Size(j2) = Size(w1) + Size(w2)
    BY JoinSize
<1> HIDE DEF j2
<1>2. j3 \in ByteSeqs /\ Size(j3) = Size(j2) + Size(w3)
    BY <1>1, JoinSize
<1> HIDE DEF j3
<1>3. j4 \in ByteSeqs /\ Size(j4) = Size(j3) + Size(w4)
    BY <1>2, JoinSize
<1> HIDE DEF j4
<1>4. j5 \in ByteSeqs /\ Size(j5) = Size(j4) + Size(w5)
    BY <1>3, JoinSize
<1> HIDE DEF j5
<1>5. all \in ByteSeqs /\ Size(all) = Size(j5) + Size(end)
    BY <1>4, JoinSize
<1> HIDE DEF all
<1>6. all \in ByteSeqs
      /\ Size(all) = Size(w1) + Size(w2) + Size(w3) + Size(w4) + Size(w5) + Size(end)
    BY <1>1, <1>2, <1>3, <1>4, <1>5
<1> QED BY <1>6 DEF all, j5, j4, j3, j2

(* The bytes of one number.                                                   *)
FieldSize(lib, n) == Size(NumberFor(lib, n))

LEMMA FieldSizes ==
    ASSUME NEW lib \in Libraries, NEW n \in Values
    PROVE /\ WriteField(lib, n) \in ByteSeqs
          /\ Size(WriteField(lib, n)) = 1 + FieldSize(lib, n)
          /\ FieldSize(lib, n) \in Nat
          /\ FieldSize(lib, n) <= Width /\ Width <= FieldSize(lib, n) + MaxLost
          /\ FieldSize(lib, n) = Width <=> ~(lib = Go /\ n < Power[Width - 1])
BY WrittenLength DEF ByteSeqs, Size, FieldSize

LEMMA EncodeSize ==
    ASSUME NEW lib \in Libraries, NEW cap,
           cap.fields \in [1..5 -> Values], cap.chunkSize \in ChunkSizes
    PROVE /\ Encode(lib, cap) \in ByteSeqs
          /\ Size(Encode(lib, cap))
               = FieldSize(lib, cap.fields[1]) + FieldSize(lib, cap.fields[2])
                 + FieldSize(lib, cap.fields[3]) + FieldSize(lib, cap.fields[4])
                 + FieldSize(lib, cap.fields[5]) + 7
<1> DEFINE end == <<cap.chunkSize, 0>>
           w(i) == WriteField(lib, cap.fields[i])
           l(i) == FieldSize(lib, cap.fields[i])
<1>1. end \in ByteSeqs /\ Size(end) = 2
  <2>1. cap.chunkSize \in 0..(2 * SignedMax + 1)
    BY ChunkSizesFit
  <2> QED BY <2>1 DEF ByteSeqs, Size
<1>2. Encode(lib, cap) = Join(Join(Join(Join(Join(w(1), w(2)), w(3)), w(4)), w(5)), end)
    BY DEF Encode, Join
<1>3. \A i \in 1..5 : w(i) \in ByteSeqs /\ Size(w(i)) = 1 + l(i) /\ l(i) \in Nat
    BY FieldSizes
<1>4. 1 \in 1..5 /\ 2 \in 1..5 /\ 3 \in 1..5 /\ 4 \in 1..5 /\ 5 \in 1..5
    OBVIOUS
<1> HIDE DEF w, l, end
<1>5. /\ Encode(lib, cap) \in ByteSeqs
      /\ Size(Encode(lib, cap))
           = Size(w(1)) + Size(w(2)) + Size(w(3)) + Size(w(4)) + Size(w(5)) + Size(end)
  <2>1. /\ w(1) \in ByteSeqs /\ w(2) \in ByteSeqs /\ w(3) \in ByteSeqs
        /\ w(4) \in ByteSeqs /\ w(5) \in ByteSeqs
    BY <1>3, <1>4
  <2> QED BY <1>1, <1>2, <2>1, JoinOfSix
<1>6. Size(w(1)) = 1 + l(1) /\ l(1) \in Nat
    BY <1>3, <1>4
<1>7. Size(w(2)) = 1 + l(2) /\ l(2) \in Nat
    BY <1>3, <1>4
<1>8. Size(w(3)) = 1 + l(3) /\ l(3) \in Nat
    BY <1>3, <1>4
<1>9. Size(w(4)) = 1 + l(4) /\ l(4) \in Nat
    BY <1>3, <1>4
<1>10. Size(w(5)) = 1 + l(5) /\ l(5) \in Nat
    BY <1>3, <1>4
<1>11. Size(Encode(lib, cap)) = l(1) + l(2) + l(3) + l(4) + l(5) + 7
    BY <1>1, <1>5, <1>6, <1>7, <1>8, <1>9, <1>10
<1> QED BY <1>5, <1>11 DEF l

(* A capsule has its full length unless one of Go's numbers is short, and     *)
(* then lacks less than a point.                                              *)
LEMMA CapsuleLength ==
    ASSUME NEW lib \in Libraries, NEW cap,
           cap.fields \in [1..5 -> Values], cap.chunkSize \in ChunkSizes
    PROVE /\ Encode(lib, cap) \in ByteSeqs
          /\ Size(Encode(lib, cap)) \in Nat
          /\ Size(Encode(lib, cap)) <= CapsuleSize
          /\ CapsuleSize < Size(Encode(lib, cap)) + 1 + 2 * Width
          /\ Size(Encode(lib, cap)) = CapsuleSize <=> Full(lib, cap)
<1> DEFINE short(i) == lib = Go /\ cap.fields[i] < Power[Width - 1]
           l(i) == FieldSize(lib, cap.fields[i])
           sum == l(1) + l(2) + l(3) + l(4) + l(5)
<1>1. /\ Encode(lib, cap) \in ByteSeqs
      /\ Size(Encode(lib, cap)) = sum + 7
    BY EncodeSize
<1>2. Full(lib, cap) <=> ~short(1) /\ ~short(2) /\ ~short(3) /\ ~short(4) /\ ~short(5)
    BY DEF Full, IsShort
<1>3. \A i \in 1..5 :
        /\ l(i) \in Nat /\ l(i) <= Width /\ Width <= l(i) + MaxLost
        /\ l(i) = Width <=> ~short(i)
    BY FieldSizes
<1> HIDE DEF l, short
<1>4. l(1) \in Nat /\ l(1) <= Width /\ Width <= l(1) + MaxLost /\ (l(1) = Width <=> ~short(1))
    BY <1>3
<1>5. l(2) \in Nat /\ l(2) <= Width /\ Width <= l(2) + MaxLost /\ (l(2) = Width <=> ~short(2))
    BY <1>3
<1>6. l(3) \in Nat /\ l(3) <= Width /\ Width <= l(3) + MaxLost /\ (l(3) = Width <=> ~short(3))
    BY <1>3
<1>7. l(4) \in Nat /\ l(4) <= Width /\ Width <= l(4) + MaxLost /\ (l(4) = Width <=> ~short(4))
    BY <1>3
<1>8. l(5) \in Nat /\ l(5) <= Width /\ Width <= l(5) + MaxLost /\ (l(5) = Width <=> ~short(5))
    BY <1>3
<1>9. /\ sum \in Nat /\ sum <= 5 * Width /\ 5 * Width <= sum + 5 * MaxLost
      /\ sum = 5 * Width
           <=> l(1) = Width /\ l(2) = Width /\ l(3) = Width /\ l(4) = Width /\ l(5) = Width
  <2>1. Width \in Nat /\ MaxLost \in Nat
    BY Bytes
  <2>2. l(1) \in Nat /\ l(1) <= Width /\ Width <= l(1) + MaxLost
    BY <1>4
  <2>3. l(2) \in Nat /\ l(2) <= Width /\ Width <= l(2) + MaxLost
    BY <1>5
  <2>4. l(3) \in Nat /\ l(3) <= Width /\ Width <= l(3) + MaxLost
    BY <1>6
  <2>5. l(4) \in Nat /\ l(4) <= Width /\ Width <= l(4) + MaxLost
    BY <1>7
  <2>6. l(5) \in Nat /\ l(5) <= Width /\ Width <= l(5) + MaxLost
    BY <1>8
  <2> QED BY <2>1, <2>2, <2>3, <2>4, <2>5, <2>6, SumOfFive
<1> HIDE DEF sum
<1>10. sum = 5 * Width <=> Full(lib, cap)
    BY <1>2, <1>4, <1>5, <1>6, <1>7, <1>8, <1>9
<1>11. CapsuleSize = 5 * Width + 7 /\ Width \in Nat /\ MaxLost \in Nat
    BY Bytes DEF CapsuleSize
<1>12. /\ sum + 7 \in Nat /\ sum + 7 <= CapsuleSize
       /\ CapsuleSize < sum + 7 + 1 + 2 * Width
       /\ sum + 7 = CapsuleSize <=> sum = 5 * Width
    BY <1>9, <1>11, LostIsLess
<1> QED BY <1>1, <1>10, <1>12

-----------------------------------------------------------------------------
(* What a decryptor makes of a capsule and of a re-capsule *)

IsCapsule(cap) == cap.fields \in [1..5 -> Values] /\ cap.chunkSize \in ChunkSizes

LEMMA ReadFull ==
    ASSUME NEW d \in Libraries, NEW lib \in Libraries, NEW cap, IsCapsule(cap),
           Full(lib, cap)
    PROVE Decode(d, Encode(lib, cap)) = ReadAs(d, lib, cap)
<1>1. cap.fields \in [1..5 -> Values] /\ cap.chunkSize \in ChunkSizes
    BY DEF IsCapsule
<1>2. Decode(d, Encode(lib, cap))
        = IF \/ d = Swift /\ cap.chunkSize > SwiftMax
             \/ d = Swift /\ lib = Go /\ IsShort(cap.fields)
          THEN None
          ELSE [fields |-> cap.fields, chunkSize |-> ChunkSizeFor(d, cap.chunkSize)]
    BY <1>1, RoundTrip, Zenon
<1> QED BY <1>2, Zenon DEF Full, ReadAs

LEMMA NotFull ==
    ASSUME NEW d, NEW lib, NEW cap, ~Full(lib, cap)
    PROVE ReadAs(d, lib, cap) = None
BY DEF Full, ReadAs

LEMMA Sizes ==
    /\ CapsuleSize \in Nat
    /\ ReCapsuleSize = CapsuleSize + 1 + 2 * Width
    /\ Width \in Nat \ {0}
BY Bytes DEF CapsuleSize, ReCapsuleSize

(* A capsule is read at its full length, and never for a re-capsule.          *)
LEMMA ReadCapsule ==
    ASSUME NEW d \in Libraries, NEW lib \in Libraries, NEW cap, IsCapsule(cap)
    PROVE LET b == Encode(lib, cap)
          IN  /\ ByOwner(d, b) = ReadAs(d, lib, cap)
              /\ ByReceiver(d, b) = None
              /\ ByProvider(b) = ReadAs(Go, lib, cap)
<1> DEFINE b == Encode(lib, cap)
<1>1. /\ Len(b) \in Nat /\ Len(b) <= CapsuleSize
      /\ Len(b) = CapsuleSize <=> Full(lib, cap)
    BY CapsuleLength DEF IsCapsule, Size
<1>2. \A e \in Libraries : Full(lib, cap) => Decode(e, b) = ReadAs(e, lib, cap)
    BY ReadFull
<1> HIDE DEF b
<1>3. \A e \in Libraries : ByOwner(e, b) = ReadAs(e, lib, cap)
    BY <1>1, <1>2, NotFull DEF ByOwner
<1>4. \A e \in Libraries : ByReceiver(e, b) = None
  <2>1. Len(b) # ReCapsuleSize
    BY <1>1, Sizes
  <2> QED BY <2>1 DEF ByReceiver
<1>5. ByProvider(b) = ReadAs(Go, lib, cap)
  <2>1. CASE Len(b) = CapsuleSize
    BY <1>3, <2>1 DEF ByProvider, Libraries
  <2>2. CASE Len(b) # CapsuleSize
    BY <1>1, <1>4, <2>2, NotFull DEF ByProvider, Libraries
  <2> QED BY <2>1, <2>2
<1> QED BY <1>3, <1>4, <1>5 DEF b

(* A re-capsule is read at its full length, and never for a capsule.          *)
LEMMA ReadReCapsule ==
    ASSUME NEW d \in Libraries, NEW lib \in Libraries, NEW cap, IsCapsule(cap)
    PROVE LET b == Encode(lib, cap) \o Ephemeral
          IN  /\ ByReceiver(d, b) = ReadAs(d, lib, cap)
              /\ ByOwner(d, b) = None
              /\ ByProvider(b) = ReadAs(Go, lib, cap)
<1> DEFINE first == Encode(lib, cap)
           b == first \o Ephemeral
<1>1. /\ first \in Seq(Nat) /\ Len(first) \in Nat /\ Len(first) <= CapsuleSize
      /\ CapsuleSize < Len(first) + 1 + 2 * Width
      /\ Len(first) = CapsuleSize <=> Full(lib, cap)
    BY CapsuleLength DEF IsCapsule, Size, ByteSeqs
<1>2. \A e \in Libraries : Full(lib, cap) => Decode(e, first) = ReadAs(e, lib, cap)
    BY ReadFull
<1> HIDE DEF first
<1>3. Len(b) = Len(first) + 1 + 2 * Width
  <2>1. Len(b) = Len(first) + Len(Ephemeral)
    BY <1>1, PointIsBytes
  <2> QED BY <1>1, <2>1, PointIsBytes, Sizes
<1>4. Full(lib, cap) => SubSeq(b, 1, CapsuleSize) = first
    BY <1>1, PointIsBytes
<1> HIDE DEF b
<1>5. Len(b) # CapsuleSize /\ (Len(b) = ReCapsuleSize <=> Full(lib, cap))
    BY <1>1, <1>3, Sizes
<1>6. \A e \in Libraries : ByReceiver(e, b) = ReadAs(e, lib, cap)
    BY <1>2, <1>4, <1>5, NotFull DEF ByReceiver
<1>7. \A e \in Libraries : ByOwner(e, b) = None
    BY <1>5 DEF ByOwner
<1>8. ByProvider(b) = ReadAs(Go, lib, cap)
    BY <1>5, <1>6 DEF ByProvider, Libraries
<1> QED BY <1>6, <1>7, <1>8 DEF b, first

(* A library's reading of a chunk size, from the bytes of a capsule or from   *)
(* the bits of a saved decryptor's.                                           *)
LEMMA ChunkSizeRead ==
    ASSUME NEW lib \in Libraries, NEW c \in ChunkSizes
    PROVE /\ c \in Nat
          /\ ChunkSizeFor(lib, c) \in Int
          /\ ChunkFits(lib, c) => ChunkSizeFor(lib, c) = c
          /\ ChunkSizeFor(lib, c) = 0 <=> c = 0
          /\ ChunkSizeFor(lib, c) > 0 <=> c > 0 /\ (lib = Kotlin => c <= SignedMax)
          /\ ChunkSizeFor(lib, c) % (2 * (SignedMax + 1)) = c
<1>1. c \in 0..(2 * SignedMax + 1) /\ SignedMax \in Nat /\ SwiftMax \in Nat /\ SwiftMax < SignedMax
    BY ChunkSizesFit, Limits
<1>2. c % (2 * (SignedMax + 1)) = c
    BY <1>1
<1>3. (c - 2 * (SignedMax + 1)) % (2 * (SignedMax + 1)) = c
    BY <1>1
<1>4. ChunkSizeFor(lib, c)
        = IF lib = Kotlin /\ c > SignedMax THEN c - 2 * (SignedMax + 1) ELSE c
    BY DEF ChunkSizeFor
<1>5. ChunkFits(lib, c) => ~(lib = Kotlin /\ c > SignedMax)
  <2>1. lib = Kotlin => (ChunkFits(lib, c) <=> c <= SignedMax)
    BY Zenon DEF ChunkFits, Go, Kotlin, Swift
  <2> QED BY <1>1, <2>1
<1>6. CASE lib = Kotlin /\ c > SignedMax
  <2>1. ChunkSizeFor(lib, c) = c - 2 * (SignedMax + 1)
    BY <1>4, <1>6
  <2> QED BY <1>1, <1>3, <1>5, <1>6, <2>1
<1>7. CASE ~(lib = Kotlin /\ c > SignedMax)
  <2>1. ChunkSizeFor(lib, c) = c
    BY <1>4, <1>7
  <2> QED BY <1>1, <1>2, <1>7, <2>1
<1> QED BY <1>6, <1>7

(* What is read as a capsule is not None.                                     *)
LEMMA ReadAsNone ==
    ASSUME NEW d \in Libraries, NEW lib \in Libraries, NEW cap, IsCapsule(cap)
    PROVE ReadAs(d, lib, cap) = None
            <=> (lib = Go /\ IsShort(cap.fields)) \/ (d = Swift /\ cap.chunkSize > SwiftMax)
<1>1. cap.fields \in Seq(Nat)
  <2>1. cap.fields \in [1..5 -> Nat]
    <3>1. Values \subseteq Nat
      <4>1. Width - MaxLost - 1 \in 0..Width
        BY Bytes
      <4> QED BY <4>1, PowerType, ValuesFit
    <3> QED BY <3>1 DEF IsCapsule
  <2> QED BY <2>1, SeqDef
<1>2. ChunkSizeFor(d, cap.chunkSize) \in Int
  <2>1. cap.chunkSize \in ChunkSizes
    BY DEF IsCapsule
  <2> QED BY <2>1, ChunkSizeRead
<1>3. [fields |-> cap.fields, chunkSize |-> ChunkSizeFor(d, cap.chunkSize)] # None
  <2>1. [fields |-> cap.fields, chunkSize |-> ChunkSizeFor(d, cap.chunkSize)]
          \in [fields : Seq(Nat), chunkSize : Int]
    BY <1>1, <1>2, Zenon
  <2> QED BY <2>1, NoneIsNoCapsule, Zenon
<1> QED BY <1>3, Zenon DEF ReadAs
-----------------------------------------------------------------------------
(* The invariant of the capsules *)

LEMMA HoldsCapsule ==
    ASSUME NEW cap, cap \in Holds
    PROVE cap.lib \in Libraries /\ IsCapsule(cap)
BY DEF Holds, IsCapsule

LEMMA ShareCapsule ==
    ASSUME NEW s, [lib |-> s.lib, fields |-> s.fields, chunkSize |-> s.chunkSize] \in Holds
    PROVE s.lib \in Libraries /\ IsCapsule(s)
BY DEF Holds, IsCapsule

LEMMA EncodeSame ==
    ASSUME NEW lib, NEW x, NEW y, x.fields = y.fields, x.chunkSize = y.chunkSize
    PROVE Encode(lib, x) = Encode(lib, y)
BY Zenon DEF Encode

LEMMA NewCoordinates ==
    ASSUME NEW f \in [1..5 -> Values], NEW n \in Values
    PROVE Append(SubSeq(f, 1, 4), n) \in [1..5 -> Values]
<1> DEFINE g == SubSeq(f, 1, 4)
           h == Append(g, n)
<1>1. \A i \in 1..4 : f[i] \in Values
    OBVIOUS
<1>2. g \in Seq(Values) /\ Len(g) = 4
    BY <1>1, SubSeqProperties
<1> HIDE DEF g
<1>3. h \in Seq(Values) /\ Len(h) = 5
  <2>1. h \in Seq(Values) /\ Len(h) = Len(g) + 1
    BY <1>2, AppendProperties
  <2> QED BY <1>2, <2>1
<1> HIDE DEF h
<1>4. h \in [1..5 -> Values]
  <2>1. h \in [1..Len(h) -> Values]
    BY <1>3, LenProperties
  <2> QED BY <1>3, <2>1
<1> QED BY <1>4 DEF h, g

LEMMA CodecInitial == Init => CodecInv
BY DEF Init, CodecInv

LEMMA CodecNewEncryptor ==
    ASSUME CodecInv, NEW lib \in Libraries, NEW fields \in Fields, NEW c \in ChunkSizes,
           NewEncryptor(lib, fields, c)
    PROVE CodecInv'
<1> DEFINE o == [lib |-> lib, fields |-> fields, chunkSize |-> c]
<1>1. shares = {} /\ shares' = shares
    BY DEF CodecInv, NewEncryptor
<1>2. origin' = o /\ capsule' = Encode(lib, [fields |-> fields, chunkSize |-> c])
    BY DEF NewEncryptor
<1>3. o \in Holds
    BY FieldsAreFive DEF Holds
<1>4. o # None
    BY NoneIsNoCapsule
<1>5. capsule' = Encode(o.lib, o)
  <2>1. o.lib = lib /\ o.fields = fields /\ o.chunkSize = c
    OBVIOUS
  <2> QED BY <1>2, <2>1, EncodeSame, Zenon
<1> HIDE DEF o
<1> QED BY <1>1, <1>2, <1>3, <1>4, <1>5 DEF CodecInv

LEMMA CodecCreateReCapsule ==
    ASSUME CodecInv, NEW lib \in Libraries, NEW f \in Fields,
           CreateReCapsule(lib, SubSeq(f, 1, 4))
    PROVE CodecInv'
<1> DEFINE fields == Append(SubSeq(f, 1, 4), origin.fields[5])
           bytes == Encode(lib, [fields |-> fields, chunkSize |-> origin.chunkSize])
                      \o Ephemeral
           s == [lib |-> lib, fields |-> fields, chunkSize |-> origin.chunkSize,
                 bytes |-> bytes]
<1>1. origin # None /\ origin' = origin /\ capsule' = capsule /\ shares' = {s}
    BY DEF CreateReCapsule
<1>2. origin \in Holds /\ capsule = Encode(origin.lib, origin)
    BY <1>1 DEF CodecInv
<1>3. fields \in [1..5 -> Values]
  <2>1. f \in [1..5 -> Values] /\ origin.fields \in [1..5 -> Values]
    BY <1>2, FieldsAreFive DEF Holds
  <2> QED BY <2>1, NewCoordinates
<1> HIDE DEF fields
<1>4. [lib |-> s.lib, fields |-> s.fields, chunkSize |-> s.chunkSize] \in Holds
    BY <1>2, <1>3 DEF Holds
<1>5. s.bytes = Encode(s.lib, s) \o Ephemeral
  <2>1. s.lib = lib /\ s.fields = fields /\ s.chunkSize = origin.chunkSize
    OBVIOUS
  <2>2. Encode(s.lib, s) = Encode(lib, [fields |-> fields, chunkSize |-> origin.chunkSize])
    BY <2>1, EncodeSame, Zenon
  <2> QED BY <2>2
<1>6. s.chunkSize = origin.chunkSize
    OBVIOUS
<1> HIDE DEF s
<1> QED BY <1>1, <1>2, <1>4, <1>5, <1>6 DEF CodecInv

LEMMA CodecStep == CodecInv /\ [Next]_vars => CodecInv'
<1> SUFFICES ASSUME CodecInv, [Next]_vars PROVE CodecInv'
    OBVIOUS
<1>1. CASE UNCHANGED vars
    BY <1>1 DEF CodecInv, vars
<1>2. CASE \E lib \in Libraries, f \in Fields, c \in ChunkSizes : NewEncryptor(lib, f, c)
    BY <1>2, CodecNewEncryptor
<1>3. CASE \E lib \in Libraries, f \in Fields : CreateReCapsule(lib, SubSeq(f, 1, 4))
    BY <1>3, CodecCreateReCapsule
<1> QED BY <1>1, <1>2, <1>3 DEF Next

-----------------------------------------------------------------------------
(* The invariant holds the properties of the capsules *)

LEMMA CapsuleRead ==
    ASSUME CodecInv, origin # None, NEW d \in Libraries
    PROVE /\ origin.lib \in Libraries /\ IsCapsule(origin)
          /\ origin.chunkSize \in ChunkSizes
          /\ ByOwner(d, capsule) = ReadAs(d, origin.lib, origin)
          /\ ByReceiver(d, capsule) = None
          /\ ByProvider(capsule) = ReadAs(Go, origin.lib, origin)
<1>1. origin \in Holds /\ capsule = Encode(origin.lib, origin)
    BY DEF CodecInv
<1>2. origin.lib \in Libraries /\ IsCapsule(origin)
    BY <1>1, HoldsCapsule
<1>3. origin.chunkSize \in ChunkSizes
    BY <1>2 DEF IsCapsule
<1> QED BY <1>1, <1>2, <1>3, ReadCapsule

LEMMA ShareRead ==
    ASSUME CodecInv, NEW s \in shares, NEW d \in Libraries
    PROVE /\ s.lib \in Libraries /\ IsCapsule(s)
          /\ s.chunkSize \in ChunkSizes /\ s.chunkSize = origin.chunkSize
          /\ origin # None
          /\ ByReceiver(d, s.bytes) = ReadAs(d, s.lib, s)
          /\ ByOwner(d, s.bytes) = None
          /\ ByProvider(s.bytes) = ReadAs(Go, s.lib, s)
<1>1. /\ [lib |-> s.lib, fields |-> s.fields, chunkSize |-> s.chunkSize] \in Holds
      /\ s.chunkSize = origin.chunkSize
      /\ s.bytes = Encode(s.lib, s) \o Ephemeral
      /\ origin # None
    BY DEF CodecInv
<1>2. s.lib \in Libraries /\ IsCapsule(s)
    BY <1>1, ShareCapsule
<1>3. s.chunkSize \in ChunkSizes
    BY <1>2 DEF IsCapsule
<1> QED BY <1>1, <1>2, <1>3, ReadReCapsule

(* An accepted reading is of the very numbers and, where the library has the  *)
(* chunk size, of it.                                                         *)
LEMMA ReadAsSame ==
    ASSUME NEW d \in Libraries, NEW lib \in Libraries, NEW cap,
           cap.chunkSize \in ChunkSizes, ReadAs(d, lib, cap) # None
    PROVE /\ ReadAs(d, lib, cap).fields = cap.fields
          /\ ReadAs(d, lib, cap).chunkSize = ChunkSizeFor(d, cap.chunkSize)
          /\ ChunkFits(d, cap.chunkSize) => Same(ReadAs(d, lib, cap), cap)
<1>1. ReadAs(d, lib, cap)
        = [fields |-> cap.fields, chunkSize |-> ChunkSizeFor(d, cap.chunkSize)]
    BY Zenon DEF ReadAs
<1>2. ChunkFits(d, cap.chunkSize) => ChunkSizeFor(d, cap.chunkSize) = cap.chunkSize
    BY ChunkSizeRead
<1> QED BY <1>1, <1>2 DEF Same

LEMMA GoFits == Go \in Libraries /\ \A c : ChunkFits(Go, c)
BY Zenon DEF Libraries, ChunkFits, Go, Kotlin, Swift

LEMMA RightFromInv == CodecInv => AcceptedIsRight
<1> SUFFICES ASSUME CodecInv PROVE AcceptedIsRight
    OBVIOUS
<1>1. ASSUME origin # None
      PROVE /\ ByProvider(capsule) # None => Same(ByProvider(capsule), origin)
            /\ \A lib \in Libraries :
                 /\ ByReceiver(lib, capsule) = None
                 /\ ByOwner(lib, capsule) # None /\ ChunkFits(lib, origin.chunkSize)
                      => Same(ByOwner(lib, capsule), origin)
  <2>1. ByProvider(capsule) # None => Same(ByProvider(capsule), origin)
    BY <1>1, CapsuleRead, ReadAsSame, GoFits, Zenon
  <2>2. ASSUME NEW lib \in Libraries
        PROVE /\ ByReceiver(lib, capsule) = None
              /\ ByOwner(lib, capsule) # None /\ ChunkFits(lib, origin.chunkSize)
                   => Same(ByOwner(lib, capsule), origin)
    BY <1>1, CapsuleRead, ReadAsSame, Zenon
  <2> QED BY <2>1, <2>2
<1>2. ASSUME NEW s \in shares
      PROVE /\ ByProvider(s.bytes) # None => Same(ByProvider(s.bytes), s)
            /\ \A lib \in Libraries :
                 /\ ByOwner(lib, s.bytes) = None
                 /\ ByReceiver(lib, s.bytes) # None /\ ChunkFits(lib, s.chunkSize)
                      => Same(ByReceiver(lib, s.bytes), s)
  <2>1. ByProvider(s.bytes) # None => Same(ByProvider(s.bytes), s)
    BY ShareRead, ReadAsSame, GoFits, Zenon
  <2>2. ASSUME NEW lib \in Libraries
        PROVE /\ ByOwner(lib, s.bytes) = None
              /\ ByReceiver(lib, s.bytes) # None /\ ChunkFits(lib, s.chunkSize)
                   => Same(ByReceiver(lib, s.bytes), s)
    BY ShareRead, ReadAsSame, Zenon
  <2> QED BY <2>1, <2>2
<1> QED BY <1>1, <1>2, Zenon DEF AcceptedIsRight

LEMMA CauseFromInv == CodecInv => RefusedHasCause
<1> SUFFICES ASSUME CodecInv, NEW lib \in Libraries
             PROVE /\ origin # None /\ ByOwner(lib, capsule) = None =>
                        \/ origin.lib = Go /\ IsShort(origin.fields)
                        \/ lib = Swift /\ origin.chunkSize > SwiftMax
                   /\ \A s \in shares :
                        ByReceiver(lib, s.bytes) = None =>
                            \/ s.lib = Go /\ IsShort(s.fields)
                            \/ lib = Swift /\ s.chunkSize > SwiftMax
    BY Zenon DEF RefusedHasCause
<1>1. ASSUME origin # None, ByOwner(lib, capsule) = None
      PROVE \/ origin.lib = Go /\ IsShort(origin.fields)
            \/ lib = Swift /\ origin.chunkSize > SwiftMax
    BY <1>1, CapsuleRead, ReadAsNone, Zenon
<1>2. ASSUME NEW s \in shares, ByReceiver(lib, s.bytes) = None
      PROVE \/ s.lib = Go /\ IsShort(s.fields)
            \/ lib = Swift /\ s.chunkSize > SwiftMax
    BY <1>2, ShareRead, ReadAsNone, Zenon
<1> QED BY <1>1, <1>2
-----------------------------------------------------------------------------
(* The invariant of the messages *)

LEMMA InvInitial == MessageInit => Inv
BY CodecInitial DEF MessageInit, Inv, Decrypting, Encrypted, Answered

(* The capsule of an encryptor stays, and what is said of the rest with it.   *)
LEMMA InvNext ==
    ASSUME Inv, Next, UNCHANGED messageVars
    PROVE Inv'
<1>1. CodecInv'
    BY CodecStep DEF Inv
<1>2. UNCHANGED <<cipher, dec, text>>
    BY DEF messageVars
<1>3. origin # None => origin' = origin
    BY DEF Next, NewEncryptor, CreateReCapsule
<1>4. Decrypting'
    BY <1>2, <1>3 DEF Inv, Decrypting
<1>5. Encrypted'
    BY <1>2, <1>3 DEF Inv, Encrypted
<1>6. Answered'
    BY <1>2 DEF Inv, Answered, Opens
<1> QED BY <1>1, <1>4, <1>5, <1>6 DEF Inv

LEMMA UnchangedCodec == UNCHANGED vars => (CodecInv' <=> CodecInv)
BY DEF CodecInv, vars

LEMMA NoneIsNoCipher ==
    \A lib \in Libraries : NonceOf(lib) # None /\ NonceOf(lib) # "refused" /\ None # "refused"
BY NoneIsNoAnswer DEF NonceOf, Libraries

LEMMA InvEncrypt ==
    ASSUME Inv, Encrypt
    PROVE Inv'
<1>1. UNCHANGED vars /\ UNCHANGED <<dec, text>> /\ origin # None /\ cipher = None
    BY DEF Encrypt
<1>2. origin' = origin /\ text = None
    BY <1>1 DEF vars, Inv, Answered
<1>3. origin.lib \in Libraries /\ origin.chunkSize \in ChunkSizes
    BY <1>1, CapsuleRead, GoFits DEF Inv
<1>4. MessageMode(ChunkSizeFor(origin.lib, origin.chunkSize)) <=> MessageMode(origin.chunkSize)
    BY <1>3, ChunkSizeRead DEF MessageMode
<1>5. cipher' = IF MessageMode(origin.chunkSize) THEN NonceOf(origin.lib) ELSE "refused"
    BY <1>4 DEF Encrypt
<1>6. CodecInv'
    BY <1>1, UnchangedCodec DEF Inv
<1>7. Decrypting'
    BY <1>1, <1>2 DEF Inv, Decrypting
<1>8. Encrypted'
    BY <1>1, <1>2, <1>5, Zenon DEF Encrypted
<1>9. Answered'
    BY <1>1, <1>2 DEF Answered
<1> QED BY <1>6, <1>7, <1>8, <1>9 DEF Inv

LEMMA MadeType ==
    ASSUME NEW lib \in Libraries, NEW decoded, NEW held, decoded.chunkSize \in Int,
           decoded.fields = held.fields
    PROVE /\ Made(lib, decoded, held) \in [lib : Libraries, key : BOOLEAN, chunkSize : Int,
                                           moves : Nat, intact : BOOLEAN]
          /\ Made(lib, decoded, held).lib = lib
          /\ Made(lib, decoded, held).key
          /\ Made(lib, decoded, held).chunkSize = decoded.chunkSize
BY DEF Made

LEMMA InvMade ==
    ASSUME Inv, NEW lib \in Libraries, origin # None, dec = None,
           NEW decoded, NEW held, decoded.fields = held.fields,
           decoded.chunkSize = ChunkSizeFor(lib, origin.chunkSize),
           dec' = Made(lib, decoded, held), UNCHANGED <<vars, cipher, text>>
    PROVE Inv'
<1>1. UNCHANGED vars /\ origin' = origin /\ UNCHANGED <<cipher, text>>
    BY DEF vars
<1>2. text = None
    BY DEF Inv, Answered
<1>3. origin.chunkSize \in ChunkSizes
    BY CapsuleRead, GoFits DEF Inv
<1>4. decoded.chunkSize \in Int
    BY <1>3, ChunkSizeRead
<1>5. /\ dec' \in [lib : Libraries, key : BOOLEAN, chunkSize : Int, moves : Nat,
                   intact : BOOLEAN]
      /\ dec'.lib = lib /\ dec'.key /\ dec'.chunkSize = decoded.chunkSize
    BY <1>4, MadeType
<1>6. CodecInv'
    BY <1>1, UnchangedCodec DEF Inv
<1>7. Decrypting'
    BY <1>1, <1>5, Zenon DEF Decrypting
<1>8. Encrypted'
    BY <1>1 DEF Inv, Encrypted
<1>9. Answered'
    BY <1>1, <1>2 DEF Answered
<1> QED BY <1>6, <1>7, <1>8, <1>9 DEF Inv

LEMMA InvByOwner ==
    ASSUME Inv, NEW lib \in Libraries, NewDecryptorByOwner(lib)
    PROVE Inv'
<1>1. /\ origin # None /\ dec = None /\ ByOwner(lib, capsule) # None
      /\ dec' = Made(lib, ByOwner(lib, capsule), origin)
      /\ UNCHANGED <<vars, cipher, text>>
    BY DEF NewDecryptorByOwner
<1>2. /\ ByOwner(lib, capsule).fields = origin.fields
      /\ ByOwner(lib, capsule).chunkSize = ChunkSizeFor(lib, origin.chunkSize)
  <2>1. CodecInv
    BY DEF Inv
  <2>2. /\ origin.lib \in Libraries /\ origin.chunkSize \in ChunkSizes
        /\ ByOwner(lib, capsule) = ReadAs(lib, origin.lib, origin)
    BY <1>1, <2>1, CapsuleRead
  <2>3. ReadAs(lib, origin.lib, origin) # None
    BY <1>1, <2>2
  <2> QED BY <2>2, <2>3, ReadAsSame
<1> QED BY <1>1, <1>2, InvMade, Zenon

LEMMA InvByReceiver ==
    ASSUME Inv, NEW lib \in Libraries, NewDecryptor(lib)
    PROVE Inv'
<1>1. PICK s \in shares :
        /\ ByReceiver(lib, s.bytes) # None
        /\ dec' = Made(lib, ByReceiver(lib, s.bytes), s)
    BY DEF NewDecryptor
<1>2. dec = None /\ UNCHANGED <<vars, cipher, text>>
    BY DEF NewDecryptor
<1>3. /\ ByReceiver(lib, s.bytes).fields = s.fields
      /\ ByReceiver(lib, s.bytes).chunkSize = ChunkSizeFor(lib, s.chunkSize)
  <2>1. CodecInv
    BY DEF Inv
  <2>2. /\ s.lib \in Libraries /\ s.chunkSize \in ChunkSizes
        /\ ByReceiver(lib, s.bytes) = ReadAs(lib, s.lib, s)
    BY <1>1, <2>1, ShareRead
  <2>3. ReadAs(lib, s.lib, s) # None
    BY <1>1, <2>2
  <2> QED BY <2>2, <2>3, ReadAsSame
<1>4. origin # None /\ s.chunkSize = origin.chunkSize
    BY <1>1, ShareRead, Zenon DEF Inv
<1> QED BY <1>1, <1>2, <1>3, <1>4, InvMade, Zenon

LEMMA BitsType ==
    ASSUME NEW n \in Int
    PROVE n % (2 * (SignedMax + 1)) \in 0..(2 * SignedMax + 1)
<1>1. 2 * (SignedMax + 1) \in Nat \ {0} /\ 2 * (SignedMax + 1) - 1 = 2 * SignedMax + 1
    BY Limits
<1> QED BY <1>1

LEMMA FromHexType ==
    ASSUME NEW lib \in Libraries, NEW key \in BOOLEAN, NEW bits \in 0..(2 * SignedMax + 1),
           NEW intact \in BOOLEAN, dec.moves \in Nat
    PROVE /\ FromHex(lib, key, bits, intact)
               \in [lib : Libraries, key : BOOLEAN, chunkSize : Int, moves : Nat,
                    intact : BOOLEAN]
          /\ FromHex(lib, key, bits, intact).lib = lib
          /\ FromHex(lib, key, bits, intact).key = key
          /\ FromHex(lib, key, bits, intact).chunkSize = ChunkSizeFor(lib, bits)
          /\ FromHex(lib, key, bits, intact).intact = intact
<1>1. ChunkSizeFor(lib, bits) \in Int
    BY Limits DEF ChunkSizeFor
<1>2. dec.moves + 1 \in Nat
    OBVIOUS
<1> QED BY <1>1, <1>2, Zenon DEF FromHex

(* What was saved whole keeps the key and has the loading library's reading   *)
(* of the capsule's chunk size, whatever the saving library's was.            *)
LEMMA InvMove ==
    ASSUME Inv, NEW lib \in Libraries, Move(lib)
    PROVE Inv'
<1>1. dec # None /\ text' = None /\ UNCHANGED vars /\ cipher' = cipher
    BY DEF Move
<1>2. origin # None /\ origin' = origin
    BY <1>1 DEF Inv, Decrypting, vars
<1>3. /\ dec.lib \in Libraries /\ dec.key \in BOOLEAN /\ dec.chunkSize \in Int
      /\ dec.moves \in Nat /\ dec.intact \in BOOLEAN
      /\ dec.intact => dec.key /\ dec.chunkSize = ChunkSizeFor(dec.lib, origin.chunkSize)
    BY <1>1 DEF Inv, Decrypting
<1>4. origin.chunkSize \in ChunkSizes
    BY <1>2, CapsuleRead, GoFits DEF Inv
<1>5. Hex.key = dec.key /\ Hex.chunkBits = dec.chunkSize % (2 * (SignedMax + 1))
    BY DEF Hex
<1>6. Hex.chunkBits \in 0..(2 * SignedMax + 1)
    BY <1>3, <1>5, BitsType
<1>7. dec.intact => Hex.chunkBits = origin.chunkSize
    BY <1>3, <1>4, <1>5, ChunkSizeRead
<1>8. /\ dec' \in [lib : Libraries, key : BOOLEAN, chunkSize : Int, moves : Nat,
                   intact : BOOLEAN]
      /\ dec'.intact => dec'.key /\ dec'.chunkSize = ChunkSizeFor(dec'.lib, origin.chunkSize)
  <2>1. CASE LoadWhole(lib)
    <3>1. dec' = FromHex(lib, dec.key, Hex.chunkBits, dec.intact)
      BY <1>5, <2>1 DEF LoadWhole
    <3>2. /\ dec' \in [lib : Libraries, key : BOOLEAN, chunkSize : Int, moves : Nat,
                        intact : BOOLEAN]
          /\ dec'.lib = lib /\ dec'.key = dec.key /\ dec'.intact = dec.intact
          /\ dec'.chunkSize = ChunkSizeFor(lib, Hex.chunkBits)
      BY <1>3, <1>6, <3>1, FromHexType
    <3> QED BY <1>3, <1>7, <3>2, Zenon
  <2>2. CASE LoadDamaged(lib)
    <3>1. PICK key \in {FALSE, dec.key}, bits \in {Hex.chunkBits, DamagedBits(lib)} :
            dec' = FromHex(lib, key, bits, FALSE)
      BY <2>2 DEF LoadDamaged
    <3>2. key \in BOOLEAN
      BY <1>3, <3>1
    <3>3. bits \in 0..(2 * SignedMax + 1)
      BY <1>6, <3>1, Limits DEF DamagedBits
    <3> QED BY <1>3, <3>1, <3>2, <3>3, FromHexType, Zenon
  <2> QED BY <2>1, <2>2 DEF Move
<1>9. CodecInv'
    BY <1>1, UnchangedCodec DEF Inv
<1>10. Decrypting'
    BY <1>2, <1>8, Zenon DEF Decrypting
<1>11. Encrypted'
    BY <1>1, <1>2 DEF Inv, Encrypted
<1>12. Answered'
    BY <1>1 DEF Answered
<1> QED BY <1>9, <1>10, <1>11, <1>12 DEF Inv

LEMMA InvDecrypt ==
    ASSUME Inv, Decrypt
    PROVE Inv'
<1>1. UNCHANGED vars /\ cipher' = cipher /\ dec' = dec /\ origin' = origin
    BY DEF Decrypt, vars
<1>2. CodecInv'
    BY <1>1, UnchangedCodec DEF Inv
<1>3. Decrypting' /\ Encrypted'
    BY <1>1 DEF Inv, Decrypting, Encrypted
<1>4. Answered'
    BY <1>1 DEF Decrypt, Answered, Opens
<1> QED BY <1>2, <1>3, <1>4 DEF Inv

LEMMA InvStep == Inv /\ [MessageNext]_allVars => Inv'
<1> SUFFICES ASSUME Inv, [MessageNext]_allVars PROVE Inv'
    OBVIOUS
<1>1. CASE UNCHANGED allVars
  <2>1. UNCHANGED vars /\ UNCHANGED <<cipher, dec, text>> /\ origin' = origin
    BY <1>1 DEF allVars, messageVars, vars
  <2>2. CodecInv'
    BY <2>1, UnchangedCodec DEF Inv
  <2> QED BY <2>1, <2>2 DEF Inv, Decrypting, Encrypted, Answered, Opens
<1>2. CASE Next /\ UNCHANGED messageVars
    BY <1>2, InvNext
<1>3. CASE Encrypt
    BY <1>3, InvEncrypt
<1>4. CASE \E lib \in Libraries : NewDecryptorByOwner(lib) \/ NewDecryptor(lib)
    BY <1>4, InvByOwner, InvByReceiver
<1>5. CASE \E lib \in Libraries : Move(lib)
    BY <1>5, InvMove
<1>6. CASE Decrypt
    BY <1>6, InvDecrypt
<1> QED BY <1>1, <1>2, <1>3, <1>4, <1>5, <1>6 DEF MessageNext

-----------------------------------------------------------------------------
(* The theorems *)

LEMMA AgreesFromInv == Inv => DecryptorAgrees
<1> SUFFICES ASSUME Inv, dec # None, dec.intact
             PROVE /\ dec.key
                   /\ MessageMode(dec.chunkSize) <=> origin.chunkSize = 0
                   /\ StreamMode(dec.chunkSize) <=>
                        /\ origin.chunkSize > 0
                        /\ dec.lib = Kotlin => origin.chunkSize <= SignedMax
    BY DEF DecryptorAgrees
<1>1. /\ origin # None /\ dec.lib \in Libraries
      /\ dec.key /\ dec.chunkSize = ChunkSizeFor(dec.lib, origin.chunkSize)
    BY DEF Inv, Decrypting
<1>2. origin.chunkSize \in ChunkSizes
    BY <1>1, CapsuleRead, GoFits DEF Inv
<1>3. /\ ChunkSizeFor(dec.lib, origin.chunkSize) = 0 <=> origin.chunkSize = 0
      /\ ChunkSizeFor(dec.lib, origin.chunkSize) > 0
           <=> origin.chunkSize > 0 /\ (dec.lib = Kotlin => origin.chunkSize <= SignedMax)
    BY <1>1, <1>2, ChunkSizeRead
<1> QED BY <1>1, <1>3, Zenon DEF MessageMode, StreamMode

LEMMA Nonces ==
    \A x, y \in Libraries : NonceOf(x) = NonceOf(y) <=> (x = Swift <=> y = Swift)
BY DEF NonceOf

LEMMA OpensFromInv == Inv => MessageOpens
<1> SUFFICES ASSUME Inv PROVE MessageOpens
    OBVIOUS
<1>1. DecryptorAgrees
    BY AgreesFromInv
<1>2. ASSUME text # None
      PROVE /\ origin # None /\ origin.lib \in Libraries /\ dec.lib \in Libraries
            /\ cipher = IF origin.chunkSize = 0 THEN NonceOf(origin.lib) ELSE "refused"
            /\ text = IF ~MessageMode(dec.chunkSize) THEN "refused"
                      ELSE IF dec.key /\ cipher = NonceOf(dec.lib) THEN "message"
                      ELSE "error"
            /\ dec.intact => dec.key /\ (MessageMode(dec.chunkSize) <=> origin.chunkSize = 0)
  <2>1. /\ dec # None /\ cipher # None
        /\ text = IF ~MessageMode(dec.chunkSize) THEN "refused"
                  ELSE IF dec.key /\ cipher = NonceOf(dec.lib) THEN "message" ELSE "error"
    BY <1>2, Zenon DEF Inv, Answered, Opens
  <2>2. /\ origin # None
        /\ cipher = IF origin.chunkSize = 0 THEN NonceOf(origin.lib) ELSE "refused"
    BY <2>1, Zenon DEF Inv, Encrypted, MessageMode
  <2>3. origin.lib \in Libraries
    BY <2>2, CapsuleRead, GoFits DEF Inv
  <2>4. dec.lib \in Libraries
    BY <2>1 DEF Inv, Decrypting
  <2>5. dec.intact => dec.key /\ (MessageMode(dec.chunkSize) <=> origin.chunkSize = 0)
    BY <1>1, <2>1, Zenon DEF DecryptorAgrees
  <2> QED BY <2>1, <2>2, <2>3, <2>4, <2>5
<1>3. ASSUME text = "message"
      PROVE origin.chunkSize = 0 /\ dec.key
  <2>1. text # None
    BY <1>3, NoneIsNoAnswer
  <2>2. dec.key /\ cipher = NonceOf(dec.lib) /\ dec.lib \in Libraries
    BY <1>2, <1>3, <2>1
  <2>3. cipher # "refused"
    BY <2>2, NoneIsNoCipher
  <2> QED BY <1>2, <2>1, <2>2, <2>3
<1>4. ASSUME text # None, dec.intact
      PROVE /\ text = "refused" <=> origin.chunkSize # 0
            /\ text = "message" <=>
                 origin.chunkSize = 0 /\ (origin.lib = Swift <=> dec.lib = Swift)
  <2>1. CASE origin.chunkSize # 0
    BY <1>2, <1>4, <2>1
  <2>2. CASE origin.chunkSize = 0
    <3>1. /\ MessageMode(dec.chunkSize) /\ dec.key
          /\ cipher = NonceOf(origin.lib)
          /\ text = IF cipher = NonceOf(dec.lib) THEN "message" ELSE "error"
      BY <1>2, <1>4, <2>2
    <3>2. cipher = NonceOf(dec.lib) <=> (origin.lib = Swift <=> dec.lib = Swift)
      BY <1>2, <1>4, <3>1, Nonces, Zenon
    <3> QED BY <2>2, <3>1, <3>2
  <2> QED BY <2>1, <2>2
<1> QED BY <1>1, <1>3, <1>4, Zenon DEF MessageOpens

(* The invariant: what a capsule, a re-capsule and a decryptor hold is what   *)
(* the encryptor holds, through encodeCapsule, decodeCapsule, CreateReCapsule *)
(* and the hex of the three libraries.                                        *)
THEOREM MessageInvariant == MessageSpec => []Inv
<1> QED BY InvInitial, InvStep, PTL DEF MessageSpec

(* Whatever a decryptor of any library accepts, of a capsule or a re-capsule  *)
(* of any other, and whatever the Go client's provider tells apart by its     *)
(* length, decodes to what it was made of: for every base, width and chunk    *)
(* size limit.                                                                *)
THEOREM NothingIsMisread == MessageSpec => []AcceptedIsRight
<1>1. Inv => AcceptedIsRight
    BY RightFromInv DEF Inv
<1> QED BY <1>1, MessageInvariant, PTL

(* decodeCapsule refuses nothing but Go's short numbers and, in Swift, a      *)
(* chunk size above its maximum.                                              *)
THEOREM RefusalHasCause == MessageSpec => []RefusedHasCause
<1>1. Inv => RefusedHasCause
    BY CauseFromInv DEF Inv
<1> QED BY <1>1, MessageInvariant, PTL

(* A message decrypts exactly when Swift has both encrypted and decrypts it   *)
(* or neither, however often its decryptor was saved by one library and       *)
(* loaded by another (Encrypt, Decrypt, NewDecryptorFromHex).                 *)
THEOREM MessagesOpen == MessageSpec => []MessageOpens
<1> QED BY MessageInvariant, OpensFromInv, PTL

(* What Go wrote with a short number is refused by every decryptor of every   *)
(* library and by the Go client's provider, a re-capsule of it too: there is  *)
(* no second way to it.                                                       *)
ShortIsRefused ==
    /\ origin # None /\ origin.lib = Go /\ IsShort(origin.fields) =>
        /\ ByProvider(capsule) = None
        /\ \A lib \in Libraries : ByOwner(lib, capsule) = None
    /\ \A s \in shares : s.lib = Go /\ IsShort(s.fields) =>
        /\ ByProvider(s.bytes) = None
        /\ \A lib \in Libraries : ByReceiver(lib, s.bytes) = None

(* With RefusalHasCause: encodeCapsule of Go, which drops leading zero bytes, *)
(* makes capsules that nothing opens, and exactly those with a short number.  *)
THEOREM ShortRefusal == MessageSpec => []ShortIsRefused
<1>1. ASSUME CodecInv, origin # None, origin.lib = Go, IsShort(origin.fields)
      PROVE /\ ByProvider(capsule) = None
            /\ \A lib \in Libraries : ByOwner(lib, capsule) = None
  <2>1. \A lib : ReadAs(lib, origin.lib, origin) = None
    BY <1>1, Zenon DEF ReadAs
  <2>2. \A lib \in Libraries : ByOwner(lib, capsule) = ReadAs(lib, origin.lib, origin)
    BY <1>1, CapsuleRead
  <2>3. ByProvider(capsule) = ReadAs(Go, origin.lib, origin)
    BY <1>1, CapsuleRead, GoFits
  <2> QED BY <2>1, <2>2, <2>3
<1>2. ASSUME CodecInv, NEW s \in shares, s.lib = Go, IsShort(s.fields)
      PROVE /\ ByProvider(s.bytes) = None
            /\ \A lib \in Libraries : ByReceiver(lib, s.bytes) = None
  <2>1. \A lib : ReadAs(lib, s.lib, s) = None
    BY <1>2, Zenon DEF ReadAs
  <2>2. \A lib \in Libraries : ByReceiver(lib, s.bytes) = ReadAs(lib, s.lib, s)
    BY <1>2, ShareRead
  <2>3. ByProvider(s.bytes) = ReadAs(Go, s.lib, s)
    BY <1>2, ShareRead, GoFits
  <2> QED BY <2>1, <2>2, <2>3
<1>3. Inv => ShortIsRefused
    BY <1>1, <1>2 DEF Inv, ShortIsRefused
<1> QED BY <1>3, MessageInvariant, PTL
===============================================================================
