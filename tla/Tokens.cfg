CONSTANTS
    m1 = m1
    m2 = m2
    app = app
    ann = ann
    bob = bob
    u1 = u1
    u2 = u2
    None = None
    Malformed = Malformed
    Unfit = Unfit
    Makers = {m1, m2}
    Caller = m1
    Urls = {u1, u2}
    App = app
    Knows <- MCKnows
    Trust <- MCTrust
    Credentials <- MCCredentials
    Presented <- MCPresented
    Targets <- MCTargets
SPECIFICATION FairSpec
INVARIANTS TypeOK VerdictHasCause ResolversAgree AnswersAreShown SignedIsChecked MadeIsWhole
PROPERTIES Returns
