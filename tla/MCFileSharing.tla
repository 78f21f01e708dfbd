---------------------------- MODULE MCFileSharing ----------------------------
(* FileSharing as TLC checks it. *)
EXTENDS FileSharing

MCClients == {{}, {"ownerKey"}, {"ownerKey", "viewerKey"}, {"option"}}
=============================================================================
