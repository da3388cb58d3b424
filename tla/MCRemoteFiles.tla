--------------------------- MODULE MCRemoteFiles ---------------------------
(* Two client handles on two paths, two files. *)
EXTENDS RemoteFiles, TLC

CONSTANTS f1, f2, p1, p2, x, y
TwoPaths == f1 :> p1 @@ f2 :> p2
TwoFiles == p1 :> x @@ p2 :> y
=============================================================================
