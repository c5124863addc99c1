--------------------------- MODULE ModelDownloadMC ---------------------------
(***************************************************************************)
(* Instances of ModelDownload for TLC.                                     *)
(***************************************************************************)
EXTENDS ModelDownload

AnyEnvironment == [explicit : BOOLEAN, path : BOOLEAN]
PlainEnvironment == {[explicit |-> FALSE, path |-> FALSE]}
=============================================================================
