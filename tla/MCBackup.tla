------------------------------ MODULE MCBackup ------------------------------
(***************************************************************************)
(* Two photos in two folders, uploaded by two lanes.                       *)
(***************************************************************************)
EXTENDS BackupScreens

CONSTANTS a1, a2, f1, f2

MCAlbums == [a \in {a1, a2} |-> IF a = a1 THEN f1 ELSE f2]
=============================================================================
