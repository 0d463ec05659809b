------------------------------- MODULE MCFileOps -------------------------------
(* One path, one pair of certificate and key. The last name of the backup  *)
(* directory belongs to another file.                                      *)
EXTENDS FileOps

CONSTANTS good, bad, setid  \* setid is good with set-user-ID in its mode

MCWithoutSetId == [b \in Body |-> IF b = setid THEN good ELSE b]

MCName == 1..3
MCStamp == 1..2
=============================================================================
