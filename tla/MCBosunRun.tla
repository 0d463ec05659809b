------------------------------ MODULE MCBosunRun ------------------------------
(* Small instances of BosunRun for TLC. Invocations are interchangeable,   *)
(* and so are entries.                                                     *)
EXTENDS BosunRun, TLC

Symmetry == Permutations(Proc) \cup Permutations(Entry)
=============================================================================
