---------------------------- MODULE BosunRunProofs ----------------------------
(***************************************************************************)
(* Proofs about module BosunRun, for any number of invocations, entries    *)
(* and faults.                                                             *)
(*                                                                         *)
(* LockInv ties the lock to the positions of the invocations: the rest     *)
(* follows because only its holder touches the journal. SnapInv keeps      *)
(* snapshots inside replays and dry runs out of them, MetricInv follows    *)
(* the last steps of a run up to the metric file.                          *)
(***************************************************************************)
EXTENDS BosunRun, FiniteSetTheorems, TLAPS

(* The journal can be counted.                                             *)
LEMMA JournalCount ==
  ASSUME TypeOK
  PROVE  Cardinality(journal) \in Nat
<1>1. IsFiniteSet(journal)
  BY EntryAssumption, FS_Subset DEF TypeOK
<1> QED
  BY <1>1, FS_CardinalityType

(* Every step keeps the types.                                             *)
LEMMA TypesStep ==
  ASSUME TypeOK, [Next]_vars
  PROVE  TypeOK'
<1> USE NoProcAssumption, MaxRunsAssumption DEF TypeOK, Locked, Replaying,
   local, Goto, At, ExitCode, SUCCESS, APPLY_PARTIAL_FAILURE, DRY_RUN_DRIFT,
   EVAL_ERROR, CLI_ENV_ERROR, APPLY_INTERRUPTED
<1>1. ASSUME NEW p \in Proc, Start(p) PROVE TypeOK'
  BY <1>1 DEF Start
<1>2. ASSUME NEW p \in Proc, BootstrapFails(p) PROVE TypeOK'
  BY <1>2 DEF BootstrapFails
<1>3. ASSUME NEW p \in Proc, Acquired(p) PROVE TypeOK'
  BY <1>3 DEF Acquired
<1>4. ASSUME NEW p \in Proc, Held(p) PROVE TypeOK'
  BY <1>4 DEF Held
<1>5. ASSUME NEW p \in Proc, WriteSkip(p) PROVE TypeOK'
  <2>1. clean' \in BOOLEAN
    BY <1>5 DEF WriteSkip, write_atomic, FormatMetric
  <2>2. metric' \in [exit : ExitCode, pending : Nat]
    BY <1>5 DEF WriteSkip, write_atomic, FormatMetric
  <2>3. lock' \in Proc \cup {NoProc}
    BY <1>5 DEF WriteSkip, write_atomic, FormatMetric
  <2> QED
    BY <1>5, <2>1, <2>2, <2>3 DEF WriteSkip, write_atomic, FormatMetric
<1>6. ASSUME NEW p \in Proc, LoggingFails(p) PROVE TypeOK'
  BY <1>6 DEF LoggingFails, Release
<1>7. ASSUME NEW p \in Proc, LoadFails(p) PROVE TypeOK'
  BY <1>7 DEF LoadFails, Fails
<1>8. ASSUME NEW p \in Proc, Opened(p) PROVE TypeOK'
  BY <1>8 DEF Opened
<1>9. ASSUME NEW p \in Proc, BeginReplay(p) PROVE TypeOK'
  BY <1>9 DEF BeginReplay, ReplayPhase
<1>10. ASSUME NEW p \in Proc, EndReplay(p) PROVE TypeOK'
  BY <1>10 DEF EndReplay
<1>11. ASSUME NEW p \in Proc, EvalFails(p) PROVE TypeOK'
  BY <1>11 DEF EvalFails, Fails
<1>12. ASSUME NEW p \in Proc, PlanOnly(p) PROVE TypeOK'
  BY <1>12 DEF PlanOnly
<1>13. ASSUME NEW p \in Proc, BeginApply(p) PROVE TypeOK'
  BY <1>13 DEF BeginApply
<1>14. ASSUME NEW p \in Proc, Applied(p) PROVE TypeOK'
  BY <1>14 DEF Applied, ApplyCode
<1>15. ASSUME NEW p \in Proc, count_pending_defers(p) PROVE TypeOK'
  BY <1>15, JournalCount DEF count_pending_defers
<1>16. ASSUME NEW p \in Proc, WriteMetric(p) PROVE TypeOK'
  <2>1. clean' \in BOOLEAN
    BY <1>16 DEF WriteMetric, write_atomic, FormatMetric
  <2>2. metric' \in [exit : ExitCode, pending : Nat]
    BY <1>16 DEF WriteMetric, write_atomic, FormatMetric
  <2>3. lock' \in Proc \cup {NoProc}
    BY <1>16 DEF WriteMetric, write_atomic, FormatMetric
  <2> QED
    BY <1>16, <2>1, <2>2, <2>3 DEF WriteMetric, write_atomic, FormatMetric
<1>17. ASSUME NEW p \in Proc, write_failure_metric(p) PROVE TypeOK'
  <2>1. clean' \in BOOLEAN
    BY <1>17 DEF write_failure_metric, write_atomic, FormatMetric
  <2>2. metric' \in [exit : ExitCode, pending : Nat]
    BY <1>17 DEF write_failure_metric, write_atomic, FormatMetric
  <2>3. lock' \in Proc \cup {NoProc}
    BY <1>17 DEF write_failure_metric, write_atomic, FormatMetric
  <2> QED
    BY <1>17, <2>1, <2>2, <2>3 DEF write_failure_metric, write_atomic, FormatMetric
<1>18. ASSUME NEW p \in Proc, Exit(p) PROVE TypeOK'
  BY <1>18 DEF Exit, Release
<1>19. ASSUME NEW p \in Proc, Signal(p) PROVE TypeOK'
  BY <1>19 DEF Signal
<1>20. ASSUME NEW p \in Proc, Kill(p) PROVE TypeOK'
  <2>1. clean' \in BOOLEAN
    BY <1>20 DEF Kill
  <2>2. metric' \in [exit : ExitCode, pending : Nat]
    BY <1>20 DEF Kill
  <2>3. lock' \in Proc \cup {NoProc}
    BY <1>20 DEF Kill
  <2> QED
    BY <1>20, <2>1, <2>2, <2>3 DEF Kill
<1>21. ASSUME NEW p \in Proc, NEW e \in Entry, ReplayEntry(p, e) PROVE TypeOK'
  BY <1>21 DEF ReplayEntry
<1>22. ASSUME NEW p \in Proc, NEW e \in Entry, Enqueue(p, e) PROVE TypeOK'
  BY <1>22 DEF Enqueue
<1>23. ASSUME NEW e \in Entry, Clear(e) PROVE TypeOK'
  BY <1>23 DEF Clear
<1>24. CASE UNCHANGED vars
  BY <1>24 DEF vars
<1> QED
  BY <1>1, <1>2, <1>3, <1>4, <1>5, <1>6, <1>7, <1>8, <1>9, <1>10, <1>11,
     <1>12, <1>13, <1>14, <1>15, <1>16, <1>17, <1>18, <1>19, <1>20, <1>21,
     <1>22, <1>23, <1>24 DEF Next, Step

(* The lock goes with the position of its holder.                          *)
LEMMA LockStep ==
  ASSUME TypeOK, LockInv, [Next]_vars
  PROVE  LockInv'
<1> USE NoProcAssumption DEF TypeOK, LockInv, Locked, Replaying, local,
   Goto, At
<1>1. ASSUME NEW p \in Proc, Start(p) PROVE LockInv'
  BY <1>1 DEF Start
<1>2. ASSUME NEW p \in Proc, BootstrapFails(p) PROVE LockInv'
  BY <1>2 DEF BootstrapFails
<1>3. ASSUME NEW p \in Proc, Acquired(p) PROVE LockInv'
  BY <1>3 DEF Acquired
<1>4. ASSUME NEW p \in Proc, Held(p) PROVE LockInv'
  BY <1>4 DEF Held
<1>5. ASSUME NEW p \in Proc, WriteSkip(p) PROVE LockInv'
  BY <1>5 DEF WriteSkip, write_atomic, FormatMetric
<1>6. ASSUME NEW p \in Proc, LoggingFails(p) PROVE LockInv'
  BY <1>6 DEF LoggingFails, Release
<1>7. ASSUME NEW p \in Proc, LoadFails(p) PROVE LockInv'
  BY <1>7 DEF LoadFails, Fails
<1>8. ASSUME NEW p \in Proc, Opened(p) PROVE LockInv'
  BY <1>8 DEF Opened
<1>9. ASSUME NEW p \in Proc, BeginReplay(p) PROVE LockInv'
  BY <1>9 DEF BeginReplay, ReplayPhase
<1>10. ASSUME NEW p \in Proc, EndReplay(p) PROVE LockInv'
  BY <1>10 DEF EndReplay
<1>11. ASSUME NEW p \in Proc, EvalFails(p) PROVE LockInv'
  BY <1>11 DEF EvalFails, Fails
<1>12. ASSUME NEW p \in Proc, PlanOnly(p) PROVE LockInv'
  BY <1>12 DEF PlanOnly
<1>13. ASSUME NEW p \in Proc, BeginApply(p) PROVE LockInv'
  BY <1>13 DEF BeginApply
<1>14. ASSUME NEW p \in Proc, Applied(p) PROVE LockInv'
  BY <1>14 DEF Applied, ApplyCode
<1>15. ASSUME NEW p \in Proc, count_pending_defers(p) PROVE LockInv'
  BY <1>15 DEF count_pending_defers
<1>16. ASSUME NEW p \in Proc, WriteMetric(p) PROVE LockInv'
  BY <1>16 DEF WriteMetric, write_atomic, FormatMetric
<1>17. ASSUME NEW p \in Proc, write_failure_metric(p) PROVE LockInv'
  BY <1>17 DEF write_failure_metric, write_atomic, FormatMetric
<1>18. ASSUME NEW p \in Proc, Exit(p) PROVE LockInv'
  BY <1>18 DEF Exit, Release
<1>19. ASSUME NEW p \in Proc, Signal(p) PROVE LockInv'
  BY <1>19 DEF Signal
<1>20. ASSUME NEW p \in Proc, Kill(p) PROVE LockInv'
  BY <1>20 DEF Kill
<1>21. ASSUME NEW p \in Proc, NEW e \in Entry, ReplayEntry(p, e) PROVE LockInv'
  BY <1>21 DEF ReplayEntry
<1>22. ASSUME NEW p \in Proc, NEW e \in Entry, Enqueue(p, e) PROVE LockInv'
  BY <1>22 DEF Enqueue
<1>23. ASSUME NEW e \in Entry, Clear(e) PROVE LockInv'
  BY <1>23 DEF Clear
<1>24. CASE UNCHANGED vars
  BY <1>24 DEF vars
<1> QED
  BY <1>1, <1>2, <1>3, <1>4, <1>5, <1>6, <1>7, <1>8, <1>9, <1>10, <1>11,
     <1>12, <1>13, <1>14, <1>15, <1>16, <1>17, <1>18, <1>19, <1>20, <1>21,
     <1>22, <1>23, <1>24 DEF Next, Step

(* Snapshots belong to replays, and replays to runs that are not dry.      *)
LEMMA SnapStep ==
  ASSUME TypeOK, SnapInv, [Next]_vars
  PROVE  SnapInv'
<1> USE DEF TypeOK, SnapInv, Replaying, local, Goto, At
<1>1. ASSUME NEW p \in Proc, Start(p) PROVE SnapInv'
  BY <1>1 DEF Start
<1>2. ASSUME NEW p \in Proc, BootstrapFails(p) PROVE SnapInv'
  BY <1>2 DEF BootstrapFails
<1>3. ASSUME NEW p \in Proc, Acquired(p) PROVE SnapInv'
  BY <1>3 DEF Acquired
<1>4. ASSUME NEW p \in Proc, Held(p) PROVE SnapInv'
  BY <1>4 DEF Held
<1>5. ASSUME NEW p \in Proc, WriteSkip(p) PROVE SnapInv'
  BY <1>5 DEF WriteSkip, write_atomic, FormatMetric
<1>6. ASSUME NEW p \in Proc, LoggingFails(p) PROVE SnapInv'
  BY <1>6 DEF LoggingFails, Release
<1>7. ASSUME NEW p \in Proc, LoadFails(p) PROVE SnapInv'
  BY <1>7 DEF LoadFails, Fails
<1>8. ASSUME NEW p \in Proc, Opened(p) PROVE SnapInv'
  BY <1>8 DEF Opened
<1>9. ASSUME NEW p \in Proc, BeginReplay(p) PROVE SnapInv'
  BY <1>9 DEF BeginReplay, ReplayPhase
<1>10. ASSUME NEW p \in Proc, EndReplay(p) PROVE SnapInv'
  BY <1>10 DEF EndReplay
<1>11. ASSUME NEW p \in Proc, EvalFails(p) PROVE SnapInv'
  BY <1>11 DEF EvalFails, Fails
<1>12. ASSUME NEW p \in Proc, PlanOnly(p) PROVE SnapInv'
  BY <1>12 DEF PlanOnly
<1>13. ASSUME NEW p \in Proc, BeginApply(p) PROVE SnapInv'
  BY <1>13 DEF BeginApply
<1>14. ASSUME NEW p \in Proc, Applied(p) PROVE SnapInv'
  BY <1>14 DEF Applied, ApplyCode
<1>15. ASSUME NEW p \in Proc, count_pending_defers(p) PROVE SnapInv'
  BY <1>15 DEF count_pending_defers
<1>16. ASSUME NEW p \in Proc, WriteMetric(p) PROVE SnapInv'
  BY <1>16 DEF WriteMetric, write_atomic, FormatMetric
<1>17. ASSUME NEW p \in Proc, write_failure_metric(p) PROVE SnapInv'
  BY <1>17 DEF write_failure_metric, write_atomic, FormatMetric
<1>18. ASSUME NEW p \in Proc, Exit(p) PROVE SnapInv'
  BY <1>18 DEF Exit, Release
<1>19. ASSUME NEW p \in Proc, Signal(p) PROVE SnapInv'
  BY <1>19 DEF Signal
<1>20. ASSUME NEW p \in Proc, Kill(p) PROVE SnapInv'
  BY <1>20 DEF Kill
<1>21. ASSUME NEW p \in Proc, NEW e \in Entry, ReplayEntry(p, e) PROVE SnapInv'
  BY <1>21 DEF ReplayEntry
<1>22. ASSUME NEW p \in Proc, NEW e \in Entry, Enqueue(p, e) PROVE SnapInv'
  BY <1>22 DEF Enqueue
<1>23. ASSUME NEW e \in Entry, Clear(e) PROVE SnapInv'
  BY <1>23 DEF Clear
<1>24. CASE UNCHANGED vars
  BY <1>24 DEF vars
<1> QED
  BY <1>1, <1>2, <1>3, <1>4, <1>5, <1>6, <1>7, <1>8, <1>9, <1>10, <1>11,
     <1>12, <1>13, <1>14, <1>15, <1>16, <1>17, <1>18, <1>19, <1>20, <1>21,
     <1>22, <1>23, <1>24 DEF Next, Step

(* No snapshot goes stale: only the holder of the lock changes the journal.*)
LEMMA FreshStep ==
  ASSUME TypeOK, LockInv, SnapInv, SnapshotFresh, [Next]_vars
  PROVE  SnapshotFresh'
<1> USE NoProcAssumption DEF TypeOK, LockInv, SnapInv, SnapshotFresh,
   Locked, Replaying, local, Goto, At
<1>1. ASSUME NEW p \in Proc, Start(p) PROVE SnapshotFresh'
  BY <1>1 DEF Start
<1>2. ASSUME NEW p \in Proc, BootstrapFails(p) PROVE SnapshotFresh'
  BY <1>2 DEF BootstrapFails
<1>3. ASSUME NEW p \in Proc, Acquired(p) PROVE SnapshotFresh'
  BY <1>3 DEF Acquired
<1>4. ASSUME NEW p \in Proc, Held(p) PROVE SnapshotFresh'
  BY <1>4 DEF Held
<1>5. ASSUME NEW p \in Proc, WriteSkip(p) PROVE SnapshotFresh'
  BY <1>5 DEF WriteSkip, write_atomic, FormatMetric
<1>6. ASSUME NEW p \in Proc, LoggingFails(p) PROVE SnapshotFresh'
  BY <1>6 DEF LoggingFails, Release
<1>7. ASSUME NEW p \in Proc, LoadFails(p) PROVE SnapshotFresh'
  BY <1>7 DEF LoadFails, Fails
<1>8. ASSUME NEW p \in Proc, Opened(p) PROVE SnapshotFresh'
  BY <1>8 DEF Opened
<1>9. ASSUME NEW p \in Proc, BeginReplay(p) PROVE SnapshotFresh'
  BY <1>9 DEF BeginReplay, ReplayPhase
<1>10. ASSUME NEW p \in Proc, EndReplay(p) PROVE SnapshotFresh'
  BY <1>10 DEF EndReplay
<1>11. ASSUME NEW p \in Proc, EvalFails(p) PROVE SnapshotFresh'
  BY <1>11 DEF EvalFails, Fails
<1>12. ASSUME NEW p \in Proc, PlanOnly(p) PROVE SnapshotFresh'
  BY <1>12 DEF PlanOnly
<1>13. ASSUME NEW p \in Proc, BeginApply(p) PROVE SnapshotFresh'
  BY <1>13 DEF BeginApply
<1>14. ASSUME NEW p \in Proc, Applied(p) PROVE SnapshotFresh'
  BY <1>14 DEF Applied, ApplyCode
<1>15. ASSUME NEW p \in Proc, count_pending_defers(p) PROVE SnapshotFresh'
  BY <1>15 DEF count_pending_defers
<1>16. ASSUME NEW p \in Proc, WriteMetric(p) PROVE SnapshotFresh'
  BY <1>16 DEF WriteMetric, write_atomic, FormatMetric
<1>17. ASSUME NEW p \in Proc, write_failure_metric(p) PROVE SnapshotFresh'
  BY <1>17 DEF write_failure_metric, write_atomic, FormatMetric
<1>18. ASSUME NEW p \in Proc, Exit(p) PROVE SnapshotFresh'
  BY <1>18 DEF Exit, Release
<1>19. ASSUME NEW p \in Proc, Signal(p) PROVE SnapshotFresh'
  BY <1>19 DEF Signal
<1>20. ASSUME NEW p \in Proc, Kill(p) PROVE SnapshotFresh'
  BY <1>20 DEF Kill
<1>21. ASSUME NEW p \in Proc, NEW e \in Entry, ReplayEntry(p, e) PROVE SnapshotFresh'
  BY <1>21 DEF ReplayEntry
<1>22. ASSUME NEW p \in Proc, NEW e \in Entry, Enqueue(p, e) PROVE SnapshotFresh'
  BY <1>22 DEF Enqueue
<1>23. ASSUME NEW e \in Entry, Clear(e) PROVE SnapshotFresh'
  BY <1>23 DEF Clear
<1>24. CASE UNCHANGED vars
  BY <1>24 DEF vars
<1> QED
  BY <1>1, <1>2, <1>3, <1>4, <1>5, <1>6, <1>7, <1>8, <1>9, <1>10, <1>11,
     <1>12, <1>13, <1>14, <1>15, <1>16, <1>17, <1>18, <1>19, <1>20, <1>21,
     <1>22, <1>23, <1>24 DEF Next, Step

(* The metric file follows the run.                                        *)
LEMMA MetricStep ==
  ASSUME TypeOK, LockInv, MetricInv, [Next]_vars
  PROVE  MetricInv'
<1> USE NoProcAssumption DEF TypeOK, LockInv, MetricInv, Shows, Early,
   Locked, Replaying, local, Goto, At, ExitCode, SUCCESS,
   APPLY_PARTIAL_FAILURE, DRY_RUN_DRIFT, EVAL_ERROR, CLI_ENV_ERROR,
   APPLY_INTERRUPTED
<1>1. ASSUME NEW p \in Proc, Start(p) PROVE MetricInv'
  BY <1>1 DEF Start
<1>2. ASSUME NEW p \in Proc, BootstrapFails(p) PROVE MetricInv'
  BY <1>2 DEF BootstrapFails
<1>3. ASSUME NEW p \in Proc, Acquired(p) PROVE MetricInv'
  BY <1>3 DEF Acquired
<1>4. ASSUME NEW p \in Proc, Held(p) PROVE MetricInv'
  BY <1>4 DEF Held
<1>5. ASSUME NEW p \in Proc, WriteSkip(p) PROVE MetricInv'
  BY <1>5 DEF WriteSkip, write_atomic, FormatMetric
<1>6. ASSUME NEW p \in Proc, LoggingFails(p) PROVE MetricInv'
  BY <1>6 DEF LoggingFails, Release
<1>7. ASSUME NEW p \in Proc, LoadFails(p) PROVE MetricInv'
  BY <1>7 DEF LoadFails, Fails
<1>8. ASSUME NEW p \in Proc, Opened(p) PROVE MetricInv'
  BY <1>8 DEF Opened
<1>9. ASSUME NEW p \in Proc, BeginReplay(p) PROVE MetricInv'
  BY <1>9 DEF BeginReplay, ReplayPhase
<1>10. ASSUME NEW p \in Proc, EndReplay(p) PROVE MetricInv'
  BY <1>10 DEF EndReplay
<1>11. ASSUME NEW p \in Proc, EvalFails(p) PROVE MetricInv'
  BY <1>11 DEF EvalFails, Fails
<1>12. ASSUME NEW p \in Proc, PlanOnly(p) PROVE MetricInv'
  BY <1>12 DEF PlanOnly
<1>13. ASSUME NEW p \in Proc, BeginApply(p) PROVE MetricInv'
  BY <1>13 DEF BeginApply
<1>14. ASSUME NEW p \in Proc, Applied(p) PROVE MetricInv'
  BY <1>14 DEF Applied, ApplyCode
<1>15. ASSUME NEW p \in Proc, count_pending_defers(p) PROVE MetricInv'
  BY <1>15 DEF count_pending_defers
<1>16. ASSUME NEW p \in Proc, WriteMetric(p) PROVE MetricInv'
  BY <1>16 DEF WriteMetric, write_atomic, FormatMetric
<1>17. ASSUME NEW p \in Proc, write_failure_metric(p) PROVE MetricInv'
  BY <1>17 DEF write_failure_metric, write_atomic, FormatMetric
<1>18. ASSUME NEW p \in Proc, Exit(p) PROVE MetricInv'
  BY <1>18 DEF Exit, Release
<1>19. ASSUME NEW p \in Proc, Signal(p) PROVE MetricInv'
  BY <1>19 DEF Signal
<1>20. ASSUME NEW p \in Proc, Kill(p) PROVE MetricInv'
  BY <1>20 DEF Kill
<1>21. ASSUME NEW p \in Proc, NEW e \in Entry, ReplayEntry(p, e) PROVE MetricInv'
  BY <1>21 DEF ReplayEntry
<1>22. ASSUME NEW p \in Proc, NEW e \in Entry, Enqueue(p, e) PROVE MetricInv'
  BY <1>22 DEF Enqueue
<1>23. ASSUME NEW e \in Entry, Clear(e) PROVE MetricInv'
  BY <1>23 DEF Clear
<1>24. CASE UNCHANGED vars
  BY <1>24 DEF vars
<1> QED
  BY <1>1, <1>2, <1>3, <1>4, <1>5, <1>6, <1>7, <1>8, <1>9, <1>10, <1>11,
     <1>12, <1>13, <1>14, <1>15, <1>16, <1>17, <1>18, <1>19, <1>20, <1>21,
     <1>22, <1>23, <1>24 DEF Next, Step

Inv == TypeOK /\ LockInv /\ SnapInv /\ SnapshotFresh /\ MetricInv

(* The parts hold in the initial states.                                   *)
LEMMA InitInv == Init => Inv
<1> SUFFICES ASSUME Init PROVE Inv
  OBVIOUS
<1>1. TypeOK
  BY MaxRunsAssumption DEF Init, TypeOK, ExitCode, SUCCESS
<1>2. LockInv /\ SnapInv /\ SnapshotFresh
  BY NoProcAssumption DEF Init, LockInv, Locked, SnapInv, Replaying, SnapshotFresh
<1>3. MetricInv
  BY FS_EmptySet DEF Init, MetricInv, Shows, Early
<1> QED
  BY <1>1, <1>2, <1>3 DEF Inv

(* A step of any invocation keeps the parts together.                      *)
LEMMA NextInv == Inv /\ [Next]_vars => Inv'
  BY TypesStep, LockStep, SnapStep, FreshStep, MetricStep DEF Inv

(* The parts hold together in every reachable state.                       *)
LEMMA SpecInv == Spec => []Inv
  BY InitInv, NextInv, PTL DEF Spec

(* The types of module BosunRun hold in every reachable state.             *)
THEOREM BosunTypes == Spec => []TypeOK
<1>1. Inv => TypeOK
  BY DEF Inv
<1> QED
  BY <1>1, SpecInv, PTL

(* No invocation of bosun apply replays an entry that another one has      *)
(* replayed since it listed the journal, however invocations, kills and    *)
(* status --clear overlap: the lock of bootstrap.rs is enough.             *)
THEOREM BosunExclusive == Spec => []SnapshotFresh
<1>1. Inv => SnapshotFresh
  BY DEF Inv
<1> QED
  BY <1>1, SpecInv, PTL

(* The metric file that a run leaves behind is its own, if nothing came    *)
(* after the lock was taken.                                               *)
THEOREM BosunMetric == Spec => []MetricHonest
<1>1. Inv => MetricHonest
  BY DEF Inv, MetricInv, MetricHonest
<1> QED
  BY <1>1, SpecInv, PTL

(* What a dry run leaves alone.                                            *)
DryStep ==
    \A p \in Proc : lock = p /\ dry[p] =>
        journal' \subseteq journal /\ journal \ journal' \subseteq cleared'

(* No step of the lock's holder changes the journal in a dry run.          *)
LEMMA DryRunStep ==
  ASSUME Inv, [Next]_vars
  PROVE  DryStep
<1> USE DEF Inv, TypeOK, LockInv, SnapInv, DryStep, Locked, Replaying,
   local, Goto, At
<1>1. ASSUME NEW p \in Proc, Start(p) PROVE DryStep
  BY <1>1 DEF Start
<1>2. ASSUME NEW p \in Proc, BootstrapFails(p) PROVE DryStep
  BY <1>2 DEF BootstrapFails
<1>3. ASSUME NEW p \in Proc, Acquired(p) PROVE DryStep
  BY <1>3 DEF Acquired
<1>4. ASSUME NEW p \in Proc, Held(p) PROVE DryStep
  BY <1>4 DEF Held
<1>5. ASSUME NEW p \in Proc, WriteSkip(p) PROVE DryStep
  BY <1>5 DEF WriteSkip, write_atomic, FormatMetric
<1>6. ASSUME NEW p \in Proc, LoggingFails(p) PROVE DryStep
  BY <1>6 DEF LoggingFails, Release
<1>7. ASSUME NEW p \in Proc, LoadFails(p) PROVE DryStep
  BY <1>7 DEF LoadFails, Fails
<1>8. ASSUME NEW p \in Proc, Opened(p) PROVE DryStep
  BY <1>8 DEF Opened
<1>9. ASSUME NEW p \in Proc, BeginReplay(p) PROVE DryStep
  BY <1>9 DEF BeginReplay, ReplayPhase
<1>10. ASSUME NEW p \in Proc, EndReplay(p) PROVE DryStep
  BY <1>10 DEF EndReplay
<1>11. ASSUME NEW p \in Proc, EvalFails(p) PROVE DryStep
  BY <1>11 DEF EvalFails, Fails
<1>12. ASSUME NEW p \in Proc, PlanOnly(p) PROVE DryStep
  BY <1>12 DEF PlanOnly
<1>13. ASSUME NEW p \in Proc, BeginApply(p) PROVE DryStep
  BY <1>13 DEF BeginApply
<1>14. ASSUME NEW p \in Proc, Applied(p) PROVE DryStep
  BY <1>14 DEF Applied, ApplyCode
<1>15. ASSUME NEW p \in Proc, count_pending_defers(p) PROVE DryStep
  BY <1>15 DEF count_pending_defers
<1>16. ASSUME NEW p \in Proc, WriteMetric(p) PROVE DryStep
  BY <1>16 DEF WriteMetric, write_atomic, FormatMetric
<1>17. ASSUME NEW p \in Proc, write_failure_metric(p) PROVE DryStep
  BY <1>17 DEF write_failure_metric, write_atomic, FormatMetric
<1>18. ASSUME NEW p \in Proc, Exit(p) PROVE DryStep
  BY <1>18 DEF Exit, Release
<1>19. ASSUME NEW p \in Proc, Signal(p) PROVE DryStep
  BY <1>19 DEF Signal
<1>20. ASSUME NEW p \in Proc, Kill(p) PROVE DryStep
  BY <1>20 DEF Kill
<1>21. ASSUME NEW p \in Proc, NEW e \in Entry, ReplayEntry(p, e) PROVE DryStep
  BY <1>21 DEF ReplayEntry
<1>22. ASSUME NEW p \in Proc, NEW e \in Entry, Enqueue(p, e) PROVE DryStep
  BY <1>22 DEF Enqueue
<1>23. ASSUME NEW e \in Entry, Clear(e) PROVE DryStep
  BY <1>23 DEF Clear
<1>24. CASE UNCHANGED vars
  BY <1>24 DEF vars
<1> QED
  BY <1>1, <1>2, <1>3, <1>4, <1>5, <1>6, <1>7, <1>8, <1>9, <1>10, <1>11,
     <1>12, <1>13, <1>14, <1>15, <1>16, <1>17, <1>18, <1>19, <1>20, <1>21,
     <1>22, <1>23, <1>24 DEF Next, Step

(* A dry run reads the journal and changes nothing in it.                  *)
THEOREM BosunDryRun == Spec => DryRunReadOnly
<1>1. Inv /\ [Next]_vars => [DryStep]_vars
  BY DryRunStep
<1> QED
  BY <1>1, SpecInv, PTL DEF Spec, DryRunReadOnly, DryStep
=============================================================================
