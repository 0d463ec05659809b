------------------------- MODULE DeferJournalProofs -------------------------
(***************************************************************************)
(* Proofs about the journal of deferred actions, for every set of units    *)
(* and actions, every max_attempts and every number of disturbances.       *)
(***************************************************************************)
EXTENDS DeferJournal, TLAPS

USE DEF ReplaySteps, Steps

(* Every action of the journal and of replay keeps the types, and the      *)
(* match between the part of the run and the step within it.               *)
LEMMA TypeStep == TypeOK /\ [Next]_vars => TypeOK'
<1> SUFFICES ASSUME TypeOK, [Next]_vars PROVE TypeOK'
  OBVIOUS
<1> USE NoKeyAssumption, FaultsAssumption DEF TypeOK, disk, local, NoLocal, Zero
<1>1. CASE StartRun \/ ApplyDone \/ EvalError
  BY <1>1 DEF StartRun, ApplyDone, EvalError
<1>2. CASE ListSorted \/ LoopEnd
  BY <1>2 DEF ListSorted, LoopEnd, ReplayDone
<1>3. ASSUME NEW k \in Key, DispatchOk(k) \/ DispatchUnavailable(k) \/ DispatchError(k)
      PROVE  TypeOK'
  BY <1>3 DEF DispatchOk, DispatchUnavailable, DispatchError, Visit, IsFirst, Serve, Fail
<1>4. CASE HealthCheckOk \/ HealthCheckError \/ HealthCheckCancelled
  BY <1>4 DEF HealthCheckOk, HealthCheckError, HealthCheckCancelled, NextEntry, Serve, Fail
<1>5. CASE Remove \/ Bump \/ Promote \/ PromoteMissing
  BY <1>5 DEF Remove, Bump, Promote, PromoteMissing, NextEntry, ReplayDone,
              FileGone, atomic_write
<1>6. ASSUME NEW k \in Key, EnqueueNoop(k) \/ EnqueueBegin(k) \/ Unlink(k)
      PROVE  TypeOK'
  BY <1>6 DEF EnqueueNoop, EnqueueBegin, Unlink, Idle, SameTarget, FileGone, IsFirst
<1>7. CASE Write
  BY <1>7 DEF Write, atomic_write
<1>8. CASE ReplayIoError
  BY <1>8 DEF ReplayIoError, ReplayDone, Disturb, FileGone, atomic_write
<1>9. CASE EnqueueIoError
  BY <1>9 DEF EnqueueIoError, Disturb, atomic_write
<1>10. CASE Signal
  BY <1>10 DEF Signal, Disturb
<1>14. CASE Crash
  BY <1>14 DEF Crash, Disturb
<1>11. ASSUME NEW k \in Key, ClearDeferred(k) \/ ClearManual(k)
       PROVE  TypeOK'
  BY <1>11 DEF ClearDeferred, ClearManual, Disturb, FileGone, Forget
<1>12. CASE ClearAllManual
  BY <1>12 DEF ClearAllManual, Disturb, Forget
<1>13. CASE UNCHANGED vars
  BY <1>13 DEF vars
<1> QED
  BY <1>1, <1>2, <1>3, <1>4, <1>5, <1>6, <1>7, <1>8, <1>9, <1>10, <1>11, <1>12, <1>13, <1>14
     DEF Next, Replay, Enqueue, Environment

(* Type correctness of the journal, replay and enqueue.                    *)
THEOREM JournalTypes == Spec => []TypeOK
<1>1. Init => TypeOK
  <2>1. Init => cancelled \in BOOLEAN
    BY Zenon DEF Init
  <2> QED
    BY <2>1, NoKeyAssumption, FaultsAssumption DEF Init, TypeOK, Zero
<1> QED
  BY <1>1, TypeStep, PTL DEF Spec

-----------------------------------------------------------------------------
(* Covering is transitive: what replaces an entry covers what it covered.  *)
LEMMA CoversTransitive ==
  ASSUME NEW i \in Key, NEW j \in Key, NEW k \in Key, Covers(i, j), Covers(j, k)
  PROVE  Covers(i, k)
BY DEF Covers, subsumes, Key

(* What a replay or an enqueue keeps in memory is gone when it ends.       *)
LEMMA LocalStep == TypeOK /\ LocalInv /\ [Next]_vars => LocalInv'
<1> SUFFICES ASSUME TypeOK, LocalInv, [Next]_vars PROVE LocalInv'
  OBVIOUS
<1> USE NoKeyAssumption DEF TypeOK, LocalInv, disk, local, NoLocal
<1>1. CASE StartRun \/ ApplyDone \/ EvalError
  BY <1>1 DEF StartRun, ApplyDone, EvalError
<1>2. CASE Replay
  BY <1>2 DEF Replay, ListSorted, LoopEnd, ReplayDone, DispatchOk, DispatchUnavailable,
    DispatchError, Visit, HealthCheckOk, HealthCheckError, HealthCheckCancelled,
    NextEntry, Remove, Bump, Promote, PromoteMissing
<1>3. CASE Enqueue
  BY <1>3 DEF Enqueue, EnqueueNoop, EnqueueBegin, Unlink, Write, Idle
<1>4. CASE Environment
  BY <1>4 DEF Environment, ReplayIoError, ReplayDone, EnqueueIoError, Signal, Crash,
    ClearDeferred, ClearManual, ClearAllManual
<1>5. CASE UNCHANGED vars
  BY <1>5 DEF vars
<1> QED
  BY <1>1, <1>2, <1>3, <1>4, <1>5 DEF Next

(* Enqueue unlinks only what its own entry covers, and everything that is. *)
LEMMA ReplaceStep ==
  TypeOK /\ LocalInv /\ ReplaceInv /\ [Next]_vars => ReplaceInv'
<1> SUFFICES ASSUME TypeOK, LocalInv, ReplaceInv, [Next]_vars PROVE ReplaceInv'
  OBVIOUS
<1> USE NoKeyAssumption DEF TypeOK, LocalInv, ReplaceInv, disk, local, NoLocal
<1>1. CASE StartRun \/ ApplyDone \/ EvalError
  BY <1>1 DEF StartRun, ApplyDone, EvalError
<1>2. CASE Replay
  BY <1>2 DEF Replay, ListSorted, LoopEnd, ReplayDone, DispatchOk, DispatchUnavailable,
    DispatchError, Visit, HealthCheckOk, HealthCheckError, HealthCheckCancelled,
    NextEntry, Remove, Bump, Promote, PromoteMissing
<1>3. CASE Write \/ \E k \in Key : EnqueueNoop(k)
  BY <1>3 DEF EnqueueNoop, Write, Idle
<1>4. ASSUME NEW k \in Key, EnqueueBegin(k) PROVE ReplaceInv'
  BY <1>4 DEF EnqueueBegin, Idle, SameTarget
<1>5. ASSUME NEW j \in Key, Unlink(j) PROVE ReplaceInv'
  BY <1>5 DEF Unlink, FileGone, IsFirst
<1>6. CASE Environment
  BY <1>6 DEF Environment, ReplayIoError, ReplayDone, EnqueueIoError, Signal, Crash,
    ClearDeferred, ClearManual, ClearAllManual, FileGone
<1>7. CASE UNCHANGED vars
  BY <1>7 DEF vars
<1> QED
  BY <1>1, <1>2, <1>3, <1>4, <1>5, <1>6, <1>7 DEF Next, Enqueue

(* The journal and the snapshot together never hold a redundant pair, so   *)
(* writing a snapshot entry back cannot create one.                        *)
LEMMA PairStep ==
  TypeOK /\ LocalInv /\ ReplaceInv /\ PairInv /\ [Next]_vars => PairInv'
<1> SUFFICES ASSUME TypeOK, LocalInv, ReplaceInv, PairInv, [Next]_vars PROVE PairInv'
  OBVIOUS
<1> USE NoKeyAssumption DEF TypeOK, PairInv, InReplay, disk, local, NoLocal
<1>1. CASE StartRun \/ ApplyDone \/ EvalError
  BY <1>1 DEF StartRun, ApplyDone, EvalError
<1>2. CASE ListSorted \/ LoopEnd \/ PromoteMissing
  BY <1>2 DEF ListSorted, LoopEnd, PromoteMissing, ReplayDone
<1>3. ASSUME NEW k \in Key, DispatchOk(k) \/ DispatchUnavailable(k) \/ DispatchError(k)
      PROVE  PairInv'
  BY <1>3 DEF DispatchOk, DispatchUnavailable, DispatchError, Visit, IsFirst
<1>4. CASE HealthCheckOk \/ HealthCheckError \/ HealthCheckCancelled
  BY <1>4 DEF HealthCheckOk, HealthCheckError, HealthCheckCancelled, NextEntry
<1>5. CASE Remove \/ Promote
  BY <1>5 DEF Remove, Promote, NextEntry, FileGone
<1>6. CASE Bump
  BY <1>6 DEF Bump, NextEntry, atomic_write
<1>7. ASSUME NEW k \in Key, EnqueueNoop(k) \/ EnqueueBegin(k) \/ Unlink(k)
      PROVE  PairInv'
  BY <1>7 DEF EnqueueNoop, EnqueueBegin, Unlink, Idle, FileGone
<1>8. CASE Write
  BY <1>8 DEF Write, atomic_write, ReplaceInv, LocalInv, subsumes
<1>9. CASE ReplayIoError
  BY <1>9 DEF ReplayIoError, ReplayDone, FileGone, atomic_write
<1>10. CASE EnqueueIoError
  BY <1>10 DEF EnqueueIoError, atomic_write, ReplaceInv, LocalInv, subsumes
<1>11. CASE Signal \/ Crash \/ ClearAllManual
  BY <1>11 DEF Signal, Crash, ClearAllManual
<1>12. ASSUME NEW k \in Key, ClearDeferred(k) \/ ClearManual(k)
       PROVE  PairInv'
  BY <1>12 DEF ClearDeferred, ClearManual, FileGone
<1>13. CASE UNCHANGED vars
  BY <1>13 DEF vars
<1> QED
  BY <1>1, <1>2, <1>3, <1>4, <1>5, <1>6, <1>7, <1>8, <1>9, <1>10, <1>11, <1>12, <1>13
     DEF Next, Replay, Enqueue, Environment

(* By the time an entry is removed, what it stood for has been executed.   *)
LEMMA RemoveStep == TypeOK /\ RemoveInv /\ [Next]_vars => RemoveInv'
<1> SUFFICES ASSUME TypeOK, RemoveInv, [Next]_vars PROVE RemoveInv'
  OBVIOUS
<1> USE NoKeyAssumption DEF TypeOK, RemoveInv, disk, local, NoLocal
<1>1. CASE StartRun \/ ApplyDone \/ EvalError
  BY <1>1 DEF StartRun, ApplyDone, EvalError
<1>2. CASE Replay
  BY <1>2 DEF Replay, ListSorted, LoopEnd, ReplayDone, DispatchOk, DispatchUnavailable,
    DispatchError, Visit, Serve, HealthCheckOk, HealthCheckError, HealthCheckCancelled,
    NextEntry, Remove, Bump, Promote, PromoteMissing
<1>3. CASE Enqueue
  BY <1>3 DEF Enqueue, EnqueueNoop, EnqueueBegin, Unlink, Write, Idle
<1>4. CASE Environment
  BY <1>4 DEF Environment, ReplayIoError, ReplayDone, EnqueueIoError, Signal, Crash,
    ClearDeferred, ClearManual, ClearAllManual, Forget
<1>5. CASE UNCHANGED vars
  BY <1>5 DEF vars
<1> QED
  BY <1>1, <1>2, <1>3, <1>4, <1>5 DEF Next

-----------------------------------------------------------------------------
(* The invariant behind deduplication and at-least-once.                   *)
DedupInv == TypeOK /\ LocalInv /\ ReplaceInv /\ PairInv /\ RemoveInv

(* The parts behind deduplication and at-least-once hold in every          *)
(* reachable state.                                                        *)
LEMMA DedupInvariant == Spec => []DedupInv
<1>1. Init => LocalInv /\ ReplaceInv /\ PairInv /\ RemoveInv
  BY DEF Init, LocalInv, ReplaceInv, PairInv, InReplay, RemoveInv
<1> QED
  BY <1>1, JournalTypes, LocalStep, ReplaceStep, PairStep, RemoveStep, PTL DEF Spec, DedupInv

(* No reachable journal holds an entry and another one that subsumes it.   *)
THEOREM JournalDedup == Spec => []NoSubsumedPair
<1>1. DedupInv => NoSubsumedPair
  BY DEF DedupInv, PairInv, NoSubsumedPair
<1> QED
  BY <1>1, DedupInvariant, PTL

(* At least once, as long as the process is not killed and no file         *)
(* operation fails inside the replace window of enqueue.                   *)
THEOREM JournalAtLeastOnce ==
  ASSUME "replace" \notin Faults
  PROVE  Spec => []AtLeastOnce
<1>1. Init => AtLeastOnce
  BY DEF Init, AtLeastOnce
<1>2. DedupInv /\ AtLeastOnce /\ [Next]_vars => AtLeastOnce'
  <2> SUFFICES ASSUME DedupInv, AtLeastOnce, [Next]_vars PROVE AtLeastOnce'
    OBVIOUS
  <2> USE NoKeyAssumption DEF DedupInv, TypeOK, LocalInv, AtLeastOnce, disk, local, NoLocal
  <2>1. CASE StartRun \/ ApplyDone \/ EvalError
    BY <2>1 DEF StartRun, ApplyDone, EvalError
  <2>2. CASE ListSorted \/ LoopEnd \/ PromoteMissing
    BY <2>2 DEF ListSorted, LoopEnd, PromoteMissing, ReplayDone
  <2>3. ASSUME NEW k \in Key, DispatchOk(k) \/ DispatchUnavailable(k) \/ DispatchError(k)
        PROVE  AtLeastOnce'
    BY <2>3 DEF DispatchOk, DispatchUnavailable, DispatchError, Visit, Serve
  <2>4. CASE HealthCheckOk \/ HealthCheckError \/ HealthCheckCancelled
    BY <2>4 DEF HealthCheckOk, HealthCheckError, HealthCheckCancelled, NextEntry, Serve
  <2>5. CASE Remove
    BY <2>5 DEF Remove, NextEntry, FileGone, RemoveInv
  <2>6. CASE Bump \/ Promote
    BY <2>6 DEF Bump, Promote, NextEntry, FileGone, atomic_write
  <2>7. ASSUME NEW k \in Key, EnqueueNoop(k) PROVE AtLeastOnce'
    BY <2>7 DEF EnqueueNoop, SameTarget, Covers
  <2>8. ASSUME NEW k \in Key, EnqueueBegin(k) \/ Unlink(k) PROVE AtLeastOnce'
    BY <2>8 DEF EnqueueBegin, Unlink, FileGone, IsFirst
  <2>9. ASSUME cur \in Key, step = "unlink", NEW o \in Key,
               \E j \in deferred \cup manual \cup gone : Covers(j, o)
        PROVE  \E j \in (deferred \cup {cur}) \cup manual : Covers(j, o)
    <3>1. PICK j \in deferred \cup manual \cup gone : Covers(j, o)
      BY <2>9
    <3>2. CASE j \in gone
      <4>1. Covers(cur, j)
        BY <2>9, <3>2 DEF ReplaceInv, Covers
      <4> QED
        BY <2>9, <3>1, <3>2, <4>1, CoversTransitive
    <3> QED
      BY <3>1, <3>2
  <2>10. CASE Write
    <3>1. Covers(cur, cur) /\ cur \in Key
      BY <2>10 DEF Write, Covers
    <3> QED
      BY <2>9, <2>10, <3>1 DEF Write, atomic_write
  <2>11. CASE ReplayIoError
    <3>1. CASE step = "remove"
      BY <2>11, <3>1 DEF ReplayIoError, ReplayDone, FileGone, RemoveInv
    <3> QED
      BY <2>11, <3>1 DEF ReplayIoError, ReplayDone, FileGone, atomic_write
  <2>12. CASE EnqueueIoError
    <3>1. cur \in Key
      BY <2>12 DEF EnqueueIoError
    <3> QED
      BY "replace" \notin Faults, <2>9, <2>12, <3>1 DEF EnqueueIoError, Disturb, atomic_write
  <2>13. CASE Signal \/ Crash
    BY "replace" \notin Faults, <2>13 DEF Signal, Crash, Disturb
  <2>14. ASSUME NEW k \in Key, ClearDeferred(k) \/ ClearManual(k)
         PROVE  AtLeastOnce'
    BY <2>14 DEF ClearDeferred, ClearManual, Forget
  <2>15. CASE ClearAllManual
    BY <2>15 DEF ClearAllManual, Forget
  <2>16. CASE UNCHANGED vars
    BY <2>16 DEF vars
  <2> QED
    BY <2>1, <2>2, <2>3, <2>4, <2>5, <2>6, <2>7, <2>8, <2>10, <2>11, <2>12, <2>13,
       <2>14, <2>15, <2>16 DEF Next, Replay, Enqueue, Environment
<1> QED
  BY <1>1, <1>2, DedupInvariant, PTL DEF Spec

-----------------------------------------------------------------------------
(* A file that replay has not rewritten yet counts no more attempts than   *)
(* the snapshot does, even if it was cleared meanwhile.                    *)
LEMMA SnapStep == TypeOK /\ LocalInv /\ SnapInv /\ [Next]_vars => SnapInv'
<1> SUFFICES ASSUME TypeOK, LocalInv, SnapInv, [Next]_vars PROVE SnapInv'
  OBVIOUS
<1> USE NoKeyAssumption DEF TypeOK, LocalInv, SnapInv, InReplay, disk, local, NoLocal, Zero
<1>1. CASE StartRun \/ ApplyDone \/ EvalError
  BY <1>1 DEF StartRun, ApplyDone, EvalError
<1>2. CASE ListSorted \/ LoopEnd \/ PromoteMissing
  BY <1>2 DEF ListSorted, LoopEnd, PromoteMissing, ReplayDone
<1>3. ASSUME NEW k \in Key, DispatchOk(k) \/ DispatchUnavailable(k) \/ DispatchError(k)
      PROVE  SnapInv'
  BY <1>3 DEF DispatchOk, DispatchUnavailable, DispatchError, Visit, IsFirst
<1>4. CASE HealthCheckOk \/ HealthCheckError \/ HealthCheckCancelled
  BY <1>4 DEF HealthCheckOk, HealthCheckError, HealthCheckCancelled, NextEntry
<1>5. CASE Remove \/ Promote
  BY <1>5 DEF Remove, Promote, NextEntry, FileGone
<1>6. CASE Bump
  BY <1>6 DEF Bump, NextEntry, atomic_write
<1>7. CASE Enqueue
  BY <1>7 DEF Enqueue, EnqueueNoop, EnqueueBegin, Unlink, Write, Idle, FileGone
<1>8. CASE ReplayIoError \/ EnqueueIoError \/ Signal \/ Crash \/ ClearAllManual
  BY <1>8 DEF ReplayIoError, ReplayDone, EnqueueIoError, Signal, Crash, ClearAllManual
<1>9. ASSUME NEW k \in Key, ClearDeferred(k) \/ ClearManual(k)
      PROVE  SnapInv'
  BY <1>9 DEF ClearDeferred, ClearManual, FileGone
<1>10. CASE UNCHANGED vars
  BY <1>10 DEF vars
<1> QED
  BY <1>1, <1>2, <1>3, <1>4, <1>5, <1>6, <1>7, <1>8, <1>9, <1>10
     DEF Next, Replay, Environment

(* Each disturbance hides at most one failed execution from the counter.   *)
LEMMA CountStep ==
  TypeOK /\ LocalInv /\ SnapInv /\ CountInv /\ [Next]_vars => CountInv'
<1> SUFFICES ASSUME TypeOK, LocalInv, SnapInv, CountInv, [Next]_vars PROVE CountInv'
  OBVIOUS
<1> USE NoKeyAssumption, MaxAttemptsAssumption
    DEF TypeOK, CountInv, disk, local, NoLocal, Zero
<1>1. CASE StartRun \/ ApplyDone \/ EvalError
  BY <1>1 DEF StartRun, ApplyDone, EvalError
<1>2. CASE ListSorted \/ LoopEnd \/ PromoteMissing
  BY <1>2 DEF ListSorted, LoopEnd, PromoteMissing, ReplayDone
<1>3. ASSUME NEW k \in Key, DispatchOk(k) \/ DispatchUnavailable(k) \/ DispatchError(k)
      PROVE  CountInv'
  BY <1>3 DEF DispatchOk, DispatchUnavailable, DispatchError, Visit, Fail
<1>4. CASE HealthCheckOk \/ HealthCheckError \/ HealthCheckCancelled
  BY <1>4 DEF HealthCheckOk, HealthCheckError, HealthCheckCancelled, NextEntry, Fail
<1>5. CASE Remove \/ Promote
  BY <1>5 DEF Remove, Promote, NextEntry, FileGone
<1>6. CASE Bump
  BY <1>6 DEF Bump, NextEntry, atomic_write, SnapInv, InReplay
<1>7. ASSUME NEW k \in Key, EnqueueNoop(k) \/ EnqueueBegin(k) \/ Unlink(k)
      PROVE  CountInv'
  BY <1>7 DEF EnqueueNoop, EnqueueBegin, Unlink, Idle, FileGone
<1>8. CASE Write
  BY <1>8 DEF Write, atomic_write
<1>9. CASE ReplayIoError
  BY <1>9 DEF ReplayIoError, ReplayDone, Disturb, FileGone, atomic_write, SnapInv, InReplay
<1>10. CASE EnqueueIoError
  BY <1>10 DEF EnqueueIoError, Disturb, atomic_write
<1>11. CASE Signal \/ Crash
  BY <1>11 DEF Signal, Crash, Disturb
<1>12. ASSUME NEW k \in Key, ClearDeferred(k) \/ ClearManual(k)
       PROVE  CountInv'
  BY <1>12 DEF ClearDeferred, ClearManual, Disturb, FileGone
<1>13. CASE ClearAllManual
  BY <1>13 DEF ClearAllManual, Disturb
<1>14. CASE UNCHANGED vars
  BY <1>14 DEF vars
<1> QED
  BY <1>1, <1>2, <1>3, <1>4, <1>5, <1>6, <1>7, <1>8, <1>9, <1>10, <1>11, <1>12, <1>13, <1>14
     DEF Next, Replay, Enqueue, Environment

(* An entry that keeps failing fails at most max_attempts times, plus one  *)
(* for each kill, signal, clear or failed file operation.                  *)
THEOREM JournalBoundedRetries == Spec => []BoundedRetries
<1>1. Init => SnapInv /\ CountInv
  BY MaxAttemptsAssumption DEF Init, SnapInv, CountInv, InReplay, Zero
<1>2. TypeOK /\ CountInv => BoundedRetries
  BY MaxAttemptsAssumption, FaultsAssumption DEF TypeOK, CountInv, BoundedRetries
<1> QED
  BY <1>1, <1>2, DedupInvariant, SnapStep, CountStep, PTL DEF Spec, DedupInv

-----------------------------------------------------------------------------
(* While no one clears entries during a run, the entries of a snapshot     *)
(* that replay has not settled yet are on disk.                            *)
SnapOnDisk == InReplay \subseteq deferred

(* Unless somebody clears entries during a run, what replay still has to   *)
(* settle is in the directory.                                             *)
LEMMA SnapOnDiskInvariant ==
  ASSUME "clear_running" \notin Faults
  PROVE  Spec => []SnapOnDisk
<1>1. Init => SnapOnDisk
  BY DEF Init, SnapOnDisk, InReplay
<1>2. DedupInv /\ SnapOnDisk /\ [Next]_vars => SnapOnDisk'
  <2> SUFFICES ASSUME DedupInv, SnapOnDisk, [Next]_vars PROVE SnapOnDisk'
    OBVIOUS
  <2> USE NoKeyAssumption
      DEF DedupInv, TypeOK, LocalInv, SnapOnDisk, InReplay, disk, local, NoLocal
  <2>1. CASE StartRun \/ ApplyDone \/ EvalError
    BY <2>1 DEF StartRun, ApplyDone, EvalError
  <2>2. CASE ListSorted \/ LoopEnd \/ PromoteMissing
    BY <2>2 DEF ListSorted, LoopEnd, PromoteMissing, ReplayDone
  <2>3. ASSUME NEW k \in Key, DispatchOk(k) \/ DispatchUnavailable(k) \/ DispatchError(k)
        PROVE  SnapOnDisk'
    BY <2>3 DEF DispatchOk, DispatchUnavailable, DispatchError, Visit, IsFirst
  <2>4. CASE HealthCheckOk \/ HealthCheckError \/ HealthCheckCancelled
    BY <2>4 DEF HealthCheckOk, HealthCheckError, HealthCheckCancelled, NextEntry
  <2>5. CASE Remove \/ Promote \/ Bump
    BY <2>5 DEF Remove, Promote, Bump, NextEntry, FileGone, atomic_write
  <2>6. CASE Enqueue
    BY <2>6 DEF Enqueue, EnqueueNoop, EnqueueBegin, Unlink, Write, Idle, FileGone
  <2>7. CASE ReplayIoError \/ EnqueueIoError \/ Signal \/ Crash
    BY <2>7 DEF ReplayIoError, ReplayDone, EnqueueIoError, Signal, Crash
  <2>8. ASSUME NEW k \in Key, ClearDeferred(k) \/ ClearManual(k)
        PROVE  SnapOnDisk'
    BY <2>8 DEF ClearDeferred, ClearManual, Disturb, FileGone
  <2>9. CASE UNCHANGED vars
    BY <2>9 DEF vars
  <2>10. CASE ClearAllManual
    BY <2>10 DEF ClearAllManual
  <2> QED
    BY <2>1, <2>2, <2>3, <2>4, <2>5, <2>6, <2>7, <2>8, <2>9, <2>10
       DEF Next, Replay, Environment
<1> QED
  BY <1>1, <1>2, DedupInvariant, PTL DEF Spec

(* Writing the new entry of an enqueue is the insertion of DeferQueue: no  *)
(* entry covers it, and it takes the place of those it covers.             *)
LEMMA WriteInserts ==
  ASSUME DedupInv, step = "unlink", olds = {}, atomic_write(cur, 0), gone' = {}
  PROVE  Queue!Insert(cur)
<1> USE NoKeyAssumption DEF DedupInv, TypeOK, ReplaceInv
<1>1. cur \in Key
  OBVIOUS
<1>2. \A j \in deferred : ~Covers(j, cur) /\ ~Covers(cur, j)
  <2> SUFFICES ASSUME NEW j \in deferred, j.unit = cur.unit PROVE j.action # cur.action
    BY DEF Covers
  <2>1. j \in Key /\ j # cur
    OBVIOUS
  <2> QED
    BY <1>1, <2>1 DEF Key
<1>3. \A j \in gone : ~Covers(j, cur) /\ Covers(cur, j)
  BY DEF Covers, subsumes
<1>4. {j \in deferred \cup gone : ~Covers(cur, j)} = deferred
  BY <1>2, <1>3
<1> QED
  BY <1>2, <1>3, <1>4 DEF Queue!Insert, atomic_write

(* The files of the journal implement an atomic queue: whatever step the   *)
(* process is killed at and whichever file operation fails, outside the    *)
(* replace window and with clears only between runs, each step is an       *)
(* operation of DeferQueue or leaves the queue as it is.                   *)
THEOREM JournalImplementsQueue ==
  ASSUME "replace" \notin Faults, "clear_running" \notin Faults
  PROVE  Spec => ImplementsQueue
<1>1. Init => Queue!Init
  BY DEF Init, Queue!Init
<1>2. DedupInv /\ SnapOnDisk /\ [Next]_vars => [Queue!Next]_(Queue!vars)
  <2> SUFFICES ASSUME DedupInv, SnapOnDisk, [Next]_vars
               PROVE  Queue!Next \/ UNCHANGED Queue!vars
    OBVIOUS
  <2> USE NoKeyAssumption DEF DedupInv, TypeOK, LocalInv, disk, local, NoLocal, Queue!vars
  <2>1. CASE StartRun \/ ApplyDone \/ EvalError
    BY <2>1 DEF StartRun, ApplyDone, EvalError
  <2>2. CASE ListSorted \/ LoopEnd \/ PromoteMissing
    BY <2>2 DEF ListSorted, LoopEnd, PromoteMissing, ReplayDone
  <2>3. ASSUME NEW k \in Key, DispatchOk(k) PROVE Queue!Next \/ UNCHANGED Queue!vars
    <3>1. CASE k.unit \in HealthChecked
      BY <2>3, <3>1 DEF DispatchOk, Visit
    <3>2. CASE k.unit \notin HealthChecked
      <4>1. Queue!Execute(k)
        BY <2>3, <3>2 DEF DispatchOk, Visit, IsFirst, Serve, Queue!Execute, SnapOnDisk, InReplay
      <4> QED
        BY <4>1 DEF Queue!Next
    <3> QED
      BY <3>1, <3>2
  <2>4. ASSUME NEW k \in Key, DispatchUnavailable(k) \/ DispatchError(k)
        PROVE  UNCHANGED Queue!vars
    BY <2>4 DEF DispatchUnavailable, DispatchError, Visit
  <2>5. CASE HealthCheckOk
    <3>1. Queue!Execute(cur)
      BY <2>5 DEF HealthCheckOk, Serve, Queue!Execute, SnapOnDisk, InReplay
    <3> QED
      BY <2>5, <3>1 DEF Queue!Next, HealthCheckOk
  <2>6. CASE HealthCheckError \/ HealthCheckCancelled
    BY <2>6 DEF HealthCheckError, HealthCheckCancelled, NextEntry
  <2>7. ASSUME step = "remove", FileGone(cur), gone' = gone, UNCHANGED <<manual, owed>>
        PROVE  Queue!Next
    <3>1. Queue!Drop(cur)
      BY <2>7 DEF FileGone, Queue!Drop, SnapOnDisk, InReplay, RemoveInv
    <3> QED
      BY <2>7, <3>1 DEF Queue!Next
  <2>8. ASSUME step = "promote", cur \in deferred, FileGone(cur), gone' = gone,
               manual' = manual \cup {cur}, UNCHANGED owed
        PROVE  Queue!Next
    <3>1. Queue!Park(cur)
      BY <2>8 DEF FileGone, Queue!Park
    <3> QED
      BY <2>8, <3>1 DEF Queue!Next
  <2>9. CASE Remove
    BY <2>7, <2>9 DEF Remove, NextEntry
  <2>10. CASE Promote
    BY <2>8, <2>10 DEF Promote, NextEntry
  <2>11. CASE Bump
    BY <2>11 DEF Bump, NextEntry, atomic_write, SnapOnDisk, InReplay
  <2>12. CASE ReplayIoError
    BY <2>7, <2>8, <2>12
       DEF ReplayIoError, ReplayDone, atomic_write, SnapOnDisk, InReplay
  <2>13. ASSUME NEW k \in Key, EnqueueNoop(k) PROVE Queue!Next
    <3>1. Queue!Accept(k)
      BY <2>13 DEF EnqueueNoop, SameTarget, Idle, Covers, Queue!Accept, Queue!Insert
    <3> QED
      BY <3>1 DEF Queue!Next
  <2>14. ASSUME NEW k \in Key, EnqueueBegin(k) \/ Unlink(k) PROVE UNCHANGED Queue!vars
    BY <2>14 DEF EnqueueBegin, Unlink, FileGone, IsFirst
  <2>15. CASE Write
    <3>1. Queue!Accept(cur) /\ cur \in Key
      BY <2>15, WriteInserts DEF Write, Queue!Accept
    <3> QED
      BY <3>1 DEF Queue!Next
  <2>16. CASE EnqueueIoError
    <3>1. CASE UNCHANGED deferred /\ gone = {}
      BY <2>16, <3>1 DEF EnqueueIoError
    <3>2. CASE olds = {} /\ atomic_write(cur, 0)
      <4>1. Queue!AcceptUnconfirmed(cur) /\ cur \in Key
        BY <2>16, <3>2, WriteInserts DEF EnqueueIoError, Queue!AcceptUnconfirmed
      <4> QED
        BY <4>1 DEF Queue!Next
    <3> QED
      BY <2>16, <3>1, <3>2, "replace" \notin Faults DEF EnqueueIoError, Disturb
  <2>17. CASE Signal \/ Crash
    BY <2>17, "replace" \notin Faults DEF Signal, Crash, Disturb
  <2>18. ASSUME NEW k \in Key, ClearDeferred(k) PROVE Queue!Next
    <3>1. Queue!Clear({k}, {}) /\ gone = {}
      BY <2>18, "clear_running" \notin Faults
         DEF ClearDeferred, Disturb, FileGone, Forget, Queue!Clear
    <3>2. {k} \in SUBSET (deferred \cup gone) /\ {} \in SUBSET manual
      BY <2>18 DEF ClearDeferred
    <3> QED
      BY <3>1, <3>2 DEF Queue!Next
  <2>19. ASSUME NEW k \in Key, ClearManual(k) PROVE Queue!Next
    <3>1. Queue!Clear({}, {k}) /\ gone = {}
      BY <2>19, "clear_running" \notin Faults
         DEF ClearManual, Disturb, Forget, Queue!Clear
    <3>2. {} \in SUBSET (deferred \cup gone) /\ {k} \in SUBSET manual
      BY <2>19 DEF ClearManual
    <3> QED
      BY <3>1, <3>2 DEF Queue!Next
  <2>20. CASE ClearAllManual
    <3>1. Queue!Clear({}, manual) /\ gone = {}
      BY <2>20, "clear_running" \notin Faults
         DEF ClearAllManual, Disturb, Forget, Queue!Clear
    <3>2. {} \in SUBSET (deferred \cup gone) /\ manual \in SUBSET manual
      OBVIOUS
    <3> QED
      BY <3>1, <3>2 DEF Queue!Next
  <2>21. CASE UNCHANGED vars
    BY <2>21 DEF vars
  <2> QED
    BY <2>1, <2>2, <2>3, <2>4, <2>5, <2>6, <2>9, <2>10, <2>11, <2>12, <2>13, <2>14, <2>15,
       <2>16, <2>17, <2>18, <2>19, <2>20, <2>21 DEF Next, Replay, Enqueue, Environment
<1> QED
  BY <1>1, <1>2, DedupInvariant, SnapOnDiskInvariant, PTL DEF Spec, ImplementsQueue, Queue!Spec
=============================================================================
