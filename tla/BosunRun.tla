------------------------------- MODULE BosunRun -------------------------------
(***************************************************************************)
(* Invocations of `bosun apply` on one node (bosun-cli/src/run.rs): the    *)
(* timer's and the operator's may overlap. Each tries the lock without     *)
(* waiting; the one that gets it loads the bundle, replays the journal,    *)
(* evaluates the manifest, plans or applies, replays again, counts what is *)
(* left in the journal and writes the metric file; one that finds the lock *)
(* taken writes a metric file too, and goes. `bosun status --clear` takes  *)
(* no lock.                                                                *)
(*                                                                         *)
(* This is where the journal is shared between processes, which modules    *)
(* DeferJournal and Convergence rely on not happening. Journal operations  *)
(* are atomic (module DeferQueue); entries are opaque.                     *)
(***************************************************************************)
EXTENDS Naturals, FiniteSets

CONSTANTS
    Proc,     \* concurrent invocations
    Entry,    \* journal entries
    MaxRuns,  \* bound on the number of invocations
    Faults,   \* a subset of FaultKinds
    NoProc    \* nobody holds the lock

(* "kill" is a kill of a process, "io" a failed write of the metric file   *)
(* or an environment in which an invocation ends before it can write one,  *)
(* "clear" is bosun status --clear.                                        *)
FaultKinds == {"kill", "io", "clear"}

ASSUME EntryAssumption == IsFiniteSet(Entry)
ASSUME MaxRunsAssumption == MaxRuns \in Nat
ASSUME FaultsAssumption == Faults \subseteq FaultKinds
ASSUME NoProcAssumption == NoProc \notin Proc

(* exit_code.rs.                                                           *)
SUCCESS == 0
APPLY_PARTIAL_FAILURE == 1
DRY_RUN_DRIFT == 2
EVAL_ERROR == 3
CLI_ENV_ERROR == 4
APPLY_INTERRUPTED == 130
ExitCode == {SUCCESS, APPLY_PARTIAL_FAILURE, DRY_RUN_DRIFT, EVAL_ERROR, CLI_ENV_ERROR,
             APPLY_INTERRUPTED}

VARIABLES
    lock,      \* who holds the flock on lock_path
    journal,   \* ids with a .deferred file
    metric,    \* the contents of the metric file
    pc,        \* where each invocation stands
    dry,       \* its --dry-run
    snap,      \* what is left of its replay's snapshot
    exit,      \* the exit code it will return
    pending,   \* its count of the journal
    cancelled, \* its cancellation token
    runs,      \* invocations so far
    cleared,   \* history: entries that the operator removed from the journal
    last,      \* history: exit code of the last invocation that had the lock
    clean      \* history: since the lock was last taken, nothing but its
               \* holder has written the metric file or cleared the journal

local == <<dry, snap, exit, pending, cancelled>>
vars == <<lock, journal, metric, pc, dry, snap, exit, pending, cancelled, runs, cleared,
          last, clean>>

Replaying == {"pre", "post"}
Locked == {"load", "list_pre", "pre", "eval", "apply", "list_post", "post", "count",
           "metric", "fail", "exit"}

TypeOK ==
    /\ lock \in Proc \cup {NoProc}
    /\ journal \subseteq Entry
    /\ metric \in [exit : ExitCode, pending : Nat]
    /\ pc \in [Proc -> {"off", "boot", "held"} \cup Locked]
    /\ dry \in [Proc -> BOOLEAN]
    /\ snap \in [Proc -> SUBSET Entry]
    /\ exit \in [Proc -> ExitCode]
    /\ pending \in [Proc -> Nat]
    /\ cancelled \in [Proc -> BOOLEAN]
    /\ runs \in 0..MaxRuns
    /\ cleared \subseteq Entry
    /\ last \in ExitCode
    /\ clean \in BOOLEAN

(* A node after its first run, with nothing to do.                         *)
Init ==
    /\ lock = NoProc /\ journal = {}
    /\ metric = [exit |-> SUCCESS, pending |-> 0]
    /\ pc = [p \in Proc |-> "off"]
    /\ dry = [p \in Proc |-> FALSE] /\ snap = [p \in Proc |-> {}]
    /\ exit = [p \in Proc |-> SUCCESS] /\ pending = [p \in Proc |-> 0]
    /\ cancelled = [p \in Proc |-> FALSE]
    /\ runs = 0 /\ cleared = {} /\ last = SUCCESS /\ clean = TRUE

Goto(p, l) == pc' = [pc EXCEPT ![p] = l]

At(p, l) == pc[p] = l

-----------------------------------------------------------------------------
(* Bootstrap and lock.                                                     *)

Start(p) ==
    /\ At(p, "off") /\ runs < MaxRuns
    /\ runs' = runs + 1
    /\ \E d \in BOOLEAN : dry' = [dry EXCEPT ![p] = d]
    /\ exit' = [exit EXCEPT ![p] = SUCCESS]
    /\ cancelled' = [cancelled EXCEPT ![p] = FALSE]
    /\ Goto(p, "boot")
    /\ UNCHANGED <<lock, journal, metric, snap, pending, cleared, last, clean>>

(* ensure_dirs fails or the lock file cannot be opened: no metric file.    *)
BootstrapFails(p) ==
    /\ At(p, "boot") /\ "io" \in Faults
    /\ Goto(p, "off")
    /\ UNCHANGED <<lock, journal, metric, local, runs, cleared, last, clean>>

(* Mutant: the lock is shared.                                             *)
Acquired_Shared(p) ==
    /\ At(p, "boot")
    /\ lock' = p /\ clean' = TRUE
    /\ Goto(p, "load")
    /\ UNCHANGED <<journal, metric, local, runs, cleared, last>>

(* try_flock.                                                              *)
Acquired(p) ==
    /\ At(p, "boot") /\ lock = NoProc
    /\ lock' = p /\ clean' = TRUE
    /\ Goto(p, "load")
    /\ UNCHANGED <<journal, metric, local, runs, cleared, last>>

Held(p) ==
    /\ At(p, "boot") /\ lock # NoProc
    /\ Goto(p, "held")
    /\ UNCHANGED <<lock, journal, metric, local, runs, cleared, last, clean>>

(* The gauges of the metric file that the properties are about.            *)
FormatMetric(code, n) == [exit |-> code, pending |-> n]

(* The file is written beside the old one and renamed over it.             *)
write_atomic(code, n) == metric' = FormatMetric(code, n)

(* The snapshot of a skipped invocation is all zeros.                      *)
WriteSkip(p) ==
    /\ At(p, "held")
    /\ \/ write_atomic(SUCCESS, 0)
       \/ "io" \in Faults /\ UNCHANGED metric
    /\ clean' = FALSE
    /\ Goto(p, "off")
    /\ UNCHANGED <<lock, journal, local, runs, cleared, last>>

(* LockGuard::drop, at the end of run.                                     *)
Release(p) ==
    /\ lock' = NoProc
    /\ Goto(p, "off")

-----------------------------------------------------------------------------
(* Before the first replay.                                                *)

(* logging::init fails: the invocation ends without a metric file.         *)
LoggingFails(p) ==
    /\ At(p, "load") /\ "io" \in Faults
    /\ Release(p)
    /\ last' = CLI_ENV_ERROR /\ clean' = FALSE
    /\ UNCHANGED <<journal, metric, local, runs, cleared>>

(* The early returns of run through write_failure_metric.                  *)
Fails(p, code) ==
    /\ exit' = [exit EXCEPT ![p] = code]
    /\ Goto(p, "fail")

(* Bundle::load_dir or check_compatibility fails, or Journal::open does.   *)
LoadFails(p) ==
    /\ At(p, "load")
    /\ \E code \in {EVAL_ERROR, CLI_ENV_ERROR} : Fails(p, code)
    /\ UNCHANGED <<lock, journal, metric, dry, snap, pending, cancelled, runs, cleared,
                   last, clean>>

Opened(p) ==
    /\ At(p, "load")
    /\ Goto(p, "list_pre")
    /\ UNCHANGED <<lock, journal, metric, local, runs, cleared, last, clean>>

-----------------------------------------------------------------------------
(* maybe_run_replay_phase, before evaluation and after apply.              *)

ReplayPhase(p, list, loop, next) ==
    /\ At(p, list)
    /\ IF dry[p] THEN Goto(p, next) /\ UNCHANGED snap
                 ELSE Goto(p, loop) /\ snap' = [snap EXCEPT ![p] = journal]
    /\ UNCHANGED <<lock, journal, metric, dry, exit, pending, cancelled, runs, cleared,
                   last, clean>>

(* Mutant: a dry run replays the journal like any other.                   *)
BeginReplay_AlsoDry(p) ==
    /\ pc[p] \in {"list_pre", "list_post"}
    /\ Goto(p, IF At(p, "list_pre") THEN "pre" ELSE "post")
    /\ snap' = [snap EXCEPT ![p] = journal]
    /\ UNCHANGED <<lock, journal, metric, dry, exit, pending, cancelled, runs, cleared,
                   last, clean>>

BeginReplay(p) ==
    \/ ReplayPhase(p, "list_pre", "pre", "eval")
    \/ ReplayPhase(p, "list_post", "post", "count")

(* An entry is executed and removed or set aside, left alone because its   *)
(* client is unavailable, or written back with one more attempt.           *)
ReplayEntry(p, e) ==
    /\ pc[p] \in Replaying /\ ~cancelled[p] /\ e \in snap[p]
    /\ snap' = [snap EXCEPT ![p] = @ \ {e}]
    /\ \/ journal' = journal \ {e} /\ UNCHANGED cleared
       \/ UNCHANGED <<journal, cleared>>
       \/ journal' = journal \cup {e} /\ cleared' = cleared \ {e}
    /\ UNCHANGED <<lock, metric, pc, dry, exit, pending, cancelled, runs, last, clean>>

(* The loop ends, is cancelled, or an error leaves it: the run goes on.    *)
EndReplay(p) ==
    /\ pc[p] \in Replaying
    /\ snap[p] = {} \/ cancelled[p] \/ "io" \in Faults
    /\ Goto(p, IF At(p, "pre") THEN "eval" ELSE "count")
    /\ snap' = [snap EXCEPT ![p] = {}]
    /\ UNCHANGED <<lock, journal, metric, dry, exit, pending, cancelled, runs, cleared,
                   last, clean>>

-----------------------------------------------------------------------------
(* Evaluation, plan and apply.                                             *)

(* Mutant: a manifest that does not evaluate leaves the old metric file.   *)
EvalFails_NoMetric(p) ==
    /\ At(p, "eval")
    /\ exit' = [exit EXCEPT ![p] = EVAL_ERROR]
    /\ Goto(p, "exit")
    /\ UNCHANGED <<lock, journal, metric, dry, snap, pending, cancelled, runs, cleared,
                   last, clean>>

(* The manifest does not evaluate or its graph cannot be ordered.          *)
EvalFails(p) ==
    /\ At(p, "eval")
    /\ Fails(p, EVAL_ERROR)
    /\ UNCHANGED <<lock, journal, metric, dry, snap, pending, cancelled, runs, cleared,
                   last, clean>>

(* --dry-run: plan_only, with or without drift.                            *)
PlanOnly(p) ==
    /\ At(p, "eval") /\ dry[p]
    /\ \E code \in {SUCCESS, DRY_RUN_DRIFT} : exit' = [exit EXCEPT ![p] = code]
    /\ Goto(p, "list_post")
    /\ UNCHANGED <<lock, journal, metric, dry, snap, pending, cancelled, runs, cleared,
                   last, clean>>

BeginApply(p) ==
    /\ At(p, "eval") /\ ~dry[p]
    /\ Goto(p, "apply")
    /\ UNCHANGED <<lock, journal, metric, local, runs, cleared, last, clean>>

(* A service puts its action into the journal.                             *)
Enqueue(p, e) ==
    /\ At(p, "apply") /\ e \notin journal
    /\ journal' = journal \cup {e} /\ cleared' = cleared \ {e}
    /\ UNCHANGED <<lock, metric, pc, local, runs, last, clean>>

(* An interruption weighs more than a failure.                             *)
ApplyCode(report) ==
    IF "interrupted" \in report THEN APPLY_INTERRUPTED
    ELSE IF "failed" \in report THEN APPLY_PARTIAL_FAILURE
    ELSE SUCCESS

Applied(p) ==
    /\ At(p, "apply")
    /\ \E report \in SUBSET {"interrupted", "failed"} :
          exit' = [exit EXCEPT ![p] = ApplyCode(report)]
    /\ Goto(p, "list_post")
    /\ UNCHANGED <<lock, journal, metric, dry, snap, pending, cancelled, runs, cleared,
                   last, clean>>

-----------------------------------------------------------------------------
(* The end of a run.                                                       *)

count_pending_defers(p) ==
    /\ At(p, "count")
    /\ pending' = [pending EXCEPT ![p] = Cardinality(journal)]
    /\ Goto(p, "metric")
    /\ UNCHANGED <<lock, journal, metric, dry, snap, exit, cancelled, runs, cleared, last,
                   clean>>

(* A metric file that cannot be written is only logged.                    *)
WriteMetric(p) ==
    /\ At(p, "metric")
    /\ \/ write_atomic(exit[p], pending[p]) /\ UNCHANGED clean
       \/ "io" \in Faults /\ clean' = FALSE /\ UNCHANGED metric
    /\ Goto(p, "exit")
    /\ UNCHANGED <<lock, journal, local, runs, cleared, last>>

write_failure_metric(p) ==
    /\ At(p, "fail")
    /\ \/ write_atomic(exit[p], 0) /\ UNCHANGED clean
       \/ "io" \in Faults /\ clean' = FALSE /\ UNCHANGED metric
    /\ Goto(p, "exit")
    /\ UNCHANGED <<lock, journal, local, runs, cleared, last>>

Exit(p) ==
    /\ At(p, "exit")
    /\ Release(p)
    /\ last' = exit[p]
    /\ UNCHANGED <<journal, metric, local, runs, cleared, clean>>

-----------------------------------------------------------------------------
(* The environment.                                                        *)

(* The first SIGTERM or SIGINT after install_signal_handlers.              *)
Signal(p) ==
    /\ pc[p] \in Locked /\ ~cancelled[p]
    /\ cancelled' = [cancelled EXCEPT ![p] = TRUE]
    /\ UNCHANGED <<lock, journal, metric, pc, dry, snap, exit, pending, runs, cleared, last,
                   clean>>

(* A killed process loses its lock with its file descriptors.              *)
Kill(p) ==
    /\ pc[p] # "off" /\ "kill" \in Faults
    /\ IF lock = p THEN lock' = NoProc /\ clean' = FALSE ELSE UNCHANGED <<lock, clean>>
    /\ Goto(p, "off")
    /\ snap' = [snap EXCEPT ![p] = {}]
    /\ UNCHANGED <<journal, metric, dry, exit, pending, cancelled, runs, cleared, last>>

(* bosun status --clear.                                                   *)
Clear(e) ==
    /\ e \in journal /\ "clear" \in Faults
    /\ journal' = journal \ {e}
    /\ cleared' = cleared \cup {e} /\ clean' = FALSE
    /\ UNCHANGED <<lock, metric, pc, local, runs, last>>

-----------------------------------------------------------------------------
Step(p) ==
    \/ Start(p) \/ BootstrapFails(p) \/ Acquired(p) \/ Held(p) \/ WriteSkip(p)
    \/ LoggingFails(p) \/ LoadFails(p) \/ Opened(p)
    \/ BeginReplay(p) \/ EndReplay(p)
    \/ EvalFails(p) \/ PlanOnly(p) \/ BeginApply(p) \/ Applied(p)
    \/ count_pending_defers(p) \/ WriteMetric(p) \/ write_failure_metric(p) \/ Exit(p)
    \/ \E e \in Entry : ReplayEntry(p, e) \/ Enqueue(p, e)

Next ==
    \/ \E p \in Proc : Step(p) \/ Signal(p) \/ Kill(p)
    \/ \E e \in Entry : Clear(e)

Spec == Init /\ [][Next]_vars

-----------------------------------------------------------------------------
(* The inductive invariant behind the properties.                          *)

(* The lock is held exactly by the one invocation that is past try_flock.  *)
LockInv == \A p \in Proc : pc[p] \in Locked <=> lock = p

(* Only a replay has a snapshot, and a dry run never replays or applies.   *)
SnapInv ==
    \A p \in Proc :
        /\ snap[p] # {} => pc[p] \in Replaying
        /\ pc[p] \in Replaying \cup {"apply"} => ~dry[p]

Early == {EVAL_ERROR, CLI_ENV_ERROR}

(* What a metric file says of a run that returned code.                    *)
Shows(code) ==
    /\ metric.exit = code
    /\ code \notin Early => metric.pending = Cardinality(journal)

(* The end of a run, step by step.                                         *)
MetricInv ==
    /\ \A p \in Proc :
          /\ pc[p] \in {"list_post", "post", "count", "metric"} => exit[p] \notin Early
          /\ pc[p] = "fail" => exit[p] \in Early
          /\ pc[p] = "metric" /\ clean => pending[p] = Cardinality(journal)
          /\ pc[p] = "exit" /\ clean => Shows(exit[p])
    /\ lock = NoProc /\ clean => Shows(last)

-----------------------------------------------------------------------------
(* Properties.                                                             *)

(* No invocation executes an entry that another one has executed since it  *)
(* listed the journal: whatever is left of a snapshot is still on disk, or *)
(* was removed by the operator.                                            *)
SnapshotFresh == \A p \in Proc : snap[p] \subseteq journal \cup cleared

(* While a dry run is under way the journal changes by the operator's hand *)
(* only, whatever other invocations do.                                    *)
DryRunReadOnly ==
    [][\A p \in Proc : lock = p /\ dry[p] =>
          journal' \subseteq journal /\ journal \ journal' \subseteq cleared']_vars

(* Between runs the metric file shows the exit code of the last run and,   *)
(* unless that one ended early, what is in the journal, provided that the  *)
(* file could be written and no skipped invocation or status --clear came  *)
(* after the lock was taken.                                               *)
MetricHonest == lock = NoProc /\ clean => Shows(last)
=============================================================================
