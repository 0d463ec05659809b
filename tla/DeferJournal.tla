---------------------------- MODULE DeferJournal ----------------------------
(***************************************************************************)
(* The journal of deferred service actions and the loop that replays it    *)
(* (bosun-core/src/defers), at the granularity of file-system operations:  *)
(* enqueue lists the journal, unlinks the entries the new one subsumes and *)
(* only then writes its own file; replay works on a snapshot of the        *)
(* journal and dispatches, checks, removes, rewrites or promotes one entry *)
(* at a time. Around them run `bosun status --clear`, which takes no lock, *)
(* SIGTERM, failing file operations and kills of the process.              *)
(*                                                                         *)
(* One bosun process at a time uses the journal (the flock of              *)
(* bosun-cli/src/bootstrap.rs), so the process's local state is a single   *)
(* copy. A kill loses that state and keeps the files: every write is a     *)
(* rename of a complete temporary file, and a file that was never renamed  *)
(* into place does not end in .deferred, so no reader sees it.             *)
(***************************************************************************)
EXTENDS Naturals

CONSTANTS
    Units,         \* pairs (init_system, target), as their lexicographic ranks
    Actions,       \* the DeferActions that get enqueued
    HealthChecked, \* units whose entries carry a health_check
    MaxAttempts,   \* DeferEntry::max_attempts
    Faults,        \* the disturbances that occur, a subset of FaultKinds
    MaxFaults,     \* bound on their number
    NoKey          \* no entry is being worked on

(* "crash" kills the process outside the window in which enqueue has       *)
(* unlinked the old entries and not yet written the new one; "io" is a     *)
(* file operation that fails, outside that window; "replace" is either of  *)
(* the two inside it; "clear" is `bosun status --clear` while no run is    *)
(* under way, "clear_running" the same during one; "signal" is SIGTERM or  *)
(* SIGINT.                                                                 *)
FaultKinds == {"crash", "io", "replace", "clear", "clear_running", "signal"}

DeferActions == {"restart", "reload_or_restart", "reload", "command", "daemon_reload"}

(* The file name <sortkey>-<id> of an entry is determined by its action    *)
(* and its unit; the extension tells .deferred from .manual_clear.         *)
Key == [unit : Units, action : Actions]

ASSUME UnitsAssumption == Units \subseteq Nat
ASSUME ActionsAssumption == Actions \subseteq DeferActions
ASSUME MaxAttemptsAssumption == MaxAttempts \in Nat \ {0}
ASSUME FaultsAssumption == Faults \subseteq FaultKinds /\ MaxFaults \in Nat
ASSUME NoKeyAssumption == NoKey \notin Key

VARIABLES
    deferred,  \* keys with a <sortkey>-<id>.deferred file
    attempts,  \* attempt_count in that file
    manual,    \* keys with a <sortkey>-<id>.manual_clear file
    phase,     \* "off", or the part of `bosun apply` that is running
    step,      \* where the process stands in replay or enqueue
    cur,       \* the entry replay or enqueue is working on
    todo,      \* entries of the replay's snapshot still to be visited
    snap,      \* their attempt_count as the snapshot read it
    olds,      \* subsumed entries that enqueue still has to unlink
    gone,      \* subsumed entries that this enqueue has unlinked
    cancelled, \* the cancellation token of the process
    faults,    \* disturbances so far
    owed,      \* history: accepted entries whose action has not run since
    failures   \* history: failed executions of the entry since it was created

disk  == <<deferred, attempts, manual>>
local == <<cur, todo, snap, olds, gone>>
vars  == <<deferred, attempts, manual, phase, step, cur, todo, snap, olds, gone,
           cancelled, faults, owed, failures>>

ReplaySteps == {"list", "next", "check", "remove", "err", "promote"}
Steps == ReplaySteps \cup {"idle", "unlink"}

(* The types, and which steps belong to which part of a run: replay runs   *)
(* before and after apply, enqueue within it, and an entry is being worked *)
(* on exactly in the steps that need one.                                  *)
TypeOK ==
    /\ deferred \subseteq Key
    /\ attempts \in [Key -> Nat]
    /\ manual \subseteq Key
    /\ phase \in {"off", "pre", "apply", "post"}
    /\ step \in Steps
    /\ phase \in {"pre", "post"} <=> step \in ReplaySteps
    /\ step = "unlink" => phase = "apply"
    /\ cur \in Key \cup {NoKey}
    /\ cur = NoKey <=> step \in {"idle", "list", "next"}
    /\ todo \subseteq Key
    /\ snap \in [Key -> Nat]
    /\ olds \subseteq Key
    /\ gone \subseteq Key
    /\ cancelled \in BOOLEAN
    /\ faults \in 0..MaxFaults
    /\ owed \subseteq Key
    /\ failures \in [Key -> Nat]

-----------------------------------------------------------------------------
(* Actions and their order.                                                *)

(* restart does what reload_or_restart and reload would do,                *)
(* reload_or_restart what reload would do; no other pair is related.       *)
subsumes(a, b) ==
    <<a, b>> \in {<<"restart", "reload">>, <<"restart", "reload_or_restart">>,
                  <<"reload_or_restart", "reload">>}

(* Entry j executes everything entry k asks for.                           *)
Covers(j, k) == j.unit = k.unit /\ (j.action = k.action \/ subsumes(j.action, k.action))

sortkey == [a \in DeferActions |->
    CASE a = "restart" -> 0
      [] a = "reload_or_restart" -> 1
      [] a = "reload" -> 2
      [] a = "command" -> 3
      [] a = "daemon_reload" -> 4]

(* The lexicographic order of the file names.                              *)
Before(j, k) ==
    \/ sortkey[j.action] < sortkey[k.action]
    \/ sortkey[j.action] = sortkey[k.action] /\ j.unit < k.unit

(* list_sorted visits the entries of S in this order.                      *)
IsFirst(k, S) == k \in S /\ \A j \in S \ {k} : Before(k, j)

-----------------------------------------------------------------------------
Zero == [k \in Key |-> 0]

Init ==
    /\ deferred = {} /\ attempts = Zero /\ manual = {}
    /\ phase = "off" /\ step = "idle"
    /\ cur = NoKey /\ todo = {} /\ snap = Zero /\ olds = {} /\ gone = {}
    /\ cancelled = FALSE /\ faults = 0
    /\ owed = {} /\ failures = Zero

NoLocal == cur' = NoKey /\ todo' = {} /\ snap' = Zero /\ olds' = {} /\ gone' = {}

(* The .deferred file of k is unlinked or renamed away.                    *)
FileGone(k) ==
    /\ deferred' = deferred \ {k}
    /\ attempts' = [attempts EXCEPT ![k] = 0]
    /\ failures' = [failures EXCEPT ![k] = 0]

(* atomic_write: the file of k is there, with attempt_count n.             *)
atomic_write(k, n) ==
    /\ deferred' = deferred \cup {k}
    /\ attempts' = [attempts EXCEPT ![k] = n]

(* A disturbance of the given kind happens, if the model has it.           *)
Disturb(kind) == kind \in Faults /\ faults < MaxFaults /\ faults' = faults + 1

(* replay is over, with Ok or with Err: the run goes on to evaluate and    *)
(* apply after the first one and ends after the second.                    *)
ReplayDone ==
    /\ phase' = (IF phase = "pre" THEN "apply" ELSE "off")
    /\ step' = "idle"
    /\ NoLocal

-----------------------------------------------------------------------------
(* One `bosun apply`.                                                      *)

(* The process has the lock and opens the journal; replay is the first     *)
(* thing it does.                                                          *)
StartRun ==
    /\ phase = "off"
    /\ phase' = "pre" /\ step' = "list" /\ cancelled' = FALSE
    /\ UNCHANGED <<disk, local, faults, owed, failures>>

(* The orchestrator has gone through its resources: the second replay.     *)
ApplyDone ==
    /\ phase = "apply" /\ step = "idle"
    /\ phase' = "post" /\ step' = "list"
    /\ UNCHANGED <<disk, local, cancelled, faults, owed, failures>>

(* The manifest does not evaluate or the graph has a cycle: the run ends   *)
(* without the second replay.                                              *)
EvalError ==
    /\ phase = "apply" /\ step = "idle"
    /\ phase' = "off" /\ step' = "idle"
    /\ UNCHANGED <<disk, local, cancelled, faults, owed, failures>>

-----------------------------------------------------------------------------
(* replay_with_health_check.                                               *)

(* Mutant: replay passes over the entries that have failed before.         *)
ListSorted_FreshOnly ==
    /\ step = "list"
    /\ todo' = {k \in deferred : attempts[k] = 0}
    /\ snap' = Zero
    /\ step' = "next"
    /\ UNCHANGED <<disk, phase, cur, olds, gone, cancelled, faults, owed, failures>>

ListSorted ==
    /\ step = "list"
    /\ todo' = deferred
    /\ snap' = [k \in Key |-> IF k \in deferred THEN attempts[k] ELSE 0]
    /\ step' = "next"
    /\ UNCHANGED <<disk, phase, cur, olds, gone, cancelled, faults, owed, failures>>

(* The loop is left after its last entry, or before the next one when the  *)
(* token is cancelled.                                                     *)
LoopEnd ==
    /\ step = "next"
    /\ todo = {} \/ cancelled
    /\ ReplayDone
    /\ UNCHANGED <<disk, cancelled, faults, owed, failures>>

Visit(k) ==
    /\ step = "next" /\ ~cancelled
    /\ IsFirst(k, todo)
    /\ todo' = todo \ {k}

(* Everything entry k asked for has been done.                             *)
Serve(k) == owed' = {o \in owed : ~Covers(k, o)}

(* The action ran; a health check, if the entry has one, comes next.       *)
DispatchOk(k) ==
    /\ Visit(k)
    /\ cur' = k
    /\ IF k.unit \in HealthChecked
       THEN step' = "check" /\ UNCHANGED owed
       ELSE step' = "remove" /\ Serve(k)
    /\ UNCHANGED <<disk, phase, snap, olds, gone, cancelled, faults, failures>>

(* ClientUnavailable: the entry is left as it is.                          *)
DispatchUnavailable(k) ==
    /\ Visit(k)
    /\ snap' = [snap EXCEPT ![k] = 0]
    /\ UNCHANGED <<disk, phase, step, cur, olds, gone, cancelled, faults, owed, failures>>

Fail(k) == failures' = [failures EXCEPT ![k] = @ + 1]

DispatchError(k) ==
    /\ Visit(k)
    /\ cur' = k /\ step' = "err"
    /\ Fail(k)
    /\ UNCHANGED <<disk, phase, snap, olds, gone, cancelled, faults, owed>>

HealthCheckOk ==
    /\ step = "check"
    /\ step' = "remove"
    /\ Serve(cur)
    /\ UNCHANGED <<disk, phase, local, cancelled, faults, failures>>

(* Mutant: a failed probe does not keep the entry.                         *)
HealthCheckError_Removes ==
    /\ step = "check"
    /\ step' = "remove"
    /\ Fail(cur)
    /\ UNCHANGED <<disk, phase, local, cancelled, faults, owed>>

HealthCheckError ==
    /\ step = "check"
    /\ step' = "err"
    /\ Fail(cur)
    /\ UNCHANGED <<disk, phase, local, cancelled, faults, owed>>

NextEntry ==
    /\ step' = "next"
    /\ cur' = NoKey
    /\ snap' = [snap EXCEPT ![cur] = 0]
    /\ UNCHANGED <<phase, todo, olds, gone>>

(* Mutant: a cancelled probe counts as a passed one.                       *)
HealthCheckCancelled_Passes ==
    /\ step = "check" /\ cancelled
    /\ step' = "remove"
    /\ UNCHANGED <<disk, phase, local, cancelled, faults, owed, failures>>

(* The probe gave up because the token is cancelled: the entry stays, its  *)
(* attempt_count unchanged, and the loop goes on (to its cancel check).    *)
HealthCheckCancelled ==
    /\ step = "check" /\ cancelled
    /\ NextEntry
    /\ UNCHANGED <<disk, cancelled, faults, owed, failures>>

(* Journal::remove; a file that is already gone is no error.               *)
Remove ==
    /\ step = "remove"
    /\ FileGone(cur)
    /\ NextEntry
    /\ UNCHANGED <<manual, cancelled, faults, owed>>

(* Mutant: the entry is set aside one failure too late.                    *)
Bump_OffByOne ==
    /\ step = "err"
    /\ atomic_write(cur, snap[cur] + 1)
    /\ IF snap[cur] + 1 > MaxAttempts
       THEN step' = "promote" /\ UNCHANGED <<phase, local>>
       ELSE NextEntry
    /\ UNCHANGED <<manual, cancelled, faults, owed, failures>>

(* Journal::bump_attempt writes the snapshot's entry back with its count   *)
(* incremented, whether or not the file is still there.                    *)
Bump ==
    /\ step = "err"
    /\ atomic_write(cur, snap[cur] + 1)
    /\ IF snap[cur] + 1 >= MaxAttempts
       THEN step' = "promote" /\ UNCHANGED <<phase, local>>
       ELSE NextEntry
    /\ UNCHANGED <<manual, cancelled, faults, owed, failures>>

(* Journal::move_to_manual_clear: a rename, which replaces a .manual_clear *)
(* file of the same name.                                                  *)
Promote ==
    /\ step = "promote" /\ cur \in deferred
    /\ FileGone(cur)
    /\ manual' = manual \cup {cur}
    /\ NextEntry
    /\ UNCHANGED <<cancelled, faults, owed>>

(* The rename finds no file (it was cleared meanwhile): the error leaves   *)
(* the loop, the entries after this one are not visited.                   *)
PromoteMissing ==
    /\ step = "promote" /\ cur \notin deferred
    /\ ReplayDone
    /\ UNCHANGED <<disk, cancelled, faults, owed, failures>>

(* A listing, unlink, write or rename of replay fails, or the fsync of the *)
(* directory that follows it does: the error is returned, with or without  *)
(* the operation's effect, and the rest of the snapshot is not visited.    *)
ReplayIoError ==
    /\ Disturb("io")
    /\ \/ /\ step \in {"list", "remove", "err", "promote"}
          /\ UNCHANGED <<disk, failures>>
       \/ /\ step = "remove"
          /\ FileGone(cur)
          /\ UNCHANGED manual
       \/ /\ step = "err"
          /\ atomic_write(cur, snap[cur] + 1)
          /\ UNCHANGED <<manual, failures>>
       \/ /\ step = "promote" /\ cur \in deferred
          /\ FileGone(cur)
          /\ manual' = manual \cup {cur}
    /\ ReplayDone
    /\ UNCHANGED <<cancelled, owed>>

-----------------------------------------------------------------------------
(* Journal::enqueue, called while the orchestrator applies a service.      *)

SameTarget(k) == {j \in deferred : j.unit = k.unit}

Idle == phase = "apply" /\ step = "idle"

(* AlreadyExists and Subsumed: an entry on disk stands for the new one.    *)
EnqueueNoop(k) ==
    /\ Idle
    /\ \/ k \in SameTarget(k)
       \/ \E j \in SameTarget(k) : subsumes(j.action, k.action)
    /\ owed' = owed \cup {k}
    /\ UNCHANGED <<disk, phase, step, local, cancelled, faults, failures>>

(* Mutant: the entries that the new one subsumes are left in place.        *)
EnqueueBegin_KeepsOlds(k) ==
    /\ Idle
    /\ k \notin SameTarget(k)
    /\ \A j \in SameTarget(k) : ~subsumes(j.action, k.action)
    /\ cur' = k /\ step' = "unlink"
    /\ olds' = {}
    /\ UNCHANGED <<disk, phase, todo, snap, gone, cancelled, faults, owed, failures>>

EnqueueBegin(k) ==
    /\ Idle
    /\ k \notin SameTarget(k)
    /\ \A j \in SameTarget(k) : ~subsumes(j.action, k.action)
    /\ cur' = k /\ step' = "unlink"
    /\ olds' = {j \in SameTarget(k) : subsumes(k.action, j.action)}
    /\ UNCHANGED <<disk, phase, todo, snap, gone, cancelled, faults, owed, failures>>

(* A file that another process removed in between is no error.             *)
Unlink(j) ==
    /\ step = "unlink" /\ IsFirst(j, olds)
    /\ FileGone(j)
    /\ olds' = olds \ {j}
    /\ gone' = gone \cup ({j} \cap deferred)
    /\ UNCHANGED <<manual, phase, step, cur, todo, snap, cancelled, faults, owed>>

(* atomic_write of the new entry. Created or ReplacedLowerPriority.        *)
Write ==
    /\ step = "unlink" /\ olds = {}
    /\ atomic_write(cur, 0)
    /\ failures' = [failures EXCEPT ![cur] = 0]
    /\ owed' = owed \cup {cur}
    /\ step' = "idle" /\ NoLocal
    /\ UNCHANGED <<manual, phase, cancelled, faults>>

(* An unlink, an fsync of the directory or the write fails: the resource   *)
(* fails, the entry is not accepted. When only the last fsync failed its   *)
(* file is there all the same.                                             *)
EnqueueIoError ==
    /\ step = "unlink"
    /\ \/ /\ Disturb(IF gone = {} THEN "io" ELSE "replace")
          /\ UNCHANGED <<deferred, attempts, failures>>
       \/ /\ Disturb("io")
          /\ olds = {}
          /\ atomic_write(cur, 0)
          /\ failures' = [failures EXCEPT ![cur] = 0]
    /\ step' = "idle" /\ NoLocal
    /\ UNCHANGED <<manual, phase, cancelled, owed>>

-----------------------------------------------------------------------------
(* The environment.                                                        *)

Signal ==
    /\ phase # "off" /\ ~cancelled
    /\ Disturb("signal")
    /\ cancelled' = TRUE
    /\ UNCHANGED <<disk, phase, step, local, owed, failures>>

Crash ==
    /\ phase # "off"
    /\ Disturb(IF gone = {} THEN "crash" ELSE "replace")
    /\ phase' = "off" /\ step' = "idle" /\ NoLocal
    /\ UNCHANGED <<disk, cancelled, owed, failures>>

(* The operator has discharged what only the removed files covered.        *)
Forget ==
    owed' = {o \in owed : \E j \in deferred' \cup manual' \cup gone : Covers(j, o)}

(* status --clear <id> removes the first file of that id that the          *)
(* directory listing returns: either one when both exist.                  *)
ClearDeferred(k) ==
    /\ k \in deferred
    /\ Disturb(IF phase = "off" THEN "clear" ELSE "clear_running")
    /\ FileGone(k)
    /\ UNCHANGED manual
    /\ Forget
    /\ UNCHANGED <<phase, step, local, cancelled>>

ClearManual(k) ==
    /\ k \in manual
    /\ Disturb(IF phase = "off" THEN "clear" ELSE "clear_running")
    /\ manual' = manual \ {k}
    /\ UNCHANGED <<deferred, attempts>>
    /\ Forget
    /\ UNCHANGED <<phase, step, local, cancelled, failures>>

(* status --clear-all-manual.                                              *)
ClearAllManual ==
    /\ manual # {}
    /\ Disturb(IF phase = "off" THEN "clear" ELSE "clear_running")
    /\ manual' = {}
    /\ UNCHANGED <<deferred, attempts>>
    /\ Forget
    /\ UNCHANGED <<phase, step, local, cancelled, failures>>

-----------------------------------------------------------------------------
Replay ==
    \/ ListSorted \/ LoopEnd
    \/ \E k \in Key : DispatchOk(k) \/ DispatchUnavailable(k) \/ DispatchError(k)
    \/ HealthCheckOk \/ HealthCheckError \/ HealthCheckCancelled
    \/ Remove \/ Bump \/ Promote \/ PromoteMissing

Enqueue ==
    \/ \E k \in Key : EnqueueNoop(k) \/ EnqueueBegin(k) \/ Unlink(k)
    \/ Write

Environment ==
    \/ ReplayIoError \/ EnqueueIoError \/ Signal \/ Crash
    \/ \E k \in Key : ClearDeferred(k) \/ ClearManual(k)
    \/ ClearAllManual

Next == StartRun \/ ApplyDone \/ EvalError \/ Replay \/ Enqueue \/ Environment

Spec == Init /\ [][Next]_vars

(* The timer starts a new run after the last one, the process does not     *)
(* stop in the middle of one, and every action meets an answering client   *)
(* again and again.                                                        *)
RunStep ==
    \/ StartRun \/ ApplyDone \/ EvalError \/ Replay \/ Write
    \/ \E k \in Key : Unlink(k)

FairSpec ==
    /\ Spec
    /\ WF_vars(RunStep)
    /\ \A k \in Key : SF_vars(DispatchOk(k) \/ DispatchError(k))

-----------------------------------------------------------------------------
(* Properties.                                                             *)

(* The journal is an atomic queue: its files, with those that an enqueue   *)
(* in progress has unlinked and is about to replace, behave like the queue *)
(* of DeferQueue.                                                          *)
Queue == INSTANCE DeferQueue WITH queue <- deferred \cup gone, parked <- manual

(* Killing the process or failing a file operation (outside the replace    *)
(* window) leaves the journal before or after an operation, never between. *)
ImplementsQueue == Queue!Spec

-----------------------------------------------------------------------------
(* The inductive invariant behind the properties.                          *)

(* Nothing of an enqueue is left outside it, nothing of a replay either.   *)
LocalInv ==
    /\ step # "unlink" => olds = {} /\ gone = {}
    /\ step \notin ReplaySteps => todo = {}
    /\ cur \notin todo

(* The entries an enqueue replaces are ones that its own entry covers, and *)
(* once they are unlinked nothing on disk is redundant with that entry.    *)
ReplaceInv ==
    step = "unlink" =>
        /\ cur \notin deferred
        /\ \A j \in olds \cup gone : j.unit = cur.unit /\ subsumes(cur.action, j.action)
        /\ \A j \in deferred : j.unit = cur.unit =>
              /\ ~subsumes(j.action, cur.action)
              /\ subsumes(cur.action, j.action) => j \in olds

(* The entries replay may write back: its snapshot's.                      *)
InReplay == todo \cup (IF step \in ReplaySteps /\ cur # NoKey THEN {cur} ELSE {})

(* They are free of redundant pairs together with the files on disk.       *)
PairInv ==
    \A j, k \in deferred \cup InReplay : j.unit = k.unit => ~subsumes(j.action, k.action)

(* An entry is removed only when nothing is owed on its account.           *)
RemoveInv == step = "remove" => \A o \in owed : ~Covers(cur, o)

(* A file rewritten since the snapshot was taken counts no more than it.   *)
SnapInv == \A k \in InReplay : step # "promote" \/ k # cur => attempts[k] <= snap[k]

(* Failed executions are counted in the file, up to one per disturbance.   *)
CountInv ==
    /\ \A k \in Key :
          /\ failures[k] < MaxAttempts + faults
                + (IF k = cur /\ step \in {"err", "promote"} THEN 1 ELSE 0)
          /\ failures[k] <= attempts[k] + faults
                + (IF k = cur /\ step = "err" THEN 1 ELSE 0)
    /\ step = "promote" /\ cur \notin deferred => failures[cur] = 0

-----------------------------------------------------------------------------
(* At least once: what enqueue accepted and no execution has done yet is   *)
(* asked for by a file of the journal, pending or set aside for the        *)
(* operator, or is being replaced by a stronger entry at this moment.      *)
AtLeastOnce ==
    \A o \in owed : \E j \in deferred \cup manual \cup gone : Covers(j, o)

(* Dedup of enqueue: the journal never holds an entry together with one    *)
(* that subsumes it, so one replay does not both restart and reload a unit.*)
NoSubsumedPair ==
    \A j, k \in deferred : j.unit = k.unit => ~subsumes(j.action, k.action)

(* An entry whose action keeps failing is set aside after max_attempts     *)
(* executions; each kill or failed write can hide one attempt from the     *)
(* counter, never more.                                                    *)
BoundedRetries ==
    \A k \in deferred :
        failures[k] < MaxAttempts + faults + (IF k = cur THEN 1 ELSE 0)

(* Replay makes progress: no entry stays pending for ever.                 *)
EntrySettles == \A k \in Key : (k \in deferred) ~> (k \notin deferred)
=============================================================================
