----------------------------- MODULE Orchestrator -----------------------------
(***************************************************************************)
(* Orchestrator::apply and Orchestrator::plan_only of                      *)
(* bosun-core/src/orchestrator.rs: one pass over the resources of the      *)
(* registry, planning and applying one at a time.                          *)
(*                                                                         *)
(* The order is whatever topological_order returned: any order that        *)
(* respects depends_on, reload_on and restart_on (module Registry). What a *)
(* primitive answers is left open. SIGTERM and the deadline may come at    *)
(* any moment; only the pacer and the primitives look at them.             *)
(***************************************************************************)
CONSTANTS
    Resource, \* ids in the registry
    NoId      \* no resource is being worked on

ASSUME NoIdAssumption == NoId \notin Resource

Outcome == {"no_change", "changed", "failed", "skipped", "deferred", "interrupted"}

(* What plan_only reports of a resource.                                   *)
PlanResult == {"planned", "plan_failure"}

VARIABLES
    depends_on, \* Resource::depends_on
    notify_on,  \* Resource::reload_on and restart_on
    opts,       \* --dry-run, --continue-on-error, whether the pacer is on
    outcome,    \* what is reported of each resource so far
    cur,        \* the resource that is being planned or applied
    step,       \* "next", "plan" or "apply"
    failed,     \* failed_or_interrupted
    changed,    \* ApplyCtx::changed_resources
    aborted,
    cancelled,  \* the cancellation token
    expired,    \* the deadline has passed
    dirty,      \* resources for which mark_dirty, then apply, was called
    seen,       \* history: the changed sources that apply of a resource saw
    early       \* history: a signal came with a resource still to be paced

input == <<depends_on, notify_on, opts>>
vars == <<depends_on, notify_on, opts, outcome, cur, step, failed, changed, aborted,
          cancelled, expired, dirty, seen, early>>

(* Mutant: notify sources play no part in the order.                       *)
Sources_DependsOnOnly(r) == depends_on[r]

Sources(r) == depends_on[r] \cup notify_on[r]

(* No set of resources in which everyone waits for a member: otherwise     *)
(* topological_order fails and nothing is planned.                         *)
Acyclic == \A S \in (SUBSET Resource) \ {{}} : \E r \in S : Sources(r) \cap S = {}

Options == [dry_run : BOOLEAN, continue_on_error : BOOLEAN, paced : BOOLEAN]

TypeOK ==
    /\ depends_on \in [Resource -> SUBSET Resource]
    /\ notify_on \in [Resource -> SUBSET Resource]
    /\ opts \in Options
    /\ outcome \in [Resource -> Outcome \cup PlanResult \cup {"none"}]
    /\ cur \in Resource \cup {NoId}
    /\ step \in {"next", "plan", "apply"}
    /\ cur = NoId <=> step = "next"
    /\ cur # NoId => outcome[cur] = "none"
    /\ failed \subseteq Resource
    /\ changed \subseteq Resource
    /\ aborted \in BOOLEAN
    /\ cancelled \in BOOLEAN
    /\ expired \in BOOLEAN
    /\ dirty \subseteq Resource
    /\ seen \in [Resource -> SUBSET Resource]
    /\ early \in BOOLEAN

Init ==
    /\ depends_on \in [Resource -> SUBSET Resource]
    /\ notify_on \in [Resource -> SUBSET Resource]
    /\ Acyclic
    /\ opts \in Options
    /\ outcome = [r \in Resource |-> "none"]
    /\ cur = NoId /\ step = "next"
    /\ failed = {} /\ changed = {} /\ aborted = FALSE
    /\ cancelled = FALSE /\ expired = FALSE
    /\ dirty = {} /\ seen = [r \in Resource |-> {}] /\ early = FALSE

-----------------------------------------------------------------------------
(* The loop over the resources.                                            *)

Visited == {r \in Resource : outcome[r] # "none"}

(* r may come next in the order.                                           *)
Ready(r) == step = "next" /\ r \notin Visited /\ Sources(r) \subseteq Visited

Done == step = "next" /\ Visited = Resource

(* The resource gets its line in the report; the loop goes on.             *)
Report(r, o) ==
    /\ outcome' = [outcome EXCEPT ![r] = o]
    /\ cur' = NoId /\ step' = "next"

MarkFailed(r) == failed' = failed \cup {r}

(* Mutant: a failure never stops the run.                                  *)
AbortUnlessContinue_Never == aborted' = aborted

(* A failure stops the run unless --continue-on-error.                     *)
AbortUnlessContinue == aborted' = (aborted \/ ~opts.continue_on_error)

(* The pacer sleeps before every resource but the first.                   *)
Paced == opts.paced /\ Visited # {} /\ ~aborted

(* cancellable_sleep looks at the token only.                              *)
PacerCancelled(r) ==
    /\ ~opts.dry_run /\ Ready(r)
    /\ Paced /\ cancelled
    /\ Report(r, "interrupted")
    /\ MarkFailed(r) /\ aborted' = TRUE
    /\ UNCHANGED <<input, changed, cancelled, expired, dirty, seen, early>>

(* Mutant: the loop is left without a line for the remaining resources.    *)
SkipAborted_Breaks(r) ==
    /\ ~opts.dry_run /\ Ready(r)
    /\ aborted
    /\ UNCHANGED vars

SkipAborted(r) ==
    /\ ~opts.dry_run /\ Ready(r)
    /\ aborted
    /\ Report(r, "skipped")
    /\ UNCHANGED <<input, failed, changed, aborted, cancelled, expired, dirty, seen, early>>

(* The sleep is over, or there was none.                                   *)
Proceeds(r) == ~opts.dry_run /\ Ready(r) /\ ~aborted /\ ~(Paced /\ cancelled)

(* Mutant: a skipped resource does not pass the failure on.                *)
SkipDependency_Forgets(r) ==
    /\ Proceeds(r)
    /\ depends_on[r] \cap failed # {}
    /\ Report(r, "skipped")
    /\ UNCHANGED <<input, failed, changed, aborted, cancelled, expired, dirty, seen, early>>

(* A dependency failed, was interrupted or was itself skipped this way.    *)
(* Notify sources do not count.                                            *)
SkipDependency(r) ==
    /\ Proceeds(r)
    /\ depends_on[r] \cap failed # {}
    /\ Report(r, "skipped")
    /\ MarkFailed(r)
    /\ UNCHANGED <<input, changed, aborted, cancelled, expired, dirty, seen, early>>

NoPrimitive(r) ==
    /\ Proceeds(r)
    /\ depends_on[r] \cap failed = {}
    /\ Report(r, "failed")
    /\ MarkFailed(r) /\ AbortUnlessContinue
    /\ UNCHANGED <<input, changed, cancelled, expired, dirty, seen, early>>

BeginPlan(r) ==
    /\ Proceeds(r)
    /\ depends_on[r] \cap failed = {}
    /\ cur' = r /\ step' = "plan"
    /\ UNCHANGED <<input, outcome, failed, changed, aborted, cancelled, expired, dirty, seen, early>>

-----------------------------------------------------------------------------
(* primitive.plan has returned. A panic is an error like any other.        *)

(* A primitive answers Cancelled when it looks at the token or the         *)
(* deadline and finds one of them up.                                      *)
MayCancel == cancelled \/ expired

PlanNoChange ==
    /\ step = "plan"
    /\ Report(cur, "no_change")
    /\ UNCHANGED <<input, failed, changed, aborted, cancelled, expired, dirty, seen, early>>

(* There is something to do: facts are marked dirty before apply starts.   *)
(* apply asks is_changed of the resource's notify sources.                 *)
PlanChange ==
    /\ step = "plan"
    /\ step' = "apply"
    /\ dirty' = dirty \cup {cur}
    /\ seen' = [seen EXCEPT ![cur] = notify_on[cur] \cap changed]
    /\ UNCHANGED <<input, outcome, cur, failed, changed, aborted, cancelled, expired, early>>

PlanCancelled ==
    /\ step = "plan" /\ MayCancel
    /\ Report(cur, "interrupted")
    /\ MarkFailed(cur) /\ aborted' = TRUE
    /\ UNCHANGED <<input, changed, cancelled, expired, dirty, seen, early>>

PlanError ==
    /\ step = "plan"
    /\ Report(cur, "failed")
    /\ MarkFailed(cur) /\ AbortUnlessContinue
    /\ UNCHANGED <<input, changed, cancelled, expired, dirty, seen, early>>

-----------------------------------------------------------------------------
(* primitive.apply has returned.                                           *)

ApplyChanged ==
    /\ step = "apply"
    /\ Report(cur, "changed")
    /\ changed' = changed \cup {cur}
    /\ UNCHANGED <<input, failed, aborted, cancelled, expired, dirty, seen, early>>

ApplyNoChange ==
    /\ step = "apply"
    /\ Report(cur, "no_change")
    /\ UNCHANGED <<input, failed, changed, aborted, cancelled, expired, dirty, seen, early>>

(* The action went into the journal, or a deferrable error says that the   *)
(* init system or dpkg cannot be reached right now.                        *)
ApplyDeferred ==
    /\ step = "apply"
    /\ Report(cur, "deferred")
    /\ UNCHANGED <<input, failed, changed, aborted, cancelled, expired, dirty, seen, early>>

ApplyCancelled ==
    /\ step = "apply" /\ MayCancel
    /\ Report(cur, "interrupted")
    /\ MarkFailed(cur) /\ aborted' = TRUE
    /\ UNCHANGED <<input, changed, cancelled, expired, dirty, seen, early>>

ApplyError ==
    /\ step = "apply"
    /\ Report(cur, "failed")
    /\ MarkFailed(cur) /\ AbortUnlessContinue
    /\ UNCHANGED <<input, changed, cancelled, expired, dirty, seen, early>>

-----------------------------------------------------------------------------
(* plan_only: every resource is planned, errors are collected.             *)
PlanOnly(r) ==
    /\ opts.dry_run /\ Ready(r)
    /\ \E o \in PlanResult : Report(r, o)
    /\ UNCHANGED <<input, failed, changed, aborted, cancelled, expired, dirty, seen, early>>

-----------------------------------------------------------------------------
(* The environment. `early` remembers that a signal came while a resource  *)
(* was left before which the pacer would still sleep.                      *)

StillToPace ==
    \E r \in Resource \ (Visited \cup {cur}) :
        Visited # {} \/ cur # NoId \/ Resource # {r}

Signal ==
    /\ ~cancelled /\ ~Done
    /\ cancelled' = TRUE
    /\ early' = (early \/ StillToPace)
    /\ UNCHANGED <<input, outcome, cur, step, failed, changed, aborted, expired, dirty, seen>>

Deadline ==
    /\ ~expired /\ ~Done
    /\ expired' = TRUE
    /\ UNCHANGED <<input, outcome, cur, step, failed, changed, aborted, cancelled, dirty, seen, early>>

-----------------------------------------------------------------------------
Visit(r) ==
    PacerCancelled(r) \/ SkipAborted(r) \/ SkipDependency(r) \/ NoPrimitive(r) \/ BeginPlan(r)

PlanReturns == PlanNoChange \/ PlanChange \/ PlanCancelled \/ PlanError

ApplyReturns ==
    ApplyChanged \/ ApplyNoChange \/ ApplyDeferred \/ ApplyCancelled \/ ApplyError

Loop ==
    \/ \E r \in Resource : Visit(r) \/ PlanOnly(r)
    \/ PlanReturns \/ ApplyReturns

Next == Loop \/ Signal \/ Deadline

Spec == Init /\ [][Next]_vars

(* The loop is sequential code: it goes on as long as primitives return.   *)
FairSpec == Spec /\ WF_vars(Loop)

-----------------------------------------------------------------------------
(* The inductive invariant behind the properties.                          *)

Stopped == {r \in Resource : outcome[r] \in {"failed", "interrupted"}}

(* The run has been stopped: by an interruption, or by a failure without   *)
(* --continue-on-error.                                                    *)
Fatal == \E s \in Stopped : outcome[s] = "interrupted" \/ ~opts.continue_on_error

(* The loop's variables say what the report says.                          *)
ReportInv ==
    /\ aborted <=> Fatal
    /\ Stopped \subseteq failed
    /\ \A r \in failed : outcome[r] \in {"failed", "interrupted", "skipped"}
    /\ \A r \in Resource : outcome[r] = "skipped" => r \in failed \/ aborted
    /\ changed = {r \in Resource : outcome[r] = "changed"}

(* A dry run only plans, and only a dry run does.                          *)
ModeInv ==
    /\ opts.dry_run => cur = NoId /\ dirty = {} /\ Visited = {r \in Resource : outcome[r] \in PlanResult}
    /\ ~opts.dry_run => \A r \in Resource : outcome[r] \notin PlanResult

(* What is or was worked on comes after everything it depends on.          *)
OrderInv ==
    /\ cur # NoId => Sources(cur) \subseteq Visited /\ ~aborted /\ depends_on[cur] \cap failed = {}
    /\ \A r \in dirty : r \in Visited \cup {cur} /\ Sources(r) \subseteq Visited

(* A signal that came early enough has stopped the run or still will.      *)
SignalInv ==
    early => cancelled /\ (opts.paced /\ ~opts.dry_run => aborted \/ StillToPace)

-----------------------------------------------------------------------------
(* Properties.                                                             *)

(* A resource is touched only on top of dependencies that all hold: none   *)
(* failed, was interrupted or skipped, none is still to come.              *)
DependenciesHold ==
    \A r \in dirty : \A d \in depends_on[r] : outcome[d] \in {"no_change", "changed", "deferred"}

(* apply of a resource sees exactly those of its notify sources that this  *)
(* run reports as changed: no source changes after its subscriber looked.  *)
NotifyExact ==
    \A r \in dirty : seen[r] = {s \in notify_on[r] : outcome[s] = "changed"}

(* A resource is skipped for a reason the report shows: one of its         *)
(* dependencies was not applied, or the run was stopped by an interruption *)
(* or, without --continue-on-error, by a failure.                          *)
SkipJustified ==
    \A r \in Resource : outcome[r] = "skipped" =>
        \/ \E d \in depends_on[r] : outcome[d] \in {"failed", "interrupted", "skipped"}
        \/ Fatal

(* After the failure or interruption that ends a run no further resource   *)
(* is touched and no second one is reported as failed or interrupted.      *)
StopsAtFailure ==
    [][Fatal => UNCHANGED dirty /\ Stopped' = Stopped]_vars

(* With the pacer on, SIGTERM before the last pause ends the run: some     *)
(* resource is reported as interrupted, or the run had already failed.     *)
SignalInterrupts ==
    Done /\ opts.paced /\ ~opts.dry_run /\ early
        => Fatal

(* Every resource gets a verdict, whatever the primitives answer.          *)
RunCompletes == <>Done
=============================================================================
