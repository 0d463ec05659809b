---------------------------- MODULE MCConvergence ----------------------------
(* Two services. Both reload when the shared configuration changes; each   *)
(* one restarts when its own file does. The own file defines the unit, or  *)
(* is a plain one: of both services, of one, or of none.                   *)
EXTENDS Convergence

MCFile == {"conf", "own_a", "own_b"}
MCService == {"a", "b"}
Own == [s \in MCService |-> IF s = "a" THEN {"own_a"} ELSE {"own_b"}]

MCReloadOn == [s \in MCService |-> {"conf"}]
MCRestartOn == Own
MCDependsOn == [x \in MCFile \cup MCService |-> IF x \in MCService THEN Own[x] ELSE {}]
(* The unit file of b is for a node on which a runs.                       *)
FileAfterService == [MCDependsOn EXCEPT !["own_b"] = {"a"}]
TwoUnitFiles == Own
OneUnitFile == [Own EXCEPT !["b"] = {}]
NoUnitFile == [s \in MCService |-> {}]

(* One service, the shared file and its own.                               *)
OneService == {"a"}
ItsFiles == {"conf", "own_a"}
ItsOwn == [s \in OneService |-> {"own_a"}]
ItsDependsOn == [x \in ItsFiles \cup OneService |-> IF x = "a" THEN {"own_a"} ELSE {}]
ItsShared == [s \in OneService |-> {"conf"}]
ItsNoUnitFile == [s \in OneService |-> {}]
(* A view for NotifyKept, of what a state's future depends on. Of a run's  *)
(* order, changes and failures nothing is read after its apply, and of the *)
(* order only the part that is still to be visited. Of owed, the history   *)
(* of the queue, only Drop reads anything, right after Execute has made    *)
(* its guard true; enqueues do not come between.                           *)
Apply ==
    IF phase = "apply" THEN <<[x \in todo |-> order[x]], changed, failed, reload_done>>
                       ELSE NoResource
StateView == <<bundle, node, queue, parked, phase, Apply, entries, cur, step, entry, events>>
=============================================================================
