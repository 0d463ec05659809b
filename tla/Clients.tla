------------------------------- MODULE Clients -------------------------------
(***************************************************************************)
(* The two clients of init systems, one call at a time.                    *)
(*                                                                         *)
(* systemd: the call returns a job; the handle then subscribes to          *)
(* JobRemoved, waits for the event of that job and asks for the unit's     *)
(* state again.  The job runs from the moment it is issued, so its event   *)
(* can come before the subscription and is then lost. Only the wait for    *)
(* the event has a timeout: while the bus is mute, any other call to       *)
(* systemd waits.                                                          *)
(*                                                                         *)
(* runr: the call is only acknowledged; verify_restart and verify_start    *)
(* poll the statuses of all services until the deadline.                   *)
(*                                                                         *)
(* The two daemons, the bus and the other users of the unit are external.  *)
(***************************************************************************)
EXTENDS Naturals, Sequences

CONSTANTS
  MaxGen,       \* bound: processes the service has had
  MaxForeign    \* bound: what others do to the service during the call

ASSUME ClientsAssumption == MaxGen \in Nat /\ MaxForeign \in Nat

VARIABLES
  clKind,      \* "systemd" or "runr"
  op,          \* the call
  hasPid,      \* this runr reports pids
  svc,         \* the service: its state, process number, restart counter
  snapshot,    \* the status taken before the call (runr)
  job,         \* the systemd job of the call, and how it really ended
  jobEvents,      \* JobRemoved events in the stream
  subscribed,  \* the stream exists
  clLate,      \* the deadline has passed
  clMute,      \* the bus, or systemd behind it, does not answer
  clPc, observed, clResult,
  foreign      \* what others have done so far

clVars == <<clKind, op, hasPid, svc, snapshot, job, jobEvents, subscribed, clLate, clMute, clPc, observed, clResult, foreign>>

-----------------------------------------------------------------------------
JobOps == {"start_unit", "stop_unit", "restart_unit", "reload_unit"}
\* Calls that systemd answers at once.
PlainOps == {"daemon_reload", "needs_daemon_reload", "enable_unit", "is_unit_enabled", "disable_unit",
             "unit_info"}
SystemdOps == JobOps \cup PlainOps
VerifiedOps == {"service_start", "service_restart"}
ServiceOps == VerifiedOps \cup {"service_stop", "service_reload"}
TimerOps == {"timer_start", "timer_stop", "timer_enable", "timer_disable"}
ListOps == {"daemon_info", "runr_reload", "service_statuses", "timer_statuses", "units_list"}
RunrOps == ServiceOps \cup TimerOps \cup ListOps

\* "gone" stands for NoSuchUnit, or a status that is not in the list.
States == {"Running", "Stopped", "Starting", "Failed", "gone"}
Service == [state : States, gen : 0..MaxGen, restarts : 0..MaxGen]
Jobs == {"none", "queued", "done", "failed"}

SystemdError == {"NoSuchUnit", "AuthorizationDenied", "BusUnavailable", "Dbus", "JobFailed", "Timeout"}
RunrError == {"NotFound", "ApiError", "Unavailable", "BadResponse", "Io", "RestartNotObserved",
              "StartNotObserved", "ServiceStartFailed"}

ClTypeOK ==
  /\ clKind \in {"systemd", "runr"} /\ op \in SystemdOps \cup RunrOps /\ hasPid \in BOOLEAN
  /\ svc \in Service /\ snapshot \in Service /\ job \in Jobs
  /\ jobEvents \in Seq([mine : BOOLEAN, result : {"done", "failed"}])
  /\ subscribed \in BOOLEAN /\ clLate \in BOOLEAN /\ clMute \in BOOLEAN
  /\ clPc \in {"connect", "call", "subscribe", "wait", "recheck", "recheck_failed", "poll", "done"}
  /\ observed \in Service
  /\ clResult \in {"none", "ok", "false"} \cup SystemdError \cup RunrError
  /\ foreign \in 0..MaxForeign

ClInit ==
  /\ clKind \in {"systemd", "runr"}
  /\ op \in IF clKind = "systemd" THEN SystemdOps ELSE RunrOps
  /\ hasPid \in BOOLEAN /\ (clKind = "systemd" => hasPid)
  /\ svc \in {[state |-> s, gen |-> 1, restarts |-> 0] : s \in {"Running", "Stopped", "gone"}}
  /\ snapshot = svc /\ job = "none" /\ jobEvents = <<>> /\ subscribed = FALSE /\ clLate = FALSE /\ clMute = FALSE
  /\ clPc = IF clKind = "systemd" THEN "connect" ELSE "call"
  /\ observed = svc /\ clResult = "none" /\ foreign = 0

-----------------------------------------------------------------------------
ClEnd(r) == clPc' = "done" /\ clResult' = r
ClGoto(pc) == clPc' = pc /\ UNCHANGED clResult
ClSame == UNCHANGED <<clKind, op, hasPid, snapshot, foreign, clMute>>

\* SystemdError::from_zbus.
ZbusErrors == {"NoSuchUnit", "AccessDenied", "io", "other"}
FromZbus(err) ==
  CASE err = "NoSuchUnit" -> "NoSuchUnit" [] err = "AccessDenied" -> "AuthorizationDenied"
    [] err = "io" -> "BusUnavailable" [] OTHER -> "Dbus"

\* RunrError::from_ureq; the lists have no unit to be missing.
UreqErrors == {"404", "status", "transport"}
FromUreq(err, lookup) ==
  CASE err = "404" /\ lookup -> "NotFound" [] err = "transport" -> "Unavailable" [] OTHER -> "ApiError"
\* A body that cannot be read, or is not the JSON that was expected.
ParseJson(body) == IF body = "broken" THEN "Io" ELSE "BadResponse"

-----------------------------------------------------------------------------
(* systemd *)

\* StartUnit and its like return the job's path; a unit systemd cannot load
\* has no job.
IssueJob ==
  /\ clPc = "call" /\ op \in JobOps /\ ~clMute
  /\ IF svc.state = "gone" THEN ClEnd("NoSuchUnit") /\ UNCHANGED job
     ELSE job' = "queued" /\ ClGoto("subscribe")
  /\ ClSame /\ UNCHANGED <<svc, jobEvents, subscribed, clLate, observed>>

\* The calls that systemd answers at once.
Answer(o, r) ==
  /\ clPc = "call" /\ op = o /\ ~clMute /\ ClEnd(r)
  /\ ClSame /\ UNCHANGED <<svc, job, jobEvents, subscribed, clLate, observed>>
UnlessGone(r) == IF svc.state = "gone" THEN r ELSE "ok"

DaemonReload == Answer("daemon_reload", "ok")
\* A unit that is not loaded is neither enabled nor in need of a reload.
NeedsDaemonReload == Answer("needs_daemon_reload", UnlessGone("false"))
IsUnitEnabled == Answer("is_unit_enabled", UnlessGone("false"))
EnableUnit == Answer("enable_unit", UnlessGone("NoSuchUnit"))
DisableUnit == Answer("disable_unit", UnlessGone("NoSuchUnit"))
UnitInfo == Answer("unit_info", UnlessGone("NoSuchUnit"))

\* The system bus is there or it is not; what else goes wrong is Dbus.
ConnectSystem ==
  /\ clPc = "connect" /\ ~clMute
  /\ ClGoto("call") \/ \E r \in {"BusUnavailable", "Dbus"} : ClEnd(r)
  /\ ClSame /\ UNCHANGED <<svc, job, jobEvents, subscribed, clLate, observed>>

\* Where the client waits for an answer over the bus, without a timeout.
CallsOfBus == {"connect", "call", "subscribe", "recheck", "recheck_failed"}
BusFails ==
  /\ clKind = "systemd" /\ clPc \in CallsOfBus
  /\ \E err \in ZbusErrors \ {"NoSuchUnit"} : ClEnd(FromZbus(err))
  /\ ClSame /\ UNCHANGED <<svc, job, jobEvents, subscribed, clLate, observed>>

\* wait_for_job begins: only events from here on are in the stream.
ReceiveJobRemoved ==
  /\ clPc = "subscribe" /\ ~clMute /\ subscribed' = TRUE /\ ClGoto("wait")
  /\ ClSame /\ UNCHANGED <<svc, job, jobEvents, clLate, observed>>

\* Mutant: any event of the unit ends the wait.
WaitForJobMatch_AnyJob ==
  /\ clPc = "wait" /\ jobEvents # <<>> /\ ~clLate
  /\ jobEvents' = Tail(jobEvents)
  /\ ClGoto(IF Head(jobEvents).result = "done" THEN "recheck" ELSE "recheck_failed")
  /\ ClSame /\ UNCHANGED <<svc, job, subscribed, clLate, observed>>

\* wait_for_job_match: events of other jobs are skipped.
WaitForJobMatch ==
  /\ clPc = "wait" /\ jobEvents # <<>> /\ ~clLate
  /\ jobEvents' = Tail(jobEvents)
  /\ CASE ~Head(jobEvents).mine -> ClGoto("wait")
       [] Head(jobEvents).mine /\ Head(jobEvents).result = "done" -> ClGoto("recheck")
       [] OTHER -> ClGoto("recheck_failed")
  /\ ClSame /\ UNCHANGED <<svc, job, subscribed, clLate, observed>>

\* The time is over, or the stream ended with the connection.
WaitTimesOut ==
  /\ clPc = "wait" /\ clLate /\ ClEnd("Timeout")
  /\ ClSame /\ UNCHANGED <<svc, job, jobEvents, subscribed, clLate, observed>>
StreamEnds ==
  /\ clPc = "wait" /\ ClEnd("Timeout")
  /\ ClSame /\ UNCHANGED <<svc, job, jobEvents, subscribed, clLate, observed>>

\* The state is asked for again, before the job's result is looked at: "done"
\* is not believed of a failed unit.
RecheckActiveState ==
  /\ clPc \in {"recheck", "recheck_failed"} /\ ~clMute /\ observed' = svc
  /\ ClEnd(IF clPc = "recheck_failed" \/ svc.state = "Failed" THEN "JobFailed" ELSE "ok")
  /\ ClSame /\ UNCHANGED <<svc, job, jobEvents, subscribed, clLate>>

-----------------------------------------------------------------------------
(* runr *)

\* post_json: a missing service is answered with 404.
PostJson ==
  /\ clPc = "call" /\ op \in ServiceOps \cup TimerOps
  /\ CASE svc.state = "gone" -> ClEnd(FromUreq("404", TRUE)) /\ UNCHANGED job
       [] svc.state # "gone" /\ op \in VerifiedOps -> job' = "queued" /\ ClGoto("poll")
       [] OTHER -> job' = "queued" /\ ClEnd("ok")
  /\ ClSame /\ UNCHANGED <<svc, jobEvents, subscribed, clLate, observed>>

GetJson ==
  /\ clPc = "call" /\ op \in ListOps /\ ClEnd("ok")
  /\ ClSame /\ UNCHANGED <<svc, job, jobEvents, subscribed, clLate, observed>>

\* A request that failed may still have been taken.
RequestFails ==
  /\ clKind = "runr" /\ clPc \in {"call", "poll"}
  /\ \/ \E err \in UreqErrors : ClEnd(FromUreq(err, op \notin ListOps /\ clPc = "call"))
     \/ \E body \in {"broken", "not json"} : ClEnd(ParseJson(body))
  /\ job' \in {job} \cup IF clPc = "call" /\ op \in ServiceOps THEN {"queued"} ELSE {}
  /\ ClSame /\ UNCHANGED <<svc, jobEvents, subscribed, clLate, observed>>

\* Another process, or a greater counter where pids do not tell: a service that
\* does not run has none.
IsRestartObserved(earlier, current) ==
  /\ current.state = "Running"
  /\ \/ hasPid /\ earlier.state \in {"Running", "Starting"} /\ earlier.gen # current.gen
     \/ current.restarts > earlier.restarts

VerifyRestart ==
  /\ clPc = "poll" /\ op = "service_restart" /\ observed' = svc
  /\ CASE svc.state # "gone" /\ IsRestartObserved(snapshot, svc) -> ClEnd("ok")
       [] ~(svc.state # "gone" /\ IsRestartObserved(snapshot, svc)) /\ clLate -> ClEnd("RestartNotObserved")
       [] OTHER -> ClGoto("poll")
  /\ ClSame /\ UNCHANGED <<svc, job, jobEvents, subscribed, clLate>>

VerifyStart ==
  /\ clPc = "poll" /\ op = "service_start" /\ observed' = svc
  /\ CASE svc.state = "Running" -> ClEnd("ok")
       [] svc.state = "Failed" -> ClEnd("ServiceStartFailed")
       [] svc.state \notin {"Running", "Failed"} /\ clLate -> ClEnd("StartNotObserved")
       [] OTHER -> ClGoto("poll")
  /\ ClSame /\ UNCHANGED <<svc, job, jobEvents, subscribed, clLate>>

-----------------------------------------------------------------------------
(* The daemons, the others and the clock *)

Stops == {"stop_unit", "service_stop"}
Restarts == {"restart_unit", "service_restart"}
NewProcess(state) ==
  /\ svc.gen < MaxGen
  /\ svc' = [state |-> state, gen |-> svc.gen + 1,
             restarts |-> svc.restarts + IF clKind = "runr" /\ ~hasPid THEN 1 ELSE 0]

Emit(result) ==
  jobEvents' = IF subscribed THEN Append(jobEvents, [mine |-> TRUE, result |-> result]) ELSE jobEvents

\* The job runs.  A unit whose job is done may fail right after.
JobEnds ==
  /\ job = "queued"
  /\ \/ /\ job' = "done" /\ Emit("done")
        /\ CASE op \in Stops -> svc' = [svc EXCEPT !.state = "Stopped"]
             [] op \in Restarts \/ (op \in {"start_unit", "service_start"} /\ svc.state # "Running")
                  -> \E s \in {"Running", "Failed"} : NewProcess(s)
             [] OTHER -> UNCHANGED svc
     \/ job' = "failed" /\ Emit("failed") /\ UNCHANGED svc
  /\ UNCHANGED <<clKind, op, hasPid, snapshot, subscribed, clLate, clMute, clPc, observed, clResult, foreign>>

\* Others use the same unit; a crashed service is started again by its daemon.
OthersUseService ==
  /\ foreign < MaxForeign /\ foreign' = foreign + 1 /\ svc.state # "gone"
  /\ \/ svc' = [svc EXCEPT !.state = "Stopped"]
     \/ svc' = [svc EXCEPT !.state = "gone"]
     \/ svc' = [svc EXCEPT !.state = "Failed"]
     \/ svc.gen < MaxGen /\ svc' = [state |-> "Running", gen |-> svc.gen + 1, restarts |-> svc.restarts + 1]
  /\ jobEvents' = IF subscribed THEN Append(jobEvents, [mine |-> FALSE, result |-> "done"]) ELSE jobEvents
  /\ UNCHANGED <<clKind, op, hasPid, snapshot, job, subscribed, clLate, clMute, clPc, observed, clResult>>

ClockRuns ==
  /\ ~clLate /\ clPc \in {"wait", "poll"} /\ clLate' = TRUE
  /\ UNCHANGED <<clKind, op, hasPid, svc, snapshot, job, jobEvents, subscribed, clMute, clPc, observed, clResult, foreign>>

\* The bus and systemd stop answering, and may or may not begin again.
BusGoesMute ==
  /\ clKind = "systemd" /\ clPc # "done" /\ clMute' = ~clMute
  /\ UNCHANGED <<clKind, op, hasPid, svc, snapshot, job, jobEvents, subscribed, clLate, clPc, observed, clResult, foreign>>

ClStep ==
  \/ ConnectSystem \/ IssueJob \/ DaemonReload \/ NeedsDaemonReload \/ EnableUnit \/ IsUnitEnabled
  \/ DisableUnit \/ UnitInfo \/ ReceiveJobRemoved \/ WaitForJobMatch \/ WaitTimesOut \/ RecheckActiveState
  \/ PostJson \/ GetJson \/ VerifyRestart \/ VerifyStart
ClNext == ClStep \/ BusFails \/ StreamEnds \/ RequestFails \/ JobEnds \/ OthersUseService \/ ClockRuns \/ BusGoesMute

\* The client goes on and the clock runs; the daemons owe it nothing.
ClSpec == ClInit /\ [][ClNext]_clVars /\ WF_clVars(ClStep) /\ WF_clVars(ClockRuns)

-----------------------------------------------------------------------------
\* A call that reports success is one that happened: the systemd job of this
\* call, not another of the same unit, ended as done and did not leave the
\* unit failed; after a restart through runr a process runs that did not run
\* when the snapshot was taken; after a start a process was seen running.
ClientVerdict ==
  (clResult = "ok") =>
    /\ op \in JobOps => job = "done" /\ observed.state # "Failed"
    /\ op = "service_restart" => observed.state = "Running" /\ observed.gen > snapshot.gen
    /\ op = "service_start" => observed.state = "Running"

=============================================================================
