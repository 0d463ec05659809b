------------------------------ MODULE Triggers ------------------------------
(***************************************************************************)
(* The primitives that keep no state of their own: systemd.timer and       *)
(* runr.timer, which ask their init system each time and call it step by   *)
(* step; process.signal and sysctl.reload, which make a process or the     *)
(* kernel read a file again; and runr.cgroup, which does nothing yet.      *)
(*                                                                         *)
(* A behaviour is a series of runs of one resource.  The init systems,     *)
(* pkill and sysctl are external.                                          *)
(***************************************************************************)
EXTENDS Naturals

CONSTANTS
  MaxVersion,    \* bound: versions of the file behind a signal or a sysctl
  MaxTrgFaults   \* bound: failures and foreign changes in a behaviour

ASSUME TriggersAssumption == MaxVersion \in Nat /\ MaxTrgFaults \in Nat

VARIABLES
  trgKind,    \* the primitive
  trgSpec,    \* its payload
  unit,       \* the timer as the init system has it
  file,       \* version of the file, 0 when there is none
  reader,     \* the process that the signal is for is running
  lastRead,     \* version that the reader, or the kernel, last read
  queued,     \* the signal's command is in the defer journal
  trgPc,      \* the next call
  trgOutcome, \* how the last apply ended
  trgFaults

trgVars == <<trgKind, trgSpec, unit, file, reader, lastRead, queued, trgPc, trgOutcome, trgFaults>>

-----------------------------------------------------------------------------
TimerState == {"enabled", "disabled", "absent"}
SystemdTimerSpec == [state : TimerState, enable : BOOLEAN]
RunrTimerSpec == [state : TimerState, start_now : BOOLEAN]
\* The signal's name without SIG, which normalize_signal strips.
ProcessSignalSpec == [signal : {"HUP", "KILL"}, process_name : BOOLEAN, process_user : BOOLEAN,
                      deferred : BOOLEAN]
RunrCgroupSpec == [state : {"present", "absent"}]
SpecsOf(kind) ==
  CASE kind = "systemd.timer" -> SystemdTimerSpec
    [] kind = "runr.timer" -> RunrTimerSpec
    [] kind = "process.signal" -> ProcessSignalSpec
    [] kind = "runr.cgroup" -> RunrCgroupSpec
    [] OTHER -> [path : {"conf"}]
TrgKinds == {"systemd.timer", "runr.timer", "process.signal", "sysctl.reload", "runr.cgroup"}
Timers == {"systemd.timer", "runr.timer"}

Unit == [known : BOOLEAN, enabled : BOOLEAN, active : BOOLEAN]
TriggerCalls == {"enable", "start", "stop", "disable", "timer_enable", "timer_stop", "timer_disable",
          "timer_stop_disable", "pkill", "enqueue", "sysctl"}

TrgTypeOK ==
  /\ trgKind \in TrgKinds /\ trgSpec \in SpecsOf(trgKind)
  /\ unit \in Unit /\ (~unit.known => ~unit.active /\ ~unit.enabled)
  /\ file \in 0..MaxVersion /\ lastRead \in 0..MaxVersion
  /\ reader \in BOOLEAN /\ queued \in BOOLEAN
  /\ trgPc \in {"plan", "apply", "end"} \cup TriggerCalls
  /\ trgOutcome \in {"none", "no_change", "changed", "deferred", "InvalidPayload", "SystemdUnavailable",
                    "RunrUnavailable", "Io", "Apply"}
  /\ trgFaults \in 0..MaxTrgFaults

TrgInit ==
  /\ trgKind \in TrgKinds /\ trgSpec \in SpecsOf(trgKind)
  /\ unit \in IF trgKind \in Timers
              THEN {u \in Unit : ~u.known => ~u.active /\ ~u.enabled}
              ELSE {[known |-> FALSE, enabled |-> FALSE, active |-> FALSE]}
  /\ file = 1 /\ lastRead = 0 /\ reader \in BOOLEAN /\ (trgKind # "process.signal" => reader)
  /\ queued = FALSE /\ trgPc = "plan" /\ trgOutcome = "none" /\ trgFaults = 0

-----------------------------------------------------------------------------
TrgFault == trgFaults < MaxTrgFaults /\ trgFaults' = trgFaults + 1
TrgEnd(outcome) == trgPc' = "end" /\ trgOutcome' = outcome
TrgGoto(pc) == trgPc' = pc /\ UNCHANGED trgOutcome
World == <<unit, file, reader, lastRead, queued>>

\* normalize_signal and build_signal_argv.
ALLOWED_SIGNALS == {"HUP", "TERM", "INT", "USR1", "USR2", "WINCH", "PIPE"}
NormalizeSignal(signal) == signal \in ALLOWED_SIGNALS
BuildSignalArgv(spec) == NormalizeSignal(spec.signal) /\ (spec.process_name # spec.process_user)

TrgPlan(kind) == trgPc = "plan" /\ trgKind = kind /\ UNCHANGED <<trgKind, trgSpec, World, trgFaults>>

\* compute_diff: a signal without exactly one selector is refused here; the
\* diffs of the others are always Update, but for runr.cgroup's NoChange.
PlanSignal ==
  /\ TrgPlan("process.signal")
  /\ IF BuildSignalArgv(trgSpec) THEN TrgGoto("apply") ELSE TrgEnd("InvalidPayload")
PlanSysctl == TrgPlan("sysctl.reload") /\ TrgGoto("apply")
PlanSystemdTimer == TrgPlan("systemd.timer") /\ TrgGoto("apply")
PlanRunrTimer == TrgPlan("runr.timer") /\ TrgGoto("apply")
PlanCgroup == TrgPlan("runr.cgroup") /\ TrgEnd("no_change")

-----------------------------------------------------------------------------
(* Timers *)

\* decide_timer_action of systemd.timer looks at active_state alone.
DecideSystemdTimer(spec, current) ==
  CASE spec.state = "enabled" -> IF current.active THEN "end" ELSE IF spec.enable THEN "enable" ELSE "start"
    [] OTHER -> IF current.active THEN "stop" ELSE "end"

\* decide_timer_action of runr.timer looks at enabled alone.
DecideRunrTimer(spec, current) ==
  CASE spec.state = "enabled" -> IF current.enabled THEN "end" ELSE "timer_enable"
    [] spec.state = "disabled" -> IF current.enabled THEN "timer_disable" ELSE "end"
    [] OTHER -> IF current.enabled THEN "timer_stop" ELSE "end"

\* unit_info or timer_statuses: a unit that is not known has no state.
RunTimer(call) ==
  /\ trgPc = "apply"
  /\ IF call = "end" THEN TrgEnd("no_change") ELSE TrgGoto(call)
  /\ UNCHANGED <<trgKind, trgSpec, World, trgFaults>>
RunSystemdTimer == trgKind = "systemd.timer" /\ RunTimer(DecideSystemdTimer(trgSpec, unit))
RunRunrTimer == trgKind = "runr.timer" /\ RunTimer(DecideRunrTimer(trgSpec, unit))

\* What a call does to the unit, and the call that follows it.
CallEffect(call) ==
  CASE call = "enable" -> [unit EXCEPT !.enabled = TRUE]
    [] call = "start" -> [unit EXCEPT !.active = TRUE]
    [] call \in {"stop", "timer_stop"} -> [unit EXCEPT !.active = FALSE]
    [] call \in {"disable", "timer_disable"} -> [unit EXCEPT !.enabled = FALSE]
    [] call = "timer_stop_disable" -> [unit EXCEPT !.enabled = FALSE, !.active = FALSE]
    [] OTHER -> [unit EXCEPT !.enabled = TRUE, !.active = @ \/ trgSpec.start_now]
CallAfter(call) ==
  CASE call = "enable" -> "start" [] call = "stop" -> "disable"
    [] call = "timer_stop" -> "timer_stop_disable" [] OTHER -> "end"

TimerCall ==
  /\ trgPc \in TriggerCalls \ {"pkill", "enqueue", "sysctl"}
  /\ IF unit.known
       THEN /\ unit' = CallEffect(trgPc)
            /\ IF CallAfter(trgPc) = "end" THEN TrgEnd("changed") ELSE TrgGoto(CallAfter(trgPc))
       ELSE TrgEnd("Apply") /\ UNCHANGED unit
  /\ UNCHANGED <<trgKind, trgSpec, file, reader, lastRead, queued, trgFaults>>

\* Every error fails the resource; one that says the bus or the daemon did
\* not answer becomes an Unavailable one.
MapSystemdError(err) ==
  CASE err \in {"BusUnavailable", "Dbus", "Timeout"} -> "SystemdUnavailable"
    [] err = "Io" -> "Io"
    [] OTHER -> "Apply"
MapRunrError(err) == IF err \in {"Unavailable", "Io"} THEN "RunrUnavailable" ELSE "Apply"

\* After a lost answer the call may still have had its effect.
TimerCallFails ==
  /\ trgPc \in {"apply"} \cup (TriggerCalls \ {"pkill", "enqueue", "sysctl"}) /\ trgKind \in Timers
  /\ TrgFault
  /\ \/ /\ trgKind = "systemd.timer"
        /\ \E err \in {"Timeout", "Io", "JobFailed"} : TrgEnd(MapSystemdError(err))
     \/ /\ trgKind = "runr.timer"
        /\ \E err \in {"Unavailable", "ApiError"} : TrgEnd(MapRunrError(err))
  /\ unit' \in {unit} \cup IF unit.known /\ trgPc # "apply" THEN {CallEffect(trgPc)} ELSE {}
  /\ UNCHANGED <<trgKind, trgSpec, file, reader, lastRead, queued>>

-----------------------------------------------------------------------------
(* process.signal and sysctl.reload *)

RunSignal ==
  /\ trgPc = "apply" /\ trgKind = "process.signal"
  /\ TrgGoto(IF trgSpec.deferred THEN "enqueue" ELSE "pkill")
  /\ UNCHANGED <<trgKind, trgSpec, World, trgFaults>>

\* The journal keeps one entry per id.
EnqueueDefer ==
  /\ trgPc = "enqueue" /\ queued' = TRUE /\ TrgEnd("deferred")
  /\ UNCHANGED <<trgKind, trgSpec, unit, file, reader, lastRead, trgFaults>>

\* pkill: exit 1 says that no process matched, which is no error.
ReaderReloads == lastRead' = IF reader THEN file ELSE lastRead
ExecuteSync ==
  /\ trgPc = "pkill" /\ ReaderReloads /\ TrgEnd("changed")
  /\ UNCHANGED <<trgKind, trgSpec, unit, file, reader, queued, trgFaults>>

\* The replay of a later run executes the queued command once.
ReplaySignal ==
  /\ queued /\ queued' = FALSE /\ ReaderReloads
  /\ UNCHANGED <<trgKind, trgSpec, unit, file, reader, trgPc, trgOutcome, trgFaults>>

\* sysctl.reload: cancelled, no such file, or sysctl -p.
RunSysctl ==
  /\ trgPc = "apply" /\ trgKind = "sysctl.reload"
  /\ IF file = 0 THEN TrgEnd("Apply") ELSE TrgGoto("sysctl")
  /\ UNCHANGED <<trgKind, trgSpec, World, trgFaults>>

SysctlReload ==
  /\ trgPc = "sysctl"
  /\ IF file = 0 THEN TrgEnd("Apply") /\ UNCHANGED lastRead
     ELSE lastRead' = file /\ TrgEnd("changed")
  /\ UNCHANGED <<trgKind, trgSpec, unit, file, reader, queued, trgFaults>>

\* A spawn error, a timeout, another exit code, a journal that cannot be
\* written, or the deadline: the apply fails.
TriggerFails ==
  /\ trgPc \in {"pkill", "enqueue", "sysctl"} /\ TrgFault /\ TrgEnd("Apply")
  /\ UNCHANGED <<trgKind, trgSpec, World>>

\* A queued command that fails too often leaves the journal.
ReplayGivesUp ==
  /\ queued /\ TrgFault /\ queued' = FALSE
  /\ UNCHANGED <<trgKind, trgSpec, unit, file, reader, lastRead, trgPc, trgOutcome>>

-----------------------------------------------------------------------------
NextTrgRun ==
  /\ trgPc = "end" /\ trgPc' = "plan" /\ trgOutcome' = "none"
  /\ UNCHANGED <<trgKind, trgSpec, World, trgFaults>>

\* Others start, stop, enable and disable the unit; a reboot starts exactly
\* what is enabled; the reader is stopped, or started with the current file.
OthersUseUnit ==
  /\ trgKind \in Timers /\ TrgFault
  /\ \/ unit' \in {u \in Unit : u.known}
     \/ unit' = [unit EXCEPT !.active = @ /\ unit.enabled]
  /\ UNCHANGED <<trgKind, trgSpec, file, reader, lastRead, queued, trgPc, trgOutcome>>

OthersChangeFile ==
  /\ trgKind \in {"process.signal", "sysctl.reload"} /\ TrgFault
  /\ \/ file < MaxVersion /\ file' = file + 1 /\ UNCHANGED <<reader, lastRead>>
     \/ /\ trgKind = "process.signal" /\ reader' = ~reader /\ UNCHANGED file
        /\ lastRead' = IF reader THEN lastRead ELSE file
  /\ UNCHANGED <<trgKind, trgSpec, unit, queued, trgPc, trgOutcome>>

TrgStep ==
  \/ PlanSignal \/ PlanSysctl \/ PlanSystemdTimer \/ PlanRunrTimer \/ PlanCgroup
  \/ RunSystemdTimer \/ RunRunrTimer \/ TimerCall \/ RunSignal \/ EnqueueDefer \/ ExecuteSync
  \/ RunSysctl \/ SysctlReload \/ NextTrgRun
TrgNext ==
  \/ TrgStep \/ ReplaySignal
  \/ TimerCallFails \/ TriggerFails \/ ReplayGivesUp \/ OthersUseUnit \/ OthersChangeFile

\* The timer starts run after run, and each run replays the journal.
TrgFairness == WF_trgVars(TrgStep) /\ WF_trgVars(ReplaySignal)
TrgSpecification == TrgInit /\ [][TrgNext]_trgVars /\ TrgFairness

-----------------------------------------------------------------------------
\* What the resources come to, once failures and foreign changes stop: a systemd
\* timer active as declared, a runr timer enabled as declared, and a process or
\* the kernel with the last version of its file.
TrgSettled ==
  /\ (trgKind = "systemd.timer" /\ unit.known) => unit.active = (trgSpec.state = "enabled")
  /\ (trgKind = "runr.timer" /\ unit.known) => unit.enabled = (trgSpec.state = "enabled")
  /\ (trgKind = "sysctl.reload" \/ (trgKind = "process.signal" /\ BuildSignalArgv(trgSpec))) =>
        (reader => lastRead = file)
=============================================================================
