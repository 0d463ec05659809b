------------------------------- MODULE Services -------------------------------
(***************************************************************************)
(* One visit of the orchestrator to a systemd.service or runr.service:     *)
(* each call to the init system is a step, and between two of them the     *)
(* unit may die, come up or be restarted by somebody else. Module          *)
(* Convergence has the same visit as few steps of a run; here are the      *)
(* errors of the calls, what they are reported as, and the InvocationID.   *)
(***************************************************************************)
EXTENDS Naturals, Sequences

CONSTANTS
  MaxUnitName,   \* UNIT_NAME_MAX_BYTES
  MaxSvcEvents   \* bound: calls that fail, and what others do to the unit

ASSUME ServicesAssumption == MaxUnitName \in Nat \ {0} /\ MaxSvcEvents \in Nat

VARIABLES
  svcKind,    \* "systemd" or "runr"
  svcSpec,    \* SystemdServiceSpec, RunrServiceSpec
  svcName,    \* the name as the payload has it: a sequence of kinds of characters
  ctx,        \* ApplyCtx
  svcUnit,    \* the unit, as the init system has it
  svcBefore,  \* the unit as it was read, or NotLoaded
  svcPc,
  svcReport,  \* ChangeReport or PrimitiveError
  svcDid,     \* history: the calls that succeeded
  svcFault,   \* history: the error of the call that failed
  svcEvents

svcVars == <<svcKind, svcSpec, svcName, ctx, svcUnit, svcBefore, svcPc, svcReport, svcDid, svcFault, svcEvents>>

-----------------------------------------------------------------------------
(* UnitName *)

CharKinds == {"alphanumeric", "dash", "other"}
IsAllowed(ch) == ch \in {"alphanumeric", "dash"}

UnitNameErrors == {"Empty", "TooLong", "BadFirstChar", "InvalidChar"}
ValidateUnitName(name) ==
  CASE name = << >> -> "Empty"
    [] Len(name) > MaxUnitName -> "TooLong"
    [] name # << >> /\ Len(name) <= MaxUnitName /\ name[1] # "alphanumeric" -> "BadFirstChar"
    [] OTHER -> IF \A i \in DOMAIN name : IsAllowed(name[i]) THEN "ok" ELSE "InvalidChar"
Names == UNION {[1..n -> CharKinds] : n \in 0..(MaxUnitName + 1)}
GoodName == <<"alphanumeric">>

-----------------------------------------------------------------------------
(* The context of the run and the errors *)

\* The resources that the service watches: a change of "conf" restarts it, one
\* of "conf" or "rules" makes it reload.
RestartOnOf == {"conf"}
ReloadOnOf == {"conf", "rules"}
Sources == RestartOnOf \cup ReloadOnOf

DeferEntries == [action : {"restart", "reload"}, priority : {"restart", "reload"}, enqueued_by : SUBSET Sources,
                 validate_cmd : BOOLEAN, health_check : BOOLEAN]

\* What of ApplyCtx a service uses: the client, if there is one, whether the
\* init system was told to read its files in this run, the resources that
\* changed before, and the journal.
ApplyCtx == [handle : BOOLEAN, daemon_reload_done : BOOLEAN, changed_resources : SUBSET Sources,
             defers : SUBSET DeferEntries]
\* The fact init_system as the run has it; "" is Unknown.
InitSystemValues == {"systemd", "runr", "mixed-systemd-runr", "other", ""}
InitSystemRequires(kind, value) == value \in {kind, "mixed-systemd-runr"}
\* A client for each init system of the node, if it is there.
ClientHandles(kind) == {reached /\ InitSystemRequires(kind, value) : reached \in BOOLEAN, value \in InitSystemValues}
\* A run begins with nothing changed, and nothing told to the init system.
BuildCtx(handle) == [handle |-> handle, daemon_reload_done |-> FALSE, changed_resources |-> {}, defers |-> {}]
IsChanged(id) == id \in ctx.changed_resources

ChangeReport == {"no_change", "changed", "deferred"}
PrimitiveErrors == {"InvalidPayload", "Apply", "Io", "SystemdUnavailable", "RunrUnavailable", "Validation",
                    "HealthCheckFailed", "Cancelled", "DeferIo"}
\* The orchestrator puts these off to the next run.
IsDeferrable(e) == e \in {"SystemdUnavailable", "RunrUnavailable", "DpkgLocked"}

SystemdErrors == {"BusUnavailable", "Dbus", "NoSuchUnit", "AuthorizationDenied", "JobFailed", "RestartNotObserved",
                  "Timeout", "Io"}

MapSystemdServiceError(e) ==
  CASE e \in {"BusUnavailable", "Dbus", "Timeout"} -> "SystemdUnavailable"
    [] e = "Io" -> "Io"
    [] OTHER -> "Apply"

RunrErrors == {"Unavailable", "NotFound", "ApiError", "BadResponse", "RestartNotObserved", "StartNotObserved",
               "ServiceStartFailed", "Io"}
MapRunrServiceError(e) == IF e \in {"Unavailable", "Io"} THEN "RunrUnavailable" ELSE "Apply"
ErrorOf(e) == IF svcKind = "systemd" THEN MapSystemdServiceError(e) ELSE MapRunrServiceError(e)
\* What any call may fail with, and what the answer to a call about a unit may be.
CallErrors == IF svcKind = "systemd" THEN {"BusUnavailable", "Dbus", "AuthorizationDenied", "Timeout", "Io"}
              ELSE {"Unavailable", "ApiError", "BadResponse", "Io"}
StartErrors == CallErrors \cup IF svcKind = "systemd" THEN {"JobFailed"} ELSE {"StartNotObserved", "ServiceStartFailed"}
Unreached == {"BusUnavailable", "Dbus", "Timeout", "Unavailable", "Io", "no client"}

-----------------------------------------------------------------------------
(* The unit *)

\* "busy" is activating, deactivating or reloading; run is the InvocationID,
\* 0 for one that is empty; read tells whether the init system has read the
\* file of the unit as it is on disk.
Units == [known : BOOLEAN, state : {"active", "inactive", "busy"}, run : Nat, enabled : BOOLEAN, read : BOOLEAN]
NotLoaded == [known |-> FALSE, state |-> "inactive", run |-> 0, enabled |-> FALSE, read |-> TRUE]
SomeUnits ==
  {NotLoaded} \cup
  {[known |-> TRUE, state |-> s, run |-> IF s = "inactive" THEN r ELSE 1, enabled |-> e, read |-> f] :
     s \in {"active", "inactive", "busy"}, r \in {0, 1}, e \in BOOLEAN, f \in BOOLEAN}

Specs == [state : {"running", "stopped", "absent"}, enable : BOOLEAN, validate_with : BOOLEAN, health_check : BOOLEAN]
ASpec == [state |-> "running", enable |-> TRUE, validate_with |-> TRUE, health_check |-> TRUE]
SvcPcs == {"plan", "client", "daemon_reload", "enable", "unit_info", "decide", "start", "observe", "health", "stop",
           "validate", "enqueue", "done"}

SvcTypeOK ==
  /\ svcKind \in {"systemd", "runr"} /\ svcSpec \in Specs /\ svcName \in Names
  /\ ctx \in ApplyCtx /\ svcUnit \in Units /\ svcBefore \in Units
  /\ svcPc \in SvcPcs /\ svcReport \in {"none"} \cup ChangeReport \cup PrimitiveErrors
  /\ svcFault \in SystemdErrors \cup RunrErrors \cup {"none", "no client"} /\ svcEvents \in 0..MaxSvcEvents

SvcInit ==
  /\ svcKind \in {"systemd", "runr"}
  /\ \/ /\ svcName = GoodName /\ svcSpec \in Specs /\ svcUnit \in SomeUnits
        /\ svcSpec.validate_with <=> svcSpec.health_check   \* no visit runs both
        /\ svcKind = "runr" => ~svcSpec.enable              \* runr.service passes over it
        /\ svcUnit.enabled => svcSpec.enable
        /\ \E changed \in SUBSET Sources, handle \in ClientHandles(svcKind), done \in BOOLEAN :
             /\ handle \/ (changed = {} /\ ~done)
             /\ ctx = [BuildCtx(handle) EXCEPT !.changed_resources = changed, !.daemon_reload_done = done]
     \/ svcName \in Names /\ svcSpec = ASpec /\ svcUnit = NotLoaded /\ ctx = BuildCtx(TRUE)
  /\ svcBefore = NotLoaded /\ svcPc = "plan" /\ svcReport = "none"
  /\ svcDid = {} /\ svcFault = "none" /\ svcEvents = 0

-----------------------------------------------------------------------------
(* Steps *)

SvcInput == <<svcKind, svcSpec, svcName>>
SvcGoes(pc) == svcPc' = pc /\ UNCHANGED <<svcReport, svcFault>>
SvcEnds(report) == svcPc' = "done" /\ svcReport' = report
SvcDone(call) == svcDid' = svcDid \cup {call}
\* A call fails and the apply ends with its error.
Breaks(errors) ==
  /\ svcEvents < MaxSvcEvents /\ svcEvents' = svcEvents + 1
  /\ \E e \in errors : svcFault' = e /\ SvcEnds(ErrorOf(e))
  /\ UNCHANGED svcDid

\* compute_diff of either kind reads the payload, the name with it, and leaves
\* the rest to the apply: the diff is always Update.
ComputeDiff(kind) ==
  /\ svcPc = "plan" /\ svcKind = kind
  /\ IF ValidateUnitName(svcName) = "ok" THEN SvcGoes("client") ELSE SvcEnds("InvalidPayload") /\ UNCHANGED svcFault
  /\ UNCHANGED <<SvcInput, ctx, svcUnit, svcBefore, svcDid, svcEvents>>
PlanSystemd == ComputeDiff("systemd")
PlanRunr == ComputeDiff("runr")

\* No client: the fact init_system said that there is none, or the bus was not
\* there when the run began.
SvcClient ==
  /\ svcPc = "client"
  /\ IF ctx.handle THEN SvcGoes("daemon_reload")
     ELSE /\ SvcEnds(IF svcKind = "systemd" THEN "SystemdUnavailable" ELSE "RunrUnavailable")
          /\ svcFault' = "no client"
  /\ UNCHANGED <<SvcInput, ctx, svcUnit, svcBefore, svcDid, svcEvents>>

AfterReload == IF svcKind = "systemd" THEN "enable" ELSE "unit_info"
\* systemd is asked whether it has to, runr is told in any case.
MustReload == ~ctx.daemon_reload_done /\ (svcKind = "systemd" => ~svcUnit.read)

SkipDaemonReload ==
  /\ svcPc = "daemon_reload" /\ ~MustReload
  /\ SvcGoes(AfterReload) /\ UNCHANGED <<SvcInput, ctx, svcUnit, svcBefore, svcDid, svcEvents>>
SvcDaemonReload ==
  /\ svcPc = "daemon_reload" /\ MustReload
  /\ ctx' = [ctx EXCEPT !.daemon_reload_done = TRUE] /\ svcUnit' = [svcUnit EXCEPT !.read = TRUE]
  /\ SvcGoes(AfterReload) /\ SvcDone("daemon_reload")
  /\ UNCHANGED <<SvcInput, svcBefore, svcEvents>>
\* needs_daemon_reload or daemon_reload fails. The flag comes down again, but
\* for an answer of runr, which counts as told; the errors of daemon_reload of
\* runr go their own way past map_runr_error: Io is an Apply error here.
SvcDaemonReloadFails ==
  /\ svcPc = "daemon_reload" /\ ~ctx.daemon_reload_done
  /\ svcEvents < MaxSvcEvents /\ svcEvents' = svcEvents + 1
  /\ \E e \in CallErrors :
       /\ svcFault' = e
       /\ SvcEnds(IF svcKind = "systemd" THEN MapSystemdServiceError(e)
                  ELSE IF e = "Unavailable" THEN "RunrUnavailable" ELSE "Apply")
       /\ ctx' = [ctx EXCEPT !.daemon_reload_done = svcKind = "runr" /\ e # "Unavailable"]
  /\ UNCHANGED <<SvcInput, svcUnit, svcBefore, svcDid>>

\* is_unit_enabled, and enable_unit if it is not.
SvcEnable ==
  /\ svcPc = "enable"
  /\ IF svcSpec.enable /\ svcUnit.known /\ ~svcUnit.enabled
     THEN svcUnit' = [svcUnit EXCEPT !.enabled = TRUE] /\ SvcDone("enable")
     ELSE UNCHANGED <<svcUnit, svcDid>>
  /\ IF svcSpec.enable /\ ~svcUnit.known
     THEN svcFault' = "NoSuchUnit" /\ SvcEnds(MapSystemdServiceError("NoSuchUnit"))
     ELSE SvcGoes("unit_info")
  /\ UNCHANGED <<SvcInput, ctx, svcBefore, svcEvents>>

\* unit_info, or service_statuses; a unit that is not there is not running,
\* and systemd forgets one that is down when it likes.
SvcUnitInfo ==
  /\ svcPc = "unit_info"
  /\ svcBefore' \in {svcUnit} \cup IF svcKind = "systemd" /\ svcUnit.state = "inactive" /\ svcUnit.read THEN {NotLoaded} ELSE {}
  /\ SvcGoes("decide")
  /\ UNCHANGED <<SvcInput, ctx, svcUnit, svcDid, svcEvents>>

RestartTriggered == \E id \in RestartOnOf : IsChanged(id)
ReloadTriggered == \E id \in ReloadOnOf : IsChanged(id)

\* decide_action_systemd.
DecideSystemd ==
  IF svcSpec.state = "running"
  THEN CASE svcBefore.state # "active" -> "start"
         [] svcBefore.state = "active" /\ RestartTriggered -> "restart"
         [] svcBefore.state = "active" /\ ~RestartTriggered /\ ReloadTriggered -> "reload"
         [] OTHER -> "no_change"
  ELSE IF svcBefore.state = "active" THEN "stop" ELSE "no_change"
\* decide_action_runr: "Running" takes the place of "active".
DecideRunr == DecideSystemd

SvcAction == IF svcKind = "systemd" THEN DecideSystemd ELSE DecideRunr
SvcDecide ==
  /\ svcPc = "decide"
  /\ CASE SvcAction = "no_change" -> SvcEnds("no_change") /\ UNCHANGED svcFault
       [] SvcAction \in {"start", "stop"} -> SvcGoes(SvcAction)
       [] OTHER -> SvcGoes("validate")
  /\ UNCHANGED <<SvcInput, ctx, svcUnit, svcBefore, svcDid, svcEvents>>

\* The unit comes up: a new invocation, unless it was on its way already.
ComesUp(u) == [u EXCEPT !.state = "active", !.run = IF u.state = "inactive" THEN @ + 1 ELSE @]

\* execute_start: the job of start_unit, or service_start and verify_start.
ExecuteStart ==
  /\ svcPc = "start" /\ svcUnit.known
  /\ svcUnit' = ComesUp(svcUnit) /\ SvcDone("start")
  /\ SvcGoes(IF svcKind = "systemd" THEN "observe" ELSE "health")
  /\ UNCHANGED <<SvcInput, ctx, svcBefore, svcEvents>>
\* It fails, and may have come up all the same.
ExecuteStartFails ==
  /\ svcPc = "start"
  /\ IF svcUnit.known
     THEN Breaks(StartErrors) /\ svcUnit' \in {svcUnit, ComesUp(svcUnit)}
     ELSE /\ svcFault' = (IF svcKind = "systemd" THEN "NoSuchUnit" ELSE "NotFound") /\ SvcEnds("Apply")
          /\ UNCHANGED <<svcUnit, svcDid, svcEvents>>
  /\ UNCHANGED <<SvcInput, ctx, svcBefore>>

\* Mutant: the two invocations are not compared.
VerifyInvocationChange_Skipped(after) == "ok"

\* verify_invocation_change.
VerifyInvocationChange(after) ==
  IF svcBefore.run # 0 /\ after.run # 0 /\ after.run = svcBefore.run THEN "Apply" ELSE "ok"
\* unit_info after the start.
ObserveStart ==
  /\ svcPc = "observe"
  /\ IF VerifyInvocationChange(svcUnit) = "ok" THEN SvcGoes("health")
     ELSE svcFault' = "RestartNotObserved" /\ SvcEnds("Apply")
  /\ UNCHANGED <<SvcInput, ctx, svcUnit, svcBefore, svcDid, svcEvents>>

ExecuteStopSystemd == svcUnit' = [svcUnit EXCEPT !.state = "inactive"]
ExecuteStopRunr == svcUnit' = [svcUnit EXCEPT !.state = "inactive"]
SvcStop ==
  /\ svcPc = "stop"
  /\ IF svcKind = "systemd" THEN ExecuteStopSystemd ELSE ExecuteStopRunr
  /\ SvcDone("stop") /\ SvcEnds("changed")
  /\ UNCHANGED <<SvcInput, ctx, svcBefore, svcFault, svcEvents>>

\* A query, or stop_unit, fails.
CallFails ==
  /\ svcPc \in {"enable", "unit_info", "observe", "stop"}
  /\ svcPc = "enable" => svcSpec.enable
  /\ Breaks(CallErrors)
  /\ UNCHANGED <<SvcInput, ctx, svcUnit, svcBefore>>

ValidateErrors == {"ExitNonZero", "Timeout", "Spawn", "Io"}
\* map_validate_error of both primitives: they are all the same.
MapValidateErrorSystemd(e) == "Validation"
MapValidateErrorRunr(e) == "Validation"
RunValidateSystemd(result) == IF result = "ok" \/ ~svcSpec.validate_with THEN "ok" ELSE MapValidateErrorSystemd(result)
RunValidateRunr(result) == IF result = "ok" \/ ~svcSpec.validate_with THEN "ok" ELSE MapValidateErrorRunr(result)
\* run_validate_if_configured, before the entry is written.
SvcValidate ==
  /\ svcPc = "validate"
  /\ \E result \in ValidateErrors \cup {"ok"} :
       LET verdictOf == IF svcKind = "systemd" THEN RunValidateSystemd(result) ELSE RunValidateRunr(result)
       IN IF verdictOf = "ok"
          THEN SvcGoes("enqueue") /\ svcDid' = IF svcSpec.validate_with THEN svcDid \cup {"validate"} ELSE svcDid
          ELSE SvcEnds(verdictOf) /\ UNCHANGED <<svcDid, svcFault>>
  /\ UNCHANGED <<SvcInput, ctx, svcUnit, svcBefore, svcEvents>>

CollectNotifySourcesSystemd ==
  {id \in RestartOnOf : RestartTriggered /\ IsChanged(id)} \cup {id \in ReloadOnOf : ReloadTriggered /\ IsChanged(id)}
CollectNotifySourcesRunr == CollectNotifySourcesSystemd
EntryOf(action) ==
  [action |-> action, priority |-> action, validate_cmd |-> svcSpec.validate_with, health_check |-> svcSpec.health_check,
   enqueued_by |-> IF svcKind = "systemd" THEN CollectNotifySourcesSystemd ELSE CollectNotifySourcesRunr]
\* enqueue_defer.
SvcEnqueue ==
  /\ svcPc = "enqueue"
  /\ \/ ctx' = [ctx EXCEPT !.defers = @ \cup {EntryOf(SvcAction)}] /\ SvcEnds("deferred") /\ UNCHANGED svcEvents
     \/ svcEvents < MaxSvcEvents /\ svcEvents' = svcEvents + 1 /\ SvcEnds("DeferIo") /\ UNCHANGED ctx
  /\ UNCHANGED <<SvcInput, svcUnit, svcBefore, svcDid, svcFault>>

HealthErrors == {"Cancelled", "failed"}
RunHealthSystemd(result) == CASE result = "ok" -> "changed" [] result = "Cancelled" -> "Cancelled" [] OTHER -> "HealthCheckFailed"
RunHealthRunr(result) == CASE result = "ok" -> "changed" [] result = "Cancelled" -> "Cancelled" [] OTHER -> "HealthCheckFailed"
\* run_health_check_if_configured, after the start.
SvcHealth ==
  /\ svcPc = "health"
  /\ IF svcSpec.health_check
     THEN \E result \in HealthErrors \cup {"ok"} :
            /\ SvcEnds(IF svcKind = "systemd" THEN RunHealthSystemd(result) ELSE RunHealthRunr(result))
            /\ svcDid' = IF result = "ok" THEN svcDid \cup {"health"} ELSE svcDid
     ELSE SvcEnds("changed") /\ UNCHANGED svcDid
  /\ UNCHANGED <<SvcInput, ctx, svcUnit, svcBefore, svcFault, svcEvents>>

\* Others: the unit dies, comes up, or is on its way.
SvcWorld ==
  /\ svcPc \notin {"plan", "done"} /\ svcUnit.known /\ svcEvents < MaxSvcEvents /\ svcEvents' = svcEvents + 1
  /\ \/ svcUnit' = [svcUnit EXCEPT !.state = "inactive"]
     \/ svcUnit' = ComesUp(svcUnit)
     \/ svcUnit.state = "inactive" /\ svcUnit' = [ComesUp(svcUnit) EXCEPT !.state = "busy"]
  /\ svcUnit' # svcUnit
  /\ UNCHANGED <<SvcInput, ctx, svcBefore, svcPc, svcReport, svcDid, svcFault>>

SvcNext ==
  \/ PlanSystemd \/ PlanRunr \/ SvcClient \/ SkipDaemonReload \/ SvcDaemonReload \/ SvcDaemonReloadFails \/ SvcEnable \/ SvcUnitInfo
  \/ SvcDecide \/ ExecuteStart \/ ExecuteStartFails \/ ObserveStart \/ SvcStop \/ CallFails \/ SvcValidate
  \/ SvcEnqueue \/ SvcHealth \/ SvcWorld
SvcSpecification == SvcInit /\ [][SvcNext]_svcVars

-----------------------------------------------------------------------------
(* Properties *)

Notified == svcSpec.state = "running" /\ svcBefore.state = "active" /\ ctx.changed_resources # {}

\* What is reported is what happened. A service that was started, by systemd
\* with another invocation than the one that was read before, and with its
\* health check passed; or stopped; or nothing was to do, and no resource that
\* it watches had changed; or one entry is in the journal, for a restart if
\* anything that asks for one changed, with everything that changed as its
\* source, and behind a validation that passed. A visit that is put off to the
\* next run did not reach the init system or lost it, and was not refused.
ReportHonest ==
  svcPc = "done" =>
    /\ svcReport = "changed" =>
         IF svcSpec.state # "running" THEN "stop" \in svcDid
         ELSE /\ "start" \in svcDid /\ (svcSpec.health_check => "health" \in svcDid)
              /\ svcKind = "systemd" /\ svcBefore.run # 0 => svcUnit.run > svcBefore.run
    /\ svcReport = "no_change" => ~Notified /\ (svcBefore.state = "active" <=> svcSpec.state = "running") /\ "start" \notin svcDid
    /\ svcReport = "deferred" <=> ctx.defers # {}
    /\ \A e \in ctx.defers :
         /\ Notified /\ e.enqueued_by = ctx.changed_resources
         /\ e.action = IF "conf" \in ctx.changed_resources THEN "restart" ELSE "reload"
         /\ e.validate_cmd => "validate" \in svcDid
    /\ IsDeferrable(svcReport) <=> svcFault \in Unreached /\ svcReport \notin {"Io", "Apply"}
    /\ svcFault \in {"JobFailed", "AuthorizationDenied", "NoSuchUnit"} => svcReport = "Apply"

\* A unit that is started runs by its file as it is on disk: the init system
\* has read it, unless another service of the run had it read before.
DefinitionRead == "start" \in svcDid /\ ("daemon_reload" \in svcDid \/ ~ctx.daemon_reload_done) => svcUnit.read

\* Nothing is asked of the init system, and nothing written to the journal,
\* under a name that is not one: empty, too long, or with a character that a
\* file name, a path of the bus or an URL would take for something else.
NameChecked ==
  svcDid # {} \/ ctx.defers # {} =>
    /\ Len(svcName) \in 1..MaxUnitName /\ svcName[1] = "alphanumeric"
    /\ \A i \in DOMAIN svcName : svcName[i] # "other"

\* All three.
ServiceVerdict == ReportHonest /\ DefinitionRead /\ NameChecked
=============================================================================
