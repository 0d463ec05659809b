------------------------------ MODULE Commands ------------------------------
(***************************************************************************)
(* How bosun runs a program and waits for it.  Five runners poll try_wait  *)
(* until the child ends or its time is over:                               *)
(*   "exec"      RealCommandRunner of apt: a process group of its own, two *)
(*               threads that drain the pipes, deadline and cancellation;  *)
(*   "validate", "health", "signal", "dispatch": only a timeout, only the  *)
(*               child is killed, stderr is read once the child has ended. *)
(* Around "health" is the retry loop of the health check, which also has a *)
(* variant that asks a URL; around "dispatch" the choice of the client for *)
(* a deferred action.                                                      *)
(*                                                                         *)
(* The child and what it leaves behind are external: it writes, blocks on  *)
(* a full pipe, starts a process that inherits the pipe, ends or hangs.    *)
(***************************************************************************)
EXTENDS Naturals

CONSTANTS
  PipeCapacity,  \* units of output that a pipe holds
  ExcerptLimit,  \* units that read_stderr_excerpt asks for
  MaxOutput,     \* bound: units of output of a child
  RetryCounts,   \* values of retry_count tried, 0 among them
  Default        \* retry_count not given

ASSUME CommandsAssumption ==
  /\ PipeCapacity \in Nat \ {0} /\ ExcerptLimit \in Nat \ {0} /\ MaxOutput \in Nat
  /\ RetryCounts \subseteq Nat /\ Default \notin Nat

VARIABLES
  runner,     \* which runner, or "url"
  entry,      \* the deferred action, for "dispatch"
  retry,      \* retry_count of the health check
  child,      \* the child: "none", "running", "hangs" or an exit code
  heir,       \* a process that the child started
  output,     \* units the child has still to write
  pipe,       \* units in the pipe
  late,       \* the deadline or the timeout has passed
  cancelled,  \* the cancellation token
  cmdPc, attempt, attempts, verdict

procVars == <<child, heir, output, pipe>>
cmdVars == <<runner, entry, retry, procVars, late, cancelled, cmdPc, attempt, attempts, verdict>>

-----------------------------------------------------------------------------
Runners == {"exec", "validate", "health", "signal", "dispatch", "url"}

DeferAction == {"start", "stop", "restart", "reload", "reload_or_restart", "daemon_reload", "command"}
DispatchedEntry == [action : DeferAction, init : {"systemd", "runr", "none"}, client : BOOLEAN, argv : BOOLEAN]
AnEntry == [action |-> "command", init |-> "none", client |-> TRUE, argv |-> TRUE]

\* The process that may outlive its parent: in the child's process group, with
\* the pipe or ("quiet") without it; or a daemon that left the group and kept it.
Heirs == {"none", "grouped", "quiet", "daemon"}

DEFAULT_RETRY_COUNT == 3
MaxOf(a, b) == IF a >= b THEN a ELSE b
ResolveDefaults(retry_count) ==
  MaxOf(1, IF retry_count = Default THEN DEFAULT_RETRY_COUNT ELSE retry_count)

\* The outcomes of one attempt of the two kinds of health check.
CmdAttempt == {"Success", "ExitNonZero", "Timeout", "SpawnError"}
UrlAttempt == {"Success", "BadStatus", "Transport"}

ValidateError == {"ExitNonZero", "Timeout", "Spawn"}
HealthCheckError == {"CmdExitNonZero", "CmdTimeout", "CmdSpawnError", "UrlBadStatus", "UrlTransport", "Cancelled"}
DispatchError == {"ClientUnavailable", "Action"}
ExecError == {"Cancelled", "Io", "exit_code"}
CmdVerdict == {"none", "Ok"} \cup ValidateError \cup HealthCheckError \cup DispatchError \cup ExecError

CmdTypeOK ==
  /\ runner \in Runners /\ entry \in DispatchedEntry /\ retry \in RetryCounts \cup {Default}
  /\ child \in {"none", "running", "hangs", "zero", "one", "other"}
  /\ heir \in Heirs /\ output \in 0..MaxOutput /\ pipe \in 0..PipeCapacity
  /\ late \in BOOLEAN /\ cancelled \in BOOLEAN
  /\ cmdPc \in {"start", "call", "poll", "drain", "read", "judge", "sleep", "done"}
  /\ attempt \in {"none", "killed"} \cup CmdAttempt \cup UrlAttempt /\ verdict \in CmdVerdict
  /\ attempts \in 0..ResolveDefaults(retry)

CmdInit ==
  /\ runner \in Runners
  /\ entry \in IF runner = "dispatch" THEN DispatchedEntry ELSE {AnEntry}
  /\ retry \in IF runner \in {"health", "url"} THEN RetryCounts \cup {Default} ELSE {Default}
  /\ child = "none" /\ heir = "none" /\ output = 0 /\ pipe = 0
  /\ late = FALSE /\ cancelled = FALSE
  /\ cmdPc = "start" /\ attempt = "none" /\ attempts = 0 /\ verdict = "none"

-----------------------------------------------------------------------------
CmdEnd(v) == cmdPc' = "done" /\ verdict' = v
CmdGoto(pc) == cmdPc' = pc /\ UNCHANGED verdict
Judged(a) == attempt' = a /\ CmdGoto("judge")
CmdSame == UNCHANGED <<runner, entry, retry, cancelled>>

\* dispatch_systemd and dispatch_runr: a unit's action goes to the client.
DispatchClient == IF entry.client THEN "call" ELSE "ClientUnavailable"
DispatchCommand == IF entry.action = "command" /\ entry.argv THEN "spawn" ELSE "Action"
\* A command needs no client; another action goes to its init system's.
Dispatch ==
  IF entry.action = "command" THEN DispatchCommand
  ELSE IF entry.init \in {"systemd", "runr"} THEN DispatchClient
  ELSE "Action"

\* What stands before a spawn: the token and the deadline for exec, the token
\* for each attempt of a health check, an empty argv.
BeforeSpawn ==
  CASE runner = "exec" -> IF late \/ cancelled THEN "Cancelled" ELSE "spawn"
    [] runner = "health" -> IF cancelled THEN "Cancelled" ELSE "spawn"
    [] runner = "url" -> IF cancelled THEN "Cancelled" ELSE "call"
    [] runner = "dispatch" -> Dispatch
    [] OTHER -> "spawn"

CmdStart ==
  /\ cmdPc = "start"
  /\ CASE BeforeSpawn = "spawn" -> CmdGoto("poll")
       [] BeforeSpawn = "call" -> CmdGoto("call")
       [] OTHER -> CmdEnd(BeforeSpawn)
  /\ IF BeforeSpawn = "spawn"
       THEN child' = "running" /\ heir' = "none" /\ output' \in 0..MaxOutput /\ pipe' = 0
       ELSE UNCHANGED procVars
  /\ late' = (late /\ runner = "exec")
  /\ attempts' = IF BeforeSpawn \in {"spawn", "call"} THEN attempts + 1 ELSE attempts
  /\ CmdSame /\ UNCHANGED attempt

SpawnError ==
  /\ cmdPc = "start" /\ BeforeSpawn = "spawn"
  /\ attempts' = attempts + 1 /\ attempt' = "SpawnError"
  /\ CmdEnd(CASE runner = "exec" -> "Io" [] runner = "validate" -> "Spawn"
              [] runner = "health" -> "CmdSpawnError" [] OTHER -> "Action")
  /\ CmdSame /\ UNCHANGED <<procVars, late>>

\* Only a client that cannot be reached is told apart from a failed action.
MapSystemdResult(answer) ==
  CASE answer = "Ok" -> "Ok" [] answer = "BusUnavailable" -> "ClientUnavailable" [] OTHER -> "Action"
MapRunrResult(answer) ==
  CASE answer = "Ok" -> "Ok" [] answer = "Unavailable" -> "ClientUnavailable" [] OTHER -> "Action"

CallClient ==
  /\ cmdPc = "call" /\ runner = "dispatch"
  /\ \/ /\ entry.init = "systemd"
        /\ \E answer \in {"Ok", "BusUnavailable", "JobFailed"} : CmdEnd(MapSystemdResult(answer))
     \/ /\ entry.init = "runr"
        /\ \E answer \in {"Ok", "Unavailable", "ApiError"} : CmdEnd(MapRunrResult(answer))
  /\ CmdSame /\ UNCHANGED <<procVars, late, attempt, attempts>>

\* url::run_once: a status counts by its number, as an Ok or as an Err.
RunOnceUrl ==
  /\ cmdPc = "call" /\ runner = "url"
  /\ \E a \in UrlAttempt : Judged(a)
  /\ CmdSame /\ UNCHANGED <<procVars, late, attempts>>

-----------------------------------------------------------------------------
(* Waiting for the child *)

Alive == child \in {"running", "hangs"}

\* The threads of exec empty the pipe as it fills.
Drained == runner = "exec"

\* Mutant: the loops wait for the child without looking at the clock.
TimeUp_Never == FALSE

\* What a poll that finds the child alive looks at.
TimeUp == late \/ (runner = "exec" /\ cancelled)

\* A poll of try_wait that found something to do.
Polled(who) ==
  /\ cmdPc = "poll" /\ runner = who /\ (~Alive \/ TimeUp)
  /\ CmdSame /\ UNCHANGED <<output, pipe, late, attempts>>
KillChild == child' = "other" /\ UNCHANGED heir
Reaped == UNCHANGED <<child, heir>>

\* Mutant: SIGTERM and SIGKILL go to the child alone.
KillProcessGroup_ChildOnly ==
  child' = "other" /\ heir' = heir

\* SIGTERM, half a second, SIGKILL to the group; a daemon is not in it.
KillProcessGroup ==
  child' = "other" /\ heir' = IF heir \in {"grouped", "quiet"} THEN "none" ELSE heir

PollExec ==
  /\ Polled("exec") /\ CmdGoto("drain")
  /\ IF Alive THEN KillProcessGroup /\ attempt' = "killed" ELSE Reaped /\ UNCHANGED attempt

PollValidate ==
  /\ Polled("validate") /\ UNCHANGED attempt
  /\ IF Alive THEN KillChild /\ CmdEnd("Timeout") ELSE Reaped /\ CmdGoto("read")

PollHealth ==
  /\ Polled("health")
  /\ IF Alive THEN KillChild /\ Judged("Timeout") ELSE Reaped /\ CmdGoto("read") /\ UNCHANGED attempt

\* pkill's exit code 1 says that no process matched.
PollSignal ==
  /\ Polled("signal") /\ UNCHANGED attempt
  /\ IF Alive THEN KillChild /\ CmdEnd("Action")
     ELSE Reaped /\ CmdEnd(IF child \in {"zero", "one"} THEN "Ok" ELSE "Action")

PollCommand ==
  /\ Polled("dispatch") /\ UNCHANGED attempt
  /\ IF Alive THEN KillChild /\ CmdEnd("Action")
     ELSE Reaped /\ IF child = "zero" THEN CmdEnd("Ok") ELSE CmdGoto("read")

\* The drain threads see the end of the file when nobody holds the pipe.
NobodyHoldsPipe == ~Alive /\ heir \in {"none", "quiet"}

JoinDrainThreads ==
  /\ cmdPc = "drain" /\ NobodyHoldsPipe
  /\ CmdEnd(IF attempt = "killed" THEN "Cancelled" ELSE IF child = "zero" THEN "Ok" ELSE "exit_code")
  /\ CmdSame /\ UNCHANGED <<procVars, late, attempt, attempts>>

\* read_stderr_excerpt: up to the limit or to the end of the file.
ReadStderr(who) ==
  /\ cmdPc = "read" /\ runner = who /\ (NobodyHoldsPipe \/ pipe >= ExcerptLimit)
  /\ CmdSame /\ UNCHANGED <<procVars, late, attempts>>
ReadValidate ==
  ReadStderr("validate") /\ CmdEnd(IF child = "zero" THEN "Ok" ELSE "ExitNonZero") /\ UNCHANGED attempt
ReadHealth == ReadStderr("health") /\ Judged(IF child = "zero" THEN "Success" ELSE "ExitNonZero")
ReadCommand == ReadStderr("dispatch") /\ CmdEnd("Action") /\ UNCHANGED attempt

-----------------------------------------------------------------------------
(* The two retry loops *)

\* An attempt that failed is repeated after a pause, if one is left.
Again(who, error) ==
  /\ cmdPc = "judge" /\ runner = who
  /\ CASE attempt = "Success" -> CmdEnd("Ok")
       [] attempt # "Success" /\ attempts < ResolveDefaults(retry) -> CmdGoto("sleep")
       [] OTHER -> CmdEnd(error)
  /\ CmdSame /\ UNCHANGED <<procVars, late, attempt, attempts>>

\* Mutant: a timeout of any attempt but the last is what is reported.
RunCmdWithRetries_Sticky == Again("health", IF attempts > 1 THEN "CmdTimeout" ELSE "CmdExitNonZero")

\* had_timeout, last_actual and last_transport_reason are the last attempt's.
RunCmdWithRetries == Again("health", IF attempt = "Timeout" THEN "CmdTimeout" ELSE "CmdExitNonZero")
RunUrlWithRetries == Again("url", IF attempt = "BadStatus" THEN "UrlBadStatus" ELSE "UrlTransport")

CancellableSleep ==
  /\ cmdPc = "sleep"
  /\ IF cancelled THEN CmdEnd("Cancelled") ELSE CmdGoto("start")
  /\ CmdSame /\ UNCHANGED <<procVars, late, attempt, attempts>>

-----------------------------------------------------------------------------
(* The child, its heir, the clock and the operator *)

ChildWrites ==
  /\ child = "running" /\ output > 0 /\ (pipe < PipeCapacity \/ Drained)
  /\ output' = output - 1 /\ pipe' = IF Drained THEN 0 ELSE pipe + 1
  /\ UNCHANGED <<runner, entry, retry, child, heir, late, cancelled, cmdPc, attempt, attempts, verdict>>

ChildExits ==
  /\ child = "running" /\ output = 0
  /\ child' \in {"zero", "one", "other", "hangs"}
  /\ UNCHANGED <<runner, entry, retry, heir, output, pipe, late, cancelled, cmdPc, attempt, attempts, verdict>>

ChildStartsHeir ==
  /\ child = "running" /\ heir = "none" /\ heir' \in Heirs \ {"none"}
  /\ UNCHANGED <<runner, entry, retry, child, output, pipe, late, cancelled, cmdPc, attempt, attempts, verdict>>

HeirEnds ==
  /\ heir # "none" /\ heir' = "none"
  /\ UNCHANGED <<runner, entry, retry, child, output, pipe, late, cancelled, cmdPc, attempt, attempts, verdict>>

TimePasses ==
  /\ ~late /\ cmdPc # "done" /\ late' = TRUE
  /\ UNCHANGED <<runner, entry, retry, procVars, cancelled, cmdPc, attempt, attempts, verdict>>

Cancel ==
  /\ ~cancelled /\ cmdPc # "done" /\ cancelled' = TRUE
  /\ UNCHANGED <<runner, entry, retry, procVars, late, cmdPc, attempt, attempts, verdict>>

CmdStep ==
  \/ CmdStart \/ CallClient \/ RunOnceUrl
  \/ PollExec \/ PollValidate \/ PollHealth \/ PollSignal \/ PollCommand
  \/ JoinDrainThreads \/ ReadValidate \/ ReadHealth \/ ReadCommand
  \/ RunCmdWithRetries \/ RunUrlWithRetries \/ CancellableSleep
CmdNext ==
  \/ CmdStep \/ SpawnError
  \/ ChildWrites \/ ChildExits \/ ChildStartsHeir \/ HeirEnds \/ TimePasses \/ Cancel

\* The loops poll and the clock runs; a child writes as long as it can, but
\* owes nobody an end.
CmdFairness == WF_cmdVars(CmdStep) /\ WF_cmdVars(TimePasses) /\ WF_cmdVars(ChildWrites)
CmdSpec == CmdInit /\ [][CmdNext]_cmdVars /\ CmdFairness

-----------------------------------------------------------------------------
\* An exec that reports Cancelled after it started its command leaves no
\* process of the command's group, whatever the child had started by then.
NothingLeftBehind ==
  (runner = "exec" /\ cmdPc = "done" /\ verdict = "Cancelled") => ~Alive /\ heir \notin {"grouped", "quiet"}

\* The verdict of a health check: Ok after an attempt that succeeded; an error
\* only after all of its attempts, at least one, and with the reason of the
\* last; a program that cannot be started is not tried again.
HealthVerdict ==
  (runner \in {"health", "url"} /\ cmdPc = "done") =>
    /\ verdict = "Ok" <=> attempt = "Success"
    /\ verdict \notin {"Ok", "Cancelled", "CmdSpawnError"} =>
         /\ attempts = ResolveDefaults(retry)
         /\ verdict = CASE attempt = "ExitNonZero" -> "CmdExitNonZero" [] attempt = "Timeout" -> "CmdTimeout"
                        [] attempt = "BadStatus" -> "UrlBadStatus" [] OTHER -> "UrlTransport"
    /\ verdict = "CmdSpawnError" <=> attempt = "SpawnError"
    /\ verdict = "Cancelled" => cancelled

=============================================================================
