----------------------------- MODULE Convergence -----------------------------
(***************************************************************************)
(* Run after run of `bosun apply` on one node: configuration files, the    *)
(* services that watch them through reload_on and restart_on, the journal  *)
(* of deferred actions and the init system. A run replays the journal,     *)
(* applies the files and the services, and replays the journal again       *)
(* (bosun-cli/src/run.rs); the file.content, systemd.service and           *)
(* runr.service primitives of bosun-primitives are the steps of the apply. *)
(*                                                                         *)
(* The journal is used by what it promises (module DeferQueue, which       *)
(* DeferJournal implements). Contents are abstracted to whether a file     *)
(* differs from the bundle, and whether the process of a service runs on   *)
(* an older version of it than the one on disk.                            *)
(***************************************************************************)
EXTENDS Naturals, FiniteSets

CONSTANTS
    File,         \* file.content resources
    Service,      \* service.unit resources
    DependsOn,    \* depends_on of each resource
    ReloadOn,     \* reload_on of each service
    RestartOn,    \* restart_on of each service
    UnitFile,     \* the files that define the service to the init system
    InitSystem,   \* "systemd" or "runr"
    Faults,       \* the disturbances that occur, a subset of FaultKinds
    MaxEvents,    \* bound on new bundles, dying services and disturbances
    NoResource    \* no service is being applied

(* "failure" is a resource that fails or is interrupted, or a replay cut   *)
(* short by a signal or a failed file operation; "unavailable" an init     *)
(* system that cannot be reached while a service is applied; "crash" a     *)
(* kill of bosun and "reboot" one of the node.                             *)
FaultKinds == {"failure", "unavailable", "crash", "reboot"}

Resource == File \cup Service

Notifiers(s) == ReloadOn[s] \cup RestartOn[s]
UnitFiles == UNION {UnitFile[s] : s \in Service}

(* What the registry orders before a resource.                             *)
Sources(x) == DependsOn[x] \cup IF x \in Service THEN Notifiers(x) ELSE {}

(* The position of each resource in an order that Kahn's queue can give. A *)
(* resource enters the queue when the last of its sources leaves it, or at *)
(* the start when it has none, and the queue is first in, first out: what  *)
(* comes earlier has its last source earlier. Resources that enter at once *)
(* come in the order of a hash map, or of the manifest.                    *)
TopologicalOrder ==
    {p \in [Resource -> 1..Cardinality(Resource)] :
        /\ \A x, y \in Resource : p[x] = p[y] => x = y
        /\ \A x \in Resource : \A y \in Sources(x) : p[y] < p[x]
        /\ \A x, y \in Resource : p[x] < p[y] =>
               \A z \in Sources(x) : \E w \in Sources(y) : p[z] <= p[w]}

ASSUME LinksAssumption ==
    /\ File \cap Service = {}
    /\ DependsOn \in [Resource -> SUBSET Resource]
    /\ ReloadOn \in [Service -> SUBSET File]
    /\ RestartOn \in [Service -> SUBSET File]
    /\ UnitFile \in [Service -> SUBSET File]
ASSUME AcyclicAssumption == TopologicalOrder # {}
ASSUME InitSystemAssumption == InitSystem \in {"systemd", "runr"}
ASSUME FaultsAssumption == Faults \subseteq FaultKinds /\ MaxEvents \in Nat
ASSUME NoResourceAssumption == NoResource \notin Service \cup TopologicalOrder

Key == [unit : Service, action : {"restart", "reload"}]
Entry(s, a) == [unit |-> s, action |-> a]

(* An entry executes what another one of its unit asks for: restart does   *)
(* everything that reload does.                                            *)
Covers(j, k) == j.unit = k.unit /\ (j.action = k.action \/ j.action = "restart")

VARIABLES
    wanted,      \* services whose state in the bundle is running
    drift,       \* files whose content on disk is not the bundle's
    active,      \* services that run
    stale,       \* files on disk that the process of a service has not taken up
    unloaded,    \* unit files of which the init system holds an older version
    queue,       \* pending journal entries
    parked,      \* entries set aside for the operator
    owed,        \* history of DeferQueue: accepted and not executed since
    phase,       \* "off", or the part of the run: "pre", "apply", "post"
    order,       \* the order in which this run visits the resources, if it applies them
    todo,        \* resources the orchestrator has still to visit
    entries,     \* entries of the replay's snapshot still to be visited
    cur,         \* the service that is being applied
    step,        \* where its apply, or the replay of an entry, stands
    entry,       \* the entry that is being replayed, as a set
    changed,     \* ApplyCtx::changed_resources
    failed,      \* resources that failed or were skipped in this run
    reload_done, \* ApplyCtx::systemd_daemon_reload_done or runr_daemon_reload_done
    events,      \* new bundles, deaths and disturbances so far
    lost         \* history: stale files whose notification a run dropped

bundle  == <<wanted, drift>>
node    == <<active, stale, lost, unloaded>>
journal == <<queue, parked, owed>>
local   == <<order, todo, entries, cur, step, entry, changed, failed, reload_done>>
vars    == <<wanted, drift, active, stale, unloaded, queue, parked, owed, phase, order,
             todo, entries, cur, step, entry, changed, failed, reload_done, events, lost>>

Journal == INSTANCE DeferQueue

ServiceSteps == {"query", "start", "probe", "stop", "restart", "reload"}
Steps == {"next", "check", "remove"} \cup ServiceSteps

TypeOK ==
    /\ wanted \subseteq Service
    /\ drift \subseteq File
    /\ active \subseteq Service
    /\ stale \in [Service -> SUBSET File]
    /\ unloaded \subseteq File
    /\ queue \subseteq Key /\ parked \subseteq Key /\ owed \subseteq Key
    /\ phase \in {"off", "pre", "apply", "post"}
    /\ order \in TopologicalOrder \cup {NoResource}
    /\ phase = "apply" => order \in TopologicalOrder
    /\ todo \subseteq Resource
    /\ entries \subseteq Key
    /\ cur \in Service \cup {NoResource}
    /\ step \in Steps
    /\ cur # NoResource <=> step \in ServiceSteps
    /\ entry \in {{}} \cup {{k} : k \in Key}
    /\ entry # {} <=> step \in {"check", "remove"}
    /\ cur # NoResource => phase = "apply"
    /\ entry # {} => phase \in {"pre", "post"}
    /\ changed \subseteq File /\ failed \subseteq Resource
    /\ reload_done \in BOOLEAN
    /\ events \in 0..MaxEvents
    /\ lost \in [Service -> SUBSET File]

(* A node with its first bundle, before its first run.                     *)
Init ==
    /\ wanted \in SUBSET Service /\ drift \in SUBSET File
    /\ active = {} /\ stale = [s \in Service |-> {}] /\ unloaded = {}
    /\ Journal!Init
    /\ phase = "off" /\ order = NoResource /\ todo = {} /\ entries = {}
    /\ cur = NoResource /\ step = "next" /\ entry = {} /\ changed = {} /\ failed = {} /\ reload_done = FALSE
    /\ events = 0 /\ lost = [s \in Service |-> {}]

Event == events < MaxEvents /\ events' = events + 1

Strikes(kind) == kind \in Faults /\ Event

-----------------------------------------------------------------------------
(* What happens to the process of a service.                               *)

(* A fresh process has everything on disk, except that the init system     *)
(* starts it by the definition it has read.                                *)
Spawn(s) ==
    /\ active' = active \cup {s}
    /\ stale' = [stale EXCEPT ![s] = UnitFile[s] \cap unloaded]
    /\ lost' = [lost EXCEPT ![s] = @ \cap UnitFile[s] \cap unloaded]

(* A process that is told to reload reads its configuration again.         *)
Reread(s) ==
    /\ stale' = [stale EXCEPT ![s] = @ \cap (RestartOn[s] \cup UnitFile[s])]
    /\ lost' = [lost EXCEPT ![s] = @ \cap (RestartOn[s] \cup UnitFile[s])]
    /\ UNCHANGED active

Halt(s) ==
    /\ active' = active \ {s}
    /\ stale' = [stale EXCEPT ![s] = {}]
    /\ lost' = [lost EXCEPT ![s] = {}]

-----------------------------------------------------------------------------
(* The world around bosun.                                                 *)

NewBundle ==
    /\ phase = "off" /\ Event
    /\ wanted' \in SUBSET Service /\ drift' \in SUBSET File
    /\ UNCHANGED <<node, journal, phase, local>>

Dies(s) ==
    /\ s \in active /\ Event
    /\ Halt(s)
    /\ UNCHANGED <<bundle, unloaded, journal, phase, local>>

-----------------------------------------------------------------------------
(* The frame of a run.                                                     *)

NoLocal ==
    /\ order' = NoResource /\ todo' = {} /\ entries' = {} /\ cur' = NoResource
    /\ step' = "next" /\ entry' = {} /\ changed' = {} /\ failed' = {}
    /\ reload_done' = FALSE

StartRun ==
    /\ phase = "off"
    /\ phase' = "pre"
    /\ entries' = queue
    /\ UNCHANGED <<bundle, node, journal, order, todo, cur, step, entry, changed, failed,
                   reload_done, events>>

(* Replay ends with its last entry, or early: SIGTERM, or an error of the  *)
(* journal.                                                                *)
EndReplay ==
    /\ phase \in {"pre", "post"} /\ step = "next"
    /\ \/ entries = {} /\ UNCHANGED events
       \/ Strikes("failure")
    /\ IF phase = "pre"
       THEN /\ phase' = "apply" /\ todo' = Resource /\ entries' = {}
            /\ order' \in TopologicalOrder
            /\ UNCHANGED <<cur, step, entry, changed, failed, reload_done>>
       ELSE phase' = "off" /\ NoLocal
    /\ UNCHANGED <<bundle, node, journal>>

(* The manifest does not evaluate: nothing is applied or replayed.         *)
EvalError ==
    /\ phase = "apply" /\ todo = Resource /\ step = "next"
    /\ Strikes("failure")
    /\ phase' = "off" /\ NoLocal
    /\ UNCHANGED <<bundle, node, journal>>

ApplyDone ==
    /\ phase = "apply" /\ step = "next" /\ todo = {}
    /\ phase' = "post" /\ order' = NoResource
    /\ entries' = queue
    /\ UNCHANGED <<bundle, node, journal, todo, cur, step, entry, changed, failed,
                   reload_done, events>>

(* The services of S are not visited by this run, which forgets what       *)
(* changed when it ends.                                                   *)
Lose(S) ==
    lost' = [s \in Service |->
                IF s \in S \cap active THEN lost[s] \cup (stale[s] \cap Notifiers(s) \cap changed)
                                       ELSE lost[s]]

(* Resource x fails. Without --continue-on-error, or when it was           *)
(* interrupted, the rest is skipped.                                       *)
Fail(x) ==
    /\ Strikes("failure")
    /\ \/ todo' = {} /\ Lose(todo)
       \/ todo' = todo \ {x} /\ Lose({x})
    /\ failed' = failed \cup {x}

Visits(x) ==
    /\ phase = "apply" /\ step = "next"
    /\ x \in todo /\ \A y \in todo : order[x] <= order[y]

Ready(x) == Visits(x) /\ DependsOn[x] \cap failed = {}

(* Something it depends on failed or was skipped.                          *)
Skip(x) ==
    /\ Visits(x) /\ DependsOn[x] \cap failed # {}
    /\ todo' = todo \ {x} /\ Lose({x})
    /\ failed' = failed \cup {x}
    /\ UNCHANGED <<bundle, active, stale, unloaded, journal, phase, order, entries, cur,
                   step, entry, changed, reload_done, events>>

-----------------------------------------------------------------------------
(* file.content: the rename into place is the last step that can fail.     *)
(* The init system reads the file of a unit it has not loaded when it      *)
(* starts it, that of a loaded one when it is told to.                     *)

FileUnchanged(f) ==
    /\ Ready(f) /\ f \in File /\ f \notin drift
    /\ todo' = todo \ {f}
    /\ UNCHANGED <<bundle, node, journal, phase, order, entries, cur, step, entry, changed,
                   failed, reload_done, events>>

FileWritten(f) ==
    /\ Ready(f) /\ f \in drift
    /\ drift' = drift \ {f}
    /\ changed' = changed \cup {f}
    /\ stale' = [s \in Service |->
          IF s \in active /\ f \in Notifiers(s) \cup UnitFile[s] THEN stale[s] \cup {f}
                                                                 ELSE stale[s]]
    /\ unloaded' = unloaded \cup {g \in {f} : \E s \in active : g \in UnitFile[s]}
    /\ todo' = todo \ {f}
    /\ UNCHANGED <<wanted, active, lost, journal, phase, order, entries, cur, step, entry,
                   failed, reload_done, events>>

FileFails(f) ==
    /\ Ready(f) /\ f \in File
    /\ Fail(f)
    /\ UNCHANGED <<bundle, active, stale, unloaded, journal, phase, order, entries, cur,
                   step, entry, changed, reload_done>>

-----------------------------------------------------------------------------
(* systemd.service and runr.service.                                       *)

ServiceReady(s) == Ready(s) /\ s \in Service

(* systemd says whether it has to read the files of this unit again, runr  *)
(* does not: the first service of the run makes it read everything.        *)
NeedsDaemonReload(s) ==
    /\ ~reload_done
    /\ InitSystem = "systemd" => UnitFile[s] \cap unloaded # {}

(* daemon_reload, at most once in a run.                                   *)
DaemonReload(s) ==
    /\ ServiceReady(s)
    /\ IF NeedsDaemonReload(s)
       THEN reload_done' = TRUE /\ unloaded' = {}
       ELSE UNCHANGED <<reload_done, unloaded>>
    /\ cur' = s /\ step' = "query"
    /\ UNCHANGED <<bundle, active, stale, lost, journal, phase, order, todo, entries, entry,
                   changed, failed, events>>

(* No client, or daemon_reload cannot reach the init system: the resource  *)
(* is Deferred, the flag is put back, the run goes on.                     *)
Unreachable(s) ==
    /\ ServiceReady(s)
    /\ Strikes("unavailable")
    /\ todo' = todo \ {s} /\ Lose({s})
    /\ UNCHANGED <<bundle, active, stale, unloaded, journal, phase, order, entries, cur,
                   step, entry, changed, failed, reload_done>>

(* daemon_reload fails for another reason. runr.service leaves the flag    *)
(* up, systemd.service takes it down again.                                *)
DaemonReloadFails(s) ==
    /\ ServiceReady(s) /\ NeedsDaemonReload(s)
    /\ Fail(s)
    /\ reload_done' = (InitSystem = "runr")
    /\ UNCHANGED <<bundle, active, stale, unloaded, journal, phase, order, entries, cur,
                   step, entry, changed>>

(* Mutant: a reload is preferred to a restart.                             *)
decide_action_ReloadFirst(s) ==
    CASE s \in wanted /\ s \notin active -> "start"
      [] s \in wanted /\ s \in active /\ ReloadOn[s] \cap changed # {} -> "reload"
      [] s \in wanted /\ s \in active /\ ReloadOn[s] \cap changed = {}
            /\ RestartOn[s] \cap changed # {} -> "restart"
      [] s \notin wanted /\ s \in active -> "stop"
      [] OTHER -> "next"

(* Mutant: a service that is down is started only when a file changed.     *)
decide_action_NoStart(s) ==
    CASE s \in wanted /\ s \notin active /\ Notifiers(s) \cap changed # {} -> "start"
      [] s \in wanted /\ s \in active /\ RestartOn[s] \cap changed # {} -> "restart"
      [] s \in wanted /\ s \in active /\ RestartOn[s] \cap changed = {}
            /\ ReloadOn[s] \cap changed # {} -> "reload"
      [] s \notin wanted /\ s \in active -> "stop"
      [] OTHER -> "next"

(* The decide tables.                                                      *)
decide_action(s) ==
    CASE s \in wanted /\ s \notin active -> "start"
      [] s \in wanted /\ s \in active /\ RestartOn[s] \cap changed # {} -> "restart"
      [] s \in wanted /\ s \in active /\ RestartOn[s] \cap changed = {}
            /\ ReloadOn[s] \cap changed # {} -> "reload"
      [] s \notin wanted /\ s \in active -> "stop"
      [] OTHER -> "next"

Leave(s) == todo' = todo \ {s} /\ cur' = NoResource /\ step' = "next"

(* The state of the unit is read and the action decided.                   *)
Decide ==
    /\ step = "query"
    /\ IF decide_action(cur) = "next"
       THEN Leave(cur)
       ELSE step' = decide_action(cur) /\ UNCHANGED <<todo, cur>>
    /\ UNCHANGED <<bundle, node, journal, phase, order, entries, entry, changed, failed,
                   reload_done, events>>

StartService ==
    /\ step = "start"
    /\ Spawn(cur)
    /\ step' = "probe"
    /\ UNCHANGED <<bundle, unloaded, journal, phase, order, todo, entries, cur, entry,
                   changed, failed, reload_done, events>>

(* The start is verified and the health check passes.                      *)
Started ==
    /\ step = "probe"
    /\ Leave(cur)
    /\ UNCHANGED <<bundle, node, journal, phase, order, entries, entry, changed, failed,
                   reload_done, events>>

StopService ==
    /\ step = "stop"
    /\ Halt(cur)
    /\ Leave(cur)
    /\ UNCHANGED <<bundle, unloaded, journal, phase, order, entries, entry, changed, failed,
                   reload_done, events>>

(* The action goes into the journal before anything is done.               *)
Enqueue ==
    /\ step \in {"restart", "reload"}
    /\ Journal!Accept(Entry(cur, step))
    /\ Leave(cur)
    /\ UNCHANGED <<bundle, node, phase, order, entries, entry, changed, failed, reload_done,
                   events>>

(* A call to the init system, the verification of a start, its health      *)
(* check, validate_with or the enqueue fails.                              *)
ServiceFails ==
    /\ step \in ServiceSteps
    /\ Fail(cur)
    /\ cur' = NoResource /\ step' = "next"
    /\ UNCHANGED <<bundle, active, stale, unloaded, journal, phase, order, entries, entry,
                   changed, reload_done>>

(* A call does not reach the init system: Deferred.                        *)
ServiceUnavailable ==
    /\ step \in {"query", "start", "probe", "stop"}
    /\ Strikes("unavailable")
    /\ Leave(cur) /\ Lose({cur})
    /\ UNCHANGED <<bundle, active, stale, unloaded, journal, phase, order, entries, entry,
                   changed, failed, reload_done>>

-----------------------------------------------------------------------------
(* Replay of one entry; attempts are counted in DeferJournal.              *)

Replays(k) == phase \in {"pre", "post"} /\ step = "next" /\ k \in entries

Dispatch(k) ==
    /\ Replays(k)
    /\ IF k.action = "restart" THEN Spawn(k.unit)
                               ELSE k.unit \in active /\ Reread(k.unit)
    /\ entries' = entries \ {k} /\ entry' = {k} /\ step' = "check"
    /\ UNCHANGED <<bundle, unloaded, journal, phase, order, todo, cur, changed, failed,
                   reload_done, events>>

CheckPasses(k) ==
    /\ step = "check" /\ k \in entry
    /\ Journal!Execute(k)
    /\ step' = "remove"
    /\ UNCHANGED <<bundle, node, phase, order, todo, entries, cur, entry, changed, failed,
                   reload_done, events>>

Remove(k) ==
    /\ step = "remove" /\ k \in entry
    /\ Journal!Drop(k)
    /\ entry' = {} /\ step' = "next"
    /\ UNCHANGED <<bundle, node, phase, order, todo, entries, cur, changed, failed,
                   reload_done, events>>

(* The action or its health check fails, or the client cannot be reached:  *)
(* the entry stays or, after its last attempt, is set aside.               *)
Refused(k) ==
    /\ Replays(k) \/ (step = "check" /\ k \in entry)
    /\ UNCHANGED journal \/ Journal!Park(k)
    /\ entries' = entries \ {k} /\ entry' = {} /\ step' = "next"
    /\ UNCHANGED <<bundle, node, phase, order, todo, cur, changed, failed, reload_done,
                   events>>

-----------------------------------------------------------------------------
(* Kills.                                                                  *)

Crash ==
    /\ phase # "off"
    /\ Strikes("crash")
    /\ phase' = "off" /\ NoLocal
    /\ Lose(todo)
    /\ UNCHANGED <<bundle, active, stale, unloaded, journal>>

(* The journal is on a tmpfs. What starts again after the reboot starts    *)
(* from what is on disk.                                                   *)
Reboot ==
    /\ Strikes("reboot")
    /\ phase' = "off" /\ NoLocal
    /\ Journal!Clear(queue, parked)
    /\ active' \in SUBSET Service
    /\ stale' = [s \in Service |-> {}] /\ lost' = stale' /\ unloaded' = {}
    /\ UNCHANGED bundle

-----------------------------------------------------------------------------
Run ==
    \/ StartRun \/ EndReplay \/ EvalError \/ ApplyDone
    \/ \E x \in Resource : Skip(x)
    \/ \E f \in File : FileUnchanged(f) \/ FileWritten(f) \/ FileFails(f)
    \/ \E s \in Service :
          DaemonReload(s) \/ Unreachable(s) \/ DaemonReloadFails(s)
    \/ Decide \/ StartService \/ Started \/ StopService \/ Enqueue
    \/ ServiceFails \/ ServiceUnavailable
    \/ \E k \in Key : Dispatch(k) \/ CheckPasses(k) \/ Remove(k) \/ Refused(k)

Next ==
    \/ NewBundle \/ \E s \in Service : Dies(s)
    \/ Run \/ Crash \/ Reboot

Spec == Init /\ [][Next]_vars

Settles(k) == Refused(k) /\ k \notin queue'

(* The timer starts run after run, a run goes on, and an entry that is     *)
(* replayed again and again passes some day or exhausts its attempts.      *)
FairSpec ==
    /\ Spec
    /\ WF_vars(Run)
    /\ \A k \in Key :
          /\ SF_vars(Dispatch(k) \/ Settles(k))
          /\ SF_vars(CheckPasses(k) \/ Settles(k))

-----------------------------------------------------------------------------
(* The inductive invariant behind the properties.                          *)

(* An entry that makes the process of s take up file f.                    *)
Asked(s, f) ==
    \E k \in queue \cup parked :
        k.unit = s /\ (k.action = "restart" \/ f \notin RestartOn[s])

(* Stale configuration that a run may still have to tell s about.          *)
Config(s) == (stale[s] \cap Notifiers(s)) \ UnitFiles

(* It is asked for, was dropped, or this run will visit s.                 *)
NotifyInv ==
    \A s \in active : \A f \in Config(s) :
        f \in lost[s] \/ Asked(s, f) \/ (f \in changed /\ s \in todo)

(* A service is visited after its files; what is left to visit and what    *)
(* has changed belongs to the apply that is under way.                     *)
VisitInv ==
    /\ phase # "apply" => todo = {}
    /\ phase \in {"off", "pre"} => changed = {}
    /\ changed \cap todo = {}
    /\ phase = "apply" => \A s \in Service \ todo : Notifiers(s) \cap todo = {}
    /\ cur # NoResource => cur \in todo /\ Notifiers(cur) \cap todo = {}

(* The decision that is being carried out still fits what has changed.     *)
DecisionInv ==
    /\ step = "reload" => RestartOn[cur] \cap changed = {}
    /\ step = "probe" /\ cur \in active => Config(cur) = {}

(* The entry that is being replayed has done its work.                     *)
ReplayInv ==
    \A k \in entry : k.unit \in active =>
        \A f \in Config(k.unit) : k.action = "reload" /\ f \in RestartOn[k.unit]

-----------------------------------------------------------------------------
(* Properties.                                                             *)

(* While no run is under way, a service whose process runs on an older     *)
(* configuration than the one on disk has an entry in the journal, pending *)
(* or set aside, that makes up for it. The one exception: the run that     *)
(* wrote the file never got the service's action into the journal.         *)
NotifyKept ==
    phase = "off" =>
        \A s \in active : \A f \in Config(s) :
            f \in lost[s] \/ Asked(s, f)

(* The same without the exception, as bundle-authoring.md says.            *)
ReloadSurvives ==
    phase = "off" =>
        \A s \in active : \A f \in Config(s) : Asked(s, f)

(* The same of the files that define the unit: restart_on makes a new      *)
(* definition take effect, as bundle-authoring.md says. What is left of a  *)
(* unit file that is written after the daemon_reload of its run.           *)
UnitFileTakesEffect ==
    phase = "off" =>
        \A s \in active : \A f \in stale[s] \cap UnitFile[s] \cap RestartOn[s] : Asked(s, f)

(* Once bundles and disturbances stop, the node gets to where the bundle   *)
(* wants it and stays: files written, exactly the wanted services running, *)
(* each with its current configuration or an entry that awaits the         *)
(* operator. What it does not promise: a service whose notification a run  *)
(* dropped (lost: killed, cut short or failed before it got to the         *)
(* service, or the init system out of reach) keeps what it has read before *)
(* until something else restarts it; ReloadSurvives is about those.        *)
Converges ==
    <>[](/\ drift = {} /\ active = wanted
         /\ \A s \in active : \A f \in Config(s) :
               f \in lost[s] \/ \E k \in parked : k.unit = s)
=============================================================================
