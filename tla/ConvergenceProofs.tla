-------------------------- MODULE ConvergenceProofs --------------------------
(***************************************************************************)
(* Proofs about Convergence, for any files, services, links between them,  *)
(* either init system and any disturbances.                                *)
(***************************************************************************)
EXTENDS Convergence, Integers, FiniteSetTheorems, TLAPS

-----------------------------------------------------------------------------
(* Types.                                                                  *)

(* The types of what a run keeps in memory.                                *)
LocalTypes ==
    /\ todo \subseteq Resource
    /\ entries \subseteq Key
    /\ cur \in Service \cup {NoResource}
    /\ step \in Steps
    /\ cur # NoResource <=> step \in ServiceSteps
    /\ entry \in {{}} \cup {{k} : k \in Key}
    /\ entry # {} <=> step \in {"check", "remove"}
    /\ cur # NoResource => phase = "apply"
    /\ entry # {} => phase \in {"pre", "post"}
    /\ changed \subseteq File /\ failed \subseteq Resource
    /\ reload_done \in BOOLEAN
    /\ order \in TopologicalOrder \cup {NoResource}

(* They hold of a run that is over.                                        *)
LEMMA NoLocalTypes == NoLocal => LocalTypes'
<1>. SUFFICES ASSUME NoLocal PROVE LocalTypes'
  OBVIOUS
<1>1. (entry \in {{}} \cup {{k} : k \in Key})'
  BY DEF NoLocal
<1>2. (cur # NoResource <=> step \in ServiceSteps)'
  BY DEF NoLocal, ServiceSteps
<1>3. (entry # {} <=> step \in {"check", "remove"})'
  BY DEF NoLocal
<1>4. (cur \in Service \cup {NoResource} /\ step \in Steps)'
  BY DEF NoLocal, Steps
<1>. QED
  BY <1>1, <1>2, <1>3, <1>4 DEF LocalTypes, NoLocal

(* A disturbance keeps the bound.                                          *)
LEMMA EventTypes == TypeOK /\ Event => (events \in 0..MaxEvents)'
  BY FaultsAssumption DEF TypeOK, Event

(* A resource has its turn after all its sources.                          *)
LEMMA OnTurn ==
    ASSUME TypeOK, NEW x \in Resource, Visits(x)
    PROVE  phase = "apply" /\ step = "next" /\ x \in todo /\ Sources(x) \cap todo = {}
<1>1. order \in TopologicalOrder
  BY DEF TypeOK, Visits
<1>2. ASSUME NEW y \in Sources(x) \cap todo PROVE FALSE
  <2>1. y \in Resource /\ order[x] <= order[y]
    BY <1>2 DEF TypeOK, Visits
  <2>2. order[y] < order[x] /\ order[x] \in Int /\ order[y] \in Int
    BY <1>1, <1>2, <2>1 DEF TopologicalOrder
  <2>. QED BY <2>1, <2>2
<1>. QED BY <1>2 DEF Visits

(* Every step keeps the types.                                             *)
LEMMA TypeStep == TypeOK /\ [Next]_vars => TypeOK'
<1>. SUFFICES ASSUME TypeOK, [Next]_vars PROVE TypeOK'
  OBVIOUS
<1>. USE LinksAssumption, FaultsAssumption, NoResourceAssumption
<1>1. CASE NewBundle
  BY <1>1 DEF TypeOK, Steps, ServiceSteps, bundle, node, journal, local, NewBundle, Event
<1>2. ASSUME NEW s \in Service, Dies(s) PROVE TypeOK'
  BY <1>2 DEF TypeOK, Steps, ServiceSteps, bundle, node, journal, local, Dies, Halt, Event
<1>3. CASE StartRun
  BY <1>3 DEF TypeOK, Steps, ServiceSteps, bundle, node, journal, local, StartRun
<1>4. CASE EndReplay
  <2>1. CASE phase = "pre"
    BY <1>4, <2>1, EventTypes DEF TypeOK, EndReplay, Strikes, bundle, node, journal
  <2>2. CASE phase = "post"
    BY <1>4, <2>2, EventTypes, NoLocalTypes
    DEF TypeOK, LocalTypes, EndReplay, Strikes, bundle, node, journal
  <2>3. QED
    BY <1>4, <2>1, <2>2 DEF EndReplay
<1>5. CASE EvalError
  BY <1>5, EventTypes, NoLocalTypes
  DEF TypeOK, LocalTypes, EvalError, Strikes, bundle, node, journal
<1>6. CASE ApplyDone
  BY <1>6 DEF TypeOK, Steps, ServiceSteps, bundle, node, journal, local, ApplyDone
<1>7. ASSUME NEW f \in File, FileUnchanged(f) PROVE TypeOK'
  BY <1>7, OnTurn
  DEF TypeOK, Steps, ServiceSteps, bundle, node, journal, local, FileUnchanged, Ready,
      Resource
<1>8. ASSUME NEW f \in File, FileWritten(f) PROVE TypeOK'
  BY <1>8, OnTurn
  DEF TypeOK, Steps, ServiceSteps, bundle, node, journal, local, FileWritten, Ready, Resource
<1>9. ASSUME NEW f \in File, FileFails(f) PROVE TypeOK'
  BY <1>9, OnTurn
  DEF TypeOK, Steps, ServiceSteps, bundle, node, journal, local, FileFails, Fail, Lose,
      Strikes, Event, Ready, Resource
<1>10. ASSUME NEW x \in Resource, Skip(x) PROVE TypeOK'
  BY <1>10, OnTurn
  DEF TypeOK, Steps, ServiceSteps, bundle, node, journal, local, Skip, Lose, Resource
<1>11. ASSUME NEW s \in Service, DaemonReload(s) PROVE TypeOK'
  BY <1>11, OnTurn
  DEF TypeOK, Steps, ServiceSteps, bundle, node, journal, local, DaemonReload, ServiceReady,
      Ready, Resource
<1>12. ASSUME NEW s \in Service, Unreachable(s) PROVE TypeOK'
  BY <1>12, OnTurn
  DEF TypeOK, Steps, ServiceSteps, bundle, node, journal, local, Unreachable, ServiceReady,
      Ready, Lose, Strikes, Event, Resource
<1>13. ASSUME NEW s \in Service, DaemonReloadFails(s) PROVE TypeOK'
  BY <1>13, OnTurn
  DEF TypeOK, Steps, ServiceSteps, bundle, node, journal, local, DaemonReloadFails,
      ServiceReady, Ready, Fail, Lose, Strikes, Event, Resource
<1>14. CASE Decide
  BY <1>14
  DEF TypeOK, Steps, ServiceSteps, bundle, node, journal, local, Decide, Leave,
      decide_action
<1>15. CASE StartService
  BY <1>15
  DEF TypeOK, Steps, ServiceSteps, bundle, node, journal, local, StartService, Spawn
<1>16. CASE Started
  BY <1>16 DEF TypeOK, Steps, ServiceSteps, bundle, node, journal, local, Started, Leave
<1>17. CASE StopService
  BY <1>17
  DEF TypeOK, Steps, ServiceSteps, bundle, node, journal, local, StopService, Halt, Leave
<1>18. CASE Enqueue
  BY <1>18
  DEF TypeOK, Steps, ServiceSteps, bundle, node, journal, local, Enqueue, Leave,
      Journal!Accept, Journal!Insert, Entry, Key
<1>19. CASE ServiceFails
  BY <1>19
  DEF TypeOK, Steps, ServiceSteps, bundle, node, journal, local, ServiceFails, Fail, Lose,
      Strikes, Event, Resource
<1>20. CASE ServiceUnavailable
  BY <1>20
  DEF TypeOK, Steps, ServiceSteps, bundle, node, journal, local, ServiceUnavailable, Leave,
      Lose, Strikes, Event
<1>21. ASSUME NEW k \in Key, Dispatch(k) PROVE TypeOK'
  BY <1>21
  DEF TypeOK, Steps, ServiceSteps, bundle, node, journal, local, Dispatch, Replays, Spawn,
      Reread, Key
<1>22. ASSUME NEW k \in Key, CheckPasses(k) PROVE TypeOK'
  BY <1>22
  DEF TypeOK, Steps, ServiceSteps, bundle, node, journal, local, CheckPasses,
      Journal!Execute
<1>23. ASSUME NEW k \in Key, Remove(k) PROVE TypeOK'
  BY <1>23
  DEF TypeOK, Steps, ServiceSteps, bundle, node, journal, local, Remove, Journal!Drop
<1>24. ASSUME NEW k \in Key, Refused(k) PROVE TypeOK'
  BY <1>24
  DEF TypeOK, Steps, ServiceSteps, bundle, node, journal, local, Refused, Replays,
      Journal!Park
<1>25. CASE Crash
  <2>1. (lost \in [Service -> SUBSET File])'
    BY <1>25 DEF TypeOK, Crash, Lose
  <2>2. QED
    BY <1>25, <2>1, EventTypes, NoLocalTypes
    DEF TypeOK, LocalTypes, Crash, Strikes, bundle, journal
<1>26. CASE Reboot
  <2>1. (stale \in [Service -> SUBSET File] /\ lost \in [Service -> SUBSET File])'
    BY <1>26 DEF Reboot
  <2>2. (queue \subseteq Key /\ parked \subseteq Key /\ owed \subseteq Key)'
    BY <1>26 DEF TypeOK, Reboot, Journal!Clear
  <2>3. QED
    BY <1>26, <2>1, <2>2, EventTypes, NoLocalTypes
    DEF TypeOK, LocalTypes, Reboot, Strikes, bundle
<1>27. CASE UNCHANGED vars
  BY <1>27 DEF TypeOK, vars
<1>. QED
  BY <1>1, <1>2, <1>3, <1>4, <1>5, <1>6, <1>7, <1>8, <1>9, <1>10, <1>11, <1>12, <1>13,
      <1>14, <1>15, <1>16, <1>17, <1>18, <1>19, <1>20, <1>21, <1>22, <1>23, <1>24, <1>25,
      <1>26, <1>27
  DEF Next, Run

(* The types hold throughout, and a service or an entry is in hand exactly *)
(* in the steps of a run that work on one.                                 *)
THEOREM ConvergenceTypes == Spec => []TypeOK
<1>1. Init => TypeOK
  <2>. SUFFICES ASSUME Init PROVE TypeOK
    OBVIOUS
  <2>1. entry \in {{}} \cup {{k} : k \in Key}
    BY DEF Init
  <2>2. events \in 0..MaxEvents
    BY FaultsAssumption DEF Init
  <2>. QED
    BY <2>1, <2>2, NoResourceAssumption DEF Init, TypeOK, Steps, ServiceSteps, Journal!Init
<1>. QED
  BY <1>1, TypeStep, PTL DEF Spec

-----------------------------------------------------------------------------
(* The inductive invariant.                                                *)

(* Services are visited after their files.                                 *)
LEMMA VisitStep ==
    TypeOK /\ VisitInv /\ [Next]_vars => VisitInv'
<1>. SUFFICES ASSUME TypeOK, VisitInv, [Next]_vars PROVE VisitInv'
  OBVIOUS
<1>. USE LinksAssumption, NoResourceAssumption DEF TypeOK
<1>1. CASE NewBundle
  BY <1>1
  DEF VisitInv, Notifiers, ServiceSteps, bundle, node, journal, local, NewBundle, Event
<1>2. ASSUME NEW s \in Service, Dies(s) PROVE VisitInv'
  BY <1>2
  DEF VisitInv, Notifiers, ServiceSteps, bundle, node, journal, local, Dies, Halt, Event
<1>3. CASE StartRun
  BY <1>3 DEF VisitInv, Notifiers, ServiceSteps, bundle, node, journal, local, StartRun
<1>4. CASE EndReplay
  BY <1>4
  DEF VisitInv, Notifiers, ServiceSteps, bundle, node, journal, local, EndReplay, NoLocal,
      Strikes, Event, Resource
<1>5. CASE EvalError
  BY <1>5
  DEF VisitInv, Notifiers, ServiceSteps, bundle, node, journal, local, EvalError, NoLocal,
      Strikes, Event
<1>6. CASE ApplyDone
  BY <1>6 DEF VisitInv, Notifiers, ServiceSteps, bundle, node, journal, local, ApplyDone
<1>7. ASSUME NEW f \in File, FileUnchanged(f) PROVE VisitInv'
  BY <1>7, OnTurn
  DEF VisitInv, Notifiers, ServiceSteps, bundle, node, journal, local, FileUnchanged, Ready,
      Resource
<1>8. ASSUME NEW f \in File, FileWritten(f) PROVE VisitInv'
  BY <1>8, OnTurn
  DEF VisitInv, Notifiers, ServiceSteps, bundle, node, journal, local, FileWritten, Ready,
      Resource
<1>9. ASSUME NEW f \in File, FileFails(f) PROVE VisitInv'
  BY <1>9, OnTurn
  DEF VisitInv, Notifiers, ServiceSteps, bundle, node, journal, local, FileFails, Fail, Lose,
      Strikes, Event, Ready, Resource
<1>10. ASSUME NEW x \in Resource, Skip(x) PROVE VisitInv'
  BY <1>10, OnTurn
  DEF VisitInv, Notifiers, ServiceSteps, bundle, node, journal, local, Skip, Lose, Resource,
      Sources
<1>11. ASSUME NEW s \in Service, DaemonReload(s) PROVE VisitInv'
  BY <1>11, OnTurn
  DEF VisitInv, Notifiers, ServiceSteps, bundle, node, journal, local, DaemonReload,
      ServiceReady, Ready, Resource, Sources
<1>12. ASSUME NEW s \in Service, Unreachable(s) PROVE VisitInv'
  BY <1>12, OnTurn
  DEF VisitInv, Notifiers, ServiceSteps, bundle, node, journal, local, Unreachable,
      ServiceReady, Ready, Lose, Strikes, Event, Resource, Sources
<1>13. ASSUME NEW s \in Service, DaemonReloadFails(s) PROVE VisitInv'
  BY <1>13, OnTurn
  DEF VisitInv, Notifiers, ServiceSteps, bundle, node, journal, local, DaemonReloadFails,
      ServiceReady, Ready, Fail, Lose, Strikes, Event, Resource, Sources
<1>14. CASE Decide
  BY <1>14
  DEF VisitInv, Notifiers, ServiceSteps, bundle, node, journal, local, Decide, Leave,
      decide_action
<1>15. CASE StartService
  BY <1>15
  DEF VisitInv, Notifiers, ServiceSteps, bundle, node, journal, local, StartService, Spawn
<1>16. CASE Started
  BY <1>16
  DEF VisitInv, Notifiers, ServiceSteps, bundle, node, journal, local, Started, Leave
<1>17. CASE StopService
  BY <1>17
  DEF VisitInv, Notifiers, ServiceSteps, bundle, node, journal, local, StopService, Halt,
      Leave
<1>18. CASE Enqueue
  BY <1>18
  DEF VisitInv, Notifiers, ServiceSteps, bundle, node, journal, local, Enqueue, Leave,
      Journal!Accept, Journal!Insert, Entry
<1>19. CASE ServiceFails
  BY <1>19
  DEF VisitInv, Notifiers, ServiceSteps, bundle, node, journal, local, ServiceFails, Fail,
      Lose, Strikes, Event
<1>20. CASE ServiceUnavailable
  BY <1>20
  DEF VisitInv, Notifiers, ServiceSteps, bundle, node, journal, local, ServiceUnavailable,
      Leave, Lose, Strikes, Event
<1>21. ASSUME NEW k \in Key, Dispatch(k) PROVE VisitInv'
  BY <1>21
  DEF VisitInv, Notifiers, ServiceSteps, bundle, node, journal, local, Dispatch, Replays,
      Spawn, Reread
<1>22. ASSUME NEW k \in Key, CheckPasses(k) PROVE VisitInv'
  BY <1>22
  DEF VisitInv, Notifiers, ServiceSteps, bundle, node, journal, local, CheckPasses,
      Journal!Execute
<1>23. ASSUME NEW k \in Key, Remove(k) PROVE VisitInv'
  BY <1>23
  DEF VisitInv, Notifiers, ServiceSteps, bundle, node, journal, local, Remove, Journal!Drop
<1>24. ASSUME NEW k \in Key, Refused(k) PROVE VisitInv'
  BY <1>24
  DEF VisitInv, Notifiers, ServiceSteps, bundle, node, journal, local, Refused, Replays,
      Journal!Park
<1>25. CASE Crash
  BY <1>25
  DEF VisitInv, Notifiers, ServiceSteps, bundle, node, journal, local, Crash, NoLocal, Lose,
      Strikes, Event
<1>26. CASE Reboot
  BY <1>26
  DEF VisitInv, Notifiers, ServiceSteps, bundle, node, journal, local, Reboot, NoLocal,
      Strikes, Event, Journal!Clear
<1>27. CASE UNCHANGED vars
  BY <1>27 DEF VisitInv, Notifiers, ServiceSteps, bundle, node, journal, local, vars
<1>. QED
  BY <1>1, <1>2, <1>3, <1>4, <1>5, <1>6, <1>7, <1>8, <1>9, <1>10, <1>11, <1>12, <1>13,
      <1>14, <1>15, <1>16, <1>17, <1>18, <1>19, <1>20, <1>21, <1>22, <1>23, <1>24, <1>25,
      <1>26, <1>27
  DEF Next, Run

(* Nothing changes while a decision is carried out.                        *)
LEMMA DecisionStep ==
    TypeOK /\ DecisionInv /\ [Next]_vars => DecisionInv'
<1>. SUFFICES ASSUME TypeOK, DecisionInv, [Next]_vars PROVE DecisionInv'
  OBVIOUS
<1>. USE LinksAssumption, NoResourceAssumption DEF TypeOK
<1>1. CASE NewBundle
  BY <1>1
  DEF DecisionInv, Config, UnitFiles, Notifiers, ServiceSteps, bundle, node, journal, local,
      NewBundle, Event
<1>2. ASSUME NEW s \in Service, Dies(s) PROVE DecisionInv'
  BY <1>2
  DEF DecisionInv, Config, UnitFiles, Notifiers, ServiceSteps, bundle, node, journal, local,
      Dies, Halt, Event
<1>3. CASE StartRun
  BY <1>3
  DEF DecisionInv, Config, UnitFiles, Notifiers, ServiceSteps, bundle, node, journal, local,
      StartRun
<1>4. CASE EndReplay
  BY <1>4
  DEF DecisionInv, Config, UnitFiles, Notifiers, ServiceSteps, bundle, node, journal, local,
      EndReplay, NoLocal, Strikes, Event
<1>5. CASE EvalError
  BY <1>5
  DEF DecisionInv, Config, UnitFiles, Notifiers, ServiceSteps, bundle, node, journal, local,
      EvalError, NoLocal, Strikes, Event
<1>6. CASE ApplyDone
  BY <1>6
  DEF DecisionInv, Config, UnitFiles, Notifiers, ServiceSteps, bundle, node, journal, local,
      ApplyDone
<1>7. ASSUME NEW f \in File, FileUnchanged(f) PROVE DecisionInv'
  BY <1>7, OnTurn
  DEF DecisionInv, Config, UnitFiles, Notifiers, ServiceSteps, bundle, node, journal, local,
      FileUnchanged, Ready, Resource
<1>8. ASSUME NEW f \in File, FileWritten(f) PROVE DecisionInv'
  BY <1>8, OnTurn
  DEF DecisionInv, Config, UnitFiles, Notifiers, ServiceSteps, bundle, node, journal, local,
      FileWritten, Ready, Resource
<1>9. ASSUME NEW f \in File, FileFails(f) PROVE DecisionInv'
  BY <1>9, OnTurn
  DEF DecisionInv, Config, UnitFiles, Notifiers, ServiceSteps, bundle, node, journal, local,
      FileFails, Fail, Lose, Strikes, Event, Ready, Resource
<1>10. ASSUME NEW x \in Resource, Skip(x) PROVE DecisionInv'
  BY <1>10, OnTurn
  DEF DecisionInv, Config, UnitFiles, Notifiers, ServiceSteps, bundle, node, journal, local,
      Skip, Lose, Resource
<1>11. ASSUME NEW s \in Service, DaemonReload(s) PROVE DecisionInv'
  BY <1>11, OnTurn
  DEF DecisionInv, Config, UnitFiles, Notifiers, ServiceSteps, bundle, node, journal, local,
      DaemonReload, ServiceReady, Ready, Resource
<1>12. ASSUME NEW s \in Service, Unreachable(s) PROVE DecisionInv'
  BY <1>12, OnTurn
  DEF DecisionInv, Config, UnitFiles, Notifiers, ServiceSteps, bundle, node, journal, local,
      Unreachable, ServiceReady, Ready, Lose, Strikes, Event, Resource
<1>13. ASSUME NEW s \in Service, DaemonReloadFails(s) PROVE DecisionInv'
  BY <1>13, OnTurn
  DEF DecisionInv, Config, UnitFiles, Notifiers, ServiceSteps, bundle, node, journal, local,
      DaemonReloadFails, ServiceReady, Ready, Fail, Lose, Strikes, Event, Resource
<1>14. CASE Decide
  BY <1>14
  DEF DecisionInv, Config, UnitFiles, Notifiers, ServiceSteps, bundle, node, journal, local,
      Decide, Leave, decide_action
<1>15. CASE StartService
  BY <1>15
  DEF DecisionInv, Config, UnitFiles, Notifiers, ServiceSteps, bundle, node, journal, local,
      StartService, Spawn
<1>16. CASE Started
  BY <1>16
  DEF DecisionInv, Config, UnitFiles, Notifiers, ServiceSteps, bundle, node, journal, local,
      Started, Leave
<1>17. CASE StopService
  BY <1>17
  DEF DecisionInv, Config, UnitFiles, Notifiers, ServiceSteps, bundle, node, journal, local,
      StopService, Halt, Leave
<1>18. CASE Enqueue
  BY <1>18
  DEF DecisionInv, Config, UnitFiles, Notifiers, ServiceSteps, bundle, node, journal, local,
      Enqueue, Leave, Journal!Accept, Journal!Insert, Entry
<1>19. CASE ServiceFails
  BY <1>19
  DEF DecisionInv, Config, UnitFiles, Notifiers, ServiceSteps, bundle, node, journal, local,
      ServiceFails, Fail, Lose, Strikes, Event
<1>20. CASE ServiceUnavailable
  BY <1>20
  DEF DecisionInv, Config, UnitFiles, Notifiers, ServiceSteps, bundle, node, journal, local,
      ServiceUnavailable, Leave, Lose, Strikes, Event
<1>21. ASSUME NEW k \in Key, Dispatch(k) PROVE DecisionInv'
  BY <1>21
  DEF DecisionInv, Config, UnitFiles, Notifiers, ServiceSteps, bundle, node, journal, local,
      Dispatch, Replays, Spawn, Reread
<1>22. ASSUME NEW k \in Key, CheckPasses(k) PROVE DecisionInv'
  BY <1>22
  DEF DecisionInv, Config, UnitFiles, Notifiers, ServiceSteps, bundle, node, journal, local,
      CheckPasses, Journal!Execute
<1>23. ASSUME NEW k \in Key, Remove(k) PROVE DecisionInv'
  BY <1>23
  DEF DecisionInv, Config, UnitFiles, Notifiers, ServiceSteps, bundle, node, journal, local,
      Remove, Journal!Drop
<1>24. ASSUME NEW k \in Key, Refused(k) PROVE DecisionInv'
  BY <1>24
  DEF DecisionInv, Config, UnitFiles, Notifiers, ServiceSteps, bundle, node, journal, local,
      Refused, Replays, Journal!Park
<1>25. CASE Crash
  BY <1>25
  DEF DecisionInv, Config, UnitFiles, Notifiers, ServiceSteps, bundle, node, journal, local,
      Crash, NoLocal, Lose, Strikes, Event
<1>26. CASE Reboot
  BY <1>26
  DEF DecisionInv, Config, UnitFiles, Notifiers, ServiceSteps, bundle, node, journal, local,
      Reboot, NoLocal, Strikes, Event, Journal!Clear
<1>27. CASE UNCHANGED vars
  BY <1>27
  DEF DecisionInv, Config, UnitFiles, Notifiers, ServiceSteps, bundle, node, journal, local,
      vars
<1>. QED
  BY <1>1, <1>2, <1>3, <1>4, <1>5, <1>6, <1>7, <1>8, <1>9, <1>10, <1>11, <1>12, <1>13,
      <1>14, <1>15, <1>16, <1>17, <1>18, <1>19, <1>20, <1>21, <1>22, <1>23, <1>24, <1>25,
      <1>26, <1>27
  DEF Next, Run

(* No file is written while an entry is replayed.                          *)
LEMMA ReplayStep ==
    TypeOK /\ ReplayInv /\ [Next]_vars => ReplayInv'
<1>. SUFFICES ASSUME TypeOK, ReplayInv, [Next]_vars PROVE ReplayInv'
  OBVIOUS
<1>. USE LinksAssumption, NoResourceAssumption DEF TypeOK
<1>1. CASE NewBundle
  BY <1>1
  DEF ReplayInv, Config, UnitFiles, Notifiers, ServiceSteps, Key, bundle, node, journal,
      local, NewBundle, Event
<1>2. ASSUME NEW s \in Service, Dies(s) PROVE ReplayInv'
  BY <1>2
  DEF ReplayInv, Config, UnitFiles, Notifiers, ServiceSteps, Key, bundle, node, journal,
      local, Dies, Halt, Event
<1>3. CASE StartRun
  BY <1>3
  DEF ReplayInv, Config, UnitFiles, Notifiers, ServiceSteps, Key, bundle, node, journal,
      local, StartRun
<1>4. CASE EndReplay
  BY <1>4
  DEF ReplayInv, Config, UnitFiles, Notifiers, ServiceSteps, Key, bundle, node, journal,
      local, EndReplay, NoLocal, Strikes, Event
<1>5. CASE EvalError
  BY <1>5
  DEF ReplayInv, Config, UnitFiles, Notifiers, ServiceSteps, Key, bundle, node, journal,
      local, EvalError, NoLocal, Strikes, Event
<1>6. CASE ApplyDone
  BY <1>6
  DEF ReplayInv, Config, UnitFiles, Notifiers, ServiceSteps, Key, bundle, node, journal,
      local, ApplyDone
<1>7. ASSUME NEW f \in File, FileUnchanged(f) PROVE ReplayInv'
  BY <1>7, OnTurn
  DEF ReplayInv, Config, UnitFiles, Notifiers, ServiceSteps, Key, bundle, node, journal,
      local, FileUnchanged, Ready, Resource
<1>8. ASSUME NEW f \in File, FileWritten(f) PROVE ReplayInv'
  BY <1>8, OnTurn
  DEF ReplayInv, Config, UnitFiles, Notifiers, ServiceSteps, Key, bundle, node, journal,
      local, FileWritten, Ready, Resource
<1>9. ASSUME NEW f \in File, FileFails(f) PROVE ReplayInv'
  BY <1>9, OnTurn
  DEF ReplayInv, Config, UnitFiles, Notifiers, ServiceSteps, Key, bundle, node, journal,
      local, FileFails, Fail, Lose, Strikes, Event, Ready, Resource
<1>10. ASSUME NEW x \in Resource, Skip(x) PROVE ReplayInv'
  BY <1>10, OnTurn
  DEF ReplayInv, Config, UnitFiles, Notifiers, ServiceSteps, Key, bundle, node, journal,
      local, Skip, Lose, Resource
<1>11. ASSUME NEW s \in Service, DaemonReload(s) PROVE ReplayInv'
  BY <1>11, OnTurn
  DEF ReplayInv, Config, UnitFiles, Notifiers, ServiceSteps, Key, bundle, node, journal,
      local, DaemonReload, ServiceReady, Ready, Resource
<1>12. ASSUME NEW s \in Service, Unreachable(s) PROVE ReplayInv'
  BY <1>12, OnTurn
  DEF ReplayInv, Config, UnitFiles, Notifiers, ServiceSteps, Key, bundle, node, journal,
      local, Unreachable, ServiceReady, Ready, Lose, Strikes, Event, Resource
<1>13. ASSUME NEW s \in Service, DaemonReloadFails(s) PROVE ReplayInv'
  BY <1>13, OnTurn
  DEF ReplayInv, Config, UnitFiles, Notifiers, ServiceSteps, Key, bundle, node, journal,
      local, DaemonReloadFails, ServiceReady, Ready, Fail, Lose, Strikes, Event, Resource
<1>14. CASE Decide
  BY <1>14
  DEF ReplayInv, Config, UnitFiles, Notifiers, ServiceSteps, Key, bundle, node, journal,
      local, Decide, Leave, decide_action
<1>15. CASE StartService
  BY <1>15
  DEF ReplayInv, Config, UnitFiles, Notifiers, ServiceSteps, Key, bundle, node, journal,
      local, StartService, Spawn
<1>16. CASE Started
  BY <1>16
  DEF ReplayInv, Config, UnitFiles, Notifiers, ServiceSteps, Key, bundle, node, journal,
      local, Started, Leave
<1>17. CASE StopService
  BY <1>17
  DEF ReplayInv, Config, UnitFiles, Notifiers, ServiceSteps, Key, bundle, node, journal,
      local, StopService, Halt, Leave
<1>18. CASE Enqueue
  BY <1>18
  DEF ReplayInv, Config, UnitFiles, Notifiers, ServiceSteps, Key, bundle, node, journal,
      local, Enqueue, Leave, Journal!Accept, Journal!Insert, Entry
<1>19. CASE ServiceFails
  BY <1>19
  DEF ReplayInv, Config, UnitFiles, Notifiers, ServiceSteps, Key, bundle, node, journal,
      local, ServiceFails, Fail, Lose, Strikes, Event
<1>20. CASE ServiceUnavailable
  BY <1>20
  DEF ReplayInv, Config, UnitFiles, Notifiers, ServiceSteps, Key, bundle, node, journal,
      local, ServiceUnavailable, Leave, Lose, Strikes, Event
<1>21. ASSUME NEW k \in Key, Dispatch(k) PROVE ReplayInv'
  BY <1>21
  DEF ReplayInv, Config, UnitFiles, Notifiers, ServiceSteps, Key, bundle, node, journal,
      local, Dispatch, Replays, Spawn, Reread
<1>22. ASSUME NEW k \in Key, CheckPasses(k) PROVE ReplayInv'
  BY <1>22
  DEF ReplayInv, Config, UnitFiles, Notifiers, ServiceSteps, Key, bundle, node, journal,
      local, CheckPasses, Journal!Execute
<1>23. ASSUME NEW k \in Key, Remove(k) PROVE ReplayInv'
  BY <1>23
  DEF ReplayInv, Config, UnitFiles, Notifiers, ServiceSteps, Key, bundle, node, journal,
      local, Remove, Journal!Drop
<1>24. ASSUME NEW k \in Key, Refused(k) PROVE ReplayInv'
  BY <1>24
  DEF ReplayInv, Config, UnitFiles, Notifiers, ServiceSteps, Key, bundle, node, journal,
      local, Refused, Replays, Journal!Park
<1>25. CASE Crash
  BY <1>25
  DEF ReplayInv, Config, UnitFiles, Notifiers, ServiceSteps, Key, bundle, node, journal,
      local, Crash, NoLocal, Lose, Strikes, Event
<1>26. CASE Reboot
  BY <1>26
  DEF ReplayInv, Config, UnitFiles, Notifiers, ServiceSteps, Key, bundle, node, journal,
      local, Reboot, NoLocal, Strikes, Event, Journal!Clear
<1>27. CASE UNCHANGED vars
  BY <1>27
  DEF ReplayInv, Config, UnitFiles, Notifiers, ServiceSteps, Key, bundle, node, journal,
      local, vars
<1>. QED
  BY <1>1, <1>2, <1>3, <1>4, <1>5, <1>6, <1>7, <1>8, <1>9, <1>10, <1>11, <1>12, <1>13,
      <1>14, <1>15, <1>16, <1>17, <1>18, <1>19, <1>20, <1>21, <1>22, <1>23, <1>24, <1>25,
      <1>26, <1>27
  DEF Next, Run

(* No notification gets lost but where Lose says so.                       *)
LEMMA NotifyStep ==
    TypeOK /\ VisitInv /\ DecisionInv /\ ReplayInv /\ NotifyInv /\ [Next]_vars => NotifyInv'
<1>. SUFFICES ASSUME TypeOK, VisitInv, DecisionInv, ReplayInv, NotifyInv, [Next]_vars PROVE NotifyInv'
  OBVIOUS
<1>. USE LinksAssumption, NoResourceAssumption DEF TypeOK
<1>1. CASE NewBundle
  BY <1>1
  DEF NotifyInv, VisitInv, Asked, Config, UnitFiles, Notifiers, ServiceSteps, Key, bundle,
      node, journal, local, NewBundle, Event
<1>2. ASSUME NEW s \in Service, Dies(s) PROVE NotifyInv'
  BY <1>2
  DEF NotifyInv, VisitInv, Asked, Config, UnitFiles, Notifiers, ServiceSteps, Key, bundle,
      node, journal, local, Dies, Halt, Event
<1>3. CASE StartRun
  BY <1>3
  DEF NotifyInv, VisitInv, Asked, Config, UnitFiles, Notifiers, ServiceSteps, Key, bundle,
      node, journal, local, StartRun
<1>4. CASE EndReplay
  BY <1>4
  DEF NotifyInv, VisitInv, Asked, Config, UnitFiles, Notifiers, ServiceSteps, Key, bundle,
      node, journal, local, EndReplay, NoLocal, Strikes, Event, Resource
<1>5. CASE EvalError
  BY <1>5
  DEF NotifyInv, VisitInv, Asked, Config, UnitFiles, Notifiers, ServiceSteps, Key, bundle,
      node, journal, local, EvalError, NoLocal, Strikes, Event, Resource
<1>6. CASE ApplyDone
  BY <1>6
  DEF NotifyInv, VisitInv, Asked, Config, UnitFiles, Notifiers, ServiceSteps, Key, bundle,
      node, journal, local, ApplyDone
<1>7. ASSUME NEW f \in File, FileUnchanged(f) PROVE NotifyInv'
  BY <1>7, OnTurn
  DEF NotifyInv, VisitInv, Asked, Config, UnitFiles, Notifiers, ServiceSteps, Key, bundle,
      node, journal, local, FileUnchanged, Ready, Resource
<1>8. ASSUME NEW f \in File, FileWritten(f) PROVE NotifyInv'
  BY <1>8, OnTurn
  DEF NotifyInv, VisitInv, Asked, Config, UnitFiles, Notifiers, ServiceSteps, Key, bundle,
      node, journal, local, FileWritten, Ready, Resource
<1>9. ASSUME NEW f \in File, FileFails(f) PROVE NotifyInv'
  BY <1>9, OnTurn
  DEF NotifyInv, VisitInv, Asked, Config, UnitFiles, Notifiers, ServiceSteps, Key, bundle,
      node, journal, local, FileFails, Fail, Lose, Strikes, Event, Ready, Resource
<1>10. ASSUME NEW x \in Resource, Skip(x) PROVE NotifyInv'
  BY <1>10, OnTurn
  DEF NotifyInv, VisitInv, Asked, Config, UnitFiles, Notifiers, ServiceSteps, Key, bundle,
      node, journal, local, Skip, Lose, Resource, Sources
<1>11. ASSUME NEW s \in Service, DaemonReload(s) PROVE NotifyInv'
  BY <1>11, OnTurn
  DEF NotifyInv, VisitInv, Asked, Config, UnitFiles, Notifiers, ServiceSteps, Key, bundle,
      node, journal, local, DaemonReload, ServiceReady, Ready, Resource, Sources
<1>12. ASSUME NEW s \in Service, Unreachable(s) PROVE NotifyInv'
  BY <1>12, OnTurn
  DEF NotifyInv, VisitInv, Asked, Config, UnitFiles, Notifiers, ServiceSteps, Key, bundle,
      node, journal, local, Unreachable, ServiceReady, Ready, Lose, Strikes, Event, Resource,
      Sources
<1>13. ASSUME NEW s \in Service, DaemonReloadFails(s) PROVE NotifyInv'
  BY <1>13, OnTurn
  DEF NotifyInv, VisitInv, Asked, Config, UnitFiles, Notifiers, ServiceSteps, Key, bundle,
      node, journal, local, DaemonReloadFails, ServiceReady, Ready, Fail, Lose, Strikes,
      Event, Resource, Sources
<1>14. CASE Decide
  BY <1>14
  DEF NotifyInv, VisitInv, Asked, Config, UnitFiles, Notifiers, ServiceSteps, Key, bundle,
      node, journal, local, Decide, Leave, decide_action, decide_action
<1>15. CASE StartService
  BY <1>15
  DEF NotifyInv, VisitInv, Asked, Config, UnitFiles, Notifiers, ServiceSteps, Key, bundle,
      node, journal, local, StartService, Spawn
<1>16. CASE Started
  BY <1>16
  DEF NotifyInv, VisitInv, Asked, Config, UnitFiles, Notifiers, ServiceSteps, Key, bundle,
      node, journal, local, Started, Leave, DecisionInv
<1>17. CASE StopService
  BY <1>17
  DEF NotifyInv, VisitInv, Asked, Config, UnitFiles, Notifiers, ServiceSteps, Key, bundle,
      node, journal, local, StopService, Halt, Leave
<1>18. CASE Enqueue
  <2>. DEFINE new == Entry(cur, step)
  <2>1. /\ cur \in Service /\ step \in {"restart", "reload"}
        /\ new.unit = cur /\ new.action = step
    BY <1>18 DEF Enqueue, Entry, ServiceSteps
  <2>2. UNCHANGED <<active, stale, lost, changed, parked>> /\ todo' = todo \ {cur}
    BY <1>18 DEF Enqueue, Leave, node, Journal!Accept
  <2>3. \E j \in queue' : Covers(j, new)
    BY <1>18, <2>1 DEF Enqueue, Journal!Accept, Journal!Insert, Covers
  <2>4. \A k \in queue : k \in queue' \/ Covers(new, k)
    BY <1>18, <2>1 DEF Enqueue, Journal!Accept, Journal!Insert, Covers
  <2>5. ASSUME NEW s \in active', NEW f \in Config(s)', ~(f \in lost[s])'
        PROVE Asked(s, f)' \/ (f \in changed /\ s \in todo)'
    <3>1. s \in active /\ f \in Config(s) /\ f \notin lost[s]
      BY <2>2, <2>5 DEF Config
    <3>2. CASE Asked(s, f)
      BY <2>1, <2>2, <2>3, <2>4, <3>2 DEF Asked, Covers
    <3>3. CASE f \in changed /\ s \in todo
      <4>1. CASE s = cur
        BY <2>1, <2>3, <3>3, <4>1 DEF Asked, Covers, DecisionInv
      <4>2. CASE s # cur
        BY <2>2, <3>3, <4>2
      <4>. QED
        BY <4>1, <4>2
    <3>. QED
      BY <3>1, <3>2, <3>3 DEF NotifyInv
  <2>. QED
    BY <2>5 DEF NotifyInv
<1>19. CASE ServiceFails
  BY <1>19
  DEF NotifyInv, VisitInv, Asked, Config, UnitFiles, Notifiers, ServiceSteps, Key, bundle,
      node, journal, local, ServiceFails, Fail, Lose, Strikes, Event
<1>20. CASE ServiceUnavailable
  BY <1>20
  DEF NotifyInv, VisitInv, Asked, Config, UnitFiles, Notifiers, ServiceSteps, Key, bundle,
      node, journal, local, ServiceUnavailable, Leave, Lose, Strikes, Event
<1>21. ASSUME NEW k \in Key, Dispatch(k) PROVE NotifyInv'
  BY <1>21
  DEF NotifyInv, VisitInv, Asked, Config, UnitFiles, Notifiers, ServiceSteps, Key, bundle,
      node, journal, local, Dispatch, Replays, Spawn, Reread
<1>22. ASSUME NEW k \in Key, CheckPasses(k) PROVE NotifyInv'
  BY <1>22
  DEF NotifyInv, VisitInv, Asked, Config, UnitFiles, Notifiers, ServiceSteps, Key, bundle,
      node, journal, local, CheckPasses, Journal!Execute
<1>23. ASSUME NEW k \in Key, Remove(k) PROVE NotifyInv'
  BY <1>23
  DEF NotifyInv, VisitInv, Asked, Config, UnitFiles, Notifiers, ServiceSteps, Key, bundle,
      node, journal, local, Remove, Journal!Drop, ReplayInv
<1>24. ASSUME NEW k \in Key, Refused(k) PROVE NotifyInv'
  BY <1>24
  DEF NotifyInv, VisitInv, Asked, Config, UnitFiles, Notifiers, ServiceSteps, Key, bundle,
      node, journal, local, Refused, Replays, Journal!Park
<1>25. CASE Crash
  BY <1>25
  DEF NotifyInv, VisitInv, Asked, Config, UnitFiles, Notifiers, ServiceSteps, Key, bundle,
      node, journal, local, Crash, NoLocal, Lose, Strikes, Event
<1>26. CASE Reboot
  BY <1>26
  DEF NotifyInv, VisitInv, Asked, Config, UnitFiles, Notifiers, ServiceSteps, Key, bundle,
      node, journal, local, Reboot, NoLocal, Strikes, Event, Journal!Clear
<1>27. CASE UNCHANGED vars
  BY <1>27
  DEF NotifyInv, VisitInv, Asked, Config, UnitFiles, Notifiers, ServiceSteps, Key, bundle,
      node, journal, local, vars
<1>. QED
  BY <1>1, <1>2, <1>3, <1>4, <1>5, <1>6, <1>7, <1>8, <1>9, <1>10, <1>11, <1>12, <1>13,
      <1>14, <1>15, <1>16, <1>17, <1>18, <1>19, <1>20, <1>21, <1>22, <1>23, <1>24, <1>25,
      <1>26, <1>27
  DEF Next, Run

(* A service that runs on an older configuration than the one on disk has  *)
(* an entry in the journal that makes up for it, whatever happened to      *)
(* bosun, to the service and to the node, except when the run that wrote   *)
(* the file never enqueued the action.                                     *)
THEOREM ConvergenceNotify == Spec => []NotifyKept
<1>. DEFINE IInv == TypeOK /\ VisitInv /\ DecisionInv /\ ReplayInv /\ NotifyInv
<1>1. Init => VisitInv /\ DecisionInv /\ ReplayInv /\ NotifyInv
  BY DEF Init, VisitInv, DecisionInv, ReplayInv, NotifyInv
<1>2. IInv /\ [Next]_vars => IInv'
  BY TypeStep, VisitStep, DecisionStep, ReplayStep, NotifyStep
<1>3. IInv => NotifyKept
  BY DEF VisitInv, NotifyInv, NotifyKept
<1>. QED
  BY <1>1, <1>2, <1>3, ConvergenceTypes, PTL
  DEF Spec

-----------------------------------------------------------------------------
(* The end of a run.                                                       *)

(* How far a run is: in the visit of a service, in the replay of an entry. *)
StepsOn == [check |-> 7, remove |-> 6, next |-> 5, query |-> 4, start |-> 3, probe |-> 2,
            stop |-> 1, restart |-> 1, reload |-> 1]

(* What is left of a run: for each part the entries and the resources it   *)
(* has still to visit, and for an earlier part all that a later one may    *)
(* come to visit.                                                          *)
LaterParts(p) ==
    CASE p = "post" -> 1
      [] p = "apply" -> 7 * Cardinality(Key) + 10
      [] OTHER -> 7 * Cardinality(Key) + 7 * Cardinality(Resource) + 20
RunWork ==
    IF phase = "off" THEN 0
    ELSE LaterParts(phase) + 7 * Cardinality(todo) + 7 * Cardinality(entries) + StepsOn[step]

(* There are two entries for each service.                                 *)
LEMMA KeysFinite == ASSUME IsFiniteSet(Service) PROVE IsFiniteSet(Key)
<1>1. ASSUME NEW a \in {"restart", "reload"} PROVE IsFiniteSet({Entry(s, a) : s \in Service})
  <2>. DEFINE T == {Entry(s, a) : s \in Service}
              f == [s \in Service |-> Entry(s, a)]
  <2>1. f \in [Service -> T] /\ \A t \in T : \E s \in Service : f[s] = t
    OBVIOUS
  <2>2. f \in Surjection(Service, T)
    BY <2>1 DEF Surjection
  <2>. QED BY <2>2, FS_Surjection
<1>2. Key = {Entry(s, "restart") : s \in Service} \cup {Entry(s, "reload") : s \in Service}
  <2>1. ASSUME NEW k \in Key PROVE k \in {Entry(s, "restart") : s \in Service} \cup {Entry(s, "reload") : s \in Service}
    <3>1. k = Entry(k.unit, k.action) /\ k.unit \in Service /\ k.action \in {"restart", "reload"}
      BY <2>1 DEF Key, Entry
    <3>. QED BY <3>1
  <2>2. ASSUME NEW s \in Service PROVE Entry(s, "restart") \in Key /\ Entry(s, "reload") \in Key
    BY DEF Key, Entry
  <2>. QED BY <2>1, <2>2
<1>. QED BY <1>1, <1>2, FS_Union

(* The work of each part is a natural number.                              *)
LEMMA RunWorkParts ==
    ASSUME IsFiniteSet(File), IsFiniteSet(Service)
    PROVE  /\ Cardinality(Key) \in Nat /\ Cardinality(Resource) \in Nat
           /\ \A E \in SUBSET Key : Cardinality(E) \in 0..Cardinality(Key)
           /\ \A R \in SUBSET Resource : Cardinality(R) \in 0..Cardinality(Resource)
           /\ \A S, T : (S \subseteq Key \/ S \subseteq Resource) /\ T \subseteq S
                           => Cardinality(T) <= Cardinality(S) /\ (T # S => Cardinality(T) < Cardinality(S))
<1>1. IsFiniteSet(Key) /\ IsFiniteSet(Resource)
  BY KeysFinite, FS_Union DEF Resource
<1>2. ASSUME NEW S, IsFiniteSet(S), NEW T \in SUBSET S
      PROVE  Cardinality(T) \in Nat /\ Cardinality(S) \in Nat /\ Cardinality(T) <= Cardinality(S)
             /\ (T # S => Cardinality(T) < Cardinality(S))
  BY <1>2, FS_Subset, FS_CardinalityType
<1>3. \A S : (S \subseteq Key \/ S \subseteq Resource) => IsFiniteSet(S)
  BY <1>1, FS_Subset
<1>4. \A E \in SUBSET Key : Cardinality(E) \in 0..Cardinality(Key)
  BY <1>1, <1>2
<1>5. \A R \in SUBSET Resource : Cardinality(R) \in 0..Cardinality(Resource)
  BY <1>1, <1>2
<1>. QED BY <1>1, <1>2, <1>3, <1>4, <1>5, FS_CardinalityType

(* A step within one part visits something or takes the visit further.     *)
LEMMA WithinPart ==
    ASSUME IsFiniteSet(File), IsFiniteSet(Service), TypeOK, phase # "off", phase' = phase, step' \in Steps,
           todo' \subseteq todo, entries' \subseteq entries,
           todo' # todo \/ entries' # entries \/ StepsOn[step'] < StepsOn[step]
    PROVE  RunWork' < RunWork /\ RunWork' \in Nat
<1>1. LaterParts(phase) \in Nat
  BY RunWorkParts DEF LaterParts
<1>2. StepsOn[step] \in 1..7 /\ StepsOn[step'] \in 1..7
  BY DEF TypeOK, Steps, ServiceSteps, StepsOn
<1>3. /\ Cardinality(todo) \in Nat /\ Cardinality(todo') \in Nat
      /\ Cardinality(entries) \in Nat /\ Cardinality(entries') \in Nat
  BY RunWorkParts DEF TypeOK
<1>4. /\ Cardinality(todo') <= Cardinality(todo) /\ (todo' # todo => Cardinality(todo') < Cardinality(todo))
      /\ Cardinality(entries') <= Cardinality(entries)
      /\ (entries' # entries => Cardinality(entries') < Cardinality(entries))
  BY RunWorkParts DEF TypeOK
<1>5. /\ RunWork = LaterParts(phase) + 7 * Cardinality(todo) + 7 * Cardinality(entries) + StepsOn[step]
      /\ RunWork' = LaterParts(phase) + 7 * Cardinality(todo') + 7 * Cardinality(entries') + StepsOn[step']
  BY DEF RunWork, LaterParts
<1>. QED BY <1>1, <1>2, <1>3, <1>4, <1>5

(* A part is followed by one that has at most as much to visit as was      *)
(* counted for it, or by the end of the run.                               *)
LEMMA NextPart ==
    ASSUME IsFiniteSet(File), IsFiniteSet(Service), TypeOK, TypeOK', phase # "off",
           \/ phase = "pre" /\ phase' = "apply" /\ entries' = {}
           \/ phase = "apply" /\ phase' = "post" /\ todo' = {}
           \/ phase' = "off",
           step' = "next"
    PROVE  RunWork' < RunWork /\ RunWork' \in Nat
<1>1. StepsOn[step] \in 1..7 /\ StepsOn[step'] = 5
  BY DEF TypeOK, Steps, ServiceSteps, StepsOn
<1>2. /\ Cardinality(Key) \in Nat /\ Cardinality(Resource) \in Nat
      /\ Cardinality(todo) \in Nat /\ Cardinality(entries) \in Nat
      /\ Cardinality(todo') \in 0..Cardinality(Resource) /\ Cardinality(entries') \in 0..Cardinality(Key)
  BY RunWorkParts DEF TypeOK
<1>3. Cardinality({}) = 0
  BY FS_EmptySet
<1>. DEFINE K == Cardinality(Key)
            R == Cardinality(Resource)
            t == Cardinality(todo)
            e == Cardinality(entries)
<1>4. RunWork = LaterParts(phase) + 7 * t + 7 * e + StepsOn[step]
  BY DEF RunWork
<1>5. CASE phase = "pre" /\ phase' = "apply" /\ entries' = {}
  <2>1. RunWork = 7 * K + 7 * R + 20 + 7 * t + 7 * e + StepsOn[step]
    BY <1>4, <1>5 DEF LaterParts
  <2>2. RunWork' = 7 * K + 10 + 7 * Cardinality(todo') + 7 * 0 + 5
    BY <1>1, <1>3, <1>5 DEF RunWork, LaterParts
  <2>. HIDE DEF K, R, t, e
  <2>. QED BY <1>1, <1>2, <2>1, <2>2 DEF K, R, t, e
<1>6. CASE phase = "apply" /\ phase' = "post" /\ todo' = {}
  <2>1. RunWork = 7 * K + 10 + 7 * t + 7 * e + StepsOn[step]
    BY <1>4, <1>6 DEF LaterParts
  <2>2. RunWork' = 1 + 7 * 0 + 7 * Cardinality(entries') + 5
    BY <1>1, <1>3, <1>6 DEF RunWork, LaterParts
  <2>. QED BY <1>1, <1>2, <2>1, <2>2
<1>7. CASE phase' = "off"
  <2>1. RunWork' = 0
    BY <1>7 DEF RunWork
  <2>2. LaterParts(phase) \in Nat
    BY <1>2 DEF LaterParts
  <2>. QED BY <1>1, <1>2, <1>4, <2>1, <2>2
<1>. QED BY <1>5, <1>6, <1>7

(* Each step of a run, by what it leaves to visit.                         *)
LEMMA RunSteps ==
    ASSUME TypeOK, VisitInv, phase # "off", Run \/ Crash
    PROVE  \/ /\ phase' = phase /\ step' \in Steps /\ todo' \subseteq todo /\ entries' \subseteq entries
              /\ todo' # todo \/ entries' # entries \/ StepsOn[step'] < StepsOn[step]
           \/ /\ step' = "next"
              /\ \/ phase = "pre" /\ phase' = "apply" /\ entries' = {}
                 \/ phase = "apply" /\ phase' = "post" /\ todo' = {}
                 \/ phase' = "off"
<1>. DEFINE Within == /\ phase' = phase /\ step' \in Steps /\ todo' \subseteq todo /\ entries' \subseteq entries
                      /\ todo' # todo \/ entries' # entries \/ StepsOn[step'] < StepsOn[step]
            Part == /\ step' = "next"
                    /\ \/ phase = "pre" /\ phase' = "apply" /\ entries' = {}
                       \/ phase = "apply" /\ phase' = "post" /\ todo' = {}
                       \/ phase' = "off"
<1>. SUFFICES Within \/ Part
  OBVIOUS
<1>1. ASSUME StartRun \/ EndReplay \/ EvalError \/ ApplyDone \/ Crash PROVE Part
  BY <1>1 DEF StartRun, EndReplay, EvalError, ApplyDone, Crash, NoLocal
<1>2. ASSUME NEW f \in File, FileUnchanged(f) \/ FileWritten(f) \/ FileFails(f) PROVE Within
  BY <1>2, OnTurn
  DEF FileUnchanged, FileWritten, FileFails, Fail, Steps, Ready, Resource
<1>3. ASSUME NEW s \in Service, Unreachable(s) \/ DaemonReloadFails(s) PROVE Within
  BY <1>3, OnTurn
  DEF Skip, Unreachable, DaemonReloadFails, ServiceReady, Ready, Fail, Steps, Resource
<1>4. ASSUME NEW s \in Service, DaemonReload(s) PROVE Within
  BY <1>4, OnTurn
  DEF DaemonReload, ServiceReady, Ready, Steps, ServiceSteps, StepsOn, Resource
<1>5. step \in ServiceSteps => cur \in todo
  BY DEF TypeOK, VisitInv
<1>6. ASSUME step \in ServiceSteps, todo' = todo \ {cur}, UNCHANGED <<phase, entries>>, step' = "next" PROVE Within
  BY <1>5, <1>6 DEF Steps
<1>7. CASE Decide
  <2>1. decide_action(cur) \in {"start", "restart", "reload", "stop", "next"}
    BY DEF decide_action
  <2>2. CASE decide_action(cur) = "next"
    BY <1>6, <1>7, <2>2 DEF Decide, Leave, ServiceSteps
  <2>3. CASE decide_action(cur) # "next"
    BY <1>7, <2>1, <2>3 DEF Decide, Steps, ServiceSteps, StepsOn
  <2>. QED BY <2>2, <2>3
<1>8. CASE StartService
  BY <1>8 DEF StartService, Steps, ServiceSteps, StepsOn
<1>9. CASE Started \/ StopService \/ Enqueue \/ ServiceUnavailable
  BY <1>6, <1>9 DEF Started, StopService, Enqueue, ServiceUnavailable, Leave, ServiceSteps
<1>10. CASE ServiceFails
  BY <1>5, <1>10 DEF ServiceFails, Fail, Steps
<1>11. ASSUME NEW k \in Key, Dispatch(k) \/ CheckPasses(k) \/ Remove(k) PROVE Within
  BY <1>11 DEF Dispatch, CheckPasses, Remove, Replays, Steps, StepsOn
<1>12. ASSUME NEW k \in Key, Refused(k) PROVE Within
  BY <1>12 DEF Refused, Replays, Steps, StepsOn
<1>13. ASSUME NEW x \in Resource, Skip(x) PROVE Within
  BY <1>13, OnTurn DEF Skip, Steps
<1>. QED BY <1>1, <1>2, <1>3, <1>4, <1>7, <1>8, <1>9, <1>10, <1>11, <1>12, <1>13 DEF Run

(* Every run of bosun apply comes to its end: whatever fails, cannot be    *)
(* reached, is killed or dies meanwhile, and whoever accepts or drops      *)
(* entries, each of its steps leaves it less to do, from the first replay  *)
(* through the resources to the second one.                                *)
THEOREM ConvergenceRunEnds ==
    ASSUME IsFiniteSet(File), IsFiniteSet(Service)
    PROVE  Spec => [][phase # "off" /\ (Run \/ Crash) => RunWork' < RunWork /\ RunWork' \in Nat]_vars
<1>1. Init => VisitInv
  BY DEF Init, VisitInv
<1>2. TypeOK /\ VisitInv /\ [Next]_vars => VisitInv'
  BY VisitStep
<1>3. TypeOK /\ TypeOK' /\ VisitInv /\ [Next]_vars
        => [phase # "off" /\ (Run \/ Crash) => RunWork' < RunWork /\ RunWork' \in Nat]_vars
  BY RunSteps, WithinPart, NextPart
<1>. QED BY <1>1, <1>2, <1>3, ConvergenceTypes, PTL DEF Spec
=============================================================================
