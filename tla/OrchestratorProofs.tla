-------------------------- MODULE OrchestratorProofs --------------------------
(***************************************************************************)
(* Proofs of the safety properties of Orchestrator::apply for every        *)
(* manifest, every option and every behaviour of the primitives.           *)
(***************************************************************************)
EXTENDS Orchestrator, Integers, FiniteSetTheorems, TLAPS

(* Every step keeps the types.                                             *)
LEMMA TypeStep ==
  ASSUME TypeOK, [Next]_vars
  PROVE  TypeOK'
<1> USE NoIdAssumption DEF TypeOK, Outcome, PlanResult
<1>1. ASSUME NEW r \in Resource, PacerCancelled(r) PROVE TypeOK'
  BY <1>1 DEF PacerCancelled, Report, MarkFailed, AbortUnlessContinue,
     Ready, Proceeds, Visited, input, Options
<1>2. ASSUME NEW r \in Resource, SkipAborted(r) PROVE TypeOK'
  BY <1>2 DEF SkipAborted, Report, MarkFailed, AbortUnlessContinue, Ready,
     Proceeds, Visited, input, Options
<1>3. ASSUME NEW r \in Resource, SkipDependency(r) PROVE TypeOK'
  BY <1>3 DEF SkipDependency, Report, MarkFailed, AbortUnlessContinue,
     Ready, Proceeds, Visited, input, Options
<1>4. ASSUME NEW r \in Resource, NoPrimitive(r) PROVE TypeOK'
  BY <1>4 DEF NoPrimitive, Report, MarkFailed, AbortUnlessContinue, Ready,
     Proceeds, Visited, input, Options
<1>5. ASSUME NEW r \in Resource, BeginPlan(r) PROVE TypeOK'
  BY <1>5 DEF BeginPlan, Report, MarkFailed, AbortUnlessContinue, Ready,
     Proceeds, Visited, input, Options
<1>6. ASSUME NEW r \in Resource, PlanOnly(r) PROVE TypeOK'
  BY <1>6 DEF PlanOnly, Report, MarkFailed, AbortUnlessContinue, Ready,
     Proceeds, Visited, input, Options
<1>7. CASE PlanNoChange
  BY <1>7 DEF PlanNoChange, Report, MarkFailed, AbortUnlessContinue, Ready,
     Proceeds, Visited, input, Options
<1>8. CASE PlanChange
  BY <1>8 DEF PlanChange, Report, MarkFailed, AbortUnlessContinue, Ready,
     Proceeds, Visited, input, Options
<1>9. CASE PlanCancelled
  BY <1>9 DEF PlanCancelled, Report, MarkFailed, AbortUnlessContinue, Ready,
     Proceeds, Visited, input, Options
<1>10. CASE PlanError
  BY <1>10 DEF PlanError, Report, MarkFailed, AbortUnlessContinue, Ready,
     Proceeds, Visited, input, Options
<1>11. CASE ApplyChanged
  BY <1>11 DEF ApplyChanged, Report, MarkFailed, AbortUnlessContinue, Ready,
     Proceeds, Visited, input, Options
<1>12. CASE ApplyNoChange
  BY <1>12 DEF ApplyNoChange, Report, MarkFailed, AbortUnlessContinue,
     Ready, Proceeds, Visited, input, Options
<1>13. CASE ApplyDeferred
  BY <1>13 DEF ApplyDeferred, Report, MarkFailed, AbortUnlessContinue,
     Ready, Proceeds, Visited, input, Options
<1>14. CASE ApplyCancelled
  BY <1>14 DEF ApplyCancelled, Report, MarkFailed, AbortUnlessContinue,
     Ready, Proceeds, Visited, input, Options
<1>15. CASE ApplyError
  BY <1>15 DEF ApplyError, Report, MarkFailed, AbortUnlessContinue, Ready,
     Proceeds, Visited, input, Options
<1>16. CASE Signal
  BY <1>16 DEF Signal, Report, MarkFailed, AbortUnlessContinue, Ready,
     Proceeds, Visited, input, Options
<1>17. CASE Deadline
  BY <1>17 DEF Deadline, Report, MarkFailed, AbortUnlessContinue, Ready,
     Proceeds, Visited, input, Options
<1>18. CASE UNCHANGED vars
  BY <1>18 DEF vars, Report, MarkFailed, AbortUnlessContinue, Ready,
     Proceeds, Visited, input, Options
<1> QED
  BY <1>1, <1>2, <1>3, <1>4, <1>5, <1>6, <1>7, <1>8, <1>9, <1>10, <1>11,
     <1>12, <1>13, <1>14, <1>15, <1>16, <1>17, <1>18 DEF Next, Loop, Visit,
     PlanReturns, ApplyReturns

(* A dry run stays one; nothing but plan_only writes a plan result.        *)
LEMMA ModeStep ==
  ASSUME TypeOK, ModeInv, [Next]_vars
  PROVE  ModeInv'
<1> USE NoIdAssumption DEF TypeOK, Outcome, PlanResult, ModeInv
<1>1. ASSUME NEW r \in Resource, PacerCancelled(r) PROVE ModeInv'
  BY <1>1 DEF PacerCancelled, Report, Ready, Proceeds, Visited, input,
     Options
<1>2. ASSUME NEW r \in Resource, SkipAborted(r) PROVE ModeInv'
  BY <1>2 DEF SkipAborted, Report, Ready, Proceeds, Visited, input, Options
<1>3. ASSUME NEW r \in Resource, SkipDependency(r) PROVE ModeInv'
  BY <1>3 DEF SkipDependency, Report, Ready, Proceeds, Visited, input,
     Options
<1>4. ASSUME NEW r \in Resource, NoPrimitive(r) PROVE ModeInv'
  BY <1>4 DEF NoPrimitive, Report, Ready, Proceeds, Visited, input, Options
<1>5. ASSUME NEW r \in Resource, BeginPlan(r) PROVE ModeInv'
  BY <1>5 DEF BeginPlan, Report, Ready, Proceeds, Visited, input, Options
<1>6. ASSUME NEW r \in Resource, PlanOnly(r) PROVE ModeInv'
  BY <1>6 DEF PlanOnly, Report, Ready, Proceeds, Visited, input, Options
<1>7. CASE PlanNoChange
  BY <1>7 DEF PlanNoChange, Report, Ready, Proceeds, Visited, input, Options
<1>8. CASE PlanChange
  BY <1>8 DEF PlanChange, Report, Ready, Proceeds, Visited, input, Options
<1>9. CASE PlanCancelled
  BY <1>9 DEF PlanCancelled, Report, Ready, Proceeds, Visited, input,
     Options
<1>10. CASE PlanError
  BY <1>10 DEF PlanError, Report, Ready, Proceeds, Visited, input, Options
<1>11. CASE ApplyChanged
  BY <1>11 DEF ApplyChanged, Report, Ready, Proceeds, Visited, input,
     Options
<1>12. CASE ApplyNoChange
  BY <1>12 DEF ApplyNoChange, Report, Ready, Proceeds, Visited, input,
     Options
<1>13. CASE ApplyDeferred
  BY <1>13 DEF ApplyDeferred, Report, Ready, Proceeds, Visited, input,
     Options
<1>14. CASE ApplyCancelled
  BY <1>14 DEF ApplyCancelled, Report, Ready, Proceeds, Visited, input,
     Options
<1>15. CASE ApplyError
  BY <1>15 DEF ApplyError, Report, Ready, Proceeds, Visited, input, Options
<1>16. CASE Signal
  BY <1>16 DEF Signal, Report, Ready, Proceeds, Visited, input, Options
<1>17. CASE Deadline
  BY <1>17 DEF Deadline, Report, Ready, Proceeds, Visited, input, Options
<1>18. CASE UNCHANGED vars
  BY <1>18 DEF vars, Report, Ready, Proceeds, Visited, input, Options
<1> QED
  BY <1>1, <1>2, <1>3, <1>4, <1>5, <1>6, <1>7, <1>8, <1>9, <1>10, <1>11,
     <1>12, <1>13, <1>14, <1>15, <1>16, <1>17, <1>18 DEF Next, Loop, Visit,
     PlanReturns, ApplyReturns

(* What is worked on is ready when it is begun, and its sources keep their *)
(* verdicts.                                                               *)
LEMMA OrderStep ==
  ASSUME TypeOK, OrderInv, [Next]_vars
  PROVE  OrderInv'
<1> USE NoIdAssumption DEF TypeOK, Outcome, PlanResult, OrderInv
<1>1. ASSUME NEW r \in Resource, PacerCancelled(r) PROVE OrderInv'
  BY <1>1 DEF PacerCancelled, Report, MarkFailed, AbortUnlessContinue,
     Ready, Proceeds, Visited, Sources, input
<1>2. ASSUME NEW r \in Resource, SkipAborted(r) PROVE OrderInv'
  BY <1>2 DEF SkipAborted, Report, MarkFailed, AbortUnlessContinue, Ready,
     Proceeds, Visited, Sources, input
<1>3. ASSUME NEW r \in Resource, SkipDependency(r) PROVE OrderInv'
  BY <1>3 DEF SkipDependency, Report, MarkFailed, AbortUnlessContinue,
     Ready, Proceeds, Visited, Sources, input
<1>4. ASSUME NEW r \in Resource, NoPrimitive(r) PROVE OrderInv'
  BY <1>4 DEF NoPrimitive, Report, MarkFailed, AbortUnlessContinue, Ready,
     Proceeds, Visited, Sources, input
<1>5. ASSUME NEW r \in Resource, BeginPlan(r) PROVE OrderInv'
  BY <1>5 DEF BeginPlan, Report, MarkFailed, AbortUnlessContinue, Ready,
     Proceeds, Visited, Sources, input
<1>6. ASSUME NEW r \in Resource, PlanOnly(r) PROVE OrderInv'
  BY <1>6 DEF PlanOnly, Report, MarkFailed, AbortUnlessContinue, Ready,
     Proceeds, Visited, Sources, input
<1>7. CASE PlanNoChange
  BY <1>7 DEF PlanNoChange, Report, MarkFailed, AbortUnlessContinue, Ready,
     Proceeds, Visited, Sources, input
<1>8. CASE PlanChange
  BY <1>8 DEF PlanChange, Report, MarkFailed, AbortUnlessContinue, Ready,
     Proceeds, Visited, Sources, input
<1>9. CASE PlanCancelled
  BY <1>9 DEF PlanCancelled, Report, MarkFailed, AbortUnlessContinue, Ready,
     Proceeds, Visited, Sources, input
<1>10. CASE PlanError
  BY <1>10 DEF PlanError, Report, MarkFailed, AbortUnlessContinue, Ready,
     Proceeds, Visited, Sources, input
<1>11. CASE ApplyChanged
  BY <1>11 DEF ApplyChanged, Report, MarkFailed, AbortUnlessContinue, Ready,
     Proceeds, Visited, Sources, input
<1>12. CASE ApplyNoChange
  BY <1>12 DEF ApplyNoChange, Report, MarkFailed, AbortUnlessContinue,
     Ready, Proceeds, Visited, Sources, input
<1>13. CASE ApplyDeferred
  BY <1>13 DEF ApplyDeferred, Report, MarkFailed, AbortUnlessContinue,
     Ready, Proceeds, Visited, Sources, input
<1>14. CASE ApplyCancelled
  BY <1>14 DEF ApplyCancelled, Report, MarkFailed, AbortUnlessContinue,
     Ready, Proceeds, Visited, Sources, input
<1>15. CASE ApplyError
  BY <1>15 DEF ApplyError, Report, MarkFailed, AbortUnlessContinue, Ready,
     Proceeds, Visited, Sources, input
<1>16. CASE Signal
  BY <1>16 DEF Signal, Report, MarkFailed, AbortUnlessContinue, Ready,
     Proceeds, Visited, Sources, input
<1>17. CASE Deadline
  BY <1>17 DEF Deadline, Report, MarkFailed, AbortUnlessContinue, Ready,
     Proceeds, Visited, Sources, input
<1>18. CASE UNCHANGED vars
  BY <1>18 DEF vars, Report, MarkFailed, AbortUnlessContinue, Ready,
     Proceeds, Visited, Sources, input
<1> QED
  BY <1>1, <1>2, <1>3, <1>4, <1>5, <1>6, <1>7, <1>8, <1>9, <1>10, <1>11,
     <1>12, <1>13, <1>14, <1>15, <1>16, <1>17, <1>18 DEF Next, Loop, Visit,
     PlanReturns, ApplyReturns

(* A failure is recorded, and stops the run unless --continue-on-error.    *)
LEMMA FailureReport ==
  ASSUME TypeOK, ReportInv, NEW r \in Resource, outcome[r] = "none",
         outcome' = [outcome EXCEPT ![r] = "failed"],
         MarkFailed(r), AbortUnlessContinue, UNCHANGED <<opts, changed>>
  PROVE  ReportInv'
<1> USE DEF TypeOK, ReportInv, MarkFailed, AbortUnlessContinue
<1>1. \A q \in Resource : outcome'[q] = IF q = r THEN "failed" ELSE outcome[q]
  OBVIOUS
<1>2. Stopped' = Stopped \cup {r}
  BY <1>1 DEF Stopped
<1>3. Fatal' <=> Fatal \/ ~opts.continue_on_error
  BY <1>1, <1>2 DEF Fatal, Stopped
<1>4. aborted' <=> Fatal'
  BY <1>3
<1>5. Stopped' \subseteq failed' /\ \A q \in failed' : outcome'[q] \in {"failed", "interrupted", "skipped"}
  BY <1>1, <1>2
<1>6. \A q \in Resource : outcome'[q] = "skipped" => q \in failed' \/ aborted'
  BY <1>1
<1>7. changed' = {q \in Resource : outcome'[q] = "changed"}
  BY <1>1
<1> QED BY <1>4, <1>5, <1>6, <1>7

(* Every verdict updates the loop's variables accordingly.                 *)
LEMMA ReportStep ==
  ASSUME TypeOK, ModeInv, OrderInv, ReportInv, [Next]_vars
  PROVE  ReportInv'
<1> USE NoIdAssumption DEF TypeOK, Outcome, PlanResult, ReportInv, Options
<1>1. ASSUME NEW r \in Resource, PacerCancelled(r) PROVE ReportInv'
  BY <1>1 DEF PacerCancelled, Report, MarkFailed, AbortUnlessContinue,
     Ready, Proceeds, Visited, Stopped, Fatal, input, OrderInv, ModeInv
<1>2. ASSUME NEW r \in Resource, SkipAborted(r) PROVE ReportInv'
  BY <1>2 DEF SkipAborted, Report, MarkFailed, AbortUnlessContinue, Ready,
     Proceeds, Visited, Stopped, Fatal, input, OrderInv, ModeInv
<1>3. ASSUME NEW r \in Resource, SkipDependency(r) PROVE ReportInv'
  BY <1>3 DEF SkipDependency, Report, MarkFailed, AbortUnlessContinue,
     Ready, Proceeds, Visited, Stopped, Fatal, input, OrderInv, ModeInv
<1>4. ASSUME NEW r \in Resource, NoPrimitive(r) PROVE ReportInv'
  BY <1>4, FailureReport DEF NoPrimitive, Report, Ready, Proceeds, Visited, input
<1>5. ASSUME NEW r \in Resource, BeginPlan(r) PROVE ReportInv'
  BY <1>5 DEF BeginPlan, Report, MarkFailed, AbortUnlessContinue, Ready,
     Proceeds, Visited, Stopped, Fatal, input, OrderInv, ModeInv
<1>6. ASSUME NEW r \in Resource, PlanOnly(r) PROVE ReportInv'
  BY <1>6 DEF PlanOnly, Report, MarkFailed, AbortUnlessContinue, Ready,
     Proceeds, Visited, Stopped, Fatal, input, OrderInv, ModeInv
<1>7. CASE PlanNoChange
  BY <1>7 DEF PlanNoChange, Report, MarkFailed, AbortUnlessContinue, Ready,
     Proceeds, Visited, Stopped, Fatal, input, OrderInv, ModeInv
<1>8. CASE PlanChange
  BY <1>8 DEF PlanChange, Report, MarkFailed, AbortUnlessContinue, Ready,
     Proceeds, Visited, Stopped, Fatal, input, OrderInv, ModeInv
<1>9. CASE PlanCancelled
  BY <1>9 DEF PlanCancelled, Report, MarkFailed, AbortUnlessContinue, Ready,
     Proceeds, Visited, Stopped, Fatal, input, OrderInv, ModeInv
<1>10. CASE PlanError
  BY <1>10, FailureReport DEF PlanError, Report, input
<1>11. CASE ApplyChanged
  BY <1>11 DEF ApplyChanged, Report, MarkFailed, AbortUnlessContinue, Ready,
     Proceeds, Visited, Stopped, Fatal, input, OrderInv, ModeInv
<1>12. CASE ApplyNoChange
  BY <1>12 DEF ApplyNoChange, Report, MarkFailed, AbortUnlessContinue,
     Ready, Proceeds, Visited, Stopped, Fatal, input, OrderInv, ModeInv
<1>13. CASE ApplyDeferred
  BY <1>13 DEF ApplyDeferred, Report, MarkFailed, AbortUnlessContinue,
     Ready, Proceeds, Visited, Stopped, Fatal, input, OrderInv, ModeInv
<1>14. CASE ApplyCancelled
  BY <1>14 DEF ApplyCancelled, Report, MarkFailed, AbortUnlessContinue,
     Ready, Proceeds, Visited, Stopped, Fatal, input, OrderInv, ModeInv
<1>15. CASE ApplyError
  BY <1>15, FailureReport DEF ApplyError, Report, input
<1>16. CASE Signal
  BY <1>16 DEF Signal, Report, MarkFailed, AbortUnlessContinue, Ready,
     Proceeds, Visited, Stopped, Fatal, input, OrderInv, ModeInv
<1>17. CASE Deadline
  BY <1>17 DEF Deadline, Report, MarkFailed, AbortUnlessContinue, Ready,
     Proceeds, Visited, Stopped, Fatal, input, OrderInv, ModeInv
<1>18. CASE UNCHANGED vars
  BY <1>18 DEF vars, Report, MarkFailed, AbortUnlessContinue, Ready,
     Proceeds, Visited, Stopped, Fatal, input, OrderInv, ModeInv
<1> QED
  BY <1>1, <1>2, <1>3, <1>4, <1>5, <1>6, <1>7, <1>8, <1>9, <1>10, <1>11,
     <1>12, <1>13, <1>14, <1>15, <1>16, <1>17, <1>18 DEF Next, Loop, Visit,
     PlanReturns, ApplyReturns

(* A signal that leaves a pause to come is noticed in that pause: only the *)
(* first resource goes without one.                                        *)
LEMMA SignalStep ==
  ASSUME TypeOK, ModeInv, OrderInv, ReportInv, SignalInv, [Next]_vars
  PROVE  SignalInv'
<1> USE NoIdAssumption DEF TypeOK, Outcome, PlanResult, SignalInv, Options
<1>1. ASSUME NEW r \in Resource, PacerCancelled(r) PROVE SignalInv'
  BY <1>1 DEF PacerCancelled, Report, MarkFailed, AbortUnlessContinue,
     Ready, Proceeds, Paced, Visited, StillToPace, input, ReportInv
<1>2. ASSUME NEW r \in Resource, SkipAborted(r) PROVE SignalInv'
  BY <1>2 DEF SkipAborted, Report, MarkFailed, AbortUnlessContinue, Ready,
     Proceeds, Paced, Visited, StillToPace, input, ReportInv
<1>3. ASSUME NEW r \in Resource, SkipDependency(r) PROVE SignalInv'
  BY <1>3 DEF SkipDependency, Report, MarkFailed, AbortUnlessContinue,
     Ready, Proceeds, Paced, Visited, StillToPace, input, ReportInv
<1>4. ASSUME NEW r \in Resource, NoPrimitive(r) PROVE SignalInv'
  BY <1>4 DEF NoPrimitive, Report, MarkFailed, AbortUnlessContinue, Ready,
     Proceeds, Paced, Visited, StillToPace, input, ReportInv
<1>5. ASSUME NEW r \in Resource, BeginPlan(r) PROVE SignalInv'
  BY <1>5 DEF BeginPlan, Report, MarkFailed, AbortUnlessContinue, Ready,
     Proceeds, Paced, Visited, StillToPace, input, ReportInv
<1>6. ASSUME NEW r \in Resource, PlanOnly(r) PROVE SignalInv'
  BY <1>6 DEF PlanOnly, Report, MarkFailed, AbortUnlessContinue, Ready,
     Proceeds, Paced, Visited, StillToPace, input, ReportInv
<1>7. CASE PlanNoChange
  BY <1>7 DEF PlanNoChange, Report, MarkFailed, AbortUnlessContinue, Ready,
     Proceeds, Paced, Visited, StillToPace, input, ReportInv
<1>8. CASE PlanChange
  BY <1>8 DEF PlanChange, Report, MarkFailed, AbortUnlessContinue, Ready,
     Proceeds, Paced, Visited, StillToPace, input, ReportInv
<1>9. CASE PlanCancelled
  BY <1>9 DEF PlanCancelled, Report, MarkFailed, AbortUnlessContinue, Ready,
     Proceeds, Paced, Visited, StillToPace, input, ReportInv
<1>10. CASE PlanError
  BY <1>10 DEF PlanError, Report, MarkFailed, AbortUnlessContinue, Ready,
     Proceeds, Paced, Visited, StillToPace, input, ReportInv
<1>11. CASE ApplyChanged
  BY <1>11 DEF ApplyChanged, Report, MarkFailed, AbortUnlessContinue, Ready,
     Proceeds, Paced, Visited, StillToPace, input, ReportInv
<1>12. CASE ApplyNoChange
  BY <1>12 DEF ApplyNoChange, Report, MarkFailed, AbortUnlessContinue,
     Ready, Proceeds, Paced, Visited, StillToPace, input, ReportInv
<1>13. CASE ApplyDeferred
  BY <1>13 DEF ApplyDeferred, Report, MarkFailed, AbortUnlessContinue,
     Ready, Proceeds, Paced, Visited, StillToPace, input, ReportInv
<1>14. CASE ApplyCancelled
  BY <1>14 DEF ApplyCancelled, Report, MarkFailed, AbortUnlessContinue,
     Ready, Proceeds, Paced, Visited, StillToPace, input, ReportInv
<1>15. CASE ApplyError
  BY <1>15 DEF ApplyError, Report, MarkFailed, AbortUnlessContinue, Ready,
     Proceeds, Paced, Visited, StillToPace, input, ReportInv
<1>16. CASE Signal
  BY <1>16 DEF Signal, Report, MarkFailed, AbortUnlessContinue, Ready,
     Proceeds, Paced, Visited, StillToPace, input, ReportInv
<1>17. CASE Deadline
  BY <1>17 DEF Deadline, Report, MarkFailed, AbortUnlessContinue, Ready,
     Proceeds, Paced, Visited, StillToPace, input, ReportInv
<1>18. CASE UNCHANGED vars
  BY <1>18 DEF vars, Report, MarkFailed, AbortUnlessContinue, Ready,
     Proceeds, Paced, Visited, StillToPace, input, ReportInv
<1> QED
  BY <1>1, <1>2, <1>3, <1>4, <1>5, <1>6, <1>7, <1>8, <1>9, <1>10, <1>11,
     <1>12, <1>13, <1>14, <1>15, <1>16, <1>17, <1>18 DEF Next, Loop, Visit,
     PlanReturns, ApplyReturns

(* Verdicts are final and the manifest does not change.                    *)
LEMMA VerdictsFinal ==
  ASSUME TypeOK, [Next]_vars
  PROVE  /\ \A q \in Resource : outcome[q] # "none" => outcome'[q] = outcome[q]
         /\ depends_on' = depends_on /\ notify_on' = notify_on /\ opts' = opts
<1> DEFINE Final == /\ \A q \in Resource : outcome[q] # "none" => outcome'[q] = outcome[q]
                    /\ depends_on' = depends_on /\ notify_on' = notify_on /\ opts' = opts
<1> USE NoIdAssumption DEF TypeOK
<1>1. ASSUME NEW r \in Resource, PacerCancelled(r) PROVE Final
  BY <1>1 DEF PacerCancelled, Report, Ready, Proceeds, Visited, input
<1>2. ASSUME NEW r \in Resource, SkipAborted(r) PROVE Final
  BY <1>2 DEF SkipAborted, Report, Ready, Proceeds, Visited, input
<1>3. ASSUME NEW r \in Resource, SkipDependency(r) PROVE Final
  BY <1>3 DEF SkipDependency, Report, Ready, Proceeds, Visited, input
<1>4. ASSUME NEW r \in Resource, NoPrimitive(r) PROVE Final
  BY <1>4 DEF NoPrimitive, Report, Ready, Proceeds, Visited, input
<1>5. ASSUME NEW r \in Resource, BeginPlan(r) PROVE Final
  BY <1>5 DEF BeginPlan, Report, Ready, Proceeds, Visited, input
<1>6. ASSUME NEW r \in Resource, PlanOnly(r) PROVE Final
  BY <1>6 DEF PlanOnly, Report, Ready, Proceeds, Visited, input
<1>7. CASE PlanNoChange
  BY <1>7 DEF PlanNoChange, Report, Ready, Proceeds, Visited, input
<1>8. CASE PlanChange
  BY <1>8 DEF PlanChange, Report, Ready, Proceeds, Visited, input
<1>9. CASE PlanCancelled
  BY <1>9 DEF PlanCancelled, Report, Ready, Proceeds, Visited, input
<1>10. CASE PlanError
  BY <1>10 DEF PlanError, Report, Ready, Proceeds, Visited, input
<1>11. CASE ApplyChanged
  BY <1>11 DEF ApplyChanged, Report, Ready, Proceeds, Visited, input
<1>12. CASE ApplyNoChange
  BY <1>12 DEF ApplyNoChange, Report, Ready, Proceeds, Visited, input
<1>13. CASE ApplyDeferred
  BY <1>13 DEF ApplyDeferred, Report, Ready, Proceeds, Visited, input
<1>14. CASE ApplyCancelled
  BY <1>14 DEF ApplyCancelled, Report, Ready, Proceeds, Visited, input
<1>15. CASE ApplyError
  BY <1>15 DEF ApplyError, Report, Ready, Proceeds, Visited, input
<1>16. CASE Signal
  BY <1>16 DEF Signal, Report, Ready, Proceeds, Visited, input
<1>17. CASE Deadline
  BY <1>17 DEF Deadline, Report, Ready, Proceeds, Visited, input
<1>18. CASE UNCHANGED vars
  BY <1>18 DEF vars, Report, Ready, Proceeds, Visited, input
<1> QED
  BY <1>1, <1>2, <1>3, <1>4, <1>5, <1>6, <1>7, <1>8, <1>9, <1>10, <1>11,
     <1>12, <1>13, <1>14, <1>15, <1>16, <1>17, <1>18 DEF Next, Loop, Visit,
     PlanReturns, ApplyReturns

-----------------------------------------------------------------------------
(* The parts hold together in every reachable state.                       *)
Inv == TypeOK /\ ModeInv /\ OrderInv /\ ReportInv /\ SignalInv

(* Types, mode, order, report and signal agree in every reachable state.   *)
LEMMA OrchestratorInvariant == Spec => []Inv
<1>1. Init => Inv
  <2> SUFFICES ASSUME Init PROVE Inv
    OBVIOUS
  <2>1. TypeOK
    BY NoIdAssumption DEF Init, TypeOK
  <2>2. ModeInv /\ OrderInv /\ SignalInv
    BY DEF Init, ModeInv, OrderInv, SignalInv, Visited, PlanResult
  <2>3. ReportInv
    BY DEF Init, ReportInv, Fatal, Stopped
  <2> QED BY <2>1, <2>2, <2>3 DEF Inv
<1>2. Inv /\ [Next]_vars => Inv'
  BY TypeStep, ModeStep, OrderStep, ReportStep, SignalStep DEF Inv
<1> QED BY <1>1, <1>2, PTL DEF Spec

(* Types, and which step has a current resource.                           *)
THEOREM OrchestratorTypes == Spec => []TypeOK
BY OrchestratorInvariant, PTL DEF Inv

(* A resource is touched only on top of dependencies that hold, for every  *)
(* manifest and every order that topological_order may return.             *)
THEOREM OrchestratorDependencies == Spec => []DependenciesHold
<1>1. Init => DependenciesHold
  BY DEF Init, DependenciesHold
<1>2. Inv /\ DependenciesHold /\ [Next]_vars => DependenciesHold'
  <2> SUFFICES ASSUME Inv, DependenciesHold, [Next]_vars,
                      NEW r \in dirty', NEW d \in depends_on'[r]
               PROVE  outcome'[d] \in {"no_change", "changed", "deferred"}
    BY DEF DependenciesHold
  <2>1. /\ \A q \in Resource : outcome[q] # "none" => outcome'[q] = outcome[q]
        /\ depends_on' = depends_on
    BY VerdictsFinal DEF Inv
  <2>2. \/ r \in dirty
        \/ r = cur /\ step = "plan" /\ cur # NoId /\ cur \in Resource
    BY DEF Inv, TypeOK, vars, Next, Loop, Visit, PlanReturns, ApplyReturns, PacerCancelled, SkipAborted,
           SkipDependency, NoPrimitive, BeginPlan, PlanOnly, PlanNoChange, PlanChange,
           PlanCancelled, PlanError, ApplyChanged, ApplyNoChange, ApplyDeferred,
           ApplyCancelled, ApplyError, Signal, Deadline
  <2>3. CASE r \in dirty
    <3>1. d \in Resource /\ outcome[d] \in {"no_change", "changed", "deferred"}
      BY <2>1, <2>3 DEF DependenciesHold, Inv, TypeOK
    <3> QED BY <2>1, <3>1
  <2>4. CASE r = cur /\ step = "plan" /\ cur # NoId /\ cur \in Resource
    <3>1. d \in Resource /\ d \notin failed /\ ~aborted /\ outcome[d] # "none" /\ ~opts.dry_run
      BY <2>1, <2>4 DEF Inv, TypeOK, OrderInv, ModeInv, Sources, Visited
    <3>2. outcome[d] \in {"no_change", "changed", "deferred"}
      BY <3>1 DEF Inv, TypeOK, ReportInv, ModeInv, Stopped, Outcome
    <3> QED BY <2>1, <3>1, <3>2
  <2> QED BY <2>2, <2>3, <2>4
<1> QED BY <1>1, <1>2, OrchestratorInvariant, PTL DEF Spec

(* A subscriber learns of exactly the notify sources that changed.         *)
THEOREM OrchestratorNotify == Spec => []NotifyExact
<1>1. Init => NotifyExact
  BY DEF Init, NotifyExact
<1>2. Inv /\ NotifyExact /\ [Next]_vars => NotifyExact'
  <2> SUFFICES ASSUME Inv, NotifyExact, [Next]_vars, NEW r \in dirty'
               PROVE  seen'[r] = {s \in notify_on'[r] : outcome'[s] = "changed"}
    BY DEF NotifyExact
  <2>1. /\ \A q \in Resource : outcome[q] # "none" => outcome'[q] = outcome[q]
        /\ notify_on' = notify_on
    BY VerdictsFinal DEF Inv
  <2>2. \/ r \in dirty /\ seen'[r] = seen[r]
        \/ r = cur /\ cur # NoId /\ cur \in Resource /\ seen'[r] = notify_on[r] \cap changed
    BY DEF Inv, TypeOK, OrderInv, vars, Next, Loop, Visit, PlanReturns, ApplyReturns, PacerCancelled,
           SkipAborted, SkipDependency, NoPrimitive, BeginPlan, PlanOnly, PlanNoChange, PlanChange,
           PlanCancelled, PlanError, ApplyChanged, ApplyNoChange, ApplyDeferred,
           ApplyCancelled, ApplyError, Signal, Deadline
  <2>3. r \in Resource /\ notify_on[r] \subseteq Visited
    BY <2>2 DEF Inv, TypeOK, OrderInv, Sources
  <2>4. {s \in notify_on[r] : outcome'[s] = "changed"} = {s \in notify_on[r] : outcome[s] = "changed"}
    BY <2>1, <2>3 DEF Visited
  <2>5. seen'[r] = {s \in notify_on[r] : outcome[s] = "changed"}
    BY <2>2, <2>3 DEF Inv, ReportInv, NotifyExact, Visited
  <2> QED BY <2>1, <2>4, <2>5
<1> QED BY <1>1, <1>2, OrchestratorInvariant, PTL DEF Spec

(* Every skipped resource has its reason in the report.                    *)
THEOREM OrchestratorSkips == Spec => []SkipJustified
<1>1. Init => SkipJustified
  BY DEF Init, SkipJustified
<1>2. Inv /\ SkipJustified /\ [Next]_vars => SkipJustified'
  <2> SUFFICES ASSUME Inv, SkipJustified, [Next]_vars,
                      NEW r \in Resource, outcome'[r] = "skipped", ~Fatal'
               PROVE  \E d \in depends_on'[r] : outcome'[d] \in {"failed", "interrupted", "skipped"}
    BY DEF SkipJustified
  <2>1. /\ \A q \in Resource : outcome[q] # "none" => outcome'[q] = outcome[q]
        /\ depends_on' = depends_on /\ opts' = opts
    BY VerdictsFinal DEF Inv
  <2>2. Inv' /\ ~aborted'
    <3>1. Inv'
      BY TypeStep, ModeStep, OrderStep, ReportStep, SignalStep DEF Inv
    <3> QED BY <3>1 DEF Inv, ReportInv
  <2>3. CASE outcome[r] = "skipped"
    <3>1. ~Fatal
      BY <2>1 DEF Fatal, Stopped
    <3>2. PICK d \in depends_on[r] : outcome[d] \in {"failed", "interrupted", "skipped"}
      BY <2>3, <3>1 DEF SkipJustified
    <3>3. d \in Resource
      BY DEF Inv, TypeOK
    <3> QED BY <2>1, <3>2, <3>3
  <2>4. CASE outcome[r] # "skipped"
    <3>1. depends_on[r] \cap failed # {}
      BY <2>2, <2>4 DEF Inv, TypeOK, vars, Next, Loop, Visit, PlanReturns, ApplyReturns, PacerCancelled,
           SkipAborted, SkipDependency, NoPrimitive, BeginPlan, PlanOnly, PlanNoChange, PlanChange,
           PlanCancelled, PlanError, ApplyChanged, ApplyNoChange, ApplyDeferred,
           ApplyCancelled, ApplyError, Signal, Deadline, Report, PlanResult
    <3>2. PICK d \in depends_on[r] : d \in failed
      BY <3>1
    <3>3. d \in Resource /\ outcome[d] \in {"failed", "interrupted", "skipped"}
      BY <3>2 DEF Inv, ReportInv, TypeOK
    <3> QED BY <2>1, <3>2, <3>3
  <2> QED BY <2>3, <2>4
<1> QED BY <1>1, <1>2, OrchestratorInvariant, PTL DEF Spec

(* SIGTERM before the last pause of a paced run stops it.                  *)
THEOREM OrchestratorSignal == Spec => []SignalInterrupts
<1>1. Inv => SignalInterrupts
  BY DEF Inv, SignalInterrupts, SignalInv, ReportInv, StillToPace, Done
<1> QED BY <1>1, OrchestratorInvariant, PTL

(* The failure or interruption that ends a run is the last thing it does   *)
(* to the system.                                                          *)
THEOREM OrchestratorStops == Spec => StopsAtFailure
<1>1. Inv /\ [Next]_vars => [Fatal => UNCHANGED dirty /\ Stopped' = Stopped]_vars
  <2> SUFFICES ASSUME Inv, Next, Fatal PROVE dirty' = dirty /\ Stopped' = Stopped
    BY DEF vars
  <2>1. aborted /\ cur = NoId /\ step = "next"
    BY DEF Inv, ReportInv, OrderInv, TypeOK
  <2>2. \/ \E r \in Resource : SkipAborted(r) \/ PlanOnly(r)
        \/ Signal \/ Deadline
    BY <2>1 DEF Next, Loop, Visit, PlanReturns, ApplyReturns, PacerCancelled, SkipDependency,
                NoPrimitive, BeginPlan, PlanNoChange, PlanChange, PlanCancelled, PlanError,
                ApplyChanged, ApplyNoChange, ApplyDeferred, ApplyCancelled, ApplyError, Paced, Proceeds
  <2>3. dirty' = dirty
    BY <2>2 DEF SkipAborted, PlanOnly, Signal, Deadline
  <2>4. Stopped' = Stopped
    <3>1. ASSUME NEW r \in Resource, SkipAborted(r) \/ PlanOnly(r) PROVE Stopped' = Stopped
      BY <3>1 DEF Inv, TypeOK, SkipAborted, PlanOnly, Report, PlanResult, Stopped, Ready, Visited
    <3>2. CASE Signal \/ Deadline
      BY <3>2 DEF Signal, Deadline, Stopped
    <3> QED BY <2>2, <3>1, <3>2
  <2> QED BY <2>3, <2>4
<1> QED BY <1>1, OrchestratorInvariant, PTL DEF Spec, StopsAtFailure

-----------------------------------------------------------------------------
(* That a run ends: its loop never waits for a resource that cannot come,  *)
(* and has at most three steps for each.                                   *)

(* The edges are those of the registry, in which no resources wait for     *)
(* each other.                                                             *)
LEMMA EdgesStay == Spec => []Acyclic
<1>1. Acyclic /\ [Next]_vars => Acyclic'
  <2> SUFFICES ASSUME Acyclic, [Next]_vars PROVE Acyclic'
    OBVIOUS
  <2>1. UNCHANGED input
    BY DEF vars, input, Next, Loop, Visit, PlanReturns, ApplyReturns, PacerCancelled, SkipAborted, SkipDependency,
           NoPrimitive, BeginPlan, PlanOnly, PlanNoChange, PlanChange, PlanCancelled, PlanError, ApplyChanged,
           ApplyNoChange, ApplyDeferred, ApplyCancelled, ApplyError, Signal, Deadline
  <2> QED BY <2>1 DEF input, Acyclic, Sources
<1> QED BY <1>1, PTL DEF Spec, Init

(* Until every resource has its line in the report there is one whose      *)
(* dependencies and notify sources all have theirs: the loop over the      *)
(* order always finds the next one, also after failures and skips.         *)
THEOREM OrchestratorGoesOn == Spec => [](step = "next" /\ ~Done => \E r \in Resource : Ready(r))
<1>1. ASSUME TypeOK, Acyclic, step = "next", ~Done PROVE \E r \in Resource : Ready(r)
  <2> DEFINE S == Resource \ Visited
  <2>1. S \in (SUBSET Resource) \ {{}}
    <3>1. Visited \subseteq Resource /\ Visited # Resource
      BY <1>1 DEF Done, Visited
    <3>2. \E r \in Resource : r \notin Visited
      BY <3>1
    <3>3. S # {}
      BY <3>2
    <3>4. S \in SUBSET Resource
      OBVIOUS
    <3> QED BY <3>3, <3>4, Zenon
  <2>2. PICK r \in S : Sources(r) \cap S = {}
    BY <1>1, <2>1 DEF Acyclic
  <2>3. Sources(r) \subseteq Resource
    BY <1>1, <2>2 DEF TypeOK, Sources
  <2> QED BY <1>1, <2>2, <2>3 DEF Ready
<1> QED BY <1>1, EdgesStay, OrchestratorInvariant, PTL DEF Inv

(* A step of the loop reports one more resource, or takes the one it is at *)
(* from the loop to plan, or from plan to apply.                           *)
LEMMA LoopSteps ==
  ASSUME TypeOK, Loop
  PROVE  \/ \E r \in Resource \ Visited : Visited' = Visited \cup {r} /\ step' = "next"
         \/ /\ Visited' = Visited /\ Resource \ Visited # {}
            /\ (step = "next" /\ step' = "plan") \/ (step = "plan" /\ step' = "apply")
<1>1. ASSUME NEW r \in Resource \ Visited, NEW o \in Outcome \cup PlanResult, Report(r, o)
      PROVE  \E q \in Resource \ Visited : Visited' = Visited \cup {q} /\ step' = "next"
  BY <1>1 DEF TypeOK, Report, Visited, Outcome, PlanResult
<1>2. step # "next" => cur \in Resource \ Visited
  BY DEF TypeOK, Visited
<1>3. ASSUME NEW r \in Resource, Visit(r) \/ PlanOnly(r)
      PROVE  \/ \E q \in Resource \ Visited : Visited' = Visited \cup {q} /\ step' = "next"
             \/ Visited' = Visited /\ Resource \ Visited # {} /\ step = "next" /\ step' = "plan"
  <2>1. r \in Resource \ Visited /\ step = "next"
    BY <1>3 DEF Visit, PacerCancelled, SkipAborted, SkipDependency, NoPrimitive, BeginPlan, PlanOnly, Proceeds, Ready
  <2>2. CASE BeginPlan(r)
    BY <2>1, <2>2 DEF BeginPlan, Visited
  <2>3. CASE ~BeginPlan(r)
    <3>1. \E o \in Outcome \cup PlanResult : Report(r, o)
      BY <1>3, <2>3 DEF Visit, PacerCancelled, SkipAborted, SkipDependency, NoPrimitive, PlanOnly, Outcome
    <3> QED BY <1>1, <2>1, <3>1
  <2> QED BY <2>2, <2>3
<1>4. ASSUME PlanReturns \/ ApplyReturns
      PROVE  \/ \E q \in Resource \ Visited : Visited' = Visited \cup {q} /\ step' = "next"
             \/ Visited' = Visited /\ Resource \ Visited # {} /\ step = "plan" /\ step' = "apply"
  <2>1. step # "next"
    BY <1>4 DEF PlanReturns, ApplyReturns, PlanNoChange, PlanChange, PlanCancelled, PlanError, ApplyChanged,
                ApplyNoChange, ApplyDeferred, ApplyCancelled, ApplyError
  <2>2. CASE PlanChange
    BY <1>2, <2>1, <2>2 DEF PlanChange, Visited
  <2>3. CASE ~PlanChange
    <3>1. \E o \in Outcome \cup PlanResult : Report(cur, o)
      BY <1>4, <2>3 DEF PlanReturns, ApplyReturns, PlanNoChange, PlanCancelled, PlanError, ApplyChanged,
                        ApplyNoChange, ApplyDeferred, ApplyCancelled, ApplyError, Outcome
    <3> QED BY <1>1, <1>2, <2>1, <3>1
  <2> QED BY <2>2, <2>3
<1> QED BY <1>3, <1>4 DEF Loop

(* What is left of the run, in steps of the loop: three for each resource  *)
(* without a line in the report, less those taken for the one it is at.    *)
StepsLeft ==
  3 * Cardinality(Resource \ Visited) - (CASE step = "plan" -> 1 [] step = "apply" -> 2 [] OTHER -> 0)

(* Orchestrator::apply ends: in a manifest of any size every step of the   *)
(* loop leaves fewer steps, whatever the primitives answer and whenever a  *)
(* signal or the deadline comes.                                           *)
THEOREM OrchestratorDescends ==
  ASSUME IsFiniteSet(Resource)
  PROVE  Spec => [][Loop => StepsLeft' < StepsLeft /\ StepsLeft' \in Nat]_vars
<1>1. ASSUME TypeOK, Loop PROVE StepsLeft' < StepsLeft /\ StepsLeft' \in Nat
  <2> DEFINE left == Cardinality(Resource \ Visited)
  <2>1. IsFiniteSet(Resource \ Visited) /\ left \in Nat /\ step \in {"next", "plan", "apply"}
    BY <1>1, FS_Subset, FS_CardinalityType DEF TypeOK
  <2>2. ASSUME NEW r \in Resource \ Visited, Visited' = Visited \cup {r}, step' = "next"
        PROVE  StepsLeft' < StepsLeft /\ StepsLeft' \in Nat
    <3>1. Resource \ Visited' = (Resource \ Visited) \ {r}
      BY <2>2
    <3>2. Cardinality(Resource \ Visited') = left - 1 /\ Cardinality(Resource \ Visited') \in Nat
      BY <2>1, <3>1, FS_RemoveElement, FS_CardinalityType
    <3>3. StepsLeft' = 3 * (left - 1)
      BY <2>2, <3>2 DEF StepsLeft
    <3> HIDE DEF left
    <3>4. StepsLeft = 3 * left - (CASE step = "plan" -> 1 [] step = "apply" -> 2 [] OTHER -> 0)
      BY DEF StepsLeft, left
    <3> QED BY <2>1, <3>2, <3>3, <3>4
  <2>3. ASSUME Visited' = Visited, Resource \ Visited # {},
               (step = "next" /\ step' = "plan") \/ (step = "plan" /\ step' = "apply")
        PROVE  StepsLeft' < StepsLeft /\ StepsLeft' \in Nat
    <3>1. left # 0
      BY <2>1, <2>3, FS_EmptySet
    <3>2. Cardinality(Resource \ Visited)' = left
      BY <2>3
    <3> HIDE DEF left
    <3>3. StepsLeft = 3 * left - (CASE step = "plan" -> 1 [] step = "apply" -> 2 [] OTHER -> 0)
      BY DEF StepsLeft, left
    <3>4. StepsLeft' = 3 * left - (CASE step' = "plan" -> 1 [] step' = "apply" -> 2 [] OTHER -> 0)
      BY <3>2 DEF StepsLeft
    <3> QED BY <2>1, <2>3, <3>1, <3>3, <3>4
  <2> QED BY <1>1, <2>2, <2>3, LoopSteps
<1> QED BY <1>1, OrchestratorInvariant, PTL DEF Inv
=============================================================================
