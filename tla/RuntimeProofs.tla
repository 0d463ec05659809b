---------------------------- MODULE RuntimeProofs ----------------------------
(***************************************************************************)
(* The theorems about what runs around the primitives, for every value of  *)
(* the constants: the evaluation of a manifest (RootCause, ManifestWhole), *)
(* the way of a call into a payload (PayloadFaithful), the facts           *)
(* (FactsHonest, FactsRight), templates (TemplateRight), the commands that *)
(* bosun starts (NothingLeftBehind, HealthVerdict), the clients of the     *)
(* init systems (ClientVerdict) and bosun status (StatusHonest, and that   *)
(* it ends).                                                               *)
(*                                                                         *)
(* Each part has its own invariant over the variables of one module; the   *)
(* modules share no variable.                                              *)
(***************************************************************************)
EXTENDS Manifest, Payloads, Templates, Facts, Commands, Clients, Status, WellFoundedInduction, FiniteSetTheorems, TLAPS

-----------------------------------------------------------------------------
(* The evaluation of a manifest: its error *)

BeforeEval == {"load_dir", "check", "facts", "start"}

\* While an error unwinds, either the glue recorded it first of all, or the
\* loads it passed recorded it as Eval, or it has not met a load yet.
CauseInv ==
  /\ manPc \in BeforeEval \cup {"eval", "done"}
  /\ errs \in Seq(StarlarkGlueError)
  /\ manPc \in BeforeEval \cup {"eval"} => manResult = "none"
  /\ manPc \in BeforeEval => raised = "none"
  /\ manPc # "done" /\ raised = "none" => errs = << >> /\ cause = [error |-> "none", recorded |-> FALSE]
  /\ manPc # "done" /\ raised # "none" =>
       /\ cause.error \in StarlarkGlueError
       /\ cause.recorded => errs # << >> /\ Head(errs) = cause.error
       /\ ~cause.recorded => \/ errs = << >> /\ raised \in {"Eval", "PrivateSymbol"}
                             \/ errs # << >> /\ Head(errs) = "Eval"
  /\ manResult = "ok" => raised = "none"
  /\ RootCause

\* The names of the errors are not the names of the other outcomes.
LEMMA GlueErrors ==
  /\ "none" \notin StarlarkGlueError /\ "ok" \notin StarlarkGlueError /\ "overflow" \notin StarlarkGlueError
  /\ {"Eval", "PrivateSymbol", "InvalidCall", "UnknownPrimitive", "Io", "Syntax", "TemplateFromEntry", "PathSafety",
      "UnsupportedLoadPath", "ModuleNotFound", "InvalidManifest", "EntryNotFound", "VersionIncompatible"} \subseteq StarlarkGlueError
BY DEF StarlarkGlueError, BundleErrors

\* An error that a statement raises: the glue has recorded it, unless Starlark
\* itself, the conversion of the arguments, a tag or the inventory is the one that
\* complains.
Raised == \E e \in StarlarkGlueError, recorded \in BOOLEAN :
            Raise(e, recorded) /\ (recorded \/ e \in {"Eval", "PrivateSymbol"})

\* A statement is done, or raises such an error, and nothing else changes.
LEMMA StatementSteps ==
  ASSUME NEW s \in Statements,
         \/ RegisterPrimitiveCall(s) \/ DispatchUnit(s) \/ Template(s) \/ RequireOneOf(s)
         \/ InventoryRead(s) \/ Import(s) \/ Load(s)
  PROVE  Fetch(s) /\ UNCHANGED <<closed, expired, manPc, manResult, loaded, evals>> /\ (Advance \/ Raised)
<1> USE GlueErrors
<1>0. \A e \in StarlarkGlueError : Raise(e, TRUE) => Raised  BY DEF Raised
<1>1. Raise("Eval", FALSE) \/ Raise("PrivateSymbol", FALSE) => Raised  BY DEF Raised
<1>2. CASE RegisterPrimitiveCall(s)
  <2>1. Advance \/ Raise("Eval", FALSE) \/ Raise("InvalidCall", TRUE) \/ Raise("UnknownPrimitive", TRUE)
    BY <1>2 DEF RegisterPrimitiveCall, RecordInvalidCall, AddResource
  <2> QED  BY <1>0, <1>1, <1>2, <2>1 DEF RegisterPrimitiveCall, ManSame
<1>3. CASE DispatchUnit(s)
  <2>1. Advance \/ Raise("InvalidCall", TRUE) \/ Raise("Eval", FALSE)
    BY <1>3 DEF DispatchUnit, RecordInvalidCall, AddResource
  <2> QED  BY <1>0, <1>1, <1>3, <2>1 DEF DispatchUnit, ManSame
<1>4. CASE Template(s)
  <2>1. \/ Advance \/ Raise("Eval", FALSE)
        \/ Raise("TemplateFromEntry", TRUE) \/ Raise("PathSafety", TRUE) \/ Raise("Eval", TRUE)
    BY <1>4 DEF Template
  <2> QED  BY <1>0, <1>1, <1>4, <2>1 DEF Template, ManSame
<1>5. CASE RequireOneOf(s)
  BY <1>1, <1>5 DEF RequireOneOf, ManSame
<1>6. CASE InventoryRead(s)
  BY <1>1, <1>6 DEF InventoryRead
<1>7. CASE Import(s)
  BY <1>1, <1>7 DEF Import, ManSame
<1>8. CASE Load(s)
  <2>1. s.path \notin Modules \ loaded  BY <1>8 DEF Load
  <2>2. s.path \in LoadPaths
    BY <1>8 DEF Load, Statements, Calls
  <2>3. CASE s.path \in {"@bosun/builtins"} \cup loaded
    <3>1. Advance \/ Raise("UnsupportedLoadPath", TRUE) \/ Raise("Io", TRUE) \/ Raise("Syntax", TRUE)
      BY <1>8, <2>3 DEF Load
    <3> QED  BY <1>0, <1>8, <3>1 DEF Load, ManSame
  <2>4. CASE s.path = "//x" /\ s.path \notin loaded
    BY <1>0, <1>8, <2>4 DEF Load, ManSame
  <2>5. CASE s.path = "@roles/broken" /\ s.path \notin loaded
    BY <1>0, <1>8, <2>5 DEF Load, ManSame
  <2>6. CASE s.path \in {"@roles/missing", "@roles/outside"} /\ s.path \notin loaded
    <3>1. ResolveModule(s.path) \in {"ModuleNotFound", "PathSafety"}
      BY <2>6 DEF ResolveModule, ResolveWithinRoot
    <3>2. Raise(ResolveModule(s.path), TRUE)
      BY <1>8, <2>6 DEF Load
    <3> QED  BY <1>0, <1>8, <3>1, <3>2 DEF Load, ManSame
  <2> QED  BY <2>1, <2>2, <2>3, <2>4, <2>5, <2>6 DEF LoadPaths, Modules
<1> QED  BY <1>2, <1>3, <1>4, <1>5, <1>6, <1>7, <1>8

\* An error that is raised while none was.
LEMMA RaiseKeepsCause ==
  ASSUME CauseInv, manPc = "eval", raised = "none", Raised, UNCHANGED <<manPc, manResult>>
  PROVE  CauseInv'
<1>1. PICK e \in StarlarkGlueError, recorded \in BOOLEAN : Raise(e, recorded) /\ (recorded \/ e \in {"Eval", "PrivateSymbol"})
  BY DEF Raised
<1>2. errs = << >> /\ manResult = "none"  BY DEF CauseInv, BeforeEval
<1>3. raised' = e /\ raised' # "none" /\ cause'.error = e /\ cause'.recorded = recorded
  BY <1>1, GlueErrors DEF Raise
<1>4. errs' = (IF recorded THEN <<e>> ELSE << >>)
  BY <1>1, <1>2 DEF Raise
<1>5. CASE recorded
  <2>1. errs' \in Seq(StarlarkGlueError) /\ errs' # << >> /\ Head(errs') = e  BY <1>4, <1>5
  <2> QED  BY <1>2, <1>3, <1>5, <2>1 DEF CauseInv, RootCause, BeforeEval
<1>6. CASE ~recorded
  <2>1. errs' = << >> /\ raised' \in {"Eval", "PrivateSymbol"}  BY <1>1, <1>3, <1>4, <1>6
  <2> QED  BY <1>2, <1>3, <1>6, <2>1 DEF CauseInv, RootCause, BeforeEval
<1> QED  BY <1>5, <1>6

\* A step that leaves the errors alone and goes on.
LEMMA CauseStays ==
  ASSUME CauseInv, UNCHANGED <<errs, raised, cause, manResult>>, manPc # "done",
         \/ manPc' = manPc
         \/ manPc \in BeforeEval /\ manPc' \in BeforeEval \cup {"eval"}
  PROVE  CauseInv'
BY DEF CauseInv, RootCause, BeforeEval

\* A bundle that is refused.
LEMMA CauseFails ==
  ASSUME CauseInv, manPc \in BeforeEval, NEW e \in StarlarkGlueError, Fails(e), UNCHANGED <<errs, raised>>
  PROVE  CauseInv'
<1>1. manPc' = "done" /\ manResult' = e /\ cause' = [error |-> e, recorded |-> TRUE]  BY DEF Fails, ManEnd
<1>2. e # "ok" /\ e # "none"  BY GlueErrors
<1> QED  BY <1>1, <1>2 DEF CauseInv, RootCause, BeforeEval

\* An error passes a load.
LEMMA UnwindKeepsCause ==
  ASSUME CauseInv, Unwind
  PROVE  CauseInv'
<1> USE DEF Unwind
<1>1. errs \in Seq(StarlarkGlueError) /\ errs' = Append(errs, "Eval") /\ raised' = "Eval"  BY DEF CauseInv
<1>2. errs' \in Seq(StarlarkGlueError) /\ errs' # << >>  BY <1>1, GlueErrors
<1>3. CASE errs = << >>
  <2>1. Head(errs') = "Eval"  BY <1>1, <1>3
  <2>2. ~cause.recorded  BY <1>3 DEF CauseInv
  <2> QED  BY <1>1, <1>2, <2>1, <2>2 DEF CauseInv, RootCause, BeforeEval
<1>4. CASE errs # << >>
  <2>1. Head(errs') = Head(errs)  BY <1>1, <1>4
  <2> QED  BY <1>1, <1>2, <1>4, <2>1 DEF CauseInv, RootCause, BeforeEval
<1> QED  BY <1>3, <1>4

\* The verdict over the evaluation.
LEMMA EndKeepsCause ==
  ASSUME CauseInv, EndManifest
  PROVE  CauseInv'
<1>1. manPc = "eval" /\ manPc' = "done" /\ manResult' = Verdict /\ UNCHANGED <<errs, raised, cause>>
  BY DEF EndManifest, ManEnd
<1>2. CASE raised = "none"
  <2>1. errs = << >> /\ cause = [error |-> "none", recorded |-> FALSE]  BY <1>1, <1>2 DEF CauseInv
  <2>2. Verdict = "ok"  BY <1>2, <2>1 DEF Verdict
  <2> QED  BY <1>1, <1>2, <2>1, <2>2 DEF CauseInv, RootCause, BeforeEval
<1>3. CASE raised # "none" /\ errs = << >>
  <2>1. /\ raised \in {"Eval", "PrivateSymbol"} /\ ~cause.recorded /\ cause.error \in StarlarkGlueError
    BY <1>1, <1>3 DEF CauseInv
  <2>2. Verdict \in {"Eval", "PrivateSymbol"}  BY <1>3, <2>1 DEF Verdict, ClassifyEvalError
  <2> QED  BY <1>1, <1>3, <2>1, <2>2, GlueErrors DEF CauseInv, RootCause, BeforeEval
<1>4. CASE raised # "none" /\ errs # << >>
  <2>1. /\ cause.error \in StarlarkGlueError /\ (cause.recorded => Head(errs) = cause.error)
        /\ (~cause.recorded => Head(errs) = "Eval")
    BY <1>1, <1>4 DEF CauseInv
  <2>2. Verdict = Head(errs)  BY <1>4 DEF Verdict
  <2>3. Verdict # "ok"  BY <2>1, <2>2, GlueErrors
  <2> QED  BY <1>1, <1>4, <2>1, <2>2, <2>3, GlueErrors DEF CauseInv, RootCause, BeforeEval
<1> QED  BY <1>2, <1>3, <1>4

\* No step of an evaluation puts another error before the first one.
LEMMA CauseStepInv == ASSUME CauseInv, [ManNext]_manVars  PROVE CauseInv'
<1>1. CASE LoadDir \/ CheckCompatibility \/ LoadFactsFixture
  <2>1. manPc \in BeforeEval /\ UNCHANGED <<errs, raised>>
    BY <1>1 DEF LoadDir, CheckCompatibility, LoadFactsFixture, Quiet, BeforeEval
  <2>2. (\E pc \in BeforeEval : Goes(pc)) \/ (\E e \in StarlarkGlueError : Fails(e))
    <3>1. CASE LoadDir
      BY <3>1, GlueErrors DEF LoadDir, LoadManifest, BeforeEval
    <3>2. CASE CheckCompatibility
      BY <3>2, GlueErrors DEF CheckCompatibility, BeforeEval
    <3>3. CASE LoadFactsFixture
      BY <3>3, GlueErrors DEF LoadFactsFixture, BeforeEval
    <3> QED  BY <1>1, <3>1, <3>2, <3>3
  <2>3. CASE \E pc \in BeforeEval : Goes(pc)
    BY <2>1, <2>3, CauseStays DEF Goes, BeforeEval
  <2>4. CASE \E e \in StarlarkGlueError : Fails(e)
    BY <2>1, <2>4, CauseFails
  <2> QED  BY <2>2, <2>3, <2>4
<1>2. CASE StartEvaluation
  <2>1. manPc = "start" /\ manPc \in BeforeEval /\ UNCHANGED <<errs, raised>>  BY <1>2 DEF StartEvaluation, BeforeEval
  <2>2. CASE manPc' = "eval" /\ UNCHANGED <<cause, manResult>>
    BY <2>1, <2>2, CauseStays
  <2>3. CASE \E e \in {"Io", "Syntax"} : Fails(e)
    BY <2>1, <2>3, CauseFails, GlueErrors
  <2> QED  BY <1>2, <2>2, <2>3 DEF StartEvaluation
<1>3. CASE \E s \in Statements : RegisterPrimitiveCall(s) \/ DispatchUnit(s) \/ Template(s) \/ RequireOneOf(s)
                                 \/ InventoryRead(s) \/ Import(s) \/ Load(s)
  <2>1. PICK s \in Statements : Fetch(s) /\ UNCHANGED <<manPc, manResult>> /\ (Advance \/ Raised)
    BY <1>3, StatementSteps
  <2>2. manPc = "eval" /\ raised = "none"  BY <2>1 DEF Fetch, Running
  <2>3. CASE Advance  BY <2>1, <2>2, <2>3, CauseStays DEF Advance
  <2>4. CASE Raised  BY <2>1, <2>2, <2>4, RaiseKeepsCause
  <2> QED  BY <2>1, <2>3, <2>4
<1>4. CASE \E s \in Statements : LoadRoleOrLib(s)
  <2>1. PICK s \in Statements : LoadRoleOrLib(s)  BY <1>4
  <2>2. manPc = "eval" /\ raised = "none" /\ UNCHANGED <<errs, raised, cause>>
    BY <2>1 DEF LoadRoleOrLib, Fetch, Running
  <2>3. CASE UNCHANGED <<manPc, manResult>>  BY <2>2, <2>3, CauseStays
  <2>4. CASE ManEnd("overflow")
    BY <2>2, <2>4 DEF ManEnd, CauseInv, RootCause, BeforeEval
  <2> QED  BY <2>1, <2>3, <2>4 DEF LoadRoleOrLib
<1>5. CASE EndModule \/ Expire
  BY <1>5, CauseStays DEF EndModule, Expire, Running
<1>6. CASE DeadlineChecker
  <2>1. Raised  BY <1>6, GlueErrors DEF DeadlineChecker, Raised
  <2> QED  BY <1>6, <2>1, RaiseKeepsCause DEF DeadlineChecker, Running, ManSame
<1>7. CASE Unwind  BY <1>7, UnwindKeepsCause
<1>8. CASE EndManifest  BY <1>8, EndKeepsCause
<1>9. CASE UNCHANGED manVars  BY <1>9 DEF manVars, CauseInv, RootCause
<1> QED  BY <1>1, <1>2, <1>3, <1>4, <1>5, <1>6, <1>7, <1>8, <1>9 DEF ManNext

\* The error an evaluation ends with is the one that was raised first, through
\* the loads that recorded their own Eval after it, for manifests of any length
\* and any depth of loads.
THEOREM RootCauseReported == ManSpec => []RootCause
<1>1. ManInit => CauseInv  BY DEF ManInit, CauseInv, RootCause, BeforeEval
<1>2. CauseInv /\ [ManNext]_manVars => CauseInv'  BY CauseStepInv
<1>3. CauseInv => RootCause  BY DEF CauseInv
<1> QED  BY <1>1, <1>2, <1>3, PTL DEF ManSpec

-----------------------------------------------------------------------------
(* The evaluation of a manifest: its registry and its modules *)

ManFrame == [module : Modules, pc : Nat \ {0}]
ManResource == [id : {"file.content", "apt.package", "systemd.service"} \X Ids, sha : ContentsOf, link : {0} \cup Ids]

ManTypes ==
  /\ program \in [Modules -> Seq(Statements)] /\ frames \in Seq(ManFrame) /\ entries \in Seq(ManResource)
  /\ loaded \subseteq Modules /\ evals \in [Modules -> Nat]
  /\ manPc = "eval" => frames # << >>
  /\ manPc \in BeforeEval => \A m \in Modules : program[m] = << >> /\ evals[m] = 0
  /\ manPc \in BeforeEval => loaded = {}

\* A statement that links to a resource was written when the resource was
\* there, and resources stay: it may be run again.
LinksKnown ==
  \A m \in Modules : \A i \in DOMAIN program[m] :
    program[m][i].op = "call" => program[m][i].link \in {0} \cup Handles

\* As long as nothing was raised, each resource has its contents put away and
\* its link before it. A call that is refused leaves other contents behind.
WholeEntry(i) ==
  /\ entries[i].id[1] = "file.content" => {p \in secrets : p[1] = entries[i].id} = {<<entries[i].id, entries[i].sha>>}
  /\ entries[i].link # 0 => \E j \in 1..(i - 1) : entries[j].id[2] = entries[i].link
EntriesWhole == raised = "none" => \A i \in DOMAIN entries : WholeEntry(i)

\* Every module on the stack but the top one is at the load of the next.
StackLoads ==
  \A k \in 1..(Len(frames) - 1) :
    /\ frames[k].pc \in 1..Len(program[frames[k].module])
    /\ program[frames[k].module][frames[k].pc].op = "load"
    /\ program[frames[k].module][frames[k].pc].path = frames[k + 1].module
TopInside == Top.pc <= Len(program[Top.module]) + 1
\* A module that is on the stack twice repeats itself: the later evaluation
\* never gets past the load where the earlier one is.
StackRepeats ==
  \A i, j \in DOMAIN frames : i < j /\ frames[i].module = frames[j].module => frames[j].pc <= frames[i].pc
StackOpen == \A k \in DOMAIN frames : frames[k].module \notin loaded
\* A module loads itself, directly or through others.
Cyclic == \E i, j \in DOMAIN frames : i < j /\ frames[i].module = frames[j].module
EvalsCounted ==
  Cyclic \/ \A m \in Modules : /\ evals[m] <= 1
                               /\ evals[m] = 1 => m \in loaded \/ \E k \in DOMAIN frames : frames[k].module = m

StackInv == StackLoads /\ TopInside /\ StackRepeats /\ StackOpen /\ EvalsCounted

WholeInv ==
  /\ CauseInv /\ ManTypes /\ LinksKnown /\ EntriesWhole
  /\ manPc = "eval" /\ raised = "none" => StackInv
  /\ LoadedOnce

\* What is known of a statement by its operation.
LEMMA StatementShape ==
  ASSUME NEW s \in Statements
  PROVE  /\ s.op = "call" => /\ s.kind \in {"file.content", "apt.package"} /\ s.id \in Ids
                             /\ s.contents \in ContentsOf /\ s.link \in {0} \cup Ids
         /\ s.op = "load" => s.path \in LoadPaths
<1>1. CASE s \in Calls
  BY <1>1 DEF Calls, Ids, ContentsOf
<1>2. CASE s \notin Calls
  BY <1>2 DEF Statements
<1> QED  BY <1>1, <1>2

\* A statement that is fetched is the one at the pc, and a program only grows.
LEMMA FetchMeans ==
  ASSUME ManTypes, manPc = "eval", TopInside, NEW s \in Statements, Fetch(s)
  PROVE  /\ program' \in [Modules -> Seq(Statements)]
         /\ \A m \in Modules : /\ Len(program[m]) <= Len(program'[m])
                               /\ \A i \in 1..Len(program[m]) : program'[m][i] = program[m][i]
         /\ Top.pc \in 1..Len(program'[Top.module]) /\ program'[Top.module][Top.pc] = s
         /\ \A m \in Modules : \A i \in DOMAIN program'[m] :
              \/ i \in DOMAIN program[m] /\ program'[m][i] = program[m][i]
              \/ program'[m][i] = s /\ (s.op = "call" => s.link \in {0} \cup Handles)
<1> DEFINE t == Top.module
<1>1. Top \in ManFrame /\ t \in Modules /\ Top.pc \in Nat \ {0}
  <2>1. frames \in Seq(ManFrame) /\ frames # << >>  BY DEF ManTypes
  <2>2. Len(frames) \in DOMAIN frames /\ frames[Len(frames)] \in ManFrame  BY <2>1
  <2> QED  BY <2>2 DEF Top, ManFrame
<1>2. program \in [Modules -> Seq(Statements)] /\ program[t] \in Seq(Statements) /\ Len(program[t]) \in Nat
  BY <1>1 DEF ManTypes
<1>3. CASE Top.pc <= Len(program[t])
  <2>1. s = program[t][Top.pc] /\ program' = program  BY <1>3 DEF Fetch
  <2> QED  BY <1>1, <1>2, <1>3, <2>1
<1>4. CASE ~(Top.pc <= Len(program[t]))
  <2>1. /\ program' = [program EXCEPT ![t] = Append(@, s)]
        /\ s.op = "call" => s.link \in {0} \cup Handles
    BY <1>4 DEF Fetch
  <2>2. Top.pc = Len(program[t]) + 1  BY <1>1, <1>2, <1>4 DEF TopInside
  <2>3. program'[t] = Append(program[t], s) /\ \A m \in Modules \ {t} : program'[m] = program[m]
    BY <1>1, <1>2, <2>1
  <2>4. /\ Append(program[t], s) \in Seq(Statements) /\ Len(Append(program[t], s)) = Len(program[t]) + 1
        /\ \A i \in 1..Len(program[t]) : Append(program[t], s)[i] = program[t][i]
        /\ Append(program[t], s)[Len(program[t]) + 1] = s
    BY <1>2
  <2>5. program' \in [Modules -> Seq(Statements)]  BY <1>1, <1>2, <2>1, <2>4
  <2>6. ASSUME NEW m \in Modules
        PROVE  /\ Len(program[m]) <= Len(program'[m])
               /\ \A i \in 1..Len(program[m]) : program'[m][i] = program[m][i]
    <3>1. Len(program[m]) \in Nat  BY <1>2
    <3>2. CASE m = t  BY <1>2, <2>3, <2>4, <3>2
    <3>3. CASE m # t  BY <2>3, <2>6, <3>1, <3>3
    <3> QED  BY <3>2, <3>3
  <2>7. Top.pc \in 1..Len(program'[t]) /\ program'[t][Top.pc] = s
    BY <1>1, <1>2, <2>2, <2>3, <2>4
  <2>8. ASSUME NEW m \in Modules, NEW i \in DOMAIN program'[m]
        PROVE  \/ i \in DOMAIN program[m] /\ program'[m][i] = program[m][i]
               \/ program'[m][i] = s
    <3>1. CASE m # t  BY <2>3, <3>1
    <3>2. CASE m = t
      <4>1. i \in 1..(Len(program[t]) + 1) /\ DOMAIN program[t] = 1..Len(program[t])  BY <1>2, <2>3, <2>4, <3>2
      <4> QED  BY <1>2, <2>3, <2>4, <3>2, <4>1
    <3> QED  BY <3>1, <3>2
  <2> QED  BY <2>1, <2>5, <2>6, <2>7, <2>8
<1> QED  BY <1>3, <1>4

\* A statement is passed: only the pc of the top frame moves.
LEMMA AdvanceMeans ==
  ASSUME ManTypes, manPc = "eval", Advance
  PROVE  /\ Len(frames) \in Nat \ {0} /\ Len(frames') = Len(frames) /\ frames' \in Seq(ManFrame)
         /\ DOMAIN frames = 1..Len(frames) /\ DOMAIN frames' = 1..Len(frames)
         /\ \A k \in 1..Len(frames) : frames'[k].module = frames[k].module
         /\ \A k \in 1..(Len(frames) - 1) : frames'[k] = frames[k]
         /\ frames'[Len(frames)].pc = Top.pc + 1 /\ Top.module = frames[Len(frames)].module
         /\ frames' # << >>
<1> DEFINE n == Len(frames)
<1>1. n \in Nat \ {0} /\ DOMAIN frames = 1..n /\ frames \in Seq(ManFrame) /\ frames[n] \in ManFrame  BY DEF ManTypes
<1>2. frames' = [frames EXCEPT ![n] = [frames[n] EXCEPT !.pc = @ + 1]]  BY <1>1 DEF Advance
<1>3. [frames[n] EXCEPT !.pc = @ + 1] \in ManFrame  BY <1>1 DEF ManFrame
<1>4. /\ [frames[n] EXCEPT !.pc = @ + 1].module = frames[n].module
      /\ [frames[n] EXCEPT !.pc = @ + 1].pc = frames[n].pc + 1
  BY <1>1 DEF ManFrame
<1>5. frames' \in Seq(ManFrame) /\ Len(frames') = n /\ DOMAIN frames' = 1..n
  BY <1>1, <1>2, <1>3
<1>6. frames'[n] = [frames[n] EXCEPT !.pc = @ + 1] /\ \A k \in 1..(n - 1) : frames'[k] = frames[k]
  BY <1>1, <1>2
<1> HIDE DEF n
<1>7. \A k \in 1..n : k = n \/ k \in 1..(n - 1)  BY <1>1
<1>8. \A k \in 1..n : frames'[k].module = frames[k].module  BY <1>4, <1>6, <1>7
<1> QED  BY <1>1, <1>4, <1>5, <1>6, <1>8 DEF Top, n

\* A statement that loads nothing new is passed. If the top module is on the
\* stack below as well, that one is at a load of a module still open, so this
\* was not the statement where it is.
LEMMA AdvanceKeepsStack ==
  ASSUME ManTypes, StackInv, manPc = "eval", NEW s \in Statements, Fetch(s), Advance,
         ~(s.op = "load" /\ s.path \in Modules \ loaded), UNCHANGED <<loaded, evals>>
  PROVE  StackInv'
<1> DEFINE n == Len(frames)
           t == Top.module
<1>0. TopInside /\ StackLoads /\ StackRepeats /\ StackOpen /\ EvalsCounted  BY DEF StackInv
<1>1. /\ n \in Nat \ {0} /\ Len(frames') = n /\ frames' \in Seq(ManFrame)
      /\ DOMAIN frames = 1..n /\ DOMAIN frames' = 1..n
      /\ \A k \in 1..n : frames'[k].module = frames[k].module
      /\ \A k \in 1..(n - 1) : frames'[k] = frames[k]
      /\ frames'[n].pc = Top.pc + 1 /\ t = frames[n].module /\ Top = frames[n]
  BY AdvanceMeans DEF Top
<1>2. /\ program' \in [Modules -> Seq(Statements)]
      /\ \A m \in Modules : /\ Len(program[m]) <= Len(program'[m])
                            /\ \A i \in 1..Len(program[m]) : program'[m][i] = program[m][i]
      /\ Top.pc \in 1..Len(program'[t]) /\ program'[t][Top.pc] = s
  BY <1>0, FetchMeans
<1>3. \A k \in 1..n : frames[k] \in ManFrame /\ frames[k].module \in Modules /\ frames[k].pc \in Nat \ {0}
  <2>1. frames \in Seq(ManFrame)  BY DEF ManTypes
  <2>2. \A k \in 1..n : frames[k] \in ManFrame  BY <1>1, <2>1
  <2> QED  BY <2>2 DEF ManFrame
<1>4. \A m \in Modules : Len(program[m]) \in Nat /\ Len(program'[m]) \in Nat
  BY <1>2 DEF ManTypes
<1> HIDE DEF n, t
<1>5. StackLoads'
  <2>1. ASSUME NEW k \in 1..(n - 1)
        PROVE  /\ frames'[k].pc \in 1..Len(program'[frames'[k].module])
               /\ program'[frames'[k].module][frames'[k].pc].op = "load"
               /\ program'[frames'[k].module][frames'[k].pc].path = frames'[k + 1].module
    <3>1. k \in 1..n /\ k + 1 \in 1..n  BY <1>1
    <3>2. frames'[k] = frames[k] /\ frames'[k + 1].module = frames[k + 1].module /\ frames[k].module \in Modules
      BY <1>1, <1>3, <2>1, <3>1
    <3>3. /\ frames[k].pc \in 1..Len(program[frames[k].module])
          /\ program[frames[k].module][frames[k].pc].op = "load"
          /\ program[frames[k].module][frames[k].pc].path = frames[k + 1].module
      BY <1>0, <1>1 DEF StackLoads, n
    <3>4. program'[frames[k].module][frames[k].pc] = program[frames[k].module][frames[k].pc]
      BY <1>2, <3>2, <3>3
    <3>5. frames[k].pc \in 1..Len(program'[frames[k].module])
      BY <1>2, <1>4, <3>2, <3>3
    <3> QED  BY <3>2, <3>3, <3>4, <3>5
  <2> QED  BY <1>1, <2>1 DEF StackLoads
<1>6. TopInside'
  <2>1. Top' = frames'[n] /\ frames'[n].module = t /\ t \in Modules  BY <1>1, <1>3 DEF Top
  <2> QED  BY <1>1, <1>2, <1>4, <2>1 DEF TopInside
<1>7. StackRepeats'
  <2>1. ASSUME NEW i \in 1..n, NEW j \in 1..n, i < j, frames'[i].module = frames'[j].module
        PROVE  frames'[j].pc <= frames'[i].pc
    <3>1. i \in 1..(n - 1) /\ frames'[i] = frames[i] /\ frames[i].module = frames[j].module /\ frames[j].pc <= frames[i].pc
      <4>1. i \in 1..(n - 1)  BY <1>1, <2>1
      <4>2. frames[i].module = frames[j].module  BY <1>1, <2>1
      <4> QED  BY <1>0, <1>1, <2>1, <4>1, <4>2 DEF StackRepeats
    <3>2. CASE j # n
      <4>1. j \in 1..(n - 1)  BY <1>1, <3>2
      <4> QED  BY <1>1, <3>1, <4>1
    <3>3. CASE j = n
      <4>1. frames[i].pc # frames[n].pc
        <5> SUFFICES ASSUME frames[i].pc = frames[n].pc  PROVE FALSE  OBVIOUS
        <5>1. /\ frames[i].pc \in 1..Len(program[frames[i].module])
              /\ program[frames[i].module][frames[i].pc].op = "load"
              /\ program[frames[i].module][frames[i].pc].path = frames[i + 1].module
          BY <1>0, <3>1 DEF StackLoads, n
        <5>2. frames[i].module = t /\ frames[i].pc = Top.pc /\ t \in Modules  BY <1>1, <1>3, <3>1, <3>3
        <5>3. program[t][Top.pc] = s  BY <1>2, <5>1, <5>2
        <5>4. i + 1 \in 1..n  BY <1>1, <3>1
        <5>5. frames[i + 1].module \in Modules \ loaded  BY <1>0, <1>1, <1>3, <5>4 DEF StackOpen
        <5> QED  BY <5>1, <5>2, <5>3, <5>5
      <4>2. frames[i].pc \in Nat /\ frames[n].pc \in Nat /\ frames[n].pc <= frames[i].pc  BY <1>1, <1>3, <3>1, <3>3
      <4>3. frames[n].pc + 1 <= frames[i].pc  BY <4>1, <4>2
      <4> QED  BY <1>1, <3>1, <3>3, <4>3
    <3> QED  BY <3>2, <3>3
  <2> QED  BY <1>1, <2>1 DEF StackRepeats
<1>8. StackOpen'  BY <1>0, <1>1 DEF StackOpen
<1>9. EvalsCounted'
  <2>1. Cyclic => Cyclic'  BY <1>1 DEF Cyclic
  <2>2. ASSUME NEW m, \E k \in DOMAIN frames : frames[k].module = m  PROVE \E k \in DOMAIN frames' : frames'[k].module = m
    BY <1>1, <2>2
  <2> QED  BY <1>0, <2>1, <2>2 DEF EvalsCounted
<1> QED  BY <1>5, <1>6, <1>7, <1>8, <1>9 DEF StackInv

\* A module that is not in the cache is evaluated, be it on the stack already.
LEMMA LoadKeepsStack ==
  ASSUME ManTypes, StackInv, manPc = "eval", NEW s \in Statements, LoadRoleOrLib(s), UNCHANGED manPc
  PROVE  StackInv' /\ frames' \in Seq(ManFrame) /\ evals' \in [Modules -> Nat] /\ frames' # << >>
<1> DEFINE n == Len(frames)
           t == Top.module
           f == [module |-> s.path, pc |-> 1]
<1>0. TopInside /\ StackLoads /\ StackRepeats /\ StackOpen /\ EvalsCounted  BY DEF StackInv
<1>1. /\ Fetch(s) /\ s.op = "load" /\ s.path \in Modules \ loaded /\ UNCHANGED loaded
      /\ frames' = Append(frames, f) /\ evals' = [evals EXCEPT ![s.path] = @ + 1]
  BY DEF LoadRoleOrLib, ManEnd
<1>2. /\ program' \in [Modules -> Seq(Statements)]
      /\ \A m \in Modules : /\ Len(program[m]) <= Len(program'[m])
                            /\ \A i \in 1..Len(program[m]) : program'[m][i] = program[m][i]
      /\ Top.pc \in 1..Len(program'[t]) /\ program'[t][Top.pc] = s
  BY <1>0, <1>1, FetchMeans
<1>3. frames \in Seq(ManFrame) /\ n \in Nat \ {0} /\ DOMAIN frames = 1..n /\ Top = frames[n]
  BY DEF ManTypes, Top
<1>4. f \in ManFrame  BY <1>1 DEF ManFrame
<1> HIDE DEF f
<1>5. /\ frames' \in Seq(ManFrame) /\ Len(frames') = n + 1 /\ DOMAIN frames' = 1..(n + 1) /\ frames' # << >>
      /\ \A k \in 1..n : frames'[k] = frames[k]
      /\ frames'[n + 1] = f
  BY <1>1, <1>3, <1>4
<1>6. \A k \in 1..n : frames[k].module \in Modules /\ frames[k].pc \in Nat \ {0}
  <2>1. \A k \in 1..n : frames[k] \in ManFrame  BY <1>3
  <2> QED  BY <2>1 DEF ManFrame
<1>7. \A m \in Modules : Len(program[m]) \in Nat /\ Len(program'[m]) \in Nat
  BY <1>2 DEF ManTypes
<1>8. f.module = s.path /\ f.pc = 1  BY DEF f
<1> HIDE DEF n, t
<1>9. t \in Modules /\ t = frames[n].module  BY <1>3, <1>6 DEF t
<1>10. evals' \in [Modules -> Nat] /\ evals'[s.path] = evals[s.path] + 1
       /\ \A m \in Modules \ {s.path} : evals'[m] = evals[m]
  BY <1>1 DEF ManTypes
<1>11. StackLoads'
  <2>1. ASSUME NEW k \in 1..n
        PROVE  /\ frames'[k].pc \in 1..Len(program'[frames'[k].module])
               /\ program'[frames'[k].module][frames'[k].pc].op = "load"
               /\ program'[frames'[k].module][frames'[k].pc].path = frames'[k + 1].module
    <3>1. CASE k = n
      BY <1>1, <1>2, <1>3, <1>5, <1>8, <1>9, <2>1, <3>1
    <3>2. CASE k # n
      <4>1. k \in 1..(n - 1) /\ k + 1 \in 1..n  BY <1>3, <3>2
      <4>2. frames'[k] = frames[k] /\ frames'[k + 1] = frames[k + 1] /\ frames[k].module \in Modules
        BY <1>5, <1>6, <2>1, <4>1
      <4>3. /\ frames[k].pc \in 1..Len(program[frames[k].module])
            /\ program[frames[k].module][frames[k].pc].op = "load"
            /\ program[frames[k].module][frames[k].pc].path = frames[k + 1].module
        BY <1>0, <4>1 DEF StackLoads, n
      <4>4. program'[frames[k].module][frames[k].pc] = program[frames[k].module][frames[k].pc]
        BY <1>2, <4>2, <4>3
      <4>5. frames[k].pc \in 1..Len(program'[frames[k].module])
        BY <1>2, <1>7, <4>2, <4>3
      <4> QED  BY <4>2, <4>3, <4>4, <4>5
    <3> QED  BY <3>1, <3>2
  <2>2. Len(frames') - 1 = n  BY <1>3, <1>5
  <2> QED  BY <2>1, <2>2 DEF StackLoads
<1>12. TopInside'
  <2>1. Top' = f  BY <1>5 DEF Top
  <2>2. s.path \in Modules  BY <1>1
  <2> QED  BY <1>7, <1>8, <2>1, <2>2 DEF TopInside
<1>13. StackRepeats'
  <2>1. ASSUME NEW i \in 1..(n + 1), NEW j \in 1..(n + 1), i < j, frames'[i].module = frames'[j].module
        PROVE  frames'[j].pc <= frames'[i].pc
    <3>1. i \in 1..n /\ frames'[i] = frames[i] /\ frames[i].pc \in Nat \ {0}  BY <1>3, <1>5, <1>6, <2>1
    <3>2. CASE j = n + 1  BY <1>5, <1>8, <3>1, <3>2
    <3>3. CASE j \in 1..n  BY <1>0, <1>3, <1>5, <2>1, <3>1, <3>3 DEF StackRepeats
    <3> QED  BY <1>3, <3>2, <3>3
  <2> QED  BY <1>5, <2>1 DEF StackRepeats
<1>14. StackOpen'
  <2>1. ASSUME NEW k \in 1..(n + 1)  PROVE frames'[k].module \notin loaded
    <3>1. CASE k = n + 1  BY <1>1, <1>5, <1>8, <3>1
    <3>2. CASE k \in 1..n  BY <1>0, <1>3, <1>5, <3>2 DEF StackOpen
    <3> QED  BY <1>3, <3>1, <3>2
  <2> QED  BY <1>1, <1>5, <2>1 DEF StackOpen
<1>15. EvalsCounted'
  <2>1. CASE Cyclic
    <3>1. Cyclic'
      <4>1. PICK i \in 1..n, j \in 1..n : i < j /\ frames[i].module = frames[j].module  BY <1>3, <2>1 DEF Cyclic
      <4>2. i \in DOMAIN frames' /\ j \in DOMAIN frames'  BY <1>3, <1>5
      <4> QED  BY <1>5, <4>1, <4>2 DEF Cyclic
    <3> QED  BY <3>1 DEF EvalsCounted
  <2>2. CASE ~Cyclic /\ \E k \in 1..n : frames[k].module = s.path
    <3>1. PICK k \in 1..n : frames[k].module = s.path  BY <2>2
    <3>2. k \in DOMAIN frames' /\ n + 1 \in DOMAIN frames' /\ k < n + 1  BY <1>3, <1>5
    <3>3. Cyclic'  BY <1>5, <1>8, <3>1, <3>2 DEF Cyclic
    <3> QED  BY <3>3 DEF EvalsCounted
  <2>3. CASE ~Cyclic /\ ~\E k \in 1..n : frames[k].module = s.path
    <3>1. \A m \in Modules : /\ evals[m] <= 1
                             /\ evals[m] = 1 => m \in loaded \/ \E k \in 1..n : frames[k].module = m
      BY <1>0, <1>3, <2>3 DEF EvalsCounted
    <3>2. evals[s.path] \in Nat /\ evals[s.path] <= 1 /\ evals[s.path] # 1  BY <1>1, <2>3, <3>1 DEF ManTypes
    <3>3. evals'[s.path] = 1  BY <1>10, <3>2
    <3>4. ASSUME NEW m \in Modules
          PROVE  evals'[m] <= 1 /\ (evals'[m] = 1 => m \in loaded' \/ \E k \in DOMAIN frames' : frames'[k].module = m)
      <4>1. CASE m = s.path
        <5>1. n + 1 \in DOMAIN frames' /\ frames'[n + 1].module = m  BY <1>3, <1>5, <1>8, <4>1
        <5> QED  BY <3>3, <4>1, <5>1
      <4>2. CASE m # s.path
        <5>1. evals'[m] = evals[m]  BY <1>10, <4>2
        <5>2. ASSUME NEW k \in 1..n, frames[k].module = m  PROVE \E l \in DOMAIN frames' : frames'[l].module = m
          <6>1. k \in DOMAIN frames'  BY <1>3, <1>5
          <6> QED  BY <1>5, <5>2, <6>1
        <5> QED  BY <1>1, <3>1, <5>1, <5>2
      <4> QED  BY <4>1, <4>2
    <3> QED  BY <3>4 DEF EvalsCounted
  <2> QED  BY <2>1, <2>2, <2>3
<1> QED  BY <1>5, <1>10, <1>11, <1>12, <1>13, <1>14, <1>15 DEF StackInv

\* A module ends: it is not on the stack below, or it would have stopped at
\* the load where it is there.
LEMMA EndModuleKeepsStack ==
  ASSUME ManTypes, StackInv, EndModule
  PROVE  StackInv' /\ frames' \in Seq(ManFrame) /\ frames' # << >> /\ loaded' \subseteq Modules
<1> DEFINE n == Len(frames)
           t == Top.module
           below == SubSeq(frames, 1, n - 1)
           next == [frames[n - 1] EXCEPT !.pc = @ + 1]
<1>0. TopInside /\ StackLoads /\ StackRepeats /\ StackOpen /\ EvalsCounted  BY DEF StackInv
<1>1. /\ n > 1 /\ Top.pc > Len(program[t]) /\ loaded' = loaded \cup {t} /\ UNCHANGED <<program, evals>>
      /\ frames' = [below EXCEPT ![n - 1].pc = @ + 1]
  BY DEF EndModule
<1>2. frames \in Seq(ManFrame) /\ n \in Nat \ {0, 1} /\ DOMAIN frames = 1..n /\ Top = frames[n]
  BY <1>1 DEF ManTypes, Top
<1>3. \A k \in 1..n : frames[k] \in ManFrame /\ frames[k].module \in Modules /\ frames[k].pc \in Nat \ {0}
  <2>1. \A k \in 1..n : frames[k] \in ManFrame  BY <1>2
  <2> QED  BY <2>1 DEF ManFrame
<1>4. below \in Seq(ManFrame) /\ Len(below) = n - 1 /\ DOMAIN below = 1..(n - 1) /\ \A k \in 1..(n - 1) : below[k] = frames[k]
  BY <1>2
<1> HIDE DEF below
<1>5. n - 1 \in 1..n /\ n - 1 \in 1..(n - 1) /\ n \in 1..n  BY <1>2
<1>6. next \in ManFrame /\ next.module = frames[n - 1].module /\ next.pc = frames[n - 1].pc + 1
  BY <1>3, <1>5 DEF ManFrame
<1>7. frames' = [below EXCEPT ![n - 1] = next]
  BY <1>1, <1>4, <1>5
<1> HIDE DEF next
<1>8. /\ frames' \in Seq(ManFrame) /\ Len(frames') = n - 1 /\ DOMAIN frames' = 1..(n - 1)
      /\ frames'[n - 1] = next
  BY <1>4, <1>5, <1>6, <1>7
<1>9. ASSUME NEW k \in 1..(n - 1), k # n - 1  PROVE frames'[k] = frames[k]
  BY <1>4, <1>7, <1>9
<1>10. \A k \in 1..(n - 1) : frames'[k].module = frames[k].module  BY <1>6, <1>8, <1>9
<1>11. \A m \in Modules : Len(program[m]) \in Nat  BY DEF ManTypes
<1> HIDE DEF n
<1>12. t \in Modules /\ t = frames[n].module  BY <1>2, <1>3, <1>5
<1> HIDE DEF t
<1>13. ASSUME NEW i \in 1..(n - 1)  PROVE frames[i].module # t
  <2> SUFFICES ASSUME frames[i].module = t  PROVE FALSE  OBVIOUS
  <2>1. frames[i].pc \in 1..Len(program[t])  BY <1>0, <1>13 DEF StackLoads, n
  <2>2. i \in 1..n /\ i < n  BY <1>2, <1>13
  <2>3. frames[n].pc <= frames[i].pc  BY <1>0, <1>2, <1>5, <1>12, <2>2 DEF StackRepeats
  <2>4. frames[n].pc \in Nat /\ Len(program[t]) \in Nat  BY <1>3, <1>5, <1>11, <1>12
  <2> QED  BY <1>1, <1>2, <2>1, <2>3, <2>4
<1>14. StackLoads'
  <2>1. ASSUME NEW k \in 1..(n - 2)
        PROVE  /\ frames'[k].pc \in 1..Len(program[frames'[k].module])
               /\ program[frames'[k].module][frames'[k].pc].op = "load"
               /\ program[frames'[k].module][frames'[k].pc].path = frames'[k + 1].module
    <3>1. k \in 1..(n - 1) /\ k # n - 1 /\ k + 1 \in 1..(n - 1)  BY <1>2
    <3>2. frames'[k] = frames[k] /\ frames'[k + 1].module = frames[k + 1].module  BY <1>9, <1>10, <3>1
    <3> QED  BY <1>0, <3>1, <3>2 DEF StackLoads, n
  <2>2. Len(frames') - 1 = n - 2 /\ program' = program  BY <1>1, <1>2, <1>8
  <2> QED  BY <2>1, <2>2 DEF StackLoads
<1>15. TopInside'
  <2>1. Top' = next  BY <1>8 DEF Top
  <2>2. frames[n - 1].pc \in 1..Len(program[frames[n - 1].module])  BY <1>0, <1>5 DEF StackLoads, n
  <2>3. frames[n - 1].module \in Modules /\ frames[n - 1].pc \in Nat  BY <1>3, <1>5
  <2> QED  BY <1>1, <1>6, <1>11, <2>1, <2>2, <2>3 DEF TopInside
<1>16. StackRepeats'
  <2>1. ASSUME NEW i \in 1..(n - 1), NEW j \in 1..(n - 1), i < j, frames'[i].module = frames'[j].module
        PROVE  frames'[j].pc <= frames'[i].pc
    <3>1. i # n - 1 /\ i \in 1..n /\ j \in 1..n /\ i \in 1..(n - 2)  BY <1>2, <2>1
    <3>2. frames'[i] = frames[i] /\ frames[i].module = frames[j].module /\ frames[j].pc <= frames[i].pc
      <4>1. frames[i].module = frames[j].module  BY <1>10, <2>1
      <4> QED  BY <1>0, <1>2, <1>9, <2>1, <3>1, <4>1 DEF StackRepeats
    <3>3. CASE j # n - 1  BY <1>9, <3>2, <3>3
    <3>4. CASE j = n - 1
      <4>1. frames[i].pc # frames[n - 1].pc
        <5> SUFFICES ASSUME frames[i].pc = frames[n - 1].pc  PROVE FALSE  OBVIOUS
        <5>1. program[frames[i].module][frames[i].pc].path = frames[i + 1].module  BY <1>0, <2>1 DEF StackLoads, n
        <5>2. program[frames[n - 1].module][frames[n - 1].pc].path = frames[n].module
          <6>1. (n - 1) + 1 = n  BY <1>2
          <6> QED  BY <1>0, <1>5, <6>1 DEF StackLoads, n
        <5>3. frames[i + 1].module = t  BY <1>12, <3>2, <3>4, <5>1, <5>2
        <5>4. i + 1 \in 1..(n - 1)  BY <1>2, <3>1
        <5> QED  BY <1>13, <5>3, <5>4
      <4>2. frames[i].pc \in Nat /\ frames[n - 1].pc \in Nat  BY <1>3, <1>5, <3>1
      <4> QED  BY <1>6, <1>8, <3>2, <3>4, <4>1, <4>2
    <3> QED  BY <3>3, <3>4
  <2> QED  BY <1>8, <2>1 DEF StackRepeats
<1>17. StackOpen'
  <2>1. ASSUME NEW k \in 1..(n - 1)  PROVE frames'[k].module \notin loaded \cup {t}
    <3>1. k \in 1..n  BY <1>2
    <3> QED  BY <1>0, <1>2, <1>10, <1>13, <3>1 DEF StackOpen
  <2> QED  BY <1>1, <1>8, <2>1 DEF StackOpen
<1>18. EvalsCounted'
  <2>1. CASE Cyclic
    <3>1. PICK i \in 1..n, j \in 1..n : i < j /\ frames[i].module = frames[j].module  BY <1>2, <2>1 DEF Cyclic
    <3>2. i \in 1..(n - 1)  BY <1>2, <3>1
    <3>3. j # n  BY <1>12, <1>13, <3>1, <3>2
    <3>4. j \in 1..(n - 1)  BY <1>2, <3>3
    <3>5. Cyclic'  BY <1>8, <1>10, <3>1, <3>2, <3>4 DEF Cyclic
    <3> QED  BY <3>5 DEF EvalsCounted
  <2>2. CASE ~Cyclic
    <3>1. ASSUME NEW m \in Modules
          PROVE  evals'[m] <= 1 /\ (evals'[m] = 1 => m \in loaded' \/ \E k \in DOMAIN frames' : frames'[k].module = m)
      <4>1. evals[m] <= 1 /\ (evals[m] = 1 => m \in loaded \/ \E k \in 1..n : frames[k].module = m)
        BY <1>0, <1>2, <2>2 DEF EvalsCounted
      <4>2. ASSUME NEW k \in 1..n, frames[k].module = m  PROVE m \in loaded' \/ \E l \in DOMAIN frames' : frames'[l].module = m
        <5>1. CASE k = n  BY <1>1, <1>12, <4>2, <5>1
        <5>2. CASE k # n
          <6>1. k \in 1..(n - 1)  BY <1>2, <5>2
          <6> QED  BY <1>8, <1>10, <4>2, <6>1
        <5> QED  BY <5>1, <5>2
      <4> QED  BY <1>1, <4>1, <4>2
    <3> QED  BY <3>1 DEF EvalsCounted
  <2> QED  BY <2>1, <2>2
<1>19. frames' # << >> /\ loaded' \subseteq Modules  BY <1>1, <1>2, <1>8, <1>12 DEF ManTypes
<1> QED  BY <1>8, <1>14, <1>15, <1>16, <1>17, <1>18, <1>19 DEF StackInv

\* The programs grow and the resources stay: the links are known.
LEMMA LinksStay ==
  ASSUME ManTypes, manPc = "eval", TopInside, LinksKnown, NEW s \in Statements, Fetch(s), Handles \subseteq Handles'
  PROVE  LinksKnown'
<1>1. ASSUME NEW m \in Modules, NEW i \in DOMAIN program'[m], program'[m][i].op = "call"
      PROVE  program'[m][i].link \in {0} \cup Handles'
  <2>1. \/ i \in DOMAIN program[m] /\ program'[m][i] = program[m][i]
        \/ program'[m][i] = s /\ (s.op = "call" => s.link \in {0} \cup Handles)
    BY FetchMeans
  <2> QED  BY <1>1, <2>1 DEF LinksKnown
<1> QED  BY <1>1 DEF LinksKnown

\* registry.add of a resource whose id is new, with its contents put away.
LEMMA AddKeepsWhole ==
  ASSUME ManTypes, raised = "none", EntriesWhole, NEW r \in ManResource,
         \A i \in DOMAIN entries : entries[i].id # r.id,
         r.link \in {0} \cup Handles, entries' = Append(entries, r),
         IF r.id[1] = "file.content" THEN SensitivePut(r.id, r.sha) ELSE UNCHANGED secrets
  PROVE  entries' \in Seq(ManResource) /\ Handles \subseteq Handles' /\ EntriesWhole'
<1> DEFINE n == Len(entries)
<1>1. entries \in Seq(ManResource) /\ n \in Nat /\ DOMAIN entries = 1..n  BY DEF ManTypes
<1>2. /\ entries' \in Seq(ManResource) /\ Len(entries') = n + 1 /\ DOMAIN entries' = 1..(n + 1)
      /\ \A i \in 1..n : entries'[i] = entries[i]
      /\ entries'[n + 1] = r
  BY <1>1
<1> HIDE DEF n
<1>3. Handles \subseteq Handles'
  <2>1. ASSUME NEW i \in 1..n  PROVE entries[i].id[2] \in Handles'
    <3>1. i \in DOMAIN entries' /\ entries'[i] = entries[i]  BY <1>1, <1>2
    <3> QED  BY <3>1 DEF Handles
  <2> QED  BY <1>1, <2>1 DEF Handles
<1>4. ASSUME NEW i \in 1..n  PROVE WholeEntry(i)'
  <2>1. WholeEntry(i) /\ entries'[i] = entries[i] /\ entries[i].id # r.id  BY <1>1, <1>2, <1>4 DEF EntriesWhole
  <2>2. {p \in secrets' : p[1] = entries[i].id} = {p \in secrets : p[1] = entries[i].id}
    <3>1. CASE r.id[1] = "file.content"
      <4>1. secrets' = {p \in secrets : p[1] # r.id} \cup {<<r.id, r.sha>>}  BY <3>1 DEF SensitivePut
      <4> QED  BY <2>1, <4>1
    <3>2. CASE r.id[1] # "file.content"  BY <3>2
    <3> QED  BY <3>1, <3>2
  <2>3. ASSUME NEW j \in 1..(i - 1)  PROVE entries'[j] = entries[j]
    <3>1. j \in 1..n  BY <1>1, <1>4, <2>3
    <3> QED  BY <1>2, <3>1
  <2> QED  BY <2>1, <2>2, <2>3 DEF WholeEntry
<1>5. ASSUME NEW i \in 1..(n + 1), i = n + 1  PROVE WholeEntry(i)'
  <2>1. r.id[1] = "file.content" => {p \in secrets' : p[1] = r.id} = {<<r.id, r.sha>>}
    <3> SUFFICES ASSUME r.id[1] = "file.content"  PROVE {p \in secrets' : p[1] = r.id} = {<<r.id, r.sha>>}  OBVIOUS
    <3>1. secrets' = {p \in secrets : p[1] # r.id} \cup {<<r.id, r.sha>>}  BY DEF SensitivePut
    <3> QED  BY <3>1
  <2>2. r.link # 0 => \E j \in 1..n : entries[j].id[2] = r.link  BY <1>1 DEF Handles
  <2>3. i - 1 = n /\ entries'[i] = r  BY <1>1, <1>2, <1>5
  <2>4. r.link # 0 => \E j \in 1..(i - 1) : entries'[j].id[2] = r.link  BY <1>2, <2>2, <2>3
  <2> QED  BY <2>1, <2>3, <2>4 DEF WholeEntry
<1>6. EntriesWhole'
  <2>1. \A i \in 1..(n + 1) : i \in 1..n \/ i = n + 1  BY <1>1
  <2> QED  BY <1>2, <1>4, <1>5, <2>1 DEF EntriesWhole
<1> QED  BY <1>2, <1>3, <1>6

\* The calls of a statement leave the registry whole, unless they raise.
LEMMA CallsKeepWhole ==
  ASSUME ManTypes, raised = "none", EntriesWhole, NEW s \in Statements,
         s.op = "call" => s.link \in {0} \cup Handles,
         \/ RegisterPrimitiveCall(s) \/ DispatchUnit(s) \/ Template(s) \/ RequireOneOf(s)
         \/ InventoryRead(s) \/ Import(s) \/ Load(s)
  PROVE  entries' \in Seq(ManResource) /\ Handles \subseteq Handles' /\ EntriesWhole'
<1>0. entries \in Seq(ManResource)  BY DEF ManTypes
<1>1. CASE UNCHANGED <<entries, secrets>>
  <2>1. Handles' = Handles  BY <1>1 DEF Handles
  <2> QED  BY <1>0, <1>1, <2>1 DEF EntriesWhole, WholeEntry
<1>2. CASE UNCHANGED entries /\ raised' # "none"
  <2>1. Handles' = Handles  BY <1>2 DEF Handles
  <2> QED  BY <1>0, <1>2, <2>1 DEF EntriesWhole
<1>3. CASE RegisterPrimitiveCall(s)
  <2> DEFINE r == [id |-> <<s.kind, s.id>>, sha |-> s.contents, link |-> s.link]
  <2>1. s.op = "call"  BY <1>3 DEF RegisterPrimitiveCall
  <2>2. /\ s.kind \in {"file.content", "apt.package"} /\ s.id \in Ids
        /\ s.contents \in ContentsOf /\ s.link \in {0} \cup Ids
    BY <2>1, StatementShape
  <2>3. r \in ManResource /\ r.id = <<s.kind, s.id>> /\ r.id[1] = s.kind /\ r.sha = s.contents /\ r.link = s.link
    BY <2>2 DEF ManResource
  <2>4. \/ RecordInvalidCall
        \/ Raise("UnknownPrimitive", TRUE) /\ UNCHANGED <<entries, secrets>>
        \/ Raise("Eval", FALSE) /\ UNCHANGED <<entries, secrets>>
        \/ /\ IF s.kind = "file.content" THEN SensitivePut(<<s.kind, s.id>>, s.contents) ELSE UNCHANGED secrets
           /\ AddResource(r)
    BY <1>3 DEF RegisterPrimitiveCall
  <2> HIDE DEF r
  <2>5. CASE RecordInvalidCall  BY <1>2, <2>5 DEF RecordInvalidCall, Raise
  <2>6. CASE Raise("UnknownPrimitive", TRUE) /\ UNCHANGED <<entries, secrets>>  BY <1>1, <2>6
  <2>8. CASE Raise("Eval", FALSE) /\ UNCHANGED <<entries, secrets>>  BY <1>1, <2>8
  <2>7. CASE /\ IF s.kind = "file.content" THEN SensitivePut(<<s.kind, s.id>>, s.contents) ELSE UNCHANGED secrets
             /\ AddResource(r)
    <3>1. CASE \E i \in DOMAIN entries : entries[i].id = r.id
      BY <1>2, <2>7, <3>1 DEF AddResource, RecordInvalidCall, Raise
    <3>2. CASE ~\E i \in DOMAIN entries : entries[i].id = r.id
      <4>1. entries' = Append(entries, r) /\ \A i \in DOMAIN entries : entries[i].id # r.id
        BY <2>7, <3>2 DEF AddResource
      <4>2. IF r.id[1] = "file.content" THEN SensitivePut(r.id, r.sha) ELSE UNCHANGED secrets
        BY <2>3, <2>7
      <4>3. r.link \in {0} \cup Handles  BY <2>1, <2>3
      <4> QED  BY <2>3, <4>1, <4>2, <4>3, AddKeepsWhole
    <3> QED  BY <3>1, <3>2
  <2> QED  BY <2>4, <2>5, <2>6, <2>7, <2>8
<1>4. CASE DispatchUnit(s)
  <2> DEFINE r == [id |-> <<"systemd.service", 1>>, sha |-> "x", link |-> 0]
  <2>1. r \in ManResource /\ r.id = <<"systemd.service", 1>> /\ r.id[1] = "systemd.service" /\ r.link = 0
    BY DEF ManResource, Ids, ContentsOf
  <2>2. UNCHANGED secrets /\ (AddResource(r) \/ UNCHANGED entries)
    BY <1>4 DEF DispatchUnit
  <2> HIDE DEF r
  <2>3. CASE UNCHANGED entries  BY <1>1, <2>2, <2>3
  <2>4. CASE AddResource(r)
    <3>1. CASE \E i \in DOMAIN entries : entries[i].id = r.id
      BY <1>2, <2>4, <3>1 DEF AddResource, RecordInvalidCall, Raise
    <3>2. CASE ~\E i \in DOMAIN entries : entries[i].id = r.id
      <4>1. entries' = Append(entries, r) /\ \A i \in DOMAIN entries : entries[i].id # r.id
        BY <2>4, <3>2 DEF AddResource
      <4> QED  BY <2>1, <2>2, <4>1, AddKeepsWhole
    <3> QED  BY <3>1, <3>2
  <2> QED  BY <2>2, <2>3, <2>4
<1>5. CASE Template(s) \/ RequireOneOf(s) \/ InventoryRead(s) \/ Import(s) \/ Load(s)
  BY <1>1, <1>5 DEF Template, RequireOneOf, InventoryRead, Import, Load
<1> QED  BY <1>3, <1>4, <1>5

\* A statement of the manifest that loads nothing new.
LEMMA StatementKeepsWhole ==
  ASSUME WholeInv, CauseInv', NEW s \in Statements,
         \/ RegisterPrimitiveCall(s) \/ DispatchUnit(s) \/ Template(s) \/ RequireOneOf(s)
         \/ InventoryRead(s) \/ Import(s) \/ Load(s)
  PROVE  WholeInv'
<1>1. Fetch(s) /\ UNCHANGED <<manPc, manResult, loaded, evals>> /\ (Advance \/ Raised)  BY StatementSteps
<1>2. manPc = "eval" /\ raised = "none" /\ manResult = "none" /\ manPc \notin BeforeEval
  BY <1>1 DEF Fetch, Running, WholeInv, CauseInv, BeforeEval
<1>3. StackInv /\ TopInside /\ ManTypes /\ LinksKnown /\ EntriesWhole  BY <1>2 DEF WholeInv, StackInv
<1>4. s.op = "call" => s.link \in {0} \cup Handles
  <2>1. Top.module \in Modules /\ Top.pc \in Nat \ {0}
    <3>1. frames \in Seq(ManFrame) /\ frames # << >>  BY <1>2, <1>3 DEF ManTypes
    <3>2. frames[Len(frames)] \in ManFrame  BY <3>1
    <3> QED  BY <3>2 DEF Top, ManFrame
  <2>2. program[Top.module] \in Seq(Statements)  BY <1>3, <2>1 DEF ManTypes
  <2>3. CASE Top.pc <= Len(program[Top.module])
    <3>1. s = program[Top.module][Top.pc] /\ Top.pc \in DOMAIN program[Top.module]
      BY <1>1, <2>1, <2>2, <2>3 DEF Fetch
    <3> QED  BY <1>3, <2>1, <3>1 DEF LinksKnown
  <2>4. CASE ~(Top.pc <= Len(program[Top.module]))  BY <1>1, <2>4 DEF Fetch
  <2> QED  BY <2>3, <2>4
<1>5. entries' \in Seq(ManResource) /\ Handles \subseteq Handles' /\ EntriesWhole'
  BY <1>2, <1>3, <1>4, CallsKeepWhole
<1>6. LinksKnown'  BY <1>1, <1>2, <1>3, <1>5, LinksStay
<1>7. program' \in [Modules -> Seq(Statements)]  BY <1>1, <1>2, <1>3, FetchMeans
<1>8. frames' \in Seq(ManFrame) /\ frames' # << >>
  <2>1. CASE Advance  BY <1>2, <1>3, <2>1, AdvanceMeans
  <2>2. CASE Raised  BY <1>2, <1>3, <2>2 DEF Raised, Raise, ManTypes
  <2> QED  BY <1>1, <2>1, <2>2
<1>9. ManTypes'  BY <1>1, <1>2, <1>3, <1>5, <1>7, <1>8 DEF ManTypes
<1>10. raised' = "none" => StackInv'
  <2>1. CASE Advance
    <3>1. ~(s.op = "load" /\ s.path \in Modules \ loaded)
      BY DEF RegisterPrimitiveCall, DispatchUnit, Template, RequireOneOf, InventoryRead, Import, Load
    <3> QED  BY <1>1, <1>2, <1>3, <2>1, <3>1, AdvanceKeepsStack
  <2>2. CASE Raised  BY <2>2, GlueErrors DEF Raised, Raise
  <2> QED  BY <1>1, <2>1, <2>2
<1>11. LoadedOnce'  BY <1>1, <1>2 DEF LoadedOnce
<1> QED  BY <1>5, <1>6, <1>9, <1>10, <1>11 DEF WholeInv

\* A step that leaves the registry and the modules as they are.
LEMMA WholeStays ==
  ASSUME WholeInv, CauseInv', UNCHANGED <<program, frames, loaded, entries, secrets, evals>>,
         manPc' # "eval" \/ (manPc = "eval" /\ raised = "none") \/ raised' # "none", raised' = "none" => raised = "none",
         manPc' \in BeforeEval => manPc \in BeforeEval, manPc' = "eval" => manPc = "eval",
         manResult' = "ok" => LoadedOnce'
  PROVE  WholeInv'
<1>1. ManTypes'  BY DEF WholeInv, ManTypes
<1>2. LinksKnown'  BY DEF WholeInv, LinksKnown, Handles
<1>3. EntriesWhole'  BY DEF WholeInv, EntriesWhole, WholeEntry
<1>4. manPc' = "eval" /\ raised' = "none" => StackInv'
  <2> SUFFICES ASSUME manPc' = "eval", raised' = "none"  PROVE StackInv'  OBVIOUS
  <2>1. StackInv  BY DEF WholeInv
  <2> QED  BY <2>1 DEF StackInv, StackLoads, TopInside, Top, StackRepeats, StackOpen, EvalsCounted, Cyclic
<1>5. LoadedOnce'  BY DEF LoadedOnce
<1> QED  BY <1>1, <1>2, <1>3, <1>4, <1>5 DEF WholeInv

\* Every step of an evaluation keeps the registry whole and the stack as it is
\* described.
LEMMA WholeStepInv == ASSUME WholeInv, [ManNext]_manVars  PROVE WholeInv'
<1>0. CauseInv /\ CauseInv' /\ ManTypes /\ EntriesWhole /\ LinksKnown  BY CauseStepInv DEF WholeInv
<1>1. CASE LoadDir \/ CheckCompatibility \/ LoadFactsFixture
  <2>1. /\ UNCHANGED <<program, frames, loaded, entries, secrets, evals, raised>> /\ manPc \in BeforeEval
        /\ raised = "none" /\ manResult = "none"
    BY <1>0, <1>1 DEF LoadDir, CheckCompatibility, LoadFactsFixture, Quiet, CauseInv, BeforeEval
  <2>2. (\E pc \in BeforeEval : Goes(pc)) \/ (\E e \in StarlarkGlueError : Fails(e))
    <3>1. CASE LoadDir  BY <3>1, GlueErrors DEF LoadDir, LoadManifest, BeforeEval
    <3>2. CASE CheckCompatibility  BY <3>2, GlueErrors DEF CheckCompatibility, BeforeEval
    <3>3. CASE LoadFactsFixture  BY <3>3, GlueErrors DEF LoadFactsFixture, BeforeEval
    <3> QED  BY <1>1, <3>1, <3>2, <3>3
  <2>3. manPc' # "eval" /\ manResult' # "ok"
    BY <2>1, <2>2, GlueErrors DEF Goes, Fails, ManEnd, BeforeEval
  <2> QED  BY <1>0, <2>1, <2>3, WholeStays
<1>2. CASE StartEvaluation
  <2>1. /\ manPc = "start" /\ manPc \in BeforeEval /\ entries' = << >> /\ UNCHANGED <<program, loaded, secrets, raised, evals>>
        /\ raised = "none" /\ manResult = "none"
    BY <1>0, <1>2 DEF StartEvaluation, Evaluate, CauseInv, BeforeEval
  <2>2. /\ \A m \in Modules : program[m] = << >> /\ evals[m] = 0
        /\ program \in [Modules -> Seq(Statements)] /\ loaded = {} /\ evals \in [Modules -> Nat] /\ frames \in Seq(ManFrame)
    BY <1>0, <2>1 DEF ManTypes
  <2>3. LinksKnown' /\ EntriesWhole'  BY <2>1, <2>2 DEF LinksKnown, EntriesWhole
  <2>4. CASE manPc' = "eval" /\ frames' = <<[module |-> Entry, pc |-> 1]>> /\ UNCHANGED <<cause, manResult>>
    <3> DEFINE f == [module |-> Entry, pc |-> 1]
    <3>1. f \in ManFrame /\ f.module = Entry /\ f.pc = 1 /\ Entry \in Modules  BY DEF ManFrame, Modules
    <3> HIDE DEF f
    <3>2. frames' \in Seq(ManFrame) /\ Len(frames') = 1 /\ DOMAIN frames' = {1} /\ frames'[1] = f /\ frames' # << >>
      BY <2>4, <3>1 DEF f
    <3>3. ManTypes'  BY <2>1, <2>2, <2>4, <3>2 DEF ManTypes, BeforeEval
    <3>4. StackLoads' /\ StackRepeats' /\ StackOpen'  BY <2>1, <2>2, <3>2 DEF StackLoads, StackRepeats, StackOpen
    <3>5. TopInside'
      <4>1. Top' = f  BY <3>2 DEF Top
      <4>2. Len(program'[Entry]) = 0  BY <2>1, <2>2, <3>1
      <4> QED  BY <3>1, <4>1, <4>2 DEF TopInside
    <3>6. EvalsCounted'  BY <2>1, <2>2 DEF EvalsCounted
    <3>7. LoadedOnce'  BY <2>1, <2>4 DEF LoadedOnce
    <3> QED  BY <1>0, <2>3, <3>3, <3>4, <3>5, <3>6, <3>7 DEF WholeInv, StackInv
  <2>5. CASE (\E e \in {"Io", "Syntax"} : Fails(e)) /\ UNCHANGED frames
    <3>1. manPc' = "done" /\ manResult' # "ok"  BY <2>5 DEF Fails, ManEnd
    <3>2. ManTypes'  BY <2>1, <2>2, <2>5, <3>1 DEF ManTypes, BeforeEval
    <3>3. LoadedOnce'  BY <3>1 DEF LoadedOnce
    <3> QED  BY <1>0, <2>3, <3>1, <3>2, <3>3 DEF WholeInv
  <2> QED  BY <1>2, <2>4, <2>5 DEF StartEvaluation
<1>3. CASE \E s \in Statements : RegisterPrimitiveCall(s) \/ DispatchUnit(s) \/ Template(s) \/ RequireOneOf(s)
                                 \/ InventoryRead(s) \/ Import(s) \/ Load(s)
  BY <1>0, <1>3, StatementKeepsWhole
<1>4. CASE \E s \in Statements : LoadRoleOrLib(s)
  <2>1. PICK s \in Statements : LoadRoleOrLib(s)  BY <1>4
  <2>2. /\ Fetch(s) /\ manPc = "eval" /\ raised = "none" /\ UNCHANGED <<loaded, entries, secrets, raised>>
        /\ manResult = "none" /\ manPc \notin BeforeEval
    BY <1>0, <2>1 DEF LoadRoleOrLib, Fetch, Running, CauseInv, BeforeEval
  <2>3. StackInv /\ TopInside  BY <2>2 DEF WholeInv, StackInv
  <2>4. program' \in [Modules -> Seq(Statements)]  BY <1>0, <2>2, <2>3, FetchMeans
  <2>5. EntriesWhole'  BY <1>0, <2>2 DEF EntriesWhole, WholeEntry
  <2>6. LinksKnown'
    <3>1. Handles \subseteq Handles'  BY <2>2 DEF Handles
    <3> QED  BY <1>0, <2>2, <2>3, <3>1, LinksStay
  <2>7. CASE UNCHANGED <<manPc, manResult>>
    <3>1. StackInv' /\ frames' \in Seq(ManFrame) /\ evals' \in [Modules -> Nat] /\ frames' # << >>
      BY <1>0, <2>1, <2>2, <2>3, <2>7, LoadKeepsStack
    <3>2. ManTypes'  BY <1>0, <2>2, <2>4, <2>7, <3>1 DEF ManTypes
    <3>3. LoadedOnce'  BY <2>2, <2>7 DEF LoadedOnce
    <3> QED  BY <1>0, <2>5, <2>6, <3>1, <3>2, <3>3 DEF WholeInv
  <2>8. CASE ManEnd("overflow") /\ UNCHANGED <<frames, evals>>
    <3>1. manPc' = "done" /\ manResult' = "overflow"  BY <2>8 DEF ManEnd
    <3>2. ManTypes'  BY <1>0, <2>2, <2>4, <2>8, <3>1 DEF ManTypes, BeforeEval
    <3>3. LoadedOnce'  BY <3>1 DEF LoadedOnce
    <3> QED  BY <1>0, <2>5, <2>6, <3>1, <3>2, <3>3 DEF WholeInv
  <2> QED  BY <2>1, <2>7, <2>8 DEF LoadRoleOrLib
<1>5. CASE EndModule
  <2>1. /\ manPc = "eval" /\ raised = "none" /\ manResult = "none" /\ manPc \notin BeforeEval
        /\ UNCHANGED <<program, entries, secrets, evals, raised, manPc, manResult>>
    BY <1>0, <1>5 DEF EndModule, Running, CauseInv, BeforeEval
  <2>2. StackInv  BY <2>1 DEF WholeInv
  <2>3. StackInv' /\ frames' \in Seq(ManFrame) /\ frames' # << >> /\ loaded' \subseteq Modules
    BY <1>0, <1>5, <2>2, EndModuleKeepsStack
  <2>4. ManTypes'  BY <1>0, <2>1, <2>3 DEF ManTypes
  <2>5. LinksKnown' /\ EntriesWhole' /\ LoadedOnce'
    BY <1>0, <2>1 DEF LinksKnown, Handles, EntriesWhole, WholeEntry, LoadedOnce
  <2> QED  BY <1>0, <2>3, <2>4, <2>5 DEF WholeInv
<1>6. CASE DeadlineChecker
  <2>1. /\ manPc = "eval" /\ raised' = "Eval" /\ UNCHANGED <<program, frames, loaded, entries, secrets, evals, manPc, manResult>>
        /\ manResult = "none"
    BY <1>0, <1>6 DEF DeadlineChecker, Running, Raise, ManSame, CauseInv, BeforeEval
  <2> QED  BY <1>0, <2>1, WholeStays DEF BeforeEval
<1>7. CASE Unwind
  <2>1. /\ manPc = "eval" /\ raised' = "Eval" /\ UNCHANGED <<program, loaded, entries, secrets, evals, manPc, manResult>>
        /\ manResult = "none" /\ Len(frames) > 1 /\ frames' = SubSeq(frames, 1, Len(frames) - 1)
    BY <1>0, <1>7 DEF Unwind, CauseInv, BeforeEval
  <2>2. frames' \in Seq(ManFrame) /\ frames' # << >>
    <3>1. frames \in Seq(ManFrame) /\ Len(frames) \in Nat  BY <1>0 DEF ManTypes
    <3>2. Len(frames') = Len(frames) - 1 /\ frames' \in Seq(ManFrame)  BY <2>1, <3>1
    <3>3. Len(frames') # 0 /\ Len(<< >>) = 0  BY <2>1, <3>1, <3>2
    <3> QED  BY <3>2, <3>3
  <2>3. ManTypes'  BY <1>0, <2>1, <2>2 DEF ManTypes, BeforeEval
  <2>4. LinksKnown' /\ EntriesWhole' /\ LoadedOnce'
    BY <1>0, <2>1 DEF LinksKnown, Handles, EntriesWhole, LoadedOnce
  <2> QED  BY <1>0, <2>1, <2>3, <2>4 DEF WholeInv
<1>8. CASE EndManifest
  <2>1. /\ manPc = "eval" /\ manPc' = "done" /\ Len(frames) = 1
        /\ UNCHANGED <<program, frames, loaded, entries, secrets, evals, raised>>
    BY <1>8 DEF EndManifest, ManEnd
  <2>2. ASSUME manResult' = "ok"  PROVE LoadedOnce'
    <3>1. raised = "none"  BY <1>0, <2>1, <2>2 DEF CauseInv
    <3>2. EvalsCounted  BY <2>1, <3>1 DEF WholeInv, StackInv
    <3>3. ~Cyclic
      <4>1. DOMAIN frames = 1..1  BY <1>0, <2>1 DEF ManTypes
      <4> QED  BY <4>1 DEF Cyclic
    <3> QED  BY <2>1, <3>2, <3>3 DEF EvalsCounted, LoadedOnce
  <2> QED  BY <1>0, <2>1, <2>2, WholeStays DEF BeforeEval
<1>9. CASE Expire
  <2>1. /\ manPc = "eval" /\ UNCHANGED <<program, frames, loaded, entries, secrets, evals, raised, manPc, manResult>>
    BY <1>9 DEF Expire
  <2>2. manResult = "none"  BY <1>0, <2>1 DEF CauseInv
  <2>3. CASE raised = "none"  BY <1>0, <2>1, <2>2, <2>3, WholeStays
  <2>4. CASE raised # "none"  BY <1>0, <2>1, <2>2, <2>4, WholeStays
  <2> QED  BY <2>3, <2>4
<1>10. CASE UNCHANGED manVars
  <2> USE <1>10 DEF manVars
  <2>1. ManTypes'  BY <1>0 DEF ManTypes
  <2>2. LinksKnown' /\ EntriesWhole'  BY <1>0 DEF LinksKnown, EntriesWhole, WholeEntry, Handles
  <2>3. LoadedOnce'  BY DEF WholeInv, LoadedOnce
  <2>4. manPc' = "eval" /\ raised' = "none" => StackInv'
    BY DEF WholeInv, StackInv, StackLoads, TopInside, Top, StackRepeats, StackOpen, EvalsCounted, Cyclic
  <2> QED  BY <1>0, <2>1, <2>2, <2>3, <2>4 DEF WholeInv
<1> QED
  BY <1>1, <1>2, <1>3, <1>4, <1>5, <1>6, <1>7, <1>8, <1>9, <1>10 DEF ManNext

\* A manifest that evaluates gives each resource once, with the contents that
\* its payload has the sha of and with links to resources registered before it,
\* and evaluates each module once, for manifests of any length and any depth
\* of loads.
THEOREM ManifestIsWhole == ManSpec => []ManifestWhole
<1>1. ManInit => WholeInv
  <2> SUFFICES ASSUME ManInit  PROVE WholeInv  OBVIOUS
  <2>1. CauseInv  BY DEF ManInit, CauseInv, RootCause, BeforeEval
  <2>2. ManTypes  BY DEF ManInit, ManTypes, BeforeEval
  <2>3. LinksKnown /\ EntriesWhole /\ LoadedOnce  BY DEF ManInit, LinksKnown, EntriesWhole, LoadedOnce
  <2> QED  BY <2>1, <2>2, <2>3 DEF ManInit, WholeInv
<1>2. WholeInv /\ [ManNext]_manVars => WholeInv'  BY WholeStepInv
<1>3. WholeInv => ManifestWhole
  <2> SUFFICES ASSUME WholeInv, manResult = "ok"
               PROVE  (\A i \in DOMAIN entries : WholeEntry(i)) /\ LoadedOnce
    BY DEF WholeInv, ManifestWhole, RegistryWhole, LoadedOnce, WholeEntry
  <2>1. raised = "none"  BY DEF WholeInv, CauseInv
  <2> QED  BY <2>1 DEF WholeInv, EntriesWhole
<1> QED  BY <1>1, <1>2, <1>3, PTL DEF ManSpec

-----------------------------------------------------------------------------
(* The way of a call into a payload *)

\* A field of a Spec takes whatever the reader of an argument can make.
Fits(r, field) ==
  /\ r.type \in {"str", "u32", "u64", "bool", "str_list"}
  /\ r.type = "str" => field.json \in {"string", "word"}
  /\ r.type \in {"u32", "u64"} => field.json = "number"
  /\ r.type = "bool" => field.json = "bool"
  /\ r.type = "str_list" => field.json = "array"
  /\ r.unset = "Missing" \/ Deserializes(field, r.unset)

\* The two tables of a primitive agree: every field of the Spec has a reader
\* that fits it, but for the health check, which is read from six arguments,
\* and for the state of apt.package, which has a default.
TablesAgree(kind, readers, fields) ==
  /\ "health_check" \notin DOMAIN readers
  /\ \A f \in DOMAIN fields :
       \/ f = "health_check" /\ fields[f] = Option("object")
       \/ f \notin DOMAIN readers /\ f = "state" /\ kind = "apt.package" /\ fields[f].missing
       \/ f \in DOMAIN readers /\ Fits(readers[f], fields[f])

\* Which readers fit which fields.
LEMMA ReadersFit ==
  /\ Fits(Str, Must("string")) /\ Fits(Str, Must("word")) /\ Fits(Word, Must("word"))
  /\ Fits(OptStr, Option("string")) /\ Fits(Reader("str", "absent"), Option("string"))
  /\ Fits(OptU32, Option("number")) /\ Fits(OptList, Option("array"))
  /\ Fits(DefaultStr, WithDefault("word")) /\ Fits(DefaultU32, WithDefault("number"))
  /\ Fits(DefaultBool, WithDefault("bool")) /\ Fits(DefaultList, WithDefault("array"))
<1>1. Fits(Str, Must("string")) /\ Fits(Str, Must("word"))
  BY DEF Fits, Str, Reader, Must, Field
<1>2. Fits(Word, Must("word"))
  BY DEF Fits, Word, Str, Reader, Must, Field
<1>3. Fits(OptStr, Option("string"))
  BY DEF Fits, OptStr, Reader, Option, Field, Deserializes
<1>4. Fits(Reader("str", "absent"), Option("string"))
  BY DEF Fits, Reader, Option, Field, Deserializes
<1>5. Fits(OptU32, Option("number")) /\ Fits(OptList, Option("array"))
  BY DEF Fits, OptU32, OptList, Reader, Option, Field, Deserializes
<1>6. Fits(DefaultStr, WithDefault("word")) /\ Fits(DefaultU32, WithDefault("number"))
  BY DEF Fits, DefaultStr, DefaultU32, Reader, WithDefault, Field, Deserializes
<1>7. Fits(DefaultBool, WithDefault("bool")) /\ Fits(DefaultList, WithDefault("array"))
  BY DEF Fits, DefaultBool, DefaultList, Reader, WithDefault, Field, Deserializes
<1> QED
  BY <1>1, <1>2, <1>3, <1>4, <1>5, <1>6, <1>7

\* In every primitive the two tables agree.
LEMMA PayTables ==
  ASSUME NEW kind \in PrimitiveKinds
  PROVE  TablesAgree(kind, Readers(kind), SpecFields(kind))
<1>1. TablesAgree("file.content", BuildFileContent, FileContentFields)
  BY ReadersFit DEF TablesAgree, BuildFileContent, FileContentFields, ExtractSensitiveContents
<1>2. TablesAgree("file.delete", BuildFileDelete, FileDeleteFields)
  BY ReadersFit DEF TablesAgree, BuildFileDelete, FileDeleteFields
<1>3. TablesAgree("file.symlink", BuildFileSymlink, FileSymlinkFields)
  BY ReadersFit DEF TablesAgree, BuildFileSymlink, FileSymlinkFields
<1>4. TablesAgree("cert.tls", BuildCertTls, CertTlsFields)
  BY ReadersFit DEF TablesAgree, BuildCertTls, CertTlsFields
<1>5. TablesAgree("systemd.service", BuildSystemdService, SystemdServiceFields)
  BY ReadersFit DEF TablesAgree, BuildSystemdService, SystemdServiceFields
<1>6. TablesAgree("runr.service", BuildRunrService, RunrServiceFields)
  BY ReadersFit DEF TablesAgree, BuildRunrService, RunrServiceFields
<1>7. TablesAgree("systemd.timer", BuildSystemdTimer, SystemdTimerFields)
  BY ReadersFit DEF TablesAgree, BuildSystemdTimer, SystemdTimerFields
<1>8. TablesAgree("runr.timer", BuildRunrTimer, RunrTimerFields)
  BY ReadersFit DEF TablesAgree, BuildRunrTimer, RunrTimerFields
<1>9. TablesAgree("runr.cgroup", BuildRunrCgroup, RunrCgroupFields)
  BY ReadersFit DEF TablesAgree, BuildRunrCgroup, RunrCgroupFields
<1>10. TablesAgree("apt.key", BuildAptKey, AptKeyFields)
  BY ReadersFit DEF TablesAgree, BuildAptKey, AptKeyFields
<1>11. TablesAgree("apt.package", BuildAptPackage, AptPackageFields)
  <2>1. WithDefault("word").missing
    BY DEF WithDefault, Field
  <2> QED
    BY <2>1, ReadersFit DEF TablesAgree, BuildAptPackage, AptPackageFields
<1>12. TablesAgree("apt.update_cache", BuildAptUpdateCache, AptUpdateCacheFields)
  BY ReadersFit DEF TablesAgree, BuildAptUpdateCache, AptUpdateCacheFields
<1>13. TablesAgree("users.user", BuildUsersUser, UserFields)
  BY ReadersFit DEF TablesAgree, BuildUsersUser, UserFields
<1>14. TablesAgree("users.group", BuildUsersGroup, GroupFields)
  BY ReadersFit DEF TablesAgree, BuildUsersGroup, GroupFields
<1>15. TablesAgree("pg_sql.exec", BuildPgSqlExec, PgSqlExecFields)
  BY ReadersFit DEF TablesAgree, BuildPgSqlExec, PgSqlExecFields
<1>16. TablesAgree("pg_sql.query", BuildPgSqlQuery, PgSqlQueryFields)
  BY ReadersFit DEF TablesAgree, BuildPgSqlQuery, PgSqlQueryFields
<1>17. TablesAgree("process.signal", BuildProcessSignal, ProcessSignalFields)
  BY ReadersFit DEF TablesAgree, BuildProcessSignal, ProcessSignalFields
<1>18. TablesAgree("sysctl.reload", BuildSysctlReload, SysctlReloadFields)
  BY ReadersFit DEF TablesAgree, BuildSysctlReload, SysctlReloadFields
<1> QED
  BY <1>1, <1>2, <1>3, <1>4, <1>5, <1>6, <1>7, <1>8, <1>9, <1>10, <1>11, <1>12, <1>13, <1>14, <1>15, <1>16, <1>17, <1>18 DEF PrimitiveKinds, Readers, SpecFields
\* An argument that is read without an error is read as it was given, or is a
\* None that stands for one that was not.
LEMMA ReadKeeps ==
  ASSUME NEW r, r.type \in {"str", "u32", "u64", "bool", "str_list"},
         NEW a \in DOMAIN kwargs, Read(r, a) \notin CallArgsError
  PROVE  \/ Read(r, a) = AsJson(kwargs[a]) /\ kwargs[a] \in {"Str", "BadStr", "Int", "BigInt", "Bool", "Strings"}
         \/ kwargs[a] = "None" /\ Read(r, a) = r.unset /\ r.type = "str_list"
<1>1. PICK v : v = ValueToArg(kwargs[a])
  OBVIOUS
<1>2. \A w \in {"Str", "BadStr", "Int", "BigInt", "Bool", "Strings", "None"} : v = w => kwargs[a] = w
  BY <1>1 DEF ValueToArg
<1>3. CASE r.type = "str"
  <2>1. Read(r, a) = ReadStr(r, v)
    BY <1>1, <1>3 DEF Read
  <2> QED
    BY <1>2, <2>1 DEF ReadStr, AsJson, CallArgsError
<1>4. CASE r.type \in {"u32", "u64"}
  <2>1. Read(r, a) = ReadU32(v)
    BY <1>1, <1>4 DEF Read, ReadU64
  <2> QED
    BY <1>2, <2>1 DEF ReadU32, AsJson, CallArgsError
<1>5. CASE r.type = "bool"
  <2>1. Read(r, a) = ReadBool(v)
    BY <1>1, <1>5 DEF Read
  <2> QED
    BY <1>2, <2>1 DEF ReadBool, AsJson, CallArgsError
<1>6. CASE r.type = "str_list"
  <2>1. Read(r, a) = ReadStrList(r, v)
    BY <1>1, <1>6 DEF Read
  <2> QED
    BY <1>2, <1>6, <2>1 DEF ReadStrList, AsJson, CallArgsError
<1> QED
  BY <1>3, <1>4, <1>5, <1>6

\* An argument that is read without an error is of the type of its reader.
LEMMA ReadTyped ==
  ASSUME NEW r, NEW a \in DOMAIN kwargs, Read(r, a) \notin CallArgsError
  PROVE  /\ r.type = "str" => Read(r, a) \in {"string", "bad string"}
         /\ r.type \in {"u32", "u64"} => Read(r, a) \in {"number", "big number"}
         /\ r.type = "bool" => Read(r, a) = "bool"
         /\ r.type = "str_list" => Read(r, a) \in {"array", r.unset}
BY DEF Read, ReadStr, ReadU32, ReadU64, ReadBool, ReadStrList, CallArgsError

\* What a reader makes of a call whose strings are words, the field takes.
LEMMA ReadFits ==
  ASSUME NEW r, NEW field, Fits(r, field), NEW a, Read(r, a) \notin CallArgsError,
         \A b \in DOMAIN kwargs : kwargs[b] # "BadStr"
  PROVE  Deserializes(field, Read(r, a))
<1>1. CASE a \notin DOMAIN kwargs
  BY <1>1 DEF Fits, Read, CallArgsError
<1>2. CASE a \in DOMAIN kwargs
  <2>1. r.type \in {"str", "u32", "u64", "bool", "str_list"}
    BY DEF Fits
  <2>2. CASE r.unset = Read(r, a)
    BY <2>2 DEF Fits, CallArgsError
  <2>3. CASE r.unset # Read(r, a)
    <3>1. Read(r, a) = AsJson(kwargs[a]) /\ kwargs[a] \in {"Str", "Int", "BigInt", "Bool", "Strings"}
      BY <1>2, <2>1, <2>3, ReadKeeps
    <3>2. Read(r, a) # "bad string"
      BY <3>1 DEF AsJson
    <3> QED
      BY <1>2, <2>1, <2>3, <3>2, ReadTyped DEF Fits, Deserializes
  <2> QED
    BY <2>2, <2>3
<1> QED
  BY <1>1, <1>2

\* The payload that evaluation built, and registered, for the plan.
PayloadBuilt ==
  /\ payKind \in PrimitiveKinds /\ payload = BuildPayload(payKind)
  /\ \A f \in DOMAIN payload : payload[f] \notin CallArgsError

\* What a payload has for a field with a reader, and for the health check.
LEMMA PayloadFields ==
  ASSUME PayloadBuilt
  PROVE  /\ DOMAIN payload = Fields(payKind)
         /\ \A f \in DOMAIN Readers(payKind) :
              f # "health_check" => f \in DOMAIN payload /\ payload[f] = Read(Readers(payKind)[f], f)
         /\ "health_check" \in DOMAIN payload /\ "health_check" \notin DOMAIN Readers(payKind)
              => payload["health_check"] \in {"object", "null"}
<1>1. DOMAIN payload = Fields(payKind)
  BY DEF PayloadBuilt, BuildPayload
<1>2. \A f \in DOMAIN Readers(payKind) :
        f # "health_check" => f \in DOMAIN payload /\ payload[f] = Read(Readers(payKind)[f], f)
  BY <1>1 DEF PayloadBuilt, BuildPayload, Fields
<1>3. ReadHealthCheck \in {"WrongType", "OutOfRange", "object", "null"}
  BY DEF ReadHealthCheck
<1>4. "health_check" \in DOMAIN payload => payload["health_check"] = ReadHealthCheck
  BY <1>1 DEF PayloadBuilt, BuildPayload, BuildHealthCheckSystemd, BuildHealthCheckRunr
<1> QED
  BY <1>1, <1>2, <1>3, <1>4 DEF PayloadBuilt, CallArgsError

\* A payload of a call whose strings are words deserializes.
LEMMA PayloadDeserializes ==
  ASSUME PayloadBuilt, \A b \in DOMAIN kwargs : kwargs[b] # "BadStr"
  PROVE  FromValue(payKind)
<1> DEFINE readers == Readers(payKind)
           fields == SpecFields(payKind)
           Got(f) == IF f \in DOMAIN payload THEN payload[f] ELSE "absent"
<1>1. TablesAgree(payKind, readers, fields)
  BY PayTables DEF PayloadBuilt
<1>2. ASSUME NEW f \in DOMAIN fields
      PROVE  Deserializes(fields[f], Got(f))
  <2>1. CASE f = "health_check" /\ fields[f] = Option("object")
    <3>1. Got(f) \in {"object", "null", "absent"}
      BY <1>1, <2>1, PayloadFields DEF TablesAgree
    <3>2. \A json \in {"object", "null", "absent"} : Deserializes(Option("object"), json)
      BY DEF Deserializes, Option, Field
    <3> QED
      BY <2>1, <3>1, <3>2
  <2>2. CASE f \notin DOMAIN readers /\ f = "state" /\ payKind = "apt.package" /\ fields[f].missing
    <3>1. f \notin DOMAIN payload
      BY <2>2, PayloadFields DEF Fields, ServiceKinds
    <3> QED
      BY <2>2, <3>1 DEF Deserializes
  <2>3. CASE f \in DOMAIN readers /\ Fits(readers[f], fields[f])
    <3>1. f # "health_check"
      BY <1>1, <2>3 DEF TablesAgree
    <3>2. f \in DOMAIN payload /\ payload[f] = Read(readers[f], f) /\ payload[f] \notin CallArgsError
      BY <2>3, <3>1, PayloadFields DEF PayloadBuilt
    <3> QED
      BY <2>3, <3>2, ReadFits
  <2> QED
    BY <1>1, <1>2, <2>1, <2>2, <2>3 DEF TablesAgree
<1> QED
  BY <1>2 DEF FromValue

\* A payload has every argument of the call that the Spec has a field for.
LEMMA PayloadKeeps ==
  ASSUME PayloadBuilt, "health_check" \notin DOMAIN kwargs,
         NEW a \in DOMAIN kwargs \cap DOMAIN SpecFields(payKind), <<payKind, a>> # <<"apt.package", "state">>
  PROVE  Kept(a)
<1> DEFINE readers == Readers(payKind)
<1>1. TablesAgree(payKind, readers, SpecFields(payKind))
  BY PayTables DEF PayloadBuilt
<1>2. a \in DOMAIN readers /\ Fits(readers[a], SpecFields(payKind)[a]) /\ a # "health_check"
  BY <1>1 DEF TablesAgree
<1>3. a \in DOMAIN payload /\ payload[a] = Read(readers[a], a) /\ payload[a] \notin CallArgsError
  BY <1>2, PayloadFields DEF PayloadBuilt
<1> QED
  BY <1>2, <1>3, ReadKeeps DEF Kept, Fits

\* Every function of a manifest registers a primitive, or is service.unit.
LEMMA FunctionsKnown ==
  ASSUME NEW f \in GlobalFunctions
  PROVE  Registers(f) \in PrimitiveKinds \cup {"service.unit"}
<1>1. PICK ns \in DOMAIN BuildGlobals : \E name \in DOMAIN BuildGlobals[ns] : f = <<ns, name>>
  BY DEF GlobalFunctions
<1>2. PICK name \in DOMAIN BuildGlobals[ns] : Registers(f) = BuildGlobals[ns][name]
  BY <1>1 DEF Registers
<1>3. \A table \in {AptNamespace, CertNamespace, FileNamespace, PgSqlNamespace, ServiceNamespace, ProcessNamespace,
                     SysctlNamespace, UsersNamespace, RunrNamespace, SystemdNamespace} :
        \A n \in DOMAIN table : table[n] \in PrimitiveKinds \cup {"service.unit"}
  BY DEF AptNamespace, CertNamespace, FileNamespace, PgSqlNamespace, ServiceNamespace, ProcessNamespace,
         SysctlNamespace, UsersNamespace, RunrNamespace, SystemdNamespace, PrimitiveKinds
<1>4. BuildGlobals[ns] \in {AptNamespace, CertNamespace, FileNamespace, PgSqlNamespace, ServiceNamespace,
                            ProcessNamespace, SysctlNamespace, UsersNamespace, RunrNamespace, SystemdNamespace}
  BY DEF BuildGlobals
<1> QED
  BY <1>1, <1>2, <1>3, <1>4

\* No call gives the field that stands for the six arguments of a health check.
LEMMA CallsPlain ==
  ASSUME NEW kind \in PrimitiveKinds, NEW call \in CallsOf(kind)
  PROVE  "health_check" \notin DOMAIN call
<1> DEFINE base == [f \in Required(kind) |-> Right(Readers(kind)[f])]
           names == (Reads(kind) \cup DOMAIN SpecFields(kind) \cup {"deferred"}) \ {"health_check"}
           few == {{a} : a \in names} \cup {{a, b} : a, b \in names \cap DOMAIN HealthArgs}
           Changed(set, lefts, news) ==
             {[a \in ((DOMAIN base \cup set) \ left) |-> IF a \in set THEN new[a] ELSE base[a]] :
                left \in lefts, new \in news}
           Lefts(set) == {{}} \cup {{a} : a \in set}
           News(set) == [set -> StarlarkValues]
<1>1. "health_check" \notin DOMAIN base
  BY PayTables DEF TablesAgree, Required
<1>2. \A set \in few : "health_check" \notin set
  OBVIOUS
<1>3. CallsOf(kind) = {base} \cup UNION {Changed(set, Lefts(set), News(set)) :
                                         set \in {s \in few : Cardinality(s) <= MaxChanged}}
  BY DEF CallsOf
<1> HIDE DEF base, few, Lefts, News
<1>4. ASSUME NEW set, NEW lefts, NEW news, call \in Changed(set, lefts, news)
      PROVE  DOMAIN call \subseteq DOMAIN base \cup set
  <2>1. \E left \in lefts : \E new \in news :
          call = [a \in ((DOMAIN base \cup set) \ left) |-> IF a \in set THEN new[a] ELSE base[a]]
    BY <1>4
  <2> QED
    BY <2>1
<1> HIDE DEF Changed
<1>5. CASE call = base
  BY <1>1, <1>5
<1>6. CASE \E set \in few : call \in Changed(set, Lefts(set), News(set))
  <2>1. PICK set \in few : call \in Changed(set, Lefts(set), News(set))
    BY <1>6
  <2>2. DOMAIN call \subseteq DOMAIN base \cup set
    BY <1>4, <2>1
  <2> QED
    BY <1>1, <1>2, <2>1, <2>2
<1> QED
  BY <1>3, <1>5, <1>6

\* What service.unit lets through, both kinds of service read.
LEMMA ServiceArguments ==
  ASSUME NEW kind \in ServiceKinds
  PROVE  SERVICE_UNIT_ALLOWED_KWARGS \subseteq Reads(kind) /\ kind \in PrimitiveKinds /\ kind # "none"
<1>1. {"name", "state", "enable", "validate_with"} \subseteq DOMAIN Readers(kind)
  BY DEF ServiceKinds, Readers, BuildSystemdService, BuildRunrService
<1> QED
  BY <1>1 DEF SERVICE_UNIT_ALLOWED_KWARGS, Reads, ServiceKinds, PrimitiveKinds

\* From the call to its payload, and from the payload to the verdict of the plan.
PayInv ==
  /\ "health_check" \notin DOMAIN kwargs
  /\ payPc = "dispatch" => payKind = "none" /\ payResult = "none"
  /\ payPc = "call" =>
       /\ payResult = "none"
       /\ \/ payKind = "none" /\ Registers(callee) \in PrimitiveKinds /\ callee # <<"service", "unit">>
          \/ payKind \in ServiceKinds /\ DOMAIN kwargs \subseteq Reads(payKind)
  /\ payPc = "plan" =>
       /\ PayloadBuilt
       /\ callee = <<"service", "unit">> => DOMAIN kwargs \subseteq Reads(payKind)
  /\ PayloadParses

\* A call begins at its function, or at service.unit.
LEMMA PayInitInv == PayInit => PayInv
<1> SUFFICES ASSUME PayInit PROVE PayInv
  OBVIOUS
<1>1. Registers(<<"service", "unit">>) = "service.unit"
  BY DEF Registers, BuildGlobals, ServiceNamespace
<1>2. PayloadParses
  BY DEF PayInit, PayloadParses
<1>3. CASE Registers(callee) = "service.unit"
  <2>1. "health_check" \notin DOMAIN kwargs
    BY <1>3, CallsPlain DEF PayInit, PrimitiveKinds
  <2> QED
    BY <1>2, <1>3, <2>1 DEF PayInit, PayInv
<1>4. CASE Registers(callee) # "service.unit"
  <2>1. Registers(callee) \in PrimitiveKinds
    BY <1>4, FunctionsKnown DEF PayInit
  <2>2. "health_check" \notin DOMAIN kwargs
    BY <1>4, <2>1, CallsPlain DEF PayInit
  <2>3. callee # <<"service", "unit">>
    BY <1>1, <1>4
  <2> QED
    BY <1>2, <1>4, <2>1, <2>2, <2>3 DEF PayInit, PayInv
<1> QED
  BY <1>3, <1>4

\* The dispatch, the call and the plan each keep the invariant.
LEMMA PayStepInv ==
  ASSUME PayInv, [PayNext]_payVars
  PROVE  PayInv'
<1>1. CASE DispatchServiceUnit
  <2>1. /\ kwargs' = kwargs /\ payPc = "dispatch"
        /\ \/ payPc' = "call" /\ payKind' \in ServiceKinds /\ payResult' = payResult
              /\ DOMAIN kwargs \subseteq SERVICE_UNIT_ALLOWED_KWARGS
           \/ payPc' = "done" /\ payResult' = "Eval"
    BY <1>1 DEF DispatchServiceUnit
  <2>2. payPc' = "call" => DOMAIN kwargs \subseteq Reads(payKind')
    BY <2>1, ServiceArguments
  <2>3. payResult' \in {"none", "Eval"} /\ (payPc' = "call" => payResult' = "none")
    BY <2>1 DEF PayInv
  <2> QED
    BY <2>1, <2>2, <2>3 DEF PayInv, PayloadParses
<1>2. CASE RegisterCall
  <2>1. PICK kind : kind = IF payKind = "none" THEN Registers(callee) ELSE payKind
    OBVIOUS
  <2>2. /\ kind \in PrimitiveKinds
        /\ callee = <<"service", "unit">> => DOMAIN kwargs \subseteq Reads(kind)
    BY <1>2, <2>1, ServiceArguments DEF RegisterCall, PayInv
  <2>3. PICK built : built = BuildPayload(kind)
    OBVIOUS
  <2>4. /\ payKind' = kind /\ kwargs' = kwargs /\ callee' = callee /\ payResult = "none"
        /\ \/ payResult' = "InvalidCall" /\ payPc' = "done"
           \/ /\ payload' = built /\ payPc' = "plan" /\ payResult' = payResult
              /\ \A f \in DOMAIN built : built[f] \notin CallArgsError
    BY <1>2, <2>1, <2>2, <2>3 DEF RegisterCall, PayInv
  <2>7. BuildPayload(kind)' = BuildPayload(kind)
    BY <2>4 DEF BuildPayload, BuildHealthCheckSystemd, BuildHealthCheckRunr, ReadHealthCheck, Read
  <2>5. built = BuildPayload(payKind)'
    BY <2>3, <2>4, <2>7
  <2>6. payPc' = "plan" => PayloadBuilt'
    BY <2>2, <2>4, <2>5 DEF PayloadBuilt
  <2> QED
    BY <2>2, <2>4, <2>6 DEF PayInv, PayloadParses
<1>3. CASE PlanPayload
  <2>1. /\ payPc' = "done" /\ kwargs' = kwargs /\ PayloadBuilt
        /\ payResult' = IF FromValue(payKind) THEN "ok" ELSE "InvalidPayload"
    BY <1>3 DEF PlanPayload, PayInv
  <2>2. FromValue(payKind) \/ \E a \in DOMAIN kwargs : kwargs[a] = "BadStr"
    BY <2>1, PayloadDeserializes
  <2> QED
    BY <2>1, <2>2 DEF PayInv, PayloadParses
<1>4. CASE UNCHANGED payVars
  <2>1. PayloadBuilt' <=> PayloadBuilt
    BY <1>4 DEF payVars, PayloadBuilt, BuildPayload, BuildHealthCheckSystemd, BuildHealthCheckRunr, ReadHealthCheck, Read
  <2> QED
    BY <1>4, <2>1 DEF payVars, PayInv, PayloadParses
<1> QED
  BY <1>1, <1>2, <1>3, <1>4 DEF PayNext

\* What a call says is what the plan works with, for every number of arguments
\* that are changed: both tables of every primitive were compared.
THEOREM PayloadIsFaithful == PaySpec => []PayloadFaithful
<1>1. PayInit => PayInv
  BY PayInitInv
<1>2. PayInv /\ [PayNext]_payVars => PayInv'
  BY PayStepInv
<1>3. PayInv => PayloadFaithful
  BY PayloadKeeps DEF PayInv, PayloadFaithful, ArgumentsKept
<1> QED
  BY <1>1, <1>2, <1>3, PTL DEF PaySpec

-----------------------------------------------------------------------------
(* Templates *)

\* The fields of an entry of the file system, one by one.
EntryIs(e, type, dir, name, link) == e.type = type /\ e.dir = dir /\ e.name = name /\ (e.link <=> link)

\* An entry that a path may lead to: there are no others, whatever the path.
\* A link leads to the file or the directory it is said to lead to.
LEMMA EntriesAre ==
  ASSUME NEW d, NEW n
  PROVE  /\ EntryIs(DirEntry(d), "dir", d, ".", FALSE) /\ EntryIs(FileEntry(d, n), "file", d, n, FALSE)
         /\ EntryIs(LinkTo(DirEntry(d)), "dir", d, ".", TRUE) /\ EntryIs(LinkTo(FileEntry(d, n)), "file", d, n, TRUE)
         /\ EntryIs(Nothing, "none", "none", "none", FALSE)
<1>1. ASSUME NEW t, NEW dd, NEW nn, NEW l, NEW b \in BOOLEAN
      PROVE  EntryIs([[type |-> t, dir |-> dd, name |-> nn, link |-> l] EXCEPT !.link = b], t, dd, nn, b)
  <2> DEFINE x == [[type |-> t, dir |-> dd, name |-> nn, link |-> l] EXCEPT !.link = b]
  <2>1. x.type = t /\ x.dir = dd /\ x.name = nn /\ x.link = b
    OBVIOUS
  <2> HIDE DEF x
  <2>2. EntryIs(x, t, dd, nn, b)
    BY <2>1 DEF EntryIs
  <2>. QED
    BY <2>2 DEF x
<1>2. ASSUME NEW t, NEW dd, NEW nn, NEW l \in BOOLEAN
      PROVE  EntryIs([type |-> t, dir |-> dd, name |-> nn, link |-> l], t, dd, nn, l)
  <2> DEFINE x == [type |-> t, dir |-> dd, name |-> nn, link |-> l]
  <2>1. x.type = t /\ x.dir = dd /\ x.name = nn /\ x.link = l
    OBVIOUS
  <2> HIDE DEF x
  <2>2. EntryIs(x, t, dd, nn, l)
    BY <2>1 DEF EntryIs
  <2>. QED
    BY <2>2 DEF x
<1>3. EntryIs(DirEntry(d), "dir", d, ".", FALSE) /\ EntryIs(FileEntry(d, n), "file", d, n, FALSE)
      /\ EntryIs(Nothing, "none", "none", "none", FALSE)
  <2>1. FALSE \in BOOLEAN
    OBVIOUS
  <2>. QED
    BY <1>2, <2>1, Zenon DEF DirEntry, FileEntry, Nothing
<1>4. EntryIs(LinkTo(DirEntry(d)), "dir", d, ".", TRUE) /\ EntryIs(LinkTo(FileEntry(d, n)), "file", d, n, TRUE)
  <2>1. TRUE \in BOOLEAN
    OBVIOUS
  <2>. QED
    BY <1>1, <2>1, Zenon DEF DirEntry, FileEntry, LinkTo
<1>. QED
  BY <1>3, <1>4

\* What a name of the templates of a role stands for.
LEMMA RoleEntries ==
  ASSUME NEW name
  PROVE  /\ name \in {"conf", "bad", "bin"} => EntryIs(InRole(name), "file", "role", name, FALSE)
         /\ name = "d" => EntryIs(InRole(name), "dir", "d", ".", FALSE)
         /\ name = "self" => EntryIs(InRole(name), "file", "role", "conf", TRUE)
         /\ name = "away" => EntryIs(InRole(name), "file", "outside", "conf", TRUE)
         /\ name = "dself" => EntryIs(InRole(name), "dir", "d", ".", TRUE)
         /\ name = "daway" => EntryIs(InRole(name), "dir", "lib", ".", TRUE)
         /\ name \notin {"conf", "bad", "bin", "d", "self", "away", "dself", "daway"} => InRole(name) = Nothing
  BY EntriesAre DEF InRole

\* What a name stands for in a directory among the templates of a role or of a
\* library.
LEMMA DirEntries ==
  ASSUME NEW dir, NEW name
  PROVE  /\ name = "." => EntryIs(EntryAt(dir, name), "dir", dir, ".", FALSE)
         /\ dir = "role" /\ name # "." => EntryAt(dir, name) = InRole(name)
         /\ dir # "role" /\ name = "conf" => EntryIs(EntryAt(dir, name), "file", dir, "conf", FALSE)
         /\ dir # "role" /\ name \notin {".", "conf"} => EntryAt(dir, name) = Nothing
  BY EntriesAre DEF EntryAt

\* The path of a call, component by component.
LEMMA PathShapes ==
  ASSUME NEW path \in Paths
  PROVE  \/ path = << >>
         \/ \E c \in Components : path = <<c>>
         \/ \E c, e \in Components : path = <<c, e>>
  BY DEF Paths

\* A path that is not refused leads, through no link at its end, to a directory,
\* to a file that is no text or no template, or to one of the files below
\* what the templates directory of the module leads to; resolve_within_root follows the links in the middle of a path before
\* it looks where the path ended.
LEMMA ResolvedPaths ==
  ASSUME NEW module \in TplModules, NEW path \in Paths, ResolveTemplate(module, path) = "ok"
  PROVE  /\ module \in Templated
         /\ \/ Walk(CanonicalRoot(module), path).type = "dir"
            \/ Walk(CanonicalRoot(module), path).name \in {"bad", "bin"}
            \/ /\ path \in FilesBelow[CanonicalRoot(module)]
               /\ Walk(CanonicalRoot(module), path).type = "file"
         /\ Walk(CanonicalRoot(module), path).dir \in Below(CanonicalRoot(module))
<1> DEFINE root == CanonicalRoot(module)
           e == Walk(root, path)
<1>0. ResolveWithin(module, path) = "ok"
  BY DEF ResolveTemplate, TplModules, TemplatesDirForModule
<1>2. root # "none" /\ e # Nothing /\ e.dir \in Below(root) /\ ~e.link
  <2>1. CASE HasComponent(path, "nul") \/ HasComponent(path, "/") \/ HasComponent(path, "..")
    BY <1>0, <2>1 DEF ResolveWithin
  <2>2. CASE ~(HasComponent(path, "nul") \/ HasComponent(path, "/") \/ HasComponent(path, ".."))
    BY <1>0, <2>2 DEF ResolveWithin
  <2>. QED
    BY <2>1, <2>2
<1>1. module \in Templated /\ root \in {"role", "lib", "outside"}
  BY <1>2 DEF CanonicalRoot, Templated
<1> HIDE DEF root
<1>3. path = << >> => e.type = "dir"
  <2>0. SUFFICES ASSUME path = << >> PROVE e.type = "dir"
    OBVIOUS
  <2>1. e = DirEntry(root)
    BY <2>0 DEF Walk
  <2>2. EntryIs(DirEntry(root), "dir", root, ".", FALSE)
    BY EntriesAre
  <2>. QED
    BY <2>1, <2>2 DEF EntryIs
<1>4. ASSUME NEW c \in Components, path = <<c>>
      PROVE  e.type = "dir" \/ e.name \in {"bad", "bin"} \/ (path \in FilesBelow[root] /\ e.type = "file")
  <2>1. e = EntryAt(root, c)
    BY <1>4 DEF Walk
  <2>2. CASE root = "role"
    BY <1>1, <1>2, <1>4, <2>1, <2>2, RoleEntries, DirEntries DEF EntryIs, Below, FilesBelow, Components
  <2>3. CASE root \in {"lib", "outside"}
    BY <1>1, <1>2, <1>4, <2>1, <2>3, DirEntries DEF EntryIs, Below, FilesBelow, Components
  <2>. QED
    BY <1>1, <2>2, <2>3
<1>5. ASSUME NEW c \in Components, NEW f \in Components, path = <<c, f>>
      PROVE  e.type = "dir" \/ e.name \in {"bad", "bin"} \/ (path \in FilesBelow[root] /\ e.type = "file")
  <2> DEFINE g == EntryAt(root, c)
  <2>1. path # << >> /\ Len(path) = 2 /\ path[1] = c /\ path[2] = f
    BY <1>5
  <2>2. g.type = "dir" /\ e = EntryAt(g.dir, f)
    BY <1>2, <2>1 DEF Walk
  <2>3. CASE root = "role"
    <3>1. \/ c = "." /\ g.dir = "role"
          \/ c = "d" /\ g.dir = "d"
          \/ c = "dself" /\ g.dir = "d"
          \/ c = "daway" /\ g.dir = "lib"
      BY <2>2, <2>3, RoleEntries, DirEntries, EntriesAre DEF EntryIs, Components
    <3>2. CASE g.dir = "role"
      BY <1>2, <1>5, <2>2, <2>3, <3>1, <3>2, RoleEntries, DirEntries DEF EntryIs, Below, FilesBelow, Components
    <3>3. CASE g.dir # "role"
      BY <1>2, <1>5, <2>2, <2>3, <3>1, <3>3, DirEntries DEF EntryIs, Below, FilesBelow, Components
    <3>. QED
      BY <3>2, <3>3
  <2>4. CASE root \in {"lib", "outside"}
    <3>1. c = "." /\ g.dir = root
      BY <2>2, <2>4, DirEntries, EntriesAre DEF EntryIs, Components
    <3>. QED
      BY <1>2, <1>5, <2>2, <2>4, <3>1, DirEntries DEF EntryIs, Below, FilesBelow, Components
  <2>. QED
    BY <1>1, <2>3, <2>4
<1>6. e.type = "dir" \/ e.name \in {"bad", "bin"} \/ (path \in FilesBelow[root] /\ e.type = "file")
  BY <1>3, <1>4, <1>5, PathShapes
<1>. QED
  BY <1>1, <1>2, <1>6 DEF root

\* Each of the files of a module is found, and is a template.
LEMMA FilesBelowResolve ==
  ASSUME NEW module \in Templated, NEW path \in FilesBelow[CanonicalRoot(module)]
  PROVE  /\ ResolveTemplate(module, path) = "ok"
         /\ Walk(CanonicalRoot(module), path).type = "file" /\ Walk(CanonicalRoot(module), path).name = "conf"
<1> DEFINE root == CanonicalRoot(module)
           e == Walk(root, path)
<1>0. root \in {"role", "lib", "outside"}
  BY DEF CanonicalRoot, Templated
<1> HIDE DEF root
<1>1. \/ path = <<"conf">>
      \/ path = <<".", "conf">>
      \/ root = "role" /\ path = <<"d", "conf">>
      \/ root = "role" /\ path = <<"dself", "conf">>
  BY <1>0 DEF FilesBelow, root
<1>2. \A c \in {"nul", "/", "..", "@", "a:b"} : ~HasComponent(path, c)
  <2>1. CASE path = <<"conf">>
    BY <2>1 DEF HasComponent
  <2>2. ASSUME NEW a \in {".", "d", "dself"}, path = <<a, "conf">>
        PROVE  \A c \in {"nul", "/", "..", "@", "a:b"} : ~HasComponent(path, c)
    <3>1. DOMAIN path = {1, 2} /\ path[1] = a /\ path[2] = "conf"
      BY <2>2
    <3>. QED
      BY <3>1 DEF HasComponent
  <2>. QED
    BY <1>1, <2>1, <2>2
<1>3. e.type = "file" /\ e.name = "conf" /\ e.link = FALSE /\ e.dir \in Below(root)
  <2>1. CASE path = <<"conf">>
    <3>1. e = EntryAt(root, "conf")
      BY <2>1 DEF Walk
    <3>. QED
      BY <3>1, RoleEntries, DirEntries DEF EntryIs, Below
  <2>2. ASSUME NEW a \in {".", "d", "dself"}, path = <<a, "conf">>, a = "." \/ root = "role"
        PROVE  e.type = "file" /\ e.name = "conf" /\ e.link = FALSE /\ e.dir \in Below(root)
    <3> DEFINE g == EntryAt(root, a)
    <3>1. path # << >> /\ Len(path) = 2 /\ path[1] = a /\ path[2] = "conf"
      BY <2>2
    <3>2. g.type = "dir" /\ g.dir = (IF a = "." THEN root ELSE "d")
      BY <2>2, RoleEntries, DirEntries DEF EntryIs
    <3>3. e = EntryAt(g.dir, "conf")
      BY <3>1, <3>2 DEF Walk
    <3>. QED
      BY <2>2, <3>2, <3>3, RoleEntries, DirEntries DEF EntryIs, Below
  <2>. QED
    BY <1>1, <2>1, <2>2
<1>4. e # Nothing
  BY <1>3, EntriesAre DEF EntryIs
<1>5. ResolveWithin(module, path) = "ok"
  BY <1>0, <1>2, <1>3, <1>4 DEF ResolveWithin, root
<1>. QED
  BY <1>2, <1>3, <1>5 DEF ResolveTemplate, TemplatesDirForModule, Templated, root

-----------------------------------------------------------------------------
\* The file of the call is the one that the path leads to, and the path was not
\* refused.
TplFound ==
  /\ ResolveTemplate(tplModule, tplPath) = "ok"
  /\ tplFile.type = Walk(CanonicalRoot(tplModule), tplPath).type
  /\ tplFile.name = Walk(CanonicalRoot(tplModule), tplPath).name
  /\ tplFile.dir = Walk(CanonicalRoot(tplModule), tplPath).dir /\ ~tplFile.link
TplInputs ==
  /\ tplModule \in TplModules /\ tplPath \in Paths /\ tplArgs \in TplArgs
  /\ tplReads \in {"inv.key", "inv.facts", "key"} /\ tplFact \in {"Known", "Stale", "Unknown"}
TplInv ==
  /\ TplInputs /\ TemplateRight
  /\ tplPc \in {"resolve", "render", "done"}
  /\ tplPc = "render" => TplFound

(* A call begins with its arguments and nothing looked up.                 *)
LEMMA TplInitInv == TplInit => TplInv
<1>1. Plain \in TplArgs
  BY DEF Plain, TplArgs
<1>2. <<"conf">> \in Paths
  BY DEF Paths, Components
<1>3. TplInit => TplInputs
  BY <1>1, <1>2 DEF TplInit, TplInputs
<1>. QED
  BY <1>3 DEF TplInit, TplInv, TemplateRight, Rendered

\* The arguments of the call and the facts decide which variables there are.
LEMMA ContextMeans ==
  ASSUME NEW args \in TplArgs
  PROVE  /\ "inv.key" \in BuildContext(InvValue(args)) <=> IF args.inv = "absent" THEN args.key ELSE args.inv = "object"
         /\ "inv.facts" \in BuildContext(InvValue(args)) <=> args.inv # "scalar"
         /\ "key" \notin BuildContext(InvValue(args))
<1>1. args.inv \in {"absent", "object", "scalar"} /\ args.key \in BOOLEAN
  BY DEF TplArgs
<1> DEFINE inv == InvValue(args)
<1>2. inv.type = (IF args.inv = "absent" THEN "object" ELSE args.inv)
  BY DEF InvValue
<1>3. inv.key <=> IF args.inv = "absent" THEN args.key ELSE args.inv = "object"
  <2>1. CASE args.inv = "absent"
    BY <2>1 DEF InvValue
  <2>2. CASE args.inv # "absent"
    <3>1. PICK b \in BOOLEAN : b = (args.inv = "object")
      BY Zenon
    <3>2. inv = [type |-> args.inv, key |-> b]
      BY <2>2, <3>1, Zenon DEF InvValue
    <3>3. inv.key = b
      BY <3>2
    <3>4. b <=> args.inv = "object"
      BY <3>1, Zenon
    <3> HIDE DEF inv
    <3>5. inv.key <=> b
      BY <3>1, <3>3
    <3>. QED
      BY <2>2, <3>4, <3>5
  <2>. QED
    BY <2>1, <2>2
<1> HIDE DEF inv
<1>. QED
  BY <1>1, <1>2, <1>3 DEF BuildContext, inv

(* Resolution finds the file that rendering reads, or ends the call.       *)
LEMMA TplResolveInv == ASSUME TplInv, TplResolve  PROVE TplInv'
<1> DEFINE r == ResolveTemplate(tplModule, tplPath)
<1>1. TplInputs' /\ UNCHANGED TplInput
  BY DEF TplInv, TplResolve, TplInputs, TplInput
<1>2. CASE r = "ok"
  <2>1. tplPc' = "render" /\ tplFile' = [Walk(CanonicalRoot(tplModule), tplPath) EXCEPT !.link = FALSE]
    BY <1>2 DEF TplResolve, DefiningModule
  <2>2. tplFile'.type = Walk(CanonicalRoot(tplModule), tplPath).type /\ tplFile'.name = Walk(CanonicalRoot(tplModule), tplPath).name
       /\ tplFile'.dir = Walk(CanonicalRoot(tplModule), tplPath).dir
    BY <2>1
  <2>. QED
    BY <1>1, <1>2, <2>1, <2>2 DEF TplInv, TplFound, TplInput, TemplateRight, Rendered
<1>3. CASE r # "ok"
  <2>1. tplPc' = "done" /\ tplResult' = r
    BY <1>3 DEF TplResolve, DefiningModule, TplEnd
  <2>2. r \notin {"value", "null"}
    BY DEF ResolveTemplate
  <2>3. ~(tplModule \in Templated /\ tplPath \in FilesBelow[CanonicalRoot(tplModule)])
    BY <1>3, FilesBelowResolve
  <2>. QED
    BY <1>1, <2>1, <2>2, <2>3 DEF TplInv, TplInput, TemplateRight, Rendered
<1>. QED
  BY <1>2, <1>3

(* Rendering ends the call with what its branch of the code gives.         *)
LEMMA RenderInv == ASSUME TplInv, RenderTemplate  PROVE TplInv'
<1> DEFINE context == BuildContext(InvValue(tplArgs))
           outcome == Minijinja(tplFile, tplReads, context)
<1>1. TplInputs' /\ UNCHANGED TplInput /\ TplInputs
  BY DEF TplInv, RenderTemplate, TplInputs, TplInput
<1>2. TplFound /\ tplPc' = "done"
  BY DEF TplInv, RenderTemplate, TplEnd
<1>0. tplFile' = tplFile
  BY DEF RenderTemplate
<1>3. tplResult' \in {"value", "null"} =>
        /\ tplFile.type # "dir" /\ tplFile.name \notin {"bad", "bin"} /\ tplReads \in context
        /\ tplResult' = "null" => tplFact = "Unknown"
  BY DEF RenderTemplate, TplEnd, ResolvePath, ClassifyError, Minijinja, MaterializeFact
<1>4. tplFile.type = "file" /\ tplFile.name = "conf" /\ tplReads \in context => tplResult' \in {"value", "null"}
  BY <1>2 DEF RenderTemplate, TplEnd, ResolvePath, Minijinja, MaterializeFact, TplFound
<1>5. tplResult' \in {"value", "null"} =>
        /\ tplModule \in Templated /\ tplPath \in FilesBelow[CanonicalRoot(tplModule)]
        /\ tplFile.type = "file" /\ tplFile.dir \in Below(CanonicalRoot(tplModule))
  BY <1>1, <1>2, <1>3, ResolvedPaths DEF TplFound, TplInputs
<1>6. tplModule \in Templated /\ tplPath \in FilesBelow[CanonicalRoot(tplModule)] => tplFile.type = "file" /\ tplFile.name = "conf"
  BY <1>2, FilesBelowResolve DEF TplFound
<1>7. /\ "inv.key" \in context <=> IF tplArgs.inv = "absent" THEN tplArgs.key ELSE tplArgs.inv = "object"
      /\ "inv.facts" \in context <=> tplArgs.inv # "scalar"
      /\ "key" \notin context
  BY <1>1, ContextMeans DEF TplInputs
<1>8. tplArgs = Plain => "inv.key" \in context /\ "inv.facts" \in context
  BY <1>7 DEF Plain
<1> HIDE DEF context
<1>9. TemplateRight'
  BY <1>0, <1>1, <1>2, <1>3, <1>4, <1>5, <1>6, <1>7, <1>8 DEF TemplateRight, Rendered, TplInputs, TplInput
<1>. QED
  BY <1>1, <1>2, <1>9 DEF TplInv

\* For every call of template(), the text comes from a plain file below what the
\* templates directory of the module that holds the call leads to, which is its
\* own directory unless a link stands in its place, and no variable is made up:
\* no path leads out of it past the checks of resolve_template.
THEOREM TemplateIsRight == TplSpec => []TemplateRight
<1>1. TplInv /\ [TplNext]_tplVars => TplInv'
  <2>1. TplInv /\ UNCHANGED tplVars => TplInv'
    BY DEF TplInv, TplInputs, TplFound, TemplateRight, Rendered, tplVars
  <2>. QED
    BY <2>1, TplResolveInv, RenderInv DEF TplNext
<1>2. TplInv => TemplateRight
  BY DEF TplInv
<1>. QED
  BY <1>1, <1>2, TplInitInv, PTL DEF TplSpec

-----------------------------------------------------------------------------
(* The facts *)

\* What the collector may hold for its fact, with its time and its dirty mark:
\* a value that is known or stale is the one last seen on the node, dated when
\* it was seen, and a clean known one was seen since the last apply of a
\* trigger.
HonestFact(value, at, dirty) ==
  /\ value.tag \in {"Known", "Unknown", "Stale"}
  /\ value.tag # "Unknown" =>
       known # << >> /\ value.value = known[1].value /\ at = known[1].at
  /\ ~dirty /\ value.tag = "Known" => value \in since

\* The cache has nothing, or one honest fact.
CacheHonest ==
  \/ cache = << >>
  \/ \E value, at : \E dirty \in BOOLEAN :
       cache = <<CachedFact(value, at, dirty)>> /\ HonestFact(value, at, dirty)

\* Nothing is published, dirty or read before the manifest is evaluated, and
\* nothing that was read before an apply is still in use during it.
FactOrder ==
  /\ factPc \in {"start", "evaluate"} => published = << >> /\ \A i \in DOMAIN cache : ~cache[i].dirty
  /\ factPc # "idle" => reading = << >>

\* What was read: the published rows, or the clean value of the cache.
ReadHonest ==
  \/ reading = << >>
  \/ published # << >> /\ reading = <<Known(published[1])>>
  \/ published = << >> /\ cache = << >> /\ reading = <<Unknown>>
  \/ published = << >> /\ cache # << >> /\ reading = <<cache[1].value>> /\ ~cache[1].dirty

\* Unless rows were published, the node as it is counts as seen since the last
\* apply of a trigger whenever a fact can be read.
NodeCounted ==
  factPc \in {"evaluate", "idle"} /\ published = << >> => Collect(factName, node) \in since

FactInv == CacheHonest /\ FactOrder /\ ReadHonest /\ NodeCounted

\* A collector finds a value or does not: no collector of the catalogue says
\* Stale, which is the cache's word.
LEMMA CollectorsFindOrNot ==
  ASSUME NEW name, NEW n
  PROVE  Collect(name, n).tag \in {"Known", "Unknown"}
<1>1. \A v : Known(v).tag = "Known"
  BY DEF Known
<1>2. Unknown.tag = "Unknown"
  BY DEF Unknown
<1>3. Hostname(n).tag \in {"Known", "Unknown"}
  BY <1>1, <1>2 DEF Hostname
<1>4. CpuCount(n).tag \in {"Known", "Unknown"}
  BY <1>1 DEF CpuCount
<1>5. MemoryMb(n).tag \in {"Known", "Unknown"}
  BY <1>1, <1>2 DEF MemoryMb
<1>6. InitSystem(n).tag \in {"Known", "Unknown"}
  BY <1>1, <1>2 DEF InitSystem
<1>7. IsPod(n).tag \in {"Known", "Unknown"}
  BY <1>1 DEF IsPod
<1>8. InstalledPackages(n).tag \in {"Known", "Unknown"}
  BY <1>1, <1>2 DEF InstalledPackages
<1>9. PgInitialized(n).tag \in {"Known", "Unknown"}
  BY <1>1 DEF PgInitialized
<1>10. \A rows : PgKnown(n, rows).tag \in {"Known", "Unknown"}
  BY <1>1, <1>2 DEF PgKnown
<1>11. /\ PgIsMaster(n).tag \in {"Known", "Unknown"}
       /\ PgUsers(n).tag \in {"Known", "Unknown"}
       /\ PgExtensions(n).tag \in {"Known", "Unknown"}
  BY <1>10 DEF PgIsMaster, PgUsers, PgExtensions
<1> QED
  BY <1>3, <1>4, <1>5, <1>6, <1>7, <1>8, <1>9, <1>11 DEF Collect

\* What a collection leaves in the history: the value it found and the time,
\* or what was there.
LEMMA SawMeans ==
  ASSUME NEW value, Saw(value)
  PROVE  /\ value.tag = "Known" => known' # << >> /\ known'[1].value = value.value /\ known'[1].at = factClock
         /\ value.tag # "Known" => known' = known
BY DEF Saw

\* The collection at the start of a run is honest.
LEMMA CollectAtStartHonest ==
  ASSUME FactInv, CollectAtStart
  PROVE  FactInv'
<1>1. PICK value \in {Collect(factName, node), Unknown} :
        /\ CollectWithPanicGuard(value)
        /\ cache' = <<CachedFact(value, factClock, FALSE)>>
        /\ Saw(value)
  BY DEF CollectAtStart
<1>2. value.tag \in {"Known", "Unknown"}
  BY CollectorsFindOrNot DEF Unknown
<1>3. value.tag = "Known" => value = Collect(factName, node)
  BY DEF Unknown
<1>4. since' = {Collect(factName, node)} /\ factPc' = "evaluate" /\ reading' = reading /\ published' = published
      /\ factPc = "start"
  BY DEF CollectAtStart
<1> PICK now : now = factClock
  OBVIOUS
<1>5. HonestFact(value, now, FALSE)'
  BY <1>1, <1>2, <1>3, <1>4, SawMeans DEF HonestFact
<1>6. CacheHonest'
  BY <1>1, <1>5 DEF CacheHonest
<1>8. Collect(factName', node') \in since'
  BY <1>4 DEF CollectAtStart
<1>7. \A i \in DOMAIN cache' : ~cache'[i].dirty
  BY <1>1 DEF CachedFact
<1> QED
  BY <1>4, <1>6, <1>7, <1>8 DEF FactInv, FactOrder, ReadHonest, NodeCounted

\* The manifest is evaluated with what the cache has.
LEMMA SnapshotHonest ==
  ASSUME FactInv, SnapshotGet
  PROVE  FactInv'
<1>1. /\ factPc = "evaluate" /\ factPc' = "idle"
      /\ reading' = <<IF cache = << >> THEN Unknown ELSE cache[1].value>>
      /\ cache' = cache /\ published' = published /\ since' = since /\ known' = known
      /\ factName' = factName /\ node' = node
  BY DEF SnapshotGet
<1>2. CacheHonest'
  BY <1>1 DEF FactInv, CacheHonest, HonestFact
<1>3. published = << >> /\ (cache # << >> => ~cache[1].dirty)
  BY <1>1 DEF FactInv, FactOrder, CacheHonest, CachedFact
<1> QED
  BY <1>1, <1>2, <1>3 DEF FactInv, FactOrder, ReadHonest, NodeCounted

\* A mark replaces the mark and leaves the value and its time.
LEMMA RemarkedFact ==
  ASSUME NEW value, NEW at, NEW before, NEW mark
  PROVE  [[value |-> value, collected_at |-> at, dirty |-> before] EXCEPT !.dirty = mark]
           = [value |-> value, collected_at |-> at, dirty |-> mark]
OBVIOUS

\* The mark before an apply takes nothing from the value and its time, and
\* nothing read before it is kept.
LEMMA MarkDirtyHonest ==
  ASSUME FactInv, NEW kind, MarkDirtyAfterApply(kind)
  PROVE  FactInv'
<1>1. /\ factPc' = "applying" /\ reading' = << >> /\ known' = known
      /\ since' = IF kind \in TriggersOf(factName) THEN {} ELSE since
      /\ cache' = IF kind \notin TriggersOf(factName) THEN cache
                  ELSE IF cache = << >> THEN <<CachedFact(Unknown, factClock, TRUE)>>
                  ELSE <<[cache[1] EXCEPT !.dirty = TRUE]>>
  BY DEF MarkDirtyAfterApply
<1>2. CASE kind \notin TriggersOf(factName)
  BY <1>1, <1>2 DEF FactInv, CacheHonest, HonestFact, FactOrder, ReadHonest, NodeCounted
<1>3. CASE kind \in TriggersOf(factName) /\ cache = << >>
  <2> PICK now : now = factClock
    OBVIOUS
  <2>1. HonestFact(Unknown, now, TRUE)'
    BY DEF HonestFact, Unknown
  <2>2. CacheHonest'
    BY <1>1, <1>3, <2>1 DEF CacheHonest
  <2> QED
    BY <1>1, <2>2 DEF FactInv, FactOrder, ReadHonest, NodeCounted
<1>4. CASE kind \in TriggersOf(factName) /\ cache # << >>
  <2>1. PICK value, at : \E dirty \in BOOLEAN :
          cache = <<CachedFact(value, at, dirty)>> /\ HonestFact(value, at, dirty)
    BY <1>4 DEF FactInv, CacheHonest
  <2>5. PICK dirty \in BOOLEAN : cache[1] = [value |-> value, collected_at |-> at, dirty |-> dirty]
    BY <2>1 DEF CachedFact
  <2>6. [cache[1] EXCEPT !.dirty = TRUE] = [value |-> value, collected_at |-> at, dirty |-> TRUE]
    <3>1. [[value |-> value, collected_at |-> at, dirty |-> dirty] EXCEPT !.dirty = TRUE]
             = [value |-> value, collected_at |-> at, dirty |-> TRUE]
      BY RemarkedFact
    <3> QED
      BY <2>5, <3>1, Zenon
  <2>2. cache' = <<CachedFact(value, at, TRUE)>>
    BY <1>1, <1>4, <2>6 DEF CachedFact
  <2>3. HonestFact(value, at, TRUE)'
    BY <1>1, <2>1 DEF HonestFact
  <2>4. CacheHonest'
    BY <2>2, <2>3 DEF CacheHonest
  <2> QED
    BY <1>1, <2>4 DEF FactInv, FactOrder, ReadHonest, NodeCounted
<1> QED
  BY <1>2, <1>3, <1>4

\* A read that finds the fact clean, or published, collects nothing; one that
\* finds it dirty collects it again, and a failure leaves the last value seen,
\* as stale and with its own time.
LEMMA ViewHonest ==
  ASSUME FactInv, ViewGet
  PROVE  FactInv'
<1>1. /\ factPc = "idle" /\ factPc' = factPc /\ published' = published /\ since' = since
      /\ factName' = factName /\ node' = node
  BY DEF ViewGet
<1>2. NodeCounted' /\ FactOrder'
  BY <1>1 DEF FactInv, NodeCounted, FactOrder
<1>3. CASE published # << >> \/ cache = << >> \/ ~cache[1].dirty
  <2>1. cache' = cache /\ known' = known
    BY <1>3 DEF ViewGet
  <2>2. CacheHonest'
    BY <1>1, <2>1 DEF FactInv, CacheHonest, HonestFact
  <2>3. ReadHonest'
    BY <1>1, <1>3, <2>1 DEF ViewGet, OverlayGet, ReadHonest
  <2> QED
    BY <1>2, <2>2, <2>3 DEF FactInv
<1>4. CASE published = << >> /\ cache # << >> /\ cache[1].dirty
  <2>1. PICK prev, at : \E dirty \in BOOLEAN :
          cache = <<CachedFact(prev, at, dirty)>> /\ HonestFact(prev, at, dirty)
    BY <1>4 DEF FactInv, CacheHonest
  <2>2. cache[1].value = prev /\ cache[1].collected_at = at
    BY <2>1 DEF CachedFact
  <2>3. PICK fresh \in {Collect(factName, node), Unknown} :
          /\ LET value == UpgradeOrReplace(prev, fresh, factClock - at)
                 when == IF value.tag = "Stale" THEN at ELSE factClock
             IN reading' = <<value>> /\ cache' = <<CachedFact(value, when, FALSE)>>
          /\ Saw(fresh)
    BY <1>4, <2>2 DEF ViewGet
  <2>4. PICK value, when :
          /\ value = UpgradeOrReplace(prev, fresh, factClock - at)
          /\ when = IF value.tag = "Stale" THEN at ELSE factClock
          /\ reading' = <<value>> /\ cache' = <<CachedFact(value, when, FALSE)>>
    BY <2>3
  <2>5. fresh.tag \in {"Known", "Unknown"}
    BY CollectorsFindOrNot DEF Unknown
  <2>6. prev.tag \in {"Known", "Unknown", "Stale"}
        /\ (prev.tag # "Unknown" => known # << >> /\ prev.value = known[1].value /\ at = known[1].at)
    BY <2>1 DEF HonestFact
  <2>7. HonestFact(value, when, FALSE)'
    <3>1. CASE fresh.tag = "Known"
      <4>1. value = fresh /\ when = factClock
        BY <2>4, <3>1 DEF UpgradeOrReplace
      <4>2. fresh \in since
        BY <1>1, <1>4, <3>1 DEF Unknown, FactInv, NodeCounted
      <4> QED
        BY <1>1, <2>3, <3>1, <4>1, <4>2, SawMeans DEF HonestFact
    <3>2. CASE fresh.tag = "Unknown" /\ prev.tag # "Unknown"
      <4>1. value.tag = "Stale" /\ value.value = prev.value /\ when = at
        BY <2>4, <2>6, <3>2 DEF UpgradeOrReplace, Stale
      <4>2. known' = known
        BY <2>3, <3>2, SawMeans
      <4> QED
        BY <2>6, <3>2, <4>1, <4>2 DEF HonestFact
    <3>3. CASE fresh.tag = "Unknown" /\ prev.tag = "Unknown"
      <4>1. value.tag = "Unknown"
        BY <2>4, <3>3 DEF UpgradeOrReplace, Unknown
      <4> QED
        BY <4>1 DEF HonestFact
    <3> QED
      BY <2>5, <3>1, <3>2, <3>3
  <2>8. CacheHonest'
    BY <2>4, <2>7 DEF CacheHonest
  <2>9. cache' # << >> /\ cache'[1].value = value /\ ~cache'[1].dirty
    BY <2>4 DEF CachedFact
  <2>10. ReadHonest'
    BY <1>1, <1>4, <2>4, <2>9 DEF ReadHonest
  <2> QED
    BY <1>2, <2>8, <2>10 DEF FactInv
<1> QED
  BY <1>3, <1>4

\* An apply touches the node or publishes rows: the cache keeps what it has.
LEMMA ApplyHonest ==
  ASSUME FactInv, NEW rows, Apply(rows)
  PROVE  FactInv'
<1>1. /\ factPc = "applying" /\ factPc' = "idle" /\ reading = << >> /\ reading' = << >>
      /\ cache' = cache /\ known' = known /\ factName' = factName
  BY DEF Apply, FactInv, FactOrder
<1>2. \/ since' = since \cup {Collect(factName, node')} /\ published' = published
      \/ since' = since /\ published' = <<rows>>
  BY DEF Apply
<1>3. CacheHonest'
  BY <1>1, <1>2 DEF FactInv, CacheHonest, HonestFact
<1>4. NodeCounted'
  BY <1>1, <1>2 DEF NodeCounted
<1> QED
  BY <1>1, <1>3, <1>4 DEF FactInv, FactOrder, ReadHonest

\* Someone else's change of the node, and the passing of time.
LEMMA OutsideHonest ==
  ASSUME FactInv, ForeignNodeChange \/ FactTick \/ UNCHANGED factVars
  PROVE  FactInv'
<1>1. /\ factName' = factName /\ cache' = cache /\ published' = published /\ factPc' = factPc
      /\ reading' = reading /\ known' = known
      /\ \/ since' = since /\ node' = node
         \/ since' = since \cup {Collect(factName, node')}
  BY DEF ForeignNodeChange, FactTick, factVars
<1>2. CacheHonest'
  BY <1>1 DEF FactInv, CacheHonest, HonestFact
<1>3. NodeCounted'
  BY <1>1 DEF FactInv, NodeCounted
<1> QED
  BY <1>1, <1>2, <1>3 DEF FactInv, FactOrder, ReadHonest

\* The invariant gives what a plan and the metric are promised.
LEMMA HonestMeans ==
  ASSUME FactInv
  PROVE  FactsHonest
<1>1. ASSUME NEW name \in DOMAIN BuildFactStates, BuildFactStates[name] # 1
      PROVE  known # << >>
  <2>1. BuildFactStates[name] = IF cache = << >> THEN 1 ELSE StateCode(cache[1].value)
    BY <1>1 DEF BuildFactStates
  <2>2. cache # << >> /\ StateCode(cache[1].value) # 1
    BY <1>1, <2>1
  <2>3. PICK value, at : \E dirty \in BOOLEAN :
          cache = <<CachedFact(value, at, dirty)>> /\ HonestFact(value, at, dirty)
    BY <2>2 DEF FactInv, CacheHonest
  <2>4. StateCode(value) # 1
    BY <2>2, <2>3 DEF CachedFact
  <2> QED
    BY <2>3, <2>4 DEF StateCode, HonestFact
<1>2. ASSUME NEW i \in DOMAIN reading
      PROVE  LET r == reading[i]
             IN /\ published = << >> /\ r.tag = "Known" => r \in since
                /\ r.tag = "Stale" => /\ known # << >> /\ r.value = known[1].value
                                      /\ cache[1].collected_at = known[1].at
                /\ published # << >> => r = Known(published[1])
  <2>1. CASE published # << >> /\ reading = <<Known(published[1])>>
    <3>1. reading[i] = Known(published[1])
      BY <1>2, <2>1
    <3> QED
      BY <2>1, <3>1 DEF Known
  <2>2. CASE published = << >> /\ cache = << >> /\ reading = <<Unknown>>
    <3>1. reading[i] = Unknown
      BY <1>2, <2>2
    <3> QED
      BY <2>2, <3>1 DEF Unknown
  <2>3. CASE published = << >> /\ cache # << >> /\ reading = <<cache[1].value>> /\ ~cache[1].dirty
    <3>1. reading[i] = cache[1].value
      BY <1>2, <2>3
    <3>2. PICK value, at : \E dirty \in BOOLEAN :
            cache = <<CachedFact(value, at, dirty)>> /\ HonestFact(value, at, dirty)
      BY <2>3 DEF FactInv, CacheHonest
    <3>3. PICK dirty \in BOOLEAN : cache = <<CachedFact(value, at, dirty)>> /\ HonestFact(value, at, dirty)
      BY <3>2
    <3>4. cache[1].value = value /\ cache[1].collected_at = at /\ cache[1].dirty = dirty
      BY <3>3 DEF CachedFact
    <3>5. /\ value.tag # "Unknown" =>
               known # << >> /\ value.value = known[1].value /\ at = known[1].at
          /\ value.tag = "Known" => value \in since
      BY <2>3, <3>3, <3>4 DEF HonestFact
    <3> QED
      BY <2>3, <3>1, <3>4, <3>5
  <2> QED
    BY <1>2, <2>1, <2>2, <2>3 DEF FactInv, ReadHonest
<1> QED
  BY <1>1, <1>2 DEF FactsHonest

\* A plan that reads a fact after an apply of a trigger gets no known value from
\* before it, and a stale one is the last value seen with the time it was seen,
\* for every limit on the applies, the foreign changes and the panics.
THEOREM FactsAreHonest == FactSpec => []FactsHonest
<1>1. FactInit => FactInv
  BY DEF FactInit, FactInv, CacheHonest, FactOrder, ReadHonest, NodeCounted
<1>2. FactInv /\ [FactNext]_factVars => FactInv'
  BY CollectAtStartHonest, SnapshotHonest, ViewHonest, MarkDirtyHonest, ApplyHonest, OutsideHonest DEF FactNext
<1>3. FactInv => FactsHonest
  BY HonestMeans
<1> QED
  BY <1>1, <1>2, <1>3, PTL DEF FactSpec

\* Division with a remainder, for a divisor that is not 0.
LEMMA DivMeans ==
  ASSUME NEW a \in Nat, NEW b \in Nat \ {0}
  PROVE  /\ a \div b \in Nat /\ (a \div b) * b <= a /\ a < (a \div b) * b + b
OBVIOUS

\* ceil_div of a positive quota and period: the fewest whole CPUs that hold it.
LEMMA CeilDivRoundsUp ==
  ASSUME NEW a \in Nat \ {0}, NEW b \in Nat \ {0}
  PROVE  /\ CeilDiv(a, b) \in Nat \ {0}
         /\ CeilDiv(a, b) * b >= a /\ (CeilDiv(a, b) - 1) * b < a
<1> DEFINE q == (a + b - 1) \div b
<1>1. a + b - 1 \in Nat
  OBVIOUS
<1>2. q \in Nat /\ q * b <= a + b - 1 /\ a + b - 1 < q * b + b
  BY <1>1, DivMeans
<1>3. CeilDiv(a, b) = q
  BY DEF CeilDiv
<1> HIDE DEF q
<1>4. q * b >= a
  <2>1. q * b \in Nat
    BY <1>2
  <2> QED
    BY <1>2, <2>1
<1>5. (q - 1) * b < a
  <2>1. (q - 1) * b = q * b - b
    BY <1>2
  <2>2. q * b \in Nat
    BY <1>2
  <2> QED
    BY <1>2, <2>1, <2>2
<1>6. q # 0
  BY <1>4
<1> QED
  BY <1>2, <1>3, <1>4, <1>5, <1>6

\* The CPU count of a node, for every quota, period and number of CPUs: never
\* 0, and under a limit the quota rounded up to whole CPUs.
THEOREM CpuCountRoundsUp ==
  ASSUME NEW n, n.cpus \in Nat
  PROVE  /\ CpuCount(n).value \in Nat \ {0}
         /\ CpuLimit(n) # NoToken => /\ CpuCount(n).value * n.period >= n.quota
                                    /\ (CpuCount(n).value - 1) * n.period < n.quota
<1>1. CASE CpuLimit(n) = NoToken
  BY <1>1 DEF CpuCount, Known
<1>2. CASE CpuLimit(n) # NoToken
  <2>1. Positive(n.quota) /\ Positive(n.period) /\ CpuLimit(n) = CeilDiv(n.quota, n.period)
    BY <1>2 DEF CpuLimit, V1Count, V2Count
  <2>2. n.quota \in Nat \ {0} /\ n.period \in Nat \ {0}
    BY <2>1 DEF Positive
  <2>3. CpuLimit(n) \in Nat \ {0}
    BY <2>1, <2>2, CeilDivRoundsUp
  <2>4. CpuCount(n).value = CpuLimit(n)
    BY <1>2, <2>3 DEF CpuCount, Known
  <2> QED
    BY <2>1, <2>2, <2>3, <2>4, CeilDivRoundsUp
<1> QED
  BY <1>1, <1>2

\* The memory of a node under a cgroup limit that counts, for every limit: the
\* limit rounded down to megabytes, and a v1 limit that stands for none is not
\* taken for one.
THEOREM MemoryRoundsDown ==
  ASSUME NEW n, n.limit \in Nat,
         DetectVersion(n) = "V2" \/ (DetectVersion(n) = "V1" /\ n.limit < UnlimitedBytes)
  PROVE  /\ MemoryMb(n).tag = "Known" /\ MemoryMb(n).value \in Nat
         /\ MemoryMb(n).value * 1048576 <= n.limit /\ n.limit < (MemoryMb(n).value + 1) * 1048576
<1>1. V2Bytes(n) = n.limit /\ (DetectVersion(n) = "V1" => V1Bytes(n) = n.limit)
  BY DEF V2Bytes, V1Bytes
<1>2. n.limit # NoToken /\ BytesToMb(n.limit) \in Nat /\ BytesToMb(n.limit) # NoToken
  BY FactsAssumption DEF BytesToMb
<1>3. MemoryMb(n) = Known(BytesToMb(n.limit))
  BY <1>1, <1>2 DEF MemoryMb
<1>4. BytesToMb(n.limit) * 1048576 <= n.limit /\ n.limit < (BytesToMb(n.limit) + 1) * 1048576
  BY <1>2 DEF BytesToMb
<1> QED
  BY <1>2, <1>3, <1>4 DEF Known

-----------------------------------------------------------------------------
(* What the collectors compute: folds over any number of sections *)

\* Every set of natural numbers that is not empty has a least one.
LEMMA LeastNat ==
  ASSUME NEW T \in SUBSET Nat, T # {}
  PROVE  \E n \in T : \A m \in T : n <= m
<1> DEFINE R == {ss \in Nat \X Nat : ss[1] < ss[2]}
<1>1. OpToRel(<, Nat) = R
  BY DEF OpToRel
<1>2. IsWellFoundedOn(R, Nat)
  BY <1>1, NatLessThanWellFounded
<1> HIDE DEF R
<1>3. PICK n \in T : \A m \in T : <<m, n>> \notin R
  BY <1>2, WFMin
<1>4. \A m \in T : ~(m < n)
  BY <1>3 DEF R
<1>. QED
  BY <1>4

\* Induction, with the numbers that have the property given as a set.
LEMMA SetInduction ==
  ASSUME NEW T, 0 \in T, \A k \in Nat : k \in T => k + 1 \in T
  PROVE  \A n \in Nat : n \in T
<1> SUFFICES ASSUME Nat \ T # {}
             PROVE  FALSE
  OBVIOUS
<1>1. PICK n \in Nat \ T : \A m \in Nat \ T : n <= m
  BY LeastNat
<1>2. n # 0 /\ n - 1 \in Nat
  BY <1>1
<1>3. n - 1 \in T
  BY <1>1, <1>2
<1>4. (n - 1) + 1 \in T
  BY <1>2, <1>3
<1>. QED
  BY <1>1, <1>4

\* The greatest of the indices that are left.
LEMMA GreatestIndex ==
  ASSUME NEW n \in Nat, NEW t \in SUBSET (1..n), t # {}
  PROVE  Max(t) \in t /\ \A y \in t : y <= Max(t)
<1> DEFINE U == {u \in Nat : n - u \in t}
<1>1. PICK x \in t : TRUE
  OBVIOUS
<1>2. n - x \in Nat /\ n - (n - x) = x
  BY <1>1
<1>3. U # {}
  BY <1>1, <1>2
<1>4. PICK u \in U : \A w \in U : u <= w
  BY <1>3, LeastNat
<1>5. \A y \in t : n - y \in U
  OBVIOUS
<1>9. u \in Nat /\ n - u \in t
  BY <1>4
<1> HIDE DEF U
<1>6. n - u \in t /\ \A y \in t : n - u >= y
  <2>1. ASSUME NEW y \in t  PROVE n - u >= y
    <3>1. u <= n - y /\ u \in Nat /\ y \in Int
      BY <1>4, <1>5, <1>9, <2>1
    <3>. QED
      BY <3>1
  <2>. QED
    BY <1>9, <2>1
<1>7. \E m \in t : \A y \in t : m >= y
  BY <1>6
<1>8. Max(t) \in t /\ \A y \in t : Max(t) >= y
  BY <1>7 DEF Max
<1>. QED
  BY <1>8

\* The recursive function of a fold exists: F is what one item does to what
\* the items before it have left.
FoldOver(g, base, F, s, n) ==
  g = [t \in SUBSET (1..n) |-> IF t = {} THEN base ELSE F[<<g[t \ {Max(t)}], s[Max(t)]>>]]
LEMMA FoldExists ==
  ASSUME NEW B, NEW P, NEW F \in [B \X P -> B], NEW base \in B, NEW n \in Nat, NEW s \in [1..n -> P]
  PROVE  \E g \in [SUBSET (1..n) -> B] : FoldOver(g, base, F, s, n)
<1> DEFINE Solved(k) == \E g \in [SUBSET (1..k) -> B] : FoldOver(g, base, F, s, k)
           T == {k \in Nat : k <= n => Solved(k)}
<1>1. 0 \in T
  <2> DEFINE g == [t \in SUBSET (1..0) |-> base]
  <2>1. \A t \in SUBSET (1..0) : t = {}
    OBVIOUS
  <2>2. g \in [SUBSET (1..0) -> B] /\ FoldOver(g, base, F, s, 0)
    BY <2>1 DEF FoldOver
  <2>. QED
    BY <2>2
<1>2. ASSUME NEW k \in Nat, Solved(k), k + 1 <= n
      PROVE  Solved(k + 1)
  <2>1. PICK g \in [SUBSET (1..k) -> B] : FoldOver(g, base, F, s, k)
    BY <1>2
  <2> DEFINE h == [t \in SUBSET (1..(k+1)) |-> IF k + 1 \in t THEN F[<<g[t \ {k+1}], s[k+1]>>] ELSE g[t]]
  <2>2. \A t \in SUBSET (1..(k+1)) : t \ {k+1} \in SUBSET (1..k)
    BY <1>2
  <2>3. \A t \in SUBSET (1..k) : h[t] = g[t] /\ t \in SUBSET (1..(k+1))
    BY <1>2
  <2>4. h \in [SUBSET (1..(k+1)) -> B]
    <3>1. ASSUME NEW t \in SUBSET (1..(k+1))
          PROVE  (IF k + 1 \in t THEN F[<<g[t \ {k+1}], s[k+1]>>] ELSE g[t]) \in B
      <4>1. CASE k + 1 \in t
        <5>1. g[t \ {k+1}] \in B /\ s[k+1] \in P
          BY <1>2, <2>2
        <5>. QED
          BY <4>1, <5>1
      <4>2. CASE k + 1 \notin t
        BY <2>2, <4>2
      <4>. QED
        BY <4>1, <4>2
    <3>. QED
      BY <3>1
  <2>5. ASSUME NEW t \in SUBSET (1..(k+1))
        PROVE  h[t] = IF t = {} THEN base ELSE F[<<h[t \ {Max(t)}], s[Max(t)]>>]
    <3>1. CASE t = {}
      <4>1. {} \in SUBSET (1..k) /\ g[{}] = base
        BY <2>1 DEF FoldOver
      <4>. QED
        BY <2>3, <3>1, <4>1
    <3>2. CASE t # {} /\ k + 1 \in t
      <4>1. Max(t) = k + 1
        <5>1. k + 1 \in Nat
          BY <1>2
        <5>2. Max(t) \in t /\ k + 1 <= Max(t)
          BY <3>2, <5>1, GreatestIndex
        <5>3. Max(t) \in 1..(k+1)
          BY <5>2
        <5>. QED
          BY <1>2, <5>2, <5>3
      <4>2. h[t \ {k+1}] = g[t \ {k+1}]
        BY <2>2, <2>3
      <4>3. h[t] = F[<<g[t \ {k+1}], s[k+1]>>]
        BY <3>2
      <4>. QED
        BY <3>2, <4>1, <4>2, <4>3
    <3>3. CASE t # {} /\ k + 1 \notin t
      <4>1. t \in SUBSET (1..k) /\ t \ {Max(t)} \in SUBSET (1..k)
        BY <2>2, <3>3
      <4>2. g[t] = F[<<g[t \ {Max(t)}], s[Max(t)]>>]
        BY <2>1, <3>3, <4>1 DEF FoldOver
      <4>3. h[t] = g[t] /\ h[t \ {Max(t)}] = g[t \ {Max(t)}]
        BY <2>3, <4>1
      <4>. QED
        BY <3>3, <4>2, <4>3
    <3>. QED
      BY <3>1, <3>2, <3>3
  <2> HIDE DEF h
  <2>6. FoldOver(h, base, F, s, k + 1)
    BY <2>4, <2>5 DEF FoldOver
  <2>. QED
    BY <2>4, <2>6
<1> HIDE DEF Solved
<1>3. \A k \in Nat : k \in T => k + 1 \in T
  BY <1>2
<1> HIDE DEF T
<1>4. n \in T
  BY <1>1, <1>3, SetInduction
<1>5. Solved(n)
  BY <1>4 DEF T
<1>. QED
  BY <1>5 DEF Solved

-----------------------------------------------------------------------------
\* One section of the status file, and what the fold of
\* parse_installed_from_status makes of the version it has so far.
CurrentStep(best, p) ==
  IF p.status = "installed" /\ p.version # NoToken /\ (best = NoToken \/ IsNewer(p.version, best)) THEN p.version ELSE best

\* The fold, section by section.
LEMMA CurrentFolds ==
  ASSUME NEW s \in Seq(ParsedPackage)
  PROVE  \E g : /\ g[{}] = NoToken /\ ParseInstalledFromStatus(s) = g[1..Len(s)]
                /\ \A k \in 1..Len(s) : g[1..k] = CurrentStep(g[1..(k-1)], s[k])
<1> DEFINE n == Len(s)
           V == DOMAIN StringOrder \cup {NoToken}
           Body(g) == [t \in SUBSET (DOMAIN s) |-> IF t = {} THEN NoToken ELSE CurrentStep(g[t \ {Max(t)}], s[Max(t)])]
           F == [x \in V \X ParsedPackage |-> CurrentStep(x[1], x[2])]
<1>1. n \in Nat /\ DOMAIN s = 1..n /\ s \in [1..n -> ParsedPackage]
  OBVIOUS
<1>2. F \in [V \X ParsedPackage -> V]
  <2>1. ASSUME NEW best \in V, NEW p \in ParsedPackage  PROVE CurrentStep(best, p) \in V
    BY DEF CurrentStep, ParsedPackage
  <2> HIDE DEF V
  <2>. QED
    BY <2>1
<1>3. PICK g \in [SUBSET (1..n) -> V] : FoldOver(g, NoToken, F, s, n)
  <2>1. NoToken \in V
    OBVIOUS
  <2> HIDE DEF F, V, n
  <2>. QED
    BY <1>1, <1>2, <2>1, FoldExists
<1>4. g = Body(g)
  <2>1. ASSUME NEW t \in SUBSET (1..n), t # {}
        PROVE  F[<<g[t \ {Max(t)}], s[Max(t)]>>] = CurrentStep(g[t \ {Max(t)}], s[Max(t)])
    <3>1. Max(t) \in 1..n
      BY <1>1, <2>1, GreatestIndex
    <3>2. g[t \ {Max(t)}] \in V /\ s[Max(t)] \in ParsedPackage
      BY <1>1, <1>3, <3>1
    <3> HIDE DEF V
    <3>. QED
      BY <3>2
  <2> HIDE DEF F, V, n
  <2>2. \A t \in SUBSET (1..n) : g[t] = IF t = {} THEN NoToken ELSE CurrentStep(g[t \ {Max(t)}], s[Max(t)])
    BY <1>3, <2>1 DEF FoldOver
  <2>. QED
    BY <1>1, <1>3, <2>2
<1> DEFINE iter == CHOOSE h : h = Body(h)
<1>5. iter = Body(iter)
  BY <1>4, Zenon
<1>6. ParseInstalledFromStatus(s) = iter[DOMAIN s]
  BY Zenon DEF ParseInstalledFromStatus, FoldLeft, MapThenFoldSet, CurrentStep
<1> HIDE DEF iter, n
<1>7. iter[{}] = NoToken
  BY <1>5
<1>8. ASSUME NEW k \in 1..n  PROVE iter[1..k] = CurrentStep(iter[1..(k-1)], s[k])
  <2>0. k \in Nat /\ 1 <= k /\ k <= n
    BY <1>1
  <2>1. 1..k \in SUBSET (1..n) /\ k \in Nat /\ 1..k # {} /\ k \in 1..k
    <3>1. k \in 1..k
      BY <2>0
    <3>2. \A x \in 1..k : x \in 1..n
      BY <1>1, <2>0
    <3>. QED
      BY <2>0, <3>1, <3>2
  <2>2. Max(1..k) \in 1..k /\ k <= Max(1..k)
    BY <2>1, GreatestIndex
  <2>3. Max(1..k) = k
    BY <2>1, <2>2
  <2>4. (1..k) \ {k} = 1..(k-1)
    BY <2>1
  <2>5. iter[1..k] = CurrentStep(iter[(1..k) \ {Max(1..k)}], s[Max(1..k)])
    BY <1>1, <1>5, <2>1
  <2>. QED
    BY <2>3, <2>4, <2>5
<1>. QED
  BY <1>1, <1>6, <1>7, <1>8 DEF n

\* Of the versions of a package that dpkg has as installed, in any number of
\* sections and in any order, the newest is current; there is none only if
\* there are no such sections.
THEOREM NewestIsCurrent ==
  ASSUME NEW s \in Seq(ParsedPackage),
         \A i \in DOMAIN s : s[i].status = "installed" => s[i].version \in DOMAIN DebOrder
  PROVE  LET current == ParseInstalledFromStatus(s)
             installed == {s[i].version : i \in {j \in DOMAIN s : s[j].status = "installed"}}
         IN IF installed = {} THEN current = NoToken
            ELSE current \in installed /\ \A v \in installed : DebOrder[v] <= DebOrder[current]
<1> DEFINE n == Len(s)
           current == ParseInstalledFromStatus(s)
           Upto(k) == {s[i].version : i \in {j \in 1..k : s[j].status = "installed"}}
           Newest(v, k) == IF Upto(k) = {} THEN v = NoToken
                           ELSE v \in Upto(k) /\ \A w \in Upto(k) : DebOrder[w] <= DebOrder[v]
<1>1. PICK g : /\ g[{}] = NoToken /\ current = g[1..n]
               /\ \A k \in 1..n : g[1..k] = CurrentStep(g[1..(k-1)], s[k])
  BY CurrentFolds
<1> DEFINE T == {k \in Nat : k <= n => Newest(g[1..k], k)}
<1>2. n \in Nat /\ DOMAIN s = 1..n
  OBVIOUS
<1>3. 0 \in T
  <2>1. 1..0 = {} /\ Upto(0) = {}
    OBVIOUS
  <2>. QED
    BY <1>1, <2>1
<1>4. ASSUME NEW k \in Nat, k + 1 <= n, Newest(g[1..k], k)
      PROVE  Newest(g[1..(k+1)], k + 1)
  <2> DEFINE p == s[k+1]
             b == g[1..k]
             c == g[1..(k+1)]
             U == Upto(k)
  <2>1. c = CurrentStep(b, p)
    <3>1. k + 1 \in 1..n /\ (k + 1) - 1 = k
      BY <1>2, <1>4
    <3>. QED
      BY <1>1, <3>1
  <2>2. Upto(k + 1) = U \cup (IF p.status = "installed" THEN {p.version} ELSE {})
    <3>1. 1..(k+1) = (1..k) \cup {k+1}
      BY <1>4
    <3>. QED
      BY <3>1
  <2>3. U \subseteq DOMAIN DebOrder /\ (p.status = "installed" => p.version \in DOMAIN DebOrder)
    BY <1>2, <1>4
  <2>4. DOMAIN DebOrder = {"9", "10"} /\ DebOrder["9"] = 1 /\ DebOrder["10"] = 2 /\ NoToken \notin DOMAIN DebOrder
    BY TokenAssumption DEF DebOrder, StringOrder
  <2>5. \A v, w \in DOMAIN DebOrder : IsNewer(v, w) <=> DebOrder[v] > DebOrder[w]
    BY DEF IsNewer
  <2>6. Newest(b, k)
    BY <1>4
  <2> HIDE DEF Upto, p, b, c
  <2> SUFFICES Newest(c, k + 1)
    BY DEF c
  <2>7. CASE p.status # "installed"
    BY <2>1, <2>2, <2>6, <2>7 DEF CurrentStep
  <2>8. CASE p.status = "installed" /\ U = {}
    BY <2>1, <2>2, <2>3, <2>4, <2>6, <2>8 DEF CurrentStep
  <2>9. CASE p.status = "installed" /\ U # {}
    BY <2>1, <2>2, <2>3, <2>4, <2>5, <2>6, <2>9 DEF CurrentStep
  <2>. QED
    BY <2>7, <2>8, <2>9
<1> HIDE DEF Newest
<1>5. \A k \in Nat : k \in T => k + 1 \in T
  BY <1>2, <1>4
<1> HIDE DEF T
<1>6. n \in T
  BY <1>2, <1>3, <1>5, SetInduction
<1>7. Newest(current, n)
  BY <1>1, <1>2, <1>6 DEF T
<1>. QED
  BY <1>2, <1>7 DEF Newest

-----------------------------------------------------------------------------
\* The fold of collect_candidates, section by section.
LEMMA CandidateFolds ==
  ASSUME NEW s \in Seq(Candidate), s # << >>
  PROVE  \E g : /\ g[{}] = s[1] /\ CollectCandidates(s) = g[1..(Len(s) - 1)].version
                /\ \A k \in 1..(Len(s) - 1) : g[1..k] = MergeCandidate(g[1..(k-1)], s[k+1])
<1> DEFINE n == Len(s) - 1
           r == Tail(s)
           Body(g) == [t \in SUBSET (DOMAIN r) |-> IF t = {} THEN Head(s) ELSE MergeCandidate(g[t \ {Max(t)}], r[Max(t)])]
           F == [x \in Candidate \X Candidate |-> MergeCandidate(x[1], x[2])]
<1>1. n \in Nat /\ r \in Seq(Candidate) /\ Len(r) = n /\ Head(s) = s[1] /\ Head(s) \in Candidate
  OBVIOUS
<1>3. \A k \in 1..n : r[k] = s[k+1]
  OBVIOUS
<1> HIDE DEF n, r
<1>2. DOMAIN r = 1..n /\ r \in [1..n -> Candidate]
  BY <1>1
<1>4. F \in [Candidate \X Candidate -> Candidate]
  <2>1. ASSUME NEW b \in Candidate, NEW c \in Candidate  PROVE MergeCandidate(b, c) \in Candidate
    BY DEF MergeCandidate
  <2>. QED
    BY <2>1
<1>5. PICK g \in [SUBSET (1..n) -> Candidate] : FoldOver(g, Head(s), F, r, n)
  <2> HIDE DEF F
  <2>. QED
    BY <1>1, <1>2, <1>4, FoldExists
<1>6. g = Body(g)
  <2>1. ASSUME NEW t \in SUBSET (1..n), t # {}
        PROVE  F[<<g[t \ {Max(t)}], r[Max(t)]>>] = MergeCandidate(g[t \ {Max(t)}], r[Max(t)])
    <3>1. Max(t) \in 1..n
      BY <1>1, <2>1, GreatestIndex
    <3>2. g[t \ {Max(t)}] \in Candidate /\ r[Max(t)] \in Candidate
      BY <1>2, <1>5, <3>1
    <3>. QED
      BY <3>2
  <2> HIDE DEF F
  <2>2. \A t \in SUBSET (1..n) : g[t] = IF t = {} THEN Head(s) ELSE MergeCandidate(g[t \ {Max(t)}], r[Max(t)])
    BY <1>5, <2>1 DEF FoldOver
  <2>. QED
    BY <1>2, <1>5, <2>2
<1> DEFINE iter == CHOOSE h : h = Body(h)
<1>7. iter = Body(iter)
  BY <1>6, Zenon
<1>8. CollectCandidates(s) = iter[DOMAIN r].version
  BY Zenon DEF CollectCandidates, FoldLeft, MapThenFoldSet, r
<1> HIDE DEF iter
<1>9. iter[{}] = s[1]
  BY <1>1, <1>7
<1>10. ASSUME NEW k \in 1..n  PROVE iter[1..k] = MergeCandidate(iter[1..(k-1)], s[k+1])
  <2>0. k \in Nat /\ 1 <= k /\ k <= n
    BY <1>1
  <2>1. 1..k \in SUBSET (1..n) /\ 1..k # {} /\ k \in 1..k
    <3>1. k \in 1..k
      BY <2>0
    <3>2. \A x \in 1..k : x \in 1..n
      BY <1>1, <2>0
    <3>. QED
      BY <3>1, <3>2
  <2>2. Max(1..k) \in 1..k /\ k <= Max(1..k)
    BY <2>0, <2>1, GreatestIndex
  <2>3. Max(1..k) = k
    BY <2>0, <2>2
  <2>4. (1..k) \ {k} = 1..(k-1)
    BY <2>0
  <2>5. iter[1..k] = MergeCandidate(iter[(1..k) \ {Max(1..k)}], r[Max(1..k)])
    BY <1>2, <1>7, <2>1
  <2>. QED
    BY <1>3, <2>3, <2>4, <2>5
<1>. QED
  BY <1>2, <1>8, <1>9, <1>10 DEF n

\* What is merged into a candidate replaces it only if it beats it.
LEMMA MergeKeepsBest ==
  ASSUME NEW b \in Candidate, NEW c \in Candidate, RegularCandidate(b), RegularCandidate(c)
  PROVE  MergeCandidate(b, c) = IF CandidateBeats(c, b) THEN c ELSE b
<1>1. PriorityValue("optional") = 500 /\ PriorityValue("500") = 500 /\ PriorityValue("extra") = 100
  BY DEF PriorityValue
<1>2. 500 # NoToken /\ 100 # NoToken
  BY FactsAssumption
<1>3. IsNewer(c.version, b.version) <=> DebOrder[c.version] > DebOrder[b.version]
  BY DEF RegularCandidate, IsNewer
<1>. QED
  BY <1>1, <1>2, <1>3 DEF MergeCandidate, CandidateBeats, RegularCandidate

\* Of the sections of the sources lists, in any number and in any order, a
\* newest one of the highest priority is the candidate.
THEOREM BestIsCandidate ==
  ASSUME NEW s \in Seq(Candidate), s # << >>, \A i \in DOMAIN s : RegularCandidate(s[i])
  PROVE  \E i \in DOMAIN s : /\ s[i].version = CollectCandidates(s)
                             /\ \A j \in DOMAIN s : ~CandidateBeats(s[j], s[i])
<1> DEFINE n == Len(s) - 1
           Best(c, k) == \E i \in 1..(k+1) : s[i] = c /\ \A j \in 1..(k+1) : ~CandidateBeats(s[j], s[i])
<1>1. PICK g : /\ g[{}] = s[1] /\ CollectCandidates(s) = g[1..n].version
               /\ \A k \in 1..n : g[1..k] = MergeCandidate(g[1..(k-1)], s[k+1])
  BY CandidateFolds
<1> DEFINE T == {k \in Nat : k <= n => Best(g[1..k], k)}
<1>2. n \in Nat /\ DOMAIN s = 1..(n+1) /\ \A i \in 1..(n+1) : s[i] \in Candidate /\ RegularCandidate(s[i])
  OBVIOUS
<1> HIDE DEF n
<1>3. DebOrder["9"] = 1 /\ DebOrder["10"] = 2 /\ DOMAIN DebOrder = {"9", "10"}
      /\ PriorityValue("optional") = 500 /\ PriorityValue("500") = 500 /\ PriorityValue("extra") = 100
  BY DEF DebOrder, PriorityValue
<1>4. 0 \in T
  <2>1. 1..0 = {} /\ 1..(0+1) = {1}
    OBVIOUS
  <2>2. ~CandidateBeats(s[1], s[1])
    BY <1>2, <1>3 DEF CandidateBeats, RegularCandidate
  <2>. QED
    BY <1>1, <2>1, <2>2
<1>5. ASSUME NEW k \in Nat, k + 1 <= n, Best(g[1..k], k)
      PROVE  Best(g[1..(k+1)], k + 1)
  <2>1. PICK i \in 1..(k+1) : s[i] = g[1..k] /\ \A j \in 1..(k+1) : ~CandidateBeats(s[j], s[i])
    BY <1>5
  <2>2. k + 2 \in 1..(n+1) /\ 1..((k+1)+1) = (1..(k+1)) \cup {k+2} /\ \A j \in 1..(k+1) : j \in 1..(n+1)
    BY <1>2, <1>5
  <2>3. g[1..(k+1)] = MergeCandidate(s[i], s[k+2])
    <3>1. k + 1 \in 1..n /\ (k + 1) - 1 = k /\ (k + 1) + 1 = k + 2
      BY <1>2, <1>5
    <3>. QED
      BY <1>1, <2>1, <3>1
  <2>4. g[1..(k+1)] = IF CandidateBeats(s[k+2], s[i]) THEN s[k+2] ELSE s[i]
    BY <1>2, <2>2, <2>3, MergeKeepsBest
  <2>5. \A a, b, c : RegularCandidate(a) /\ RegularCandidate(b) /\ RegularCandidate(c) /\ CandidateBeats(a, b)
                       /\ ~CandidateBeats(c, b) => ~CandidateBeats(c, a) /\ ~CandidateBeats(a, a)
    BY <1>3 DEF RegularCandidate, CandidateBeats
  <2>6. CASE CandidateBeats(s[k+2], s[i])
    <3>1. \A j \in 1..((k+1)+1) : ~CandidateBeats(s[j], s[k+2])
      BY <1>2, <2>1, <2>2, <2>5, <2>6
    <3>. QED
      BY <2>2, <2>4, <2>6, <3>1
  <2>7. CASE ~CandidateBeats(s[k+2], s[i])
    BY <2>1, <2>2, <2>4, <2>7
  <2>. QED
    BY <2>6, <2>7
<1> HIDE DEF Best
<1>6. \A k \in Nat : k \in T => k + 1 \in T
  BY <1>2, <1>5
<1> HIDE DEF T
<1>7. n \in T
  BY <1>2, <1>4, <1>6, SetInduction
<1>8. Best(g[1..n], n)
  BY <1>2, <1>7 DEF T
<1>. QED
  BY <1>1, <1>2, <1>8 DEF Best

-----------------------------------------------------------------------------
\* A package node of the catalogue: sections of one package, and lists only
\* beside an installed version.
LEMMA PackageNodesAre ==
  ASSUME NEW n \in PackageNodes
  PROVE  /\ n.sections \in Seq(ParsedPackage) /\ n.pkgLists \in Seq(Candidate)
         /\ n.pkgLists # << >> => n.sections = <<Installed("9")>>
<1>1. Installed("9") \in ParsedPackage /\ Installed("10") \in ParsedPackage
  BY DEF Installed, ParsedPackage, StringOrder
<1>2. /\ <<Installed("9")>> \in Seq(ParsedPackage) /\ <<Installed("10")>> \in Seq(ParsedPackage)
      /\ << >> \in Seq(ParsedPackage) /\ << >> \in Seq(Candidate)
  BY <1>1
<1>3. ASSUME NEW S, NEW ab \in S \X S PROVE ab \in Seq(S)
  <2>1. ab = <<ab[1], ab[2]>> /\ ab[1] \in S /\ ab[2] \in S
    BY <1>3
  <2>2. <<ab[1], ab[2]>> \in Seq(S)
    BY <2>1
  <2>. QED
    BY <2>1, <2>2
<1>4. CASE n \in PackageStates
  <2>1. n.sections \in {<< >>, <<Installed("9")>>, <<Installed("10")>>} /\ n.pkgLists = << >>
    BY <1>4 DEF PackageStates
  <2>. QED
    BY <1>2, <2>1, Zenon
<1>5. CASE n \in [readable : {TRUE}, sections : ParsedPackage \X ParsedPackage, pkgLists : {<< >>}]
  <2>1. n.sections \in ParsedPackage \X ParsedPackage /\ n.pkgLists = << >>
    BY <1>5
  <2>. QED
    BY <1>2, <1>3, <2>1, Zenon
<1>6. CASE n \in [readable : {TRUE}, sections : {<<Installed("9")>>}, pkgLists : Candidate \X Candidate]
  <2>1. n.sections = <<Installed("9")>> /\ n.pkgLists \in Candidate \X Candidate
    BY <1>6
  <2>. QED
    BY <1>2, <1>3, <2>1, Zenon
<1>. QED
  BY <1>4, <1>5, <1>6 DEF PackageNodes

\* The third part of FactsRight, for one node.
LEMMA PackagesRight ==
  ASSUME NEW n \in PackageNodes
  PROVE  VersionsRight(n)
<1> DEFINE s == n.sections
           lists == n.pkgLists
           current == ParseInstalledFromStatus(s)
           installed == {p.version : p \in {q \in Range(s) : q.status = "installed"}}
           listed == Range(lists)
           value == InstalledPackages(n).value
<1>0. SUFFICES ASSUME InstalledPackages(n).tag = "Known"
      PROVE  /\ installed \subseteq DOMAIN DebOrder /\ value.current # NoToken =>
                  value.current \in installed /\ \A v \in installed : DebOrder[v] <= DebOrder[value.current]
             /\ listed # {} /\ (\A c \in listed : RegularCandidate(c)) =>
                  \E best \in listed : best.version = value.candidate /\ ~\E d \in listed : CandidateBeats(d, best)
  BY Zenon DEF VersionsRight
<1>1. s \in Seq(ParsedPackage) /\ lists \in Seq(Candidate) /\ (lists # << >> => s = <<Installed("9")>>)
  BY PackageNodesAre
<1>2. value.current = current /\ value.candidate = IF current = NoToken THEN NoToken ELSE CollectCandidates(lists)
  BY <1>0 DEF InstalledPackages, Known, Unknown
<1>3. installed = {s[i].version : i \in {j \in DOMAIN s : s[j].status = "installed"}}
  BY Zenon DEF Range
<1>4. installed \subseteq DOMAIN DebOrder /\ current # NoToken =>
        current \in installed /\ \A v \in installed : DebOrder[v] <= DebOrder[current]
  <2>1. SUFFICES ASSUME installed \subseteq DOMAIN DebOrder, current # NoToken
                 PROVE  current \in installed /\ \A v \in installed : DebOrder[v] <= DebOrder[current]
    OBVIOUS
  <2>2. \A i \in DOMAIN s : s[i].status = "installed" => s[i].version \in DOMAIN DebOrder
    BY <1>3, <2>1
  <2> HIDE DEF s, current, installed
  <2>. QED
    BY <1>1, <1>3, <2>1, <2>2, NewestIsCurrent DEF current
<1>5. ASSUME listed # {}, \A c \in listed : RegularCandidate(c)
      PROVE  \E best \in listed : best.version = value.candidate /\ ~\E d \in listed : CandidateBeats(d, best)
  <2>1. lists # << >> /\ s = <<Installed("9")>>
    BY <1>1, <1>5 DEF Range
  <2>2. DOMAIN s = {1} /\ s[1].status = "installed" /\ s[1].version = "9" /\ "9" \in DOMAIN DebOrder
    BY <2>1 DEF Installed, DebOrder
  <2>3. current # NoToken
    <3>1. installed = {"9"}
      BY <1>3, <2>2
    <3>2. current \in installed
      <4> HIDE DEF s, current, installed
      <4>. QED
        BY <1>1, <1>3, <2>2, <3>1, NewestIsCurrent DEF current
    <3>. QED
      BY <3>1, <3>2, TokenAssumption DEF StringOrder
  <2>4. value.candidate = CollectCandidates(lists)
    BY <1>2, <2>3
  <2>5. \A i \in DOMAIN lists : lists[i] \in listed /\ RegularCandidate(lists[i])
    <3>1. \A i \in DOMAIN lists : lists[i] \in listed /\ lists[i] \in Candidate
      BY <1>1 DEF Range
    <3>. QED
      BY <1>5, <3>1, Zenon
  <2> HIDE DEF lists, value
  <2>6. PICK i \in DOMAIN lists : lists[i].version = CollectCandidates(lists)
                                  /\ \A j \in DOMAIN lists : ~CandidateBeats(lists[j], lists[i])
    BY <1>1, <2>1, <2>5, BestIsCandidate
  <2>7. \A d \in listed : \E j \in DOMAIN lists : d = lists[j]
    BY DEF Range
  <2>. QED
    BY <2>4, <2>5, <2>6, <2>7
<1>. QED
  BY <1>2, <1>4, <1>5

\* The node is always one of those its collector may meet.
FactNode == factName \in Catalog /\ node \in NodesOf(factName)
LEMMA FactNodeStays == FactNode /\ [FactNext]_factVars => FactNode'
<1>1. \A name : ChangesOf(name) \subseteq NodesOf(name)
  <2>1. ASSUME NEW name  PROVE ChangesOf(name) \subseteq NodesOf(name)
    <3>1. PackageStates \subseteq PackageNodes
      BY Zenon DEF PackageNodes
    <3>2. CASE name = "hostname"
      BY <3>2 DEF ChangesOf, NodesOf
    <3>3. CASE name = "installed_packages"
      BY <3>1, <3>3 DEF ChangesOf, NodesOf
    <3>4. CASE name \notin {"hostname", "installed_packages"}
      BY <3>4 DEF ChangesOf
    <3>. QED
      BY <3>2, <3>3, <3>4
  <2>. QED
    BY <2>1
<1>2. ASSUME FactNode, [FactNext]_factVars
      PROVE  factName' = factName /\ node' \in {node} \cup ChangesOf(factName)
  <2>1. CASE CollectAtStart \/ SnapshotGet \/ ViewGet \/ FactTick \/ UNCHANGED factVars
    BY <2>1, Zenon DEF CollectAtStart, SnapshotGet, ViewGet, FactTick, factVars
  <2>2. CASE \E kind \in AppliedKinds : MarkDirtyAfterApply(kind)
    BY <2>2 DEF MarkDirtyAfterApply
  <2>3. CASE \E rows \in Rows : Apply(rows)
    BY <2>3 DEF Apply
  <2>4. CASE ForeignNodeChange
    BY <2>4 DEF ForeignNodeChange
  <2>. QED
    BY <1>2, <2>1, <2>2, <2>3, <2>4 DEF FactNext
<1>. QED
  BY <1>1, <1>2 DEF FactNode

\* What the collectors make of a node is what they are defined to make of it:
\* FactsRight, for the three facts that take some computing.
LEMMA NodesRight == FactNode => FactsRight
<1> SUFFICES ASSUME FactNode
             PROVE  FactsRight
  OBVIOUS
<1>1. ASSUME factName = "cpu_count" PROVE CpuCountRight(node)
  <2>1. node \in CpuNodes
    BY <1>1 DEF FactNode, NodesOf
  <2>2. node.cpus \in Nat
    <3>1. PICK g \in CgroupFiles, q \in {NoToken, MaxToken, -1, 0, 1, 2, 3, 4}, p \in {NoToken, 0, 1, 2}, c \in {1, 2} :
            node = [controllers |-> g.controllers, self |-> g.self, quota |-> q, period |-> p, cpus |-> c]
      BY <2>1 DEF CpuNodes
    <3>. QED
      BY <3>1
  <2> DEFINE count == CpuCount(node).value
  <2>3. count \in Nat \ {0} /\ (CpuLimit(node) # NoToken =>
          count * node.period >= node.quota /\ (count - 1) * node.period < node.quota)
    BY <2>2, CpuCountRoundsUp
  <2> HIDE DEF count
  <2>4. count >= 1
    BY <2>3
  <2>. QED
    BY <2>3, <2>4 DEF CpuCountRight, count
<1>2. MemoryRight(node)
  <2> DEFINE fact == MemoryMb(node)
             counts == node.limit \in Nat
                       /\ (DetectVersion(node) = "V2" \/ (DetectVersion(node) = "V1" /\ node.limit < UnlimitedBytes))
  <2>1. counts => fact.tag = "Known" /\ fact.value * 1048576 <= node.limit /\ node.limit < (fact.value + 1) * 1048576
    BY MemoryRoundsDown
  <2>. QED
    BY <2>1 DEF MemoryRight
<1>3. ASSUME factName = "installed_packages" PROVE VersionsRight(node)
  <2>1. node \in PackageNodes
    BY <1>3 DEF FactNode, NodesOf
  <2>. QED
    BY <2>1, PackagesRight
<1>. QED
  BY <1>1, <1>2, <1>3 DEF FactsRight

\* In every run, whatever is applied and whoever changes the node: a quota is
\* rounded up, a limit down, and of several sections of a package the newest
\* counts (collect_cpu_count, collect_memory_mb, collect_installed_packages).
THEOREM FactsAreRight == FactSpec => []FactsRight
<1>1. FactInit => FactNode
  BY DEF FactInit, FactNode
<1>. QED
  BY <1>1, FactNodeStays, NodesRight, PTL DEF FactSpec

-----------------------------------------------------------------------------
(* The exec of apt *)

\* No process of the command's group is left, and none can start another.
GroupGone == ~Alive /\ heir \notin {"grouped", "quiet"}

\* An exec that gave up has killed the group before it waits for its threads.
ExecInv ==
  runner = "exec" =>
    /\ cmdPc \in {"start", "poll", "drain", "done"}
    /\ cmdPc = "start" => GroupGone
    /\ cmdPc \in {"start", "poll"} => attempt # "killed"
    /\ cmdPc = "drain" /\ attempt = "killed" => GroupGone
    /\ cmdPc = "done" /\ verdict = "Cancelled" => GroupGone

\* What has gone stays gone: only a child that runs can start another process.
LEMMA GroupStaysGone ==
  ASSUME GroupGone, ChildWrites \/ ChildExits \/ ChildStartsHeir \/ HeirEnds \/ TimePasses \/ Cancel
  PROVE  GroupGone'
BY DEF GroupGone, Alive, Heirs, ChildWrites, ChildExits, ChildStartsHeir, HeirEnds, TimePasses, Cancel, procVars

\* The steps of an exec, the others belong to other runners.
LEMMA ExecStepInv == ASSUME ExecInv, [CmdNext]_cmdVars  PROVE ExecInv'
<1> SUFFICES ASSUME runner' = "exec" PROVE ExecInv'  BY DEF ExecInv
<1>0. runner = "exec"
  BY DEF CmdNext, CmdStep, CmdStart, CallClient, RunOnceUrl, PollExec, PollValidate, PollHealth, PollSignal, PollCommand,
         Polled, JoinDrainThreads, ReadValidate, ReadHealth, ReadCommand, ReadStderr, RunCmdWithRetries, RunUrlWithRetries,
         Again, CancellableSleep, SpawnError, ChildWrites, ChildExits, ChildStartsHeir, HeirEnds, TimePasses, Cancel,
         CmdSame, cmdVars
<1> USE <1>0 DEF CmdEnd, CmdGoto
<1>1. CASE CmdStart
  <2>1. BeforeSpawn \in {"spawn", "Cancelled"}  BY DEF BeforeSpawn
  <2>2. CASE BeforeSpawn = "spawn"
    BY <1>1, <2>2 DEF CmdStart, ExecInv
  <2>3. CASE BeforeSpawn = "Cancelled"
    <3>1. cmdPc = "start" /\ cmdPc' = "done" /\ UNCHANGED procVars  BY <1>1, <2>3 DEF CmdStart
    <3>2. GroupGone'  BY <3>1 DEF ExecInv, GroupGone, Alive, procVars
    <3> QED  BY <3>1, <3>2 DEF ExecInv
  <2> QED  BY <2>1, <2>2, <2>3
<1>2. CASE SpawnError
  BY <1>2 DEF SpawnError, ExecInv
<1>3. CASE PollExec
  <2>1. CASE Alive
    <3>1. GroupGone'  BY <1>3, <2>1 DEF PollExec, KillProcessGroup, GroupGone, Alive
    <3> QED  BY <1>3, <3>1 DEF PollExec, Polled, ExecInv
  <2>2. CASE ~Alive
    BY <1>3, <2>2 DEF PollExec, Polled, Reaped, ExecInv
  <2> QED  BY <2>1, <2>2
<1>4. CASE JoinDrainThreads
  BY <1>4 DEF JoinDrainThreads, ExecInv, GroupGone, Alive, procVars
<1>5. CASE ChildWrites \/ ChildExits \/ ChildStartsHeir \/ HeirEnds \/ TimePasses \/ Cancel
  <2>1. UNCHANGED <<cmdPc, attempt, verdict>>
    BY <1>5 DEF ChildWrites, ChildExits, ChildStartsHeir, HeirEnds, TimePasses, Cancel
  <2> QED  BY <1>5, <2>1, GroupStaysGone DEF ExecInv
<1>6. CASE UNCHANGED cmdVars
  BY <1>6 DEF cmdVars, procVars, ExecInv, GroupGone, Alive
<1>7. cmdPc \in {"start", "poll", "drain", "done"}  BY DEF ExecInv
<1>8. ~(CallClient \/ RunOnceUrl \/ PollValidate \/ PollHealth \/ PollSignal \/ PollCommand \/ ReadValidate \/ ReadHealth
        \/ ReadCommand \/ RunCmdWithRetries \/ RunUrlWithRetries \/ CancellableSleep)
  BY <1>7 DEF CallClient, RunOnceUrl, PollValidate, PollHealth, PollSignal, PollCommand, Polled, ReadValidate, ReadHealth,
         ReadCommand, ReadStderr, RunCmdWithRetries, RunUrlWithRetries, Again, CancellableSleep
<1> QED  BY <1>1, <1>2, <1>3, <1>4, <1>5, <1>6, <1>8 DEF CmdNext, CmdStep

\* An exec of apt that reports Cancelled leaves no process of the command's
\* group, for every size of the pipe and of the output.
THEOREM CommandLeavesNothing == CmdSpec => []NothingLeftBehind
<1>1. CmdInit => ExecInv  BY DEF CmdInit, ExecInv, GroupGone, Alive
<1>2. ExecInv /\ [CmdNext]_cmdVars => ExecInv'  BY ExecStepInv
<1>3. ExecInv => NothingLeftBehind  BY DEF ExecInv, NothingLeftBehind, GroupGone
<1> QED  BY <1>1, <1>2, <1>3, PTL DEF CmdSpec

-----------------------------------------------------------------------------
(* The health check *)

\* At least one attempt is made, whatever retry_count says.
LEMMA AttemptsAreCounted ==
  ASSUME NEW r \in RetryCounts \cup {Default}
  PROVE  ResolveDefaults(r) \in Nat \ {0}
BY CommandsAssumption DEF ResolveDefaults, MaxOf, DEFAULT_RETRY_COUNT

\* How an attempt of this kind of check can have failed.
FailedAttempt == IF runner = "health" THEN {"ExitNonZero", "Timeout"} ELSE {"BadStatus", "Transport"}

\* The attempts made so far, and what the last of them said.
HealthInv ==
  runner \in {"health", "url"} =>
    /\ retry \in RetryCounts \cup {Default} /\ attempts \in 0..ResolveDefaults(retry)
    /\ cmdPc \in {"start", "call", "poll", "read", "judge", "sleep", "done"}
    /\ cmdPc = "call" => runner = "url"
    /\ cmdPc \in {"poll", "read"} => runner = "health"
    /\ cmdPc \in {"start", "sleep"} => attempts < ResolveDefaults(retry)
    /\ cmdPc \in {"start", "call", "poll", "read", "sleep"} => attempt \in {"none"} \cup FailedAttempt
    /\ cmdPc = "judge" => attempt \in {"Success"} \cup FailedAttempt
    /\ HealthVerdict

\* A step that leaves the check where it is.
LEMMA HealthStays ==
  ASSUME HealthInv, UNCHANGED <<runner, retry, cmdPc, attempt, attempts, verdict>>, cancelled => cancelled'
  PROVE  HealthInv'
BY DEF HealthInv, HealthVerdict, FailedAttempt

\* A step from one phase to the next, the verdict still open.
LEMMA HealthGoesOn ==
  ASSUME HealthInv, UNCHANGED <<runner, retry>>, attempts' \in 0..ResolveDefaults(retry), cmdPc' # "done",
         runner \in {"health", "url"} =>
           /\ cmdPc' \in {"start", "call", "poll", "read", "judge", "sleep"}
           /\ cmdPc' = "call" => runner = "url"
           /\ cmdPc' \in {"poll", "read"} => runner = "health"
           /\ cmdPc' \in {"start", "sleep"} => attempts' < ResolveDefaults(retry)
           /\ cmdPc' \in {"start", "call", "poll", "read", "sleep"} => attempt' \in {"none"} \cup FailedAttempt
           /\ cmdPc' = "judge" => attempt' \in {"Success"} \cup FailedAttempt
  PROVE  HealthInv'
BY DEF HealthInv, HealthVerdict, FailedAttempt

\* A step that ends the check.
LEMMA HealthEnds ==
  ASSUME HealthInv, UNCHANGED <<runner, retry>>, cmdPc' = "done", attempts' \in 0..ResolveDefaults(retry),
         runner \in {"health", "url"} => HealthVerdict'
  PROVE  HealthInv'
BY DEF HealthInv, FailedAttempt

\* The verdict that the retry loop reaches after an attempt.
LEMMA RetryLoop ==
  ASSUME HealthInv, RunCmdWithRetries \/ RunUrlWithRetries
  PROVE  HealthInv'
<1> DEFINE R == ResolveDefaults(retry)
<1>1. PICK who \in {"health", "url"}, error \in {"CmdTimeout", "CmdExitNonZero", "UrlBadStatus", "UrlTransport"} :
        /\ Again(who, error)
        /\ who = "health" => error = IF attempt = "Timeout" THEN "CmdTimeout" ELSE "CmdExitNonZero"
        /\ who = "url" => error = IF attempt = "BadStatus" THEN "UrlBadStatus" ELSE "UrlTransport"
  BY DEF RunCmdWithRetries, RunUrlWithRetries
<1> USE <1>1 DEF Again, CmdEnd, CmdGoto, CmdSame
<1>2. /\ runner = who /\ UNCHANGED <<runner, retry, attempt, attempts, cancelled>> /\ cmdPc = "judge"
      /\ retry \in RetryCounts \cup {Default}
      /\ attempts \in 0..R /\ attempt \in {"Success"} \cup FailedAttempt /\ R \in Nat \ {0}
  BY AttemptsAreCounted DEF HealthInv
<1>3. CASE attempt = "Success"
  <2>1. cmdPc' = "done" /\ verdict' = "Ok" /\ attempt' = "Success"  BY <1>2, <1>3
  <2> QED  BY <1>2, <2>1, HealthEnds DEF HealthVerdict
<1>4. CASE attempt # "Success" /\ attempts < R
  <2>1. cmdPc' = "sleep"  BY <1>2, <1>4
  <2> QED  BY <1>2, <1>4, <2>1, HealthGoesOn
<1>5. CASE attempt # "Success" /\ ~(attempts < R)
  <2>1. cmdPc' = "done" /\ verdict' = error /\ attempt' \in FailedAttempt /\ attempts' = R
    BY <1>2, <1>5
  <2>2. HealthVerdict'
    <3>1. CASE who = "health"  BY <1>2, <2>1, <3>1 DEF HealthVerdict, FailedAttempt
    <3>2. CASE who = "url"  BY <1>2, <2>1, <3>2 DEF HealthVerdict, FailedAttempt
    <3> QED  BY <3>1, <3>2
  <2> QED  BY <1>2, <2>1, <2>2, HealthEnds
<1> QED  BY <1>3, <1>4, <1>5

\* Every step of a health check keeps the count of its attempts and its verdict.
LEMMA HealthStepInv == ASSUME HealthInv, [CmdNext]_cmdVars  PROVE HealthInv'
<1>0. CASE ChildWrites \/ ChildExits \/ ChildStartsHeir \/ HeirEnds \/ TimePasses \/ Cancel \/ UNCHANGED cmdVars
  BY <1>0, HealthStays DEF ChildWrites, ChildExits, ChildStartsHeir, HeirEnds, TimePasses, Cancel, cmdVars
<1>1. CASE RunCmdWithRetries \/ RunUrlWithRetries  BY <1>1, RetryLoop
<1> SUFFICES ASSUME runner \in {"health", "url"}, CmdStep \/ SpawnError, ~(RunCmdWithRetries \/ RunUrlWithRetries)
             PROVE HealthInv'
  <2>1. CASE runner \notin {"health", "url"} /\ (CmdStep \/ SpawnError)
    <3>1. runner' = runner
      BY <2>1 DEF CmdStep, CmdStart, CallClient, RunOnceUrl, PollExec, PollValidate, PollHealth, PollSignal, PollCommand,
         Polled, JoinDrainThreads, ReadValidate, ReadHealth, ReadCommand, ReadStderr, RunCmdWithRetries, RunUrlWithRetries,
         Again, CancellableSleep, SpawnError, CmdSame
    <3> QED  BY <2>1, <3>1 DEF HealthInv
  <2> QED  BY <1>0, <1>1, <2>1 DEF CmdNext
<1> DEFINE R == ResolveDefaults(retry)
<1>2. /\ retry \in RetryCounts \cup {Default} /\ attempts \in 0..R /\ R \in Nat \ {0}
  BY AttemptsAreCounted DEF HealthInv
<1> USE DEF CmdEnd, CmdGoto, CmdSame
<1>3. CASE CmdStart
  <2> USE <1>3 DEF CmdStart
  <2>1. attempts < R /\ attempt \in {"none"} \cup FailedAttempt  BY DEF HealthInv
  <2>2. CASE runner = "health"
    <3>1. BeforeSpawn = IF cancelled THEN "Cancelled" ELSE "spawn"  BY <2>2 DEF BeforeSpawn
    <3>2. CASE cancelled
      <4>1. cmdPc' = "done" /\ verdict' = "Cancelled" /\ UNCHANGED <<runner, retry, attempt, attempts, cancelled>>
        BY <3>1, <3>2
      <4> QED  BY <1>2, <2>1, <3>2, <4>1, HealthEnds DEF HealthVerdict, FailedAttempt
    <3>3. CASE ~cancelled
      <4>1. cmdPc' = "poll" /\ attempts' = attempts + 1 /\ UNCHANGED <<runner, retry, attempt>>
        BY <3>1, <3>3
      <4> QED  BY <1>2, <2>1, <2>2, <4>1, HealthGoesOn
    <3> QED  BY <3>2, <3>3
  <2>3. CASE runner = "url"
    <3>1. BeforeSpawn = IF cancelled THEN "Cancelled" ELSE "call"  BY <2>3 DEF BeforeSpawn
    <3>2. CASE cancelled
      <4>1. cmdPc' = "done" /\ verdict' = "Cancelled" /\ UNCHANGED <<runner, retry, attempt, attempts, cancelled>>
        BY <3>1, <3>2
      <4> QED  BY <1>2, <2>1, <3>2, <4>1, HealthEnds DEF HealthVerdict, FailedAttempt
    <3>3. CASE ~cancelled
      <4>1. cmdPc' = "call" /\ attempts' = attempts + 1 /\ UNCHANGED <<runner, retry, attempt>>
        BY <3>1, <3>3
      <4> QED  BY <1>2, <2>1, <2>3, <4>1, HealthGoesOn
    <3> QED  BY <3>2, <3>3
  <2> QED  BY <2>2, <2>3
<1>4. CASE SpawnError
  <2>1. cmdPc = "start" /\ BeforeSpawn = "spawn"  BY <1>4 DEF SpawnError
  <2>2. runner = "health"  BY <2>1 DEF BeforeSpawn
  <2>3. /\ cmdPc' = "done" /\ verdict' = "CmdSpawnError" /\ attempt' = "SpawnError" /\ attempts' = attempts + 1
        /\ UNCHANGED <<runner, retry>>
    BY <1>4, <2>2 DEF SpawnError
  <2>4. attempts < R  BY <2>1 DEF HealthInv
  <2> QED  BY <1>2, <2>3, <2>4, HealthEnds DEF HealthVerdict
<1>5. CASE RunOnceUrl
  <2>1. runner = "url" /\ cmdPc' = "judge" /\ attempt' \in UrlAttempt /\ UNCHANGED <<runner, retry, attempts>>
    BY <1>5 DEF RunOnceUrl, Judged
  <2> QED  BY <1>2, <2>1, HealthGoesOn DEF UrlAttempt, FailedAttempt
<1>6. CASE PollHealth
  <2> USE <1>6 DEF PollHealth, Polled, Judged
  <2>1. runner = "health" /\ cmdPc = "poll" /\ UNCHANGED <<runner, retry, attempts>>  OBVIOUS
  <2>2. CASE Alive  BY <1>2, <2>1, <2>2, HealthGoesOn DEF FailedAttempt
  <2>3. CASE ~Alive
    <3>1. cmdPc' = "read" /\ attempt' = attempt  BY <2>3
    <3>2. attempt \in {"none"} \cup FailedAttempt  BY <2>1 DEF HealthInv
    <3> QED  BY <1>2, <2>1, <3>1, <3>2, HealthGoesOn
  <2> QED  BY <2>2, <2>3
<1>7. CASE ReadHealth
  BY <1>2, <1>7, HealthGoesOn DEF ReadHealth, ReadStderr, Judged, FailedAttempt
<1>8. CASE CancellableSleep
  <2> USE <1>8 DEF CancellableSleep
  <2>1. attempts < R /\ attempt \in {"none"} \cup FailedAttempt  BY DEF HealthInv
  <2>2. CASE cancelled  BY <1>2, <2>1, <2>2, HealthEnds DEF HealthVerdict, FailedAttempt
  <2>3. CASE ~cancelled  BY <1>2, <2>1, <2>3, HealthGoesOn
  <2> QED  BY <2>2, <2>3
<1>9. ~(CallClient \/ PollExec \/ PollValidate \/ PollSignal \/ PollCommand \/ JoinDrainThreads \/ ReadValidate \/ ReadCommand)
  BY DEF CallClient, PollExec, PollValidate, PollSignal, PollCommand, Polled, JoinDrainThreads, ReadValidate,
         ReadCommand, ReadStderr, HealthInv
<1> QED  BY <1>3, <1>4, <1>5, <1>6, <1>7, <1>8, <1>9 DEF CmdStep

\* A health check is Ok after an attempt that succeeded, and fails only after
\* all of its attempts, at least one, with the reason of the last, for every
\* retry count.
THEOREM HealthCheckHonest == CmdSpec => []HealthVerdict
<1>1. CmdInit => HealthInv
  <2> SUFFICES ASSUME CmdInit, runner \in {"health", "url"} PROVE HealthInv  BY DEF HealthInv
  <2>1. retry \in RetryCounts \cup {Default}  BY DEF CmdInit
  <2>2. ResolveDefaults(retry) \in Nat \ {0}  BY <2>1, AttemptsAreCounted
  <2> QED  BY <2>1, <2>2 DEF CmdInit, HealthInv, HealthVerdict
<1>2. HealthInv /\ [CmdNext]_cmdVars => HealthInv'  BY HealthStepInv
<1>3. HealthInv => HealthVerdict  BY DEF HealthInv, HealthVerdict
<1> QED  BY <1>1, <1>2, <1>3, PTL DEF CmdSpec

\* An attempt is only started when one is left, and only the two health checks
\* start a second one.
AttemptsLeft ==
  /\ retry \in RetryCounts \cup {Default}
  /\ attempts \in 0..ResolveDefaults(retry)
  /\ cmdPc \in {"start", "sleep"} => attempts < ResolveDefaults(retry)

\* How far a runner is from its end: the attempts left, then what is left of
\* this one.
StepsToEnd == [done |-> 0, start |-> 1, sleep |-> 2, judge |-> 3, drain |-> 4, read |-> 4, call |-> 5, poll |-> 5]
CommandWork == 6 * (ResolveDefaults(retry) - attempts) + StepsToEnd[cmdPc]

\* Every policy has at least one attempt.
LEMMA AttemptsNatural ==
  ASSUME NEW r \in RetryCounts \cup {Default}
  PROVE  ResolveDefaults(r) \in Nat \ {0}
BY CommandsAssumption DEF ResolveDefaults, MaxOf, DEFAULT_RETRY_COUNT

\* An attempt is counted when it starts, and a retry loop looks at the count.
LEMMA AttemptsStep == ASSUME AttemptsLeft, [CmdNext]_cmdVars PROVE AttemptsLeft'
<1> DEFINE R == ResolveDefaults(retry)
<1>1. R \in Nat \ {0}
  BY AttemptsNatural DEF AttemptsLeft
<1>2. CASE CmdStart
  <2>1. /\ cmdPc = "start" /\ retry' = retry /\ cmdPc' \in {"poll", "call", "done"}
        /\ attempts' \in {attempts, attempts + 1}
    BY <1>2 DEF CmdStart, CmdSame, CmdGoto, CmdEnd, BeforeSpawn, Dispatch, DispatchCommand, DispatchClient
  <2> QED
    BY <1>1, <2>1 DEF AttemptsLeft
<1>3. CASE SpawnError
  BY <1>1, <1>3 DEF SpawnError, CmdSame, CmdEnd, AttemptsLeft
<1>4. CASE RunCmdWithRetries \/ RunUrlWithRetries
  BY <1>4 DEF RunCmdWithRetries, RunUrlWithRetries, Again, CmdSame, CmdEnd, CmdGoto, AttemptsLeft
<1>5. CASE CancellableSleep
  BY <1>5 DEF CancellableSleep, CmdSame, CmdEnd, CmdGoto, AttemptsLeft
<1>6. CASE \/ CallClient \/ RunOnceUrl \/ PollExec \/ PollValidate \/ PollHealth \/ PollSignal \/ PollCommand
           \/ JoinDrainThreads \/ ReadValidate \/ ReadHealth \/ ReadCommand
  <2>1. retry' = retry /\ attempts' = attempts /\ cmdPc' \notin {"start", "sleep"}
    BY <1>6 DEF CallClient, RunOnceUrl, PollExec, PollValidate, PollHealth, PollSignal, PollCommand, Polled,
                JoinDrainThreads, ReadValidate, ReadHealth, ReadCommand, ReadStderr, Judged, CmdSame, CmdGoto, CmdEnd
  <2> QED
    BY <2>1 DEF AttemptsLeft
<1>7. CASE \/ ChildWrites \/ ChildExits \/ ChildStartsHeir \/ HeirEnds \/ TimePasses \/ Cancel \/ UNCHANGED cmdVars
  BY <1>7 DEF ChildWrites, ChildExits, ChildStartsHeir, HeirEnds, TimePasses, Cancel, cmdVars, AttemptsLeft
<1> QED
  BY <1>2, <1>3, <1>4, <1>5, <1>6, <1>7 DEF CmdNext, CmdStep

\* A number of attempts and a phase make a work; less of either is less work.
LEMMA WorkOf ==
  ASSUME NEW a \in Nat, NEW b \in Nat, NEW p \in DOMAIN StepsToEnd, NEW q \in DOMAIN StepsToEnd,
         \/ b = a /\ StepsToEnd[q] < StepsToEnd[p]
         \/ a = b + 1 /\ p = "start"
  PROVE  /\ 6 * a + StepsToEnd[p] \in Nat /\ 6 * b + StepsToEnd[q] \in Nat
         /\ 6 * b + StepsToEnd[q] < 6 * a + StepsToEnd[p]
BY DEF StepsToEnd

\* A step of a runner leaves it with less to do.
LEMMA CommandWorks == ASSUME AttemptsLeft, CmdStep \/ SpawnError PROVE CommandWork' < CommandWork /\ CommandWork' \in Nat
<1> DEFINE R == ResolveDefaults(retry)
<1>1. R \in Nat \ {0} /\ attempts \in 0..R /\ R - attempts \in Nat
  BY AttemptsNatural DEF AttemptsLeft
<1>2. R' = R
  BY DEF CmdStep, CmdStart, CallClient, RunOnceUrl, PollExec, PollValidate, PollHealth, PollSignal, PollCommand, Polled,
         JoinDrainThreads, ReadValidate, ReadHealth, ReadCommand, ReadStderr, RunCmdWithRetries, RunUrlWithRetries, Again,
         CancellableSleep, SpawnError, CmdSame
<1>3. /\ cmdPc \in DOMAIN StepsToEnd /\ cmdPc' \in DOMAIN StepsToEnd
      /\ \/ attempts' = attempts /\ StepsToEnd[cmdPc'] < StepsToEnd[cmdPc]
         \/ attempts' = attempts + 1 /\ cmdPc = "start"
  <2>1. CASE CmdStart
    <3>1. /\ cmdPc = "start"
          /\ \/ cmdPc' = "done" /\ attempts' = attempts
             \/ cmdPc' \in {"poll", "call"} /\ attempts' = attempts + 1
      BY <2>1 DEF CmdStart, CmdGoto, CmdEnd
    <3> QED
      BY <3>1 DEF StepsToEnd
  <2>2. CASE SpawnError
    BY <2>2 DEF SpawnError, CmdEnd, StepsToEnd
  <2>3. CASE CallClient \/ RunOnceUrl
    BY <2>3 DEF CallClient, RunOnceUrl, Judged, CmdGoto, CmdEnd, StepsToEnd
  <2>4. CASE PollExec \/ PollValidate \/ PollHealth \/ PollSignal \/ PollCommand
    BY <2>4 DEF PollExec, PollValidate, PollHealth, PollSignal, PollCommand, Polled, Judged, CmdGoto, CmdEnd, StepsToEnd
  <2>5. CASE JoinDrainThreads \/ ReadValidate \/ ReadHealth \/ ReadCommand
    BY <2>5 DEF JoinDrainThreads, ReadValidate, ReadHealth, ReadCommand, ReadStderr, Judged, CmdGoto, CmdEnd, StepsToEnd
  <2>6. CASE RunCmdWithRetries \/ RunUrlWithRetries
    BY <2>6 DEF RunCmdWithRetries, RunUrlWithRetries, Again, CmdGoto, CmdEnd, StepsToEnd
  <2>7. CASE CancellableSleep
    BY <2>7 DEF CancellableSleep, CmdGoto, CmdEnd, StepsToEnd
  <2> QED
    BY <2>1, <2>2, <2>3, <2>4, <2>5, <2>6, <2>7 DEF CmdStep
<1>4. attempts' = attempts + 1 => attempts + 1 <= R
  BY <1>1, <1>3 DEF AttemptsLeft, StepsToEnd
<1> DEFINE a == R - attempts
           b == R - attempts'
<1>5. a \in Nat /\ b \in Nat /\ (b = a \/ a = b + 1) /\ (attempts' = attempts => b = a)
      /\ (attempts' = attempts + 1 => a = b + 1)
  BY <1>1, <1>3, <1>4
<1>6. CommandWork = 6 * a + StepsToEnd[cmdPc] /\ CommandWork' = 6 * b + StepsToEnd[cmdPc']
  BY <1>2 DEF CommandWork
<1> HIDE DEF a, b
<1> QED
  BY <1>3, <1>5, <1>6, WorkOf

\* Every runner comes to its end in a number of its own steps that is known when
\* it starts: it never starts more attempts than its policy has, however often
\* commands time out or cannot be started, and a pause is always followed by an
\* attempt or by the end.
THEOREM CommandDescends ==
  CmdSpec => [][CmdStep \/ SpawnError => CommandWork' < CommandWork /\ CommandWork' \in Nat]_cmdVars
<1>1. CmdInit => AttemptsLeft
  BY AttemptsNatural DEF CmdInit, AttemptsLeft
<1>2. AttemptsLeft /\ [CmdNext]_cmdVars => AttemptsLeft'
  BY AttemptsStep
<1>3. AttemptsLeft /\ [CmdNext]_cmdVars
        => [CmdStep \/ SpawnError => CommandWork' < CommandWork /\ CommandWork' \in Nat]_cmdVars
  BY CommandWorks
<1> QED
  BY <1>1, <1>2, <1>3, PTL DEF CmdSpec

\* What a runner is called with and waits on.
CmdShape ==
  /\ runner \in Runners /\ entry \in DispatchedEntry
  /\ child \in {"none", "running", "hangs", "zero", "one", "other"} /\ heir \in Heirs
  /\ output \in 0..MaxOutput /\ pipe \in 0..PipeCapacity
  /\ late \in BOOLEAN /\ cancelled \in BOOLEAN

\* How far it is and how it ends; exec is the only runner that drains.
CmdOutcome ==
  /\ cmdPc \in {"start", "call", "poll", "drain", "read", "judge", "sleep", "done"}
  /\ attempt \in {"none", "killed"} \cup CmdAttempt \cup UrlAttempt /\ verdict \in CmdVerdict

\* Starting: the child has its output before it, an empty pipe and no heir.
LEMMA StartShape == ASSUME CmdShape, CmdStart PROVE CmdShape'
<1>1. UNCHANGED procVars \/ (child' = "running" /\ heir' = "none" /\ output' \in 0..MaxOutput /\ pipe' = 0)
  BY DEF CmdStart
<1>2. runner' = runner /\ entry' = entry /\ cancelled' = cancelled /\ late' \in BOOLEAN
  BY DEF CmdStart, CmdSame
<1> QED
  BY <1>1, <1>2, CommandsAssumption DEF CmdShape, procVars, Heirs

\* Output and pipe stay within their bounds, and only a child that runs fills them.
LEMMA CmdShapeStep == ASSUME CmdShape, [CmdNext]_cmdVars PROVE CmdShape'
<1> USE CommandsAssumption
<1>1. CASE CmdStart
  BY <1>1, StartShape
<1>2. CASE SpawnError \/ CallClient \/ RunOnceUrl
  BY <1>2 DEF SpawnError, CallClient, RunOnceUrl, CmdSame, CmdShape, procVars
<1>3. CASE PollExec
  BY <1>3 DEF PollExec, Polled, KillProcessGroup, Reaped, CmdSame, CmdShape, Heirs
<1>4. CASE PollValidate \/ PollHealth \/ PollSignal \/ PollCommand
  BY <1>4 DEF PollValidate, PollHealth, PollSignal, PollCommand, Polled, KillChild, Reaped, CmdSame, CmdShape
<1>5. CASE \/ JoinDrainThreads \/ ReadValidate \/ ReadHealth \/ ReadCommand \/ RunCmdWithRetries \/ RunUrlWithRetries
           \/ CancellableSleep
  BY <1>5 DEF JoinDrainThreads, ReadValidate, ReadHealth, ReadCommand, ReadStderr, RunCmdWithRetries, RunUrlWithRetries,
              Again, CancellableSleep, CmdSame, CmdShape, procVars
<1>6. CASE ChildWrites
  <2>1. output' \in 0..MaxOutput
    BY <1>6 DEF ChildWrites, CmdShape
  <2>2. pipe' \in 0..PipeCapacity
    <3>1. CASE Drained
      BY <1>6, <3>1 DEF ChildWrites
    <3>2. CASE ~Drained
      BY <1>6, <3>2 DEF ChildWrites, CmdShape
    <3> QED
      BY <3>1, <3>2
  <2> QED
    BY <1>6, <2>1, <2>2 DEF ChildWrites, CmdShape
<1>7. CASE ChildExits \/ ChildStartsHeir \/ HeirEnds \/ TimePasses \/ Cancel
  BY <1>7 DEF ChildExits, ChildStartsHeir, HeirEnds, TimePasses, Cancel, CmdShape, Heirs, procVars
<1>8. CASE UNCHANGED cmdVars
  BY <1>8 DEF cmdVars, procVars, CmdShape
<1> QED
  BY <1>1, <1>2, <1>3, <1>4, <1>5, <1>6, <1>7, <1>8 DEF CmdNext, CmdStep

\* Every verdict is one of the errors of its runner.
LEMMA CmdOutcomeStep == ASSUME CmdShape, CmdOutcome, [CmdNext]_cmdVars PROVE CmdOutcome'
<1>0. /\ {"none", "Ok", "ExitNonZero", "Timeout", "Spawn", "Cancelled", "Io", "exit_code"} \subseteq CmdVerdict
      /\ {"CmdExitNonZero", "CmdTimeout", "CmdSpawnError", "UrlBadStatus", "UrlTransport"} \subseteq CmdVerdict
      /\ {"ClientUnavailable", "Action"} \subseteq CmdVerdict
  BY DEF CmdVerdict, ValidateError, HealthCheckError, DispatchError, ExecError
<1> USE DEF CmdOutcome
<1>1. CASE CmdStart
  <2>1. BeforeSpawn \in {"spawn", "call", "Cancelled", "ClientUnavailable", "Action"}
    BY DEF BeforeSpawn, Dispatch, DispatchCommand, DispatchClient
  <2>2. /\ attempt' = attempt
        /\ \/ cmdPc' \in {"poll", "call"} /\ verdict' = verdict
           \/ cmdPc' = "done" /\ verdict' = BeforeSpawn /\ BeforeSpawn \notin {"spawn", "call"}
    BY <1>1 DEF CmdStart, CmdGoto, CmdEnd
  <2> QED
    BY <1>0, <2>1, <2>2
<1>2. CASE SpawnError
  BY <1>0, <1>2 DEF SpawnError, CmdEnd, CmdAttempt
<1>3. CASE CallClient
  BY <1>0, <1>3 DEF CallClient, CmdEnd, MapSystemdResult, MapRunrResult
<1>4. CASE RunOnceUrl
  BY <1>4 DEF RunOnceUrl, Judged, CmdGoto
<1>5. CASE PollExec \/ PollValidate \/ PollHealth \/ PollSignal \/ PollCommand
  BY <1>0, <1>5 DEF PollExec, PollValidate, PollHealth, PollSignal, PollCommand, Judged, CmdGoto, CmdEnd, CmdAttempt
<1>6. CASE JoinDrainThreads \/ ReadValidate \/ ReadHealth \/ ReadCommand
  BY <1>0, <1>6 DEF JoinDrainThreads, ReadValidate, ReadHealth, ReadCommand, Judged, CmdGoto, CmdEnd, CmdAttempt
<1>7. CASE RunCmdWithRetries \/ RunUrlWithRetries
  BY <1>0, <1>7 DEF RunCmdWithRetries, RunUrlWithRetries, Again, CmdGoto, CmdEnd
<1>8. CASE CancellableSleep
  BY <1>0, <1>8 DEF CancellableSleep, CmdGoto, CmdEnd
<1>9. CASE ChildWrites \/ ChildExits \/ ChildStartsHeir \/ HeirEnds \/ TimePasses \/ Cancel \/ UNCHANGED cmdVars
  BY <1>9 DEF ChildWrites, ChildExits, ChildStartsHeir, HeirEnds, TimePasses, Cancel, cmdVars
<1> QED
  BY <1>1, <1>2, <1>3, <1>4, <1>5, <1>6, <1>7, <1>8, <1>9 DEF CmdNext, CmdStep

\* The types of the runners, their pipes within capacity and their attempts
\* within the policy.
THEOREM CommandTypes == CmdSpec => []CmdTypeOK
<1>1. CmdInit => CmdShape /\ CmdOutcome /\ AttemptsLeft
  <2> SUFFICES ASSUME CmdInit PROVE CmdShape /\ CmdOutcome /\ AttemptsLeft
    OBVIOUS
  <2>1. entry \in DispatchedEntry
    <3>1. AnEntry \in DispatchedEntry
      BY DEF AnEntry, DispatchedEntry, DeferAction
    <3>2. entry \in DispatchedEntry \/ entry = AnEntry
      BY DEF CmdInit
    <3> QED
      BY <3>1, <3>2
  <2>2. AttemptsLeft
    BY AttemptsNatural DEF CmdInit, AttemptsLeft
  <2>3. CmdShape
    <3>1. runner \in Runners /\ child = "none" /\ heir = "none" /\ output = 0 /\ pipe = 0
      BY DEF CmdInit
    <3>2. late \in BOOLEAN /\ cancelled \in BOOLEAN
      BY DEF CmdInit
    <3>3. 0 \in 0..MaxOutput /\ 0 \in 0..PipeCapacity /\ "none" \in Heirs
      BY CommandsAssumption DEF Heirs
    <3> QED
      BY <2>1, <3>1, <3>2, <3>3 DEF CmdShape
  <2>4. CmdOutcome
    BY DEF CmdInit, CmdOutcome, CmdVerdict
  <2> QED
    BY <2>2, <2>3, <2>4
<1>2. CmdShape /\ CmdOutcome /\ AttemptsLeft /\ [CmdNext]_cmdVars => CmdShape' /\ CmdOutcome' /\ AttemptsLeft'
  BY CmdShapeStep, CmdOutcomeStep, AttemptsStep
<1>3. CmdShape /\ CmdOutcome /\ AttemptsLeft => CmdTypeOK
  BY DEF CmdShape, CmdOutcome, AttemptsLeft, CmdTypeOK
<1> QED
  BY <1>1, <1>2, <1>3, PTL DEF CmdSpec

-----------------------------------------------------------------------------
(* The clients of the init systems *)

\* A service's record without the bounds of the model.
ServiceRecord == [state : States, gen : Nat, restarts : Nat]
JobEvent == [mine : BOOLEAN, result : {"done", "failed"}]

\* Which calls each phase belongs to, and the types of what is compared.
ClShape ==
  /\ op \in SystemdOps \cup RunrOps /\ hasPid \in BOOLEAN /\ subscribed \in BOOLEAN /\ job \in Jobs
  /\ svc \in ServiceRecord /\ snapshot \in ServiceRecord /\ observed \in ServiceRecord
  /\ clPc \in {"subscribe", "wait", "recheck", "recheck_failed"} => op \in JobOps
  /\ clPc = "poll" => op \in VerifiedOps
  /\ clResult = "ok" => clPc = "done"

\* An event of this call's job tells how that job ended, and there is none
\* before the handle subscribes; so the wait ends with "done" only if it did.
ClJob ==
  /\ jobEvents \in Seq(JobEvent)
  /\ clPc \in {"connect", "call"} => ~subscribed
  /\ ~subscribed => jobEvents = <<>>
  /\ \A i \in DOMAIN jobEvents : jobEvents[i].mine => jobEvents[i].result = job
  /\ clPc = "recheck" => job = "done"

\* Every restart that the counter shows has also given the service another
\* process since the snapshot.
ClGen ==
  /\ svc.gen >= snapshot.gen
  /\ svc.gen + snapshot.restarts >= svc.restarts + snapshot.gen

ClInv == ClShape /\ ClJob /\ ClGen /\ ClientVerdict

\* The service before the call is a service, and nothing has happened to it.
LEMMA ClInitInv == ClInit => ClInv
<1> SUFFICES ASSUME ClInit PROVE ClInv  OBVIOUS
<1>1. svc \in ServiceRecord /\ snapshot = svc /\ observed = svc
  BY DEF ClInit, ServiceRecord, States
<1>2. ClShape
  BY <1>1 DEF ClInit, ClShape, Jobs
<1>3. ClJob
  BY DEF ClInit, ClJob
<1>4. ClGen
  BY <1>1 DEF ClGen, ServiceRecord
<1> QED  BY <1>2, <1>3, <1>4 DEF ClInv, ClientVerdict, ClInit

\* A step of the client that neither looks at the service nor ends well.
LEMMA ClQuiet ==
  ASSUME ClInv, ClSame, UNCHANGED <<svc, jobEvents, observed>>,
         UNCHANGED <<job, subscribed>>,
         \/ clPc' = "done" /\ (clResult' = "ok" => op \notin JobOps \cup VerifiedOps)
         \/ clPc' = "call" /\ clPc = "connect" /\ UNCHANGED clResult
         \/ clPc' = clPc /\ UNCHANGED clResult
  PROVE  ClInv'
<1> USE DEF ClSame
<1>1. ClShape'  BY DEF ClInv, ClShape
<1>2. ClJob'  BY DEF ClInv, ClJob
<1>3. ClGen'  BY DEF ClInv, ClGen
<1>4. ClientVerdict'  BY DEF ClInv, ClientVerdict, VerifiedOps, ClShape
<1> QED  BY <1>1, <1>2, <1>3, <1>4 DEF ClInv

\* The request that starts a job, in a call that has seen no event yet.
LEMMA ClQueues ==
  ASSUME ClInv, ClSame, UNCHANGED <<svc, jobEvents, subscribed, observed>>, job' = "queued", clPc = "call",
         \/ clPc' = "subscribe" /\ op \in JobOps /\ UNCHANGED clResult
         \/ clPc' = "poll" /\ op \in VerifiedOps /\ UNCHANGED clResult
         \/ clPc' = "done" /\ (clResult' = "ok" => op \notin JobOps \cup VerifiedOps)
  PROVE  ClInv'
<1> USE DEF ClSame
<1>1. ClShape'  BY DEF ClInv, ClShape, Jobs
<1>2. ClJob'  BY DEF ClInv, ClJob
<1>3. ClGen'  BY DEF ClInv, ClGen
<1>4. ClientVerdict'  BY DEF ClInv, ClientVerdict, VerifiedOps, ClShape
<1> QED  BY <1>1, <1>2, <1>3, <1>4 DEF ClInv

\* The daemon, or somebody else, moves the service: it gets a process for
\* each step of its counter, and an event joins the stream.
LEMMA ClMoves ==
  ASSUME ClInv, UNCHANGED <<op, hasPid, snapshot, subscribed, clPc, observed, clResult>>,
         svc' \in ServiceRecord, svc'.gen >= svc.gen, svc'.gen + svc.restarts >= svc'.restarts + svc.gen,
         job' \in Jobs, job \in {"done", "failed"} => job' = job,
         NEW e \in JobEvent, e.mine => e.result = job',
         jobEvents' = IF subscribed THEN Append(jobEvents, e) ELSE jobEvents
  PROVE  ClInv'
<1>1. ClShape'  BY DEF ClInv, ClShape
<1>2. ClJob'
  <2>1. jobEvents' \in Seq(JobEvent)  BY DEF ClInv, ClJob
  <2>2. ASSUME NEW i \in DOMAIN jobEvents', jobEvents'[i].mine  PROVE jobEvents'[i].result = job'
    <3>1. CASE i \in DOMAIN jobEvents /\ jobEvents'[i] = jobEvents[i]
      <4>1. jobEvents[i] \in JobEvent /\ jobEvents[i].result = job  BY <2>2, <3>1 DEF ClInv, ClJob
      <4>2. job' = job  BY <4>1 DEF JobEvent
      <4> QED  BY <3>1, <4>1, <4>2
    <3>2. CASE jobEvents'[i] = e
      BY <2>2, <3>2
    <3>3. CASE ~subscribed  BY <2>2, <3>1, <3>3
    <3>4. CASE subscribed
      <4>1. jobEvents' = Append(jobEvents, e) /\ jobEvents \in Seq(JobEvent)  BY <3>4 DEF ClInv, ClJob
      <4>2. i \in 1..(Len(jobEvents) + 1)  BY <4>1, <2>2
      <4>3. CASE i = Len(jobEvents) + 1  BY <4>1, <4>3, <3>2
      <4>4. CASE i \in 1..Len(jobEvents)  BY <4>1, <4>4, <3>1
      <4> QED  BY <4>1, <4>2, <4>3, <4>4
    <3> QED  BY <3>3, <3>4 DEF ClInv, ClShape
  <2> QED  BY <2>1, <2>2 DEF ClInv, ClJob
<1>3. ClGen'  BY DEF ClInv, ClGen, ClShape, ServiceRecord
<1>4. ClientVerdict'  BY DEF ClInv, ClientVerdict
<1> QED  BY <1>1, <1>2, <1>3, <1>4 DEF ClInv

\* A status that shows a restart shows another process.
LEMMA RestartIsNewProcess ==
  ASSUME ClShape, ClGen, IsRestartObserved(snapshot, svc)
  PROVE  svc.state = "Running" /\ svc.gen > snapshot.gen
BY DEF ClShape, ClGen, IsRestartObserved, ServiceRecord

\* Each poll of runr takes the status as it is and ends well only on proof.
LEMMA ClPolls ==
  ASSUME ClInv, ClSame, UNCHANGED <<svc, job, jobEvents, subscribed>>, observed' = svc,
         clPc \in {"poll", "recheck", "recheck_failed"},
         \/ clPc' = clPc /\ UNCHANGED clResult
         \/ /\ clPc' = "done"
            /\ clResult' = "ok" /\ op = "service_restart" => IsRestartObserved(snapshot, svc)
            /\ clResult' = "ok" /\ op = "service_start" => svc.state = "Running"
            /\ clResult' = "ok" /\ op \in JobOps => job = "done" /\ svc.state # "Failed"
  PROVE  ClInv'
<1> USE DEF ClSame
<1>1. ClShape'  BY DEF ClInv, ClShape
<1>2. ClJob'  BY DEF ClInv, ClJob
<1>3. ClGen'  BY DEF ClInv, ClGen
<1>4. ClientVerdict'  BY RestartIsNewProcess DEF ClInv, ClientVerdict, ClShape
<1> QED  BY <1>1, <1>2, <1>3, <1>4 DEF ClInv

\* The head of the stream is handled: only "done" of this job leads on.
LEMMA ClWaits == ASSUME ClInv, WaitForJobMatch  PROVE ClInv'
<1> USE DEF WaitForJobMatch, ClSame, ClGoto, ClEnd
<1>1. jobEvents \in Seq(JobEvent) /\ jobEvents # <<>>  BY DEF ClInv, ClJob
<1>2. /\ jobEvents' \in Seq(JobEvent) /\ subscribed
      /\ \A i \in DOMAIN jobEvents' : i + 1 \in DOMAIN jobEvents /\ jobEvents'[i] = jobEvents[i + 1]
      /\ 1 \in DOMAIN jobEvents /\ Head(jobEvents) = jobEvents[1]
  <2>1. subscribed  BY <1>1 DEF ClInv, ClJob
  <2>2. Len(jobEvents) \in Nat \ {0} /\ DOMAIN jobEvents = 1..Len(jobEvents)  BY <1>1
  <2>3. jobEvents' = Tail(jobEvents) /\ jobEvents' \in Seq(JobEvent) /\ Len(jobEvents') = Len(jobEvents) - 1
    BY <1>1, <2>2
  <2>4. ASSUME NEW i \in DOMAIN jobEvents'
        PROVE  i + 1 \in DOMAIN jobEvents /\ jobEvents'[i] = jobEvents[i + 1]
    BY <1>1, <2>2, <2>3, <2>4
  <2> QED  BY <1>1, <2>1, <2>2, <2>3, <2>4
<1>3. Head(jobEvents).mine => Head(jobEvents).result = job  BY <1>2 DEF ClInv, ClJob
<1>4. ClShape'
  <2>1. clPc' \in {"wait", "recheck", "recheck_failed"} /\ clResult' = clResult  OBVIOUS
  <2> QED  BY <2>1 DEF ClInv, ClShape
<1>5. ClJob'
  <2>1. clPc' = "recheck" => job' = "done"  BY <1>3
  <2>2. clPc' \notin {"connect", "call"} /\ job' = job /\ subscribed' = subscribed  OBVIOUS
  <2>3. \A i \in DOMAIN jobEvents' : jobEvents'[i].mine => jobEvents'[i].result = job'
    BY <1>2, <2>2 DEF ClInv, ClJob
  <2> QED  BY <1>2, <2>1, <2>2, <2>3 DEF ClJob
<1>6. ClGen'  BY DEF ClInv, ClGen
<1>7. ClientVerdict'
  <2>1. clResult' = "ok" => clResult = "ok"  OBVIOUS
  <2> QED  BY <2>1 DEF ClInv, ClientVerdict
<1> QED  BY <1>4, <1>5, <1>6, <1>7 DEF ClInv

\* Errors are not successes, whatever the bus or the server said.
LEMMA ClErrors ==
  /\ \A err \in ZbusErrors : FromZbus(err) # "ok"
  /\ \A err \in UreqErrors, lookup \in BOOLEAN : FromUreq(err, lookup) # "ok"
  /\ \A body : ParseJson(body) # "ok"
BY DEF ZbusErrors, FromZbus, UreqErrors, FromUreq, ParseJson

\* The daemon's side of a job.
LEMMA ClJobEnds == ASSUME ClInv, JobEnds  PROVE ClInv'
<1> USE DEF JobEnds
<1>0. svc \in ServiceRecord  BY DEF ClInv, ClShape
<1>1. svc' \in ServiceRecord /\ svc'.gen >= svc.gen /\ svc'.gen + svc.restarts >= svc'.restarts + svc.gen
  <2>1. CASE svc' = [svc EXCEPT !.state = "Stopped"]  BY <1>0, <2>1 DEF ServiceRecord, States
  <2>2. CASE \E s \in {"Running", "Failed"} : NewProcess(s)  BY <1>0, <2>2 DEF ServiceRecord, States, NewProcess
  <2>3. CASE svc' = svc  BY <1>0, <2>3 DEF ServiceRecord
  <2> QED  BY <2>1, <2>2, <2>3
<1>2. PICK r \in {"done", "failed"} : job' = r /\ Emit(r)  OBVIOUS
<1> DEFINE e == [mine |-> TRUE, result |-> r]
<1>3. e \in JobEvent /\ e.result = job' /\ job' \in Jobs /\ job = "queued"  BY <1>2 DEF JobEvent, Jobs
<1>4. jobEvents' = IF subscribed THEN Append(jobEvents, e) ELSE jobEvents  BY <1>2 DEF Emit
<1> HIDE DEF e
<1> QED  BY <1>1, <1>3, <1>4, ClMoves

\* What others do to the service.
LEMMA ClOthers == ASSUME ClInv, OthersUseService  PROVE ClInv'
<1> USE DEF OthersUseService
<1>0. svc \in ServiceRecord /\ job \in Jobs  BY DEF ClInv, ClShape
<1>1. svc' \in ServiceRecord /\ svc'.gen >= svc.gen /\ svc'.gen + svc.restarts >= svc'.restarts + svc.gen
  BY <1>0 DEF ServiceRecord, States
<1> DEFINE e == [mine |-> FALSE, result |-> "done"]
<1>2. e \in JobEvent /\ ~e.mine  BY DEF JobEvent
<1>3. jobEvents' = IF subscribed THEN Append(jobEvents, e) ELSE jobEvents  OBVIOUS
<1> HIDE DEF e
<1> QED  BY <1>0, <1>1, <1>2, <1>3, ClMoves

\* Every step of the client, of the daemons and of others keeps the invariant.
LEMMA ClStepInv == ASSUME ClInv, [ClNext]_clVars  PROVE ClInv'
<1> USE DEF ClEnd, ClGoto
<1>1. CASE ConnectSystem \/ BusFails \/ WaitTimesOut \/ StreamEnds \/ ClockRuns \/ BusGoesMute
  <2>1. CASE ConnectSystem  BY <2>1, ClQuiet DEF ConnectSystem
  <2>2. CASE BusFails  BY <2>2, ClQuiet, ClErrors DEF BusFails
  <2>3. CASE WaitTimesOut \/ StreamEnds  BY <2>3, ClQuiet DEF WaitTimesOut, StreamEnds
  <2>4. CASE ClockRuns  BY <2>4, ClQuiet DEF ClockRuns, ClSame
  <2>5. CASE BusGoesMute
    <3>1. ClShape'  BY <2>5 DEF BusGoesMute, ClInv, ClShape
    <3>2. ClJob' /\ ClGen' /\ ClientVerdict'  BY <2>5 DEF BusGoesMute, ClInv, ClJob, ClGen, ClientVerdict
    <3> QED  BY <3>1, <3>2 DEF ClInv
  <2> QED  BY <1>1, <2>1, <2>2, <2>3, <2>4, <2>5
<1>2. CASE \E o \in PlainOps : \E r : Answer(o, r)
  BY <1>2, ClQuiet DEF Answer, PlainOps, JobOps, VerifiedOps
<1>3. CASE IssueJob
  <2>1. CASE svc.state = "gone"  BY <1>3, <2>1, ClQuiet DEF IssueJob
  <2>2. CASE svc.state # "gone"  BY <1>3, <2>2, ClQueues DEF IssueJob
  <2> QED  BY <2>1, <2>2
<1>4. CASE ReceiveJobRemoved
  <2> USE <1>4 DEF ReceiveJobRemoved, ClSame
  <2>1. ClShape'  BY DEF ClInv, ClShape
  <2>2. ClJob'  BY DEF ClInv, ClJob, ClShape
  <2>3. ClGen' /\ ClientVerdict'  BY DEF ClInv, ClGen, ClientVerdict
  <2> QED  BY <2>1, <2>2, <2>3 DEF ClInv
<1>5. CASE WaitForJobMatch  BY <1>5, ClWaits
<1>6. CASE RecheckActiveState
  BY <1>6, ClPolls DEF RecheckActiveState, ClInv, ClShape, ClJob, JobOps
<1>7. CASE PostJson
  <2>1. CASE svc.state = "gone"  BY <1>7, <2>1, ClQuiet DEF PostJson, FromUreq
  <2>2. CASE svc.state # "gone" /\ op \in VerifiedOps  BY <1>7, <2>2, ClQueues DEF PostJson
  <2>3. CASE svc.state # "gone" /\ op \notin VerifiedOps
    BY <1>7, <2>3, ClQueues DEF PostJson, ServiceOps, TimerOps, JobOps, VerifiedOps
  <2> QED  BY <2>1, <2>2, <2>3
<1>8. CASE GetJson  BY <1>8, ClQuiet DEF GetJson, ListOps, JobOps, VerifiedOps
<1>9. CASE RequestFails
  <2>1. clPc' = "done" /\ clResult' # "ok"  BY <1>9, ClErrors DEF RequestFails
  <2>2. CASE job' = job  BY <1>9, <2>1, <2>2, ClQuiet DEF RequestFails
  <2>3. CASE job' # job  BY <1>9, <2>1, <2>3, ClQueues DEF RequestFails
  <2> QED  BY <2>2, <2>3
<1>10. CASE VerifyRestart
  BY <1>10, ClPolls DEF VerifyRestart, JobOps
<1>11. CASE VerifyStart
  BY <1>11, ClPolls DEF VerifyStart, JobOps
<1>12. CASE JobEnds  BY <1>12, ClJobEnds
<1>13. CASE OthersUseService  BY <1>13, ClOthers
<1>14. CASE UNCHANGED clVars  BY <1>14, ClQuiet DEF clVars, ClSame
<1>15. CASE DaemonReload \/ NeedsDaemonReload \/ EnableUnit \/ IsUnitEnabled \/ DisableUnit \/ UnitInfo
  <2>1. \E o \in PlainOps : \E r : Answer(o, r)
    BY <1>15 DEF PlainOps, DaemonReload, NeedsDaemonReload, EnableUnit, IsUnitEnabled, DisableUnit, UnitInfo
  <2> QED  BY <1>2, <2>1
<1> QED
  BY <1>1, <1>3, <1>4, <1>5, <1>6, <1>7, <1>8, <1>9, <1>10, <1>11, <1>12, <1>13, <1>14, <1>15 DEF ClNext, ClStep

\* A call of the systemd or the runr client that reports success is one that
\* happened: its own job ended as done, a process runs that did not run before
\* the restart, or was seen running after the start, whatever others do to the
\* service meanwhile and however often.
THEOREM ClientCallsHonest == ClSpec => []ClientVerdict
<1>1. ClInit => ClInv  BY ClInitInv
<1>2. ClInv /\ [ClNext]_clVars => ClInv'  BY ClStepInv
<1>3. ClInv => ClientVerdict  BY DEF ClInv
<1> QED  BY <1>1, <1>2, <1>3, PTL DEF ClSpec

-----------------------------------------------------------------------------
(* bosun status.  The listing rests on its order: an entry leaves the pending
   files only for the parked ones, and those are listed second. *)

StMoment == {"open", "clear", "remove", "clear_all", "list_pending", "pending", "list_manual", "manual", "print", "done"}
Cleared == {"list_pending", "pending", "list_manual", "manual", "print"}
Listing == {"pending", "list_manual", "manual", "print"}
Readable == stFiles \ stCorrupt
Parked(id) == <<id, MANUAL_CLEAR_EXT>>
Pending(id) == <<id, DEFERRED_EXT>>

\* An exit code other than 0 is set at the end.
ExitInv == stPc \in StMoment /\ (stPc # "done" => stExit = StOk)

\* What has a file during the listing has one that can be read, and is shown,
\* still to be read, or parked where the second reading will find it.
ListInv ==
  /\ stPc \in Listing => stHeld \subseteq IdsOf(Readable)
  /\ stPc = "pending" => \A id \in stHeld : id \in IdsOf(stShown) \/ Pending(id) \in stNames \/ Parked(id) \in Readable
  /\ stPc = "list_manual" => \A id \in stHeld : id \in IdsOf(stShown) \/ Parked(id) \in Readable
  /\ stPc = "manual" => \A id \in stHeld : id \in IdsOf(stShown) \/ Parked(id) \in stNames \cap Readable
  /\ stPc = "print" => stHeld \subseteq IdsOf(stShown)
\* What is about to be removed is what --clear asked for; the parked files there
\* were at the beginning are there, to be visited or removed.
ClearInv ==
  /\ stPc = "remove" => stFile # {} /\ stFile \subseteq stArgs.clear
  /\ stPc = "clear_all" => stArgs.clear_all_manual
  /\ stPc \in Cleared \cup {"clear_all"} => stArgs.clear = {} \/ stArgs.clear \cap stRemoved # {}
  /\ stPc # "open" => \A f \in stOld : f[2] = MANUAL_CLEAR_EXT => f \in stFiles \cup stRemoved
  /\ stPc = "clear_all" => \A f \in stOld : f[2] = MANUAL_CLEAR_EXT => f \in stNames \cup stRemoved
  /\ stPc \in Cleared /\ stArgs.clear_all_manual => \A f \in stOld : f[2] = MANUAL_CLEAR_EXT => f \in stRemoved

StInv == stFiles \subseteq JournalFiles /\ ExitInv /\ ListInv /\ ClearInv /\ StatusHonest

\* The two passes of the listing.
LEMMA Passes ==
  /\ ListOrder[1] = [pc |-> "list_pending", reads |-> "pending", ext |-> DEFERRED_EXT, then |-> "list_manual"]
  /\ ListOrder[2] = [pc |-> "list_manual", reads |-> "manual", ext |-> MANUAL_CLEAR_EXT, then |-> "print"]
BY DEF ListOrder

\* An entry that can be read can be read under one of its two names.
LEMMA TwoNames ==
  ASSUME stFiles \subseteq JournalFiles, NEW id \in IdsOf(Readable)
  PROVE  id \in EntryIds /\ (Pending(id) \in Readable \/ Parked(id) \in Readable)
BY DEF IdsOf, JournalFiles, Readable, Pending, Parked

\* Before the start nothing is shown, removed or remembered.
LEMMA StInitInv == StInit => StInv
<1> SUFFICES ASSUME StInit PROVE StInv
  OBVIOUS
<1>1. stFiles \subseteq JournalFiles /\ stPc = "open" /\ stExit = StOk /\ stRemoved = {} BY DEF StInit
<1> QED BY <1>1 DEF StInv, ExitInv, ListInv, ClearInv, StatusHonest, ListingWhole, ClearExact, StMoment, Cleared, Listing

\* The steps before the listing.
LEMMA ClearSteps ==
  ASSUME StInv, StOpen \/ ClearOneNone \/ ClearOneRemove \/ ClearAllEnd \/ StIoFails
                \/ \E f \in JournalFiles : ClearOneVisit(f) \/ ClearAllVisit(f)
  PROVE  StInv'
<1> USE DEF StInv, ExitInv, ListInv, ClearInv, StatusHonest, ListingWhole, ClearExact, StMoment, Cleared, Listing
<1>1. CASE StOpen BY <1>1 DEF StOpen, StJournal, StEnd, StOk, StEnvError, Matches
<1>2. CASE ClearOneNone BY <1>2 DEF ClearOneNone, StJournal, StHistory, StEnd, StOk, StEnvError, Matches
<1>3. CASE ClearOneRemove BY <1>3 DEF ClearOneRemove, StEnd, StOk, StEnvError, Matches
<1>4. CASE ClearAllEnd BY <1>4 DEF ClearAllEnd, StJournal, StHistory, StEnd, StOk, StEnvError, Matches
<1>5. CASE StIoFails BY <1>5 DEF StIoFails, StJournal, StHistory, StEnd, StOk, StEnvError, Matches
<1>6. ASSUME NEW f \in JournalFiles, ClearOneVisit(f) PROVE StInv'
  BY <1>6 DEF ClearOneVisit, StJournal, StHistory, StEnd, StOk, StEnvError, Matches
<1>7. ASSUME NEW f \in JournalFiles, ClearAllVisit(f) PROVE StInv'
  BY <1>7 DEF ClearAllVisit, StGone, StEnd, StOk, StEnvError, Matches
<1> QED BY <1>1, <1>2, <1>3, <1>4, <1>5, <1>6, <1>7

\* The listing takes nothing away, so that it leaves what the clearing did.
LEMMA ListKeepsClear ==
  ASSUME StInv, stPc \in Cleared, stPc' \in Cleared \cup {"done"},
         UNCHANGED <<stFiles, stCorrupt, stArgs, stOld, stRemoved>>
  PROVE  stFiles' \subseteq JournalFiles /\ Readable' = Readable /\ ClearInv' /\ ClearExact'
BY DEF StInv, ClearInv, StatusHonest, ClearExact, Cleared, Matches, StGone, Readable

\* Where the two passes of the listing go: on, or out with an error.
LEMMA ListFails ==
  ASSUME StInv, stPc \in Cleared, StEnd(StEnvError), UNCHANGED <<stFiles, stCorrupt, stArgs, stOld, stRemoved>>
  PROVE  StInv'
<1>1. stPc' = "done" /\ stExit' = StEnvError BY DEF StEnd
<1>2. ExitInv' BY <1>1 DEF ExitInv, StMoment
<1>3. ListInv' BY <1>1 DEF ListInv, Listing
<1>4. ListingWhole' BY <1>1 DEF ListingWhole
<1> QED BY <1>1, <1>2, <1>3, <1>4, ListKeepsClear DEF StInv, StatusHonest

\* A step of the listing that neither ends nor prints.
LEMMA ListGoesOn ==
  ASSUME StInv, stPc \in Cleared, stPc' \in Cleared, ListInv', stExit' = stExit,
         UNCHANGED <<stFiles, stCorrupt, stArgs, stOld, stRemoved>>
  PROVE  StInv'
<1>1. ExitInv' BY DEF StInv, ExitInv, StMoment, Cleared
<1>2. ListingWhole' BY DEF ListingWhole, Cleared
<1> QED BY <1>1, <1>2, ListKeepsClear DEF StInv, StatusHonest

\* read_dir of the pending files, then of the parked ones.
LEMMA ReadDirStep ==
  ASSUME StInv, NEW i \in 1..2, StReadDir(ListOrder[i])
  PROVE  StInv'
<1>0. /\ i = 1 \/ i = 2
      /\ stPc = ListOrder[i].pc /\ stPc \in Cleared
      /\ UNCHANGED <<stFiles, stCorrupt, stArgs, stShown, stOld, stRemoved>> /\ Readable' = Readable
  BY Passes DEF StReadDir, StJournal, Cleared, Readable
<1>1. CASE StEnd(StEnvError) BY <1>0, <1>1, ListFails
<1>2. CASE stPc' = ListOrder[i].reads /\ stNames' = Named(ListOrder[i].ext) /\ UNCHANGED stExit
  <2>1. CASE i = 1
    <3>1. stHeld' = IdsOf(Readable) /\ stPc' = "pending" /\ stNames' = Named(DEFERRED_EXT)
      BY <1>0, <1>2, <2>1, Passes DEF StReadDir, Readable
    <3>2. \A id \in stHeld' : Pending(id) \in stNames' \/ Parked(id) \in Readable
      BY <3>1, TwoNames DEF StInv, Named, Readable, Pending
    <3>3. ListInv' BY <1>0, <3>1, <3>2 DEF ListInv, Listing
    <3> QED BY <1>0, <1>2, <3>1, <3>3, ListGoesOn DEF Cleared
  <2>2. CASE i = 2
    <3>1. stHeld' = stHeld /\ stPc = "list_manual" /\ stPc' = "manual" /\ stNames' = Named(MANUAL_CLEAR_EXT)
      BY <1>0, <1>2, <2>2, Passes DEF StReadDir
    <3>2. \A id \in stHeld : id \in IdsOf(stShown) \/ Parked(id) \in stNames' \cap Readable
      BY <3>1 DEF StInv, ListInv, Named, Readable, Parked
    <3>3. ListInv' BY <1>0, <3>1, <3>2 DEF StInv, ListInv, Listing
    <3> QED BY <1>0, <1>2, <3>1, <3>3, ListGoesOn DEF Cleared
  <2> QED BY <1>0, <2>1, <2>2
<1> QED BY <1>1, <1>2 DEF StReadDir

\* A pass has read all of its files.
LEMMA ReadEndStep ==
  ASSUME StInv, NEW i \in 1..2, ReadEnd(ListOrder[i])
  PROVE  StInv'
<1>0. /\ i = 1 \/ i = 2
      /\ UNCHANGED <<stFiles, stCorrupt, stArgs, stShown, stExit, stHeld, stOld, stRemoved>>
      /\ stNames = {} /\ Readable' = Readable
  BY DEF ReadEnd, StJournal, StHistory, Readable
<1>1. (stPc = "pending" /\ stPc' = "list_manual") \/ (stPc = "manual" /\ stPc' = "print")
  BY <1>0, Passes DEF ReadEnd
<1>2. ListInv' BY <1>0, <1>1 DEF StInv, ListInv, Listing
<1> QED BY <1>0, <1>1, <1>2, ListGoesOn DEF Cleared

\* One file is read: it is shown, or it is gone or corrupt, and then what it was
\* read for has another.
LEMMA ReadOneStep ==
  ASSUME StInv, NEW i \in 1..2, NEW f \in JournalFiles, ReadOne(ListOrder[i], f)
  PROVE  StInv'
<1>0. /\ i = 1 \/ i = 2
      /\ UNCHANGED <<stFiles, stCorrupt, stArgs, stPc, stExit, stHeld, stOld, stRemoved>>
      /\ stNames' = stNames \ {f} /\ Readable' = Readable
  BY DEF ReadOne, StJournal, StHistory, Readable
<1>1. PICK word : stShown' = IF f \in Readable THEN stShown \cup {<<f[1], word>>} ELSE stShown
  <2>1. stShown' = IF f \in Readable THEN stShown \cup {<<f[1], StateName(ListOrder[i].ext)>>} ELSE stShown
    BY DEF ReadOne, Readable, StGone
  <2> QED BY <2>1
<1>2. IdsOf(stShown) \subseteq IdsOf(stShown') BY <1>1 DEF IdsOf
<1>3. ASSUME f \in Readable PROVE f[1] \in IdsOf(stShown')
  <2>1. <<f[1], word>> \in stShown' BY <1>1, <1>3
  <2> QED BY <2>1 DEF IdsOf
<1>4. CASE stPc = "pending"
  <2>1. ASSUME NEW id \in stHeld PROVE id \in IdsOf(stShown') \/ Pending(id) \in stNames' \/ Parked(id) \in Readable
    <3>1. id \in IdsOf(Readable) BY <1>4 DEF StInv, ListInv, Listing
    <3>2. CASE f = Pending(id)
      <4>1. Pending(id) \in Readable => id \in IdsOf(stShown') BY <1>3, <3>2 DEF Pending
      <4> QED BY <3>1, <4>1, TwoNames DEF StInv
    <3>3. CASE f # Pending(id) BY <1>0, <1>2, <1>4, <3>3 DEF StInv, ListInv
    <3> QED BY <3>2, <3>3
  <2>2. ListInv' BY <1>0, <1>4, <2>1 DEF StInv, ListInv, Listing
  <2> QED BY <1>0, <1>4, <2>2, ListGoesOn DEF Cleared
<1>5. CASE stPc = "manual"
  <2>1. ASSUME NEW id \in stHeld PROVE id \in IdsOf(stShown') \/ Parked(id) \in stNames' \cap Readable
    <3>1. id \in IdsOf(stShown) \/ Parked(id) \in stNames \cap Readable BY <1>5 DEF StInv, ListInv
    <3>2. CASE f = Parked(id) BY <1>2, <1>3, <3>1, <3>2 DEF Parked
    <3>3. CASE f # Parked(id) BY <1>0, <1>2, <3>1, <3>3
    <3> QED BY <3>2, <3>3
  <2>2. ListInv' BY <1>0, <1>5, <2>1 DEF StInv, ListInv, Listing
  <2> QED BY <1>0, <1>5, <2>2, ListGoesOn DEF Cleared
<1> QED BY <1>0, <1>4, <1>5, Passes DEF ReadOne

\* The exit code is that of what is shown.
LEMMA PrintStep == ASSUME StInv, StPrint PROVE StInv'
<1>1. /\ stPc = "print" /\ stPc' = "done"
      /\ stExit' = (IF \E e \in stShown : e[2] = "manual_clear" THEN StManualClearPresent ELSE StOk)
      /\ UNCHANGED <<stFiles, stCorrupt, stArgs, stShown, stHeld, stOld, stRemoved>>
  BY DEF StPrint, StEnd, StJournal, StHistory
<1>2. ExitInv' BY <1>1 DEF ExitInv, StMoment
<1>3. ListInv' BY <1>1 DEF ListInv, Listing
<1>4. ListingWhole' BY <1>1 DEF StInv, ListInv, ListingWhole, StOk, StManualClearPresent
<1> QED BY <1>1, <1>2, <1>3, <1>4, ListKeepsClear DEF StInv, StatusHonest, Cleared

\* The apply parks, writes and removes: a parked file stays, and nothing that
\* could be read becomes corrupt.
LEMMA WorldSteps ==
  ASSUME StInv, NEW id \in EntryIds, WorldWrites(id) \/ WorldRemoves(id) \/ WorldParks(id)
  PROVE  StInv'
<1> USE DEF StInv, ExitInv, ListInv, ClearInv, StatusHonest, ListingWhole, ClearExact, StMoment, Cleared, Listing
<1>1. PICK files, corrupt :
        /\ StWorld(files, corrupt) /\ files \subseteq JournalFiles
        /\ \A f \in stFiles : f[2] = MANUAL_CLEAR_EXT => f \in files
        /\ \A f \in files \cap corrupt : f \in stCorrupt
  BY DEF WorldWrites, WorldRemoves, WorldParks, JournalFiles, DEFERRED_EXT, MANUAL_CLEAR_EXT
<1>2. /\ stPc # "done" /\ stFiles' = files /\ stCorrupt' = corrupt
      /\ stHeld' = stHeld \cap IdsOf(files \ corrupt)
      /\ UNCHANGED <<stArgs, stPc, stNames, stFile, stShown, stExit, stOld, stRemoved>>
  BY <1>1 DEF StWorld
<1>3. \A e : Parked(e) \in Readable => Parked(e) \in Readable'
  BY <1>1, <1>2 DEF Readable, Parked, MANUAL_CLEAR_EXT
<1>4. stHeld' \subseteq IdsOf(Readable') /\ stHeld' \subseteq stHeld
  BY <1>2 DEF IdsOf, Readable
<1>5. ListInv' BY <1>2, <1>3, <1>4
<1>6. ClearInv' BY <1>1, <1>2
<1> QED BY <1>1, <1>2, <1>5, <1>6 DEF Matches

\* bosun status beside an apply, with any entries: what is in the journal all
\* the while is listed and reflected in the exit code, and the clearing takes
\* what it was asked to take.
THEOREM StatusWhole == StSpec => []StatusHonest
<1>1. StInv /\ [StNext]_stVars => StInv'
  <2> SUFFICES ASSUME StInv, [StNext]_stVars PROVE StInv'
    OBVIOUS
  <2>1. CASE StStep
    BY <2>1, ClearSteps, ReadDirStep, ReadEndStep, ReadOneStep, PrintStep DEF StStep
  <2>2. CASE \E id \in EntryIds : WorldWrites(id) \/ WorldRemoves(id) \/ WorldParks(id)
    BY <2>2, WorldSteps
  <2>3. CASE UNCHANGED stVars
    <3>1. Readable' = Readable BY <2>3 DEF stVars, Readable
    <3> QED BY <2>3, <3>1 DEF stVars, StInv, ExitInv, ListInv, ClearInv, StatusHonest, ListingWhole, ClearExact, Matches, StGone
  <2> QED BY <2>1, <2>2, <2>3 DEF StNext
<1>2. StInv => StatusHonest BY DEF StInv
<1> QED BY <1>1, <1>2, StInitInv, PTL DEF StSpec

\* The passes of bosun status in their order; each visits names once.
PassesLeft == [open |-> 9, clear |-> 8, remove |-> 7, clear_all |-> 6, list_pending |-> 5, pending |-> 4,
               list_manual |-> 3, manual |-> 2, print |-> 1, done |-> 0]
NamesLeft == (Cardinality(JournalFiles) + 1) * PassesLeft[stPc] + Cardinality(stNames)

\* The names to visit are names of the directory.
StNamesInv == stFiles \subseteq JournalFiles /\ stNames \subseteq JournalFiles /\ stPc \in DOMAIN PassesLeft

\* A step visits a name or goes on to a later pass.
LEMMA StVisits ==
  ASSUME StNamesInv, StStep
  PROVE  /\ stNames' \subseteq JournalFiles /\ stFiles' \subseteq JournalFiles /\ stPc' \in DOMAIN PassesLeft
         /\ \/ PassesLeft[stPc'] < PassesLeft[stPc]
            \/ PassesLeft[stPc'] = PassesLeft[stPc] /\ stNames' \subseteq stNames /\ stNames' # stNames
<1> DEFINE Goal == /\ stNames' \subseteq JournalFiles /\ stFiles' \subseteq JournalFiles /\ stPc' \in DOMAIN PassesLeft
                   /\ \/ PassesLeft[stPc'] < PassesLeft[stPc]
                      \/ PassesLeft[stPc'] = PassesLeft[stPc] /\ stNames' \subseteq stNames /\ stNames' # stNames
<1>1. CASE StOpen
  BY <1>1 DEF StOpen, StJournal, StEnd, StNamesInv, PassesLeft
<1>2. CASE ClearOneNone \/ ClearOneRemove
  BY <1>2 DEF ClearOneNone, ClearOneRemove, StJournal, StEnd, StNamesInv, PassesLeft
<1>3. CASE ClearAllEnd \/ StIoFails \/ StPrint
  BY <1>3 DEF ClearAllEnd, StIoFails, StPrint, StJournal, StEnd, StNamesInv, PassesLeft
<1>4. ASSUME NEW f \in JournalFiles, ClearOneVisit(f) \/ ClearAllVisit(f) PROVE Goal
  BY <1>4 DEF ClearOneVisit, ClearAllVisit, StJournal, StNamesInv, PassesLeft
<1>5. ASSUME NEW i \in 1..2, StReadDir(ListOrder[i]) PROVE Goal
  <2>1. stNames' \subseteq JournalFiles
    BY <1>5 DEF StReadDir, Named, StNamesInv
  <2>2. /\ stFiles' = stFiles
        /\ \/ stPc = "list_pending" /\ stPc' \in {"pending", "done"}
           \/ stPc = "list_manual" /\ stPc' \in {"manual", "done"}
    BY <1>5, Passes DEF StReadDir, StJournal, StEnd
  <2> QED BY <2>1, <2>2 DEF PassesLeft, StNamesInv
<1>6. ASSUME NEW i \in 1..2, ReadEnd(ListOrder[i]) PROVE Goal
  <2>1. \/ stPc = "pending" /\ stPc' = "list_manual"
        \/ stPc = "manual" /\ stPc' = "print"
    BY <1>6, Passes DEF ReadEnd
  <2>2. UNCHANGED <<stFiles, stNames>>
    BY <1>6 DEF ReadEnd, StJournal
  <2> QED BY <2>1, <2>2 DEF PassesLeft, StNamesInv
<1>7. ASSUME NEW i \in 1..2, NEW f \in JournalFiles, ReadOne(ListOrder[i], f) PROVE Goal
  <2>1. UNCHANGED <<stFiles, stPc>> /\ f \in stNames /\ stNames' = stNames \ {f}
    BY <1>7 DEF ReadOne, StJournal
  <2> QED BY <2>1 DEF StNamesInv
<1> QED BY <1>1, <1>2, <1>3, <1>4, <1>5, <1>6, <1>7 DEF StStep

\* The apply beside it touches neither.
LEMMA WorldVisitsNothing ==
  ASSUME StNamesInv, NEW id \in EntryIds, WorldWrites(id) \/ WorldRemoves(id) \/ WorldParks(id)
  PROVE  StNamesInv' /\ UNCHANGED <<stPc, stNames>>
BY DEF WorldWrites, WorldRemoves, WorldParks, StWorld, StNamesInv, JournalFiles

\* bosun status ends, however many entries an apply writes, removes or parks
\* beside it: each of its own steps leaves fewer names to visit, and those of
\* the apply add none.
THEOREM StatusEnds ==
  ASSUME IsFiniteSet(EntryIds)
  PROVE  StSpec => [][IF StStep THEN NamesLeft' < NamesLeft /\ NamesLeft' \in Nat ELSE NamesLeft' = NamesLeft]_stVars
<1>1. IsFiniteSet(JournalFiles)
  <2>1. IsFiniteSet({DEFERRED_EXT} \cup {MANUAL_CLEAR_EXT})
    BY FS_Singleton, FS_Union
  <2>2. {DEFERRED_EXT} \cup {MANUAL_CLEAR_EXT} = {DEFERRED_EXT, MANUAL_CLEAR_EXT}
    OBVIOUS
  <2> QED BY <2>1, <2>2, FS_Product DEF JournalFiles
<1>2. Cardinality(JournalFiles) \in Nat
  BY <1>1, FS_CardinalityType
<1>3. StNamesInv /\ [StNext]_stVars => StNamesInv'
  <2>1. StNamesInv /\ StStep => StNamesInv'
    BY StVisits DEF StNamesInv
  <2>2. StNamesInv /\ UNCHANGED stVars => StNamesInv'
    BY DEF StNamesInv, stVars
  <2> QED BY <2>1, <2>2, WorldVisitsNothing DEF StNext
<1>4. ASSUME StNamesInv, StStep PROVE NamesLeft' < NamesLeft /\ NamesLeft' \in Nat
  <2> DEFINE N == Cardinality(JournalFiles)
             a == PassesLeft[stPc]
             b == PassesLeft[stPc']
             c == Cardinality(stNames)
             d == Cardinality(stNames')
  <2>1. a \in 0..9 /\ b \in 0..9
    BY <1>4, StVisits DEF PassesLeft, StNamesInv
  <2>2. c \in 0..N /\ d \in 0..N
    BY <1>1, <1>2, <1>4, StVisits, FS_Subset, FS_CardinalityType DEF StNamesInv
  <2>3. b < a \/ (b = a /\ d < c)
    <3>1. IsFiniteSet(stNames)
      BY <1>1, <1>4, FS_Subset DEF StNamesInv
    <3>2. ASSUME stNames' \subseteq stNames, stNames' # stNames
          PROVE  Cardinality(stNames') < Cardinality(stNames)
      <4>1. /\ Cardinality(stNames') <= Cardinality(stNames)
            /\ Cardinality(stNames) = Cardinality(stNames') => stNames = stNames'
        BY <3>1, <3>2, FS_Subset, Zenon
      <4> QED BY <2>2, <3>2, <4>1
    <3> QED BY <1>4, <3>2, StVisits
  <2>4. NamesLeft = (N + 1) * a + c /\ NamesLeft' = (N + 1) * b + d
    BY DEF NamesLeft
  <2> HIDE DEF N, a, b, c, d
  <2>5. N \in Nat
    BY <1>2 DEF N
  <2>6. b < a => (N + 1) * a >= (N + 1) * b + (N + 1)
    <3>1. ASSUME b < a PROVE (N + 1) * a >= (N + 1) * b + (N + 1)
      <4>1. a \in {0, 1, 2, 3, 4, 5, 6, 7, 8, 9} /\ b \in {0, 1, 2, 3, 4, 5, 6, 7, 8, 9}
        BY <2>1
      <4> QED BY <2>5, <3>1, <4>1
    <3> QED BY <3>1
  <2>7. (N + 1) * a \in Nat /\ (N + 1) * b \in Nat
    BY <2>1, <2>5
  <2>8. CASE b < a
    BY <2>2, <2>4, <2>5, <2>6, <2>7, <2>8
  <2>9. CASE b = a /\ d < c
    BY <2>2, <2>4, <2>5, <2>7, <2>9
  <2> QED BY <2>3, <2>8, <2>9
<1>5. ASSUME StNamesInv, StNext, ~StStep PROVE NamesLeft' = NamesLeft
  <2>1. UNCHANGED <<stPc, stNames>>
    BY <1>5, WorldVisitsNothing DEF StNext
  <2> QED BY <2>1 DEF NamesLeft
<1>6. StNamesInv /\ [StNext]_stVars
        => [IF StStep THEN NamesLeft' < NamesLeft /\ NamesLeft' \in Nat ELSE NamesLeft' = NamesLeft]_stVars
  BY <1>4, <1>5
<1>7. StInit => StNamesInv
  BY DEF StInit, StNamesInv, PassesLeft
<1> QED BY <1>3, <1>6, <1>7, PTL DEF StSpec
=============================================================================
