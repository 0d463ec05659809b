------------------------------- MODULE Manifest -------------------------------
(***************************************************************************)
(* Loading a bundle and evaluating its manifest, for bosun apply and for   *)
(* bosun bundle validate: modules that load each other, calls that add     *)
(* resources to the registry and contents to the sensitive store, and the  *)
(* errors on their way out through the loads.                              *)
(*                                                                         *)
(* The program is written while it runs: a statement that is reached for   *)
(* the first time is any statement, and stays what it is when its module   *)
(* is evaluated again. Starlark itself is external.                        *)
(***************************************************************************)
EXTENDS Naturals, Sequences, FiniteSets

CONSTANTS
  MaxStatements,  \* bound: the statements of all modules
  MaxDepth        \* the loads inside each other that the stack holds

ASSUME ManifestAssumption == MaxStatements \in Nat /\ MaxDepth \in Nat

VARIABLES
  program,    \* the statements of each module, as far as they are known
  closed,     \* the modules that have no more
  frames,     \* current_module: the modules being evaluated, each with its pc
  loaded,     \* the module cache of BundleLoader
  entries,    \* the registry
  secrets,    \* SensitiveStore: a set of pairs of an id and its contents
  inventory,  \* inventory_cache
  errs,       \* EvalState.errors
  raised,     \* the error that unwinds the evaluation
  evals,      \* history: how often each module was evaluated
  cause,      \* history: the first error, and whether the glue recorded it
  expired,    \* the deadline has passed, or the run was cancelled
  manPc, manResult

manVars == <<program, closed, frames, loaded, entries, secrets, inventory, errs, raised, evals, cause, expired, manPc, manResult>>

-----------------------------------------------------------------------------
Entry == "main.star"
Modules == {Entry, "@roles/r", "@lib/l"}
\* What a load may name: a module, the builtins, or something that is not there.
LoadPaths == (Modules \ {Entry}) \cup {"@bosun/builtins", "@roles/missing", "@roles/outside", "@roles/broken", "//x"}
Ids == {1, 2}
ContentsOf == {"x", "y"}

BundleErrors == {"ModuleNotFound", "PathSafety", "UnsupportedLoadPath", "TemplateFromEntry", "Io", "InvalidManifest",
                 "EntryNotFound", "VersionIncompatible", "PrivateSymbol"}
StarlarkGlueError == BundleErrors \cup {"Syntax", "Eval", "InvalidCall", "UnknownPrimitive", "LoadCycle"}

\* A call of a primitive, with what may be wrong with it: arguments that are no
\* JSON, the contents of file.content, an argument or a panic of build_payload, a link that is no
\* handle, a kind that this build does not have.
Calls == {[op |-> "call", kind |-> k, id |-> i, contents |-> c, link |-> l, wrong |-> w] :
            k \in {"file.content"}, i \in Ids, c \in ContentsOf, l \in {0} \cup Ids, w \in {"nothing"}}
         \cup {[op |-> "call", kind |-> k, id |-> 1, contents |-> "x", link |-> 0, wrong |-> w] :
            k \in {"file.content", "apt.package"}, w \in {"nothing", "arguments", "contents", "payload", "link", "kind"}}
Statements ==
  Calls \cup [op : {"load"}, path : LoadPaths]
  \cup [op : {"template"}, ok : BOOLEAN]
  \cup [op : {"service.unit", "tags", "inventory.read", "import"}, ok : BOOLEAN]

ManTypeOK ==
  /\ \A m \in Modules : program[m] \in Seq(Statements)
  /\ closed \subseteq Modules /\ loaded \subseteq Modules \ {Entry}
  /\ Len(frames) <= MaxDepth + 1 /\ \A i \in DOMAIN frames : frames[i].module \in Modules
  /\ errs \in Seq(StarlarkGlueError) /\ raised \in StarlarkGlueError \cup {"none"}
  /\ manPc \in {"load_dir", "check", "facts", "start", "eval", "done"}
  /\ manResult \in StarlarkGlueError \cup {"none", "ok", "overflow"}

ManInit ==
  /\ program = [m \in Modules |-> << >>] /\ closed = {} /\ frames = << >> /\ loaded = {}
  /\ entries = << >> /\ secrets = {} /\ inventory = {} /\ errs = << >>
  /\ raised = "none" /\ evals = [m \in Modules |-> 0] /\ cause = [error |-> "none", recorded |-> FALSE]
  /\ expired = FALSE /\ manPc = "load_dir" /\ manResult = "none"

-----------------------------------------------------------------------------
(* The bundle *)

ManEnd(r) == manPc' = "done" /\ manResult' = r
Quiet == UNCHANGED <<program, closed, frames, loaded, entries, secrets, inventory, errs, raised, evals, expired>>
Fails(e) == ManEnd(e) /\ cause' = [error |-> e, recorded |-> TRUE]
Goes(pc) == manPc' = pc /\ UNCHANGED <<manResult, cause>>

\* bundle.toml: where the entry is, and how requires_bosun compares with this
\* build.
BundleMetadata == [entry : {"inside", "missing", "outside"}, requires_bosun : {"met", "not met", "malformed"}]
LoadManifest == {"ok", "Io", "InvalidManifest"}
\* load_manifest, then the entry inside the root.
LoadDir ==
  /\ manPc = "load_dir" /\ Quiet
  /\ \E toml \in LoadManifest, bundle \in BundleMetadata :
       CASE toml # "ok" -> Fails(toml)
         [] toml = "ok" /\ bundle.entry = "missing" -> Fails("EntryNotFound")
         [] toml = "ok" /\ bundle.entry = "outside" -> Fails("PathSafety")
         [] OTHER -> Goes("check")
CheckCompatibility ==
  /\ manPc = "check" /\ Quiet
  /\ \E bundle \in BundleMetadata :
       CASE bundle.requires_bosun = "malformed" -> Fails("InvalidManifest")
         [] bundle.requires_bosun = "not met" -> Fails("VersionIncompatible")
         [] OTHER -> Goes("facts")
\* bosun bundle validate reads facts from a file; a fact it does not have is
\* Unknown.
LoadFactsFixture == manPc = "facts" /\ Quiet /\ (Goes("start") \/ Fails("Eval"))

\* resolve_within_root: nothing outside of the root, no symlink.
ResolveWithinRoot(path) ==
  CASE path = "@roles/missing" -> "NotFound" [] path = "@roles/outside" -> "PathSafety" [] OTHER -> "ok"
\* resolve_module.
ResolveModule(path) ==
  CASE ResolveWithinRoot(path) = "NotFound" -> "ModuleNotFound"
    [] OTHER -> ResolveWithinRoot(path)

-----------------------------------------------------------------------------
(* The evaluation *)

\* Evaluator::evaluate: each evaluation has a registry of its own.
Evaluate == entries' = << >>
\* evaluate_manifest up to eval_module.
StartEvaluation ==
  /\ manPc = "start" /\ Evaluate
  /\ \/ /\ manPc' = "eval" /\ frames' = <<[module |-> Entry, pc |-> 1]>>
        /\ UNCHANGED <<cause, manResult>>
     \/ (\E e \in {"Io", "Syntax"} : Fails(e)) /\ UNCHANGED frames
  /\ UNCHANGED <<program, closed, loaded, secrets, inventory, errs, raised, evals, expired>>

Top == frames[Len(frames)]
Running == manPc = "eval" /\ raised = "none"
Written == Len(program[Entry]) + Len(program["@roles/r"]) + Len(program["@lib/l"])
Handles == {entries[i].id[2] : i \in DOMAIN entries}

\* The statement at the pc; a new one is any that the handles at hand allow.
Fetch(s) ==
  /\ Running /\ ~expired
  /\ IF Top.pc <= Len(program[Top.module])
     THEN s = program[Top.module][Top.pc] /\ UNCHANGED program
     ELSE /\ Top.module \notin closed /\ Written < MaxStatements
          /\ s.op = "call" => s.link \in {0} \cup Handles
          /\ program' = [program EXCEPT ![Top.module] = Append(@, s)]

ManSame == UNCHANGED <<closed, inventory, expired, manPc, manResult>>
Advance == frames' = [frames EXCEPT ![Len(frames)].pc = @ + 1] /\ UNCHANGED <<errs, raised, cause>>
\* An error of Starlark that the glue has recorded, or has not.
Raise(e, recorded) ==
  /\ raised' = e /\ errs' = IF recorded THEN Append(errs, e) ELSE errs
  /\ cause' = [error |-> e, recorded |-> recorded]
  /\ UNCHANGED frames

\* record_invalid_call_in.
RecordInvalidCall == Raise("InvalidCall", TRUE) /\ UNCHANGED entries
SensitivePut(id, contents) == secrets' = {p \in secrets : p[1] # id} \cup {<<id, contents>>}

\* Mutant: the second resource of an id is passed over.
AddResource_Passes(resource) ==
  IF \E i \in DOMAIN entries : entries[i].id = resource.id
  THEN Advance /\ UNCHANGED entries
  ELSE entries' = Append(entries, resource) /\ Advance

\* registry.add, the last step of the call; the handle is its value.
AddResource(resource) ==
  IF \E i \in DOMAIN entries : entries[i].id = resource.id
  THEN RecordInvalidCall
  ELSE entries' = Append(entries, resource) /\ Advance

\* kwargs_to_call_args, whose error nobody records; extract_sensitive_contents,
\* the kind, the identity, the payload, the links; then the contents are put
\* away, and only then the registry may refuse.
RegisterPrimitiveCall(s) ==
  LET id == <<s.kind, s.id>>
  IN /\ Fetch(s) /\ s.op = "call"
     /\ CASE s.wrong = "arguments" -> Raise("Eval", FALSE) /\ UNCHANGED <<entries, secrets>>
          [] s.wrong = "contents" /\ s.kind = "file.content" -> RecordInvalidCall /\ UNCHANGED secrets
          [] s.wrong = "kind" -> Raise("UnknownPrimitive", TRUE) /\ UNCHANGED <<entries, secrets>>
          [] s.wrong \in {"payload", "link"} -> RecordInvalidCall /\ UNCHANGED secrets
          [] OTHER -> /\ IF s.kind = "file.content" THEN SensitivePut(id, s.contents) ELSE UNCHANGED secrets
                      /\ AddResource([id |-> id, sha |-> s.contents, link |-> s.link])
     /\ ManSame /\ UNCHANGED <<loaded, evals>>

\* dispatch_service_unit: what is wrong with it is not recorded.
DispatchUnit(s) ==
  /\ Fetch(s) /\ s.op = "service.unit"
  /\ IF s.ok THEN AddResource([id |-> <<"systemd.service", 1>>, sha |-> "x", link |-> 0])
     ELSE Raise("Eval", FALSE) /\ UNCHANGED entries
  /\ ManSame /\ UNCHANGED <<loaded, evals, secrets>>

\* template(): the entry has no templates; what resolve_template and the
\* renderer say is recorded, an argument that is no JSON is not.
Template(s) ==
  /\ Fetch(s) /\ s.op = "template"
  /\ \/ ~s.ok /\ Raise("Eval", FALSE)
     \/ CASE Top.module = Entry -> Raise("TemplateFromEntry", TRUE)
          [] Top.module # Entry /\ s.ok -> Advance
          [] OTHER -> \E e \in {"PathSafety", "Eval"} : Raise(e, TRUE)
  /\ ManSame /\ UNCHANGED <<loaded, entries, secrets, evals>>

\* tags.require_one_of.
RequireOneOf(s) ==
  /\ Fetch(s) /\ s.op = "tags"
  /\ IF s.ok THEN Advance ELSE Raise("Eval", FALSE)
  /\ ManSame /\ UNCHANGED <<loaded, entries, secrets, evals>>

\* load_inventory_yaml: a file is read once; its errors lose their class.
InventoryRead(s) ==
  /\ Fetch(s) /\ s.op = "inventory.read"
  /\ \/ s.ok /\ Advance /\ inventory' = inventory \cup {"inventory.yaml"}
     \/ (~s.ok \/ inventory = {}) /\ Raise("Eval", FALSE) /\ UNCHANGED inventory
  /\ UNCHANGED <<closed, expired, manPc, manResult, loaded, entries, secrets, evals>>

\* Symbols of a module that begin with `_` are not exported.
Import(s) ==
  /\ Fetch(s) /\ s.op = "import"
  /\ IF s.ok THEN Advance ELSE Raise("PrivateSymbol", FALSE)
  /\ ManSame /\ UNCHANGED <<loaded, entries, secrets, evals>>

\* FileLoader::load: builtins, and what is refused.
Load(s) ==
  /\ Fetch(s) /\ s.op = "load" /\ s.path \notin Modules \ loaded
  /\ CASE s.path \in {"@bosun/builtins"} \cup loaded -> Advance
       [] s.path = "//x" -> Raise("UnsupportedLoadPath", TRUE)
       [] s.path = "@roles/broken" -> \E e \in {"Io", "Syntax"} : Raise(e, TRUE)
       [] OTHER -> Raise(ResolveModule(s.path), TRUE)
  /\ ManSame /\ UNCHANGED <<loaded, entries, secrets, evals>>

\* load_role_or_lib and parse_and_eval of a module that is not in the cache,
\* be it one that is being evaluated. The stack ends some time.
LoadRoleOrLib(s) ==
  /\ Fetch(s) /\ s.op = "load" /\ s.path \in Modules \ loaded
  /\ IF Len(frames) > MaxDepth
     THEN ManEnd("overflow") /\ UNCHANGED <<frames, evals>>
     ELSE /\ frames' = Append(frames, [module |-> s.path, pc |-> 1])
          /\ evals' = [evals EXCEPT ![s.path] = @ + 1]
          /\ UNCHANGED <<manPc, manResult>>
  /\ UNCHANGED <<closed, loaded, entries, secrets, inventory, errs, raised, cause, expired>>

\* The module is frozen and cached; its loader goes on.
EndModule ==
  /\ Running /\ Len(frames) > 1 /\ Top.pc > Len(program[Top.module])
  /\ closed' = closed \cup {Top.module}
  /\ loaded' = loaded \cup {Top.module}
  /\ frames' = [SubSeq(frames, 1, Len(frames) - 1) EXCEPT ![Len(frames) - 1].pc = @ + 1]
  /\ UNCHANGED <<program, entries, secrets, inventory, errs, raised, evals, cause, expired, manPc, manResult>>

\* DeadlineChecker, before each statement.
DeadlineChecker ==
  /\ Running /\ expired
  /\ Top.pc <= Len(program[Top.module]) \/ Top.module \notin closed
  /\ Raise("Eval", FALSE)
  /\ ManSame /\ UNCHANGED <<program, loaded, entries, secrets, evals>>

\* A load that fails records the error of its module once more, as Eval.
Unwind ==
  /\ manPc = "eval" /\ raised # "none" /\ Len(frames) > 1
  /\ frames' = SubSeq(frames, 1, Len(frames) - 1)
  /\ errs' = Append(errs, "Eval") /\ raised' = "Eval"
  /\ UNCHANGED <<program, closed, loaded, entries, secrets, inventory, evals, cause, expired, manPc, manResult>>

\* classify_eval_error: the symbol is found in the message, a cycle would be.
ClassifyEvalError(e) == IF e = "PrivateSymbol" THEN e ELSE "Eval"

\* Mutant: the last error is returned.
Verdict_Last ==
  IF errs # << >> THEN errs[Len(errs)] ELSE IF raised = "none" THEN "ok" ELSE ClassifyEvalError(raised)

\* The first error that was recorded goes before the one that came out.
Verdict ==
  IF errs # << >> THEN Head(errs) ELSE IF raised = "none" THEN "ok" ELSE ClassifyEvalError(raised)

EndManifest ==
  /\ manPc = "eval" /\ Len(frames) = 1
  /\ raised # "none" \/ Top.pc > Len(program[Entry])
  /\ ManEnd(Verdict)
  /\ UNCHANGED <<program, closed, frames, loaded, entries, secrets, inventory, errs, raised, evals, cause, expired>>

\* Time runs out, or the operator interrupts.
Expire ==
  /\ manPc = "eval" /\ ~expired /\ expired' = TRUE
  /\ UNCHANGED <<program, closed, frames, loaded, entries, secrets, inventory, errs, raised, evals, cause, manPc, manResult>>

ManNext ==
  \/ LoadDir \/ CheckCompatibility \/ LoadFactsFixture \/ StartEvaluation
  \/ \E s \in Statements : RegisterPrimitiveCall(s) \/ DispatchUnit(s) \/ Template(s) \/ RequireOneOf(s)
                           \/ InventoryRead(s) \/ Import(s) \/ Load(s) \/ LoadRoleOrLib(s)
  \/ EndModule \/ DeadlineChecker \/ Unwind \/ EndManifest \/ Expire
ManSpec == ManInit /\ [][ManNext]_manVars

-----------------------------------------------------------------------------
(* Properties *)

\* The operator reads what went wrong first, however deep in the loads it was:
\* an evaluation fails exactly when something failed, with the first error if
\* the glue recorded it, and with Eval, or the private symbol, if it did not.
RootCause ==
  manPc = "done" /\ manResult # "overflow" =>
    /\ manResult = "ok" <=> cause.error = "none"
    /\ cause.recorded => manResult = cause.error
    /\ ~cause.recorded /\ manResult # "ok" => manResult \in {"Eval", "PrivateSymbol"}

\* What the orchestrator gets is whole: for every file.content the contents in
\* the sensitive store are the ones its payload has the sha of, also when
\* another call used the same path; and links lead to resources registered
\* before, so that no manifest makes a dependency cycle.
RegistryWhole ==
  manResult = "ok" =>
    \A i \in DOMAIN entries :
      /\ entries[i].id[1] = "file.content" => {p \in secrets : p[1] = entries[i].id} = {<<entries[i].id, entries[i].sha>>}
      /\ entries[i].link # 0 => \E j \in 1..(i - 1) : entries[j].id[2] = entries[i].link

\* A module that several others load is evaluated once, so its resources are
\* registered once.
LoadedOnce == manResult = "ok" => \A m \in Modules : evals[m] <= 1

\* Both: a manifest that evaluates gives each resource once and whole.
ManifestWhole == RegistryWhole /\ LoadedOnce
=============================================================================
