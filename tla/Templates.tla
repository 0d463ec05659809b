------------------------------- MODULE Templates -------------------------------
(***************************************************************************)
(* template(path, ...): the module that holds the call decides in which    *)
(* directory the template is looked for, the path may not lead out of it,  *)
(* and the text is rendered with the arguments of the call and the facts.  *)
(*                                                                         *)
(* The directory is checked twice, by resolve_template for the path of the *)
(* call and by render_template for the file that was found. A file system  *)
(* with links of every kind, in the templates and in place of a templates  *)
(* directory, stands for any; minijinja is external.                       *)
(***************************************************************************)
EXTENDS Naturals, Sequences

VARIABLES
  tplModule,  \* the module with the call of template()
  tplPath,    \* the path of the call: a sequence of components
  tplArgs,    \* its keyword arguments
  tplReads,   \* the variable that the template reads
  tplFact,    \* the fact that it may read
  tplFile,    \* the file that resolve_template found
  tplPc, tplResult

tplVars == <<tplModule, tplPath, tplArgs, tplReads, tplFact, tplFile, tplPc, tplResult>>

-----------------------------------------------------------------------------
(* The file system *)

\* The templates of a role, with a directory d in them; those of a library;
\* and a directory outside of the bundle.
DirEntry(d) == [type |-> "dir", dir |-> d, name |-> ".", link |-> FALSE]
FileEntry(d, n) == [type |-> "file", dir |-> d, name |-> n, link |-> FALSE]
LinkTo(e) == [e EXCEPT !.link = TRUE]
Nothing == [type |-> "none", dir |-> "none", name |-> "none", link |-> FALSE]
InRole(name) ==
  CASE name \in {"conf", "bad", "bin"} -> FileEntry("role", name)
    [] name = "d" -> DirEntry("d")
    [] name = "self" -> LinkTo(FileEntry("role", "conf")) [] name = "away" -> LinkTo(FileEntry("outside", "conf"))
    [] name = "dself" -> LinkTo(DirEntry("d")) [] name = "daway" -> LinkTo(DirEntry("lib"))
    [] OTHER -> Nothing
\* The entry of a directory; "." is the directory itself.
EntryAt(dir, name) ==
  CASE name = "." -> DirEntry(dir)
    [] dir = "role" /\ name # "." -> InRole(name)
    [] dir # "role" /\ name = "conf" -> FileEntry(dir, "conf")
    [] OTHER -> Nothing

\* canonicalize, of the templates directory of a module: the directory, what a
\* link in its place leads to (the templates of another module, a directory
\* outside of the bundle), or nothing.
CanonicalRoot(dir) ==
  CASE dir \in {"role", "lib"} -> dir [] dir = "linked" -> "lib" [] dir = "astray" -> "outside" [] OTHER -> "none"

\* canonicalize, of a path with at most two components; link tells whether the
\* last of them is one.
Walk(dir, path) ==
  CASE path = << >> -> DirEntry(dir)
    [] Len(path) = 1 -> EntryAt(dir, path[1])
    [] OTHER -> LET e == EntryAt(dir, path[1]) IN IF e.type = "dir" THEN EntryAt(e.dir, path[2]) ELSE Nothing
\* starts_with, of canonical paths: d is a directory among the templates.
Below(dir) == IF dir = "role" THEN {"role", "d"} ELSE {dir}

-----------------------------------------------------------------------------
(* Paths *)

Components == {"conf", "bad", "bin", "d", "self", "away", "dself", "daway", "missing", ".", "..", "/", "nul", "@", "a:b"}
Paths == {<< >>} \cup {<<c>> : c \in Components} \cup {<<c, e>> : c, e \in Components \ {"nul", "@", "/"}}
HasComponent(path, c) == \E i \in DOMAIN path : path[i] = c

PathSafetyError == {"Absolute", "ParentDir", "NulByte", "NotFound", "NotInRoot", "IsSymlink", "Io"}

\* Mutant: the last component may be a link.
ResolveWithin_FollowsLinks(dir, path) ==
  LET root == CanonicalRoot(dir)
      e == Walk(root, path)
  IN CASE HasComponent(path, "nul") -> "NulByte"
       [] HasComponent(path, "/") -> "Absolute"
       [] HasComponent(path, "..") /\ ~HasComponent(path, "/") -> "ParentDir"
       [] OTHER -> CASE root = "none" -> "Io"
                     [] root # "none" /\ e = Nothing -> "NotFound"
                     [] root # "none" /\ e # Nothing /\ e.dir \notin Below(root) -> "NotInRoot"
                     [] OTHER -> "ok"

\* resolve_within_root. The root is canonicalized first: the links that are
\* refused are those that lead out of what the templates directory leads to.
ResolveWithin(dir, path) ==
  LET root == CanonicalRoot(dir)
      e == Walk(root, path)
  IN CASE HasComponent(path, "nul") -> "NulByte"
       [] HasComponent(path, "/") -> "Absolute"
       [] HasComponent(path, "..") /\ ~HasComponent(path, "/") -> "ParentDir"
       [] OTHER -> CASE root = "none" -> "Io"
                     [] root # "none" /\ e = Nothing -> "NotFound"
                     [] root # "none" /\ e # Nothing /\ e.dir \notin Below(root) -> "NotInRoot"
                     [] root # "none" /\ e # Nothing /\ e.dir \in Below(root) /\ e.link -> "IsSymlink"
                     [] OTHER -> "ok"

\* The modules a call may be in: the entry; a role and a library; roles whose
\* templates directory is a link, or missing; and a role of more than one
\* level, which load() finds and which has no templates.
TplModules == {"entry", "role", "lib", "linked", "astray", "bare", "nested"}
\* pick_defining_module: the file of the call that is on top of the stack of
\* Starlark, else the module that is being evaluated.
DefiningModule == tplModule
TemplatesDirForModule(module) == IF module \in {"entry", "nested"} THEN "none" ELSE module
\* Bundle::resolve_template: neither '@' at the beginning of the path nor ':'
\* anywhere in it.
ResolveTemplate(module, path) ==
  CASE module = "entry" -> "TemplateFromEntry"
    [] module # "entry" /\ (HasComponent(path, "@") \/ HasComponent(path, "a:b")) -> "PathSafety"
    [] OTHER -> CASE TemplatesDirForModule(module) = "none" -> "UnsupportedModuleForTemplate"
                  [] TemplatesDirForModule(module) # "none" /\ ResolveWithin(module, path) # "ok" -> "PathSafety"
                  [] OTHER -> "ok"

-----------------------------------------------------------------------------
(* The text *)

TemplateError == {"FileNotFound", "Io", "Syntax", "UndefinedVariable", "Render", "PathTraversal"}
\* resolve_path: the same rules again, for the name of the file in its own
\* directory. It is canonical by now, so they have nothing left to refuse.
ResolvePath(f) ==
  CASE f.name \in {"..", "/", "nul"} \/ f.link -> "PathTraversal" [] OTHER -> "ok"

\* The keyword arguments: inv, which is an object or is not, and others.
TplArgs == [inv : {"absent", "object", "scalar"}, key : BOOLEAN]
\* template_fn: inv of the call, or all of its arguments under this name.
InvValue(args) ==
  IF args.inv = "absent" THEN [type |-> "object", key |-> args.key] ELSE [type |-> args.inv, key |-> args.inv = "object"]
\* build_context: the facts are put into inv, if it is an object.
BuildContext(inv) ==
  (IF inv.key THEN {"inv.key"} ELSE {}) \cup (IF inv.type = "object" THEN {"inv.facts"} ELSE {})
\* materialize_facts_json: Unknown is null, a Stale value is as good as any.
MaterializeFact(fact) == IF fact = "Unknown" THEN "null" ELSE "value"
\* classify_error.
ClassifyError(kind) ==
  CASE kind = "SyntaxError" -> "Syntax" [] kind = "UndefinedError" -> "UndefinedVariable" [] OTHER -> "Render"
\* Strict: a variable that is not in the context is an error, null is not.
Minijinja(f, reads, context) ==
  CASE f.name = "bad" -> "SyntaxError"
    [] f.name # "bad" /\ reads \notin context -> "UndefinedError"
    [] OTHER -> "ok"

-----------------------------------------------------------------------------
TplTypeOK ==
  /\ tplModule \in TplModules /\ tplPath \in Paths /\ tplArgs \in TplArgs
  /\ tplPc \in {"resolve", "render", "done"}
  /\ tplResult \in {"none", "value", "null", "TemplateFromEntry", "PathSafety", "UnsupportedModuleForTemplate"} \cup TemplateError

Plain == [inv |-> "object", key |-> TRUE]
TplInit ==
  /\ tplModule \in TplModules /\ tplFile = Nothing /\ tplPc = "resolve" /\ tplResult = "none"
  /\ \/ tplPath \in Paths /\ tplArgs = Plain /\ tplReads = "inv.key" /\ tplFact = "Known"
     \/ /\ tplPath = <<"conf">> /\ tplArgs \in TplArgs /\ tplReads \in {"inv.key", "inv.facts", "key"}
        /\ tplFact \in {"Known", "Stale", "Unknown"}

TplInput == <<tplModule, tplPath, tplArgs, tplReads, tplFact>>
TplEnd(r) == tplPc' = "done" /\ tplResult' = r

\* template() of the glue.
TplResolve ==
  LET r == ResolveTemplate(DefiningModule, tplPath)
  IN /\ tplPc = "resolve"
     /\ IF r = "ok" THEN tplPc' = "render" /\ tplFile' = [Walk(CanonicalRoot(tplModule), tplPath) EXCEPT !.link = FALSE] /\ UNCHANGED tplResult
        ELSE TplEnd(r) /\ UNCHANGED tplFile
     /\ UNCHANGED TplInput
\* render_template.
RenderTemplate ==
  LET context == BuildContext(InvValue(tplArgs))
      outcome == Minijinja(tplFile, tplReads, context)
  IN /\ tplPc = "render" /\ UNCHANGED <<TplInput, tplFile>>
     /\ CASE ResolvePath(tplFile) # "ok" -> TplEnd(ResolvePath(tplFile))
          [] ResolvePath(tplFile) = "ok" /\ (tplFile.type = "dir" \/ tplFile.name = "bin") -> TplEnd("Io")
          [] OTHER -> IF outcome # "ok" THEN TplEnd(ClassifyError(outcome))
                      ELSE TplEnd(IF tplReads = "inv.facts" THEN MaterializeFact(tplFact) ELSE "value")

TplNext == TplResolve \/ RenderTemplate
TplSpec == TplInit /\ [][TplNext]_tplVars

-----------------------------------------------------------------------------
(* Properties *)

Rendered == tplPc = "done" /\ tplResult \in {"value", "null"}
\* The plain files below a directory of templates, by the paths that name them.
FilesBelow == [role |-> {<<"conf">>, <<"d", "conf">>, <<"dself", "conf">>, <<".", "conf">>},
               lib |-> {<<"conf">>, <<".", "conf">>}, outside |-> {<<"conf">>, <<".", "conf">>}]
\* The modules with such a directory.
Templated == {"role", "lib", "linked", "astray"}

\* A text comes from a plain file below the templates directory of the module
\* that holds the call, whoever calls that module; but for a templates directory
\* that is itself a link: resolve_within_root follows it before it checks
\* anything, and the file is below what it leads to, in another module or outside
\* of the bundle. Every plain file there can be named; nothing in the text stands
\* for a variable that the call did not give; and null is there only for a fact
\* that is Unknown.
TemplateRight ==
  /\ Rendered =>
       /\ tplModule \in Templated /\ tplPath \in FilesBelow[CanonicalRoot(tplModule)]
       /\ tplFile.type = "file" /\ tplFile.dir \in Below(CanonicalRoot(tplModule))
       /\ tplReads = "inv.key" => IF tplArgs.inv = "absent" THEN tplArgs.key ELSE tplArgs.inv = "object"
       /\ tplReads = "inv.facts" => tplArgs.inv # "scalar"
       /\ tplReads # "key" /\ (tplResult = "null" => tplFact = "Unknown")
  /\ tplPc = "done" /\ tplModule \in Templated /\ tplPath \in FilesBelow[CanonicalRoot(tplModule)] /\ tplArgs = Plain =>
       (tplReads # "key" <=> Rendered)
=============================================================================
