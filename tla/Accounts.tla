------------------------------ MODULE Accounts ------------------------------
(***************************************************************************)
(* users.group and users.user: a run plans and applies one group and one   *)
(* user in the order of their dependency.  Apply looks the entry up,       *)
(* decides, and runs one of the six tools; between the lookup and the tool *)
(* the databases belong to everybody.                                      *)
(*                                                                         *)
(* A field has one of two values.  For the primary group, 1 is the group   *)
(* that the other resource manages, 2 a group that always exists and 0 a   *)
(* gid without a name.                                                     *)
(***************************************************************************)
EXTENDS Naturals, Sequences

CONSTANTS
  AccountFields,        \* the fields of an account in play, a subset of FieldDiff
  NoEntry,       \* getpwnam or getgrnam finds nothing
  Unset,         \* an argument the manifest does not give
  MaxNameLen,    \* 32 in the source
  MaxAccFaults   \* bound: failures and foreign changes in a behaviour

FieldDiff == {"uid", "group", "shell", "home", "comment"}
AccValue == {1, 2}

ASSUME AccountsAssumption ==
  /\ AccountFields \subseteq FieldDiff /\ "group" \in AccountFields
  /\ NoEntry \notin Nat /\ Unset \notin Nat /\ NoEntry \notin [AccountFields -> 0..2]
  /\ MaxNameLen \in Nat \ {0} /\ MaxAccFaults \in Nat

VARIABLES
  accName,    \* the name both resources have, as classes of characters
  accRoot,    \* bosun runs as root
  userSpec, groupSpec,   \* the two specs
  first,      \* the resource the other depends on
  passwd,     \* the user's entry: a value per field, or NoEntry
  grp,        \* the group's gid, or NoEntry
  accAt,      \* the resource at work, or "end" of the run
  accPc,      \* "plan", "lookup" or "exec"
  accCmd,     \* the command that apply decided on
  accOutcome, \* how the last resource ended
  accFaults

accSpecs == <<accName, accRoot, userSpec, groupSpec, first>>
accVars == <<accSpecs, passwd, grp, accAt, accPc, accCmd, accOutcome, accFaults>>

-----------------------------------------------------------------------------
UserState == {"present", "absent"}
UserSpec == [state : UserState, opts : [AccountFields -> AccValue \cup {Unset}]]
GroupSpec == [state : UserState, gid : AccValue \cup {Unset}]

UserInfo == {u \in [AccountFields -> 0..2] : \A f \in AccountFields \ {"group"} : u[f] # 0}

\* The names useradd and groupadd take; the two functions are alike.
ValidateUserName(name) ==
  /\ name # <<>> /\ Len(name) <= MaxNameLen
  /\ name[1] \in {"lower", "underscore"}
  /\ \A i \in 2..Len(name) : name[i] \in {"lower", "digit", "underscore", "hyphen"}
ValidateGroupName(name) == ValidateUserName(name)

NoCmd == [tool |-> "none", opts |-> [f \in AccountFields |-> Unset]]
Tools == {"none", "useradd", "usermod", "userdel", "groupadd", "groupmod", "groupdel"}

AccTypeOK ==
  /\ accName \in Seq({"lower", "digit", "underscore", "hyphen", "other"})
  /\ accRoot \in BOOLEAN /\ userSpec \in UserSpec /\ groupSpec \in GroupSpec
  /\ first \in {"user", "group"}
  /\ passwd \in UserInfo \cup {NoEntry} /\ grp \in AccValue \cup {NoEntry}
  /\ accAt \in {"user", "group", "end"} /\ accPc \in {"plan", "lookup", "exec"}
  /\ accCmd \in [tool : Tools, opts : [AccountFields -> AccValue \cup {Unset}]]
  /\ accOutcome \in {"none", "no_change", "changed", "Apply", "Exec", "InvalidPayload"}
  /\ accFaults \in 0..MaxAccFaults

\* The primary group's name: from_gid finds none for a group that is gone.
GroupResolves(u) == u["group"] = 1 => grp # NoEntry
LookupUser ==
  IF passwd = NoEntry THEN NoEntry
  ELSE [passwd EXCEPT !["group"] = IF GroupResolves(passwd) THEN @ ELSE 0]
LookupGroup == grp

AccInit ==
  /\ userSpec \in UserSpec /\ groupSpec \in GroupSpec /\ first \in {"user", "group"}
  /\ \/ accRoot = TRUE /\ accName = <<"lower", "digit">>
     \/ /\ groupSpec = [state |-> "present", gid |-> Unset] /\ first = "group"
        /\ userSpec.opts = [f \in AccountFields |-> Unset]
        /\ \/ accRoot = FALSE /\ accName = <<"underscore", "hyphen">>
           \/ accRoot = TRUE /\ accName \in {<<>>, <<"digit">>, <<"lower", "other">>,
                                             [i \in 1..(MaxNameLen + 1) |-> "lower"]}
  /\ passwd \in {NoEntry} \cup {u \in UserInfo : \A f \in AccountFields : u[f] = 1}
  /\ grp \in {NoEntry, 1} /\ (passwd # NoEntry => grp # NoEntry)
  /\ accAt = first /\ accPc = "plan" /\ accCmd = NoCmd
  /\ accOutcome = "none" /\ accFaults = 0

-----------------------------------------------------------------------------
(* Errors *)

UsersError == {"Lookup", "ToolNotFound", "Exec", "NotRoot", "InvalidName"}
UsersErrorToPrimitive(err) ==
  CASE err = "Exec" -> "Exec" [] err = "InvalidName" -> "InvalidPayload" [] OTHER -> "Apply"
UsersErrors == {UsersErrorToPrimitive(err) : err \in UsersError}

-----------------------------------------------------------------------------
AccFault == accFaults < MaxAccFaults /\ accFaults' = accFaults + 1
Second == IF first = "user" THEN "group" ELSE "user"

\* A failed resource ends the run; after the other one the run ends as well.
AccEnd(outcome) ==
  /\ accOutcome' = outcome /\ accCmd' = NoCmd /\ accPc' = "plan"
  /\ accAt' = IF outcome \in UsersErrors \/ accAt = Second THEN "end" ELSE Second

\* compute_diff of both: the name is checked, the lookup is left to apply and
\* the diff is always Update.
AccPlan(valid) ==
  /\ accPc = "plan"
  /\ IF valid THEN accPc' = "lookup" /\ UNCHANGED <<accAt, accCmd, accOutcome>>
     ELSE AccEnd(UsersErrorToPrimitive("InvalidName"))
  /\ UNCHANGED <<accSpecs, passwd, grp, accFaults>>
PlanUser == accAt = "user" /\ AccPlan(ValidateUserName(accName))
PlanGroup == accAt = "group" /\ AccPlan(ValidateGroupName(accName))

CollectDiffs(spec, info) == {f \in AccountFields : spec.opts[f] # Unset /\ spec.opts[f] # info[f]}

\* Mutant: a user that exists is taken for one that is as declared.
DecideActionUser_ExistsIsEnough(spec, current) ==
  CASE spec.state = "present" /\ current = NoEntry -> "Create"
    [] spec.state = "absent" /\ current # NoEntry -> "Delete"
    [] OTHER -> "NoChange"

DecideActionUser(spec, current) ==
  CASE spec.state = "present" /\ current = NoEntry -> "Create"
    [] spec.state = "present" /\ current # NoEntry ->
         IF CollectDiffs(spec, current) = {} THEN "NoChange" ELSE "Update"
    [] spec.state = "absent" /\ current # NoEntry -> "Delete"
    [] OTHER -> "NoChange"

DecideActionGroup(spec, current) ==
  CASE spec.state = "present" /\ current = NoEntry -> "Create"
    [] spec.state = "present" /\ current # NoEntry ->
         IF spec.gid \in {Unset, current} THEN "NoChange" ELSE "Update"
    [] spec.state = "absent" /\ current # NoEntry -> "Delete"
    [] OTHER -> "NoChange"

\* Mutant: every field goes to usermod, a field not declared with its default.
BuildUsermodOpts_Defaults(spec, diffs) ==
  [f \in AccountFields |-> IF spec.opts[f] = Unset THEN 2 ELSE spec.opts[f]]

BuildUsermodOpts(spec, diffs) ==
  [f \in AccountFields |-> IF f \in diffs THEN spec.opts[f] ELSE Unset]

\* The argument vectors: the options that are given, and nothing else.
UseraddArgv(spec) == [tool |-> "useradd", opts |-> spec.opts]
UsermodArgv(spec, info) ==
  [tool |-> "usermod", opts |-> BuildUsermodOpts(spec, CollectDiffs(spec, info))]
UserdelArgv == [NoCmd EXCEPT !.tool = "userdel"]
GroupOpts(spec) == [f \in AccountFields |-> IF f = "group" THEN spec.gid ELSE Unset]
GroupaddArgv(spec) == [tool |-> "groupadd", opts |-> GroupOpts(spec)]
GroupmodArgv(spec) == [tool |-> "groupmod", opts |-> GroupOpts(spec)]
GroupdelArgv == [NoCmd EXCEPT !.tool = "groupdel"]

\* run up to the command: the name once more, the lookup, the decision.
RunUser ==
  /\ accAt = "user" /\ accPc = "lookup"
  /\ LET current == LookupUser
         action == DecideActionUser(userSpec, current)
     IN IF action = "NoChange" THEN AccEnd("no_change")
        ELSE /\ accCmd' = CASE action = "Create" -> UseraddArgv(userSpec)
                            [] action = "Update" -> UsermodArgv(userSpec, current)
                            [] OTHER -> UserdelArgv
             /\ accPc' = "exec" /\ UNCHANGED <<accAt, accOutcome>>
  /\ UNCHANGED <<accSpecs, passwd, grp, accFaults>>

RunGroup ==
  /\ accAt = "group" /\ accPc = "lookup"
  /\ LET action == DecideActionGroup(groupSpec, LookupGroup)
     IN IF action = "NoChange" THEN AccEnd("no_change")
        ELSE /\ accCmd' = CASE action = "Create" -> GroupaddArgv(groupSpec)
                            [] action = "Update" -> GroupmodArgv(groupSpec)
                            [] OTHER -> GroupdelArgv
             /\ accPc' = "exec" /\ UNCHANGED <<accAt, accOutcome>>
  /\ UNCHANGED <<accSpecs, passwd, grp, accFaults>>

\* getpwnam or getgrnam fails: UsersError::Lookup.
LookupFails ==
  /\ accPc = "lookup" /\ AccFault /\ AccEnd(UsersErrorToPrimitive("Lookup"))
  /\ UNCHANGED <<accSpecs, passwd, grp>>

RequireRoot == accRoot

\* The tools as the code uses them.  A refusal is an exit code other than 0.
GroupGiven(opts) == opts["group"] = 1 => grp # NoEntry
Refuses(cmd) ==
  CASE cmd.tool = "useradd" -> passwd # NoEntry \/ ~GroupGiven(cmd.opts)
    [] cmd.tool = "usermod" -> passwd = NoEntry \/ ~GroupGiven(cmd.opts)
    [] cmd.tool = "userdel" -> passwd = NoEntry
    [] cmd.tool = "groupadd" -> grp # NoEntry
    [] cmd.tool = "groupmod" -> grp = NoEntry
    [] OTHER -> grp = NoEntry \/ (passwd # NoEntry /\ passwd["group"] = 1)

\* What a field that is not given becomes when the account is created.
DefaultOf(f) == IF f = "group" THEN {2} ELSE AccValue
ToolWrites(cmd) ==
  CASE cmd.tool = "useradd" ->
         /\ passwd' \in {u \in UserInfo : \A f \in AccountFields :
                           IF cmd.opts[f] # Unset THEN u[f] = cmd.opts[f] ELSE u[f] \in DefaultOf(f)}
         /\ UNCHANGED grp
    [] cmd.tool = "usermod" ->
         /\ passwd' = [f \in AccountFields |-> IF cmd.opts[f] # Unset THEN cmd.opts[f] ELSE passwd[f]]
         /\ UNCHANGED grp
    [] cmd.tool = "userdel" -> passwd' = NoEntry /\ UNCHANGED grp
    [] cmd.tool \in {"groupadd", "groupmod"} ->
         /\ grp' \in IF cmd.opts["group"] = Unset THEN AccValue ELSE {cmd.opts["group"]}
         /\ UNCHANGED passwd
    [] OTHER -> grp' = NoEntry /\ UNCHANGED passwd

\* require_root and run_command: not root, no such tool, cannot be started,
\* a refusal and any other exit code fail the resource and change nothing.
RunCommand ==
  /\ accPc = "exec"
  /\ IF RequireRoot /\ ~Refuses(accCmd)
       THEN ToolWrites(accCmd) /\ AccEnd("changed")
       ELSE /\ AccEnd(UsersErrorToPrimitive(IF RequireRoot THEN "Exec" ELSE "NotRoot"))
            /\ UNCHANGED <<passwd, grp>>
  /\ UNCHANGED <<accSpecs, accFaults>>

\* The tool is not there, or ends with another code than 0.
CommandFails ==
  /\ accPc = "exec" /\ RequireRoot /\ AccFault
  /\ \E err \in {"ToolNotFound", "Exec"} : AccEnd(UsersErrorToPrimitive(err))
  /\ UNCHANGED <<accSpecs, passwd, grp>>

NextAccRun ==
  /\ accAt = "end" /\ accAt' = first /\ accOutcome' = "none"
  /\ UNCHANGED <<accSpecs, passwd, grp, accPc, accCmd, accFaults>>

\* bosun is killed before the command or after it, before it reports.
AccCrash ==
  /\ accPc = "exec" /\ AccFault
  /\ accAt' = "end" /\ accPc' = "plan" /\ accCmd' = NoCmd /\ UNCHANGED accOutcome
  /\ IF RequireRoot /\ ~Refuses(accCmd) THEN ToolWrites(accCmd) ELSE UNCHANGED <<passwd, grp>>
  /\ UNCHANGED accSpecs

OthersEditAccounts ==
  /\ AccFault
  /\ \/ passwd' \in UserInfo \cup {NoEntry} /\ UNCHANGED grp
     \/ grp' \in AccValue \cup {NoEntry} /\ UNCHANGED passwd
  /\ UNCHANGED <<accSpecs, accAt, accPc, accCmd, accOutcome>>

AccStep == PlanUser \/ PlanGroup \/ RunUser \/ RunGroup \/ RunCommand \/ NextAccRun
AccNext == AccStep \/ LookupFails \/ CommandFails \/ AccCrash \/ OthersEditAccounts

\* The timer starts run after run.
AccSpec == AccInit /\ [][AccNext]_accVars /\ WF_accVars(AccStep)

-----------------------------------------------------------------------------
UserSatisfied ==
  IF userSpec.state = "absent" THEN passwd = NoEntry
  ELSE passwd # NoEntry /\ CollectDiffs(userSpec, LookupUser) = {}
GroupSatisfied ==
  IF groupSpec.state = "absent" THEN grp = NoEntry
  ELSE grp # NoEntry /\ groupSpec.gid \in {Unset, grp}

\* Whatever happened between the lookup and the tool, a run gives a field only
\* a declared value, takes an account or a group away only if it is declared
\* absent, and writes what it creates as declared.
AccountFieldsKept ==
  [][(accPc = "exec" /\ accFaults' = accFaults) =>
       /\ (passwd # NoEntry /\ passwd' # NoEntry) =>
            \A f \in AccountFields : passwd'[f] \in {passwd[f], userSpec.opts[f]}
       /\ (passwd # NoEntry /\ passwd' = NoEntry) => userSpec.state = "absent"
       /\ (passwd = NoEntry /\ passwd' # NoEntry) => UserSatisfied'
       /\ (grp # NoEntry /\ grp' = NoEntry) => groupSpec.state = "absent"
       /\ (grp' # grp /\ grp' # NoEntry) => grp' = groupSpec.gid \/ grp = NoEntry]_accVars

\* What a group and its user, in the order of their dependency, come to once
\* failures and foreign changes stop: as declared, and no run starts a tool.
AccSettled ==
  (/\ ValidateUserName(accName) /\ accRoot
   /\ groupSpec.state = userSpec.state
   /\ first = IF groupSpec.state = "present" THEN "group" ELSE "user")
    => UserSatisfied /\ GroupSatisfied /\ accCmd.tool = "none"
=============================================================================
