------------------------------- MODULE Payloads -------------------------------
(***************************************************************************)
(* The way of one call of a manifest into a payload and out of it again:   *)
(* the values of Starlark become ArgValues, build_payload of the primitive *)
(* reads the keyword arguments it knows, the payload waits in the registry *)
(* and the plan deserializes it as the Spec of the primitive.              *)
(*                                                                         *)
(* build_payload and Spec are two tables kept by hand, for 18 primitives.  *)
(* A value is abstracted to its type, to whether it is a word that the     *)
(* enumerations and name checks know, and to the range it is in.           *)
(***************************************************************************)
EXTENDS Naturals, FiniteSets

CONSTANTS MaxChanged   \* bound: the arguments of a call that are not as they should be

ASSUME PayloadsAssumption == MaxChanged \in Nat

VARIABLES
  callee,     \* the function: a namespace and a name in it
  kwargs,     \* the arguments: a function from names to values
  payKind,    \* the kind it resolves to
  payload,    \* the payload: a function from fields to JSON types
  payPc, payResult

payVars == <<callee, kwargs, payKind, payload, payPc, payResult>>

-----------------------------------------------------------------------------
(* ArgValue *)

\* "BadStr" is a string that is none of the words of an enumeration and no
\* name or path; "BigInt" does not fit u16 and "Other" not i32; an empty list
\* is a list of handles.
StarlarkValues == {"Str", "BadStr", "Int", "BigInt", "NegInt", "LongInt", "Bool", "Handles", "EmptyList",
                   "Strings", "Mixed", "None"}
ValueToArg(v) ==
  CASE v \in {"Handles", "EmptyList"} -> "HandleList"
    [] v = "LongInt" -> "Other"
    [] OTHER -> v

CallArgsError == {"Missing", "WrongType", "OutOfRange"}

\* How build_payload reads an argument: its type, what stands for one that is
\* not given, and whether the words are checked.
Reader(type, unset) == [type |-> type, unset |-> unset, checked |-> FALSE]
Str == Reader("str", "Missing")
Word == [Str EXCEPT !.checked = TRUE]
OptStr == Reader("str", "null")
OptU32 == Reader("u32", "null")
OptList == Reader("str_list", "null")
DefaultStr == Reader("str", "string")
DefaultU32 == Reader("u32", "number")
DefaultBool == Reader("bool", "bool")
DefaultList == Reader("str_list", "array")

\* required_str and optional_str: None is not a string.
ReadStr(r, v) == CASE v = "Str" -> "string"
                   [] v = "BadStr" -> IF r.checked THEN "WrongType" ELSE "bad string"
                   [] OTHER -> "WrongType"
\* optional_u32.
ReadU32(v) == CASE v = "Int" -> "number" [] v = "BigInt" -> "big number" [] v = "NegInt" -> "OutOfRange"
                [] OTHER -> "WrongType"
\* optional_u64: the size of the contents is a number that the glue puts in.
ReadU64(v) == ReadU32(v)
ReadBool(v) == IF v = "Bool" THEN "bool" ELSE "WrongType"
\* optional_str_list: None is as good as nothing.
ReadStrList(r, v) == CASE v = "Strings" -> "array" [] v = "None" -> r.unset [] OTHER -> "WrongType"
\* optional_handle_list.
ReadHandleList(v) == IF v = "HandleList" THEN "handles" ELSE "WrongType"

Read(r, name) ==
  IF name \notin DOMAIN kwargs THEN r.unset
  ELSE LET v == ValueToArg(kwargs[name])
       IN CASE r.type = "str" -> ReadStr(r, v)
            [] r.type = "u32" -> ReadU32(v)
            [] r.type = "u64" -> ReadU64(v)
            [] r.type = "bool" -> ReadBool(v)
            [] r.type = "str_list" -> ReadStrList(r, v)

-----------------------------------------------------------------------------
(* build_payload of the primitives *)

\* The contents are taken out of the call before, and their hash and their size
\* put in.
ExtractSensitiveContents == Str
BuildFileContent ==
  [path |-> Str, contents |-> ExtractSensitiveContents, mode |-> DefaultU32, owner |-> OptStr, group |-> OptStr, validate_with |-> OptList]
BuildFileDelete == [path |-> Str, recursive |-> DefaultBool, follow_symlinks |-> DefaultBool]
BuildFileSymlink == [path |-> Str, target |-> Str, state |-> DefaultStr, force |-> DefaultBool]
BuildCertTls ==
  [cert_path |-> Str, key_path |-> Str, common_name |-> Str, algorithm |-> DefaultStr, days_valid |-> DefaultU32,
   renew_before_days |-> DefaultU32, owner |-> OptStr, group |-> OptStr, mode_cert |-> DefaultU32,
   mode_key |-> DefaultU32, subject_alt_names |-> DefaultList]

\* Mutant: an enable that is not given is null.
BuildSystemdService_EnableNull ==
  [name |-> Str, state |-> Word, enable |-> Reader("bool", "null"), validate_with |-> OptList]

BuildSystemdService == [name |-> Str, state |-> Word, enable |-> DefaultBool, validate_with |-> OptList]
BuildRunrService == [name |-> Str, state |-> Word, enable |-> DefaultBool, validate_with |-> OptList]
BuildSystemdTimer == [name |-> Str, state |-> Word, enable |-> DefaultBool]
BuildRunrTimer == [name |-> Str, state |-> Word, start_now |-> DefaultBool]
BuildRunrCgroup == [name |-> Str, state |-> Word]
BuildAptKey ==
  LET Maybe == Reader("str", "absent")
  IN [name |-> Str, state |-> Str, url |-> Maybe, key_data |-> Maybe, fingerprint |-> Maybe, keyring_path |-> Maybe]
BuildAptPackage ==
  [name |-> Str, version |-> OptStr, timeout_sec |-> DefaultU32, allow_downgrade |-> DefaultBool,
   allow_change_held |-> DefaultBool]
BuildAptUpdateCache ==
  [name |-> Str, max_age_sec |-> DefaultU32, force |-> DefaultBool, cleanup_old_debs_days |-> DefaultU32,
   skip_cleanup |-> DefaultBool]
BuildUsersUser ==
  [name |-> Str, state |-> Word, uid |-> OptU32, group |-> OptStr, shell |-> OptStr, home |-> OptStr,
   no_create_home |-> DefaultBool, system |-> DefaultBool, comment |-> OptStr]
BuildUsersGroup == [name |-> Str, state |-> Word, gid |-> OptU32, system |-> DefaultBool]

BuildPgSqlExec == [name |-> Str, dsn |-> Str, sql |-> Str, if_not_exists_check |-> OptStr, timeout_sec |-> OptU32]
BuildPgSqlQuery == [name |-> Str, dsn |-> Str, sql |-> Str, timeout_sec |-> OptU32, store_as_fact |-> OptStr]
BuildProcessSignal ==
  [name |-> Str, signal |-> Str, process_name |-> OptStr, process_user |-> OptStr, deferred |-> DefaultBool]
BuildSysctlReload == [name |-> Str, path |-> Str]

ServiceKinds == {"systemd.service", "runr.service"}
Readers(kind) ==
  CASE kind = "file.content" -> BuildFileContent [] kind = "file.delete" -> BuildFileDelete
    [] kind = "file.symlink" -> BuildFileSymlink [] kind = "cert.tls" -> BuildCertTls
    [] kind = "systemd.service" -> BuildSystemdService [] kind = "runr.service" -> BuildRunrService
    [] kind = "systemd.timer" -> BuildSystemdTimer [] kind = "runr.timer" -> BuildRunrTimer
    [] kind = "runr.cgroup" -> BuildRunrCgroup [] kind = "apt.key" -> BuildAptKey
    [] kind = "apt.package" -> BuildAptPackage [] kind = "apt.update_cache" -> BuildAptUpdateCache
    [] kind = "users.user" -> BuildUsersUser [] kind = "users.group" -> BuildUsersGroup
    [] kind = "pg_sql.exec" -> BuildPgSqlExec [] kind = "pg_sql.query" -> BuildPgSqlQuery
    [] kind = "process.signal" -> BuildProcessSignal [] kind = "sysctl.reload" -> BuildSysctlReload

\* build_primitives: what register_primitive_call finds.
PrimitiveKinds ==
  {"apt.key", "apt.package", "apt.update_cache", "cert.tls", "file.content", "file.delete", "file.symlink",
   "runr.service", "runr.timer", "runr.cgroup", "systemd.service", "systemd.timer", "pg_sql.exec",
   "pg_sql.query", "process.signal", "sysctl.reload", "users.user", "users.group"}

\* The six arguments of a health check make one field.
HealthArgs == [health_check_cmd |-> OptList, health_check_url |-> OptStr, health_check_expected_status |-> OptU32,
               health_check_retry |-> OptU32, health_check_retry_interval_sec |-> OptU32,
               health_check_timeout_sec |-> OptU32]
ReadHealthCheck ==
  LET got == [a \in DOMAIN HealthArgs |-> Read(HealthArgs[a], a)]
      cmd == got.health_check_cmd # "null"
      url == got.health_check_url # "null"
  IN IF \E a \in DOMAIN got : got[a] \in CallArgsError THEN "WrongType"
     ELSE IF cmd /\ url THEN "WrongType"
     ELSE IF url /\ got.health_check_expected_status = "big number" THEN "OutOfRange"
     ELSE IF cmd \/ url THEN "object" ELSE "null"
BuildHealthCheckSystemd == ReadHealthCheck
BuildHealthCheckRunr == ReadHealthCheck

Fields(kind) == DOMAIN Readers(kind) \cup IF kind \in ServiceKinds THEN {"health_check"} ELSE {}
BuildPayload(kind) ==
  [f \in Fields(kind) |->
     IF f # "health_check" THEN Read(Readers(kind)[f], f)
     ELSE IF kind = "systemd.service" THEN BuildHealthCheckSystemd ELSE BuildHealthCheckRunr]

IdentityKeys(kind) ==
  CASE kind = "cert.tls" -> "cert_path"
    [] kind \in {"file.content", "file.delete", "file.symlink"} -> "path"
    [] OTHER -> "name"
Links == {"reload_on", "restart_on", "depends_on"}

-----------------------------------------------------------------------------
(* The namespaces of a manifest: the kind that each function registers *)

AptNamespace == [package |-> "apt.package", update_cache |-> "apt.update_cache", key |-> "apt.key"]
FileNamespace == [content |-> "file.content", delete |-> "file.delete", symlink |-> "file.symlink"]
CertNamespace == [tls |-> "cert.tls"]
PgSqlNamespace == [exec |-> "pg_sql.exec", query |-> "pg_sql.query"]
UsersNamespace == [user |-> "users.user", group |-> "users.group"]
RunrNamespace == [service |-> "runr.service", timer |-> "runr.timer", cgroup |-> "runr.cgroup"]
SystemdNamespace == [service |-> "systemd.service", timer |-> "systemd.timer"]
ProcessNamespace == [signal |-> "process.signal"]
SysctlNamespace == [reload |-> "sysctl.reload"]
\* The kind is found later, by the init system.
ServiceNamespace == [unit |-> "service.unit"]

BuildGlobals ==
  [apt |-> AptNamespace, cert |-> CertNamespace, file |-> FileNamespace, pg_sql |-> PgSqlNamespace,
   service |-> ServiceNamespace, process |-> ProcessNamespace, sysctl |-> SysctlNamespace, users |-> UsersNamespace,
   runr |-> RunrNamespace, systemd |-> SystemdNamespace]
GlobalFunctions == UNION {{<<ns, f>> : f \in DOMAIN BuildGlobals[ns]} : ns \in DOMAIN BuildGlobals}
Registers(f) == BuildGlobals[f[1]][f[2]]

-----------------------------------------------------------------------------
(* The Specs: the JSON type of a field, and whether it may be null (Option)
   or missing (Option or serde(default)); "word" where the plan refuses a
   string that is no word, name or path. *)

Field(json, null, missing) == [json |-> json, null |-> null, missing |-> missing]
Must(json) == Field(json, FALSE, FALSE)
Option(json) == Field(json, TRUE, TRUE)
WithDefault(json) == Field(json, FALSE, TRUE)

FileContentFields ==
  [path |-> Must("word"), mode |-> WithDefault("number"), owner |-> Option("string"), group |-> Option("string"),
   contents |-> Must("string"), validate_with |-> Option("array")]
FileDeleteFields == [path |-> Must("word"), recursive |-> WithDefault("bool"), follow_symlinks |-> WithDefault("bool")]
FileSymlinkFields ==
  [path |-> Must("word"), target |-> Must("string"), state |-> WithDefault("word"), force |-> WithDefault("bool")]
CertTlsFields ==
  [cert_path |-> Must("word"), key_path |-> Must("word"), common_name |-> Must("string"),
   algorithm |-> WithDefault("word"), days_valid |-> WithDefault("number"), renew_before_days |-> WithDefault("number"),
   owner |-> Option("string"), group |-> Option("string"), mode_cert |-> WithDefault("number"),
   mode_key |-> WithDefault("number"), subject_alt_names |-> WithDefault("array")]
SystemdServiceFields ==
  [name |-> Must("word"), state |-> Must("word"), enable |-> WithDefault("bool"), health_check |-> Option("object"),
   validate_with |-> Option("array")]
RunrServiceFields ==
  [name |-> Must("word"), state |-> Must("word"), enable |-> WithDefault("bool"), health_check |-> Option("object"),
   validate_with |-> Option("array")]
SystemdTimerFields == [name |-> Must("word"), state |-> Must("word"), enable |-> WithDefault("bool")]
RunrTimerFields == [name |-> Must("string"), state |-> Must("word"), start_now |-> WithDefault("bool")]
RunrCgroupFields == [name |-> Must("string"), state |-> Must("word")]
AptKeyFields ==
  [name |-> Must("string"), state |-> Must("word"), url |-> Option("string"), key_data |-> Option("string"),
   fingerprint |-> Option("string"), keyring_path |-> Option("string")]
AptPackageFields ==
  [name |-> Must("string"), version |-> Option("string"), state |-> WithDefault("word"),
   timeout_sec |-> WithDefault("number"), allow_downgrade |-> WithDefault("bool"),
   allow_change_held |-> WithDefault("bool")]
AptUpdateCacheFields ==
  [name |-> Must("string"), max_age_sec |-> WithDefault("number"), force |-> WithDefault("bool"),
   cleanup_old_debs_days |-> WithDefault("number"), skip_cleanup |-> WithDefault("bool")]
UserFields ==
  [name |-> Must("word"), state |-> Must("word"), uid |-> Option("number"), group |-> Option("string"),
   shell |-> Option("string"), home |-> Option("string"), no_create_home |-> WithDefault("bool"),
   system |-> WithDefault("bool"), comment |-> Option("string")]
GroupFields == [name |-> Must("word"), state |-> Must("word"), gid |-> Option("number"), system |-> WithDefault("bool")]
PgSqlExecFields ==
  [name |-> Must("word"), dsn |-> Must("string"), sql |-> Must("string"), if_not_exists_check |-> Option("string"),
   timeout_sec |-> Option("number")]
PgSqlQueryFields ==
  [name |-> Must("word"), dsn |-> Must("string"), sql |-> Must("string"), timeout_sec |-> Option("number"),
   store_as_fact |-> Option("string")]
ProcessSignalFields ==
  [name |-> Must("word"), signal |-> Must("string"), process_name |-> Option("string"),
   process_user |-> Option("string"), deferred |-> WithDefault("bool")]
SysctlReloadFields == [name |-> Must("string"), path |-> Must("string")]

SpecFields(kind) ==
  CASE kind = "file.content" -> FileContentFields [] kind = "file.delete" -> FileDeleteFields
    [] kind = "file.symlink" -> FileSymlinkFields [] kind = "cert.tls" -> CertTlsFields
    [] kind = "systemd.service" -> SystemdServiceFields [] kind = "runr.service" -> RunrServiceFields
    [] kind = "systemd.timer" -> SystemdTimerFields [] kind = "runr.timer" -> RunrTimerFields
    [] kind = "runr.cgroup" -> RunrCgroupFields [] kind = "apt.key" -> AptKeyFields
    [] kind = "apt.package" -> AptPackageFields [] kind = "apt.update_cache" -> AptUpdateCacheFields
    [] kind = "users.user" -> UserFields [] kind = "users.group" -> GroupFields
    [] kind = "pg_sql.exec" -> PgSqlExecFields [] kind = "pg_sql.query" -> PgSqlQueryFields
    [] kind = "process.signal" -> ProcessSignalFields [] kind = "sysctl.reload" -> SysctlReloadFields

\* serde_json::from_value: fields that the Spec does not have are passed over.
Deserializes(field, json) ==
  CASE json = "absent" -> field.missing
    [] json = "null" -> field.null
    [] json = "bad string" -> field.json = "string"
    [] json = "big number" -> field.json = "number"
    [] OTHER -> json = field.json \/ (json = "string" /\ field.json = "word")
FromValue(kind) ==
  LET spec == SpecFields(kind)
  IN \A f \in DOMAIN spec : Deserializes(spec[f], IF f \in DOMAIN payload THEN payload[f] ELSE "absent")

-----------------------------------------------------------------------------
(* The call and the plan *)

SERVICE_UNIT_ALLOWED_KWARGS == {"name", "state", "enable", "validate_with"} \cup DOMAIN HealthArgs \cup Links

Reads(kind) == DOMAIN Readers(kind) \cup Links \cup IF kind \in ServiceKinds THEN DOMAIN HealthArgs ELSE {}

PayTypeOK ==
  /\ callee \in GlobalFunctions /\ payKind \in PrimitiveKinds \cup {"none"}
  /\ \A a \in DOMAIN kwargs : kwargs[a] \in StarlarkValues
  /\ payPc \in {"dispatch", "call", "plan", "done"}
  /\ payResult \in {"none", "Eval", "InvalidCall", "UnknownPrimitive", "InvalidPayload", "ok"}

\* A value of the right type for every argument.
Right(r) == CASE r.type = "str" -> "Str" [] r.type \in {"u32", "u64"} -> "Int" [] r.type = "bool" -> "Bool" [] OTHER -> "Strings"
Required(kind) == {f \in DOMAIN Readers(kind) : Readers(kind)[f].unset = "Missing"}
\* A call that is right, with some of its arguments left out, added or changed.
CallsOf(kind) ==
  LET base == [f \in Required(kind) |-> Right(Readers(kind)[f])]
      names == (Reads(kind) \cup DOMAIN SpecFields(kind) \cup {"deferred"}) \ {"health_check"}
      Changed(set) == {[a \in ((DOMAIN base \cup set) \ left) |-> IF a \in set THEN new[a] ELSE base[a]] :
                         left \in {{}} \cup {{a} : a \in set}, new \in [set -> StarlarkValues]}
      few == {{a} : a \in names} \cup {{a, b} : a, b \in names \cap DOMAIN HealthArgs}
  IN {base} \cup UNION {Changed(set) : set \in {s \in few : Cardinality(s) <= MaxChanged}}

PayInit ==
  /\ payKind = "none" /\ payload = << >> /\ payResult = "none"
  /\ callee \in GlobalFunctions
  /\ IF Registers(callee) = "service.unit"
     THEN kwargs \in CallsOf("systemd.service") /\ payPc = "dispatch"
     ELSE kwargs \in CallsOf(Registers(callee)) /\ payPc = "call"

\* reject_unexpected_service_unit_kwargs, then resolve_service_unit_kind:
\* the errors are not recorded, so they come out as Eval.
DispatchServiceUnit ==
  /\ payPc = "dispatch"
  /\ \/ /\ DOMAIN kwargs \subseteq SERVICE_UNIT_ALLOWED_KWARGS
        /\ \E kind \in ServiceKinds : payKind' = kind
        /\ payPc' = "call" /\ UNCHANGED payResult
     \/ payResult' = "Eval" /\ payPc' = "done" /\ UNCHANGED payKind
  /\ UNCHANGED <<callee, kwargs, payload>>

\* register_primitive_call: the identity, the payload, then the links.
RegisterCall ==
  LET kind == IF payKind = "none" THEN Registers(callee) ELSE payKind
      built == BuildPayload(kind)
      refused == \/ Read(Str, IdentityKeys(kind)) \in CallArgsError
                 \/ \E f \in DOMAIN built : built[f] \in CallArgsError
                 \/ \E l \in Links \cap DOMAIN kwargs : ReadHandleList(ValueToArg(kwargs[l])) = "WrongType"
  IN /\ payPc = "call" /\ payKind' = kind
     /\ IF kind \notin PrimitiveKinds THEN payResult' = "UnknownPrimitive" /\ payPc' = "done" /\ UNCHANGED payload
        ELSE IF refused THEN payResult' = "InvalidCall" /\ payPc' = "done" /\ UNCHANGED payload
        ELSE payload' = built /\ payPc' = "plan" /\ UNCHANGED payResult
     /\ UNCHANGED <<callee, kwargs>>

\* The plan of the primitive begins with its Spec.
PlanPayload ==
  /\ payPc = "plan" /\ payPc' = "done"
  /\ payResult' = IF FromValue(payKind) THEN "ok" ELSE "InvalidPayload"
  /\ UNCHANGED <<callee, kwargs, payKind, payload>>

PayNext == DispatchServiceUnit \/ RegisterCall \/ PlanPayload
PaySpec == PayInit /\ [][PayNext]_payVars

-----------------------------------------------------------------------------
(* Properties *)

\* Nothing but a word, a name or a path is left for the plan to refuse: a call
\* that evaluation accepts, and whose strings are words, has a payload that
\* the Spec of its primitive takes, with the defaults that were filled in and
\* the nulls that stand for what was not given; and no function of a manifest
\* is without its primitive.
PayloadParses ==
  /\ payResult = "InvalidPayload" => \E a \in DOMAIN kwargs : kwargs[a] = "BadStr"
  /\ payResult # "UnknownPrimitive"

\* A value of Starlark as JSON.
AsJson(v) ==
  CASE v = "Str" -> "string" [] v = "BadStr" -> "bad string" [] v = "Int" -> "number" [] v = "BigInt" -> "big number"
    [] v = "Bool" -> "bool" [] v = "Strings" -> "array" [] OTHER -> "null"
Kept(a) == a \in DOMAIN payload /\ (payload[a] = AsJson(kwargs[a]) \/ kwargs[a] = "None")

\* What the call says is what the plan gets: an argument that the Spec has a
\* field for and that the call gives is in the payload, as it was given. The
\* state of apt.package is the exception: build_payload drops it. And nothing that
\* service.unit lets through is unknown to the kind that it resolves to.
ArgumentsKept ==
  payPc = "plan" =>
    /\ \A a \in DOMAIN kwargs \cap DOMAIN SpecFields(payKind) : <<payKind, a>> # <<"apt.package", "state">> => Kept(a)
    /\ callee = <<"service", "unit">> => DOMAIN kwargs \subseteq Reads(payKind)

\* Both: the call is what the plan works with.
PayloadFaithful == PayloadParses /\ ArgumentsKept
=============================================================================
