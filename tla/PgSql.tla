-------------------------------- MODULE PgSql --------------------------------
(***************************************************************************)
(* pg_sql.exec and pg_sql.query: nodes of a cluster whose runs apply the   *)
(* same resource to the same database, each with a connection of its own   *)
(* for every statement. PostgreSQL is external: a statement takes effect   *)
(* or not, may have to wait for a lock, its answer may be lost, and it may *)
(* outlive the connection that sent it.                                    *)
(***************************************************************************)
EXTENDS Naturals, FiniteSets

CONSTANTS
  PgNodes,      \* the nodes that apply the resource
  PgTimeout,    \* effective_timeout_sec of the resource
  PgMaxAge,     \* bound: how long a statement is watched
  PgMaxFaults,  \* bound: failures of the connections
  PgMaxEffects  \* bound: effects of a statement without a check

ASSUME PgSqlAssumption ==
  /\ IsFiniteSet(PgNodes) /\ PgTimeout \in Nat /\ PgMaxAge \in Nat
  /\ PgMaxFaults \in Nat /\ PgMaxEffects \in Nat

VARIABLES
  pgSpec,     \* the payload
  server,     \* the server: its default statement_timeout, and the lock
  present,    \* the object that the statement makes exists
  effects,    \* history: how often each node's statement took effect
  orphans,    \* the statements of each node that go on without their connection
  abandoned,  \* history: how many such statements each node has left behind
  stage,      \* what each node is doing
  session,    \* its connection: closed, or running a statement
  stmtAge,    \* for how long the statement has been running
  pgOutcome,  \* how its last plan or apply ended
  pgFacts,    \* its published_facts entry: the column of the last row
  pgFaults

pgVars == <<pgSpec, server, present, effects, orphans, abandoned, stage, session, stmtAge, pgOutcome, pgFacts, pgFaults>>

-----------------------------------------------------------------------------
\* The payload, with what its statement does on an object that exists: fail,
\* or take effect again.
PgSqlExecSpec == [kind : {"exec"}, if_not_exists_check : BOOLEAN, tolerant : BOOLEAN, dsn : BOOLEAN, store_as_fact : {FALSE}]
PgSqlQuerySpec == [kind : {"query"}, if_not_exists_check : {FALSE}, tolerant : {TRUE}, dsn : BOOLEAN, store_as_fact : BOOLEAN]
PgSqlError == {"Connect", "Sql", "Timeout", "InvalidDsn"}
PgPrimitiveError == {"Apply", "InvalidPayload"}

PgTypeOK ==
  /\ pgSpec \in PgSqlExecSpec \cup PgSqlQuerySpec
  /\ server \in [statement_timeout : 0..PgMaxAge, locked : BOOLEAN]
  /\ present \in BOOLEAN /\ effects \in [PgNodes -> 0..PgMaxEffects]
  /\ orphans \in [PgNodes -> 0..PgMaxFaults] /\ abandoned \in [PgNodes -> 0..PgMaxFaults]
  /\ stage \in [PgNodes -> {"plan", "re-check", "execute", "query", "end"}]
  /\ session \in [PgNodes -> {"closed", "running"}]
  /\ stmtAge \in [PgNodes -> 0..PgMaxAge]
  /\ pgOutcome \in [PgNodes -> {"none", "no_change", "changed"} \cup PgPrimitiveError]
  /\ pgFacts \in [PgNodes -> {"none", "NULL", "text", "<decode-error>"}]
  /\ pgFaults \in 0..PgMaxFaults

PgInit ==
  /\ pgSpec \in PgSqlExecSpec \cup PgSqlQuerySpec
  /\ server \in [statement_timeout : {0, 1}, locked : BOOLEAN]
  /\ present = FALSE /\ effects = [n \in PgNodes |-> 0]
  /\ orphans = [n \in PgNodes |-> 0] /\ abandoned = [n \in PgNodes |-> 0]
  /\ stage = [n \in PgNodes |-> "plan"] /\ session = [n \in PgNodes |-> "closed"]
  /\ stmtAge = [n \in PgNodes |-> 0] /\ pgOutcome = [n \in PgNodes |-> "none"]
  /\ pgFacts = [n \in PgNodes |-> "none"] /\ pgFaults = 0

-----------------------------------------------------------------------------
(* The backend *)

PgFault == pgFaults < PgMaxFaults /\ pgFaults' = pgFaults + 1

\* Mutant: the payload is built without the check.
HasCheck_Dropped(spec) == FALSE

\* build_payload hands the check over.
HasCheck(spec) == spec.if_not_exists_check

\* A statement of a check only reads.
ReadsOf(n) == stage[n] # "execute"

\* An error of the check, of the statement, and of the query, as an error of the
\* primitive: none of them can be deferred.
MapCheckError(e) == IF e = "InvalidDsn" THEN "InvalidPayload" ELSE "Apply"
MapExecError(e) == CASE e = "InvalidDsn" -> "InvalidPayload" [] e \in {"Connect", "Timeout", "Sql"} -> "Apply"
MapQueryError(e) == CASE e = "InvalidDsn" -> "InvalidPayload" [] e \in {"Connect", "Timeout", "Sql"} -> "Apply"
MapError(n, e) ==
  CASE stage[n] = "plan" -> MapCheckError(e) [] stage[n] \in {"re-check", "execute"} -> MapExecError(e)
    [] OTHER -> MapQueryError(e)

\* How a plan or an apply ends; the run goes on to its next resource.
PgEnd(n, outcome) ==
  /\ pgOutcome' = [pgOutcome EXCEPT ![n] = outcome]
  /\ stage' = [stage EXCEPT ![n] = "end"]
  /\ session' = [session EXCEPT ![n] = "closed"]
  /\ stmtAge' = [stmtAge EXCEPT ![n] = 0]

PgGoto(n, next) ==
  /\ stage' = [stage EXCEPT ![n] = next]
  /\ session' = [session EXCEPT ![n] = "closed"]
  /\ stmtAge' = [stmtAge EXCEPT ![n] = 0]
  /\ UNCHANGED pgOutcome

\* SET LOCAL lasts until the end of the transaction, and the SET is one of its
\* own: the statement runs under the server's default.
ApplyStatementTimeout(timeout) == server.statement_timeout

\* open_client, apply_statement_timeout, and the statement is sent. A plan
\* without a check sends nothing.
OpenClient(n) ==
  /\ stage[n] # "end" /\ session[n] = "closed" /\ (stage[n] = "plan" => HasCheck(pgSpec))
  /\ \/ /\ pgSpec.dsn
        /\ session' = [session EXCEPT ![n] = "running"]
        /\ UNCHANGED <<stage, stmtAge, pgOutcome, pgFaults>>
     \/ ~pgSpec.dsn /\ PgEnd(n, MapError(n, "InvalidDsn")) /\ UNCHANGED pgFaults
     \/ pgSpec.dsn /\ PgFault /\ PgEnd(n, MapError(n, "Connect"))
  /\ UNCHANGED <<pgSpec, server, present, effects, orphans, abandoned, pgFacts>>

\* What postgres-types accepts: an i64 only for INT8, an f64 only for FLOAT8.
ColumnTypes == {"int4", "int8", "text", "null"}
\* value_to_string and decode_owned.
ValueToString(type) ==
  CASE type = "null" -> "NULL"
    [] type \in {"int8", "text"} -> "text"
    [] OTHER -> "<decode-error>"

\* A server error with the code of query_canceled, or anything else.
MapPgError(sqlstate) == IF sqlstate = "57014" THEN "Timeout" ELSE "Sql"
PgFails(n, error) == PgEnd(n, MapError(n, error)) /\ UNCHANGED <<pgSpec, server, present, effects, pgFacts>>

-----------------------------------------------------------------------------
(* pg_sql.exec *)

\* Without a check the diff is always Update, and the apply starts with the
\* statement.
PlanAlways(n) ==
  /\ stage[n] = "plan" /\ pgSpec.kind = "exec" /\ ~HasCheck(pgSpec) /\ PgGoto(n, "execute")
  /\ UNCHANGED <<pgSpec, server, present, effects, orphans, abandoned, pgFacts, pgFaults>>

\* compute_diff with a check: rows mean that there is nothing to do.
PlanCheck(n) ==
  /\ stage[n] = "plan" /\ session[n] = "running"
  /\ IF present THEN PgEnd(n, "no_change") ELSE PgGoto(n, "re-check")
  /\ UNCHANGED <<pgSpec, server, present, effects, orphans, abandoned, pgFacts, pgFaults>>

\* The apply makes the same check again.
ReCheck(n) ==
  /\ stage[n] = "re-check" /\ session[n] = "running"
  /\ IF present THEN PgEnd(n, "no_change") ELSE PgGoto(n, "execute")
  /\ UNCHANGED <<pgSpec, server, present, effects, orphans, abandoned, pgFacts, pgFaults>>

\* batch_execute: all the statements of the payload or none.
Execute(n) ==
  /\ stage[n] = "execute" /\ session[n] = "running" /\ ~server.locked
  /\ IF present /\ ~pgSpec.tolerant
     THEN PgEnd(n, MapExecError("Sql")) /\ UNCHANGED <<present, effects, pgFaults>>
     ELSE /\ effects[n] < PgMaxEffects
          /\ present' = TRUE /\ effects' = [effects EXCEPT ![n] = @ + 1]
          /\ \/ PgEnd(n, "changed") /\ UNCHANGED pgFaults
             \/ PgEnd(n, MapExecError(MapPgError("lost"))) /\ PgFault     \* the answer is lost
  /\ UNCHANGED <<pgSpec, server, orphans, abandoned, pgFacts>>

-----------------------------------------------------------------------------
(* pg_sql.query *)

\* A query is made in every run.
PlanQuery(n) ==
  /\ stage[n] = "plan" /\ pgSpec.kind = "query" /\ PgGoto(n, "query")
  /\ UNCHANGED <<pgSpec, server, present, effects, orphans, abandoned, pgFacts, pgFaults>>

QueryAnswers(n) ==
  /\ stage[n] = "query" /\ session[n] = "running"
  /\ \E type \in ColumnTypes :
       pgFacts' = IF pgSpec.store_as_fact THEN [pgFacts EXCEPT ![n] = ValueToString(type)] ELSE pgFacts
  /\ PgEnd(n, "changed")
  /\ UNCHANGED <<pgSpec, server, present, effects, orphans, abandoned, pgFaults>>

-----------------------------------------------------------------------------
(* The server, and the next run *)

\* The connection is lost before the statement takes effect. The client's side
\* is dropped; if the server has the statement already, its backend goes on.
StatementFails(n) ==
  /\ session[n] = "running" /\ PgFault /\ PgFails(n, MapPgError("lost"))
  /\ \/ UNCHANGED <<orphans, abandoned>>
     \/ /\ ~ReadsOf(n)
        /\ orphans' = [orphans EXCEPT ![n] = @ + 1] /\ abandoned' = [abandoned EXCEPT ![n] = @ + 1]

\* What becomes of such a statement: once it has the lock it takes effect, or
\* it ends without one: by its own error, the server's statement_timeout, or
\* because the backend finds that its client is gone.
OrphanEnds(n) ==
  /\ orphans[n] > 0 /\ orphans' = [orphans EXCEPT ![n] = @ - 1]
  /\ \/ /\ ~server.locked /\ (present => pgSpec.tolerant) /\ effects[n] < PgMaxEffects
        /\ present' = TRUE /\ effects' = [effects EXCEPT ![n] = @ + 1]
     \/ UNCHANGED <<present, effects>>
  /\ UNCHANGED <<pgSpec, server, abandoned, stage, session, stmtAge, pgOutcome, pgFacts, pgFaults>>

\* query_canceled, by the statement_timeout of the server.
StatementCancelled(n) ==
  /\ session[n] = "running"
  /\ ApplyStatementTimeout(PgTimeout) > 0 /\ stmtAge[n] >= ApplyStatementTimeout(PgTimeout)
  /\ PgFails(n, MapPgError("57014")) /\ UNCHANGED <<orphans, abandoned, pgFaults>>

\* A statement that waits for the lock grows older.
StatementWaits(n) ==
  /\ session[n] = "running" /\ server.locked /\ ~ReadsOf(n) /\ stmtAge[n] < PgMaxAge
  /\ server.statement_timeout = 0 \/ stmtAge[n] < server.statement_timeout
  /\ stmtAge' = [stmtAge EXCEPT ![n] = @ + 1]
  /\ UNCHANGED <<pgSpec, server, present, effects, orphans, abandoned, stage, session, pgOutcome, pgFacts, pgFaults>>

Unlock ==
  /\ server.locked /\ server' = [server EXCEPT !.locked = FALSE]
  /\ UNCHANGED <<pgSpec, present, effects, orphans, abandoned, stage, session, stmtAge, pgOutcome, pgFacts, pgFaults>>

\* published_facts lives as long as a run.
NextPgRun(n) ==
  /\ stage[n] = "end" /\ (HasCheck(pgSpec) \/ effects[n] < PgMaxEffects)
  /\ stage' = [stage EXCEPT ![n] = "plan"]
  /\ pgFacts' = [pgFacts EXCEPT ![n] = "none"]
  /\ UNCHANGED <<pgSpec, server, present, effects, orphans, abandoned, session, stmtAge, pgOutcome, pgFaults>>

PgStep(n) ==
  OpenClient(n) \/ PlanAlways(n) \/ PlanQuery(n) \/ PlanCheck(n) \/ ReCheck(n) \/ Execute(n) \/ QueryAnswers(n)
  \/ StatementCancelled(n) \/ NextPgRun(n)

PgNext == \/ \E n \in PgNodes : PgStep(n) \/ StatementFails(n) \/ StatementWaits(n) \/ OrphanEnds(n)
          \/ Unlock

\* A connection makes progress, the timer starts the next run, and whoever
\* has the lock releases it.
PgSpecification ==
  /\ PgInit /\ [][PgNext]_pgVars
  /\ WF_pgVars(Unlock) /\ \A n \in PgNodes : WF_pgVars(PgStep(n))

-----------------------------------------------------------------------------
(* Properties *)

\* With a check, the statement of one node takes effect at most once in all of
\* its runs, whatever other nodes do in between, also when the answer is lost
\* and the apply reported as failed; but for the statements whose connection
\* was lost before they took effect: the server may go on with one of them
\* while the next run finds nothing and executes again, so each allows one
\* effect more. And an apply that reports a change made one. Two nodes may each
\* take effect once: the re-check narrows the window, it does not close it.
PgEffectsOnce ==
  \A n \in PgNodes :
    /\ pgSpec.if_not_exists_check => effects[n] <= 1 + abandoned[n]
    /\ pgOutcome[n] = "changed" /\ pgSpec.kind = "exec" => effects[n] >= 1

\* What the nodes come to with a check and a good dsn, after failures, lost
\* answers and waits for locks: the object exists, and no run changes anything.
PgSettled ==
  pgSpec.if_not_exists_check /\ pgSpec.dsn => present /\ \A n \in PgNodes : pgOutcome[n] = "no_change"
=============================================================================
