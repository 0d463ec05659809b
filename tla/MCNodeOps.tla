------------------------------ MODULE MCNodeOps ------------------------------
(***************************************************************************)
(* The parts of bosun that a run uses one at a time, model-checked side by *)
(* side: the evaluation of a manifest, its inventory, its templates and    *)
(* the payloads of its calls; the facts; the primitives for packages,      *)
(* accounts, services, timers, signals and SQL; below them child processes *)
(* and the clients of the two init systems; and bosun status.              *)
(* A behaviour picks one part and the others rest in one state, so that    *)
(* the state spaces add up and do not multiply.                            *)
(***************************************************************************)
EXTENDS AptOps, Accounts, Triggers, Commands, Clients, Facts, PgSql, Payloads, Manifest,
        Inventory, Services, Templates, Status

VARIABLE part

Parts == {"apt", "accounts", "triggers", "commands", "clients", "facts", "pg", "payloads",
          "manifest", "inventory", "services", "templates", "status"}

runVars == <<manVars, invVars, payVars, tplVars>>
partVars == <<aptVars, accVars, trgVars, cmdVars, clVars, factVars, pgVars, svcVars, stVars>>
vars == <<part, partVars, runVars>>

-----------------------------------------------------------------------------
(* A part at rest: one state of it, with nothing to do. *)

AptIdle ==
  /\ aptKind = "key" /\ declared = [kind |-> "key", state |-> "absent", fingerprint |-> FALSE, source |-> "url"]
  /\ aptPayload = declared /\ dpkg = [status |-> "not-installed", version |-> Latest]
  /\ lists = TRUE /\ held = FALSE /\ keyring = Missing /\ served = "expected" /\ cacheAge = Missing /\ debs = {}
  /\ aptPc = "done" /\ aptDiff = "no_change" /\ aptResult = "no_change" /\ ran = NoCommands /\ aptFaults = 0

AccIdle ==
  /\ accName = <<>> /\ accRoot = TRUE /\ first = "user" /\ passwd = NoEntry /\ grp = NoEntry
  /\ userSpec = [state |-> "absent", opts |-> NoCmd.opts] /\ groupSpec = [state |-> "absent", gid |-> Unset]
  /\ accAt = "end" /\ accPc = "plan" /\ accCmd = NoCmd /\ accOutcome = "none" /\ accFaults = 0

TrgIdle ==
  /\ trgKind = "runr.timer" /\ trgSpec = [state |-> "disabled", start_now |-> FALSE]
  /\ unit = [known |-> FALSE, enabled |-> FALSE, active |-> FALSE]
  /\ file = 1 /\ lastRead = 1 /\ reader = TRUE /\ queued = FALSE
  /\ trgPc = "end" /\ trgOutcome = "none" /\ trgFaults = 0

CmdIdle ==
  /\ runner = "exec" /\ entry = AnEntry /\ retry = Default
  /\ child = "none" /\ heir = "none" /\ output = 0 /\ pipe = 0 /\ late = FALSE /\ cancelled = FALSE
  /\ cmdPc = "done" /\ attempt = "none" /\ attempts = 0 /\ verdict = "none"

ClIdle ==
  /\ clKind = "runr" /\ op = "timer_statuses" /\ hasPid = TRUE
  /\ svc = [state |-> "gone", gen |-> 1, restarts |-> 0] /\ snapshot = svc /\ observed = svc
  /\ job = "none" /\ jobEvents = <<>> /\ subscribed = FALSE /\ clLate = FALSE /\ clMute = FALSE
  /\ clPc = "done" /\ clResult = "false" /\ foreign = 0

FactIdle ==
  /\ factName = "hostname" /\ node = CHOOSE n \in NodesOf("hostname") : TRUE
  /\ cache = << >> /\ published = << >> /\ reading = << >>
  /\ factPc = "start" /\ factClock = 0 /\ since = {} /\ known = << >> /\ factEvents = 0

PgIdle ==
  /\ pgSpec = [kind |-> "query", if_not_exists_check |-> FALSE, tolerant |-> TRUE, dsn |-> FALSE, store_as_fact |-> FALSE]
  /\ server = [statement_timeout |-> 0, locked |-> FALSE] /\ present = FALSE /\ pgFaults = 0
  /\ effects = [n \in PgNodes |-> 0] /\ stmtAge = effects /\ orphans = effects /\ abandoned = effects
  /\ stage = [n \in PgNodes |-> "end"] /\ session = [n \in PgNodes |-> "closed"]
  /\ pgOutcome = [n \in PgNodes |-> "none"] /\ pgFacts = pgOutcome

PayIdle ==
  /\ callee = <<"service", "unit">> /\ kwargs = << >> /\ payKind = "none" /\ payload = << >>
  /\ payPc = "done" /\ payResult = "none"

InvIdle ==
  /\ mergeMode = "replace" /\ merged = Null /\ overlay = Null /\ before = Null
  /\ mergeError = "none" /\ mergePc = "done"

SvcIdle ==
  /\ svcKind = "runr" /\ svcSpec = ASpec /\ svcName = << >> /\ ctx = BuildCtx(FALSE)
  /\ svcUnit = NotLoaded /\ svcBefore = NotLoaded /\ svcPc = "done" /\ svcReport = "none"
  /\ svcDid = {} /\ svcFault = "none" /\ svcEvents = 0

TplIdle ==
  /\ tplModule = "entry" /\ tplPath = << >> /\ tplArgs = Plain /\ tplReads = "inv.key" /\ tplFact = "Known"
  /\ tplFile = Nothing /\ tplPc = "done" /\ tplResult = "none"

StIdle ==
  /\ stFiles = {} /\ stCorrupt = {} /\ stArgs = [clear |-> {}, clear_all_manual |-> FALSE]
  /\ stPc = "open" /\ stNames = {} /\ stFile = {} /\ stShown = {} /\ stExit = StOk
  /\ stHeld = {} /\ stOld = {} /\ stRemoved = {} /\ stEvents = 0

-----------------------------------------------------------------------------
Init ==
  /\ part \in Parts
  /\ IF part = "apt" THEN AptInit ELSE AptIdle
  /\ IF part = "accounts" THEN AccInit ELSE AccIdle
  /\ IF part = "triggers" THEN TrgInit ELSE TrgIdle
  /\ IF part = "commands" THEN CmdInit ELSE CmdIdle
  /\ IF part = "clients" THEN ClInit ELSE ClIdle
  /\ IF part = "facts" THEN FactInit ELSE FactIdle
  /\ IF part = "pg" THEN PgInit ELSE PgIdle
  /\ IF part = "payloads" THEN PayInit ELSE PayIdle
  /\ ManInit
  /\ IF part = "inventory" THEN InvInit ELSE InvIdle
  /\ IF part = "services" THEN SvcInit ELSE SvcIdle
  /\ IF part = "templates" THEN TplInit ELSE TplIdle
  /\ IF part = "status" THEN StInit ELSE StIdle

\* A step of one part leaves every other part as it is.
OnlyApt == part = "apt" /\ UNCHANGED <<part, accVars, trgVars, cmdVars, clVars, factVars, pgVars, svcVars, stVars, runVars>>
OnlyAcc == part = "accounts" /\ UNCHANGED <<part, aptVars, trgVars, cmdVars, clVars, factVars, pgVars, svcVars, stVars, runVars>>
OnlyTrg == part = "triggers" /\ UNCHANGED <<part, aptVars, accVars, cmdVars, clVars, factVars, pgVars, svcVars, stVars, runVars>>
OnlyCmd == part = "commands" /\ UNCHANGED <<part, aptVars, accVars, trgVars, clVars, factVars, pgVars, svcVars, stVars, runVars>>
OnlyCl == part = "clients" /\ UNCHANGED <<part, aptVars, accVars, trgVars, cmdVars, factVars, pgVars, svcVars, stVars, runVars>>
OnlyFact == part = "facts" /\ UNCHANGED <<part, aptVars, accVars, trgVars, cmdVars, clVars, pgVars, svcVars, stVars, runVars>>
OnlyPg == part = "pg" /\ UNCHANGED <<part, aptVars, accVars, trgVars, cmdVars, clVars, factVars, svcVars, stVars, runVars>>
OnlySvc == part = "services" /\ UNCHANGED <<part, aptVars, accVars, trgVars, cmdVars, clVars, factVars, pgVars, stVars, runVars>>
OnlySt == part = "status" /\ UNCHANGED <<part, aptVars, accVars, trgVars, cmdVars, clVars, factVars, pgVars, svcVars, runVars>>
OnlyPay == part = "payloads" /\ UNCHANGED <<part, partVars, manVars, invVars, tplVars>>
OnlyMan == part = "manifest" /\ UNCHANGED <<part, partVars, payVars, invVars, tplVars>>
OnlyInv == part = "inventory" /\ UNCHANGED <<part, partVars, payVars, manVars, tplVars>>
OnlyTpl == part = "templates" /\ UNCHANGED <<part, partVars, payVars, manVars, invVars>>

Next ==
  \/ OnlyApt /\ AptNext
  \/ OnlyAcc /\ AccNext
  \/ OnlyTrg /\ TrgNext
  \/ OnlyCmd /\ CmdNext
  \/ OnlyCl /\ ClNext
  \/ OnlyFact /\ FactNext
  \/ OnlyPg /\ PgNext
  \/ OnlyPay /\ PayNext
  \/ OnlyMan /\ ManNext
  \/ OnlyInv /\ InvNext
  \/ OnlySvc /\ SvcNext
  \/ OnlyTpl /\ TplNext
  \/ OnlySt /\ StNext

\* The fairness of the parts: bosun itself goes on; the clock runs, a lock is
\* released, the journal is replayed; a child writes what it has to write.
Fairness ==
  /\ WF_aptVars(part = "apt" /\ AptStep) /\ WF_aptVars(part = "apt" /\ ReleaseDpkgLock)
  /\ WF_accVars(part = "accounts" /\ AccStep)
  /\ WF_trgVars(part = "triggers" /\ TrgStep) /\ WF_trgVars(part = "triggers" /\ ReplaySignal)
  /\ WF_cmdVars(part = "commands" /\ CmdStep) /\ WF_cmdVars(part = "commands" /\ TimePasses)
  /\ WF_cmdVars(part = "commands" /\ ChildWrites)
  /\ WF_clVars(part = "clients" /\ ClStep) /\ WF_clVars(part = "clients" /\ ClockRuns)
  /\ WF_pgVars(part = "pg" /\ Unlock)
  /\ \A n \in PgNodes : WF_pgVars(part = "pg" /\ PgStep(n))
Spec == Init /\ [][Next]_vars /\ Fairness

-----------------------------------------------------------------------------
\* Once failures and foreign changes stop, the runs that the timer starts bring
\* the node to what is declared and keep it there, whatever interrupted them: a
\* package, a user and its group, a timer, a signalled process, a database
\* object; and a package cache, which grows old, is fresh again and again.
NodeConverges ==
  \/ <>[](AptSettled /\ aptPayload.kind # "cache" /\ AccSettled /\ TrgSettled /\ PgSettled)
  \/ []<>AptRenewed

\* Every call returns: of a child that hangs, or is stuck on a full pipe, which
\* is killed; of systemd with the event of the job lost; of a runr that does
\* nothing. Two things hold a call for as long as they last: a process that
\* inherited the pipe and keeps it, and a bus or a systemd that does not answer,
\* since only the wait for the event of a job has a timeout.
CallsReturn == \/ []<>(heir \in {"grouped", "daemon"})
               \/ []<>(clMute /\ clPc \in CallsOfBus)
               \/ <>[](cmdPc = "done" /\ clPc = "done")
=============================================================================
