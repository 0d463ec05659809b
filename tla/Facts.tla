-------------------------------- MODULE Facts --------------------------------
(***************************************************************************)
(* The fact collector (bosun-facts): the collectors of the catalogue as    *)
(* functions of what they read on the node, the cache that is filled at    *)
(* the start of a run, marked dirty by an apply and refreshed at the next  *)
(* read, and the overlay of the facts that pg_sql.query publishes.         *)
(*                                                                         *)
(* A behaviour is one run, for one fact: no collector reads another's.     *)
(* The tokens of a file are model values or numbers.                       *)
(***************************************************************************)
EXTENDS Integers, SequencesExt

CONSTANTS
  NoToken,          \* a file or a field that is missing or does not parse
  MaxToken,         \* the token `max` of cgroup v2
  UnlimitedBytes,   \* CGROUP_V1_UNLIMITED, scaled down
  MaxFactClock,     \* bound: the clock
  MaxFactEvents     \* bound: applies, foreign changes and panics

ASSUME FactsAssumption ==
  /\ UnlimitedBytes \in Nat /\ MaxFactClock \in Nat /\ MaxFactEvents \in Nat
  /\ NoToken \notin Int /\ MaxToken \notin Int /\ NoToken # MaxToken

VARIABLES
  factName,    \* the fact
  node,        \* what its collector reads
  cache,       \* its CachedFact, a sequence of at most one
  published,   \* its published_facts entry, a sequence of at most one
  factPc,
  reading,     \* what the last get returned, a sequence of at most one
  factClock,
  since,       \* history: what the collector would have said since the last
               \* apply of a trigger, or since the start
  known,       \* history: when the cached value was last seen on the node
  factEvents

factVars == <<factName, node, cache, published, factPc, reading, factClock, since, known, factEvents>>

-----------------------------------------------------------------------------
(* FactValue and RefreshPolicy *)

Known(v) == [tag |-> "Known", value |-> v]
Unknown == [tag |-> "Unknown"]
Stale(v, age) == [tag |-> "Stale", value |-> v, age |-> age]

RefreshPolicy(name) == IF name = "installed_packages" THEN "AtStartAndAfterApply" ELSE "AtStart"
TriggersOf(name) == IF name = "installed_packages" THEN {"apt.package"} ELSE {}

-----------------------------------------------------------------------------
(* The collectors *)

CgroupVersion == {"V1", "V2", "Unknown"}

\* The marker file of v2 goes before the lines of /proc/self/cgroup.
DetectVersion(n) ==
  CASE n.controllers -> "V2"
    [] ~n.controllers /\ n.self = "subsys" -> "V1"
    [] OTHER -> "Unknown"

\* Mutant: the division rounds down.
CeilDiv_Floor(a, b) == IF b = 0 THEN 0 ELSE a \div b

CeilDiv(a, b) == IF b = 0 THEN 0 ELSE (a + b - 1) \div b

Positive(x) == x \in Int /\ x > 0
\* `max`, or a quota that is not positive, is no limit.
V2Count(n) == IF n.quota # MaxToken /\ Positive(n.quota) /\ Positive(n.period) THEN CeilDiv(n.quota, n.period) ELSE NoToken
V1Count(n) == IF Positive(n.quota) /\ Positive(n.period) THEN CeilDiv(n.quota, n.period) ELSE NoToken
CpuLimit(n) == CASE DetectVersion(n) = "V2" -> V2Count(n) [] DetectVersion(n) = "V1" -> V1Count(n) [] OTHER -> NoToken

CpuCount(n) == LET count == IF CpuLimit(n) = NoToken THEN n.cpus ELSE CpuLimit(n)
               IN Known(IF count < 1 THEN 1 ELSE count)

BytesToMb(bytes) == bytes \div (1024 * 1024)
V2Bytes(n) == IF n.limit \in Nat THEN n.limit ELSE NoToken
V1Bytes(n) == IF n.limit \in Nat /\ n.limit < UnlimitedBytes THEN n.limit ELSE NoToken
MeminfoTotalMb(n) == IF n.memtotal \in Nat THEN n.memtotal \div 1024 ELSE NoToken

MemoryMb(n) ==
  LET bytes == CASE DetectVersion(n) = "V2" -> V2Bytes(n)
                 [] DetectVersion(n) = "V1" -> V1Bytes(n)
                 [] OTHER -> NoToken
      mb == IF bytes # NoToken THEN BytesToMb(bytes) ELSE MeminfoTotalMb(n)
  IN IF mb = NoToken THEN Unknown ELSE Known(mb)

Hostname(n) == IF n.name \in {"unreadable", "blank"} THEN Unknown ELSE Known(n.name)

Classify(comm) == IF comm \in {"systemd", "runit", "init"} THEN comm ELSE "unknown"
InitSystem(n) == IF n.comm = "unreadable" THEN Unknown ELSE Known(Classify(n.comm))

\* BOSUN_FORCE_POD decides when it is true or false; otherwise any sign will do.
IsPod(n) ==
  Known(IF n.force \in {"true", "false"} THEN n.force = "true"
        ELSE n.token \/ n.host = "set" \/ n.cgroup \in {"kubepods", "containerd"})

\* KNOWN_VERSIONS is tried from the newest.
PgInitialized(n) == Known(IF n.clusters = {} THEN 0 ELSE CHOOSE v \in n.clusters : \A w \in n.clusters : v >= w)

\* resolve_dsn: without a socket directory there is nothing to ask.
ResolveDsn(n) == n.socket
PgFactQueryError == {"Connect", "Sql"}
\* Every query opens a connection of its own; the server may be down, or refuse
\* the statement.
PgOpen(n) == CASE n.server = "down" -> "Connect" [] n.server = "refuses" -> "Sql" [] OTHER -> "ok"
PgKnown(n, rows) == IF ResolveDsn(n) /\ PgOpen(n) \notin PgFactQueryError THEN Known(rows) ELSE Unknown

\* Roles: one with a password and one without, one whose login has expired, and
\* one that cannot log in.
PgRoles == {"login", "passwordless", "expired", "group"}
QueryIsMaster(n) == ~n.in_recovery
QueryUsers(n) == n.roles \ {"expired", "group"}
QueryExtensions(n) == n.extensions
PgIsMaster(n) == PgKnown(n, QueryIsMaster(n))
PgUsers(n) == PgKnown(n, [r \in QueryUsers(n) |-> IF r = "passwordless" THEN "" ELSE "hash"])
PgExtensions(n) == PgKnown(n, QueryExtensions(n))

-----------------------------------------------------------------------------
(* installed_packages, for one package *)

\* Three versions, as debversion and as strings have them; `1_` is not a
\* Debian version. The string order makes a cycle with the other.
DebOrder == [v \in {"9", "10"} |-> IF v = "9" THEN 1 ELSE 2]
StringOrder == [v \in {"10", "1_", "9"} |-> CASE v = "10" -> 1 [] v = "1_" -> 2 [] OTHER -> 3]

\* No version.
ASSUME TokenAssumption == NoToken \notin DOMAIN StringOrder

IsNewer(new, old) ==
  IF {new, old} \subseteq DOMAIN DebOrder THEN DebOrder[new] > DebOrder[old]
  ELSE StringOrder[new] > StringOrder[old]

\* A number is its own value, a name has the value of the Debian Policy.
PriorityValue(token) ==
  CASE token = "required" -> 1000 [] token = "important" -> 800 [] token = "standard" -> 600
    [] token \in {"optional", "500"} -> 500 [] token = "extra" -> 100 [] OTHER -> NoToken

\* parse_control_file: a section without Package is left out, here and in
\* looks_like_packages_file.
ParsedPackage == [status : {"installed", "config-files"}, version : DOMAIN StringOrder \cup {NoToken}]

ParseInstalledFromStatus(sections) ==
  FoldLeft(LAMBDA best, p :
             IF p.status = "installed" /\ p.version # NoToken
                /\ (best = NoToken \/ IsNewer(p.version, best))
             THEN p.version ELSE best,
           NoToken, sections)

Candidate == [version : DOMAIN StringOrder, priority : {"optional", "500", "extra", "junk"}]

MergeCandidate(best, c) ==
  LET new == PriorityValue(c.priority)
      old == PriorityValue(best.priority)
  IN IF (IF new # NoToken /\ old # NoToken /\ new # old THEN new > old ELSE IsNewer(c.version, best.version))
     THEN c ELSE best

\* The sections of the files of lists/, in the order of the directory.
CollectCandidates(sections) ==
  IF sections = << >> THEN NoToken
  ELSE FoldLeft(MergeCandidate, Head(sections), Tail(sections)).version

InstalledPackages(n) ==
  LET current == ParseInstalledFromStatus(n.sections)
  IN IF ~n.readable THEN Unknown
     ELSE Known([current |-> current,
                 candidate |-> IF current = NoToken THEN NoToken ELSE CollectCandidates(n.pkgLists)])

-----------------------------------------------------------------------------
(* The catalogue *)

CgroupFiles == [controllers : BOOLEAN, self : {"subsys", "plain", "unreadable"}]
CpuNodes == {[controllers |-> g.controllers, self |-> g.self, quota |-> q, period |-> p, cpus |-> c] :
               g \in CgroupFiles, q \in {NoToken, MaxToken, -1, 0, 1, 2, 3, 4}, p \in {NoToken, 0, 1, 2}, c \in {1, 2}}
MemoryNodes == {[controllers |-> g.controllers, self |-> g.self, limit |-> l, memtotal |-> t] :
                  g \in CgroupFiles, t \in {NoToken, 1023, 2048},
                  l \in {NoToken, MaxToken, 0, 1048575, 1048576, 3145728, UnlimitedBytes}}
Installed(v) == [status |-> "installed", version |-> v]
\* What an apply of apt.package, or anyone else, makes of the node.
PackageStates == [readable : BOOLEAN, sections : {<< >>, <<Installed("9")>>, <<Installed("10")>>}, pkgLists : {<< >>}]
PackageNodes ==
  PackageStates
  \cup [readable : {TRUE}, sections : ParsedPackage \X ParsedPackage, pkgLists : {<< >>}]
  \cup [readable : {TRUE}, sections : {<<Installed("9")>>}, pkgLists : Candidate \X Candidate]
HostnameNodes == [name : {"unreadable", "blank", "db1", "db2"}]

PgQueries == {"pg_is_master", "pg_users_with_passwords", "pg_extensions"}
Catalog == {"hostname", "cpu_count", "memory_mb", "init_system", "is_pod", "installed_packages", "pg_initialized"}
           \cup PgQueries

NodesOf(name) ==
  CASE name = "hostname" -> HostnameNodes
    [] name = "cpu_count" -> CpuNodes
    [] name = "memory_mb" -> MemoryNodes
    [] name = "init_system" -> [comm : {"unreadable", "systemd", "runit", "init", "runr", "bash"}]
    [] name = "is_pod" -> [force : {"unset", "true", "false", "junk"}, token : BOOLEAN, host : {"unset", "empty", "set"},
                           cgroup : {"unreadable", "plain", "kubepods", "containerd"}]
    [] name = "installed_packages" -> PackageNodes
    [] name = "pg_initialized" -> [clusters : SUBSET {13, 17}]
    [] OTHER -> [socket : BOOLEAN, server : {"down", "refuses", "up"}, in_recovery : BOOLEAN,
                 roles : {{}, {"expired"}, PgRoles}, extensions : {{}, {"1.0"}}]

\* The changes of interest: the values of the other facts are read only once.
ChangesOf(name) ==
  CASE name = "hostname" -> HostnameNodes
    [] name = "installed_packages" -> PackageStates
    [] OTHER -> {}

Collect(name, n) ==
  CASE name = "hostname" -> Hostname(n)
    [] name = "cpu_count" -> CpuCount(n)
    [] name = "memory_mb" -> MemoryMb(n)
    [] name = "init_system" -> InitSystem(n)
    [] name = "is_pod" -> IsPod(n)
    [] name = "installed_packages" -> InstalledPackages(n)
    [] name = "pg_initialized" -> PgInitialized(n)
    [] name = "pg_is_master" -> PgIsMaster(n)
    [] name = "pg_users_with_passwords" -> PgUsers(n)
    [] OTHER -> PgExtensions(n)

-----------------------------------------------------------------------------
(* The collector *)

FactTypeOK ==
  /\ factName \in Catalog /\ node \in NodesOf(factName)
  /\ Len(cache) <= 1 /\ Len(published) <= 1 /\ Len(reading) <= 1
  /\ \A i \in DOMAIN cache : cache[i].value.tag \in {"Known", "Unknown", "Stale"} /\ cache[i].dirty \in BOOLEAN
  /\ factPc \in {"start", "evaluate", "idle", "applying"}
  /\ factClock \in 0..MaxFactClock /\ factEvents \in 0..MaxFactEvents

FactInit ==
  /\ factName \in Catalog /\ node \in NodesOf(factName)
  /\ cache = << >> /\ published = << >> /\ reading = << >>
  /\ factPc = "start" /\ factClock = 0 /\ since = {} /\ known = << >> /\ factEvents = 0

FactEvent == factEvents < MaxFactEvents /\ factEvents' = factEvents + 1

CachedFact(value, at, dirty) == [value |-> value, collected_at |-> at, dirty |-> dirty]

\* The history of a collection.
Saw(value) == known' = IF value.tag = "Known" THEN <<[value |-> value.value, at |-> factClock]>> ELSE known

\* collect_with_panic_guard: the outcome, and whether a collector panicked.
CollectWithPanicGuard(value) ==
  \/ value = Collect(factName, node) /\ UNCHANGED factEvents
  \/ value = Unknown /\ FactEvent

CollectAtStart ==
  /\ factPc = "start"
  /\ RefreshPolicy(factName) \in {"AtStart", "AtStartAndAfterApply"}
  /\ \E value \in {Collect(factName, node), Unknown} :
       /\ CollectWithPanicGuard(value)
       /\ cache' = <<CachedFact(value, factClock, FALSE)>>
       /\ Saw(value)
  /\ since' = {Collect(factName, node)}
  /\ factPc' = "evaluate"
  /\ UNCHANGED <<factName, node, published, reading, factClock>>

\* snapshot, and FactsSnapshot::get: what the manifest is evaluated with.
SnapshotGet ==
  /\ factPc = "evaluate"
  /\ reading' = <<IF cache = << >> THEN Unknown ELSE cache[1].value>>
  /\ factPc' = "idle"
  /\ UNCHANGED <<factName, node, cache, published, factClock, since, known, factEvents>>

\* mark_dirty_after_apply, which the orchestrator calls before the apply.
MarkDirtyAfterApply(kind) ==
  /\ factPc = "idle" /\ FactEvent
  /\ cache' = IF kind \notin TriggersOf(factName) THEN cache
              ELSE IF cache = << >> THEN <<CachedFact(Unknown, factClock, TRUE)>>
              ELSE <<[cache[1] EXCEPT !.dirty = TRUE]>>
  /\ reading' = << >>
  /\ since' = IF kind \in TriggersOf(factName) THEN {} ELSE since
  /\ factPc' = "applying"
  /\ UNCHANGED <<factName, node, published, factClock, known>>

\* The apply itself: an apply of a trigger may leave anything on the node,
\* pg_sql.query publishes its rows.
Apply(rows) ==
  /\ factPc = "applying"
  /\ \/ \E n \in ChangesOf(factName) \cup {node} :
          /\ node' = IF factName = "installed_packages" THEN n ELSE node
          /\ since' = since \cup {Collect(factName, node')}
       /\ UNCHANGED published
     \/ published' = <<rows>> /\ UNCHANGED <<node, since>>
  /\ factPc' = "idle"
  /\ UNCHANGED <<factName, cache, reading, factClock, known, factEvents>>

\* Mutant: a failed refresh keeps the old value as it was.
UpgradeOrReplace_KeepsKnown(prev, fresh, age) ==
  IF fresh.tag = "Known" THEN fresh
  ELSE IF prev.tag # "Unknown" THEN prev
  ELSE Unknown

UpgradeOrReplace(prev, fresh, age) ==
  IF fresh.tag = "Known" THEN fresh
  ELSE IF prev.tag \in {"Known", "Stale"} THEN Stale(prev.value, age)
  ELSE Unknown

\* OverlayFactsSource::get: a published fact goes first, as Known, and the
\* collector is not asked.
OverlayGet == published # << >> /\ reading' = <<Known(published[1])>>

\* FactsView::get: a dirty fact is collected again, and is clean whatever came
\* of it.
ViewGet ==
  /\ factPc = "idle"
  /\ IF published # << >>
     THEN OverlayGet /\ UNCHANGED <<cache, known, factEvents>>
     ELSE IF cache = << >> \/ ~cache[1].dirty
     THEN reading' = <<IF cache = << >> THEN Unknown ELSE cache[1].value>> /\ UNCHANGED <<cache, known, factEvents>>
     ELSE \E fresh \in {Collect(factName, node), Unknown} :
            /\ CollectWithPanicGuard(fresh)
            /\ LET value == UpgradeOrReplace(cache[1].value, fresh, factClock - cache[1].collected_at)
                   at == IF value.tag = "Stale" THEN cache[1].collected_at ELSE factClock
               IN reading' = <<value>> /\ cache' = <<CachedFact(value, at, FALSE)>>
            /\ Saw(fresh)
  /\ UNCHANGED <<factName, node, published, factPc, factClock, since>>

\* Someone else changes the node.
ForeignNodeChange ==
  /\ factPc \in {"evaluate", "idle"} /\ FactEvent
  /\ \E n \in ChangesOf(factName) : node' = n
  /\ since' = since \cup {Collect(factName, node')}
  /\ UNCHANGED <<factName, cache, published, factPc, reading, factClock, known>>

FactTick ==
  /\ ChangesOf(factName) # {}
  /\ factClock < MaxFactClock /\ factClock' = factClock + 1
  /\ UNCHANGED <<factName, node, cache, published, factPc, reading, since, known, factEvents>>

AppliedKinds == {"apt.package", "file.content"}
Rows == {"rows"}

FactNext ==
  \/ CollectAtStart \/ SnapshotGet \/ ViewGet
  \/ \E kind \in AppliedKinds : MarkDirtyAfterApply(kind)
  \/ \E rows \in Rows : Apply(rows)
  \/ ForeignNodeChange \/ FactTick

FactSpec == FactInit /\ [][FactNext]_factVars

\* The metric of the state of each fact, at the end of a run: what the cache
\* has, and nothing is collected for it.
TRACKED_FACTS == {"hostname", "cpu_count", "memory_mb", "init_system", "is_pod", "installed_packages"}
StateCode(value) == CASE value.tag = "Known" -> 0 [] value.tag = "Stale" -> 2 [] OTHER -> 1
BuildFactStates == [name \in {factName} \cap TRACKED_FACTS |-> IF cache = << >> THEN 1 ELSE StateCode(cache[1].value)]

-----------------------------------------------------------------------------
(* Properties *)

\* A plan that reads a fact after an apply of a trigger gets no Known value
\* from before that apply, also when the apply failed half way or the refresh
\* did: then the fact is Stale, with the last value seen and an age counted
\* from when it was seen. What pg_sql.query published goes before both. The
\* metric has a fact as known or stale only if a collector did find it.
FactsHonest ==
  /\ \A i \in DOMAIN reading :
       LET r == reading[i]
       IN /\ published = << >> /\ r.tag = "Known" => r \in since
          /\ r.tag = "Stale" => /\ known # << >> /\ r.value = known[1].value
                                /\ cache[1].collected_at = known[1].at
          /\ published # << >> => r = Known(published[1])
  /\ \A name \in DOMAIN BuildFactStates : BuildFactStates[name] # 1 => known # << >>

\* A CPU quota is rounded up to whole CPUs, and the count is never 0.
CpuCountRight(n) ==
  LET count == CpuCount(n).value
  IN count >= 1 /\ (CpuLimit(n) # NoToken => count * n.period >= n.quota /\ (count - 1) * n.period < n.quota)

\* A limit that counts is rounded down to megabytes.
MemoryRight(n) ==
  LET fact == MemoryMb(n)
  IN n.limit \in Nat /\ (DetectVersion(n) = "V2" \/ (DetectVersion(n) = "V1" /\ n.limit < UnlimitedBytes)) =>
       fact.tag = "Known" /\ fact.value * 1048576 <= n.limit /\ n.limit < (fact.value + 1) * 1048576

\* Candidates that can be compared, by a Debian version and a priority that is
\* known: the higher priority goes first, then the newer version.
RegularCandidate(c) == c.version \in DOMAIN DebOrder /\ c.priority \in {"optional", "500", "extra"}
CandidateBeats(c, d) ==
  \/ PriorityValue(c.priority) > PriorityValue(d.priority)
  \/ PriorityValue(c.priority) = PriorityValue(d.priority) /\ DebOrder[c.version] > DebOrder[d.version]

\* Of several versions of a package the newest is current and the best one is
\* the candidate.
VersionsRight(n) ==
  LET installed == {p.version : p \in {q \in Range(n.sections) : q.status = "installed"}}
      listed == Range(n.pkgLists)
      value == InstalledPackages(n).value
  IN InstalledPackages(n).tag = "Known" =>
       /\ installed \subseteq DOMAIN DebOrder /\ value.current # NoToken =>
            value.current \in installed /\ \A v \in installed : DebOrder[v] <= DebOrder[value.current]
       /\ listed # {} /\ (\A c \in listed : RegularCandidate(c)) =>
            \E best \in listed : best.version = value.candidate /\ ~\E d \in listed : CandidateBeats(d, best)

\* What the collectors compute is what their definition asks for: a CPU quota
\* is rounded up to whole CPUs and is never 0, a memory limit is rounded down,
\* and of several versions of a package the newest is current and, of the
\* known priorities, the newest of the highest is the candidate, in whatever
\* order dpkg and the directory have them.
FactsRight ==
  /\ factName = "cpu_count" => CpuCountRight(node)
  /\ factName = "memory_mb" => MemoryRight(node)
  /\ factName = "installed_packages" => VersionsRight(node)
=============================================================================
