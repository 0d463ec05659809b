------------------------------- MODULE AptOps -------------------------------
(***************************************************************************)
(* apt.package, apt.key and apt.update_cache: what their plan decides from *)
(* the fact installed_packages or from the file system, and their apply as *)
(* the sequence of external commands it runs, with the dpkg lock, the      *)
(* run's deadline, the two recoveries of a failed installation and the     *)
(* retries of apt-get update.                                              *)
(*                                                                         *)
(* A behaviour is a series of runs of one resource on a node that others   *)
(* change too.  apt, dpkg, gpg and the key server are external: they are   *)
(* modelled by the answers the code tells apart.                           *)
(***************************************************************************)
EXTENDS Naturals, FiniteSets

CONSTANTS
  Versions,      \* versions of the package, ordered as numbers
  Latest,        \* no version asked for
  Missing,       \* no such file, no such line
  MaxAttempts,   \* AptUpdatePolicy.max_attempts: 3 in production
  MaxFaults,     \* bound: failures and foreign changes in a behaviour
  MaxAge,        \* bound: ages of pkgcache.bin and of archives
  MaxAgeSec,     \* spec.max_age_sec of apt.update_cache
  DebDays        \* spec.cleanup_old_debs_days, as an age

ASSUME AptAssumption ==
  /\ Versions \subseteq Nat /\ Versions # {} /\ Latest \notin Nat
  /\ Missing \notin Nat /\ Missing \notin {"expected", "other", "garbage"}
  /\ MaxAttempts \in Nat \ {0} /\ MaxFaults \in Nat
  /\ MaxAge \in Nat /\ MaxAgeSec \in Nat /\ DebDays \in Nat

VARIABLES
  aptKind,     \* which of the three primitives the resource is
  declared,    \* what the manifest says
  aptPayload,     \* what build_payload made of it: the spec that apply reads
  dpkg,        \* the package on the node
  lists,       \* apt knows a candidate for the package
  held,        \* somebody else holds /var/lib/dpkg/lock-frontend
  keyring,     \* the keyring file
  served,      \* the key that the url or key_data gives
  cacheAge,    \* age of pkgcache.bin, or Missing
  debs,        \* ages of the .deb files under archives/
  aptPc,       \* where the run of the resource is
  aptDiff,     \* the plan
  aptResult,   \* how the apply ended
  ran,         \* commands run by this apply, a count per command
  aptFaults    \* failures and foreign changes so far

nodeVars == <<dpkg, lists, held, keyring, served, cacheAge, debs>>
aptVars == <<aptKind, declared, aptPayload, nodeVars, aptPc, aptDiff, aptResult, ran, aptFaults>>

-----------------------------------------------------------------------------
(* The three specs and what the node can hold. *)

AptKinds == {"package", "key", "cache"}

AptPackageState == {"present", "absent", "purged"}
AptPackageSpec == [kind : {"package"}, state : AptPackageState,
                   version : Versions \cup {Latest}, downgrade : BOOLEAN]
AptKeyState == {"present", "absent"}
AptKeySpec == [kind : {"key"}, state : AptKeyState, fingerprint : BOOLEAN,
               source : {"url", "key_data", "both", "neither"}]
AptUpdateCacheSpec == [kind : {"cache"}, force : BOOLEAN, skip_cleanup : BOOLEAN]

\* dpkg-query's words that the code tells apart; "half" is any other.
DpkgStatus == {"not-installed", "config-files", "installed", "half"}
Dpkg == [status : DpkgStatus, version : Versions \cup {Latest}]

\* A keyring: no file, the expected key, another key, or bytes gpg cannot read.
Keyrings == {Missing, "expected", "other", "garbage"}

\* "state" of apt.package is not among the arguments build_payload copies:
\* the spec it deserializes to has serde's default.
PackagePayload(args) == [args EXCEPT !.state = "present"]

AptCommands == {"install", "configure", "update", "remove"}
NoCommands == [c \in AptCommands |-> 0]
Diff == {"no_change", "add", "update"}
Outcomes == {"none", "no_change", "changed", "failed"}

AptTypeOK ==
  /\ aptKind \in AptKinds
  /\ declared \in AptPackageSpec \cup AptKeySpec \cup AptUpdateCacheSpec
  /\ aptPayload \in AptPackageSpec \cup AptKeySpec \cup AptUpdateCacheSpec
  /\ declared.kind = aptKind /\ aptPayload.kind = aptKind
  /\ dpkg \in Dpkg /\ lists \in BOOLEAN /\ held \in BOOLEAN
  /\ keyring \in Keyrings /\ served \in Keyrings \ {Missing}
  /\ cacheAge \in 0..MaxAge \cup {Missing}
  /\ debs \in SUBSET (0..MaxAge)
  /\ aptPc \in {"plan", "apply", "install", "retry", "configure", "query", "remove",
                "obtain", "write", "verify", "fetch", "update", "clean", "done"}
  /\ aptDiff \in Diff
  /\ aptResult \in Outcomes
  /\ ran \in [AptCommands -> 0..(MaxAttempts + 2)]
  /\ aptFaults \in 0..MaxFaults

AptInit ==
  /\ aptKind \in AptKinds
  /\ declared \in CASE aptKind = "package" -> AptPackageSpec
                    [] aptKind = "key" -> AptKeySpec
                    [] OTHER -> AptUpdateCacheSpec
  \* What build_payload makes of the manifest; or, as the tests construct it, a
  \* payload with a state of its own.
  /\ aptPayload \in {declared} \cup IF aptKind = "package" THEN {PackagePayload(declared)} ELSE {}
  /\ dpkg \in IF aptKind = "package"
              THEN {d \in Dpkg : (d.status = "installed") <=> (d.version # Latest)}
              ELSE {[status |-> "not-installed", version |-> Latest]}
  /\ lists \in IF aptKind = "package" THEN BOOLEAN ELSE {TRUE}
  /\ held = FALSE
  /\ keyring \in IF aptKind = "key" THEN Keyrings ELSE {Missing}
  /\ served \in IF aptKind = "key" THEN Keyrings \ {Missing} ELSE {"expected"}
  /\ cacheAge \in IF aptKind = "cache" THEN 0..MaxAge \cup {Missing} ELSE {Missing}
  /\ debs = IF aptKind = "cache" THEN 0..MaxAge ELSE {}
  /\ aptPc = "plan" /\ aptDiff = "no_change" /\ aptResult = "none"
  /\ ran = NoCommands /\ aptFaults = 0

-----------------------------------------------------------------------------
(* How an apply ends, and what can go wrong under it. *)

AptFault == aptFaults < MaxFaults /\ aptFaults' = aptFaults + 1
NoAptFault == UNCHANGED aptFaults

AptEnd(r) == aptPc' = "done" /\ aptResult' = r
AptGoto(pc) == aptPc' = pc /\ UNCHANGED aptResult
Ran(c) == ran' = [ran EXCEPT ![c] = @ + 1]
AptSame == UNCHANGED <<aptKind, declared, aptPayload, aptDiff>>

\* check_cancel_or_deadline between two commands, and RealCommandRunner's own
\* check before it starts one; a command that cannot be started or waited
\* for ends the apply in the same way, with Io instead of Cancelled.
CheckCancelOrDeadline(pcs) ==
  /\ aptPc \in pcs
  /\ AptFault /\ AptEnd("failed")
  /\ AptSame /\ UNCHANGED <<nodeVars, ran>>

-----------------------------------------------------------------------------
(* apt.package: plan *)

\* installed_packages lists a package only when its status is "installed".
InstalledEntry == IF dpkg.status = "installed" THEN dpkg.version ELSE Missing

UnknownFactsFallback(spec) == IF spec.state = "present" THEN "add" ELSE "update"

DiffPresent(spec, line) ==
  CASE line = Missing -> "add"
    [] line # Missing /\ spec.version \in {Latest, line} -> "no_change"
    [] OTHER -> "update"

DiffAbsent(line) == IF line # Missing THEN "update" ELSE "no_change"

\* The fact does not show config-files, so a purge is always worth a try.
DiffPurged(line) == "update"

DiffAgainstKnown(spec, line) ==
  CASE spec.state = "present" -> DiffPresent(spec, line)
    [] spec.state = "absent" -> DiffAbsent(line)
    [] OTHER -> DiffPurged(line)

\* A fact that is Unknown, Stale or not a map is not used.
PlanPackage ==
  /\ aptPc = "plan" /\ aptKind = "package"
  /\ aptDiff' \in {DiffAgainstKnown(aptPayload, InstalledEntry), UnknownFactsFallback(aptPayload)}
  /\ AptGoto("apply")
  /\ UNCHANGED <<aptKind, declared, aptPayload, nodeVars, ran, aptFaults>>

-----------------------------------------------------------------------------
(* apt.package: apply *)

\* fcntl(F_GETLK) on lock-frontend: the lock is looked at, never taken.
ProbeDpkgLock == ~held

RunPackage ==
  /\ aptPc = "apply" /\ aptKind = "package"
  /\ CASE aptDiff = "no_change" -> AptEnd("no_change")
       [] aptDiff # "no_change" /\ ~ProbeDpkgLock -> AptEnd("failed")
       [] OTHER -> AptGoto(IF aptPayload.state = "present" THEN "install" ELSE "query")
  /\ NoAptFault /\ AptSame /\ UNCHANGED <<nodeVars, ran>>

\* apt-get install, as the code uses it: it needs the lock, a dpkg that was
\* not interrupted, and a candidate; it refuses to downgrade unless told to.
AptRefuses == /\ dpkg.status = "installed" /\ aptPayload.version # Latest
              /\ aptPayload.version < dpkg.version /\ ~aptPayload.downgrade
AptInstallAnswers ==
  CASE dpkg.status = "half" -> {"interrupted"}
    [] dpkg.status # "half" /\ (held \/ AptRefuses) -> {"other"}
    [] dpkg.status # "half" /\ ~held /\ ~AptRefuses /\ ~lists -> {"candidate"}
    [] OTHER -> {"ok"}
InstalledAs(v) == [status |-> "installed", version |-> v]

\* analyze_install_result: by the exit code, then by what stderr contains.
AnalyzeInstallResult(answer) ==
  CASE answer = "ok" -> "Success"
    [] answer = "interrupted" -> "DpkgInterrupted"
    [] answer = "candidate" -> "CandidateMissing"
    [] OTHER -> "OtherFailure"

\* A command that the deadline or SIGTERM finds running is killed with its
\* whole process group: dpkg is left where it was.
KilledMidway ==
  /\ aptPc \in {"install", "retry", "configure", "remove"}
  /\ dpkg' = [status |-> "half", version |-> Latest]
  /\ AptFault /\ AptEnd("failed")
  /\ AptSame /\ UNCHANGED <<lists, held, keyring, served, cacheAge, debs, ran>>

InstallAttempt(answer) ==
  /\ Ran("install")
  /\ \/ answer \in AptInstallAnswers /\ NoAptFault
     \/ answer = "other" /\ AptFault
  /\ IF answer = "ok"
       THEN dpkg' \in {InstalledAs(v) : v \in IF aptPayload.version = Latest THEN Versions
                                              ELSE {aptPayload.version}}
       ELSE UNCHANGED dpkg
  /\ AptSame /\ UNCHANGED <<lists, held, keyring, served, cacheAge, debs>>

RunInstall ==
  /\ aptPc = "install"
  /\ \E answer \in {"ok", "interrupted", "candidate", "other"} :
       /\ InstallAttempt(answer)
       /\ LET outcome == AnalyzeInstallResult(answer)
          IN CASE outcome = "Success" -> AptEnd("changed")
               [] outcome = "DpkgInterrupted" -> AptGoto("configure")
               [] outcome = "CandidateMissing" -> AptGoto("update")
               [] OTHER -> AptEnd("failed")

\* Mutant: the exit code of the retry is not looked at.
RetryInstall_IgnoresExit ==
  /\ aptPc = "retry"
  /\ \E answer \in {"ok", "interrupted", "candidate", "other"} :
       InstallAttempt(answer) /\ AptEnd("changed")

\* The one retry after a recovery: whatever fails now fails the resource.
RetryInstall ==
  /\ aptPc = "retry"
  /\ \E answer \in {"ok", "interrupted", "candidate", "other"} :
       /\ InstallAttempt(answer)
       /\ AptEnd(IF AnalyzeInstallResult(answer) = "Success" THEN "changed" ELSE "failed")

\* run_dpkg_configure_a: exit 0 leaves the package configured.
RunDpkgConfigureA ==
  /\ aptPc = "configure" /\ Ran("configure")
  /\ \/ /\ ~held /\ NoAptFault /\ AptGoto("retry")
        /\ dpkg' \in IF dpkg.status = "half" THEN {InstalledAs(v) : v \in Versions} ELSE {dpkg}
     \/ /\ (held /\ NoAptFault) \/ AptFault
        /\ AptEnd("failed") /\ UNCHANGED dpkg
  /\ AptSame /\ UNCHANGED <<lists, held, keyring, served, cacheAge, debs>>

\* classify_update_failure: GPG and permission errors, and what is not known,
\* are not tried again.
ClassifyUpdateFailure(stderr) == IF stderr = "network" THEN "Retriable" ELSE "NonRetriable"

\* Three attempts, with a pause between two of them.
AptUpdatePolicy == [max_attempts |-> MaxAttempts]

\* One attempt of run_apt_update_with_policy; the pause before the next one
\* is where the deadline can pass (CheckCancelOrDeadline).
RunAptUpdateWithPolicy ==
  /\ aptPc = "update" /\ Ran("update")
  /\ \/ NoAptFault /\ lists' = TRUE /\ AptGoto("retry")
     \/ /\ AptFault /\ UNCHANGED lists
        /\ \E stderr \in {"network", "gpg"} :
             IF /\ ClassifyUpdateFailure(stderr) = "Retriable"
                /\ ran["update"] + 1 < AptUpdatePolicy.max_attempts
             THEN AptGoto("update") ELSE AptEnd("failed")
  /\ AptSame /\ UNCHANGED <<dpkg, held, keyring, served, cacheAge, debs>>

\* query_dpkg_status: a failed query is read as "not installed".
QueryDpkgStatus(failed) == IF failed THEN "not-installed" ELSE dpkg.status
NeedsActionForState(status, purge) ==
  CASE status = "not-installed" -> FALSE
    [] status = "config-files" -> purge
    [] OTHER -> TRUE

RunRemove ==
  /\ aptPc = "query"
  /\ \E failed \in BOOLEAN :
       /\ IF failed THEN AptFault ELSE NoAptFault
       /\ IF NeedsActionForState(QueryDpkgStatus(failed), aptPayload.state = "purged")
            THEN AptGoto("remove") ELSE AptEnd("no_change")
  /\ AptSame /\ UNCHANGED <<nodeVars, ran>>

\* apt-get remove keeps the configuration files, purge does not; like install
\* it refuses to work on an interrupted dpkg, and here nothing repairs it.
RemoveOrPurgeAttempt ==
  /\ aptPc = "remove" /\ Ran("remove")
  /\ \/ /\ ~held /\ dpkg.status # "half" /\ NoAptFault /\ AptEnd("changed")
        /\ dpkg' = [status |-> IF aptPayload.state = "purged" THEN "not-installed" ELSE "config-files",
                    version |-> Latest]
     \/ /\ ((held \/ dpkg.status = "half") /\ NoAptFault) \/ AptFault
        /\ AptEnd("failed") /\ UNCHANGED dpkg
  /\ AptSame /\ UNCHANGED <<lists, held, keyring, served, cacheAge, debs>>

-----------------------------------------------------------------------------
(* apt.key *)

ValidateSourceCombination(spec) ==
  IF spec.state = "present" THEN spec.source \in {"url", "key_data"} ELSE spec.source = "neither"

DecideKeyAction(exists, spec) ==
  CASE spec.state = "present" /\ (~exists \/ spec.fingerprint) -> "Install"
    [] spec.state = "absent" /\ exists -> "Remove"
    [] OTHER -> "NoChange"

PlanKey ==
  /\ aptPc = "plan" /\ aptKind = "key"
  /\ IF ValidateSourceCombination(aptPayload)
       THEN /\ aptDiff' = IF DecideKeyAction(keyring # Missing, aptPayload) = "NoChange"
                          THEN "no_change" ELSE "update"
            /\ AptGoto("apply")
       ELSE AptEnd("failed") /\ UNCHANGED aptDiff
  /\ UNCHANGED <<aptKind, declared, aptPayload, nodeVars, ran, aptFaults>>

\* gpg --show-keys answers with a fingerprint unless the file is garbage or gone.
FingerprintReadable == keyring \notin {Missing, "garbage"}

\* run and the head of install_key: the file is looked at again, and a key
\* that is already the expected one is left alone.
RunKey ==
  /\ aptPc = "apply" /\ aptKind = "key"
  /\ LET action == DecideKeyAction(keyring # Missing, aptPayload)
         verify == keyring # Missing /\ aptPayload.fingerprint
     IN \/ aptDiff = "no_change" /\ AptEnd("no_change") /\ UNCHANGED keyring
        \/ /\ aptDiff # "no_change" /\ action = "NoChange"
           /\ AptEnd("no_change") /\ UNCHANGED keyring
        \/ /\ aptDiff # "no_change" /\ action = "Remove"
           /\ keyring' = Missing /\ AptEnd("changed")
        \/ /\ aptDiff # "no_change" /\ action = "Install"
           /\ CASE verify /\ ~FingerprintReadable -> AptEnd("failed")
                [] verify /\ keyring = "expected" -> AptEnd("no_change")
                [] OTHER -> AptGoto("obtain")
           /\ UNCHANGED keyring
  /\ NoAptFault /\ AptSame
  /\ UNCHANGED <<dpkg, lists, held, served, cacheAge, debs, ran>>

\* remove_key when the file has gone since it was looked at (NotFound), or
\* cannot be removed.
RemoveKeyFails ==
  /\ aptPc = "apply" /\ aptKind = "key" /\ aptDiff # "no_change"
  /\ DecideKeyAction(keyring # Missing, aptPayload) = "Remove"
  /\ AptFault
  /\ \/ AptEnd("failed") /\ UNCHANGED keyring
     \/ AptEnd("no_change") /\ keyring' = Missing
  /\ AptSame /\ UNCHANGED <<dpkg, lists, held, served, cacheAge, debs, ran>>

\* A GET: no answer in time, another status than 200 and a body that breaks
\* off are all the same; any 200 is a key.
Download == {"bytes", "failed"}
\* obtain_key_data and dearmor_if_needed: bytes that are not armored are passed
\* on as they are, so garbage is not noticed here.
ObtainKeyData ==
  /\ aptPc = "obtain"
  /\ \E body \in Download :
       IF body = "bytes" THEN AptGoto("write") /\ NoAptFault ELSE AptEnd("failed") /\ AptFault
  /\ AptSame /\ UNCHANGED <<nodeVars, ran>>

\* write_keyring_atomic: the temporary file replaces the keyring, then chmod.
WriteKeyringAtomic ==
  /\ aptPc = "write"
  /\ \/ keyring' = served /\ AptGoto("verify") /\ NoAptFault
     \/ keyring' \in {keyring, served} /\ AptEnd("failed") /\ AptFault
  /\ AptSame /\ UNCHANGED <<dpkg, lists, held, served, cacheAge, debs, ran>>

\* The tail of install_key: the key is verified where it already is in use.
VerifyFingerprint ==
  /\ aptPc = "verify"
  /\ AptEnd(IF aptPayload.fingerprint /\ (~FingerprintReadable \/ keyring # "expected")
             THEN "failed" ELSE "changed")
  /\ NoAptFault /\ AptSame /\ UNCHANGED <<nodeVars, ran>>

-----------------------------------------------------------------------------
(* apt.update_cache *)

DecideCacheAction(spec, age) ==
  IF spec.force \/ age = Missing \/ age >= MaxAgeSec THEN "Refresh" ELSE "Fresh"

\* A stat that fails for another reason than NotFound counts as Missing.
ReadPkgcacheAge == {cacheAge} \cup IF aptFaults < MaxFaults THEN {Missing} ELSE {}

PlanCache ==
  /\ aptPc = "plan" /\ aptKind = "cache"
  /\ \E age \in ReadPkgcacheAge :
       aptDiff' = IF age # Missing /\ DecideCacheAction(aptPayload, age) = "Fresh"
                  THEN "no_change" ELSE "update"
  /\ AptGoto("apply")
  /\ UNCHANGED <<aptKind, declared, aptPayload, nodeVars, ran, aptFaults>>

\* The age is read again: another run or the operator may have refreshed it.
RunCache ==
  /\ aptPc = "apply" /\ aptKind = "cache"
  /\ \E age \in ReadPkgcacheAge :
       CASE aptDiff = "no_change" -> AptEnd("no_change")
         [] aptDiff # "no_change" /\ DecideCacheAction(aptPayload, age) = "Fresh" -> AptEnd("no_change")
         [] aptDiff # "no_change" /\ DecideCacheAction(aptPayload, age) # "Fresh" /\ ~ProbeDpkgLock
              -> AptEnd("failed")
         [] OTHER -> AptGoto("fetch")
  /\ NoAptFault /\ AptSame /\ UNCHANGED <<nodeVars, ran>>

\* RealAptCacheBackend::update: one apt-get update, no retries of its own.
BackendUpdate ==
  /\ aptPc = "fetch" /\ Ran("update")
  /\ \/ /\ ~held /\ NoAptFault /\ cacheAge' = 0
        /\ IF aptPayload.skip_cleanup THEN AptEnd("changed") ELSE AptGoto("clean")
     \/ /\ (held /\ NoAptFault) \/ AptFault
        /\ AptEnd("failed") /\ UNCHANGED cacheAge
  /\ AptSame /\ UNCHANGED <<dpkg, lists, held, keyring, served, debs>>

\* cleanup_old_debs: archives older than the limit go; a failure half-way
\* leaves some of them and is not an error of the resource.
OldDebs == {age \in debs : age >= DebDays}
CleanupOldDebs ==
  /\ aptPc = "clean"
  /\ \E left \in SUBSET OldDebs :
       /\ debs' = (debs \ OldDebs) \cup left
       /\ IF left = {} THEN NoAptFault ELSE AptFault
  /\ AptEnd("changed")
  /\ AptSame /\ UNCHANGED <<dpkg, lists, held, keyring, served, cacheAge, ran>>

-----------------------------------------------------------------------------
(* The next run, the others on the node, and the specification. *)

NextAptRun ==
  /\ aptPc = "done" /\ aptPc' = "plan" /\ aptResult' = "none"
  /\ aptDiff' = "no_change" /\ ran' = NoCommands
  /\ UNCHANGED <<aptKind, declared, aptPayload, nodeVars, aptFaults>>

\* bosun is killed between two commands: the next run starts from the plan.
AptCrash ==
  /\ aptPc \notin {"plan", "done"} /\ AptFault
  /\ AptEnd("failed") /\ AptSame /\ UNCHANGED <<nodeVars, ran>>

OthersUsePackage ==
  /\ aptKind = "package" /\ AptFault
  /\ \/ dpkg' \in {InstalledAs(v) : v \in Versions}
     \/ dpkg' \in [status : {"not-installed", "config-files", "half"}, version : {Latest}]
  /\ UNCHANGED <<aptKind, declared, aptPayload, lists, held, keyring, served, cacheAge, debs,
                 aptPc, aptDiff, aptResult, ran>>

TakeDpkgLock ==
  /\ ~held /\ aptKind # "key" /\ AptFault /\ held' = TRUE
  /\ UNCHANGED <<aptKind, declared, aptPayload, dpkg, lists, keyring, served, cacheAge, debs,
                 aptPc, aptDiff, aptResult, ran>>

ReleaseDpkgLock ==
  /\ held /\ held' = FALSE /\ NoAptFault
  /\ UNCHANGED <<aptKind, declared, aptPayload, dpkg, lists, keyring, served, cacheAge, debs,
                 aptPc, aptDiff, aptResult, ran>>

OthersChangeKey ==
  /\ aptKind = "key" /\ AptFault
  /\ \/ served' \in Keyrings \ {Missing} /\ UNCHANGED keyring
     \/ keyring' \in Keyrings /\ UNCHANGED served
  /\ UNCHANGED <<aptKind, declared, aptPayload, dpkg, lists, held, cacheAge, debs,
                 aptPc, aptDiff, aptResult, ran>>

\* Time passes for the package cache, and others refresh it or drop it.
CacheAges ==
  /\ aptKind = "cache"
  /\ \/ cacheAge # Missing /\ cacheAge < MaxAge /\ cacheAge' = cacheAge + 1 /\ NoAptFault
     \/ cacheAge' \in {0, Missing} /\ AptFault
  /\ UNCHANGED <<aptKind, declared, aptPayload, dpkg, lists, held, keyring, served, debs,
                 aptPc, aptDiff, aptResult, ran>>

AptStep ==
  \/ PlanPackage \/ RunPackage \/ RunInstall \/ RetryInstall \/ RunDpkgConfigureA
  \/ RunAptUpdateWithPolicy \/ RunRemove \/ RemoveOrPurgeAttempt
  \/ PlanKey \/ RunKey \/ RemoveKeyFails \/ ObtainKeyData \/ WriteKeyringAtomic \/ VerifyFingerprint
  \/ PlanCache \/ RunCache \/ BackendUpdate \/ CleanupOldDebs
  \/ NextAptRun

AptNext ==
  \/ AptStep
  \/ CheckCancelOrDeadline({"apply", "install", "retry", "configure", "update", "query", "remove", "fetch"})
  \/ KilledMidway \/ AptCrash
  \/ OthersUsePackage \/ TakeDpkgLock \/ ReleaseDpkgLock \/ OthersChangeKey \/ CacheAges

\* The timer starts run after run, and whoever holds the dpkg lock lets it go.
AptFairness == WF_aptVars(AptStep) /\ WF_aptVars(ReleaseDpkgLock)
AptSpec == AptInit /\ [][AptNext]_aptVars /\ AptFairness

-----------------------------------------------------------------------------
(* What is checked. *)

\* The node is as a spec asks for.
AptSatisfied(spec) ==
  CASE spec.kind = "package" /\ spec.state = "present" ->
         dpkg.status = "installed" /\ spec.version \in {Latest, dpkg.version}
    [] spec.kind = "package" /\ spec.state = "absent" -> dpkg.status \in {"not-installed", "config-files"}
    [] spec.kind = "package" /\ spec.state = "purged" -> dpkg.status = "not-installed"
    [] spec.kind = "key" /\ spec.state = "present" ->
         keyring # Missing /\ (spec.fingerprint => keyring = "expected")
    [] spec.kind = "key" /\ spec.state = "absent" -> keyring = Missing
    [] OTHER -> cacheAge # Missing /\ cacheAge < MaxAgeSec

\* An apply that reports a change of a package, or of a key with a fingerprint,
\* leaves what its spec asks for: after the first installation, after either
\* recovery and its retry, after a removal and after a verification, whatever
\* others did to the node since the plan.
AptChangedHolds ==
  [][(/\ aptPc # "done" /\ aptPc' = "done" /\ aptResult' = "changed"
      /\ aptPayload.kind = "package" \/ (aptPayload.kind = "key" /\ aptPayload.fingerprint))
     => AptSatisfied(aptPayload)']_aptVars

\* What a declared package comes to, once failures and foreign changes stop:
\* installed, from an interrupted dpkg and from empty lists as well, with one
\* recovery per run.
AptSettled ==
  (aptPayload.kind = "package" /\ aptPayload.state = "present" /\ aptPayload.downgrade) => AptSatisfied(aptPayload)
\* What a cache that grows old comes back to, again and again.
AptRenewed == aptPayload.kind = "cache" /\ AptSatisfied(aptPayload)
=============================================================================
