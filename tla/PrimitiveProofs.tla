--------------------------- MODULE PrimitiveProofs ---------------------------
(***************************************************************************)
(* The theorems about the primitives, for every value of the constants:    *)
(* what an apply that reports a change has left (AptChangedHolds) and how  *)
(* many commands it ran (AptOneRecovery), what the account tools are given *)
(* (AccountFieldsKept), what a visit to a service reports (ServiceVerdict) *)
(* and how often a statement takes effect (PgEffectsOnce); and that what   *)
(* is as declared stays so under the steps of bosun (AptSettled,           *)
(* UserSatisfied, GroupSatisfied, TrgSettled, PgSettled), and that a visit *)
(* to a service has an end of its own.                                     *)
(*                                                                         *)
(* Each part has its own invariant over the variables of one module; the   *)
(* modules share no variable.                                              *)
(***************************************************************************)
EXTENDS AptOps, Accounts, Services, PgSql, Triggers, TLAPS

-----------------------------------------------------------------------------
(* apt.package, apt.key and apt.update_cache *)

\* The payload never changes and is one of the three specs, of the kind of the
\* resource; each command belongs to one kind and one state of it.
AptPhases ==
  /\ aptPayload \in AptPackageSpec \cup AptKeySpec \cup AptUpdateCacheSpec
  /\ aptPayload.kind = aptKind
  /\ aptPc \in {"install", "retry", "configure", "update"} => aptKind = "package" /\ aptPayload.state = "present"
  /\ aptPc \in {"query", "remove"} => aptKind = "package" /\ aptPayload.state # "present"
  /\ aptPc \in {"obtain", "write", "verify"} => aptKind = "key" /\ aptPayload.state = "present"
  /\ aptPc \in {"fetch", "clean"} => aptKind = "cache"

\* A package, a key or a cache that is declared is one in the payload.
LEMMA AptStarts == AptInit => AptPhases
<1> SUFFICES ASSUME AptInit PROVE AptPhases
  OBVIOUS
<1>1. CASE aptKind = "package"
  <2>1. declared \in AptPackageSpec
    BY <1>1 DEF AptInit
  <2>2. PackagePayload(declared) \in AptPackageSpec
    BY <2>1 DEF PackagePayload, AptPackageSpec, AptPackageState
  <2>3. aptPayload \in AptPackageSpec
    BY <2>1, <2>2 DEF AptInit
  <2> QED
    BY <1>1, <2>3 DEF AptInit, AptPhases, AptPackageSpec
<1>2. CASE aptKind = "key"
  <2>1. aptPayload = declared /\ declared \in AptKeySpec
    BY <1>2 DEF AptInit
  <2> QED
    BY <1>2, <2>1 DEF AptInit, AptPhases, AptKeySpec
<1>3. CASE aptKind = "cache"
  <2>1. aptPayload = declared /\ declared \in AptUpdateCacheSpec
    BY <1>3 DEF AptInit
  <2> QED
    BY <1>3, <2>1 DEF AptInit, AptPhases, AptUpdateCacheSpec
<1> QED
  BY <1>1, <1>2, <1>3 DEF AptInit, AptKinds

\* No step changes what the resource is.
LEMMA AptSameResource ==
  ASSUME [AptNext]_aptVars
  PROVE  aptPayload' = aptPayload /\ aptKind' = aptKind /\ declared' = declared
BY DEF AptNext, AptStep, PlanPackage, RunPackage, RunInstall, InstallAttempt, RetryInstall, RunDpkgConfigureA,
       RunAptUpdateWithPolicy, RunRemove, RemoveOrPurgeAttempt, PlanKey, RunKey, RemoveKeyFails, ObtainKeyData,
       WriteKeyringAtomic, VerifyFingerprint, PlanCache, RunCache, BackendUpdate, CleanupOldDebs, NextAptRun,
       CheckCancelOrDeadline, KilledMidway, AptCrash, OthersUsePackage, TakeDpkgLock, ReleaseDpkgLock,
       OthersChangeKey, CacheAges, AptSame, aptVars

\* The next command is one of the same kind and state.
LEMMA AptStepPhases ==
  ASSUME AptPhases, [AptNext]_aptVars
  PROVE  AptPhases'
<1>1. aptPayload' = aptPayload /\ aptKind' = aptKind
  BY AptSameResource
<1>2. SUFFICES \/ aptPc' \in {"plan", "apply", "done"} \/ aptPc' = aptPc
               \/ aptPc' \in {"install", "retry", "configure", "update"} /\ aptKind = "package" /\ aptPayload.state = "present"
               \/ aptPc' \in {"query", "remove"} /\ aptKind = "package" /\ aptPayload.state # "present"
               \/ aptPc' \in {"obtain", "write", "verify"} /\ aptKind = "key" /\ aptPayload.state = "present"
               \/ aptPc' \in {"fetch", "clean"} /\ aptKind = "cache"
  BY <1>1 DEF AptPhases
<1>3. CASE PlanPackage \/ PlanKey \/ PlanCache
  BY <1>3 DEF PlanPackage, PlanKey, PlanCache, AptGoto, AptEnd
<1>4. CASE RunPackage
  BY <1>4 DEF RunPackage, AptGoto, AptEnd
<1>5. CASE RunInstall
  BY <1>5 DEF RunInstall, AptGoto, AptEnd, AptPhases
<1>6. CASE RetryInstall
  BY <1>6 DEF RetryInstall, AptEnd
<1>7. CASE RunDpkgConfigureA
  BY <1>7 DEF RunDpkgConfigureA, AptGoto, AptEnd, AptPhases
<1>8. CASE RunAptUpdateWithPolicy
  BY <1>8 DEF RunAptUpdateWithPolicy, AptGoto, AptEnd, AptPhases
<1>9. CASE RunRemove \/ RemoveOrPurgeAttempt
  BY <1>9 DEF RunRemove, RemoveOrPurgeAttempt, AptGoto, AptEnd, AptPhases
<1>10. CASE RunKey
  <2>1. CASE aptPc' = "obtain"
    <3>1. DecideKeyAction(keyring # Missing, aptPayload) = "Install" /\ aptKind = "key"
      BY <1>10, <2>1 DEF RunKey, AptEnd
    <3> QED
      BY <2>1, <3>1 DEF DecideKeyAction
  <2> QED
    BY <1>10, <2>1 DEF RunKey, AptGoto, AptEnd
<1>11. CASE RemoveKeyFails \/ ObtainKeyData \/ WriteKeyringAtomic \/ VerifyFingerprint
  BY <1>11 DEF RemoveKeyFails, ObtainKeyData, WriteKeyringAtomic, VerifyFingerprint, AptGoto, AptEnd, AptPhases
<1>12. CASE RunCache \/ BackendUpdate \/ CleanupOldDebs
  BY <1>12 DEF RunCache, BackendUpdate, CleanupOldDebs, AptGoto, AptEnd, AptPhases
<1>13. CASE \/ NextAptRun \/ KilledMidway \/ AptCrash
            \/ CheckCancelOrDeadline({"apply", "install", "retry", "configure", "update", "query", "remove", "fetch"})
  BY <1>13 DEF NextAptRun, KilledMidway, AptCrash, CheckCancelOrDeadline, AptEnd
<1>14. CASE \/ OthersUsePackage \/ TakeDpkgLock \/ ReleaseDpkgLock \/ OthersChangeKey \/ CacheAges
            \/ UNCHANGED aptVars
  BY <1>14 DEF OthersUsePackage, TakeDpkgLock, ReleaseDpkgLock, OthersChangeKey, CacheAges, aptVars
<1> QED
  BY <1>3, <1>4, <1>5, <1>6, <1>7, <1>8, <1>9, <1>10, <1>11, <1>12, <1>13, <1>14 DEF AptNext, AptStep

\* What can report a change: an installation that apt-get ended with 0, a
\* removal, a key that was removed or verified, and the cache.
LEMMA AptReportsChange ==
  ASSUME [AptNext]_aptVars, aptPc # "done", aptPc' = "done", aptResult' = "changed"
  PROVE  \/ aptPc \in {"install", "retry"} /\ InstallAttempt("ok")
         \/ RemoveOrPurgeAttempt /\ aptPc = "remove"
         \/ /\ RunKey /\ aptKind = "key" /\ keyring' = Missing
            /\ DecideKeyAction(keyring # Missing, aptPayload) = "Remove"
         \/ VerifyFingerprint
         \/ aptPc \in {"fetch", "clean"}
<1>1. CASE RunInstall \/ RetryInstall
  <2>1. \A answer \in {"ok", "interrupted", "candidate", "other"} :
          AnalyzeInstallResult(answer) = "Success" => answer = "ok"
    BY DEF AnalyzeInstallResult
  <2>2. CASE RunInstall
    BY <2>1, <2>2 DEF RunInstall, AptGoto, AptEnd
  <2>3. CASE RetryInstall
    BY <2>1, <2>3 DEF RetryInstall, AptEnd
  <2> QED
    BY <1>1, <2>2, <2>3
<1>2. CASE RemoveOrPurgeAttempt
  BY <1>2 DEF RemoveOrPurgeAttempt
<1>3. CASE RunKey
  BY <1>3 DEF RunKey, AptGoto, AptEnd
<1>4. CASE VerifyFingerprint
  BY <1>4
<1>5. CASE BackendUpdate \/ CleanupOldDebs
  BY <1>5 DEF BackendUpdate, CleanupOldDebs
<1>6. CASE \/ PlanPackage \/ RunPackage \/ RunDpkgConfigureA \/ RunAptUpdateWithPolicy \/ RunRemove
  BY <1>6 DEF PlanPackage, RunPackage, RunDpkgConfigureA, RunAptUpdateWithPolicy, RunRemove, AptGoto, AptEnd
<1>7. CASE PlanKey \/ RemoveKeyFails \/ ObtainKeyData \/ WriteKeyringAtomic \/ PlanCache \/ RunCache
  BY <1>7 DEF PlanKey, RemoveKeyFails, ObtainKeyData, WriteKeyringAtomic, PlanCache, RunCache, AptGoto, AptEnd
<1>8. CASE \/ NextAptRun \/ KilledMidway \/ AptCrash
           \/ CheckCancelOrDeadline({"apply", "install", "retry", "configure", "update", "query", "remove", "fetch"})
  BY <1>8 DEF NextAptRun, KilledMidway, AptCrash, CheckCancelOrDeadline, AptEnd
<1>9. CASE \/ OthersUsePackage \/ TakeDpkgLock \/ ReleaseDpkgLock \/ OthersChangeKey \/ CacheAges
           \/ UNCHANGED aptVars
  BY <1>9 DEF OthersUsePackage, TakeDpkgLock, ReleaseDpkgLock, OthersChangeKey, CacheAges, aptVars
<1> QED
  BY <1>1, <1>2, <1>3, <1>4, <1>5, <1>6, <1>7, <1>8, <1>9 DEF AptNext, AptStep

\* The step that reports a change leaves what the spec asks for.
LEMMA AptChangeIsThere ==
  ASSUME AptPhases, [AptNext]_aptVars, aptPc # "done", aptPc' = "done", aptResult' = "changed",
         aptPayload.kind = "package" \/ (aptPayload.kind = "key" /\ aptPayload.fingerprint)
  PROVE  AptSatisfied(aptPayload)'
<1>1. aptPayload' = aptPayload
  BY AptSameResource
<1>2. CASE aptPc \in {"install", "retry"} /\ InstallAttempt("ok")
  <2>1. aptPayload.kind = "package" /\ aptPayload.state = "present"
    BY <1>2 DEF AptPhases
  <2>2. PICK v : v \in (IF aptPayload.version = Latest THEN Versions ELSE {aptPayload.version})
                 /\ dpkg' = InstalledAs(v)
    BY <1>2 DEF InstallAttempt
  <2>3. dpkg'.status = "installed" /\ aptPayload.version \in {Latest, dpkg'.version}
    BY <2>2 DEF InstalledAs
  <2> QED
    BY <1>1, <2>1, <2>3 DEF AptSatisfied
<1>3. CASE RemoveOrPurgeAttempt /\ aptPc = "remove"
  <2>1. aptPayload.kind = "package" /\ aptPayload.state \in {"absent", "purged"}
    BY <1>3 DEF AptPhases, AptPackageSpec, AptPackageState, AptKeySpec, AptUpdateCacheSpec
  <2>2. dpkg' = [status |-> IF aptPayload.state = "purged" THEN "not-installed" ELSE "config-files",
                 version |-> Latest]
    BY <1>3 DEF RemoveOrPurgeAttempt, AptEnd
  <2> QED
    BY <1>1, <2>1, <2>2 DEF AptSatisfied
<1>4. CASE /\ aptKind = "key" /\ keyring' = Missing
           /\ DecideKeyAction(keyring # Missing, aptPayload) = "Remove"
  <2>1. aptPayload.kind = "key" /\ aptPayload.state = "absent"
    BY <1>4 DEF AptPhases, DecideKeyAction
  <2> QED
    BY <1>1, <1>4, <2>1 DEF AptSatisfied
<1>5. CASE VerifyFingerprint
  <2>1. aptPayload.kind = "key" /\ aptPayload.state = "present" /\ aptPayload.fingerprint
    BY <1>5 DEF AptPhases, VerifyFingerprint
  <2>2. keyring = "expected" /\ keyring # Missing /\ keyring' = keyring
    BY <1>5, <2>1, AptAssumption DEF VerifyFingerprint, AptEnd, nodeVars
  <2> QED
    BY <1>1, <2>1, <2>2 DEF AptSatisfied
<1>6. CASE aptPc \in {"fetch", "clean"}
  BY <1>6 DEF AptPhases
<1> QED
  BY <1>2, <1>3, <1>4, <1>5, <1>6, AptReportsChange

\* An apply that reports a change of a package, or of a key with a fingerprint,
\* leaves what its spec asks for, for every set of versions, every number of
\* attempts of apt-get update and any number of foreign changes.
THEOREM AptChangeHolds == AptSpec => AptChangedHolds
<1>1. AptInit => AptPhases
  BY AptStarts
<1>2. AptPhases /\ [AptNext]_aptVars => AptPhases'
  BY AptStepPhases
<1>3. AptPhases /\ [AptNext]_aptVars =>
        [(/\ aptPc # "done" /\ aptPc' = "done" /\ aptResult' = "changed"
          /\ aptPayload.kind = "package" \/ (aptPayload.kind = "key" /\ aptPayload.fingerprint))
           => AptSatisfied(aptPayload)']_aptVars
  BY AptChangeIsThere
<1> QED
  BY <1>1, <1>2, <1>3, PTL DEF AptSpec, AptChangedHolds

\* The recoveries of one apply: an installation is tried at most twice, and
\* between the two there is either one dpkg --configure -a or a series of at
\* most MaxAttempts apt-get update, never both; a removal is tried once and never
\* with an installation.
AptOneRecovery ==
  /\ ran["install"] <= 2 /\ ran["configure"] <= 1 /\ ran["update"] <= MaxAttempts /\ ran["remove"] <= 1
  /\ ran["install"] = 2 => (ran["configure"] = 1 <=> ran["update"] = 0)
  /\ ran["configure"] > 0 => ran["update"] = 0 /\ ran["install"] > 0
  /\ ran["remove"] > 0 => ran["install"] = 0 /\ ran["configure"] = 0 /\ ran["update"] = 0

\* What an apply has run when it is at a certain point.
AptBudget ==
  /\ ran \in [AptCommands -> Nat]
  /\ aptPc \in {"plan", "apply", "install", "query", "remove", "obtain", "write", "verify", "fetch"} => ran = NoCommands
  /\ aptPc \in {"configure", "update", "retry"} => ran["install"] = 1 /\ ran["remove"] = 0
  /\ aptPc = "configure" => ran["configure"] = 0 /\ ran["update"] = 0
  /\ aptPc = "update" => ran["configure"] = 0 /\ ran["update"] < MaxAttempts
  /\ aptPc = "retry" => (ran["configure"] = 1 <=> ran["update"] = 0)
  /\ AptOneRecovery

\* Every command that runs is counted, and no other count moves.
LEMMA OneMore ==
  ASSUME ran \in [AptCommands -> Nat], NEW c \in AptCommands, Ran(c)
  PROVE  /\ ran' \in [AptCommands -> Nat] /\ ran'[c] = ran[c] + 1
         /\ \A d \in AptCommands \ {c} : ran'[d] = ran[d]
BY DEF Ran

\* Nothing has run.
LEMMA NothingRan ==
  /\ NoCommands \in [AptCommands -> Nat]
  /\ NoCommands["install"] = 0 /\ NoCommands["configure"] = 0 /\ NoCommands["update"] = 0 /\ NoCommands["remove"] = 0
BY DEF NoCommands, AptCommands

\* A step that runs nothing and ends the apply, or stays, or goes where
\* nothing may have run from where nothing had.
LEMMA AptRunsNothing ==
  ASSUME AptBudget, ran' = ran,
         \/ aptPc' = aptPc \/ aptPc' = "done"
         \/ /\ ran = NoCommands
            /\ aptPc' \in {"plan", "apply", "install", "query", "remove", "obtain", "write", "verify", "fetch", "clean"}
  PROVE  AptBudget'
BY DEF AptBudget, AptOneRecovery

\* Each command is run from one point, and what it leaves is what the next point
\* may have behind it.
LEMMA AptStepBudget == ASSUME AptBudget, [AptNext]_aptVars  PROVE AptBudget'
<1> USE AptAssumption
<1>c. {"install", "configure", "update", "remove"} = AptCommands
  BY DEF AptCommands
<1>1. CASE RunInstall
  <2>1. ran = NoCommands /\ Ran("install") /\ aptPc' \in {"done", "configure", "update"}
    BY <1>1 DEF AptBudget, RunInstall, InstallAttempt, AptEnd, AptGoto
  <2>2. /\ ran' \in [AptCommands -> Nat] /\ ran'["install"] = 1
        /\ ran'["configure"] = 0 /\ ran'["update"] = 0 /\ ran'["remove"] = 0
    BY <2>1, <1>c, OneMore, NothingRan
  <2> QED
    BY <2>1, <2>2 DEF AptBudget, AptOneRecovery
<1>2. CASE RetryInstall
  <2>1. aptPc = "retry" /\ Ran("install") /\ aptPc' = "done"
    BY <1>2 DEF RetryInstall, InstallAttempt, AptEnd
  <2>2. /\ ran' \in [AptCommands -> Nat] /\ ran'["install"] = 2
        /\ ran'["configure"] = ran["configure"] /\ ran'["update"] = ran["update"] /\ ran'["remove"] = 0
    BY <2>1, <1>c, OneMore DEF AptBudget
  <2> QED
    BY <2>1, <2>2 DEF AptBudget, AptOneRecovery
<1>3. CASE RunDpkgConfigureA
  <2>1. aptPc = "configure" /\ Ran("configure") /\ aptPc' \in {"done", "retry"}
    BY <1>3 DEF RunDpkgConfigureA, AptEnd, AptGoto
  <2>2. /\ ran' \in [AptCommands -> Nat] /\ ran'["install"] = 1
        /\ ran'["configure"] = 1 /\ ran'["update"] = 0 /\ ran'["remove"] = 0
    BY <2>1, <1>c, OneMore DEF AptBudget
  <2> QED
    BY <2>1, <2>2 DEF AptBudget, AptOneRecovery
<1>4. CASE RunAptUpdateWithPolicy
  <2>1. /\ aptPc = "update" /\ Ran("update") /\ aptPc' \in {"done", "retry", "update"}
        /\ aptPc' = "update" => ran["update"] + 1 < MaxAttempts
    BY <1>4 DEF RunAptUpdateWithPolicy, AptEnd, AptGoto, AptUpdatePolicy
  <2>2. /\ ran' \in [AptCommands -> Nat] /\ ran'["install"] = 1
        /\ ran'["configure"] = 0 /\ ran'["update"] = ran["update"] + 1 /\ ran'["remove"] = 0
    BY <2>1, <1>c, OneMore DEF AptBudget
  <2>3. ran["update"] \in Nat /\ ran["update"] < MaxAttempts
    BY <2>1, <1>c DEF AptBudget
  <2> QED
    BY <2>1, <2>2, <2>3 DEF AptBudget, AptOneRecovery
<1>5. CASE RemoveOrPurgeAttempt
  <2>1. aptPc = "remove" /\ Ran("remove") /\ aptPc' = "done"
    BY <1>5 DEF RemoveOrPurgeAttempt, AptEnd
  <2>2. /\ ran' \in [AptCommands -> Nat] /\ ran'["install"] = 0
        /\ ran'["configure"] = 0 /\ ran'["update"] = 0 /\ ran'["remove"] = 1
    BY <2>1, <1>c, OneMore, NothingRan DEF AptBudget
  <2> QED
    BY <2>1, <2>2 DEF AptBudget, AptOneRecovery
<1>6. CASE BackendUpdate
  <2>1. aptPc = "fetch" /\ Ran("update") /\ aptPc' \in {"done", "clean"}
    BY <1>6 DEF BackendUpdate, AptEnd, AptGoto
  <2>2. /\ ran' \in [AptCommands -> Nat] /\ ran'["install"] = 0
        /\ ran'["configure"] = 0 /\ ran'["update"] = 1 /\ ran'["remove"] = 0
    BY <2>1, <1>c, OneMore, NothingRan DEF AptBudget
  <2> QED
    BY <2>1, <2>2 DEF AptBudget, AptOneRecovery
<1>7. CASE NextAptRun
  BY <1>7, NothingRan DEF NextAptRun, AptBudget, AptOneRecovery
<1>8. CASE PlanPackage \/ PlanKey \/ PlanCache \/ RunPackage \/ RunRemove
  BY <1>8, AptRunsNothing
  DEF AptBudget, PlanPackage, PlanKey, PlanCache, RunPackage, RunRemove, AptEnd, AptGoto, nodeVars
<1>9. CASE RunKey
  <2>1. ran' = ran /\ ran = NoCommands
    BY <1>9 DEF AptBudget, RunKey
  <2>2. aptPc' \in {"done", "obtain"}
    BY <1>9 DEF RunKey, AptEnd, AptGoto
  <2> QED
    BY <2>1, <2>2, AptRunsNothing
<1>10. CASE RemoveKeyFails \/ ObtainKeyData \/ WriteKeyringAtomic \/ VerifyFingerprint \/ RunCache \/ CleanupOldDebs
  BY <1>10, AptRunsNothing
  DEF AptBudget, RemoveKeyFails, ObtainKeyData, WriteKeyringAtomic, VerifyFingerprint, RunCache, CleanupOldDebs,
      AptEnd, AptGoto, nodeVars
<1>11. CASE \/ CheckCancelOrDeadline({"apply", "install", "retry", "configure", "update", "query", "remove", "fetch"})
            \/ KilledMidway \/ AptCrash
  BY <1>11, AptRunsNothing DEF CheckCancelOrDeadline, KilledMidway, AptCrash, AptEnd
<1>12. CASE \/ OthersUsePackage \/ TakeDpkgLock \/ ReleaseDpkgLock \/ OthersChangeKey \/ CacheAges
            \/ UNCHANGED aptVars
  BY <1>12, AptRunsNothing
  DEF OthersUsePackage, TakeDpkgLock, ReleaseDpkgLock, OthersChangeKey, CacheAges, aptVars
<1> QED
  BY <1>1, <1>2, <1>3, <1>4, <1>5, <1>6, <1>7, <1>8, <1>9, <1>10, <1>11, <1>12 DEF AptNext, AptStep

\* Nothing has run at first.
LEMMA AptStartBudget == AptInit => AptBudget
BY NothingRan, AptAssumption DEF AptInit, AptBudget, AptOneRecovery

\* One apply of a package runs at most two installations and one recovery
\* between them, for every number of attempts of apt-get update, whatever fails
\* and whatever others do to the node.
THEOREM AptRecoversOnce == AptSpec => []AptOneRecovery
<1>1. AptInit => AptBudget
  BY AptStartBudget
<1>2. AptBudget /\ [AptNext]_aptVars => AptBudget'
  BY AptStepBudget
<1>3. AptBudget => AptOneRecovery
  BY DEF AptBudget
<1> QED
  BY <1>1, <1>2, <1>3, PTL DEF AptSpec

\* What is declared and what the payload makes of it stay as they are; the
\* node and the bookkeeping of the apply keep their types.
AptNodeTypes ==
  /\ dpkg \in Dpkg /\ lists \in BOOLEAN /\ held \in BOOLEAN
  /\ keyring \in Keyrings /\ served \in Keyrings \ {Missing}
  /\ cacheAge \in 0..MaxAge \cup {Missing} /\ debs \in SUBSET (0..MaxAge)
AptApplyTypes ==
  /\ aptPc \in {"plan", "apply", "install", "retry", "configure", "query", "remove",
                "obtain", "write", "verify", "fetch", "update", "clean", "done"}
  /\ aptDiff \in Diff /\ aptResult \in Outcomes /\ aptFaults \in 0..MaxFaults
AptDeclaredTypes ==
  /\ aptKind \in AptKinds
  /\ declared \in AptPackageSpec \cup AptKeySpec \cup AptUpdateCacheSpec
  /\ aptPayload \in AptPackageSpec \cup AptKeySpec \cup AptUpdateCacheSpec
  /\ declared.kind = aptKind /\ aptPayload.kind = aptKind

\* The budget bounds the counts.
LEMMA AptTypesTogether ==
  ASSUME AptDeclaredTypes, AptNodeTypes, AptApplyTypes, AptBudget  PROVE AptTypeOK
<1> USE AptAssumption
<1>1. ran \in [AptCommands -> 0..(MaxAttempts + 2)]
  <2>1. \A c \in AptCommands : ran[c] \in 0..(MaxAttempts + 2)
    BY DEF AptBudget, AptOneRecovery, AptCommands
  <2> QED
    BY <2>1 DEF AptBudget
<1> QED
  BY <1>1 DEF AptTypeOK, AptDeclaredTypes, AptNodeTypes, AptApplyTypes

\* What dpkg can be set to is a state of dpkg.
LEMMA DpkgWords ==
  /\ \A v \in Versions : InstalledAs(v) \in Dpkg
  /\ \A s \in DpkgStatus : [status |-> s, version |-> Latest] \in Dpkg
BY DEF InstalledAs, Dpkg, DpkgStatus

\* What an apply or somebody else makes of dpkg.
LEMMA AptDpkgStep == ASSUME AptPhases, dpkg \in Dpkg, [AptNext]_aptVars PROVE dpkg' \in Dpkg
<1> DEFINE half == [status |-> "half", version |-> Latest]
<1>0. half \in Dpkg
  BY DpkgWords DEF DpkgStatus
<1>1. CASE RunInstall \/ RetryInstall
  <2>1. PICK answer \in {"ok", "interrupted", "candidate", "other"} : InstallAttempt(answer)
    BY <1>1 DEF RunInstall, RetryInstall
  <2>2. aptPayload \in AptPackageSpec
    BY <1>1 DEF RunInstall, RetryInstall, AptPhases, AptKeySpec, AptUpdateCacheSpec
  <2>3. aptPayload.version \in Versions \cup {Latest}
    BY <2>2 DEF AptPackageSpec
  <2> QED
    BY <2>1, <2>3, DpkgWords DEF InstallAttempt
<1>2. CASE RunDpkgConfigureA
  BY <1>2, DpkgWords DEF RunDpkgConfigureA
<1>3. CASE RemoveOrPurgeAttempt
  <2>1. dpkg' = dpkg \/ \E s \in {"not-installed", "config-files"} : dpkg' = [status |-> s, version |-> Latest]
    BY <1>3 DEF RemoveOrPurgeAttempt
  <2> QED
    BY <2>1, DpkgWords DEF DpkgStatus
<1>4. CASE KilledMidway
  BY <1>4, <1>0 DEF KilledMidway
<1>5. CASE OthersUsePackage
  BY <1>5, DpkgWords DEF OthersUsePackage, Dpkg, DpkgStatus
<1>6. CASE dpkg' = dpkg
  BY <1>6
<1>7. CASE \/ PlanPackage \/ RunPackage \/ RunAptUpdateWithPolicy \/ RunRemove \/ PlanKey \/ RunKey \/ RemoveKeyFails
           \/ ObtainKeyData \/ WriteKeyringAtomic \/ VerifyFingerprint \/ PlanCache \/ RunCache \/ BackendUpdate
           \/ CleanupOldDebs \/ NextAptRun
  BY <1>7 DEF PlanPackage, RunPackage, RunAptUpdateWithPolicy, RunRemove, PlanKey, RunKey, RemoveKeyFails, ObtainKeyData,
              WriteKeyringAtomic, VerifyFingerprint, PlanCache, RunCache, BackendUpdate, CleanupOldDebs, NextAptRun, nodeVars
<1>8. CASE \/ CheckCancelOrDeadline({"apply", "install", "retry", "configure", "update", "query", "remove", "fetch"})
           \/ AptCrash \/ TakeDpkgLock \/ ReleaseDpkgLock \/ OthersChangeKey \/ CacheAges \/ UNCHANGED aptVars
  BY <1>8 DEF CheckCancelOrDeadline, AptCrash, TakeDpkgLock, ReleaseDpkgLock, OthersChangeKey, CacheAges, nodeVars, aptVars
<1> QED
  BY <1>1, <1>2, <1>3, <1>4, <1>5, <1>7, <1>8 DEF AptNext, AptStep

\* Everything else on the node.
LEMMA AptNodeStep == ASSUME AptPhases, AptNodeTypes, [AptNext]_aptVars PROVE AptNodeTypes'
<1> USE AptAssumption
<1>0. dpkg' \in Dpkg
  BY AptDpkgStep DEF AptNodeTypes
<1> SUFFICES /\ lists' \in BOOLEAN /\ held' \in BOOLEAN
             /\ keyring' \in Keyrings /\ served' \in Keyrings \ {Missing}
             /\ cacheAge' \in 0..MaxAge \cup {Missing} /\ debs' \in SUBSET (0..MaxAge)
  BY <1>0 DEF AptNodeTypes
<1> USE DEF AptNodeTypes
<1>1. CASE PlanPackage \/ RunPackage \/ RunRemove \/ PlanKey \/ ObtainKeyData \/ VerifyFingerprint \/ PlanCache \/ RunCache
           \/ NextAptRun
  BY <1>1 DEF PlanPackage, RunPackage, RunRemove, PlanKey, ObtainKeyData, VerifyFingerprint, PlanCache, RunCache,
              NextAptRun, nodeVars
<1>2. CASE \/ RunInstall \/ RetryInstall \/ RunDpkgConfigureA \/ RunAptUpdateWithPolicy \/ RemoveOrPurgeAttempt
  BY <1>2 DEF RunInstall, RetryInstall, InstallAttempt, RunDpkgConfigureA, RunAptUpdateWithPolicy, RemoveOrPurgeAttempt
<1>3. CASE RunKey \/ RemoveKeyFails \/ WriteKeyringAtomic
  BY <1>3 DEF RunKey, RemoveKeyFails, WriteKeyringAtomic, Keyrings
<1>4. CASE BackendUpdate
  BY <1>4 DEF BackendUpdate
<1>5. CASE CleanupOldDebs
  BY <1>5 DEF CleanupOldDebs, OldDebs
<1>6. CASE CheckCancelOrDeadline({"apply", "install", "retry", "configure", "update", "query", "remove", "fetch"})
           \/ AptCrash \/ KilledMidway
  BY <1>6 DEF CheckCancelOrDeadline, AptCrash, KilledMidway, nodeVars
<1>7. CASE OthersUsePackage \/ TakeDpkgLock \/ ReleaseDpkgLock \/ OthersChangeKey
  BY <1>7 DEF OthersUsePackage, TakeDpkgLock, ReleaseDpkgLock, OthersChangeKey
<1>8. CASE CacheAges
  <2>1. cacheAge' \in {0, Missing} \/ (cacheAge # Missing /\ cacheAge < MaxAge /\ cacheAge' = cacheAge + 1)
    BY <1>8 DEF CacheAges
  <2>2. cacheAge' \in 0..MaxAge \cup {Missing}
    BY <2>1
  <2> QED
    BY <1>8, <2>2 DEF CacheAges
<1>9. CASE UNCHANGED aptVars
  BY <1>9 DEF aptVars, nodeVars
<1> QED
  BY <1>1, <1>2, <1>3, <1>4, <1>5, <1>6, <1>7, <1>8, <1>9 DEF AptNext, AptStep

\* Where an apply is and how it ends.
LEMMA AptApplyStep == ASSUME AptApplyTypes, [AptNext]_aptVars PROVE AptApplyTypes'
<1> USE AptAssumption DEF AptApplyTypes, Outcomes, Diff, AptSame, AptFault, NoAptFault
<1>1. CASE PlanPackage \/ PlanKey \/ PlanCache \/ NextAptRun
  BY <1>1 DEF PlanPackage, PlanKey, PlanCache, NextAptRun, AptGoto, AptEnd, DiffAgainstKnown, UnknownFactsFallback, DiffPresent, DiffAbsent, DiffPurged
<1>2. CASE RunPackage \/ RunRemove \/ RunCache
  BY <1>2 DEF RunPackage, RunRemove, RunCache, AptGoto, AptEnd
<1>3. CASE RunInstall \/ RetryInstall
  BY <1>3 DEF RunInstall, RetryInstall, InstallAttempt, AptGoto, AptEnd
<1>4. CASE RunDpkgConfigureA \/ RunAptUpdateWithPolicy \/ RemoveOrPurgeAttempt
  BY <1>4 DEF RunDpkgConfigureA, RunAptUpdateWithPolicy, RemoveOrPurgeAttempt, AptGoto, AptEnd
<1>5. CASE RunKey
  BY <1>5 DEF RunKey, AptGoto, AptEnd
<1>6. CASE RemoveKeyFails \/ ObtainKeyData \/ WriteKeyringAtomic \/ VerifyFingerprint
  BY <1>6 DEF RemoveKeyFails, ObtainKeyData, WriteKeyringAtomic, VerifyFingerprint, AptGoto, AptEnd
<1>7. CASE BackendUpdate \/ CleanupOldDebs
  BY <1>7 DEF BackendUpdate, CleanupOldDebs, AptGoto, AptEnd
<1>8. CASE CheckCancelOrDeadline({"apply", "install", "retry", "configure", "update", "query", "remove", "fetch"}) \/ AptCrash \/ KilledMidway
  BY <1>8 DEF CheckCancelOrDeadline, AptCrash, KilledMidway, AptEnd
<1>9. CASE OthersUsePackage \/ TakeDpkgLock \/ ReleaseDpkgLock \/ OthersChangeKey \/ CacheAges \/ UNCHANGED aptVars
  BY <1>9 DEF OthersUsePackage, TakeDpkgLock, ReleaseDpkgLock, OthersChangeKey, CacheAges, aptVars
<1> QED
  BY <1>1, <1>2, <1>3, <1>4, <1>5, <1>6, <1>7, <1>8, <1>9 DEF AptNext, AptStep

\* What the node can be when the resource is first planned.
LEMMA AptStartTypes == AptInit => AptDeclaredTypes /\ AptNodeTypes /\ AptApplyTypes
<1> USE AptAssumption
<1> SUFFICES ASSUME AptInit PROVE AptDeclaredTypes /\ AptNodeTypes /\ AptApplyTypes
  OBVIOUS
<1>1. AptDeclaredTypes
  <2>1. CASE aptKind = "package"
    <3>1. declared \in AptPackageSpec
      BY <2>1 DEF AptInit
    <3>2. PackagePayload(declared) \in AptPackageSpec
      BY <3>1 DEF PackagePayload, AptPackageSpec, AptPackageState
    <3> QED
      BY <2>1, <3>1, <3>2 DEF AptInit, AptDeclaredTypes, AptPackageSpec
  <2>2. CASE aptKind = "key"
    <3>1. declared \in AptKeySpec
      BY <2>2 DEF AptInit
    <3> QED
      BY <2>2, <3>1 DEF AptInit, AptDeclaredTypes, AptKeySpec
  <2>3. CASE aptKind = "cache"
    <3>1. declared \in AptUpdateCacheSpec
      BY <2>3 DEF AptInit
    <3> QED
      BY <2>3, <3>1 DEF AptInit, AptDeclaredTypes, AptUpdateCacheSpec
  <2> QED
    BY <2>1, <2>2, <2>3 DEF AptInit, AptKinds
<1>2. dpkg \in Dpkg
  BY DpkgWords DEF AptInit, DpkgStatus
<1>3. AptNodeTypes
  BY <1>2 DEF AptInit, AptNodeTypes, Keyrings
<1>4. AptApplyTypes
  BY DEF AptInit, AptApplyTypes, Diff, Outcomes
<1> QED
  BY <1>1, <1>3, <1>4

\* The types of apt.package, apt.key and apt.update_cache; for the counts of the
\* commands they are the budget of an apply.
THEOREM AptTypes == AptSpec => []AptTypeOK
<1> DEFINE Inv == AptPhases /\ AptBudget /\ AptDeclaredTypes /\ AptNodeTypes /\ AptApplyTypes
<1>1. AptInit => Inv
  BY AptStarts, AptStartTypes, AptStartBudget
<1>2. Inv /\ [AptNext]_aptVars => Inv'
  <2> SUFFICES ASSUME Inv, [AptNext]_aptVars PROVE Inv'
    OBVIOUS
  <2>1. AptPhases' /\ AptBudget' /\ AptNodeTypes' /\ AptApplyTypes'
    BY AptStepPhases, AptStepBudget, AptNodeStep, AptApplyStep
  <2>2. UNCHANGED <<aptKind, declared, aptPayload>>
    BY AptSameResource
  <2> QED
    BY <2>1, <2>2 DEF AptDeclaredTypes
<1>3. Inv => AptTypeOK
  BY AptTypesTogether
<1> QED
  BY <1>1, <1>2, <1>3, PTL DEF AptSpec

\* What a run itself does to a package: an installation, which can only give it
\* a version that is asked for, or dpkg --configure -a, which leaves it alone.
LEMMA AptKeepsSettled == ASSUME AptPhases, AptStep, AptSettled  PROVE AptSettled'
<1> USE AptAssumption
<1>0. UNCHANGED <<aptPayload, aptKind>>
  BY AptSameResource DEF AptNext
<1> SUFFICES ASSUME aptPayload.kind = "package", aptPayload.state = "present", aptPayload.downgrade
             PROVE  AptSatisfied(aptPayload)'
  BY <1>0 DEF AptSettled
<1>1. dpkg.status = "installed" /\ aptPayload.version \in {Latest, dpkg.version}
  BY DEF AptSettled, AptSatisfied
<1>2. AptSatisfied(aptPayload)' = (dpkg'.status = "installed" /\ aptPayload.version \in {Latest, dpkg'.version})
  BY <1>0 DEF AptSatisfied
<1>3. CASE dpkg' = dpkg
  BY <1>1, <1>2, <1>3
<1>4. CASE RunInstall \/ RetryInstall
  <2>1. PICK answer \in {"ok", "interrupted", "candidate", "other"} : InstallAttempt(answer)
    BY <1>4 DEF RunInstall, RetryInstall
  <2>2. CASE answer = "ok"
    <3>1. PICK v \in IF aptPayload.version = Latest THEN Versions ELSE {aptPayload.version} : dpkg' = InstalledAs(v)
      BY <2>1, <2>2 DEF InstallAttempt
    <3> QED
      BY <1>2, <3>1 DEF InstalledAs
  <2>3. CASE answer # "ok"
    BY <1>3, <2>1, <2>3 DEF InstallAttempt
  <2> QED
    BY <2>2, <2>3
<1>5. CASE RunDpkgConfigureA
  BY <1>1, <1>3, <1>5 DEF RunDpkgConfigureA
<1>6. CASE RemoveOrPurgeAttempt
  BY <1>6 DEF RemoveOrPurgeAttempt, AptPhases
<1>7. CASE \/ PlanPackage \/ RunPackage \/ RunAptUpdateWithPolicy \/ RunRemove \/ PlanKey \/ RunKey \/ RemoveKeyFails
           \/ ObtainKeyData \/ WriteKeyringAtomic \/ VerifyFingerprint \/ PlanCache \/ RunCache \/ BackendUpdate
           \/ CleanupOldDebs \/ NextAptRun
  <2>1. dpkg' = dpkg
    BY <1>7 DEF PlanPackage, RunPackage, RunAptUpdateWithPolicy, RunRemove, PlanKey, RunKey, RemoveKeyFails, ObtainKeyData,
                WriteKeyringAtomic, VerifyFingerprint, PlanCache, RunCache, BackendUpdate, CleanupOldDebs, NextAptRun, nodeVars
  <2> QED
    BY <1>3, <2>1
<1> QED
  BY <1>4, <1>5, <1>6, <1>7 DEF AptStep

\* A package that is as declared stays so under whatever the runs do to it: also
\* when the fact is not known and the package is installed once more.
THEOREM AptStaysSettled == AptSpec => [][AptStep => (AptSettled => AptSettled')]_aptVars
<1>1. AptInit => AptPhases
  BY AptStarts
<1>2. AptPhases /\ [AptNext]_aptVars => AptPhases'
  BY AptStepPhases
<1>3. AptPhases /\ [AptNext]_aptVars => [AptStep => (AptSettled => AptSettled')]_aptVars
  BY AptKeepsSettled
<1> QED
  BY <1>1, <1>2, <1>3, PTL DEF AptSpec

-----------------------------------------------------------------------------
(* users.user and users.group *)

\* The entries and the specs are of their types.
AccShape ==
  /\ userSpec \in UserSpec /\ groupSpec \in GroupSpec
  /\ passwd \in UserInfo \cup {NoEntry} /\ grp \in AccValue \cup {NoEntry}
  /\ accFaults \in Nat

\* The command that apply decided on says nothing that is not declared, also
\* when the entry it was decided from is not there any more.
CommandDeclared ==
  \/ accCmd.tool = "useradd" /\ userSpec.state = "present" /\ accCmd.opts = userSpec.opts
  \/ /\ accCmd.tool = "usermod"
     /\ \A f \in AccountFields : accCmd.opts[f] \in {Unset, userSpec.opts[f]}
  \/ accCmd.tool = "userdel" /\ userSpec.state = "absent"
  \/ accCmd.tool = "groupadd" /\ groupSpec.state = "present" /\ accCmd.opts["group"] = groupSpec.gid
  \/ accCmd.tool = "groupmod" /\ accCmd.opts["group"] = groupSpec.gid /\ groupSpec.gid # Unset
  \/ accCmd.tool = "groupdel" /\ groupSpec.state = "absent"

AccInv == AccShape /\ (accPc = "exec" => CommandDeclared)

\* An account is never taken for a missing one.
LEMMA EntriesApart ==
  NoEntry \notin UserInfo /\ NoEntry \notin AccValue /\ Unset \notin AccValue
BY AccountsAssumption DEF UserInfo, AccValue

\* What a tool may write, given a command that says only what is declared.
LEMMA ToolWritesDeclared ==
  ASSUME AccShape, CommandDeclared, RequireRoot, ~Refuses(accCmd), ToolWrites(accCmd),
         UNCHANGED accSpecs
  PROVE  /\ passwd' \in UserInfo \cup {NoEntry} /\ grp' \in AccValue \cup {NoEntry}
         /\ (passwd # NoEntry /\ passwd' # NoEntry) =>
              \A f \in AccountFields : passwd'[f] \in {passwd[f], userSpec.opts[f]}
         /\ (passwd # NoEntry /\ passwd' = NoEntry) => userSpec.state = "absent"
         /\ (passwd = NoEntry /\ passwd' # NoEntry) => UserSatisfied'
         /\ (grp # NoEntry /\ grp' = NoEntry) => groupSpec.state = "absent"
         /\ (grp' # grp /\ grp' # NoEntry) => grp' = groupSpec.gid \/ grp = NoEntry
<1>1. /\ userSpec' = userSpec /\ groupSpec' = groupSpec /\ "group" \in AccountFields
      /\ userSpec.opts \in [AccountFields -> AccValue \cup {Unset}]
      /\ groupSpec.gid \in AccValue \cup {Unset}
  BY AccountsAssumption DEF accSpecs, AccShape, UserSpec, GroupSpec
<1>2. CASE accCmd.tool = "useradd"
  <2>1. /\ accCmd.opts = userSpec.opts /\ userSpec.state = "present"
        /\ passwd = NoEntry /\ (userSpec.opts["group"] = 1 => grp # NoEntry)
    BY <1>2 DEF CommandDeclared, Refuses, GroupGiven
  <2>2. /\ passwd' \in UserInfo /\ grp' = grp
        /\ \A f \in AccountFields : userSpec.opts[f] # Unset => passwd'[f] = userSpec.opts[f]
    BY <1>2, <2>1 DEF ToolWrites
  <2>3. passwd' \in [AccountFields -> 0..2]
    BY <2>2 DEF UserInfo
  <2>4. ASSUME NEW f \in AccountFields, userSpec.opts[f] # Unset
        PROVE  LookupUser'[f] = userSpec.opts[f]
    <3>1. passwd' # NoEntry
      BY <2>2, EntriesApart
    <3>2. LookupUser' = [passwd' EXCEPT !["group"] = IF GroupResolves(passwd)' THEN @ ELSE 0]
      BY <3>1 DEF LookupUser
    <3>3. CASE f # "group"
      BY <2>2, <2>3, <2>4, <3>2, <3>3
    <3>4. CASE f = "group"
      <4>1. GroupResolves(passwd)'
        BY <2>1, <2>2, <2>4, <3>4 DEF GroupResolves
      <4> QED
        BY <1>1, <2>2, <2>3, <2>4, <3>2, <3>4, <4>1
    <3> QED
      BY <3>3, <3>4
  <2>5. CollectDiffs(userSpec, LookupUser)' = {}
    BY <1>1, <2>4 DEF CollectDiffs
  <2>6. UserSatisfied'
    BY <1>1, <2>1, <2>2, <2>5, EntriesApart DEF UserSatisfied
  <2> QED
    BY <2>1, <2>2, <2>6 DEF AccShape
<1>3. CASE accCmd.tool = "usermod"
  <2>1. passwd \in UserInfo /\ (accCmd.opts["group"] = 1 => grp # NoEntry)
    BY <1>3 DEF Refuses, GroupGiven, AccShape
  <2>2. /\ passwd' = [f \in AccountFields |-> IF accCmd.opts[f] # Unset THEN accCmd.opts[f] ELSE passwd[f]]
        /\ grp' = grp
    BY <1>3 DEF ToolWrites
  <2>3. \A f \in AccountFields : accCmd.opts[f] \in {Unset, userSpec.opts[f]}
    BY <1>3 DEF CommandDeclared
  <2>4. passwd' \in UserInfo
    <3>1. passwd \in [AccountFields -> 0..2] /\ \A f \in AccountFields \ {"group"} : passwd[f] # 0
      BY <2>1 DEF UserInfo
    <3>2. \A f \in AccountFields : accCmd.opts[f] # Unset => accCmd.opts[f] \in AccValue
      BY <1>1, <2>3
    <3>3. \A f \in AccountFields : passwd'[f] \in 0..2 /\ (f # "group" => passwd'[f] # 0)
      BY <2>2, <3>1, <3>2 DEF AccValue
    <3> QED
      BY <2>2, <3>3 DEF UserInfo
  <2> QED
    BY <2>1, <2>2, <2>3, <2>4, EntriesApart DEF AccShape
<1>4. CASE accCmd.tool = "userdel"
  BY <1>4 DEF ToolWrites, CommandDeclared, AccShape, Refuses
<1>5. CASE accCmd.tool = "groupadd"
  <2>1. passwd' = passwd /\ grp' \in AccValue /\ grp = NoEntry
    BY <1>1, <1>5 DEF ToolWrites, CommandDeclared, Refuses
  <2> QED
    BY <2>1, EntriesApart DEF AccShape
<1>6. CASE accCmd.tool = "groupmod"
  <2>1. passwd' = passwd /\ grp' = groupSpec.gid /\ grp' \in AccValue
    BY <1>1, <1>6 DEF ToolWrites, CommandDeclared
  <2> QED
    BY <2>1, EntriesApart DEF AccShape
<1>7. CASE accCmd.tool = "groupdel"
  BY <1>7 DEF ToolWrites, CommandDeclared, AccShape
<1> QED
  BY <1>2, <1>3, <1>4, <1>5, <1>6, <1>7 DEF CommandDeclared

\* What apply decides from the entry it looked up, for the user.
LEMMA UserCommand ==
  ASSUME AccInv, RunUser
  PROVE  accPc' = "exec" => CommandDeclared'
<1>1. userSpec' = userSpec /\ groupSpec' = groupSpec /\ userSpec.state \in {"present", "absent"}
  BY DEF RunUser, accSpecs, AccInv, AccShape, UserSpec, UserState
<1> SUFFICES ASSUME accPc' = "exec" PROVE CommandDeclared'
  OBVIOUS
<1>2. PICK current : current = LookupUser
  OBVIOUS
<1>3. PICK action : action = DecideActionUser(userSpec, current)
  OBVIOUS
<1>4. /\ action # "NoChange"
      /\ accCmd' = CASE action = "Create" -> UseraddArgv(userSpec)
                     [] action = "Update" -> UsermodArgv(userSpec, current)
                     [] OTHER -> UserdelArgv
  BY <1>2, <1>3 DEF RunUser, AccEnd
<1>5. CASE action = "Create"
  <2>1. userSpec.state = "present"
    BY <1>3, <1>5 DEF DecideActionUser
  <2> QED
    BY <1>1, <1>4, <1>5, <2>1 DEF UseraddArgv, CommandDeclared
<1>6. CASE action = "Update"
  <2>1. accCmd' = UsermodArgv(userSpec, current)
    BY <1>4, <1>6
  <2>2. \A f \in AccountFields : accCmd'.opts[f] \in {Unset, userSpec.opts[f]}
    BY <2>1 DEF UsermodArgv, BuildUsermodOpts
  <2> QED
    BY <1>1, <2>1, <2>2 DEF UsermodArgv, CommandDeclared
<1>7. CASE action \notin {"Create", "Update"}
  <2>1. userSpec.state = "absent"
    BY <1>1, <1>3, <1>4, <1>7 DEF DecideActionUser
  <2> QED
    BY <1>1, <1>4, <1>7, <2>1 DEF UserdelArgv, NoCmd, CommandDeclared
<1> QED
  BY <1>5, <1>6, <1>7

\* What apply decides from the entry it looked up, for the group.
LEMMA GroupCommand ==
  ASSUME AccInv, RunGroup
  PROVE  accPc' = "exec" => CommandDeclared'
<1>1. userSpec' = userSpec /\ groupSpec' = groupSpec /\ groupSpec.state \in {"present", "absent"}
      /\ "group" \in AccountFields
  BY AccountsAssumption DEF RunGroup, accSpecs, AccInv, AccShape, GroupSpec, UserState
<1> SUFFICES ASSUME accPc' = "exec" PROVE CommandDeclared'
  OBVIOUS
<1>2. PICK action : action = DecideActionGroup(groupSpec, grp)
  OBVIOUS
<1>3. /\ action # "NoChange"
      /\ accCmd' = CASE action = "Create" -> GroupaddArgv(groupSpec)
                     [] action = "Update" -> GroupmodArgv(groupSpec)
                     [] OTHER -> GroupdelArgv
  BY <1>2 DEF RunGroup, AccEnd, LookupGroup
<1>4. CASE action = "Create"
  <2>1. groupSpec.state = "present"
    BY <1>2, <1>4 DEF DecideActionGroup
  <2> QED
    BY <1>1, <1>3, <1>4, <2>1 DEF GroupaddArgv, GroupOpts, CommandDeclared
<1>5. CASE action = "Update"
  <2>1. groupSpec.gid # Unset
    BY <1>2, <1>5 DEF DecideActionGroup
  <2> QED
    BY <1>1, <1>3, <1>5, <2>1 DEF GroupmodArgv, GroupOpts, CommandDeclared
<1>6. CASE action \notin {"Create", "Update"}
  <2>1. groupSpec.state = "absent"
    BY <1>1, <1>2, <1>3, <1>6 DEF DecideActionGroup
  <2> QED
    BY <1>1, <1>3, <1>6, <2>1 DEF GroupdelArgv, NoCmd, CommandDeclared
<1> QED
  BY <1>4, <1>5, <1>6

\* Every step keeps the types, and a command is decided by the two lookups only.
LEMMA AccStepInv ==
  ASSUME AccInv, [AccNext]_accVars
  PROVE  AccInv'
<1>1. CASE PlanUser \/ PlanGroup \/ NextAccRun \/ UNCHANGED accVars
  BY <1>1 DEF PlanUser, PlanGroup, AccPlan, AccEnd, NextAccRun, accVars, accSpecs, AccInv, AccShape, CommandDeclared
<1>2. CASE RunUser
  <2>1. AccShape'
    BY <1>2 DEF RunUser, accSpecs, AccInv, AccShape
  <2> QED
    BY <1>2, <2>1, UserCommand DEF AccInv
<1>3. CASE RunGroup
  <2>1. AccShape'
    BY <1>3 DEF RunGroup, accSpecs, AccInv, AccShape
  <2> QED
    BY <1>3, <2>1, GroupCommand DEF AccInv
<1>4. CASE RunCommand
  <2>1. accPc = "exec" /\ accPc' = "plan" /\ UNCHANGED accSpecs /\ accFaults' = accFaults
    BY <1>4 DEF RunCommand, AccEnd
  <2>2. passwd' \in UserInfo \cup {NoEntry} /\ grp' \in AccValue \cup {NoEntry}
    <3>1. CASE RequireRoot /\ ~Refuses(accCmd)
      BY <1>4, <2>1, <3>1, ToolWritesDeclared DEF RunCommand, AccInv
    <3>2. CASE ~(RequireRoot /\ ~Refuses(accCmd))
      BY <1>4, <3>2 DEF RunCommand, AccInv, AccShape
    <3> QED
      BY <3>1, <3>2
  <2> QED
    BY <2>1, <2>2 DEF AccInv, AccShape, accSpecs
<1>5. CASE AccCrash
  <2>1. accPc = "exec" /\ accPc' = "plan" /\ UNCHANGED accSpecs /\ accFaults' = accFaults + 1
    BY <1>5 DEF AccCrash, AccFault
  <2>2. passwd' \in UserInfo \cup {NoEntry} /\ grp' \in AccValue \cup {NoEntry}
    <3>1. CASE RequireRoot /\ ~Refuses(accCmd)
      BY <1>5, <2>1, <3>1, ToolWritesDeclared DEF AccCrash, AccInv
    <3>2. CASE ~(RequireRoot /\ ~Refuses(accCmd))
      BY <1>5, <3>2 DEF AccCrash, AccInv, AccShape
    <3> QED
      BY <3>1, <3>2
  <2> QED
    BY <2>1, <2>2 DEF AccInv, AccShape, accSpecs
<1>6. CASE LookupFails \/ CommandFails
  BY <1>6 DEF LookupFails, CommandFails, AccEnd, AccFault, accSpecs, AccInv, AccShape
<1>7. CASE OthersEditAccounts
  BY <1>7 DEF OthersEditAccounts, AccFault, accSpecs, AccInv, AccShape, CommandDeclared
<1> QED
  BY <1>1, <1>2, <1>3, <1>4, <1>5, <1>6, <1>7 DEF AccNext, AccStep

\* A run gives a field of an account only a declared value, takes an account or
\* a group away only if it is declared absent, and writes what it creates as
\* declared, for every set of fields and any number of foreign changes between
\* the lookup and the tool.
THEOREM AccountsKept == AccSpec => AccountFieldsKept
<1> DEFINE Kept ==
      (accPc = "exec" /\ accFaults' = accFaults) =>
         /\ (passwd # NoEntry /\ passwd' # NoEntry) =>
              \A f \in AccountFields : passwd'[f] \in {passwd[f], userSpec.opts[f]}
         /\ (passwd # NoEntry /\ passwd' = NoEntry) => userSpec.state = "absent"
         /\ (passwd = NoEntry /\ passwd' # NoEntry) => UserSatisfied'
         /\ (grp # NoEntry /\ grp' = NoEntry) => groupSpec.state = "absent"
         /\ (grp' # grp /\ grp' # NoEntry) => grp' = groupSpec.gid \/ grp = NoEntry
<1>1. AccInit => AccInv
  BY DEF AccInit, AccInv, AccShape, AccValue
<1>2. AccInv /\ [AccNext]_accVars => AccInv'
  BY AccStepInv
<1>3. AccInv /\ [AccNext]_accVars => [Kept]_accVars
  <2> SUFFICES ASSUME AccInv, AccNext, accPc = "exec", accFaults' = accFaults
               PROVE  Kept
    OBVIOUS
  <2>1. accFaults \in Nat /\ CommandDeclared /\ AccShape
    BY DEF AccInv, AccShape
  <2>2. ~AccFault
    BY <2>1 DEF AccFault
  <2>3. CASE RunCommand
    <3>1. CASE RequireRoot /\ ~Refuses(accCmd)
      BY <2>1, <2>3, <3>1, ToolWritesDeclared DEF RunCommand
    <3>2. CASE ~(RequireRoot /\ ~Refuses(accCmd))
      BY <2>3, <3>2 DEF RunCommand
    <3> QED
      BY <3>1, <3>2
  <2>4. CASE NextAccRun
    BY <2>4 DEF NextAccRun
  <2> QED
    BY <2>2, <2>3, <2>4 DEF AccNext, AccStep, PlanUser, PlanGroup, AccPlan, RunUser, RunGroup, LookupFails,
                            CommandFails, AccCrash, OthersEditAccounts
<1> QED
  BY <1>1, <1>2, <1>3, PTL DEF AccSpec, AccountFieldsKept

\* An account has every declared value, and its declared group is there.
Fits(spec, u, g) ==
  \A f \in AccountFields : spec.opts[f] # Unset =>
    u[f] = spec.opts[f] /\ (f = "group" /\ spec.opts[f] = 1 => g # NoEntry)

\* That is what the lookup and the comparison of the fields find out.
LEMMA FitsIsNoDiff ==
  ASSUME NEW spec \in UserSpec, NEW u \in UserInfo, NEW g,
         NEW info, info = [u EXCEPT !["group"] = IF u["group"] = 1 => g # NoEntry THEN @ ELSE 0]
  PROVE  CollectDiffs(spec, info) = {} <=> Fits(spec, u, g)
<1>1. /\ "group" \in AccountFields /\ u \in [AccountFields -> 0..2]
      /\ spec.opts \in [AccountFields -> AccValue \cup {Unset}]
  BY AccountsAssumption DEF UserInfo, UserSpec
<1>2. CollectDiffs(spec, info) = {} <=> \A f \in AccountFields : spec.opts[f] # Unset => spec.opts[f] = info[f]
  BY DEF CollectDiffs
<1>3. ASSUME NEW f \in AccountFields, spec.opts[f] # Unset
      PROVE  spec.opts[f] = info[f] <=> (u[f] = spec.opts[f] /\ (f = "group" /\ spec.opts[f] = 1 => g # NoEntry))
  <2>1. spec.opts[f] \in AccValue
    BY <1>1, <1>3
  <2>2. CASE f # "group"
    BY <1>1, <2>2
  <2>3. CASE f = "group"
    <3>1. info[f] = IF u["group"] = 1 => g # NoEntry THEN u["group"] ELSE 0
      BY <1>1, <2>3
    <3> QED
      BY <2>1, <2>3, <3>1 DEF AccValue
  <2> QED
    BY <2>2, <2>3
<1> QED
  BY <1>2, <1>3 DEF Fits

\* What UserSatisfied says of the databases.
LEMMA SatisfiedIsFits ==
  ASSUME AccShape
  PROVE  UserSatisfied <=> IF userSpec.state = "absent" THEN passwd = NoEntry
                           ELSE passwd # NoEntry /\ Fits(userSpec, passwd, grp)
<1>1. CASE passwd = NoEntry
  BY <1>1 DEF UserSatisfied
<1>2. CASE passwd # NoEntry
  <2>1. userSpec \in UserSpec /\ passwd \in UserInfo
    BY <1>2 DEF AccShape
  <2>2. LookupUser = [passwd EXCEPT !["group"] = IF passwd["group"] = 1 => grp # NoEntry THEN @ ELSE 0]
    BY <1>2 DEF LookupUser, GroupResolves
  <2>3. CollectDiffs(userSpec, LookupUser) = {} <=> Fits(userSpec, passwd, grp)
    BY <2>1, <2>2, FitsIsNoDiff
  <2> QED
    BY <1>2, <2>3 DEF UserSatisfied
<1> QED
  BY <1>1, <1>2

\* The same after a step.
LEMMA SatisfiedIsFitsNext ==
  ASSUME AccShape'
  PROVE  UserSatisfied' <=> IF userSpec'.state = "absent" THEN passwd' = NoEntry
                            ELSE passwd' # NoEntry /\ Fits(userSpec', passwd', grp')
<1>1. CASE passwd' = NoEntry
  BY <1>1 DEF UserSatisfied
<1>2. CASE passwd' # NoEntry
  <2>1. userSpec' \in UserSpec /\ passwd' \in UserInfo
    BY <1>2 DEF AccShape
  <2>2. LookupUser' = [passwd' EXCEPT !["group"] = IF passwd'["group"] = 1 => grp' # NoEntry THEN @ ELSE 0]
    BY <1>2 DEF LookupUser, GroupResolves
  <2>3. CollectDiffs(userSpec', LookupUser') = {} <=> Fits(userSpec', passwd', grp')
    BY <2>1, <2>2, FitsIsNoDiff
  <2>4. UserSatisfied' <=> IF userSpec'.state = "absent" THEN passwd' = NoEntry
                           ELSE passwd' # NoEntry /\ CollectDiffs(userSpec', LookupUser') = {}
    BY DEF UserSatisfied, CollectDiffs
  <2> QED
    BY <1>2, <2>3, <2>4
<1> QED
  BY <1>1, <1>2

\* A tool whose command was decided on from entries that others have changed
\* since does not undo what is as declared.
LEMMA ToolKeepsSatisfied ==
  ASSUME AccShape, AccShape', CommandDeclared, ~Refuses(accCmd), ToolWrites(accCmd), UNCHANGED accSpecs
  PROVE  (UserSatisfied => UserSatisfied') /\ (GroupSatisfied => GroupSatisfied')
<1>1. userSpec' = userSpec /\ groupSpec' = groupSpec /\ "group" \in AccountFields
  BY AccountsAssumption DEF accSpecs
<1>2. /\ UserSatisfied <=> IF userSpec.state = "absent" THEN passwd = NoEntry
                           ELSE passwd # NoEntry /\ Fits(userSpec, passwd, grp)
      /\ UserSatisfied' <=> IF userSpec.state = "absent" THEN passwd' = NoEntry
                            ELSE passwd' # NoEntry /\ Fits(userSpec, passwd', grp')
  BY <1>1, SatisfiedIsFits, SatisfiedIsFitsNext
<1>3. GroupSatisfied' <=> IF groupSpec.state = "absent" THEN grp' = NoEntry
                          ELSE grp' # NoEntry /\ groupSpec.gid \in {Unset, grp'}
  BY <1>1 DEF GroupSatisfied
<1>4. CASE accCmd.tool = "useradd"
  <2>1. passwd = NoEntry /\ userSpec.state = "present" /\ grp' = grp
    BY <1>4 DEF Refuses, CommandDeclared, ToolWrites
  <2> QED
    BY <1>2, <1>3, <2>1 DEF GroupSatisfied
<1>5. CASE accCmd.tool = "usermod"
  <2>1. /\ passwd \in UserInfo /\ passwd # NoEntry /\ grp' = grp
        /\ passwd' = [f \in AccountFields |-> IF accCmd.opts[f] # Unset THEN accCmd.opts[f] ELSE passwd[f]]
        /\ \A f \in AccountFields : accCmd.opts[f] \in {Unset, userSpec.opts[f]}
    BY <1>5 DEF Refuses, CommandDeclared, ToolWrites, AccShape
  <2>2. passwd' # NoEntry
    <3>1. passwd' \in [AccountFields -> 0..2]
      <4>1. passwd \in [AccountFields -> 0..2]
        BY <2>1 DEF UserInfo
      <4>2. \A f \in AccountFields : accCmd.opts[f] # Unset => accCmd.opts[f] \in 0..2
        BY <2>1 DEF AccShape, UserSpec, AccValue
      <4> QED
        BY <2>1, <4>1, <4>2
    <3> QED
      BY <3>1, AccountsAssumption
  <2>3. Fits(userSpec, passwd, grp) => Fits(userSpec, passwd', grp')
    BY <2>1 DEF Fits
  <2> QED
    BY <1>2, <1>3, <2>1, <2>2, <2>3 DEF GroupSatisfied
<1>6. CASE accCmd.tool = "userdel"
  <2>1. passwd # NoEntry /\ userSpec.state = "absent" /\ grp' = grp
    BY <1>6 DEF Refuses, CommandDeclared, ToolWrites
  <2> QED
    BY <1>2, <1>3, <2>1 DEF GroupSatisfied
<1>7. CASE accCmd.tool \in {"groupadd", "groupmod"}
  <2>1. /\ passwd' = passwd /\ grp' \in IF groupSpec.gid = Unset THEN AccValue ELSE {groupSpec.gid}
        /\ accCmd.tool = "groupmod" => grp # NoEntry /\ groupSpec.gid # Unset
        /\ accCmd.tool = "groupadd" => grp = NoEntry /\ groupSpec.state = "present"
    BY <1>7 DEF Refuses, CommandDeclared, ToolWrites
  <2>2. grp' # NoEntry
    BY <2>1, EntriesApart DEF AccShape, GroupSpec
  <2>3. Fits(userSpec, passwd, grp) => Fits(userSpec, passwd', grp')
    BY <2>1, <2>2 DEF Fits
  <2>4. GroupSatisfied => GroupSatisfied'
    <3>1. CASE accCmd.tool = "groupadd"
      <4>1. grp = NoEntry
        BY <2>1, <3>1
      <4>2. GroupSatisfied => groupSpec.state = "absent"
        BY <4>1 DEF GroupSatisfied
      <4> QED
        BY <2>1, <3>1, <4>2
    <3>2. CASE accCmd.tool = "groupmod"
      BY <1>3, <2>1, <2>2, <3>2 DEF GroupSatisfied
    <3> QED
      BY <1>7, <3>1, <3>2
  <2> QED
    BY <1>2, <2>1, <2>3, <2>4
<1>8. CASE accCmd.tool = "groupdel"
  <2>1. /\ passwd' = passwd /\ grp' = NoEntry /\ grp # NoEntry /\ groupSpec.state = "absent"
        /\ passwd # NoEntry => passwd["group"] # 1
    BY <1>8 DEF Refuses, CommandDeclared, ToolWrites
  <2>2. passwd # NoEntry /\ Fits(userSpec, passwd, grp) => Fits(userSpec, passwd', grp')
    BY <2>1 DEF Fits
  <2> QED
    BY <1>2, <2>1, <2>2 DEF GroupSatisfied
<1> QED
  BY <1>4, <1>5, <1>6, <1>7, <1>8 DEF CommandDeclared

\* What an account and a group are declared to be, once they are, they stay under
\* every step of bosun, an apply that is killed halfway or that decided on its
\* command before others changed the databases among them.
THEOREM AccountsStaySettled ==
  AccSpec => [][AccStep \/ LookupFails \/ CommandFails \/ AccCrash
                  => (UserSatisfied => UserSatisfied') /\ (GroupSatisfied => GroupSatisfied')]_accVars
<1> DEFINE Stays == (UserSatisfied => UserSatisfied') /\ (GroupSatisfied => GroupSatisfied')
<1>1. AccInit => AccInv
  BY DEF AccInit, AccInv, AccShape, AccValue
<1>2. AccInv /\ [AccNext]_accVars => AccInv'
  BY AccStepInv
<1>3. AccInv /\ AccInv' /\ [AccNext]_accVars => [AccStep \/ LookupFails \/ CommandFails \/ AccCrash => Stays]_accVars
  <2> SUFFICES ASSUME AccInv, AccInv', AccStep \/ LookupFails \/ CommandFails \/ AccCrash PROVE Stays
    OBVIOUS
  <2>1. CASE UNCHANGED <<accSpecs, passwd, grp>>
    BY <2>1 DEF UserSatisfied, GroupSatisfied, LookupUser, GroupResolves, CollectDiffs, accSpecs
  <2>2. CASE RunCommand \/ AccCrash
    <3>1. /\ accPc = "exec" /\ UNCHANGED accSpecs
          /\ UNCHANGED <<passwd, grp>> \/ (~Refuses(accCmd) /\ ToolWrites(accCmd))
      BY <2>2 DEF RunCommand, AccCrash
    <3>2. AccShape /\ AccShape' /\ CommandDeclared
      BY <3>1 DEF AccInv
    <3> QED
      BY <2>1, <3>1, <3>2, ToolKeepsSatisfied
  <2>3. CASE PlanUser \/ PlanGroup \/ RunUser \/ RunGroup \/ NextAccRun \/ LookupFails \/ CommandFails
    <3>1. UNCHANGED <<accSpecs, passwd, grp>>
      BY <2>3 DEF PlanUser, PlanGroup, AccPlan, RunUser, RunGroup, NextAccRun, LookupFails, CommandFails
    <3> QED
      BY <2>1, <3>1
  <2> QED
    BY <2>2, <2>3 DEF AccStep
<1> QED
  BY <1>1, <1>2, <1>3, PTL DEF AccSpec

-----------------------------------------------------------------------------
(* The visit to a service *)

\* The name is one that the init systems, the bus and an URL take as it is.
NameSafe ==
  /\ Len(svcName) \in 1..MaxUnitName /\ svcName[1] = "alphanumeric"
  /\ \A i \in DOMAIN svcName : svcName[i] # "other"

SvcTypes ==
  /\ svcKind \in {"systemd", "runr"} /\ svcSpec \in Specs /\ svcName \in Names
  /\ ctx \in ApplyCtx /\ svcUnit \in Units /\ svcBefore \in Units

\* Until the visit ends nothing is reported, and the journal has no entry.
SvcOpen == svcPc # "done" => svcReport = "none" /\ svcFault = "none" /\ ctx.defers = {}

\* Nothing is called before the name was looked at.
SvcNamed ==
  /\ svcPc \in {"plan", "client", "daemon_reload"} => svcDid = {}
  /\ svcPc \notin {"plan", "done"} => NameSafe
  /\ NameChecked

\* What each phase knows of the state that was read and of the calls made.
SvcPhase ==
  /\ svcPc \in {"start", "observe", "health"} => svcSpec.state = "running" /\ svcBefore.state # "active"
  /\ svcPc = "stop" => svcSpec.state # "running"
  /\ svcPc \in {"validate", "enqueue"} => Notified
  /\ svcPc = "enqueue" /\ svcSpec.validate_with => "validate" \in svcDid
  /\ svcPc \in {"observe", "health"} => "start" \in svcDid
  /\ "start" \in svcDid => svcPc \in {"observe", "health", "done"}

\* Invocations only grow; past the comparison the one that runs is another.
SvcInvocation ==
  /\ svcBefore.run <= svcUnit.run
  /\ svcPc = "health" /\ svcKind = "systemd" /\ svcBefore.run # 0 => svcUnit.run > svcBefore.run

\* Past the phase of daemon_reload the file of the unit has been read, unless
\* the run had told the init system before.
SvcRead ==
  (/\ svcPc \notin {"plan", "client", "daemon_reload", "done"} \/ "start" \in svcDid
   /\ "daemon_reload" \in svcDid \/ ~ctx.daemon_reload_done) => svcUnit.read

SvcInv == SvcTypes /\ SvcOpen /\ SvcNamed /\ SvcPhase /\ SvcInvocation /\ SvcRead /\ ReportHonest

\* A name that validate_unit_name accepts is safe.
LEMMA ValidNameSafe ==
  ASSUME svcName \in Names, ValidateUnitName(svcName) = "ok"
  PROVE  NameSafe
<1>1. PICK n \in 0..(MaxUnitName + 1) : svcName \in [1..n -> CharKinds]  BY DEF Names
<1>2. n \in Nat /\ svcName \in Seq(CharKinds) /\ Len(svcName) = n /\ DOMAIN svcName = 1..n
  BY <1>1, ServicesAssumption
<1>3. svcName # <<>> /\ ~(Len(svcName) > MaxUnitName)
  BY DEF ValidateUnitName
<1>4. Len(svcName) \in 1..MaxUnitName
  BY <1>2, <1>3, ServicesAssumption
<1>5. svcName[1] = "alphanumeric"
  BY <1>3, <1>4, ServicesAssumption DEF ValidateUnitName
<1>6. \A i \in DOMAIN svcName : IsAllowed(svcName[i])
  BY <1>3, <1>4, <1>5, ServicesAssumption DEF ValidateUnitName
<1> QED  BY <1>4, <1>5, <1>6 DEF NameSafe, IsAllowed

\* decide_action_systemd and decide_action_runr, case by case.
LEMMA DecideMeans ==
  ASSUME SvcTypes
  PROVE  /\ SvcAction \in {"start", "stop", "restart", "reload", "no_change"}
         /\ SvcAction = "start" => svcSpec.state = "running" /\ svcBefore.state # "active"
         /\ SvcAction = "stop" => svcSpec.state # "running"
         /\ SvcAction \in {"restart", "reload"} <=> Notified
         /\ SvcAction = "no_change" => ~Notified /\ (svcBefore.state = "active" <=> svcSpec.state = "running")
         /\ Notified => SvcAction = IF "conf" \in ctx.changed_resources THEN "restart" ELSE "reload"
<1>1. ctx.changed_resources \in SUBSET {"conf", "rules"}
  BY DEF SvcTypes, ApplyCtx, Sources, RestartOnOf, ReloadOnOf
<1>2. RestartTriggered <=> "conf" \in ctx.changed_resources
  BY DEF RestartTriggered, RestartOnOf, IsChanged
<1>3. ReloadTriggered <=> ctx.changed_resources # {}
  BY <1>1 DEF ReloadTriggered, ReloadOnOf, IsChanged
<1>4. SvcAction = DecideSystemd  BY DEF SvcAction, DecideRunr
<1> QED  BY <1>2, <1>3, <1>4 DEF DecideSystemd, Notified

\* The entry names everything that changed, and nothing else.
LEMMA EntryMeans ==
  ASSUME SvcTypes, Notified
  PROVE  /\ EntryOf(SvcAction) \in DeferEntries
         /\ EntryOf(SvcAction).enqueued_by = ctx.changed_resources
         /\ EntryOf(SvcAction).action = IF "conf" \in ctx.changed_resources THEN "restart" ELSE "reload"
         /\ EntryOf(SvcAction).validate_cmd = svcSpec.validate_with
<1>1. ctx.changed_resources \in SUBSET {"conf", "rules"} /\ svcSpec.validate_with \in BOOLEAN /\ svcSpec.health_check \in BOOLEAN
  BY DEF SvcTypes, ApplyCtx, Sources, RestartOnOf, ReloadOnOf, Specs
<1>2. CollectNotifySourcesSystemd = ctx.changed_resources
  <2>1. ASSUME NEW id \in ctx.changed_resources  PROVE id \in CollectNotifySourcesSystemd
    BY <1>1, <2>1 DEF CollectNotifySourcesSystemd, ReloadTriggered, ReloadOnOf, IsChanged
  <2>2. ASSUME NEW id \in CollectNotifySourcesSystemd  PROVE id \in ctx.changed_resources
    BY <2>2 DEF CollectNotifySourcesSystemd, IsChanged
  <2> QED  BY <2>1, <2>2
<1>3. SvcAction = IF "conf" \in ctx.changed_resources THEN "restart" ELSE "reload"
  BY DecideMeans
<1>4. EntryOf(SvcAction) = [action |-> SvcAction, priority |-> SvcAction, validate_cmd |-> svcSpec.validate_with,
                            health_check |-> svcSpec.health_check, enqueued_by |-> ctx.changed_resources]
  BY <1>2 DEF EntryOf, CollectNotifySourcesRunr
<1>5. ctx.changed_resources \in SUBSET Sources  BY <1>1 DEF Sources, RestartOnOf, ReloadOnOf
<1> QED  BY <1>1, <1>3, <1>4, <1>5 DEF DeferEntries

\* The error that a fault is reported as tells what the orchestrator may do.
Classified(report, fault) ==
  /\ IsDeferrable(report) <=> fault \in Unreached /\ report \notin {"Io", "Apply"}
  /\ fault \in {"JobFailed", "AuthorizationDenied", "NoSuchUnit"} => report = "Apply"

\* map_systemd_error and map_runr_error.
LEMMA ErrorsClassified ==
  ASSUME SvcTypes, NEW e \in StartErrors \cup CallErrors
  PROVE  ErrorOf(e) \notin ChangeReport /\ Classified(ErrorOf(e), e)
<1>1. CASE svcKind = "systemd"
  BY <1>1 DEF StartErrors, CallErrors, ErrorOf, MapSystemdServiceError, ChangeReport, Classified, IsDeferrable, Unreached
<1>2. CASE svcKind = "runr"
  BY <1>2 DEF StartErrors, CallErrors, ErrorOf, MapRunrServiceError, ChangeReport, Classified, IsDeferrable, Unreached
<1> QED  BY <1>1, <1>2 DEF SvcTypes

\* A visit that ends with an error, before anything was written.
LEMMA SvcErrorEnds ==
  ASSUME SvcInv, svcPc # "done", svcPc' = "done", UNCHANGED <<SvcInput, svcBefore, svcDid>>,
         ctx' \in ApplyCtx, ctx'.defers = ctx.defers,
         svcUnit' \in Units, svcUnit'.run >= svcUnit.run, svcUnit'.read = svcUnit.read,
         ctx'.daemon_reload_done = ctx.daemon_reload_done \/ "start" \notin svcDid,
         svcReport' \notin ChangeReport, Classified(svcReport', svcFault')
  PROVE  SvcInv'
<1> USE DEF SvcInput
<1>1. SvcTypes'  BY DEF SvcInv, SvcTypes
<1>2. SvcOpen'  BY DEF SvcOpen
<1>3. ctx.defers = {}  BY DEF SvcInv, SvcOpen
<1>4. SvcNamed'
  <2>1. CASE svcPc = "plan"  BY <1>3, <2>1 DEF SvcInv, SvcNamed, NameChecked
  <2>2. CASE svcPc # "plan"
    <3>1. NameSafe'  BY <2>2 DEF SvcInv, SvcNamed, NameSafe
    <3> QED  BY <3>1 DEF SvcNamed, NameSafe, NameChecked
  <2> QED  BY <2>1, <2>2
<1>5. SvcPhase'  BY DEF SvcInv, SvcPhase
<1>6. SvcInvocation'  BY DEF SvcInv, SvcInvocation, SvcTypes, Units
<1>7. SvcRead'  BY DEF SvcInv, SvcRead, SvcPhase
<1>8. ReportHonest'
  BY <1>3 DEF ReportHonest, Classified, ChangeReport
<1> QED  BY <1>1, <1>2, <1>4, <1>5, <1>6, <1>7, <1>8 DEF SvcInv

\* A call that breaks ends the visit with its error.
LEMMA SvcBreaksInv ==
  ASSUME SvcInv, svcPc # "done", Breaks(CallErrors) \/ Breaks(StartErrors), UNCHANGED <<SvcInput, ctx, svcBefore>>,
         svcUnit' \in Units, svcUnit'.run >= svcUnit.run, svcUnit'.read = svcUnit.read
  PROVE  SvcInv'
<1>1. PICK e \in StartErrors \cup CallErrors : svcFault' = e /\ svcReport' = ErrorOf(e) /\ svcPc' = "done" /\ UNCHANGED svcDid
  BY DEF Breaks, SvcEnds
<1>2. svcReport' \notin ChangeReport /\ Classified(svcReport', svcFault')
  BY <1>1, ErrorsClassified DEF SvcInv
<1> QED  BY <1>1, <1>2, SvcErrorEnds DEF SvcInv, SvcTypes

\* A unit that comes up keeps all but its state and its invocation.
LEMMA ComesUpGrows ==
  ASSUME NEW u \in Units
  PROVE  /\ ComesUp(u) \in Units /\ ComesUp(u).run >= u.run /\ ComesUp(u).read = u.read
         /\ [ComesUp(u) EXCEPT !.state = "busy"] \in Units
         /\ [ComesUp(u) EXCEPT !.state = "busy"].run >= u.run
         /\ [ComesUp(u) EXCEPT !.state = "busy"].read = u.read
<1>1. PICK r \in Nat : ComesUp(u) = [u EXCEPT !.state = "active", !.run = r] /\ r >= u.run
  <2>1. u.run \in Nat /\ u.run + 1 \in Nat /\ u.run + 1 >= u.run /\ u.run >= u.run  BY DEF Units
  <2>2. CASE u.state = "inactive"  BY <2>1, <2>2 DEF ComesUp, Units
  <2>3. CASE u.state # "inactive"  BY <2>1, <2>3 DEF ComesUp, Units
  <2> QED  BY <2>2, <2>3
<1>2. ComesUp(u) = [known |-> u.known, state |-> "active", run |-> r, enabled |-> u.enabled, read |-> u.read]
  BY <1>1 DEF Units
<1>3. u.known \in BOOLEAN /\ u.enabled \in BOOLEAN /\ u.read \in BOOLEAN  BY DEF Units
<1>4. ComesUp(u) \in Units /\ ComesUp(u).run >= u.run /\ ComesUp(u).read = u.read
  BY <1>1, <1>2, <1>3 DEF Units
<1> QED  BY <1>4 DEF Units

\* A step that only moves the unit, or moves nothing.
LEMMA SvcWorldInv ==
  ASSUME SvcInv, svcPc # "done", UNCHANGED <<SvcInput, ctx, svcBefore, svcPc, svcReport, svcDid, svcFault>>,
         svcUnit' \in Units, svcUnit'.run >= svcUnit.run, svcUnit'.read = svcUnit.read
  PROVE  SvcInv'
<1> USE DEF SvcInput
<1>1. SvcTypes'  BY DEF SvcInv, SvcTypes
<1>2. SvcOpen'  BY DEF SvcInv, SvcOpen
<1>3. SvcNamed'  BY DEF SvcInv, SvcNamed, NameChecked, NameSafe
<1>4. SvcPhase'  BY DEF SvcInv, SvcPhase, Notified
<1>5. SvcInvocation'  BY DEF SvcInv, SvcInvocation, SvcTypes, Units
<1>6. SvcRead'  BY DEF SvcInv, SvcRead
<1>7. ReportHonest'  BY DEF ReportHonest
<1> QED  BY <1>1, <1>2, <1>3, <1>4, <1>5, <1>6, <1>7 DEF SvcInv

\* A step from one phase of the visit to the next.
LEMMA SvcGoesInv ==
  ASSUME SvcInv, svcPc # "done", svcPc' # "done", svcPc' # "plan", UNCHANGED <<SvcInput, svcReport, svcFault>>,
         NameSafe, ctx' \in ApplyCtx, ctx'.defers = ctx.defers, svcUnit' \in Units, svcBefore' \in Units,
         svcPc' \in {"client", "daemon_reload"} => svcDid' = {},
         SvcPhase', SvcInvocation', SvcRead'
  PROVE  SvcInv'
<1> USE DEF SvcInput
<1>1. SvcTypes'  BY DEF SvcInv, SvcTypes
<1>2. SvcOpen'  BY DEF SvcInv, SvcOpen
<1>3. NameSafe'  BY DEF NameSafe
<1>4. SvcNamed'  BY <1>3 DEF SvcNamed, NameChecked, NameSafe
<1>5. ReportHonest'  BY DEF ReportHonest
<1> QED  BY <1>1, <1>2, <1>4, <1>5 DEF SvcInv

\* A visit that ends with a report.
LEMMA SvcReportEnds ==
  ASSUME SvcInv, svcPc \notin {"plan", "done"}, svcPc' = "done",
         UNCHANGED <<SvcInput, svcBefore, svcFault>>,
         ctx' \in ApplyCtx, ctx'.daemon_reload_done = ctx.daemon_reload_done, svcUnit' \in Units,
         svcUnit'.run >= svcUnit.run, svcUnit'.read = svcUnit.read,
         "start" \in svcDid' <=> "start" \in svcDid, "daemon_reload" \in svcDid' => "daemon_reload" \in svcDid,
         ReportHonest'
  PROVE  SvcInv'
<1> USE DEF SvcInput
<1>1. SvcTypes'  BY DEF SvcInv, SvcTypes
<1>2. SvcOpen'  BY DEF SvcOpen
<1>3. NameSafe'  BY DEF SvcInv, SvcNamed, NameSafe
<1>4. SvcNamed'  BY <1>3 DEF SvcNamed, NameChecked, NameSafe
<1>5. SvcPhase'  BY DEF SvcInv, SvcPhase
<1>6. SvcInvocation'  BY DEF SvcInv, SvcInvocation, SvcTypes, Units
<1>7. SvcRead'  BY DEF SvcInv, SvcRead
<1> QED  BY <1>1, <1>2, <1>4, <1>5, <1>6, <1>7 DEF SvcInv

\* A unit that is not loaded has no invocation.
LEMMA NotLoadedUnit == NotLoaded \in Units /\ NotLoaded.run = 0
BY DEF NotLoaded, Units

\* compute_diff, and the choice of the client.
LEMMA SvcBegins ==
  ASSUME SvcInv, PlanSystemd \/ PlanRunr \/ SvcClient
  PROVE  SvcInv'
<1>0. svcUnit \in Units /\ svcUnit.run \in Nat /\ svcUnit.run >= svcUnit.run /\ ctx \in ApplyCtx
  BY DEF SvcInv, SvcTypes, Units
<1> USE DEF SvcGoes, SvcEnds
<1>1. CASE PlanSystemd \/ PlanRunr
  <2>1. PICK kind : ComputeDiff(kind)  BY <1>1 DEF PlanSystemd, PlanRunr
  <2> USE <2>1 DEF ComputeDiff
  <2>2. svcPc = "plan" /\ svcDid = {}  BY DEF SvcInv, SvcNamed
  <2>3. CASE ValidateUnitName(svcName) = "ok"
    <3>1. svcPc' = "client" /\ UNCHANGED <<SvcInput, ctx, svcUnit, svcBefore, svcDid, svcReport, svcFault>>
      BY <2>3
    <3>2. NameSafe  BY <2>3, ValidNameSafe DEF SvcInv, SvcTypes
    <3>3. SvcPhase' /\ SvcInvocation' /\ SvcRead'
      BY <2>2, <3>1 DEF SvcInv, SvcPhase, SvcInvocation, SvcRead
    <3> QED  BY <2>2, <3>1, <3>2, <3>3, SvcGoesInv DEF SvcInv, SvcTypes
  <2>4. CASE ValidateUnitName(svcName) # "ok"
    <3>1. svcPc' = "done" /\ svcReport' = "InvalidPayload" /\ UNCHANGED <<SvcInput, ctx, svcUnit, svcBefore, svcDid, svcFault>>
      BY <2>4
    <3>2. Classified(svcReport', svcFault') /\ svcReport' \notin ChangeReport
      BY <2>2, <3>1 DEF SvcInv, SvcOpen, Classified, IsDeferrable, Unreached, ChangeReport
    <3> QED  BY <2>2, <3>1, <3>2, SvcErrorEnds DEF SvcInv, SvcTypes, Units
  <2> QED  BY <2>3, <2>4
<1>2. CASE SvcClient
  <2> USE <1>2 DEF SvcClient
  <2>1. svcPc = "client" /\ svcDid = {} /\ NameSafe  BY DEF SvcInv, SvcNamed
  <2>2. CASE ctx.handle
    <3>1. svcPc' = "daemon_reload" /\ UNCHANGED <<SvcInput, ctx, svcUnit, svcBefore, svcDid, svcReport, svcFault>>
      BY <2>2
    <3>2. SvcPhase' /\ SvcInvocation' /\ SvcRead'
      BY <2>1, <3>1 DEF SvcInv, SvcPhase, SvcInvocation, SvcRead
    <3> QED  BY <2>1, <3>1, <3>2, SvcGoesInv DEF SvcInv, SvcTypes
  <2>3. CASE ~ctx.handle
    <3>1. /\ svcPc' = "done" /\ svcReport' \in {"SystemdUnavailable", "RunrUnavailable"} /\ svcFault' = "no client"
          /\ UNCHANGED <<SvcInput, ctx, svcUnit, svcBefore, svcDid>>
      BY <2>3
    <3>2. Classified(svcReport', svcFault') /\ svcReport' \notin ChangeReport
      BY <3>1 DEF Classified, IsDeferrable, Unreached, ChangeReport
    <3> QED  BY <1>0, <2>1, <3>1, <3>2, SvcErrorEnds
  <2> QED  BY <2>2, <2>3
<1> QED  BY <1>1, <1>2

\* ensure_daemon_reloaded.
LEMMA SvcReloads ==
  ASSUME SvcInv, SkipDaemonReload \/ SvcDaemonReload \/ SvcDaemonReloadFails
  PROVE  SvcInv'
<1> USE DEF SvcGoes, SvcEnds, SvcDone
<1>0. /\ svcPc = "daemon_reload" /\ svcDid = {} /\ NameSafe /\ AfterReload \in {"enable", "unit_info"}
      /\ ctx \in ApplyCtx /\ svcUnit \in Units /\ svcBefore \in Units
  BY DEF SvcInv, SvcNamed, SvcTypes, SkipDaemonReload, SvcDaemonReload, SvcDaemonReloadFails, AfterReload
<1>1. CASE SkipDaemonReload
  <2>1. svcPc' \in {"enable", "unit_info"} /\ UNCHANGED <<SvcInput, ctx, svcUnit, svcBefore, svcDid, svcReport, svcFault>>
    BY <1>0, <1>1 DEF SkipDaemonReload
  <2>2. ctx.daemon_reload_done \/ svcUnit.read
    BY <1>1 DEF SkipDaemonReload, MustReload
  <2>3. SvcPhase' /\ SvcInvocation'
    BY <1>0, <2>1 DEF SvcInv, SvcPhase, SvcInvocation
  <2>4. SvcRead'  BY <1>0, <2>1, <2>2 DEF SvcRead
  <2> QED  BY <1>0, <2>1, <2>3, <2>4, SvcGoesInv
<1>2. CASE SvcDaemonReload
  <2>1. /\ svcPc' \in {"enable", "unit_info"} /\ UNCHANGED <<SvcInput, svcBefore, svcReport, svcFault>>
        /\ ctx' = [ctx EXCEPT !.daemon_reload_done = TRUE] /\ svcUnit' = [svcUnit EXCEPT !.read = TRUE]
        /\ svcDid' = {"daemon_reload"}
    BY <1>0, <1>2 DEF SvcDaemonReload
  <2>2. ctx' \in ApplyCtx /\ ctx'.defers = ctx.defers  BY <1>0, <2>1 DEF ApplyCtx
  <2>3. svcUnit' \in Units /\ svcUnit'.read /\ svcUnit'.run = svcUnit.run  BY <1>0, <2>1 DEF Units
  <2>4. SvcPhase' /\ SvcInvocation'
    BY <1>0, <2>1, <2>3 DEF SvcInv, SvcPhase, SvcInvocation
  <2>5. SvcRead'  BY <2>3 DEF SvcRead
  <2> QED  BY <1>0, <2>1, <2>2, <2>3, <2>4, <2>5, SvcGoesInv
<1>3. CASE SvcDaemonReloadFails
  <2>1. PICK e \in CallErrors :
          /\ svcFault' = e /\ svcPc' = "done"
          /\ svcReport' = IF svcKind = "systemd" THEN MapSystemdServiceError(e)
                          ELSE IF e = "Unavailable" THEN "RunrUnavailable" ELSE "Apply"
          /\ ctx' = [ctx EXCEPT !.daemon_reload_done = svcKind = "runr" /\ e # "Unavailable"]
    BY <1>3 DEF SvcDaemonReloadFails
  <2>2. UNCHANGED <<SvcInput, svcUnit, svcBefore, svcDid>>  BY <1>3 DEF SvcDaemonReloadFails
  <2>3. ctx' \in ApplyCtx /\ ctx'.defers = ctx.defers  BY <1>0, <2>1 DEF ApplyCtx
  <2>4. Classified(svcReport', svcFault') /\ svcReport' \notin ChangeReport
    <3>1. CASE svcKind = "systemd"
      BY <2>1, <3>1 DEF CallErrors, MapSystemdServiceError, ChangeReport, Classified, IsDeferrable, Unreached
    <3>2. CASE svcKind = "runr"
      BY <2>1, <3>2 DEF CallErrors, ChangeReport, Classified, IsDeferrable, Unreached
    <3> QED  BY <3>1, <3>2 DEF SvcInv, SvcTypes
  <2> QED  BY <1>0, <2>1, <2>2, <2>3, <2>4, SvcErrorEnds DEF Units
<1> QED  BY <1>1, <1>2, <1>3

\* enable, and the state that the decision is made on.
LEMMA SvcLooks ==
  ASSUME SvcInv, SvcEnable \/ SvcUnitInfo
  PROVE  SvcInv'
<1> USE DEF SvcGoes, SvcEnds, SvcDone
<1>0. /\ svcPc \in {"enable", "unit_info"} /\ NameSafe /\ "start" \notin svcDid
      /\ ctx \in ApplyCtx /\ svcUnit \in Units /\ svcBefore \in Units
  BY DEF SvcInv, SvcNamed, SvcTypes, SvcPhase, SvcEnable, SvcUnitInfo
<1>1. CASE SvcEnable
  <2> USE <1>1 DEF SvcEnable
  <2>0. UNCHANGED <<SvcInput, ctx, svcBefore>>  OBVIOUS
  <2>1. CASE svcSpec.enable /\ ~svcUnit.known
    <3>1. /\ svcPc' = "done" /\ svcFault' = "NoSuchUnit" /\ svcReport' = MapSystemdServiceError("NoSuchUnit")
          /\ UNCHANGED <<svcUnit, svcDid>>
      BY <2>1
    <3>2. Classified(svcReport', svcFault') /\ svcReport' \notin ChangeReport
      BY <3>1 DEF MapSystemdServiceError, ChangeReport, Classified, IsDeferrable, Unreached
    <3> QED  BY <1>0, <2>0, <3>1, <3>2, SvcErrorEnds DEF Units
  <2>2. CASE ~(svcSpec.enable /\ ~svcUnit.known)
    <3>1. svcPc' = "unit_info" /\ UNCHANGED <<svcReport, svcFault>> /\ svcDid' \in {svcDid, svcDid \cup {"enable"}}
      BY <2>2
    <3>2. svcUnit' \in {svcUnit, [svcUnit EXCEPT !.enabled = TRUE]}  OBVIOUS
    <3>3. svcUnit' \in Units /\ svcUnit'.run = svcUnit.run /\ svcUnit'.read = svcUnit.read
      BY <1>0, <3>2 DEF Units
    <3>4. SvcPhase' /\ SvcInvocation'
      BY <1>0, <2>0, <3>1, <3>3 DEF SvcInv, SvcPhase, SvcInvocation
    <3>5. SvcRead'
      BY <1>0, <2>0, <3>1, <3>3 DEF SvcInv, SvcRead
    <3> QED  BY <1>0, <2>0, <3>1, <3>3, <3>4, <3>5, SvcGoesInv
  <2> QED  BY <2>1, <2>2
<1>2. CASE SvcUnitInfo
  <2>1. svcPc' = "decide" /\ UNCHANGED <<SvcInput, ctx, svcUnit, svcDid, svcReport, svcFault>> /\ svcBefore' \in {svcUnit, NotLoaded}
    BY <1>2 DEF SvcUnitInfo
  <2>2. svcBefore' \in Units /\ svcBefore'.run <= svcUnit.run
    BY <1>0, <2>1, NotLoadedUnit DEF Units
  <2>3. SvcPhase' /\ SvcInvocation'
    BY <1>0, <2>1, <2>2 DEF SvcInv, SvcPhase, SvcInvocation
  <2>4. SvcRead'
    BY <1>0, <2>1 DEF SvcInv, SvcRead
  <2> QED  BY <1>0, <2>1, <2>2, <2>3, <2>4, SvcGoesInv
<1> QED  BY <1>1, <1>2

\* The decision: nothing, a start or a stop now, or an entry for later.
LEMMA SvcDecides ==
  ASSUME SvcInv, SvcDecide
  PROVE  SvcInv'
<1> USE DEF SvcDecide, SvcGoes, SvcEnds
<1>0. /\ svcPc = "decide" /\ NameSafe /\ "start" \notin svcDid /\ SvcTypes
      /\ ctx \in ApplyCtx /\ svcUnit \in Units /\ svcBefore \in Units
      /\ UNCHANGED <<SvcInput, ctx, svcUnit, svcBefore, svcDid>>
  BY DEF SvcInv, SvcNamed, SvcTypes, SvcPhase
<1>1. CASE SvcAction = "no_change"
  <2>1. svcPc' = "done" /\ svcReport' = "no_change" /\ UNCHANGED svcFault  BY <1>1
  <2>2. ~Notified /\ (svcBefore.state = "active" <=> svcSpec.state = "running")  BY <1>0, <1>1, DecideMeans
  <2>3. ctx.defers = {} /\ svcFault = "none"  BY <1>0 DEF SvcInv, SvcOpen
  <2>4. ReportHonest'
    BY <1>0, <2>1, <2>2, <2>3 DEF ReportHonest, Notified, SvcInput, IsDeferrable, Unreached
  <2> QED  BY <1>0, <2>1, <2>4, SvcReportEnds DEF Units
<1>2. CASE SvcAction # "no_change"
  <2>1. /\ UNCHANGED <<svcReport, svcFault>>
        /\ svcPc' = IF SvcAction \in {"start", "stop"} THEN SvcAction ELSE "validate"
    BY <1>2
  <2>2. SvcAction \in {"start", "stop", "restart", "reload"}  BY <1>0, <1>2, DecideMeans
  <2>3. svcPc' \in {"start", "stop", "validate"}  BY <2>1, <2>2
  <2>4. SvcPhase'
    BY <1>0, <2>1, <2>2, DecideMeans DEF SvcPhase, SvcInput, Notified
  <2>5. SvcInvocation' /\ SvcRead'
    BY <1>0, <2>3 DEF SvcInv, SvcInvocation, SvcRead
  <2> QED  BY <1>0, <2>1, <2>3, <2>4, <2>5, SvcGoesInv
<1> QED  BY <1>1, <1>2

\* A start, and the invocation compared.
LEMMA SvcStarts ==
  ASSUME SvcInv, ExecuteStart \/ ExecuteStartFails \/ ObserveStart
  PROVE  SvcInv'
<1> USE DEF SvcGoes, SvcEnds, SvcDone
<1>0. /\ svcPc \in {"start", "observe"} /\ NameSafe /\ SvcTypes
      /\ ctx \in ApplyCtx /\ svcUnit \in Units /\ svcBefore \in Units
      /\ svcSpec.state = "running" /\ svcBefore.state # "active" /\ UNCHANGED <<SvcInput, ctx, svcBefore>>
      /\ svcKind \in {"systemd", "runr"}
  BY DEF SvcInv, SvcNamed, SvcTypes, SvcPhase, ExecuteStart, ExecuteStartFails, ObserveStart
<1>1. CASE ExecuteStart
  <2> USE <1>1 DEF ExecuteStart
  <2>1. /\ svcPc = "start" /\ svcPc' = (IF svcKind = "systemd" THEN "observe" ELSE "health") /\ svcDid' = svcDid \cup {"start"}
        /\ UNCHANGED <<svcReport, svcFault>>
    OBVIOUS
  <2>2. svcUnit' \in Units /\ svcUnit'.run >= svcUnit.run /\ svcUnit'.read = svcUnit.read
    BY <1>0, ComesUpGrows
  <2>3. SvcPhase'
    BY <1>0, <2>1 DEF SvcInput, SvcPhase
  <2>4. SvcInvocation'
    <3>1. svcUnit'.run >= svcBefore.run  BY <1>0, <2>2 DEF SvcInv, SvcInvocation, Units
    <3> QED  BY <1>0, <2>1, <2>2, <3>1 DEF SvcInvocation, SvcInput, Units
  <2>5. SvcRead'
    BY <1>0, <2>1, <2>2 DEF SvcInv, SvcRead
  <2> QED  BY <1>0, <2>1, <2>2, <2>3, <2>4, <2>5, SvcGoesInv
<1>2. CASE ExecuteStartFails
  <2> USE <1>2 DEF ExecuteStartFails
  <2>1. CASE svcUnit.known
    <3>1. svcUnit' \in Units /\ svcUnit'.run >= svcUnit.run /\ svcUnit'.read = svcUnit.read
      <4>1. svcUnit.run \in Nat  BY <1>0 DEF Units
      <4>2. svcUnit' \in {svcUnit, ComesUp(svcUnit)}  BY <2>1
      <4>3. CASE svcUnit' = svcUnit  BY <1>0, <4>1, <4>3
      <4>4. CASE svcUnit' = ComesUp(svcUnit)  BY <1>0, <4>4, ComesUpGrows
      <4> QED  BY <4>2, <4>3, <4>4
    <3> QED  BY <1>0, <2>1, <3>1, SvcBreaksInv
  <2>2. CASE ~svcUnit.known
    <3>1. /\ svcPc' = "done" /\ svcFault' \in {"NoSuchUnit", "NotFound"} /\ svcReport' = "Apply"
          /\ UNCHANGED <<svcUnit, svcDid>>
      BY <2>2
    <3>2. Classified(svcReport', svcFault') /\ svcReport' \notin ChangeReport
      BY <3>1 DEF ChangeReport, Classified, IsDeferrable, Unreached
    <3> QED  BY <1>0, <3>1, <3>2, SvcErrorEnds DEF Units
  <2> QED  BY <2>1, <2>2
<1>3. CASE ObserveStart
  <2> USE <1>3 DEF ObserveStart
  <2>1. svcPc = "observe" /\ UNCHANGED <<svcUnit, svcDid>> /\ "start" \in svcDid  BY DEF SvcInv, SvcPhase
  <2>2. CASE VerifyInvocationChange(svcUnit) = "ok"
    <3>1. svcPc' = "health" /\ UNCHANGED <<svcReport, svcFault>>  BY <2>2
    <3>2. SvcPhase'
      BY <1>0, <2>1, <3>1 DEF SvcInput, SvcPhase
    <3>3. svcBefore.run <= svcUnit.run  BY DEF SvcInv, SvcInvocation
    <3>4. svcBefore.run # 0 => svcUnit.run > svcBefore.run
      BY <1>0, <2>2, <3>3 DEF VerifyInvocationChange, Units
    <3>5. SvcInvocation'
      BY <1>0, <2>1, <3>1, <3>3, <3>4 DEF SvcInvocation, SvcInput
    <3>6. SvcRead'
      BY <1>0, <2>1, <3>1 DEF SvcInv, SvcRead
    <3> QED  BY <1>0, <2>1, <3>1, <3>2, <3>5, <3>6, SvcGoesInv
  <2>3. CASE VerifyInvocationChange(svcUnit) # "ok"
    <3>1. svcPc' = "done" /\ svcFault' = "RestartNotObserved" /\ svcReport' = "Apply"  BY <2>3
    <3>2. Classified(svcReport', svcFault') /\ svcReport' \notin ChangeReport
      BY <3>1 DEF ChangeReport, Classified, IsDeferrable, Unreached
    <3> QED  BY <1>0, <2>1, <3>1, <3>2, SvcErrorEnds DEF Units
  <2> QED  BY <2>2, <2>3
<1> QED  BY <1>1, <1>2, <1>3

\* The health check after a start.
LEMMA SvcHealthEnds ==
  ASSUME SvcInv, SvcHealth
  PROVE  SvcInv'
<1> USE DEF SvcHealth, SvcEnds
<1>0. /\ svcPc = "health" /\ NameSafe /\ SvcTypes /\ "start" \in svcDid
      /\ ctx \in ApplyCtx /\ svcUnit \in Units /\ svcBefore \in Units
      /\ svcSpec.state = "running" /\ UNCHANGED <<SvcInput, ctx, svcUnit, svcBefore, svcFault>>
      /\ ctx.defers = {} /\ svcFault = "none" /\ svcPc' = "done"
      /\ svcKind = "systemd" /\ svcBefore.run # 0 => svcUnit.run > svcBefore.run
  BY DEF SvcInv, SvcNamed, SvcTypes, SvcPhase, SvcOpen, SvcInvocation
<1>1. /\ svcReport' \in {"changed", "Cancelled", "HealthCheckFailed"} /\ svcDid' \in {svcDid, svcDid \cup {"health"}}
      /\ svcReport' = "changed" /\ svcSpec.health_check => "health" \in svcDid'
  BY DEF RunHealthSystemd, RunHealthRunr, HealthErrors
<1>2. ReportHonest'
  <2>1. ~IsDeferrable(svcReport') /\ svcFault' = "none" /\ svcReport' \notin {"no_change", "deferred"}
    BY <1>0, <1>1 DEF IsDeferrable
  <2>2. "start" \in svcDid' /\ svcSpec' = svcSpec /\ svcKind' = svcKind  BY <1>0, <1>1 DEF SvcInput
  <2> QED  BY <1>0, <1>1, <2>1, <2>2 DEF ReportHonest, Unreached
<1> QED  BY <1>0, <1>1, <1>2, SvcReportEnds DEF Units

\* A stop.
LEMMA SvcStops ==
  ASSUME SvcInv, SvcStop
  PROVE  SvcInv'
<1> USE DEF SvcStop, SvcEnds, SvcDone
<1>0. /\ svcPc = "stop" /\ svcSpec.state # "running" /\ UNCHANGED <<SvcInput, ctx, svcBefore, svcFault>>
      /\ ctx \in ApplyCtx /\ svcUnit \in Units
      /\ ctx.defers = {} /\ svcFault = "none" /\ svcPc' = "done" /\ svcReport' = "changed"
      /\ svcDid' = svcDid \cup {"stop"}
  BY DEF SvcInv, SvcTypes, SvcPhase, SvcOpen
<1>1. svcUnit' = [svcUnit EXCEPT !.state = "inactive"]  BY DEF ExecuteStopSystemd, ExecuteStopRunr
<1>2. svcUnit' \in Units /\ svcUnit'.run >= svcUnit.run /\ svcUnit'.read = svcUnit.read  BY <1>0, <1>1 DEF Units
<1>3. ReportHonest'
  BY <1>0 DEF ReportHonest, Unreached, SvcInput, IsDeferrable
<1> QED  BY <1>0, <1>2, <1>3, SvcReportEnds

\* The validation, and the entry behind it.
LEMMA SvcDefers ==
  ASSUME SvcInv, SvcValidate \/ SvcEnqueue
  PROVE  SvcInv'
<1> USE DEF SvcGoes, SvcEnds
<1>0. /\ svcPc \in {"validate", "enqueue"} /\ NameSafe /\ SvcTypes /\ Notified /\ "start" \notin svcDid
      /\ ctx \in ApplyCtx /\ svcUnit \in Units /\ svcBefore \in Units /\ svcSpec \in Specs
      /\ UNCHANGED <<SvcInput, svcUnit, svcBefore>> /\ ctx.defers = {} /\ svcFault = "none"
  BY DEF SvcInv, SvcNamed, SvcTypes, SvcPhase, SvcOpen, SvcValidate, SvcEnqueue
<1>1. CASE SvcValidate
  <2>1. PICK v \in {"ok", "Validation"} :
          /\ UNCHANGED <<ctx, svcFault>>
          /\ IF v = "ok" THEN svcPc' = "enqueue" /\ UNCHANGED svcReport
                              /\ svcDid' = IF svcSpec.validate_with THEN svcDid \cup {"validate"} ELSE svcDid
             ELSE svcPc' = "done" /\ svcReport' = v /\ UNCHANGED svcDid
    BY <1>1 DEF SvcValidate, RunValidateSystemd, RunValidateRunr, MapValidateErrorSystemd, MapValidateErrorRunr
  <2>2. CASE v = "ok"
    <3>1. /\ svcPc' = "enqueue" /\ UNCHANGED <<ctx, svcFault, svcReport>>
          /\ svcDid' = IF svcSpec.validate_with THEN svcDid \cup {"validate"} ELSE svcDid
      BY <2>1, <2>2
    <3>2. "start" \notin svcDid' /\ ("daemon_reload" \in svcDid' <=> "daemon_reload" \in svcDid)
      BY <1>0, <3>1
    <3>3. SvcPhase'
      BY <1>0, <3>1, <3>2 DEF SvcPhase, Notified, SvcInput
    <3>4. SvcInvocation' /\ SvcRead'
      BY <1>0, <3>1, <3>2 DEF SvcInv, SvcInvocation, SvcRead
    <3> QED  BY <1>0, <3>1, <3>3, <3>4, SvcGoesInv
  <2>3. CASE v # "ok"
    <3>1. Classified(svcReport', svcFault') /\ svcReport' \notin ChangeReport
      BY <1>0, <2>1, <2>3 DEF ChangeReport, Classified, IsDeferrable, Unreached
    <3> QED  BY <1>0, <2>1, <2>3, <3>1, SvcErrorEnds DEF Units
  <2> QED  BY <2>2, <2>3
<1>2. CASE SvcEnqueue
  <2> USE <1>2 DEF SvcEnqueue
  <2>0. svcPc' = "done" /\ UNCHANGED <<svcDid, svcFault>> /\ svcPc = "enqueue"  OBVIOUS
  <2>1. CASE ctx' = [ctx EXCEPT !.defers = @ \cup {EntryOf(SvcAction)}] /\ svcReport' = "deferred"
    <3> DEFINE e == EntryOf(SvcAction)
    <3>1. /\ e \in DeferEntries /\ e.enqueued_by = ctx.changed_resources
          /\ e.action = IF "conf" \in ctx.changed_resources THEN "restart" ELSE "reload"
          /\ e.validate_cmd = svcSpec.validate_with
      BY <1>0, EntryMeans
    <3> HIDE DEF e
    <3>2. /\ ctx' \in ApplyCtx /\ ctx'.daemon_reload_done = ctx.daemon_reload_done /\ ctx'.defers = {e}
          /\ ctx'.changed_resources = ctx.changed_resources
      BY <1>0, <2>1, <3>1 DEF ApplyCtx, e
    <3>3. svcSpec.validate_with => "validate" \in svcDid  BY <2>0 DEF SvcInv, SvcPhase
    <3>4. Notified'  BY <1>0, <3>2 DEF Notified, SvcInput
    <3>5. \A x \in ctx'.defers :
            /\ Notified' /\ x.enqueued_by = ctx'.changed_resources
            /\ x.action = IF "conf" \in ctx'.changed_resources THEN "restart" ELSE "reload"
            /\ x.validate_cmd => "validate" \in svcDid'
      BY <2>0, <3>1, <3>2, <3>3, <3>4
    <3>6. ReportHonest'
      BY <1>0, <2>0, <2>1, <3>2, <3>5 DEF ReportHonest, IsDeferrable, Unreached
    <3> QED  BY <1>0, <2>0, <3>2, <3>6, SvcReportEnds DEF Units
  <2>2. CASE UNCHANGED ctx /\ svcReport' = "DeferIo"
    <3>1. Classified(svcReport', svcFault') /\ svcReport' \notin ChangeReport
      BY <1>0, <2>0, <2>2 DEF ChangeReport, Classified, IsDeferrable, Unreached
    <3> QED  BY <1>0, <2>0, <2>2, <3>1, SvcErrorEnds DEF Units
  <2> QED  BY <2>1, <2>2
<1> QED  BY <1>1, <1>2

\* Every step of a visit keeps the invariant.
LEMMA SvcStepInv == ASSUME SvcInv, [SvcNext]_svcVars  PROVE SvcInv'
<1>0. svcUnit \in Units /\ svcUnit.run \in Nat  BY DEF SvcInv, SvcTypes, Units
<1>1. CASE PlanSystemd \/ PlanRunr \/ SvcClient  BY <1>1, SvcBegins
<1>2. CASE SkipDaemonReload \/ SvcDaemonReload \/ SvcDaemonReloadFails  BY <1>2, SvcReloads
<1>3. CASE SvcEnable \/ SvcUnitInfo  BY <1>3, SvcLooks
<1>4. CASE SvcDecide  BY <1>4, SvcDecides
<1>5. CASE ExecuteStart \/ ExecuteStartFails \/ ObserveStart  BY <1>5, SvcStarts
<1>6. CASE SvcHealth  BY <1>6, SvcHealthEnds
<1>7. CASE SvcStop  BY <1>7, SvcStops
<1>8. CASE SvcValidate \/ SvcEnqueue  BY <1>8, SvcDefers
<1>9. CASE CallFails
  BY <1>0, <1>9, SvcBreaksInv DEF CallFails
<1>10. CASE SvcWorld
  <2>1. svcUnit' \in Units /\ svcUnit'.run >= svcUnit.run /\ svcUnit'.read = svcUnit.read
    <3>1. CASE svcUnit' = [svcUnit EXCEPT !.state = "inactive"]  BY <1>0, <3>1 DEF Units
    <3>2. CASE svcUnit' # [svcUnit EXCEPT !.state = "inactive"]
      BY <1>0, <1>10, <3>2, ComesUpGrows DEF SvcWorld
    <3> QED  BY <3>1, <3>2
  <2> QED  BY <1>10, <2>1, SvcWorldInv DEF SvcWorld
<1>11. CASE UNCHANGED svcVars
  <2> USE <1>11 DEF svcVars
  <2>1. SvcTypes' /\ SvcOpen'  BY DEF SvcInv, SvcTypes, SvcOpen
  <2>2. SvcNamed'  BY DEF SvcInv, SvcNamed, NameChecked, NameSafe
  <2>3. SvcPhase' /\ SvcInvocation' /\ SvcRead'  BY DEF SvcInv, SvcPhase, SvcInvocation, SvcRead, Notified
  <2>4. ReportHonest'  BY DEF SvcInv, ReportHonest, Notified
  <2> QED  BY <2>1, <2>2, <2>3, <2>4 DEF SvcInv
<1> QED
  BY <1>1, <1>2, <1>3, <1>4, <1>5, <1>6, <1>7, <1>8, <1>9, <1>10, <1>11 DEF SvcNext

\* A visit begins with a context of the run and a unit as it may be.
LEMMA SvcInitInv == SvcInit => SvcInv
<1> SUFFICES ASSUME SvcInit PROVE SvcInv  OBVIOUS
<1>1. NotLoaded \in Units /\ SomeUnits \subseteq Units /\ NotLoaded.run = 0
  <2>1. ASSUME NEW u \in SomeUnits \ {NotLoaded}  PROVE u \in Units
    <3>1. PICK s \in {"active", "inactive", "busy"}, r \in {0, 1}, e \in BOOLEAN, f \in BOOLEAN :
            u = [known |-> TRUE, state |-> s, run |-> IF s = "inactive" THEN r ELSE 1, enabled |-> e, read |-> f]
      BY <2>1 DEF SomeUnits
    <3>2. r \in Nat  OBVIOUS
    <3> QED  BY <3>1, <3>2 DEF Units
  <2> QED  BY <2>1, NotLoadedUnit
<1>2. GoodName \in Names
  <2>1. GoodName \in [1..1 -> CharKinds]  BY DEF GoodName, CharKinds
  <2>2. 1 \in 0..(MaxUnitName + 1)  BY ServicesAssumption
  <2> QED  BY <2>1, <2>2 DEF Names
<1>3. ctx \in ApplyCtx /\ ctx.defers = {}
  <2>1. \A h \in BOOLEAN : BuildCtx(h) \in ApplyCtx /\ BuildCtx(h).defers = {}
    BY DEF BuildCtx, ApplyCtx
  <2>2. CASE ctx = BuildCtx(TRUE)  BY <2>1, <2>2
  <2>3. CASE \E changed \in SUBSET Sources, handle \in ClientHandles(svcKind), done \in BOOLEAN :
               ctx = [BuildCtx(handle) EXCEPT !.changed_resources = changed, !.daemon_reload_done = done]
    <3>1. PICK changed \in SUBSET Sources, handle \in ClientHandles(svcKind), done \in BOOLEAN :
               ctx = [BuildCtx(handle) EXCEPT !.changed_resources = changed, !.daemon_reload_done = done]
      BY <2>3
    <3>2. handle \in BOOLEAN
      <4>1. PICK reached \in BOOLEAN, value \in InitSystemValues : handle = (reached /\ InitSystemRequires(svcKind, value))
        BY DEF ClientHandles
      <4> QED  BY <4>1, Zenon
    <3> QED  BY <3>1, <3>2, <2>1 DEF ApplyCtx
  <2> QED  BY <2>2, <2>3 DEF SvcInit
<1>4. svcSpec \in Specs /\ svcName \in Names /\ svcUnit \in Units
  <2>1. ASpec \in Specs  BY DEF ASpec, Specs
  <2> QED  BY <1>1, <1>2, <2>1 DEF SvcInit
<1>5. SvcTypes  BY <1>1, <1>3, <1>4 DEF SvcTypes, SvcInit
<1>6. SvcOpen /\ SvcNamed /\ SvcPhase /\ SvcRead  BY <1>3 DEF SvcOpen, SvcNamed, NameChecked, SvcPhase, SvcRead, SvcInit
<1>7. SvcInvocation
  <2>1. svcUnit.run \in Nat /\ svcBefore.run = 0 /\ svcPc = "plan"  BY <1>1, <1>4 DEF Units, SvcInit
  <2> QED  BY <2>1 DEF SvcInvocation
<1> QED  BY <1>5, <1>6, <1>7 DEF SvcInv, ReportHonest, SvcInit

\* What a visit to a service reports is what it did, a unit is started with its
\* definition read, and nothing is asked of the init system under a name that is
\* not one, for every limit on the name and whatever others do to the unit.
THEOREM ServiceVisitHonest == SvcSpecification => []ServiceVerdict
<1>1. SvcInit => SvcInv  BY SvcInitInv
<1>2. SvcInv /\ [SvcNext]_svcVars => SvcInv'  BY SvcStepInv
<1>3. SvcInv => ServiceVerdict  BY DEF SvcInv, SvcNamed, SvcRead, ServiceVerdict, DefinitionRead
<1> QED  BY <1>1, <1>2, <1>3, PTL DEF SvcSpecification

\* The calls that a visit has still ahead of it at most.
CallsLeft == [plan |-> 9, client |-> 8, daemon_reload |-> 7, enable |-> 6, unit_info |-> 5, decide |-> 4, start |-> 3,
              observe |-> 2, health |-> 1, stop |-> 1, validate |-> 2, enqueue |-> 1, done |-> 0]

\* A visit to a service has an end of its own: each step of it, failed ones
\* included, is the last one or leaves fewer calls to make, whatever the unit
\* does meanwhile; what others do adds none.
THEOREM ServiceVisitEnds ==
  SvcSpecification => [][IF SvcWorld THEN svcPc' = svcPc ELSE CallsLeft[svcPc'] < CallsLeft[svcPc]]_svcVars
<1>1. ASSUME SvcInv, SvcNext, ~SvcWorld PROVE CallsLeft[svcPc'] < CallsLeft[svcPc]
  <2>1. CASE PlanSystemd \/ PlanRunr
    BY <2>1 DEF PlanSystemd, PlanRunr, ComputeDiff, SvcGoes, SvcEnds, CallsLeft
  <2>2. CASE SvcClient
    <3>1. svcPc = "client" /\ svcPc' \in {"daemon_reload", "done"}
      BY <2>2 DEF SvcClient, SvcGoes, SvcEnds
    <3> QED BY <3>1 DEF CallsLeft
  <2>3. CASE SkipDaemonReload \/ SvcDaemonReload \/ SvcDaemonReloadFails
    BY <2>3 DEF SkipDaemonReload, SvcDaemonReload, SvcDaemonReloadFails, AfterReload, SvcGoes, SvcEnds, CallsLeft
  <2>4. CASE SvcEnable \/ SvcUnitInfo
    BY <2>4 DEF SvcEnable, SvcUnitInfo, SvcGoes, SvcEnds, CallsLeft
  <2>5. CASE SvcDecide
    <3>1. svcPc = "decide" /\ svcPc' \in {"done", "start", "stop", "validate"}
      BY <2>5 DEF SvcDecide, SvcGoes, SvcEnds
    <3> QED BY <3>1 DEF CallsLeft
  <2>6. CASE ExecuteStart \/ ExecuteStartFails \/ ObserveStart
    BY <2>6 DEF ExecuteStart, ExecuteStartFails, ObserveStart, Breaks, SvcGoes, SvcEnds, CallsLeft
  <2>7. CASE SvcStop \/ CallFails
    BY <2>7 DEF SvcStop, CallFails, Breaks, SvcEnds, CallsLeft
  <2>8. CASE SvcValidate \/ SvcEnqueue \/ SvcHealth
    <3>1. \/ svcPc = "validate" /\ svcPc' \in {"enqueue", "done"}
          \/ svcPc \in {"enqueue", "health"} /\ svcPc' = "done"
      BY <2>8 DEF SvcValidate, SvcEnqueue, SvcHealth, SvcGoes, SvcEnds
    <3> QED BY <3>1 DEF CallsLeft
  <2> QED BY <1>1, <2>1, <2>2, <2>3, <2>4, <2>5, <2>6, <2>7, <2>8 DEF SvcNext
<1>2. ASSUME SvcWorld PROVE svcPc' = svcPc
  BY <1>2 DEF SvcWorld
<1>3. SvcInv /\ [SvcNext]_svcVars
        => [IF SvcWorld THEN svcPc' = svcPc ELSE CallsLeft[svcPc'] < CallsLeft[svcPc]]_svcVars
  BY <1>1, <1>2
<1> QED BY <1>3, SvcInitInv, SvcStepInv, PTL DEF SvcSpecification

-----------------------------------------------------------------------------
(* pg_sql: PgEffectsOnce is not inductive.  That a statement does not take
   effect twice rests on the object, which stays once it is made, on a node that
   is about to execute having seen, in its own re-check, that there is none, and
   on counting the statements that go on without their connection with those
   that took effect. *)

\* The values that the proof tells apart.
PgShape ==
  /\ pgSpec \in PgSqlExecSpec \cup PgSqlQuerySpec /\ present \in BOOLEAN
  /\ effects \in [PgNodes -> Nat] /\ orphans \in [PgNodes -> Nat] /\ abandoned \in [PgNodes -> Nat]
  /\ DOMAIN stage = PgNodes /\ DOMAIN pgOutcome = PgNodes

\* A query is made by pg_sql.query alone, a statement by pg_sql.exec alone.
PgKinds ==
  \A n \in PgNodes : /\ stage[n] = "query" => pgSpec.kind = "query"
                     /\ stage[n] \in {"re-check", "execute"} => pgSpec.kind = "exec"

\* No connection outlives a run, and a plan opens one for a check only.
PgSessions ==
  /\ DOMAIN session = PgNodes
  /\ \A n \in PgNodes : session[n] = "running" =>
       stage[n] # "end" /\ (stage[n] = "plan" => pgSpec.if_not_exists_check)

\* The statements of a node that took effect, or still may, are those that were
\* left behind and one more; and a node that is about to execute, or that will
\* find no object, has not had that one.
EffectSeen ==
  pgSpec.if_not_exists_check =>
    \A n \in PgNodes : /\ effects[n] + orphans[n] <= 1 + abandoned[n]
                       /\ ~present \/ stage[n] = "execute" => effects[n] + orphans[n] <= abandoned[n]

PgInv == PgShape /\ PgKinds /\ PgSessions /\ EffectSeen /\ PgEffectsOnce

\* No error of the backend is reported as a change.
LEMMA ErrorIsNoChange ==
  ASSUME NEW n \in PgNodes, NEW e \in PgSqlError
  PROVE  MapError(n, e) # "changed" /\ MapExecError(e) # "changed"
BY DEF MapError, MapCheckError, MapExecError, MapQueryError, PgSqlError

\* Before anything has run there is no object and no outcome.
LEMMA PgInitInv == PgInit => PgInv
<1> SUFFICES ASSUME PgInit PROVE PgInv
  OBVIOUS
<1>1. PgShape BY DEF PgInit, PgShape
<1>2. PgKinds BY DEF PgInit, PgKinds
<1>3. PgSessions BY DEF PgInit, PgSessions
<1>4. EffectSeen BY DEF PgInit, EffectSeen
<1>5. PgEffectsOnce BY DEF PgInit, PgEffectsOnce
<1> QED BY <1>1, <1>2, <1>3, <1>4, <1>5 DEF PgInv

\* A step that ends with something other than a change, and executes nothing,
\* or goes to a stage other than the statement.
LEMMA PgQuiet ==
  ASSUME PgInv, NEW n \in PgNodes, NEW outcome, NEW next,
         UNCHANGED <<pgSpec, present, effects, orphans, abandoned>>,
         \/ outcome # "changed" /\ PgEnd(n, outcome)
         \/ PgGoto(n, next) /\ next \notin {"query", "re-check", "execute"}
         \/ PgGoto(n, next) /\ next = "query" /\ pgSpec.kind = "query"
         \/ PgGoto(n, next) /\ next = "re-check" /\ pgSpec.kind = "exec"
         \/ PgGoto(n, next) /\ next = "execute" /\ pgSpec.kind = "exec" /\ (~pgSpec.if_not_exists_check \/ ~present)
  PROVE  PgInv'
BY DEF PgInv, PgShape, PgKinds, PgSessions, EffectSeen, PgEffectsOnce, PgEnd, PgGoto

\* Each step of a node preserves the invariant.
LEMMA PgNodeStep ==
  ASSUME PgInv, NEW n \in PgNodes, PgStep(n) \/ StatementFails(n) \/ StatementWaits(n) \/ OrphanEnds(n)
  PROVE  PgInv'
<1>s. stage[n] = "plan" /\ session[n] = "running" => pgSpec.kind = "exec"
  BY DEF PgInv, PgShape, PgSessions, PgSqlExecSpec, PgSqlQuerySpec
<1>e. \A e \in PgSqlError : MapError(n, e) # "changed" /\ MapExecError(e) # "changed"
  BY ErrorIsNoChange
<1>q. ASSUME NEW e \in PgSqlError, PgFails(n, e), UNCHANGED <<orphans, abandoned>> PROVE PgInv'
  <2>1. MapError(n, e) # "changed" BY <1>e, <1>q
  <2> QED BY <1>q, <2>1, PgQuiet DEF PgFails
<1>m. MapPgError("lost") \in PgSqlError /\ MapPgError("57014") \in PgSqlError
  BY DEF MapPgError, PgSqlError
<1>1. CASE OpenClient(n)
  <2>1. CASE ~pgSpec.dsn /\ PgEnd(n, MapError(n, "InvalidDsn"))
    <3>1. MapError(n, "InvalidDsn") # "changed" BY <1>e DEF PgSqlError
    <3> QED BY <1>1, <2>1, <3>1, PgQuiet DEF OpenClient
  <2>2. CASE PgEnd(n, MapError(n, "Connect"))
    <3>1. MapError(n, "Connect") # "changed" BY <1>e DEF PgSqlError
    <3> QED BY <1>1, <2>2, <3>1, PgQuiet DEF OpenClient
  <2>3. CASE session' = [session EXCEPT ![n] = "running"] /\ UNCHANGED <<stage, pgOutcome>>
    <3>1. UNCHANGED <<pgSpec, present, effects, orphans, abandoned, stage, pgOutcome>> BY <1>1, <2>3 DEF OpenClient
    <3>2. stage[n] # "end" /\ (stage[n] = "plan" => pgSpec.if_not_exists_check) BY <1>1 DEF OpenClient, HasCheck
    <3>3. PgSessions' BY <2>3, <3>1, <3>2 DEF PgInv, PgSessions
    <3> QED BY <3>1, <3>3 DEF PgInv, PgShape, PgKinds, EffectSeen, PgEffectsOnce
  <2> QED BY <1>1, <2>1, <2>2, <2>3 DEF OpenClient
<1>2. CASE PlanAlways(n) BY <1>2, PgQuiet DEF PlanAlways, HasCheck
<1>3. CASE PlanQuery(n) BY <1>3, PgQuiet DEF PlanQuery
<1>4. CASE PlanCheck(n)
  <2>1. CASE present BY <1>4, <2>1, PgQuiet DEF PlanCheck
  <2>2. CASE ~present /\ pgSpec.kind = "exec" BY <1>4, <2>2, PgQuiet DEF PlanCheck
  <2> QED BY <1>4, <2>1, <2>2, <1>s DEF PlanCheck
<1>5. CASE ReCheck(n)
  <2>1. pgSpec.kind = "exec" BY <1>5 DEF ReCheck, PgInv, PgKinds
  <2>2. CASE present BY <1>5, <2>2, PgQuiet DEF ReCheck
  <2>3. CASE ~present BY <1>5, <2>1, <2>3, PgQuiet DEF ReCheck
  <2> QED BY <2>2, <2>3
<1>6. CASE Execute(n)
  <2>0. MapExecError("Sql") # "changed" BY <1>e DEF PgSqlError
  <2>1. CASE present /\ ~pgSpec.tolerant BY <1>6, <2>0, <2>1, PgQuiet DEF Execute
  <2>2. CASE ~(present /\ ~pgSpec.tolerant)
    <3>1. pgSpec.if_not_exists_check => effects[n] + orphans[n] <= abandoned[n]
      BY <1>6 DEF Execute, PgInv, EffectSeen
    <3>2. /\ effects' = [effects EXCEPT ![n] = @ + 1] /\ present' = TRUE
          /\ UNCHANGED <<pgSpec, orphans, abandoned>>
      BY <1>6, <2>2 DEF Execute
    <3>3. stage' = [stage EXCEPT ![n] = "end"] /\ session' = [session EXCEPT ![n] = "closed"]
         /\ \E o : pgOutcome' = [pgOutcome EXCEPT ![n] = o]
      BY <1>6, <2>2 DEF Execute, PgEnd
    <3>4. PgShape' BY <3>2, <3>3 DEF PgInv, PgShape
    <3>5. PgKinds' BY <3>2, <3>3 DEF PgInv, PgShape, PgKinds
    <3>6. PgSessions' BY <3>2, <3>3 DEF PgInv, PgShape, PgSessions
    <3>7. EffectSeen' BY <3>1, <3>2, <3>3 DEF PgInv, PgShape, EffectSeen
    <3>8. PgEffectsOnce' BY <3>1, <3>2, <3>3 DEF PgInv, PgShape, PgEffectsOnce
    <3> QED BY <3>4, <3>5, <3>6, <3>7, <3>8 DEF PgInv
  <2> QED BY <2>1, <2>2
<1>7. CASE QueryAnswers(n)
  BY <1>7 DEF QueryAnswers, PgInv, PgShape, PgKinds, PgSessions, EffectSeen, PgEffectsOnce, PgEnd
<1>8. CASE StatementCancelled(n) BY <1>8, <1>m, <1>q DEF StatementCancelled
<1>9. CASE NextPgRun(n)
  BY <1>9 DEF NextPgRun, PgInv, PgShape, PgKinds, PgSessions, EffectSeen, PgEffectsOnce
<1>10. CASE StatementFails(n)
  <2>1. CASE UNCHANGED <<orphans, abandoned>> BY <1>10, <1>m, <1>q, <2>1 DEF StatementFails
  <2>2. CASE /\ ~ReadsOf(n) /\ orphans' = [orphans EXCEPT ![n] = @ + 1]
             /\ abandoned' = [abandoned EXCEPT ![n] = @ + 1]
    <3>1. /\ PgEnd(n, MapError(n, MapPgError("lost"))) /\ MapError(n, MapPgError("lost")) # "changed"
          /\ UNCHANGED <<pgSpec, present, effects>>
      BY <1>10, <1>m, <1>e DEF StatementFails, PgFails
    <3>2. PgShape' BY <2>2, <3>1 DEF PgInv, PgShape, PgEnd
    <3>3. PgKinds' BY <3>1 DEF PgInv, PgShape, PgKinds, PgEnd
    <3>4. PgSessions' BY <3>1 DEF PgInv, PgShape, PgSessions, PgEnd
    <3>5. EffectSeen' BY <2>2, <3>1 DEF PgInv, PgShape, EffectSeen, PgEnd
    <3>6. PgEffectsOnce' BY <2>2, <3>1 DEF PgInv, PgShape, PgEffectsOnce, PgEnd
    <3> QED BY <3>2, <3>3, <3>4, <3>5, <3>6 DEF PgInv
  <2> QED BY <1>10, <2>1, <2>2 DEF StatementFails
<1>11. CASE StatementWaits(n)
  BY <1>11 DEF StatementWaits, PgInv, PgShape, PgKinds, PgSessions, EffectSeen, PgEffectsOnce
<1>12. CASE OrphanEnds(n)
  <2>0. effects \in [PgNodes -> Nat] /\ orphans \in [PgNodes -> Nat] /\ abandoned \in [PgNodes -> Nat] /\ present \in BOOLEAN
    BY DEF PgInv, PgShape
  <2>1. UNCHANGED <<pgSpec, abandoned, stage, session, pgOutcome>>
    BY <1>12 DEF OrphanEnds
  <2>2. /\ orphans[n] > 0 /\ orphans' = [orphans EXCEPT ![n] = orphans[n] - 1]
        /\ \/ present' = TRUE /\ effects' = [effects EXCEPT ![n] = effects[n] + 1]
           \/ UNCHANGED <<present, effects>>
    BY <1>12 DEF OrphanEnds
  <2>3. orphans' \in [PgNodes -> Nat] /\ effects' \in [PgNodes -> Nat] /\ present' \in BOOLEAN
    <3>1. orphans[n] - 1 \in Nat /\ effects[n] + 1 \in Nat BY <2>0, <2>2
    <3> QED BY <2>0, <2>2, <3>1
  <2>4. PgShape' BY <2>1, <2>3 DEF PgInv, PgShape
  <2>5. PgKinds' /\ PgSessions' BY <2>1 DEF PgInv, PgKinds, PgSessions
  <2>6. /\ \A m \in PgNodes : effects'[m] + orphans'[m] <= effects[m] + orphans[m] /\ effects'[m] >= effects[m]
        /\ present => present'
    <3>1. ASSUME NEW m \in PgNodes
          PROVE  effects'[m] + orphans'[m] <= effects[m] + orphans[m] /\ effects'[m] >= effects[m]
      <4>1. CASE m = n BY <2>0, <2>2, <4>1
      <4>2. CASE m # n
        <5>1. effects'[m] = effects[m] /\ orphans'[m] = orphans[m] BY <2>0, <2>2, <4>2
        <5> QED BY <2>0, <5>1
      <4> QED BY <4>1, <4>2
    <3> QED BY <2>2, <3>1
  <2>7. EffectSeen' BY <2>0, <2>1, <2>3, <2>6 DEF PgInv, EffectSeen
  <2>8. PgEffectsOnce' BY <2>0, <2>1, <2>3, <2>6, <2>7 DEF PgInv, EffectSeen, PgEffectsOnce
  <2> QED BY <2>4, <2>5, <2>7, <2>8 DEF PgInv
<1> QED BY <1>1, <1>2, <1>3, <1>4, <1>5, <1>6, <1>7, <1>8, <1>9, <1>10, <1>11, <1>12 DEF PgStep

\* The invariant is kept by every step of the nodes and of the server.
LEMMA PgKept == PgInv /\ [PgNext]_pgVars => PgInv'
<1> SUFFICES ASSUME PgInv, [PgNext]_pgVars PROVE PgInv'
  OBVIOUS
<1>1. CASE \E n \in PgNodes : PgStep(n) \/ StatementFails(n) \/ StatementWaits(n) \/ OrphanEnds(n)
  BY <1>1, PgNodeStep
<1>2. CASE Unlock
  BY <1>2 DEF Unlock, PgInv, PgShape, PgKinds, PgSessions, EffectSeen, PgEffectsOnce
<1>3. CASE UNCHANGED pgVars
  BY <1>3 DEF pgVars, PgInv, PgShape, PgKinds, PgSessions, EffectSeen, PgEffectsOnce
<1> QED BY <1>1, <1>2, <1>3 DEF PgNext

\* pg_sql.exec with a check: in all the runs of a node, with any number of
\* nodes beside it, failed connections and lost answers, its statement takes
\* effect at most once, and once more for each statement whose connection was
\* lost before it took effect; and what is reported as a change was made.
THEOREM PgOnce == PgSpecification => []PgEffectsOnce
<1>1. PgInv => PgEffectsOnce BY DEF PgInv
<1> QED BY <1>1, PgKept, PgInitInv, PTL DEF PgSpecification

\* A statement grows older only while it is executed: a check never does.
PgReadsFresh ==
  /\ DOMAIN stmtAge = PgNodes
  /\ \A n \in PgNodes : stage[n] # "execute" => stmtAge[n] = 0

\* With a check, a node whose last outcome is no_change found the object, which
\* stays, and is not on its way to the statement.
PgFoundStays ==
  pgSpec.if_not_exists_check =>
    \A n \in PgNodes : pgOutcome[n] = "no_change" => present /\ stage[n] \in {"plan", "end"}

\* The server's statement_timeout is a number, and so is the count of failures.
PgLimits == pgFaults \in Nat /\ server \in [statement_timeout : Nat, locked : BOOLEAN]

\* What the first two say is kept by a step that takes one node to another stage, or to
\* its end.
LEMMA PgMovesFresh ==
  ASSUME PgInv, PgReadsFresh, PgFoundStays, NEW n \in PgNodes, NEW outcome, NEW next,
         UNCHANGED pgSpec, present => present',
         \/ outcome # "no_change" /\ PgEnd(n, outcome)
         \/ present' /\ PgEnd(n, outcome)
         \/ PgGoto(n, next) /\ (~present \/ ~pgSpec.if_not_exists_check)
  PROVE  PgReadsFresh' /\ PgFoundStays'
<1>1. /\ DOMAIN stage = PgNodes /\ DOMAIN pgOutcome = PgNodes /\ DOMAIN stmtAge = PgNodes
  BY DEF PgInv, PgShape, PgReadsFresh
<1>2. stmtAge' = [stmtAge EXCEPT ![n] = 0] /\ \E s : stage' = [stage EXCEPT ![n] = s]
  BY DEF PgEnd, PgGoto
<1>3. PgReadsFresh'
  BY <1>1, <1>2 DEF PgReadsFresh
<1>4. PgFoundStays'
  <2>1. SUFFICES ASSUME pgSpec.if_not_exists_check, NEW m \in PgNodes, pgOutcome'[m] = "no_change"
                 PROVE  present' /\ stage'[m] \in {"plan", "end"}
    BY DEF PgFoundStays
  <2>2. pgOutcome[m] = "no_change" => present /\ stage[m] \in {"plan", "end"}
    BY <2>1 DEF PgFoundStays
  <2>3. m # n => stage'[m] = stage[m] /\ pgOutcome'[m] = pgOutcome[m]
    BY <1>1 DEF PgEnd, PgGoto
  <2>4. CASE m # n
    BY <2>1, <2>2, <2>3, <2>4
  <2>5. CASE m = n /\ PgEnd(n, outcome) /\ (outcome # "no_change" \/ present')
    <3>1. stage'[n] = "end" /\ pgOutcome'[n] = outcome
      BY <1>1, <2>5 DEF PgEnd
    <3> QED BY <2>1, <2>5, <3>1, Zenon
  <2>6. CASE m = n /\ PgGoto(n, next) /\ ~present
    <3>1. pgOutcome' = pgOutcome
      BY <2>6 DEF PgGoto
    <3> QED BY <2>1, <2>2, <2>6, <3>1, Zenon
  <2> QED BY <2>1, <2>4, <2>5, <2>6, Zenon
<1> QED BY <1>3, <1>4

\* Each step of a node keeps them.
LEMMA PgNodeFresh ==
  ASSUME PgInv, PgReadsFresh, PgFoundStays, NEW n \in PgNodes,
         PgStep(n) \/ StatementFails(n) \/ StatementWaits(n) \/ OrphanEnds(n)
  PROVE  PgReadsFresh' /\ PgFoundStays'
<1>e. /\ \A e \in PgSqlError : MapError(n, e) # "no_change" /\ MapExecError(e) # "no_change"
      /\ MapPgError("lost") \in PgSqlError /\ MapPgError("57014") \in PgSqlError
  BY DEF MapError, MapCheckError, MapExecError, MapQueryError, PgSqlError, MapPgError
<1>1. CASE OpenClient(n)
  <2>1. CASE session' = [session EXCEPT ![n] = "running"] /\ UNCHANGED <<stage, stmtAge, pgOutcome>>
    BY <1>1, <2>1 DEF OpenClient, PgReadsFresh, PgFoundStays
  <2>2. CASE PgEnd(n, MapError(n, "InvalidDsn")) \/ PgEnd(n, MapError(n, "Connect"))
    <3>1. MapError(n, "InvalidDsn") # "no_change" /\ MapError(n, "Connect") # "no_change"
      BY <1>e DEF PgSqlError
    <3>2. UNCHANGED <<pgSpec, present>>
      BY <1>1 DEF OpenClient
    <3> QED BY <2>2, <3>1, <3>2, PgMovesFresh
  <2> QED BY <1>1, <2>1, <2>2 DEF OpenClient
<1>2. CASE PlanAlways(n)
  BY <1>2, PgMovesFresh DEF PlanAlways, HasCheck
<1>3. CASE PlanQuery(n)
  <2>1. ~pgSpec.if_not_exists_check
    BY <1>3 DEF PlanQuery, PgInv, PgShape, PgSqlExecSpec, PgSqlQuerySpec
  <2> QED BY <1>3, <2>1, PgMovesFresh DEF PlanQuery
<1>4. CASE PlanCheck(n)
  <2>1. CASE present
    BY <1>4, <2>1, PgMovesFresh DEF PlanCheck
  <2>2. CASE ~present
    BY <1>4, <2>2, PgMovesFresh DEF PlanCheck
  <2> QED BY <2>1, <2>2
<1>5. CASE ReCheck(n)
  <2>1. CASE present
    BY <1>5, <2>1, PgMovesFresh DEF ReCheck
  <2>2. CASE ~present
    BY <1>5, <2>2, PgMovesFresh DEF ReCheck
  <2> QED BY <2>1, <2>2
<1>6. CASE Execute(n)
  <2>1. PgEnd(n, "changed") \/ PgEnd(n, MapExecError("Sql"))
    BY <1>6 DEF Execute, MapPgError
  <2>2. MapExecError("Sql") # "no_change"
    BY <1>e DEF PgSqlError
  <2>3. pgSpec' = pgSpec /\ (present => present')
    BY <1>6 DEF Execute
  <2> QED BY <2>1, <2>2, <2>3, PgMovesFresh
<1>7. CASE QueryAnswers(n)
  <2>1. UNCHANGED <<pgSpec, present>> /\ PgEnd(n, "changed")
    BY <1>7 DEF QueryAnswers
  <2> QED BY <2>1, PgMovesFresh
<1>8. CASE StatementCancelled(n) \/ StatementFails(n)
  <2>1. PICK e \in PgSqlError : PgFails(n, e)
    BY <1>8, <1>e DEF StatementCancelled, StatementFails
  <2>2. MapError(n, e) # "no_change"
    BY <1>e
  <2> QED BY <2>1, <2>2, PgMovesFresh DEF PgFails
<1>9. CASE NextPgRun(n)
  BY <1>9 DEF NextPgRun, PgInv, PgShape, PgReadsFresh, PgFoundStays
<1>10. CASE StatementWaits(n)
  BY <1>10 DEF StatementWaits, ReadsOf, PgReadsFresh, PgFoundStays
<1>11. CASE OrphanEnds(n)
  BY <1>11 DEF OrphanEnds, PgReadsFresh, PgFoundStays
<1> QED BY <1>1, <1>2, <1>3, <1>4, <1>5, <1>6, <1>7, <1>8, <1>9, <1>10, <1>11 DEF PgStep

\* In a settled database a step of a node without a failure finds the object.
LEMMA PgKeepsSettled ==
  ASSUME PgInv, PgReadsFresh, PgFoundStays, NEW n \in PgNodes,
         PgStep(n) \/ StatementWaits(n) \/ OrphanEnds(n),
         pgFaults' = pgFaults, PgLimits, PgSettled
  PROVE  PgSettled'
<1>0. SUFFICES ASSUME pgSpec.if_not_exists_check, pgSpec.dsn
      PROVE  present' /\ \A m \in PgNodes : pgOutcome'[m] = "no_change"
  <2>1. pgSpec' = pgSpec
    BY DEF PgStep, OpenClient, PlanAlways, PlanQuery, PlanCheck, ReCheck, Execute, QueryAnswers, StatementCancelled,
           PgFails, NextPgRun, StatementWaits, OrphanEnds
  <2> QED BY <2>1 DEF PgSettled
<1>1. present /\ \A m \in PgNodes : pgOutcome[m] = "no_change" /\ stage[m] \in {"plan", "end"} /\ stmtAge[m] = 0
  BY <1>0 DEF PgSettled, PgFoundStays, PgReadsFresh
<1>2. DOMAIN pgOutcome = PgNodes
  BY DEF PgInv, PgShape
<1>3. CASE OpenClient(n)
  BY <1>0, <1>1, <1>3 DEF OpenClient, PgFault, PgLimits
<1>4. CASE PlanCheck(n)
  BY <1>1, <1>2, <1>4 DEF PlanCheck, PgEnd
<1>5. ~PlanAlways(n) /\ ~PlanQuery(n) /\ ~ReCheck(n) /\ ~Execute(n) /\ ~QueryAnswers(n)
  <2>1. pgSpec.kind = "exec"
    BY <1>0 DEF PgInv, PgShape, PgSqlExecSpec, PgSqlQuerySpec
  <2> QED BY <1>0, <1>1, <2>1 DEF PlanAlways, HasCheck, PlanQuery, ReCheck, Execute, QueryAnswers
<1>6. ~StatementCancelled(n)
  <2>1. stmtAge[n] = 0
    BY <1>1
  <2>2. server.statement_timeout \in Nat
    BY DEF PgLimits
  <2> QED BY <2>1, <2>2 DEF StatementCancelled, ApplyStatementTimeout
<1>7. CASE NextPgRun(n)
  BY <1>1, <1>7 DEF NextPgRun
<1>8. CASE StatementWaits(n)
  BY <1>1, <1>8 DEF StatementWaits
<1>9. CASE OrphanEnds(n)
  BY <1>1, <1>9 DEF OrphanEnds
<1> QED BY <1>3, <1>4, <1>5, <1>6, <1>7, <1>8, <1>9 DEF PgStep

\* Once the object exists and every node has found it, it stays so for any
\* number of runs and nodes until a connection fails: no timeout hits a check,
\* no node is on its way to the statement, and one that the server still has
\* leaves the object where it is.
THEOREM PgStaysSettled ==
  PgSpecification => [][pgFaults' = pgFaults => (PgSettled => PgSettled')]_pgVars
<1>0. PgLimits /\ [PgNext]_pgVars => PgLimits'
  <2> SUFFICES ASSUME PgLimits, [PgNext]_pgVars PROVE PgLimits'
    OBVIOUS
  <2>1. CASE Unlock
    BY <2>1 DEF Unlock, PgLimits
  <2>2. CASE UNCHANGED pgVars
    BY <2>2 DEF pgVars, PgLimits
  <2>3. ASSUME NEW n \in PgNodes, PgStep(n) \/ StatementFails(n) \/ StatementWaits(n) \/ OrphanEnds(n) PROVE PgLimits'
    <3>1. server' = server
      BY <2>3 DEF PgStep, OpenClient, PlanAlways, PlanQuery, PlanCheck, ReCheck, Execute, QueryAnswers,
                  StatementCancelled, StatementFails, PgFails, NextPgRun, StatementWaits, OrphanEnds
    <3>2. pgFaults' \in {pgFaults, pgFaults + 1}
      BY <2>3 DEF PgStep, OpenClient, PgFault, PlanAlways, PlanQuery, PlanCheck, ReCheck, Execute, QueryAnswers,
                  StatementCancelled, StatementFails, NextPgRun, StatementWaits, OrphanEnds
    <3> QED BY <3>1, <3>2 DEF PgLimits
  <2> QED BY <2>1, <2>2, <2>3 DEF PgNext
<1>1. PgInit => PgInv /\ PgReadsFresh /\ PgFoundStays /\ PgLimits
  BY PgInitInv DEF PgInit, PgLimits, PgReadsFresh, PgFoundStays
<1>2. PgInv /\ PgReadsFresh /\ PgFoundStays /\ [PgNext]_pgVars => PgReadsFresh' /\ PgFoundStays'
  <2> SUFFICES ASSUME PgInv, PgReadsFresh, PgFoundStays, [PgNext]_pgVars PROVE PgReadsFresh' /\ PgFoundStays'
    OBVIOUS
  <2>1. CASE Unlock
    BY <2>1 DEF Unlock, PgReadsFresh, PgFoundStays
  <2>2. CASE UNCHANGED pgVars
    BY <2>2 DEF pgVars, PgReadsFresh, PgFoundStays
  <2> QED BY <2>1, <2>2, PgNodeFresh DEF PgNext
<1>3. PgInv /\ PgReadsFresh /\ PgFoundStays /\ PgLimits /\ [PgNext]_pgVars
        => [pgFaults' = pgFaults => (PgSettled => PgSettled')]_pgVars
  <2> SUFFICES ASSUME PgInv, PgReadsFresh, PgFoundStays, PgLimits, PgNext, pgFaults' = pgFaults, PgSettled
               PROVE  PgSettled'
    BY DEF pgVars
  <2>1. CASE Unlock
    BY <2>1 DEF Unlock, PgSettled
  <2>2. ASSUME NEW n \in PgNodes PROVE ~StatementFails(n)
    BY DEF StatementFails, PgFault, PgLimits
  <2> QED BY <2>1, <2>2, PgKeepsSettled DEF PgNext
<1>4. PgInv /\ [PgNext]_pgVars => PgInv'
  BY PgKept
<1> QED BY <1>0, <1>1, <1>2, <1>3, <1>4, PTL DEF PgSpecification

-----------------------------------------------------------------------------
(* Timers, signals and sysctl *)

\* The calls that one apply makes belong to one kind and one declared state.
TrgPhases ==
  /\ trgKind \in TrgKinds /\ trgSpec \in SpecsOf(trgKind) /\ unit \in Unit
  /\ trgPc \in {"plan", "apply", "end"} \cup TriggerCalls
  /\ trgPc \in {"enable", "start"} => trgKind = "systemd.timer" /\ trgSpec.state = "enabled"
  /\ trgPc \in {"stop", "disable"} => trgKind = "systemd.timer" /\ trgSpec.state # "enabled"
  /\ trgPc = "timer_enable" => trgKind = "runr.timer" /\ trgSpec.state = "enabled"
  /\ trgPc \in {"timer_stop", "timer_disable", "timer_stop_disable"}
       => trgKind = "runr.timer" /\ trgSpec.state # "enabled"
  /\ trgPc \in {"pkill", "enqueue"} => trgKind = "process.signal"
  /\ trgPc = "sysctl" => trgKind = "sysctl.reload"
  /\ queued => trgKind = "process.signal"

\* What a call makes of a unit; active and enabled are truth values again.
LEMMA CallEffects ==
  ASSUME unit \in Unit, NEW call \in TriggerCalls \ {"pkill", "enqueue", "sysctl"},
         call = "timer_enable" => trgSpec.start_now \in BOOLEAN
  PROVE  /\ CallEffect(call) \in Unit /\ CallEffect(call).known = unit.known
         /\ call = "start" => CallEffect(call).active
         /\ call = "enable" => CallEffect(call).active = unit.active
         /\ call = "stop" => ~CallEffect(call).active
         /\ call = "disable" => CallEffect(call).active = unit.active
         /\ call = "timer_enable" => CallEffect(call).enabled
         /\ call = "timer_stop" => CallEffect(call).enabled = unit.enabled
         /\ call \in {"timer_disable", "timer_stop_disable"} => ~CallEffect(call).enabled
<1>1. /\ unit.known \in BOOLEAN /\ unit.enabled \in BOOLEAN /\ unit.active \in BOOLEAN
  BY DEF Unit
<1>2. ASSUME NEW a \in BOOLEAN, NEW e \in BOOLEAN
      PROVE  /\ [unit EXCEPT !.active = a] \in Unit /\ [unit EXCEPT !.enabled = e] \in Unit
             /\ [unit EXCEPT !.enabled = e, !.active = a] \in Unit
             /\ [unit EXCEPT !.active = a].known = unit.known /\ [unit EXCEPT !.enabled = e].known = unit.known
             /\ [unit EXCEPT !.enabled = e, !.active = a].known = unit.known
             /\ [unit EXCEPT !.active = a].active = a /\ [unit EXCEPT !.active = a].enabled = unit.enabled
             /\ [unit EXCEPT !.enabled = e].enabled = e /\ [unit EXCEPT !.enabled = e].active = unit.active
             /\ [unit EXCEPT !.enabled = e, !.active = a].enabled = e
  BY DEF Unit
<1>3. CASE call = "enable"
  BY <1>2, <1>3 DEF CallEffect
<1>4. CASE call = "start"
  BY <1>2, <1>4 DEF CallEffect
<1>5. CASE call \in {"stop", "timer_stop"}
  BY <1>2, <1>5 DEF CallEffect
<1>6. CASE call \in {"disable", "timer_disable"}
  BY <1>2, <1>6 DEF CallEffect
<1>7. CASE call = "timer_stop_disable"
  BY <1>2, <1>7 DEF CallEffect
<1>8. CASE call = "timer_enable"
  <2>1. PICK a \in BOOLEAN : a = (unit.active \/ trgSpec.start_now)
    OBVIOUS
  <2>2. CallEffect(call) = [unit EXCEPT !.enabled = TRUE, !.active = a]
    BY <1>8, <2>1 DEF CallEffect
  <2> QED
    BY <1>2, <1>8, <2>2
<1> QED
  BY <1>3, <1>4, <1>5, <1>6, <1>7, <1>8 DEF TriggerCalls

\* The calls of a timer belong to its kind.
TimerCalls == TriggerCalls \ {"pkill", "enqueue", "sysctl"}

\* Such a call gives a unit again.
LEMMA CallOf ==
  ASSUME TrgPhases, trgPc \in TimerCalls
  PROVE  /\ trgPc = "timer_enable" => trgSpec.start_now \in BOOLEAN
         /\ CallEffect(trgPc) \in Unit /\ CallEffect(trgPc).known = unit.known
<1>1. trgPc = "timer_enable" => trgSpec.start_now \in BOOLEAN
  BY DEF TrgPhases, SpecsOf, RunrTimerSpec
<1> QED
  BY <1>1, CallEffects DEF TrgPhases, TimerCalls

\* The phases after a step that leaves the kind, the spec and the unit alone.
LEMMA PhasesOn ==
  ASSUME TrgPhases, UNCHANGED <<trgKind, trgSpec>>, unit' \in Unit, queued' => queued,
         trgPc' = trgPc \/ trgPc' \in {"plan", "apply", "end"}
  PROVE  TrgPhases'
BY DEF TrgPhases

\* Every step keeps the calls with their kind and their declared state.
LEMMA TrgStepPhases == ASSUME TrgPhases, [TrgNext]_trgVars PROVE TrgPhases'
<1>1. CASE PlanSignal \/ PlanSysctl \/ PlanSystemdTimer \/ PlanRunrTimer \/ PlanCgroup \/ NextTrgRun
  BY <1>1, PhasesOn DEF PlanSignal, PlanSysctl, PlanSystemdTimer, PlanRunrTimer, PlanCgroup, NextTrgRun, TrgPlan,
                        TrgGoto, TrgEnd, World, TrgPhases
<1>2. CASE RunSystemdTimer
  <2>1. /\ trgKind = "systemd.timer" /\ UNCHANGED <<trgKind, trgSpec, unit, queued>>
        /\ trgPc' = DecideSystemdTimer(trgSpec, unit)
    BY <1>2 DEF RunSystemdTimer, RunTimer, TrgGoto, TrgEnd, World
  <2>2. /\ trgPc' \in {"enable", "start", "stop", "end"}
        /\ trgPc' \in {"enable", "start"} => trgSpec.state = "enabled"
        /\ trgPc' = "stop" => trgSpec.state # "enabled"
    BY <2>1 DEF DecideSystemdTimer
  <2> QED
    BY <2>1, <2>2 DEF TrgPhases, TriggerCalls
<1>3. CASE RunRunrTimer
  <2>1. /\ trgKind = "runr.timer" /\ UNCHANGED <<trgKind, trgSpec, unit, queued>>
        /\ trgPc' = DecideRunrTimer(trgSpec, unit)
    BY <1>3 DEF RunRunrTimer, RunTimer, TrgGoto, TrgEnd, World
  <2>2. /\ trgPc' \in {"timer_enable", "timer_disable", "timer_stop", "end"}
        /\ trgPc' = "timer_enable" => trgSpec.state = "enabled"
        /\ trgPc' \in {"timer_disable", "timer_stop"} => trgSpec.state # "enabled"
    BY <2>1 DEF DecideRunrTimer
  <2> QED
    BY <2>1, <2>2 DEF TrgPhases, TriggerCalls
<1>4. CASE TimerCall
  <2>1. trgPc \in TimerCalls /\ UNCHANGED <<trgKind, trgSpec, queued>> /\ unit' \in {unit, CallEffect(trgPc)}
    BY <1>4 DEF TimerCall, TimerCalls
  <2>2. unit' \in Unit
    BY <2>1, CallOf DEF TrgPhases
  <2>3. trgPc' \in {"end", CallAfter(trgPc)}
    BY <1>4 DEF TimerCall, TrgGoto, TrgEnd
  <2>4. /\ CallAfter(trgPc) \in {"start", "disable", "timer_stop_disable", "end"}
        /\ CallAfter(trgPc) = "start" => trgPc = "enable"
        /\ CallAfter(trgPc) = "disable" => trgPc = "stop"
        /\ CallAfter(trgPc) = "timer_stop_disable" => trgPc = "timer_stop"
    BY DEF CallAfter
  <2> QED
    BY <2>1, <2>2, <2>3, <2>4 DEF TrgPhases, TriggerCalls
<1>5. CASE TimerCallFails
  <2>1. UNCHANGED <<trgKind, trgSpec, queued>> /\ trgPc' = "end"
    BY <1>5 DEF TimerCallFails, TrgEnd
  <2>2. unit' = unit \/ (trgPc \in TimerCalls /\ unit' = CallEffect(trgPc))
    BY <1>5 DEF TimerCallFails, TimerCalls
  <2>3. unit' \in Unit
    BY <2>2, CallOf DEF TrgPhases
  <2> QED
    BY <2>1, <2>3, PhasesOn
<1>6. CASE RunSignal
  BY <1>6 DEF RunSignal, TrgGoto, World, TrgPhases, TriggerCalls
<1>7. CASE RunSysctl
  BY <1>7 DEF RunSysctl, TrgGoto, TrgEnd, World, TrgPhases, TriggerCalls
<1>8. CASE EnqueueDefer
  BY <1>8 DEF EnqueueDefer, TrgEnd, TrgPhases
<1>9. CASE ExecuteSync \/ SysctlReload \/ ReplaySignal \/ TriggerFails \/ ReplayGivesUp
  BY <1>9, PhasesOn DEF ExecuteSync, SysctlReload, ReplaySignal, TriggerFails, ReplayGivesUp, TrgEnd, World, TrgPhases
<1>10. CASE OthersUseUnit
  <2>1. PICK u : unit' = u /\ (u \in Unit \/ u = [unit EXCEPT !.active = unit.active /\ unit.enabled])
    BY <1>10 DEF OthersUseUnit
  <2>2. unit.active \in BOOLEAN /\ unit.enabled \in BOOLEAN
    BY DEF TrgPhases, Unit
  <2>3. PICK a \in BOOLEAN : a = (unit.active /\ unit.enabled)
    OBVIOUS
  <2>4. [unit EXCEPT !.active = a] \in Unit
    BY DEF TrgPhases, Unit
  <2>5. unit' \in Unit
    BY <2>1, <2>3, <2>4
  <2> QED
    BY <1>10, <2>5, PhasesOn DEF OthersUseUnit
<1>11. CASE OthersChangeFile \/ UNCHANGED trgVars
  BY <1>11, PhasesOn DEF OthersChangeFile, trgVars, TrgPhases
<1> QED
  BY <1>1, <1>2, <1>3, <1>4, <1>5, <1>6, <1>7, <1>8, <1>9, <1>10, <1>11 DEF TrgNext, TrgStep

\* A call never takes a timer away from what is declared.
LEMMA CallKeepsSettled ==
  ASSUME TrgPhases, TrgSettled, trgPc \in TimerCalls, unit' = CallEffect(trgPc),
         UNCHANGED <<trgKind, trgSpec, file, reader, lastRead>>
  PROVE  TrgSettled'
<1>1. trgPc = "timer_enable" => trgSpec.start_now \in BOOLEAN
  BY CallOf
<1>2. /\ unit'.known = unit.known
      /\ trgPc = "start" => unit'.active
      /\ trgPc \in {"enable", "disable"} => unit'.active = unit.active
      /\ trgPc = "stop" => ~unit'.active
      /\ trgPc = "timer_enable" => unit'.enabled
      /\ trgPc = "timer_stop" => unit'.enabled = unit.enabled
      /\ trgPc \in {"timer_disable", "timer_stop_disable"} => ~unit'.enabled
  BY <1>1, CallEffects DEF TrgPhases, TimerCalls
<1>3. unit \in Unit /\ unit' \in Unit
  BY CallOf DEF TrgPhases
<1>4. /\ unit.active \in BOOLEAN /\ unit'.active \in BOOLEAN
      /\ unit.enabled \in BOOLEAN /\ unit'.enabled \in BOOLEAN
  BY <1>3 DEF Unit
<1>5. trgKind = "systemd.timer" /\ unit'.known => unit'.active = (trgSpec.state = "enabled")
  <2> SUFFICES ASSUME trgKind = "systemd.timer", unit.known PROVE unit'.active = (trgSpec.state = "enabled")
    BY <1>2
  <2>1. unit.active = (trgSpec.state = "enabled")
    BY DEF TrgSettled
  <2>2. CASE trgPc \in {"enable", "start"}
    BY <1>2, <1>4, <2>1, <2>2 DEF TrgPhases
  <2>3. CASE trgPc \in {"stop", "disable"}
    BY <1>2, <1>4, <2>1, <2>3 DEF TrgPhases
  <2> QED
    BY <2>2, <2>3 DEF TrgPhases, TimerCalls, TriggerCalls
<1>6. trgKind = "runr.timer" /\ unit'.known => unit'.enabled = (trgSpec.state = "enabled")
  <2> SUFFICES ASSUME trgKind = "runr.timer", unit.known PROVE unit'.enabled = (trgSpec.state = "enabled")
    BY <1>2
  <2>1. unit.enabled = (trgSpec.state = "enabled")
    BY DEF TrgSettled
  <2>2. CASE trgPc = "timer_enable"
    BY <1>2, <1>4, <2>1, <2>2 DEF TrgPhases
  <2>3. CASE trgPc \in {"timer_stop", "timer_disable", "timer_stop_disable"}
    BY <1>2, <1>4, <2>1, <2>3 DEF TrgPhases
  <2> QED
    BY <2>2, <2>3 DEF TrgPhases, TimerCalls, TriggerCalls
<1>7. trgKind' \notin {"sysctl.reload", "process.signal"}
  BY DEF TrgPhases, TimerCalls, TriggerCalls
<1> QED
  BY <1>5, <1>6, <1>7 DEF TrgSettled

\* A step of bosun: a call, a command, a replay, or one that fails.
BosunTriggers == TrgStep \/ ReplaySignal \/ TimerCallFails \/ TriggerFails \/ ReplayGivesUp

\* None of them takes the resource away from what is declared.
LEMMA TrgKeepsSettled == ASSUME TrgPhases, BosunTriggers, TrgSettled PROVE TrgSettled'
<1>1. CASE TimerCall \/ TimerCallFails
  <2>1. UNCHANGED <<trgKind, trgSpec, file, reader, lastRead>>
    BY <1>1 DEF TimerCall, TimerCallFails
  <2>2. unit' = unit \/ (trgPc \in TimerCalls /\ unit' = CallEffect(trgPc))
    BY <1>1 DEF TimerCall, TimerCallFails, TimerCalls
  <2>3. CASE unit' = unit
    BY <2>1, <2>3 DEF TrgSettled
  <2> QED
    BY <2>1, <2>2, <2>3, CallKeepsSettled
<1>2. CASE ExecuteSync \/ ReplaySignal \/ SysctlReload
  <2>1. /\ UNCHANGED <<trgKind, trgSpec, unit, file, reader>>
        /\ lastRead' = lastRead \/ lastRead' = file
    BY <1>2 DEF ExecuteSync, ReplaySignal, SysctlReload, ReaderReloads
  <2>2. trgKind \in {"process.signal", "sysctl.reload"}
    BY <1>2 DEF ExecuteSync, ReplaySignal, SysctlReload, TrgPhases
  <2> QED
    BY <2>1, <2>2 DEF TrgSettled
<1>3. CASE \/ PlanSignal \/ PlanSysctl \/ PlanSystemdTimer \/ PlanRunrTimer \/ PlanCgroup \/ RunSystemdTimer
           \/ RunRunrTimer \/ RunSignal \/ EnqueueDefer \/ RunSysctl \/ NextTrgRun \/ TriggerFails \/ ReplayGivesUp
  <2>1. UNCHANGED <<trgKind, trgSpec, unit, file, reader, lastRead>>
    BY <1>3 DEF PlanSignal, PlanSysctl, PlanSystemdTimer, PlanRunrTimer, PlanCgroup, TrgPlan, RunSystemdTimer, RunRunrTimer,
                RunTimer, RunSignal, EnqueueDefer, RunSysctl, NextTrgRun, TriggerFails, ReplayGivesUp, World
  <2> QED
    BY <2>1 DEF TrgSettled
<1> QED
  BY <1>1, <1>2, <1>3 DEF BosunTriggers, TrgStep

\* A timer that is as declared, and a process or a kernel with the last version of
\* its file, stay so under every step of bosun, also when the calls of an apply
\* were decided on before others changed the timer, when an answer is lost after
\* the call had its effect, and when a queued signal is replayed late.
THEOREM TriggersStaySettled == TrgSpecification => [][BosunTriggers => (TrgSettled => TrgSettled')]_trgVars
<1>1. TrgInit => TrgPhases
  <2> SUFFICES ASSUME TrgInit PROVE TrgPhases
    OBVIOUS
  <2>1. unit \in Unit
    <3>1. [known |-> FALSE, enabled |-> FALSE, active |-> FALSE] \in Unit
      BY DEF Unit
    <3>2. unit \in Unit \/ unit = [known |-> FALSE, enabled |-> FALSE, active |-> FALSE]
      BY DEF TrgInit
    <3> QED
      BY <3>1, <3>2
  <2> QED
    BY <2>1 DEF TrgInit, TrgPhases
<1>2. TrgPhases /\ [TrgNext]_trgVars => TrgPhases'
  BY TrgStepPhases
<1>3. TrgPhases /\ [TrgNext]_trgVars => [BosunTriggers => (TrgSettled => TrgSettled')]_trgVars
  BY TrgKeepsSettled
<1> QED
  BY <1>1, <1>2, <1>3, PTL DEF TrgSpecification
=============================================================================
