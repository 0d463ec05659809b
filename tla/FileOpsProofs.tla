----------------------------- MODULE FileOpsProofs -----------------------------
(***************************************************************************)
(* Proofs that the file primitives report honestly, back up before they    *)
(* replace, install only what the validator accepted and destroy only what *)
(* the resource gives away, for all contents, names and bounds and any     *)
(* number of kept backups.                                                 *)
(***************************************************************************)
EXTENDS FileOps, FiniteSetTheorems, TLAPS

-----------------------------------------------------------------------------
(* The inductive invariant: what each step of an apply may rely on.        *)

(* file.content works on a file or on nothing; from the validator on,      *)
(* <path>.new is the file of this apply.                                   *)
ContentInv ==
    /\ pc \in ContentSteps => object.kind \in {"none", "file"}
    /\ pc \in {"new", "validate"} => resource.validate
    /\ pc \in {"backup", "rotate"} => object.kind = "file"
    /\ pc \in {"validate", "backup", "rotate", "install"} /\ resource.validate => new = Wanted
    /\ pc \in {"backup", "rotate", "install"} /\ resource.validate => new.body \in Good

Room ==
    \/ now \in DOMAIN backups /\ backups[now] = object.body
    \/ Cardinality(Later) >= Keep

BackupInv == pc \in {"rotate", "install"} /\ object.kind = "file" => Room

LinkInv ==
    /\ pc \in SymlinkSteps => resource.state = "present"
    /\ pc = "unlink" => object.kind = "link" \/ resource.force
    /\ pc = "link" => object = NoObject
    /\ pc = "remove" =>
          \/ resource.kind = "symlink" /\ resource.state = "absent" /\ object.kind = "link"
          \/ resource.kind = "delete" /\ (object.kind # "full_dir" \/ resource.recursive)

PairInv ==
    /\ pc = "cert" => key = gen /\ "key" \notin links
    /\ pc # "cert" /\ ~torn /\ cert # NoFile /\ key # NoFile => key = cert.pair

Inv ==
    /\ TypeOK /\ ContentInv /\ BackupInv /\ LinkInv /\ PairInv
    /\ ResultHonest /\ BackupsBounded /\ CheckedOnly

-----------------------------------------------------------------------------
(* Facts about objects and resources.                                      *)

(* The kind tells what is at a path.                                       *)
LEMMA ObjectKinds ==
  ASSUME NEW o \in Object
  PROVE  /\ o.kind \in {"none", "dir", "full_dir", "file", "link"}
         /\ o.kind = "none" <=> o = NoObject
         /\ o.kind = "dir" <=> o = Dir
         /\ o.kind = "full_dir" <=> o = FullDir
         /\ o.kind = "file" <=> o \in File
         /\ o.kind = "link" <=> o \in Link
         /\ o \in File => o.body \in Body /\ o.owner \in Owner
         /\ o \in Link => o = [kind |-> "link", target |-> o.target] /\ o.target \in Target
  BY DEF Object, NoObject, Dir, FullDir, File, Link

(* The kind tells what a resource is.                                      *)
LEMMA ResourceKinds ==
  ASSUME NEW r \in Resource
  PROVE  /\ r.kind \in {"content", "symlink", "delete", "cert"}
         /\ r.kind = "content" => r \in Content
         /\ r.kind = "symlink" => r \in Symlink
         /\ r.kind = "delete" => r \in Delete
         /\ r.kind = "cert" => r \in CertTls
  BY DEF Resource, Content, Symlink, Delete, CertTls

(* What apply writes is a file that satisfies the resource, but for what   *)
(* its chown clears.                                                       *)
LEMMA WantedFile ==
  ASSUME resource \in Content, object \in Object
  PROVE  /\ Wanted \in File /\ Wanted.kind = "file"
         /\ \/ Wanted.body = resource.body
            \/ Wanted.owner # Self /\ Wanted.body = WithoutSetId[resource.body]
         /\ resource.owner \in {NoOwner, Wanted.owner}
         /\ object.kind = "file" /\ resource.owner = NoOwner => Wanted.owner = object.owner
<1>. DEFINE w == IF resource.owner # NoOwner THEN resource.owner
                 ELSE IF object.kind = "file" THEN object.owner
                 ELSE Self
<1>1. /\ w \in Owner /\ resource.owner \in {NoOwner, w}
      /\ object.kind = "file" /\ resource.owner = NoOwner => w = object.owner
  BY ObjectKinds, OwnerAssumption DEF Content
<1>2. resource.body \in Body /\ WithoutSetId[resource.body] \in Body
  BY SetIdAssumption DEF Content
<1>3. Wanted = Made(w)
  BY DEF Wanted
<1>. HIDE DEF w
<1>4. Made(w) \in File /\ Made(w).kind = "file" /\ Made(w).owner = w
  BY <1>1, <1>2 DEF Made, File
<1>5. \/ Made(w).body = resource.body
      \/ w # Self /\ Made(w).body = WithoutSetId[resource.body]
  BY DEF Made
<1>. QED BY <1>1, <1>3, <1>4, <1>5

-----------------------------------------------------------------------------
(* Facts about the decisions.                                              *)

(* The decision of file.content.                                           *)
LEMMA ContentDecision ==
  ASSUME TypeOK, resource.kind = "content"
  PROVE  /\ Decision \in {"refuse", "no_change", "new", "backup", "install"}
         /\ Decision = "no_change" =>
               /\ object.kind = "file" /\ object.body = resource.body
               /\ resource.owner \in {NoOwner, object.owner}
         /\ Decision = "new" => resource.validate /\ object.kind \in {"none", "file"}
         /\ Decision = "backup" => ~resource.validate /\ object.kind = "file"
         /\ Decision = "install" => ~resource.validate /\ object.kind = "none"
<1>1. resource \in Content /\ object \in Object
  BY ResourceKinds DEF TypeOK
<1>2. Decision = decide_content(resource, object)
  BY DEF Decision
<1>3. object.kind \in {"none", "dir", "full_dir", "file", "link"}
  BY <1>1, ObjectKinds
<1>4. resource.validate \in BOOLEAN
  BY <1>1 DEF Content
<1> QED BY <1>1, <1>2, <1>3, <1>4 DEF decide_content, matches_spec

(* The decision of file.symlink.                                           *)
LEMMA SymlinkDecision ==
  ASSUME TypeOK, resource.kind = "symlink"
  PROVE  /\ Decision \in {"refuse", "no_change", "remove", "link", "unlink"}
         /\ Decision = "no_change" =>
               \/ resource.state = "absent" /\ object = NoObject
               \/ /\ resource.state = "present"
                  /\ object = [kind |-> "link", target |-> resource.target]
         /\ Decision = "remove" => resource.state = "absent" /\ object.kind = "link"
         /\ Decision = "link" => resource.state = "present" /\ object = NoObject
         /\ Decision = "unlink" =>
               resource.state = "present" /\ (object.kind = "link" \/ resource.force)
<1>1. resource \in Symlink /\ object \in Object
  BY ResourceKinds DEF TypeOK
<1>2. Decision = decide_action_symlink(resource, object)
  BY DEF Decision
<1>3. /\ object.kind \in {"none", "dir", "full_dir", "file", "link"}
      /\ object.kind = "none" <=> object = NoObject
      /\ object.kind = "link" => object = [kind |-> "link", target |-> object.target]
  BY <1>1, ObjectKinds
<1>4. resource.state \in {"present", "absent"} /\ resource.force \in BOOLEAN
  BY <1>1 DEF Symlink
<1> QED BY <1>2, <1>3, <1>4 DEF decide_action_symlink

(* The decisions of file.delete and cert.tls.                              *)
LEMMA OtherDecision ==
  ASSUME TypeOK
  PROVE  /\ resource.kind = "delete" =>
               /\ Decision \in {"refuse", "no_change", "remove"}
               /\ Decision = "no_change" => object = NoObject
               /\ Decision = "remove" => object.kind # "full_dir" \/ resource.recursive
         /\ resource.kind = "cert" =>
               /\ Decision \in {"refuse", "no_change", "key"}
               /\ Decision = "no_change" =>
                     /\ cert # NoFile /\ key # NoFile /\ links = {}
                     /\ cert.cn = resource.cn /\ cert.fresh
<1>1. resource \in Resource /\ object \in Object
  BY DEF TypeOK
<1>2. ASSUME resource.kind = "delete"
      PROVE  /\ Decision \in {"refuse", "no_change", "remove"}
             /\ Decision = "no_change" => object = NoObject
             /\ Decision = "remove" => object.kind # "full_dir" \/ resource.recursive
  <2>1. Decision = decide_action_delete(resource, object)
    BY <1>2 DEF Decision
  <2>2. resource.recursive \in BOOLEAN
    BY <1>1, <1>2, ResourceKinds DEF Delete
  <2> QED BY <1>1, <2>1, <2>2, ObjectKinds DEF decide_action_delete
<1>3. ASSUME resource.kind = "cert"
      PROVE  /\ Decision \in {"refuse", "no_change", "key"}
             /\ Decision = "no_change" =>
                   /\ cert # NoFile /\ key # NoFile /\ links = {}
                   /\ cert.cn = resource.cn /\ cert.fresh
  BY <1>3 DEF Decision, decide_action_cert
<1> QED BY <1>2, <1>3

-----------------------------------------------------------------------------
(* Facts about the backup directory.                                       *)

(* A backup adds at most one name.                                         *)
LEMMA PutFacts ==
  ASSUME TypeOK, NEW t \in Name, NEW b \in Body \cup {Torn}
  PROVE  /\ DOMAIN Put(t, b) = DOMAIN backups \cup {t}
         /\ DOMAIN Put(t, b) \subseteq Name /\ IsFiniteSet(DOMAIN Put(t, b))
         /\ Put(t, b) \in [DOMAIN Put(t, b) -> Body \cup {Torn}]
         /\ Put(t, b)[t] = b
         /\ Cardinality(DOMAIN Put(t, b)) \in Nat
         /\ Cardinality(DOMAIN Put(t, b)) <= Cardinality(DOMAIN backups) + 1
<1>1. DOMAIN Put(t, b) = DOMAIN backups \cup {t}
  BY DEF Put
<1>2. /\ IsFiniteSet(DOMAIN backups \cup {t})
      /\ Cardinality(DOMAIN backups \cup {t}) \in Nat
      /\ Cardinality(DOMAIN backups \cup {t}) <= Cardinality(DOMAIN backups) + 1
  <2>1. IsFiniteSet(DOMAIN backups)
    BY DEF TypeOK
  <2>2. /\ IsFiniteSet(DOMAIN backups \cup {t})
        /\ \/ t \in DOMAIN backups
           \/ Cardinality(DOMAIN backups \cup {t}) = Cardinality(DOMAIN backups) + 1
    BY <2>1, FS_AddElement
  <2>3. Cardinality(DOMAIN backups) \in Nat /\ Cardinality(DOMAIN backups \cup {t}) \in Nat
    BY <2>1, <2>2, FS_CardinalityType
  <2>4. t \in DOMAIN backups => DOMAIN backups \cup {t} = DOMAIN backups
    OBVIOUS
  <2> QED BY <2>2, <2>3, <2>4
<1>3. Put(t, b)[t] = b /\ Put(t, b) \in [DOMAIN backups \cup {t} -> Body \cup {Torn}]
  BY DEF TypeOK, Put
<1> QED BY <1>1, <1>2, <1>3 DEF TypeOK

(* Rotation removes the oldest name: the backup of this apply survives, or *)
(* as many later names as are kept.                                        *)
LEMMA RemoveOldestRoom ==
  ASSUME TypeOK, Room, Excess, NEW t \in DOMAIN backups,
         \A u \in DOMAIN backups : t <= u,
         backups' = [u \in DOMAIN backups \ {t} |-> backups[u]],
         UNCHANGED <<now, object>>
  PROVE  Room'
<1>1. /\ IsFiniteSet(DOMAIN backups) /\ DOMAIN backups \subseteq Nat /\ now \in Nat
      /\ Keep \in Nat
  BY NameAssumption, KeepAssumption DEF TypeOK
<1>2. DOMAIN backups' = DOMAIN backups \ {t}
  OBVIOUS
<1>3. Later' = Later \ {t}
  BY <1>2 DEF Later
<1>4. Cardinality(DOMAIN backups \ {t}) = Cardinality(DOMAIN backups) - 1
  BY <1>1, FS_RemoveElement
<1>5. Cardinality(DOMAIN backups) \in Nat /\ Cardinality(DOMAIN backups \ {t}) >= Keep
  BY <1>1, <1>4, FS_CardinalityType DEF Excess
<1>6. CASE t > now
  <2>1. Later' = DOMAIN backups \ {t}
    BY <1>1, <1>3, <1>6 DEF Later
  <2> QED BY <1>5, <2>1 DEF Room
<1>7. CASE t = now
  <2>1. Later' = DOMAIN backups \ {t}
    BY <1>1, <1>3, <1>7 DEF Later
  <2> QED BY <1>5, <2>1 DEF Room
<1>8. CASE t < now
  <2>1. Later' = Later
    BY <1>1, <1>3, <1>8 DEF Later
  <2>2. now \in DOMAIN backups => now \in DOMAIN backups' /\ backups'[now] = backups[now]
    BY <1>1, <1>2, <1>8
  <2> QED BY <2>1, <2>2 DEF Room
<1> QED BY <1>1, <1>6, <1>7, <1>8

-----------------------------------------------------------------------------
(* The invariant holds in the initial states.                              *)
LEMMA InitInv == Init => Inv
<1> SUFFICES ASSUME Init PROVE Inv
  OBVIOUS
<1>1. DOMAIN backups = {} /\ IsFiniteSet(DOMAIN backups) /\ Cardinality(DOMAIN backups) = 0
  BY FS_EmptySet DEF Init
<1>2. TypeOK
  <2>1. backups \in [DOMAIN backups -> Body \cup {Torn}]
    BY <1>1 DEF Init
  <2>2. /\ applies \in 0..MaxApplies /\ events \in 0..MaxEvents
        /\ cert \in Cert \cup {NoFile} /\ key \in Nat \cup {NoFile} /\ gen \in Nat
    BY BoundsAssumption DEF Init
  <2>3. DOMAIN backups \subseteq Name
    BY <1>1
  <2>4. pc \in Steps /\ pc \notin ContentSteps \cup SymlinkSteps \cup CertSteps
    BY DEF Init, Steps, ContentSteps, SymlinkSteps, CertSteps
  <2> QED BY <1>1, <2>1, <2>2, <2>3, <2>4 DEF Init, TypeOK
<1>3. ContentInv /\ BackupInv /\ LinkInv /\ PairInv
  BY DEF Init, ContentInv, BackupInv, LinkInv, PairInv, ContentSteps, SymlinkSteps
<1>4. ResultHonest /\ CheckedOnly
  BY DEF Init, ResultHonest, CheckedOnly
<1>5. BackupsBounded
  BY <1>1, KeepAssumption DEF Init, BackupsBounded
<1> QED BY <1>2, <1>3, <1>4, <1>5 DEF Inv

(* Every step keeps it.                                                    *)
LEMMA NextInv == Inv /\ [Next]_vars => Inv'
<1> SUFFICES ASSUME Inv, [Next]_vars PROVE Inv'
  OBVIOUS
<1> USE BoundsAssumption, KeepAssumption
<1>a. IsFiniteSet(DOMAIN backups) /\ Cardinality(DOMAIN backups) \in Nat
  BY FS_CardinalityType DEF Inv, TypeOK
<1>b. /\ TypeOK /\ object \in Object /\ resource \in Resource /\ now \in Name
      /\ pc \in ContentSteps => resource \in Content
      /\ pc \in SymlinkSteps => resource \in Symlink
      /\ pc \in CertSteps => resource \in CertTls
  BY ResourceKinds, NameAssumption DEF Inv, TypeOK
<1>1. CASE \E r \in Resource : Begin(r)
  <2>1. TypeOK'
    BY <1>1 DEF Inv, Begin, TypeOK, Steps, ContentSteps, SymlinkSteps, CertSteps, paths,
       pair
  <2>2. /\ ContentInv' /\ BackupInv' /\ LinkInv'
        /\ PairInv' /\ ResultHonest' /\ BackupsBounded' /\ CheckedOnly'
    BY <1>1 DEF Inv, Begin, ContentInv, TypeOK, ContentSteps, Wanted, Made, BackupInv, Room,
       Later, LinkInv, SymlinkSteps, PairInv, ResultHonest, BackupsBounded, CheckedOnly,
       paths, pair
  <2> QED BY <2>1, <2>2 DEF Inv
<1>2. CASE Unchanged
  <2>a. Decision = "no_change" /\ pc = "observe"
    BY <1>2 DEF Unchanged
  <2>b. Satisfied
    BY <1>b, <2>a, ResourceKinds, ContentDecision, SymlinkDecision, OtherDecision
       DEF Satisfied, SetIdCleared, Symlink
  <2>1. TypeOK'
    BY <1>2 DEF Inv, Unchanged, TypeOK, Steps, ContentSteps, SymlinkSteps, CertSteps,
       Finish, paths, pair
  <2>2. ResultHonest'
    <3>1. UNCHANGED <<resource, object, cert, key, links>>
      BY <1>2 DEF Unchanged, Finish, paths, pair
    <3>2. result = "none"
      BY <1>b, <2>a DEF TypeOK
    <3>3. CASE resource.kind = "content"
      <4>1. /\ object.kind = "file" /\ resource.owner \in {NoOwner, object.owner}
            /\ object.body = resource.body
        BY <2>b, <3>2, <3>3 DEF Satisfied, SetIdCleared
      <4>2. Satisfied'
        BY <3>1, <3>3, <4>1 DEF Satisfied
      <4> QED BY <4>2 DEF ResultHonest
    <3>4. CASE resource.kind # "content"
      <4>1. resource.kind \in {"symlink", "delete", "cert"}
        BY <1>b, <3>4, ResourceKinds
      <4>2. resource.kind = "symlink" => resource.state \in {"present", "absent"}
        BY <1>b, ResourceKinds DEF Symlink
      <4>3. Satisfied'
        BY <2>b, <3>1, <4>1, <4>2 DEF Satisfied
      <4> QED BY <4>3 DEF ResultHonest
    <3> QED BY <3>3, <3>4
  <2>3. ContentInv' /\ BackupInv' /\ LinkInv' /\ PairInv' /\ BackupsBounded' /\ CheckedOnly'
    BY <1>2 DEF Inv, Unchanged, ContentInv, TypeOK, ContentSteps, Wanted, Made, BackupInv, Room,
       Later, LinkInv, SymlinkSteps, PairInv, BackupsBounded, CheckedOnly, Finish, paths,
       pair
  <2> QED BY <2>1, <2>2, <2>3 DEF Inv
<1>3. CASE Refuse
  <2>1. TypeOK'
    BY <1>3 DEF Inv, Refuse, TypeOK, Steps, ContentSteps, SymlinkSteps, CertSteps, Finish,
       paths, pair
  <2>2. /\ ContentInv' /\ BackupInv' /\ LinkInv'
        /\ PairInv' /\ ResultHonest' /\ BackupsBounded' /\ CheckedOnly'
    BY <1>3 DEF Inv, Refuse, ContentInv, TypeOK, ContentSteps, Wanted, Made, BackupInv, Room,
       Later, LinkInv, SymlinkSteps, PairInv, ResultHonest, BackupsBounded, CheckedOnly,
       Finish, paths, pair
  <2> QED BY <2>1, <2>2 DEF Inv
<1>4. CASE Proceed
  <2>a. pc = "observe" /\ Decision \notin {"no_change", "refuse"} /\ pc' = Decision
    BY <1>4 DEF Proceed, Goto
  <2>b. /\ pc' \in {"new", "backup", "install", "remove", "link", "unlink", "key"}
        /\ pc' \in {"new", "backup", "install"} => resource.kind = "content"
        /\ pc' \in {"link", "unlink"} => resource.kind = "symlink"
        /\ pc' = "remove" => resource.kind \in {"symlink", "delete"}
        /\ pc' = "key" => resource.kind = "cert"
    BY <1>b, <2>a, ResourceKinds, ContentDecision, SymlinkDecision, OtherDecision
  <2>1. TypeOK'
    BY <1>4, <1>a, <1>b, <2>a, <2>b DEF Inv, Proceed, TypeOK, Steps, ContentSteps,
       SymlinkSteps, CertSteps, Goto, paths, pair
  <2>2. ContentInv'
    BY <1>4, <1>a, <1>b, <2>a, <2>b, ContentDecision DEF Inv, Proceed, ContentInv, TypeOK,
       ContentSteps, Wanted, Made, Goto, paths, pair
  <2>3. BackupInv'
    BY <1>4, <1>a, <1>b, <2>a, <2>b, ContentDecision DEF Inv, Proceed, BackupInv, Room,
       Later, Goto, paths, pair
  <2>4. LinkInv'
    BY <1>4, <1>a, <1>b, <2>a, <2>b, SymlinkDecision, OtherDecision DEF Inv, Proceed,
       LinkInv, TypeOK, SymlinkSteps, Goto, paths, pair
  <2>5. PairInv'
    BY <1>4, <1>a, <1>b, <2>a, <2>b DEF Inv, Proceed, PairInv, TypeOK, Goto, paths, pair
  <2>6. ResultHonest'
    BY <1>4, <1>a, <1>b, <2>a, <2>b DEF Inv, Proceed, ResultHonest, TypeOK, Goto, paths,
       pair
  <2>7. BackupsBounded'
    BY <1>4, <1>a, <1>b, <2>a, <2>b DEF Inv, Proceed, BackupsBounded, TypeOK, Goto, paths,
       pair
  <2>8. CheckedOnly'
    BY <1>4, <1>a, <1>b, <2>a, <2>b DEF Inv, Proceed, CheckedOnly, TypeOK, Goto, paths, pair
  <2> QED BY <2>1, <2>2, <2>3, <2>4, <2>5, <2>6, <2>7, <2>8 DEF Inv
<1>5. CASE WriteNew
  <2>a. /\ Wanted \in File /\ Wanted.kind = "file"
        /\ \/ Wanted.body = resource.body
           \/ Wanted.owner # Self /\ Wanted.body = WithoutSetId[resource.body]
        /\ resource.owner \in {NoOwner, Wanted.owner}
    BY <1>b, <1>5, WantedFile DEF WriteNew, ContentSteps
  <2>1. TypeOK'
    BY <1>5, <2>a DEF Inv, WriteNew, TypeOK, Steps, ContentSteps, SymlinkSteps, CertSteps,
       Goto, paths, pair
  <2>2. /\ ContentInv' /\ BackupInv' /\ LinkInv'
        /\ PairInv' /\ ResultHonest' /\ BackupsBounded' /\ CheckedOnly'
    BY <1>5 DEF Inv, WriteNew, ContentInv, TypeOK, ContentSteps, Wanted, Made, BackupInv, Room,
       Later, LinkInv, SymlinkSteps, PairInv, ResultHonest, BackupsBounded, CheckedOnly,
       Goto, paths, pair
  <2> QED BY <2>1, <2>2 DEF Inv
<1>6. CASE ValidatorPasses
  <2>1. TypeOK'
    BY <1>6 DEF Inv, ValidatorPasses, TypeOK, Steps, ContentSteps, SymlinkSteps, CertSteps,
       Goto, paths, pair
  <2>2. /\ ContentInv' /\ BackupInv' /\ LinkInv'
        /\ PairInv' /\ ResultHonest' /\ BackupsBounded' /\ CheckedOnly'
    BY <1>6 DEF Inv, ValidatorPasses, ContentInv, TypeOK, ContentSteps, Wanted, Made, BackupInv,
       Room, Later, LinkInv, SymlinkSteps, PairInv, ResultHonest, BackupsBounded,
       CheckedOnly, Goto, paths, pair
  <2> QED BY <2>1, <2>2 DEF Inv
<1>7. CASE ValidatorFails
  <2>1. TypeOK'
    BY <1>7 DEF Inv, ValidatorFails, TypeOK, Steps, ContentSteps, SymlinkSteps, CertSteps,
       Finish, paths, pair
  <2>2. /\ ContentInv' /\ BackupInv' /\ LinkInv'
        /\ PairInv' /\ ResultHonest' /\ BackupsBounded' /\ CheckedOnly'
    BY <1>7 DEF Inv, ValidatorFails, ContentInv, TypeOK, ContentSteps, Wanted, Made, BackupInv,
       Room, Later, LinkInv, SymlinkSteps, PairInv, ResultHonest, BackupsBounded,
       CheckedOnly, Finish, paths, pair
  <2> QED BY <2>1, <2>2 DEF Inv
<1>8. CASE Copy
  <2>a. object \in File /\ object.body \in Body
    BY <1>b, <1>8, ObjectKinds DEF Copy, Inv, ContentInv
  <2>b. /\ backups' = Put(now, object.body) /\ object' = object /\ now' = now
        /\ pc = "backup" /\ pc' = "rotate" /\ events' = events
    BY <1>8 DEF Copy, Goto, paths
  <2>1. TypeOK'
    <3>1. /\ DOMAIN backups' \subseteq Name /\ IsFiniteSet(DOMAIN backups')
          /\ backups' \in [DOMAIN backups' -> Body \cup {Torn}]
      BY <1>b, <2>a, <2>b, PutFacts
    <3> QED
      BY <1>8, <3>1 DEF Inv, Copy, TypeOK, Steps, ContentSteps, SymlinkSteps, CertSteps,
         Goto, paths, pair
  <2>2. BackupInv'
    <3>1. now \in DOMAIN backups' /\ backups'[now] = object.body
      BY <1>b, <2>a, <2>b, PutFacts
    <3> QED BY <2>b, <3>1 DEF BackupInv, Room
  <2>3. BackupsBounded'
    <3>1. /\ Cardinality(DOMAIN backups') \in Nat
          /\ Cardinality(DOMAIN backups') <= Cardinality(DOMAIN backups) + 1
      BY <1>b, <2>a, <2>b, PutFacts
    <3> QED BY <1>a, <2>b, <3>1 DEF Inv, TypeOK, BackupsBounded
  <2>4. ContentInv' /\ LinkInv' /\ PairInv' /\ ResultHonest' /\ CheckedOnly'
    BY <1>8 DEF Inv, Copy, ContentInv, TypeOK, ContentSteps, Wanted, Made, LinkInv, SymlinkSteps,
       PairInv, ResultHonest, CheckedOnly, Goto, paths, pair
  <2> QED BY <2>1, <2>2, <2>3, <2>4 DEF Inv
<1>9. CASE RemoveOldest
  <2>a. PICK t \in DOMAIN backups :
           /\ \A u \in DOMAIN backups : t <= u
           /\ backups' = [u \in DOMAIN backups \ {t} |-> backups[u]]
    BY <1>9 DEF RemoveOldest
  <2>b. /\ DOMAIN backups' = DOMAIN backups \ {t} /\ IsFiniteSet(DOMAIN backups')
        /\ Cardinality(DOMAIN backups') = Cardinality(DOMAIN backups) - 1
    BY <1>a, <2>a, FS_RemoveElement
  <2>c. pc = "rotate" /\ UNCHANGED <<pc, object, now, events>> /\ Excess
    BY <1>9 DEF RemoveOldest, paths
  <2>1. TypeOK'
    <3>1. backups' \in [DOMAIN backups' -> Body \cup {Torn}]
      BY <2>a, <2>b DEF Inv, TypeOK
    <3> QED
      BY <1>9, <2>b, <3>1 DEF Inv, RemoveOldest, TypeOK, Steps, ContentSteps, SymlinkSteps,
         CertSteps, paths, pair
  <2>2. BackupInv'
    <3>1. object.kind = "file" => Room
      BY <2>c DEF Inv, BackupInv
    <3>2. object.kind = "file" => Room'
      BY <1>b, <2>a, <2>c, <3>1, RemoveOldestRoom
    <3> QED BY <2>c, <3>2 DEF BackupInv
  <2>3. BackupsBounded'
    BY <1>a, <2>b, <2>c DEF Inv, TypeOK, BackupsBounded
  <2>4. ContentInv' /\ LinkInv' /\ PairInv' /\ ResultHonest' /\ CheckedOnly'
    BY <1>9 DEF Inv, RemoveOldest, ContentInv, TypeOK, ContentSteps, Wanted, Made, LinkInv,
       SymlinkSteps, PairInv, ResultHonest, CheckedOnly, paths, pair
  <2> QED BY <2>1, <2>2, <2>3, <2>4 DEF Inv
<1>10. CASE RotateDone
  <2>1. TypeOK'
    BY <1>10 DEF Inv, RotateDone, TypeOK, Steps, ContentSteps, SymlinkSteps, CertSteps,
       Goto, paths, pair
  <2>2. BackupsBounded'
    BY <1>10, <1>a DEF Inv, RotateDone, BackupsBounded, TypeOK, Goto, paths, pair, Excess
  <2>3. ContentInv' /\ BackupInv' /\ LinkInv' /\ PairInv' /\ ResultHonest' /\ CheckedOnly'
    BY <1>10 DEF Inv, RotateDone, ContentInv, TypeOK, ContentSteps, Wanted, Made, BackupInv,
       Room, Later, LinkInv, SymlinkSteps, PairInv, ResultHonest, CheckedOnly, Goto, paths,
       pair
  <2> QED BY <2>1, <2>2, <2>3 DEF Inv
<1>11. CASE Persist
  <2>a. /\ Wanted \in File /\ Wanted.kind = "file"
        /\ \/ Wanted.body = resource.body
           \/ Wanted.owner # Self /\ Wanted.body = WithoutSetId[resource.body]
        /\ resource.owner \in {NoOwner, Wanted.owner}
    BY <1>b, <1>11, WantedFile DEF Persist, ContentSteps
  <2>1. TypeOK'
    BY <1>11, <2>a DEF Inv, Persist, TypeOK, Steps, ContentSteps, SymlinkSteps, CertSteps,
       Finish, pair, Object
  <2>2. ResultHonest'
    <3>1. /\ object' = Wanted /\ resource' = resource /\ resource.kind = "content"
          /\ result' = "changed"
      BY <1>b, <1>11 DEF Persist, Finish, Inv, ContentInv, Content, ContentSteps
    <3>2. Satisfied'
      BY <2>a, <3>1 DEF Satisfied, SetIdCleared
    <3> QED BY <3>2 DEF ResultHonest
  <2>3. ContentInv' /\ BackupInv' /\ LinkInv' /\ PairInv' /\ BackupsBounded' /\ CheckedOnly'
    BY <1>11 DEF Inv, Persist, ContentInv, TypeOK, ContentSteps, Wanted, Made, BackupInv, Room,
       Later, LinkInv, SymlinkSteps, PairInv, BackupsBounded, CheckedOnly, Finish, pair
  <2> QED BY <2>1, <2>2, <2>3 DEF Inv
<1>12. CASE Rename
  <2>a. /\ Wanted \in File /\ Wanted.kind = "file"
        /\ \/ Wanted.body = resource.body
           \/ Wanted.owner # Self /\ Wanted.body = WithoutSetId[resource.body]
        /\ resource.owner \in {NoOwner, Wanted.owner}
    BY <1>b, <1>12, WantedFile DEF Rename, ContentSteps
  <2>b. object' = Wanted /\ Wanted.body \in Good /\ resource' = resource
    BY <1>12 DEF Rename, Finish, Inv, ContentInv
  <2>1. TypeOK'
    BY <1>12, <2>a, <2>b DEF Inv, Rename, TypeOK, Steps, ContentSteps, SymlinkSteps,
       CertSteps, Finish, pair, Object
  <2>2. ResultHonest'
    <3>1. /\ object' = Wanted /\ resource' = resource /\ resource.kind = "content"
          /\ result' = "changed"
      BY <1>b, <1>12 DEF Rename, Finish, Inv, ContentInv, Content, ContentSteps
    <3>2. Satisfied'
      BY <2>a, <3>1 DEF Satisfied, SetIdCleared
    <3> QED BY <3>2 DEF ResultHonest
  <2>3. CheckedOnly'
    BY <2>a, <2>b DEF CheckedOnly
  <2>4. ContentInv' /\ BackupInv' /\ LinkInv' /\ PairInv' /\ BackupsBounded'
    BY <1>12 DEF Inv, Rename, ContentInv, TypeOK, ContentSteps, Wanted, Made, BackupInv, Room,
       Later, LinkInv, SymlinkSteps, PairInv, BackupsBounded, Finish, pair
  <2> QED BY <2>1, <2>2, <2>3, <2>4 DEF Inv
<1>13. CASE Unlink
  <2>1. TypeOK'
    BY <1>13, <1>b DEF Inv, Unlink, TypeOK, Steps, ContentSteps, SymlinkSteps, CertSteps,
       Goto, pair, Object
  <2>2. /\ ContentInv' /\ BackupInv' /\ LinkInv'
        /\ PairInv' /\ ResultHonest' /\ BackupsBounded' /\ CheckedOnly'
    BY <1>13 DEF Inv, Unlink, ContentInv, TypeOK, ContentSteps, Wanted, Made, BackupInv, Room,
       Later, LinkInv, SymlinkSteps, PairInv, ResultHonest, BackupsBounded, CheckedOnly,
       Goto, pair
  <2> QED BY <2>1, <2>2 DEF Inv
<1>14. CASE MakeLink
  <2>1. TypeOK'
    <3>1. object' \in Object
      BY <1>b, <1>14 DEF MakeLink, SymlinkSteps, Symlink, Object, Link
    <3> QED
      BY <1>14, <3>1 DEF Inv, MakeLink, TypeOK, Steps, ContentSteps, SymlinkSteps,
         CertSteps, Finish, pair
  <2>2. ResultHonest'
    <3>1. /\ object' = [kind |-> "link", target |-> resource.target] /\ resource' = resource
          /\ resource.kind = "symlink" /\ resource.state = "present"
      BY <1>b, <1>14 DEF MakeLink, Finish, Inv, LinkInv, SymlinkSteps, Symlink
    <3>2. Satisfied'
      BY <3>1 DEF Satisfied
    <3> QED BY <3>2 DEF ResultHonest
  <2>3. ContentInv' /\ BackupInv' /\ LinkInv' /\ PairInv' /\ BackupsBounded' /\ CheckedOnly'
    BY <1>14 DEF Inv, MakeLink, ContentInv, TypeOK, ContentSteps, Wanted, Made, BackupInv, Room,
       Later, LinkInv, SymlinkSteps, PairInv, BackupsBounded, CheckedOnly, Finish, pair
  <2> QED BY <2>1, <2>2, <2>3 DEF Inv
<1>15. CASE Remove
  <2>1. TypeOK'
    BY <1>15, <1>b DEF Inv, Remove, TypeOK, Steps, ContentSteps, SymlinkSteps, CertSteps,
       Finish, pair, Object
  <2>2. ResultHonest'
    <3>1. /\ object' = NoObject /\ resource' = resource
          /\ \/ resource.kind = "symlink" /\ resource.state = "absent"
             \/ resource.kind = "delete"
      BY <1>15 DEF Remove, Finish, Inv, LinkInv
    <3>2. Satisfied'
      BY <3>1 DEF Satisfied
    <3> QED BY <3>2 DEF ResultHonest
  <2>3. ContentInv' /\ BackupInv' /\ LinkInv' /\ PairInv' /\ BackupsBounded' /\ CheckedOnly'
    BY <1>15 DEF Inv, Remove, ContentInv, TypeOK, ContentSteps, Wanted, Made, BackupInv, Room,
       Later, LinkInv, SymlinkSteps, PairInv, BackupsBounded, CheckedOnly, Finish, pair
  <2> QED BY <2>1, <2>2, <2>3 DEF Inv
<1>16. CASE WriteKey
  <2>1. TypeOK'
    BY <1>16 DEF Inv, WriteKey, TypeOK, Steps, ContentSteps, SymlinkSteps, CertSteps, Goto,
       paths
  <2>2. /\ ContentInv' /\ BackupInv' /\ LinkInv'
        /\ PairInv' /\ ResultHonest' /\ BackupsBounded' /\ CheckedOnly'
    BY <1>16 DEF Inv, WriteKey, ContentInv, TypeOK, ContentSteps, Wanted, Made, BackupInv, Room,
       Later, LinkInv, SymlinkSteps, PairInv, ResultHonest, BackupsBounded, CheckedOnly,
       Goto, paths
  <2> QED BY <2>1, <2>2 DEF Inv
<1>17. CASE WriteCert
  <2>a. cert' \in Cert /\ cert' # NoFile
    <3>1. resource.cn \in Cn /\ gen \in Nat
      BY <1>b, <1>17 DEF WriteCert, CertSteps, CertTls, Inv, TypeOK
    <3>2. [cn |-> resource.cn, pair |-> gen, fresh |-> TRUE] \in Cert
      BY <3>1, Zenon DEF Cert
    <3>3. cert' = [cn |-> resource.cn, pair |-> gen, fresh |-> TRUE]
      BY <1>17 DEF WriteCert, GeneratedCert
    <3>4. NoFile \notin Cert
      BY NoFileAssumption, Zenon DEF Cert
    <3> QED BY <3>2, <3>3, <3>4, Zenon
  <2>1. TypeOK'
    BY <1>17, <2>a DEF Inv, WriteCert, GeneratedCert, TypeOK, Steps, ContentSteps,
       SymlinkSteps, CertSteps, Finish, paths, pair
  <2>2. ResultHonest'
    <3>1. /\ cert' = [cn |-> resource.cn, pair |-> gen, fresh |-> TRUE] /\ key' = gen
          /\ resource' = resource /\ resource.kind = "cert" /\ gen # NoFile /\ links' = {}
      BY <1>b, <1>17, NoFileAssumption
         DEF WriteCert, GeneratedCert, Finish, Inv, TypeOK, PairInv, CertSteps, CertTls
    <3>2. Satisfied'
      BY <2>a, <3>1 DEF Satisfied
    <3> QED BY <3>2 DEF ResultHonest
  <2>3. ContentInv' /\ BackupInv' /\ LinkInv' /\ PairInv' /\ BackupsBounded' /\ CheckedOnly'
    BY <1>17 DEF Inv, WriteCert, GeneratedCert, ContentInv, TypeOK, ContentSteps, Wanted, Made,
       BackupInv, Room, Later, LinkInv, SymlinkSteps, PairInv, BackupsBounded, CheckedOnly,
       Finish, paths, pair
  <2> QED BY <2>1, <2>2, <2>3 DEF Inv
<1>18. CASE OperationFails \/ Kill
  <2>a. /\ pc # "idle" /\ pc' = "idle" /\ events' = events + 1 /\ events < MaxEvents
        /\ \/ backups' = backups
           \/ pc = "backup" /\ backups' = Put(now, Torn)
        /\ \/ object' = object
           \/ object = FullDir /\ object' = Dir
        /\ result' \in {"failed", "none"} /\ torn' \in BOOLEAN
        /\ UNCHANGED <<new, now, cert, key, links, gen, resource, applies, checked>>
    BY <1>18 DEF OperationFails, Kill, CutShort, Event, Inv, TypeOK
  <2>b. /\ DOMAIN backups' \subseteq Name /\ IsFiniteSet(DOMAIN backups')
        /\ backups' \in [DOMAIN backups' -> Body \cup {Torn}]
        /\ Cardinality(DOMAIN backups') \in Nat
        /\ Cardinality(DOMAIN backups')
              <= Cardinality(DOMAIN backups) + (IF pc = "backup" THEN 1 ELSE 0)
    <3>1. CASE backups' = backups
      BY <1>a, <3>1 DEF Inv, TypeOK
    <3>2. CASE pc = "backup" /\ backups' = Put(now, Torn)
      BY <1>b, <3>2, PutFacts
    <3> QED BY <2>a, <3>1, <3>2
  <2>1. TypeOK'
    <3>1. object' \in Object
      BY <1>b, <2>a DEF Object
    <3> QED
      BY <2>a, <2>b, <3>1 DEF Inv, TypeOK, Steps, ContentSteps, SymlinkSteps, CertSteps
  <2>2. BackupsBounded'
    BY <1>a, <2>a, <2>b DEF Inv, TypeOK, BackupsBounded
  <2>3. CheckedOnly'
    BY <2>a DEF Inv, CheckedOnly, FullDir
  <2>4. ContentInv' /\ BackupInv' /\ LinkInv' /\ PairInv' /\ ResultHonest'
    BY <1>18 DEF Inv, OperationFails, Kill, CutShort, ContentInv, TypeOK, ContentSteps,
       Wanted, Made, BackupInv, Room, Later, LinkInv, SymlinkSteps, PairInv, ResultHonest, Event
  <2> QED BY <2>1, <2>2, <2>3, <2>4 DEF Inv
<1>19. CASE \E o \in Object : Edit(o)
  <2>a. /\ object' \in Object /\ checked' = FALSE /\ result' = "none" /\ pc = "idle"
        /\ events < MaxEvents /\ events' = events + 1
        /\ UNCHANGED <<new, backups, now, cert, key, links, gen, torn, resource, pc, applies>>
    BY <1>19 DEF Edit, Event, pair
  <2>1. TypeOK'
    <3>1. events' \in 0..MaxEvents
      BY <2>a DEF Inv, TypeOK
    <3> QED BY <2>a, <3>1, Zenon DEF Inv, TypeOK, Steps, ContentSteps, SymlinkSteps,
       CertSteps
  <2>2. BackupsBounded'
    BY <1>19, <1>a DEF Inv, Edit, BackupsBounded, TypeOK, Event, pair
  <2>3. ContentInv' /\ BackupInv' /\ LinkInv' /\ PairInv' /\ ResultHonest' /\ CheckedOnly'
    BY <1>19 DEF Inv, Edit, ContentInv, TypeOK, ContentSteps, Wanted, Made, BackupInv, Room,
       Later, LinkInv, SymlinkSteps, PairInv, ResultHonest, CheckedOnly, Event, pair
  <2> QED BY <2>1, <2>2, <2>3 DEF Inv
<1>20. CASE LoseCert
  <2>1. TypeOK'
    BY <1>20, <1>b DEF Inv, LoseCert, TypeOK, Steps, ContentSteps, SymlinkSteps, CertSteps,
       Event, paths
  <2>2. BackupsBounded'
    BY <1>20, <1>a DEF Inv, LoseCert, BackupsBounded, TypeOK, Event, paths
  <2>3. ContentInv' /\ BackupInv' /\ LinkInv' /\ PairInv' /\ ResultHonest' /\ CheckedOnly'
    BY <1>20 DEF Inv, LoseCert, ContentInv, TypeOK, ContentSteps, Wanted, Made, BackupInv, Room,
       Later, LinkInv, SymlinkSteps, PairInv, ResultHonest, CheckedOnly, Event, paths
  <2> QED BY <2>1, <2>2, <2>3 DEF Inv
<1>21. CASE LoseKey
  <2>1. TypeOK'
    BY <1>21 DEF Inv, LoseKey, TypeOK, Steps, ContentSteps, SymlinkSteps, CertSteps, Event,
       paths
  <2>2. BackupsBounded'
    BY <1>21, <1>a DEF Inv, LoseKey, BackupsBounded, TypeOK, Event, paths
  <2>3. ContentInv' /\ BackupInv' /\ LinkInv' /\ PairInv' /\ ResultHonest' /\ CheckedOnly'
    BY <1>21 DEF Inv, LoseKey, ContentInv, TypeOK, ContentSteps, Wanted, Made, BackupInv, Room,
       Later, LinkInv, SymlinkSteps, PairInv, ResultHonest, CheckedOnly, Event, paths
  <2> QED BY <2>1, <2>2, <2>3 DEF Inv
<1>22. CASE Expire
  <2>1. TypeOK'
    <3>1. cert' \in Cert
      BY <1>22 DEF Expire, Inv, TypeOK, Cert
    <3> QED
      BY <1>22, <3>1 DEF Inv, Expire, TypeOK, Steps, ContentSteps, SymlinkSteps, CertSteps,
         Event, paths
  <2>2. BackupsBounded'
    BY <1>22, <1>a DEF Inv, Expire, BackupsBounded, TypeOK, Event, paths
  <2>3. ContentInv' /\ BackupInv' /\ LinkInv' /\ PairInv' /\ ResultHonest' /\ CheckedOnly'
    BY <1>22 DEF Inv, Expire, ContentInv, TypeOK, ContentSteps, Wanted, Made, BackupInv, Room,
       Later, LinkInv, SymlinkSteps, PairInv, ResultHonest, CheckedOnly, Event, paths
  <2> QED BY <2>1, <2>2, <2>3 DEF Inv
<1>26. CASE \E p \in {"cert", "key"} : Relink(p)
  <2>1. TypeOK'
    BY <1>26 DEF Inv, Relink, TypeOK, Steps, ContentSteps, SymlinkSteps, CertSteps, Event,
       paths
  <2>2. BackupsBounded'
    BY <1>26, <1>a DEF Inv, Relink, BackupsBounded, TypeOK, Event, paths
  <2>3. ContentInv' /\ BackupInv' /\ LinkInv' /\ PairInv' /\ ResultHonest' /\ CheckedOnly'
    BY <1>26 DEF Inv, Relink, ContentInv, TypeOK, ContentSteps, Wanted, Made, BackupInv, Room,
       Later, LinkInv, SymlinkSteps, PairInv, ResultHonest, CheckedOnly, Event, paths
  <2> QED BY <2>1, <2>2, <2>3 DEF Inv
<1>23. CASE \E t \in Stamp : Clock(t)
  <2>1. TypeOK'
    BY <1>23 DEF Inv, Clock, TypeOK, Steps, ContentSteps, SymlinkSteps, CertSteps, paths,
       pair
  <2>2. ResultHonest'
    BY <1>23 DEF Inv, ResultHonest, Satisfied, SetIdCleared, Clock, paths, pair
  <2>3. ContentInv' /\ BackupInv' /\ LinkInv' /\ PairInv' /\ BackupsBounded' /\ CheckedOnly'
    BY <1>23 DEF Inv, Clock, ContentInv, TypeOK, ContentSteps, Wanted, Made, BackupInv, Room,
       Later, LinkInv, SymlinkSteps, PairInv, BackupsBounded, CheckedOnly, paths, pair
  <2> QED BY <2>1, <2>2, <2>3 DEF Inv
<1>24. CASE \E t \in Name \ Stamp : SiblingBackup(t)
  <2>a. PICK t \in Name, b \in Body : backups' = Put(t, b)
    BY <1>24 DEF SiblingBackup
  <2>b. /\ pc = "idle" /\ events' = events + 1 /\ events < MaxEvents
        /\ UNCHANGED <<object, checked, new, now, cert, key, links, gen, torn,
                       resource, pc, result, applies>>
    BY <1>24 DEF SiblingBackup, Event, paths, pair
  <2>c. /\ DOMAIN backups' \subseteq Name /\ IsFiniteSet(DOMAIN backups')
        /\ backups' \in [DOMAIN backups' -> Body \cup {Torn}]
        /\ Cardinality(DOMAIN backups') \in Nat
        /\ Cardinality(DOMAIN backups') <= Cardinality(DOMAIN backups) + 1
    BY <1>b, <2>a, PutFacts
  <2>1. TypeOK'
    BY <2>b, <2>c DEF Inv, TypeOK, Steps, ContentSteps, SymlinkSteps, CertSteps
  <2>2. ResultHonest'
    BY <1>24 DEF Inv, ResultHonest, Satisfied, SetIdCleared, SiblingBackup, paths, pair
  <2>3. BackupsBounded'
    BY <1>a, <2>b, <2>c DEF Inv, TypeOK, BackupsBounded
  <2>4. ContentInv' /\ BackupInv' /\ LinkInv' /\ PairInv' /\ CheckedOnly'
    BY <1>24 DEF Inv, SiblingBackup, ContentInv, TypeOK, ContentSteps, Wanted, Made, BackupInv,
       Room, Later, LinkInv, SymlinkSteps, PairInv, CheckedOnly, Event, paths, pair
  <2> QED BY <2>1, <2>2, <2>3, <2>4 DEF Inv
<1>25. CASE UNCHANGED vars
  <2>1. TypeOK'
    BY <1>25 DEF Inv, vars, TypeOK, Steps, ContentSteps, SymlinkSteps, CertSteps
  <2>2. /\ ContentInv' /\ BackupInv' /\ LinkInv'
        /\ PairInv' /\ ResultHonest' /\ BackupsBounded' /\ CheckedOnly'
    BY <1>25 DEF Inv, vars, ContentInv, TypeOK, ContentSteps, Wanted, Made, BackupInv, Room,
       Later, LinkInv, SymlinkSteps, PairInv, ResultHonest, Satisfied, SetIdCleared, BackupsBounded,
       CheckedOnly
  <2> QED BY <2>1, <2>2 DEF Inv
<1> QED BY <1>1, <1>2, <1>3, <1>4, <1>5, <1>6, <1>7, <1>8, <1>9, <1>10, <1>11, <1>12,
   <1>13, <1>14, <1>15, <1>16, <1>17, <1>18, <1>19, <1>20, <1>21, <1>22, <1>23, <1>24,
   <1>25, <1>26 DEF Next, Apply, Others

(* The invariant holds in every behaviour.                                 *)
THEOREM FileInv == Spec => []Inv
<1> QED BY InitInv, NextInv, PTL DEF Spec

-----------------------------------------------------------------------------
(* The steps of an apply, the files, the backups and the certificates have *)
(* their types, and a step belongs to a resource of its kind: what apply   *)
(* of file_content, file_symlink, file_delete and cert_tls relies on.      *)
THEOREM FileTypes == Spec => []TypeOK
<1>1. Inv => TypeOK
  BY DEF Inv
<1> QED BY <1>1, FileInv, PTL

(* An apply that reports success has left what its resource asks for,      *)
(* whatever was cut short before.                                          *)
THEOREM FileResultHonest == Spec => []ResultHonest
<1>1. Inv => ResultHonest
  BY DEF Inv
<1> QED BY <1>1, FileInv, PTL

(* backup_with_rotation has a complete copy of what is about to be         *)
(* replaced, unless the kept backups all have later names.                 *)
THEOREM FileBackupFirst == Spec => []BackupFirst
<1>1. Inv => BackupFirst
  BY DEF Inv, BackupInv, Room, BackupFirst
<1> QED BY <1>1, FileInv, PTL

(* The backups of a path are bounded by KEEP_BACKUPS and the disturbances. *)
THEOREM FileBackupsBounded == Spec => []BackupsBounded
<1>1. Inv => BackupsBounded
  BY DEF Inv
<1> QED BY <1>1, FileInv, PTL

(* write_with_validation installs only what the validator accepted.        *)
THEOREM FileCheckedOnly == Spec => []CheckedOnly
<1>1. Inv => CheckedOnly
  BY DEF Inv
<1> QED BY <1>1, FileInv, PTL

(* After a successful cert.tls the key belongs to the certificate, unless  *)
(* an apply ended between the two renames.                                 *)
THEOREM FilePairKept == Spec => []PairKept
<1>1. Inv => PairKept
  <2> SUFFICES ASSUME Inv, result \in {"changed", "no_change"}, resource.kind = "cert", ~torn
               PROVE  key = cert.pair
    BY DEF PairKept
  <2>1. Satisfied /\ pc = "idle"
    BY DEF Inv, ResultHonest, TypeOK
  <2>2. cert # NoFile /\ key # NoFile
    BY <2>1 DEF Satisfied
  <2> QED BY <2>1, <2>2 DEF Inv, PairInv
<1> QED BY <1>1, FileInv, PTL

(* What a step of an apply does to the path.                               *)
Preserves ==
    CASE resource.kind = "content" ->
            /\ object.kind \in {"none", "file"} /\ object'.kind = "file"
            /\ object.kind = "file" /\ resource.owner = NoOwner
                  => object'.owner = object.owner
      [] resource.kind = "symlink" ->
            object.kind \in {"none", "link"}
            \/ (resource.force /\ resource.state = "present")
      [] resource.kind = "delete" -> object.kind # "full_dir" \/ resource.recursive
      [] OTHER -> FALSE

(* An apply destroys only what its resource gives away.                    *)
THEOREM FilePreserved == Spec => Preserved
<1>1. ASSUME Inv, Next, pc # "idle", object' # object
      PROVE  Preserves
  <2>a. /\ TypeOK /\ object \in Object /\ resource \in Resource
        /\ pc \in ContentSteps => resource \in Content /\ resource.kind = "content"
        /\ pc \in SymlinkSteps => resource \in Symlink /\ resource.kind = "symlink"
    BY <1>1, ResourceKinds DEF Inv, TypeOK
  <2>1. CASE Persist \/ Rename
    <3>1. resource \in Content /\ resource.kind = "content" /\ object' = Wanted
      BY <1>1, <2>1, <2>a DEF Persist, Rename, Inv, ContentInv, ContentSteps
    <3>2. object.kind \in {"none", "file"}
      BY <1>1, <2>1 DEF Persist, Rename, Inv, ContentInv, ContentSteps
    <3> QED BY <2>a, <3>1, <3>2, WantedFile DEF Preserves
  <2>2. CASE Unlink
    <3>1. /\ resource.kind = "symlink" /\ resource.state = "present"
          /\ object.kind = "link" \/ resource.force
      BY <1>1, <2>2, <2>a DEF Unlink, Inv, LinkInv, SymlinkSteps
    <3> QED BY <3>1 DEF Preserves
  <2>3. CASE MakeLink
    <3>1. resource.kind = "symlink" /\ object.kind = "none"
      BY <1>1, <2>3, <2>a DEF MakeLink, Inv, LinkInv, SymlinkSteps, NoObject
    <3> QED BY <3>1 DEF Preserves
  <2>4. CASE Remove
    BY <1>1, <2>4 DEF Remove, Inv, LinkInv, Preserves
  <2>5. CASE OperationFails \/ Kill
    <3>1. pc \in {"unlink", "remove"} /\ object = FullDir
      BY <1>1, <2>5 DEF OperationFails, Kill, CutShort
    <3>2. object.kind = "full_dir"
      BY <3>1 DEF FullDir
    <3> QED BY <1>1, <2>a, <3>1, <3>2 DEF Inv, LinkInv, SymlinkSteps, Preserves
  <2>6. Persist \/ Rename \/ Unlink \/ MakeLink \/ Remove \/ OperationFails \/ Kill
    BY <1>1 DEF Next, Apply, Others, Begin, Unchanged, Refuse, Proceed, WriteNew,
       ValidatorPasses, ValidatorFails, Copy, RemoveOldest, RotateDone, WriteKey, WriteCert,
       Edit, LoseCert, LoseKey, Expire, Relink, Clock, SiblingBackup, paths
  <2> QED BY <2>1, <2>2, <2>3, <2>4, <2>5, <2>6
<1>2. Inv /\ [Next]_vars => [pc # "idle" /\ object' # object => Preserves]_vars
  BY <1>1
<1>3. Spec => [][pc # "idle" /\ object' # object => Preserves]_vars
  BY <1>2, FileInv, PTL DEF Spec
<1> QED BY <1>3 DEF Preserved, Preserves
=============================================================================
