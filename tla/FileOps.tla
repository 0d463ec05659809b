-------------------------------- MODULE FileOps --------------------------------
(***************************************************************************)
(* The primitives that manage files: file.content with its backups and its *)
(* validator, file.symlink, file.delete and cert.tls of bosun-primitives,  *)
(* at the granularity of file-system operations. One resource is applied   *)
(* at a time; from one apply to the next the bundle may ask for something  *)
(* else at the same path, the operator may change what is there, and the   *)
(* clock may be set. A kill or a failing operation ends an apply anywhere. *)
(*                                                                         *)
(* A body stands for the content and the mode of a file, which a           *)
(* file.content resource always prescribes; an owner for user and group.   *)
(* A temporary file that is written and renamed into place is one step,    *)
(* since nobody sees it before. What the calls on it do is kept, in their  *)
(* order: it is bosun's, gets its mode, and then, if it is to belong to    *)
(* someone else, its owner, which takes set-user-ID and set-group-ID from  *)
(* the mode again (chown(2)).                                              *)
(***************************************************************************)
EXTENDS Naturals, FiniteSets

CONSTANTS
    Body,       \* contents and modes of the managed file
    Good,       \* the ones that validate_with can accept
    WithoutSetId, \* what chown leaves of each
    Owner,      \* users
    Self,       \* the user bosun runs as
    NoOwner,    \* owner and group are not given
    Target,     \* targets of symlinks
    Cn,         \* common names of certificates
    Name,       \* file names in the backup directory, as ranks
    Stamp,      \* those that are the managed file's name and a time stamp
    Keep,       \* KEEP_BACKUPS
    Torn,       \* the incomplete content of a copy that was cut short
    NoFile,     \* no certificate, no key
    MaxApplies, \* bound on the resources applied
    MaxEvents   \* bound on interruptions and on what others do

ASSUME GoodAssumption == Good \subseteq Body /\ Torn \notin Body
ASSUME SetIdAssumption ==
    /\ WithoutSetId \in [Body -> Body]
    /\ \A b \in Body : WithoutSetId[WithoutSetId[b]] = WithoutSetId[b]
ASSUME OwnerAssumption == Self \in Owner /\ NoOwner \notin Owner
ASSUME NameAssumption == Name \subseteq Nat /\ Stamp \subseteq Name /\ Stamp # {}
ASSUME KeepAssumption == Keep \in Nat \ {0}
ASSUME NoFileAssumption == NoFile \notin Nat /\ NoFile \notin [cn : Cn, pair : Nat, fresh : BOOLEAN]
ASSUME BoundsAssumption == MaxApplies \in Nat /\ MaxEvents \in Nat

(* What can be at the path.                                                *)
NoObject == [kind |-> "none"]
Dir == [kind |-> "dir"]
FullDir == [kind |-> "full_dir"]
File == [kind : {"file"}, body : Body, owner : Owner]
Link == [kind : {"link"}, target : Target]
Object == {NoObject, Dir, FullDir} \cup File \cup Link

Cert == [cn : Cn, pair : Nat, fresh : BOOLEAN]

Content == [kind : {"content"}, body : Body, owner : Owner \cup {NoOwner}, validate : BOOLEAN]
Symlink == [kind : {"symlink"}, state : {"present", "absent"}, target : Target, force : BOOLEAN]
Delete == [kind : {"delete"}, recursive : BOOLEAN]
CertTls == [kind : {"cert"}, cn : Cn]
Resource == Content \cup Symlink \cup Delete \cup CertTls

VARIABLES
    object,   \* what is at the path
    new,      \* what is at <path>.new
    backups,  \* the backup directory: contents by name
    now,      \* the name the clock gives to a backup made now
    cert,     \* what is at cert_path
    key,      \* what is at key_path: the key pair it belongs to
    links,    \* the ones of "cert" and "key" that are links, or no regular files
    gen,      \* key pairs generated so far
    resource, \* the resource that is being, or was last applied
    pc,       \* the step its apply has reached
    result,   \* what it returned
    applies, events,
    checked,  \* history: the file was put there after its validator passed
    torn      \* history: an apply ended between the key and the certificate

vars == <<object, new, backups, now, cert, key, links, gen, resource, pc, result, applies, events,
          checked, torn>>

ContentSteps == {"new", "validate", "backup", "rotate", "install"}
SymlinkSteps == {"unlink", "link"}
CertSteps == {"key", "cert"}
Steps == {"idle", "observe", "remove"} \cup ContentSteps \cup SymlinkSteps \cup CertSteps

TypeOK ==
    /\ object \in Object
    /\ new \in {NoObject} \cup File
    /\ DOMAIN backups \subseteq Name /\ IsFiniteSet(DOMAIN backups)
    /\ backups \in [DOMAIN backups -> Body \cup {Torn}]
    /\ now \in Stamp
    /\ cert \in Cert \cup {NoFile} /\ key \in Nat \cup {NoFile} /\ gen \in Nat
    /\ links \subseteq {"cert", "key"}
    /\ resource \in Resource
    /\ pc \in Steps
    /\ pc \in ContentSteps => resource.kind = "content"
    /\ pc \in SymlinkSteps => resource.kind = "symlink"
    /\ pc \in CertSteps => resource.kind = "cert"
    /\ result \in {"none", "changed", "no_change", "failed"}
    /\ pc # "idle" => result = "none"
    /\ applies \in 0..MaxApplies /\ events \in 0..MaxEvents
    /\ checked \in BOOLEAN /\ torn \in BOOLEAN

Init ==
    /\ object \in Object /\ new = NoObject
    /\ backups = [t \in {} |-> Torn] /\ now \in Stamp
    /\ cert = NoFile /\ key = NoFile /\ links = {} /\ gen = 0
    /\ resource \in Resource /\ pc = "idle" /\ result = "none"
    /\ applies = 0 /\ events = 0
    /\ checked = FALSE /\ torn = FALSE

-----------------------------------------------------------------------------
(* The decisions, taken again at the start of every apply.                 *)

(* Mutant: the owner of the file plays no part.                            *)
matches_spec_BodyOnly(r, o) == o.body = r.body

matches_spec(r, o) == o.body = r.body /\ (r.owner # NoOwner => o.owner = r.owner)

decide_content(r, o) ==
    CASE o.kind \notin {"none", "file"} -> "refuse"
      [] o.kind = "file" /\ matches_spec(r, o) -> "no_change"
      [] o.kind = "file" /\ ~matches_spec(r, o) -> IF r.validate THEN "new" ELSE "backup"
      [] o.kind = "none" -> IF r.validate THEN "new" ELSE "install"

decide_action_symlink(r, o) ==
    CASE r.state = "absent" /\ o.kind = "none" -> "no_change"
      [] r.state = "absent" /\ o.kind = "link" -> "remove"
      [] r.state = "present" /\ o.kind = "none" -> "link"
      [] r.state = "present" /\ o.kind = "link" ->
            IF o.target = r.target THEN "no_change" ELSE "unlink"
      [] r.state = "present" /\ o.kind \notin {"none", "link"} /\ r.force -> "unlink"
      [] OTHER -> "refuse"

decide_action_delete(r, o) ==
    CASE o.kind = "none" -> "no_change"
      [] o.kind = "full_dir" /\ ~r.recursive -> "refuse"
      [] OTHER -> "remove"

(* A missing file, another common name or an expiry that is near (or a     *)
(* certificate that cannot be parsed, which counts as one that is not      *)
(* fresh) renew both; whether the key belongs to the certificate is not    *)
(* looked at. With both there, neither may be a link.                      *)
decide_action_cert(r) ==
    CASE cert = NoFile \/ key = NoFile -> "key"
      [] cert # NoFile /\ key # NoFile /\ links # {} -> "refuse"
      [] cert # NoFile /\ key # NoFile /\ links = {} ->
            IF cert.cn = r.cn /\ cert.fresh THEN "no_change" ELSE "key"

Decision ==
    CASE resource.kind = "content" -> decide_content(resource, object)
      [] resource.kind = "symlink" -> decide_action_symlink(resource, object)
      [] resource.kind = "delete" -> decide_action_delete(resource, object)
      [] resource.kind = "cert" -> decide_action_cert(resource)

-----------------------------------------------------------------------------
(* The frame of an apply.                                                  *)

paths == <<object, checked>>
pair  == <<cert, key, links, gen, torn>>

Begin(r) ==
    /\ pc = "idle" /\ applies < MaxApplies
    /\ resource' = r /\ pc' = "observe" /\ result' = "none" /\ applies' = applies + 1
    /\ UNCHANGED <<paths, new, backups, now, pair, events>>

Finish(answer) == pc' = "idle" /\ result' = answer /\ UNCHANGED <<resource, applies, now, events>>

Goto(step) == pc' = step /\ UNCHANGED <<resource, result, applies, now, events>>

Unchanged ==
    /\ pc = "observe" /\ Decision = "no_change"
    /\ Finish("no_change")
    /\ UNCHANGED <<paths, new, backups, pair>>

Refuse ==
    /\ pc = "observe" /\ Decision = "refuse"
    /\ Finish("failed")
    /\ UNCHANGED <<paths, new, backups, pair>>

Proceed ==
    /\ pc = "observe" /\ Decision \notin {"no_change", "refuse"}
    /\ Goto(Decision)
    /\ UNCHANGED <<paths, new, backups, pair>>

-----------------------------------------------------------------------------
(* file.content.                                                           *)

(* What the temporary file holds in the end: chown_if_needed does nothing  *)
(* for a file that is bosun's anyway.                                      *)
Made(owner) ==
    [kind |-> "file", owner |-> owner,
     body |-> IF owner = Self THEN resource.body ELSE WithoutSetId[resource.body]]

(* Mutant: an update without an owner makes the file bosun's.              *)
Wanted_ResetsOwner == Made(IF resource.owner # NoOwner THEN resource.owner ELSE Self)

(* The file apply writes. Without an owner in the resource, the one of the *)
(* file that it replaces.                                                  *)
Wanted == Made(IF resource.owner # NoOwner THEN resource.owner
               ELSE IF object.kind = "file" THEN object.owner
               ELSE Self)

WriteNew ==
    /\ pc = "new"
    /\ new' = Wanted
    /\ Goto("validate")
    /\ UNCHANGED <<paths, backups, pair>>

(* Mutant: with a validator there is no backup.                            *)
ValidatorPasses_NoBackup ==
    /\ pc = "validate" /\ new.body \in Good
    /\ Goto("install")
    /\ UNCHANGED <<paths, new, backups, pair>>

ValidatorPasses ==
    /\ pc = "validate" /\ new.body \in Good
    /\ Goto(IF object.kind = "file" THEN "backup" ELSE "install")
    /\ UNCHANGED <<paths, new, backups, pair>>

(* Mutant: the validator's verdict is logged and ignored.                  *)
ValidatorFails_Continues ==
    /\ pc = "validate"
    /\ Goto(IF object.kind = "file" THEN "backup" ELSE "install")
    /\ UNCHANGED <<paths, new, backups, pair>>

(* It refuses the file, cannot be started or takes too long: <path>.new    *)
(* stays for the operator to look at.                                      *)
ValidatorFails ==
    /\ pc = "validate"
    /\ Finish("failed")
    /\ UNCHANGED <<paths, new, backups, pair>>

Put(t, b) == [u \in DOMAIN backups \cup {t} |-> IF u = t THEN b ELSE backups[u]]

(* The copy takes the place of one that was made in the same second.       *)
Copy ==
    /\ pc = "backup"
    /\ backups' = Put(now, object.body)
    /\ Goto("rotate")
    /\ UNCHANGED <<paths, new, pair>>

(* Mutant: one backup more is kept.                                        *)
Excess_OffByOne == Cardinality(DOMAIN backups) > Keep + 1

(* Every name counts that begins like a backup of this file.               *)
Excess == Cardinality(DOMAIN backups) > Keep

RemoveOldest ==
    /\ pc = "rotate" /\ Excess
    /\ \E t \in DOMAIN backups :
          /\ \A u \in DOMAIN backups : t <= u
          /\ backups' = [u \in DOMAIN backups \ {t} |-> backups[u]]
    /\ UNCHANGED <<paths, new, now, pair, resource, pc, result, applies, events>>

RotateDone ==
    /\ pc = "rotate" /\ ~Excess
    /\ Goto("install")
    /\ UNCHANGED <<paths, new, backups, pair>>

(* The temporary file is renamed over the target.                          *)
Persist ==
    /\ pc = "install" /\ ~resource.validate
    /\ object' = Wanted /\ checked' = FALSE
    /\ Finish("changed")
    /\ UNCHANGED <<new, backups, pair>>

(* So is <path>.new, which the validator has seen.                         *)
Rename ==
    /\ pc = "install" /\ resource.validate
    /\ object' = new /\ new' = NoObject /\ checked' = TRUE
    /\ Finish("changed")
    /\ UNCHANGED <<backups, pair>>

-----------------------------------------------------------------------------
(* file.symlink and file.delete.                                           *)

(* What is there makes room: unlink, or remove_dir_all.                    *)
Unlink ==
    /\ pc = "unlink"
    /\ object' = NoObject /\ checked' = FALSE
    /\ Goto("link")
    /\ UNCHANGED <<new, backups, pair>>

MakeLink ==
    /\ pc = "link"
    /\ object' = [kind |-> "link", target |-> resource.target] /\ checked' = FALSE
    /\ Finish("changed")
    /\ UNCHANGED <<new, backups, pair>>

Remove ==
    /\ pc = "remove"
    /\ object' = NoObject /\ checked' = FALSE
    /\ Finish("changed")
    /\ UNCHANGED <<new, backups, pair>>

-----------------------------------------------------------------------------
(* cert.tls: a new pair is generated, the key is renamed into place first. *)

(* A certificate for a pair. It is fresh, since validate refuses a         *)
(* resource whose renew_before_days is not less than its days_valid.       *)
GeneratedCert(p) == [cn |-> resource.cn, pair |-> p, fresh |-> TRUE]

WriteKey ==
    /\ pc = "key"
    /\ gen' = gen + 1 /\ key' = gen' /\ links' = links \ {"key"}
    /\ Goto("cert")
    /\ UNCHANGED <<paths, new, backups, cert, torn>>

(* Mutant: the certificate is signed with a pair of its own.               *)
WriteCert_Regenerates ==
    /\ pc = "cert"
    /\ gen' = gen + 1
    /\ cert' = GeneratedCert(gen') /\ links' = links \ {"cert"} /\ torn' = FALSE
    /\ Finish("changed")
    /\ UNCHANGED <<paths, new, backups, key>>

WriteCert ==
    /\ pc = "cert"
    /\ cert' = GeneratedCert(gen) /\ links' = links \ {"cert"} /\ torn' = FALSE
    /\ Finish("changed")
    /\ UNCHANGED <<paths, new, backups, key, gen>>

-----------------------------------------------------------------------------
(* An apply that does not reach its end.                                   *)

Event == events < MaxEvents /\ events' = events + 1

(* The copy of a backup and remove_dir_all are the two operations that can *)
(* be left half done.                                                      *)
CutShort(answer) ==
    /\ pc # "idle" /\ Event
    /\ backups' \in {backups} \cup {Put(t, Torn) : t \in {t \in {now} : pc = "backup"}}
    /\ object' \in {object} \cup {d \in {Dir} : pc \in {"unlink", "remove"} /\ object = FullDir}
    /\ torn' = (torn \/ pc = "cert")
    /\ pc' = "idle" /\ result' = answer
    /\ UNCHANGED <<new, now, cert, key, links, gen, resource, applies, checked>>

(* A file operation, chown, the lookup of a user or the generator fails.   *)
OperationFails == CutShort("failed")

Kill == CutShort("none")

-----------------------------------------------------------------------------
(* What others do between two applies.                                     *)

Edit(o) ==
    /\ pc = "idle" /\ Event
    /\ object' = o /\ checked' = FALSE /\ result' = "none"
    /\ UNCHANGED <<new, backups, now, pair, resource, pc, applies>>

LoseCert ==
    /\ pc = "idle" /\ Event
    /\ cert' = NoFile /\ links' = links \ {"cert"} /\ result' = "none"
    /\ UNCHANGED <<paths, new, backups, now, key, gen, torn, resource, pc, applies>>

LoseKey ==
    /\ pc = "idle" /\ Event
    /\ key' = NoFile /\ links' = links \ {"key"} /\ result' = "none"
    /\ UNCHANGED <<paths, new, backups, now, cert, gen, torn, resource, pc, applies>>

(* The day comes when less than renew_before_days are left.                *)
Expire ==
    /\ pc = "idle" /\ cert # NoFile /\ Event
    /\ cert' = [cert EXCEPT !.fresh = FALSE] /\ result' = "none"
    /\ UNCHANGED <<paths, new, backups, now, key, links, gen, torn, resource, pc, applies>>

(* One of the two is moved elsewhere and a link left in its place.         *)
Relink(p) ==
    /\ pc = "idle" /\ cert # NoFile /\ key # NoFile /\ Event
    /\ links' = links \cup {p} /\ result' = "none"
    /\ UNCHANGED <<paths, new, backups, now, cert, key, gen, torn, resource, pc, applies>>

(* Time goes by; an adjustment can also set the clock back.                *)
Clock(t) ==
    /\ pc = "idle" /\ now' = t
    /\ UNCHANGED <<paths, new, backups, pair, resource, pc, result, applies, events>>

(* A backup of another file whose name begins like that of a backup of     *)
(* this one.                                                               *)
SiblingBackup(t) ==
    /\ pc = "idle" /\ Event
    /\ \E b \in Body : backups' = Put(t, b)
    /\ UNCHANGED <<paths, new, now, pair, resource, pc, result, applies>>

-----------------------------------------------------------------------------
Apply ==
    \/ Unchanged \/ Refuse \/ Proceed
    \/ WriteNew \/ ValidatorPasses \/ ValidatorFails \/ Copy \/ RemoveOldest \/ RotateDone
    \/ Persist \/ Rename
    \/ Unlink \/ MakeLink \/ Remove
    \/ WriteKey \/ WriteCert

Others ==
    \/ \E o \in Object : Edit(o)
    \/ LoseCert \/ LoseKey \/ Expire
    \/ \E p \in {"cert", "key"} : Relink(p)
    \/ \E t \in Stamp : Clock(t)
    \/ \E t \in Name \ Stamp : SiblingBackup(t)

Next ==
    \/ \E r \in Resource : Begin(r)
    \/ Apply \/ OperationFails \/ Kill \/ Others

Spec == Init /\ [][Next]_vars

-----------------------------------------------------------------------------
(* Properties.                                                             *)

(* The file has just been written for another user than bosun, and its     *)
(* chown, which comes after its chmod, has cleared bits of the mode.       *)
SetIdCleared ==
    /\ result = "changed" /\ object.owner # Self
    /\ object.body = WithoutSetId[resource.body]

(* The node is as the resource wants it.                                   *)
Satisfied ==
    CASE resource.kind = "content" ->
            /\ object.kind = "file" /\ resource.owner \in {NoOwner, object.owner}
            /\ object.body = resource.body \/ SetIdCleared
      [] resource.kind = "symlink" /\ resource.state = "present" ->
            object = [kind |-> "link", target |-> resource.target]
      [] resource.kind = "symlink" /\ resource.state = "absent" -> object = NoObject
      [] resource.kind = "delete" -> object = NoObject
      [] resource.kind = "cert" ->
            /\ cert # NoFile /\ key # NoFile /\ links = {}
            /\ cert.cn = resource.cn /\ cert.fresh

(* An apply that reports success, with or without a change, has left what  *)
(* its resource asks for, whatever earlier applies left half done. The one *)
(* exception is what the code gets wrong: a file.content that has written  *)
(* a file for another user reports a change although set-user-ID and       *)
(* set-group-ID of the mode are gone; the next run finds it to differ, and *)
(* writes it again the same way. That nothing had to change is never       *)
(* reported of such a file.                                                *)
ResultHonest == result \in {"changed", "no_change"} => Satisfied

(* Names in the backup directory that sort after the backup of this apply. *)
Later == {t \in DOMAIN backups : t > now}

(* When a file is about to be replaced its content is in a complete        *)
(* backup, unless as many backups as are kept have later names: they come  *)
(* from a clock that ran ahead or belong to another file.                  *)
BackupFirst ==
    pc = "install" /\ object.kind = "file" =>
        \/ now \in DOMAIN backups /\ backups[now] = object.body
        \/ Cardinality(Later) >= Keep

(* The backups of a path do not pile up: each interrupted apply, and each  *)
(* backup of another file, leaves at most one more than are kept.          *)
(* The bound counts every event, also those that leave none, such as an    *)
(* edit or an expiry.                                                      *)
BackupsBounded ==
    Cardinality(DOMAIN backups) <= Keep + events + (IF pc = "rotate" THEN 1 ELSE 0)

(* A file that was installed with validate_with is one that its validator  *)
(* accepted, also when a rejected <path>.new of an earlier apply is there. *)
CheckedOnly == checked => object.kind = "file" /\ object.body \in Good

(* An apply destroys only what its resource gives away: file.content       *)
(* replaces files only and keeps the owner unless told otherwise,          *)
(* file.symlink replaces links unless forced, file.delete removes no       *)
(* directory with something in it unless recursive.                        *)
Preserved ==
    [][pc # "idle" /\ object' # object =>
          CASE resource.kind = "content" ->
                  /\ object.kind \in {"none", "file"} /\ object'.kind = "file"
                  /\ object.kind = "file" /\ resource.owner = NoOwner
                        => object'.owner = object.owner
            [] resource.kind = "symlink" ->
                  object.kind \in {"none", "link"}
                  \/ (resource.force /\ resource.state = "present")
            [] resource.kind = "delete" -> object.kind # "full_dir" \/ resource.recursive
            [] OTHER -> FALSE]_vars

(* After a cert.tls that reports success the key belongs to the            *)
(* certificate, unless an apply ended between the two since they were last *)
(* written together.                                                       *)
PairKept ==
    result \in {"changed", "no_change"} /\ resource.kind = "cert" => key = cert.pair \/ torn

(* The same without the exception, as the comment in cert_tls/plan.rs says.*)
PairMatches ==
    result \in {"changed", "no_change"} /\ resource.kind = "cert" => key = cert.pair
=============================================================================
