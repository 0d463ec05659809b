----------------------------- MODULE DeferQueue -----------------------------
(***************************************************************************)
(* What the journal of deferred actions promises the rest of bosun: a      *)
(* queue without redundant entries in which each operation is one atomic   *)
(* step, whatever happens to the process. An accepted entry leaves the     *)
(* queue only after an execution that covers it, into the hands of the     *)
(* operator, or by the operator's own command. DeferJournal implements it. *)
(***************************************************************************)
CONSTANTS Key, Covers(_, _)

VARIABLES
    queue,   \* entries that replay will execute
    parked,  \* entries set aside for the operator
    owed     \* accepted entries that no execution has covered since

vars == <<queue, parked, owed>>

Init == queue = {} /\ parked = {} /\ owed = {}

(* A new entry takes the place of the ones it covers, unless one that      *)
(* covers it is there already.                                             *)
Insert(k) ==
    queue' = IF \E j \in queue : Covers(j, k)
             THEN queue
             ELSE {j \in queue : ~Covers(k, j)} \cup {k}

Accept(k) == Insert(k) /\ owed' = owed \cup {k} /\ UNCHANGED parked

(* The caller is told that the entry was not accepted, but it is queued.   *)
AcceptUnconfirmed(k) == Insert(k) /\ UNCHANGED <<parked, owed>>

(* The action of a queued entry ran, and its health check passed.          *)
Execute(k) ==
    /\ k \in queue
    /\ owed' = {o \in owed : ~Covers(k, o)}
    /\ UNCHANGED <<queue, parked>>

(* An entry is dropped when nothing is owed on its account any more.       *)
Drop(k) ==
    /\ k \in queue
    /\ \A o \in owed : ~Covers(k, o)
    /\ queue' = queue \ {k}
    /\ UNCHANGED <<parked, owed>>

Park(k) ==
    /\ k \in queue
    /\ queue' = queue \ {k} /\ parked' = parked \cup {k}
    /\ UNCHANGED owed

(* The operator deletes entries and with them what only they covered.      *)
Clear(q, p) ==
    /\ q \subseteq queue /\ p \subseteq parked
    /\ queue' = queue \ q /\ parked' = parked \ p
    /\ owed' = {o \in owed : \E j \in queue' \cup parked' : Covers(j, o)}

Next ==
    \/ \E k \in Key :
          Accept(k) \/ AcceptUnconfirmed(k) \/ Execute(k) \/ Drop(k) \/ Park(k)
    \/ \E q \in SUBSET queue, p \in SUBSET parked : Clear(q, p)

Spec == Init /\ [][Next]_vars
=============================================================================
