------------------------------- MODULE Registry -------------------------------
(***************************************************************************)
(* The resource registry of bosun-core/src/registry.rs: evaluation of the  *)
(* manifest adds resources one by one, then topological_order runs Kahn's  *)
(* algorithm over the edges of depends_on, reload_on and restart_on.       *)
(*                                                                         *)
(* An edge is tagged with the field it comes from, so a handle listed in   *)
(* two fields is two edges and counts twice in in_degree. A handle listed  *)
(* twice in one field, which links does not tell from one listed once, is  *)
(* two edges as well: the loops chain the three lists and never look at    *)
(* the field, so two fields stand for that case too. The order in          *)
(* which a HashMap yields the first vertices, and the order in which the   *)
(* successors of a vertex are visited, are left open.                      *)
(***************************************************************************)
EXTENDS Naturals, Sequences, FiniteSets

CONSTANTS
    Id,       \* resource ids
    Field,    \* the fields that hold handles, a subset of Fields
    MaxLinks  \* bound on the handles one resource lists

Fields == {"depends_on", "reload_on", "restart_on"}

ASSUME IdAssumption == IsFiniteSet(Id)
ASSUME FieldAssumption == Field \subseteq Fields

Link == [field : Field, dep : Id]

VARIABLES
    registered, \* ids of Registry::resources
    links,      \* the handles each of them lists
    pc,         \* "register", "pop", "relax" or "done"
    in_degree,  \* edges into a vertex that are not yet relaxed
    queue,      \* vertices without such edges, in arrival order
    order,      \* the result so far
    edges,      \* edges out of the vertex just popped, still to relax
    result,     \* how the registry's caller was answered
    stuck       \* the vertices RegistryError::Cycle names

vars == <<registered, links, pc, in_degree, queue, order, edges, result, stuck>>

(* An edge leads from a dependency to the resource that lists it.          *)
Edge == [field : Field, dep : Id, to : Id]
(* Mutant: reload_on and restart_on give no edges.                         *)
Edges_DependsOnOnly ==
    {e \in Edge : /\ e.field = "depends_on" /\ e.to \in registered
                  /\ [field |-> e.field, dep |-> e.dep] \in links[e.to]}

Edges == {e \in Edge : e.to \in registered /\ [field |-> e.field, dep |-> e.dep] \in links[e.to]}

EdgesInto(r) == {e \in Edges : e.to = r}

(* The elements of a sequence.                                             *)
Elements(s) == {s[i] : i \in 1..Len(s)}

(* Dependencies of r, for the reference definitions below.                 *)
Deps(r) == {l.dep : l \in links[r]}

TypeOK ==
    /\ registered \subseteq Id
    /\ links \in [Id -> SUBSET Link]
    /\ pc \in {"register", "pop", "relax", "done"}
    /\ in_degree \in [Id -> Nat]
    /\ queue \in Seq(Id)
    /\ order \in Seq(Id)
    /\ edges \subseteq Edges
    /\ result \in {"none", "ok", "duplicate_id", "unknown_handle", "cycle"}
    /\ stuck \subseteq Id

Init ==
    /\ registered = {} /\ links = [r \in Id |-> {}]
    /\ pc = "register"
    /\ in_degree = [r \in Id |-> 0] /\ queue = <<>> /\ order = <<>> /\ edges = {}
    /\ result = "none" /\ stuck = {}

-----------------------------------------------------------------------------
(* Registry::add.                                                          *)

Add(r, L) ==
    /\ pc = "register" /\ r \notin registered
    /\ registered' = registered \cup {r}
    /\ links' = [links EXCEPT ![r] = L]
    /\ UNCHANGED <<pc, in_degree, queue, order, edges, result, stuck>>

(* The error ends the evaluation of the manifest.                          *)
AddDuplicate(r) ==
    /\ pc = "register" /\ r \in registered
    /\ pc' = "done" /\ result' = "duplicate_id"
    /\ UNCHANGED <<registered, links, in_degree, queue, order, edges, stuck>>

-----------------------------------------------------------------------------
(* Registry::topological_order.                                            *)

Known == \A e \in Edges : e.dep \in registered

UnknownHandle ==
    /\ pc = "register" /\ ~Known
    /\ pc' = "done" /\ result' = "unknown_handle"
    /\ UNCHANGED <<registered, links, in_degree, queue, order, edges, stuck>>

(* The listings of the finite set S without repetition.                    *)
Listings(S) ==
    {q \in [1..Cardinality(S) -> S] : \A i, j \in DOMAIN q : q[i] = q[j] => i = j}

(* in_degree and adj are built, the vertices without edges into them queued. *)
BuildGraph ==
    /\ pc = "register" /\ Known
    /\ in_degree' = [r \in Id |-> Cardinality(EdgesInto(r))]
    /\ queue' \in Listings({r \in registered : EdgesInto(r) = {}})
    /\ pc' = "pop"
    /\ UNCHANGED <<registered, links, order, edges, result, stuck>>

Pop ==
    /\ pc = "pop" /\ queue # <<>>
    /\ order' = Append(order, Head(queue))
    /\ queue' = Tail(queue)
    /\ edges' = {e \in Edges : e.dep = Head(queue)}
    /\ pc' = "relax"
    /\ UNCHANGED <<registered, links, in_degree, result, stuck>>

Relax(e) ==
    /\ pc = "relax" /\ e \in edges
    /\ in_degree' = [in_degree EXCEPT ![e.to] = @ - 1]
    /\ queue' = IF in_degree[e.to] = 1 THEN Append(queue, e.to) ELSE queue
    /\ edges' = edges \ {e}
    /\ UNCHANGED <<registered, links, pc, order, result, stuck>>

RelaxDone ==
    /\ pc = "relax" /\ edges = {}
    /\ pc' = "pop"
    /\ UNCHANGED <<registered, links, in_degree, queue, order, edges, result, stuck>>

(* Mutant: off by one in the vertices the error names.                     *)
Finish_OffByOne ==
    /\ pc = "pop" /\ queue = <<>>
    /\ pc' = "done"
    /\ IF Len(order) # Cardinality(registered)
       THEN /\ result' = "cycle"
            /\ stuck' = {r \in registered : in_degree[r] > 1}
       ELSE result' = "ok" /\ UNCHANGED stuck
    /\ UNCHANGED <<registered, links, in_degree, queue, order, edges>>

(* Mutant: the loop runs until every resource is in the order.             *)
Finish_WaitsForAll ==
    /\ pc = "pop" /\ queue = <<>>
    /\ Len(order) = Cardinality(registered)
    /\ pc' = "done" /\ result' = "ok"
    /\ UNCHANGED <<registered, links, in_degree, queue, order, edges, stuck>>

(* Nothing is left to pop: the order is complete, or there is a cycle.     *)
Finish ==
    /\ pc = "pop" /\ queue = <<>>
    /\ pc' = "done"
    /\ IF Len(order) # Cardinality(registered)
       THEN /\ result' = "cycle"
            /\ stuck' = {r \in registered : in_degree[r] > 0}
       ELSE result' = "ok" /\ UNCHANGED stuck
    /\ UNCHANGED <<registered, links, in_degree, queue, order, edges>>

-----------------------------------------------------------------------------
Sort ==
    \/ UnknownHandle \/ BuildGraph \/ Pop \/ RelaxDone \/ Finish
    \/ \E e \in edges : Relax(e)

Next ==
    \/ \E r \in Id :
          \/ \E L \in {M \in SUBSET Link : Cardinality(M) <= MaxLinks} : Add(r, L)
          \/ AddDuplicate(r)
    \/ Sort

Spec == Init /\ [][Next]_vars

(* topological_order is a loop that nothing interrupts.                    *)
FairSpec == Spec /\ WF_vars(Sort)

-----------------------------------------------------------------------------
(* The inductive invariant behind the properties.                          *)

Sorting == pc \in {"pop", "relax"}

(* in_degree counts the edges whose source has not been popped, or has     *)
(* been popped and is still handing out its edges.                         *)
Unrelaxed(r) == {e \in EdgesInto(r) : e.dep \notin Elements(order) \/ e \in edges}

DegreeInv == Sorting => \A r \in Id : in_degree[r] = Cardinality(Unrelaxed(r))

(* A vertex has arrived in the queue exactly when nothing is left to relax *)
(* into it; it arrives once.                                               *)
Injective(s) == \A i, j \in 1..Len(s) : s[i] = s[j] => i = j

ArrivalInv ==
    Sorting =>
        /\ Elements(queue) \cup Elements(order) = {r \in registered : Unrelaxed(r) = {}}
        /\ Elements(queue) \cap Elements(order) = {}
        /\ Injective(queue) /\ Injective(order)

(* Edges are handed out by a popped vertex only.                           *)
EdgesInv ==
    /\ Sorting => Known
    /\ pc # "relax" => edges = {}
    /\ \A e \in edges : e.dep \in Elements(order)

-----------------------------------------------------------------------------
(* A set in which everyone waits for a member: what a cycle makes          *)
(* impossible to order.                                                    *)
Deadlocked(S) == \A r \in S : Deps(r) \cap S # {}

(* Every resource of the sequence comes after its dependencies.            *)
Topological(s) ==
    \A i \in 1..Len(s) : \A d \in Deps(s[i]) : \E j \in 1..(i - 1) : s[j] = d

(* The order of topological_order holds every resource once, each after    *)
(* all the resources it depends on or is notified by.                      *)
OrderIsTopological ==
    result = "ok" =>
        /\ Elements(order) = registered /\ Len(order) = Cardinality(registered)
        /\ Topological(order)

(* A Cycle error is justified and complete: the vertices it names wait for *)
(* each other, there are some, and they are all that can never be ordered. *)
CycleIsReal ==
    result = "cycle" =>
        /\ stuck # {} /\ Deadlocked(stuck)
        /\ \A S \in SUBSET registered : Deadlocked(S) => S \subseteq stuck

(* topological_order comes to an end on every graph.                       *)
SortTerminates == pc = "pop" ~> pc = "done"
=============================================================================
