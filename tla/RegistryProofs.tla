---------------------------- MODULE RegistryProofs ----------------------------
(***************************************************************************)
(* Proofs that Registry::topological_order returns a topological order of  *)
(* every acyclic graph, and that the vertices it reports otherwise are     *)
(* exactly those a cycle holds up.                                         *)
(***************************************************************************)
EXTENDS Registry, FiniteSetTheorems, SequenceTheorems, TLAPS

-----------------------------------------------------------------------------
(* The inductive invariant: besides its parts in Registry, every vertex    *)
(* that has arrived is after its dependencies and outside every deadlocked *)
(* set, and an answer has the properties that are claimed of it.           *)
TopologicalInv == Sorting => Topological(order)

ClearInv ==
    Sorting => \A S \in SUBSET registered :
        Deadlocked(S) => S \cap (Elements(queue) \cup Elements(order)) = {}

Inv ==
    /\ TypeOK /\ EdgesInv /\ DegreeInv /\ ArrivalInv /\ TopologicalInv /\ ClearInv
    /\ pc = "register" => order = <<>> /\ result = "none"
    /\ Sorting => result = "none"
    /\ OrderIsTopological /\ CycleIsReal

-----------------------------------------------------------------------------
(* Facts about the graph and about sequences.                              *)

(* A registry has finitely many edges.                                     *)
LEMMA EdgeFinite == IsFiniteSet(Edge)
<1>1. IsFiniteSet(Field)
  <2>1. IsFiniteSet({} \cup {"depends_on"})
    BY FS_EmptySet, FS_AddElement
  <2>2. IsFiniteSet(({} \cup {"depends_on"}) \cup {"reload_on"})
    BY <2>1, FS_AddElement
  <2>3. IsFiniteSet((({} \cup {"depends_on"}) \cup {"reload_on"}) \cup {"restart_on"})
    BY <2>2, FS_AddElement
  <2>4. Field \in SUBSET ((({} \cup {"depends_on"}) \cup {"reload_on"}) \cup {"restart_on"})
    BY FieldAssumption DEF Fields
  <2> QED BY <2>3, <2>4, FS_Subset
<1>2. IsFiniteSet((Field \X Id) \X Id)
  BY <1>1, IdAssumption, FS_Product
<1> DEFINE f == [x \in (Field \X Id) \X Id |->
                   [field |-> x[1][1], dep |-> x[1][2], to |-> x[2]]]
<1>3. f \in Surjection((Field \X Id) \X Id, Edge)
  <2>1. f \in [(Field \X Id) \X Id -> Edge]
    BY DEF Edge
  <2>2. ASSUME NEW e \in Edge
        PROVE  \E x \in (Field \X Id) \X Id : f[x] = e
    <3>1. <<<<e.field, e.dep>>, e.to>> \in (Field \X Id) \X Id
      BY DEF Edge
    <3>2. f[<<<<e.field, e.dep>>, e.to>>] = e
      BY <3>1 DEF Edge
    <3> QED BY <3>1, <3>2
  <2> QED BY <2>1, <2>2 DEF Surjection
<1> QED BY <1>2, <1>3, FS_Surjection

(* Appending to a sequence adds an element and keeps the old ones.         *)
LEMMA AppendElements ==
  ASSUME NEW S, NEW s \in Seq(S), NEW x \in S
  PROVE  /\ Elements(Append(s, x)) = Elements(s) \cup {x}
         /\ Injective(s) /\ x \notin Elements(s) => Injective(Append(s, x))
<1>1. /\ Len(Append(s, x)) = Len(s) + 1
      /\ Append(s, x)[Len(s) + 1] = x
      /\ \A i \in 1..Len(s) : Append(s, x)[i] = s[i]
  OBVIOUS
<1> QED BY <1>1 DEF Elements, Injective

(* The head of a sequence without repetitions is not in its tail.          *)
LEMMA TailElements ==
  ASSUME NEW S, NEW s \in Seq(S), s # <<>>, Injective(s)
  PROVE  /\ Head(s) \in Elements(s)
         /\ Elements(Tail(s)) = Elements(s) \ {Head(s)}
         /\ Injective(Tail(s))
<1>1. /\ Len(s) \in Nat \ {0} /\ Head(s) = s[1]
      /\ Tail(s) \in Seq(S) /\ Len(Tail(s)) = Len(s) - 1
      /\ \A i \in 1..(Len(s) - 1) : Tail(s)[i] = s[i + 1]
  OBVIOUS
<1>2. Head(s) \in Elements(s)
  BY <1>1 DEF Elements
<1>3. Injective(Tail(s))
  BY <1>1 DEF Injective
<1>4. ASSUME NEW x \in Elements(Tail(s)) PROVE x \in Elements(s) \ {Head(s)}
  <2>1. PICK i \in 1..(Len(s) - 1) : x = s[i + 1]
    BY <1>1 DEF Elements
  <2>2. i + 1 \in 1..Len(s) /\ 1 \in 1..Len(s) /\ i + 1 # 1
    BY <1>1
  <2> QED BY <1>1, <2>1, <2>2 DEF Elements, Injective
<1>5. ASSUME NEW x \in Elements(s) \ {Head(s)} PROVE x \in Elements(Tail(s))
  <2>1. PICK i \in 1..Len(s) : x = s[i]
    BY DEF Elements
  <2>2. i # 1
    BY <1>1, <2>1
  <2>3. i - 1 \in 1..Len(Tail(s)) /\ Tail(s)[i - 1] = s[(i - 1) + 1]
    BY <1>1, <2>2
  <2> QED BY <2>1, <2>3 DEF Elements
<1> QED BY <1>2, <1>3, <1>4, <1>5

(* A function on 1..n is a sequence of length n.                           *)
LEMMA FunctionIsSeq ==
  ASSUME NEW S, NEW n \in Nat, NEW q \in [1..n -> S]
  PROVE  q \in Seq(S) /\ Len(q) = n
<1>1. q \in Seq(S)
  BY SeqDef
<1> QED BY <1>1, LenProperties

(* A sequence without repetitions is as long as its set of elements.       *)
LEMMA InjectiveLength ==
  ASSUME NEW S, NEW s \in Seq(S), Injective(s)
  PROVE  Cardinality(Elements(s)) = Len(s)
<1>1. s \in Bijection(1..Len(s), Elements(s))
  BY DEF Bijection, Injection, Surjection, IsInjective, Injective, Elements
<1> QED BY <1>1, FS_CountingElements DEF ExistsBijection

-----------------------------------------------------------------------------
(* The edges into a vertex that are not relaxed are a finite set.          *)
LEMMA UnrelaxedFinite == \A r : IsFiniteSet(Unrelaxed(r))
<1>1. \A r : Unrelaxed(r) \in SUBSET Edge
  BY DEF Unrelaxed, EdgesInto, Edges
<1> QED BY <1>1, EdgeFinite, FS_Subset

(* A handle that a registered resource lists is an edge into it.           *)
LEMMA DepsAreEdges ==
  ASSUME TypeOK, NEW r \in registered
  PROVE  Deps(r) = {e.dep : e \in EdgesInto(r)}
<1>1. ASSUME NEW d \in Deps(r) PROVE \E e \in EdgesInto(r) : e.dep = d
  <2>1. PICK l \in links[r] : l.dep = d
    BY DEF Deps
  <2>2. l \in Link /\ r \in Id
    BY DEF TypeOK
  <2> DEFINE e == [field |-> l.field, dep |-> l.dep, to |-> r]
  <2>3. e \in Edge /\ [field |-> e.field, dep |-> e.dep] = l
    BY <2>2 DEF Link, Edge
  <2>4. e \in EdgesInto(r)
    BY <2>3 DEF EdgesInto, Edges
  <2> QED BY <2>1, <2>4
<1>2. ASSUME NEW e \in EdgesInto(r) PROVE e.dep \in Deps(r)
  <2>1. [field |-> e.field, dep |-> e.dep] \in links[r]
    BY DEF EdgesInto, Edges
  <2> QED BY <2>1 DEF Deps
<1> QED BY <1>1, <1>2

-----------------------------------------------------------------------------
(* Registration touches nothing of the sort.                               *)
LEMMA RegisterStep ==
  ASSUME Inv, pc = "register",
         \/ \E r \in Id : \/ \E L \in SUBSET Link : Add(r, L)
                           \/ AddDuplicate(r)
         \/ UnknownHandle
  PROVE  Inv'
<1> USE DEF Inv
<1>1. TypeOK'
  <2>1. edges = {} /\ edges' = {}
    BY DEF EdgesInv, Add, AddDuplicate, UnknownHandle
  <2> QED BY <2>1 DEF TypeOK, Add, AddDuplicate, UnknownHandle
<1>2. pc' \in {"register", "done"} /\ edges' = {} /\ order' = <<>>
      /\ result' \notin {"ok", "cycle"}
      /\ (pc' = "register" => result' = "none")
  BY DEF EdgesInv, Add, AddDuplicate, UnknownHandle
<1> QED BY <1>1, <1>2 DEF EdgesInv, DegreeInv, ArrivalInv, TopologicalInv, ClearInv, Sorting,
                       OrderIsTopological, CycleIsReal

(* The first vertices in the queue are those that list no handle.          *)
LEMMA BuildGraphStep ==
  ASSUME Inv, BuildGraph
  PROVE  Inv'
<1> USE DEF Inv
<1> DEFINE Z == {r \in registered : EdgesInto(r) = {}}
<1>1. edges = {} /\ order = <<>> /\ result = "none" /\ pc' = "pop"
      /\ edges' = {} /\ order' = <<>> /\ result' = "none"
      /\ registered' = registered /\ links' = links
  BY DEF BuildGraph, EdgesInv
<1>2. \A r : EdgesInto(r)' = EdgesInto(r)
  BY <1>1 DEF EdgesInto, Edges
<1>3. \A r : Unrelaxed(r)' = EdgesInto(r)
  BY <1>1, <1>2 DEF Unrelaxed, Elements
<1>4. IsFiniteSet(Z) /\ Cardinality(Z) \in Nat
  <2>1. Z \in SUBSET Id
    BY DEF TypeOK
  <2> QED BY <2>1, IdAssumption, FS_Subset, FS_CardinalityType
<1>5. queue' \in [1..Cardinality(Z) -> Z] /\ \A i, j \in DOMAIN queue' : queue'[i] = queue'[j] => i = j
  BY DEF BuildGraph, Listings
<1>6. queue' \in Seq(Id) /\ Len(queue') = Cardinality(Z) /\ Injective(queue') /\ Elements(queue') \subseteq Z
  <2>1. Z \subseteq Id
    BY DEF TypeOK
  <2>2. queue' \in [1..Cardinality(Z) -> Id]
    BY <1>5, <2>1
  <2>3. queue' \in Seq(Id) /\ Len(queue') = Cardinality(Z)
    BY <1>4, <2>2, FunctionIsSeq
  <2>4. DOMAIN queue' = 1..Len(queue')
    BY <1>5, <2>3
  <2>5. Injective(queue')
    BY <1>5, <2>4 DEF Injective
  <2>6. \A i \in 1..Len(queue') : queue'[i] \in Z
    BY <1>5, <2>3
  <2>7. Elements(queue') \subseteq Z
    BY <2>6 DEF Elements
  <2> QED BY <2>3, <2>5, <2>7
<1>7. Elements(queue') = Z
  <2>1. Cardinality(Elements(queue')) = Cardinality(Z)
    BY <1>6, InjectiveLength
  <2> QED BY <1>4, <1>6, <2>1, FS_Subset
<1>8. in_degree' = [r \in Id |-> Cardinality(EdgesInto(r))]
  BY DEF BuildGraph
<1>9. TypeOK'
  <2>1. \A r : IsFiniteSet(EdgesInto(r))
    <3>1. \A r : EdgesInto(r) \in SUBSET Edge
      BY DEF EdgesInto, Edges
    <3> QED BY <3>1, EdgeFinite, FS_Subset
  <2>2. in_degree' \in [Id -> Nat]
    BY <1>8, <2>1, FS_CardinalityType
  <2> QED BY <1>1, <1>6, <2>2 DEF TypeOK, BuildGraph
<1>10. DegreeInv'
  BY <1>3, <1>8 DEF DegreeInv
<1>11. ArrivalInv' /\ TopologicalInv' /\ EdgesInv'
  <2>1. Elements(order') = {} /\ Injective(order')
    BY <1>1 DEF Elements, Injective
  <2>2. Known'
    BY <1>1 DEF BuildGraph, Known, Edges
  <2> QED BY <1>1, <1>3, <1>6, <1>7, <2>1, <2>2 DEF ArrivalInv, EdgesInv, TopologicalInv, Topological
<1>12. ClearInv'
  <2> SUFFICES ASSUME NEW S \in SUBSET registered, \A r \in S : Deps(r) \cap S # {}
               PROVE  S \cap Z = {}
    <3>1. Elements(order') = {}
      BY <1>1 DEF Elements
    <3>2. \A r : Deps(r)' = Deps(r)
      BY <1>1 DEF Deps
    <3> QED BY <1>1, <1>7, <3>1, <3>2 DEF ClearInv, Deadlocked
  <2>1. \A r \in Z : Deps(r) = {}
    BY DepsAreEdges
  <2> QED BY <2>1
<1>13. OrderIsTopological' /\ CycleIsReal' /\ pc' # "register"
  BY <1>1 DEF OrderIsTopological, CycleIsReal
<1> QED BY <1>1, <1>9, <1>10, <1>11, <1>12, <1>13 DEF Sorting

(* The popped vertex moves from the queue to the order; its edges, all     *)
(* unrelaxed until now, are handed out.                                    *)
LEMMA PopStep ==
  ASSUME Inv, Pop
  PROVE  Inv'
<1> USE DEF Inv
<1> DEFINE h == Head(queue)
<1>1. /\ pc = "pop" /\ queue # <<>> /\ order' = Append(order, h) /\ queue' = Tail(queue)
      /\ edges' = {e \in Edges : e.dep = h} /\ pc' = "relax"
      /\ registered' = registered /\ links' = links /\ in_degree' = in_degree
      /\ result' = result /\ stuck' = stuck
  BY DEF Pop
<1>2. edges = {} /\ Known /\ result = "none" /\ queue \in Seq(Id) /\ order \in Seq(Id)
      /\ Sorting /\ Sorting' /\ Injective(queue) /\ Injective(order)
      /\ Elements(queue) \cap Elements(order) = {}
  BY <1>1 DEF TypeOK, EdgesInv, ArrivalInv, Sorting
<1>3. /\ h \in Elements(queue) /\ h \notin Elements(order) /\ h \in Id
      /\ Elements(queue') = Elements(queue) \ {h} /\ Injective(queue')
      /\ Elements(order') = Elements(order) \cup {h} /\ Injective(order')
      /\ queue' \in Seq(Id) /\ order' \in Seq(Id)
  <2>1. h \in Elements(queue) /\ Elements(queue') = Elements(queue) \ {h} /\ Injective(queue')
    BY <1>1, <1>2, TailElements
  <2>2. h \in Id /\ queue' \in Seq(Id) /\ order' \in Seq(Id)
    BY <1>1, <1>2
  <2> QED BY <1>1, <1>2, <2>1, <2>2, AppendElements
<1>4. Edges' = Edges /\ (\A r : EdgesInto(r)' = EdgesInto(r)) /\ (\A r : Deps(r)' = Deps(r))
  BY <1>1 DEF Edges, EdgesInto, Deps
<1>5. \A r : Unrelaxed(r)' = Unrelaxed(r)
  BY <1>1, <1>2, <1>3, <1>4 DEF Unrelaxed, EdgesInto
<1>6. TypeOK'
  BY <1>1, <1>3, <1>4 DEF TypeOK
<1>7. EdgesInv'
  BY <1>1, <1>2, <1>3, <1>4 DEF EdgesInv, Known
<1>8. DegreeInv'
  BY <1>1, <1>2, <1>5 DEF DegreeInv
<1>9. ArrivalInv'
  BY <1>1, <1>2, <1>3, <1>5 DEF ArrivalInv
<1>10. \A d \in Deps(h) : d \in Elements(order)
  <2>1. h \in registered /\ Unrelaxed(h) = {}
    BY <1>2, <1>3 DEF ArrivalInv
  <2>2. \A e \in EdgesInto(h) : e.dep \in Elements(order)
    BY <2>1 DEF Unrelaxed
  <2> QED BY <2>1, <2>2, DepsAreEdges
<1>11. TopologicalInv'
  <2>1. /\ Len(order) \in Nat /\ Len(order') = Len(order) + 1 /\ order'[Len(order) + 1] = h
        /\ \A i \in 1..Len(order) : order'[i] = order[i]
    BY <1>1, <1>2, <1>3
  <2>2. Topological(order)
    BY <1>2 DEF TopologicalInv
  <2>3. ASSUME NEW i \in 1..Len(order'), NEW d \in Deps(order'[i])
        PROVE  \E j \in 1..(i - 1) : order'[j] = d
    <3>1. CASE i \in 1..Len(order)
      <4>1. PICK j \in 1..(i - 1) : order[j] = d
        BY <2>1, <2>2, <3>1 DEF Topological
      <4>2. order'[j] = d
        BY <2>1, <3>1, <4>1
      <4> QED BY <4>2
    <3>2. CASE i = Len(order) + 1
      <4>1. PICK j \in 1..Len(order) : order[j] = d
        BY <1>10, <2>1, <3>2 DEF Elements
      <4> QED BY <2>1, <3>2, <4>1
    <3> QED BY <2>1, <3>1, <3>2
  <2> QED BY <1>4, <2>3 DEF TopologicalInv, Topological
<1>12. ClearInv'
  BY <1>1, <1>2, <1>3, <1>4 DEF ClearInv, Deadlocked
<1>13. OrderIsTopological' /\ CycleIsReal' /\ pc' # "register" /\ result' = "none"
  BY <1>1, <1>2 DEF OrderIsTopological, CycleIsReal
<1> QED BY <1>6, <1>7, <1>8, <1>9, <1>11, <1>12, <1>13

(* The edge relaxed is one of those counted; when it is the last one its   *)
(* target arrives, and all dependencies of the target have been popped.    *)
LEMMA RelaxStep ==
  ASSUME Inv, NEW e \in edges, Relax(e)
  PROVE  Inv'
<1> USE DEF Inv
<1> DEFINE t == e.to
<1>1. /\ pc = "relax" /\ pc' = "relax" /\ edges' = edges \ {e}
      /\ in_degree' = [in_degree EXCEPT ![t] = @ - 1]
      /\ queue' = IF in_degree[t] = 1 THEN Append(queue, t) ELSE queue
      /\ registered' = registered /\ links' = links /\ order' = order
      /\ result' = result /\ stuck' = stuck
  BY DEF Relax
<1>2. /\ Known /\ result = "none" /\ queue \in Seq(Id) /\ order \in Seq(Id)
      /\ Sorting /\ Sorting' /\ Injective(queue) /\ Injective(order)
      /\ Elements(queue) \cap Elements(order) = {}
      /\ in_degree \in [Id -> Nat]
  BY <1>1 DEF TypeOK, EdgesInv, ArrivalInv, Sorting
<1>3. e \in Edges /\ t \in Id /\ t \in registered /\ e.dep \in Elements(order) /\ e \in Unrelaxed(t)
  BY DEF TypeOK, EdgesInv, Edges, Edge, Unrelaxed, EdgesInto
<1>4. Edges' = Edges /\ (\A r : EdgesInto(r)' = EdgesInto(r)) /\ (\A r : Deps(r)' = Deps(r))
      /\ Elements(order') = Elements(order)
  BY <1>1 DEF Edges, EdgesInto, Deps
<1>5. /\ Unrelaxed(t)' = Unrelaxed(t) \ {e}
      /\ \A r : r # t => Unrelaxed(r)' = Unrelaxed(r)
  BY <1>1, <1>3, <1>4 DEF Unrelaxed, EdgesInto
<1>6. /\ in_degree[t] = Cardinality(Unrelaxed(t))
      /\ Cardinality(Unrelaxed(t)') = in_degree[t] - 1
      /\ in_degree[t] - 1 \in Nat
      /\ in_degree[t] = 1 <=> Unrelaxed(t)' = {}
  <2>1. IsFiniteSet(Unrelaxed(t)) /\ IsFiniteSet(Unrelaxed(t) \ {e})
    BY UnrelaxedFinite, FS_RemoveElement
  <2>2. Cardinality(Unrelaxed(t) \ {e}) = Cardinality(Unrelaxed(t)) - 1
    BY <1>3, <2>1, FS_RemoveElement
  <2>3. in_degree[t] = Cardinality(Unrelaxed(t))
    BY <1>2, <1>3 DEF DegreeInv
  <2>4. Cardinality(Unrelaxed(t) \ {e}) \in Nat
    BY <2>1, FS_CardinalityType
  <2>5. Cardinality(Unrelaxed(t) \ {e}) = 0 <=> Unrelaxed(t) \ {e} = {}
    BY <2>1, FS_EmptySet
  <2>6. in_degree[t] \in Nat
    BY <1>2, <1>3
  <2> QED BY <1>5, <2>2, <2>3, <2>4, <2>5, <2>6
<1>7. t \notin Elements(queue) \cup Elements(order)
  BY <1>2, <1>3 DEF ArrivalInv
<1>8. /\ queue' \in Seq(Id) /\ Injective(queue')
      /\ Elements(queue') = IF in_degree[t] = 1 THEN Elements(queue) \cup {t} ELSE Elements(queue)
  <2>1. CASE in_degree[t] = 1
    <3>1. queue' = Append(queue, t) /\ queue' \in Seq(Id)
      BY <1>1, <1>2, <1>3, <2>1
    <3> QED BY <1>2, <1>3, <1>7, <2>1, <3>1, AppendElements
  <2>2. CASE in_degree[t] # 1
    BY <1>1, <1>2, <2>2
  <2> QED BY <2>1, <2>2
<1>9. TypeOK'
  <2>1. in_degree' \in [Id -> Nat]
    BY <1>1, <1>2, <1>3, <1>6
  <2> QED BY <1>1, <1>4, <1>8, <2>1 DEF TypeOK
<1>10. EdgesInv'
  BY <1>1, <1>2, <1>4 DEF EdgesInv, Known
<1>11. DegreeInv'
  <2>1. ASSUME NEW r \in Id PROVE in_degree'[r] = Cardinality(Unrelaxed(r)')
    <3>1. CASE r = t
      BY <1>1, <1>2, <1>3, <1>6, <3>1
    <3>2. CASE r # t
      <4>1. in_degree'[r] = in_degree[r] /\ Unrelaxed(r)' = Unrelaxed(r)
        BY <1>1, <1>2, <1>5, <3>2
      <4> QED BY <1>2, <4>1 DEF DegreeInv
    <3> QED BY <3>1, <3>2
  <2> QED BY <2>1 DEF DegreeInv
<1>12. ArrivalInv'
  <2>1. Elements(queue) \cup Elements(order) = {r \in registered : Unrelaxed(r) = {}}
    BY <1>2 DEF ArrivalInv
  <2>2. Elements(queue') \cup Elements(order') = {r \in registered : Unrelaxed(r)' = {}}
    BY <1>3, <1>4, <1>5, <1>6, <1>8, <2>1
  <2>3. Elements(queue') \cap Elements(order') = {}
    BY <1>2, <1>4, <1>7, <1>8
  <2> QED BY <1>1, <1>2, <1>8, <2>2, <2>3 DEF ArrivalInv
<1>13. TopologicalInv'
  <2>1. Topological(order)
    BY <1>2 DEF TopologicalInv
  <2>2. order' = order /\ links' = links
    BY <1>1
  <2> QED BY <2>1, <2>2 DEF TopologicalInv, Topological, Deps
<1>14. ClearInv'
  <2> SUFFICES ASSUME NEW S \in SUBSET registered, Deadlocked(S)
               PROVE  S \cap (Elements(queue') \cup Elements(order')) = {}
    BY <1>1, <1>4 DEF ClearInv, Deadlocked
  <2>1. S \cap (Elements(queue) \cup Elements(order)) = {}
    BY <1>2 DEF ClearInv
  <2>2. CASE in_degree[t] # 1
    BY <1>4, <1>8, <2>1, <2>2
  <2>3. CASE in_degree[t] = 1
    <3>1. \A x \in EdgesInto(t) : x.dep \in Elements(order)
      BY <1>4, <1>6, <2>3 DEF Unrelaxed
    <3>2. Deps(t) \subseteq Elements(order)
      BY <1>3, <3>1, DepsAreEdges
    <3>3. t \notin S
      BY <2>1, <3>2 DEF Deadlocked
    <3> QED BY <1>4, <1>8, <2>1, <3>3
  <2> QED BY <2>2, <2>3
<1>15. OrderIsTopological' /\ CycleIsReal' /\ pc' # "register" /\ result' = "none"
  BY <1>1, <1>2 DEF OrderIsTopological, CycleIsReal
<1> QED BY <1>9, <1>10, <1>11, <1>12, <1>13, <1>14, <1>15

(* The end of the loop over the successors keeps the invariant.            *)
LEMMA RelaxDoneStep ==
  ASSUME Inv, RelaxDone
  PROVE  Inv'
<1> USE DEF Inv
<1>1. /\ pc = "relax" /\ pc' = "pop" /\ edges = {}
      /\ UNCHANGED <<registered, links, in_degree, queue, order, edges, result, stuck>>
  BY DEF RelaxDone
<1>2. Sorting /\ Sorting'
  BY <1>1 DEF Sorting
<1>3. TypeOK' /\ EdgesInv'
  BY <1>1, <1>2 DEF TypeOK, EdgesInv, Edges, Known
<1>4. DegreeInv'
  BY <1>1, <1>2 DEF DegreeInv, Unrelaxed, EdgesInto, Edges
<1>5. ArrivalInv'
  BY <1>1, <1>2 DEF ArrivalInv, Unrelaxed, EdgesInto, Edges
<1>6. TopologicalInv'
  BY <1>1, <1>2 DEF TopologicalInv, Topological, Deps
<1>7. ClearInv'
  BY <1>1, <1>2 DEF ClearInv, Deadlocked, Deps
<1>8. OrderIsTopological' /\ CycleIsReal' /\ pc' # "register" /\ result' = "none"
  BY <1>1, <1>2 DEF OrderIsTopological, CycleIsReal
<1> QED BY <1>3, <1>4, <1>5, <1>6, <1>7, <1>8

(* With an empty queue the order holds what is not held up: everything, or *)
(* all but a non-empty deadlocked set, the largest one.                    *)
LEMMA FinishStep ==
  ASSUME Inv, Finish
  PROVE  Inv'
<1> USE DEF Inv
<1> DEFINE rest == {r \in registered : in_degree[r] > 0}
<1>1. /\ pc = "pop" /\ pc' = "done" /\ queue = <<>>
      /\ UNCHANGED <<registered, links, in_degree, queue, order, edges>>
      /\ \/ Len(order) # Cardinality(registered) /\ result' = "cycle" /\ stuck' = rest
         \/ Len(order) = Cardinality(registered) /\ result' = "ok" /\ stuck' = stuck
  BY DEF Finish
<1>2. /\ Sorting /\ Known /\ edges = {} /\ order \in Seq(Id) /\ Injective(order)
      /\ in_degree \in [Id -> Nat] /\ registered \in SUBSET Id
      /\ Topological(order)
  BY <1>1 DEF Sorting, EdgesInv, TypeOK, ArrivalInv, TopologicalInv
<1>3. Elements(order) = {r \in registered : Unrelaxed(r) = {}}
  <2>1. Elements(queue) = {}
    BY <1>1 DEF Elements
  <2> QED BY <1>2, <2>1 DEF ArrivalInv
<1>4. rest = registered \ Elements(order)
  <2>1. ASSUME NEW r \in registered PROVE in_degree[r] > 0 <=> Unrelaxed(r) # {}
    <3>1. in_degree[r] = Cardinality(Unrelaxed(r)) /\ in_degree[r] \in Nat
      BY <1>2 DEF DegreeInv
    <3>2. Cardinality(Unrelaxed(r)) = 0 <=> Unrelaxed(r) = {}
      BY UnrelaxedFinite, FS_EmptySet
    <3> QED BY <3>1, <3>2
  <2> QED BY <1>3, <2>1
<1>5. Cardinality(Elements(order)) = Len(order) /\ IsFiniteSet(registered)
  BY <1>2, InjectiveLength, IdAssumption, FS_Subset
<1>6. TypeOK' /\ EdgesInv'
  BY <1>1, <1>2 DEF TypeOK, EdgesInv, Edges, Sorting
<1>7. OrderIsTopological'
  <2> SUFFICES ASSUME result' = "ok" PROVE OrderIsTopological'
    BY DEF OrderIsTopological
  <2>1. Len(order) = Cardinality(registered)
    BY <1>1
  <2>2. Elements(order) = registered
    BY <1>3, <1>5, <2>1, FS_Subset
  <2>3. Topological(order)'
    <3>1. Topological(order) /\ order' = order /\ links' = links
      BY <1>1, <1>2
    <3> QED BY <3>1 DEF Topological, Deps
  <2>4. Elements(order') = registered' /\ Len(order') = Cardinality(registered')
    BY <1>1, <2>1, <2>2
  <2> QED BY <2>3, <2>4 DEF OrderIsTopological
<1>8. CycleIsReal'
  <2> SUFFICES ASSUME result' = "cycle" PROVE CycleIsReal'
    BY DEF CycleIsReal
  <2>1. Len(order) # Cardinality(registered) /\ stuck' = rest
    BY <1>1
  <2>2. rest # {}
    <3>1. rest = {} => registered = Elements(order)
      BY <1>3, <1>4
    <3> QED BY <1>5, <2>1, <3>1
  <2>3. Deadlocked(rest)
    <3>1. ASSUME NEW r \in rest PROVE Deps(r) \cap rest # {}
      <4>1. r \in registered /\ Unrelaxed(r) # {}
        BY <1>3, <1>4
      <4>2. PICK e \in EdgesInto(r) : e.dep \notin Elements(order)
        BY <1>2, <4>1 DEF Unrelaxed
      <4>3. e.dep \in registered
        BY <1>2, <4>2 DEF Known, EdgesInto
      <4>4. e.dep \in Deps(r)
        BY <4>1, <4>2, DepsAreEdges
      <4> QED BY <1>4, <4>2, <4>3, <4>4
    <3> QED BY <3>1 DEF Deadlocked
  <2>4. \A S \in SUBSET registered : Deadlocked(S) => S \subseteq rest
    BY <1>2, <1>4 DEF ClearInv
  <2>5. stuck' # {} /\ Deadlocked(stuck)'
    BY <1>1, <2>1, <2>2, <2>3 DEF Deadlocked, Deps
  <2>6. \A S \in SUBSET registered' : Deadlocked(S)' => S \subseteq stuck'
    BY <1>1, <2>1, <2>4 DEF Deadlocked, Deps
  <2> QED BY <2>5, <2>6 DEF CycleIsReal
<1>9. ~Sorting' /\ pc' # "register"
  BY <1>1 DEF Sorting
<1> QED BY <1>6, <1>7, <1>8, <1>9 DEF DegreeInv, ArrivalInv, TopologicalInv, ClearInv

-----------------------------------------------------------------------------
(* The invariant holds of every reachable state.                           *)
LEMMA RegistryInvariant == Spec => []Inv
<1>1. Init => Inv
  <2> SUFFICES ASSUME Init PROVE Inv
    OBVIOUS
  <2>1. ~Sorting /\ pc = "register" /\ edges = {} /\ result = "none" /\ order = <<>>
    BY DEF Init, Sorting
  <2>2. TypeOK
    BY DEF Init, TypeOK
  <2> QED BY <2>1, <2>2 DEF Inv, EdgesInv, DegreeInv, ArrivalInv, TopologicalInv, ClearInv,
                         OrderIsTopological, CycleIsReal
<1>2. Inv /\ [Next]_vars => Inv'
  <2> SUFFICES ASSUME Inv, [Next]_vars PROVE Inv'
    OBVIOUS
  <2>1. ASSUME NEW r \in Id, NEW L \in SUBSET Link, Add(r, L) PROVE Inv'
    BY <2>1, RegisterStep DEF Add
  <2>2. ASSUME NEW r \in Id, AddDuplicate(r) PROVE Inv'
    BY <2>2, RegisterStep DEF AddDuplicate
  <2>3. CASE UnknownHandle
    BY <2>3, RegisterStep DEF UnknownHandle
  <2>4. CASE BuildGraph
    BY <2>4, BuildGraphStep
  <2>5. CASE Pop
    BY <2>5, PopStep
  <2>6. ASSUME NEW e \in edges, Relax(e) PROVE Inv'
    BY <2>6, RelaxStep
  <2>7. CASE RelaxDone
    BY <2>7, RelaxDoneStep
  <2>8. CASE Finish
    BY <2>8, FinishStep
  <2>9. CASE UNCHANGED vars
    <3> USE <2>9 DEF vars, Inv, Sorting
    <3>1. TypeOK' /\ EdgesInv'
      BY DEF TypeOK, EdgesInv, Edges, Known
    <3>2. DegreeInv'
      BY DEF DegreeInv, Unrelaxed, EdgesInto, Edges
    <3>3. ArrivalInv'
      BY DEF ArrivalInv, Unrelaxed, EdgesInto, Edges
    <3>4. TopologicalInv' /\ OrderIsTopological'
      <4>1. Topological(order)' <=> Topological(order)
        BY DEF Topological, Deps
      <4> QED BY <4>1 DEF TopologicalInv, OrderIsTopological
    <3>5. ClearInv'
      BY DEF ClearInv, Deadlocked, Deps
    <3>6. CycleIsReal'
      BY DEF CycleIsReal, Deadlocked, Deps
    <3> QED BY <3>1, <3>2, <3>3, <3>4, <3>5, <3>6
  <2> QED BY <2>1, <2>2, <2>3, <2>4, <2>5, <2>6, <2>7, <2>8, <2>9 DEF Next, Sort
<1> QED BY <1>1, <1>2, PTL DEF Spec

(* The queue, the degrees and the order of Kahn's loop are what they       *)
(* should be in every state of topological_order, for any resources.       *)
THEOREM RegistryTypes == Spec => []TypeOK
BY RegistryInvariant, PTL DEF Inv

(* Every order topological_order returns holds all resources, each after   *)
(* the ones it names in depends_on, reload_on and restart_on, whatever the *)
(* order in which the HashMap yields the first vertices.                   *)
THEOREM RegistryOrders == Spec => []OrderIsTopological
BY RegistryInvariant, PTL DEF Inv

(* topological_order reports a cycle only when there is one, and names     *)
(* exactly the resources that no order can place.                          *)
THEOREM RegistryCycles == Spec => []CycleIsReal
BY RegistryInvariant, PTL DEF Inv

-----------------------------------------------------------------------------
(* Termination: the work that is left.  A vertex that is not in the order  *)
(* yet stands for a pop, for all edges there are and for the two ends of   *)
(* the inner loop.                                                         *)
Round == Cardinality(Edges) + 3
InRound == CASE pc = "pop" -> 1 [] pc = "relax" -> Cardinality(edges) + 2 [] OTHER -> 0
Work == Round * (Cardinality(registered) - Len(order)) + InRound

(* The work is a number.                                                   *)
LEMMA WorkIsNatural ==
  ASSUME Inv
  PROVE  /\ Cardinality(registered) \in Nat /\ Len(order) \in Nat
         /\ Cardinality(Edges) \in Nat /\ IsFiniteSet(edges) /\ Cardinality(edges) \in Nat
         /\ Sorting => Len(order) <= Cardinality(registered)
<1>1. IsFiniteSet(registered) /\ order \in Seq(Id)
  BY IdAssumption, FS_Subset DEF Inv, TypeOK
<1>2. IsFiniteSet(Edges) /\ IsFiniteSet(edges)
  <2>1. Edges \in SUBSET Edge /\ edges \in SUBSET Edge
    BY DEF Edges, Inv, TypeOK
  <2> QED BY <2>1, EdgeFinite, FS_Subset
<1>3. ASSUME Sorting PROVE Len(order) <= Cardinality(registered)
  <2>1. Injective(order) /\ Elements(order) \subseteq registered
    BY <1>3 DEF Inv, ArrivalInv
  <2>2. Cardinality(Elements(order)) = Len(order)
    BY <1>1, <2>1, InjectiveLength
  <2> QED BY <1>1, <2>1, <2>2, FS_Subset
<1> QED BY <1>1, <1>2, <1>3, FS_CardinalityType, LenProperties

(* What is left after a step of the inner loop, or after its last.         *)
LEMMA SameRound ==
  ASSUME Inv, Sorting, UNCHANGED <<registered, links, order>>,
         InRound \in Nat, InRound' \in Nat, InRound' < InRound
  PROVE  Work' < Work /\ Work' \in Nat
<1> DEFINE k == Cardinality(registered) - Len(order)
<1>1. k \in Nat /\ Round \in Nat
  BY WorkIsNatural DEF Round
<1>2. Work = Round * k + InRound /\ Work' = Round * k + InRound'
  BY DEF Work, Round, Edges
<1> HIDE DEF k
<1>3. Round * k \in Nat
  BY <1>1
<1> QED BY <1>2, <1>3

(* topological_order ends: every step of its loop leaves less work, and    *)
(* the work left is a natural number from the first pop to the end.  It is *)
(* what termination rests on; that the loop goes on at all is fairness.    *)
THEOREM RegistryDescends == Spec => [][Sorting /\ Sort => Work' < Work /\ Work' \in Nat]_vars
<1>1. ASSUME Inv, Sorting, Sort, Inv' PROVE Work' < Work /\ Work' \in Nat
  <2>1. CASE Pop
    <3> DEFINE k == Cardinality(registered) - Len(order)
    <3>1. /\ pc = "pop" /\ pc' = "relax" /\ order' = Append(order, Head(queue)) /\ edges' \subseteq Edges
          /\ UNCHANGED <<registered, links>> /\ order \in Seq(Id) /\ Head(queue) \in Id
      BY <1>1, <2>1 DEF Pop, Inv, TypeOK
    <3>2. Sorting' /\ Edges' = Edges
      BY <3>1 DEF Sorting, Edges
    <3>3. Len(order') = Len(order) + 1 /\ k \in Nat /\ k - 1 \in Nat
      <4>1. Len(order') = Len(order) + 1 /\ order' \in Seq(Id) /\ Len(order) \in Nat
        BY <3>1
      <4>2. Injective(order') /\ Elements(order') \subseteq registered
        BY <1>1, <3>1, <3>2 DEF Inv, ArrivalInv
      <4>3. Cardinality(Elements(order')) = Len(order')
        BY <4>1, <4>2, InjectiveLength
      <4>4. IsFiniteSet(registered) /\ Cardinality(registered) \in Nat
        BY <1>1, IdAssumption, FS_Subset, FS_CardinalityType DEF Inv, TypeOK
      <4>5. Len(order') <= Cardinality(registered)
        BY <4>2, <4>3, <4>4, FS_Subset
      <4> QED BY <4>1, <4>4, <4>5
    <3>4. IsFiniteSet(Edges) /\ Cardinality(edges') <= Cardinality(Edges) /\ Cardinality(edges') \in Nat
      <4>1. Edges \in SUBSET Edge
        BY DEF Edges
      <4> QED BY <3>1, <4>1, EdgeFinite, FS_Subset, FS_CardinalityType
    <3>5. Round \in Nat /\ InRound = 1 /\ InRound' = Cardinality(edges') + 2 /\ InRound' < Round
      BY <1>1, <3>1, <3>4, WorkIsNatural DEF Round, InRound
    <3>6. Work = Round * k + 1 /\ Work' = Round * (k - 1) + InRound'
      <4>1. Work = Round * k + 1
        BY <3>5 DEF Work
      <4>2. Round' = Round /\ Cardinality(registered') - Len(order') = k - 1
        BY <1>1, <3>1, <3>2, <3>3, WorkIsNatural DEF Round
      <4> QED BY <4>1, <4>2 DEF Work
    <3>7. InRound' \in Nat
      BY <3>4, <3>5
    <3> HIDE DEF k
    <3>8. Round * k = Round * (k - 1) + Round /\ Round * (k - 1) \in Nat
      BY <3>3, <3>5
    <3> QED BY <3>5, <3>6, <3>7, <3>8
  <2>2. ASSUME NEW e \in edges, Relax(e) PROVE Work' < Work /\ Work' \in Nat
    <3>1. pc = "relax" /\ pc' = "relax" /\ edges' = edges \ {e} /\ UNCHANGED <<registered, links, order>>
      BY <2>2 DEF Relax
    <3>2. Cardinality(edges') = Cardinality(edges) - 1 /\ Cardinality(edges) \in Nat /\ Cardinality(edges') \in Nat
      BY <1>1, <2>2, <3>1, WorkIsNatural, FS_RemoveElement, FS_CardinalityType
    <3> QED BY <1>1, <3>1, <3>2, SameRound DEF InRound
  <2>3. CASE RelaxDone
    <3>1. pc = "relax" /\ pc' = "pop" /\ edges = {} /\ UNCHANGED <<registered, links, order>>
      BY <2>3 DEF RelaxDone
    <3> QED BY <1>1, <3>1, FS_EmptySet, SameRound DEF InRound
  <2>4. CASE Finish
    <3>1. pc = "pop" /\ pc' = "done" /\ UNCHANGED <<registered, links, order>>
      BY <2>4 DEF Finish
    <3> QED BY <1>1, <3>1, SameRound DEF InRound
  <2> QED BY <1>1, <2>1, <2>2, <2>3, <2>4 DEF Sort, Sorting, UnknownHandle, BuildGraph
<1> QED BY <1>1, RegistryInvariant, PTL
=============================================================================
