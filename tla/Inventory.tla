------------------------------ MODULE Inventory ------------------------------
(***************************************************************************)
(* inventory.merge and inventory.merge_keyed: JSON documents from the      *)
(* files of a bundle, laid one over the other. A behaviour folds documents *)
(* from the left, as the Starlark functions do.                            *)
(***************************************************************************)
EXTENDS Naturals, SequencesExt

VARIABLES
  mergeMode,  \* a MergeStrategy, or "keyed"
  merged,     \* the fold so far
  overlay,    \* the document that is merged next
  before,     \* history: what it is merged into
  mergeError, \* the InventoryError
  mergePc

invVars == <<mergeMode, merged, overlay, before, mergeError, mergePc>>

-----------------------------------------------------------------------------
(* JSON *)

Null == [ty |-> "null", val |-> << >>]
Num(n) == [ty |-> "number", val |-> <<n>>]
Arr(s) == [ty |-> "array", val |-> s]
Obj(f) == [ty |-> "object", val |-> f]
IsObj(x) == x.ty = "object"
Has(x, k) == IsObj(x) /\ k \in DOMAIN x.val

Text(s) == [ty |-> "string", val |-> <<s>>]
BeyondI32 == 3

\* yaml_to_json: a number that JSON does not have (.nan) is null; a key that
\* is not a string, or a tag, is an error and there is no document.
YamlScalars == {"1", "2", "2147483648", ".nan", "~"}
YamlToJson(y) == CASE y = "1" -> Num(1) [] y = "2" -> Num(2) [] y = "2147483648" -> Num(BeyondI32) [] OTHER -> Null
\* json_scalar_to_value: an integer beyond i32 reaches Starlark as a string,
\* all others as they are.
JsonScalarToValue(x) == IF x = Num(BeyondI32) THEN Text("2147483648") ELSE x

MergeStrategy == {"deep_map_replace_list", "deep_map_append_list", "replace"}
\* resolve_merge_strategy: without an argument, the default of the bundle.
ResolveMergeStrategy(arg, default) ==
  LET chosen == IF arg = "" THEN default ELSE arg
  IN CASE chosen = "" -> "DefaultMergeStrategyMissing" [] chosen \in MergeStrategy -> chosen
       [] OTHER -> "UnknownMergeStrategy"

-----------------------------------------------------------------------------
(* merge_inventory *)

MergeReplace(base, over) == over

RECURSIVE MergeDeep(_, _, _)
\* What both have is merged, null in the overlay takes a key away.
MergeMaps(b, o, both) ==
  [k \in (DOMAIN b \ {j \in DOMAIN o : o[j].ty = "null"}) \cup {j \in DOMAIN o : o[j].ty # "null"} |->
     IF k \notin DOMAIN o THEN b[k] ELSE IF k \notin DOMAIN b THEN o[k] ELSE both[k]]
Common(x, y) == DOMAIN x.val \cap DOMAIN y.val

\* Items that are there already are not appended again.
AppendLists(b, o) == FoldLeft(LAMBDA acc, x : IF x \in Range(acc) THEN acc ELSE Append(acc, x), b, o)

MergeDeep(base, over, append) ==
  CASE over.ty = "null" -> base
    [] IsObj(base) /\ IsObj(over) ->
         Obj(MergeMaps(base.val, over.val, [k \in Common(base, over) |-> MergeDeep(base.val[k], over.val[k], append)]))
    [] append /\ base.ty = "array" /\ over.ty = "array" -> Arr(AppendLists(base.val, over.val))
    [] OTHER -> over

MergeInventory(base, over, strategy) ==
  IF strategy = "replace" THEN MergeReplace(base, over)
  ELSE MergeDeep(base, over, strategy = "deep_map_append_list")

-----------------------------------------------------------------------------
(* merge_inventory_keyed, for the key "n" *)

Key == "n"
InventoryError == {"KeyedListMissingKey", "KeyedListNonMapElement"}
Failed(e) == [ty |-> e, val |-> << >>]
IsError(x) == x.ty \in InventoryError
EnsureMapWithKey(x) ==
  CASE ~IsObj(x) -> "KeyedListNonMapElement" [] IsObj(x) /\ Key \notin DOMAIN x.val -> "KeyedListMissingKey" [] OTHER -> "ok"
KeyValueOf(x) == IF Has(x, Key) THEN <<x.val[Key]>> ELSE << >>

RECURSIVE MergeKeyedAt(_, _)
\* Mutant: the items meet by their place in the list.
MergeKeyedItem_ByPlace(acc, i, item) ==
  IF i \in DOMAIN acc.val THEN [acc EXCEPT !.val[i] = MergeKeyedAt(@, item)] ELSE [acc EXCEPT !.val = Append(@, item)]

\* An item goes into the first one of its key, or to the end.
MergeKeyedItem(acc, i, item) ==
  LET same == {j \in DOMAIN acc.val : KeyValueOf(acc.val[j]) = KeyValueOf(item)}
      place == CHOOSE j \in same : \A l \in same : j <= l
  IN IF same = {} THEN [acc EXCEPT !.val = Append(@, item)]
     ELSE [acc EXCEPT !.val[place] = MergeKeyedAt(@, item)]

MergeKeyedLists(b, o) ==
  LET all == b \o o
      bad == {i \in DOMAIN all : EnsureMapWithKey(all[i]) # "ok"}
      worst == CHOOSE i \in bad : \A j \in bad : i <= j
      step(acc, i) == MergeKeyedItem(acc, i, o[i])
  IN IF bad # {} THEN Failed(EnsureMapWithKey(all[worst]))
     ELSE FoldLeft(step, Arr(b), [i \in DOMAIN o |-> i])

MergeKeyedAt(base, over) ==
  CASE over.ty = "null" -> base
    [] IsObj(base) /\ IsObj(over) ->
         LET m == MergeMaps(base.val, over.val, [k \in Common(base, over) |-> MergeKeyedAt(base.val[k], over.val[k])])
             bad == {k \in DOMAIN m : IsError(m[k])}
         IN IF bad # {} THEN m[CHOOSE k \in bad : TRUE] ELSE Obj(m)
    [] base.ty = "array" /\ over.ty = "array" -> MergeKeyedLists(base.val, over.val)
    [] OTHER -> over

-----------------------------------------------------------------------------
(* JsonInventory::get *)

RECURSIVE InventoryGet(_, _)
InventoryGet(x, path) ==
  IF path = << >> THEN x
  ELSE CASE ~IsObj(x) -> Failed("TypeMismatch")
         [] IsObj(x) /\ Head(path) \notin DOMAIN x.val -> Failed("KeyNotFound")
         [] OTHER -> InventoryGet(x.val[Head(path)], Tail(path))

-----------------------------------------------------------------------------
(* The fold *)

Leaf == {JsonScalarToValue(YamlToJson(y)) : y \in YamlScalars}
Lists == {Arr(<< >>), Arr(<<Num(1)>>), Arr(<<Num(2), Num(1)>>)}
Inner == {Obj(f) : f \in [{"p"} -> Leaf] \cup [{"p", "q"} -> {Num(1), Num(2)}]}
Docs == {Obj(f) : f \in [{"a"} -> Leaf \cup Lists \cup Inner] \cup [{"b"} -> Leaf \cup Inner]}
        \cup {Obj([a |-> x, b |-> y]) : x \in Leaf \cup Inner, y \in {Num(1), Null}}
Items == {Obj(f) : f \in [{"n"} -> {Num(1), Num(2)}] \cup [{"n", "x"} -> {Num(1), Num(2), Null}]}
         \cup {Num(1), Obj([x |-> Num(1)])}
KeyedDocs == {Obj([l |-> Arr(s)]) : s \in {<< >>} \cup {<<i>> : i \in Items} \cup {<<i, Obj([n |-> Num(1)])>> : i \in Items}}
DocsOf(mode) == IF mode = "keyed" THEN KeyedDocs ELSE Docs

InvInit ==
  /\ mergeMode \in MergeStrategy \cup {"keyed"}
  /\ merged \in DocsOf(mergeMode) /\ overlay \in DocsOf(mergeMode) /\ before = merged
  /\ mergeError = "none" /\ mergePc = "first"

\* One step of reduce, or of try_fold; then there may be another document.
MergeNext ==
  /\ mergePc \in {"first", "second"} /\ mergeError = "none"
  /\ LET r == IF mergeMode = "keyed" THEN MergeKeyedAt(merged, overlay)
              ELSE MergeInventory(merged, overlay, ResolveMergeStrategy(mergeMode, ""))
     IN IF IsError(r) THEN mergeError' = r.ty /\ UNCHANGED merged ELSE merged' = r /\ UNCHANGED mergeError
  /\ before' = merged /\ mergePc' = "merged"
  /\ UNCHANGED <<mergeMode, overlay>>

Third == {Obj([a |-> Obj([p |-> Num(2)])]), Obj([a |-> Null]), Obj([l |-> Arr(<<Obj([n |-> Num(1), x |-> Num(2)])>>)])}
NextDocument ==
  /\ mergePc = "merged" /\ mergeError = "none" /\ before # merged
  /\ overlay' \in Third /\ mergePc' = "second"
  /\ UNCHANGED <<mergeMode, merged, before, mergeError>>

InvNext == MergeNext \/ NextDocument
InvSpec == InvInit /\ [][InvNext]_invVars

-----------------------------------------------------------------------------
(* Properties *)

RECURSIVE LeavesUnder(_, _)
\* The values of a document by path; an empty map is a value.
LeavesUnder(x, path) ==
  IF IsObj(x) /\ DOMAIN x.val # {}
  THEN UNION {LeavesUnder(x.val[k], Append(path, k)) : k \in DOMAIN x.val}
  ELSE {<<path, x>>}
Leaves(x) == LeavesUnder(x, << >>)
\* One path leads through the other.
Meet(p, q) == IsPrefix(p, q) \/ IsPrefix(q, p)
At(x, p) == InventoryGet(x, p)

\* A deep merge is an overlay of values by path: what the overlay says is so,
\* what it does not mention stays, what it says is null is gone, if there was
\* a map to take it from, and nothing is made up. Lists that are appended have
\* every item of both, the new ones once.
OverlayByPath ==
  mergePc = "merged" /\ mergeMode \in {"deep_map_replace_list", "deep_map_append_list"} =>
    /\ \A l \in Leaves(overlay) :
         CASE l[2].ty = "null" -> (l[1] # << >> /\ IsObj(At(before, Front(l[1])))) => At(merged, l[1]).ty = "KeyNotFound"
           [] l[2].ty = "array" /\ mergeMode = "deep_map_append_list" ->
                LET got == At(merged, l[1])
                IN /\ got.ty = "array" /\ Range(l[2].val) \subseteq Range(got.val)
                   /\ At(before, l[1]).ty = "array" => Len(got.val) <= Len(At(before, l[1]).val) + Cardinality(Range(l[2].val) \ Range(At(before, l[1]).val))
           [] l[2].ty = "object" -> IsObj(At(merged, l[1]))
           [] OTHER -> At(merged, l[1]) = l[2]
    /\ \A l \in Leaves(before) : (\A m \in Leaves(overlay) : ~Meet(l[1], m[1])) => l \in Leaves(merged)
    /\ \A l \in Leaves(merged) : \E m \in Leaves(before) \cup Leaves(overlay) : Meet(l[1], m[1])

\* A keyed merge keeps the items of the base in their order, each with its key,
\* and puts new keys behind them; every item of the overlay has its way on the
\* item of its key. It is refused exactly when an item has no key. (Keys that
\* are null are left aside: null deletes, so they lose each other.)
KeyedByKey ==
  mergePc = "merged" /\ mergeMode = "keyed" /\ Has(before, "l") /\ Has(overlay, "l") =>
    LET b == before.val["l"].val
        o == overlay.val["l"].val
        m == merged.val["l"].val
    IN IF mergeError # "none" THEN \E i \in DOMAIN (b \o o) : EnsureMapWithKey((b \o o)[i]) = mergeError
       ELSE (\A x \in Range(b \o o) : KeyValueOf(x) # <<Null>>) =>
            /\ \A i \in DOMAIN (b \o o) : EnsureMapWithKey((b \o o)[i]) = "ok"
            /\ \A i \in DOMAIN b : KeyValueOf(m[i]) = KeyValueOf(b[i])
            /\ \A i \in DOMAIN o : \E j \in DOMAIN m : KeyValueOf(m[j]) = KeyValueOf(o[i])
            /\ \A i \in DOMAIN m : i > Len(b) => \A j \in 1..(i - 1) : KeyValueOf(m[j]) # KeyValueOf(m[i])
            /\ Len(o) > 0 /\ Has(o[Len(o)], "x") /\ o[Len(o)].val["x"].ty # "null"
                 => \E j \in DOMAIN m : KeyValueOf(m[j]) = KeyValueOf(o[Len(o)]) /\ Has(m[j], "x") /\ m[j].val["x"] = o[Len(o)].val["x"]

\* Both: a merge is an overlay, of maps by path and of keyed lists by key.
MergeOverlays == OverlayByPath /\ KeyedByKey
=============================================================================
