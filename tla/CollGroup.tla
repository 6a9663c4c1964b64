------------------------------ MODULE CollGroup ------------------------------
(***************************************************************************)
(* The collection group of src/orm/collgrp: a map from a grouping key to  *)
(* a sub-collection, plus an optional key order (nil = NoOrder).          *)
(*                                                                         *)
(* The source collection is the Collection state (itemsMap, order); it    *)
(* evolves under every Collection call until it is grouped.  GroupBy      *)
(* copies entity references into new sub-collections and never reads the *)
(* source again, so later source calls cannot change the group and are   *)
(* not interleaved.  After GroupBy the caller may Sort the group's keys   *)
(* or SetCollection a key to a new empty collection, in any order.        *)
(* A sub-collection is a record [items, order], as in CollIter.           *)
(***************************************************************************)
EXTENDS CollIter

CONSTANTS GKeys      \* the values a key function returns

VARIABLES
  gColls,   \* collectionsMap: key -> [items, order]
  gOrder,   \* the key order, or NoOrder while it is nil
  gOps      \* history: the group calls made so far (GroupBy, Sort, Set)

gvars == <<gColls, gOrder, gOps>>
allvars == <<itemsMap, order, lastOp, gColls, gOrder, gOps>>

\* keyFn callbacks MP -> K, and comparators of keys as ranks.
KeyFns == [Vals -> GKeys]
KeyRanks == [GKeys -> {0, 1}]

\* The empty collections a caller can pass to SetCollection.
EmptyColls == { [items |-> [id \in {} |-> Nil], order |-> o] : o \in {<<>>, NoOrder} }

-----------------------------------------------------------------------------
(* Plausible faults                                                        *)

\* GroupBy that ranges over the source map even when the source is ordered.
GroupByMapWalk(keyFn, walk) ==
  LET visits == [i \in DOMAIN walk |-> itemsMap[walk[i]]]
      empty == [items |-> [id \in {} |-> Nil], order |-> IF IsOrdered THEN <<>> ELSE NoOrder]
  IN [k \in { keyFn[visits[i].val] : i \in DOMAIN visits } |->
        AddAllIfNew(SelectSeq(visits, LAMBDA e : keyFn[e.val] = k), empty)]

-----------------------------------------------------------------------------
\* GroupBy(srcColl, keyFn): one ForEach pass over the source; each entity is
\* AddIfNew'd into the sub-collection of its key, created on first use with
\* the source's mode (NewEmptyOrderedCollection or ...Unordered).
GroupBy(keyFn, walk) ==
  LET visits == ForEachVisits(walk)
      empty == [items |-> [id \in {} |-> Nil], order |-> IF IsOrdered THEN <<>> ELSE NoOrder]
  IN [k \in { keyFn[visits[i].val] : i \in DOMAIN visits } |->
        AddAllIfNew(SelectSeq(visits, LAMBDA e : keyFn[e.val] = k), empty)]

\* g := collgrp.GroupBy(src, keyFn): the result is an unordered group.
DoGroupBy(keyFn) ==
  /\ gOps = {}
  /\ \E w \in MapWalks(DOMAIN itemsMap) : gColls' = GroupBy(keyFn, w)
  /\ gOrder' = NoOrder
  /\ gOps' = {"GroupBy"}
  /\ UNCHANGED <<itemsMap, order, lastOp>>

\* Sort(less): a nil order is first filled from a map walk of the keys,
\* then sort.SliceStable; an existing order is re-sorted as it is.
GroupSort(rank) ==
  /\ gOps # {}
  /\ \E start \in IF gOrder = NoOrder THEN MapWalks(DOMAIN gColls) ELSE {gOrder} :
       gOrder' = SliceStable(start, rank)
  /\ gOps' = gOps \cup {"Sort"}
  /\ UNCHANGED <<gColls, itemsMap, order, lastOp>>

\* SetCollection(key, c): collectionsMap[key] = c; the order is not touched.
SetCollection(key, c) ==
  /\ gOps # {}
  /\ gColls' = (key :> c) @@ gColls
  /\ gOps' = gOps \cup {"Set"}
  /\ UNCHANGED <<gOrder, itemsMap, order, lastOp>>

\* Collections(): the sub-collections in key order when the order is
\* non-nil (a key without one yields a nil entry), else in a map walk.
Collections(walk) ==
  LET ks == IF gOrder # NoOrder THEN gOrder ELSE walk
  IN [i \in DOMAIN ks |-> IF ks[i] \in DOMAIN gColls THEN gColls[ks[i]] ELSE Nil]

\* Keys(): a copy of the order when it is non-nil, else a map walk.
GroupKeys(walk) == IF gOrder # NoOrder THEN gOrder ELSE walk

GroupInit == Init /\ gColls = [k \in {} |-> Nil] /\ gOrder = NoOrder /\ gOps = {}

\* The source is built by Collection calls, then grouped, then the group used.
GroupNext ==
  \/ gOps = {} /\ Next /\ UNCHANGED gvars
  \/ \E f \in KeyFns : DoGroupBy(f)
  \/ \E r \in KeyRanks : GroupSort(r)
  \/ \E k \in GKeys, c \in EmptyColls : SetCollection(k, c)

GroupSpec == GroupInit /\ [][GroupNext]_allvars

-----------------------------------------------------------------------------
(* Properties                                                              *)

\* Group-by partitions the source (spec.md sections 4.3 and 8): until a
\* sub-collection is replaced, Collections() lists every sub-collection
\* once, and flattening it (in key order, then item order) gives every
\* source entity exactly once; each sub-collection is non-empty, holds the
\* source's entities, has the source's mode, and when ordered lists its
\* members in source order.  This holds before and after a group Sort.
ItemIds(c) == IF c.order # NoOrder THEN c.order ELSE SetToSeq(DOMAIN c.items)

GroupByPartitions ==
  ("GroupBy" \in gOps /\ "Set" \notin gOps) =>
    /\ \A w \in MapWalks(DOMAIN gColls) :
         LET cs == Collections(w)
             flat == FlattenSeq([i \in DOMAIN cs |-> ItemIds(cs[i])])
         IN /\ Len(cs) = Cardinality(DOMAIN gColls)
            /\ IsInjective(flat) /\ ToSet(flat) = DOMAIN itemsMap
    /\ \A k \in DOMAIN gColls :
         LET sub == gColls[k]
         IN /\ DOMAIN sub.items # {}
            /\ \A id \in DOMAIN sub.items : sub.items[id] = itemsMap[id]
            /\ (sub.order # NoOrder) = IsOrdered
            /\ IsOrdered => sub.order = SelectSeq(OrderedWalk, LAMBDA id : id \in DOMAIN sub.items)

\* Group Sort is a stable sort of the keys: afterwards the order is sorted by
\* the comparator and keys that tie keep their previous relative order.
GroupSortIsStable ==
  [][ \A r \in KeyRanks :
        GroupSort(r) =>
          \A i, j \in DOMAIN gOrder' : i < j =>
            /\ r[gOrder'[i]] <= r[gOrder'[j]]
            /\ (gOrder # NoOrder /\ r[gOrder'[i]] = r[gOrder'[j]]) =>
                 \E p, q \in DOMAIN gOrder : p < q /\ gOrder[p] = gOrder'[i] /\ gOrder[q] = gOrder'[j]
    ]_allvars

\* "The key set of the internal mapping equals the key set of the order
\* sequence whenever an order sequence exists" (spec.md section 4.3): so
\* Keys() lists every key of the group once, whatever the map walk.
GroupOrderMatchesKeys ==
  \A w \in MapWalks(DOMAIN gColls) :
    IsInjective(GroupKeys(w)) /\ ToSet(GroupKeys(w)) = DOMAIN gColls

=============================================================================
