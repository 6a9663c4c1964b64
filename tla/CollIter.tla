------------------------------ MODULE CollIter ------------------------------
(***************************************************************************)
(* The functional combinators of src/orm/coll/iter.go, as operators over  *)
(* the Collection state (itemsMap, order).  `walk` is the order in which  *)
(* Go ranges over itemsMap in that call: any permutation of its keys.     *)
(* A yield or skip callback is a function from a small set; a Go nil       *)
(* pointer return is the model value Nil.  Results are compared with the  *)
(* reference definitions of spec.md section 4.2 over every collection the *)
(* Collection specification reaches.                                      *)
(***************************************************************************)
EXTENDS Collection

CONSTANTS Nil, Outs   \* Outs: the values a yield returns; Nil \notin Outs

ASSUME Nil \notin Outs

\* The ranging order of one call: the order if ordered, else the map walk.
LOCAL Walked(walk) == IF IsOrdered THEN OrderedWalk ELSE walk

\* Yield callbacks MP -> V, and conditional ones MP -> *V.
Yields == [Vals -> Outs]
CondYields == [Vals -> Outs \cup {Nil}]

-----------------------------------------------------------------------------
(* Plausible faults                                                        *)

\* De-duplication that lets the last occurrence win.
RECURSIVE UniqueLastWins(_)
UniqueLastWins(vs) ==
  IF vs = <<>> THEN <<>>
  ELSE IF Head(vs) \in ToSet(Tail(vs)) THEN UniqueLastWins(Tail(vs))
  ELSE <<Head(vs)>> \o UniqueLastWins(Tail(vs))

\* EnumerateToSlice that always ranges over the map, ignoring the order.
EnumerateToSliceByMap(yield, walk) ==
  [panics |-> Len(walk) > CollLen, out |-> [i \in DOMAIN walk |-> yield[itemsMap[walk[i]].val]]]

\* A rebuild whose ordered variant ranges over the map instead of src.order.
BuildFromMapWalk(ordered, newOf, skip, walk) ==
  LET news == SelectSeq([i \in DOMAIN walk |-> newOf[itemsMap[walk[i]]]], LAMBDA e : e \notin skip)
      RECURSIVE Put(_, _)
      Put(es, c) == IF es = <<>> THEN c
                    ELSE Put(Tail(es), [items |-> (Head(es).id :> Head(es)) @@ c.items,
                                        order |-> IF c.order = NoOrder THEN NoOrder ELSE Append(c.order, Head(es).id)])
  IN Put(news, [items |-> [id \in {} |-> Nil], order |-> IF ordered THEN <<>> ELSE NoOrder])

-----------------------------------------------------------------------------
(* First-occurrence de-duplication: the seen map of CollectUniqueToSlice. *)
RECURSIVE UniqueFirst(_, _)
UniqueFirst(vs, seen) ==
  IF vs = <<>> THEN <<>>
  ELSE IF Head(vs) \in seen THEN UniqueFirst(Tail(vs), seen)
  ELSE <<Head(vs)>> \o UniqueFirst(Tail(vs), seen \cup {Head(vs)})

Unique(vs) == UniqueFirst(vs, {})

\* EnumerateToSlice: sl := make([]V, c.Len()); sl[i] = yield(mp) for every
\* present ID of the order (else of the map walk).  An index i >= len(sl)
\* panics: the result records whether it did, and the values written.
EnumerateToSlice(yield, walk) ==
  LET ids == Walked(walk)
  IN [panics |-> Len(ids) > CollLen,
      out |-> [i \in DOMAIN ids |-> yield[itemsMap[ids[i]].val]]]

\* EnumerateToMap over ForEachUnorderly: a later pair overwrites.
RECURSIVE PairsToMap(_)
PairsToMap(ps) ==
  IF ps = <<>> THEN [k \in {} |-> Nil]
  ELSE (Last(ps)[1] :> Last(ps)[2]) @@ PairsToMap(Front(ps))

EnumerateToMap(keyOf, yield, walk) ==
  PairsToMap([i \in DOMAIN walk |-> << keyOf[itemsMap[walk[i]].val], yield[itemsMap[walk[i]].val] >>])

\* CollectToSlice over ForEach: a nil yield is skipped.
CollectToSlice(yield, walk) ==
  SelectSeq([i \in DOMAIN Walked(walk) |-> yield[itemsMap[Walked(walk)[i]].val]],
            LAMBDA v : v # Nil)

\* CollectToMap over ForEachUnorderly: skipped unless both key and value are non-nil.
CollectToMap(keyOf, yield, walk) ==
  PairsToMap(SelectSeq([i \in DOMAIN walk |-> << keyOf[itemsMap[walk[i]].val], yield[itemsMap[walk[i]].val] >>],
                       LAMBDA p : p[1] # Nil /\ p[2] # Nil))

\* CollectUniqueToSliceWithSkip (skip = {} is CollectUniqueToSlice): the
\* ordered branch is taken when len(c.order) > 0, else the map walk.
CollectUniqueToSliceWithSkip(yield, skip, walk) ==
  LET ids == IF IsOrdered /\ Len(order) > 0 THEN OrderedWalk ELSE walk
  IN Unique(SelectSeq([i \in DOMAIN ids |-> yield[itemsMap[ids[i]].val]],
                      LAMBDA v : v \notin skip))

\* BuildOrderedCollectionFrom / BuildUnorderedCollectionFrom: AddIfNew of
\* yield(sp) into a new collection, for every sp not skipped.  The ordered
\* variant ranges over src.order (nothing when it is nil); the unordered
\* one over the map.  yield maps an entity to a new entity; skip is a set.
\* The result is the new collection as [items, order].
RECURSIVE AddAllIfNew(_, _)
AddAllIfNew(es, c) ==
  IF es = <<>> THEN c
  ELSE AddAllIfNew(Tail(es),
         IF Head(es).id \in DOMAIN c.items THEN c
         ELSE [items |-> (Head(es).id :> Head(es)) @@ c.items,
               order |-> IF c.order = NoOrder THEN NoOrder ELSE Append(c.order, Head(es).id)])

BuildCollectionFrom(ordered, newOf, skip, walk) ==
  LET ids == IF ordered
               THEN IF IsOrdered THEN OrderedWalk ELSE <<>>
               ELSE walk
      news == SelectSeq([i \in DOMAIN ids |-> newOf[itemsMap[ids[i]]]],
                        LAMBDA e : e \notin skip)
  IN AddAllIfNew(news, [items |-> [id \in {} |-> Nil],
                        order |-> IF ordered THEN <<>> ELSE NoOrder])

-----------------------------------------------------------------------------
(* Properties, checked over every walk and callback of the small sets      *)

\* Project-to-sequence: one output per entity, in the order when ordered;
\* project-to-mapping: exactly the keys of the projection, each with the value
\* of some entity of that key (the later visit wins, so the walk decides).
ProjectionsComplete ==
  \A y \in Yields, w \in MapWalks(DOMAIN itemsMap) :
    LET s == EnumerateToSlice(y, w).out
    IN /\ Len(s) = CollLen
       /\ IsOrdered => s = [i \in DOMAIN order |-> y[itemsMap[order[i]].val]]
       /\ \A k \in Yields :
            LET m == EnumerateToMap(k, y, w)
            IN /\ DOMAIN m = { k[itemsMap[id].val] : id \in DOMAIN itemsMap }
               /\ \A key \in DOMAIN m :
                    \E id \in DOMAIN itemsMap : k[itemsMap[id].val] = key /\ m[key] = y[itemsMap[id].val]

\* Unique project-to-sequence (with skip): every non-skipped projected value
\* once, at its first occurrence in the collection's ForEach order.
UniqueProjectionFirstOccurrence ==
  \A y \in Yields, skip \in SUBSET Outs, w \in MapWalks(DOMAIN itemsMap) :
    LET u == CollectUniqueToSliceWithSkip(y, skip, w)
        vs == [i \in DOMAIN ForEachVisits(w) |-> y[ForEachVisits(w)[i].val]]
    IN /\ IsInjective(u)
       /\ ToSet(u) = ToSet(vs) \ skip
       /\ \A i, j \in DOMAIN u : i < j =>
            \E p \in DOMAIN vs : vs[p] = u[i] /\ \A q \in 1..p : vs[q] # u[j]

\* Rebuild-collection-from with the identity and no skip on an ordered
\* source gives the same IDs in the same order (spec.md section 8).
RebuildIdentityKeepsOrder ==
  IsOrdered =>
    \A w \in MapWalks(DOMAIN itemsMap) :
      LET r == BuildCollectionFrom(TRUE, [e \in Entity |-> e], {}, w)
      IN r.order = order /\ r.items = itemsMap

=============================================================================
