----------------------------- MODULE Collection -----------------------------
(***************************************************************************)
(* One orm/coll Collection (src/orm/coll/collection.go): an identity-keyed *)
(* map itemsMap plus an optional order slice.  A Go nil slice (unordered) *)
(* is the model value NoOrder; a non-nil slice, possibly empty, is a      *)
(* sequence of IDs.  The caller performs any sequence of calls on one     *)
(* collection value; a constructor or Filter replaces it by a new value   *)
(* (c = coll.NewXxx(...), c = c.Filter(pred)).                            *)
(***************************************************************************)
EXTENDS Integers, Sequences, FiniteSets, SequencesExt, Functions

CONSTANTS
  Ids,              \* identifiers returned by GetID()
  Vals,             \* the rest of an entity, a small set of naturals
  NoOrder,          \* the nil order slice
  MaxBatch,         \* longest batch passed to NewOrderedCollection & co.
  DistinctBatches   \* TRUE: batches carry each ID at most once

ASSUME NoOrder \notin Seq(Ids)
ASSUME Vals \subseteq Nat /\ MaxBatch \in Nat /\ DistinctBatches \in BOOLEAN

VARIABLES
  itemsMap,   \* map[ID]MP: a function from the held IDs to entities
  order,      \* []ID or NoOrder
  lastOp      \* history: the call that produced the current state

vars == <<itemsMap, order, lastOp>>

\* An entity pointer MP; GetID() is its id field.
Entity == [id : Ids, val : Vals]

\* Batches a caller hands to the constructors (query results).
Batches ==
  { b \in BoundedSeq(Entity, MaxBatch) :
      DistinctBatches => IsInjective([i \in DOMAIN b |-> b[i].id]) }

\* Comparators for Sort: less(a, b) == Rank[a] < Rank[b]; ties are possible.
Ranks == { [e \in Entity |-> e.val], [e \in Entity |-> 10 - e.val] }

\* Filter predicates: keep the entities whose val is in the set.
Preds == SUBSET Vals

\* Every order in which Go may range over a map with these keys.
MapWalks(keys) == SetToSeqs(keys)

IsOrdered == order # NoOrder

-----------------------------------------------------------------------------
(* Plausible faults, each the mutant of the definition that follows it     *)
(* below; PROJECT.json names which property must catch it.                 *)

\* Inserting before equal keys too: ties come out reversed.
RECURSIVE InsertBeforeEqual(_, _, _)
InsertBeforeEqual(x, s, key) ==
  IF s = <<>> THEN <<x>>
  ELSE IF key[x] <= key[Head(s)] THEN <<x>> \o s
  ELSE <<Head(s)>> \o InsertBeforeEqual(x, Tail(s), key)

\* Add that drops the `!exists` test and appends a re-added ID again.
AddAlwaysAppends(item) ==
  /\ itemsMap' = (item.id :> item) @@ itemsMap
  /\ order' = IF IsOrdered THEN Append(order, item.id) ELSE order
  /\ lastOp' = [name |-> "Add", arg |-> item]

\* Add that moves an overwritten ID to the end of the order.
AddMovesToEnd(item) ==
  /\ itemsMap' = (item.id :> item) @@ itemsMap
  /\ order' = IF IsOrdered THEN Append(Remove(order, item.id), item.id) ELSE order
  /\ lastOp' = [name |-> "Add", arg |-> item]

\* Filter whose ordered branch appends every ID, kept or not.
FilterKeepsAllIds(keep) ==
  LET kept == { id \in DOMAIN itemsMap : itemsMap[id].val \in keep }
  IN /\ itemsMap' = Restrict(itemsMap, kept)
     /\ order' = IF IsOrdered /\ Len(order) > 0 THEN order ELSE NoOrder
     /\ lastOp' = [name |-> "Filter", arg |-> keep]

-----------------------------------------------------------------------------
(* Pure helpers                                                            *)

\* for _, item := range items { m[item.GetID()] = item }: the last one wins.
BatchMap(b) ==
  [ id \in { b[i].id : i \in DOMAIN b } |->
      b[CHOOSE i \in DOMAIN b : b[i].id = id /\ \A j \in DOMAIN b : b[j].id = id => j <= i] ]

\* sort.SliceStable: insert each element before the first one it is less than.
RECURSIVE InsertStable(_, _, _)
InsertStable(x, s, key) ==
  IF s = <<>> THEN <<x>>
  ELSE IF key[x] < key[Head(s)] THEN <<x>> \o s
  ELSE <<Head(s)>> \o InsertStable(x, Tail(s), key)

RECURSIVE SliceStable(_, _)
SliceStable(s, key) ==
  IF s = <<>> THEN <<>> ELSE InsertStable(Last(s), SliceStable(Front(s), key), key)

-----------------------------------------------------------------------------
(* Constructors                                                            *)

NewEmptyOrderedCollection ==
  /\ itemsMap' = [id \in {} |-> {}]
  /\ order' = <<>>
  /\ lastOp' = [name |-> "New", arg |-> "EmptyOrdered"]

NewEmptyUnorderedCollection ==
  /\ itemsMap' = [id \in {} |-> {}]
  /\ order' = NoOrder
  /\ lastOp' = [name |-> "New", arg |-> "EmptyUnordered"]

NewUnorderedCollection(items) ==
  /\ itemsMap' = BatchMap(items)
  /\ order' = NoOrder
  /\ lastOp' = [name |-> "New", arg |-> "Unordered"]

\* order is sized len(items) and takes every item's ID, repeated ones too.
NewOrderedCollection(items) ==
  /\ itemsMap' = BatchMap(items)
  /\ order' = [i \in DOMAIN items |-> items[i].id]
  /\ lastOp' = [name |-> "New", arg |-> "Ordered"]

-----------------------------------------------------------------------------
(* Methods that change the collection                                      *)

RemoveOrder ==
  /\ order' = NoOrder
  /\ UNCHANGED itemsMap
  /\ lastOp' = [name |-> "RemoveOrder", arg |-> "none"]

\* A nil order is first filled by ranging over the map, then stably sorted.
Sort(rank) ==
  LET key == [id \in DOMAIN itemsMap |-> rank[itemsMap[id]]]
  IN /\ \E start \in IF IsOrdered THEN {order} ELSE MapWalks(DOMAIN itemsMap) :
          order' = SliceStable(start, key)
     /\ UNCHANGED itemsMap
     /\ lastOp' = [name |-> "Sort", arg |-> rank]

\* Overwrites; appends the ID only when the collection is ordered and it is new.
Add(item) ==
  LET exists == item.id \in DOMAIN itemsMap
  IN /\ itemsMap' = (item.id :> item) @@ itemsMap
     /\ order' = IF IsOrdered /\ ~exists THEN Append(order, item.id) ELSE order
     /\ lastOp' = [name |-> "Add", arg |-> item]

\* First write wins: an existing ID returns early.
AddIfNew(item) ==
  /\ \/ /\ item.id \in DOMAIN itemsMap
        /\ UNCHANGED <<itemsMap, order>>
     \/ /\ item.id \notin DOMAIN itemsMap
        /\ itemsMap' = (item.id :> item) @@ itemsMap
        /\ order' = IF IsOrdered THEN Append(order, item.id) ELSE order
  /\ lastOp' = [name |-> "AddIfNew", arg |-> item]

\* c = c.Filter(fn).  The ordered branch is taken only when len(c.order) > 0.
Filter(keep) ==
  LET kept == { id \in DOMAIN itemsMap : itemsMap[id].val \in keep }
  IN /\ itemsMap' = Restrict(itemsMap, kept)
     /\ order' = IF IsOrdered /\ Len(order) > 0
                   THEN SelectSeq(order, LAMBDA id : itemsMap[id].val \in keep)
                   ELSE NoOrder
     /\ lastOp' = [name |-> "Filter", arg |-> keep]

-----------------------------------------------------------------------------
(* Reads (no state change)                                                 *)

\* Len() is the size of the map, not of the order.
CollLen == Cardinality(DOMAIN itemsMap)

\* IDs(): the order copied when ordered, else one map walk.
IDs(walk) == IF IsOrdered THEN order ELSE walk

\* The IDs an ordered walk reaches: `if mp, ok := c.itemsMap[id]; ok`.
OrderedWalk == SelectSeq(order, LAMBDA id : id \in DOMAIN itemsMap)

\* ForEach: the entities visited, in order; over the map in walk order if unordered.
ForEachVisits(walk) ==
  LET ids == IF IsOrdered THEN OrderedWalk ELSE walk
  IN [i \in DOMAIN ids |-> itemsMap[ids[i]]]

\* ForEachOrderly returns "collection is unordered" when len(c.order) == 0.
ForEachOrderlyFails == ~IsOrdered \/ order = <<>>

-----------------------------------------------------------------------------
\* Any value a constructor returns.
Init ==
  /\ \/ itemsMap = [id \in {} |-> {}] /\ order \in {<<>>, NoOrder}
     \/ \E b \in Batches : /\ itemsMap = BatchMap(b)
                           /\ order \in {NoOrder, [i \in DOMAIN b |-> b[i].id]}
  /\ lastOp = [name |-> "New", arg |-> "none"]

Next ==
  \/ NewEmptyOrderedCollection
  \/ NewEmptyUnorderedCollection
  \/ \E b \in Batches : NewUnorderedCollection(b) \/ NewOrderedCollection(b)
  \/ RemoveOrder
  \/ \E r \in Ranks : Sort(r)
  \/ \E e \in Entity : Add(e) \/ AddIfNew(e)
  \/ \E p \in Preds : Filter(p)

Spec == Init /\ [][Next]_vars

-----------------------------------------------------------------------------
(* Properties                                                              *)

\* Well-formedness: every entity sits under its own GetID(), and the order
\* names only IDs the map holds (Items() and Filter read c.itemsMap[id]
\* without the ok test and would hand a nil entity to the caller).
TypeOK ==
  /\ DOMAIN itemsMap \subseteq Ids
  /\ \A id \in DOMAIN itemsMap : itemsMap[id] \in Entity /\ itemsMap[id].id = id
  /\ order \in Seq(DOMAIN itemsMap) \cup {NoOrder}
  /\ lastOp.name \in {"New", "RemoveOrder", "Sort", "Add", "AddIfNew", "Filter"}

\* a occurs before b in s.
Before(s, a, b) == \E i, j \in DOMAIN s : i < j /\ s[i] = a /\ s[j] = b

\* The Collection invariant of the package comment: an ordered collection's
\* order lists every ID of itemsMap exactly once (Add, AddIfNew,
\* NewOrderedCollection, Filter and Sort must all keep it so).
OrderMatchesKeys ==
  IsOrdered => /\ IsInjective(order)
               /\ ToSet(order) = DOMAIN itemsMap

\* Add of an existing ID, AddIfNew, Filter and RemoveOrder never change the
\* relative position of two IDs that stay in an ordered collection; only
\* Sort (or building a new collection) may.
RelativeOrderKept ==
  [][ (lastOp'.name \notin {"New", "Sort"} /\ IsOrdered /\ order' # NoOrder) =>
        \A a, b \in DOMAIN itemsMap \cap DOMAIN itemsMap' :
          Before(order, a, b) => Before(order', a, b) ]_vars

\* Sort leaves the order a permutation of the held IDs sorted by less, and
\* (sort.SliceStable) two IDs that tie keep the order they had before.
SortIsStable ==
  [][ lastOp'.name = "Sort" =>
        LET key == [id \in DOMAIN itemsMap' |-> lastOp'.arg[itemsMap'[id]]]
        IN /\ IsInjective(order') /\ ToSet(order') = DOMAIN itemsMap
           /\ \A i \in 1..Len(order') - 1 : ~(key[order'[i + 1]] < key[order'[i]])
           /\ IsOrdered =>
                \A i, j \in DOMAIN order' :
                  (i < j /\ key[order'[i]] = key[order'[j]]) => Before(order, order'[i], order'[j])
  ]_vars

\* An ordered collection is never treated as unordered: every call except
\* RemoveOrder keeps it ordered (the spec: Filter "preserves the source's
\* ordered/unordered mode"), and ForEachOrderly reports "collection is
\* unordered" only when no order was ever established (order is nil).
OrderedModeHonoured ==
  /\ [][ (IsOrdered /\ lastOp'.name \notin {"New", "RemoveOrder"}) => order' # NoOrder ]_vars
  /\ [](ForEachOrderlyFails => ~IsOrdered)

=============================================================================
