---------------------------- MODULE RelationLoad ----------------------------
(***************************************************************************)
(* The relation loader of src/db/sqldb/query_dbg.go over the Collection    *)
(* state: LoadBelongsTo with the collection as the children, LoadHasMany  *)
(* with it as the parents.  Each issues one query "... IN (<n             *)
(* placeholders>)" bound to a list of values; the query executor and the  *)
(* linkers (RawQueryCollection, coll.LinkBelongsTo, coll.LinkHasMany) are  *)
(* not part of the sources and are modelled from spec.md section 4.4.     *)
(* A foreign-key extractor is a function of an entity's val, like the     *)
(* other callbacks of CollIter.                                            *)
(***************************************************************************)
EXTENDS CollIter

CONSTANTS
  ParentRows,   \* IDs of the parent rows in the database (LoadBelongsTo)
  ChildRows     \* child rows [cid, pid] in the database (LoadHasMany)

\* Foreign-key extractors of a child: parent IDs drawn from Ids.
FKs == [Vals -> Ids]

-----------------------------------------------------------------------------
(* Plausible faults                                                        *)

\* IDsAsAny of an ordered collection that appends to a slice already made
\* with length len(c.order), so the IDs follow len(order) nil values.
IDsAsAnyAppendsAfterLen(walk) ==
  IF IsOrdered THEN [i \in 1..Len(order) |-> Nil] \o order ELSE walk

-----------------------------------------------------------------------------
\* IDsAsAny: the order when it is non-nil, else a walk of the map.
IDsAsAny(walk) == IF IsOrdered THEN order ELSE walk

\* RawQueryCollection: a statement with n placeholders bound to `args`
\* fails unless there are exactly n of them; otherwise it returns the rows
\* whose key is one of the values.
RawQuery(n, args, rows, key) ==
  [err |-> Len(args) # n, rows |-> { r \in rows : key[r] \in ToSet(args) }]

\* LinkBelongsTo: each child's parent slot is the parent of its foreign
\* key, left unset (Nil) when no such parent was fetched.
LinkBelongsTo(parents, fk) ==
  [id \in DOMAIN itemsMap |-> IF fk[itemsMap[id].val] \in parents THEN fk[itemsMap[id].val] ELSE Nil]

\* LinkHasMany: each parent's child collection holds the fetched children
\* of its ID, empty (not absent) when there are none.
LinkHasMany(children) == [id \in DOMAIN itemsMap |-> { c \in children : c.pid = id }]

\* LoadBelongsTo: CollectUniqueToSlice of the foreign keys (the WithSkip
\* variant with no skip rule), one placeholder each, one query, then the
\* link; an error returns no parents.
LoadBelongsTo(fk, walk) ==
  LET fks == CollectUniqueToSliceWithSkip(fk, {}, walk)
      q == RawQuery(Len(fks), fks, ParentRows, [p \in ParentRows |-> p])
  IN [err |-> q.err, args |-> fks,
      links |-> IF q.err THEN Nil ELSE LinkBelongsTo(q.rows, fk)]

\* LoadHasMany: Placeholders(parents.Len(), 2) bound to parents.IDsAsAny(),
\* one query, then the link; an error returns no children.
LoadHasMany(walk) ==
  LET q == RawQuery(CollLen, IDsAsAny(walk), ChildRows, [c \in ChildRows |-> c.pid])
  IN [err |-> q.err, links |-> IF q.err THEN Nil ELSE LinkHasMany(q.rows)]

-----------------------------------------------------------------------------
(* Properties                                                              *)

\* Both loaders succeed on every collection the calls can build, with one
\* query value per placeholder and each foreign key bound once: every child
\* is linked to the fetched parent of its key, every parent to exactly its
\* children in the database, empty when it has none (spec.md 4.4 and 8).
RelationsLinked ==
  \A w \in MapWalks(DOMAIN itemsMap), fk \in FKs :
    LET b == LoadBelongsTo(fk, w)
        h == LoadHasMany(w)
    IN /\ ~b.err /\ ~h.err
       /\ IsInjective(b.args)
       /\ \A id \in DOMAIN itemsMap :
            /\ fk[itemsMap[id].val] \in ParentRows => b.links[id] = fk[itemsMap[id].val]
            /\ h.links[id] = { c \in ChildRows : c.pid = id }

=============================================================================
