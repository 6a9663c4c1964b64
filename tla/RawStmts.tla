------------------------------ MODULE RawStmts ------------------------------
(***************************************************************************)
(* LoadRawStmtsToStore (src/db/sqldb/impls/mysql/rawstmtstore.go): walk  *)
(* the embedded SQL file system and fill the dialect's RawSQLStore        *)
(* (src/db/sqldb/rawstore.go), a file of the dialect's extension always   *)
(* setting its key, a *.sql file only when the key is not set yet.        *)
(*                                                                         *)
(* A file name is the sequence of its dot-separated atoms ("a.b.sql" is   *)
(* <<"a", "b", "sql">>) and a path the sequence of its names.  Joining    *)
(* atoms with "." is injective, so keys compare as atom sequences, and    *)
(* since "." sorts before every atom character, names compare in byte     *)
(* order as atom sequences.  A statement is the path it was read from.    *)
(***************************************************************************)
EXTENDS Integers, Sequences, SequencesExt

CONSTANTS
  AtomOrder,  \* the atoms of file names, in byte order
  DBType      \* the dialect's extension (mysql)

\* Strict lexicographic order of sequences: a proper prefix first, else
\* by the first position where they differ.
Lex(s, t, Less(_, _)) ==
  \/ Len(s) < Len(t) /\ SubSeq(t, 1, Len(s)) = s
  \/ \E i \in 1..Len(s) :
       i <= Len(t) /\ SubSeq(s, 1, i - 1) = SubSeq(t, 1, i - 1) /\ Less(s[i], t[i])

AtomLess(a, b) == \E i, j \in DOMAIN AtomOrder : i < j /\ AtomOrder[i] = a /\ AtomOrder[j] = b

NameLess(m, n) == Lex(m, n, AtomLess)

\* fs.WalkDir: the entries of each directory in name order, a directory's
\* files right after its entry, so paths in name order component by
\* component ("a/x.sql" before "a.b.sql", though '/' > '.').
WalkDir(fs) == SetToSortSeq(fs, LAMBDA p, q : Lex(p, q, NameLess))

\* filepath.Ext without its dot: the last atom of the last name, "" when
\* the name has no dot.
Ext(p) == IF Len(Last(p)) > 1 THEN Last(Last(p)) ELSE ""

\* The key: the path without its extension, "/" replaced by ".".
Key(p) == FlattenSeq(Front(p) \o <<Front(Last(p))>>)

-----------------------------------------------------------------------------
(* RawSQLStore (src/db/sqldb/rawstore.go): a map from keys to statements.  *)

NewRawStore == <<>>

Set(store, key, rawStmt) == (key :> rawStmt) @@ store

\* Get's exists result (the statement itself is not used by the loader).
Get(store, key) == key \in DOMAIN store

-----------------------------------------------------------------------------
(* Plausible faults                                                        *)

\* The *.sql fallback set without the Get check.
VisitSqlOverrides(store, p) ==
  IF Ext(p) \notin {DBType, "sql"} THEN store
  ELSE Set(store, Key(p), p)

-----------------------------------------------------------------------------
\* The WalkDir callback for one file: an extension other than the
\* dialect's or "sql" (or none) is skipped; the dialect's file Sets its
\* key; a *.sql file Sets it only if Get finds nothing.
Visit(store, p) ==
  CASE Ext(p) \notin {DBType, "sql"} -> store
    [] Ext(p) = DBType -> Set(store, Key(p), p)
    [] OTHER -> IF Get(store, Key(p)) THEN store ELSE Set(store, Key(p), p)

\* The store after the walk (file reads do not fail here).
LoadRawStmtsToStore(fs) == FoldLeft(Visit, NewRawStore, WalkDir(fs))

-----------------------------------------------------------------------------
(* Properties                                                              *)

\* The store of an embedded SQL file system has exactly the keys of its
\* statement files, each read from a file of that key, and a key with a
\* file of the dialect holds the dialect's statement, whether WalkDir
\* visits the *.sql file of that key before or after it.
DialectFirst(fs, st) ==
  LET stmtFiles == { p \in fs : Ext(p) \in {DBType, "sql"} }
  IN /\ DOMAIN st = { Key(p) : p \in stmtFiles }
     /\ \A k \in DOMAIN st :
          /\ st[k] \in stmtFiles /\ Key(st[k]) = k
          /\ (\E p \in stmtFiles : Key(p) = k /\ Ext(p) = DBType) => Ext(st[k]) = DBType

=============================================================================
