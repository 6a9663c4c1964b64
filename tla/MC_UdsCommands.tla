--------------------------- MODULE MC_UdsCommands ---------------------------
EXTENDS UdsCommands

\* The three key commands, htmltpl-get-all of another group, and a second
\* handler of jwks-build in another group (a registration conflict).
MC_Handlers ==
  { [cmd |-> "jwks-rotate", grp |-> "jwks"],
    [cmd |-> "jwks-delete-old-rsakeys", grp |-> "jwks"],
    [cmd |-> "jwks-build", grp |-> "jwks"],
    [cmd |-> "htmltpl-get-all", grp |-> "htmltpl"],
    [cmd |-> "jwks-build", grp |-> "admin"] }

\* The SQL files sqldb-print-raw-store can show: a key with both a dialect
\* and a standard file, a dialect file whose key collides with a *.sql
\* file in a directory, and files the loader skips.
MC_AtomOrder == <<"", "a", "b", "find", "ghtml", "git", "index", "mail", "mysql", "notes", "readme", "sql", "txt", "welcome">>

MC_FsPaths ==
  { <<<<"find", "mysql">>>>, <<<<"find", "sql">>>>,
    <<<<"a">>, <<"b", "sql">>>>, <<<<"a", "b", "mysql">>>>,
    <<<<"notes", "txt">>>>, <<<<"readme">>>> }

\* All of them, or only the standard files of the two keys.
MC_SqlFSs == { MC_FsPaths, MC_FsPaths \ {<<<<"find", "mysql">>>>, <<<<"a", "b", "mysql">>>>} }

\* Database configurations: one mysql database; two pgsql databases (so
\* the client loop has two orders, and a failing Init can follow a
\* stored client).
MC_SqlConfSets == { "d1" :> "mysql", ("d1" :> "pgsql") @@ ("d2" :> "pgsql") }

\* Template trees: templates at the root and in a directory, a template
\* below a hidden directory, a hidden template, a file of another kind.
MC_TplFiles ==
  { <<<<"index", "ghtml">>>>, <<<<"mail">>, <<"welcome", "ghtml">>>>,
    <<<<"", "git">>, <<"hook", "ghtml">>>>, <<<<"", "index", "ghtml">>>>,
    <<<<"readme", "txt">>>> }

\* On disk at a reload: that tree; the tree after index.ghtml is deleted;
\* the tree with a welcome.ghtml that does not parse; no template root.
MC_TplFSs ==
  { [root |-> TRUE, files |-> MC_TplFiles, bad |-> {}],
    [root |-> TRUE, files |-> MC_TplFiles \ {<<<<"index", "ghtml">>>>}, bad |-> {}],
    [root |-> TRUE, files |-> MC_TplFiles, bad |-> {<<<<"mail">>, <<"welcome", "ghtml">>>>}],
    [root |-> FALSE, files |-> {}, bad |-> {}] }

=============================================================================
