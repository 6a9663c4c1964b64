---------------------------- MODULE HtmlTemplates ----------------------------
(***************************************************************************)
(* The HTML template store (src/tpl/htmlstore.go) and its hot reload,     *)
(* PrepareHTMLTemplateStore (src/framework/core_svc_htmltmpl.go): build a *)
(* new store from templates/html and publish it with one pointer          *)
(* assignment, while the running application reads the published one.    *)
(*                                                                         *)
(* A template tree is a record [root, files, bad]: whether the root is an *)
(* accessible directory, the paths of its files (as in RawStmts, a path  *)
(* is a sequence of names and a name a sequence of dot-separated atoms,   *)
(* so a name with a leading dot has the empty first atom), and the files  *)
(* that cannot be read, are not UTF-8 or do not parse.  A parsed template *)
(* is the path it was read from.  Directories are implied by the paths.  *)
(***************************************************************************)
EXTENDS RawStmts

CONSTANTS
  TplFSs,     \* the template trees that can be on disk when a reload runs
  None

VARIABLES
  tplStore,   \* c.HTMLTemplateStore's FileTemplates, or None (nil pointer)
  tplNew      \* the store PrepareHTMLTemplateStore has built, not yet published

tplVars == <<tplStore, tplNew>>

-----------------------------------------------------------------------------
\* strings.HasPrefix(name, ".")
Hidden(name) == name[1] = ""

\* The template key: the path relative to the root without ".ghtml", its
\* names still separated by "/".
TplKey(p) == Front(p) \o <<Front(Last(p))>>

-----------------------------------------------------------------------------
\* The WalkDir callback on a file, given the walk so far: once a callback
\* has returned an error the walk is over; a file below a hidden directory
\* is never visited (fs.SkipDir); a hidden file, or one without the
\* ".ghtml" suffix, is skipped; a file that fails to read, is not valid
\* UTF-8 or does not parse, or whose key is already set, ends the walk with
\* an error; otherwise its template is set under its key.
TplVisit(t, acc, p) ==
  CASE acc.err -> acc
    [] \E i \in 1..Len(p) - 1 : Hidden(p[i]) -> acc
    [] Hidden(Last(p)) \/ Ext(p) # "ghtml" -> acc
    [] p \in t.bad \/ TplKey(p) \in DOMAIN acc.tpls -> [acc EXCEPT !.err = TRUE]
    [] OTHER -> [acc EXCEPT !.tpls = (TplKey(p) :> p) @@ @]

-----------------------------------------------------------------------------
\* LoadFileTemplates into a NewHTMLTemplateStore: os.Stat of the root
\* fails or finds no directory, or the walk in WalkDir order.
LoadFileTemplates(t) ==
  IF ~t.root THEN [err |-> TRUE, tpls |-> <<>>]
  ELSE FoldLeft(LAMBDA acc, p : TplVisit(t, acc, p),
                [err |-> FALSE, tpls |-> <<>>], WalkDir(t.files))

\* The load of every tree, evaluated once.
Loaded == [t \in TplFSs |-> LoadFileTemplates(t)]

-----------------------------------------------------------------------------
(* Plausible faults                                                        *)

\* PrepareHTMLTemplateStore assigning c.HTMLTemplateStore = store before
\* LoadFileTemplates fills it.
LoadPublishesFirst ==
  /\ tplNew = None
  /\ \E t \in TplFSs :
       /\ tplStore' = <<>>
       /\ tplNew' = IF Loaded[t].err THEN None ELSE Loaded[t].tpls

-----------------------------------------------------------------------------
\* PrepareHTMLTemplateStore up to the publication: build the store from
\* the tree on disk; an error is returned and nothing is published.
LoadTemplates ==
  /\ tplNew = None
  /\ \E t \in TplFSs :
       IF Loaded[t].err THEN UNCHANGED tplVars
       ELSE tplNew' = Loaded[t].tpls /\ UNCHANGED tplStore

\* c.HTMLTemplateStore = store, the last step.
PublishTemplates ==
  /\ tplNew # None
  /\ tplStore' = tplNew /\ tplNew' = None

TplInit == tplStore = None /\ tplNew = None

TplNext == LoadTemplates \/ PublishTemplates

-----------------------------------------------------------------------------
(* Properties                                                              *)

\* The templates of a tree a reader may be shown: one per file below no
\* hidden directory, not hidden, with the ".ghtml" suffix, under its path
\* without the suffix; none when one of those files is bad.
VisibleTemplates(t) ==
  LET vis == { p \in t.files : Ext(p) = "ghtml" /\ \A i \in 1..Len(p) : ~Hidden(p[i]) }
  IN IF t.root /\ vis \cap t.bad = {} THEN [k \in { TplKey(p) : p \in vis } |-> CHOOSE p \in vis : TplKey(p) = k]
     ELSE None

\* The stores a reload that succeeds may publish: the visible templates
\* of a tree none of whose visible files is bad.
CompleteStores == { VisibleTemplates(t) : t \in TplFSs } \ {None}

Abstract == INSTANCE TemplateStore WITH store <- tplStore, Complete <- CompleteStores

\* "Publish only after fully built": the store request handlers and
\* htmltpl-get-all read only ever changes, in one step, to exactly the
\* visible templates of a tree, however reloads (failed ones included)
\* interleave with readers.  The two-step reload implements the atomic
\* replacement of TemplateStore.
ImplementsTemplateStore == Abstract!TSSpec

=============================================================================
