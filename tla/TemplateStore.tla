---------------------------- MODULE TemplateStore ----------------------------
(***************************************************************************)
(* What the HTML template store promises the request handlers and UDS     *)
(* commands that read c.HTMLTemplateStore: it is absent until the first   *)
(* load, and every change replaces it, in one step, by the complete       *)
(* result of loading a template tree.  A reload that fails changes        *)
(* nothing, and no reader ever sees a store being filled.                 *)
(***************************************************************************)
CONSTANTS
  Complete,   \* the stores a load that succeeds can produce
  None        \* no store yet (nil pointer)

VARIABLE store

TSInit == store = None

\* A reload that succeeds: the store becomes one complete load.
Replace == \E s \in Complete : store' = s

TSSpec == TSInit /\ [][Replace]_store

=============================================================================
