---------------------------- MODULE UdsCommands ----------------------------
(***************************************************************************)
(* The UDS command store (src/uds/cmdstore.go) and the RSA key commands   *)
(* it dispatches (src/uds/cmdhandlers/jwks_*.go).                          *)
(*                                                                         *)
(* At startup the application registers its handlers with                 *)
(* SetCommandHandler, in any order; a command registered in two groups is *)
(* log.Fatal.  Then commands arrive one at a time (the UDS server is not  *)
(* part of the sources) and GetHandler dispatches them.  jwks-rotate,     *)
(* jwks-delete-old-rsakeys and jwks-build act on the key files (a set of  *)
(* key IDs per directory), the current kid in the KV store and           *)
(* gen/jwks.json; each file, KV or key-generation call is one step and    *)
(* may fail, up to MaxFail failures.  A key file name contains its kid    *)
(* and no other kid.                                                      *)
(***************************************************************************)
EXTENDS Integers, Sequences, SequencesExt, FiniteSets, HtmlTemplates, SqlDatabases

CONSTANTS
  Handlers,   \* handler values, records [cmd, grp] (Command(), GroupName())
  Kids,       \* key IDs GenerateKeyID can return
  K0,         \* the key set up with the application
  MaxFail     \* failing calls in a behaviour

ASSUME K0 \in Kids /\ MaxFail \in Nat

VARIABLES
  handlerMap, groupMap, groupOrder,  \* the CommandStore fields
  phase,      \* setup (preparing, registering), serve, fatal (log.Fatal
              \* exited) or stopped (ResourceCleanUp)
  priv, pub,  \* kids with a *_private.pem / *_public.pem file
  kid,        \* <app>:kid in the KV store
  jwks,       \* kids in gen/jwks.json
  tmp,        \* kids in gen/jwks.json.tmp, or None
  made,       \* kids generated so far
  pc,         \* the running command's step, or idle
  nk,         \* jwks-rotate: the new keyId
  loaded,     \* the keys LoadPublicPEMKeysAsJWKS read
  dkid,       \* jwks-delete-old-rsakeys: the kid it read
  todo,       \* files of the directory listing not yet visited
  fails

regVars == <<handlerMap, groupMap, groupOrder>>
keyVars == <<priv, pub, kid, jwks, tmp, made>>
cmdVars == <<pc, nk, loaded, dkid, todo>>
sqlVars == sqlDbVars
vars == <<regVars, phase, keyVars, cmdVars, fails, sqlVars, tplVars>>

CanFail == fails < MaxFail

\* The first step of each command's HandleCommand.
FirstStep == [c \in {"jwks-rotate", "jwks-delete-old-rsakeys", "jwks-build", "htmltpl-get-all"} |->
                CASE c = "jwks-rotate" -> "gen"
                  [] c = "jwks-delete-old-rsakeys" -> "getkid"
                  [] c = "htmltpl-get-all" -> "tplget"
                  [] OTHER -> "load"]

\* A failed call returns its error: the command ends.
Abort == /\ fails' = fails + 1 /\ pc' = "idle"

-----------------------------------------------------------------------------
(* CommandStore                                                            *)

\* The group record after `cmd` is set to h, appending cmd to the group's
\* displayOrder when `isNew`; a missing group starts empty.
GroupAfter(g, h, isNew) ==
  LET old == IF g \in DOMAIN groupMap THEN groupMap[g] ELSE [cmds |-> <<>>, order |-> <<>>]
  IN [cmds |-> (h.cmd :> h) @@ old.cmds,
      order |-> IF isNew THEN Append(old.order, h.cmd) ELSE old.order]

-----------------------------------------------------------------------------
(* Plausible faults                                                        *)

\* Registration that appends the command to its group's displayOrder
\* again when it is re-registered.
SetHandlerAppendsAgain(h) ==
  /\ phase = "setup" /\ sqlPc = "ok"
  /\ LET hndExists == h.cmd \in DOMAIN handlerMap
         grpExists == h.grp \in DOMAIN groupMap
     IN IF hndExists /\ (h.grp # handlerMap[h.cmd].grp \/ ~grpExists)
          THEN phase' = "fatal" /\ UNCHANGED regVars
          ELSE /\ groupOrder' = IF grpExists THEN groupOrder ELSE Append(groupOrder, h.grp)
               /\ groupMap' = (h.grp :> GroupAfter(h.grp, h, TRUE)) @@ groupMap
               /\ handlerMap' = (h.cmd :> h) @@ handlerMap
               /\ UNCHANGED phase
  /\ UNCHANGED <<keyVars, cmdVars, fails, sqlVars, tplVars>>

\* jwks-delete-old-rsakeys removing every listed file, without the
\* !strings.Contains(name, kid) test.
RemoveIgnoresKid ==
  /\ pc \in {"rmpriv", "rmpub"}
  /\ \/ todo = {} /\ pc' = (IF pc = "rmpriv" THEN "lspub" ELSE "idle")
                  /\ UNCHANGED <<priv, pub, todo, fails>>
     \/ \E f \in todo, ok \in BOOLEAN :
          /\ ok \/ CanFail
          /\ todo' = todo \ {f}
          /\ LET gone == IF ok THEN {f} ELSE {}
             IN /\ priv' = IF pc = "rmpriv" THEN priv \ gone ELSE priv
                /\ pub' = IF pc = "rmpub" THEN pub \ gone ELSE pub
          /\ fails' = IF ok THEN fails ELSE fails + 1
          /\ UNCHANGED pc
  /\ UNCHANGED <<regVars, phase, kid, jwks, tmp, made, nk, loaded, dkid, sqlVars, tplVars>>

\* jwks-rotate returning after the kid update, without rebuilding jwks.json.
SetKidNoRebuild ==
  /\ pc = "setkid"
  /\ \/ kid' = nk /\ pc' = "idle" /\ UNCHANGED fails
     \/ CanFail /\ Abort /\ UNCHANGED kid
  /\ UNCHANGED <<regVars, phase, priv, pub, jwks, tmp, made, nk, loaded, dkid, todo, sqlVars, tplVars>>

-----------------------------------------------------------------------------
(* CommandStore operations                                                 *)

\* SetCommandHandler: a command already set in another group (or whose
\* group is missing) is log.Fatal; otherwise a new command is appended to
\* its group's displayOrder, a new group to groupDisplayOrder, and both
\* handler maps are set.
SetCommandHandler(h) ==
  /\ phase = "setup" /\ sqlPc = "ok"
  /\ LET hndExists == h.cmd \in DOMAIN handlerMap
         grpExists == h.grp \in DOMAIN groupMap
     IN IF hndExists /\ (h.grp # handlerMap[h.cmd].grp \/ ~grpExists)
          THEN phase' = "fatal" /\ UNCHANGED regVars
          ELSE /\ groupOrder' = IF grpExists THEN groupOrder ELSE Append(groupOrder, h.grp)
               /\ groupMap' = (h.grp :> GroupAfter(h.grp, h, ~hndExists)) @@ groupMap
               /\ handlerMap' = (h.cmd :> h) @@ handlerMap
               /\ UNCHANGED phase
  /\ UNCHANGED <<keyVars, cmdVars, fails, sqlVars, tplVars>>

\* PrepareSQLDatabases runs first; its error ends the start-up.  (Its
\* order with respect to SetCommandHandler is the application's; they
\* share no state.)
PrepareSql ==
  /\ phase = "setup" /\ PrepareSQLDatabases
  /\ UNCHANGED <<regVars, phase, keyVars, cmdVars, fails, tplVars>>

\* The application has registered its handlers and starts serving.
Serve ==
  /\ phase = "setup" /\ sqlPc = "ok" /\ phase' = "serve"
  /\ UNCHANGED <<regVars, keyVars, cmdVars, fails, sqlVars, tplVars>>

\* A command line arrives: GetHandler(cmd) and HandleCommand.  A command
\* with no handler only gets an error reply.
GetHandler(c) ==
  /\ phase = "serve" /\ pc = "idle"
  /\ pc' = IF c \in DOMAIN handlerMap /\ handlerMap[c].cmd \in DOMAIN FirstStep
             THEN FirstStep[handlerMap[c].cmd] ELSE "idle"
  /\ UNCHANGED <<regVars, phase, keyVars, nk, loaded, dkid, todo, fails, sqlVars, tplVars>>

-----------------------------------------------------------------------------
(* jwks-rotate                                                             *)

\* rsa.GenerateKey and security.GenerateKeyID: a fresh keyId, or an error.
GenerateKey ==
  /\ pc = "gen"
  /\ \/ \E k \in Kids \ made : nk' = k /\ made' = made \cup {k} /\ pc' = "savepriv"
                               /\ UNCHANGED fails
     \/ CanFail /\ Abort /\ UNCHANGED <<nk, made>>
  /\ UNCHANGED <<regVars, phase, priv, pub, kid, jwks, tmp, loaded, dkid, todo, sqlVars, tplVars>>

\* SavePrivatePEMKeyLocal(<keyId>_private.pem).
SavePrivate ==
  /\ pc = "savepriv"
  /\ \/ priv' = priv \cup {nk} /\ pc' = "savepub" /\ UNCHANGED fails
     \/ CanFail /\ Abort /\ UNCHANGED priv
  /\ UNCHANGED <<regVars, phase, pub, kid, jwks, tmp, made, nk, loaded, dkid, todo, sqlVars, tplVars>>

\* SavePublicPEMKeyLocal(<keyId>_public.pem).
SavePublic ==
  /\ pc = "savepub"
  /\ \/ pub' = pub \cup {nk} /\ pc' = "setkid" /\ UNCHANGED fails
     \/ CanFail /\ Abort /\ UNCHANGED pub
  /\ UNCHANGED <<regVars, phase, priv, kid, jwks, tmp, made, nk, loaded, dkid, todo, sqlVars, tplVars>>

\* KVDBClient.Set(<app>:kid, keyId, 0), then the jwks.json rebuild.
SetKid ==
  /\ pc = "setkid"
  /\ \/ kid' = nk /\ pc' = "load" /\ UNCHANGED fails
     \/ CanFail /\ Abort /\ UNCHANGED kid
  /\ UNCHANGED <<regVars, phase, priv, pub, jwks, tmp, made, nk, loaded, dkid, todo, sqlVars, tplVars>>

-----------------------------------------------------------------------------
(* The jwks.json build, shared by jwks-rotate and jwks-build               *)

\* LoadPublicPEMKeysAsJWKS(PublicKeyDir).
LoadKeys ==
  /\ pc = "load"
  /\ \/ loaded' = pub /\ pc' = "create" /\ UNCHANGED fails
     \/ CanFail /\ Abort /\ UNCHANGED loaded
  /\ UNCHANGED <<regVars, phase, keyVars, nk, dkid, todo, sqlVars, tplVars>>

\* jwks.CreateJSONFile(gen/jwks.json.tmp); a failed write may leave a
\* partial file, which is never renamed.
CreateTmp ==
  /\ pc = "create"
  /\ \/ tmp' = loaded /\ pc' = "rename" /\ UNCHANGED fails
     \/ CanFail /\ Abort /\ UNCHANGED tmp
  /\ UNCHANGED <<regVars, phase, priv, pub, kid, jwks, made, nk, loaded, dkid, todo, sqlVars, tplVars>>

\* os.Rename(jwks.json.tmp, jwks.json), atomic.
RenameJwks ==
  /\ pc = "rename"
  /\ \/ jwks' = tmp /\ tmp' = None /\ pc' = "idle" /\ UNCHANGED fails
     \/ CanFail /\ Abort /\ UNCHANGED <<jwks, tmp>>
  /\ UNCHANGED <<regVars, phase, priv, pub, kid, made, nk, loaded, dkid, todo, sqlVars, tplVars>>

-----------------------------------------------------------------------------
(* jwks-delete-old-rsakeys                                                 *)

\* KVDBClient.Get(<app>:kid): an error or a missing kid ends the command.
GetKid ==
  /\ pc = "getkid"
  /\ \/ kid # None /\ dkid' = kid /\ pc' = "lspriv" /\ UNCHANGED fails
     \/ kid = None /\ pc' = "idle" /\ UNCHANGED <<dkid, fails>>
     \/ CanFail /\ Abort /\ UNCHANGED dkid
  /\ UNCHANGED <<regVars, phase, keyVars, nk, loaded, todo, sqlVars, tplVars>>

\* os.ReadDir of the private, then the public key directory.
ListDir ==
  /\ pc \in {"lspriv", "lspub"}
  /\ \/ todo' = (IF pc = "lspriv" THEN priv ELSE pub)
        /\ pc' = (IF pc = "lspriv" THEN "rmpriv" ELSE "rmpub")
        /\ UNCHANGED fails
     \/ CanFail /\ Abort /\ UNCHANGED todo
  /\ UNCHANGED <<regVars, phase, keyVars, nk, loaded, dkid, sqlVars, tplVars>>

\* One iteration of the loop over the listing: a file whose name does not
\* contain the kid read is removed; a failed os.Remove is ignored.  At the
\* end of the private listing the public one is read; at the end of that
\* the command returns.
RemoveFile ==
  /\ pc \in {"rmpriv", "rmpub"}
  /\ \/ todo = {} /\ pc' = (IF pc = "rmpriv" THEN "lspub" ELSE "idle")
                  /\ UNCHANGED <<priv, pub, todo, fails>>
     \/ \E f \in todo, ok \in BOOLEAN :
          /\ ok \/ (f # dkid /\ CanFail)
          /\ todo' = todo \ {f}
          /\ LET gone == IF ok /\ f # dkid THEN {f} ELSE {}
             IN /\ priv' = IF pc = "rmpriv" THEN priv \ gone ELSE priv
                /\ pub' = IF pc = "rmpub" THEN pub \ gone ELSE pub
          /\ fails' = IF ok THEN fails ELSE fails + 1
          /\ UNCHANGED pc
  /\ UNCHANGED <<regVars, phase, kid, jwks, tmp, made, nk, loaded, dkid, sqlVars, tplVars>>

-----------------------------------------------------------------------------
(* htmltpl-get-all                                                         *)

\* HandleCommand reads appCore.HTMLTemplateStore once: nil is the error
\* "not ready", otherwise every template of the store it read is printed.
TplGetAll ==
  /\ pc = "tplget" /\ pc' = "idle"
  /\ UNCHANGED <<regVars, phase, keyVars, nk, loaded, dkid, todo, fails, sqlVars, tplVars>>

\* The template store is (re)loaded while the application serves: the
\* first PrepareHTMLTemplateStore and every hot reload.
Reload ==
  /\ phase = "serve" /\ TplNext
  /\ UNCHANGED <<regVars, phase, keyVars, cmdVars, fails, sqlVars>>

-----------------------------------------------------------------------------
(* Shutdown                                                                *)

\* ResourceCleanUp, when the application stops between commands, or when
\* PrepareSQLDatabases returned an error and the caller cleans up.
StopApp ==
  /\ \/ phase = "serve" /\ pc = "idle"
     \/ phase = "setup" /\ sqlPc = "err"
  /\ phase' = "stopped" /\ ResourceCleanUp
  /\ UNCHANGED <<regVars, keyVars, cmdVars, fails, tplVars>>

CloseSql ==
  /\ phase = "stopped" /\ CloseClient
  /\ UNCHANGED <<regVars, phase, keyVars, cmdVars, fails, tplVars>>

-----------------------------------------------------------------------------
\* The command names a client can send: those of the handlers, and one
\* with no handler.
Cmds == { h.cmd : h \in Handlers } \cup {"no-such-command"}

\* The process at start: the command store is empty and no SQL database
\* is prepared.
Init ==
  /\ handlerMap = <<>> /\ groupMap = <<>> /\ groupOrder = <<>>
  /\ phase = "setup"
  /\ priv = {K0} /\ pub = {K0} /\ kid = K0 /\ jwks = {K0} /\ tmp = None
  /\ made = {K0}
  /\ pc = "idle" /\ nk = None /\ loaded = {} /\ dkid = None /\ todo = {}
  /\ fails = 0
  /\ SqlInit
  /\ TplInit

Rotate == GenerateKey \/ SavePrivate \/ SavePublic \/ SetKid
BuildJwks == LoadKeys \/ CreateTmp \/ RenameJwks
DeleteOld == GetKid \/ ListDir \/ RemoveFile

Next ==
  \/ \E h \in Handlers : SetCommandHandler(h)
  \/ Serve
  \/ \E c \in Cmds : GetHandler(c)
  \/ Rotate \/ BuildJwks \/ DeleteOld
  \/ TplGetAll \/ Reload
  \/ PrepareSql \/ StopApp \/ CloseSql

Spec == Init /\ [][Next]_vars

-----------------------------------------------------------------------------
(* Properties                                                              *)

\* PrintHelp lists every registered command exactly once, under the group
\* of the handler GetHandler returns for it, and every group once, however
\* often and in whatever order SetCommandHandler was called.
Listed == FlattenSeq([i \in 1..Len(groupOrder) |-> groupMap[groupOrder[i]].order])

HelpListsEachCommandOnce ==
  phase # "fatal" =>
    /\ IsInjective(groupOrder) /\ ToSet(groupOrder) = DOMAIN groupMap
    /\ IsInjective(Listed) /\ ToSet(Listed) = DOMAIN handlerMap
    /\ \A g \in DOMAIN groupMap : \A c \in ToSet(groupMap[g].order) :
         handlerMap[c].grp = g /\ groupMap[g].cmds[c] = handlerMap[c]

\* The current kid always has both its private and its public key file:
\* jwks-rotate sets it only after saving both, and jwks-delete-old-rsakeys
\* keeps the files of the kid it read, whatever call fails.
CurrentKeyUsable == kid \in priv \cap pub

\* When no call has failed, between commands jwks.json publishes the
\* current kid: jwks-rotate rebuilds it from the public key directory
\* after setting the kid, and no command removes the kid's public file.
KidPublished == (fails = 0 /\ pc = "idle") => kid \in jwks

\* Once PrepareSQLDatabases has returned nil and the application serves,
\* sqldb-print-raw-store (like every query) finds an Init'ed, open client
\* for exactly the databases of the configuration, whatever order the map
\* iteration took, and a mysql client shows, for every key, the dialect's
\* statement when the embedded files have one and the *.sql one otherwise.
SqlDatabasesReady ==
  phase = "serve" =>
    /\ sqlClients = DOMAIN sqlConfs
    /\ \A d \in sqlClients : client[d] = "ready"
    /\ "mysql" \in DBTypesSet => DialectFirst(sqlFS, rawStore)

\* When ResourceCleanUp has run, every client sqldb.New made is closed
\* except the one whose Init failed: prepareSQLDBClients returns before
\* storing it, so the leak the code's warning names is that client alone,
\* on every start-up path and in every map order.
CleanUpLeavesOnlyFailedInit ==
  sqlPc = "closed" =>
    \A d \in DOMAIN client : client[d] = "closed" \/ (d = dbCur /\ client[d] = "new")

=============================================================================
