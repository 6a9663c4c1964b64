---------------------------- MODULE CookieSessions ----------------------------
(***************************************************************************)
(* One user's cookie sessions in the KV store (src/web/usercookiesession/ *)
(* manager.go) and the external API token pair of one of them            *)
(* (src/framework/external_api_client.go), in one application process.   *)
(*                                                                         *)
(* Login goroutines run StoreSessionInKVDB (Set, then under the per-user  *)
(* SessionLocks mutex Push and CleanUp: Len, Range, Delete, Trim).  Fetch *)
(* goroutines run FetchJSONRetriable on the session S0: on "access token  *)
(* expired" UpdateTokens reissues the pair upstream and stores it with    *)
(* two SetField calls, then fetchJSON is retried once.  Every KV call is *)
(* one step and may fail, up to MaxFail failures in a behaviour.          *)
(*                                                                         *)
(* Upstream (not part of the sources) issues token pairs numbered by     *)
(* generation: only the latest access token is accepted, and only until  *)
(* it expires; only the latest refresh token can be used, once.           *)
(***************************************************************************)
EXTENDS Integers, Sequences, FiniteSets

CONSTANTS
  S0,          \* the session whose token pair is refreshed, live initially
  Logins,      \* login goroutines; each creates the session of its own name
  Fetchers,    \* goroutines fetching through the external API client on S0
  MaxCnt,      \* Conf.MaxCntPerUser (> 0)
  MaxGen,      \* token pairs upstream issues in a behaviour
  MaxFail,     \* KV calls that fail in a behaviour
  WithExternalTokens, \* Conf.WithExternalTokens
  None         \* no value: an absent field, a free mutex

ASSUME MaxCnt \in Nat \ {0} /\ MaxGen \in Nat /\ MaxFail \in Nat /\ S0 \notin Logins
       /\ WithExternalTokens \in BOOLEAN

Sessions == {S0} \cup Logins

VARIABLES
  live,        \* session keys present in the KV store
  lst,         \* the user's session list <app>:ucookie_sessions:<uid>
  issued,      \* sessions handed to a client (StoreSessionInKVDB returned the ID)
  mutex,       \* holder of the per-user SessionLocks mutex, or None
  lpc, ldiff, ldels,        \* per login: pc, diff, sessionsToDel
  tokA, tokR,  \* S0's stored access and refresh token generations, or None
  noTTL,       \* S0's token hashes ("A", "R") that exist with no expiration
  cur,         \* upstream: generation of the latest pair
  expired,     \* upstream: the latest access token has expired
  fpc, fa, fr, fng, fretry, fexp, \* per fetcher: pc, tokens read, new
                               \* pair, retried, shouldSetExp
  fails,       \* KV call failures so far
  mode         \* Conf.ExpireMode: "absolute" or "sliding"

loginVars == <<lpc, ldiff, ldels>>
fetchVars == <<fpc, fa, fr, fng, fretry, fexp>>
vars == <<live, lst, issued, mutex, loginVars, tokA, tokR, noTTL, cur, expired, fetchVars, fails, mode>>

CanFail == fails < MaxFail

-----------------------------------------------------------------------------
(* Plausible faults                                                        *)

\* CleanUp reading one session fewer than it trims: Range(0, diff-2).
LRangeShort(l) ==
  /\ lpc[l] = "range"
  /\ ldels' = [ldels EXCEPT ![l] = SubSeq(lst, 1, ldiff[l] - 1)]
  /\ lpc' = [lpc EXCEPT ![l] = "del"]
  /\ UNCHANGED <<live, lst, issued, mutex, ldiff, tokA, tokR, noTTL, cur, expired, fetchVars, fails, mode>>

\* UpdateTokens storing the refresh token it sent instead of the new one.
SetRefreshOld(f) ==
  /\ fpc[f] = "setref"
  /\ tokR' = fr[f]
  /\ noTTL' = (noTTL \cup (IF tokR = None THEN {"R"} ELSE {})) \ (IF fexp[f] THEN {"A", "R"} ELSE {})
  /\ fpc' = [fpc EXCEPT ![f] = "get"]
  /\ fretry' = [fretry EXCEPT ![f] = TRUE]
  /\ UNCHANGED <<live, lst, issued, mutex, loginVars, tokA, cur, expired, fa, fr, fng, fexp, fails, mode>>

\* mutex.Lock() on a mutex not shared by the other login, as when the two
\* logins run in different processes (SessionLocks is per process).
LockUserUnshared(l) ==
  /\ lpc[l] = "lock"
  /\ mutex' = l
  /\ lpc' = [lpc EXCEPT ![l] = "push"]
  /\ UNCHANGED <<live, lst, issued, ldiff, ldels, tokA, tokR, noTTL, cur, expired, fetchVars, fails, mode>>

\* A failing Push that returns without releasing the user's mutex.
PushKeepsLock(l) ==
  /\ lpc[l] = "push"
  /\ \/ /\ lst' = Append(lst, l)
        /\ lpc' = [lpc EXCEPT ![l] = "len"]
        /\ UNCHANGED <<mutex, fails>>
     \/ /\ CanFail /\ fails' = fails + 1
        /\ lpc' = [lpc EXCEPT ![l] = "done"]
        /\ UNCHANGED <<lst, mutex>>
  /\ UNCHANGED <<live, issued, ldiff, ldels, tokA, tokR, noTTL, cur, expired, fetchVars, mode>>

-----------------------------------------------------------------------------
(* StoreSessionInKVDB and CleanUp                                           *)

\* The deferred Unlock (and list Expire) as a login returns; `ok` says
\* whether it returned the session ID.
Return(l, ok) ==
  /\ lpc' = [lpc EXCEPT ![l] = "done"]
  /\ mutex' = None
  /\ issued' = IF ok THEN issued \cup {l} ELSE issued

\* KVDBClient.Set(key, uidStr, ttl), before any lock is taken.
SetSession(l) ==
  /\ lpc[l] = "idle"
  /\ \/ /\ live' = live \cup {l}
        /\ lpc' = [lpc EXCEPT ![l] = "lock"]
        /\ UNCHANGED fails
     \/ /\ CanFail /\ fails' = fails + 1
        /\ lpc' = [lpc EXCEPT ![l] = "done"]
        /\ UNCHANGED live
  /\ UNCHANGED <<lst, issued, mutex, ldiff, ldels, tokA, tokR, noTTL, cur, expired, fetchVars, mode>>

\* mutex.Lock(): waits while another login of the user holds it.
LockUser(l) ==
  /\ lpc[l] = "lock" /\ mutex = None
  /\ mutex' = l
  /\ lpc' = [lpc EXCEPT ![l] = "push"]
  /\ UNCHANGED <<live, lst, issued, ldiff, ldels, tokA, tokR, noTTL, cur, expired, fetchVars, fails, mode>>

\* Push(usrSessionListKey, cookieSessionID).
PushSession(l) ==
  /\ lpc[l] = "push"
  /\ \/ /\ lst' = Append(lst, l)
        /\ lpc' = [lpc EXCEPT ![l] = "len"]
        /\ UNCHANGED <<mutex, issued, fails>>
     \/ /\ CanFail /\ fails' = fails + 1
        /\ Return(l, FALSE)
        /\ UNCHANGED lst
  /\ UNCHANGED <<live, ldiff, ldels, tokA, tokR, noTTL, cur, expired, fetchVars, mode>>

\* CleanUp: Len; at most MaxCntPerUser sessions needs no clean-up.
CleanUpLen(l) ==
  /\ lpc[l] = "len"
  /\ \/ /\ Len(lst) <= MaxCnt
        /\ Return(l, TRUE)
        /\ UNCHANGED <<ldiff, fails>>
     \/ /\ Len(lst) > MaxCnt
        /\ ldiff' = [ldiff EXCEPT ![l] = Len(lst) - MaxCnt]
        /\ lpc' = [lpc EXCEPT ![l] = "range"]
        /\ UNCHANGED <<mutex, issued, fails>>
     \/ /\ CanFail /\ fails' = fails + 1
        /\ Return(l, FALSE)
        /\ UNCHANGED ldiff
  /\ UNCHANGED <<live, lst, ldels, tokA, tokR, noTTL, cur, expired, fetchVars, mode>>

\* Range(key, 0, diff-1): the oldest diff sessions, or the whole list if
\* it has fewer.
CleanUpRange(l) ==
  /\ lpc[l] = "range"
  /\ \/ /\ ldels' = [ldels EXCEPT ![l] = SubSeq(lst, 1, IF ldiff[l] < Len(lst) THEN ldiff[l] ELSE Len(lst))]
        /\ lpc' = [lpc EXCEPT ![l] = "del"]
        /\ UNCHANGED <<mutex, issued, fails>>
     \/ /\ CanFail /\ fails' = fails + 1
        /\ Return(l, FALSE)
        /\ UNCHANGED ldels
  /\ UNCHANGED <<live, lst, ldiff, tokA, tokR, noTTL, cur, expired, fetchVars, mode>>

\* buildKeysToDel: S0's token hash keys are among the keys to delete
\* when S0 is and Conf.WithExternalTokens is set.
TokensDeleted(gone) == WithExternalTokens /\ S0 \in gone

\* Delete(buildKeysToDel(...)): the session keys (and token keys); the
\* error is discarded, so a failed Delete goes on to the Trim.
CleanUpDelete(l) ==
  /\ lpc[l] = "del"
  /\ LET gone == { ldels[l][i] : i \in DOMAIN ldels[l] }
     IN \/ /\ live' = live \ gone
           /\ tokA' = IF TokensDeleted(gone) THEN None ELSE tokA
           /\ tokR' = IF TokensDeleted(gone) THEN None ELSE tokR
           /\ noTTL' = IF TokensDeleted(gone) THEN {} ELSE noTTL
           /\ UNCHANGED fails
        \/ /\ CanFail /\ fails' = fails + 1
           /\ UNCHANGED <<live, tokA, tokR, noTTL>>
  /\ lpc' = [lpc EXCEPT ![l] = "trim"]
  /\ UNCHANGED <<lst, issued, mutex, ldiff, ldels, cur, expired, fetchVars, mode>>

\* Trim(key, diff, -1): keep the list from index diff on.
CleanUpTrim(l) ==
  /\ lpc[l] = "trim"
  /\ \/ /\ lst' = SubSeq(lst, ldiff[l] + 1, Len(lst))
        /\ Return(l, TRUE)
        /\ UNCHANGED fails
     \/ /\ CanFail /\ fails' = fails + 1
        /\ Return(l, FALSE)
        /\ UNCHANGED lst
  /\ UNCHANGED <<live, ldiff, ldels, tokA, tokR, noTTL, cur, expired, fetchVars, mode>>

-----------------------------------------------------------------------------
(* A request on S0 through AuthUserCookieSession (sliding mode) whose     *)
(* handler calls FetchJSONRetriable, with fetchJSON and UpdateTokens.      *)

FDone(f) == fpc' = [fpc EXCEPT ![f] = "done"]

\* AuthUserCookieSession: Wrap picks the absolute or the sliding handler
\* by Conf.ExpireMode; both start with authenticateCookieSession, which
\* Gets the session key: an error is a 500, a missing session a redirect
\* to the login page.  The absolute handler then calls the inner handler.
Authenticate(f) ==
  /\ fpc[f] = "auth"
  /\ \/ /\ S0 \in live /\ UNCHANGED fails
        /\ fpc' = [fpc EXCEPT ![f] = IF mode = "sliding" THEN "slide" ELSE "get"]
     \/ /\ S0 \notin live /\ FDone(f) /\ UNCHANGED fails
     \/ /\ CanFail /\ fails' = fails + 1 /\ FDone(f)
  /\ UNCHANGED <<live, lst, issued, mutex, loginVars, tokA, tokR, noTTL, cur, expired, fa, fr, fng, fretry, fexp, mode>>

\* slidingExpHandler: when the session's TTL is below ExtendThreshold
\* (a matter of time, chosen freely here) Expire is called on the session
\* key, both token hashes and the list; errors are discarded.  Then the
\* inner handler calls FetchJSONRetriable.
Slide(f) ==
  /\ fpc[f] = "slide"
  /\ \E extend \in BOOLEAN : noTTL' = IF extend THEN {} ELSE noTTL
  /\ fpc' = [fpc EXCEPT ![f] = "get"]
  /\ UNCHANGED <<live, lst, issued, mutex, loginVars, tokA, tokR, cur, expired, fa, fr, fng, fretry, fexp, fails, mode>>

\* fetchJSON: FetchExternalAccessToken, a GetField; not found or an error
\* is a 400 returned as is.
FetchAccess(f) ==
  /\ fpc[f] = "get"
  /\ \/ /\ tokA # None
        /\ fa' = [fa EXCEPT ![f] = tokA]
        /\ fpc' = [fpc EXCEPT ![f] = "call"]
        /\ UNCHANGED fails
     \/ /\ tokA = None /\ FDone(f) /\ UNCHANGED <<fa, fails>>
     \/ /\ CanFail /\ fails' = fails + 1 /\ FDone(f) /\ UNCHANGED fa
  /\ UNCHANGED <<live, lst, issued, mutex, loginVars, tokA, tokR, noTTL, cur, expired, fr, fng, fretry, fexp, mode>>

\* RequestJSON with the access token: 200 if upstream accepts it, else 401
\* AccessTokenExpired, which UpdateTokens handles on the first try only.
CallUpstream(f) ==
  /\ fpc[f] = "call"
  /\ IF (fa[f] = cur /\ ~expired) \/ fretry[f]
       THEN FDone(f)
       ELSE fpc' = [fpc EXCEPT ![f] = "uid"]
  /\ UNCHANGED <<live, lst, issued, mutex, loginVars, tokA, tokR, noTTL, cur, expired, fa, fr, fng, fretry, fexp, fails, mode>>

\* UpdateTokens: SessionIDToUIDStrFromKVDB; no session (or an error) is 401.
FetchUID(f) ==
  /\ fpc[f] = "uid"
  /\ \/ /\ S0 \in live /\ fpc' = [fpc EXCEPT ![f] = "getref"] /\ UNCHANGED fails
     \/ /\ S0 \notin live /\ FDone(f) /\ UNCHANGED fails
     \/ /\ CanFail /\ fails' = fails + 1 /\ FDone(f)
  /\ UNCHANGED <<live, lst, issued, mutex, loginVars, tokA, tokR, noTTL, cur, expired, fa, fr, fng, fretry, fexp, mode>>

\* FetchExternalRefreshToken; its error is discarded and "" is sent.
FetchRefresh(f) ==
  /\ fpc[f] = "getref"
  /\ \/ /\ fr' = [fr EXCEPT ![f] = tokR] /\ UNCHANGED fails
     \/ /\ CanFail /\ fails' = fails + 1 /\ fr' = [fr EXCEPT ![f] = None]
  /\ fpc' = [fpc EXCEPT ![f] = "reissue"]
  /\ UNCHANGED <<live, lst, issued, mutex, loginVars, tokA, tokR, noTTL, cur, expired, fa, fng, fretry, fexp, mode>>

\* RequestReissueAccessTokenWithRefreshTokenAndUserID: a non-200 answer is
\* returned; a 200 carries the new pair (upstream rotates the refresh token).
Reissue(f) ==
  /\ fpc[f] = "reissue"
  /\ IF fr[f] = cur
       THEN /\ cur' = cur + 1 /\ expired' = FALSE
            /\ fng' = [fng EXCEPT ![f] = cur + 1]
            /\ fpc' = [fpc EXCEPT ![f] = "exists"]
       ELSE /\ FDone(f) /\ UNCHANGED <<cur, expired, fng>>
  /\ UNCHANGED <<live, lst, issued, mutex, loginVars, tokA, tokR, noTTL, fa, fr, fretry, fexp, fails, mode>>

\* StoreExternalTokenPairInKVDB: Exists(accessTokenKey); an error, like
\* an absent key, sets shouldSetExp and the store goes on.
ExistsAccess(f) ==
  /\ fpc[f] = "exists"
  /\ \/ /\ fexp' = [fexp EXCEPT ![f] = (tokA = None)] /\ UNCHANGED fails
     \/ /\ CanFail /\ fails' = fails + 1 /\ fexp' = [fexp EXCEPT ![f] = TRUE]
  /\ fpc' = [fpc EXCEPT ![f] = "setacc"]
  /\ UNCHANGED <<live, lst, issued, mutex, loginVars, tokA, tokR, noTTL, cur, expired, fa, fr, fng, fretry, mode>>

\* SetField of the access token (an error is a 500).  A SetField on an
\* absent hash creates it with no expiration.
SetAccessField(f) ==
  /\ fpc[f] = "setacc"
  /\ \/ /\ tokA' = fng[f]
        /\ noTTL' = noTTL \cup (IF tokA = None THEN {"A"} ELSE {})
        /\ fpc' = [fpc EXCEPT ![f] = "setref"]
        /\ UNCHANGED fails
     \/ /\ CanFail /\ fails' = fails + 1 /\ FDone(f)
        /\ UNCHANGED <<tokA, noTTL>>
  /\ UNCHANGED <<live, lst, issued, mutex, loginVars, tokR, cur, expired, fa, fr, fng, fretry, fexp, mode>>

\* SetField of the refresh token, then, if shouldSetExp, Expire on both
\* hashes; UpdateTokens returns 200 and fetchJSON is retried.
SetRefreshField(f) ==
  /\ fpc[f] = "setref"
  /\ \/ /\ tokR' = fng[f]
        /\ noTTL' = (noTTL \cup (IF tokR = None THEN {"R"} ELSE {})) \ (IF fexp[f] THEN {"A", "R"} ELSE {})
        /\ fpc' = [fpc EXCEPT ![f] = "get"]
        /\ fretry' = [fretry EXCEPT ![f] = TRUE]
        /\ UNCHANGED fails
     \/ /\ CanFail /\ fails' = fails + 1 /\ FDone(f)
        /\ UNCHANGED <<tokR, noTTL, fretry>>
  /\ UNCHANGED <<live, lst, issued, mutex, loginVars, tokA, cur, expired, fa, fr, fng, fexp, mode>>

\* Upstream: the latest access token expires (while pairs remain to issue).
Expire ==
  /\ ~expired /\ cur < MaxGen
  /\ expired' = TRUE
  /\ UNCHANGED <<live, lst, issued, mutex, loginVars, tokA, tokR, noTTL, cur, fetchVars, fails, mode>>

-----------------------------------------------------------------------------
\* S0 is a session of the user, listed, with the token pair of generation 0.
Init ==
  /\ live = {S0} /\ lst = <<S0>> /\ issued = {S0} /\ mutex = None
  /\ lpc = [l \in Logins |-> "idle"]
  /\ ldiff = [l \in Logins |-> 0]
  /\ ldels = [l \in Logins |-> <<>>]
  /\ tokA = 0 /\ tokR = 0 /\ noTTL = {} /\ cur = 0 /\ expired = FALSE
  /\ fpc = [f \in Fetchers |-> "auth"]
  /\ fa = [f \in Fetchers |-> None] /\ fr = [f \in Fetchers |-> None]
  /\ fng = [f \in Fetchers |-> 0]
  /\ fretry = [f \in Fetchers |-> FALSE] /\ fexp = [f \in Fetchers |-> FALSE]
  /\ fails = 0
  /\ mode \in {"absolute", "sliding"}

Login(l) ==
  \/ SetSession(l) \/ LockUser(l) \/ PushSession(l)
  \/ CleanUpLen(l) \/ CleanUpRange(l) \/ CleanUpDelete(l) \/ CleanUpTrim(l)

Fetch(f) ==
  \/ Authenticate(f) \/ Slide(f)
  \/ FetchAccess(f) \/ CallUpstream(f) \/ FetchUID(f) \/ FetchRefresh(f)
  \/ Reissue(f) \/ ExistsAccess(f) \/ SetAccessField(f) \/ SetRefreshField(f)

Next == (\E l \in Logins : Login(l)) \/ (\E f \in Fetchers : Fetch(f)) \/ Expire

\* Go schedules every runnable goroutine; a login waiting on the mutex is
\* enabled again whenever it is free (sync.Mutex starvation mode hands it
\* over after 1ms), so waiting is strongly fair.
Fairness == \A l \in Logins : SF_vars(Login(l))

Spec == Init /\ [][Next]_vars /\ Fairness

-----------------------------------------------------------------------------
(* Properties                                                              *)

\* MaxCntPerUser ("max# of cookie sessions per user"): if no KV call has
\* failed, however logins interleave their Set with another's clean-up,
\* at most MaxCntPerUser sessions handed to the user remain usable.
SessionCapNoKVErrors ==
  fails = 0 => Cardinality(live \cap issued) <= MaxCnt

\* Concurrent UpdateTokens on one session never lose a reissued pair nor
\* leave a mixed one: while S0 exists and no KV call failed, whenever no
\* fetcher is inside StoreExternalTokenPairInKVDB the stored access and
\* refresh tokens are both of the latest generation upstream issued, so
\* the next request on S0 is accepted or can refresh.  Upstream's refresh-
\* token rotation lets only one reissue per pair succeed.
StoredPairIsLatest ==
  (fails = 0 /\ S0 \in live /\ \A f \in Fetchers : fpc[f] \notin {"exists", "setacc", "setref"})
    => tokA = cur /\ tokR = cur

\* The user's session list is what CleanUp counts and trims by: if no KV
\* call failed, it lists exactly the live sessions, except those of logins
\* between their Set and Push and while a clean-up is between its Delete
\* and Trim.  Len, Range, Delete and Trim are four KV calls, so this holds
\* only because the per-user mutex keeps two clean-ups from interleaving.
SessionListTracksLive ==
  (fails = 0 /\ \A l \in Logins : lpc[l] # "trim")
    => { lst[i] : i \in DOMAIN lst } = live \ { l \in Logins : lpc[l] \in {"lock", "push"} }

\* StoreSessionInKVDB always releases the per-user lock (deferred Unlock),
\* so every login that has created its session returns.
LoginCompletes ==
  \A l \in Logins : (lpc[l] = "lock") ~> (lpc[l] = "done")

\* StoreExternalTokenPairInKVDB sets an expiration on every token hash it
\* creates: when no UpdateTokens is storing, no token hash of S0 exists
\* without one (a hash with none stays in the KV store forever).
NoTokenKeyWithoutTTL ==
  (\A f \in Fetchers : fpc[f] # "setref") => noTTL = {}

=============================================================================
