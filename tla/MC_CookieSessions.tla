-------------------------- MODULE MC_CookieSessions --------------------------
(* Instantiates CookieSessions: two logins of the user and two API requests *)
(* on its existing session S0.                                            *)
EXTENDS CookieSessions

CONSTANTS l1, l2, f1, f2

MC_Logins == {l1, l2}
MC_Fetchers == {f1, f2}
MC_One == {f1}
=============================================================================
