--------------------------- MODULE RefreshTokens ---------------------------
(***************************************************************************)
(* The refresh token of a signed-in browser                                *)
(* (apps/api/src/auth/plane-signin.ts, apps/web/src/lib/hub-token.ts).     *)
(*                                                                         *)
(* The Organization plane rotates it: every grant spends the token that    *)
(* was presented and returns the next one, and a spent token presented     *)
(* again looks stolen.  All tabs share one cookie.  A call to the Worker   *)
(* carries the cookies of the moment it was sent, the Worker asks the      *)
(* plane for one grant after the other, and its answer sets the cookies of *)
(* the browser at some later moment.  /hub/token is called under a Web     *)
(* Lock every tab takes; /hub/session, which renews a lapsed session, is   *)
(* not.                                                                    *)
(***************************************************************************)
EXTENDS Naturals

CONSTANTS
  Calls,     \* calls of /hub/token and /hub/session under way at a time
  MaxGrants  \* bound: how often the token is rotated

ASSUME RefreshAssumption == MaxGrants \in Nat \ {0}

VARIABLES
  live,    \* the plane: the number of the newest refresh token
  revoked, \* the plane: a replay made it revoke them all
  jar,     \* the cookies; refresh = 0 when there is none
  call,    \* each call: the refresh token it carries, the access tokens it
           \* needs and those it was granted
  clean    \* history: nothing was lost, abandoned, refused after it was
           \* spent, or sent while a call outside the lock was under way

refreshVars == <<live, revoked, jar, call, clean>>

AccessTokens == {"app", "hub", "library"}

(* has: the access tokens that have not lapsed.                            *)
Jar == [has : SUBSET AccessTokens, refresh : 0 .. MaxGrants]
SignedOut == [has |-> {}, refresh |-> 0]

(* needs: the access tokens the Worker has yet to ask for.                 *)
Quiet == [kind |-> "token", at |-> "idle", needs |-> {}, minted |-> {},
          refresh |-> 0, abandoned |-> FALSE]

InFlight == {i \in Calls : call[i].at # "idle"}

(* Web Locks: held while a call of /hub/token has not been answered or     *)
(* given up.                                                               *)
Locked == \E i \in InFlight : call[i].kind = "token" /\ ~call[i].abandoned

(* The callback of a sign-in: the app's token, and the hub's if the plane  *)
(* gave one.                                                               *)
RefreshInit ==
  /\ live = 1
  /\ revoked = FALSE
  /\ jar \in {[has |-> h, refresh |-> 1] : h \in {{"app"}, {"app", "hub"}}}
  /\ call = [i \in Calls |-> Quiet]
  /\ clean = TRUE

-----------------------------------------------------------------------------
Sends(i, kind, needs) ==
  /\ call[i].at = "idle"
  /\ jar.refresh # 0
  /\ call' = [call EXCEPT ![i] = [Quiet EXCEPT !.kind = kind, !.at = "asking",
                                   !.needs = needs, !.refresh = jar.refresh]]
  /\ clean' = (clean /\ InFlight = {})
  /\ UNCHANGED <<live, revoked, jar>>

(* hubTokenFetch, with or without the library's token.  When nothing has   *)
(* lapsed the answer sets no cookie.                                       *)
AskTokens(i) ==
  \E wants \in {{"app", "hub"}, AccessTokens} :
    /\ ~Locked
    /\ wants \ jar.has # {}
    /\ Sends(i, "token", wants \ jar.has)

(* renewSession: the session has lapsed, whatever the other cookies are.   *)
RenewSession(i) == Sends(i, "session", {"app", "hub"})

-----------------------------------------------------------------------------
(* The grants of the Worker, strictly in sequence.                         *)
NextGrant(c) ==
  CHOOSE k \in c.needs :
    /\ k = "hub" => "app" \notin c.needs
    /\ k = "library" => c.needs = {k}

Asking(i) == call[i].at = "asking" /\ call[i].needs # {}

Valid(i) == call[i].refresh = live /\ ~revoked

(* Each grant is asked for with the token the one before it returned.      *)
(* The defect: the cookie keeps the token the hub's grant has spent.       *)
Carries_bug(c) ==
  LET k == NextGrant(c)
  IN [c EXCEPT !.minted = @ \cup {k}, !.needs = @ \ {k},
               !.refresh = IF k = "app" THEN live + 1 ELSE @]

Carries(c) ==
  LET k == NextGrant(c)
  IN [c EXCEPT !.minted = @ \cup {k}, !.needs = @ \ {k}, !.refresh = live + 1]

Granted(i) ==
  /\ Asking(i) /\ Valid(i)
  /\ live < MaxGrants
  /\ live' = live + 1
  /\ call' = [call EXCEPT ![i] = Carries(@)]
  /\ UNCHANGED <<revoked, jar, clean>>

(* No grant: the app's ends the call, the others are done without.         *)
Ended(c) == [c EXCEPT !.at = "refuse", !.needs = {}]
Forgoes(c) ==
  IF NextGrant(c) = "app" THEN Ended(c) ELSE [c EXCEPT !.needs = @ \ {NextGrant(c)}]
Without(i) == call' = [call EXCEPT ![i] = Forgoes(@)]

(* The plane refuses what it will not mint, or is down: nothing is spent.  *)
(* A spent token is refused, and past the reuse window they all are.       *)
Denied(i) ==
  /\ Asking(i)
  /\ Without(i)
  /\ revoked' \in IF Valid(i) THEN {FALSE} ELSE {revoked, TRUE}
  /\ UNCHANGED <<live, jar, clean>>

(* The plane answers and the Worker does not hear it.                      *)
AnswerLost(i) ==
  /\ Asking(i) /\ Valid(i)
  /\ live < MaxGrants
  /\ live' = live + 1
  /\ Without(i)
  /\ clean' = FALSE
  /\ UNCHANGED <<revoked, jar>>

(* sessionFromClaims: the renewed token is not of a person who may sign in *)
(* here.  The old one is spent all the same.                               *)
NotAdmitted(i) ==
  /\ Asking(i) /\ call[i].kind = "session" /\ "app" \in call[i].minted
  /\ call' = [call EXCEPT ![i] = Ended(@)]
  /\ clean' = FALSE
  /\ UNCHANGED <<live, revoked, jar>>

-----------------------------------------------------------------------------
(* The answer sets the cookies it renewed, and the refresh token always.   *)
SetsCookies(i) ==
  /\ call[i].at = "asking" /\ call[i].needs = {}
  /\ jar' = IF call[i].abandoned THEN jar
            ELSE [has |-> jar.has \cup call[i].minted,
                  refresh |-> call[i].refresh]
  /\ call' = [call EXCEPT ![i] = Quiet]
  /\ UNCHANGED <<live, revoked, clean>>

(* Refused or unavailable: no cookie is set and none is cleared.           *)
TurnedAway(i) ==
  /\ call[i].at = "refuse"
  /\ call' = [call EXCEPT ![i] = Quiet]
  /\ UNCHANGED <<live, revoked, jar, clean>>

(* HUB_TOKEN_TIMEOUT_MS: the page gives the call up and frees the lock;    *)
(* the Worker goes on.                                                     *)
Abandon(i) ==
  /\ call[i].at # "idle" /\ call[i].kind = "token" /\ ~call[i].abandoned
  /\ call' = [call EXCEPT ![i].abandoned = TRUE]
  /\ clean' = FALSE
  /\ UNCHANGED <<live, revoked, jar>>

(* Max-Age.                                                                *)
CookieLapses ==
  /\ \E k \in jar.has : jar' = [jar EXCEPT !.has = @ \ {k}]
  /\ UNCHANGED <<live, revoked, call, clean>>

(* /auth/logout                                                            *)
SignOut ==
  /\ jar.refresh # 0
  /\ jar' = SignedOut
  /\ UNCHANGED <<live, revoked, call, clean>>

RefreshNext ==
  \/ \E i \in Calls :
       \/ AskTokens(i) \/ RenewSession(i)
       \/ Granted(i) \/ Denied(i) \/ AnswerLost(i) \/ NotAdmitted(i)
       \/ SetsCookies(i) \/ TurnedAway(i) \/ Abandon(i)
  \/ CookieLapses \/ SignOut

RefreshSpec == RefreshInit /\ [][RefreshNext]_refreshVars

-----------------------------------------------------------------------------
RefreshTypeOK ==
  /\ live \in 1 .. MaxGrants
  /\ revoked \in BOOLEAN /\ clean \in BOOLEAN
  /\ jar \in Jar
  /\ call \in [Calls -> [kind : {"token", "session"}, at : {"idle", "asking", "refuse"}, needs : SUBSET AccessTokens,
                         minted : SUBSET AccessTokens, refresh : 0 .. MaxGrants, abandoned : BOOLEAN]]

(* Whatever the plane grants, refuses or fails to answer to a call of up   *)
(* to three grants, when calls neither overlap nor are lost the browser is *)
(* left with the newest refresh token, and so is never taken for a thief   *)
(* (plane-signin.ts, "each grant spending the refresh token the previous   *)
(* one returned").                                                         *)
NewestKept ==
  clean /\ InFlight = {} /\ jar.refresh # 0 => jar.refresh = live /\ ~revoked
=============================================================================
