-------------------------- MODULE IdentityProofs ---------------------------
(***************************************************************************)
(* Proofs about who acts: supi's credentials, the cookies and refresh      *)
(* tokens of a browser, and the users that sign-in maps principals to; for *)
(* any number of runs, people, calls, rotations, principals, addresses and *)
(* requests.                                                               *)
(***************************************************************************)
EXTENDS Credentials, RefreshTokens, Accounts, FiniteSetTheorems, TLAPS

-----------------------------------------------------------------------------
(* ActsOnlyAsNamed. The invariant follows a run through its steps. A run   *)
(* whose environment names an agent's slot never looks at a file. A run    *)
(* that is past the device file has seen a device, and one that is about   *)
(* to read it was told so if somebody has signed in since it began.        *)

Found ==
  [at : Steps, read : Tokens, mine : Persons \cup {Nobody},
   acts : Persons \cup {FleetPerson, Nobody, AgentIdentity, "refused", "station", "person"},
   slot : {"none", "environment", "supi", "fleet"},
   namedAgent : BOOLEAN, signedIn : BOOLEAN]

CredTyped ==
  /\ device \in Persons \cup {Nobody}
  /\ cache \in Tokens /\ fleetToken \in Tokens /\ fleetCache \in Tokens
  /\ fleet \in {"none", "hub", "plane"}
  /\ supi \in [Supis -> Found]

(* What is known of a run at each of its steps.                            *)
Follows(s, d) ==
  /\ s.namedAgent => s.at = "idle" /\ s.acts \in {Nobody, AgentIdentity, "refused"}
  /\ s.at = "device" /\ d # Nobody => s.signedIn
  /\ s.at \in {"cache", "exchange", "store"} => s.signedIn
  /\ s.slot = "supi" => s.signedIn

CInv == CredTyped /\ \A i \in Supis : Follows(supi[i], device)

(* loadCredential: an environment that names an agent's slot decides, and  *)
(* for an agent or for nobody.                                             *)
LEMMA AgentSlotDecides ==
  ASSUME NEW d \in Readings
  PROVE  /\ d.acts \in {Nobody, AgentIdentity, "refused", "station", "person"}
         /\ d.agent \in BOOLEAN
         /\ d.agent => d.acts \in {AgentIdentity, "refused"}
PROOF
  <1>1. PICK e \in Environments : d = [acts |-> FromEnvironment(e), agent |-> NamesAgentSlot(e)]
    BY DEF Readings
  <1>2. /\ NamesAgentSlot(e) \in BOOLEAN
        /\ FromEnvironment(e) \in {Nobody, AgentIdentity, "refused", "station", "person"}
        /\ NamesAgentSlot(e) => FromEnvironment(e) \in {AgentIdentity, "refused"}
    BY DEF Environments, Values, FromEnvironment, NamesAgentSlot, AgentSlot, PersonSlot, NamesAgent
  <1> QED BY <1>1, <1>2

-----------------------------------------------------------------------------
(* The ways a run moves on.                                                *)

LEMMA GoesFound ==
  ASSUME supi \in [Supis -> Found], NEW i \in Supis, NEW step \in Steps, Goes(i, step)
  PROVE  /\ supi' \in [Supis -> Found]
         /\ \A j \in Supis \ {i} : supi'[j] = supi[j]
         /\ supi'[i].at = step /\ supi'[i].acts = supi[i].acts /\ supi'[i].slot = supi[i].slot
         /\ supi'[i].namedAgent = supi[i].namedAgent /\ supi'[i].signedIn = supi[i].signedIn
PROOF
  BY DEF Goes, Found

LEMMA ActsFound ==
  ASSUME supi \in [Supis -> Found], NEW i \in Supis,
         NEW w \in Persons \cup {FleetPerson, Nobody, AgentIdentity, "refused"},
         NEW s \in {"none", "supi", "fleet"}, Acts(i, w, s)
  PROVE  /\ supi' \in [Supis -> Found]
         /\ \A j \in Supis \ {i} : supi'[j] = supi[j]
         /\ supi'[i].at = "idle" /\ supi'[i].acts = w /\ supi'[i].slot = s
         /\ supi'[i].namedAgent = supi[i].namedAgent /\ supi'[i].signedIn = supi[i].signedIn
PROOF
  <1> DEFINE row == [supi[i] EXCEPT !.at = "idle", !.acts = w, !.slot = s]
  <1>1. /\ row.at = "idle" /\ row.acts = w /\ row.slot = s
        /\ row.namedAgent = supi[i].namedAgent /\ row.signedIn = supi[i].signedIn
    BY DEF Found
  <1>2. row \in Found
    BY ZenonT(60) DEF Found, Steps
  <1>3. supi' = [supi EXCEPT ![i] = row]
    BY DEF Acts
  <1> HIDE DEF row
  <1> QED BY <1>1, <1>2, <1>3

LEMMA TokensMinted == \A w \in Persons \cup {FleetPerson, Nobody} : Minted(w) \in Tokens
PROOF
  BY DEF Minted, Tokens

LEMMA TokenWho == \A t \in Tokens : t.who \in Persons \cup {FleetPerson, Nobody}
PROOF
  BY DEF Tokens

(* A run that moves on alone.                                              *)
LEMMA OneMoves ==
  ASSUME CInv, NEW i \in Supis, supi' \in [Supis -> Found],
         \A j \in Supis \ {i} : supi'[j] = supi[j], UNCHANGED device,
         cache' \in Tokens, fleetToken' \in Tokens, fleetCache' \in Tokens, UNCHANGED fleet,
         Follows(supi'[i], device)
  PROVE  CInv'
PROOF
  BY DEF CInv, CredTyped

LEMMA IdleFound == Idle \in Found
PROOF
  BY DEF Idle, NoToken, Tokens, Found, Steps

LEMMA CredStep ==
  ASSUME CInv, [CredNext]_credVars
  PROVE  CInv'
PROOF
  <1>0. /\ device \in Persons \cup {Nobody}
        /\ cache \in Tokens /\ fleetToken \in Tokens /\ fleetCache \in Tokens
        /\ fleet \in {"none", "hub", "plane"}
        /\ supi \in [Supis -> Found]
        /\ \A i \in Supis : Follows(supi[i], device)
    BY DEF CInv, CredTyped
  <1>a. \A i \in Supis : /\ supi[i] \in Found
                         /\ supi[i].read.who \in Persons \cup {FleetPerson, Nobody}
    BY <1>0, TokenWho DEF Found
  <1> USE DEF Follows
  <1>1. ASSUME NEW i \in Supis, Begin(i) PROVE CInv'
    <2>1. PICK d \in Readings :
            LET begun == [Idle EXCEPT !.namedAgent = d.agent, !.signedIn = (device # Nobody)]
            IN  /\ supi' = [supi EXCEPT ![i] =
                     IF d.acts = Nobody
                     THEN [begun EXCEPT !.at = "device", !.read = fleetToken]
                     ELSE [begun EXCEPT !.acts = d.acts, !.slot = "environment"]]
                /\ UNCHANGED <<device, cache, fleet, fleetToken, fleetCache>>
      BY <1>1 DEF Begin
    <2> DEFINE begun == [Idle EXCEPT !.namedAgent = d.agent, !.signedIn = (device # Nobody)]
               looks == [begun EXCEPT !.at = "device", !.read = fleetToken]
               decided == [begun EXCEPT !.acts = d.acts, !.slot = "environment"]
    <2>2. supi' = [supi EXCEPT ![i] = IF d.acts = Nobody THEN looks ELSE decided]
      BY <2>1
    <2>a. /\ begun \in Found /\ begun.at = "idle" /\ begun.acts = Nobody /\ begun.slot = "none"
          /\ begun.namedAgent = d.agent /\ begun.signedIn = (device # Nobody)
      BY IdleFound, AgentSlotDecides DEF Found, Idle
    <2> HIDE DEF begun
    <2>3. looks \in Found
      BY <1>0, <2>a DEF Found, Steps
    <2>4. decided \in Found
      BY <2>a, AgentSlotDecides DEF Found
    <2>5. d.acts = Nobody => Follows(looks, device)
      BY <2>a, AgentSlotDecides DEF Found, Nobody, AgentIdentity
    <2>6. d.acts # Nobody => Follows(decided, device)
      BY <2>a, AgentSlotDecides DEF Found, Nobody, AgentIdentity
    <2> HIDE DEF looks, decided, Follows
    <2>7. supi' \in [Supis -> Found] /\ Follows(supi'[i], device)
      BY <1>0, <2>2, <2>3, <2>4, <2>5, <2>6
    <2> QED BY <1>0, <2>1, <2>2, <2>7, OneMoves
  <1>2. ASSUME NEW i \in Supis, ReadDevice(i) PROVE CInv'
    <2> DEFINE row == [supi[i] EXCEPT !.at = IF device = Nobody THEN "fleet" ELSE "cache",
                                      !.mine = device]
    <2>1. row \in Found
      BY ZenonT(60), <1>0, <1>a DEF Found, Steps
    <2>2. Follows(row, device)
      BY <1>0, <1>a, <1>2 DEF ReadDevice, Found
    <2>3. supi' = [supi EXCEPT ![i] = row]
      BY <1>2 DEF ReadDevice
    <2> HIDE DEF row, Follows
    <2> QED BY <1>0, <1>2, <2>1, <2>2, <2>3, OneMoves DEF ReadDevice
  <1>3. ASSUME NEW i \in Supis, ReadCache(i) PROVE CInv'
    <2>1. CASE cache.fresh
      <3>1. cache.who \in Persons \cup {FleetPerson, Nobody} /\ Acts(i, cache.who, "supi")
        BY <1>0, <1>3, <2>1, TokenWho DEF ReadCache
      <3> QED BY <1>0, <1>3, <3>1, ActsFound, OneMoves DEF ReadCache
    <2>2. CASE ~cache.fresh
      <3>1. Goes(i, "exchange") /\ "exchange" \in Steps
        BY <1>3, <2>2 DEF ReadCache, Steps
      <3> QED BY <1>0, <1>3, <3>1, GoesFound, OneMoves DEF ReadCache
    <2> QED BY <2>1, <2>2
  <1>b. ASSUME NEW i \in Supis, Refused(i), supi[i].at # "idle",
               UNCHANGED <<device, cache, fleet, fleetToken, fleetCache>>
        PROVE CInv'
    BY <1>b, <1>0, ActsFound, OneMoves DEF Refused
  <1>4. ASSUME NEW i \in Supis, Exchange(i) PROVE CInv'
    <2>1. CASE Refused(i)
      BY <1>4, <1>b, <2>1 DEF Exchange
    <2>2. CASE ~Refused(i)
      <3> DEFINE row == [supi[i] EXCEPT !.at = "store", !.read = Minted(supi[i].mine)]
      <3>1. row \in Found
        BY <1>a, TokensMinted DEF Found, Steps
      <3>2. Follows(row, device)
        BY <1>0, <1>a, <1>4 DEF Exchange, Found
      <3>3. supi' = [supi EXCEPT ![i] = row]
        BY <1>4, <2>2 DEF Exchange
      <3> HIDE DEF row, Follows
      <3> QED BY <1>0, <1>4, <3>1, <3>2, <3>3, OneMoves DEF Exchange
    <2> QED BY <2>1, <2>2
  <1>5. ASSUME NEW i \in Supis, Store(i) PROVE CInv'
    <2>1. cache' \in Tokens
      BY <1>0, <1>a, <1>5 DEF Store, Found
    <2> QED BY <1>0, <1>a, <1>5, <2>1, ActsFound, OneMoves DEF Store
  <1>6. ASSUME NEW i \in Supis, AskFleet(i) PROVE CInv'
    <2>1. CASE Refused(i)
      BY <1>6, <1>b, <2>1 DEF AskFleet
    <2>2. CASE Acts(i, supi[i].read.who, "fleet")
      BY <1>0, <1>a, <1>6, <2>2, ActsFound, OneMoves DEF AskFleet
    <2>3. CASE \E step \in {"fleetCache", "fleetExchange"} : Goes(i, step)
      BY <1>0, <1>6, <2>3, GoesFound, OneMoves DEF AskFleet, Steps
    <2> QED BY <1>6, <2>1, <2>2, <2>3 DEF AskFleet, Fallback
  <1>7. ASSUME NEW i \in Supis, ReadFleetCache(i) PROVE CInv'
    <2>1. CASE Acts(i, fleetCache.who, "fleet")
      BY <1>0, <1>7, <2>1, TokenWho, ActsFound, OneMoves DEF ReadFleetCache
    <2>2. CASE Goes(i, "fleetExchange")
      BY <1>0, <1>7, <2>2, GoesFound, OneMoves DEF ReadFleetCache, Steps
    <2> QED BY <1>7, <2>1, <2>2 DEF ReadFleetCache
  <1>8. ASSUME NEW i \in Supis, FleetExchange(i) PROVE CInv'
    <2>1. CASE Refused(i)
      BY <1>8, <1>b, <2>1 DEF FleetExchange
    <2>2. CASE ~Refused(i)
      <3> DEFINE row == [supi[i] EXCEPT !.at = "fleetStore", !.read = Minted(FleetPerson)]
      <3>1. row \in Found
        BY <1>a, TokensMinted DEF Found, Steps
      <3>2. Follows(row, device)
        BY <1>0, <1>a, <1>8 DEF FleetExchange, Found
      <3>3. supi' = [supi EXCEPT ![i] = row]
        BY <1>8, <2>2 DEF FleetExchange
      <3> HIDE DEF row, Follows
      <3> QED BY <1>0, <1>8, <3>1, <3>2, <3>3, OneMoves DEF FleetExchange
    <2> QED BY <2>1, <2>2
  <1>9. ASSUME NEW i \in Supis, FleetStore(i) PROVE CInv'
    <2>1. fleetToken' \in Tokens /\ fleetCache' \in Tokens
      BY <1>0, <1>a, <1>9 DEF FleetStore, Found
    <2> QED BY <1>0, <1>a, <1>9, <2>1, ActsFound, OneMoves DEF FleetStore
  <1>10. ASSUME NEW i \in Supis, NEW w \in Persons \cup {Nobody}, SetDevice(i, w) PROVE CInv'
    <2> DEFINE told(j) == [supi[j] EXCEPT !.signedIn = @ \/ (supi[j].at # "idle" /\ w # Nobody)]
               fresh == [Idle EXCEPT !.at = "wipe"]
    <2>1. supi' = [j \in Supis |-> IF j = i THEN fresh ELSE told(j)] /\ device' = w
      BY <1>10 DEF SetDevice
    <2>2. fresh \in Found /\ Follows(fresh, w)
      BY IdleFound DEF Idle, Found, Steps
    <2>3. \A j \in Supis : told(j) \in Found /\ Follows(told(j), w)
      BY ZenonT(60), <1>0, <1>a DEF Found
    <2> HIDE DEF told, fresh, Follows
    <2>4. supi' \in [Supis -> Found] /\ \A j \in Supis : Follows(supi'[j], w)
      BY <2>1, <2>2, <2>3
    <2> QED BY <1>0, <1>10, <2>1, <2>4 DEF SetDevice, CInv, CredTyped
  <1>11. ASSUME NEW i \in Supis, Wipe(i) PROVE CInv'
    <2>1. cache' \in Tokens
      BY <1>11 DEF Wipe, NoToken, Tokens
    <2> QED BY <1>0, <1>11, <2>1, GoesFound, OneMoves DEF Wipe, Steps
  <1>12. CASE Ages
    <2>1. cache' \in Tokens /\ fleetToken' \in Tokens /\ fleetCache' \in Tokens
      BY <1>0, <1>12 DEF Ages, Tokens
    <2> QED BY <1>0, <1>12, <2>1 DEF Ages, CInv, CredTyped
  <1>13. CASE UNCHANGED credVars
    BY <1>0, <1>13 DEF credVars, CInv, CredTyped
  <1> QED
    BY <1>1, <1>2, <1>3, <1>4, <1>5, <1>6, <1>7, <1>8, <1>9, <1>10, <1>11, <1>12, <1>13
    DEF CredNext, Login, Logout

LEMMA CredStarts == CredInit => CInv
PROOF
  <1> SUFFICES ASSUME CredInit PROVE CInv
    OBVIOUS
  <1>1. NoToken \in Tokens /\ Minted(FleetPerson) \in Tokens
    BY DEF NoToken, Minted, Tokens
  <1>2. [Minted(FleetPerson) EXCEPT !.here = FALSE] \in Tokens
    BY DEF Minted, Tokens
  <1>3. Idle \in Found /\ Follows(Idle, Nobody)
    BY IdleFound DEF Idle, Follows
  <1> QED BY <1>1, <1>2, <1>3 DEF CredInit, CInv, CredTyped

(* Types, for any number of runs.                                          *)
THEOREM CredTypeCorrect == CredSpec => []CredTypeOK
PROOF
  <1>1. CInv => CredTypeOK
    BY DEF CInv, CredTyped, CredTypeOK, Found
  <1> QED BY <1>1, CredStarts, CredStep, PTL DEF CredSpec

(* Whatever runs of supi overlap, whoever signs in or out meanwhile and    *)
(* whatever they leave in the files: an environment that names an agent    *)
(* never ends as a person, and a run that began signed out never acts with *)
(* what supi had cached (loadCredential, supiPlaneCredential).             *)
THEOREM ActsOnlyAsNamedCorrect == CredSpec => []ActsOnlyAsNamed
PROOF
  <1>1. CInv => ActsOnlyAsNamed
    BY DEF CInv, Follows, ActsOnlyAsNamed
  <1> QED BY <1>1, CredStarts, CredStep, PTL DEF CredSpec

-----------------------------------------------------------------------------
(* NewestKept. While nothing was lost, abandoned or overlapped there is at *)
(* most one call, and that call holds the newest token until it ends; the  *)
(* cookie may be behind meanwhile, but not before the first grant, the     *)
(* only one whose refusal ends the call without setting it.                *)

CookieIsNewest == jar.refresh # 0 => jar.refresh = live

(* A call that has the newest token, and a cookie that has it too until    *)
(* the first grant.                                                        *)
Sound(i) ==
  /\ ~call[i].abandoned
  /\ call[i].at = "asking" =>
       /\ call[i].refresh = live
       /\ "app" \in call[i].needs => CookieIsNewest
  /\ call[i].at = "refuse" => CookieIsNewest

Alone == \A i, j \in Calls : call[i].at # "idle" /\ call[j].at # "idle" => i = j

InHand ==
  clean =>
    /\ ~revoked
    /\ Alone
    /\ \A i \in Calls : call[i].at # "idle" => Sound(i)
    /\ (\A i \in Calls : call[i].at = "idle") => CookieIsNewest

CallRecord == [kind : {"token", "session"}, at : {"idle", "asking", "refuse"},
               needs : SUBSET AccessTokens, minted : SUBSET AccessTokens,
               refresh : 0 .. MaxGrants, abandoned : BOOLEAN]

(* The next grant is one of those the call needs, and the app's if that    *)
(* is among them (plane-signin.ts asks for it first).                      *)
LEMMA NextIsNeeded ==
  ASSUME NEW c, c.needs \in SUBSET AccessTokens, c.needs # {}
  PROVE  /\ NextGrant(c) \in c.needs
         /\ "app" \in c.needs => NextGrant(c) = "app"
PROOF
  <1>1. \E k \in c.needs : (k = "hub" => "app" \notin c.needs) /\ (k = "library" => c.needs = {k})
    <2>1. CASE "app" \in c.needs
      BY <2>1
    <2>2. CASE "app" \notin c.needs /\ "hub" \in c.needs
      BY <2>2
    <2>3. CASE "app" \notin c.needs /\ "hub" \notin c.needs
      BY <2>3 DEF AccessTokens
    <2> QED BY <2>1, <2>2, <2>3
  <1>2. /\ NextGrant(c) \in c.needs
        /\ NextGrant(c) = "hub" => "app" \notin c.needs
        /\ NextGrant(c) = "library" => c.needs = {NextGrant(c)}
    BY <1>1 DEF NextGrant
  <1>3. "app" \in c.needs => NextGrant(c) = "app"
    BY <1>2 DEF AccessTokens
  <1> QED BY <1>2, <1>3

(* Every record and number stays in its range, for any calls and bound.    *)
THEOREM RefreshTypeCorrect == RefreshSpec => []RefreshTypeOK
PROOF
  <1>1. RefreshInit => RefreshTypeOK
    <2> SUFFICES ASSUME RefreshInit PROVE RefreshTypeOK
      OBVIOUS
    <2>1. live \in 1 .. MaxGrants /\ 1 \in 0 .. MaxGrants /\ 0 \in 0 .. MaxGrants
      BY RefreshAssumption DEF RefreshInit
    <2>2. jar \in Jar
      BY <2>1 DEF RefreshInit, Jar, AccessTokens
    <2>3. Quiet \in CallRecord
      BY <2>1 DEF Quiet, CallRecord
    <2>4. call \in [Calls -> CallRecord]
      BY <2>3 DEF RefreshInit
    <2> QED BY <2>1, <2>2, <2>4 DEF RefreshInit, RefreshTypeOK, CallRecord
  <1>2. RefreshTypeOK /\ [RefreshNext]_refreshVars => RefreshTypeOK'
    <2> SUFFICES ASSUME RefreshTypeOK, [RefreshNext]_refreshVars PROVE RefreshTypeOK'
      OBVIOUS
    <2> USE RefreshAssumption DEF RefreshTypeOK, Jar
    <2>a. \A i \in Calls : call[i] \in CallRecord
      BY DEF CallRecord
    <2>1. ASSUME NEW i \in Calls, NEW kind \in {"token", "session"},
                 NEW needs \in SUBSET AccessTokens, Sends(i, kind, needs)
          PROVE RefreshTypeOK'
      BY <2>1 DEF Sends, Quiet
    <2>2. ASSUME NEW i \in Calls, AskTokens(i) PROVE RefreshTypeOK'
      BY <2>1, <2>2 DEF AskTokens, AccessTokens
    <2>3. ASSUME NEW i \in Calls, RenewSession(i) PROVE RefreshTypeOK'
      BY <2>1, <2>3 DEF RenewSession, AccessTokens
    <2>4. ASSUME NEW i \in Calls, Granted(i) PROVE RefreshTypeOK'
      <3>1. NextGrant(call[i]) \in AccessTokens
        BY <2>4, NextIsNeeded DEF Granted, Asking
      <3>2. Carries(call[i]) \in CallRecord
        <4>1. call[i] \in CallRecord /\ live + 1 \in 0 .. MaxGrants
          BY <2>4, <2>a DEF Granted
        <4>2. Carries(call[i]).needs \in SUBSET AccessTokens
          BY <4>1 DEF Carries, CallRecord
        <4>3. Carries(call[i]).minted \in SUBSET AccessTokens
          BY <4>1, <3>1 DEF Carries, CallRecord
        <4> QED BY <4>1, <4>2, <4>3 DEF Carries, CallRecord
      <3>3. call' \in [Calls -> CallRecord]
        BY <2>4, <3>2 DEF Granted, CallRecord
      <3> QED BY <2>4, <3>3 DEF Granted, CallRecord
    <2>b. ASSUME NEW i \in Calls PROVE Ended(call[i]) \in CallRecord
      BY <2>a DEF Ended, CallRecord
    <2>5. ASSUME NEW i \in Calls, Without(i)
          PROVE (call \in [Calls -> CallRecord])'
      <3>1. call[i].needs \ {NextGrant(call[i])} \in SUBSET AccessTokens
        BY <2>a DEF CallRecord
      <3>2. [call[i] EXCEPT !.needs = @ \ {NextGrant(call[i])}] \in CallRecord
        BY <2>a, <3>1 DEF CallRecord
      <3>3. Forgoes(call[i]) \in CallRecord
        BY <2>b, <3>2 DEF Forgoes
      <3> QED BY <2>5, <3>3, <2>a DEF Without, CallRecord
    <2>6. ASSUME NEW i \in Calls, Denied(i) PROVE RefreshTypeOK'
      BY <2>5, <2>6 DEF Denied, CallRecord, Valid
    <2>7. ASSUME NEW i \in Calls, AnswerLost(i) PROVE RefreshTypeOK'
      BY <2>5, <2>7, live + 1 \in 1 .. MaxGrants DEF AnswerLost, CallRecord
    <2>8. ASSUME NEW i \in Calls, NotAdmitted(i) PROVE RefreshTypeOK'
      <3>1. call' \in [Calls -> CallRecord]
        BY <2>8, <2>b, <2>a DEF NotAdmitted, CallRecord
      <3> QED BY <2>8, <3>1 DEF NotAdmitted, CallRecord
    <2>9. ASSUME NEW i \in Calls, SetsCookies(i) PROVE RefreshTypeOK'
      <3>1. jar' \in Jar
        BY <2>9 DEF SetsCookies
      <3>2. call' \in [Calls -> CallRecord]
        BY <2>9 DEF SetsCookies, Quiet, CallRecord
      <3> QED BY <2>9, <3>1, <3>2 DEF SetsCookies, CallRecord
    <2>10. ASSUME NEW i \in Calls, TurnedAway(i) PROVE RefreshTypeOK'
      BY <2>10 DEF TurnedAway, Quiet
    <2>11. ASSUME NEW i \in Calls, Abandon(i) PROVE RefreshTypeOK'
      BY ZenonT(60), <2>11 DEF Abandon
    <2>12. CASE CookieLapses
      BY <2>12 DEF CookieLapses
    <2>13. CASE SignOut
      BY <2>13 DEF SignOut, SignedOut
    <2>14. CASE UNCHANGED refreshVars
      BY <2>14 DEF refreshVars
    <2> QED
      BY <2>2, <2>3, <2>4, <2>6, <2>7, <2>8, <2>9, <2>10, <2>11, <2>12, <2>13, <2>14
      DEF RefreshNext
  <1> QED BY <1>1, <1>2, PTL DEF RefreshSpec

-----------------------------------------------------------------------------
(* A call that ends, or waits on: what each step leaves in hand.           *)

LEMMA InHandStep ==
  ASSUME RefreshTypeOK, InHand, RefreshNext
  PROVE  InHand'
PROOF
  <1> SUFFICES ASSUME clean' PROVE InHand'
    BY DEF InHand
  <1>a. \A i \in Calls : call[i] \in CallRecord
    BY DEF RefreshTypeOK, CallRecord
  <1>b. \A i \in Calls : Asking(i) =>
          /\ NextGrant(call[i]) \in call[i].needs
          /\ "app" \in call[i].needs => NextGrant(call[i]) = "app"
    BY <1>a, NextIsNeeded DEF Asking, CallRecord
  <1> USE DEF RefreshTypeOK
  <1>1. ASSUME NEW i \in Calls, NEW kind, NEW needs, Sends(i, kind, needs) PROVE InHand'
    BY <1>1 DEF Sends, Sound, InFlight, Quiet, InHand, Alone, CookieIsNewest
  (* One call moves, and the others are idle.                              *)
  <1>2. ASSUME NEW i \in Calls, clean, call[i].at # "idle", ~revoked',
               \A j \in Calls \ {i} : call'[j] = call[j],
               call'[i].at # "idle" => Sound(i)', call'[i].at = "idle" => CookieIsNewest'
        PROVE InHand'
    BY <1>2 DEF InHand, Alone, Sound
  <1>3. ASSUME NEW i \in Calls, Granted(i) PROVE InHand'
    <2>1. call'[i] = Carries(call[i]) /\ clean /\ Sound(i) /\ call[i].at = "asking"
      BY <1>3, clean' DEF Granted, Asking, InHand
    <2>2. /\ call'[i].at = "asking" /\ call'[i].refresh = live'
          /\ call'[i].abandoned = call[i].abandoned
          /\ call'[i].needs = call[i].needs \ {NextGrant(call[i])}
      BY <1>3, <1>a, <2>1 DEF Granted, Carries, CallRecord
    <2>3. "app" \notin call'[i].needs
      BY <1>3, <1>b, <2>2 DEF Granted
    <2> QED BY <1>2, <1>3, <2>1, <2>2, <2>3 DEF Granted, Sound, InHand
  <1>4. ASSUME NEW i \in Calls, Denied(i) PROVE InHand'
    <2>1. clean /\ Sound(i) /\ call[i].at = "asking" /\ ~revoked /\ call'[i] = Forgoes(call[i])
      BY <1>4, clean' DEF Denied, Asking, InHand, Without
    <2>2. ~revoked' /\ (CookieIsNewest' <=> CookieIsNewest) /\ live' = live
      BY <1>4, <2>1 DEF Denied, Valid, Sound, CookieIsNewest
    <2>3. call'[i].abandoned = call[i].abandoned /\ call'[i].refresh = call[i].refresh
      BY <1>a, <2>1 DEF Forgoes, Ended, CallRecord
    <2>4. CASE NextGrant(call[i]) = "app"
      <3>1. call'[i].at = "refuse" /\ CookieIsNewest
        BY <1>4, <1>a, <1>b, <2>1, <2>4 DEF Forgoes, Ended, CallRecord, Denied, Sound
      <3> QED BY <1>2, <1>4, <2>1, <2>2, <2>3, <3>1 DEF Denied, Sound, Without
    <2>5. CASE NextGrant(call[i]) # "app"
      <3>1. call'[i].at = "asking" /\ "app" \notin call'[i].needs
        BY <1>4, <1>a, <1>b, <2>1, <2>5 DEF Forgoes, CallRecord, Denied
      <3> QED BY <1>2, <1>4, <2>1, <2>2, <2>3, <3>1 DEF Denied, Sound, Without
    <2> QED BY <2>4, <2>5
  <1>5. ASSUME NEW i \in Calls, SetsCookies(i) PROVE InHand'
    <2>1. clean /\ Sound(i) /\ call'[i].at = "idle" /\ call[i].at = "asking"
      BY <1>5, clean' DEF SetsCookies, InHand, Quiet
    <2>2. CookieIsNewest'
      BY <1>5, <2>1 DEF SetsCookies, Sound, CookieIsNewest
    <2> QED BY <1>2, <1>5, <2>1, <2>2 DEF SetsCookies, InHand
  <1>6. ASSUME NEW i \in Calls, TurnedAway(i) PROVE InHand'
    <2>1. clean /\ Sound(i) /\ call'[i].at = "idle" /\ call[i].at = "refuse"
      BY <1>6, clean' DEF TurnedAway, InHand, Quiet
    <2>2. CookieIsNewest'
      BY <1>6, <2>1 DEF TurnedAway, Sound, CookieIsNewest
    <2> QED BY <1>2, <1>6, <2>1, <2>2 DEF TurnedAway, InHand
  <1>7. CASE CookieLapses
    <2>1. jar'.refresh = jar.refresh
      BY <1>7 DEF CookieLapses, Jar
    <2> QED BY <1>7, <2>1 DEF CookieLapses, InHand, Alone, Sound, CookieIsNewest
  <1>8. CASE SignOut
    BY <1>8 DEF SignOut, SignedOut, InHand, Alone, Sound, CookieIsNewest
  <1> QED
    BY <1>1, <1>3, <1>4, <1>5, <1>6, <1>7, <1>8
    DEF RefreshNext, AskTokens, RenewSession, AnswerLost, NotAdmitted, Abandon

(* Whatever the plane grants, refuses or leaves unanswered, a browser      *)
(* whose calls neither overlap nor are lost is left with the newest token  *)
(* (plane-signin.ts: "each grant spending the refresh token the previous   *)
(* one returned").                                                         *)
THEOREM NewestKeptCorrect == RefreshSpec => []NewestKept
PROOF
  <1>1. RefreshInit => InHand
    BY DEF RefreshInit, InHand, Alone, CookieIsNewest, Quiet
  <1>2. RefreshTypeOK /\ InHand /\ [RefreshNext]_refreshVars => InHand'
    <2>1. CASE UNCHANGED refreshVars
      BY <2>1 DEF refreshVars, InHand, Alone, Sound, CookieIsNewest
    <2> QED BY <2>1, InHandStep
  <1>3. InHand => NewestKept
    BY DEF InHand, NewestKept, InFlight, CookieIsNewest
  <1> QED BY <1>1, <1>2, <1>3, RefreshTypeCorrect, PTL DEF RefreshSpec

-----------------------------------------------------------------------------
(* ActsAsOneself. The mapping of a user is written once. A request that    *)
(* will write it holds an address nobody else has verified, and found the  *)
(* user of that address without a mapping, or not there at all; so nobody  *)
(* else is about to write it (Row, OneHolder). Who has acted as a user was *)
(* mapped to it then, and still is.                                        *)

(* An address is verified by one principal at a time.                      *)
OneHolder ==
  \A p, q \in Principals : verified[p] = verified[q] /\ verified[p] # NoOne => p = q

(* The unique index on the mapping, and that only users have one.          *)
OneUser ==
  \A x, y \in Addresses : mapped[x] = mapped[y] /\ mapped[x] # NoOne => x = y
MappedUsers == \A x \in Addresses : mapped[x] # NoOne => x \in users

(* What a request knows at each of its steps.                              *)
Row(s) ==
  s.at # "idle" =>
    /\ s.who \in Principals /\ s.address = verified[s.who]
    /\ s.at \in {"candidate", "upsert", "insert", "map"} => s.address \in Addresses
    /\ s.at \in {"upsert", "insert", "map"} => mapped[s.address] \in {NoOne, s.who}
    /\ s.at = "map" => s.user = s.address /\ s.user \in users
    /\ s.at \in {"join", "role"} => s.user \in Addresses /\ mapped[s.user] = s.who
    /\ s.at \in {"inviteFind", "inviteInsert"} => s.target \in Addresses

Rows == \A v \in Visits : Row(visit[v])
ActedMapped == \A x \in acted : mapped[x[2]] = x[1]
OneOwner == managed = 0 /\ Members # {} => \E u \in Addresses : Owners = {u}

AInv ==
  AccTypeOK /\ OneHolder /\ OneUser /\ MappedUsers /\ Rows /\ ActedMapped /\ OneOwner

-----------------------------------------------------------------------------
(* How a request moves: its own row changes and the others stay.           *)

Only(v) == \A w \in Visits \ {v} : visit'[w] = visit[w]

LEMMA NoVisitTyped == NoVisit \in Visit /\ NoVisit.at = "idle"
PROOF
  BY DEF NoVisit, Visit, Phases

LEMMA AdvancesRow ==
  ASSUME visit \in [Visits -> Visit], NEW v \in Visits, NEW step \in Phases, Advances(v, step)
  PROVE  /\ visit' \in [Visits -> Visit] /\ Only(v)
         /\ visit'[v].at = step /\ visit'[v].who = visit[v].who
         /\ visit'[v].address = visit[v].address /\ visit'[v].user = visit[v].user
         /\ visit'[v].target = visit[v].target
PROOF
  BY DEF Advances, Visit, Only

LEMMA EndsRow ==
  ASSUME visit \in [Visits -> Visit], NEW v \in Visits, Ends(v)
  PROVE  visit' \in [Visits -> Visit] /\ Only(v) /\ visit'[v].at = "idle"
PROOF
  BY NoVisitTyped DEF Ends, Only

LEMMA WithRow ==
  ASSUME visit \in [Visits -> Visit], NEW v \in Visits, NEW step \in Phases,
         NEW u \in Addresses, With(v, step, u)
  PROVE  /\ visit' \in [Visits -> Visit] /\ Only(v)
         /\ visit'[v].at = step /\ visit'[v].who = visit[v].who
         /\ visit'[v].address = visit[v].address /\ visit'[v].user = u
PROOF
  <1> DEFINE row == [visit[v] EXCEPT !.at = step, !.user = u]
  <1>1. /\ row.at = step /\ row.who = visit[v].who
        /\ row.address = visit[v].address /\ row.user = u
    BY DEF Visit
  <1>2. row \in Visit
    BY DEF Visit
  <1>3. visit' = [visit EXCEPT ![v] = row]
    BY DEF With
  <1> HIDE DEF row
  <1> QED BY <1>1, <1>2, <1>3 DEF Only

LEMMA TryAgainRow ==
  ASSUME visit \in [Visits -> Visit], NEW v \in Visits, TryAgain(v)
  PROVE  /\ visit' \in [Visits -> Visit] /\ Only(v)
         /\ \/ visit'[v].at = "idle"
            \/ /\ visit'[v].at = "find" /\ visit'[v].who = visit[v].who
               /\ visit'[v].address = visit[v].address
PROOF
  <1> DEFINE row == [visit[v] EXCEPT !.at = "find", !.again = TRUE]
  <1>1. row.at = "find" /\ row.who = visit[v].who /\ row.address = visit[v].address
    BY DEF Visit
  <1>2. row \in Visit
    BY ZenonT(60) DEF Visit, Phases
  <1>3. Ends(v) \/ visit' = [visit EXCEPT ![v] = row]
    BY DEF TryAgain
  <1> HIDE DEF row
  <1> QED BY <1>1, <1>2, <1>3, EndsRow DEF Only

LEMMA AsksRow ==
  ASSUME visit \in [Visits -> Visit], NEW v \in Visits, NEW step \in Phases,
         NEW u \in Addresses, NEW r \in Roles \cup {"none"}, Asks(v, step, u, r)
  PROVE  /\ visit' \in [Visits -> Visit] /\ Only(v)
         /\ visit'[v].at = step /\ visit'[v].who = visit[v].who
         /\ visit'[v].address = visit[v].address /\ visit'[v].target = u
PROOF
  <1> DEFINE row == [visit[v] EXCEPT !.at = step, !.target = u, !.role = r]
  <1>1. /\ row.at = step /\ row.who = visit[v].who /\ row.address = visit[v].address
        /\ row.target = u
    BY DEF Visit
  <1>2. row \in Visit
    BY DEF Visit
  <1>3. visit' = [visit EXCEPT ![v] = row]
    BY DEF Asks
  <1> HIDE DEF row
  <1> QED BY <1>1, <1>2, <1>3 DEF Only

-----------------------------------------------------------------------------
LEMMA AInvIs ==
  AInv =>
    /\ verified \in [Principals -> Addresses \cup {NoOne}] /\ moves \in 0 .. MaxMoves
    /\ users \subseteq Addresses /\ mapped \in [Addresses -> Principals \cup {NoOne}]
    /\ member \in [Addresses -> Roles \cup {"none"}]
    /\ visit \in [Visits -> Visit] /\ managed \in Nat /\ acted \subseteq Principals \X Addresses
    /\ OneHolder /\ OneUser /\ MappedUsers /\ Rows /\ ActedMapped /\ OneOwner
    /\ NoOne \notin Principals /\ NoOne \notin Addresses
PROOF
  BY AccAssumption DEF AInv, AccTypeOK

(* What the other requests know stays true.                                *)
LEMMA RowsKept ==
  ASSUME Rows, NEW v \in Visits, Only(v), Row(visit[v])', users \subseteq users',
         UNCHANGED <<verified, mapped>>
  PROVE  Rows'
PROOF
  <1> SUFFICES ASSUME NEW w \in Visits, w # v PROVE Row(visit[w])'
    BY DEF Rows
  <1>1. visit'[w] = visit[w] /\ Row(visit[w])
    BY DEF Only, Rows
  <1> QED BY <1>1 DEF Row

(* A request that inserts a user at most.                                  *)
LEMMA Inserts ==
  ASSUME AInv, NEW v \in Visits, visit' \in [Visits -> Visit], Only(v), Row(visit[v])',
         users \subseteq users', users' \subseteq Addresses,
         UNCHANGED <<verified, moves, mapped, member, managed, acted>>
  PROVE  AInv'
PROOF
  <1>1. Rows'
    BY DEF Rows, Row, Only, AInv
  <1>2. Members' = Members /\ Owners' = Owners
    BY DEF Members, Owners
  <1>3. MappedUsers'
    BY DEF AInv, MappedUsers
  <1> QED BY <1>1, <1>2, <1>3 DEF AInv, AccTypeOK, OneHolder, OneUser, ActedMapped, OneOwner

LEMMA Looks ==
  ASSUME AInv, NEW v \in Visits, visit' \in [Visits -> Visit], Only(v), Row(visit[v])',
         UNCHANGED <<verified, moves, users, mapped, member, managed, acted>>
  PROVE  AInv'
PROOF
  BY Inserts DEF AInv, AccTypeOK

(* A request that only looks, and goes on to a step where nothing new is   *)
(* known of it.                                                            *)
LEMMA Walks ==
  ASSUME AInv, NEW v \in Visits, visit' \in [Visits -> Visit], Only(v),
         visit[v].at # "idle", visit'[v].who = visit[v].who,
         visit'[v].address = visit[v].address,
         visit'[v].at \notin {"candidate", "upsert", "insert", "map", "join", "role",
                            "inviteFind", "inviteInsert"},
         UNCHANGED <<verified, moves, users, mapped, member, managed, acted>>
  PROVE  AInv'
PROOF
  <1>1. Row(visit[v])
    BY DEF AInv, Rows
  <1>2. Row(visit[v])'
    BY <1>1 DEF Row
  <1> QED BY <1>2, Looks

LEMMA Leaving ==
  ASSUME AInv, NEW v \in Visits, Ends(v),
         UNCHANGED <<verified, moves, users, mapped, member, managed, acted>>
  PROVE  AInv'
PROOF
  BY EndsRow, Looks DEF AInv, AccTypeOK, Row

-----------------------------------------------------------------------------
(* The steps of findOrAdoptOrgHuman and provisionOrgHuman.                 *)

LEMMA VerifyStep ==
  ASSUME AInv, NEW p \in Principals, NEW a \in Addresses, Verify(p, a)
  PROVE  AInv'
PROOF
  <1>0. AInv
    OBVIOUS
  <1> USE AInvIs DEF Verify, tables
  <1>1. verified' \in [Principals -> Addresses \cup {NoOne}] /\ moves' \in 0 .. MaxMoves
    BY AccAssumption
  <1>2. \A q \in Principals : verified'[q] = IF q = p THEN a ELSE verified[q]
    OBVIOUS
  <1>3. OneHolder'
    BY <1>2 DEF OneHolder
  <1>4. Rows'
    BY <1>2 DEF Rows, Row
  <1>5. Members' = Members /\ Owners' = Owners
    BY DEF Members, Owners
  <1> QED BY <1>0, <1>1, <1>3, <1>4, <1>5
      DEF AInv, AccTypeOK, OneUser, MappedUsers, ActedMapped, OneOwner

LEMMA FindSteps ==
  ASSUME AInv, NEW v \in Visits,
         Arrive(v) \/ FindMapped(v) \/ FindCandidate(v) \/ UpsertUser(v)
  PROVE  AInv'
PROOF
  <1>0. AInv /\ Row(visit[v]) /\ visit[v] \in Visit
    BY AInvIs DEF Rows
  <1>1. CASE Arrive(v)
    <2>1. PICK p \in Principals :
            visit' = [visit EXCEPT ![v] = [NoVisit EXCEPT !.at = "find", !.who = p,
                                                          !.address = verified[p]]]
      BY <1>1 DEF Arrive
    <2> DEFINE row == [NoVisit EXCEPT !.at = "find", !.who = p, !.address = verified[p]]
    <2>2. row.at = "find" /\ row.who = p /\ row.address = verified[p]
      BY NoVisitTyped DEF Visit
    <2>3. row \in Visit
      BY ZenonT(60), <1>0, AInvIs, NoVisitTyped DEF Visit, Phases
    <2>4. visit' = [visit EXCEPT ![v] = row]
      BY <2>1
    <2> HIDE DEF row
    <2>5. visit' \in [Visits -> Visit] /\ Only(v) /\ Row(visit[v])'
      BY <1>0, <1>1, <2>2, <2>3, <2>4, AInvIs DEF Only, Row, Arrive
    <2> QED BY <1>1, <2>5, Looks DEF Arrive, tables
  <1>2. CASE FindMapped(v)
    <2>1. CASE \E u \in MappedTo(visit[v].who) : With(v, "join", u)
      <3>1. PICK u \in Addresses : u \in users /\ mapped[u] = visit[v].who /\ With(v, "join", u)
        BY <1>0, <2>1, AInvIs DEF MappedTo
      <3>2. /\ visit' \in [Visits -> Visit] /\ Only(v) /\ visit'[v].at = "join"
            /\ visit'[v].who = visit[v].who /\ visit'[v].address = visit[v].address
            /\ visit'[v].user = u
        BY <1>0, <3>1, WithRow, AInvIs DEF Phases
      <3>3. Row(visit[v])'
        BY <1>0, <1>2, <3>1, <3>2 DEF Row, FindMapped, tables
      <3> QED BY <1>2, <3>2, <3>3, Looks DEF FindMapped, tables
    <2>2. CASE Ends(v)
      BY <1>2, <2>2, Leaving DEF FindMapped, tables
    <2>3. CASE visit[v].address # NoOne /\ Advances(v, "candidate")
      <3>1. /\ visit' \in [Visits -> Visit] /\ Only(v) /\ visit'[v].at = "candidate"
            /\ visit'[v].who = visit[v].who /\ visit'[v].address = visit[v].address
        BY <1>0, <2>3, AdvancesRow, AInvIs DEF Phases
      <3>2. Row(visit[v])'
        BY <1>0, <1>2, <2>3, <3>1 DEF Row, FindMapped, tables, Visit
      <3> QED BY <1>2, <3>1, <3>2, Looks DEF FindMapped, tables
    <2> QED BY <1>2, <2>1, <2>2, <2>3 DEF FindMapped
  <1>3. CASE FindCandidate(v)
    <2> DEFINE u == visit[v].address
    <2>0. u \in Addresses /\ visit[v].at = "candidate"
      BY <1>0, <1>3 DEF Row, FindCandidate
    <2>1. CASE u \notin users /\ Advances(v, "upsert")
      <3>1. mapped[u] = NoOne
        BY <1>0, <2>0, <2>1, AInvIs DEF MappedUsers
      <3>2. /\ visit' \in [Visits -> Visit] /\ Only(v) /\ visit'[v].at = "upsert"
            /\ visit'[v].who = visit[v].who /\ visit'[v].address = visit[v].address
        BY <1>0, <2>1, AdvancesRow, AInvIs DEF Phases
      <3>3. Row(visit[v])'
        BY <1>0, <1>3, <2>0, <3>1, <3>2 DEF Row, FindCandidate, tables
      <3> QED BY <1>3, <3>2, <3>3, Looks DEF FindCandidate, tables
    <2>2. CASE u \in users /\ Adoptable(u) /\ With(v, "map", u)
      <3>2. /\ visit' \in [Visits -> Visit] /\ Only(v) /\ visit'[v].at = "map"
            /\ visit'[v].who = visit[v].who /\ visit'[v].address = visit[v].address
            /\ visit'[v].user = u
        BY <1>0, <2>0, <2>2, WithRow, AInvIs DEF Phases
      <3>3. Row(visit[v])'
        BY <1>0, <1>3, <2>0, <2>2, <3>2 DEF Row, FindCandidate, tables, Adoptable
      <3> QED BY <1>3, <3>2, <3>3, Looks DEF FindCandidate, tables
    <2>3. CASE mapped[u] = visit[v].who /\ With(v, "join", u)
      <3>2. /\ visit' \in [Visits -> Visit] /\ Only(v) /\ visit'[v].at = "join"
            /\ visit'[v].who = visit[v].who /\ visit'[v].address = visit[v].address
            /\ visit'[v].user = u
        BY <1>0, <2>0, <2>3, WithRow, AInvIs DEF Phases
      <3>3. Row(visit[v])'
        BY <1>0, <1>3, <2>0, <2>3, <3>2 DEF Row, FindCandidate, tables
      <3> QED BY <1>3, <3>2, <3>3, Looks DEF FindCandidate, tables
    <2>4. CASE Ends(v)
      BY <1>3, <2>4, Leaving DEF FindCandidate, tables
    <2> QED BY <1>3, <2>1, <2>2, <2>3, <2>4 DEF FindCandidate
  <1>4. CASE UpsertUser(v)
    <2> DEFINE u == visit[v].address
    <2>0. u \in Addresses /\ mapped[u] \in {NoOne, visit[v].who} /\ visit[v].at = "upsert"
      BY <1>0, <1>4 DEF Row, UpsertUser
    <2>1. CASE u \in users /\ With(v, "map", u)
      <3>2. /\ visit' \in [Visits -> Visit] /\ Only(v) /\ visit'[v].at = "map"
            /\ visit'[v].who = visit[v].who /\ visit'[v].address = visit[v].address
            /\ visit'[v].user = u
        BY <1>0, <2>0, <2>1, WithRow, AInvIs DEF Phases
      <3>3. Row(visit[v])'
        BY <1>0, <1>4, <2>0, <2>1, <3>2 DEF Row, UpsertUser, tables
      <3> QED BY <1>4, <3>2, <3>3, Looks DEF UpsertUser, tables
    <2>2. CASE Advances(v, "insert")
      <3>2. /\ visit' \in [Visits -> Visit] /\ Only(v) /\ visit'[v].at = "insert"
            /\ visit'[v].who = visit[v].who /\ visit'[v].address = visit[v].address
        BY <1>0, <2>2, AdvancesRow, AInvIs DEF Phases
      <3>3. Row(visit[v])'
        BY <1>0, <1>4, <2>0, <3>2 DEF Row, UpsertUser, tables
      <3> QED BY <1>4, <3>2, <3>3, Looks DEF UpsertUser, tables
    <2> QED BY <1>4, <2>1, <2>2 DEF UpsertUser
  <1> QED BY <1>1, <1>2, <1>3, <1>4

(* Two requests that both insert the user of an address: the second starts *)
(* over, or fails.                                                         *)
LEMMA AgainStep ==
  ASSUME AInv, NEW v \in Visits, TryAgain(v), visit[v].at # "idle",
         UNCHANGED <<verified, moves, users, mapped, member, managed, acted>>
  PROVE  AInv'
PROOF
  <1>1. AInv /\ Row(visit[v]) /\ visit \in [Visits -> Visit]
    BY AInvIs DEF Rows
  <1>2. visit' \in [Visits -> Visit] /\ Only(v) /\ Row(visit[v])'
    BY <1>1, TryAgainRow DEF Row
  <1> QED BY <1>2, Looks

LEMMA InsertStep ==
  ASSUME AInv, NEW v \in Visits, InsertUser(v)
  PROVE  AInv'
PROOF
  <1> DEFINE u == visit[v].address
  <1>0. AInv /\ Row(visit[v]) /\ visit \in [Visits -> Visit]
    BY AInvIs DEF Rows
  <1>1. u \in Addresses /\ mapped[u] \in {NoOne, visit[v].who} /\ visit[v].at = "insert"
    BY <1>0 DEF Row, InsertUser
  <1>2. CASE u \in users
    BY <1>1, <1>2, AgainStep DEF InsertUser
  <1>3. CASE u \notin users
    <2>1. With(v, "map", u) /\ users' = users \cup {u}
      BY <1>3 DEF InsertUser
    <2>2. /\ visit' \in [Visits -> Visit] /\ Only(v) /\ visit'[v].at = "map"
          /\ visit'[v].who = visit[v].who /\ visit'[v].address = visit[v].address
          /\ visit'[v].user = u
      BY <1>0, <1>1, <2>1, WithRow DEF Phases
    <2>3. Row(visit[v])'
      BY <1>0, <1>1, <2>1, <2>2 DEF Row, InsertUser
    <2> QED BY <1>0, <1>1, <2>1, <2>2, <2>3, Inserts, AInvIs DEF InsertUser
  <1> QED BY <1>2, <1>3

(* The mapping is written once: who writes it is the only one who could.   *)
LEMMA MapStep ==
  ASSUME AInv, NEW v \in Visits, MapUser(v)
  PROVE  AInv'
PROOF
  <1> DEFINE u == visit[v].user
             p == visit[v].who
  <1>0. AInv /\ Row(visit[v]) /\ visit \in [Visits -> Visit]
    BY AInvIs DEF Rows
  <1>1. /\ u \in Addresses /\ p \in Principals /\ u \in users /\ u = visit[v].address
        /\ mapped[u] \in {NoOne, p} /\ verified[p] = u /\ visit[v].at = "map"
    BY <1>0 DEF Row, MapUser
  <1>2. CASE \E x \in users \ {u} : mapped[x] = p
    BY <1>1, <1>2, AgainStep DEF MapUser
  <1>3. CASE ~\E x \in users \ {u} : mapped[x] = p
    <2>1. mapped' = [mapped EXCEPT ![u] = p] /\ Advances(v, "join")
      BY <1>3 DEF MapUser
    <2>2. /\ visit' \in [Visits -> Visit] /\ Only(v) /\ visit'[v].at = "join"
          /\ visit'[v].who = p /\ visit'[v].address = visit[v].address
          /\ visit'[v].user = u
      BY <1>0, <2>1, AdvancesRow DEF Phases
    <2>3. mapped' \in [Addresses -> Principals \cup {NoOne}] /\ mapped'[u] = p
      BY <1>1, <2>1, AInvIs
    <2>4. \A x \in Addresses \ {u} : mapped'[x] = mapped[x]
      BY <2>1, AInvIs
    <2>5. Row(visit[v])'
      BY <1>0, <1>1, <2>2, <2>3 DEF Row, MapUser
    <2>6. ASSUME NEW w \in Visits \ {v} PROVE Row(visit[w])'
      <3>1. Row(visit[w]) /\ visit'[w] = visit[w]
        BY <2>2, AInvIs DEF Rows, Only
      <3>2. ASSUME visit[w].at \in {"upsert", "insert", "map"}, visit[w].address = u
            PROVE  visit[w].who = p
        BY <1>1, <3>1, <3>2, AInvIs DEF Row, OneHolder
      <3>3. ASSUME visit[w].at \in {"join", "role"}, visit[w].user = u
            PROVE  visit[w].who = p
        BY <1>1, <3>1, <3>3, AInvIs DEF Row
      <3> QED BY <2>3, <2>4, <3>1, <3>2, <3>3 DEF Row, MapUser
    <2>7. Rows'
      BY <2>5, <2>6 DEF Rows
    <2>8. OneUser'
      BY <1>1, <1>3, <2>3, <2>4, AInvIs DEF OneUser, MappedUsers
    <2>9. MappedUsers'
      BY <1>1, <2>3, <2>4, AInvIs DEF MappedUsers, MapUser
    <2>10. ActedMapped'
      BY <1>1, <2>3, <2>4, AInvIs DEF ActedMapped, MapUser
    <2>11. Members' = Members /\ Owners' = Owners
      BY DEF Members, Owners, MapUser
    <2> QED BY <1>0, <2>2, <2>3, <2>7, <2>8, <2>9, <2>10, <2>11
        DEF AInv, AccTypeOK, OneHolder, OneOwner, MapUser
  <1> QED BY <1>2, <1>3

(* Whoever joins first is the owner, and nobody after them.                *)
LEMMA JoinStep ==
  ASSUME AInv, NEW v \in Visits, Join(v)
  PROVE  AInv'
PROOF
  <1> DEFINE u == visit[v].user
  <1>0. AInv /\ Row(visit[v]) /\ visit \in [Visits -> Visit]
    BY AInvIs DEF Rows
  <1>1. u \in Addresses /\ visit[v].at = "join"
    BY <1>0 DEF Row, Join
  <1>2. /\ member' = [member EXCEPT ![u] = IF member[u] # "none" THEN member[u]
                       ELSE IF Members = {} THEN "owner" ELSE "member"]
        /\ Advances(v, "role")
    BY DEF Join
  <1>3. /\ visit' \in [Visits -> Visit] /\ Only(v) /\ visit'[v].at = "role"
        /\ visit'[v].who = visit[v].who /\ visit'[v].address = visit[v].address
        /\ visit'[v].user = u
    BY <1>0, <1>2, AdvancesRow DEF Phases
  <1>4. Row(visit[v])' /\ Rows'
    <2>1. Row(visit[v])'
      BY <1>0, <1>1, <1>3 DEF Row, Join
    <2> QED BY <1>0, <1>3, <2>1, AInvIs, RowsKept DEF Join
  <1>5. member' \in [Addresses -> Roles \cup {"none"}]
    BY <1>1, <1>2, AInvIs DEF Roles
  <1>6. OneOwner'
    <2>1. CASE member[u] # "none"
      BY <1>2, <2>1, AInvIs DEF OneOwner, Members, Owners, Join
    <2>2. CASE member[u] = "none" /\ Members = {}
      <3>1. Owners' = {u}
        BY <1>1, <1>2, <2>2, AInvIs DEF Members, Owners
      <3> QED BY <1>1, <3>1 DEF OneOwner
    <2>3. CASE member[u] = "none" /\ Members # {}
      <3>1. Owners' = Owners
        BY <1>1, <1>2, <2>3, AInvIs DEF Members, Owners
      <3> QED BY <2>3, <3>1, AInvIs DEF OneOwner, Join
    <2> QED BY <2>1, <2>2, <2>3
  <1> QED BY <1>0, <1>3, <1>4, <1>5, <1>6
      DEF AInv, AccTypeOK, OneHolder, OneUser, MappedUsers, ActedMapped, Join

LEMMA RoleStep ==
  ASSUME AInv, NEW v \in Visits, ReadRole(v)
  PROVE  AInv'
PROOF
  <1> DEFINE u == visit[v].user
  <1>0. AInv /\ Row(visit[v]) /\ visit \in [Visits -> Visit]
    BY AInvIs DEF Rows
  <1>1. /\ u \in Addresses /\ visit[v].who \in Principals /\ mapped[u] = visit[v].who
        /\ visit[v].at = "role"
    BY <1>0 DEF Row, ReadRole
  <1>2. acted' \in {acted, acted \cup {<<visit[v].who, u>>}}
    BY DEF ReadRole
  <1>3. acted' \subseteq Principals \X Addresses /\ ActedMapped'
    BY <1>1, <1>2, AInvIs DEF ActedMapped, ReadRole, tables
  <1>4. visit' \in [Visits -> Visit] /\ Only(v) /\ Row(visit[v])'
    <2>1. CASE Ends(v)
      BY <1>0, <2>1, EndsRow DEF Row
    <2>2. CASE Advances(v, "owner")
      BY <1>0, <1>1, <2>2, AdvancesRow DEF Row, Phases, ReadRole, tables
    <2> QED BY <2>1, <2>2 DEF ReadRole
  <1>5. Rows'
    BY <1>0, <1>4, AInvIs, RowsKept DEF ReadRole, tables
  <1>6. Members' = Members /\ Owners' = Owners
    BY DEF Members, Owners, ReadRole, tables
  <1> QED BY <1>0, <1>3, <1>4, <1>5, <1>6
      DEF AInv, AccTypeOK, OneHolder, OneUser, MappedUsers, OneOwner, ReadRole, tables

-----------------------------------------------------------------------------
(* The steps of an owner.                                                  *)

LEMMA SetMemberStep ==
  ASSUME AInv, NEW v \in Visits, NEW r \in Roles \cup {"none"}, SetMember(v, r)
  PROVE  AInv'
PROOF
  <1>0. AInv /\ visit \in [Visits -> Visit]
    BY AInvIs
  <1>1. visit' \in [Visits -> Visit] /\ Only(v) /\ visit'[v].at = "idle"
    BY <1>0, EndsRow DEF SetMember
  <1>2. Rows'
    BY <1>0, <1>1 DEF AInv, Rows, Row, Only, SetMember
  <1>3. member' \in [Addresses -> Roles \cup {"none"}]
    BY <1>0, AInvIs DEF SetMember
  <1>4. managed' \in Nat /\ managed' # 0
    <2>1. managed \in Nat /\ managed' = managed + 1
      BY <1>0, AInvIs DEF SetMember
    <2> QED BY <2>1
  <1> QED BY <1>0, <1>1, <1>2, <1>3, <1>4
      DEF AInv, AccTypeOK, OneHolder, OneUser, MappedUsers, ActedMapped, OneOwner, SetMember

LEMMA OwnerSteps ==
  ASSUME AInv, NEW v \in Visits,
         \/ AskInvite(v) \/ AskRole(v) \/ Leaves(v) \/ InviteFind(v) \/ InviteInsert(v)
         \/ InviteRole(v) \/ LastOwner(v) \/ SetRole(v)
  PROVE  AInv'
PROOF
  <1>0. AInv /\ Row(visit[v]) /\ visit \in [Visits -> Visit] /\ visit[v] \in Visit
    BY AInvIs DEF Rows
  <1>a. ASSUME NEW step \in {"inviteFind", "lastOwner", "setRole"}, NEW u \in Addresses,
               NEW r \in Roles \cup {"none"}, Asks(v, step, u, r)
        PROVE  AInv'
    <2>1. /\ visit' \in [Visits -> Visit] /\ Only(v)
          /\ visit'[v].at = step /\ visit'[v].who = visit[v].who
          /\ visit'[v].address = visit[v].address /\ visit'[v].target = u
      BY <1>a, <1>0, AsksRow DEF Phases
    <2>2. Row(visit[v])'
      BY <1>a, <1>0, <2>1 DEF Row, Asks, tables
    <2> QED BY <1>a, <2>1, <2>2, Looks DEF Asks, tables
  <1>1. CASE AskInvite(v)
    BY <1>1, <1>a DEF AskInvite
  <1>2. CASE AskRole(v)
    BY <1>2, <1>a DEF AskRole
  <1>3. CASE Leaves(v)
    BY <1>3, Leaving DEF Leaves, tables
  <1>4. CASE InviteFind(v)
    <2>1. /\ visit' \in [Visits -> Visit] /\ Only(v)
          /\ visit'[v].at \in {"inviteRole", "inviteInsert"} /\ visit'[v].who = visit[v].who
          /\ visit'[v].address = visit[v].address /\ visit'[v].target = visit[v].target
      BY <1>0, <1>4, AdvancesRow DEF InviteFind, Phases
    <2>2. Row(visit[v])'
      BY <1>0, <1>4, <2>1 DEF Row, InviteFind, tables
    <2> QED BY <1>4, <2>1, <2>2, Looks DEF InviteFind, tables
  <1>5. CASE InviteInsert(v)
    <2>1. /\ visit[v].target \in Addresses /\ users \subseteq users' /\ users' \subseteq Addresses
          /\ UNCHANGED <<verified, moves, mapped, member, managed, acted>>
      BY <1>0, <1>5, AInvIs DEF Row, InviteInsert
    <2>2. visit' \in [Visits -> Visit] /\ Only(v) /\ Row(visit[v])'
      <3>1. CASE Ends(v)
        BY <1>0, <3>1, EndsRow DEF Row
      <3>2. CASE Advances(v, "inviteRole")
        BY <1>0, <1>5, <2>1, <3>2, AdvancesRow DEF Row, Phases, InviteInsert
      <3> QED BY <1>5, <3>1, <3>2 DEF InviteInsert
    <2> QED BY <2>1, <2>2, Inserts
  <1>6. CASE InviteRole(v)
    BY <1>0, <1>6, SetMemberStep DEF InviteRole, Visit
  <1>7. CASE LastOwner(v)
    <2>1. CASE Ends(v)
      BY <1>7, <2>1, Leaving DEF LastOwner, tables
    <2>2. CASE Advances(v, "setRole")
      BY <1>0, <1>7, <2>2, AdvancesRow, Walks DEF LastOwner, tables, Phases
    <2> QED BY <1>7, <2>1, <2>2 DEF LastOwner
  <1>8. CASE SetRole(v)
    <2>1. \E r \in Roles \cup {"none"} : SetMember(v, r)
      BY <1>0, <1>8 DEF SetRole, Visit
    <2> QED BY <2>1, SetMemberStep
  <1> QED BY <1>1, <1>2, <1>3, <1>4, <1>5, <1>6, <1>7, <1>8

-----------------------------------------------------------------------------
LEMMA AccStarts == AccInit => AInv
PROOF
  <1> SUFFICES ASSUME AccInit PROVE AInv
    OBVIOUS
  <1>1. PICK p \in Principals, u \in Addresses \cup {NoOne} :
          /\ verified = [q \in Principals |-> IF q = p THEN u ELSE NoOne]
          /\ users = {u} \ {NoOne}
          /\ mapped = [x \in Addresses |-> IF x = u THEN p ELSE NoOne]
          /\ member = [x \in Addresses |-> IF x = u THEN "owner" ELSE "none"]
          /\ acted = {<<p, x>> : x \in {u} \ {NoOne}}
          /\ moves = 0 /\ managed = 0
          /\ visit = [v \in Visits |-> NoVisit]
    BY DEF AccInit
  <1> USE AccAssumption
  <1>2. visit \in [Visits -> Visit] /\ Rows
    BY <1>1, NoVisitTyped DEF Rows, Row
  <1>3. acted \subseteq Principals \X Addresses /\ ActedMapped
    BY <1>1 DEF ActedMapped
  <1>4. member \in [Addresses -> Roles \cup {"none"}]
    BY <1>1 DEF Roles
  <1>5. OneHolder /\ OneUser /\ MappedUsers
    BY <1>1 DEF OneHolder, OneUser, MappedUsers
  <1>6. OneOwner
    BY <1>1 DEF OneOwner, Members, Owners
  <1>7. /\ verified \in [Principals -> Addresses \cup {NoOne}] /\ moves \in 0 .. MaxMoves
        /\ users \subseteq Addresses /\ mapped \in [Addresses -> Principals \cup {NoOne}]
        /\ managed \in Nat
    BY <1>1
  <1> QED BY <1>2, <1>3, <1>4, <1>5, <1>6, <1>7 DEF AInv, AccTypeOK

LEMMA AccStep == AInv /\ [AccNext]_accVars => AInv'
PROOF
  <1> SUFFICES ASSUME AInv, [AccNext]_accVars PROVE AInv'
    OBVIOUS
  <1>1. CASE UNCHANGED accVars
    <2>1. Members' = Members /\ Owners' = Owners
      BY <1>1 DEF accVars, Members, Owners
    <2> QED BY <1>1, <2>1 DEF accVars, AInv, AccTypeOK, OneHolder, OneUser, MappedUsers, Rows, Row,
                          ActedMapped, OneOwner
  <1> QED BY <1>1, VerifyStep, FindSteps, InsertStep, MapStep, JoinStep, RoleStep, OwnerSteps
      DEF AccNext

(* The tables stay well formed, for any number of principals and requests. *)
THEOREM AccTypeCorrect == AccSpec => []AccTypeOK
PROOF
  <1>1. AInv => AccTypeOK
    BY DEF AInv
  <1> QED BY <1>1, AccStarts, AccStep, PTL DEF AccSpec

(* Whatever first requests, invitations and changes of address overlap, a  *)
(* person acts as one user, no user is acted as by two, and until an owner *)
(* changes something exactly one member is an owner (org-tenancy.ts).      *)
THEOREM ActsAsOneselfCorrect == AccSpec => []ActsAsOneself
PROOF
  <1>1. ASSUME AInv PROVE ActsAsOneself
    <2>1. ASSUME NEW x \in acted, NEW y \in acted PROVE x[1] = y[1] <=> x[2] = y[2]
      <3>1. /\ mapped[x[2]] = x[1] /\ mapped[y[2]] = y[1]
            /\ x[1] \in Principals /\ x[2] \in Addresses /\ y[2] \in Addresses
        BY <1>1, AInvIs DEF ActedMapped
      <3> QED BY <1>1, <3>1, AInvIs DEF OneUser
    <2>2. managed = 0 /\ Members # {} => Cardinality(Owners) = 1
      BY <1>1, FS_Singleton DEF AInv, OneOwner
    <2> QED BY <2>1, <2>2 DEF ActsAsOneself
  <1> QED BY <1>1, AccStarts, AccStep, PTL DEF AccSpec

=============================================================================
