---------------------------- MODULE Credentials ----------------------------
(***************************************************************************)
(* The credential supi acts with (packages/cli/src/credential.ts).         *)
(*                                                                         *)
(* Every run of supi is a process of its own.  It looks at its environment *)
(* and then at files: the device and the token of `supi login`, the device *)
(* and the token of `fleet login`, and supi's own cache of what fleet's    *)
(* device was exchanged for.  No lock protects the files, each read and    *)
(* each write is a step, and an exchange with the sign-in service lasts    *)
(* while other runs sign in or out.                                        *)
(***************************************************************************)
EXTENDS Naturals

CONSTANTS
  Persons,     \* who may sign in with `supi login`
  FleetPerson, \* whoever ran `fleet login` on this machine
  Supis        \* the runs of supi that may overlap

VARIABLES
  device,     \* device.json of `supi login`: who signed in, or Nobody
  cache,      \* token.json of `supi login`
  fleet,      \* fleet's device.json: absent, of a hub, or of a plane
  fleetToken, \* fleet's token.json
  fleetCache, \* fleet-token.json: fleet's device exchanged for this API
  supi        \* what each run has found so far

credVars == <<device, cache, fleet, fleetToken, fleetCache, supi>>

Nobody == "nobody"
AgentIdentity == "agent"

(* A token: whom it names, whether it is still valid, whether its audience *)
(* is this API.                                                            *)
Minted(w) == [who |-> w, fresh |-> TRUE, here |-> TRUE]
NoToken == [who |-> Nobody, fresh |-> FALSE, here |-> FALSE]
Usable(t) == t.fresh /\ t.here

-----------------------------------------------------------------------------
(* The environment.  A value is an opaque spa_ token, a station's token or *)
(* a person's; a file that is named can also be unreadable or empty.       *)
Values == {"unset", "opaque", "station", "person"}

(* agentCredentialRefusal                                                  *)
NamesAgent(v) == v \in {"opaque", "station"}

(* What loadCredential makes of the environment: who is acted as, a        *)
(* refusal, or Nobody when no variable decides.                            *)
AgentSlot(v) == IF NamesAgent(v) THEN AgentIdentity ELSE "refused"
PersonSlot(v) == IF v = "opaque" THEN "refused" ELSE v

FromEnvironment(e) ==
  CASE e.file # "unset"  -> AgentSlot(e.file)
    [] e.file = "unset" /\ e.agent # "unset" -> AgentSlot(e.agent)
    [] e.file = "unset" /\ e.agent = "unset" /\ e.own # "unset" -> PersonSlot(e.own)
    [] OTHER -> Nobody

Environments ==
  [file : Values \cup {"broken"}, agent : Values, own : Values]

NamesAgentSlot(e) == e.file # "unset" \/ e.agent # "unset"

(* Every way an environment can decide.                                    *)
Readings == {[acts |-> FromEnvironment(e), agent |-> NamesAgentSlot(e)] : e \in Environments}

-----------------------------------------------------------------------------
(* A run of supi: its step, the token it read or was given, the person     *)
(* whose device it exchanges, and what it acts as in the end.  namedAgent  *)
(* and signedIn are history: whether the environment named an agent, and   *)
(* whether supi's device file existed at some time since the run began.    *)
Steps == {"idle", "device", "cache", "exchange", "store", "fleet",
          "fleetCache", "fleetExchange", "fleetStore", "wipe"}

Idle == [at |-> "idle", read |-> NoToken, mine |-> Nobody,
         acts |-> Nobody, slot |-> "none", namedAgent |-> FALSE, signedIn |-> FALSE]

CredInit ==
  /\ device = Nobody
  /\ cache = NoToken
  /\ fleet \in {"none", "hub", "plane"}
  /\ fleetToken \in {NoToken, Minted(FleetPerson),
                     [Minted(FleetPerson) EXCEPT !.here = FALSE]}
  /\ fleetCache = NoToken
  /\ supi = [i \in Supis |-> Idle]

Goes(i, step) == supi' = [supi EXCEPT ![i].at = step]

(* The run is over: it acts as w, whom it found in a slot.                 *)
Acts(i, w, s) ==
  supi' = [supi EXCEPT ![i] = [@ EXCEPT !.at = "idle", !.acts = w, !.slot = s]]
Refused(i) == Acts(i, "refused", "none")

(* resolveCredential begins: loadCredential looks at the environment and,  *)
(* when that decides nothing, reads fleet's token.                         *)
Begin(i) ==
  \E d \in Readings :
    LET begun == [Idle EXCEPT !.namedAgent = d.agent, !.signedIn = (device # Nobody)]
    IN  /\ supi[i].at = "idle"
        /\ supi' = [supi EXCEPT ![i] =
             IF d.acts = Nobody
             THEN [begun EXCEPT !.at = "device", !.read = fleetToken]
             ELSE [begun EXCEPT !.acts = d.acts, !.slot = "environment"]]
        /\ UNCHANGED <<device, cache, fleet, fleetToken, fleetCache>>

(* The defect ActsOnlyAsNamed looks for: the cache is read before the      *)
(* device.                                                                 *)
ReadDevice_bug(i) ==
  /\ supi[i].at = "device"
  /\ supi' = [supi EXCEPT ![i] = [@ EXCEPT
       !.at = IF device = Nobody /\ ~cache.fresh THEN "fleet" ELSE "cache", !.mine = device]]
  /\ UNCHANGED <<device, cache, fleet, fleetToken, fleetCache>>

(* supiPlaneCredential: no device, no sign-in of supi's own.               *)
ReadDevice(i) ==
  /\ supi[i].at = "device"
  /\ supi' = [supi EXCEPT ![i] = [@ EXCEPT
       !.at = IF device = Nobody THEN "fleet" ELSE "cache", !.mine = device]]
  /\ UNCHANGED <<device, cache, fleet, fleetToken, fleetCache>>

(* A cached token that has not expired is used as it is.                   *)
ReadCache(i) ==
  /\ supi[i].at = "cache"
  /\ IF cache.fresh THEN Acts(i, cache.who, "supi") ELSE Goes(i, "exchange")
  /\ UNCHANGED <<device, cache, fleet, fleetToken, fleetCache>>

(* exchangeDevice: the service answers, refuses, or cannot be reached.     *)
Exchange(i) ==
  /\ supi[i].at = "exchange"
  /\ \/ supi' = [supi EXCEPT ![i] = [@ EXCEPT !.at = "store", !.read = Minted(supi[i].mine)]]
     \/ Refused(i)
  /\ UNCHANGED <<device, cache, fleet, fleetToken, fleetCache>>

(* The cache is written if it can be; the token is used either way.        *)
Store(i) ==
  /\ supi[i].at = "store"
  /\ cache' \in {cache, supi[i].read}
  /\ Acts(i, supi[i].read.who, "supi")
  /\ UNCHANGED <<device, fleet, fleetToken, fleetCache>>

(* What fleet's token is good for when fleet's device gives nothing: a     *)
(* token for somewhere else is no fallback, an expired one ends the run    *)
(* (credentialOrExit).                                                     *)
Fallback(i) ==
  LET t == supi[i].read
  IN IF Usable(t) THEN Acts(i, t.who, "fleet") ELSE Refused(i)

(* resolveCredential once supi has no sign-in of its own.                  *)
AskFleet(i) ==
  /\ supi[i].at = "fleet"
  /\ IF Usable(supi[i].read) \/ fleet = "none" THEN Fallback(i)
     ELSE Goes(i, IF fleet = "plane" THEN "fleetCache" ELSE "fleetExchange")
  /\ UNCHANGED <<device, cache, fleet, fleetToken, fleetCache>>

(* fleetPlaneCredential: supi's own cache of fleet's exchange.             *)
ReadFleetCache(i) ==
  /\ supi[i].at = "fleetCache"
  /\ IF Usable(fleetCache) THEN Acts(i, fleetCache.who, "fleet") ELSE Goes(i, "fleetExchange")
  /\ UNCHANGED <<device, cache, fleet, fleetToken, fleetCache>>

FleetExchange(i) ==
  /\ supi[i].at = "fleetExchange"
  /\ \/ supi' = [supi EXCEPT ![i] = [@ EXCEPT !.at = "fleetStore", !.read = Minted(FleetPerson)]]
     \/ Refused(i)
  /\ UNCHANGED <<device, cache, fleet, fleetToken, fleetCache>>

(* Under a plane supi keeps the token beside fleet's; from a hub it        *)
(* replaces fleet's own.                                                   *)
FleetStore(i) ==
  /\ supi[i].at = "fleetStore"
  /\ Acts(i, supi[i].read.who, "fleet")
  /\ IF fleet = "plane"
     THEN /\ fleetCache' \in {fleetCache, supi[i].read}
          /\ UNCHANGED fleetToken
     ELSE /\ fleetToken' \in {fleetToken, supi[i].read}
          /\ UNCHANGED fleetCache
  /\ UNCHANGED <<device, cache, fleet>>

-----------------------------------------------------------------------------
(* `supi login` and `supi logout` are runs of supi too: the device file is *)
(* written or removed, and then the token file is removed.                 *)
SetDevice(i, w) ==
  /\ supi[i].at = "idle"
  /\ device' = w
  /\ supi' = [j \in Supis |->
       IF j = i THEN [Idle EXCEPT !.at = "wipe"]
       ELSE [supi[j] EXCEPT !.signedIn = @ \/ (supi[j].at # "idle" /\ w # Nobody)]]
  /\ UNCHANGED <<cache, fleet, fleetToken, fleetCache>>

(* saveSupiDevice, once the person has confirmed the code.                 *)
Login(i) == \E w \in Persons : SetDevice(i, w)

(* clearSupiCredentials                                                    *)
Logout(i) == SetDevice(i, Nobody)

Wipe(i) ==
  /\ supi[i].at = "wipe"
  /\ cache' = NoToken
  /\ Goes(i, "idle")
  /\ UNCHANGED <<device, fleet, fleetToken, fleetCache>>

(* A token lives minutes.                                                  *)
Ages ==
  /\ \/ cache.fresh /\ cache' = [cache EXCEPT !.fresh = FALSE] /\ UNCHANGED <<fleetToken, fleetCache>>
     \/ fleetToken.fresh /\ fleetToken' = [fleetToken EXCEPT !.fresh = FALSE] /\ UNCHANGED <<cache, fleetCache>>
     \/ fleetCache.fresh /\ fleetCache' = [fleetCache EXCEPT !.fresh = FALSE] /\ UNCHANGED <<cache, fleetToken>>
  /\ UNCHANGED <<device, fleet, supi>>

CredNext ==
  \/ \E i \in Supis :
       \/ Begin(i) \/ ReadDevice(i) \/ ReadCache(i) \/ Exchange(i) \/ Store(i)
       \/ AskFleet(i) \/ ReadFleetCache(i) \/ FleetExchange(i) \/ FleetStore(i)
       \/ Login(i) \/ Logout(i) \/ Wipe(i)
  \/ Ages

CredSpec == CredInit /\ [][CredNext]_credVars

-----------------------------------------------------------------------------
Tokens == [who : Persons \cup {FleetPerson, Nobody}, fresh : BOOLEAN, here : BOOLEAN]

CredTypeOK ==
  /\ device \in Persons \cup {Nobody}
  /\ {cache, fleetToken, fleetCache} \subseteq Tokens
  /\ fleet \in {"none", "hub", "plane"}
  /\ \A i \in Supis :
       /\ supi[i].at \in Steps
       /\ supi[i].read \in Tokens
       /\ supi[i].mine \in Persons \cup {Nobody}
       /\ supi[i].acts \in Persons \cup {FleetPerson, Nobody, AgentIdentity, "refused", "station", "person"}
       /\ supi[i].slot \in {"none", "environment", "supi", "fleet"}

(* Nobody is acted for by accident.  An environment that names an agent's  *)
(* slot ends as that agent or in a refusal, never as a person whose files  *)
(* happen to be there (loadCredential: "Refusing rather than falling       *)
(* back"); and a run that began after `supi logout` does not act with what *)
(* supi had cached, although an exchange under way at the logout writes    *)
(* token.json once more after it was removed (credential.ts:150-181).      *)
ActsOnlyAsNamed ==
  \A i \in Supis :
    /\ supi[i].namedAgent => supi[i].acts \in {Nobody, AgentIdentity, "refused"}
    /\ supi[i].slot = "supi" => supi[i].signedIn
=============================================================================
