------------------------------ MODULE Webhooks ------------------------------
(***************************************************************************)
(* Webhooks of GitHub and of a forge, and the cards and references they    *)
(* write (apps/api/src/board/triggers.ts, references.ts and                *)
(* apps/api/src/references/).  A handler awaits once, for the signature of *)
(* the body, and does all the rest in one step; deliveries are repeated,   *)
(* delayed and reordered by their senders.                                 *)
(*                                                                         *)
(* One external id is written about, and each card has one reference to    *)
(* it at most.  An issue that is opened or closed stands for the actions:  *)
(* GitHub's "opened" makes a card and maps to no state, every other one    *)
(* enriches references, which remember only that they were enriched.       *)
(***************************************************************************)
EXTENDS Naturals

CONSTANTS
  HookIds,                  \* delivery ids
  HookCards,                \* ids of cards: 1 .. n, in order of creation
  MaxCopies                 \* bound: requests under way

ASSUME HookAssumption ==
  HookCards \subseteq Nat \ {0} /\ MaxCopies \in Nat

Providers == {"github", "forge"}
Actions == {"opened", "closed"}

VARIABLES
  configured,   \* providers whose secret is set
  issueTrigger, \* githubIssueTrigger
  sent,         \* what each delivery id says, once it is sent
  verifying,    \* requests that await the check of their signature
  seenIds,      \* webhook_deliveries
  cardsOf,      \* who made each card, once it exists
  reference,    \* each card's reference to the issue: its provider
  enriched,     \* cards whose reference holds an event
  applied,      \* how often each delivery was acted on
  rewritten     \* cards whose reference was removed or replaced by hand

hookVars == <<configured, issueTrigger, sent, verifying, seenIds, cardsOf, reference,
              enriched, applied, rewritten>>
cardVars == <<cardsOf, reference, enriched, rewritten>>

Message == [provider : Providers, action : Actions]
NoMessage == [provider |-> "github", action |-> "none"]

HookTypeOK ==
  /\ configured \subseteq Providers
  /\ issueTrigger \in BOOLEAN
  /\ sent \in [HookIds -> Message \cup {NoMessage}]
  /\ verifying \subseteq [copy : 1 .. MaxCopies, id : HookIds, known : BOOLEAN]
  /\ seenIds \subseteq {i \in HookIds : sent[i] # NoMessage}
  /\ cardsOf \in [HookCards -> {"none", "person", "github", "deleted"}]
  /\ reference \in [HookCards -> Providers \cup {"none"}]
  /\ enriched \subseteq {c \in HookCards : reference[c] # "none"}
  /\ applied \in [HookIds -> Nat]
  /\ rewritten \subseteq HookCards

HookInit ==
  /\ configured = {} /\ issueTrigger = FALSE
  /\ sent = [i \in HookIds |-> NoMessage]
  /\ verifying = {} /\ seenIds = {}
  /\ cardsOf = [c \in HookCards |-> "none"]
  /\ reference = [c \in HookCards |-> "none"] /\ enriched = {}
  /\ applied = [i \in HookIds |-> 0] /\ rewritten = {}

-----------------------------------------------------------------------------
(* setGithubSecret, setForgeSecret, setGithubConfig.                       *)
SetSecret(p) ==
  /\ p \notin configured
  /\ configured' = configured \cup {p}
  /\ UNCHANGED <<issueTrigger, sent, verifying, seenIds, cardVars, applied>>

SetIssueTrigger ==
  /\ issueTrigger' = ~issueTrigger
  /\ UNCHANGED <<configured, sent, verifying, seenIds, cardVars, applied>>

(* A request comes in; a delivery may come any number of times.  Without a *)
(* secret it is refused.                                                   *)
Receive(i, m, k) ==
  /\ sent[i] \in {NoMessage, m}
  /\ m.provider \in configured
  /\ \A v \in verifying : v.copy < k
  /\ sent' = [sent EXCEPT ![i] = m]
  /\ verifying' = verifying \cup {[copy |-> k, id |-> i, known |-> i \in seenIds]}
  /\ UNCHANGED <<configured, issueTrigger, seenIds, cardVars, applied>>

(* INVALID_SIGNATURE, by the secret of when it came; nothing is recorded.  *)
Refuse(v) ==
  /\ verifying' = verifying \ {v}
  /\ UNCHANGED <<configured, issueTrigger, sent, seenIds, cardVars, applied>>

(* Bug: the table is read before the signature is awaited.                 *)
Seen_bug(v) == v.known

Seen(v) == v.id \in seenIds

Deduped(v) ==
  /\ Seen(v)
  /\ verifying' = verifying \ {v}
  /\ UNCHANGED <<configured, issueTrigger, sent, seenIds, cardVars, applied>>

(* mapGithubEvent and mapForgeEvent: what says something of the issue.     *)
Modelled(m) == m.provider = "github" => m.action # "opened"

Referenced == \E c \in HookCards : reference[c] = "github"

(* An opened issue of GitHub that no card references makes a card.         *)
Triggers(m) ==
  /\ m.provider = "github" /\ m.action = "opened"
  /\ issueTrigger /\ ~Referenced

Unmade == {c \in HookCards : cardsOf[c] = "none"}
NewHookCard == {c \in Unmade : \A d \in Unmade : c <= d}

(* The id is recorded, a card made of an opened issue with its reference,  *)
(* and the references enriched.                                            *)
Handle(v) ==
  LET m == sent[v.id]
  IN  /\ ~Seen(v)
      /\ verifying' = verifying \ {v}
      /\ seenIds' = seenIds \cup {v.id}
      /\ applied' = [applied EXCEPT ![v.id] = @ + 1]
      /\ IF Triggers(m)
         THEN \E c \in NewHookCard :
                /\ cardsOf' = [cardsOf EXCEPT ![c] = "github"]
                /\ reference' = [reference EXCEPT ![c] = "github"]
         ELSE UNCHANGED <<cardsOf, reference>>
      /\ enriched' = enriched \cup
           {c \in HookCards : Modelled(m) /\ reference'[c] = m.provider}
      /\ UNCHANGED <<configured, issueTrigger, sent, rewritten>>

-----------------------------------------------------------------------------
(* People create and delete cards, and add references: the same url again  *)
(* replaces the whole record, provider and state included.                 *)
PersonCreates(c) ==
  /\ c \in NewHookCard
  /\ cardsOf' = [cardsOf EXCEPT ![c] = "person"]
  /\ UNCHANGED <<configured, issueTrigger, sent, verifying, seenIds, reference, enriched,
                 applied, rewritten>>

PersonDeletes(c) ==
  /\ cardsOf[c] \notin {"none", "deleted"}
  /\ cardsOf' = [cardsOf EXCEPT ![c] = "deleted"]
  /\ reference' = [reference EXCEPT ![c] = "none"]
  /\ enriched' = enriched \ {c}
  /\ rewritten' = rewritten \cup {c}
  /\ UNCHANGED <<configured, issueTrigger, sent, verifying, seenIds, applied>>

AddReference(c, p) ==
  /\ cardsOf[c] \notin {"none", "deleted"}
  /\ reference' = [reference EXCEPT ![c] = p]
  /\ enriched' = enriched \ {c}
  /\ rewritten' = rewritten \cup {c}
  /\ UNCHANGED <<configured, issueTrigger, sent, verifying, seenIds, cardsOf, applied>>

HookNext ==
  \/ \E p \in Providers : SetSecret(p)
  \/ SetIssueTrigger
  \/ \E i \in HookIds, m \in Message, k \in 1 .. MaxCopies : Receive(i, m, k)
  \/ \E v \in verifying : Refuse(v) \/ Deduped(v) \/ Handle(v)
  \/ \E c \in HookCards : PersonCreates(c) \/ PersonDeletes(c)
  \/ \E c \in HookCards, p \in Providers : AddReference(c, p)

HookSpec == HookInit /\ [][HookNext]_hookVars

-----------------------------------------------------------------------------
(* A delivery is acted on once, however often it is sent and however its   *)
(* copies overlap (docs/06-external-references.md: dedup on the id); and   *)
(* an issue makes one card, also when it is delivered again under another  *)
(* id, until somebody deletes the card or rewrites its reference.          *)
AppliedOnce ==
  /\ \A i \in HookIds : applied[i] <= 1
  /\ \A c, d \in {x \in HookCards : cardsOf[x] = "github" /\ x \notin rewritten} : c = d
=============================================================================
