-------------------------- MODULE ApprovalSubjects --------------------------
(***************************************************************************)
(* What a person approves, and who may act on it                           *)
(* (apps/api/src/board/approval-subjects.ts, gates.ts).  A card goes       *)
(* through draft, review, publish and done.  Completing the draft freezes  *)
(* an approval subject and opens a gate bound to it; an automatic approval *)
(* hands the card to a publisher, a manual one leaves the posting to a     *)
(* person.  Freezing awaits a digest and recording a live post awaits a    *)
(* read-back, and everything else runs in between.                         *)
(*                                                                         *)
(* Of a run only what the fence looks at is modelled: moving, editing or   *)
(* resuming a card leaves its run working, and what that run still does    *)
(* counts (moves.ts, claims.ts authorizeRun).  Sub-tasks, returns to an    *)
(* earlier stage by a judge and archiving are left out; so is the card's   *)
(* other state.                                                            *)
(***************************************************************************)
EXTENDS Naturals

CONSTANTS
  PubRuns,                  \* runs: 1 .. n, in the order they are claimed
  Subjects,                 \* revisions: 1 .. n
  Urls                      \* addresses of live posts

ASSUME ApprovalAssumption ==
  PubRuns \subseteq Nat /\ Subjects \subseteq Nat \ {0} /\ "none" \notin Urls

VARIABLES
  item,         \* the card
  lease,        \* its runs
  subject,      \* rows of approval_subjects, each with its one gate
  completing,   \* completions that await a digest
  readBack,     \* recordings of a live URL that await the remote system
  standing      \* subjects approved and not edited, moved or sent back since

apsVars == <<item, lease, subject, completing, readBack, standing>>

Agent == {"draft", "publish"}
StageOrder == [draft |-> 1, review |-> 2, publish |-> 3, done |-> 4]
Stages == DOMAIN StageOrder

Approvals == {"approve_manual", "approve_automatic"}
Decisions == Approvals \cup {"request_changes", "reject"}

Item == [stage : Stages,
         state : {"submitted", "working", "input-required", "completed", "rejected"},
         run : PubRuns \cup {0},                  \* current_run_id
         active : Subjects \cup {0}]              \* active_approval_subject_id

Subject == [status : {"none", "active", "invalidated"},
            gate : {"pending", "resolved", "cancelled"},
            decision : Decisions \cup {"none"},
            runsBefore : SUBSET PubRuns,          \* claimed before it was resolved
            url : Urls \cup {"none"}, recordedBy : {"none", "person", "service"},
            expired : BOOLEAN]

ApsTypeOK ==
  /\ item \in Item
  /\ lease \in [PubRuns -> [status : {"none", "working", "ended", "completed"}, stage : Stages]]
  /\ subject \in [Subjects -> Subject]
  /\ completing \subseteq [run : PubRuns, revision : Subjects]
  /\ readBack \subseteq [subject : Subjects, url : Urls]
  /\ standing \subseteq Subjects

ApsInit ==
  /\ item = [stage |-> "draft", state |-> "submitted", run |-> 0, active |-> 0]
  /\ lease = [r \in PubRuns |-> [status |-> "none", stage |-> "draft"]]
  /\ subject = [i \in Subjects |-> [status |-> "none", gate |-> "cancelled", decision |-> "none",
       runsBefore |-> {}, url |-> "none", recordedBy |-> "none", expired |-> FALSE]]
  /\ completing = {} /\ readBack = {} /\ standing = {}

-----------------------------------------------------------------------------
(* Runs.                                                                   *)

Claimed(r) == lease[r].status # "none"
LiveRun(r) == lease[r].status = "working"

PubClaim(r) ==
  /\ ~Claimed(r) /\ \A q \in PubRuns : q < r => Claimed(q)
  /\ item.stage \in Agent /\ item.state = "submitted"
  /\ item' = [item EXCEPT !.state = "working", !.run = r]
  /\ lease' = [lease EXCEPT ![r] = [status |-> "working", stage |-> item.stage]]
  /\ UNCHANGED <<subject, completing, readBack, standing>>

(* A run ends without finishing its stage: it fails, lapses, is released,  *)
(* blocks, or its work is refused.  The card is queued again or waits.     *)
EndPubRun(r) ==
  /\ LiveRun(r)
  /\ lease' = [lease EXCEPT ![r].status = "ended"]
  /\ \E state \in {"submitted", "input-required"} :
       item' = [item EXCEPT !.state = state, !.run = 0]
  /\ UNCHANGED <<subject, completing, readBack, standing>>

(* advanceCard, from a stage that opens no bound gate.                     *)
Advanced(from) ==
  [item EXCEPT !.stage = IF from = "review" THEN "publish" ELSE "done",
               !.state = IF from = "review" THEN "submitted" ELSE "completed",
               !.run = 0]

(* Completing advances the card from the stage it is in by now.            *)
CompleteStage(r) ==
  /\ LiveRun(r) /\ item.stage # "draft"
  /\ lease' = [lease EXCEPT ![r].status = "completed"]
  /\ item' = Advanced(item.stage)
  /\ UNCHANGED <<subject, completing, readBack, standing>>

(* Completing the draft: the revision is chosen, then the digest awaited.  *)
PrepareSubject(r) ==
  /\ LiveRun(r) /\ item.stage = "draft"
  /\ \E i \in Subjects :
       /\ subject[i].status = "none" /\ \A j \in Subjects : j < i => subject[j].status # "none"
       /\ completing' = completing \cup {[run |-> r, revision |-> i]}
  /\ UNCHANGED <<item, lease, subject, readBack, standing>>

Fenced(q) == LiveRun(q.run) /\ item.stage = "draft"

(* ... and, fenced again, the run ends and its subject and gate are there  *)
(* with the advance.  A revision that was taken meanwhile makes the whole  *)
(* transaction fail.                                                       *)
FinishSubject(q) ==
  /\ q \in completing
  /\ completing' = completing \ {q}
  /\ IF Fenced(q) /\ subject[q.revision].status = "none"
     THEN /\ lease' = [lease EXCEPT ![q.run].status = "completed"]
          /\ item' = [stage |-> "review", state |-> "input-required", run |-> 0,
                      active |-> q.revision]
          /\ subject' = [subject EXCEPT ![q.revision] =
                           [@ EXCEPT !.status = "active", !.gate = "pending"]]
     ELSE UNCHANGED <<lease, item, subject>>
  /\ UNCHANGED <<readBack, standing>>

-----------------------------------------------------------------------------
(* People.                                                                 *)

(* A subject with its pending review cancelled.                            *)
Unreviewed(s) == IF s.gate = "pending" THEN [s EXCEPT !.gate = "cancelled"] ELSE s

(* invalidateApprovalSubject: what becomes of the card's active subject.   *)
Retired(i) ==
  [j \in Subjects |->
     IF j = i /\ subject[j].status = "active"
     THEN [Unreviewed(subject[j]) EXCEPT !.status = "invalidated"]
     ELSE subject[j]]

Current(i) == subject[i].status = "active" /\ item.active = i

Resolve(i, decision) ==
  /\ Current(i) /\ subject[i].gate = "pending"
  /\ LET decided == [subject[i] EXCEPT !.gate = "resolved", !.decision = decision,
                                       !.runsBefore = {r \in PubRuns : Claimed(r)}]
     IN  \/ /\ decision = "approve_manual"
            /\ item' = [item EXCEPT !.state = "input-required", !.run = 0]
            /\ subject' = [subject EXCEPT ![i] = decided]
         \/ /\ decision = "approve_automatic"
            /\ item' = Advanced("review")
            /\ subject' = [subject EXCEPT ![i] = decided]
         \/ /\ decision = "request_changes"
            /\ item' = [stage |-> "draft", state |-> "submitted", run |-> 0, active |-> 0]
            /\ subject' = [subject EXCEPT ![i] = [decided EXCEPT !.status = "invalidated"]]
         \/ /\ decision = "reject"
            /\ item' = [item EXCEPT !.state = "rejected", !.run = 0, !.active = 0]
            /\ subject' = [subject EXCEPT ![i] = [decided EXCEPT !.status = "invalidated"]]
  /\ standing' = IF decision \in Approvals THEN standing \cup {i} ELSE standing \ {i}
  /\ UNCHANGED <<lease, completing, readBack>>

(* A move retires the subject, cancels every pending review and queues the *)
(* card where it lands.                                                    *)
MoveItem(target) ==
  /\ target # item.stage
  /\ item' = [stage |-> target, run |-> 0, active |-> 0,
              state |-> IF target = "done" THEN "completed" ELSE "submitted"]
  /\ subject' = [j \in Subjects |-> Unreviewed(Retired(item.active)[j])]
  /\ standing' = {}
  /\ UNCHANGED <<lease, completing, readBack>>

(* Bug: an edit while a run holds the card retires nothing.                *)
EditItem_bug ==
  /\ item.active # 0
  /\ item' = [item EXCEPT !.state = "input-required", !.run = 0]
  /\ standing' = {}
  /\ UNCHANGED <<lease, subject, completing, readBack>>

(* An edit retires the subject and parks a card that could be claimed.     *)
EditItem ==
  /\ item.active # 0
  /\ subject' = Retired(item.active)
  /\ item' = IF item.stage \in Agent
             THEN [item EXCEPT !.active = 0, !.state = "input-required", !.run = 0]
             ELSE [item EXCEPT !.active = 0]
  /\ standing' = {}
  /\ UNCHANGED <<lease, completing, readBack>>

(* Resuming retires nothing.                                               *)
ResumeItem(target) ==
  /\ item.state = "input-required"
  /\ \A i \in Subjects : subject[i].gate # "pending"
  /\ StageOrder[target] <= StageOrder[item.stage]
  /\ item' = [item EXCEPT !.stage = target, !.state = "submitted", !.run = 0]
  /\ UNCHANGED <<lease, subject, completing, readBack, standing>>

-----------------------------------------------------------------------------
(* Delivery.                                                               *)

Decided(i, decision) == subject[i].gate = "resolved" /\ subject[i].decision = decision

Delivered(i) == \E r \in PubRuns \ subject[i].runsBefore : lease[r].status = "completed"

(* Bug: a live URL does not settle the mode.                               *)
MayPublish_bug(i) == Decided(i, "approve_manual")

(* A manual delivery becomes automatic only before anybody posted.         *)
MayPublish(i) == Decided(i, "approve_manual") /\ subject[i].url = "none"

SwitchMode(i) ==
  /\ Current(i) /\ ~Delivered(i)
  /\ \/ /\ Decided(i, "approve_automatic")
        /\ item.run = 0 /\ item.state # "working"
        /\ item' = [item EXCEPT !.stage = "review", !.state = "input-required", !.run = 0]
        /\ subject' = [subject EXCEPT ![i].decision = "approve_manual"]
     \/ /\ MayPublish(i)
        /\ item' = Advanced("review")
        /\ subject' = [subject EXCEPT ![i].decision = "approve_automatic"]
  /\ UNCHANGED <<lease, completing, readBack, standing>>

(* A person records where it was posted: the post is read back ...         *)
ReadBack(i, url) ==
  /\ Current(i) /\ Decided(i, "approve_manual")
  /\ readBack' = readBack \cup {[subject |-> i, url |-> url]}
  /\ UNCHANGED <<item, lease, subject, completing, standing>>

(* Bug: the URL is not looked at again.                                    *)
StillCurrent_bug(q) == Current(q.subject) /\ Decided(q.subject, "approve_manual")

(* ... and everything is checked again before the URL is written.          *)
StillCurrent(q) == /\ Current(q.subject) /\ Decided(q.subject, "approve_manual")
                   /\ subject[q.subject].url = "none"

RecordByHand(q) ==
  /\ q \in readBack
  /\ readBack' = readBack \ {q}
  /\ subject' = IF StillCurrent(q)
                THEN [subject EXCEPT ![q.subject] =
                        [@ EXCEPT !.url = q.url, !.recordedBy = "person"]]
                ELSE subject
  /\ UNCHANGED <<item, lease, completing, standing>>

(* The publisher service asks whether a subject may be posted, and reports *)
(* that it was.                                                            *)
Confirms(i) == /\ subject[i].status = "active"
               /\ Decided(i, "approve_automatic") /\ ~subject[i].expired

RecordAutomatic(i, url) ==
  /\ Confirms(i) /\ subject[i].url = "none"
  /\ subject' = [subject EXCEPT ![i] = [@ EXCEPT !.url = url, !.recordedBy = "service"]]
  /\ UNCHANGED <<item, lease, completing, readBack, standing>>

(* A run asks for the bytes it may post (verifyApprovalSubject).           *)
Verifies(r, i) == /\ LiveRun(r) /\ lease[r].stage = "publish" /\ item.stage = "publish"
                  /\ Current(i)
                  /\ Decided(i, "approve_automatic") /\ ~subject[i].expired

Expire(i) ==
  /\ subject[i].status # "none" /\ ~subject[i].expired
  /\ subject' = [subject EXCEPT ![i].expired = TRUE]
  /\ UNCHANGED <<item, lease, completing, readBack, standing>>

ApsNext ==
  \/ \E r \in PubRuns : PubClaim(r) \/ EndPubRun(r) \/ CompleteStage(r) \/ PrepareSubject(r)
  \/ \E q \in completing : FinishSubject(q)
  \/ \E i \in Subjects, decision \in Decisions : Resolve(i, decision)
  \/ \E target \in Stages : MoveItem(target) \/ ResumeItem(target)
  \/ EditItem
  \/ \E i \in Subjects : SwitchMode(i) \/ Expire(i)
  \/ \E i \in Subjects, url \in Urls : ReadBack(i, url) \/ RecordAutomatic(i, url)
  \/ \E q \in readBack : RecordByHand(q)

ApsSpec == ApsInit /\ [][ApsNext]_apsVars

-----------------------------------------------------------------------------
(* A publisher gets the bytes of a subject only while a person's approval  *)
(* of it stands: it was approved, and the card was neither edited, moved   *)
(* nor sent back since, although such a change leaves the run working.     *)
VerifiesOnlyStanding ==
  \A r \in PubRuns, i \in Subjects : Verifies(r, i) => i \in standing

(* Once a person has recorded a live post, the subject is never handed to  *)
(* a publisher: the mode stays manual, whatever was under way.             *)
HandDelivered ==
  \A i \in Subjects : subject[i].recordedBy = "person" =>
    subject[i].decision = "approve_manual" /\ ~Confirms(i)

(* A recorded live URL is final, and so is who recorded it: of two         *)
(* recordings whose read-backs cross, or one that crosses changes of mode  *)
(* and the service's own, one is refused.                                  *)
Record(i) == <<subject[i].url, subject[i].recordedBy>>
UrlStays ==
  [][\A i \in Subjects : subject[i].url # "none" => Record(i)' = Record(i)]_apsVars

(* What the tests ask of edits and moves ("invalidates an approved subject *)
(* when the card is edited ...", "invalidates on a human route change"):   *)
(* no approval from before one is confirmed to the publisher service.      *)
ConfirmsOnlyStanding == \A i \in Subjects : Confirms(i) => i \in standing
=============================================================================
