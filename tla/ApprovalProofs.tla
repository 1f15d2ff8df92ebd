-------------------------- MODULE ApprovalProofs ---------------------------
(***************************************************************************)
(* Proofs about what a person decided: the approval of a subject and what  *)
(* is posted under it, and the questions an external service decides; for  *)
(* any number of runs, revisions, addresses, requests, agents and          *)
(* questions.                                                              *)
(***************************************************************************)
EXTENDS ApprovalSubjects, Decisions, TLAPS

-----------------------------------------------------------------------------
(* An approval that is still current stands (Stands): each step that takes *)
(* one out of standing also makes it no longer the card's active subject,  *)
(* and no step makes an old one active again. A post recorded by a person  *)
(* was recorded under a resolved manual decision (ByHand), and with its    *)
(* address written no decision changes.                                    *)

Stands == \A i \in Subjects : /\ Current(i) /\ subject[i].gate = "resolved"
                              /\ subject[i].decision \in Approvals
                              => i \in standing

(* A subject not yet frozen has nothing recorded on it.                    *)
Blank == \A i \in Subjects : subject[i].status = "none" =>
           subject[i].url = "none" /\ subject[i].recordedBy = "none"

ByHand == \A i \in Subjects : subject[i].recordedBy = "person" =>
            /\ subject[i].gate = "resolved" /\ subject[i].decision = "approve_manual"
            /\ subject[i].url # "none"

SInv == ApsTypeOK /\ Stands /\ Blank /\ ByHand

-----------------------------------------------------------------------------
LEMMA NoSubjectZero == 0 \notin Subjects
PROOF
  BY ApprovalAssumption

LEMMA ApsStarts == ApsInit => SInv
PROOF
  BY NoSubjectZero DEF ApsInit, SInv, ApsTypeOK, Item, Subject, Stages, StageOrder, Stands,
    Blank, ByHand, Current, Decisions, Approvals

LEMMA SInvIs ==
  SInv =>
    /\ item \in Item
    /\ lease \in [PubRuns -> [status : {"none", "working", "ended", "completed"},
                              stage : Stages]]
    /\ subject \in [Subjects -> Subject]
    /\ completing \subseteq [run : PubRuns, revision : Subjects]
    /\ readBack \subseteq [subject : Subjects, url : Urls]
    /\ standing \subseteq Subjects
    /\ Stands /\ Blank /\ ByHand
PROOF
  BY DEF SInv, ApsTypeOK

LEMMA StagesAre == Stages = {"draft", "review", "publish", "done"}
PROOF
  BY DEF Stages, StageOrder

(* Runs, and people who look or resume: no subject changes.                *)
LEMMA SubjectsStay ==
  ASSUME SInv, item' \in Item, item'.active = item.active,
         lease' \in [PubRuns -> [status : {"none", "working", "ended", "completed"},
                                 stage : Stages]],
         completing' \subseteq [run : PubRuns, revision : Subjects],
         readBack' \subseteq [subject : Subjects, url : Urls],
         subject' = subject, standing' = standing
  PROVE  SInv'
PROOF
  BY DEF SInv, ApsTypeOK, Stands, Blank, ByHand, Current

LEMMA RunSteps ==
  ASSUME SInv, NEW r \in PubRuns,
         PubClaim(r) \/ EndPubRun(r) \/ CompleteStage(r) \/ PrepareSubject(r)
  PROVE  SInv'
PROOF
  <1>0. SInv /\ item \in Item
    BY SInvIs
  <1>1. CASE PubClaim(r)
    <2>1. item' \in Item /\ item'.active = item.active
      BY <1>0, <1>1 DEF PubClaim, Item
    <2>2. lease' \in [PubRuns -> [status : {"none", "working", "ended", "completed"},
                                  stage : Stages]]
      BY <1>0, <1>1, SInvIs DEF PubClaim, Item
    <2> QED BY <1>0, <1>1, <2>1, <2>2, SInvIs, SubjectsStay DEF PubClaim
  <1>2. CASE EndPubRun(r)
    <2>1. item' \in Item /\ item'.active = item.active
      BY <1>0, <1>2 DEF EndPubRun, Item
    <2>2. lease' \in [PubRuns -> [status : {"none", "working", "ended", "completed"},
                                  stage : Stages]]
      BY <1>0, <1>2, SInvIs DEF EndPubRun
    <2> QED BY <1>0, <1>2, <2>1, <2>2, SInvIs, SubjectsStay DEF EndPubRun
  <1>3. CASE CompleteStage(r)
    <2>1. item' \in Item /\ item'.active = item.active
      BY <1>0, <1>3, StagesAre DEF CompleteStage, Advanced, Item
    <2>2. lease' \in [PubRuns -> [status : {"none", "working", "ended", "completed"},
                                  stage : Stages]]
      BY <1>0, <1>3, SInvIs DEF CompleteStage
    <2> QED BY <1>0, <1>3, <2>1, <2>2, SInvIs, SubjectsStay DEF CompleteStage
  <1>4. CASE PrepareSubject(r)
    BY <1>0, <1>4, SInvIs, SubjectsStay DEF PrepareSubject
  <1> QED BY <1>1, <1>2, <1>3, <1>4

LEMMA LooksAndResumes ==
  ASSUME SInv,
         \/ \E i \in Subjects, url \in Urls : ReadBack(i, url)
         \/ \E target \in Stages : ResumeItem(target)
  PROVE  SInv'
PROOF
  <1>0. SInv /\ item \in Item
    BY SInvIs
  <1>1. CASE \E i \in Subjects, url \in Urls : ReadBack(i, url)
    BY <1>0, <1>1, SInvIs, SubjectsStay DEF ReadBack
  <1>2. ASSUME NEW target \in Stages, ResumeItem(target) PROVE SInv'
    <2>1. item' \in Item /\ item'.active = item.active
      BY <1>0, <1>2 DEF ResumeItem, Item
    <2> QED BY <1>0, <1>2, <2>1, SInvIs, SubjectsStay DEF ResumeItem
  <1> QED BY <1>1, <1>2

-----------------------------------------------------------------------------
(* One subject's row changes.                                              *)
LEMMA RowChanges ==
  ASSUME SInv, NEW i \in Subjects, NEW row \in Subject,
         subject' = [subject EXCEPT ![i] = row],
         item' \in Item, item'.active \in {item.active, 0, i},
         lease' \in [PubRuns -> [status : {"none", "working", "ended", "completed"},
                                 stage : Stages]],
         completing' \subseteq completing, readBack' \subseteq readBack,
         standing' \subseteq Subjects, standing \ {i} \subseteq standing',
         (row.status = "active" /\ item'.active = i /\ row.gate = "resolved"
            /\ row.decision \in Approvals) => i \in standing',
         row.status = "none" => row.url = "none" /\ row.recordedBy = "none",
         row.recordedBy = "person" => /\ row.gate = "resolved"
                                      /\ row.decision = "approve_manual" /\ row.url # "none"
  PROVE  SInv'
PROOF
  <1>1. /\ subject' \in [Subjects -> Subject]
        /\ \A j \in Subjects : subject'[j] = IF j = i THEN row ELSE subject[j]
    BY SInvIs
  <1>2. ApsTypeOK'
    BY <1>1, SInvIs DEF ApsTypeOK
  <1>3. Stands'
    <2> SUFFICES ASSUME NEW j \in Subjects, Current(j)', (subject[j].gate = "resolved")',
                        (subject[j].decision \in Approvals)'
                 PROVE  j \in standing'
      BY DEF Stands
    <2>1. CASE j = i
      BY <1>1, <2>1 DEF Current
    <2>2. CASE j # i
      BY <1>1, <2>2, SInvIs, NoSubjectZero DEF Current, Stands
    <2> QED BY <2>1, <2>2
  <1>4. Blank' /\ ByHand'
    BY <1>1, SInvIs DEF Blank, ByHand
  <1> QED BY <1>2, <1>3, <1>4 DEF SInv

(* A subject is frozen: it is the active one now, and undecided.           *)
LEMMA FinishStep ==
  ASSUME SInv, NEW q \in completing, FinishSubject(q)
  PROVE  SInv'
PROOF
  <1>0. SInv /\ item \in Item /\ q.run \in PubRuns /\ q.revision \in Subjects
    BY SInvIs
  <1> DEFINE i == q.revision
             row == [subject[i] EXCEPT !.status = "active", !.gate = "pending"]
  <1>1. CASE Fenced(q) /\ subject[i].status = "none"
    <2>1. /\ lease' = [lease EXCEPT ![q.run].status = "completed"]
          /\ item' = [stage |-> "review", state |-> "input-required", run |-> 0, active |-> i]
          /\ subject' = [subject EXCEPT ![i] = row]
          /\ completing' \subseteq completing /\ UNCHANGED <<readBack, standing>>
      BY <1>1 DEF FinishSubject
    <2>2. subject[i] \in Subject /\ subject[i].recordedBy = "none"
      BY <1>0, <1>1, SInvIs DEF Blank
    <2>3. /\ row \in Subject /\ row.gate = "pending" /\ row.status = "active"
          /\ row.recordedBy = "none"
      BY <2>2 DEF Subject
    <2> HIDE DEF row
    <2>4. item' \in Item /\ item'.active = i
      BY <1>0, <2>1, StagesAre DEF Item
    <2>5. lease' \in [PubRuns -> [status : {"none", "working", "ended", "completed"},
                                  stage : Stages]]
      BY <1>0, <2>1, SInvIs
    <2> QED BY <1>0, <2>1, <2>2, <2>3, <2>4, <2>5, SInvIs, RowChanges
  <1>2. CASE ~(Fenced(q) /\ subject[i].status = "none")
    BY <1>0, <1>2, SInvIs, SubjectsStay DEF FinishSubject
  <1> QED BY <1>1, <1>2

LEMMA ResolveStep ==
  ASSUME SInv, NEW i \in Subjects, NEW decision \in Decisions, Resolve(i, decision)
  PROVE  SInv'
PROOF
  <1>0. SInv /\ item \in Item /\ subject[i] \in Subject /\ standing \subseteq Subjects
    BY SInvIs
  <1> DEFINE decided == [subject[i] EXCEPT !.gate = "resolved", !.decision = decision,
                                           !.runsBefore = {r \in PubRuns : Claimed(r)}]
             retired == [decided EXCEPT !.status = "invalidated"]
  <1>1. /\ Current(i) /\ subject[i].gate = "pending"
        /\ UNCHANGED <<lease, completing, readBack>>
        /\ standing' = IF decision \in Approvals THEN standing \cup {i} ELSE standing \ {i}
    BY DEF Resolve
  <1>2. /\ decided \in Subject /\ decided.status = "active" /\ decided.gate = "resolved"
        /\ decided.decision = decision /\ decided.recordedBy = subject[i].recordedBy
    BY <1>0, <1>1 DEF Subject, Current
  <1>3. subject[i].recordedBy # "person"
    BY <1>1, SInvIs DEF ByHand
  <1>4. /\ retired \in Subject /\ retired.status = "invalidated"
        /\ retired.recordedBy = subject[i].recordedBy
    BY <1>2 DEF Subject
  <1>5. \/ /\ item' \in Item /\ item'.active = item.active /\ i \in standing'
           /\ subject' = [subject EXCEPT ![i] = decided]
        \/ /\ item' \in Item /\ item'.active = 0
           /\ subject' = [subject EXCEPT ![i] = retired]
    <2>1. CASE decision = "approve_manual"
      BY <1>0, <1>1, <2>1 DEF Resolve, Item, Approvals
    <2>2. CASE decision = "approve_automatic"
      BY <1>0, <1>1, <2>2, StagesAre DEF Resolve, Item, Approvals, Advanced
    <2>3. CASE decision = "request_changes"
      BY <1>0, <2>3, StagesAre DEF Resolve, Item
    <2>4. CASE decision = "reject"
      BY <1>0, <2>4 DEF Resolve, Item
    <2> QED BY <2>1, <2>2, <2>3, <2>4 DEF Decisions, Approvals
  <1> HIDE DEF decided, retired
  <1>6. standing' \subseteq Subjects /\ standing \ {i} \subseteq standing'
    BY <1>0, <1>1
  <1>7. /\ completing' \subseteq completing /\ readBack' \subseteq readBack
        /\ lease' \in [PubRuns -> [status : {"none", "working", "ended", "completed"},
                                   stage : Stages]]
    BY <1>1, SInvIs
  <1>8. CASE /\ item' \in Item /\ item'.active = item.active /\ i \in standing'
             /\ subject' = [subject EXCEPT ![i] = decided]
    BY <1>0, <1>2, <1>3, <1>6, <1>7, <1>8, RowChanges
  <1>9. CASE /\ item' \in Item /\ item'.active = 0
             /\ subject' = [subject EXCEPT ![i] = retired]
    BY <1>0, <1>3, <1>4, <1>6, <1>7, <1>9, RowChanges
  <1> QED BY <1>5, <1>8, <1>9

(* A move or an edit: no subject is active any more.                       *)
LEMMA Retires ==
  ASSUME SInv, MoveItem("draft") \/ MoveItem("review") \/ MoveItem("publish")
               \/ MoveItem("done") \/ EditItem
  PROVE  SInv'
PROOF
  <1>0. SInv /\ item \in Item
    BY SInvIs
  <1>1. ASSUME NEW s \in Subject
        PROVE  /\ Unreviewed(s) \in Subject
               /\ Unreviewed(s).status = s.status /\ Unreviewed(s).decision = s.decision
               /\ Unreviewed(s).url = s.url /\ Unreviewed(s).recordedBy = s.recordedBy
               /\ s.gate = "resolved" => Unreviewed(s).gate = "resolved"
    BY DEF Subject, Unreviewed
  <1>2. ASSUME NEW j \in Subjects, NEW i \in Subjects \cup {0}
        PROVE  /\ Retired(i)[j] \in Subject
               /\ Retired(i)[j].status = "none" => subject[j].status = "none"
               /\ Retired(i)[j].decision = subject[j].decision
               /\ Retired(i)[j].url = subject[j].url
               /\ Retired(i)[j].recordedBy = subject[j].recordedBy
               /\ subject[j].gate = "resolved" => Retired(i)[j].gate = "resolved"
    <2>1. subject[j] \in Subject
      BY <1>0, SInvIs
    <2> DEFINE u == Unreviewed(subject[j])
               row == [u EXCEPT !.status = "invalidated"]
    <2>2. /\ u \in Subject /\ u.decision = subject[j].decision /\ u.url = subject[j].url
          /\ u.recordedBy = subject[j].recordedBy
          /\ subject[j].gate = "resolved" => u.gate = "resolved"
      BY <1>1, <2>1
    <2>3. Retired(i)[j] = row \/ Retired(i)[j] = subject[j]
      BY DEF Retired
    <2> HIDE DEF u
    <2>4. /\ row \in Subject /\ row.status = "invalidated" /\ row.decision = u.decision
          /\ row.url = u.url /\ row.recordedBy = u.recordedBy /\ row.gate = u.gate
      BY <2>2 DEF Subject
    <2> HIDE DEF row
    <2> QED BY <2>1, <2>2, <2>3, <2>4
  <1>3. /\ item' \in Item /\ item'.active = 0 /\ standing' = {}
        /\ UNCHANGED <<lease, completing, readBack>>
    <2>1. CASE EditItem
      BY <1>0, <2>1 DEF EditItem, Item
    <2>2. ASSUME NEW target \in Stages, MoveItem(target)
          PROVE  /\ item' \in Item /\ item'.active = 0 /\ standing' = {}
                 /\ UNCHANGED <<lease, completing, readBack>>
      BY <1>0, <2>2 DEF MoveItem, Item
    <2> QED BY <2>1, <2>2, StagesAre
  <1>4. item.active \in Subjects \cup {0}
    BY <1>0 DEF Item
  <1>5. /\ subject' \in [Subjects -> Subject]
        /\ \A j \in Subjects :
             /\ subject'[j].status = "none" => subject[j].status = "none"
             /\ subject'[j].decision = subject[j].decision
             /\ subject'[j].url = subject[j].url
             /\ subject'[j].recordedBy = subject[j].recordedBy
             /\ subject[j].gate = "resolved" => subject'[j].gate = "resolved"
    <2>1. CASE EditItem
      <3>1. subject' = Retired(item.active)
        BY <2>1 DEF EditItem
      <3>2. Retired(item.active) \in [Subjects -> Subject]
        <4>1. Retired(item.active) = [j \in Subjects |-> Retired(item.active)[j]]
          BY DEF Retired
        <4> QED BY <1>2, <1>4, <4>1
      <3> QED BY <1>2, <1>4, <3>1, <3>2
    <2>2. CASE ~EditItem
      <3>1. subject' = [j \in Subjects |-> Unreviewed(Retired(item.active)[j])]
        BY <2>2 DEF MoveItem
      <3> QED BY <1>1, <1>2, <1>4, <3>1
    <2> QED BY <2>1, <2>2
  <1>6. ApsTypeOK'
    BY <1>3, <1>5, SInvIs DEF ApsTypeOK
  <1>7. Stands'
    BY <1>3, NoSubjectZero DEF Stands, Current
  <1>8. Blank' /\ ByHand'
    BY <1>0, <1>5, SInvIs DEF Blank, ByHand
  <1> QED BY <1>6, <1>7, <1>8 DEF SInv

-----------------------------------------------------------------------------
(* Delivery.                                                               *)

LEMMA SwitchStep ==
  ASSUME SInv, NEW i \in Subjects, SwitchMode(i)
  PROVE  SInv'
PROOF
  <1>0. SInv /\ item \in Item /\ subject[i] \in Subject
    BY SInvIs
  <1>1. /\ Current(i) /\ UNCHANGED <<lease, completing, readBack, standing>>
        /\ subject[i].gate = "resolved" /\ subject[i].decision \in Approvals
    BY DEF SwitchMode, Decided, MayPublish, Approvals
  <1>2. i \in standing /\ standing \subseteq Subjects
    BY <1>0, <1>1, SInvIs DEF Stands
  <1>3. /\ completing' \subseteq completing /\ readBack' \subseteq readBack
        /\ standing' \subseteq Subjects /\ standing' = standing
        /\ lease' \in [PubRuns -> [status : {"none", "working", "ended", "completed"},
                                   stage : Stages]]
    BY <1>1, <1>2, SInvIs
  <1>4. ASSUME NEW mode \in Approvals, subject' = [subject EXCEPT ![i].decision = mode],
               item' \in Item, item'.active = item.active,
               subject[i].recordedBy # "person"
        PROVE  SInv'
    <2> DEFINE row == [subject[i] EXCEPT !.decision = mode]
    <2>1. /\ row \in Subject /\ row.status = "active"
          /\ row.recordedBy # "person" /\ subject' = [subject EXCEPT ![i] = row]
      BY <1>0, <1>1, <1>4 DEF Subject, Decisions, Approvals, Current
    <2> HIDE DEF row
    <2> QED BY <1>0, <1>2, <1>3, <1>4, <2>1, RowChanges
  <1>5. CASE Decided(i, "approve_automatic")
    <2>1. subject[i].recordedBy # "person"
      BY <1>0, <1>5, SInvIs DEF ByHand, Decided
    <2>2. /\ item' = [item EXCEPT !.stage = "review", !.state = "input-required", !.run = 0]
          /\ subject' = [subject EXCEPT ![i].decision = "approve_manual"]
      BY <1>5 DEF SwitchMode, MayPublish, Decided
    <2>3. item' \in Item /\ item'.active = item.active
      BY <1>0, <2>2, StagesAre DEF Item
    <2> QED BY <1>4, <2>1, <2>2, <2>3 DEF Approvals
  <1>6. CASE MayPublish(i)
    <2>1. subject[i].recordedBy # "person"
      BY <1>0, <1>6, SInvIs DEF ByHand, MayPublish
    <2>2. /\ item' = Advanced("review")
          /\ subject' = [subject EXCEPT ![i].decision = "approve_automatic"]
      BY <1>6 DEF SwitchMode, MayPublish, Decided
    <2>3. item' \in Item /\ item'.active = item.active
      BY <1>0, <2>2, StagesAre DEF Item, Advanced
    <2> QED BY <1>4, <2>1, <2>2, <2>3 DEF Approvals
  <1> QED BY <1>5, <1>6 DEF SwitchMode

(* A row in which neither the decision, the gate nor the status changes.   *)
LEMMA Records ==
  ASSUME SInv, NEW i \in Subjects, NEW row \in Subject,
         subject' = [subject EXCEPT ![i] = row],
         row.status = subject[i].status, row.status # "none", row.gate = subject[i].gate,
         row.decision = subject[i].decision,
         row.recordedBy = "person" => /\ row.gate = "resolved"
                                      /\ row.decision = "approve_manual" /\ row.url # "none",
         UNCHANGED <<item, lease, completing, standing>>, readBack' \subseteq readBack
  PROVE  SInv'
PROOF
  <1>1. (row.status = "active" /\ item'.active = i /\ row.gate = "resolved"
           /\ row.decision \in Approvals) => i \in standing'
    BY SInvIs DEF Stands, Current
  <1>2. /\ item' \in Item /\ item'.active \in {item.active, 0, i}
        /\ lease' \in [PubRuns -> [status : {"none", "working", "ended", "completed"},
                                   stage : Stages]]
        /\ completing' \subseteq completing /\ standing' \subseteq Subjects
        /\ standing \ {i} \subseteq standing'
    BY SInvIs
  <1> QED BY <1>1, <1>2, RowChanges

LEMMA ByHandStep ==
  ASSUME SInv, NEW q \in readBack, RecordByHand(q)
  PROVE  SInv'
PROOF
  <1>0. SInv /\ item \in Item /\ q.subject \in Subjects /\ q.url \in Urls
    BY SInvIs
  <1> DEFINE i == q.subject
             row == [subject[i] EXCEPT !.url = q.url, !.recordedBy = "person"]
  <1>1. readBack' \subseteq readBack /\ UNCHANGED <<item, lease, completing, standing>>
    BY DEF RecordByHand
  <1>2. CASE StillCurrent(q)
    <2>1. subject[i] \in Subject
      BY <1>0, SInvIs
    <2>2. /\ row \in Subject /\ row.status = "active" /\ row.status = subject[i].status
          /\ row.gate = "resolved" /\ row.gate = subject[i].gate
          /\ row.decision = "approve_manual" /\ row.decision = subject[i].decision
          /\ row.url = q.url
      BY <1>0, <1>2, <2>1 DEF Subject, StillCurrent, Current, Decided
    <2>3. subject' = [subject EXCEPT ![i] = row]
      BY <1>2 DEF RecordByHand
    <2> HIDE DEF row
    <2> QED BY <1>0, <1>1, <2>2, <2>3, ApprovalAssumption, Records
  <1>3. CASE ~StillCurrent(q)
    BY <1>0, <1>1, <1>3, SInvIs, SubjectsStay DEF RecordByHand
  <1> QED BY <1>2, <1>3

LEMMA ServiceSteps ==
  ASSUME SInv, NEW i \in Subjects,
         Expire(i) \/ \E url \in Urls : RecordAutomatic(i, url)
  PROVE  SInv'
PROOF
  <1>0. SInv /\ item \in Item /\ subject[i] \in Subject
    BY SInvIs
  <1>1. CASE Expire(i)
    <2> DEFINE row == [subject[i] EXCEPT !.expired = TRUE]
    <2>1. /\ row \in Subject /\ row.status = subject[i].status /\ row.status # "none"
          /\ row.gate = subject[i].gate /\ row.decision = subject[i].decision
          /\ row.recordedBy = subject[i].recordedBy /\ row.url = subject[i].url
      BY <1>0, <1>1 DEF Subject, Expire
    <2>2. /\ subject' = [subject EXCEPT ![i] = row]
          /\ UNCHANGED <<item, lease, completing, standing, readBack>>
      BY <1>1 DEF Expire
    <2> HIDE DEF row
    <2> QED BY ZenonT(60), <1>0, <2>1, <2>2, SInvIs, Records DEF ByHand
  <1>2. ASSUME NEW url \in Urls, RecordAutomatic(i, url) PROVE SInv'
    <2> DEFINE row == [subject[i] EXCEPT !.url = url, !.recordedBy = "service"]
    <2>1. /\ row \in Subject /\ row.status = subject[i].status /\ row.status # "none"
          /\ row.gate = subject[i].gate /\ row.decision = subject[i].decision
          /\ row.recordedBy = "service"
      BY <1>0, <1>2 DEF Subject, RecordAutomatic, Confirms
    <2>2. /\ subject' = [subject EXCEPT ![i] = row]
          /\ UNCHANGED <<item, lease, completing, standing, readBack>>
      BY <1>2 DEF RecordAutomatic
    <2> HIDE DEF row
    <2> QED BY <1>0, <2>1, <2>2, Records
  <1> QED BY <1>1, <1>2

-----------------------------------------------------------------------------
LEMMA ApsStep == SInv /\ [ApsNext]_apsVars => SInv'
PROOF
  <1> SUFFICES ASSUME SInv, [ApsNext]_apsVars PROVE SInv'
    OBVIOUS
  <1>1. CASE UNCHANGED apsVars
    BY <1>1, SInvIs, SubjectsStay DEF apsVars
  <1>2. CASE ApsNext
    <2>1. \/ \E r \in PubRuns : PubClaim(r) \/ EndPubRun(r) \/ CompleteStage(r)
                                \/ PrepareSubject(r)
          \/ \E q \in completing : FinishSubject(q)
          \/ \E i \in Subjects, decision \in Decisions : Resolve(i, decision)
          \/ \E target \in Stages : MoveItem(target)
          \/ \E target \in Stages : ResumeItem(target)
          \/ EditItem
          \/ \E i \in Subjects : SwitchMode(i)
          \/ \E i \in Subjects : Expire(i) \/ \E url \in Urls : RecordAutomatic(i, url)
          \/ \E i \in Subjects, url \in Urls : ReadBack(i, url)
          \/ \E q \in readBack : RecordByHand(q)
      BY <1>2 DEF ApsNext
    <2>2. CASE \E target \in Stages : MoveItem(target)
      BY <2>2, StagesAre, Retires
    <2>3. CASE EditItem
      BY <2>3, Retires
    <2> QED BY <2>1, <2>2, <2>3, RunSteps, FinishStep, ResolveStep, LooksAndResumes, SwitchStep,
               ServiceSteps, ByHandStep
  <1> QED BY <1>1, <1>2

(* The tables stay well formed, for any number of runs and revisions.      *)
THEOREM ApsTypeCorrect == ApsSpec => []ApsTypeOK
PROOF
  <1>1. SInv => ApsTypeOK
    BY DEF SInv
  <1> QED BY <1>1, ApsStarts, ApsStep, PTL DEF ApsSpec

(* No publisher gets the bytes of a subject whose approval was overtaken   *)
(* by an edit, a move or a request for changes, whatever its run was doing *)
(* meanwhile (verifyApprovalSubject).                                      *)
THEOREM VerifiesOnlyStandingCorrect == ApsSpec => []VerifiesOnlyStanding
PROOF
  <1>1. SInv => VerifiesOnlyStanding
    BY DEF SInv, Stands, VerifiesOnlyStanding, Verifies, Decided, Approvals
  <1> QED BY <1>1, ApsStarts, ApsStep, PTL DEF ApsSpec

(* What a person has posted is never handed to a publisher as well.        *)
THEOREM HandDeliveredCorrect == ApsSpec => []HandDelivered
PROOF
  <1>1. SInv => HandDelivered
    BY DEF SInv, ByHand, HandDelivered, Confirms, Decided
  <1> QED BY <1>1, ApsStarts, ApsStep, PTL DEF ApsSpec

-----------------------------------------------------------------------------
(* A row that takes the place of another keeps what is recorded on it.     *)
LEMMA OtherRow ==
  ASSUME SInv, NEW i \in Subjects, NEW row \in Subject,
         subject' = [subject EXCEPT ![i] = row],
         subject[i].url # "none" =>
           row.url = subject[i].url /\ row.recordedBy = subject[i].recordedBy
  PROVE  \A j \in Subjects : subject[j].url # "none" => Record(j)' = Record(j)
PROOF
  BY SInvIs DEF Record

LEMMA RecordKept ==
  ASSUME SInv, [ApsNext]_apsVars
  PROVE  \A j \in Subjects : subject[j].url # "none" => Record(j)' = Record(j)
PROOF
  <1> DEFINE Kept == \A j \in Subjects : subject[j].url # "none" => Record(j)' = Record(j)
  <1>0. SInv /\ \A i \in Subjects : subject[i] \in Subject
    BY SInvIs
  <1>1. ASSUME subject' = subject PROVE Kept
    BY <1>1 DEF Record
  <1>2. ASSUME NEW q \in completing, FinishSubject(q), subject' # subject PROVE Kept
    <2> DEFINE row == [subject[q.revision] EXCEPT !.status = "active", !.gate = "pending"]
    <2>1. q.revision \in Subjects /\ subject' = [subject EXCEPT ![q.revision] = row]
      BY <1>0, <1>2, SInvIs DEF FinishSubject
    <2>2. /\ row \in Subject /\ row.url = subject[q.revision].url
          /\ row.recordedBy = subject[q.revision].recordedBy
      BY <1>0, <2>1 DEF Subject
    <2> HIDE DEF row
    <2> QED BY <1>0, <2>1, <2>2, OtherRow
  <1>3. ASSUME NEW i \in Subjects, NEW decision \in Decisions, Resolve(i, decision) PROVE Kept
    <2> DEFINE decided == [subject[i] EXCEPT !.gate = "resolved", !.decision = decision,
                                             !.runsBefore = {r \in PubRuns : Claimed(r)}]
               retired == [decided EXCEPT !.status = "invalidated"]
    <2>1. \/ subject' = [subject EXCEPT ![i] = decided]
          \/ subject' = [subject EXCEPT ![i] = retired]
      BY <1>3 DEF Resolve
    <2>2. /\ decided \in Subject /\ decided.url = subject[i].url
          /\ decided.recordedBy = subject[i].recordedBy
      BY <1>0 DEF Subject
    <2>3. /\ retired \in Subject /\ retired.url = subject[i].url
          /\ retired.recordedBy = subject[i].recordedBy
      BY <2>2 DEF Subject
    <2> HIDE DEF decided, retired
    <2> QED BY <1>0, <2>1, <2>2, <2>3, OtherRow
  <1>4. ASSUME NEW i \in Subjects \cup {0}, NEW j \in Subjects
        PROVE  /\ Retired(i)[j] \in Subject
               /\ Retired(i)[j].url = subject[j].url
               /\ Retired(i)[j].recordedBy = subject[j].recordedBy
    BY <1>0 DEF Retired, Unreviewed, Subject
  <1>5. item.active \in Subjects \cup {0}
    BY SInvIs DEF Item
  <1>6. ASSUME EditItem PROVE Kept
    <2>1. subject' = Retired(item.active)
      BY <1>6 DEF EditItem
    <2> QED BY <1>4, <1>5, <2>1 DEF Record
  <1>7. ASSUME NEW target \in Stages, MoveItem(target) PROVE Kept
    <2>1. subject' = [j \in Subjects |-> Unreviewed(Retired(item.active)[j])]
      BY <1>7 DEF MoveItem
    <2>2. \A j \in Subjects :
            /\ Unreviewed(Retired(item.active)[j]).url = subject[j].url
            /\ Unreviewed(Retired(item.active)[j]).recordedBy = subject[j].recordedBy
      BY <1>4, <1>5 DEF Unreviewed, Subject
    <2> QED BY <2>1, <2>2 DEF Record
  <1>8. ASSUME NEW i \in Subjects, NEW mode, subject' = [subject EXCEPT ![i].decision = mode]
        PROVE  Kept
    BY <1>0, <1>8, SInvIs DEF Record, Subject
  <1>9. ASSUME NEW i \in Subjects, SwitchMode(i) PROVE Kept
    BY <1>8, <1>9 DEF SwitchMode
  <1>10. ASSUME NEW i \in Subjects, Expire(i) PROVE Kept
    BY <1>0, <1>10, SInvIs DEF Expire, Record, Subject
  <1>11. ASSUME NEW i \in Subjects, NEW url \in Urls, RecordAutomatic(i, url) PROVE Kept
    <2>1. subject[i].url = "none" /\ \A j \in Subjects \ {i} : subject'[j] = subject[j]
      BY <1>11, SInvIs DEF RecordAutomatic
    <2> QED BY <2>1 DEF Record
  <1>12. ASSUME NEW q \in readBack, RecordByHand(q), subject' # subject PROVE Kept
    <2>1. /\ subject[q.subject].url = "none"
          /\ \A j \in Subjects \ {q.subject} : subject'[j] = subject[j]
      BY <1>12, SInvIs DEF RecordByHand, StillCurrent
    <2> QED BY <2>1 DEF Record
  <1>13. ASSUME NEW r \in PubRuns,
                PubClaim(r) \/ EndPubRun(r) \/ CompleteStage(r) \/ PrepareSubject(r)
         PROVE  Kept
    BY <1>1, <1>13 DEF PubClaim, EndPubRun, CompleteStage, PrepareSubject
  <1>14. ASSUME NEW target \in Stages, ResumeItem(target) PROVE Kept
    BY <1>1, <1>14 DEF ResumeItem
  <1>15. ASSUME NEW i \in Subjects, NEW url \in Urls, ReadBack(i, url) PROVE Kept
    BY <1>1, <1>15 DEF ReadBack
  <1>16. UNCHANGED apsVars => Kept
    BY <1>1 DEF apsVars
  <1> HIDE DEF Kept
  <1>17. Kept
    BY <1>1, <1>2, <1>3, <1>6, <1>7, <1>9, <1>10, <1>11, <1>12, <1>13, <1>14, <1>15, <1>16
       DEF ApsNext
  <1> QED BY <1>17 DEF Kept

(* Of two recordings of where a post is live that cross, one is refused,   *)
(* whatever changes of mode are under way.                                 *)
THEOREM UrlStaysCorrect == ApsSpec => UrlStays
PROOF
  <1>1. SInv /\ [ApsNext]_apsVars =>
          [\A i \in Subjects : subject[i].url # "none" => Record(i)' = Record(i)]_apsVars
    BY RecordKept
  <1> QED BY <1>1, ApsStarts, ApsStep, PTL DEF ApsSpec, UrlStays

-----------------------------------------------------------------------------
(* The types of Decisions, which hold that one question is pending at a    *)
(* time, RetryHeard and SettledStays.                                      *)

AtMostOnePending ==
  \A e, f \in Questions :
    question[e].status = "pending" /\ question[f].status = "pending" => e = f

Task == [state : TaskStates, stage : DecStages]
Asker == [status : {"none", "working", "ended"}, agent : Askers \cup {"-"},
          stage : DecStages, beat : 0 .. MaxDecTime]
ReplyRecord == [request : Requests \cup {"-"}, question : Questions \cup {0}]

LEMMA DecTypeIs ==
  DecTypeOK <=>
    /\ decNow \in 0 .. MaxDecTime
    /\ task \in Task
    /\ asker \in [AskRuns -> Asker]
    /\ question \in [Questions -> Question]
    /\ request \in [Requests -> Saved]
    /\ reply \in ReplyRecord
    /\ AtMostOnePending
PROOF
  BY DEF DecTypeOK, Task, Asker, ReplyRecord, AtMostOnePending

-----------------------------------------------------------------------------
(* cancelElicitationsForRun and cancelElicitationsForCard keep the rows    *)
(* well formed, touch only pending ones and leave none that was not.       *)
LEMMA CancelledRows ==
  ASSUME question \in [Questions -> Question], NEW S
  PROVE  /\ Cancelled(S) \in [Questions -> Question]
         /\ \A e \in Questions :
              /\ question[e].status # "pending" => Cancelled(S)[e] = question[e]
              /\ Cancelled(S)[e].status = "pending" => question[e].status = "pending" /\ e \notin S
PROOF
  <1>1. ASSUME NEW e \in Questions
        PROVE [question[e] EXCEPT !.status = "cancelled"] \in Question
    BY DEF Question
  <1>2. ASSUME NEW e \in Questions
        PROVE [question[e] EXCEPT !.status = "cancelled"].status = "cancelled"
    BY DEF Question
  <1> QED BY <1>1, <1>2 DEF Cancelled, Cancellable

(* openElicitation leaves the new question as the only pending one.        *)
LEMMA OpenRows ==
  ASSUME DecTypeOK, NEW e \in Questions, NEW r \in AskRuns,
         NEW q \in Requests \cup {"-"}, Open(e, r, q)
  PROVE  /\ task' \in Task
         /\ question' \in [Questions -> Question]
         /\ AtMostOnePending'
         /\ \A f \in Questions :
              question[f].status \in {"answered", "cancelled"} => question'[f] = question[f]
PROOF
  <1> USE DecTypeIs
  <1>1. /\ Cancelled(Questions) \in [Questions -> Question]
        /\ \A f \in Questions :
             /\ question[f].status # "pending" => Cancelled(Questions)[f] = question[f]
             /\ Cancelled(Questions)[f].status # "pending"
    BY CancelledRows
  <1>2. asker[r].stage \in DecStages
    BY DEF Asker
  <1> DEFINE new == [status |-> "pending", run |-> r, stage |-> asker[r].stage, request |-> q]
  <1>3. new \in Question
    BY <1>2 DEF Question
  <1>4. question' = [Cancelled(Questions) EXCEPT ![e] = new] /\ question[e].status = "none"
    BY DEF Open, Unasked
  <1>5. question' \in [Questions -> Question]
    <2> HIDE DEF new
    <2> QED BY <1>1, <1>3, <1>4
  <1>6. AtMostOnePending'
    <2> HIDE DEF new
    <2> QED BY <1>1, <1>4 DEF AtMostOnePending
  <1>7. \A f \in Questions :
          question[f].status \in {"answered", "cancelled"} => question'[f] = question[f]
    <2> HIDE DEF new
    <2> QED BY <1>1, <1>4
  <1>8. task' \in Task
    BY DEF Open, Task, TaskStates
  <1> QED BY <1>5, <1>6, <1>7, <1>8

-----------------------------------------------------------------------------
(* Every step keeps the types, leaves settled questions alone and tells an *)
(* agent of the question its request was saved with.                       *)
LEMMA DecStep ==
  ASSUME DecTypeOK, RetryHeard, [DecNext]_decVars
  PROVE  /\ DecTypeOK'
         /\ RetryHeard'
         /\ \A e \in Questions :
              question[e].status \in {"answered", "cancelled"} => question'[e] = question[e]
PROOF
  <1> USE DecisionAssumption
  <1> DEFINE Settled == \A e \in Questions :
        question[e].status \in {"answered", "cancelled"} => question'[e] = question[e]
  <1> SUFFICES DecTypeOK' /\ RetryHeard' /\ Settled
    OBVIOUS
  <1>0. /\ decNow \in 0 .. MaxDecTime
        /\ task \in Task
        /\ asker \in [AskRuns -> Asker]
        /\ question \in [Questions -> Question]
        /\ request \in [Requests -> Saved]
        /\ reply \in ReplyRecord
        /\ AtMostOnePending
    BY DecTypeIs
  <1>a. ASSUME decNow' \in 0 .. MaxDecTime, task' \in Task, asker' \in [AskRuns -> Asker],
               question' \in [Questions -> Question], request' \in [Requests -> Saved],
               reply' \in ReplyRecord, AtMostOnePending'
        PROVE DecTypeOK'
    BY <1>a DEF DecTypeOK, Task, Asker, ReplyRecord, AtMostOnePending
  (* Questions are at most cancelled.                                      *)
  <1>b. ASSUME NEW S, question' = Cancelled(S)
        PROVE question' \in [Questions -> Question] /\ AtMostOnePending' /\ Settled
    <2>1. /\ Cancelled(S) \in [Questions -> Question]
          /\ \A e \in Questions :
               /\ question[e].status # "pending" => Cancelled(S)[e] = question[e]
               /\ Cancelled(S)[e].status = "pending" => question[e].status = "pending"
      BY <1>0, CancelledRows
    <2> QED BY <1>b, <1>0, <2>1 DEF AtMostOnePending
  (* A row of asker that changes one field.                                *)
  <1>c. ASSUME NEW r \in AskRuns, asker' = [asker EXCEPT ![r].status = "ended"]
        PROVE asker' \in [AskRuns -> Asker]
    BY <1>c, <1>0 DEF Asker
  <1>d. ASSUME NEW r \in AskRuns, asker' = [asker EXCEPT ![r].beat = decNow]
        PROVE asker' \in [AskRuns -> Asker]
    BY <1>d, <1>0 DEF Asker
  <1>e. ASSUME UNCHANGED <<request, reply>> PROVE RetryHeard'
    BY <1>e DEF RetryHeard
  (* A pending question is answered.                                       *)
  <1>f. ASSUME NEW e \in Questions, question[e].status = "pending", Answered(e)
        PROVE question' \in [Questions -> Question] /\ AtMostOnePending' /\ Settled
    <2>1. /\ question'[e].status = "answered" /\ question' \in [Questions -> Question]
          /\ \A g \in Questions : g # e => question'[g] = question[g]
      BY <1>f, <1>0 DEF Answered, Question
    <2> QED BY <1>f, <1>0, <2>1 DEF AtMostOnePending

  <1>1. CASE Tick
    <2>1. decNow' \in 0 .. MaxDecTime
      BY <1>1, <1>0 DEF Tick
    <2> QED BY <1>1, <1>0, <1>a, <1>e, <2>1 DEF Tick, AtMostOnePending
  <1>2. ASSUME NEW r \in AskRuns, NEW a \in Askers, ClaimTask(r, a)
        PROVE DecTypeOK' /\ RetryHeard' /\ Settled
    <2>1. task.stage \in DecStages
      BY <1>0 DEF Task
    <2>2. [status |-> "working", agent |-> a, stage |-> task.stage, beat |-> decNow] \in Asker
      BY <1>0, <2>1 DEF Asker
    <2>3. asker' \in [AskRuns -> Asker]
      BY <1>2, <1>0, <2>2 DEF ClaimTask
    <2>4. task' \in Task
      BY <1>2, <1>0 DEF ClaimTask, Task, TaskStates
    <2> QED BY <1>2, <1>0, <1>a, <1>e, <2>3, <2>4 DEF ClaimTask, AtMostOnePending
  <1>3. ASSUME NEW r \in AskRuns, HeartbeatOf(r)
        PROVE DecTypeOK' /\ RetryHeard' /\ Settled
    BY <1>3, <1>0, <1>a, <1>d, <1>e DEF HeartbeatOf, AtMostOnePending
  <1>4. ASSUME NEW r \in AskRuns, EndRun(r)
        PROVE DecTypeOK' /\ RetryHeard' /\ Settled
    <2>1. task' \in Task
      BY <1>4, <1>0 DEF EndRun, Task, TaskStates
    <2> QED BY <1>4, <1>0, <1>a, <1>b, <1>c, <1>e, <2>1 DEF EndRun
  <1>5. ASSUME NEW s \in DecStages, MoveTask(s)
        PROVE DecTypeOK' /\ RetryHeard' /\ Settled
    <2>1. task' \in Task
      BY <1>5 DEF MoveTask, Task, TaskStates
    <2> QED BY <1>5, <1>0, <1>a, <1>b, <1>e, <2>1 DEF MoveTask
  <1>6. ASSUME NEW r \in AskRuns, NEW e \in Questions, AskQuestion(r, e)
        PROVE DecTypeOK' /\ RetryHeard' /\ Settled
    BY <1>6, <1>0, <1>a, <1>d, <1>e, OpenRows DEF AskQuestion
  <1>7. ASSUME NEW r \in AskRuns, NEW e \in Questions, WaitOnPerson(r, e)
        PROVE DecTypeOK' /\ RetryHeard' /\ Settled
    BY <1>7, <1>0, <1>a, <1>c, <1>e, OpenRows DEF WaitOnPerson
  (* What a request hears is what it was saved with, or nothing.           *)
  <1>g. ASSUME NEW q \in Requests, NEW a, NEW x, NEW e \in Questions \cup {0}, Reply(q, a, x, e),
               request' \in [Requests -> Saved],
               Same(q, a, x)' => e = request'[q].question
        PROVE RetryHeard' /\ reply' \in ReplyRecord
    <2>1. CASE Same(q, a, x)'
      <3>1. reply' = [request |-> q, question |-> e]
        BY <1>g, <2>1 DEF Reply
      <3> QED BY <1>g, <2>1, <3>1 DEF RetryHeard, ReplyRecord
    <2>2. CASE ~Same(q, a, x)'
      <3>1. reply' = [request |-> "-", question |-> 0]
        BY <1>g, <2>2 DEF Reply
      <3> QED BY <3>1 DEF RetryHeard, ReplyRecord
    <2> QED BY <2>1, <2>2
  <1>8. ASSUME NEW q \in Requests, NEW r \in AskRuns, NEW a \in Askers, NEW x \in Expiries,
               RetryStrict(q, r, a, x)
        PROVE DecTypeOK' /\ RetryHeard' /\ Settled
    <2>1. request[q].question \in Questions \cup {0}
      BY <1>0 DEF Saved
    <2>2. RetryHeard' /\ reply' \in ReplyRecord
      <3>1. CASE Same(q, a, x)
        BY <1>8, <1>0, <1>g, <2>1, <3>1 DEF RetryStrict, Same
      <3>2. CASE ~Same(q, a, x)
        BY <1>8, <1>0, <1>g, <3>2 DEF RetryStrict, Same
      <3> QED BY <3>1, <3>2
    <2> QED BY <1>8, <1>0, <1>a, <2>2 DEF RetryStrict, AtMostOnePending
  <1>9. ASSUME NEW q \in Requests, NEW r \in AskRuns, NEW a \in Askers, NEW x \in Expiries,
               RefuseStrict(q, r, a, x)
        PROVE DecTypeOK' /\ RetryHeard' /\ Settled
    <2>1. ~Same(q, a, x)'
      BY <1>9 DEF RefuseStrict, Known, Same, NotSaved
    <2>2. RetryHeard' /\ reply' \in ReplyRecord
      BY <1>9, <1>0, <1>g, <2>1 DEF RefuseStrict
    <2> QED BY <1>9, <1>0, <1>a, <2>2 DEF RefuseStrict, AtMostOnePending
  <1>10. ASSUME NEW q \in Requests, NEW r \in AskRuns, NEW a \in Askers, NEW x \in Expiries,
                NEW e \in Questions, PostStrict(q, r, a, x, e)
         PROVE DecTypeOK' /\ RetryHeard' /\ Settled
    <2>1. [agent |-> a, expires_at |-> x, question |-> e] \in Saved
      BY DEF Saved
    <2>2. request' \in [Requests -> Saved] /\ request'[q].question = e
      BY <1>10, <1>0, <2>1 DEF PostStrict
    <2>3. RetryHeard' /\ reply' \in ReplyRecord
      BY <1>10, <1>g, <2>2 DEF PostStrict
    <2> QED BY <1>10, <1>0, <1>a, <1>d, <2>2, <2>3, OpenRows DEF PostStrict
  <1>11. ASSUME NEW e \in Questions, AnswerQuestion(e)
         PROVE DecTypeOK' /\ RetryHeard' /\ Settled
    <2>1. task' \in Task
      BY <1>11, <1>0 DEF AnswerQuestion, Task, TaskStates
    <2> QED BY <1>11, <1>0, <1>a, <1>e, <1>f, <2>1 DEF AnswerQuestion
  <1>12. ASSUME NEW e \in Questions, ResumeParked(e)
         PROVE DecTypeOK' /\ RetryHeard' /\ Settled
    <2>1. task' \in Task
      BY <1>12, <1>0 DEF ResumeParked, Task, TaskStates
    <2> QED BY <1>12, <1>0, <1>a, <1>e, <1>f, <2>1 DEF ResumeParked
  <1>13. CASE UNCHANGED decVars
    BY <1>13, <1>0, <1>a, <1>e DEF decVars, AtMostOnePending
  <1> QED
    BY <1>1, <1>2, <1>3, <1>4, <1>5, <1>6, <1>7, <1>8, <1>9, <1>10, <1>11, <1>12, <1>13
    DEF DecNext

LEMMA DecStarts == DecInit => DecTypeOK /\ RetryHeard
PROOF
  <1> SUFFICES ASSUME DecInit PROVE DecTypeOK /\ RetryHeard
    OBVIOUS
  <1> USE DecisionAssumption DEF DecInit
  <1>1. task \in Task /\ decNow \in 0 .. MaxDecTime
    BY DEF Task, TaskStates, DecStages
  <1>2. [status |-> "none", agent |-> "-", stage |-> 1, beat |-> 0] \in Asker
    BY DEF Asker, DecStages
  <1>3. [status |-> "none", run |-> "-", stage |-> 1, request |-> "-"] \in Question
    BY DEF Question, DecStages
  <1>4. NotSaved \in Saved
    BY DEF NotSaved, Saved
  <1>5. reply \in ReplyRecord /\ AtMostOnePending /\ RetryHeard
    BY DEF ReplyRecord, AtMostOnePending, RetryHeard
  <1> QED BY <1>1, <1>2, <1>3, <1>4, <1>5, DecTypeIs

(* One question of a card is pending at a time, and all is in its range.   *)
THEOREM DecTypeCorrect == DecSpec => []DecTypeOK
PROOF
  BY DecStarts, DecStep, PTL DEF DecSpec

(* A request that is repeated hears of the question it was saved with, for *)
(* any number of agents, runs and retries (postStrictDecision).            *)
THEOREM RetryHeardCorrect == DecSpec => []RetryHeard
PROOF
  BY DecStarts, DecStep, PTL DEF DecSpec

(* No step takes an answer back or settles a question twice                *)
(* (elicitations.ts).                                                      *)
THEOREM SettledStaysCorrect == DecSpec => SettledStays
PROOF
  <1>1. DecTypeOK /\ RetryHeard /\ [DecNext]_decVars =>
          [\A e \in Questions :
             question[e].status \in {"answered", "cancelled"} => question'[e] = question[e]]_decVars
    BY DecStep
  <1> QED BY <1>1, DecTypeCorrect, RetryHeardCorrect, PTL DEF DecSpec, SettledStays

=============================================================================
