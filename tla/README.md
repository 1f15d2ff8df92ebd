# SuperPipeline in TLA+

SuperPipeline is a Kanban board whose cards are worked by external AI agents. An
agent *claims* a card and gets a *run* (a lease with an epoch), sends heartbeats and
activities, asks questions, and ends the run with one of a few verbs; people create
and move cards, review what was produced and answer questions. One Durable Object
per board (`apps/api/src/board`) owns that state and is the single writer of one
SQLite file. This directory specifies that object: what it keeps, the operations
that change it, what must hold, and what is proved.

Around the board stand the components it is used through and that it uses: push
deliveries, schedules, webhooks, run reports, approvals, the web application, the command
line, sign-in. Each that keeps state of its own has a module.

Run a model: `tlc -config Lifecycle.cfg MCBoard`. Check a module's proofs: `tlapm
BoardProofs.tla`, and so for the other seven modules whose name ends in `Proofs`.
`PROJECT.json` maps every definition to its source lines.

## 1. Inventory

| Component | State | Operations | Talks to | What is hard | What makes it correct |
|---|---|---|---|---|---|
| Cards and moves (`cards`, `moves`, `card-store`) | `cards`: state, stage, lease (delegate, run, `claim_seq`), failures, automatic returns, rework spent, `needs_human`, deferred advance, archived | create, split, edit, archive, delete, move, resume; internally advance, resolve, end an attempt, rework | everything below calls `advanceCard`, `endAttempt`, `parkForHuman` | a person moves a card under a working agent; cascades of parents; counters that must bound automation | a card's row agrees with runs, gates and questions; parents complete last; the breaker holds |
| Leases (`claims`) | `runs`: card, stage, agent, epoch, status, outcome, last heartbeat; one alarm | claim, heartbeat, reclaim, arm the alarm, authorize | every verb passes `authorizeRun` | expiry against late verbs; agents that die | one holder per card, newest epoch, dark runs end |
| Run verbs (`run-verbs`) | cards, runs | activity, complete (five routes), submit for review, block, fail, release, strict decision | moves, gates, elicitations | a wait inside `complete`; loops of agents | what ends a run leaves the card queued, parked, moved on or done, and says why |
| Questions (`elicitations`) | `elicitations` | ask, answer, resume a parked question, cancel | run verbs, moves | a question outliving its run | one pending question, asked by a live or waiting run |
| Review gates (`gates`) | `gates` | open, approve, request changes, reject, cancel, deliver | moves, approval subjects | stale gates, two deciders, chained gates | a pending gate is about the card as it stands |
| Links and holds (`links`, `holds`) | `card_links` | add, remove; who is held back | claim, moves | cycles; a hold nobody releases | ordering links are acyclic, one parent |
| Approval subjects, delivery (`approval-subjects`, `gates`) | `approval_subjects`, their gates, the live URL | freeze, approve by hand or for a service, switch the mode, record a post, confirm, verify, retire, expire | complete, moves, edits, publishers | a digest and a read-back awaited in the middle; a run that works on while its card is edited | an approval covers the version shown and is not used after it was overtaken |
| Strict decisions (`run-verbs`, `elicitations`) | `strict_decision_requests`, `elicitations` | ask with an id and a deadline, ask again, answer, expire | agents | lost answers and retries; leases that end meanwhile | one question per request, heard by every retry; what is settled stays |
| Run reports (`run-reports`, `superwitness/*`) | `run_reports` outbox, one row per run | report, drain, back off, park, backfill | the superwitness service | a row rewritten while an older report is in flight | the receiver ends with the latest state |
| Push queue (`push`) | `push_deliveries`, `push_configs` | enqueue, drain, dead-letter, prune | agents' endpoints | drains overlap and write from values read before an await | nothing given up before its attempts; retries starve nobody and end |
| The alarm (`claims.scheduleReclaim`, `board-do.alarm`) | one alarm time | arm, ring, fail, ring again | leases, pushes, reports | one alarm, three jobs, each may replace its time | the earliest job wins |
| Schedules, recurrence, sweep (`schedules`, `recurrence`, `stale`) | `schedules`; digest stamps | fire what is due, skip, advance; remind, backfill | cards, the cron job | cron and request together, firings cut short, daylight saving | one firing per due time, in phase, at the right wall clock |
| Triggers, references (`triggers`, `references`) | `webhook_deliveries`, `card_references` | webhooks of GitHub and a forge, add a reference | cards | redelivery while the signature is checked | one effect per delivery, one card per issue |
| Pipeline edits | stages in `meta` | init, set, update | everything that reads stages | stages changed under cards | no card in a stage that is gone |
| Metering, comments, history, views | usage, comments, activities, events | append, read | — | — | — |
| Sign-in and members (`auth/*`, `db/members`, `db/catalog`) | cookies, users, memberships | rotate the refresh token, provision a person, invite, change roles, remove | the Organization plane, every tab | spent tokens look stolen; first requests overlap | a browser keeps the newest token; a person is one user |
| CLI (`packages/cli`) | credential files shared by processes without a lock | find a credential, exchange, log in and out | sign-in service, API | files written by an exchange that outlived a logout | supi acts as whom it was told to be |
| Web application (`app.svelte.ts`) | open board, snapshot, socket | open, refresh, connect, reconnect, stall | routes, live feed | answers out of order, a feed that is down while something changes | the open board is shown, and changes reach it |
| HTTP routes, MCP, Agent SDK, catalog CRUD | — | parse, render, one statement each | the operations above | — | — |

**Interaction.** Every operation of the board is a method of one Durable Object. The
object is single-threaded: a method runs to its first `await` on something outside the
object without interruption, and the SQLite writes of that stretch are committed
together. In the operations modelled here the only such `await`s come after the last
write (arming the alarm), so each is one atomic step; the exceptions are listed under
hazards and in section 6. Concurrency is therefore the *order of calls*: agents that are
slow, dead, or still talking after they lost their card; people who act meanwhile; the
alarm. Where an operation does wait in the middle of its writes its module splits it
there: the drains of the run reports (`RunReports`) and of the pushes (`PushQueue`), the
digest of `complete` and the read-back of a live post (`ApprovalSubjects`), the signature
of a webhook (`Webhooks`). Outside the board nothing is atomic but a statement: requests
of sign-in, processes of the CLI and loads of the web application interleave at every
statement, file access and answer (`Accounts`, `RefreshTokens`, `Credentials`,
`LiveBoard`).

## 2. Modules

| Module | Models |
|---|---|
| `Links` | the cycle rule of `links.ts`, as pure operators on a set of links |
| `Search` | the breadth-first walk by which `wouldCycle` answers that rule, one turn of its loop per step |
| `Lease` | the promise `Board` refines: a card is lent to one run at a time, under a new epoch each time |
| `Board` | cards, runs, gates, questions and links: every operation named in section 1 for these tables, as one action each, and the properties |
| `RunReports` | the outbox of run reports, its drains, the requests on their way and what superwitness does with them |
| `LatestReport` | the promise `RunReports` refines: superwitness follows every run forward |
| `PushQueue` | the push deliveries, overlapping drains, retries, dead letters, pruning, evictions |
| `Wakeup` | the one alarm and its three jobs, with who arms it and who does not |
| `Schedules` | one schedule, the cards it makes, sweeps that are late, repeated or cut short |
| `Recurrence` | the pure function behind it: the next instant of a wall-clock rule in a zone whose offset changes |
| `ApprovalSubjects` | what a person approves, and the publishers, edits, moves and deliveries around it |
| `Decisions` | questions and strict decisions with their retries, bindings and deadlines |
| `Webhooks` | deliveries of two providers, deduplicated across an await, and the cards and references they write |
| `LiveBoard` | the open board of the web application: loads, the live feed, switches, deletions |
| `Credentials` | whom `supi` acts as: environment, files, exchanges, log-in and log-out beside it |
| `RefreshTokens` | the rotation of a browser's refresh token by all its tabs |
| `Accounts` | who a person is in a workspace: provisioning, adoption, invitations, roles |
| `MCBoard`, `MCRunReports` | pipelines, bounds and symmetry for TLC |
| `MCServices` | the eleven modules from `PushQueue` to `Accounts`, and `Search`, side by side |
| `MCSettles` | what must come to an end in `PushQueue`, `Board` and `RunReports`, under fairness |
| `BoardProofs`, `BoardOrderProofs`, `BoardReviewProofs` | inductive invariants and theorems about `Board`, each module on top of the one before: leases; links, their search, deferred advances and cascades; questions, reviews, parking, the breaker and the refinement of `Lease` |
| `RunReportsProofs` | of `RunReports`, with the refinement of `LatestReport` |
| `DeliveryProofs` | of `PushQueue`, `Webhooks`, `LiveBoard`: what is sent, received and shown |
| `ApprovalProofs` | of `ApprovalSubjects`, `Decisions` |
| `IdentityProofs` | of `Credentials`, `RefreshTokens`, `Accounts` |
| `ClockProofs` | of `Schedules`, `Wakeup`, `Recurrence`, and of `MCServices` as the composition of all services |

`RunReports` stands beside `Board`: the board's operations call `reportRun` and read
nothing of the outbox. `ApprovalSubjects` and `Decisions` are the board seen from one
card, in which the parts of it they need (a run that is fenced, a stage, a lease) are
kept and the rest is free: their actions for claims and moves allow what `Board` allows
and more. `Wakeup` leaves open what becomes of a push or a report, which `PushQueue` and
`RunReports` say. The other modules share nothing with `Board` but the cards they make.

### Board: state

| TLA+ | Code |
|---|---|
| `card[c]` | the row of `cards`: `state`, `current_stage_key` (a number, its place in the pipeline), `current_run_id`, `delegate_agent_id`, `claim_seq`, `failure_count`, the reason in `needs_human_json`, whether `completion_rework_json` is set, `auto_returns`, `pending_advance_json`, `archived_at` |
| `run[r]` | the row of `runs`; `fresh` says that the last heartbeat is younger than `HEARTBEAT_TIMEOUT_MS` |
| `gates` | the pending rows of `gates` (a decided or cancelled gate is never read again by a modelled operation) |
| `asked` | the runs with a pending row of `elicitations` (a run has at most one) |
| `links` | `card_links` of the two kinds that order work |

The actions have the names of the code's functions: `CreateCard`, `Split`, `AddLink`,
`RemoveLink`, `DeleteCard`, `Archive`/`Unarchive` (what `updateCard` does with
`archivedAt`), `MoveCard`, `ResumeCard`, `Claim`, `ClaimDenied`, `Heartbeat`,
`ReclaimExpired`, `Ask` (`postActivity` of type elicitation), `AnswerLive` and
`AnswerParked` (the two branches of `answerElicitation`), `Complete` with
`RouteOutcome`, `AskAndStop` (`waitOnPerson`), `SubmitForReview`, `Block`, `Fail`,
`Release`, and `Approve`, `RequestChanges`, `Reject` (`resolveGate`). `Lapse` is time
passing. What several handlers do to a card's row is a function of the row: `Queue`,
`Park`, `AtStage`, `FailedAttempt` (`endAttempt`), `ReworkOrPark`, `Landed`
(`advanceCard` after its checks).

A cascade (`resolveCard` → `resumeParentAdvanceIfFree` → `advanceCard` → …) is
recursive in the code. `Replayed` is the least set of cards the cascade reaches,
`Settle` applies it in one step. In the code a card without open children advances
without passing through `pending_advance_json`; in the model `Advance` writes the order
and replays it at once. The two agree because a card owes an order only while a child is
open, which is the invariant `DeferredHeld`.

### RunReports: state

| TLA+ | Code |
|---|---|
| `state[r]` | the facts a report is made of, as the number of times they have changed |
| `updatedAt[r]` | `runs.updated_at` |
| `runReports[r]` | the row of `run_reports`: `gen`, the snapshot (`at` is `reported_at`), `status`, `attempts`, and `next_attempt_at` as *now* or *later* |
| `reportDrain[d]` | the drain a caller has started: how far its current batch is, and the rows as they were selected. `drainRunReports` hands a second caller the promise of the first |
| `held[r]`, `late` | superwitness: the newest report it kept of each run; reports of requests nobody waits for any more |
| `enabled`, `missed` | whether `SUPERWITNESS_URL` is set; which runs changed while it was not (a history variable) |

`Take` is the synchronous stretch up to the first `await` (the names of the executors),
`Send` the stretch up to the request, `ReceiveOk`, `GiveUp` and `Refuse` the stretch
from the answer on, with all the writes to the outbox it makes. `GiveUp` covers every
retryable failure, before the request and after it. A drain goes on with its next batch
without waiting, which the model shows as the drain ending and being started again.
superwitness is not in the repository: `Handle` and `HandleLate` model it by the rule the
comment of `reportRun` states, that a report not strictly newer is dropped.

### The other modules: state and actions

Actions have the names of the functions or say which stretch of one they are; `map` in
`PROJECT.json` has the lines.

- **`PushQueue`**: `delivery[d]` is the row (`status`, `attempts`); `drain[w]` the rows a
  caller selected and has not sent, each with the attempts *it read*. `StartDrain` is the
  selection (fresh rows first, a share per subscription, a batch), `SendOne` one request
  and the write after it, `FinishDrain` the pruning. `tries` and `acked` are history.
- **`Wakeup`**: `alarm` is the time set, `handler` which part of `alarm()` runs. `Arm` is
  `scheduleReclaim`. A run is in `working` until a verb, the alarm or its card's deletion
  ends it: archiving its card reports it and lets it work on. Actions that write rows
  without arming the alarm (`WakePush` for new work or a digest, `WakeArchive`, a drain of
  the cron job) put their job into `unarmed`, so that what the code does not promise is
  not claimed; a pushed change of a card does arm it (`queueRecordPush`). `WakeChange`
  stands for what people do without ending a run: answers, decisions, moves, resumptions.
- **`Schedules`**: `schedule` is the row, `instances` its cards. `Fire` makes a card and
  advances, `Skip` only advances, `FireCutShort` fails after the card was made. A sweep
  carries the Worker's clock, which may be old when the board handles it.
- **`Recurrence`**: one question to `nextFireAt` per behaviour; `FromZonedWallClock` is
  the code's guess and its two corrections.
- **`ApprovalSubjects`**: `item` is the card, `subject[i]` a revision with its one gate.
  `PrepareSubject`/`FinishSubject` and `ReadBack`/`RecordByHand` are the two halves of an
  operation that awaits; each second half checks again as the code does. `standing` is
  history: approved, and not edited, moved or sent back since.
- **`Decisions`**: `question[e]` a row of `elicitations`, `request[q]` of
  `strict_decision_requests`, `reply` what the last caller heard. `RetryStrict`,
  `RefuseStrict` and `PostStrict` are the three ways through `postStrictDecision`.
- **`Webhooks`**: `verifying` are requests that await the check of their signature;
  `Handle`, `Deduped` and `Refuse` are what comes after it.
- **`LiveBoard`**: `loads` are reads under way, each with the board and version it will
  answer with; `feed` is the socket or its reconnect timer. `Arrived` drops an answer for
  a board that is no longer open, `Greeting` is the message a socket opens with.
- **`Credentials`**: a run of `supi` goes through `Steps`, one file or one exchange each;
  `SetDevice`, `Login` and `Logout` are other runs.
- **`RefreshTokens`**: a call carries the cookie of the moment it was sent (`Sends`), asks
  for one grant after the other (`Granted`, `Denied`, `AnswerLost`, `NotAdmitted`) and
  writes the cookie when its answer arrives (`SetsCookies`), whatever is there by then.
- **`Accounts`**: a request goes through `Phases`, one statement each, from `FindMapped`
  to `ReadRole`; an owner's goes on to invite or change roles.

### Abstractions

- What a run is reported as (`mapRunStatus`), the token cache, the length of a backoff
  and the 100-row and 200-KiB limits are left out; a batch is any nonempty part of what
  is due. The clock may read anything at any time.
- Wording, titles, specs, priorities, due dates, notifications, events, usage and
  handoff contents are left out. The order in which `claim` prefers cards is a free
  choice, so what holds, holds for every order.
- `evaluateCompletion` is an input (`met`) of `Complete`. The grant check of the control
  pair is the action `ClaimDenied`, possible when the constant `ControlPair` says that
  the deployment enforces it.
- The pipeline does not change. In `Board` no stage has an `approvalSubjectSchema`.
- A budget only makes `claim` refuse; the model covers that by not claiming.
- The `Interrupts` constant says whether people move or resume a card whose run still
  works. The code allows it, and `split_brain` shows what follows; the properties that
  hold only when people refrain are checked with `Interrupts = FALSE`, the others with
  `TRUE`.
- A digest is equality of revisions; a signature is right or refused; a version of a
  board is the number of its changes; a payload of a strict decision is its deadline.
- External systems are modelled by how the code uses them: the Organization plane rotates
  refresh tokens and gives an address to one principal at a time; a subscriber takes a
  push, refuses it or does not answer. In `Accounts` an address changes hands only when no
  token that names it is in use (tokens are short-lived; `findOrAdoptOrgHuman` trusts the
  address in one).
- `Wakeup` takes reporting to be on (off, the outbox has no part in the alarm) and keeps
  of the outbox only when it is due next; a reported run makes that now, unless another
  row was due before. It counts time in steps of the smallest backoff, `Schedules` in
  parts of a period, `Recurrence` in the size of one change of the clocks.

## 3. Runs

| Run | Bounds | Checks |
|---|---|---|
| `interrupts` | 1 card, 3 runs, 1 agent, 1 person, work/review/done, `Interrupts` | `TypeOK`, `LeaseOK`, `QuestionsAlive`, `AutomationProgresses` |
| `lifecycle` | 1 card, 3 runs, work/judge/review/done, `ControlPair` | `LeasesMatch`, `LeasesLent`, `GatesMatch`, `ParkedSaysWhy`, `BreakerHolds`, `OnlyPeopleUnpark` |
| `family` | 3 cards, 2 runs, all ordering links, the steps of `FamilyNext` | `DeferredHeld`, `LinksOrdered`, `ParentAfterChildren` |
| `reports` | 2 runs changing twice, 2 callers, 2 attempts, clock 1–2, rewrites up to gen 2 by the backfill | `TypeOK`, `NothingLost`, `Follows`, `OwnAnswers` |
| `services` | the twelve parts below, one at a time | `TypesOK` and the properties of the second table |
| `settles` | 2 deliveries of 2 subscriptions, 2 drains, 2 attempts; 1 card, 2 runs; 2 runs changing once; fairness | `PushSettles`, `DarkRunsEnd`, `Reported` |
| `stale_needs`, `mutual_hold`, `wip_claim`, `split_brain`, `approval_confirm`, `feed_switch` | as small as the case allows | one sentence of the documentation, a comment or a test each, which the code does not keep (section 5) |

The parts of `services`, with their bounds and properties:

| Part | Bounds | Checks |
|---|---|---|
| `PushQueue` | 3 deliveries, 2 subscriptions, 2 drains, 2 attempts, 2 per drain and 1 per subscription, 1 eviction | `AtLeastOnce`, `RetriesYield` |
| `Schedules` | an interval of 2, a day of 3, time to 5, 3 cards, 1 firing cut short | `OncePerTick`, `PhaseKept`, `StandsAlone` |
| `Recurrence` | a day of 5 units, a week of 2 days, offsets −2 to 2 with one change at any of 5 instants, 11 instants asked from | `NextFireIsRight` |
| `Wakeup` | 2 runs, 1 delivery, 2 attempts, time to 3, reports put off by at most 1 | `KeepsRinging` |
| `ApprovalSubjects` | 2 runs, 2 revisions, 1 URL | `VerifiesOnlyStanding`, `HandDelivered`, `UrlStays` |
| `Decisions` | 1 request, 2 runs, 2 askers, 2 questions, time to 1 | `RetryHeard`, `SettledStays` |
| `Webhooks` | 2 ids, 2 cards, 2 copies of a delivery | `AppliedOnce` |
| `LiveBoard` | 2 boards, 1 change of each, 2 loads under way, 1 deletion | `ShowsOpenBoard`, `Informed` |
| `Credentials` | 1 person and fleet's, 2 runs of supi | `ActsOnlyAsNamed` |
| `RefreshTokens` | 2 calls under way, 4 grants | `NewestKept` |
| `Accounts` | 2 principals, 2 addresses, 2 requests under way, 2 changes of address, 1 change of roles | `ActsAsOneself` |
| `Search` | 3 cards, every board of up to 4 links of three kinds, looped ones too, candidates from one card | `SearchRight` |

What the properties of the board and its reports say:

- `LeaseOK`: the lease an existing card names is a working run, on that card, at its
  stage, for its delegate, with its newest epoch, even when people interrupt.
- `LeasesMatch`: conversely a working run is the one its card names, and a card that is
  worked, or waits for an account, has one. Holds when people leave working cards alone.
- `LeasesLent`: `Board` refines `Lease`. Of all handlers only `claim` lends a card, only one
  nobody holds and to a run that never held one, under the next epoch; a run that is over
  never acts again; and unless people interrupt, whoever may act on a card is its holder.
- `QuestionsAlive`: one pending question per card, whose asker still works or stopped
  to wait for the answer.
- `GatesMatch`: a pending review is about a card that waits, at that stage, with no run
  and no other review.
- `ParkedSaysWhy`: a parked card has a review, a deferred advance or a reason; nothing
  is parked silently, also after archiving.
- `BreakerHolds`, `AutomationProgresses`: failures and returns are bounded, and every
  time the board re-queues a card on its own one of them is used up or the card has
  moved on, so agents cannot loop for ever without a person.
- `OnlyPeopleUnpark`: a parked card is woken by a person's act, never by a step that
  starts, ends or reclaims a run (late verbs included).
- `DeferredHeld`, `ParentAfterChildren`: an advance a parent deferred is replayed when
  its last child completes, is deleted or is unlinked, and not before.
- `LinksOrdered`: the accepted links are acyclic, with one parent per card.
  `SearchRight`: the code's walk answers what the closed form of the rule says, also on
  links that already hold a loop.
- `DarkRunsEnd`: a run that works for ever heartbeats for ever.
- `NothingLost`: a run without an outbox row is one superwitness is up to date with, or
  one that changed while reporting was off. `OwnAnswers`: only the answer to the snapshot
  a row holds settles it. Both rest on the guard by `gen` *and* on the single flight,
  because `gen` starts from 1 again after a row is deleted.
- `Follows`: `RunReports` refines `LatestReport`; superwitness never steps back.
- `Reported`: every change arrives (itself or a later one), or its row is parked, or
  reporting was off.

And of the other components:

- `AtLeastOnce`: a delivery is given up only after it was taken or sent
  `MAX_PUSH_ATTEMPTS` times, although overlapping drains write attempts they read before
  they awaited an endpoint. `RetriesYield`: a drain sends a retry only when every fresh
  delivery it leaves belongs to a subscription that has its share already. `PushSettles`:
  retries end, also when a late answer brings a settled row back.
- `KeepsRinging`: the alarm is never set later than what any of its three jobs needs,
  except for jobs written by the paths that do not arm it (section 5).
- `OncePerTick`: of two sweeps of one instant, or one that comes late, only one fires.
  `PhaseKept`: an interval keeps its phase however late its sweeps are, unless an
  occurrence was skipped. `StandsAlone`: a schedule that skips while its card is open has
  one open card, apart from those it could not know of.
- `NextFireIsRight`: the next instant of a clock rule is later than the one asked from,
  shows the rule's wall clock unless the clocks jump over it, and passes over none but
  one of two equal ones. A behaviour asks one question, of any zone of the bounds.
- `VerifiesOnlyStanding`: a publisher gets the content of a revision only while a
  person's approval of it stands. `HandDelivered`: what a person recorded as posted is
  never handed to the publisher service. `UrlStays`: a recorded URL is final.
- `RetryHeard`: a repeated strict decision is answered with the question it opened, also
  after its lease, its deadline or its question ended. `SettledStays`: an answer is never
  taken back, and nothing settles a question twice.
- `AppliedOnce`: a delivery of a forge has one effect and an issue makes one card,
  although the signature is awaited between looking for the id and recording it.
- `ShowsOpenBoard`: once the open board was read, it is on the screen, whatever answers
  of other boards are still to come. `Informed`: while its feed is up, every change was
  shown or is on its way.
- `ActsOnlyAsNamed`: an environment that names an agent never acts as a person, and a
  run begun after a logout does not act with what the logout should have removed.
- `NewestKept`: calls that do not overlap and are not lost leave the newest refresh
  token in the browser, whatever the plane grants or refuses.
- `ActsAsOneself`: a person acts as one user for ever and nobody else as that user; of
  those who just arrived exactly one is the owner.

**Why the bounds are enough.** A card's counters reset within two failures
(`CIRCUIT_BREAKER_LIMIT = 2`, the code's value) and one automatic return
(`MAX_AUTOMATIC_RETURNS = 1` in the runs; the code's is 2, and the model is the same but
for one more lap), so three runs show a failure, its repetition, and a third holder that
meets what the second left behind. Two runs alive at once need only one card. Cards
interact through links alone, and the cascade needs three generations; there the runs
are kept to what lets a card advance (`FamilyNext`). Once the ids of `Runs` are used up
nothing can be claimed, and once `Cards` are used up and deleted nothing can be created:
the system really stops there, which is why deadlock is not checked. Symmetry is used in
the runs without liveness.

For `RunReports`, two changes of a run give a first row, a rewrite in flight and a row
inserted again after a deletion; a third attempt would only repeat the second; the clock
may stand still or go back. Restarts, lost answers and late requests are not bounded.

The twelve parts of `services` share no variable, so a behaviour moves one of them and
the others rest in their initial states: the state space is the sum, not the product, and
`PartView` compares states by the part that moves, boards by whether they are open and
the runs of `Wakeup` by when they last gave a sign of life. What each part needs to show its
hazard is two of something: two drains of one queue with a third delivery that has to
wait for its share; two recordings of one URL; two revisions, the second made while the
first is approved; two copies of one webhook and two ids for one issue; two boards; two
calls with one cookie; two people and one address that passes from one to the other and
two requests that overlap. `STEP` and `DAY` differ, so that a change of rule changes the
phase; time runs over two periods of either. In `Recurrence` a change of the clocks may
be as long as two units of a day of five, before, at and after the rule's wall clock.
The walk of `Search` needs a loop beside the way to its source and a card met twice, which
three cards with four links have; its candidates start at one card because the cards are
interchangeable. Which boards are on the server at first is symmetric (`OneBoard`). Most parts stop when
their ids or their time is used up.

**Fairness.** In `Board`, `Fairness` is weak fairness of the reclaiming alarm and of time passing.
`scheduleReclaim` arms the alarm for the earliest deadline after every operation that
starts or touches a run, and the platform delivers an alarm at least once. Nothing is
assumed of agents or people.

In `RunReports`, drains keep being started (`scheduleReclaim` arms the alarm for the
earliest `next_attempt_at`, the cron job is the backstop) and backoffs end. Strong
fairness says that not every drain is cut short by a restart before its answer, which a
request has within `REPORTER_FETCH_TIMEOUT_MS`, and that a due row is not left out of
every batch: rows are taken in the order of `next_attempt_at`, and the first always fits.
The lookup of names has no timeout of its own; that it answers is assumed.

In `PushQueue`, weak fairness says that the cron job keeps starting a drain while
something is due, that a request is answered or times out, and that a drain then
finishes. Evictions are bounded; no endpoint has to take anything.

`MCSettles` uses these same conditions, each for the part it belongs to.

## 4. Proofs

Every safety invariant, action property and refinement a passing run checks is a theorem,
for every value of the constants. The assumptions are the named ones of the modules
(`ASSUME`, evaluated by TLC in the runs) and, where said, `~Interrupts` or that there are
finitely many cards. Each proof module has the same shape: lemmas about the operators the
handlers are built from, an inductive invariant, one lemma per action or kind of action,
and the theorems.

### Board

From `PipelineAssumption`, `LimitAssumption` and `IdAssumption`: any pipeline, limits and
number of cards, runs, agents and people.

`BoardProofs`:

- `TypeCorrect`: `Spec => []TypeOK`. `TypeOK` is inductive with two conjuncts a reader
  may not expect: a started run names a card and an agent, and a run that asked is
  started. Without them the actions of a run could not be typed, for they index the
  cards with the run's card.
- `LeaseCorrect` and `EpochsCorrect`: from `IInv`, which adds to `TypeOK` and `LeaseOK`
  that an epoch of a card names one holder (`EpochsDistinct`), that a card which waits to be
  claimed is held by nobody (`Lendable`) and that a run not yet started belongs to no card
  (`Unused`). `LeaseOK` alone is not inductive: a claim gives the epoch `claim_seq + 1`, and
  that the other runs of the card hold older ones is `EpochsDistinct`. The steps fall into two
  groups with a lemma each, those that end no run (`NoRunEnds`) and those that do
  (`RunEnds`): whatever a handler does to a card's row, either the row's lease is
  unchanged or it is given up, and `LeaseStep` turns that into the invariant.

`BoardOrderProofs`, from `OrderInv`, which adds to `IInv` that a completed card owes no
advance and that links join cards that exist:

- `LinksCorrect`: the accepted links stay acyclic, on any number of cards. `OneMoreEdge`
  is the graph theorem behind `wouldCycle`: an edge from `a` to `b` closes no cycle when
  `a` is not reached from `b`. It is proved from closed sets and not by induction along
  paths: what is reached from `b` is closed, and it separates. `FreshTargets` is the case
  of `split`, which adds several edges to new cards without asking.
- `HoldNeedsBothKinds`: where all ordering links are of one kind, no set of open cards
  waits only on itself. `mutual_hold` (section 5) shows a set that does; the theorem says
  that nothing but parent links together with blocks links can make one. `ComesToAnEnd` is
  the graph lemma: what is reached from a node shrinks along an edge, and proper subsets of
  a finite set are well founded. (It argues from a minimal set, which the prover can use,
  and not by induction, whose theorems take an operator.)
- `SearchCorrect`: the walk of `wouldCycle` answers `WouldCycle`, for every finite set of
  links, every candidate and every order of the rows. `Walking` is the invariant of its
  loop: what was seen or is queued is reached from the candidate's target, the source was
  not seen, and an edge out of what was seen leads to what was seen or into the queue. When
  the queue is empty, what was seen is closed, holds the target and not the source.
- `DeferredCorrect` and `CompletionCorrect`: `Replayed` is the least set closed under the
  cascade (`ReplayedLeast`), and a fixed point (`ReplayedFixed`). From the second follows
  that no card that became due is forgotten, from the first that none is replayed while a
  child is open. `CascadeOrder` says so of any rows and links, and the actions that
  complete, delete or unlink a card all go through it.

`BoardReviewProofs`, from `ReviewInv`:

- `QuestionsCorrect`, `ParkedCorrect` and `ProgressCorrect` hold whatever people do.
- `LeasesCorrect`, `GatesCorrect`, `BreakerCorrect` and `PeopleUnparkCorrect` are stated
  under `~Interrupts`, as the runs check them: when a person moves or resumes a card that
  is worked they are false (`split_brain`). They are not inductive one by one. What is
  inductive is `Held`, that *one thing at a time holds a card*: a working run, a pending
  review, a parked question or a deferred advance, each with the state it requires and
  with the failures that leave room for one more attempt. `HeldRow` says it of a row and
  the three sets that refer to it, so that each handler is shown to keep it for its own
  card, to leave other cards alone (`Stays`), and to make of a card its cascade advances
  a row that has just landed (`Lands`).
- `OneRunCorrect`: under `~Interrupts` a card has one working run. It is what `split_brain`
  refutes otherwise, so people who interrupt are the one way to two.
- `LeasesLentCorrect`: `Board` implements `Lease`, whatever people do. Each action lemma of
  `BoardProofs` also says what the action does to leases as seen from outside: all but a
  claim and a deletion only let go (`LetGo`), a deletion lets go of one card and its runs
  (`UnlentWith`), and `NextStep` collects the three kinds. `GivenBack` maps the first to
  `GiveBack`: the runs that end are `over`, the cards that lose their run are `freed`. That
  a card whose run ends is freed is `LeaseOK`; that, unless people interrupt, a card freed is
  one whose run ends is `Matched`, from `LeasesMatch`. A claim maps to `Grant` by `Lendable`
  and `Unused`.

### RunReports

`RunReportsProofs` proves, for any number of runs and callers and any limit of attempts,
from `LimitAssumption` and `NoneAssumption`: `ReportsTypeCorrect`, `NothingLostCorrect`,
`OwnAnswersCorrect` and the refinement `FollowsCorrect`. The inductive invariant adds to
the properties:

- `Ordered`: take every snapshot of a run that is anywhere (now, in the outbox, in hand,
  on its way, kept): a newer stamp means a newer state, and none is newer than the run
  now. Only `ReportRun` makes a snapshot, and it stamps it later than all others; every
  other step moves snapshots around (`QuietStep`).
- `SingleFlight`, `OwnGen`: one drain at a time, and a row in hand is still in the outbox,
  with a greater `gen` or with the same snapshot. Together they make the guard by `gen`
  mean what it should.
- `HandledIsHeld`, `Fresh`, `Unstarted`: what an *ok* answers is held or superseded, and a
  row is up to date, so deleting it loses nothing.

### The other components

| Component | From | Theorems | What makes the invariant inductive, or the argument |
|---|---|---|---|
| `PushQueue` (`DeliveryProofs`) | `PushAssumption` | `PushTypeCorrect`, `AtLeastOnceCorrect`, `RetriesYieldCorrect` | `InReach`: what a drain has in hand was read with attempts left; and, in the type, a row's attempts never exceed the sends. A drain that writes an old number can only delay the end. `RetriesYield` is about the selection, which is by rank in a queue of any size: the rank grows along the order, and what is taken first is closed downwards and as many as asked for, or all (`ForemostClosed`, `ForemostMany`) |
| `Webhooks` (`DeliveryProofs`) | `HookAssumption` | `HookTypeCorrect`, `AppliedOnceCorrect` | `Counted`: applied exactly when recorded; `KnownMade`: a card GitHub made references the issue until somebody takes that away, so while one is there no other is made |
| `LiveBoard` (`DeliveryProofs`) | `LiveAssumption` | `LiveTypeCorrect`, `ShownCorrect`, `InformedCorrect` | `Aware`: while the feed is heard, the present version was seen, or a message is waiting, or a read is under way that will be of use (not answered yet, failed, or answered with what is still so) |
| `ApprovalSubjects` (`ApprovalProofs`) | `ApprovalAssumption` | `ApsTypeCorrect`, `VerifiesOnlyStandingCorrect`, `HandDeliveredCorrect`, `UrlStaysCorrect` | `Stands`: an approved revision that is current still stands; `ByHand`: a person's record keeps the gate decided as manual; `Blank`: a revision not yet made has no record |
| `Decisions` (`ApprovalProofs`) | `DecisionAssumption` | `DecTypeCorrect`, `RetryHeardCorrect`, `SettledStaysCorrect` | one question at most is pending (`AtMostOnePending`), so settling *the pending one* of a card cannot touch another |
| `Credentials` (`IdentityProofs`) | none | `CredTypeCorrect`, `ActsOnlyAsNamedCorrect` | `Follows`: what a run knows at each step, chiefly that it reads `token.json` only after it found a device |
| `RefreshTokens` (`IdentityProofs`) | `RefreshAssumption` | `RefreshTypeCorrect`, `NewestKeptCorrect` | `InHand`: while nothing overlapped, the one call under way has the newest token in hand or the cookie does (`Alone`, `Sound`) |
| `Accounts` (`IdentityProofs`) | `AccAssumption` | `AccTypeCorrect`, `ActsAsOneselfCorrect` | a mapping is written once and is unique (`OneUser`), an address has one holder (`OneHolder`), a request's row agrees with both at each phase (`Row`); one owner while nobody changed roles (`OneOwner`) |
| `Schedules` (`ClockProofs`) | `ScheduleAssumption` | `SchedTypeCorrect`, `OncePerTickCorrect`, `PhaseCorrect`, `StandsAloneCorrect` | `FiredBefore`: the next firing is later than the last; `LastAlone`: of the cards a skipping schedule answers for, only the one it remembers may be open. `AdvancesPast` is the arithmetic of `advanceFireTime`: later than now, in phase |
| `Wakeup` (`ClockProofs`) | `WakeAssumption`, `BackoffAssumption` | `WakeTypeCorrect`, `KeepsRingingCorrect` | the alarm was set no later than now, and it is in time for what was there when it was set whatever its handler does next (`InTime`): a backoff only grows, a drain only puts reports off, a heartbeat puts its deadline off, and what else is written arms the alarm or is left in `unarmed` |
| `Recurrence` (`ClockProofs`) | `RecurrenceAssumption` | `NextFireCorrect` | lemmas about a zone (`WallsLater`, `OneInstant`, `InOrder`: walls follow instants but where the clocks change, and the code's two corrections find the instant of any wall that is shown once) and about the search over days (`SearchEnds`: it finds the first day that fits) |
| `MCServices` (`ClockProofs`) | all of these and `SearchAssumption` | `ServicesAreEach`, `ServicesTypesCorrect` | a step moves one service and is a step or a stutter of every one, so that each theorem above holds of the services side by side, as the run has them |

Two of the assumptions were made by the proofs. `BackoffAssumption` says that the backoff
is a natural number and grows with the attempts: it is a power of two, which the provers
do not know, and which TLC evaluates. `RecurrenceAssumption` asks for `MAX_DAYS > WEEK + 1`
(in the code 40 and 7): the day after the one asked from may fit and, in a zone whose
clocks jump over its wall, still have an instant that is no later; then the search has to
go a week beyond that day.

### Only model-checked

- `PushSettles`, `DarkRunsEnd`, `Reported`: liveness under fairness is out of the prover's
  reach.
- The six violations of section 5, which no theorem could state.

## 5. What the code does not keep

Six runs state a sentence of the documentation, of a comment or of a test and TLC
refutes it; the quotes are in `PROJECT.json`.

- `stale_needs`: a released run leaves its "needs you" on the card, and the next run
  works under it.
- `mutual_hold`: the cycle check merges `blocks` and `parent` in one direction although
  they order in opposite ones; a parent that blocks its child is accepted and both wait
  for ever, while the harmless converse is refused.
- `wip_claim`: WIP limits are enforced when a person moves a card, not at the claim.
- `split_brain`: moving or resuming a card that is being worked leaves its run working
  and authorized, next to the run of whoever claims the card then.
- `approval_confirm`: an edit or a move retires only the subject the card points at, and
  resuming a card retires none. An approved revision that was resumed and drafted again
  stays approved, and is still confirmed to the publisher service.
- `feed_switch`: `#openBoard` connects to the board it was *called* for when its lists
  arrive, not to the one that is open then; two quick switches leave the screen on one
  board and the feed on the other.

Seen while modelling, and reproduced by no run here:

*Board.* Creating a card (`cards.ts` 174–175), the sweep's digest (`stale.ts` 381–390),
the advance after a delivery and archiving queue pushes or reports without arming the
alarm (`claims.ts` 43–54, `docs/05-integration-surfaces.md` 340); unless something else
arms it (a subscriber to the card's events is enough, `card-store.ts` 263) they wait for
the cron job. `drainAt` is computed from now at each arming, so a busy board postpones it.
A deferred advance drops its approval subject, so its replay opens an unbound gate.
A gate on automatic whose URL the service recorded can be switched to manual
(`gates.ts` 372–376), and one on manual switched to automatic ignores a live run.
A late run that completes while its card is in review passes the pending gate.
`mapRunStatus` (`report.ts` 39) looks for `approve` where a bound gate stores
`approve_manual` or `approve_automatic`. `docs/04-agent-contract.md` 191 says
*at-most-once* of deliveries that `docs/05` and the code retry.

*Schedules.* A skipped interval occurrence loses its phase: it is advanced by
`nextFireAt` (`schedules.ts` 259–268), which counts from now, and not by the rule of
`recurrence.ts` 144–146. Switching a schedule to *allow* forgets its open card. A wall
clock the clocks jump over lands an hour *before* the gap's end in zones west of UTC
(`recurrence.ts` 121–122 says "the next instant that does").

*Webhooks.* An issue delivery is recorded as seen before its card is made, and a failure
to make it is ignored (`triggers.ts` 202, 231): no redelivery repairs it. Late events are
applied, though `docs/06` 153 says to reject stale timestamps.

*Sign-in and accounts.* `/hub/token` restores the cookie it started from when a later
grant is refused (`plane-signin.ts` 280); when a `/hub/session` renewal, which takes no
lock, spent that token meanwhile, the older one overwrites the newer. An answer that
arrives after a logout sets the cookies again. Two owners who step down at once leave a
workspace without one (`routes/members.ts` 54–57). A removed member is provisioned again
by the next request of a token (`INSERT OR IGNORE`), though `resolve.ts` 55 calls removal
a revocation.

*Web application.* A 401 that arrives late while a session is being restored ends it, and
one between the end of a restore and its `finally` is dropped. Two refreshes of one board
whose answers cross leave the older snapshot (`app.svelte.ts` 680) until the next change.
A socket that dies before its first message is not seen as stalled.

*CLI.* `supi login` as another person beside an exchange of the former one may leave the
former one's identity in `token.json` (`credential.ts` 145–148). `fleet-token.json` is not
keyed by its device. The token of a station in `SUPERPIPELINE_TOKEN` is taken for a
person's.

## 6. Plan

Next, in this order:

1. `BoardReports`: `Board` with the calls of `reportRun` its handlers make, and
   `mapRunStatus`. Property: a run's draft in the outbox is what its facts map to now.
2. Pipeline edits: `setStages` and `updateStage` under living cards, gates and runs.
3. The sweep's reminders and its digest; the session of the web application
   (`auth-recovery`), as a second module beside `LiveBoard`.

Not modelled, and why:

- Metering and budgets: sums over appended rows; the one effect, that `claim` refuses,
  is covered by not claiming.
- The SDK of agents: the model lets an agent call any verb at any time.
- The catalogue of agents, projects, capabilities and labels, comments, history, evidence
  and views: single statements on rows no modelled rule reads.
- Parsing, rendering, the routes' and the MCP tools' shapes, the components of the web
  application: no state of their own that outlives a call or a page.
- The authorization-code flow: one redirect with a state that is read once.
- Documentation, scripts, deployment: no state at run time.
