# MUN Hub: TLA+ models and proofs

MUN Hub sells seats at Model United Nations conferences. Its core logic is a
TypeScript library (`lib/`) of request handlers over one PostgreSQL database;
an HTTP server (`server/`) runs the handlers in workers, a cron trigger runs
background jobs, a payment provider (Cashfree) calls back through webhooks.
There is no in-memory state worth modelling: everything hard is in the
interleaving of transactions, of steps between transactions, and of an
unreliable provider.

Paths below are relative to the repository root.

## 1. Inventory

| Component | State it keeps | Operations | Hard behaviour | What makes it correct |
|---|---|---|---|---|
| Seat reservation `lib/actions/registration.ts`, `lib/jobs/release-expired-holds.ts` | `registrations` (status, expiry, idempotency key), capacities | `initiateRegistration` (sweep, reserve, create order, record order), release job | calls interleave between statements and transactions; four row locks in turn; crash after commit; client retries | no pool oversold, one active registration per pass, a retry takes no second seat, every hold ends |
| Payment settlement `lib/payments/webhook.ts`, `exceptions.ts`, `admin-reconcile.ts` | `payments`, `payment_webhook_events`, `registrations.status` | deliver event, reject stale, reconcile now, resolve exception | lost, late, repeated and reordered reports; two charges for an order; seat released meanwhile | money is never lost track of, a seat is only held against a payment in time, a payment is never undone |
| Reconciliation `lib/jobs/reconcile-cashfree-orders.ts`, `cashfree-adapter.ts` | none of its own between runs | select a batch, poll, apply | answers applied later than they were read; polls that fail; bounded batches | a capture whose webhook is lost is settled in the end |
| Group registrations `lib/actions/registration-group.ts` | groups, slots, invitations | reserve a team, invite, resend, cancel, accept, release | two invitations accepted at once, resend racing cancel | one delegate per slot, one registration per delegate and pass |
| Conference lifecycle `lib/lifecycle/registration-lifecycle.ts`, `mun-state-machine.ts` | `muns.status` and its logs | open, close, start, end, complete, cancel, suspend, scheduler | scheduler racing people; effects on registrations and submissions | only legal transitions; effects happen with them |
| Check-in, attendance, results `lib/actions/check-in.ts`, `results.ts` | `registrations.status`, `achievements` | check in, mark attendance, award, submit and review results | marks racing awards, both racing the changes of status | no award for a no-show, attendance only while open, awards frozen once submitted |
| Configuration `lib/actions/mun-config.ts`, `accommodation.ts` | passes, committees, portfolios, rooms | CRUD | edits while seats are sold or modules are reviewed | never more sold by an edit |
| Go-live pipeline `lib/lifecycle/go-live.ts`, `module-*.ts`, `reverification.ts`, `sla.ts` | submissions, module states, issues, SLA dates | submit, queue, review, publish, verify, confirm | lock order, checks outside transactions, multi-step commits | at most one active submission, published only when verified |
| Applications to host `lib/actions/organizer-application.ts`, `admin-review.ts` | `organizer_applications`, `muns.status` | apply, resubmit, decide, cancel | two rows that must move together; a way out of one that leaves the other behind | the two statuses agree |
| Organizer codes, staff MFA, passwords, sessions `lib/actions/organizer-otp.ts`, `staff-mfa.ts`, `password-reset.ts`, `lib/auth/session.ts` | codes, challenges, tokens, sessions | request, verify, enroll, reset, sign out | limits read without locks, tokens consumed concurrently | a code or token works once |
| Account deletion `lib/actions/account-deletion.ts` | users, holds, sessions | delete | a call in flight for the deleted user | its holds end |
| Fees, pricing, business days `lib/payments/fees*.ts`, `pricing.ts`, `lib/lifecycle/sla.ts` | none | pure functions | rounding, boundaries | sums agree |
| Notifications, exports, read models, storage, HTTP glue, web client | none that other parts read | | | |

How they interact: every component writes `registrations.status`, each with its
own statement and guard. Reservations take `FOR SHARE` on the conference and
`FOR UPDATE` on each pool; lifecycle changes take `FOR UPDATE` on the
conference; settlement takes the payment row and then the registration row.
Reservation and settlement only meet in the registration row: a reservation
leaves a `PAYMENT_PENDING` row and a `payments` row, and settlement, the sweeps
and staff decide what becomes of them. Everything a conference goes through
meets in `muns.status`, whose only writers go through one transition table
(`MunStates`): applications and the go-live pipeline bring it to `PUBLISHED`,
the lifecycle actions and the scheduled run take it from there.

`PROJECT.json` lists every component and, under `hazards`, what can go wrong in
each and which property would catch it.

## 2. Modules

| Module | What it is |
|---|---|
| `Seats` | abstract: pools, claims, holds; a claim is granted only where there is room, a released booking never returns |
| `Reservation` | `initiateRegistration` step by step with every other writer of the row; implements `Seats` |
| `MCReservation` | its small instances |
| `ReservationProofs` | its theorems, proved with TLAPS |
| `OrderContract` | abstract: an order's seat, payment and debt to the delegate |
| `Settlement` | settlement, reconciliation, staff and the releases they race; implements `OrderContract` |
| `MCSettlement` | its small instances |
| `SettlementProofs` | its theorems, proved with TLAPS |
| `TeamPromise` | abstract: a team's seats are held, paid and released as one; a paid seat is joined once |
| `Delegation` | teams for one pass, their payment, invitations and accepts; implements `TeamPromise` |
| `MCDelegation` | its small instances |
| `DelegationProofs` | its theorems, proved with TLAPS |
| `MunStates` | the transition table, shared by the modules below |
| `MunLifecycle` | a conference from publication on: actions, dates, scheduled run |
| `Results` | attendance, awards and their review, composed with `MunLifecycle` |
| `MCResults` | its small instances |
| `ResultsProofs` | theorems of `Results` and of the scheduled run, proved with TLAPS |
| `Applications` | gate 1: an organizer's applications and their conferences |
| `GoLive` | gates 2 and 3, composed with `Applications`: modules, rounds, queue, publication |
| `MCGoLive` | its small instance |
| `GoLiveProofs` | theorems of both, proved with TLAPS |
| `Fees` | the fee splits and the price of a pass, with their theorems |

### Reservation

A call is one invocation of `initiateRegistration`; it names the row it may
insert, so a row and its call have one identifier. `pc` says where the call
stands: looking up its key and sweeping (`Begin`, `SweepExpired`), entering the
reservation transaction with the share lock on the conference (`LockMun`),
locking its pools one after the other with the checks and the count made under
each lock (`LockPool`), inserting and committing (`Insert`, `InsertCollides`
when the unique index refuses), calling the provider (`CreateOrder`,
`CreateOrderFails` with the compensating release), and the second transaction
(`RecordOrder`). `lock` is the row-lock table, `seen` the rows a call counted
under its lock, `keyed` the rows whose key is set. Under READ COMMITTED each
statement sees what was committed before it, which is what the actions read.

The other writers are actions of their own: the two statements of the release
job with the job's own `now` (`JobReleasesCheckouts`, `JobReleasesUnordered`), the
payment webhook (`PaymentConfirms`, `PaymentReleases`), staff, account deletion,
check-in, attendance, the conference's status changes, capacity edits and the
removal of a pass. `Refuse` stands for the checks on data the model leaves out
(wrong conference, closed room type, a missing adapter), `Crash` for the death
of a worker.

Abstracted: the opening date, the pass deadline, and the match of committees
and portfolios are `Refuse`; price and fees are the flag `free`; the two lazy
sweeps (of the pass, then of the conference) are one step, since the second
covers the first. The model ends with the conference: results and reopening
are left to a later module. Hard deletion of committees and portfolios is left
out, and so are groups.

### Settlement

The provider is the environment. A charge is one attempt on an order; an event
is one report of it with one event id. A charge may be reported any number of
times, late, in any order, under several ids (the mock provider's; Cashfree
uses the attempt's id) or never. One event is one step because `applyEvent`
runs in one transaction that holds the payment row and then the registration
row. `ApplyEvent` has one disjunct per branch of `applyEvent`. The job reads
and applies in different steps, so an answer can be stale when it is applied;
`LosePolled` is the eviction of the worker in between. `CONFIRMED` stands for
the three seat-holding statuses; a conference's cancellation and a deleted
account are `CancelHolds`.

Left out: events for unknown orders and of the wrong provider (recorded and
dropped), the legacy refund statuses, and the group scope of an order, which is
in `Delegation`.

### Delegation

A seat is a row of `registrations`; a team is a group with its head's seat and
its placeholders, all owned by the head until claimed; a team of one seat is a
solo registration. `phase` and `passLock` follow `initiateGroupRegistration`:
lock the pass and count (`LockPass`), insert all rows (`InsertTeam`), create and
record the order (`RecordOrder`, `CreateOrderFails`). `Captured` and `Failed` are
the group scope of settlement. An invitation has the number of the last link
sent (`link`), since only the hash of the last token is found. Inviting reads
whether the team is paid before its transaction and invites later (`CheckInvite`,
`InviteGroupMember`; `inviting` has the teams found paid, and any number of
calls may go on from that answer); resending reads the invitation and rewrites
it later (`CheckResend`, `ResendGroupInvitation`); accepting locks the invitation
and then the seat (`LockInvitation`, `LockSeat`, `Accept`), where `call` is the lock table. The sweeps, staff, account deletion
and attendance are actions of their own. Left out: `releaseGroupSeat`, which no
caller reaches in a state where it does anything, the several committees of a
team, and the e-mails.

### MunLifecycle and Results

`MunLifecycle` has one action per lifecycle action and per administrator's move,
each one transaction under the conference's row lock; the two statements of
`updateMunDetails` (`CheckDates`, `UpdateDates`), which takes no lock and writes
every field it was sent, so that an editor who sends the whole form undoes what
another wrote meanwhile; and the scheduled run: `BeginRun` fixes its instant,
each step queries (`Query`) and decides again under the lock (`RunStep`,
`SkipStep`), and the worker may be evicted (`LoseRun`). An instant is a number and `PerDay` of them are an IST day.
`Results` adds the handlers of attendance (share lock on the conference, then
the registration's lock) and of awards (a check in no transaction, then a share
lock or none; a delegate may win several, each a row of `achievements`), the
submission and the review of the results. `Republish` stands for the part of the
pipeline that `GoLive` has in full. Left out: the effects on registrations (in
`Reservation`) and on rounds (in `GoLive`), and the notices.

### Applications and GoLive

`Applications` has one organizer's conferences and the row of the application
beside each; each call is one action because it locks the organizer's row or the
conference. `GoLive` follows one of them (`Focus`): `rounds` is
`mun_submissions` by version number, `module` and `required` are
`mun_module_verifications`. Four handlers let others in between their steps and
are split there: the progress engine at the end of every edit (`ReadProgress`,
`MaterializeProgress`), the final confirmation (`CheckConfirmation`, `Attest`,
`AdvanceToVerification`, which has the hop through `ORGANIZER_CONFIRMATION` that
the code makes for a conference found in `CONTENT_SUBMITTED`: the theorem
`NothingStopsHalfway` shows that no transaction leaves one there), a verdict on
a module with the check that follows it (`ReviewModule`, `ReadRows`,
`ReadStatus`, `AdvanceToVerified`), and publishing without a round
(`FindNoRound`, `PublishDirectly`). What the organizer filled in
is the outcome of its validation, either way each time. Left out: the claim of
a submission by a reviewer, issues, SLA dates, snapshots, percentages, and
`submitMunForVerification`, which nothing calls. Nothing sends the modules of a
published conference back to review: `reverification.ts` only lists the fields
that are locked during the first one, and what is still checked again, the
payout details, is part of `ready` in `MunLifecycle`.

Three things the code allows are in the model and no property forbids them,
because no document does: a verdict whose check read the status before the
conference was published takes it from `PUBLISHED` back to `VERIFIED`; a
confirmation that was checked early and advances last takes a verified or
published conference back to `VERIFICATION`; and a decision on an application may
reject or send back a conference that is in `VERIFICATION`, whose round stays
active. `RoundFollowsConference` says what still holds with all three.

### Fees

Whole rupees and basis points. `Additive` is what a registration is charged,
`Subtractive` the older split, which only its tests still call, `PassPrice` the
early-bird rule. Everything about them is proved for all amounts and rates, so
no run enumerates them.

## 3. Runs

| Run | Instance | Shows |
|---|---|---|
| `reservation` | two calls of four kinds (paid, free, retried with one key for the same or another pass, sharing a room type), every other actor | the type invariant; no oversell by any step; no second seat by retry; answers are the caller's own; a cancelled conference holds nothing |
| `rush` | three calls, two passes, one shared room type, capacities moving between 1 and 2 | no oversell; one active registration of a delegate per pass, also where the pass has room for two; `Seats` is implemented |
| `reservation_live` | two calls that lock the same two pools, fair workers and jobs | every call answers; every hold ends |
| `settlement` | one order, two charges, two event ids each | every charge reported is the payment on file or its order has an exception (one per order is enough: see `hazards`); paid means seat, exception or audit record; seats are paid in time; payments are not undone; `OrderContract` is implemented |
| `reconcile` | two orders, two charges, all stale orders fit in the batch | a captured order is settled or raised with no webhook at all |
| `reconcile_backlog` | a batch smaller than the backlog | fails: see Findings |
| `delegation` | a team of three and a solo delegate for three seats, two invitations, two accepts, one resend | no oversell by teams; a seat is claimed through one invitation; closed invitations stay closed; `TeamPromise` is implemented |
| `delegation_twice` | two paid teams that invite one delegate | fails: see Findings |
| `results` | one delegate, two handlers, two editors, a scheduled run, two and a half days | no award for a no-show; attendance only while open; review verifies every award; due transitions happen |
| `awards_frozen` | one delegate, two handlers | fails: see Findings |
| `golive` | two conferences of an organizer, two modules, two concurrent calls, two rounds | application and conference agree; the round fits the conference; the progress engine stays out of review; the last verdict advances |
| `application_blocked` | two conferences, gate 1 only | fails: see Findings |

Bounds. Two calls suffice for every pairwise race, and three for a count that
is wrong by a call that is neither the counter nor the writer; retries need
two calls with one key; two pools are the least with a lock order. The clock has
three values: open, after the deadline, and after every hold has run out.
Two charges are the least for a duplicate and for failure and success out of
order; two event ids the least for one charge reported by two paths. One order
suffices for safety because the code never relates two orders; liveness has two
because they share the batch. `RushHour` and `BeforeTheConference` are
constraints that keep actors out which other runs have. `reservation_live` also
passes without its constraint (314,560 states); the constraint only makes it
short.

Three seats and a team of three are the least for a team that fits only without
the solo delegate; two invitations the least for two to one seat, two links the
least for an outdated one. `SmallCrowd` thins out the attendance and the solo
delegate's payment, and lets both accepts run at once only before the last
instant. Two instants a day are the least that tell a day from an instant. One
delegate suffices for the awards because no handler relates two, two awards are
the least for one that is left when another is deleted (`RowsInOrder`: which row
an award takes does not matter); two handlers are one mark and one award. Two
editors are the least for a lost update, one that sends the whole form and one
that sends a single date (`FormAndField`). `OneThingAtATime` runs the handlers and the
scheduled run (with the editors) in turn, the handlers at fixed dates, since they
read no date but the check-in window; both meet in the changes of status, which are in each half.
Two modules are the least with a last verdict, one of them the one that stays
required; two calls the least for two last verdicts; two rounds the least for a
republication. `MCGoLive`'s constraint lets the second application go on only
before the first is past gate 1, as it touches nothing the later gates read.

`CHECK_DEADLOCK FALSE` is set everywhere because the clock, the calls and the
charges are bounded, so an instance stops once all of them are used up.

### Fairness

`Reservation`: a worker runs an accepted call until it answers or crashes (weak
fairness of a call's steps while it is working; a client need never call), the
cron trigger fires (`lib/jobs/registry.ts`), the clock runs. Nothing is assumed of
people, the provider or other writers. A transaction that waits for a row lock
gets it in the end, as PostgreSQL queues waiters.

`Settlement`: the clock and the trigger as above. A poll that is tried again and
again gets an answer now and then, and not every worker is evicted before it
applies one: strong fairness, because both steps are disabled and enabled in
turn as runs start and fail. No webhook, delegate or member of staff is
assumed to do anything.

`Results`: the cron fires, and for each step of a run strong fairness, because
runs may be evicted and start over: not every run dies at the same step. The
run's transaction waits for share locks of attendance calls, but PostgreSQL
queues a writer ahead of later readers, so handlers cannot starve it; a change
that undoes what was due also counts as an answer.

`GoLive`: weak fairness of a verdict's check, which runs in the same request as
the verdict. The worker may die instead, which `lost` records, and the promise
is then void, as it is in the code: nothing runs the check again but the next
verdict.

## 4. Findings

`reconcile_backlog`. The job takes the oldest `RECONCILE_BATCH_SIZE` stale orders
(`lib/jobs/reconcile-cashfree-orders.ts:116-117`). An order nobody pays stays
`PENDING` (releasing its seat does not touch the payment), so it is stale for
ever; once a full batch of them exists, the job polls the same orders at every
run and a younger captured order whose webhook was lost is never reached. The
comments at lines 11-12 and 171-172 promise otherwise. `reconcile` shows that
the promise holds while the backlog fits in a batch.

`delegation_twice`. Accepting reads the delegate's other seats with no lock that
two accepts (or an accept and a reservation) of one delegate share
(`lib/actions/registration-group.ts:592`). Both commit, and the delegate holds two
seats of one pass, which `docs/autonomous-run/changes/lane-delegation.md:141-143`
says is rejected.

`awards_frozen`. Awards are checked to be editable before the transaction that
writes them (`lib/actions/results.ts:71`), and not again. A call that passed the
check changes the awards after the submission, against line 27 of the same file.

`application_blocked`. Cancelling a conference leaves its application waiting.
No decision can reach it any more, and it blocks every later application of the
organizer (`lib/actions/organizer-application.ts:140`), against
`docs/autonomous-run/changes/mun-hub-f1.md:29`.

## 5. Proofs

`ReservationProofs` proves, for any number of calls, users, keys, passes and
other pools, and any capacities, the theorems listed in `PROJECT.json`. The
assumptions are those of `Reservation`: finitely many calls, well-formed
requests, a rank of the pools that is injective within a request with the pass
first, natural capacities, and a clock that outlives a hold.

The inductive invariant is

    IInv == TypeOK /\ LocksHeld /\ CountsHold /\ RowsFollowCalls
                   /\ OpenWhileShared /\ KeysStay

* `LocksHeld`: only a call in its transaction holds pool locks, and only on pools
  it asked for.
* `CountsHold`: while a call holds a pool's lock, the pool's occupants are among
  those it counted, they were fewer than the capacity, and, for a pass, none of
  them was the caller's. This is the heart: sweeps and cancellations only shrink
  the set, capacity edits wait for the lock, and nobody else can insert because
  inserting needs the lock.
* `RowsFollowCalls`: a call has no row before it inserts and has one while it
  orders.
* `OpenWhileShared`: a call in its transaction implies an open conference.
* `KeysStay`: an active row sent with a key still has it, and a keyed row exists.

None of the safety properties is inductive without `CountsHold` and `LocksHeld`:
they speak of the table, and the reason they hold is in the locks. The
refinement theorem `SeatPromiseKept` needs the same invariant, to show that an
insert is a `Claim` with room in every pool.

`SettlementProofs` does the same for `Settlement`, for any orders, any number of
charges and event ids, any batch size and any lengths of time. The invariant is
the three safety properties with what they need:

    IInv == TypeOK /\ ChargesNumbered /\ OrdersHaveRows /\ ChargesHaveOrders
                   /\ EventsHaveCharges /\ EveryChargeAccounted
                   /\ PaidMeansSeatOrException /\ SeatPaidInTime

* `ChargesNumbered`: two charges never share an id, so an event names one charge.
* `OrdersHaveRows`, `ChargesHaveOrders`: the payment and the registration appear
  together, and only then is there anything to charge.
* `EventsHaveCharges`: a charge is new to the receiver when it is made.

The lemma `ApplyEffect` sums up the seven branches of `applyEvent` in one formula
about the order concerned; every property follows from it. `Moves` lists the
ways an order may change, and `OneOrderMaps` turns each into a step of
`OrderContract`.


`DelegationProofs` proves, for any teams of any finite sizes, any capacity, any
invitations, links, calls and lengths of time,

    IInv == TypeOK /\ LockInsidePhase /\ RoomKept /\ TeamsFit
                   /\ HeadKept /\ OneTeamPerHead /\ RowsFollowTeams
                   /\ InvitationsName /\ OneAccepted
                   /\ CallsShaped /\ LocksExclude /\ ClaimsHold

* `LockInsidePhase`, `RoomKept`, `HeadKept`: the team that holds the lock of the
  pass still has room for all its seats and a head without a team, as it read
  them when it took the lock. Nobody else inserts without that lock, and every
  other step only lets seats go: `TeamsFit` and `OneTeamPerHead` follow.
  `OneTeamPerHead` is checked by no run; it is the half of one seat per delegate
  that the code does keep (accepting takes no lock on the pass, which is the
  finding `delegation_twice`).
* `RowsFollowTeams`: the rows of a team appear together and their status says
  how far the call is; an unpaid seat is the head's, so nobody has claimed it.
* `InvitationsName`, `OneAccepted`: accepted invitations and claimed seats match
  one to one. This is stronger than `ClaimedThroughOneInvitation`, which is the
  number of them.
* `CallsShaped`, `LocksExclude`, `ClaimsHold`: an accept holds a pending invitation
  that no other call holds, and what it read of the seat under its lock is true
  when it writes. Without them two invitations for one seat could both claim it.

The action property `ClosedInvitationsStay` holds although a resend writes
whatever became of the invitation: it writes the link and the dates but never
the status, and an accept writes only the pending invitation it has locked. `TeamPromiseKept` maps each step to one of `TeamPromise`:
the sweep, a late payment and the failed order are all one release or one
payment of the whole team, and only the last step of an accept is visible.

`ResultsProofs` proves, for any delegates, handlers and editors, any dates and
any length of a day,

    IInv == TypeOK /\ CallsShaped /\ LocksExclude
                   /\ WinnersEligible /\ RosterOpen /\ NoAwardForNoShow

* `TypeOK` says of an edit that it sends dates of their kind (`Inputs`), and the
  lemma `EditedDates` that such an edit leaves dates of their kind.
* `CallsShaped`: a call that has begun is about a delegate, and one that holds the
  conference is an attendance call.
* `LocksExclude`: no delegate is being marked and awarded at once; `WinnersEligible`:
  the status of the registration that an award was checked against still stands
  when it is written. The award is written without a look at the attendance, so
  `NoAwardForNoShow` is not inductive without both.
* `RosterOpen`: while a handler holds the share lock on the conference its status
  admits attendance. `AttendanceWhileOpen` follows, since a mark is written by such
  a handler; the check it made is two steps old by then.

`ReviewVerifiesAwards` needs no invariant but the types: it is a fact about every
action that completes a conference. `QueryFindsDue` is about the scheduled run: the query
compares a date with the end of the day in India, the check under the lock
compares the day's start with the instant, and the two are the same for every
date (`DayBegun`). So a run neither misses a conference that is due nor takes a
lock in vain, except that the query does not look at what opening also needs
(a pass on sale, payouts set up).

`GoLiveProofs` proves, for any conferences, modules, calls and rounds,

    IInv == TypeOK /\ GateOneLockstep /\ RoundFollowsConference
                   /\ EnginesAgree /\ NoneHalfway

* `RoundFollowsConference` is inductive only with all of `RoundBehind`, which says
  of every status past the final confirmation that a round is active or was
  published: `VERIFIED`, from which a conference is queued, is reached from
  `VERIFICATION` and from `PUBLISHED`, so both need it too.
* `EnginesAgree`: while a progress engine is between its read and its write, the
  conference is where the engine could have seen it, or cancelled. The read is
  not locked; what keeps the status still is that every way out of onboarding
  writes the module rows, one of which the engine has locked.
* `NoneHalfway`: no conference rests in a status that a submission only passes
  through. From there the final confirmation could advance to
  `ORGANIZER_CONFIRMATION` a conference that has no round.

The lemma `Table` reads the transition table by columns: the statuses each status
can be entered from. `Agreement` is the invariant without the types, and each
group of actions has a lemma that keeps it. `EngineStaysOut` is the action
property: the step that ends an engine and moves the status is
`MaterializeProgress` of that engine, so `EnginesAgree` applies. The bound
`MaxRounds` is not used by any proof.

`Fees`: rounding is to the nearest, the larger of two; it is monotone and never
exceeds its base; so a dearer pass never costs less in total, and a fee below
one half never makes the subtractive split throw. (The comment in `fees.ts:62`
says that takes a fee above about 84.7 %; a price of 3 at 83.34 % and 18 % tax is
refused already. Nothing but tests calls that function.)

Only model-checked: liveness, which is out of the prover's reach (`CallsFinish`,
`HoldsEnd`, `MissedWebhookRecovered`, `DueTransitionsHappen`,
`LastVerdictAdvances`). Every other property of a passing run is a theorem.

## 6. Plan

Done: `Seats`, `Reservation`, `OrderContract`, `Settlement`, `TeamPromise`,
`Delegation`, `MunLifecycle`, `Results`, `Applications`, `GoLive`, `Fees`, and the
proofs of all of them. Left, in this order:

1. Support tickets and the onboarding wizard, whose states are small.
2. What liveness rests on and can be proved: that a call always has a step
   unless it waits for a lock, and that the ranks of the pools keep the waiting
   free of cycles.

## 7. Not modelled

Sign-in, codes, sessions and other handling of credentials: the project is about
the correctness of bookings, money and the life of a conference, and none of its
properties depends on who was let in. Authorization only appears as the absence
of an action.

Read models, exports, formatting, file storage, encryption, e-mail content and
the web client keep no state that the modelled parts read. HTTP routing and
middleware only appear as the concurrency of calls. Migrations, scripts, load
and end-to-end tests are not part of the running system. The SLA calendar
(`lib/lifecycle/sla.ts`) is a loop over dates that only labels a queue.
Notifications and reminders are sent after the fact and are never read back.

The web client, the staff's consoles and their read models are most of the
source, so the mapped share of all lines stays small.

## 8. Running

    tlc -workers 2 -config MCReservation.cfg MCReservation
    tlapm ReservationProofs.tla
    tlapm SettlementProofs.tla
    tlapm DelegationProofs.tla
    tlapm ResultsProofs.tla
    tlapm GoLiveProofs.tla
    tlapm Fees.tla

Each mutant operator (`Mutant...`, next to the definition it replaces) is a
plausible bug in that definition; `PROJECT.json` says which property it breaks.
