# dhanPe in TLA+

dhanPe lets a user pay a beneficiary's bank account from a card or UPI payment:
the user verifies who they are, adds the account, and asks for a transfer; the
gateway (Cashfree) takes the payment, the backend credits an internal wallet, a
worker asks the payout provider to transfer the net amount, and the wallet is debited
when the provider reports success.  Refunds and disputes come after that, and a
reconciliation compares the books with what the providers say.  The backend is three
Node processes (`backend/apps/{api,worker,scheduler}`) over one Postgres database and
three BullMQ queues (payout, webhook, reconciliation).

The difficulty is that nothing of this happens in one place.  A payment or a
transfer is reported by webhooks that arrive twice, late, in any order, or not at
all; jobs are delivered at least once; a handler reads rows, lets go of its lock,
calls a provider, and writes rows that have moved on.  The question these modules
ask is whether the gates hold and the money adds up in spite of that.

## 1. Inventory

| component | state it keeps | operations | what makes it correct |
|---|---|---|---|
| transaction lifecycle (`transaction-state.service.ts`) | `Transaction.lifecycleState`, the legacy `status` and `payoutStatus` columns, an audit log | `transitionTransactionState`: validates, is a silent no-op when already there, rewrites the legacy columns | states move along the published graph only; the columns never disagree with the rows they copy |
| ledger and wallet (`ledger.service.ts`) | `Ledger`, `JournalEntry`, `User.balance` | `recordPaymentCaptured`, `recordPayoutSubmitted`, `recordPayoutSettled`, `recordRefundSettled` | one credit per capture, one debit per completed transfer, balance never negative, debits and credits balance |
| payment webhooks (`webhook.service.ts`, `webhook.controller.ts`) | `WebhookEvent` | queue the notification under its event id; claim it; capture or fail the payment; queue the payout | idempotent, no captured payment without a payout |
| payouts (`payout.service.ts`) | `Payout`, `PayoutAttempt`, the transfer at the provider | `processPayout`, `syncTransferStatus`, `applyTransferUpdate`, `markPayoutFailed`, the payout webhook | one request per transfer, debit only what was paid, a paid transfer is settled |
| refunds (`refund.service.ts`) | `Refund`, the refund at the gateway | `createRefund`, `syncRefundStatus`, `applyRefundUpdate` | only after the payout, never more than was paid, reversed only if made, shares that fit the payment |
| disputes (`dispute.service.ts`) | `Dispute` | create, respond, resolve | a disputed transaction has a case, a resolved case stays resolved |
| queues and workers (`queue-dispatcher.ts`, `packages/queue`, `apps/worker`) | jobs by custom id, retained after completion | add, deliver, retry, dead-letter, resume on start | at-least-once delivery, no work lost |
| reconciliation (`reconciliation.service.ts`, its controller and repository, the scheduler) | `ReconciliationRun`, `ReconciliationItem` | request, schedule, run, compare, sync, record, retry, resolve | what was listed is repaired or reported, items are what was counted, no run is forgotten |
| transfer creation and pricing (`payment.service.ts`) | `Transaction`, `IdempotencyKey`, the order at the gateway | gates, price, beneficiary, risk, row, order, stored answer | only verified users to verified accounts of others, one transfer per key, no order that cannot be paid, prices that balance |
| risk (`risk.service.ts`) | a profile nothing reads | `evaluateTransfer` | limits that concurrency does not break beyond a known overshoot |
| beneficiaries (`beneficiary*.service.ts`) | `Beneficiary`, the beneficiary at the provider | validate, insert, register, mark ready | a verified row is known to the provider |
| accounts and onboarding (`user.service.ts`, `onboarding.service.ts`, `self-transfer.util.ts`) | `User` | profile, PAN, the stage to go on with, the name check | what a user has completed is not taken back |
| KYC (`didit.service.ts`) | `User.kycStatus`, `WebhookEvent`, the session at the provider | session, sync, webhook | the status was said of a session of the user's own; of one that names no other user, as the code has it |
| authentication (`auth.service.ts`) | `RefreshToken` | sign in, refresh | a token is not spent more often than requests race for it |
| client (`lib/`: HTTP layer, payment screen, screens) | the session, what the API answered | refresh, polling, forms | presentation |

How they interact: accounts, KYC and tokens write the user row whose copy
`createTransfer` checks; `createTransfer` ends with an order, and the payment webhook
captures its payment and *queues* the payout; the payout worker, the payout webhook and
the reconciliation worker all end in `applyTransferUpdate`; refunds read what the payout
did and may fail an open payout; disputes and refunds compete for a `COMPLETED`
transaction; all of them meet in `transitionTransactionState` and in the ledger.

What is hard: overlapping runs of the same job, reads made before a lock or in an
earlier block, provider calls between two blocks, answers that are lost, late or
reordered, crashes between a commit and the call that follows it, retained job
ids, amounts that are rounded one by one.  `PROJECT.json` lists each of these hazards at
its line, with the properties that would catch it.

## 2. Modules

```
Lifecycle            the transition relation and the legacy column (constant level)
  TransferStore      rows, wallet, queue entry, fault budget; ledger operations
    PaymentCapture   payment webhooks        (Events, HookWorkers)
    Payouts          payout worker, provider (Workers)
    Refunds          refund handlers         (RefundIds, Clerks)
    Disputes         dispute handlers        (Cases, Operators)
      Settlement     all four side by side: Spec, FairSpec, the properties
        MCSettlement instances for TLC
        Reconciliation   runs, repairs, retries, resolution, over Settlement's actions
          MCReconciliation
TransferPromise      the abstract specification Settlement implements

Pricing              prices and shares (constant level)
SelfTransfer         the name check (constant level)
Accounts             user rows, the clock, the fault budget
  Identity           sign-in and refresh tokens   (Clients)
    TransferCreation beneficiaries, risk, rows, orders, answers   (Desks)
  Kyc                sessions, syncs, webhooks    (Officers)
    Admission        all of these side by side: AdmissionSpec, the properties
      MCAdmission    instances for TLC

SettlementTypes -> SettlementBooks -> SettlementPromise -> SettlementPartners
  -> ReconciliationProofs -> ReconciliationRepairs
VerificationProofs -> AdmissionProofs                           the proofs
```

### Settlement

**State.**  `life`, `payoutStatus`, `payout`, `attempt`, `refund`, `dispute`,
`processed` are database columns.  `credits`, `debits`, `submissions` and
`reversals` count ledger and journal rows, and `balance` is `User.balance`.
`payoutJob`, `hookJob` and `resumeJob` are queue entries by job id.  `hook`, `run`,
`clerk` and `operator` are what one running handler holds in local variables: where
it is, and the copies of rows it will act on.  `gateway`, `transfer`,
`gatewayRefund` and the notices are the outside world.

**Actions.**  A `prisma.$transaction` block is one step: Postgres makes its writes
visible together.  The code between two blocks is where other steps come in, so
every value read in one block and used in another is kept in the handler's record
and the guard is evaluated on that copy (`hook[w].seen`, `run[w].seenLife`,
`run[w].seenPayout`, `clerk[c].seenRefunds`, ...).  For example `processPayout` is
`BeginPayout` (first read), `LockFindsRefund | LockStops | LockGoesOn` (the locking
block), `FindAttempt`, `SubmitPayout | SubmitRejected` (the claim),
`CallAnswered | CallAnswerLost | CallRefused` (the provider), `RecordAnswer |
RecordFails` (the answer block), `GiveUp` (the catch clause).  `PROJECT.json` maps
every definition to its lines.

**Faults.**  `Fault` stands for what the code's logic does not decide: a process
that dies, a connection that drops, a serialization conflict or lock timeout that
rolls a block back.  A run has at most `MaxFaults` of them.  A fault drops the
handler's record; the job stays in the queue, to be delivered again.  Retries of
payout and webhook jobs are not bounded (their attempt limit and dead-letter queue are
not modelled, so the model retries more than the code does).

**Queues.**  Adding a job whose id exists is ignored while that job is waiting *or
retained after completion*; `ForgetPayoutJob`, `ForgetHookJob` and `ForgetResumeJob`
are the retention limit (1000 jobs) freeing an id.  A job may be run by two workers
at once: BullMQ redelivers a job whose lock expired while the first run goes on.
That custom ids containing a colon are accepted is assumed of BullMQ.  The resume job
takes the 25 oldest payouts that need work (`ResumeLimit`); which ones, the model leaves open.

**Abstractions.**  Settlement starts where `createTransfer` ends, with every transfer
`PAYMENT_PENDING` and its order at the gateway (`Admission` shows that an order is never
there earlier).  Amounts are numbers, `Gross[t] >= Net[t] > 0`, whose journal entries
balance; which prices do is a question of `Pricing`.  Provider words are classes:
`RECEIVED` (the in-flight words), `UNKNOWN` (any other), `SUCCESS`, `FAILED`,
`REVERSED`.  The provider treats `transfer_id` as an idempotency key, and always returns
its own id.  `BeginSync` may happen at any time: a sync that a client asked for while
the payout was open may run arbitrarily late.  `FindAttempt` leaves out the error for a
beneficiary without a provider id (`payout.service.ts:106`): `AdmittedTransfer` says that a
transfer's beneficiary is registered.

**What the abstract specification says.**  `TransferPromise` has three variables per
transfer: its stage, whether it was paid in, how often it was paid out.  Money goes
out in one step, `PAYOUT_PENDING -> COMPLETED`, at most once, and only after it came
in.  It is narrower than `ALLOWED_TRANSITIONS`: `PAYOUT_SUCCESS` is passed through
inside one block, and `PAYOUT_FAILED -> PAYOUT_PENDING`, which
`transaction-state.service.ts:33` allows for retries and `README.md` omits, is taken
by no code path.  `Settlement` implements it under `stage <- life`,
`paidIn <- credits >= 1`, `paidOut <- debits`.  The promise says *whether* a payment
was credited; how often is `CreditedOnce`.

### Reconciliation

An *agent* is one `executeRun` in progress.  It owns a worker and a clerk of `Settlement`,
and its repairs *are* the settlement's actions: `AskProvider` takes `BeginSync`,
`SyncPayout` takes `QueryProvider`, `ReadPayout` and `WriteUpdate`, `SyncRefund` takes
`ReadRefund` and `WriteRefund`.  So a run is interleaved with workers, webhooks, refunds
and their faults step by step, and nothing about a repair is assumed.  The agent holds
what the code holds: the candidates as they were listed (`todo`, copies of rows), the one
it is at (`now`), what it has found (`found`).  `RequestRun`, `EnqueueRun` and
`LoseRequest` are the controller, which writes the row before it queues the job;
`ScheduledRun` is the scheduler, each of whose runs makes a row of its own; `FinishRun`
is the block that writes items and count; `FailRun` is the catch clause, after which the
job waits for another attempt or is moved to the dead-letter queue; `LeaveRun` is an
error outside the `try`.  `resolveItem` is a read and a write by id (`BeginResolve`,
`WriteResolve`).

The reconciliation worker comes from the same factory as the others, so its job too may be
handed to a second agent while a first is at it.  Every delivery has a number
(`deliveries`), which an agent keeps as `try` and which stands for the lock token: when an
agent ends or throws, only the holder of the last number settles the job (`HoldsJob`), and
the one that was overtaken goes on to write its items and its status all the same.
`overtaken` names the runs to which this has happened.  Each delivery of a
scheduled job makes a row of its own, so no two agents meet on one.  That BullMQ gives up on a job that has stalled too often is not modelled; the model
redelivers up to `MaxDeliveries`.

Each of the three candidate queries takes at most 100 rows, those that were updated (or
created) least recently.  `Listings` is what a query may return: every matching row when
they fit into `ListLimit`, and otherwise any `ListLimit` of them, since the model has no times of
last update.  So the behaviour in which a hundred stuck payouts, which are reported and never
updated, keep the front of the list and every later run passes over the rest is
among the model's: what is said of a completed run is said of what its queries took.

`Mishap` is the fault of the steps that are not the settlement's.
Three fields of an agent (`paid`, `returned`, `stuck`) are records of the model's own, what
the properties compare a completed run with; no action reads them.

Items are told apart by their run, their delivery and what they say: two findings of one
delivery with one code and one subject do not occur, since a candidate is listed once.
Only transactions older than five minutes are compared; `ComparePayments` takes any set.

### Admission

**State.**  `user`, `token`, `beneficiary`, `transfer`, `answer` and `handled` are the
tables; `session`, `said`, `registered` and `orders` are the providers; `client`,
`officer` and `desk` are what one request in flight holds: for `createTransfer` the
amount and price, the account, the PAN that was read at the start, and the id of the row
it has inserted.  The transaction row has one field the table does not have, `pan`: the
PAN the checks were made with.

**Actions.**  Every statement and every call to a provider is a step of its own, as the
code makes them outside any `$transaction` block; reads that follow one another with
nothing between are one step.  `createTransfer` is `BeginTransfer` (user, stored answer,
price, saved beneficiary, all read), `InsertBeneficiary`, `RegisterBeneficiary |
RegisterAnswerLost`, `StoreBeneficiary`, `Evaluate | RefuseTransfer` (name check and
risk), `InsertTransfer | RefuseKey` (the unique key), `WaitForPayment`, `CreateOrder |
OrderAnswerLost | RefuseOrder`, `NoteOrder`, `SaveAnswer`; `CrashDesk` may come between
any two.  `PaymentEnds` and `PayoutFails` stand for what `Settlement` makes of a transfer,
as far as the risk rules and the columns see it.  KYC is `BeginSession`, `OpenSession`,
`SaveSessionStatus`; `BeginSync`, `WriteSync`; `BeginKycNotice`, `ApplyKycNotice`; and
`SessionMoves` is the provider, whose words may be delivered again, late and in any order.
A session's `vendor_data` is optional: `OpenElsewhere` is a session that this backend has not
opened and that names nobody.  `BeginSync` accepts it for any user, as `syncSession` does;
`BeginKycNotice` refuses it, as `processWebhook` does.
Tokens are `BeginRefresh`, `IssueToken`, `RevokeToken`, in the order of the code, which
issues before it revokes.

**Amounts.**  A request may name any number of decimals, so an amount is in thousandths of
a rupee; everything that is stored is in paise.  `Nearest` is what `toFixed(2)` may return:
the two neighbours at a decimal tie, since the double next to the tie is on either side
of it, and the nearest paisa otherwise.  What the model adds to the code is thus both
outcomes at a tie.

**Abstractions.**  A mobile number is a user.  The one-time password exchange at MSG91, the
access token (stateless), `isActive` (no code clears it) and the sandbox shortcuts
are left out, and so is the risk profile, which nothing reads.  `SessionMoves` says each
word of a session once, which keeps its events apart.  A stored answer is told apart by
account and amount, which stand for the request hash.  A PAN is confirmed by the register
or refused; `IsSelfTransfer` is a constant of `TransferCreation`, and `SelfTransfer` gives
it the body of the code.  `BeneficiaryService.create` checks an account against the PAN it read
at its start; on the way to a transfer `ensureBeneficiary` reads the user again, so
`InsertBeneficiary` is let in by the PAN of the start or, for a transfer, the one of now
(`PansAtValidation`).  `createTransfer`'s own check, in `Evaluate`, is on the copy of the start.

## 3. What is checked

An empty set of handlers switches a part off.

| run | instance | shows |
|---|---|---|
| `payout` | 1 transfer; 2 event ids, 1 webhook worker, a clerk and an operator; then 2 payout-side runs; 1 fault | `CreditedOnCapture`, `CreditedOnce`: pending, failed, repeated and second notifications, with jobs forgotten, and refunds and disputes asked for before any payout; `DebitedOnCompletion`, `OneTransferRequest`, `DebitedOnlyIfPaid`, `ColumnAgrees`, `SubmittedOnce`, and the refinement `KeepsPromise` |
| `wallet` | 2 transfers of one user, 2 runs, 1 fault; then 2 agents at 1 reconciliation run with at most 2 deliveries, candidate queries that take 1 row | `DebitNeverRefused`: the negative balance check never stops a payout the provider made; `RepairsSettled`, `StuckIsReported`, `ItemsCounted`, `RunningIsWorked` when two workers are at one run and not every payout is listed |
| `aftercare` | 1 transfer, 1 refund, 1 case, 2 workers and 2 clerks of which reconciliation has one each, 1 reconciliation run with 2 attempts, 1 fault or failure | `TypeOK`, `RefundAfterPayout`, `ReversedIfRefunded`, `DisputedHasCase`, `ResolvedStaysResolved`, and of reconciliation `ReconciliationTypeOK`, `RepairsSettled`, `StuckIsReported`, `ItemsCounted`, `RunningIsWorked` |
| `progress` | 1 transfer, 1 case, fairness, no faults | `CapturedIsSubmitted`, `PaidIsCompleted` |
| `admission` | 2 users, 2 sign-ins, 2 KYC handlers and 2 sessions, 2 PANs, 2 requests, 1 account, 1 key, 2 days, 1 fault | `AdmissionTypeOK`, `KycNotFromAnothers`, `ForksBounded`, `AdmittedTransfer`, `OneTransferPerKey`, `OrderAwaitsPayment`, `VolumeBounded`, `RefundsFit` |

What the reconciliation properties say: a run that completes has settled every payout and
reversed every refund it listed as done outside (`RepairsSettled`); it reports every payout
that was claimed by a run that died before it reached the provider, which nothing else in the
system ever moves, unless the query's limit left that payout out (`StuckIsReported`); what a
completed run says it counted are the items of one delivery of its job, and they are all the
items it has, however often it was retried, unless a failure came after its last block or a
second worker was at it (`ItemsCounted`); and without a crash or a failed block no run stays
`RUNNING` with nobody to finish it, also when two workers are at it (`RunningIsWorked`).  The
last of these excuses crashes, so the request that dies between its row and its job
(`LoseRequest`) is not one it catches: that such a row stays `RUNNING` is what the code does.

What the admission properties say: `AdmittedTransfer` is about checks made on an old copy
of the user row, several external calls before the row of the transfer is written:
nothing they rest on can be taken back meanwhile, except the KYC status, which a later
session may reset.  `KycNotFromAnothers` is as much as can be said of a status written by
handlers that overtake each other: an older word may win, but only a word about a session
that names no other user.  `ForksBounded` and `VolumeBounded` put a number on two races the code does not
close: a token may be spent by every request in flight, and once more per crash; a day's
volume exceeds its cap by one fee, which the check leaves out, and by what the other
requests in flight have had admitted.  `RefundsFit` evaluates, for the price of every
order, every way to refund it in one or two parts.

Seven runs show a disagreement between the code and what the repository says of it;
`PROJECT.json` quotes the line in each case.

| run | property | what happens |
|---|---|---|
| `double_credit` | `CreditedOnce` | two overlapping runs of one webhook job both decide on `PAYMENT_PENDING`; the second transition is a no-op and the credit is posted again |
| `lost_payout` | `CapturedIsSubmitted` | a crash after the capture commits and before the payout is queued; the redelivery finds the event processed, the resume job's fixed id is retained |
| `late_success` | `TakenIsCredited` | a `PENDING` notification fails the payment and uses up its event id |
| `over_refund` | `RefundWithinGross` | two refunds are checked against one stale read and both reach the gateway |
| `reopened_dispute` | `ResolvedStaysResolved` | a response checked before a resolution is written after it |
| `unbalanced_price` | `OrdersBalance` | 1.105 rupees are priced at a net 1.10 and a fee 0.02 but a gross 1.13: the payer can pay it, and its capture can never be posted |
| `volume_cap` | `VolumeWithinCap` | two transfers are evaluated on one day's volume and both written; the cap leaves room for one of them with its fee, so it is the race that breaks it |

`CreditedOnce` and `ResolvedStaysResolved` hold with one worker or one
operator (`payout`, `aftercare`) and fail with two.

Two more disagreements are named in the properties themselves.  `ItemsCounted` excuses a run whose
job was handed out while a worker was at it: without `i \notin overtaken`, `wallet` fails, since both
workers record the same finding for the same run, although `backend/README.md:293` says that the worker
"updates the database idempotently".  And `KycNotFromAnothers` lets a session that names nobody
count for anybody: with `KycFromOwnSession` in its place `admission` fails, since `syncSession`
applies such a session to the user who asks, where `processWebhook` refuses it.

TLC also shows facts that no
document speaks about, and that are not runs: a late answer may set the payout row of a
`COMPLETED` transfer back to an earlier status (the columns still agree); a refund
may be reversed twice when an early `FAILED` is written after its success; the row
lock of `processPayout` does not keep two runs out of the claim block, which is
safe because the attempt row's unique key does; of two administrators who resolve one
item both are let in and the later name stays; a request that crashes between its row
and its stored answer leaves an order nobody is told of, and its retry is refused by the
unique key.

**Bounds of the settlement runs.**  One transfer is enough for every property that speaks of
one transfer, since transfers share nothing but the wallet; `wallet` has two for that one
interaction.  Two overlapping runs exhibit every race between a read and a write of
another run.  One fault is one crash, lost answer or rolled-back block at any point.
Amounts are a payment of 2 with a payout of 1, so that a refund is full or partial and a
debit of the gross amount would be noticed.  The state constraints are named in
`MCSettlement`: `PaymentsTaken` (the gateway accepts at once; the first part of `payout` is without
it), `WordsKnown` (no unknown provider words; `progress` is without it),
`TransfersMade` (no transfer fails or bounces; `payout` is without it),
`JobsRetained` (no job is forgotten and no worker restarts; `payout` is without
it) and `ReversalsBounded` (a counter that a legal run can grow for ever).
They keep the runs small; each behaviour they cut is in the run named.
`progress` opens and decides a dispute only between jobs (`DisputedAlone`); `aftercare`
interleaves them.

**Bounds of `aftercare`.**  While nothing is being reconciled, a refund and a dispute race each
other and late reports.  Once a reconciliation run exists (`ReconciledAlone`), the payment is
in, there is no dispute, and there is at most one fault or failure in all.  `RestAround`
says what runs beside it: a scheduled run is interleaved with payouts before there is any
refund, and with refunds while no worker pays, in both cases without a fault; a requested run, with its retries, its fault
and the resolution of its items, finds the others at rest.  So the races between a
repair and the handlers it races with are all there, and so are the failures of a run, but
not both in one behaviour.  `JobsRetained` and `TransfersMade` hold throughout.

**Bounds of `payout`.**  The capture comes first with everything that may happen to it while no payout
is begun (`PayoutsRest`), and the payouts with a payment that is taken at once (`PayoutsOnly`):
what they share is the captured transfer and its job.

**Bounds of the reconciliation in `wallet`.**  One run, whose request asks for payouts; two agents,
of which the second may be handed the job at any time; an attempt may throw and be tried
again within `MaxDeliveries = 2`.  The two workers that made the payouts rest while the
two agents are at them (`AgentsOnly`): their races with other handlers are in `aftercare`.
`ListLimit = 1` with two payouts is the smallest instance in which a query leaves something out;
`aftercare` has the source's 100.

**Bounds of `admission`.**  Its state constraints add up the parts instead of multiplying them.
`TokensAlone`: tokens are rotated in an account in which nothing else happens, up to four
of them, so that a token has two successors and a successor is rotated again.
`VerifyingAlone`: two users verify themselves with one session and one handler between
them, or one user with two sessions and two handlers at a time.  `CreatingAlone`: transfers are
made by one user who has been verified in one session, with a second, later session under
way until the first transfer exists, and a PAN or profile that may still change.
`SecondPan`: the account's holder has the name on the second PAN, so that submitting it
makes the account the user's own, before or while the transfer to it is created.
`NobodysAlone`: a session that names nobody is the only one there is, with one request at a time.
`TransfersFew`: two transfers, the second of which is not paid.  A day is one tick, and there
are two days; an amount is 2 rupees with a fee of 3 paise, and the volume cap is 2 rupees, so
that the fee alone exceeds it.  Of the three signals of a suspicious request only failed
payouts reach their limit; the velocity limit is out of reach of two transfers.  The account is another
person's, and the name check is that of the code (`LooksAlike`, tabulated for these names).  One amount, one key and
two requests are every race for a key; the two requests may be one of them a beneficiary
of its own.  Prices and shares are checked for the one price that occurs here; section 4
proves both for all.

Handlers of one kind are interchangeable, and symmetry is used in safety runs only.
Deadlock is not checked: a system with no more notifications is rightly quiet.

**Fairness** (`FairSpec`).  A gateway and a provider repeat a webhook until it was
accepted (weak fairness on receiving it); a worker goes on with a run it has begun
(weak fairness per run); a queue serves waiting jobs in turn (strong fairness on
beginning a job or a webhook, since a worker may be busy whenever we look); a worker
that starts queues the resume job.  Nothing is assumed of clients, of the provider's
decisions, of syncs, or of retained jobs being dropped.  `Reconciliation` and `Admission`
are safety specifications: a user or an administrator need not come back.

## 4. What is proved

Each proof holds for every value of the constants: any sets of transfers, users, requests,
workers and runs, any amounts and limits, any number of faults.  What is assumed of the
constants is stated in the modules that declare them: `StoreAssumption` (every transfer has an
owner and `0 < Net <= Gross`), `CaptureAssumption` (every event speaks of a transfer),
`ReconciliationAssumption` (an agent has
a worker and a clerk of its own; finitely many transfers), `AccountsAssumption`,
`IdentityAssumption` (finitely many requests) and `CreationAssumption` (names, finitely many
accounts and requests, amounts that are not zero).  The sets are finite because the code
counts and sums over them: the rows of a table, the requests in flight.

- `SettlementTypes`: `TypesKept`.  `TypeOK` alone is not inductive: a webhook of a
  transfer must be backed by a request, a refund handler past its first block by a
  row, a dispute request by the case it inserted (`AnswersBacked`, `RefundsBacked`,
  `CasesBacked`).
- `SettlementBooks`: `CreditsAgree`, `DebitsAgree`, `RefundsFollowPayout`,
  `DisputesHaveCases`, `PaidOutIsKept`.  One invariant, `BooksInv`: the books agree
  with the lifecycle (`StoreBooks`); whatever acts on a payout acts after the
  capture (`RunsAfterCapture`); a refund that is in, or will be let in on a stale
  read, belongs to a paid-out transfer (`RefundsAfterPayout`) - true because being
  paid out is never taken back, which is proved beside it (`Kept`).
  Three more invariants stand on it.  `WalletInv` (`WalletsCover`): what a wallet holds
  covers the net amounts of all the user's transfers that are captured and not yet paid out.
  `DebitNeverRefused` by itself is not inductive: that one debit is covered says nothing of
  the next one's.  The sum is stated as a list of transfers with its running totals
  (`Listed`), from which an entry is taken out when its transfer is settled, and
  `DebitsAreCovered` is the last total.  `OnceInv`: a webhook run that has still to credit
  never finds its payment captured (`DecisionsFresh`).  `CasesInv`: the case of a response
  under way is open (`ResponsesFresh`).  The code does not keep these last two, which is what
  `double_credit` and `reopened_dispute` show; so `CreditsAreOnce` and `ResolvedForGood` have
  a hypothesis on the behaviour, that two such handlers do not meet between check and
  write (`DecidedApart`, `EditsApart`).  They say that this race is the only way to lose
  the property: no redelivery, crash or other handler does.  One worker, or one
  administrator, meets the hypothesis (`OneWorkerCreditsOnce`, `OneOperatorResolvesForGood`).
- `SettlementPromise`: `PromiseKept` (the refinement) and `ColumnsAgree`.  The
  argument is the attempt row: it is missing exactly while the transfer is
  unclaimed (`AttemptsAgree`), it never goes away, and so a run that did not see it
  move is behind it (`RunsAfterAttempt`).  That is what makes the transitions of stale
  handlers no-ops or rejections.
- `SettlementPartners`: `AskedOnce`, `PostedOnce`, `DebitsArePaid`.  Only the run that
  inserted the attempt is between its request and the record of the answer
  (`OneCaller`); a run that reports a success was told so by a provider that made
  the transfer (`SuccessIsMade`).
  `ReversalsAgree`: the gateway never takes a success back,
  `REFUNDED` is left by no transition and entered only by the block that reverses
  (`SettledIsMade`, `ReversedIsRefunded`).
- `ReconciliationProofs`: `ReconciliationSettles`, that reconciliation implements the
  settlement: each of its steps is a step of `Settlement` or leaves it alone.  The invariant
  is `AgentsInv` (`RunsInHand`): beside the types of the settlement, what an agent has in
  hand are copies of payout rows while it is at the payouts and of refund rows while it is
  at the refunds, so that a repair is a sync of a payout or a refund that exists.
  `RepairIsSafe` is the consequence: what is proved of `Settlement`, and its promise, holds
  with any number of reconciliation runs beside it; and `RepairAddsNoRace`, that they
  bring no way to credit twice or to reopen a case.  The bookkeeping of the runs has an
  invariant of its own, `BookingInv` (`RunsInOrder`, a lemma for what follows): a run that is
  worked on has a row and no request any more; the number of a delivery is no two agents';
  the job of the agent that holds its lock waits, with an attempt left; an agent that holds none
  was overtaken.  `RunsAreWorked` and `ItemsAreCounted` follow.  The latter has two parts, for
  any number of workers at one run: a completed run's count is the number of items of one of
  its deliveries, since both are one block and no two items differ only in who resolved
  them (`ItemsApart`); and for a run that was not overtaken, without a failure of its own, they
  are all it has.
- `ReconciliationRepairs`: `RepairsAreSettled` and `StuckAreReported`.  The invariant
  `RepairInv` says of a run what is ahead of it, of the rows its queries took: each transfer that it found made is settled,
  being asked about, or still on the list with its reference (`PaidAhead`); each refund
  likewise (`ReturnedAhead`); each stuck payout has been claimed for good and is reported,
  still on the list, or moved (`StuckAhead`).  It needs to know that nobody else breaks this
  while the run is at another candidate, which is `SettledInv`: a row, and a copy of
  it about to be acted on, says `SUCCESS` only if the books have it, so that the update of
  a run that finds a success applied already may leave it.
- `VerificationProofs` and `AdmissionProofs`: `AdmissionTypesKept`, `KycFollowsSessions`,
  `TransfersAreAdmitted`, `KeysMakeOneTransfer`, `OrdersAreAwaited`, `RefundsAlwaysFit`.  The
  invariant `AdmissionInv` says of every request what it has established when it is at a
  step (`DeskBacked`; for KYC `OfficersBacked`): the owner's row has a PAN and a profile, the
  provider said "approved" of a session that names no other user, from `evaluate` on the beneficiary
  is verified and registered, from `insert` on the name check has passed on the PAN that
  was read, from `pend` on the row is there under the request's key.  It is inductive because
  each of these facts only grows (`Grows`: `RowsStay`, `SaidGrows`, `BeneficiariesGrow`,
  `TransfersGrow`), so a step of one request leaves what another has established.  A
  row of a transfer keeps what its request had (`RowBacked`).  `NamedSessionsDecide` is what
  `syncSession`'s refusal promises, under the hypothesis it needs: where every session names a
  user (`AllNamed`), an approved user has an approved session of that user's own.
- Tokens: `ForksAreBounded`, by `ForksInv` (in `VerificationProofs`).  While a token is not
  revoked, each of its successors has a request about to revoke it, or one that crashed;
  and a request that may yet add one was counted when it found the token active
  (`ForksCounted`).
- Volume: `VolumeIsBounded`.  The bound is not inductive, since two requests may have been
  admitted on one volume.  `VolumeParts` says that while requests of a user wait to write
  their rows the cap has room for the volume, for the row of one of them (the last that was
  evaluated) and for the largest of rows of the others (`Fits`); that a request has the
  price of its amount; and that no row is dated later than now.  `evaluateTransfer` makes the room
  up to the fee, writing the row takes it (`RoomTaken`), and a failed payment, a new day or a
  request that ends leaves no less (`RoomStays`).  `TodayVolume` is a fold over a set;
  that such a sum exists, does not depend on the order it is taken in, and changes by
  what is added is proved in the same module (`AdderExists`, `AddersAgree`, `TotalSplits`),
  by taking the least counterexample (`WFMin`) instead of the induction rules, which
  need an operator as their parameter.
- Pricing, in `AdmissionProofs`: `WholePaiseBalance` (an amount in whole paise has a price that
  balances), `WholePaiseOrdersBalance` (so, when nobody asks for a fraction of a paisa, every
  payment that can be taken can be credited: the run `unbalanced_price` needs such a fraction)
  and `PricesFit`, from which `RefundsAlwaysFit` follows: with `q` the rounded share of a fee
  `f` in a part `a` of a gross amount `g`, `2 |q g - f a| <= g` bounds `q` and `a - q`, and two
  such bounds added give the paisa by which the parts may differ from the whole.

Every invariant and action property of a passing run is thus proved, `CreditedOnce` and
`ResolvedStaysResolved` under the hypothesis named above.  Of the properties that the violating
runs refute, `CreditedOnce`, `ResolvedStaysResolved` and `OrdersBalance` are proved under a hypothesis that the
code does not guarantee, and `VolumeWithinCap` in the weaker form `VolumeBounded`.  Only model-checked are the
liveness properties (`CapturedIsSubmitted`, `PaidIsCompleted`): liveness under fairness and
`ENABLED` are out of the prover's reach.  That `RefundWithinGross` and `TakenIsCredited` fail
is shown by their runs, and under which conditions they would hold is not proved.  No module
uses a `RECURSIVE` operator.

## 5. Plan

Done: settlement, its reconciliation, and admission up to the order.  What is left, in this
order:

1. Theorems: `RefundWithinGross` when no two refunds of a transaction are let in at the same
   time and no answer of the gateway is lost.
2. `Dispatch`: attempts, backoff and the dead-letter queue of payout and webhook jobs, as an
   abstract queue that the queue variables of the settlement implement.
3. The client's HTTP layer in front of `Identity`: refreshes started side by side, and the
   deletion of the stored tokens when one of them is refused.
4. Liveness of reconciliation under the scheduler's interval.

## 6. Not modelled

- Routing, validation, rate limits, error mapping, configuration, health checks and the
  audit log: they keep no state of a transfer.
- `in-memory-queue.ts`: nothing uses it.
- The client (Dart): its screens are presentation; its HTTP layer starts a refresh for
  each request that is answered 401, with neither a queue nor a guard for a single refresh, and
  deletes the stored tokens when one is refused; only the server's side is modelled.
- The one-time password exchange, which is MSG91's.  Logout has no endpoint: the client
  forgets its tokens.
- The providers' own APIs beyond the answers the code distinguishes.
- Read-only operations: listings, ledger history, balance and reconciliation reports.
- In the webhook handlers, an unknown order or an amount that does not match, which throws
  before anything is written.
- The order in which reconciliation and the resume job list their rows (least recently updated,
  oldest first); any rows within the limit may be listed.
- That a resolved reconciliation item keeps its first note: the code overwrites it, and no
  document says which note should stay.

## 7. Running

`tlc -config payout.cfg MCSettlement` checks a run (`aftercare.cfg` and
`wallet.cfg` are of `MCReconciliation`; `admission.cfg`, `unbalanced_price.cfg` and
`volume_cap.cfg` of `MCAdmission`);
`tlapm SettlementBooks.tla` checks the proofs of a module.  The longest runs, `payout` with
two million states and `wallet`, take two to three minutes on two cores.
