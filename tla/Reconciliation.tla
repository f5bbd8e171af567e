---------------------------- MODULE Reconciliation ----------------------------
(***************************************************************************)
(* ReconciliationService beside the settlement it repairs.  A run compares *)
(* paid transactions, open payouts and open refunds with the providers,    *)
(* has every status it was told applied, and records what it found in one  *)
(* block at its end.  Runs are asked for by an administrator, through a    *)
(* row and then a job, or started by the scheduler.  An agent is a run in  *)
(* progress; it has a worker and a clerk of Settlement to itself, which    *)
(* make the calls of applyTransferUpdate and applyRefundUpdate.  A job     *)
(* whose lock has lapsed is handed to a second agent while the first goes  *)
(* on: each time it is handed out has a number, and only what the agent    *)
(* with the last number says counts for the job.                           *)
(***************************************************************************)
EXTENDS Settlement

CONSTANTS
    Agents,        \* workers that only reconcile
    DeskOf,        \* the clerk of each
    RunIds,        \* rows of ReconciliationRun that may be written
    ScopeChoices,  \* the scopes an administrator may ask for
    Admins,        \* administrators that resolve items
    MaxAttempts,   \* config.queue.attempts
    ListLimit,     \* `take` of the three queries for candidates
    MaxDeliveries, \* bound: times a job is handed to a worker
    MaxMishaps     \* bound: failures outside the calls to settlement

Scopes == {"PAYMENT", "PAYOUT", "REFUND"}

\* The transactions of a database are finitely many: a run counts what it found.
ASSUME ReconciliationAssumption ==
    /\ IsFiniteSet(Txns)
    /\ Agents \subseteq Workers
    /\ DeskOf \in [Agents -> Clerks]
    /\ \A a, b \in Agents : DeskOf[a] = DeskOf[b] => a = b
    /\ ScopeChoices \subseteq SUBSET Scopes
    /\ MaxAttempts \in Nat \ {0}
    /\ ListLimit \in Nat
    /\ MaxDeliveries \in Nat
    /\ MaxMishaps \in Nat

VARIABLES
    recRun,     \* ReconciliationRun rows; NoRun before the row exists
    requested,  \* rows whose request has not queued its job yet
    recJob,     \* reconciliation queue: the job whose id is the run's
    tries,      \* attempts of that job that have thrown
    deliveries, \* times that job has been handed to a worker
    overtaken,  \* runs whose job was handed out again while a worker was at it
    items,      \* ReconciliationItem rows
    agent,      \* local state of each run in progress
    admin,      \* the item each administrator has read as open
    mishaps     \* failures so far

deliveryVars == <<deliveries, overtaken>>
reconciliationVars ==
    <<recRun, requested, recJob, tries, deliveryVars, items, agent, admin, mishaps>>

NoRun == [status |-> "NONE"]
RunRow == [status : {"RUNNING", "COMPLETED", "FAILED"}, scopes : SUBSET Scopes,
           mismatches : Nat]

Codes == {"PAID_TRANSACTION_MISSING_DOWNSTREAM_ACTION", "PAYOUT_BLOCKED_BY_REFUND",
          "PAYOUT_MISSING_PROVIDER_REFERENCE", "PAYOUT_STATUS_MISMATCH",
          "REFUND_STATUS_MISMATCH"}
Finding(code, x) == [code |-> code, about |-> x]
Findings == [code : Codes, about : Txns \cup RefundIds]

\* An item is known by the delivery of a run that wrote it and by what it says;
\* it is open until an administrator's name is written to it.
Nobody == "nobody"
Item == [run : RunIds, try : Nat, finding : Findings, resolvedBy : Admins \cup {Nobody}]
NoItem == [run |-> "none"]

\* A payout or refund row as it was listed, with the refunds that hold a payout.
PayoutCopies == [about : Txns, status : PayoutStates, ref : BOOLEAN, held : BOOLEAN]
RefundCopies == [about : RefundIds, status : RefundStates]
NoCopy == [about |-> "none"]

\* `try` is the number of the delivery, 0 for a run of the scheduler.  `paid`,
\* `returned` and `stuck` are records of the model's own: the payouts and the
\* refunds the run listed and has to repair, and the payouts there were at its
\* start that it has to report.
AgentIdle == [pc |-> "idle"]
Reading == {"start", "payments", "list payouts", "payouts", "refunds"}
AgentStates ==
    [pc : Reading \cup {"syncing", "applying", "answer", "fail"},
     run : RunIds, try : 0 .. MaxDeliveries, found : SUBSET Findings,
     todo : SUBSET (PayoutCopies \cup RefundCopies),
     now : PayoutCopies \cup RefundCopies \cup {NoCopy},
     paid : SUBSET Txns, returned : SUBSET RefundIds, stuck : SUBSET Txns] \cup {AgentIdle}

ReconciliationTypeOK ==
    /\ recRun \in [RunIds -> RunRow \cup {NoRun}]
    /\ requested \subseteq RunIds
    /\ recJob \in [RunIds -> JobStates \cup {"DEAD"}]
    /\ tries \in [RunIds -> 0 .. MaxAttempts]
    /\ deliveries \in [RunIds -> 0 .. MaxDeliveries]
    /\ overtaken \subseteq RunIds
    /\ items \subseteq Item
    /\ agent \in [Agents -> AgentStates]
    /\ admin \in [Admins -> Item \cup {NoItem}]
    /\ mishaps \in 0 .. MaxMishaps

ReconciliationInit ==
    /\ recRun = [i \in RunIds |-> NoRun]
    /\ requested = {}
    /\ recJob = [i \in RunIds |-> "NONE"]
    /\ tries = [i \in RunIds |-> 0]
    /\ deliveries = [i \in RunIds |-> 0]
    /\ overtaken = {}
    /\ items = {}
    /\ agent = [a \in Agents |-> AgentIdle]
    /\ admin = [m \in Admins |-> NoItem]
    /\ mishaps = 0

AgentAt(a, pc) == agent[a] # AgentIdle /\ agent[a].pc = pc
Proceed(a, pc) == agent' = [agent EXCEPT ![a].pc = pc]

Mishap ==
    /\ mishaps < MaxMishaps
    /\ mishaps' = mishaps + 1

OnRefund(A) == A /\ UNCHANGED <<captureVars, payoutVars, disputeVars>>

\* Only the agent's own state, or only it and the settlement, change.
runVars == <<recRun, requested, recJob, tries, deliveryVars, items, admin>>
AgentOnly == UNCHANGED <<vars, runVars, mishaps>>

-----------------------------------------------------------------------------
(***************************************************************************)
(* How a run comes about.                                                  *)
(***************************************************************************)
NewRun(scopes) == [status |-> "RUNNING", scopes |-> scopes, mismatches |-> 0]

RequestRun(i, scopes) ==
    /\ recRun[i] = NoRun
    /\ recRun' = [recRun EXCEPT ![i] = NewRun(scopes)]
    /\ requested' = requested \cup {i}
    /\ UNCHANGED <<vars, recJob, tries, deliveryVars, items, agent, admin, mishaps>>

EnqueueRun(i) ==
    /\ i \in requested
    /\ requested' = requested \ {i}
    /\ recJob' = [recJob EXCEPT ![i] = AddJob(@)]
    /\ UNCHANGED <<vars, recRun, tries, deliveryVars, items, agent, admin, mishaps>>

\* The request dies in between: the row stays RUNNING and has no job.
LoseRequest(i) ==
    /\ i \in requested
    /\ Mishap
    /\ requested' = requested \ {i}
    /\ UNCHANGED <<vars, recRun, recJob, tries, deliveryVars, items, agent, admin>>

Begun(i, try) == [pc |-> "start", run |-> i, try |-> try, found |-> {}, todo |-> {},
                  now |-> NoCopy, paid |-> {}, returned |-> {}, stuck |-> {}]

UnderWay(i) == \E b \in Agents : agent[b] # AgentIdle /\ agent[b].run = i

\* The job waits for its first attempt or its next one, or its lock has lapsed.
BeginRun(a, i) ==
    /\ agent[a] = AgentIdle
    /\ recJob[i] = "WAITING"
    /\ deliveries[i] < MaxDeliveries
    /\ deliveries' = [deliveries EXCEPT ![i] = @ + 1]
    /\ overtaken' = IF UnderWay(i) THEN overtaken \cup {i} ELSE overtaken
    /\ agent' = [agent EXCEPT ![a] = Begun(i, deliveries[i] + 1)]
    /\ UNCHANGED <<vars, recRun, requested, recJob, tries, items, admin, mishaps>>

\* Each interval, and each retry of a scheduled job, makes a row of its own.
ScheduledRun(a, i) ==
    /\ agent[a] = AgentIdle
    /\ recRun[i] = NoRun
    /\ recRun' = [recRun EXCEPT ![i] = NewRun(Scopes)]
    /\ agent' = [agent EXCEPT ![a] = Begun(i, 0)]
    /\ UNCHANGED <<vars, requested, recJob, tries, deliveryVars, items, admin, mishaps>>

-----------------------------------------------------------------------------
(***************************************************************************)
(* executeRun.                                                             *)
(***************************************************************************)
InScope(a, scope) == scope \in recRun[agent[a].run].scopes

\* What a query returns of the rows that match: all, or as many as its limit lets
\* through; which of them, the times of their last updates decide.
Listings(rows) ==
    IF Cardinality(rows) <= ListLimit THEN {rows}
    ELSE {some \in SUBSET rows : Cardinality(some) = ListLimit}

\* A mutant: rows the provider has acknowledged are left alone.
UnacknowledgedOnly(t) == payout[t] = "PROCESSING"

\* A mutant: rows that wait for the first answer are left alone.
AcknowledgedOnly(t) == payout[t] = "SUBMITTED"

PayoutCandidate(t) == payout[t] \in {"SUBMITTED", "PROCESSING"}

\* What the provider has paid, or the gateway has given back, and the books lack.
PaidOutside == {t \in Txns : /\ payout[t] \in {"SUBMITTED", "PROCESSING"}
                             /\ providerRef[t] /\ ~ RefundHolds(t)
                             /\ transfer[t] = "SUCCESS"}
ReturnedOutside == {r \in RefundIds : /\ refund[r].status \in {"PENDING", "PROCESSING"}
                                  /\ gatewayRefund[r] = "SUCCESS"}

\* Claimed by a run that is gone, and unknown to the provider as far as the row says.
Abandoned(t) == \A w \in Workers : run[w] # Idle /\ run[w].txn = t => run[w].pc \notin Submitting
Stuck == {t \in Txns : payout[t] = "PROCESSING" /\ ~ providerRef[t] /\ Abandoned(t)}

StartRun(a) ==
    /\ AgentAt(a, "start")
    /\ recRun' = [recRun EXCEPT ![agent[a].run].status = "RUNNING"]
    /\ agent' = [agent EXCEPT ![a].pc = "payments", ![a].stuck = Stuck]
    /\ UNCHANGED <<vars, requested, recJob, tries, deliveryVars, items, admin, mishaps>>

\* A paid transaction nothing has come of.
Orphaned(t) ==
    /\ payout[t] = "NONE"
    /\ \A r \in RefundsOf(t) : refund[r].status # "SUCCESS"

\* Only transactions older than five minutes are looked at: any of them.
PaidTransactions == {t \in Txns : LegacyStatus(life[t]) = "PAID"}

ComparePayments(a) ==
    /\ AgentAt(a, "payments")
    /\ \E listed \in {old \in SUBSET PaidTransactions : Cardinality(old) <= ListLimit} :
          agent' = [agent EXCEPT
             ![a].pc = "list payouts",
             ![a].found = IF InScope(a, "PAYMENT")
                          THEN {Finding("PAID_TRANSACTION_MISSING_DOWNSTREAM_ACTION", t) :
                                   t \in {s \in listed : Orphaned(s)}}
                          ELSE @]
    /\ AgentOnly

PayoutCandidates == {t \in Txns : PayoutCandidate(t)}

PayoutCopy(t) == [about |-> t, status |-> payout[t], ref |-> providerRef[t],
                  held |-> RefundHolds(t)]

\* What is not listed is not this run's to repair or to report.
ListPayouts(a) ==
    /\ AgentAt(a, "list payouts")
    /\ \E listed \in IF InScope(a, "PAYOUT") THEN Listings(PayoutCandidates) ELSE {{}} :
          agent' = [agent EXCEPT
             ![a].pc = "payouts",
             ![a].paid = PaidOutside \ (PayoutCandidates \ listed),
             ![a].stuck = @ \ (PayoutCandidates \ listed),
             ![a].todo = {PayoutCopy(t) : t \in listed}]
    /\ AgentOnly

\* Not for the provider to say: a refund holds the payout, or it has no reference.
ReportPayout(a, c) ==
    /\ AgentAt(a, "payouts")
    /\ c \in agent[a].todo
    /\ c.held \/ ~ c.ref
    /\ agent' = [agent EXCEPT
          ![a].todo = @ \ {c},
          ![a].found = @ \cup {Finding(IF c.held THEN "PAYOUT_BLOCKED_BY_REFUND"
                                       ELSE "PAYOUT_MISSING_PROVIDER_REFERENCE", c.about)}]
    /\ AgentOnly

AskProvider(a, c) ==
    /\ AgentAt(a, "payouts")
    /\ c \in agent[a].todo
    /\ ~ c.held /\ c.ref
    /\ OnPayout(BeginSync(a, c.about))
    /\ agent' = [agent EXCEPT ![a].pc = "syncing", ![a].todo = @ \ {c}, ![a].now = c]
    /\ UNCHANGED <<runVars, mishaps>>

\* The row as it was listed is compared with the status that has been applied.
Compared(a, pc, code, synced) ==
    agent' = [agent EXCEPT
       ![a].pc = pc, ![a].now = NoCopy,
       ![a].found = IF agent[a].now.status # synced
                    THEN @ \cup {Finding(code, agent[a].now.about)} ELSE @]

SyncPayout(a) ==
    /\ AgentAt(a, "syncing")
    /\ LET t == agent[a].now.about
       IN  OnPayout(QueryProvider(a, t) \/ ReadPayout(a, t) \/ WriteUpdate(a, t))
    /\ IF run'[a] = Idle
       THEN Compared(a, "payouts", "PAYOUT_STATUS_MISMATCH", MapStatus(run[a].status))
       ELSE UNCHANGED agent
    /\ UNCHANGED <<runVars, mishaps>>

RefundCandidates == {r \in RefundIds : refund[r].status \in {"PENDING", "PROCESSING"}}

ListRefunds(a) ==
    /\ AgentAt(a, "payouts")
    /\ agent[a].todo = {}
    /\ \E listed \in IF InScope(a, "REFUND") THEN Listings(RefundCandidates) ELSE {{}} :
          agent' = [agent EXCEPT
             ![a].pc = "refunds",
             ![a].returned = ReturnedOutside \ (RefundCandidates \ listed),
             ![a].todo = {[about |-> r, status |-> refund[r].status] : r \in listed}]
    /\ AgentOnly

AskGateway(a, c) ==
    /\ AgentAt(a, "refunds")
    /\ c \in agent[a].todo
    /\ OnRefund(BeginRefundSync(DeskOf[a], c.about))
    /\ agent' = [agent EXCEPT ![a].pc = "applying", ![a].todo = @ \ {c}, ![a].now = c]
    /\ UNCHANGED <<runVars, mishaps>>

\* The gateway answers that it has no such refund; the client throws.
GatewayUnaware(a, c) ==
    /\ AgentAt(a, "refunds")
    /\ c \in agent[a].todo
    /\ gatewayRefund[c.about] = "NONE"
    /\ Proceed(a, "fail")
    /\ AgentOnly

SyncRefund(a) ==
    /\ AgentAt(a, "applying")
    /\ OnRefund(ReadRefund(DeskOf[a]) \/ WriteRefund(DeskOf[a]))
    /\ IF clerk'[DeskOf[a]] = ClerkIdle
       THEN Compared(a, "refunds", "REFUND_STATUS_MISMATCH",
                     MapRefundStatus(clerk[DeskOf[a]].status))
       ELSE UNCHANGED agent
    /\ UNCHANGED <<runVars, mishaps>>

\* An update is refused, or fails for a reason of its own.
UpdateThrows(a) ==
    /\ \/ /\ AgentAt(a, "syncing")
          /\ OnPayout(UpdateRejected(a, agent[a].now.about) \/ CrashRun(a))
       \/ /\ AgentAt(a, "applying")
          /\ OnRefund(RefundRejected(DeskOf[a]) \/ CrashClerk(DeskOf[a]))
    /\ agent' = [agent EXCEPT ![a].pc = "fail", ![a].now = NoCopy]
    /\ UNCHANGED <<runVars, mishaps>>

\* A read, a call to a provider or one of the run's own blocks fails.
ReadFails(a) ==
    /\ agent[a] # AgentIdle
    /\ agent[a].pc \in Reading
    /\ Mishap
    /\ Proceed(a, "fail")
    /\ UNCHANGED <<vars, runVars>>

\* The block at the end: an item for each finding, and the count.
Recorded(a) == {[run |-> agent[a].run, try |-> agent[a].try,
                 finding |-> f, resolvedBy |-> Nobody] : f \in agent[a].found}

\* A mutant: the count goes on from what an earlier delivery left.
FinishRunCountingOn(a) ==
    /\ AgentAt(a, "refunds")
    /\ agent[a].todo = {}
    /\ items' = items \cup Recorded(a)
    /\ recRun' = [recRun EXCEPT ![agent[a].run].status = "COMPLETED",
                                ![agent[a].run].mismatches = @ + Cardinality(agent[a].found)]
    /\ Proceed(a, "answer")
    /\ UNCHANGED <<vars, requested, recJob, tries, deliveryVars, admin, mishaps>>

FinishRun(a) ==
    /\ AgentAt(a, "refunds")
    /\ agent[a].todo = {}
    /\ items' = items \cup Recorded(a)
    /\ recRun' = [recRun EXCEPT ![agent[a].run].status = "COMPLETED",
                                ![agent[a].run].mismatches = Cardinality(agent[a].found)]
    /\ Proceed(a, "answer")
    /\ UNCHANGED <<vars, requested, recJob, tries, deliveryVars, admin, mishaps>>

\* The lock is the last worker's the job was handed to; to one that has been
\* overtaken the queue does not listen.
HoldsJob(a) == agent[a].try # 0 /\ agent[a].try = deliveries[agent[a].run]

\* The job that is thrown out of waits for another attempt, or is moved to the
\* dead letter queue; of a scheduled run nothing is left but its row.
Retry(a) ==
    LET i == agent[a].run IN
    /\ agent' = [agent EXCEPT ![a] = AgentIdle]
    /\ IF HoldsJob(a)
       THEN /\ tries' = [tries EXCEPT ![i] = @ + 1]
            /\ recJob' = [recJob EXCEPT ![i] = IF tries[i] + 1 >= MaxAttempts THEN "DEAD" ELSE @]
       ELSE UNCHANGED <<tries, recJob>>

\* A mutant: the row is left as it is.
StatusForgotten == "RUNNING"

\* A mutant: a word the enum of statuses does not have.
StatusAborted == "ABORTED"

\* The status a run is left with when it throws.
StatusOnError == "FAILED"

\* A mutant: what was found before the error is recorded.
FailRunKeepingItems(a) ==
    /\ AgentAt(a, "fail")
    /\ recRun' = [recRun EXCEPT ![agent[a].run].status = StatusOnError]
    /\ items' = items \cup Recorded(a)
    /\ Retry(a)
    /\ UNCHANGED <<vars, requested, deliveryVars, admin, mishaps>>

FailRun(a) ==
    /\ AgentAt(a, "fail")
    /\ recRun' = [recRun EXCEPT ![agent[a].run].status = StatusOnError]
    /\ Retry(a)
    /\ UNCHANGED <<vars, requested, deliveryVars, items, admin, mishaps>>

AnswerRun(a) ==
    /\ AgentAt(a, "answer")
    /\ agent' = [agent EXCEPT ![a] = AgentIdle]
    /\ recJob' = IF HoldsJob(a) THEN [recJob EXCEPT ![agent[a].run] = "DONE"] ELSE recJob
    /\ UNCHANGED <<vars, recRun, requested, tries, deliveryVars, items, admin, mishaps>>

\* The last read, and the block of the catch clause, are outside the try.
LeaveRun(a) ==
    /\ agent[a] # AgentIdle
    /\ agent[a].pc \in {"answer", "fail"}
    /\ Mishap
    /\ Retry(a)
    /\ UNCHANGED <<vars, recRun, requested, deliveryVars, items, admin>>

\* The process dies between two steps; a job that was being run stalls and is
\* taken up again.
CrashAgent(a) ==
    /\ agent[a] # AgentIdle
    /\ CASE agent[a].pc = "syncing"  -> OnPayout(CrashRun(a)) /\ UNCHANGED mishaps
         [] agent[a].pc = "applying" -> OnRefund(CrashClerk(DeskOf[a])) /\ UNCHANGED mishaps
         [] OTHER                    -> Mishap /\ UNCHANGED vars
    /\ agent' = [agent EXCEPT ![a] = AgentIdle]
    /\ UNCHANGED runVars

-----------------------------------------------------------------------------
(***************************************************************************)
(* resolveItem: the item is read, then updated by its id.                  *)
(***************************************************************************)
BeginResolve(m, x) ==
    /\ admin[m] = NoItem
    /\ x.resolvedBy = Nobody
    /\ admin' = [admin EXCEPT ![m] = x]
    /\ UNCHANGED <<vars, recRun, requested, recJob, tries, deliveryVars, items, agent, mishaps>>

SameItem(x, y) == [x EXCEPT !.resolvedBy = Nobody] = [y EXCEPT !.resolvedBy = Nobody]

WriteResolve(m) ==
    /\ admin[m] # NoItem
    /\ items' = {IF SameItem(x, admin[m]) THEN [x EXCEPT !.resolvedBy = m] ELSE x : x \in items}
    /\ admin' = [admin EXCEPT ![m] = NoItem]
    /\ UNCHANGED <<vars, recRun, requested, recJob, tries, deliveryVars, agent, mishaps>>

-----------------------------------------------------------------------------
\* A step of the settlement that is no agent's.
OthersStep ==
    /\ Next
    /\ \A a \in Agents : run'[a] = run[a] /\ clerk'[DeskOf[a]] = clerk[DeskOf[a]]
    /\ UNCHANGED reconciliationVars

TodoOf(a) == IF agent[a] = AgentIdle THEN {} ELSE agent[a].todo

AgentStep(a) ==
    \/ \E i \in RunIds : BeginRun(a, i) \/ ScheduledRun(a, i)
    \/ StartRun(a) \/ ComparePayments(a) \/ ListPayouts(a) \/ ListRefunds(a)
    \/ \E c \in TodoOf(a) : \/ ReportPayout(a, c) \/ AskProvider(a, c)
                          \/ AskGateway(a, c) \/ GatewayUnaware(a, c)
    \/ SyncPayout(a) \/ SyncRefund(a) \/ UpdateThrows(a)
    \/ ReadFails(a) \/ FinishRun(a) \/ FailRun(a) \/ AnswerRun(a)
    \/ LeaveRun(a) \/ CrashAgent(a)

ReconciliationNext ==
    \/ OthersStep
    \/ \E i \in RunIds, scopes \in ScopeChoices : RequestRun(i, scopes)
    \/ \E i \in RunIds : EnqueueRun(i) \/ LoseRequest(i)
    \/ \E a \in Agents : AgentStep(a)
    \/ \E m \in Admins : (\E x \in items : BeginResolve(m, x)) \/ WriteResolve(m)

ReconciliationSpec ==
    /\ Init /\ ReconciliationInit
    /\ [][ReconciliationNext]_<<vars, reconciliationVars>>

-----------------------------------------------------------------------------
(***************************************************************************)
(* What reconciliation is for.                                             *)
(***************************************************************************)
Completed(a) == AgentAt(a, "answer")

Reports(a, code, x) == Finding(code, x) \in agent[a].found

\* A run that completes has repaired what it listed: a transfer the provider has
\* made is debited, unless it has bounced since, and a refund the gateway has made
\* is reversed, whether or not their webhooks ever came, and whatever webhooks,
\* jobs and syncs ran beside it (reconcilePayouts, reconcileRefunds).
RepairsSettled ==
    \A a \in Agents : Completed(a) =>
        /\ \A t \in agent[a].paid : debits[t] = 1 \/ transfer[t] = "REVERSED"
        /\ \A r \in agent[a].returned : reversals[r] >= 1

\* A payout that was claimed by a run that died before it reached the provider,
\* which no job, webhook or sync ever moves again, is reported by a run that
\* completes, unless it has been moved since, or more payouts were open than the
\* run's query takes and it was not among those the query took: `stuck` holds what
\* is left of what was stuck when the run began (findPayoutCandidates).
StuckIsReported ==
    \A a \in Agents : Completed(a) /\ InScope(a, "PAYOUT") =>
        \A t \in agent[a].stuck :
            \/ Reports(a, "PAYOUT_MISSING_PROVIDER_REFERENCE", t)
            \/ Reports(a, "PAYOUT_BLOCKED_BY_REFUND", t)
            \/ providerRef[t]
            \/ payout[t] # "PROCESSING"

ItemsOf(i) == {x \in items : x.run = i}
Ended(i) == recRun[i] # NoRun /\ recRun[i].status = "COMPLETED"

\* What a completed run says it counted are the items of one of its deliveries:
\* items and count are one block (executeRun).  They are all the items it has, and
\* a run that has not completed has none, however often its job was thrown out of
\* and retried, unless the read after that block failed or a second worker was
\* given the job while the first was at it: both record everything again.
ItemsCounted ==
    \A i \in RunIds :
        /\ Ended(i) => \E n \in 0 .. deliveries[i] :
              Cardinality({x \in ItemsOf(i) : x.try = n}) = recRun[i].mismatches
        /\ mishaps = 0 /\ i \notin overtaken =>
              Cardinality(ItemsOf(i)) = IF Ended(i) THEN recRun[i].mismatches ELSE 0

\* A run is not left RUNNING: unless a process has died or a block has failed,
\* it has a request, a job or a worker to finish it, also when two workers are at
\* it and the one that was overtaken is the last to write (executeRun's catch
\* clause).
RunningIsWorked ==
    \A i \in RunIds : recRun[i] # NoRun /\ recRun[i].status = "RUNNING" =>
        \/ i \in requested
        \/ recJob[i] = "WAITING"
        \/ UnderWay(i)
        \/ mishaps + faults > 0
=============================================================================
