------------------------- MODULE ReconciliationProofs -------------------------
(***************************************************************************)
(* Reconciliation, for every value of the constants.  Whatever runs,       *)
(* administrators and crashes do, the settlement takes only steps of its   *)
(* own, so that every theorem about Settlement holds with reconciliation   *)
(* beside it; a run has the items of the delivery that completed it last,  *)
(* and somebody to finish it.                                              *)
(***************************************************************************)
EXTENDS Reconciliation, SettlementPartners, FiniteSetTheorems

(***************************************************************************)
(* The inductive invariant: while a run goes through the payouts, or the   *)
(* refunds, it lists, what it has in hand are copies of such rows.         *)
(***************************************************************************)
RecordBacked(x) ==
    /\ x.pc \in {"payouts", "syncing"} => x.todo \subseteq PayoutCopies
    /\ x.pc = "syncing" => x.now \in PayoutCopies
    /\ x.pc \in {"refunds", "applying"} => x.todo \subseteq RefundCopies
    /\ x.pc = "applying" => x.now \in RefundCopies

AgentsBacked ==
    /\ agent \in [Agents -> AgentStates]
    /\ \A a \in Agents : agent[a] # AgentIdle => RecordBacked(agent[a])

\* The number of a delivery, which a run keeps, is one of those there may be.
DeliveriesCounted == deliveries \in [RunIds -> 0 .. MaxDeliveries]

\* An agent in a run.
Working == AgentStates \ {AgentIdle}

LEMMA AgentRecords ==
    ASSUME NEW x \in Working
    PROVE  /\ x \in [pc : Reading \cup {"syncing", "applying", "answer", "fail"},
                     run : RunIds, try : 0 .. MaxDeliveries, found : SUBSET Findings,
                     todo : SUBSET (PayoutCopies \cup RefundCopies),
                     now : PayoutCopies \cup RefundCopies \cup {NoCopy},
                     paid : SUBSET Txns, returned : SUBSET RefundIds, stuck : SUBSET Txns]
           /\ x # AgentIdle
  BY DEF Working, AgentStates

\* A step that replaces one agent's state by another that is backed.
LEMMA OneAgent ==
    ASSUME AgentsBacked, NEW a \in Agents, NEW x \in AgentStates,
           x = AgentIdle \/ RecordBacked(x),
           agent' = [agent EXCEPT ![a] = x]
    PROVE  AgentsBacked'
<1>1. agent' \in [Agents -> AgentStates]
  BY DEF AgentsBacked
<1>2. ASSUME NEW b \in Agents, agent'[b] # AgentIdle
      PROVE  RecordBacked(agent'[b])
  BY <1>2 DEF AgentsBacked
<1>3. QED
  BY <1>1, <1>2 DEF AgentsBacked, RecordBacked

\* A run that goes on to a step where nothing is in hand.
LEMMA Proceeding ==
    ASSUME AgentsBacked, NEW a \in Agents, agent[a] # AgentIdle,
           NEW pc \in {"payments", "list payouts", "answer", "fail"}, Proceed(a, pc)
    PROVE  AgentsBacked'
<1> DEFINE x == [agent[a] EXCEPT !.pc = pc]
<1>1. agent[a] \in Working
  BY DEF AgentsBacked, Working
<1>2. x \in AgentStates
  BY <1>1, AgentRecords DEF AgentStates, Reading
<1>3. RecordBacked(x)
  BY <1>1, AgentRecords DEF RecordBacked
<1>4. agent' = [agent EXCEPT ![a] = x]
  BY DEF Proceed
<1>5. QED
  BY <1>2, <1>3, <1>4, OneAgent

\* A run ends.
LEMMA Ending ==
    ASSUME AgentsBacked, NEW a \in Agents, agent' = [agent EXCEPT ![a] = AgentIdle]
    PROVE  AgentsBacked'
  BY OneAgent DEF AgentStates

-----------------------------------------------------------------------------
\* The start of a run.
LEMMA BeginBacked ==
    ASSUME AgentsBacked, DeliveriesCounted, NEW a \in Agents, NEW i \in RunIds,
           BeginRun(a, i) \/ ScheduledRun(a, i)
    PROVE  AgentsBacked'
<1>0. MaxDeliveries \in Nat /\ deliveries[i] \in 0 .. MaxDeliveries
  BY ReconciliationAssumption DEF ReconciliationAssumption, DeliveriesCounted
<1>1. PICK try \in 0 .. MaxDeliveries : agent' = [agent EXCEPT ![a] = Begun(i, try)]
  <2>1. CASE BeginRun(a, i)
    <3>1. deliveries[i] + 1 \in 0 .. MaxDeliveries
      BY <1>0, <2>1 DEF BeginRun
    <3>2. agent' = [agent EXCEPT ![a] = Begun(i, deliveries[i] + 1)]
      BY <2>1 DEF BeginRun
    <3>3. QED
      BY <3>1, <3>2
  <2>2. CASE ScheduledRun(a, i)
    <3>1. agent' = [agent EXCEPT ![a] = Begun(i, 0)] /\ 0 \in 0 .. MaxDeliveries
      BY <1>0, <2>2 DEF ScheduledRun
    <3>2. QED
      BY <3>1
  <2>3. QED
    BY <2>1, <2>2
<1>2. Begun(i, try) \in AgentStates /\ RecordBacked(Begun(i, try))
  BY DEF Begun, AgentStates, Reading, RecordBacked
<1>3. QED
  BY <1>1, <1>2, OneAgent

LEMMA StartBacked ==
    ASSUME AgentsBacked, NEW a \in Agents, StartRun(a) \/ ComparePayments(a)
    PROVE  AgentsBacked'
<1>1. agent[a] \in Working
  BY DEF AgentsBacked, Working, StartRun, ComparePayments, AgentAt
<1>2. CASE StartRun(a)
  <2> DEFINE x == [agent[a] EXCEPT !.pc = "payments", !.stuck = Stuck]
  <2>1. Stuck \subseteq Txns
    BY DEF Stuck
  <2>2. x \in AgentStates /\ RecordBacked(x)
    BY <1>1, <2>1, AgentRecords DEF AgentStates, Reading, RecordBacked
  <2>3. agent' = [agent EXCEPT ![a] = x]
    BY <1>2 DEF StartRun
  <2>4. QED
    BY <2>2, <2>3, OneAgent
<1>3. CASE ComparePayments(a)
  <2>1. PICK listed \in SUBSET Txns :
          agent' = [agent EXCEPT
             ![a].pc = "list payouts",
             ![a].found = IF InScope(a, "PAYMENT")
                          THEN {Finding("PAID_TRANSACTION_MISSING_DOWNSTREAM_ACTION", t) :
                                   t \in {s \in listed : Orphaned(s)}}
                          ELSE @]
    BY <1>3 DEF ComparePayments, PaidTransactions
  <2> DEFINE found == IF InScope(a, "PAYMENT")
                      THEN {Finding("PAID_TRANSACTION_MISSING_DOWNSTREAM_ACTION", t) :
                               t \in {s \in listed : Orphaned(s)}}
                      ELSE agent[a].found
             x == [agent[a] EXCEPT !.pc = "list payouts", !.found = found]
  <2>2. found \subseteq Findings
    BY <1>1, AgentRecords DEF Findings, Finding, Codes
  <2>3. x \in AgentStates /\ RecordBacked(x)
    BY <1>1, <2>2, AgentRecords DEF AgentStates, Reading, RecordBacked
  <2>4. agent' = [agent EXCEPT ![a] = x]
    BY <2>1
  <2>5. QED
    BY <2>3, <2>4, OneAgent
<1>4. QED
  BY <1>2, <1>3

\* A query returns rows that match.
LEMMA ListedMatch ==
    ASSUME NEW rows, NEW listed \in Listings(rows)
    PROVE  listed \subseteq rows
  BY DEF Listings

LEMMA ListedPayouts ==
    ASSUME NEW a \in Agents, ListPayouts(a)
    PROVE  \E listed \in SUBSET PayoutCandidates :
              agent' = [agent EXCEPT
                 ![a].pc = "payouts",
                 ![a].paid = PaidOutside \ (PayoutCandidates \ listed),
                 ![a].stuck = @ \ (PayoutCandidates \ listed),
                 ![a].todo = {PayoutCopy(t) : t \in listed}]
<1>1. ASSUME NEW listed \in IF InScope(a, "PAYOUT") THEN Listings(PayoutCandidates) ELSE {{}}
      PROVE  listed \in SUBSET PayoutCandidates
  BY ListedMatch
<1>2. QED
  BY <1>1 DEF ListPayouts

LEMMA ListedRefunds ==
    ASSUME NEW a \in Agents, ListRefunds(a)
    PROVE  \E listed \in SUBSET RefundCandidates :
              agent' = [agent EXCEPT
                 ![a].pc = "refunds",
                 ![a].returned = ReturnedOutside \ (RefundCandidates \ listed),
                 ![a].todo = {[about |-> r, status |-> refund[r].status] : r \in listed}]
<1>1. ASSUME NEW listed \in IF InScope(a, "REFUND") THEN Listings(RefundCandidates) ELSE {{}}
      PROVE  listed \in SUBSET RefundCandidates
  BY ListedMatch
<1>2. QED
  BY <1>1 DEF ListRefunds

\* What is listed are copies of rows.
LEMMA PayoutCopiesMade ==
    ASSUME TypeInv, NEW t \in PayoutCandidates
    PROVE  PayoutCopy(t) \in PayoutCopies
<1>1. t \in Txns /\ payout[t] \in PayoutStates
  BY DEF PayoutCandidates, PayoutCandidate, PayoutStates
<1>2. providerRef[t] \in BOOLEAN
  BY <1>1 DEF TypeInv, TypeOK, PayoutTypeOK
<1>3. RefundHolds(t) \in BOOLEAN
  BY DEF RefundHolds
<1>4. QED
  BY <1>1, <1>2, <1>3 DEF PayoutCopy, PayoutCopies

LEMMA ListBacked ==
    ASSUME TypeInv, AgentsBacked, NEW a \in Agents, ListPayouts(a) \/ ListRefunds(a)
    PROVE  AgentsBacked'
<1>1. agent[a] \in Working
  BY DEF AgentsBacked, Working, ListPayouts, ListRefunds, AgentAt
<1>2. CASE ListPayouts(a)
  <2>1. PICK listed \in SUBSET PayoutCandidates :
          agent' = [agent EXCEPT
             ![a].pc = "payouts",
             ![a].paid = PaidOutside \ (PayoutCandidates \ listed),
             ![a].stuck = @ \ (PayoutCandidates \ listed),
             ![a].todo = {PayoutCopy(t) : t \in listed}]
    BY <1>2, ListedPayouts
  <2> DEFINE cut == PayoutCandidates \ listed
             todo == {PayoutCopy(t) : t \in listed}
             x == [agent[a] EXCEPT !.pc = "payouts", !.paid = PaidOutside \ cut,
                                   !.stuck = agent[a].stuck \ cut, !.todo = todo]
  <2>2. todo \subseteq PayoutCopies /\ PaidOutside \subseteq Txns
    BY PayoutCopiesMade DEF PaidOutside
  <2> HIDE DEF todo, cut
  <2>3. x \in AgentStates /\ RecordBacked(x)
    BY <1>1, <2>2, AgentRecords DEF AgentStates, Reading, RecordBacked
  <2>4. agent' = [agent EXCEPT ![a] = x]
    BY <2>1 DEF todo, cut
  <2>5. QED
    BY <2>3, <2>4, OneAgent
<1>3. CASE ListRefunds(a)
  <2>1. PICK listed \in SUBSET RefundCandidates :
          agent' = [agent EXCEPT
             ![a].pc = "refunds",
             ![a].returned = ReturnedOutside \ (RefundCandidates \ listed),
             ![a].todo = {[about |-> r, status |-> refund[r].status] : r \in listed}]
    BY <1>3, ListedRefunds
  <2> DEFINE returned == ReturnedOutside \ (RefundCandidates \ listed)
             todo == {[about |-> r, status |-> refund[r].status] : r \in listed}
             x == [agent[a] EXCEPT !.pc = "refunds", !.returned = returned, !.todo = todo]
  <2>2. todo \subseteq RefundCopies /\ returned \subseteq RefundIds
    BY DEF ReturnedOutside, RefundCopies, RefundStates, RefundCandidates
  <2> HIDE DEF todo, returned
  <2>3. x \in AgentStates /\ RecordBacked(x)
    BY <1>1, <2>2, AgentRecords DEF AgentStates, Reading, RecordBacked
  <2>4. agent' = [agent EXCEPT ![a] = x]
    BY <2>1 DEF todo, returned
  <2>5. QED
    BY <2>3, <2>4, OneAgent
<1>4. QED
  BY <1>2, <1>3

\* What is in hand is asked about, reported, or compared.
LEMMA PayoutRunBacked ==
    ASSUME AgentsBacked, NEW a \in Agents,
           \/ \E c \in TodoOf(a) : ReportPayout(a, c) \/ AskProvider(a, c)
           \/ SyncPayout(a)
    PROVE  AgentsBacked'
<1>1. agent[a] \in Working /\ RecordBacked(agent[a])
  BY DEF AgentsBacked, Working, ReportPayout, AskProvider, SyncPayout, AgentAt
<1>2. ASSUME NEW c \in TodoOf(a), ReportPayout(a, c)
      PROVE  AgentsBacked'
  <2> DEFINE f == Finding(IF c.held THEN "PAYOUT_BLOCKED_BY_REFUND"
                          ELSE "PAYOUT_MISSING_PROVIDER_REFERENCE", c.about)
             x == [agent[a] EXCEPT !.todo = agent[a].todo \ {c},
                                   !.found = agent[a].found \cup {f}]
  <2>1. agent[a].pc = "payouts" /\ c \in PayoutCopies
    BY <1>1, <1>2 DEF ReportPayout, AgentAt, RecordBacked
  <2>2. f \in Findings
    BY <2>1 DEF Finding, Findings, Codes, PayoutCopies
  <2>3. x \in AgentStates /\ RecordBacked(x)
    BY <1>1, <2>1, <2>2, AgentRecords DEF AgentStates, Reading, RecordBacked
  <2>4. agent' = [agent EXCEPT ![a] = x]
    BY <1>2 DEF ReportPayout
  <2>5. QED
    BY <2>3, <2>4, OneAgent
<1>3. ASSUME NEW c \in TodoOf(a), AskProvider(a, c)
      PROVE  AgentsBacked'
  <2> DEFINE x == [agent[a] EXCEPT !.pc = "syncing", !.todo = agent[a].todo \ {c}, !.now = c]
  <2>1. agent[a].pc = "payouts" /\ c \in PayoutCopies
    BY <1>1, <1>3 DEF AskProvider, AgentAt, RecordBacked
  <2>2. x \in AgentStates /\ RecordBacked(x)
    BY <1>1, <2>1, AgentRecords DEF AgentStates, Reading, RecordBacked
  <2>3. agent' = [agent EXCEPT ![a] = x]
    BY <1>3 DEF AskProvider
  <2>4. QED
    BY <2>2, <2>3, OneAgent
<1>4. CASE SyncPayout(a)
  <2>1. CASE UNCHANGED agent
    BY <2>1 DEF AgentsBacked, RecordBacked
  <2>2. CASE Compared(a, "payouts", "PAYOUT_STATUS_MISMATCH", MapStatus(run[a].status))
    <3> DEFINE found == IF agent[a].now.status # MapStatus(run[a].status)
                        THEN agent[a].found
                               \cup {Finding("PAYOUT_STATUS_MISMATCH", agent[a].now.about)}
                        ELSE agent[a].found
               x == [agent[a] EXCEPT !.pc = "payouts", !.now = NoCopy, !.found = found]
    <3>1. agent[a].pc = "syncing" /\ agent[a].now \in PayoutCopies
      BY <1>1, <1>4 DEF SyncPayout, AgentAt, RecordBacked
    <3>2. found \subseteq Findings
      BY <1>1, <3>1, AgentRecords DEF Finding, Findings, Codes, PayoutCopies
    <3>3. x \in AgentStates /\ RecordBacked(x)
      BY <1>1, <3>1, <3>2, AgentRecords DEF AgentStates, Reading, RecordBacked
    <3>4. agent' = [agent EXCEPT ![a] = x]
      BY <2>2 DEF Compared
    <3>5. QED
      BY <3>3, <3>4, OneAgent
  <2>3. QED
    BY <1>4, <2>1, <2>2 DEF SyncPayout
<1>5. QED
  BY <1>2, <1>3, <1>4

LEMMA RefundRunBacked ==
    ASSUME AgentsBacked, NEW a \in Agents,
           \/ \E c \in TodoOf(a) : AskGateway(a, c) \/ GatewayUnaware(a, c)
           \/ SyncRefund(a)
    PROVE  AgentsBacked'
<1>1. agent[a] \in Working /\ RecordBacked(agent[a])
  BY DEF AgentsBacked, Working, AskGateway, GatewayUnaware, SyncRefund, AgentAt
<1>2. ASSUME NEW c \in TodoOf(a), AskGateway(a, c)
      PROVE  AgentsBacked'
  <2> DEFINE x == [agent[a] EXCEPT !.pc = "applying", !.todo = agent[a].todo \ {c}, !.now = c]
  <2>1. agent[a].pc = "refunds" /\ c \in RefundCopies
    BY <1>1, <1>2 DEF AskGateway, AgentAt, RecordBacked
  <2>2. x \in AgentStates /\ RecordBacked(x)
    BY <1>1, <2>1, AgentRecords DEF AgentStates, Reading, RecordBacked
  <2>3. agent' = [agent EXCEPT ![a] = x]
    BY <1>2 DEF AskGateway
  <2>4. QED
    BY <2>2, <2>3, OneAgent
<1>3. ASSUME NEW c \in TodoOf(a), GatewayUnaware(a, c)
      PROVE  AgentsBacked'
  BY <1>1, <1>3, Proceeding, AgentRecords DEF GatewayUnaware
<1>4. CASE SyncRefund(a)
  <2>1. CASE UNCHANGED agent
    BY <2>1 DEF AgentsBacked, RecordBacked
  <2> DEFINE synced == MapRefundStatus(clerk[DeskOf[a]].status)
  <2>2. CASE Compared(a, "refunds", "REFUND_STATUS_MISMATCH", synced)
    <3> DEFINE found == IF agent[a].now.status # synced
                        THEN agent[a].found
                               \cup {Finding("REFUND_STATUS_MISMATCH", agent[a].now.about)}
                        ELSE agent[a].found
               x == [agent[a] EXCEPT !.pc = "refunds", !.now = NoCopy, !.found = found]
    <3>1. agent[a].pc = "applying" /\ agent[a].now \in RefundCopies
      BY <1>1, <1>4 DEF SyncRefund, AgentAt, RecordBacked
    <3>2. found \subseteq Findings
      BY <1>1, <3>1, AgentRecords DEF Finding, Findings, Codes, RefundCopies
    <3>3. x \in AgentStates /\ RecordBacked(x)
      BY <1>1, <3>1, <3>2, AgentRecords DEF AgentStates, Reading, RecordBacked
    <3>4. agent' = [agent EXCEPT ![a] = x]
      BY <2>2 DEF Compared
    <3>5. QED
      BY <3>3, <3>4, OneAgent
  <2>3. QED
    BY <1>4, <2>1, <2>2 DEF SyncRefund
<1>5. QED
  BY <1>2, <1>3, <1>4

\* Every step of an agent.
LEMMA AgentBacked ==
    ASSUME TypeInv, DeliveriesCounted, AgentsBacked, NEW a \in Agents, AgentStep(a)
    PROVE  AgentsBacked'
<1>1. CASE UpdateThrows(a)
  <2> DEFINE x == [agent[a] EXCEPT !.pc = "fail", !.now = NoCopy]
  <2>1. agent[a] \in Working
    BY <1>1 DEF AgentsBacked, Working, UpdateThrows, AgentAt
  <2>2. x \in AgentStates /\ RecordBacked(x)
    BY <2>1, AgentRecords DEF AgentStates, Reading, RecordBacked
  <2>3. agent' = [agent EXCEPT ![a] = x]
    BY <1>1 DEF UpdateThrows
  <2>4. QED
    BY <2>2, <2>3, OneAgent
<1>2. CASE ReadFails(a) \/ FinishRun(a)
  BY <1>2, Proceeding DEF ReadFails, FinishRun, AgentAt
<1>3. CASE FailRun(a) \/ AnswerRun(a) \/ LeaveRun(a) \/ CrashAgent(a)
  BY <1>3, Ending DEF FailRun, AnswerRun, LeaveRun, CrashAgent, Retry
<1>4. QED
  BY <1>1, <1>2, <1>3, BeginBacked, StartBacked, ListBacked, PayoutRunBacked, RefundRunBacked
     DEF AgentStep

\* What is not an agent's step leaves the agents as they are.
LEMMA NextBacked ==
    ASSUME TypeInv, DeliveriesCounted, AgentsBacked, [ReconciliationNext]_<<vars, reconciliationVars>>
    PROVE  AgentsBacked'
<1>1. CASE UNCHANGED agent
  BY <1>1 DEF AgentsBacked, RecordBacked
<1>2. CASE \E a \in Agents : AgentStep(a)
  BY <1>2, AgentBacked
<1>3. CASE ReconciliationNext /\ ~ \E a \in Agents : AgentStep(a)
  BY <1>1, <1>3 DEF ReconciliationNext, OthersStep, RequestRun, EnqueueRun, LoseRequest,
       BeginResolve, WriteResolve, reconciliationVars
<1>4. QED
  BY <1>1, <1>2, <1>3 DEF reconciliationVars

\* A job is handed out once more, or the deliveries stay as they are.
LEMMA NextDeliveries ==
    ASSUME DeliveriesCounted, [ReconciliationNext]_<<vars, reconciliationVars>>
    PROVE  DeliveriesCounted'
<1>1. ASSUME NEW a \in Agents, NEW i \in RunIds, BeginRun(a, i)
      PROVE  DeliveriesCounted'
  <2>1. MaxDeliveries \in Nat /\ deliveries[i] \in 0 .. MaxDeliveries
    BY ReconciliationAssumption DEF ReconciliationAssumption, DeliveriesCounted
  <2>2. deliveries[i] + 1 \in 0 .. MaxDeliveries
    BY <1>1, <2>1 DEF BeginRun
  <2>3. QED
    BY <1>1, <2>2 DEF BeginRun, DeliveriesCounted
<1>2. ASSUME NEW a \in Agents, AgentStep(a), ~ \E i \in RunIds : BeginRun(a, i)
      PROVE  UNCHANGED deliveries
  BY <1>2 DEF AgentStep, ScheduledRun, StartRun, ComparePayments, ListPayouts, ListRefunds,
       ReportPayout, AskProvider, AskGateway, GatewayUnaware, SyncPayout, SyncRefund,
       UpdateThrows, ReadFails, FinishRun, FailRun, AnswerRun, LeaveRun, CrashAgent,
       AgentOnly, runVars, deliveryVars
<1>3. CASE ReconciliationNext /\ ~ \E a \in Agents : AgentStep(a)
  BY <1>3 DEF ReconciliationNext, OthersStep, RequestRun, EnqueueRun, LoseRequest,
       BeginResolve, WriteResolve, reconciliationVars, deliveryVars, DeliveriesCounted
<1>4. QED
  BY <1>1, <1>2, <1>3 DEF ReconciliationNext, DeliveriesCounted, reconciliationVars, deliveryVars

-----------------------------------------------------------------------------
(***************************************************************************)
(* The settlement underneath.                                              *)
(***************************************************************************)
\* The sync of a payout is the same sequence of steps whoever asks for it.
LEMMA PayoutSyncIsPayout ==
    ASSUME NEW a \in Agents, NEW t \in Txns,
           \/ OnPayout(BeginSync(a, t))
           \/ OnPayout(QueryProvider(a, t) \/ ReadPayout(a, t) \/ WriteUpdate(a, t))
           \/ OnPayout(UpdateRejected(a, t))
    PROVE  Next
<1>1. a \in Workers
  BY ReconciliationAssumption DEF ReconciliationAssumption
<1>2. RunStep(a, t)
  BY DEF OnPayout, RunStep
<1>3. PayoutNext
  BY <1>1, <1>2 DEF PayoutNext
<1>4. QED
  BY <1>3 DEF OnPayout, PayoutStep, Next

\* So is the sync of a refund.
LEMMA RefundSyncIsRefund ==
    ASSUME NEW a \in Agents,
           \/ \E r \in RefundIds : OnRefund(BeginRefundSync(DeskOf[a], r))
           \/ OnRefund(ReadRefund(DeskOf[a]) \/ WriteRefund(DeskOf[a]))
           \/ OnRefund(RefundRejected(DeskOf[a]))
    PROVE  Next
<1>1. DeskOf[a] \in Clerks
  BY ReconciliationAssumption DEF ReconciliationAssumption
<1>2. ClerkStep(DeskOf[a])
  BY DEF OnRefund, ClerkStep
<1>3. RefundNext
  BY <1>1, <1>2 DEF RefundNext
<1>4. QED
  BY <1>3 DEF OnRefund, RefundStep, Next

\* The death of a run in the middle of a sync is that of a worker or a clerk.
LEMMA CrashIsFault ==
    ASSUME NEW a \in Agents, OnPayout(CrashRun(a)) \/ OnRefund(CrashClerk(DeskOf[a]))
    PROVE  Next
<1>1. a \in Workers /\ DeskOf[a] \in Clerks
  BY ReconciliationAssumption DEF ReconciliationAssumption
<1>2. PayoutStep \/ RefundStep
  BY <1>1 DEF OnPayout, OnRefund, PayoutStep, PayoutNext, RefundStep, RefundNext
<1>3. QED
  BY <1>2 DEF Next

\* A step of a run is a step of the settlement or leaves it alone.
LEMMA AgentSettles ==
    ASSUME AgentsBacked, NEW a \in Agents, AgentStep(a)
    PROVE  [Next]_vars
<1>1. ASSUME NEW i \in RunIds, BeginRun(a, i) \/ ScheduledRun(a, i)
      PROVE  UNCHANGED vars
  BY <1>1 DEF BeginRun, ScheduledRun, AgentOnly
<1>2. CASE \/ StartRun(a) \/ ComparePayments(a) \/ ListPayouts(a) \/ ListRefunds(a)
           \/ ReadFails(a) \/ FinishRun(a) \/ FailRun(a) \/ AnswerRun(a) \/ LeaveRun(a)
  BY <1>2 DEF StartRun, ComparePayments, ListPayouts, ListRefunds, ReadFails, FinishRun,
       FailRun, AnswerRun, LeaveRun, AgentOnly
<1>3. ASSUME NEW c \in TodoOf(a), ReportPayout(a, c) \/ GatewayUnaware(a, c)
      PROVE  UNCHANGED vars
  BY <1>3 DEF ReportPayout, GatewayUnaware, AgentOnly
<1>4. ASSUME NEW c \in TodoOf(a), AskProvider(a, c)
      PROVE  Next
  <2>1. c \in PayoutCopies
    BY <1>4 DEF AskProvider, AgentAt, AgentsBacked, RecordBacked
  <2>2. c.about \in Txns /\ OnPayout(BeginSync(a, c.about))
    BY <1>4, <2>1 DEF AskProvider, PayoutCopies
  <2>3. QED
    BY <2>2, PayoutSyncIsPayout
<1>5. ASSUME NEW c \in TodoOf(a), AskGateway(a, c)
      PROVE  Next
  <2>1. c \in RefundCopies
    BY <1>5 DEF AskGateway, AgentAt, AgentsBacked, RecordBacked
  <2>2. c.about \in RefundIds /\ OnRefund(BeginRefundSync(DeskOf[a], c.about))
    BY <1>5, <2>1 DEF AskGateway, RefundCopies
  <2>3. QED
    BY <2>2, RefundSyncIsRefund
<1>6. ASSUME AgentAt(a, "syncing")
      PROVE  agent[a].now.about \in Txns
  BY <1>6 DEF AgentAt, AgentsBacked, RecordBacked, PayoutCopies
<1>7. CASE SyncPayout(a)
  BY <1>6, <1>7, PayoutSyncIsPayout DEF SyncPayout
<1>8. CASE SyncRefund(a)
  BY <1>8, RefundSyncIsRefund DEF SyncRefund
<1>9. CASE UpdateThrows(a)
  <2>1. CASE AgentAt(a, "syncing") /\ OnPayout(UpdateRejected(a, agent[a].now.about))
    BY <1>6, <2>1, PayoutSyncIsPayout
  <2>2. CASE OnPayout(CrashRun(a)) \/ OnRefund(CrashClerk(DeskOf[a]))
    BY <2>2, CrashIsFault
  <2>3. CASE OnRefund(RefundRejected(DeskOf[a]))
    BY <2>3, RefundSyncIsRefund
  <2>4. QED
    BY <1>9, <2>1, <2>2, <2>3 DEF UpdateThrows, OnPayout, OnRefund
<1>10. CASE CrashAgent(a)
  BY <1>10, CrashIsFault DEF CrashAgent
<1>11. QED
  BY <1>1, <1>2, <1>3, <1>4, <1>5, <1>7, <1>8, <1>9, <1>10 DEF AgentStep

\* So is every step.
LEMMA StepSettles ==
    ASSUME AgentsBacked, [ReconciliationNext]_<<vars, reconciliationVars>>
    PROVE  [Next]_vars
<1>1. CASE \E a \in Agents : AgentStep(a)
  BY <1>1, AgentSettles
<1>2. CASE ReconciliationNext /\ ~ \E a \in Agents : AgentStep(a)
  BY <1>2 DEF ReconciliationNext, OthersStep, RequestRun, EnqueueRun, LoseRequest,
       BeginResolve, WriteResolve
<1>3. QED
  BY <1>1, <1>2

\* The inductive invariant of the two together.
AgentsInv == TypeInv /\ DeliveriesCounted /\ AgentsBacked

LEMMA InitAgents == Init /\ ReconciliationInit => AgentsInv
<1>1. AgentIdle \in AgentStates
  BY DEF AgentStates
<1>2. 0 \in 0 .. MaxDeliveries
  BY ReconciliationAssumption DEF ReconciliationAssumption
<1>3. QED
  BY <1>1, <1>2, InitTypes DEF ReconciliationInit, AgentsInv, AgentsBacked, DeliveriesCounted

LEMMA NextAgents ==
    AgentsInv /\ [ReconciliationNext]_<<vars, reconciliationVars>> => AgentsInv' /\ [Next]_vars
<1> SUFFICES ASSUME AgentsInv, [ReconciliationNext]_<<vars, reconciliationVars>>
             PROVE  AgentsInv' /\ [Next]_vars
  OBVIOUS
<1>1. AgentsBacked' /\ [Next]_vars
  BY NextBacked, StepSettles DEF AgentsInv
<1>2. TypeInv' /\ DeliveriesCounted'
  BY <1>1, NextTypes, NextDeliveries DEF AgentsInv
<1>3. QED
  BY <1>1, <1>2 DEF AgentsInv

\* What a run has in hand is always a copy of a row that was there when it listed
\* it, so that no step of a run speaks of a row that does not exist.
THEOREM RunsInHand == ReconciliationSpec => []AgentsInv
  BY InitAgents, NextAgents, PTL DEF ReconciliationSpec

\* Settlement beside reconciliation is settlement: runs, their retries, crashes and
\* administrators add no step to the rows, the books, the queues or the providers
\* that the handlers do not take themselves (reconcilePayouts, reconcileRefunds).
THEOREM ReconciliationSettles == ReconciliationSpec => Spec
<1>1. AgentsInv /\ [ReconciliationNext]_<<vars, reconciliationVars>> => [Next]_vars
  BY NextAgents
<1>2. QED
  BY <1>1, RunsInHand, PTL DEF ReconciliationSpec, Spec

\* What is proved of Settlement holds while runs repair it: a transfer is debited
\* once, and its debit never refused, a refund reversed only if the gateway made it,
\* the provider asked at most once, the column kept in step, and the promise of a
\* transfer kept.
THEOREM RepairIsSafe ==
    ReconciliationSpec =>
        /\ [](TypeOK /\ DebitedOnCompletion /\ CreditedOnCapture /\ OneTransferRequest)
        /\ [](DebitNeverRefused /\ DebitedOnlyIfPaid /\ ColumnAgrees /\ SubmittedOnce)
        /\ [](RefundAfterPayout /\ ReversedIfRefunded /\ DisputedHasCase)
        /\ KeepsPromise
  BY ReconciliationSettles, TypesKept, DebitsAgree, CreditsAgree, AskedOnce, DebitsAreCovered,
     DebitsArePaid, ColumnsAgree, PostedOnce, RefundsFollowPayout, ReversalsAgree, DisputesHaveCases,
     PromiseKept, PTL

\* Runs bring no race of their own: a payment is credited twice, or a resolved case
\* reopened, only where two handlers of the settlement meet.
THEOREM RepairAddsNoRace ==
    /\ ReconciliationSpec /\ []DecidedApart => []CreditedOnce
    /\ ReconciliationSpec /\ []EditsApart => ResolvedStaysResolved
  BY ReconciliationSettles, CreditsAreOnce, ResolvedForGood, PTL

-----------------------------------------------------------------------------
(***************************************************************************)
(* The bookkeeping of runs.  Each agent has a delivery of its own, up to   *)
(* the last; while it is at work the row exists and its request is over.   *)
(* The agent with the last delivery of a job finds the job waiting, and    *)
(* where no job was handed out again under a worker there is no other.  An *)
(* attempt is left to a job that is not over.                              *)
(***************************************************************************)
AgentsApart ==
    \A a, b \in Agents :
        /\ agent[a] # AgentIdle /\ agent[b] # AgentIdle
        /\ agent[a].run = agent[b].run /\ agent[a].try = agent[b].try
        => a = b

AgentBooked(a) ==
    LET i == agent[a].run IN
    /\ recRun[i] # NoRun
    /\ i \notin requested
    /\ agent[a].try <= deliveries[i]
    /\ agent[a].try = 0 => recJob[i] = "NONE"
    /\ agent[a].try # 0 /\ agent[a].try = deliveries[i] => recJob[i] = "WAITING"
    /\ i \notin overtaken => agent[a].try = deliveries[i]
    /\ IsFiniteSet(agent[a].found)

AgentsBooked == \A a \in Agents : agent[a] # AgentIdle => AgentBooked(a)

RunsBooked ==
    \A i \in RunIds :
        /\ recRun[i] = NoRun => recJob[i] = "NONE"
        /\ recJob[i] = "NONE" => deliveries[i] = 0
        /\ i \in requested => /\ recRun[i] # NoRun /\ recRun[i].status = "RUNNING"
                              /\ recJob[i] = "NONE"
        /\ recJob[i] \in {"NONE", "WAITING"} => tries[i] < MaxAttempts

Booked == ReconciliationTypeOK /\ AgentsApart /\ AgentsBooked /\ RunsBooked

BookingInv == AgentsInv /\ Booked

\* The effect of most steps of a run: it goes on, towards its end.
GoesOn(a) ==
    /\ agent[a] # AgentIdle /\ agent[a].pc # "answer"
    /\ agent'[a] # AgentIdle /\ agent'[a].pc # "answer"
    /\ agent'[a].run = agent[a].run /\ agent'[a].try = agent[a].try
    /\ IsFiniteSet(agent[a].found) => IsFiniteSet(agent'[a].found)
    /\ \A b \in Agents \ {a} : agent'[b] = agent[b]
    /\ UNCHANGED <<requested, recJob, tries, deliveries, overtaken, items, admin>>

\* What is found of finitely many transactions is finite.
LEMMA FindingsFinite ==
    ASSUME NEW S \in SUBSET Txns, NEW code
    PROVE  IsFiniteSet({Finding(code, t) : t \in S})
<1> DEFINE T == {Finding(code, t) : t \in S}
           f == [t \in S |-> Finding(code, t)]
<1>1. IsFiniteSet(S)
  BY FS_Subset, ReconciliationAssumption DEF ReconciliationAssumption
<1>2. f \in Surjection(S, T)
  BY DEF Surjection
<1>3. QED
  BY <1>1, <1>2, FS_Surjection

\* A finding more keeps them finite.
LEMMA CompareGoesOn ==
    ASSUME AgentsBacked, NEW a \in Agents, agent[a] # AgentIdle,
           agent[a].pc \in {"syncing", "applying"}, NEW pc \in {"payouts", "refunds"},
           NEW code, NEW synced, Compared(a, pc, code, synced),
           UNCHANGED <<requested, recJob, tries, deliveryVars, items, admin>>
    PROVE  GoesOn(a)
<1> DEFINE found == IF agent[a].now.status # synced
                    THEN agent[a].found \cup {Finding(code, agent[a].now.about)}
                    ELSE agent[a].found
           x == [agent[a] EXCEPT !.pc = pc, !.now = NoCopy, !.found = found]
<1>1. agent[a] \in Working
  BY DEF AgentsBacked, Working
<1>2. IsFiniteSet(agent[a].found) => IsFiniteSet(found)
  BY FS_AddElement
<1> HIDE DEF found
<1>3. /\ x # AgentIdle /\ x.pc = pc /\ x.run = agent[a].run /\ x.try = agent[a].try
      /\ x.found = found
  BY <1>1, AgentRecords DEF AgentIdle, Reading
<1>4. agent' = [agent EXCEPT ![a] = x]
  BY DEF Compared, found
<1> HIDE DEF x
<1>5. QED
  BY <1>2, <1>3, <1>4 DEF GoesOn, AgentsBacked, deliveryVars

\* The steps that only go on.
LEMMA RunGoesOn ==
    ASSUME AgentsBacked, NEW a \in Agents,
           \/ StartRun(a) \/ ComparePayments(a) \/ ListPayouts(a) \/ ListRefunds(a)
           \/ \E c \in TodoOf(a) : \/ ReportPayout(a, c) \/ AskProvider(a, c)
                                   \/ AskGateway(a, c) \/ GatewayUnaware(a, c)
           \/ SyncPayout(a) \/ SyncRefund(a) \/ UpdateThrows(a) \/ ReadFails(a)
    PROVE  GoesOn(a)
<1> USE DEF AgentAt, AgentOnly, runVars
<1>1. agent[a] \in Working
  BY DEF AgentsBacked, Working, StartRun, ComparePayments, ListPayouts, ListRefunds,
         ReportPayout, AskProvider, AskGateway, GatewayUnaware, SyncPayout, SyncRefund,
         UpdateThrows, ReadFails
<1>2. ASSUME NEW x, x.pc # "answer", x # AgentIdle, agent[a].pc # "answer",
             x.run = agent[a].run, x.try = agent[a].try,
             IsFiniteSet(agent[a].found) => IsFiniteSet(x.found),
             agent' = [agent EXCEPT ![a] = x],
             UNCHANGED <<requested, recJob, tries, deliveryVars, items, admin>>
      PROVE  GoesOn(a)
  BY <1>1, <1>2, AgentRecords DEF GoesOn, AgentsBacked, deliveryVars
<1>3. CASE StartRun(a)
  <2> DEFINE x == [agent[a] EXCEPT !.pc = "payments", !.stuck = Stuck]
  <2>1. /\ x.pc = "payments" /\ x # AgentIdle /\ x.run = agent[a].run /\ x.try = agent[a].try
        /\ x.found = agent[a].found
    BY <1>1, AgentRecords DEF AgentIdle, Reading
  <2>2. agent' = [agent EXCEPT ![a] = x]
    BY <1>3 DEF StartRun
  <2> HIDE DEF x
  <2>3. QED
    BY <1>2, <1>3, <2>1, <2>2 DEF StartRun
<1>4. CASE ComparePayments(a)
  <2>1. PICK listed \in SUBSET Txns :
          agent' = [agent EXCEPT
             ![a].pc = "list payouts",
             ![a].found = IF InScope(a, "PAYMENT")
                          THEN {Finding("PAID_TRANSACTION_MISSING_DOWNSTREAM_ACTION", t) :
                                   t \in {s \in listed : Orphaned(s)}}
                          ELSE @]
    BY <1>4 DEF ComparePayments, PaidTransactions
  <2> DEFINE found == IF InScope(a, "PAYMENT")
                      THEN {Finding("PAID_TRANSACTION_MISSING_DOWNSTREAM_ACTION", t) :
                               t \in {s \in listed : Orphaned(s)}}
                      ELSE agent[a].found
             x == [agent[a] EXCEPT !.pc = "list payouts", !.found = found]
  <2>2. IsFiniteSet(agent[a].found) => IsFiniteSet(found)
    BY FindingsFinite
  <2>3. agent' = [agent EXCEPT ![a] = x]
    BY <2>1
  <2> HIDE DEF found
  <2>4. /\ x.pc = "list payouts" /\ x # AgentIdle /\ x.run = agent[a].run
        /\ x.try = agent[a].try /\ x.found = found
    BY <1>1, AgentRecords DEF AgentIdle, Reading
  <2> HIDE DEF x
  <2>5. QED
    BY <1>2, <1>4, <2>2, <2>3, <2>4 DEF ComparePayments
<1>5. CASE ListPayouts(a)
  <2>1. PICK paid, stuck, todo :
          agent' = [agent EXCEPT ![a].pc = "payouts", ![a].paid = paid, ![a].stuck = stuck,
                                 ![a].todo = todo]
    BY <1>5 DEF ListPayouts
  <2> DEFINE x == [agent[a] EXCEPT !.pc = "payouts", !.paid = paid, !.stuck = stuck, !.todo = todo]
  <2>2. /\ x.pc = "payouts" /\ x # AgentIdle /\ x.run = agent[a].run /\ x.try = agent[a].try
        /\ x.found = agent[a].found
    BY <1>1, AgentRecords DEF AgentIdle, Reading
  <2>3. agent' = [agent EXCEPT ![a] = x]
    BY <2>1
  <2> HIDE DEF x
  <2>4. QED
    BY <1>2, <1>5, <2>2, <2>3 DEF ListPayouts
<1>6. CASE ListRefunds(a)
  <2>1. PICK returned, todo : agent' = [agent EXCEPT ![a].pc = "refunds",
                                          ![a].returned = returned, ![a].todo = todo]
    BY <1>6 DEF ListRefunds
  <2> DEFINE x == [agent[a] EXCEPT !.pc = "refunds", !.returned = returned, !.todo = todo]
  <2>2. /\ x.pc = "refunds" /\ x # AgentIdle /\ x.run = agent[a].run /\ x.try = agent[a].try
        /\ x.found = agent[a].found
    BY <1>1, AgentRecords DEF AgentIdle, Reading
  <2>3. agent' = [agent EXCEPT ![a] = x]
    BY <2>1
  <2> HIDE DEF x
  <2>4. QED
    BY <1>2, <1>6, <2>2, <2>3 DEF ListRefunds
<1>7. ASSUME NEW c \in TodoOf(a), ReportPayout(a, c)
      PROVE  GoesOn(a)
  <2> DEFINE f == Finding(IF c.held THEN "PAYOUT_BLOCKED_BY_REFUND"
                          ELSE "PAYOUT_MISSING_PROVIDER_REFERENCE", c.about)
             x == [agent[a] EXCEPT !.todo = agent[a].todo \ {c},
                                   !.found = agent[a].found \cup {f}]
  <2>1. agent' = [agent EXCEPT ![a] = x]
    BY <1>7 DEF ReportPayout
  <2> HIDE DEF f
  <2>2. IsFiniteSet(agent[a].found) => IsFiniteSet(agent[a].found \cup {f})
    BY FS_AddElement
  <2>3. /\ x.pc = agent[a].pc /\ x # AgentIdle /\ x.run = agent[a].run
        /\ x.try = agent[a].try /\ x.found = agent[a].found \cup {f}
    BY <1>1, AgentRecords DEF AgentIdle, Reading
  <2> HIDE DEF x
  <2>4. QED
    BY <1>2, <1>7, <2>1, <2>2, <2>3 DEF ReportPayout
<1>8. ASSUME NEW c \in TodoOf(a), AskProvider(a, c) \/ AskGateway(a, c)
      PROVE  GoesOn(a)
  <2>1. PICK pc \in {"syncing", "applying"} :
           agent' = [agent EXCEPT ![a].pc = pc, ![a].todo = @ \ {c}, ![a].now = c]
    BY <1>8 DEF AskProvider, AskGateway
  <2> DEFINE x == [agent[a] EXCEPT !.pc = pc, !.todo = agent[a].todo \ {c}, !.now = c]
  <2>2. agent' = [agent EXCEPT ![a] = x]
    BY <2>1
  <2>3. /\ x.pc = pc /\ x # AgentIdle /\ x.run = agent[a].run
        /\ x.try = agent[a].try /\ x.found = agent[a].found
    BY <1>1, AgentRecords DEF AgentIdle, Reading
  <2> HIDE DEF x
  <2>4. QED
    BY <1>2, <1>8, <2>2, <2>3 DEF AskProvider, AskGateway
<1>9. CASE (\E c \in TodoOf(a) : GatewayUnaware(a, c)) \/ ReadFails(a) \/ UpdateThrows(a)
  <2>1. PICK now : agent' = [agent EXCEPT ![a].pc = "fail", ![a].now = now]
    <3>1. CASE UpdateThrows(a)
      BY <3>1 DEF UpdateThrows
    <3>2. CASE (\E c \in TodoOf(a) : GatewayUnaware(a, c)) \/ ReadFails(a)
      <4>1. agent' = [agent EXCEPT ![a].pc = "fail"]
        BY <3>2 DEF GatewayUnaware, ReadFails, Proceed
      <4>2. [agent[a] EXCEPT !.pc = "fail"] = [agent[a] EXCEPT !.pc = "fail", !.now = agent[a].now]
        BY <1>1, AgentRecords
      <4>3. QED
        BY <4>1, <4>2
    <3>3. QED
      BY <1>9, <3>1, <3>2
  <2> DEFINE x == [agent[a] EXCEPT !.pc = "fail", !.now = now]
  <2>2. agent' = [agent EXCEPT ![a] = x]
    BY <2>1
  <2>3. /\ x.pc = "fail" /\ x # AgentIdle /\ x.run = agent[a].run
        /\ x.try = agent[a].try /\ x.found = agent[a].found
    BY <1>1, AgentRecords DEF AgentIdle, Reading
  <2> HIDE DEF x
  <2>4. agent[a].pc # "answer"
    BY <1>9 DEF GatewayUnaware, ReadFails, UpdateThrows, Reading
  <2>5. QED
    BY <1>2, <1>9, <2>2, <2>3, <2>4 DEF GatewayUnaware, ReadFails, UpdateThrows
<1>10. CASE SyncPayout(a) \/ SyncRefund(a)
  <2>1. CASE UNCHANGED agent
    BY <1>1, <1>10, <2>1, AgentRecords DEF SyncPayout, SyncRefund, GoesOn, deliveryVars
  <2>2. CASE ~ UNCHANGED agent
    BY <1>10, <2>2, CompareGoesOn DEF SyncPayout, SyncRefund
  <2>3. QED
    BY <2>1, <2>2
<1>11. QED
  BY <1>3, <1>4, <1>5, <1>6, <1>7, <1>8, <1>9, <1>10

\* The row of a run is read and written as one.
LEMMA RunRows ==
    ASSUME ReconciliationTypeOK, NEW i \in RunIds, recRun[i] # NoRun
    PROVE  /\ recRun[i] \in RunRow
           /\ \A status \in {"RUNNING", "COMPLETED", "FAILED"} :
                 LET row == [recRun[i] EXCEPT !.status = status]
                 IN  /\ row \in RunRow /\ row # NoRun /\ row.status = status
                     /\ row.scopes = recRun[i].scopes
  BY DEF ReconciliationTypeOK, RunRow, NoRun

\* A failure of a run's own stays within its budget.
LEMMA MishapTypes ==
    ASSUME ReconciliationTypeOK, Mishap
    PROVE  mishaps' \in 0 .. MaxMishaps /\ mishaps' >= 1
  BY ReconciliationAssumption DEF ReconciliationAssumption, ReconciliationTypeOK, Mishap

\* A step that goes on, and at most renews the row of its run, keeps the books.
LEMMA GoingBooked ==
    ASSUME AgentsBacked, AgentsBacked', Booked, NEW a \in Agents, GoesOn(a),
           recRun' \in [RunIds -> RunRow \cup {NoRun}],
           \A i \in RunIds : recRun'[i] = NoRun <=> recRun[i] = NoRun,
           \A i \in RunIds \ {agent[a].run} : recRun'[i] = recRun[i],
           mishaps' \in 0 .. MaxMishaps
    PROVE  Booked'
<1>1. agent[a] \in Working /\ agent[a].run \in RunIds
  BY AgentRecords DEF AgentsBacked, Working, GoesOn
<1>2. \A b \in Agents : agent'[b] # AgentIdle =>
         /\ agent[b] # AgentIdle /\ agent'[b].run = agent[b].run /\ agent'[b].try = agent[b].try
         /\ IsFiniteSet(agent[b].found) => IsFiniteSet(agent'[b].found)
  BY DEF GoesOn
<1>3. \A b \in Agents : agent[b] # AgentIdle => agent[b].run \in RunIds
  BY AgentRecords DEF AgentsBacked, Working
<1>4. ReconciliationTypeOK'
  BY DEF Booked, ReconciliationTypeOK, AgentsBacked, GoesOn
<1>5. AgentsApart'
  BY <1>2 DEF Booked, AgentsApart
<1>6. AgentsBooked'
  <2> SUFFICES ASSUME NEW b \in Agents, agent'[b] # AgentIdle
               PROVE  AgentBooked(b)'
    BY DEF AgentsBooked
  <2>1. agent[b].run \in RunIds /\ AgentBooked(b)
    BY <1>2, <1>3 DEF Booked, AgentsBooked
  <2>2. QED
    BY <1>2, <2>1 DEF AgentBooked, GoesOn
<1>7. RunsBooked'
  BY <1>1 DEF Booked, RunsBooked, AgentsBooked, AgentBooked, GoesOn
<1>8. QED
  BY <1>4, <1>5, <1>6, <1>7 DEF Booked

\* The steps that go on.
LEMMA GoingStepBooked ==
    ASSUME AgentsBacked, AgentsBacked', Booked, NEW a \in Agents,
           \/ StartRun(a) \/ ComparePayments(a) \/ ListPayouts(a) \/ ListRefunds(a)
           \/ \E c \in TodoOf(a) : \/ ReportPayout(a, c) \/ AskProvider(a, c)
                                   \/ AskGateway(a, c) \/ GatewayUnaware(a, c)
           \/ SyncPayout(a) \/ SyncRefund(a) \/ UpdateThrows(a) \/ ReadFails(a)
    PROVE  Booked'
<1>1. GoesOn(a)
  BY RunGoesOn
<1>2. agent[a] \in Working /\ agent[a].run \in RunIds
  BY <1>1, AgentRecords DEF AgentsBacked, Working, GoesOn
<1>3. mishaps' \in 0 .. MaxMishaps
  BY MishapTypes DEF Booked, ReconciliationTypeOK, StartRun, ComparePayments, ListPayouts,
     ListRefunds, ReportPayout, AskProvider, AskGateway, GatewayUnaware, SyncPayout, SyncRefund,
     UpdateThrows, ReadFails, AgentOnly
<1>4. CASE UNCHANGED recRun
  BY <1>1, <1>3, <1>4, GoingBooked DEF Booked, ReconciliationTypeOK
<1>5. CASE StartRun(a)
  <2>1. recRun[agent[a].run] # NoRun
    BY <1>1 DEF Booked, AgentsBooked, AgentBooked, GoesOn
  <2> DEFINE row == [recRun[agent[a].run] EXCEPT !.status = "RUNNING"]
  <2>2. row \in RunRow /\ row # NoRun
    BY <1>2, <2>1, RunRows DEF Booked
  <2>3. recRun' = [recRun EXCEPT ![agent[a].run] = row]
    BY <1>5 DEF StartRun
  <2> HIDE DEF row
  <2>4. QED
    BY <1>1, <1>2, <1>3, <2>1, <2>2, <2>3, GoingBooked DEF Booked, ReconciliationTypeOK
<1>6. QED
  BY <1>4, <1>5 DEF ComparePayments, ListPayouts, ListRefunds, ReportPayout, AskProvider,
     AskGateway, GatewayUnaware, SyncPayout, SyncRefund, UpdateThrows, ReadFails, AgentOnly, runVars

\* A run begins with a delivery nobody else has.
LEMMA BeginningBooked ==
    ASSUME AgentsBacked, AgentsBacked', Booked, NEW a \in Agents, NEW i \in RunIds,
           BeginRun(a, i) \/ ScheduledRun(a, i)
    PROVE  Booked'
<1> DEFINE try == IF BeginRun(a, i) THEN deliveries[i] + 1 ELSE 0
           x == Begun(i, try)
<1>0. /\ deliveries \in [RunIds -> 0 .. MaxDeliveries] /\ deliveries[i] \in Nat
      /\ MaxDeliveries \in Nat
  BY ReconciliationAssumption DEF Booked, ReconciliationTypeOK, ReconciliationAssumption
<1>1. \A b \in Agents : agent[b] # AgentIdle =>
         /\ agent[b].run \in RunIds /\ agent[b].try \in Nat
         /\ AgentBooked(b)
  BY AgentRecords, <1>0 DEF AgentsBacked, Working, Booked, AgentsBooked
<1>2. x.run = i /\ x.try = try /\ x.pc = "start" /\ x.found = {} /\ x # AgentIdle
  BY DEF Begun, AgentIdle
<1>3. agent'[a] = x /\ agent[a] = AgentIdle /\ \A b \in Agents \ {a} : agent'[b] = agent[b]
  <2>1. CASE BeginRun(a, i)
    BY <2>1 DEF BeginRun, AgentsBacked
  <2>2. CASE ~ BeginRun(a, i)
    BY <2>2 DEF ScheduledRun, AgentsBacked
  <2>3. QED
    BY <2>1, <2>2
<1> HIDE DEF x
<1>4. /\ UNCHANGED <<requested, recJob, tries, items, admin, mishaps>>
      /\ recRun' \in [RunIds -> RunRow \cup {NoRun}]
      /\ \A k \in RunIds : k # i => recRun'[k] = recRun[k]
      /\ recRun[i] # NoRun => recRun'[i] = recRun[i]
      /\ recRun'[i] # NoRun /\ i \notin requested
  <2>1. CASE BeginRun(a, i)
    BY <2>1 DEF BeginRun, Booked, RunsBooked, ReconciliationTypeOK
  <2>2. CASE ScheduledRun(a, i)
    <3>1. NewRun(Scopes) \in RunRow /\ NewRun(Scopes) # NoRun
      BY DEF NewRun, RunRow, NoRun
    <3>2. QED
      BY <2>2, <3>1 DEF ScheduledRun, Booked, RunsBooked, ReconciliationTypeOK
  <2>3. QED
    BY <2>1, <2>2
<1>5. /\ deliveries' \in [RunIds -> 0 .. MaxDeliveries] /\ deliveries'[i] = try
      /\ \A k \in RunIds \ {i} : deliveries'[k] = deliveries[k]
      /\ overtaken \subseteq overtaken' /\ overtaken' \subseteq overtaken \cup {i}
      /\ \A b \in Agents : agent[b] # AgentIdle /\ agent[b].run = i => i \in overtaken'
      /\ \A b \in Agents : agent[b] # AgentIdle /\ agent[b].run = i => agent[b].try < try
      /\ recJob[i] = IF try = 0 THEN "NONE" ELSE "WAITING"
  <2>1. CASE BeginRun(a, i)
    <3>1. deliveries' = [deliveries EXCEPT ![i] = try] /\ try \in 0 .. MaxDeliveries /\ try # 0
      BY <1>0, <2>1 DEF BeginRun
    <3>2. overtaken' = IF UnderWay(i) THEN overtaken \cup {i} ELSE overtaken
      BY <2>1 DEF BeginRun
    <3>3. \A b \in Agents : agent[b] # AgentIdle /\ agent[b].run = i => agent[b].try < try
      BY <1>0, <1>1, <2>1 DEF AgentBooked
    <3>4. QED
      BY <1>0, <2>1, <3>1, <3>2, <3>3 DEF BeginRun, UnderWay
  <2>2. CASE ~ BeginRun(a, i)
    <3>1. recRun[i] = NoRun /\ recJob[i] = "NONE" /\ deliveries[i] = 0
      BY <2>2 DEF ScheduledRun, Booked, RunsBooked
    <3>2. UNCHANGED <<deliveries, overtaken>>
      BY <2>2 DEF ScheduledRun, deliveryVars
    <3>3. \A b \in Agents : agent[b] # AgentIdle => agent[b].run # i
      BY <1>1, <3>1 DEF AgentBooked
    <3>4. QED
      BY <1>0, <2>2, <3>1, <3>2, <3>3
  <2>3. QED
    BY <2>1, <2>2
<1>6. try \in Nat
  BY <1>0
<1> HIDE DEF try
<1>7. ReconciliationTypeOK'
  BY <1>4, <1>5 DEF Booked, ReconciliationTypeOK, AgentsBacked
<1>8. AgentsApart'
  BY <1>1, <1>2, <1>3, <1>5, <1>6 DEF Booked, AgentsApart
<1>9. AgentsBooked'
  <2> SUFFICES ASSUME NEW b \in Agents, agent'[b] # AgentIdle
               PROVE  AgentBooked(b)'
    BY DEF AgentsBooked
  <2>1. CASE b = a
    <3>1. IsFiniteSet({})
      BY FS_EmptySet
    <3>2. agent'[b].run = i /\ agent'[b].try = try /\ agent'[b].found = {}
      BY <1>2, <1>3, <2>1
    <3>3. recRun'[i] # NoRun /\ i \notin requested' /\ recJob' = recJob /\ deliveries'[i] = try
      BY <1>4, <1>5
    <3>4. try <= try /\ recJob[i] = IF try = 0 THEN "NONE" ELSE "WAITING"
      BY <1>5, <1>6
    <3>5. QED
      BY <3>1, <3>2, <3>3, <3>4 DEF AgentBooked
  <2>2. CASE b # a
    <3>1. agent'[b] = agent[b] /\ AgentBooked(b) /\ agent[b].run \in RunIds /\ agent[b].try \in Nat
      BY <1>1, <1>3, <2>2
    <3>2. CASE agent[b].run = i
      BY <1>4, <1>5, <1>6, <3>1, <3>2 DEF AgentBooked
    <3>3. CASE agent[b].run # i
      BY <1>4, <1>5, <3>1, <3>3 DEF AgentBooked
    <3>4. QED
      BY <3>2, <3>3
  <2>3. QED
    BY <2>1, <2>2
<1>10. RunsBooked'
  BY <1>4, <1>5 DEF Booked, RunsBooked
<1>11. QED
  BY <1>7, <1>8, <1>9, <1>10 DEF Booked

\* The block at the end of a run.
LEMMA FinishBooked ==
    ASSUME AgentsBacked, AgentsBacked', Booked, NEW a \in Agents, FinishRun(a)
    PROVE  /\ Booked'
           /\ Recorded(a) \subseteq Item
           /\ agent[a].run \in RunIds /\ recRun[agent[a].run] # NoRun
           /\ recRun'[agent[a].run].status = "COMPLETED"
           /\ recRun'[agent[a].run].mismatches = Cardinality(agent[a].found)
           /\ IsFiniteSet(agent[a].found)
           /\ \A k \in RunIds \ {agent[a].run} : recRun'[k] = recRun[k]
           /\ \A b \in Agents \ {a} : agent'[b] = agent[b]
           /\ agent'[a] # AgentIdle /\ agent'[a].pc = "answer" /\ agent'[a].run = agent[a].run
           /\ agent'[a].try = agent[a].try
<1> DEFINE i == agent[a].run
           n == Cardinality(agent[a].found)
           x == [agent[a] EXCEPT !.pc = "answer"]
           row == [recRun[i] EXCEPT !.status = "COMPLETED", !.mismatches = n]
<1>1. agent[a] \in Working /\ i \in RunIds
  BY AgentRecords DEF AgentsBacked, Working, FinishRun, AgentAt
<1>2. recRun[i] # NoRun /\ IsFiniteSet(agent[a].found) /\ i \notin requested
  BY <1>1 DEF Booked, AgentsBooked, AgentBooked, Working
<1>3. n \in Nat
  BY <1>2, FS_CardinalityType
<1> HIDE DEF n
<1>4. row \in RunRow /\ row # NoRun /\ row.status = "COMPLETED" /\ row.mismatches = n
  <2>1. recRun[i] \in RunRow
    BY <1>1, <1>2, RunRows DEF Booked
  <2>2. QED
    BY <1>3, <2>1 DEF RunRow, NoRun
<1>5. recRun' = [recRun EXCEPT ![i] = row]
  BY DEF FinishRun, n
<1>6. x # AgentIdle /\ x.pc = "answer" /\ x.run = i /\ x.try = agent[a].try /\ x.found = agent[a].found
  BY <1>1, AgentRecords DEF AgentIdle
<1>7. agent' = [agent EXCEPT ![a] = x]
  BY DEF FinishRun, Proceed
<1> HIDE DEF row, x
<1>8. recRun' \in [RunIds -> RunRow \cup {NoRun}] /\ recRun'[i] = row
      /\ \A k \in RunIds \ {i} : recRun'[k] = recRun[k]
  BY <1>1, <1>4, <1>5 DEF Booked, ReconciliationTypeOK
<1>9. agent'[a] = x /\ \A b \in Agents \ {a} : agent'[b] = agent[b]
  BY <1>7 DEF AgentsBacked
<1>10. Recorded(a) \subseteq Item
  <2>1. agent[a].found \subseteq Findings /\ agent[a].try \in 0 .. MaxDeliveries
    BY <1>1, AgentRecords
  <2>2. agent[a].try \in Nat
    BY <2>1, ReconciliationAssumption DEF ReconciliationAssumption
  <2>3. QED
    BY <1>1, <2>1, <2>2 DEF Recorded, Item
<1>11. ReconciliationTypeOK'
  BY <1>8, <1>10 DEF FinishRun, Booked, ReconciliationTypeOK, AgentsBacked, deliveryVars
<1>12. AgentsApart'
  BY <1>1, <1>6, <1>9 DEF Booked, AgentsApart, Working
<1>13. AgentsBooked'
  <2> SUFFICES ASSUME NEW b \in Agents, agent'[b] # AgentIdle
               PROVE  AgentBooked(b)'
    BY DEF AgentsBooked
  <2>1. /\ agent[b] # AgentIdle /\ agent'[b].run = agent[b].run /\ agent'[b].try = agent[b].try
        /\ agent'[b].found = agent[b].found
    BY <1>1, <1>6, <1>9 DEF Working
  <2>2. UNCHANGED <<requested, recJob, deliveries, overtaken>>
    BY DEF FinishRun, deliveryVars
  <2>3. AgentBooked(b) /\ agent[b].run \in RunIds
    BY <2>1, AgentRecords DEF Booked, AgentsBooked, AgentsBacked, Working
  <2>4. QED
    BY <1>4, <1>8, <2>1, <2>2, <2>3 DEF AgentBooked
<1>14. RunsBooked'
  BY <1>1, <1>2, <1>4, <1>8 DEF FinishRun, Booked, RunsBooked, deliveryVars
<1>15. QED
  BY <1>1, <1>2, <1>4, <1>6, <1>8, <1>9, <1>10, <1>11, <1>12, <1>13, <1>14 DEF Booked, n

\* A run leaves its agent: its row keeps what it says or says FAILED, its job is
\* left waiting, or is over.
LEMMA LeavingBooked ==
    ASSUME AgentsBacked, AgentsBacked', Booked, NEW a \in Agents,
           FailRun(a) \/ AnswerRun(a) \/ LeaveRun(a) \/ CrashAgent(a)
    PROVE  Booked'
<1> DEFINE i == agent[a].run
<1>1. agent[a] \in Working /\ i \in RunIds
  BY AgentRecords DEF AgentsBacked, Working, FailRun, AnswerRun, LeaveRun, CrashAgent, AgentAt
<1>2. recRun[i] # NoRun /\ i \notin requested /\ AgentBooked(a)
  BY <1>1 DEF Booked, AgentsBooked, AgentBooked, Working
<1>3. /\ agent' = [agent EXCEPT ![a] = AgentIdle]
      /\ UNCHANGED <<requested, deliveries, overtaken, items, admin>>
  BY DEF FailRun, AnswerRun, LeaveRun, CrashAgent, Retry, runVars, deliveryVars
<1>4. agent'[a] = AgentIdle /\ \A b \in Agents \ {a} : agent'[b] = agent[b]
  BY <1>3 DEF AgentsBacked
<1>5. \A b \in Agents \ {a} : agent[b] # AgentIdle =>
         /\ agent[b].run \in RunIds /\ AgentBooked(b)
         /\ agent[b].run = i => agent[b].try # agent[a].try
  BY <1>1, AgentRecords DEF Booked, AgentsApart, AgentsBooked, AgentsBacked, Working
<1>6. /\ recRun' \in [RunIds -> RunRow \cup {NoRun}] /\ recRun'[i] # NoRun
      /\ \A k \in RunIds \ {i} : recRun'[k] = recRun[k]
  <2>1. CASE FailRun(a)
    <3> DEFINE row == [recRun[i] EXCEPT !.status = "FAILED"]
    <3>1. row \in RunRow /\ row # NoRun
      BY <1>1, <1>2, RunRows DEF Booked
    <3>2. recRun' = [recRun EXCEPT ![i] = row]
      BY <2>1 DEF FailRun, StatusOnError
    <3> HIDE DEF row
    <3>3. QED
      BY <1>1, <3>1, <3>2 DEF Booked, ReconciliationTypeOK
  <2>2. CASE UNCHANGED recRun
    BY <1>1, <1>2, <2>2 DEF Booked, ReconciliationTypeOK
  <2>3. QED
    BY <2>1, <2>2 DEF AnswerRun, LeaveRun, CrashAgent, runVars
<1>7. /\ tries' \in [RunIds -> 0 .. MaxAttempts]
      /\ recJob' \in [RunIds -> JobStates \cup {"DEAD"}]
      /\ \A k \in RunIds \ {i} : recJob'[k] = recJob[k] /\ tries'[k] = tries[k]
      /\ recJob'[i] \in {"NONE", "WAITING"} => tries'[i] < MaxAttempts
      /\ HoldsJob(a) \/ recJob'[i] = recJob[i]
      /\ HoldsJob(a) => recJob'[i] # "NONE"
  <2>1. /\ tries \in [RunIds -> 0 .. MaxAttempts] /\ recJob \in [RunIds -> JobStates \cup {"DEAD"}]
        /\ MaxAttempts \in Nat
    BY ReconciliationAssumption DEF Booked, ReconciliationTypeOK, ReconciliationAssumption
  <2>2. recJob[i] \in {"NONE", "WAITING"} => tries[i] < MaxAttempts
    BY <1>1 DEF Booked, RunsBooked
  <2>3. HoldsJob(a) => recJob[i] = "WAITING"
    BY <1>2 DEF HoldsJob, AgentBooked
  <2>4. CASE Retry(a) /\ HoldsJob(a)
    BY <1>1, <2>1, <2>2, <2>3, <2>4 DEF Retry
  <2>5. CASE UNCHANGED <<tries, recJob>>
    BY <2>1, <2>2, <2>3, <2>5
  <2>6. CASE AnswerRun(a) /\ HoldsJob(a)
    BY <1>1, <2>1, <2>6 DEF AnswerRun, JobStates
  <2>7. QED
    BY <2>4, <2>5, <2>6 DEF FailRun, AnswerRun, LeaveRun, CrashAgent, Retry, runVars
<1>8. mishaps' \in 0 .. MaxMishaps
  BY MishapTypes DEF Booked, ReconciliationTypeOK, FailRun, AnswerRun, LeaveRun, CrashAgent
<1>9. ReconciliationTypeOK'
  BY <1>3, <1>6, <1>7, <1>8 DEF Booked, ReconciliationTypeOK, AgentsBacked
<1>10. AgentsApart'
  BY <1>4 DEF Booked, AgentsApart
<1>11. AgentsBooked'
  <2> SUFFICES ASSUME NEW b \in Agents, agent'[b] # AgentIdle
               PROVE  AgentBooked(b)'
    BY DEF AgentsBooked
  <2>1. /\ b # a /\ agent'[b] = agent[b] /\ agent[b].run \in RunIds /\ AgentBooked(b)
        /\ agent[b].run = i => agent[b].try # agent[a].try
    BY <1>4, <1>5
  <2>2. recRun'[agent[b].run] # NoRun
    BY <1>6, <2>1 DEF AgentBooked
  <2>3. agent[b].run = i /\ HoldsJob(a) => agent[b].try # 0 /\ agent[b].try # deliveries[i]
    BY <1>2, <2>1 DEF AgentBooked, HoldsJob
  <2>4. QED
    BY <1>3, <1>7, <2>1, <2>2, <2>3 DEF AgentBooked
<1>12. RunsBooked'
  BY <1>2, <1>3, <1>6, <1>7 DEF Booked, RunsBooked
<1>13. QED
  BY <1>9, <1>10, <1>11, <1>12 DEF Booked

\* What the administrators, and those who ask for runs, do.
LEMMA AskingBooked ==
    ASSUME AgentsBacked, AgentsBacked', Booked,
           \/ \E i \in RunIds, scopes \in ScopeChoices : RequestRun(i, scopes)
           \/ \E i \in RunIds : EnqueueRun(i) \/ LoseRequest(i)
           \/ \E m \in Admins : (\E x \in items : BeginResolve(m, x)) \/ WriteResolve(m)
    PROVE  Booked'
<1> USE DEF Booked
<1>0. \A b \in Agents : agent[b] # AgentIdle => agent[b].run \in RunIds
  BY AgentRecords DEF AgentsBacked, Working
<1>1. ASSUME NEW i \in RunIds, NEW scopes \in ScopeChoices, RequestRun(i, scopes)
      PROVE  Booked'
  <2>1. NewRun(scopes) \in RunRow /\ NewRun(scopes) # NoRun /\ NewRun(scopes).status = "RUNNING"
    BY ReconciliationAssumption DEF ReconciliationAssumption, NewRun, RunRow, NoRun
  <2>2. /\ recRun' \in [RunIds -> RunRow \cup {NoRun}] /\ recRun'[i] = NewRun(scopes)
        /\ \A k \in RunIds \ {i} : recRun'[k] = recRun[k]
    BY <1>1, <2>1 DEF RequestRun, ReconciliationTypeOK
  <2>3. \A b \in Agents : agent[b] # AgentIdle => agent[b].run \in RunIds \ {i}
    BY <1>0, <1>1 DEF RequestRun, AgentsBooked, AgentBooked
  <2>4. recJob[i] = "NONE"
    BY <1>1 DEF RequestRun, RunsBooked
  <2>5. ReconciliationTypeOK' /\ AgentsApart'
    BY <1>1, <2>2 DEF RequestRun, ReconciliationTypeOK, AgentsApart, deliveryVars
  <2>6. AgentsBooked' /\ RunsBooked'
    BY <1>1, <2>1, <2>2, <2>3, <2>4 DEF RequestRun, AgentsBooked, AgentBooked, RunsBooked, deliveryVars
  <2>7. QED
    BY <2>5, <2>6
<1>2. ASSUME NEW i \in RunIds, EnqueueRun(i)
      PROVE  Booked'
  <2>1. recJob[i] = "NONE" /\ recRun[i] # NoRun /\ tries[i] < MaxAttempts
    BY <1>2 DEF EnqueueRun, RunsBooked
  <2>2. /\ recJob' \in [RunIds -> JobStates \cup {"DEAD"}] /\ recJob'[i] = "WAITING"
        /\ \A k \in RunIds \ {i} : recJob'[k] = recJob[k]
    BY <1>2, <2>1 DEF EnqueueRun, ReconciliationTypeOK, AddJob, JobStates
  <2>3. \A b \in Agents : agent[b] # AgentIdle => agent[b].run \in RunIds \ {i}
    BY <1>0, <1>2 DEF EnqueueRun, AgentsBooked, AgentBooked
  <2>4. ReconciliationTypeOK' /\ AgentsApart'
    BY <1>2, <2>2 DEF EnqueueRun, ReconciliationTypeOK, AgentsApart, deliveryVars
  <2>5. AgentsBooked' /\ RunsBooked'
    BY <1>2, <2>1, <2>2, <2>3 DEF EnqueueRun, AgentsBooked, AgentBooked, RunsBooked, deliveryVars
  <2>6. QED
    BY <2>4, <2>5
<1>3. ASSUME NEW i \in RunIds, LoseRequest(i)
      PROVE  Booked'
  BY <1>3, MishapTypes
     DEF LoseRequest, ReconciliationTypeOK, AgentsApart, AgentsBooked, AgentBooked, RunsBooked,
         deliveryVars
<1>4. CASE \E m \in Admins : (\E x \in items : BeginResolve(m, x)) \/ WriteResolve(m)
  <2>1. PICK m \in Admins : (\E x \in items : BeginResolve(m, x)) \/ WriteResolve(m)
    BY <1>4
  <2>2. \A x \in items : [x EXCEPT !.resolvedBy = m] \in Item
    BY DEF ReconciliationTypeOK, Item
  <2>3. items' \subseteq Item /\ admin' \in [Admins -> Item \cup {NoItem}]
    BY <2>1, <2>2 DEF BeginResolve, WriteResolve, ReconciliationTypeOK
  <2>4. UNCHANGED <<recRun, requested, recJob, tries, deliveries, overtaken, agent, mishaps>>
    BY <2>1 DEF BeginResolve, WriteResolve, deliveryVars
  <2>5. QED
    BY <2>3, <2>4 DEF ReconciliationTypeOK, AgentsApart, AgentsBooked, AgentBooked, RunsBooked
<1>5. QED
  BY <1>1, <1>2, <1>3, <1>4

\* Every step keeps the books of the runs.
LEMMA NextBooked ==
    BookingInv /\ [ReconciliationNext]_<<vars, reconciliationVars>> => BookingInv'
<1> SUFFICES ASSUME BookingInv, [ReconciliationNext]_<<vars, reconciliationVars>>
             PROVE  BookingInv'
  OBVIOUS
<1> USE DEF BookingInv, AgentsInv
<1>1. AgentsInv'
  BY NextAgents
<1>2. CASE UNCHANGED reconciliationVars
  <2>1. UNCHANGED <<recRun, requested, recJob, tries, deliveries, overtaken, items, agent, admin,
                   mishaps>>
    BY <1>2 DEF reconciliationVars, deliveryVars
  <2>2. ReconciliationTypeOK' /\ AgentsApart'
    BY <2>1 DEF Booked, ReconciliationTypeOK, AgentsApart
  <2>3. AgentsBooked'
    BY <2>1 DEF Booked, AgentsBooked, AgentBooked
  <2>4. RunsBooked'
    BY <2>1 DEF Booked, RunsBooked
  <2>5. QED
    BY <1>1, <2>2, <2>3, <2>4 DEF Booked
<1>3. ASSUME NEW a \in Agents, AgentStep(a)
      PROVE  Booked'
  <2>1. CASE \E i \in RunIds : BeginRun(a, i) \/ ScheduledRun(a, i)
    BY <1>1, <2>1, BeginningBooked
  <2>2. CASE \/ StartRun(a) \/ ComparePayments(a) \/ ListPayouts(a) \/ ListRefunds(a)
             \/ \E c \in TodoOf(a) : \/ ReportPayout(a, c) \/ AskProvider(a, c)
                                     \/ AskGateway(a, c) \/ GatewayUnaware(a, c)
             \/ SyncPayout(a) \/ SyncRefund(a) \/ UpdateThrows(a) \/ ReadFails(a)
    BY <1>1, <2>2, GoingStepBooked
  <2>3. CASE FinishRun(a)
    BY <1>1, <2>3, FinishBooked
  <2>4. CASE FailRun(a) \/ AnswerRun(a) \/ LeaveRun(a) \/ CrashAgent(a)
    BY <1>1, <2>4, LeavingBooked
  <2>5. QED
    BY <1>3, <2>1, <2>2, <2>3, <2>4 DEF AgentStep
<1>4. CASE \/ \E i \in RunIds, scopes \in ScopeChoices : RequestRun(i, scopes)
           \/ \E i \in RunIds : EnqueueRun(i) \/ LoseRequest(i)
           \/ \E m \in Admins : (\E x \in items : BeginResolve(m, x)) \/ WriteResolve(m)
  BY <1>1, <1>4, AskingBooked
<1>5. QED
  BY <1>1, <1>2, <1>3, <1>4 DEF ReconciliationNext, OthersStep

LEMMA InitBooked == Init /\ ReconciliationInit => BookingInv
<1> SUFFICES ASSUME Init, ReconciliationInit PROVE BookingInv
  OBVIOUS
<1>1. AgentsInv
  BY InitAgents
<1>2. ReconciliationTypeOK
  BY <1>1, ReconciliationAssumption
     DEF ReconciliationInit, ReconciliationTypeOK, JobStates, AgentsInv, AgentsBacked,
         ReconciliationAssumption
<1>3. AgentsApart /\ AgentsBooked /\ RunsBooked
  BY ReconciliationAssumption
     DEF ReconciliationInit, AgentsApart, AgentsBooked, AgentBooked, RunsBooked, ReconciliationAssumption
<1>4. QED
  BY <1>1, <1>2, <1>3 DEF BookingInv, Booked

\* The books of the runs are in order in every state: whoever is at a run has a
\* delivery of its own, the last of them finds the job waiting, and an attempt is
\* left to every job that waits (executeRun, the reconciliation worker).
THEOREM RunsInOrder == ReconciliationSpec => []BookingInv
  BY InitBooked, NextBooked, PTL DEF ReconciliationSpec

\* Every variable of reconciliation keeps its type.
THEOREM ReconciliationTypesKept == ReconciliationSpec => []ReconciliationTypeOK
<1>1. BookingInv => ReconciliationTypeOK
  BY DEF BookingInv, Booked
<1>2. QED
  BY <1>1, RunsInOrder, PTL

-----------------------------------------------------------------------------
(***************************************************************************)
(* Runs are not left RUNNING.                                              *)
(***************************************************************************)
\* What goes wrong in the settlement is counted, and stays counted.
LEMMA FaultsGrow ==
    ASSUME TypeOK, [Next]_vars
    PROVE  faults' \in Nat /\ faults \in Nat /\ faults' >= faults
<1>1. UNCHANGED faults \/ Fault
  <2>1. CASE CaptureStep
    BY <2>1 DEF CaptureStep, CaptureNext, GatewayDecides, ReceiveNotice, ForgetHookJob,
       SkipProcessedEvent, CrashHook, HookStep, BeginHook, AcknowledgeEvent,
       CapturePayment, EnqueuePayout, FailPayment, RejectHook, FailHook, storeVars
  <2>2. CASE PayoutStep
    <3>1. ASSUME NEW w \in Workers, NEW t \in Txns, RunStep(w, t)
          PROVE  UNCHANGED faults \/ Fault
      BY <3>1 DEF RunStep, BeginPayout, LockFindsRefund, LockStops, LockGoesOn, FindAttempt,
           SubmitPayout, SubmitRejected, Throw, CallAnswered, CallAnswerLost, CallRefused,
           RecordAnswer, RecordFails, GiveUp, BeginSync, QueryProvider, BeginNotice,
           ReadPayout, WriteUpdate, UpdateRejected, MarkNotice, MarkPayoutFailed, storeVars
    <3>2. QED
      BY <2>2, <3>1 DEF PayoutStep, PayoutNext, CrashRun, SkipPaidPayout, ForgetPayoutJob,
           TransferMoves, StartWorker, ResumePayouts, ForgetResumeJob, storeVars
  <2>3. CASE RefundStep
    BY <2>3 DEF RefundStep, RefundNext, ClerkStep, CrashClerk, RefundMoves, BeginRefund,
       InsertRefund, RefuseRefund, RequestAnswered, RequestAnswerLost, RequestRefused,
       RejectRefund, BeginRefundSync, BeginRefundNotice, ReadRefund, WriteRefund,
       RefundRejected, storeVars
  <2>4. CASE DisputeStep
    BY <2>4 DEF DisputeStep, DisputeNext, CrashOperator, OperatorStep, BeginDispute,
       InsertDispute, MoveToDisputed, BeginEdit, WriteEdit, storeVars
  <2>5. CASE UNCHANGED vars
    BY <2>5 DEF vars, storeVars
  <2>6. QED
    BY <2>1, <2>2, <2>3, <2>4, <2>5 DEF Next
<1>2. faults \in Nat
  BY StoreAssumption DEF StoreAssumption, TypeOK, StoreTypeOK
<1>3. QED
  BY <1>1, <1>2 DEF Fault

\* So is what goes wrong in reconciliation itself.
LEMMA MishapsGrow ==
    ASSUME ReconciliationTypeOK, [ReconciliationNext]_<<vars, reconciliationVars>>
    PROVE  mishaps' \in Nat /\ mishaps \in Nat /\ mishaps' >= mishaps
<1>1. UNCHANGED mishaps \/ Mishap
  <2>1. ASSUME NEW a \in Agents, AgentStep(a)
        PROVE  UNCHANGED mishaps \/ Mishap
    BY <2>1 DEF AgentStep, AgentOnly, BeginRun, ScheduledRun, StartRun, ComparePayments,
       ListPayouts, ListRefunds, ReportPayout, AskProvider, AskGateway, GatewayUnaware,
       SyncPayout, SyncRefund, UpdateThrows, ReadFails, FinishRun, FailRun, AnswerRun,
       LeaveRun, CrashAgent
  <2>2. QED
    BY <2>1 DEF ReconciliationNext, OthersStep, RequestRun, EnqueueRun, LoseRequest,
       BeginResolve, WriteResolve, reconciliationVars
<1>2. mishaps \in Nat
  BY ReconciliationAssumption DEF ReconciliationAssumption, ReconciliationTypeOK
<1>3. QED
  BY <1>1, <1>2 DEF Mishap

Running(i) == recRun[i] # NoRun /\ recRun[i].status = "RUNNING"

\* What is needed by induction: while a row says RUNNING, an agent is not yet at
\* the last block of its run, or one will be given the job.
Awaited(i) ==
    \/ i \in requested
    \/ /\ recJob[i] = "WAITING"
       /\ \A a \in Agents : agent[a] # AgentIdle /\ agent[a].run = i => agent[a].pc # "answer"
    \/ \E a \in Agents : /\ agent[a] # AgentIdle /\ agent[a].run = i
                         /\ agent[a].pc # "answer"

WorkedInv == mishaps = 0 /\ faults = 0 => \A i \in RunIds : Running(i) => Awaited(i)

\* A step of an agent in which nothing goes wrong leaves no run behind.
LEMMA AgentAwaited ==
    ASSUME BookingInv, NEW a \in Agents, AgentStep(a), NEW i \in RunIds,
           Running(i) => Awaited(i), mishaps' = 0, mishaps = 0, faults' = 0, faults = 0
    PROVE  Running(i)' => Awaited(i)'
<1> USE DEF BookingInv, AgentsInv
<1>0. ~ Mishap /\ ~ Fault
  BY DEF Mishap, Fault
<1>1. ASSUME NEW k \in RunIds, BeginRun(a, k) \/ ScheduledRun(a, k)
      PROVE  Running(i)' => Awaited(i)'
  <2>1. PICK try : agent' = [agent EXCEPT ![a] = Begun(k, try)]
    BY <1>1 DEF BeginRun, ScheduledRun
  <2>2. /\ Begun(k, try).run = k /\ Begun(k, try) # AgentIdle /\ Begun(k, try).pc = "start"
        /\ agent[a] = AgentIdle
    BY <1>1 DEF Begun, AgentIdle, BeginRun, ScheduledRun
  <2>3. agent'[a] # AgentIdle /\ agent'[a].run = k /\ agent'[a].pc = "start"
        /\ \A b \in Agents \ {a} : agent'[b] = agent[b]
    BY <2>1, <2>2 DEF AgentsBacked
  <2>4. UNCHANGED <<requested, recJob>> /\ (i # k => recRun'[i] = recRun[i])
    BY <1>1 DEF BeginRun, ScheduledRun, Booked, ReconciliationTypeOK
  <2>5. CASE i = k
    BY <2>3, <2>5 DEF Awaited
  <2>6. CASE i # k
    BY <2>2, <2>3, <2>4, <2>6 DEF Running, Awaited
  <2>7. QED
    BY <2>5, <2>6
<1>2. CASE \/ StartRun(a) \/ ComparePayments(a) \/ ListPayouts(a) \/ ListRefunds(a)
           \/ \E c \in TodoOf(a) : \/ ReportPayout(a, c) \/ AskProvider(a, c)
                                   \/ AskGateway(a, c) \/ GatewayUnaware(a, c)
           \/ SyncPayout(a) \/ SyncRefund(a) \/ UpdateThrows(a) \/ ReadFails(a)
  <2>1. GoesOn(a)
    BY <1>2, RunGoesOn
  <2>2. i # agent[a].run => recRun'[i] = recRun[i]
    BY <1>2 DEF StartRun, ComparePayments, ListPayouts, ListRefunds, ReportPayout, AskProvider,
       AskGateway, GatewayUnaware, SyncPayout, SyncRefund, UpdateThrows, ReadFails, AgentOnly,
       runVars, Booked, ReconciliationTypeOK
  <2>3. CASE i = agent[a].run
    BY <2>1, <2>3 DEF GoesOn, Awaited
  <2>4. CASE i # agent[a].run
    <3>1. Awaited(i) => Awaited(i)'
      BY <2>1 DEF GoesOn, Awaited
    <3>2. QED
      BY <2>2, <2>4, <3>1 DEF Running
  <2>5. QED
    BY <2>3, <2>4
<1>3. CASE FinishRun(a)
  <2>1. AgentsBacked'
    BY <1>3, AgentBacked
  <2>2. /\ agent[a].run \in RunIds /\ recRun'[agent[a].run].status = "COMPLETED"
        /\ \A k \in RunIds \ {agent[a].run} : recRun'[k] = recRun[k]
        /\ \A b \in Agents \ {a} : agent'[b] = agent[b]
        /\ agent'[a] # AgentIdle /\ agent'[a].run = agent[a].run
    BY <1>3, <2>1, FinishBooked
  <2>3. UNCHANGED <<requested, recJob>> /\ agent[a] # AgentIdle
    BY <1>3 DEF FinishRun, AgentAt
  <2>4. QED
    BY <2>2, <2>3 DEF Running, Awaited
<1>4. CASE FailRun(a) \/ AnswerRun(a)
  <2>1. agent[a] \in Working /\ agent[a].run \in RunIds /\ agent[a] # AgentIdle
    BY <1>4, AgentRecords DEF AgentsBacked, Working, FailRun, AnswerRun, AgentAt
  <2>2. recRun[agent[a].run] # NoRun /\ recRun[agent[a].run] \in RunRow
        /\ agent[a].run \notin requested
    BY <2>1, RunRows DEF Booked, AgentsBooked, AgentBooked, Working
  <2>3. /\ agent'[a] = AgentIdle /\ \A b \in Agents \ {a} : agent'[b] = agent[b]
        /\ UNCHANGED requested
        /\ i # agent[a].run => recJob'[i] = recJob[i] /\ recRun'[i] = recRun[i]
    BY <1>4, <2>1 DEF FailRun, AnswerRun, Retry, AgentsBacked, Booked, ReconciliationTypeOK
  <2>4. CASE i # agent[a].run
    BY <2>1, <2>3, <2>4 DEF Running, Awaited
  <2>5. CASE FailRun(a) /\ i = agent[a].run
    <3> DEFINE row == [recRun[i] EXCEPT !.status = "FAILED"]
    <3>1. row.status = "FAILED"
      BY <2>2, <2>5 DEF RunRow
    <3>2. recRun' = [recRun EXCEPT ![i] = row]
      BY <2>5 DEF FailRun, StatusOnError
    <3> HIDE DEF row
    <3>3. QED
      BY <2>1, <2>5, <3>1, <3>2 DEF Running, Booked, ReconciliationTypeOK
  \* The row an agent answers from says RUNNING only while another is at it.
  <2>6. CASE AnswerRun(a) /\ i = agent[a].run
    <3>1. agent[a].pc = "answer" /\ UNCHANGED recRun
      BY <2>6 DEF AnswerRun, AgentAt
    <3>2. Running(i) => \E b \in Agents : /\ agent[b] # AgentIdle /\ agent[b].run = i
                                         /\ agent[b].pc # "answer"
      BY <2>1, <2>2, <2>6, <3>1 DEF Awaited
    <3>3. QED
      BY <2>3, <3>1, <3>2 DEF Running, Awaited
  <2>7. QED
    BY <1>4, <2>4, <2>5, <2>6
<1>5. CASE LeaveRun(a) \/ CrashAgent(a)
  BY <1>0, <1>5 DEF LeaveRun, CrashAgent, OnPayout, OnRefund, CrashRun, CrashClerk
<1>6. QED
  BY <1>1, <1>2, <1>3, <1>4, <1>5 DEF AgentStep

LEMMA NextWorked ==
    ASSUME BookingInv, WorkedInv, [ReconciliationNext]_<<vars, reconciliationVars>>
    PROVE  WorkedInv'
<1>1. /\ faults' \in Nat /\ faults \in Nat /\ faults' >= faults
      /\ mishaps' \in Nat /\ mishaps \in Nat /\ mishaps' >= mishaps
  BY NextAgents, FaultsGrow, MishapsGrow
     DEF BookingInv, Booked, AgentsInv, TypeInv
<1> SUFFICES ASSUME NEW i \in RunIds, mishaps' = 0, faults' = 0
             PROVE  Running(i)' => Awaited(i)'
  BY DEF WorkedInv
<1>2. mishaps = 0 /\ faults = 0
  BY <1>1
<1>3. Running(i) => Awaited(i)
  BY <1>2 DEF WorkedInv
<1>4. CASE \E a \in Agents : AgentStep(a)
  BY <1>2, <1>3, <1>4, AgentAwaited
<1>5. ASSUME NEW k \in RunIds, NEW scopes \in ScopeChoices, RequestRun(k, scopes)
      PROVE  Running(i)' => Awaited(i)'
  <2>1. i # k => recRun'[i] = recRun[i]
    BY <1>5 DEF RequestRun, BookingInv, Booked, ReconciliationTypeOK
  <2>2. QED
    BY <1>3, <1>5, <2>1 DEF RequestRun, Running, Awaited
<1>6. ASSUME NEW k \in RunIds, EnqueueRun(k)
      PROVE  Running(i)' => Awaited(i)'
  <2>1. recJob[k] = "NONE" /\ recJob'[k] = "WAITING" /\ (i # k => recJob'[i] = recJob[i])
    BY <1>6 DEF EnqueueRun, AddJob, BookingInv, Booked, RunsBooked, ReconciliationTypeOK
  <2>2. \A b \in Agents : agent[b] # AgentIdle => agent[b].run # k
    BY <1>6 DEF EnqueueRun, BookingInv, Booked, AgentsBooked, AgentBooked
  <2>3. UNCHANGED <<recRun, agent>> /\ (i # k => (i \in requested' <=> i \in requested))
    BY <1>6 DEF EnqueueRun
  <2>4. QED
    BY <1>3, <2>1, <2>2, <2>3 DEF Running, Awaited
<1>7. ASSUME NEW k \in RunIds, LoseRequest(k)
      PROVE  FALSE
  BY <1>2, <1>7 DEF LoseRequest, Mishap
<1>8. CASE UNCHANGED <<recRun, requested, recJob, agent>>
  BY <1>3, <1>8 DEF Running, Awaited
<1>9. QED
  BY <1>4, <1>5, <1>6, <1>7, <1>8 DEF ReconciliationNext, OthersStep, BeginResolve, WriteResolve,
     reconciliationVars

\* No run is left RUNNING with nobody to finish it, however many runs, retries and
\* schedules there are and whichever of two overlapping workers writes last, unless
\* a process has died or a block has failed: the catch clause of executeRun writes
\* FAILED.
THEOREM RunsAreWorked == ReconciliationSpec => []RunningIsWorked
<1>1. Init /\ ReconciliationInit => WorkedInv
  BY DEF ReconciliationInit, WorkedInv, Running
<1>2. BookingInv /\ WorkedInv /\ [ReconciliationNext]_<<vars, reconciliationVars>> => WorkedInv'
  BY NextWorked
<1>3. BookingInv /\ WorkedInv => RunningIsWorked
  <2> SUFFICES ASSUME BookingInv, WorkedInv, NEW i \in RunIds, Running(i),
                      ~ (mishaps + faults > 0)
               PROVE  i \in requested \/ recJob[i] = "WAITING" \/ UnderWay(i)
    BY DEF RunningIsWorked, Running
  <2>1. mishaps \in Nat /\ faults \in Nat
    BY ReconciliationAssumption, StoreAssumption
       DEF ReconciliationAssumption, StoreAssumption, BookingInv, Booked, ReconciliationTypeOK,
           AgentsInv, TypeInv, TypeOK, StoreTypeOK
  <2>2. mishaps = 0 /\ faults = 0
    <3>1. ASSUME NEW p \in Nat, NEW q \in Nat, ~ (p + q > 0) PROVE p = 0 /\ q = 0
      BY <3>1
    <3>2. QED
      BY <2>1, <3>1
  <2>3. QED
    BY <2>2 DEF WorkedInv, Awaited, UnderWay
<1>4. QED
  BY <1>1, <1>2, <1>3, RunsInOrder, PTL DEF ReconciliationSpec

-----------------------------------------------------------------------------
(***************************************************************************)
(* Items are counted.  No two items differ only in who resolved them; an   *)
(* agent that is still at work has recorded nothing yet; what a COMPLETED  *)
(* row counts is one delivery's.  Where no worker has been overtaken, a    *)
(* run that is COMPLETED is not begun again: nobody works on it but an     *)
(* agent that has its answer yet to give, and no job is left for it.       *)
(***************************************************************************)
ItemsBy(i, n) == {x \in ItemsOf(i) : x.try = n}

ItemsApart == IsFiniteSet(items) /\ \A x, y \in items : SameItem(x, y) => x = y

ItemsBooked ==
    \A x \in items :
        /\ recRun[x.run] # NoRun /\ x.try <= deliveries[x.run]
        /\ \A a \in Agents :
              /\ agent[a] # AgentIdle
              /\ agent[a].run = x.run /\ agent[a].try = x.try
              => agent[a].pc = "answer"

CountsOne ==
    \A i \in RunIds : Ended(i) =>
        \E n \in 0 .. deliveries[i] : Cardinality(ItemsBy(i, n)) = recRun[i].mismatches

OnlyAnswered(i) ==
    /\ \A a \in Agents : agent[a] # AgentIdle /\ agent[a].run = i => agent[a].pc = "answer"
    /\ recJob[i] = "WAITING" => UnderWay(i)

CountsAll(i) == Cardinality(ItemsOf(i)) = IF Ended(i) THEN recRun[i].mismatches ELSE 0

CountsAgree ==
    mishaps = 0 =>
        \A i \in RunIds \ overtaken : (Ended(i) => OnlyAnswered(i)) /\ CountsAll(i)

CountInv == ItemsApart /\ ItemsBooked /\ CountsOne /\ CountsAgree

\* A one-to-one correspondence keeps the number.
LEMMA SameCount ==
    ASSUME NEW S, NEW T, IsFiniteSet(S), NEW f \in [S -> T],
           \A x, y \in S : f[x] = f[y] => x = y, \A z \in T : \E x \in S : f[x] = z
    PROVE  IsFiniteSet(T) /\ Cardinality(T) = Cardinality(S)
<1>1. f \in Bijection(S, T)
  BY DEF Bijection, Injection, Surjection, IsInjective
<1>2. QED
  BY <1>1, FS_Bijection DEF ExistsBijection

LEMMA SameItems ==
    ASSUME NEW x \in Item, NEW y \in Item
    PROVE  SameItem(x, y) <=> x.run = y.run /\ x.try = y.try /\ x.finding = y.finding
<1>1. /\ [x EXCEPT !.resolvedBy = Nobody] =
             [run |-> x.run, try |-> x.try, finding |-> x.finding, resolvedBy |-> Nobody]
      /\ [y EXCEPT !.resolvedBy = Nobody] =
             [run |-> y.run, try |-> y.try, finding |-> y.finding, resolvedBy |-> Nobody]
  BY DEF Item
<1>2. QED
  BY <1>1 DEF SameItem

\* What is COMPLETED stays as it is, or is begun again, and nothing becomes so.
KeptOrBegun(i) == Ended(i)' => Ended(i) /\ recRun'[i] = recRun[i]

\* What a step of an agent other than the block at the end of a run leaves behind.
Quiet ==
    /\ UNCHANGED items
    /\ \A i \in RunIds : KeptOrBegun(i) /\ (recRun[i] # NoRun => recRun'[i] # NoRun)
    /\ \A i \in RunIds : deliveries[i] <= deliveries'[i]
    /\ \A a \in Agents : agent'[a] # AgentIdle =>
          \/ /\ agent[a] # AgentIdle
             /\ agent'[a].run = agent[a].run /\ agent'[a].try = agent[a].try
             /\ agent[a].pc = "answer" => agent'[a].pc = "answer"
          \/ \A x \in items : agent'[a].run # x.run \/ x.try < agent'[a].try

\* Such a step keeps what holds of the items whoever has been overtaken.
LEMMA QuietCounted ==
    ASSUME BookingInv, ItemsApart, ItemsBooked, CountsOne, Quiet, DeliveriesCounted'
    PROVE  ItemsApart' /\ ItemsBooked' /\ CountsOne'
<1>1. /\ items \subseteq Item /\ MaxDeliveries \in Nat
      /\ deliveries \in [RunIds -> 0 .. MaxDeliveries]
      /\ deliveries' \in [RunIds -> 0 .. MaxDeliveries]
  BY ReconciliationAssumption
     DEF BookingInv, Booked, ReconciliationTypeOK, ReconciliationAssumption, DeliveriesCounted
<1>2. ItemsApart'
  BY DEF Quiet, ItemsApart, SameItem
<1>3. ItemsBooked'
  <2> SUFFICES ASSUME NEW x \in items
               PROVE  /\ recRun'[x.run] # NoRun /\ x.try <= deliveries'[x.run]
                      /\ \A a \in Agents :
                            /\ agent'[a] # AgentIdle
                            /\ agent'[a].run = x.run /\ agent'[a].try = x.try
                            => agent'[a].pc = "answer"
    BY DEF ItemsBooked, Quiet
  <2>1. x.run \in RunIds /\ x.try \in Nat
    BY <1>1 DEF Item
  <2>2. recRun'[x.run] # NoRun
    BY <2>1 DEF ItemsBooked, Quiet
  <2>3. x.try <= deliveries'[x.run]
    <3>1. x.try <= deliveries[x.run] /\ deliveries[x.run] <= deliveries'[x.run]
      BY <2>1 DEF ItemsBooked, Quiet
    <3>2. deliveries[x.run] \in Nat /\ deliveries'[x.run] \in Nat
      BY <1>1, <2>1
    <3>3. QED
      BY <2>1, <3>1, <3>2
  <2>4. ASSUME NEW a \in Agents, agent'[a] # AgentIdle, agent'[a].run = x.run, agent'[a].try = x.try
        PROVE  agent'[a].pc = "answer"
    <3>1. ~ (x.try < x.try)
      BY <2>1
    <3>2. QED
      BY <2>4, <3>1 DEF Quiet, ItemsBooked
  <2>5. QED
    BY <2>2, <2>3, <2>4
<1>4. CountsOne'
  <2> SUFFICES ASSUME NEW i \in RunIds, Ended(i)'
               PROVE  \E n \in 0 .. deliveries'[i] :
                         Cardinality(ItemsBy(i, n)') = recRun'[i].mismatches
    BY DEF CountsOne
  <2>1. Ended(i) /\ recRun'[i] = recRun[i] /\ deliveries[i] <= deliveries'[i] /\ items' = items
    BY DEF Quiet, KeptOrBegun
  <2>2. PICK n \in 0 .. deliveries[i] : Cardinality(ItemsBy(i, n)) = recRun[i].mismatches
    BY <2>1 DEF CountsOne
  <2>3. n \in 0 .. deliveries'[i]
    <3>1. deliveries[i] \in Nat /\ deliveries'[i] \in Nat
      BY <1>1
    <3>2. QED
      BY <2>1, <2>2, <3>1
  <2>4. ItemsBy(i, n)' = ItemsBy(i, n)
    BY <2>1 DEF ItemsBy, ItemsOf
  <2>5. QED
    BY <2>1, <2>2, <2>3, <2>4
<1>5. QED
  BY <1>2, <1>3, <1>4

\* A step of an agent that is not the block at the end of a run is quiet.
LEMMA AgentQuiet ==
    ASSUME BookingInv, ItemsBooked, NEW a \in Agents, AgentStep(a), ~ FinishRun(a)
    PROVE  Quiet
<1> USE DEF BookingInv, AgentsInv
<1>0. /\ items \subseteq Item /\ MaxDeliveries \in Nat
      /\ deliveries \in [RunIds -> 0 .. MaxDeliveries]
  BY ReconciliationAssumption DEF Booked, ReconciliationTypeOK, ReconciliationAssumption
<1>1. ASSUME NEW k \in RunIds, BeginRun(a, k)
      PROVE  Quiet
  <2> DEFINE y == Begun(k, deliveries[k] + 1)
  <2>1. agent' = [agent EXCEPT ![a] = y] /\ deliveries' = [deliveries EXCEPT ![k] = @ + 1]
    BY <1>1 DEF BeginRun
  <2>2. y.run = k /\ y.try = deliveries[k] + 1 /\ deliveries[k] \in Nat
    BY <1>0 DEF Begun
  <2> HIDE DEF y
  <2>3. /\ agent'[a] = y /\ \A b \in Agents \ {a} : agent'[b] = agent[b]
        /\ \A i \in RunIds : deliveries[i] <= deliveries'[i]
    BY <1>0, <2>1 DEF AgentsBacked
  <2>4. ASSUME NEW x \in items
        PROVE  y.run # x.run \/ x.try < y.try
    <3>1. x.try \in Nat /\ x.try <= deliveries[x.run]
      BY <1>0 DEF Item, ItemsBooked
    <3>2. QED
      BY <2>2, <3>1
  <2>5. UNCHANGED <<recRun, items>>
    BY <1>1 DEF BeginRun
  <2>6. QED
    BY <2>3, <2>4, <2>5 DEF Quiet, KeptOrBegun, Ended
<1>2. ASSUME NEW k \in RunIds, ScheduledRun(a, k)
      PROVE  Quiet
  <2>1. agent' = [agent EXCEPT ![a] = Begun(k, 0)] /\ Begun(k, 0).run = k
    BY <1>2 DEF ScheduledRun, Begun
  <2>2. agent'[a].run = k /\ \A b \in Agents \ {a} : agent'[b] = agent[b]
    BY <2>1 DEF AgentsBacked
  <2>3. /\ recRun[k] = NoRun /\ recRun'[k].status = "RUNNING" /\ recRun'[k] # NoRun
        /\ \A i \in RunIds \ {k} : recRun'[i] = recRun[i]
    BY <1>2 DEF ScheduledRun, NewRun, NoRun, Booked, ReconciliationTypeOK
  <2>4. \A x \in items : x.run # k
    BY <2>3 DEF ItemsBooked
  <2>5. UNCHANGED <<items, deliveries>> /\ \A i \in RunIds : deliveries[i] \in Nat
    BY <1>0, <1>2 DEF ScheduledRun, deliveryVars
  <2>6. \A i \in RunIds : KeptOrBegun(i) /\ (recRun[i] # NoRun => recRun'[i] # NoRun)
    BY <2>3 DEF KeptOrBegun, Ended
  <2>7. \A i \in RunIds : deliveries[i] <= deliveries'[i]
    BY <2>5
  <2>8. QED
    BY <2>2, <2>4, <2>5, <2>6, <2>7 DEF Quiet
<1>3. CASE \/ StartRun(a) \/ ComparePayments(a) \/ ListPayouts(a) \/ ListRefunds(a)
           \/ \E c \in TodoOf(a) : \/ ReportPayout(a, c) \/ AskProvider(a, c)
                                   \/ AskGateway(a, c) \/ GatewayUnaware(a, c)
           \/ SyncPayout(a) \/ SyncRefund(a) \/ UpdateThrows(a) \/ ReadFails(a)
  <2>1. GoesOn(a)
    BY <1>3, RunGoesOn
  <2>2. agent[a] \in Working /\ agent[a].run \in RunIds
    BY <2>1, AgentRecords DEF GoesOn, AgentsBacked, Working
  <2>3. \A i \in RunIds : KeptOrBegun(i) /\ (recRun[i] # NoRun => recRun'[i] # NoRun)
    <3>1. CASE StartRun(a)
      <4> DEFINE row == [recRun[agent[a].run] EXCEPT !.status = "RUNNING"]
      <4>1. row # NoRun /\ row.status = "RUNNING"
        BY <2>1, <2>2, RunRows DEF Booked, AgentsBooked, AgentBooked, GoesOn
      <4>2. recRun' = [recRun EXCEPT ![agent[a].run] = row]
        BY <3>1 DEF StartRun
      <4> HIDE DEF row
      <4>3. recRun'[agent[a].run] = row /\ \A i \in RunIds \ {agent[a].run} : recRun'[i] = recRun[i]
        BY <2>2, <4>2 DEF Booked, ReconciliationTypeOK
      <4>4. QED
        BY <4>1, <4>3 DEF KeptOrBegun, Ended
    <3>2. CASE UNCHANGED recRun
      BY <3>2 DEF KeptOrBegun, Ended
    <3>3. QED
      BY <1>3, <3>1, <3>2 DEF ComparePayments, ListPayouts, ListRefunds, ReportPayout, AskProvider,
         AskGateway, GatewayUnaware, SyncPayout, SyncRefund, UpdateThrows, ReadFails, AgentOnly,
         runVars
  <2>4. \A i \in RunIds : deliveries[i] <= deliveries'[i]
    BY <1>0, <2>1 DEF GoesOn
  <2>5. QED
    BY <2>1, <2>3, <2>4 DEF Quiet, GoesOn
<1>4. CASE FailRun(a) \/ AnswerRun(a) \/ LeaveRun(a) \/ CrashAgent(a)
  <2>1. agent[a] \in Working /\ agent[a].run \in RunIds
    BY <1>4, AgentRecords DEF AgentsBacked, Working, FailRun, AnswerRun, LeaveRun, CrashAgent, AgentAt
  <2>2. /\ agent'[a] = AgentIdle /\ \A b \in Agents \ {a} : agent'[b] = agent[b]
        /\ UNCHANGED <<items, deliveries>>
    BY <1>4, <2>1 DEF FailRun, AnswerRun, LeaveRun, CrashAgent, Retry, runVars, deliveryVars,
       AgentsBacked
  <2>3. \A i \in RunIds : KeptOrBegun(i) /\ (recRun[i] # NoRun => recRun'[i] # NoRun)
    <3>1. CASE FailRun(a)
      <4> DEFINE row == [recRun[agent[a].run] EXCEPT !.status = "FAILED"]
      <4>1. row # NoRun /\ row.status = "FAILED"
        BY <2>1, RunRows DEF Booked, AgentsBooked, AgentBooked, Working
      <4>2. recRun' = [recRun EXCEPT ![agent[a].run] = row]
        BY <3>1 DEF FailRun, StatusOnError
      <4> HIDE DEF row
      <4>3. recRun'[agent[a].run] = row /\ \A i \in RunIds \ {agent[a].run} : recRun'[i] = recRun[i]
        BY <2>1, <4>2 DEF Booked, ReconciliationTypeOK
      <4>4. QED
        BY <4>1, <4>3 DEF KeptOrBegun, Ended
    <3>2. CASE UNCHANGED recRun
      BY <3>2 DEF KeptOrBegun, Ended
    <3>3. QED
      BY <1>4, <3>1, <3>2 DEF AnswerRun, LeaveRun, CrashAgent, runVars
  <2>4. \A i \in RunIds : deliveries[i] <= deliveries'[i]
    BY <1>0, <2>2
  <2>5. QED
    BY <2>2, <2>3, <2>4 DEF Quiet
<1>5. QED
  BY <1>1, <1>2, <1>3, <1>4 DEF AgentStep

\* An agent is alone at a run whose job was not handed out again under a worker.
LEMMA Alone ==
    ASSUME Booked, NEW i \in RunIds \ overtaken, NEW a \in Agents, NEW b \in Agents,
           agent[a] # AgentIdle, agent[b] # AgentIdle, agent[a].run = i, agent[b].run = i
    PROVE  a = b
  BY DEF Booked, AgentsApart, AgentsBooked, AgentBooked

\* Where nothing goes wrong and no worker is overtaken, such a step does not begin
\* an ended run again.
LEMMA AgentEndsOnce ==
    ASSUME BookingInv, Quiet, NEW a \in Agents, AgentStep(a), ~ FinishRun(a),
           NEW i \in RunIds \ overtaken', i \notin overtaken,
           Ended(i) => OnlyAnswered(i), mishaps' = 0, mishaps = 0
    PROVE  /\ Ended(i)' => OnlyAnswered(i)'
           /\ Ended(i) => Ended(i)'
<1> USE DEF BookingInv, AgentsInv
<1>0. ~ Mishap
  BY DEF Mishap
<1>1. CASE ~ Ended(i)
  BY <1>1 DEF Quiet, KeptOrBegun
<1>2. ASSUME NEW k \in RunIds, BeginRun(a, k) \/ ScheduledRun(a, k), Ended(i)
      PROVE  Ended(i)' /\ OnlyAnswered(i)'
  <2>1. i # k
    <3>1. CASE ScheduledRun(a, k)
      BY <1>2, <3>1 DEF ScheduledRun, Ended
    <3>2. CASE BeginRun(a, k)
      BY <1>2, <3>2 DEF BeginRun, OnlyAnswered
    <3>3. QED
      BY <1>2, <3>1, <3>2
  <2>2. UNCHANGED recJob /\ recRun'[i] = recRun[i]
    BY <1>2, <2>1 DEF BeginRun, ScheduledRun, Booked, ReconciliationTypeOK
  <2>3. PICK try : agent' = [agent EXCEPT ![a] = Begun(k, try)] /\ agent[a] = AgentIdle
    BY <1>2 DEF BeginRun, ScheduledRun
  <2>4. Begun(k, try).run = k
    BY DEF Begun
  <2>5. agent'[a].run = k /\ \A b \in Agents \ {a} : agent'[b] = agent[b]
    BY <2>3, <2>4 DEF AgentsBacked
  <2>6. QED
    BY <1>2, <2>1, <2>2, <2>3, <2>5 DEF Ended, OnlyAnswered, UnderWay
<1>3. ASSUME GoesOn(a), Ended(i),
             \A k \in RunIds \ {agent[a].run} : recRun'[k] = recRun[k]
      PROVE  Ended(i)' /\ OnlyAnswered(i)'
  <2>1. i # agent[a].run
    BY <1>3 DEF GoesOn, OnlyAnswered
  <2>2. QED
    BY <1>3, <2>1 DEF GoesOn, Ended, OnlyAnswered, UnderWay
<1>4. CASE \/ StartRun(a) \/ ComparePayments(a) \/ ListPayouts(a) \/ ListRefunds(a)
           \/ \E c \in TodoOf(a) : \/ ReportPayout(a, c) \/ AskProvider(a, c)
                                   \/ AskGateway(a, c) \/ GatewayUnaware(a, c)
           \/ SyncPayout(a) \/ SyncRefund(a) \/ UpdateThrows(a) \/ ReadFails(a)
  <2>1. \A k \in RunIds \ {agent[a].run} : recRun'[k] = recRun[k]
    BY <1>4 DEF StartRun, ComparePayments, ListPayouts, ListRefunds, ReportPayout, AskProvider,
       AskGateway, GatewayUnaware, SyncPayout, SyncRefund, UpdateThrows, ReadFails, AgentOnly,
       runVars, Booked, ReconciliationTypeOK
  <2>2. QED
    BY <1>1, <1>3, <1>4, <2>1, RunGoesOn
<1>5. ASSUME FailRun(a) \/ AnswerRun(a) \/ CrashAgent(a), Ended(i)
      PROVE  Ended(i)' /\ OnlyAnswered(i)'
  <2>1. /\ agent[a] \in Working /\ agent[a].run \in RunIds /\ agent[a] # AgentIdle
        /\ AgentBooked(a)
    BY <1>5, AgentRecords DEF AgentsBacked, Working, FailRun, AnswerRun, CrashAgent, AgentAt,
       Booked, AgentsBooked
  <2>2. /\ \A b \in Agents \ {a} : agent'[b] = agent[b]
        /\ agent'[a] = AgentIdle
        /\ \A k \in RunIds \ {agent[a].run} : recJob'[k] = recJob[k] /\ recRun'[k] = recRun[k]
    BY <1>5, <2>1 DEF FailRun, AnswerRun, CrashAgent, Retry, runVars, AgentsBacked, Booked,
       ReconciliationTypeOK
  <2>3. CASE i # agent[a].run
    BY <1>5, <2>1, <2>2, <2>3 DEF Ended, OnlyAnswered, UnderWay
  <2>4. CASE i = agent[a].run
    <3>1. agent[a].pc = "answer"
      BY <1>5, <2>1, <2>4 DEF OnlyAnswered
    <3>2. AnswerRun(a)
      BY <1>0, <1>5, <3>1 DEF FailRun, AgentAt, CrashAgent
    <3>3. recJob'[i] # "WAITING"
      <4>1. agent[a].try = deliveries[i] /\ recJob \in [RunIds -> JobStates \cup {"DEAD"}]
        BY <2>1, <2>4 DEF AgentBooked, Booked, ReconciliationTypeOK
      <4>2. CASE agent[a].try = 0
        BY <2>1, <2>4, <3>2, <4>2 DEF AnswerRun, HoldsJob, AgentBooked
      <4>3. CASE agent[a].try # 0
        BY <2>1, <2>4, <3>2, <4>1, <4>3 DEF AnswerRun, HoldsJob
      <4>4. QED
        BY <4>2, <4>3
    <3>4. \A b \in Agents \ {a} : agent[b] # AgentIdle => agent[b].run # i
      BY <2>1, <2>4, Alone
    <3>5. UNCHANGED recRun
      BY <3>2 DEF AnswerRun
    <3>6. QED
      BY <1>5, <2>2, <3>3, <3>4, <3>5 DEF Ended, OnlyAnswered
  <2>5. QED
    BY <2>3, <2>4
<1>6. QED
  BY <1>0, <1>1, <1>2, <1>4, <1>5 DEF AgentStep, LeaveRun

\* Runs that are overtaken stay so.
LEMMA OvertakenGrow ==
    ASSUME [ReconciliationNext]_<<vars, reconciliationVars>>
    PROVE  overtaken \subseteq overtaken'
<1>1. ASSUME NEW a \in Agents, AgentStep(a)
      PROVE  overtaken \subseteq overtaken'
  BY <1>1 DEF AgentStep, BeginRun, ScheduledRun, StartRun, ComparePayments, ListPayouts,
       ListRefunds, ReportPayout, AskProvider, AskGateway, GatewayUnaware, SyncPayout, SyncRefund,
       UpdateThrows, ReadFails, FinishRun, FailRun, AnswerRun, LeaveRun, CrashAgent,
       AgentOnly, runVars, deliveryVars
<1>2. QED
  BY <1>1 DEF ReconciliationNext, OthersStep, RequestRun, EnqueueRun, LoseRequest,
     BeginResolve, WriteResolve, reconciliationVars, deliveryVars

\* The block at the end of a run: its delivery had no item, and has one of each
\* finding.
LEMMA FinishCounted ==
    ASSUME BookingInv, CountInv, NEW a \in Agents, FinishRun(a)
    PROVE  CountInv'
<1> DEFINE i == agent[a].run
           n == agent[a].try
           f == [g \in agent[a].found |-> [run |-> i, try |-> n, finding |-> g,
                                           resolvedBy |-> Nobody]]
<1> USE DEF BookingInv, AgentsInv, CountInv
<1>1. AgentsBacked'
  BY AgentBacked DEF AgentStep
<1>2. /\ Recorded(a) \subseteq Item
      /\ i \in RunIds /\ recRun[i] # NoRun
      /\ recRun'[i].status = "COMPLETED" /\ recRun'[i].mismatches = Cardinality(agent[a].found)
      /\ IsFiniteSet(agent[a].found)
      /\ \A k \in RunIds \ {i} : recRun'[k] = recRun[k]
      /\ \A b \in Agents \ {a} : agent'[b] = agent[b]
      /\ agent'[a] # AgentIdle /\ agent'[a].pc = "answer" /\ agent'[a].run = i /\ agent'[a].try = n
      /\ Booked'
  BY <1>1, FinishBooked
<1>3. UNCHANGED <<recJob, deliveries, overtaken, mishaps>> /\ items' = items \cup Recorded(a)
  BY DEF FinishRun, deliveryVars
<1>4. agent[a] # AgentIdle /\ agent[a].pc = "refunds" /\ AgentBooked(a)
  BY DEF FinishRun, AgentAt, Booked, AgentsBooked
<1>5. /\ items \subseteq Item /\ items' \subseteq Item
      /\ \A z \in Recorded(a) : z.run = i /\ z.try = n
  BY <1>2, <1>3 DEF Booked, ReconciliationTypeOK, Recorded
<1>6. \A x \in items : ~ (x.run = i /\ x.try = n)
  BY <1>4 DEF ItemsBooked
<1>7. IsFiniteSet(Recorded(a)) /\ Cardinality(Recorded(a)) = Cardinality(agent[a].found)
  <2>1. f \in [agent[a].found -> Recorded(a)]
    BY DEF Recorded
  <2>2. \A x, y \in agent[a].found : f[x] = f[y] => x = y
    OBVIOUS
  <2>3. \A z \in Recorded(a) : \E x \in agent[a].found : f[x] = z
    BY DEF Recorded
  <2> HIDE DEF f
  <2>4. QED
    BY <1>2, <2>1, <2>2, <2>3, SameCount
<1> HIDE DEF f
<1>8. ItemsApart'
  <2>1. IsFiniteSet(items')
    BY <1>3, <1>7, FS_Union DEF ItemsApart
  <2>2. ASSUME NEW x \in items', NEW y \in items', SameItem(x, y)
        PROVE  x = y
    <3>1. x.run = y.run /\ x.try = y.try /\ x.finding = y.finding
      BY <1>5, <2>2, SameItems
    <3>2. CASE x \in items /\ y \in items
      BY <2>2, <3>2 DEF ItemsApart
    <3>3. CASE x \in Recorded(a) /\ y \in Recorded(a)
      BY <3>1, <3>3 DEF Recorded
    <3>4. CASE \/ (x \in items /\ y \in Recorded(a)) \/ (x \in Recorded(a) /\ y \in items)
      BY <1>5, <1>6, <3>1, <3>4
    <3>5. QED
      BY <1>3, <3>2, <3>3, <3>4
  <2>3. QED
    BY <2>1, <2>2 DEF ItemsApart, SameItem
<1>9. ItemsBooked'
  <2> SUFFICES ASSUME NEW x \in items'
               PROVE  /\ recRun'[x.run] # NoRun /\ x.try <= deliveries'[x.run]
                      /\ \A b \in Agents :
                            /\ agent'[b] # AgentIdle
                            /\ agent'[b].run = x.run /\ agent'[b].try = x.try
                            => agent'[b].pc = "answer"
    BY DEF ItemsBooked
  <2>1. recRun'[i] # NoRun
    BY <1>2 DEF Booked, AgentsBooked, AgentBooked
  <2>2. CASE x \in items
    <3>1. x.run \in RunIds
      BY <1>5, <2>2 DEF Item
    <3>2. recRun[x.run] # NoRun /\ x.try <= deliveries[x.run]
      BY <2>2 DEF ItemsBooked
    <3>3. recRun'[x.run] # NoRun
      BY <1>2, <2>1, <3>1, <3>2
    <3>4. ASSUME NEW b \in Agents, agent'[b] # AgentIdle, agent'[b].run = x.run,
                 agent'[b].try = x.try
          PROVE  agent'[b].pc = "answer"
      BY <1>2, <2>2, <3>4 DEF ItemsBooked
    <3>5. QED
      BY <1>3, <3>2, <3>3, <3>4
  <2>3. CASE x \in Recorded(a)
    <3>1. x.run = i /\ x.try = n /\ n <= deliveries[i]
      BY <1>4, <1>5, <2>3 DEF AgentBooked
    <3>2. \A b \in Agents : agent'[b] # AgentIdle /\ agent'[b].run = i /\ agent'[b].try = n => b = a
      BY <1>2 DEF Booked, AgentsApart
    <3>3. QED
      BY <1>2, <1>3, <2>1, <3>1, <3>2
  <2>4. QED
    BY <1>3, <2>2, <2>3
<1>10. CountsOne'
  <2> SUFFICES ASSUME NEW k \in RunIds, Ended(k)'
               PROVE  \E d \in 0 .. deliveries'[k] :
                         Cardinality(ItemsBy(k, d)') = recRun'[k].mismatches
    BY DEF CountsOne
  <2>1. CASE k = i
    <3>1. {x \in items' : x.run = i /\ x.try = n} = Recorded(a)
      BY <1>3, <1>5, <1>6
    <3>2. n \in 0 .. deliveries[i]
      <4>1. n \in 0 .. MaxDeliveries /\ MaxDeliveries \in Nat
        BY <1>4, AgentRecords, ReconciliationAssumption
           DEF AgentsBacked, Working, ReconciliationAssumption
      <4>2. deliveries[i] \in Nat
        BY <1>2, <4>1 DEF DeliveriesCounted
      <4>3. QED
        BY <1>4, <4>1, <4>2 DEF AgentBooked
    <3>3. {x \in {y \in items' : y.run = k} : x.try = n} = Recorded(a)
      BY <2>1, <3>1
    <3>4. deliveries'[k] = deliveries[k] /\ recRun'[k].mismatches = Cardinality(Recorded(a))
      BY <1>2, <1>3, <1>7, <2>1
    <3>5. QED
      BY <2>1, <3>2, <3>3, <3>4 DEF ItemsBy, ItemsOf
  <2>2. CASE k # i
    <3>1. Ended(k) /\ recRun'[k] = recRun[k]
      BY <1>2, <2>2 DEF Ended
    <3>2. \A d : ItemsBy(k, d)' = ItemsBy(k, d)
      BY <1>3, <1>5, <2>2 DEF ItemsBy, ItemsOf
    <3>3. QED
      BY <1>3, <3>1, <3>2 DEF CountsOne
  <2>3. QED
    BY <2>1, <2>2
<1>11. CountsAgree'
  <2> SUFFICES ASSUME mishaps = 0, NEW k \in RunIds \ overtaken
               PROVE  (Ended(k)' => OnlyAnswered(k)') /\ CountsAll(k)'
    BY <1>3 DEF CountsAgree
  <2>1. (Ended(k) => OnlyAnswered(k)) /\ CountsAll(k)
    BY DEF CountsAgree
  <2>2. CASE k = i
    <3>1. ~ Ended(i)
      BY <1>4, <2>1, <2>2 DEF OnlyAnswered
    <3>2. IsFiniteSet(ItemsOf(i)) /\ Cardinality(ItemsOf(i)) = 0
      BY <2>1, <2>2, <3>1, FS_Subset DEF CountsAll, ItemsApart, ItemsOf
    <3>3. ItemsOf(i) = {}
      BY <3>2, FS_EmptySet
    <3>4. ItemsOf(k)' = Recorded(a)
      <4>1. \A x \in items : x.run # i
        BY <3>3 DEF ItemsOf
      <4>2. {x \in items' : x.run = i} = Recorded(a)
        BY <1>3, <1>5, <4>1
      <4>3. QED
        BY <2>2, <4>2 DEF ItemsOf
    <3>5. \A b \in Agents : agent'[b] # AgentIdle /\ agent'[b].run = i => b = a
      <4>1. \A b \in Agents : agent'[b] # AgentIdle /\ agent'[b].run = i =>
               agent[b] # AgentIdle /\ agent[b].run = i
        BY <1>2, <1>4
      <4>2. QED
        BY <1>4, <2>2, <4>1, Alone
    <3>6. OnlyAnswered(i)'
      BY <1>2, <3>5 DEF OnlyAnswered, UnderWay
    <3>7. Ended(i)'
      BY <1>2 DEF Ended, Booked, AgentsBooked, AgentBooked
    <3>8. QED
      BY <1>2, <1>7, <2>2, <3>4, <3>6, <3>7 DEF CountsAll
  <2>3. CASE k # i
    <3>1. ItemsOf(k)' = ItemsOf(k) /\ recRun'[k] = recRun[k]
      BY <1>2, <1>3, <1>5, <2>3 DEF ItemsOf
    <3>2. Ended(k)' <=> Ended(k)
      BY <3>1 DEF Ended
    <3>3. OnlyAnswered(k) => OnlyAnswered(k)'
      BY <1>2, <1>3, <1>4, <2>3 DEF OnlyAnswered, UnderWay
    <3>4. QED
      BY <2>1, <3>1, <3>2, <3>3 DEF CountsAll
  <2>4. QED
    BY <2>2, <2>3
<1>12. QED
  BY <1>8, <1>9, <1>10, <1>11

\* An administrator's write changes an item in place.
LEMMA ResolveCounted ==
    ASSUME BookingInv, CountInv, NEW m \in Admins, WriteResolve(m)
    PROVE  CountInv'
<1> DEFINE f == [x \in items |-> IF SameItem(x, admin[m]) THEN [x EXCEPT !.resolvedBy = m] ELSE x]
<1> USE DEF CountInv
<1>1. items \subseteq Item
  BY DEF BookingInv, Booked, ReconciliationTypeOK
<1>2. \A x \in items : /\ f[x] \in Item /\ f[x].run = x.run /\ f[x].try = x.try
                       /\ f[x].finding = x.finding
  BY <1>1 DEF Item
<1>3. /\ items' = {f[x] : x \in items}
      /\ UNCHANGED <<recRun, recJob, deliveries, overtaken, agent, mishaps>>
  BY DEF WriteResolve, deliveryVars
<1> HIDE DEF f
<1>4. \A x, y \in items : SameItem(f[x], f[y]) => x = y
  <2>1. ASSUME NEW x \in items, NEW y \in items, SameItem(f[x], f[y])
        PROVE  x = y
    <3>1. f[x].run = f[y].run /\ f[x].try = f[y].try /\ f[x].finding = f[y].finding
      BY <1>2, <2>1, SameItems
    <3>2. SameItem(x, y)
      BY <1>1, <1>2, <3>1, SameItems
    <3>3. QED
      BY <3>2 DEF ItemsApart
  <2>2. QED
    BY <2>1
<1>5. \A x, y \in items : f[x] = f[y] => x = y
  BY <1>4 DEF SameItem
\* Items that correspond are as many.
<1>6. ASSUME NEW S, NEW T, S \subseteq items, T = {f[x] : x \in S}
      PROVE  Cardinality(T) = Cardinality(S) /\ IsFiniteSet(T)
  <2> DEFINE g == [x \in S |-> f[x]]
  <2>1. IsFiniteSet(S)
    BY <1>6, FS_Subset DEF ItemsApart
  <2>2. g \in [S -> T] /\ \A z \in T : \E x \in S : g[x] = z
    BY <1>6
  <2>3. \A x, y \in S : g[x] = g[y] => x = y
    BY <1>5, <1>6
  <2> HIDE DEF g
  <2>4. QED
    BY <2>1, <2>2, <2>3, SameCount
<1>7. ASSUME NEW i \in RunIds
      PROVE  Cardinality(ItemsOf(i)') = Cardinality(ItemsOf(i))
  <2>1. ItemsOf(i) \subseteq items /\ ItemsOf(i)' = {f[x] : x \in ItemsOf(i)}
    BY <1>2, <1>3 DEF ItemsOf
  <2>2. QED
    BY <1>6, <2>1
<1>8. ASSUME NEW i \in RunIds, NEW n
      PROVE  Cardinality(ItemsBy(i, n)') = Cardinality(ItemsBy(i, n))
  <2>1. ItemsBy(i, n) \subseteq items /\ ItemsBy(i, n)' = {f[x] : x \in ItemsBy(i, n)}
    BY <1>2, <1>3 DEF ItemsBy, ItemsOf
  <2>2. QED
    BY <1>6, <2>1
<1>9. CountsOne' /\ CountsAgree'
  BY <1>3, <1>7, <1>8 DEF CountsOne, CountsAgree, CountsAll, Ended, OnlyAnswered, UnderWay
<1>10. ItemsApart'
  <2>1. \A x, y \in items' : SameItem(x, y) => x = y
    BY <1>3, <1>4
  <2>2. IsFiniteSet(items')
    BY <1>3, <1>6
  <2>3. QED
    BY <2>1, <2>2 DEF ItemsApart, SameItem
<1>11. ItemsBooked'
  BY <1>2, <1>3 DEF ItemsBooked
<1>12. QED
  BY <1>9, <1>10, <1>11

\* A step that leaves the agents and the items alone, and begins no run that ended.
LEMMA OthersCounted ==
    ASSUME BookingInv, CountInv, DeliveriesCounted', mishaps' = 0 => mishaps = 0,
           UNCHANGED <<agent, items, deliveries, overtaken>>,
           \A i \in RunIds : recRun[i] # NoRun => recRun'[i] = recRun[i],
           \A i \in RunIds : Ended(i)' => Ended(i) /\ (recJob'[i] = "WAITING" => recJob[i] = "WAITING")
    PROVE  CountInv'
<1>0. \A i \in RunIds : deliveries[i] \in Nat
  BY ReconciliationAssumption DEF DeliveriesCounted, BookingInv, AgentsInv, ReconciliationAssumption
<1>1. \A i \in RunIds : Ended(i) <=> Ended(i)'
  BY DEF Ended
<1>2. Quiet
  BY <1>0 DEF Quiet, KeptOrBegun, Ended
<1>3. CountsAgree'
  <2> SUFFICES ASSUME mishaps' = 0, NEW i \in RunIds \ overtaken
               PROVE  (Ended(i)' => OnlyAnswered(i)') /\ CountsAll(i)'
    BY DEF CountsAgree
  <2>1. (Ended(i) => OnlyAnswered(i)) /\ CountsAll(i)
    BY DEF CountInv, CountsAgree
  <2>2. Ended(i)' => OnlyAnswered(i)'
    BY <2>1 DEF OnlyAnswered, UnderWay
  <2>3. ItemsOf(i)' = ItemsOf(i) /\ (Ended(i) => recRun'[i] = recRun[i])
    BY DEF ItemsOf, Ended
  <2>4. QED
    BY <1>1, <2>1, <2>2, <2>3 DEF CountsAll
<1>4. QED
  BY <1>2, <1>3, QuietCounted DEF CountInv

LEMMA NextCounted ==
    ASSUME BookingInv, CountInv, [ReconciliationNext]_<<vars, reconciliationVars>>
    PROVE  CountInv'
<1>1. /\ mishaps' = 0 => mishaps = 0
      /\ DeliveriesCounted' /\ overtaken \subseteq overtaken'
  BY MishapsGrow, NextDeliveries, OvertakenGrow DEF BookingInv, Booked, AgentsInv
<1>2. CASE \E a \in Agents : FinishRun(a)
  BY <1>2, FinishCounted
<1>3. ASSUME NEW a \in Agents, AgentStep(a), ~ FinishRun(a)
      PROVE  CountInv'
  <2>1. Quiet
    BY <1>3, AgentQuiet DEF CountInv
  <2>2. CountsAgree'
    <3> SUFFICES ASSUME mishaps' = 0, NEW i \in RunIds \ overtaken'
                 PROVE  (Ended(i)' => OnlyAnswered(i)') /\ CountsAll(i)'
      BY DEF CountsAgree
    <3>1. mishaps = 0 /\ i \notin overtaken
      BY <1>1
    <3>2. (Ended(i) => OnlyAnswered(i)) /\ CountsAll(i)
      BY <3>1 DEF CountInv, CountsAgree
    <3>3. (Ended(i)' => OnlyAnswered(i)') /\ (Ended(i) => Ended(i)')
      BY <1>3, <2>1, <3>1, <3>2, AgentEndsOnce
    <3>4. (Ended(i)' => Ended(i) /\ recRun'[i] = recRun[i]) /\ ItemsOf(i)' = ItemsOf(i)
      BY <2>1 DEF Quiet, KeptOrBegun, ItemsOf
    <3>5. QED
      BY <3>2, <3>3, <3>4 DEF CountsAll
  <2>3. QED
    BY <1>1, <2>1, <2>2, QuietCounted DEF CountInv
<1>4. ASSUME NEW i \in RunIds, NEW scopes \in ScopeChoices, RequestRun(i, scopes)
      PROVE  CountInv'
  <2>1. /\ UNCHANGED <<items, agent, recJob, deliveries, overtaken>>
        /\ \A k \in RunIds \ {i} : recRun'[k] = recRun[k]
    BY <1>4 DEF RequestRun, deliveryVars, BookingInv, Booked, ReconciliationTypeOK
  <2>2. recRun[i] = NoRun /\ recRun'[i].status = "RUNNING"
    BY <1>4 DEF RequestRun, NewRun, BookingInv, Booked, ReconciliationTypeOK
  <2>3. QED
    BY <1>1, <2>1, <2>2, OthersCounted DEF Ended
<1>5. ASSUME NEW i \in RunIds, EnqueueRun(i)
      PROVE  CountInv'
  <2>1. /\ UNCHANGED <<items, agent, recRun, deliveries, overtaken>>
        /\ \A k \in RunIds \ {i} : recJob'[k] = recJob[k]
    BY <1>5 DEF EnqueueRun, deliveryVars, BookingInv, Booked, ReconciliationTypeOK
  <2>2. ~ Ended(i)
    BY <1>5 DEF EnqueueRun, BookingInv, Booked, RunsBooked, Ended
  <2>3. QED
    BY <1>1, <2>1, <2>2, OthersCounted DEF Ended
<1>6. CASE UNCHANGED <<recRun, recJob, items, agent, deliveries, overtaken>>
  BY <1>1, <1>6, OthersCounted DEF Ended
<1>7. CASE \E m \in Admins : WriteResolve(m)
  BY <1>7, ResolveCounted
<1>8. QED
  BY <1>2, <1>3, <1>4, <1>5, <1>6, <1>7 DEF ReconciliationNext, OthersStep, BeginResolve,
     LoseRequest, reconciliationVars, deliveryVars

\* What a completed run counted are the items of one of its deliveries, also when
\* two workers were at it; they are all the items it has, each once, and a run that
\* has not completed has none, unless the read after the last block failed or a
\* worker was overtaken (executeRun).
THEOREM ItemsAreCounted == ReconciliationSpec => []ItemsCounted
<1>1. Init /\ ReconciliationInit => CountInv
  <2> SUFFICES ASSUME ReconciliationInit PROVE CountInv
    OBVIOUS
  <2>1. items = {} /\ \A i \in RunIds : ~ Ended(i) /\ ItemsOf(i) = {}
    BY DEF ReconciliationInit, Ended, ItemsOf
  <2>2. QED
    BY <2>1, FS_EmptySet DEF CountInv, ItemsApart, ItemsBooked, CountsOne, CountsAgree, CountsAll
<1>2. BookingInv /\ CountInv /\ [ReconciliationNext]_<<vars, reconciliationVars>> => CountInv'
  BY NextCounted
<1>3. CountInv => ItemsCounted
  BY DEF CountInv, CountsOne, CountsAgree, CountsAll, ItemsCounted, ItemsBy
<1>4. QED
  BY <1>1, <1>2, <1>3, RunsInOrder, PTL DEF ReconciliationSpec
=============================================================================
