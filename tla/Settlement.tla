------------------------------ MODULE Settlement ------------------------------
(***************************************************************************)
(* The running system: webhook workers, payout workers, refund handlers    *)
(* and dispute handlers over one database and one set of queues, one step  *)
(* of one of them at a time.                                               *)
(***************************************************************************)
EXTENDS PaymentCapture, Payouts, Refunds, Disputes

vars == <<storeVars, captureVars, payoutVars, refundVars, disputeVars>>

Init == StoreInit /\ CaptureInit /\ PayoutInit /\ RefundInit /\ DisputeInit

CaptureStep == CaptureNext /\ UNCHANGED <<payoutVars, refundVars, disputeVars>>
PayoutStep  == PayoutNext  /\ UNCHANGED <<captureVars, refundVars, disputeVars>>
RefundStep  == RefundNext  /\ UNCHANGED <<captureVars, payoutVars, disputeVars>>
DisputeStep == DisputeNext /\ UNCHANGED <<captureVars, payoutVars, refundVars>>

Next == CaptureStep \/ PayoutStep \/ RefundStep \/ DisputeStep

Spec == Init /\ [][Next]_vars

-----------------------------------------------------------------------------
(***************************************************************************)
(* Safety.                                                                 *)
(***************************************************************************)
\* Every variable keeps its type; balances in particular stay natural numbers.
TypeOK == StoreTypeOK /\ CaptureTypeOK /\ PayoutTypeOK /\ RefundTypeOK /\ DisputeTypeOK

\* The wallet is debited exactly once by the block that completes a transfer,
\* however many answers, webhooks and syncs report the same success, and never
\* by any other step (finalizeSuccessfulPayout).
DebitedOnCompletion ==
    \A t \in Txns : debits[t] = IF life[t] \in PaidOut THEN 1 ELSE 0

\* A payment is credited in the block that records its capture, and the payout
\* row appears in that same block (processCashfreeWebhook, second block).
CreditedOnCapture ==
    \A t \in Txns :
        /\ life[t] \in Captured <=> credits[t] >= 1
        /\ life[t] \in Captured <=> payout[t] # "NONE"

\* The provider is asked to pay a transfer at most once, however many workers,
\* retries and restarts run processPayout, and only for a captured payment.
OneTransferRequest ==
    \A t \in Txns : requests[t] <= 1 /\ (requests[t] = 1 => credits[t] >= 1)

\* Money leaves the books only for a transfer the provider has paid.
DebitedOnlyIfPaid ==
    \A t \in Txns : debits[t] = 1 => transfer[t] \in {"SUCCESS", "REVERSED"}

\* The payoutStatus column of a transaction agrees with its payout row after
\* every database block, whichever handler wrote them and in whatever order.
ColumnAgrees ==
    \A t \in Txns : payout[t] # "NONE" => payoutStatus[t] = payout[t]

\* PAYOUT_SUBMITTED is posted at most once per transfer, and never for a
\* transfer the provider was not asked for.
SubmittedOnce ==
    \A t \in Txns : submissions[t] <= requests[t]

\* The wallet always covers the debit of a payout in progress, so the check
\* that refuses a negative balance never stops a payout the provider has made.
DebitNeverRefused ==
    \A t \in Txns : life[t] = "PAYOUT_PENDING" => CanDebit(t)

\* A payment is credited once, even when its notification is delivered again
\* or a second notification speaks of the same order.
CreditedOnce ==
    \A t \in Txns : credits[t] <= 1

\* A refund row exists only for a transfer whose payee has been paid: the check
\* of createRefund rests on a stale read, but what it reads never goes back.
RefundAfterPayout ==
    \A r \in RefundIds : refund[r] # NoRefund => debits[refund[r].txn] = 1

\* A refund is reversed in the books only if the gateway has made it, and the
\* transaction is REFUNDED exactly when one of its refunds has been reversed.
ReversedIfRefunded ==
    /\ \A r \in RefundIds : reversals[r] >= 1 => gatewayRefund[r] = "SUCCESS"
    /\ \A t \in Txns :
          life[t] = "REFUNDED" <=> \E r \in RefundsOf(t) : reversals[r] >= 1

\* The gateway never gives back, or owes, more than the payer paid.
RefundWithinGross ==
    \A t \in Txns :
        LET amountOf(r) == refund[r].amount
        IN  MapThenSumSet(amountOf, {r \in RefundsOf(t) :
                                        gatewayRefund[r] \in {"PENDING", "SUCCESS"}})
              <= Gross[t]

\* A transaction is DISPUTED only while a case speaks of it; the case is there
\* first, since createDispute inserts before it moves the transaction.
DisputedHasCase ==
    \A t \in Txns : life[t] = "DISPUTED" =>
        \E d \in Cases : dispute[d] # NoCase /\ dispute[d].txn = t

\* A resolved case is not moved back into review (respondToDispute).
ResolvedStaysResolved ==
    [][\A d \in Cases : dispute[d].status \in TerminalDisputeStatuses
                          => dispute'[d].status \in TerminalDisputeStatuses]_vars

-----------------------------------------------------------------------------
\* The system keeps the promise of a transfer.
Promise == INSTANCE TransferPromise WITH
              stage <- life,
              paidIn <- [t \in Txns |-> credits[t] >= 1],
              paidOut <- debits

KeepsPromise == Promise!Spec

-----------------------------------------------------------------------------
(***************************************************************************)
(* Liveness.  A gateway and a provider repeat a notification until it is   *)
(* taken; a worker goes on with a run it has begun; each queue serves its  *)
(* jobs in turn, so that a job that keeps waiting is begun again and again; *)
(* a worker that starts looks for open payouts.  Nothing is assumed of     *)
(* clients, of the provider's decisions, or of retained jobs being dropped. *)
(***************************************************************************)
OnCapture(A) == A /\ UNCHANGED <<payoutVars, refundVars, disputeVars>>
OnPayout(A)  == A /\ UNCHANGED <<captureVars, refundVars, disputeVars>>

CaptureFairness ==
    \A e \in Events :
        /\ \A s \in PayStates : WF_vars(OnCapture(ReceiveNotice(e, s)))
        /\ WF_vars(OnCapture(SkipProcessedEvent(e)))
        /\ SF_vars(OnCapture(\E w \in HookWorkers : BeginHook(w, e)))
        /\ \A w \in HookWorkers : WF_vars(OnCapture(HookStep(w, e)))

PayoutFairness ==
    /\ \A t \in Txns :
          /\ SF_vars(OnPayout(\E w \in Workers : BeginPayout(w, t)))
          /\ \A s \in TransferStates :
                SF_vars(OnPayout(\E w \in Workers : BeginNotice(w, t, s)))
          /\ \A w \in Workers : WF_vars(OnPayout(RunStep(w, t)))
    /\ WF_vars(OnPayout(StartWorker))
    /\ WF_vars(OnPayout(ResumePayouts))

FairSpec == Spec /\ CaptureFairness /\ PayoutFairness

\* A captured payment does not stay where it is: its payout is begun.
CapturedIsSubmitted ==
    \A t \in Txns : life[t] = "PAYMENT_SUCCESS" ~> life[t] # "PAYMENT_SUCCESS"

\* A transfer the provider has made is settled in the books.
PaidIsCompleted ==
    \A t \in Txns : transfer[t] = "SUCCESS" ~> life[t] \in PaidOut

\* A payment the gateway has taken is credited.
TakenIsCredited ==
    \A e \in Events : gateway[e] = "SUCCESS" ~> credits[OrderOf[e]] >= 1
=============================================================================
