------------------------------- MODULE Refunds -------------------------------
(***************************************************************************)
(* RefundService and the refund at the gateway.  createRefund reads the    *)
(* transaction with its refunds on another connection before it takes the  *)
(* row lock, so the amount it checks against may be stale; the request to  *)
(* the gateway and applyRefundUpdate (the answer, a status sync or a       *)
(* refund webhook) follow as separate steps.                               *)
(***************************************************************************)
EXTENDS TransferStore, FiniteSetsExt

CONSTANTS
    Clerks     \* concurrent runs of the refund handlers

VARIABLES
    reversals,      \* REFUND_SETTLED journals per refund
    gatewayRefund,  \* external: the refund at the gateway
    refundNotices,  \* external: refund webhooks sent, deliverable again and again
    clerk           \* local state of each run

refundVars == <<reversals, gatewayRefund, refundNotices, clerk>>

\* PENDING stands for every word outside the two terminal sets.
GatewayRefundStates == {"PENDING", "SUCCESS", "FAILED"}

ClerkIdle == [pc |-> "idle"]
Request == [pc : {"insert", "call", "reject"}, id : RefundIds, txn : Txns,
            amount : Nat, seenLife : LifeStates,
            seenRefunds : [RefundIds -> RefundRow \cup {NoRefund}]]
Update == [pc : {"read", "write"}, id : RefundIds,
           status : GatewayRefundStates, seenStatus : RefundStates,
           seenPayout : PayoutStates \cup {"NONE"}]

RefundTypeOK ==
    /\ reversals \in [RefundIds -> Nat]
    /\ gatewayRefund \in [RefundIds -> GatewayRefundStates \cup {"NONE"}]
    /\ refundNotices \in [RefundIds -> SUBSET GatewayRefundStates]
    /\ clerk \in [Clerks -> Request \cup Update \cup {ClerkIdle}]

RefundInit ==
    /\ reversals = [r \in RefundIds |-> 0]
    /\ gatewayRefund = [r \in RefundIds |-> "NONE"]
    /\ refundNotices = [r \in RefundIds |-> {}]
    /\ clerk = [c \in Clerks |-> ClerkIdle]

-----------------------------------------------------------------------------
\* RefundService.mapProviderStatus.
MapRefundStatus(s) == IF s = "PENDING" THEN "PROCESSING" ELSE s

\* What the refunds in `rows` take, or may still take, from transaction t.
Committed(rows, t) ==
    LET counted == {r \in RefundIds :
                      /\ rows[r] # NoRefund
                      /\ rows[r].txn = t
                      /\ rows[r].status \in {"PENDING", "PROCESSING", "SUCCESS"}}
        amountOf(r) == rows[r].amount
    IN  MapThenSumSet(amountOf, counted)

Busy(c, pc) == clerk[c] # ClerkIdle /\ clerk[c].pc = pc

EndClerk(c) == clerk' = [clerk EXCEPT ![c] = ClerkIdle]

-----------------------------------------------------------------------------
(***************************************************************************)
(* createRefund.                                                           *)
(***************************************************************************)
BeginRefund(c, r, t, a) ==
    /\ clerk[c] = ClerkIdle
    /\ clerk' = [clerk EXCEPT ![c] =
                    [pc |-> "insert", id |-> r, txn |-> t, amount |-> a,
                     seenLife |-> life[t], seenRefunds |-> refund]]
    /\ UNCHANGED <<storeVars, reversals, gatewayRefund, refundNotices>>

\* A mutant: the lifecycle state is not checked.
RefundableEarly(c) ==
    /\ clerk[c].amount > 0
    /\ clerk[c].amount <= Gross[clerk[c].txn]
                            - Committed(clerk[c].seenRefunds, clerk[c].txn)
    /\ refund[clerk[c].id] = NoRefund

\* The checks run under the row lock but on what was read before it; a refund
\* id that exists violates its unique key.
Refundable(c) ==
    /\ clerk[c].seenLife \in {"COMPLETED", "PAYOUT_SUCCESS"}
    /\ clerk[c].amount > 0
    /\ clerk[c].amount <= Gross[clerk[c].txn]
                            - Committed(clerk[c].seenRefunds, clerk[c].txn)
    /\ refund[clerk[c].id] = NoRefund

InsertRefund(c) ==
    /\ Busy(c, "insert")
    /\ Refundable(c)
    /\ refund' = [refund EXCEPT ![clerk[c].id] =
                     [txn |-> clerk[c].txn, amount |-> clerk[c].amount,
                      status |-> "PENDING"]]
    /\ clerk' = [clerk EXCEPT ![c].pc = "call"]
    /\ UNCHANGED <<life, payoutStatus, payout, ledgerVars, payoutJob, faults,
                   reversals, gatewayRefund, refundNotices>>

RefuseRefund(c) ==
    /\ Busy(c, "insert")
    /\ ~ Refundable(c)
    /\ EndClerk(c)
    /\ UNCHANGED <<storeVars, reversals, gatewayRefund, refundNotices>>

\* External: the gateway takes the refund; the refund id is its idempotency key.
GatewayTakes(r, s) ==
    /\ gatewayRefund[r] = "NONE"
    /\ gatewayRefund' = [gatewayRefund EXCEPT ![r] = s]
    /\ refundNotices' = [refundNotices EXCEPT ![r] = @ \cup {s}]

UpdateRefund(r, s) ==
    [pc |-> "read", id |-> r, status |-> s, seenStatus |-> "PENDING",
     seenPayout |-> "NONE"]

RequestAnswered(c, s) ==
    /\ Busy(c, "call")
    /\ GatewayTakes(clerk[c].id, s)
    /\ clerk' = [clerk EXCEPT ![c] = UpdateRefund(clerk[c].id, s)]
    /\ UNCHANGED <<storeVars, reversals>>

RequestAnswerLost(c, s) ==
    /\ Busy(c, "call")
    /\ Fault
    /\ GatewayTakes(clerk[c].id, s)
    /\ clerk' = [clerk EXCEPT ![c].pc = "reject"]
    /\ UNCHANGED <<life, payoutStatus, payout, ledgerVars, refund, payoutJob,
                   reversals>>

RequestRefused(c) ==
    /\ Busy(c, "call")
    /\ clerk' = [clerk EXCEPT ![c].pc = "reject"]
    /\ UNCHANGED <<storeVars, reversals, gatewayRefund, refundNotices>>

\* The catch clause: FAILED, whatever the row says by now.
RejectRefund(c) ==
    /\ Busy(c, "reject")
    /\ refund' = [refund EXCEPT ![clerk[c].id].status = "FAILED"]
    /\ EndClerk(c)
    /\ UNCHANGED <<life, payoutStatus, payout, ledgerVars, payoutJob, faults,
                   reversals, gatewayRefund, refundNotices>>

-----------------------------------------------------------------------------
(***************************************************************************)
(* syncRefundStatus, the refund webhook, applyRefundUpdate.                *)
(***************************************************************************)
BeginRefundSync(c, r) ==
    /\ clerk[c] = ClerkIdle
    /\ refund[r] # NoRefund
    /\ gatewayRefund[r] # "NONE"
    /\ clerk' = [clerk EXCEPT ![c] = UpdateRefund(r, gatewayRefund[r])]
    /\ UNCHANGED <<storeVars, reversals, gatewayRefund, refundNotices>>

\* No WebhookEvent is kept for refunds.
BeginRefundNotice(c, r, s) ==
    /\ clerk[c] = ClerkIdle
    /\ s \in refundNotices[r]
    /\ clerk' = [clerk EXCEPT ![c] = UpdateRefund(r, s)]
    /\ UNCHANGED <<storeVars, reversals, gatewayRefund, refundNotices>>

ReadRefund(c) ==
    /\ Busy(c, "read")
    /\ clerk' = [clerk EXCEPT
                    ![c].pc = "write",
                    ![c].seenStatus = refund[clerk[c].id].status,
                    ![c].seenPayout = payout[refund[clerk[c].id].txn]]
    /\ UNCHANGED <<storeVars, reversals, gatewayRefund, refundNotices>>

\* A mutant: a refund under way settles.
SettlesRefundEarly(c) == clerk[c].status # "FAILED" /\ clerk[c].seenStatus # "SUCCESS"

SettlesRefund(c) == clerk[c].status = "SUCCESS" /\ clerk[c].seenStatus # "SUCCESS"

\* A payout that was still open when the refund was read is failed with it.
StopsPayout(c) ==
    SettlesRefund(c) /\ clerk[c].seenPayout \notin {"NONE", "SUCCESS", "FAILED"}

WriteRefund(c) ==
    LET r == clerk[c].id
        t == refund[r].txn
    IN
    /\ Busy(c, "write")
    /\ SettlesRefund(c) => CanMove(t, "REFUNDED")
    /\ refund' = [refund EXCEPT ![r].status = MapRefundStatus(clerk[c].status)]
    /\ reversals' = [reversals EXCEPT ![r] = IF SettlesRefund(c) THEN @ + 1 ELSE @]
    /\ payout' = [payout EXCEPT ![t] = IF StopsPayout(c) THEN "FAILED" ELSE @]
    /\ payoutStatus' = [payoutStatus EXCEPT ![t] = IF StopsPayout(c) THEN "FAILED" ELSE @]
    /\ life' = [life EXCEPT ![t] = IF SettlesRefund(c) THEN "REFUNDED" ELSE @]
    /\ EndClerk(c)
    /\ UNCHANGED <<ledgerVars, payoutJob, faults, gatewayRefund, refundNotices>>

RefundRejected(c) ==
    /\ Busy(c, "write")
    /\ SettlesRefund(c)
    /\ ~ CanMove(refund[clerk[c].id].txn, "REFUNDED")
    /\ EndClerk(c)
    /\ UNCHANGED <<storeVars, reversals, gatewayRefund, refundNotices>>

\* The process dies, or a block fails for a reason of its own.
CrashClerk(c) ==
    /\ clerk[c] # ClerkIdle
    /\ Fault
    /\ EndClerk(c)
    /\ UNCHANGED <<life, payoutStatus, payout, ledgerVars, refund, payoutJob,
                   reversals, gatewayRefund, refundNotices>>

\* External: a pending refund is decided.
RefundMoves(r, s) ==
    /\ gatewayRefund[r] = "PENDING"
    /\ s # "PENDING"
    /\ gatewayRefund' = [gatewayRefund EXCEPT ![r] = s]
    /\ refundNotices' = [refundNotices EXCEPT ![r] = @ \cup {s}]
    /\ UNCHANGED <<storeVars, reversals, clerk>>

-----------------------------------------------------------------------------
ClerkStep(c) ==
    \/ \E r \in RefundIds, t \in Txns : \E a \in 1 .. Gross[t] : BeginRefund(c, r, t, a)
    \/ InsertRefund(c) \/ RefuseRefund(c)
    \/ \E s \in GatewayRefundStates : RequestAnswered(c, s) \/ RequestAnswerLost(c, s)
    \/ RequestRefused(c) \/ RejectRefund(c)
    \/ \E r \in RefundIds : BeginRefundSync(c, r)
    \/ \E r \in RefundIds, s \in GatewayRefundStates : BeginRefundNotice(c, r, s)
    \/ ReadRefund(c) \/ WriteRefund(c) \/ RefundRejected(c)

RefundNext ==
    \/ \E c \in Clerks : ClerkStep(c) \/ CrashClerk(c)
    \/ \E r \in RefundIds, s \in GatewayRefundStates : RefundMoves(r, s)
=============================================================================
