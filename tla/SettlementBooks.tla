--------------------------- MODULE SettlementBooks ---------------------------
(***************************************************************************)
(* The books, for every value of the constants: a payment is credited by   *)
(* the block that captures it, the wallet is debited once and by the block *)
(* that completes the transfer, refunds exist only for transfers that were *)
(* paid out, a disputed transfer has a case, and a wallet covers every     *)
(* debit.  Beside them, what holds as long as two handlers do not meet:    *)
(* one credit for a payment, and a resolved case that stays resolved.      *)
(***************************************************************************)
EXTENDS SettlementTypes

(***************************************************************************)
(* The inductive invariant.  The books agree with the lifecycle; whoever   *)
(* acts on the payout side does so after the capture; a refund that was    *)
(* let in, or that will be let in on what its handler has read, belongs to *)
(* a transfer that was paid out; a disputed transfer has its case.         *)
(***************************************************************************)
StagesReached == \A t \in Txns : life[t] \notin {"INITIATED", "PAYOUT_SUCCESS"}

StoreBooks == StagesReached /\ CreditedOnCapture /\ DebitedOnCompletion

RunsAfterCapture ==
    /\ \A w \in Workers : run[w] # Idle => payout[run[w].txn] # "NONE"
    /\ \A t \in Txns : transfer[t] # "NONE" => payout[t] # "NONE"

RefundsAfterPayout ==
    /\ \A r \in RefundIds : refund[r] # NoRefund => life[refund[r].txn] \in PaidOut
    /\ \A c \in Clerks :
          clerk[c] # ClerkIdle /\ clerk[c].pc = "insert" /\ clerk[c].seenLife \in PaidOut
            => life[clerk[c].txn] \in PaidOut

BooksInv == TypeInv /\ StoreBooks /\ RunsAfterCapture /\ RefundsAfterPayout /\ DisputedHasCase

\* What no step takes back: a payout row, and a transfer's being paid out.
Kept ==
    \A t \in Txns : /\ payout[t] # "NONE" => payout'[t] # "NONE"
                    /\ life[t] \in PaidOut => life'[t] \in PaidOut

\* No step but createDispute's own makes a transfer disputed.
NoneDisputed == \A t \in Txns : life'[t] = "DISPUTED" => life[t] = "DISPUTED"

-----------------------------------------------------------------------------
\* The relation the state service checks, from each state of the model.
LEMMA Transitions ==
    ASSUME NEW from \in LifeStates, NEW to \in LifeStates, TransitionAccepted(from, to)
    PROVE  /\ to = "PAYMENT_SUCCESS" => from \in {"PAYMENT_PENDING", "PAYMENT_SUCCESS"}
           /\ to = "PAYMENT_FAILED" => from \in {"PAYMENT_PENDING", "PAYMENT_FAILED"}
           /\ to = "PAYOUT_PENDING" =>
                 from \in {"PAYMENT_SUCCESS", "PAYOUT_FAILED", "PAYOUT_PENDING"}
           /\ to = "PAYOUT_SUCCESS" => from \in {"PAYOUT_PENDING", "PAYOUT_SUCCESS"}
           /\ to = "REFUNDED" => from \in {"COMPLETED", "REFUNDED"}
           /\ to = "DISPUTED" => from \in {"COMPLETED", "DISPUTED"}
  BY DEF TransitionAccepted, AllowedTransitions

\* markPayoutFailed moves nothing but an open payout.
LEMMA MarkFailedBooks ==
    ASSUME StoreTypeOK, StoreBooks, NEW t \in Txns, payout[t] # "NONE", MarkPayoutFailed(t)
    PROVE  StoreBooks' /\ Kept /\ NoneDisputed
  BY DEF StoreTypeOK, StoreBooks, StagesReached, CreditedOnCapture, DebitedOnCompletion,
         MarkPayoutFailed, Kept, NoneDisputed, Captured, PaidOut, ledgerVars

\* A block that settles debits a transfer that was not paid out yet.
LEMMA SettleBooks ==
    ASSUME StoreTypeOK, StoreBooks, NEW t \in Txns, CanSettle(t), SettlePayout(t),
           NEW m, m # "NONE", payout' = [payout EXCEPT ![t] = m]
    PROVE  StoreBooks' /\ Kept /\ NoneDisputed
<1>1. life[t] = "PAYOUT_PENDING"
  BY Transitions
     DEF CanSettle, CanMove, StoreTypeOK, StoreBooks, StagesReached, LifeStates
<1>2. QED
  BY <1>1 DEF StoreTypeOK, StoreBooks, StagesReached, CreditedOnCapture, DebitedOnCompletion,
         SettlePayout, Debit, Kept, NoneDisputed, Captured, PaidOut

\* A step of the payment side keeps the books.
LEMMA CaptureBooks ==
    ASSUME TypeInv, StoreBooks, CaptureNext
    PROVE  StoreBooks' /\ Kept /\ NoneDisputed
<1> USE DEF TypeInv, TypeOK, storeVars, ledgerVars
<1>1. CASE UNCHANGED <<life, payout, credits, debits>>
  BY <1>1 DEF StoreBooks, StagesReached, CreditedOnCapture, DebitedOnCompletion, Kept, NoneDisputed
<1>2. ASSUME NEW w \in HookWorkers, NEW e \in Events, CapturePayment(w, e)
      PROVE  StoreBooks' /\ Kept /\ NoneDisputed
  <2> DEFINE t == OrderOf[e]
  <2>1. t \in Txns
    BY CaptureAssumption DEF CaptureAssumption
  <2>2. life[t] \in {"PAYMENT_PENDING", "PAYMENT_SUCCESS"}
    BY <1>2, <2>1, Transitions DEF CapturePayment, CanMove, StoreTypeOK, LifeStates
  <2>3. /\ life' = [life EXCEPT ![t] = "PAYMENT_SUCCESS"]
        /\ credits' = [credits EXCEPT ![t] = @ + 1]
        /\ debits' = debits
        /\ payout' = [payout EXCEPT ![t] = PendingPayout(t)]
    BY <1>2 DEF CapturePayment, MoveTo, Credit
  <2>4. PendingPayout(t) # "NONE"
    BY DEF PendingPayout
  <2>5. QED
    BY <2>1, <2>2, <2>3, <2>4
       DEF StoreTypeOK, StoreBooks, StagesReached, CreditedOnCapture, DebitedOnCompletion,
           Kept, NoneDisputed, Captured, PaidOut
<1>3. ASSUME NEW w \in HookWorkers, NEW e \in Events, FailPayment(w, e)
      PROVE  StoreBooks' /\ Kept /\ NoneDisputed
  <2> DEFINE t == OrderOf[e]
  <2>1. t \in Txns
    BY CaptureAssumption DEF CaptureAssumption
  <2>2. life[t] \in {"PAYMENT_PENDING", "PAYMENT_FAILED"}
    BY <1>3, <2>1, Transitions DEF FailPayment, CanMove, StoreTypeOK, LifeStates
  <2>3. /\ life' = [life EXCEPT ![t] = "PAYMENT_FAILED"]
        /\ UNCHANGED <<credits, debits, payout>>
    BY <1>3 DEF FailPayment, MoveTo
  <2>4. QED
    BY <2>1, <2>2, <2>3
       DEF StoreTypeOK, StoreBooks, StagesReached, CreditedOnCapture, DebitedOnCompletion,
           Kept, NoneDisputed, Captured, PaidOut
<1>4. QED
  BY <1>1, <1>2, <1>3 DEF CaptureNext, GatewayDecides, ReceiveNotice, ForgetHookJob,
     SkipProcessedEvent, CrashHook, HookStep, BeginHook, AcknowledgeEvent, EnqueuePayout,
     RejectHook, FailHook

\* A step of the payout side keeps the books: what it does to a transfer it does
\* after the capture.
LEMMA PayoutBooks ==
    ASSUME TypeInv, StoreBooks, RunsAfterCapture, PayoutNext
    PROVE  StoreBooks' /\ Kept /\ NoneDisputed
<1> USE DEF TypeInv, TypeOK, storeVars, ledgerVars
<1>1. CASE UNCHANGED <<life, payout, credits, debits>>
  BY <1>1 DEF StoreBooks, StagesReached, CreditedOnCapture, DebitedOnCompletion, Kept, NoneDisputed
<1>2. ASSUME NEW w \in Workers, NEW t \in Txns, LockFindsRefund(w, t) \/ GiveUp(w, t)
      PROVE  StoreBooks' /\ Kept /\ NoneDisputed
  BY <1>2, MarkFailedBooks DEF LockFindsRefund, GiveUp, At, RunsAfterCapture
<1>3. ASSUME NEW w \in Workers, NEW t \in Txns, SubmitPayout(w, t)
      PROVE  StoreBooks' /\ Kept /\ NoneDisputed
  <2>1. payout[t] # "NONE"
    BY <1>3 DEF SubmitPayout, At, RunsAfterCapture
  <2>2. life' = life \/
          /\ life[t] \in {"PAYMENT_SUCCESS", "PAYOUT_FAILED", "PAYOUT_PENDING"}
          /\ life' = [life EXCEPT ![t] = "PAYOUT_PENDING"]
    BY <1>3, Transitions DEF SubmitPayout, CanSubmit, CanMove, StoreTypeOK, LifeStates
  <2>3. QED
    BY <1>3, <2>1, <2>2
       DEF SubmitPayout, StoreTypeOK, StoreBooks, StagesReached, CreditedOnCapture,
           DebitedOnCompletion, Kept, NoneDisputed, Captured, PaidOut
<1>4. ASSUME NEW w \in Workers, NEW t \in Txns, RecordAnswer(w, t)
      PROVE  StoreBooks' /\ Kept /\ NoneDisputed
  <2> DEFINE m == MapStatus(run[w].status)
  <2>1. payout[t] # "NONE" /\ m # "NONE"
    BY <1>4, RunTypes, MapStatusTypes DEF RecordAnswer, At, RunsAfterCapture, PayoutStates
  <2>2. payout' = [payout EXCEPT ![t] = m]
    BY <1>4 DEF RecordAnswer
  <2>3. CASE m = "SUCCESS"
    BY <1>4, <2>1, <2>2, <2>3, SettleBooks DEF RecordAnswer
  <2>4. CASE m # "SUCCESS"
    BY <1>4, <2>1, <2>2, <2>4
       DEF RecordAnswer, StoreTypeOK, StoreBooks, StagesReached, CreditedOnCapture,
           DebitedOnCompletion, Kept, NoneDisputed
  <2>5. QED
    BY <2>3, <2>4
<1>5. ASSUME NEW w \in Workers, NEW t \in Txns, WriteUpdate(w, t)
      PROVE  StoreBooks' /\ Kept /\ NoneDisputed
  <2> DEFINE m == MapStatus(run[w].status)
  <2>1. payout[t] # "NONE" /\ m # "NONE"
    BY <1>5, RunTypes, MapStatusTypes DEF WriteUpdate, At, RunsAfterCapture, PayoutStates
  <2>2. payout' = [payout EXCEPT ![t] = m]
    BY <1>5 DEF WriteUpdate
  <2>3. CASE Settles(w)
    BY <1>5, <2>1, <2>2, <2>3, SettleBooks DEF WriteUpdate, CanUpdate
  <2>4. CASE ~ Settles(w)
    <3>1. life' = life \/
            /\ life[t] \in {"PAYMENT_SUCCESS", "PAYOUT_FAILED", "PAYOUT_PENDING"}
            /\ life' = [life EXCEPT ![t] = "PAYOUT_PENDING"]
      BY <1>5, <2>4, Transitions DEF WriteUpdate, CanUpdate, CanMove, StoreTypeOK, LifeStates
    <3>2. UNCHANGED <<credits, debits>>
      BY <1>5, <2>4 DEF WriteUpdate
    <3>3. QED
      BY <2>1, <2>2, <3>1, <3>2
         DEF StoreTypeOK, StoreBooks, StagesReached, CreditedOnCapture,
             DebitedOnCompletion, Kept, NoneDisputed, Captured, PaidOut
  <2>5. QED
    BY <2>3, <2>4
<1>6. ASSUME NEW w \in Workers, NEW t \in Txns, RunStep(w, t)
      PROVE  StoreBooks' /\ Kept /\ NoneDisputed
  <2>1. CASE \/ BeginPayout(w, t) \/ LockStops(w, t) \/ LockGoesOn(w, t)
             \/ FindAttempt(w, t) \/ SubmitRejected(w, t)
    BY <1>1, <2>1 DEF BeginPayout, LockStops, LockGoesOn, FindAttempt, SubmitRejected, Throw
  <2>2. CASE \/ \E s \in TransferStates : CallAnswered(w, t, s) \/ CallAnswerLost(w, t, s)
             \/ CallRefused(w, t) \/ RecordFails(w, t)
    BY <1>1, <2>2 DEF CallAnswered, CallAnswerLost, CallRefused, RecordFails
  <2>3. CASE \/ BeginSync(w, t) \/ QueryProvider(w, t) \/ ReadPayout(w, t)
             \/ \E s \in TransferStates : BeginNotice(w, t, s)
             \/ UpdateRejected(w, t) \/ MarkNotice(w, t)
    BY <1>1, <2>3 DEF BeginSync, QueryProvider, ReadPayout, BeginNotice, UpdateRejected,
         Throw, MarkNotice
  <2>4. QED
    BY <1>2, <1>3, <1>4, <1>5, <1>6, <2>1, <2>2, <2>3 DEF RunStep
<1>7. QED
  BY <1>1, <1>6
     DEF PayoutNext, CrashRun, SkipPaidPayout, ForgetPayoutJob, TransferMoves, StartWorker,
         ResumePayouts, ForgetResumeJob

\* A step of the refund side keeps the books: it moves completed transfers only.
LEMMA RefundBooks ==
    ASSUME TypeInv, StoreBooks, RefundNext
    PROVE  StoreBooks' /\ Kept /\ NoneDisputed
<1> USE DEF TypeInv, TypeOK, storeVars, ledgerVars
<1>1. CASE UNCHANGED <<life, payout, credits, debits>>
  BY <1>1 DEF StoreBooks, StagesReached, CreditedOnCapture, DebitedOnCompletion, Kept, NoneDisputed
<1>2. ASSUME NEW c \in Clerks, WriteRefund(c), SettlesRefund(c)
      PROVE  StoreBooks' /\ Kept /\ NoneDisputed
  <2> DEFINE t == refund[clerk[c].id].txn
  <2>1. t \in Txns
    BY <1>2, ClerkRecords DEF WriteRefund, Busy
  <2>2. life[t] \in {"COMPLETED", "REFUNDED"}
    BY <1>2, <2>1, Transitions DEF WriteRefund, CanMove, StoreTypeOK, LifeStates
  <2>3. QED
    BY <1>2, <2>1, <2>2
       DEF WriteRefund, StoreTypeOK, StoreBooks, StagesReached, CreditedOnCapture,
           DebitedOnCompletion, Kept, NoneDisputed, Captured, PaidOut
<1>3. ASSUME NEW c \in Clerks, WriteRefund(c), ~ SettlesRefund(c)
      PROVE  UNCHANGED <<life, payout, credits, debits>>
  <2>1. refund[clerk[c].id].txn \in Txns
    BY <1>3, ClerkRecords DEF WriteRefund, Busy
  <2>2. QED
    BY <1>3, <2>1 DEF WriteRefund, StopsPayout, StoreTypeOK
<1>4. QED
  BY <1>1, <1>2, <1>3
     DEF RefundNext, CrashClerk, RefundMoves, ClerkStep, BeginRefund, InsertRefund,
         RefuseRefund, RequestAnswered, RequestAnswerLost, RequestRefused, RejectRefund,
         BeginRefundSync, BeginRefundNotice, ReadRefund, RefundRejected

\* A step of the dispute side keeps the books, and moves completed transfers only.
LEMMA DisputeBooks ==
    ASSUME TypeInv, StoreBooks, DisputeNext
    PROVE  StoreBooks' /\ Kept
<1> USE DEF TypeInv, TypeOK, storeVars, ledgerVars
<1>1. CASE UNCHANGED <<life, payout, credits, debits>>
  BY <1>1 DEF StoreBooks, StagesReached, CreditedOnCapture, DebitedOnCompletion, Kept
<1>2. ASSUME NEW o \in Operators, MoveToDisputed(o), CanMove(operator[o].txn, "DISPUTED")
      PROVE  StoreBooks' /\ Kept
  <2> DEFINE t == operator[o].txn
  <2>1. t \in Txns
    BY <1>2 DEF MoveToDisputed, Doing, DisputeTypeOK, Opening, Editing
  <2>2. life[t] \in {"COMPLETED", "DISPUTED"}
    BY <1>2, <2>1, Transitions DEF CanMove, StoreTypeOK, LifeStates
  <2>3. QED
    BY <1>2, <2>1, <2>2
       DEF MoveToDisputed, MoveTo, StoreTypeOK, StoreBooks, StagesReached, CreditedOnCapture,
           DebitedOnCompletion, Kept, Captured, PaidOut
<1>3. QED
  BY <1>1, <1>2
     DEF DisputeNext, CrashOperator, OperatorStep, BeginDispute, InsertDispute,
         MoveToDisputed, BeginEdit, WriteEdit

-----------------------------------------------------------------------------
\* A run begins on a payout row that exists, and stays with its transfer.
RunsKept ==
    /\ \A w \in Workers : run'[w] # Idle =>
          \/ payout[run'[w].txn] # "NONE" /\ run'[w].txn \in Txns
          \/ run[w] # Idle /\ run'[w].txn = run[w].txn
    /\ \A t \in Txns : transfer'[t] # "NONE" =>
          transfer[t] # "NONE" \/ \E w \in Workers : run[w] # Idle /\ run[w].txn = t

\* Each step of a run keeps to that.
LEMMA RunStepKeepsRuns ==
    ASSUME TypeInv, RunsAfterCapture, NEW w \in Workers, NEW t \in Txns, RunStep(w, t)
    PROVE  RunsKept
<1> USE DEF TypeInv, TypeOK, RunsKept, At, Idle, storeVars, rowVars, providerVars
<1>1. CASE BeginPayout(w, t)
  BY <1>1 DEF BeginPayout, PayoutTypeOK
<1>2. CASE LockFindsRefund(w, t) \/ LockStops(w, t)
  BY <1>2 DEF LockFindsRefund, LockStops, Finish, PayoutTypeOK
<1>3. CASE LockGoesOn(w, t) \/ FindAttempt(w, t) \/ SubmitPayout(w, t) \/ SubmitRejected(w, t)
  BY <1>3 DEF LockGoesOn, FindAttempt, SubmitPayout, SubmitRejected, Throw, Forget, Told, GoTo,
       PayoutTypeOK, Run
<1>4. CASE \/ \E s \in TransferStates : CallAnswered(w, t, s) \/ CallAnswerLost(w, t, s)
           \/ CallRefused(w, t)
  BY <1>4 DEF CallAnswered, CallAnswerLost, CallRefused, ProviderTakes, Forget, Told, PayoutTypeOK
<1>5. CASE RecordAnswer(w, t) \/ RecordFails(w, t) \/ GiveUp(w, t)
  BY <1>5 DEF RecordAnswer, RecordFails, GiveUp, Finish, Forget, Told, PayoutTypeOK
<1>6. CASE BeginSync(w, t) \/ QueryProvider(w, t)
  BY <1>6 DEF BeginSync, QueryProvider, Finish, Forget, Told, PayoutTypeOK
<1>7. CASE \E s \in TransferStates : BeginNotice(w, t, s)
  <2>1. transfer[t] # "NONE"
    BY <1>7 DEF BeginNotice, AnswersBacked
  <2>2. payout[t] # "NONE"
    BY <2>1 DEF RunsAfterCapture
  <2>3. QED
    BY <1>7, <2>2 DEF BeginNotice, Told, PayoutTypeOK
<1>8. CASE ReadPayout(w, t)
  BY <1>8 DEF ReadPayout, EndUpdate, Finish, Forget, Told, PayoutTypeOK, Run
<1>9. CASE WriteUpdate(w, t) \/ UpdateRejected(w, t) \/ MarkNotice(w, t)
  BY <1>9 DEF WriteUpdate, UpdateRejected, Throw, MarkNotice, EndUpdate, Finish, Forget, Told,
       PayoutTypeOK
<1>10. QED
  BY <1>1, <1>2, <1>3, <1>4, <1>5, <1>6, <1>7, <1>8, <1>9 DEF RunStep

\* So does the whole payout side.
LEMMA PayoutKeepsRuns ==
    ASSUME TypeInv, RunsAfterCapture, PayoutNext
    PROVE  RunsKept
<1>1. CASE \E w \in Workers, t \in Txns : RunStep(w, t)
  BY <1>1, RunStepKeepsRuns
<1>2. CASE \E w \in Workers : CrashRun(w)
  BY <1>2 DEF CrashRun, RunsKept, TypeInv, TypeOK, PayoutTypeOK, providerVars
<1>3. CASE \E t \in Txns, s \in TransferStates : TransferMoves(t, s)
  BY <1>3 DEF TransferMoves, RunsKept, TypeInv, TypeOK, PayoutTypeOK, TransferStates
<1>4. QED
  BY <1>1, <1>2, <1>3
     DEF PayoutNext, SkipPaidPayout, ForgetPayoutJob, StartWorker, ResumePayouts,
         ForgetResumeJob, RunsKept, payoutVars, providerVars

\* Hence the payout side stays after the capture.
LEMMA RunsAfterCaptureKept ==
    ASSUME TypeInv, RunsAfterCapture, RunsKept, Kept
    PROVE  RunsAfterCapture'
  BY RunTypes DEF TypeInv, TypeOK, RunsAfterCapture, RunsKept, Kept

\* The refund side lets in what belongs to a transfer that was paid out: what
\* its stale read saw of the lifecycle is still true.
LEMMA RefundsAfterPayoutKept ==
    ASSUME TypeInv, RefundsAfterPayout, RefundNext, Kept
    PROVE  RefundsAfterPayout'
<1> USE DEF TypeInv, TypeOK, storeVars
<1>1. \A r \in RefundIds : refund[r] # NoRefund => life'[refund[r].txn] \in PaidOut
  <2>1. \A r \in RefundIds : refund[r] # NoRefund => refund[r].txn \in Txns
    BY DEF StoreTypeOK, RefundRow
  <2>2. QED
    BY <2>1 DEF RefundsAfterPayout, Kept
<1>2. \A c \in Clerks :
         clerk[c] # ClerkIdle /\ clerk[c].pc = "insert" /\ clerk[c].seenLife \in PaidOut
           => life'[clerk[c].txn] \in PaidOut
  <2>1. \A c \in Clerks :
           clerk[c] # ClerkIdle /\ clerk[c].pc = "insert" => clerk[c].txn \in Txns
    BY ClerkRecords DEF Request
  <2>2. QED
    BY <2>1 DEF RefundsAfterPayout, Kept
<1>3. ASSUME NEW c \in Clerks, InsertRefund(c)
      PROVE  RefundsAfterPayout'
  <2>1. clerk[c].id \in RefundIds /\ clerk[c] \in Request
    BY <1>3, ClerkRecords DEF InsertRefund, Busy
  <2>2. life'[clerk[c].txn] \in PaidOut
    BY <1>2, <1>3 DEF InsertRefund, Refundable, Busy, PaidOut
  <2>3. QED
    BY <1>1, <1>2, <1>3, <2>1, <2>2
       DEF InsertRefund, RefundsAfterPayout, StoreTypeOK, RefundTypeOK, Request
<1>4. ASSUME NEW c \in Clerks, RejectRefund(c) \/ WriteRefund(c)
      PROVE  RefundsAfterPayout'
  <2> DEFINE r == clerk[c].id
  <2>1. r \in RefundIds /\ refund[r] \in RefundRow /\ refund[r] # NoRefund
    BY <1>4, ClerkRecords DEF RejectRefund, WriteRefund, Busy, RefundsBacked
  <2>2. PICK s : refund' = [refund EXCEPT ![r] = [refund[r] EXCEPT !.status = s]]
    BY <1>4 DEF RejectRefund, WriteRefund
  <2>3. [refund[r] EXCEPT !.status = s].txn = refund[r].txn
    BY <2>1 DEF RefundRow
  <2>4. clerk' = [clerk EXCEPT ![c] = ClerkIdle]
    BY <1>4 DEF RejectRefund, WriteRefund, EndClerk
  <2>5. \A x \in RefundIds : refund'[x] # NoRefund => refund[x] # NoRefund
    BY <2>1, <2>2 DEF StoreTypeOK
  <2>6. \A x \in RefundIds : refund[x] # NoRefund => refund'[x].txn = refund[x].txn
    BY <2>1, <2>2, <2>3 DEF StoreTypeOK
  <2>7. QED
    BY <1>1, <1>2, <2>4, <2>5, <2>6 DEF RefundsAfterPayout, RefundTypeOK
<1>5. CASE UNCHANGED refund /\ \A c \in Clerks :
              clerk'[c] # ClerkIdle /\ clerk'[c].pc = "insert" =>
                 \/ clerk'[c] = clerk[c]
                 \/ clerk'[c].seenLife = life[clerk'[c].txn] /\ clerk'[c].txn \in Txns
  BY <1>1, <1>2, <1>5 DEF RefundsAfterPayout, Kept
<1>6. ASSUME NEW c \in Clerks, ClerkStep(c)
      PROVE  RefundsAfterPayout'
  <2>1. CASE \E r \in RefundIds, t \in Txns : \E a \in 1 .. Gross[t] : BeginRefund(c, r, t, a)
    BY <1>5, <2>1 DEF BeginRefund, RefundTypeOK
  <2>2. CASE RefuseRefund(c) \/ RefundRejected(c)
    BY <1>5, <2>2 DEF RefuseRefund, RefundRejected, EndClerk, RefundTypeOK
  <2>3. CASE \E s \in GatewayRefundStates : RequestAnswered(c, s)
    BY <1>5, <2>3 DEF RequestAnswered, UpdateRefund, RefundTypeOK
  <2>4. CASE \/ \E s \in GatewayRefundStates : RequestAnswerLost(c, s)
             \/ RequestRefused(c)
    BY <1>5, <2>4, ClerkRecords DEF RequestAnswerLost, RequestRefused, Busy, RefundTypeOK, Request
  <2>5. CASE \/ \E r \in RefundIds : BeginRefundSync(c, r)
             \/ \E r \in RefundIds, s \in GatewayRefundStates : BeginRefundNotice(c, r, s)
    BY <1>5, <2>5 DEF BeginRefundSync, BeginRefundNotice, UpdateRefund, RefundTypeOK
  <2>6. CASE ReadRefund(c)
    BY <1>5, <2>6, ClerkRecords DEF ReadRefund, Busy, RefundTypeOK, Update
  <2>7. QED
    BY <1>3, <1>4, <1>6, <2>1, <2>2, <2>3, <2>4, <2>5, <2>6 DEF ClerkStep
<1>7. CASE \E c \in Clerks : CrashClerk(c)
  BY <1>5, <1>7 DEF CrashClerk, EndClerk, RefundTypeOK
<1>8. CASE \E r \in RefundIds, s \in GatewayRefundStates : RefundMoves(r, s)
  BY <1>5, <1>8 DEF RefundMoves
<1>9. QED
  BY <1>6, <1>7, <1>8 DEF RefundNext

\* What the other sides do leaves it as it is.
LEMMA RefundsAfterPayoutUntouched ==
    ASSUME TypeInv, RefundsAfterPayout, Kept, UNCHANGED <<refund, clerk>>
    PROVE  RefundsAfterPayout'
<1>1. \A r \in RefundIds : refund[r] # NoRefund => refund[r].txn \in Txns
  BY DEF TypeInv, TypeOK, StoreTypeOK, RefundRow
<1>2. \A c \in Clerks :
         clerk[c] # ClerkIdle /\ clerk[c].pc = "insert" => clerk[c].txn \in Txns
  BY ClerkRecords DEF TypeInv, TypeOK, Request
<1>3. QED
  BY <1>1, <1>2 DEF RefundsAfterPayout, Kept

\* A case is there before its transaction is moved, and keeps its transaction.
LEMMA DisputesKept ==
    ASSUME TypeInv, DisputedHasCase, DisputeNext
    PROVE  DisputedHasCase'
<1> USE DEF TypeInv, TypeOK, storeVars
<1>1. ASSUME NEW o \in Operators, NEW s, InsertDispute(o, s)
      PROVE  DisputedHasCase'
  <2>1. operator[o] \in Opening
    BY <1>1 DEF InsertDispute, Doing, DisputeTypeOK, Opening, Editing
  <2>2. \A d \in Cases : dispute[d] # NoCase => dispute'[d] = dispute[d]
    BY <1>1, <2>1 DEF InsertDispute, DisputeTypeOK, Opening
  <2>3. QED
    BY <1>1, <2>2 DEF InsertDispute, DisputedHasCase
<1>2. ASSUME NEW o \in Operators, MoveToDisputed(o)
      PROVE  DisputedHasCase'
  <2> DEFINE t == operator[o].txn
             d == operator[o].id
  <2>1. d \in Cases /\ dispute[d] # NoCase /\ dispute[d].txn = t
    BY <1>2 DEF MoveToDisputed, Doing, DisputeTypeOK, CasesBacked, Opening, Editing
  <2>2. life' = life \/ life' = [life EXCEPT ![t] = "DISPUTED"]
    BY <1>2 DEF MoveToDisputed, MoveTo
  <2>3. \A x \in Txns : life'[x] = "DISPUTED" => life[x] = "DISPUTED" \/ x = t
    BY <2>2 DEF StoreTypeOK
  <2>4. UNCHANGED dispute
    BY <1>2 DEF MoveToDisputed
  <2>5. QED
    BY <2>1, <2>3, <2>4 DEF DisputedHasCase
<1>3. ASSUME NEW o \in Operators, NEW s \in OpenStates \cup TerminalDisputeStatuses, WriteEdit(o, s)
      PROVE  DisputedHasCase'
  <2> DEFINE d == operator[o].id
             row == [dispute[d] EXCEPT !.status = s]
  <2>1. d \in Cases /\ dispute[d] # NoCase
    BY <1>3 DEF WriteEdit, Doing, DisputeTypeOK, CasesBacked, Opening, Editing
  <2>2. row # NoCase /\ row.txn = dispute[d].txn
    BY <2>1, CaseRows
  <2>3. dispute' = [dispute EXCEPT ![d] = row] /\ UNCHANGED life
    BY <1>3 DEF WriteEdit
  <2> HIDE DEF row
  <2>4. \A x \in Cases : dispute[x] # NoCase =>
           dispute'[x] # NoCase /\ dispute'[x].txn = dispute[x].txn
    BY <2>1, <2>2, <2>3 DEF DisputeTypeOK
  <2>5. QED
    BY <2>3, <2>4 DEF DisputedHasCase
<1>4. CASE UNCHANGED <<life, dispute>>
  BY <1>4 DEF DisputedHasCase
<1>5. QED
  BY <1>1, <1>2, <1>3, <1>4
     DEF DisputeNext, OperatorStep, CrashOperator, BeginDispute, BeginEdit

-----------------------------------------------------------------------------
\* The system starts with the books in order.
LEMMA InitBooks == Init => BooksInv
<1> SUFFICES ASSUME Init PROVE BooksInv
  OBVIOUS
<1> USE DEF Init, StoreInit
<1>1. TypeInv
  BY InitTypes
<1>2. StoreBooks
  BY DEF StoreBooks, StagesReached, CreditedOnCapture, DebitedOnCompletion, Captured, PaidOut
<1>3. RunsAfterCapture
  BY DEF PayoutInit, RunsAfterCapture
<1>4. RefundsAfterPayout /\ DisputedHasCase
  BY DEF RefundInit, RefundsAfterPayout, DisputedHasCase
<1>5. QED
  BY <1>1, <1>2, <1>3, <1>4 DEF BooksInv

\* Every step keeps them in order, and takes back no payout.
LEMMA NextBooks == BooksInv /\ [Next]_vars => BooksInv' /\ Kept
<1> SUFFICES ASSUME BooksInv, [Next]_vars PROVE BooksInv' /\ Kept
  OBVIOUS
<1>0. TypeInv'
  BY NextTypes DEF BooksInv
<1> USE DEF BooksInv
<1>1. CASE CaptureStep
  <2>1. StoreBooks' /\ Kept /\ NoneDisputed
    BY <1>1, CaptureBooks DEF CaptureStep
  <2>2. UNCHANGED <<run, transfer, refund, clerk, dispute>>
    BY <1>1, RefundsUntouched DEF CaptureStep, payoutVars, refundVars, disputeVars
  <2>3. RunsAfterCapture'
    BY <2>1, <2>2, RunsAfterCaptureKept DEF RunsKept
  <2>4. RefundsAfterPayout'
    BY <2>1, <2>2, RefundsAfterPayoutUntouched
  <2>5. DisputedHasCase'
    BY <2>1, <2>2 DEF DisputedHasCase, NoneDisputed
  <2>6. QED
    BY <1>0, <2>1, <2>3, <2>4, <2>5
<1>2. CASE PayoutStep
  <2>1. StoreBooks' /\ Kept /\ NoneDisputed
    BY <1>2, PayoutBooks DEF PayoutStep
  <2>2. UNCHANGED <<refund, clerk, dispute>>
    BY <1>2, RefundsUntouched DEF PayoutStep, refundVars, disputeVars
  <2>3. RunsAfterCapture'
    BY <1>2, <2>1, PayoutKeepsRuns, RunsAfterCaptureKept DEF PayoutStep
  <2>4. RefundsAfterPayout'
    BY <2>1, <2>2, RefundsAfterPayoutUntouched
  <2>5. DisputedHasCase'
    BY <2>1, <2>2 DEF DisputedHasCase, NoneDisputed
  <2>6. QED
    BY <1>0, <2>1, <2>3, <2>4, <2>5
<1>3. CASE RefundStep
  <2>1. StoreBooks' /\ Kept /\ NoneDisputed
    BY <1>3, RefundBooks DEF RefundStep
  <2>2. UNCHANGED <<run, transfer, dispute>>
    BY <1>3 DEF RefundStep, payoutVars, disputeVars
  <2>3. RunsAfterCapture'
    BY <2>1, <2>2, RunsAfterCaptureKept DEF RunsKept
  <2>4. RefundsAfterPayout'
    BY <1>3, <2>1, RefundsAfterPayoutKept DEF RefundStep
  <2>5. DisputedHasCase'
    BY <2>1, <2>2 DEF DisputedHasCase, NoneDisputed
  <2>6. QED
    BY <1>0, <2>1, <2>3, <2>4, <2>5
<1>4. CASE DisputeStep
  <2>1. StoreBooks' /\ Kept
    BY <1>4, DisputeBooks DEF DisputeStep
  <2>2. UNCHANGED <<run, transfer, refund, clerk>>
    BY <1>4, RefundsUntouched DEF DisputeStep, payoutVars, refundVars
  <2>3. RunsAfterCapture'
    BY <2>1, <2>2, RunsAfterCaptureKept DEF RunsKept
  <2>4. RefundsAfterPayout'
    BY <2>1, <2>2, RefundsAfterPayoutUntouched
  <2>5. DisputedHasCase'
    BY <1>4, DisputesKept DEF DisputeStep
  <2>6. QED
    BY <1>0, <2>1, <2>3, <2>4, <2>5
<1>5. CASE UNCHANGED vars
  <2>1. UNCHANGED <<life, payout, credits, debits, run, transfer, refund, clerk, dispute>>
    BY <1>5 DEF vars, storeVars, ledgerVars, payoutVars, refundVars, disputeVars
  <2>2. QED
    BY <1>0, <2>1 DEF StoreBooks, StagesReached, CreditedOnCapture, DebitedOnCompletion, Kept,
       RunsAfterCapture, RefundsAfterPayout, DisputedHasCase
<1>6. QED
  BY <1>1, <1>2, <1>3, <1>4, <1>5 DEF Next

\* The books agree with the lifecycle in every state the system reaches.
THEOREM BooksInOrder == Spec => []BooksInv
<1>1. BooksInv /\ [Next]_vars => BooksInv'
  BY NextBooks
<1>2. QED
  BY InitBooks, <1>1, PTL DEF Spec

\* A transfer is credited, and has a payout row, exactly when its payment is
\* captured (processCashfreeWebhook).
THEOREM CreditsAgree == Spec => []CreditedOnCapture
<1>1. BooksInv => CreditedOnCapture
  BY DEF BooksInv, StoreBooks
<1>2. QED
  BY <1>1, BooksInOrder, PTL

\* A transfer is debited once, exactly when it has been paid out, however many
\* jobs, syncs and webhooks report it (finalizeSuccessfulPayout).
THEOREM DebitsAgree == Spec => []DebitedOnCompletion
<1>1. BooksInv => DebitedOnCompletion
  BY DEF BooksInv, StoreBooks
<1>2. QED
  BY <1>1, BooksInOrder, PTL

\* A refund exists only for a transfer whose payee was paid, although createRefund
\* checks that on a read made before its lock.
THEOREM RefundsFollowPayout == Spec => []RefundAfterPayout
<1>1. BooksInv => RefundAfterPayout
  <2> SUFFICES ASSUME BooksInv, NEW r \in RefundIds, refund[r] # NoRefund
               PROVE  debits[refund[r].txn] = 1
    BY DEF RefundAfterPayout
  <2>1. refund[r].txn \in Txns
    BY DEF BooksInv, TypeInv, TypeOK, StoreTypeOK, RefundRow
  <2>2. life[refund[r].txn] \in PaidOut
    BY DEF BooksInv, RefundsAfterPayout
  <2>3. QED
    BY <2>1, <2>2 DEF BooksInv, StoreBooks, DebitedOnCompletion
<1>2. QED
  BY <1>1, BooksInOrder, PTL

\* A disputed transfer has a case, although createDispute writes the two in
\* separate calls.
THEOREM DisputesHaveCases == Spec => []DisputedHasCase
<1>1. BooksInv => DisputedHasCase
  BY DEF BooksInv
<1>2. QED
  BY <1>1, BooksInOrder, PTL

\* A transfer that was paid out stays so, and no payout row goes away.
THEOREM PaidOutIsKept == Spec => [][Kept]_vars
<1>1. BooksInv /\ [Next]_vars => [Kept]_vars
  BY NextBooks
<1>2. QED
  BY <1>1, BooksInOrder, PTL DEF Spec

-----------------------------------------------------------------------------
(***************************************************************************)
(* The wallet.  There is no sum of a set to reason about: what covers the  *)
(* open transfers of a user is a list of entries, each open transfer in it *)
(* at least once, and its running totals, of which the last is no more     *)
(* than the balance.  A credit adds an entry, a debit takes one out.       *)
(***************************************************************************)
Listed(n, entry, total, open, amount) ==
    /\ \A i \in 1 .. n : total[i] = total[i - 1] + Net[entry[i]]
    /\ \A i, j \in 0 .. n : i <= j => total[i] <= total[j]
    /\ \A t \in open : \E i \in 1 .. n : entry[i] = t
    /\ total[n] <= amount

Covers(open, amount) ==
    \E n \in Nat : \E entry \in [1 .. n -> Txns], total \in [0 .. n -> Nat] :
        Listed(n, entry, total, open, amount)

OpenTransfers(u) == {t \in Txns : UserOf[t] = u /\ life[t] \in Captured \ PaidOut}

WalletCovers == \A u \in Users : Covers(OpenTransfers(u), balance[u])

\* Nothing open needs nothing.
LEMMA CoversNothing == Covers({}, 0)
<1> DEFINE entry == [i \in 1 .. 0 |-> CHOOSE t \in Txns : TRUE]
           total == [i \in 0 .. 0 |-> 0]
<1>1. entry \in [1 .. 0 -> Txns] /\ total \in [0 .. 0 -> Nat]
  OBVIOUS
<1>2. \A i \in 1 .. 0 : total[i] = total[i - 1] + Net[entry[i]]
  OBVIOUS
<1>3. (\A i, j \in 0 .. 0 : i <= j => total[i] <= total[j]) /\ total[0] <= 0
  OBVIOUS
<1> HIDE DEF entry, total
<1>4. QED
  BY <1>1, <1>2, <1>3 DEF Covers, Listed

\* What covers some transfers covers fewer of them, with more.
LEMMA CoversFewer ==
    ASSUME NEW open, NEW fewer \in SUBSET open, NEW a \in Nat, NEW b \in Nat, a <= b, Covers(open, a)
    PROVE  Covers(fewer, b)
<1>a. PICK n \in Nat : \E entry \in [1 .. n -> Txns], total \in [0 .. n -> Nat] :
                         Listed(n, entry, total, open, a)
  BY DEF Covers
<1>1. PICK entry \in [1 .. n -> Txns], total \in [0 .. n -> Nat] : Listed(n, entry, total, open, a)
  BY <1>a
<1>2. Listed(n, entry, total, fewer, b)
  BY <1>1 DEF Listed
<1>3. QED
  BY <1>2 DEF Covers

\* It covers each of them.
LEMMA CoversEach ==
    ASSUME NEW open \in SUBSET Txns, NEW t \in open, NEW a \in Nat, Covers(open, a)
    PROVE  Net[t] <= a
<1>a. PICK n \in Nat : \E entry \in [1 .. n -> Txns], total \in [0 .. n -> Nat] :
                         Listed(n, entry, total, open, a)
  BY DEF Covers
<1>1. PICK entry \in [1 .. n -> Txns], total \in [0 .. n -> Nat] : Listed(n, entry, total, open, a)
  BY <1>a
<1> USE DEF Listed
<1>2. PICK i \in 1 .. n : entry[i] = t
  BY <1>1
<1>3. Net[t] \in Nat
  BY StoreAssumption DEF StoreAssumption
<1>4. total[i] = total[i - 1] + Net[t] /\ total[i - 1] \in Nat /\ total[i] <= total[n]
  BY <1>1, <1>2
<1>5. QED
  BY <1>1, <1>3, <1>4

\* A credit is one entry more.
LEMMA CoversMore ==
    ASSUME NEW open \in SUBSET Txns, NEW t \in Txns, NEW a \in Nat, Covers(open, a)
    PROVE  Covers(open \cup {t}, a + Net[t])
<1>a. PICK n \in Nat : \E entry \in [1 .. n -> Txns], total \in [0 .. n -> Nat] :
                         Listed(n, entry, total, open, a)
  BY DEF Covers
<1>1. PICK entry \in [1 .. n -> Txns], total \in [0 .. n -> Nat] : Listed(n, entry, total, open, a)
  BY <1>a
<1> USE DEF Listed
<1>2. Net[t] \in Nat
  BY StoreAssumption DEF StoreAssumption
<1> DEFINE e == [i \in 1 .. n + 1 |-> IF i = n + 1 THEN t ELSE entry[i]]
           s == [i \in 0 .. n + 1 |-> IF i = n + 1 THEN total[n] + Net[t] ELSE total[i]]
<1>3. e \in [1 .. n + 1 -> Txns] /\ s \in [0 .. n + 1 -> Nat]
  BY <1>2
<1>4. \A i \in 1 .. n + 1 : s[i] = s[i - 1] + Net[e[i]]
  BY <1>1
<1>5. \A i, j \in 0 .. n + 1 : i <= j => s[i] <= s[j]
  BY <1>1, <1>2
<1>6. \A x \in open \cup {t} : \E i \in 1 .. n + 1 : e[i] = x
  <2>1. e[n + 1] = t /\ \A i \in 1 .. n : e[i] = entry[i] /\ i \in 1 .. n + 1
    OBVIOUS
  <2> HIDE DEF e
  <2>2. QED
    BY <1>1, <2>1
<1>7. s[n + 1] <= a + Net[t]
  BY <1>1, <1>2
<1> HIDE DEF e, s
<1>8. Listed(n + 1, e, s, open \cup {t}, a + Net[t])
  BY ONLY <1>4, <1>5, <1>6, <1>7 DEF Listed
<1>9. n + 1 \in Nat
  OBVIOUS
<1> HIDE DEF Listed
<1>10. QED
  BY <1>3, <1>8, <1>9 DEF Covers

\* A debit is one entry less.
LEMMA CoversLess ==
    ASSUME NEW open \in SUBSET Txns, NEW t \in open, NEW a \in Nat, Covers(open, a)
    PROVE  Covers(open \ {t}, a - Net[t])
<1>a. PICK n \in Nat : \E entry \in [1 .. n -> Txns], total \in [0 .. n -> Nat] :
                         Listed(n, entry, total, open, a)
  BY DEF Covers
<1>1. PICK entry \in [1 .. n -> Txns], total \in [0 .. n -> Nat] : Listed(n, entry, total, open, a)
  BY <1>a
<1> USE DEF Listed
<1>2. PICK k \in 1 .. n : entry[k] = t
  BY <1>1
<1>3. Net[t] \in Nat /\ n - 1 \in Nat
  BY StoreAssumption DEF StoreAssumption
<1>4. total[k] = total[k - 1] + Net[t]
  BY <1>1, <1>2
<1> DEFINE e == [i \in 1 .. n - 1 |-> IF i < k THEN entry[i] ELSE entry[i + 1]]
           s == [i \in 0 .. n - 1 |-> IF i < k THEN total[i] ELSE total[i + 1] - Net[t]]
<1>5. \A i \in k .. n : total[i] \in Nat /\ total[i] - Net[t] >= total[k - 1]
  <2> SUFFICES ASSUME NEW i \in k .. n
               PROVE  total[i] \in Nat /\ total[i] - Net[t] >= total[k - 1]
    OBVIOUS
  <2>1. i \in 0 .. n /\ k \in 0 .. n /\ k - 1 \in 0 .. n
    OBVIOUS
  <2>2. total[k] <= total[i] /\ total[i] \in Nat /\ total[k] \in Nat /\ total[k - 1] \in Nat
    BY <1>1, <2>1
  <2>3. QED
    BY <1>3, <1>4, <2>2
<1>6. e \in [1 .. n - 1 -> Txns] /\ s \in [0 .. n - 1 -> Nat]
  BY <1>3, <1>5
<1>7. \A i \in 1 .. n - 1 : s[i] = s[i - 1] + Net[e[i]]
  <2> SUFFICES ASSUME NEW i \in 1 .. n - 1 PROVE s[i] = s[i - 1] + Net[e[i]]
    OBVIOUS
  <2>1. Net[e[i]] \in Nat
    BY <1>6, StoreAssumption DEF StoreAssumption
  <2>2. CASE i < k
    BY <1>1, <2>2
  <2>3. i + 1 \in 1 .. n /\ total[i] \in Nat /\ total[i + 1] = total[i] + Net[entry[i + 1]]
    BY <1>1
  <2>4. CASE i = k
    <3>1. s[i] = total[i + 1] - Net[t] /\ s[i - 1] = total[k - 1] /\ e[i] = entry[i + 1]
      BY <2>4
    <3>2. total[k - 1] \in Nat
      OBVIOUS
    <3> HIDE DEF e, s
    <3>3. QED
      BY <1>3, <1>4, <2>1, <2>3, <2>4, <3>1, <3>2
  <2>5. CASE i > k
    <3>1. s[i] = total[i + 1] - Net[t] /\ s[i - 1] = total[i] - Net[t] /\ e[i] = entry[i + 1]
      BY <2>5
    <3> HIDE DEF e, s
    <3>2. QED
      BY <1>3, <2>1, <2>3, <3>1
  <2>6. QED
    BY <2>2, <2>4, <2>5
<1>8. \A i, j \in 0 .. n - 1 : i <= j => s[i] <= s[j]
  <2> SUFFICES ASSUME NEW i \in 0 .. n - 1, NEW j \in 0 .. n - 1, i <= j
               PROVE  s[i] <= s[j]
    OBVIOUS
  <2>1. CASE j < k
    BY <1>1, <2>1
  <2>2. CASE i < k /\ j >= k
    <3>1. total[i] <= total[k - 1] /\ total[i] \in Nat /\ total[k - 1] \in Nat
      BY <1>1, <2>2
    <3>2. total[j + 1] \in Nat /\ total[j + 1] - Net[t] >= total[k - 1]
      BY <1>5, <2>2
    <3>3. s[i] = total[i] /\ s[j] = total[j + 1] - Net[t]
      BY <2>2
    <3> HIDE DEF s
    <3>4. QED
      BY <1>3, <3>1, <3>2, <3>3
  <2>3. CASE i >= k
    <3>1. total[i + 1] <= total[j + 1] /\ total[i + 1] \in Nat /\ total[j + 1] \in Nat
      BY <1>1, <2>3
    <3>2. s[i] = total[i + 1] - Net[t] /\ s[j] = total[j + 1] - Net[t]
      BY <2>3
    <3> HIDE DEF s
    <3>3. QED
      BY <1>3, <3>1, <3>2
  <2>4. QED
    BY <2>1, <2>2, <2>3
<1>9. ASSUME NEW x \in open \ {t}
      PROVE  \E i \in 1 .. n - 1 : e[i] = x
  <2>1. PICK i \in 1 .. n : entry[i] = x
    BY <1>1
  <2>2. CASE i < k
    <3>1. i \in 1 .. n - 1 /\ e[i] = x
      BY <2>1, <2>2
    <3>2. QED
      BY <3>1
  <2>3. CASE i > k
    <3>1. i - 1 \in 1 .. n - 1 /\ e[i - 1] = x
      BY <2>1, <2>3
    <3>2. QED
      BY <3>1
  <2>4. QED
    BY <1>2, <2>1, <2>2, <2>3
<1>10. s[n - 1] <= a - Net[t]
  <2>1. /\ n - 1 \in 0 .. n - 1 /\ n \in 0 .. n
        /\ total[n] \in Nat /\ total[n - 1] \in Nat /\ total[n] <= a
    BY <1>1, <1>3
  <2>2. CASE n - 1 < k
    <3>1. k = n /\ s[n - 1] = total[n - 1]
      BY <2>1, <2>2
    <3> HIDE DEF e, s
    <3>2. QED
      BY <1>3, <1>4, <2>1, <3>1
  <2>3. CASE ~ (n - 1 < k)
    <3>1. s[n - 1] = total[n - 1 + 1] - Net[t] /\ n - 1 + 1 = n
      BY <2>1, <2>3
    <3> HIDE DEF e, s
    <3>2. QED
      BY <1>3, <2>1, <3>1
  <2>4. QED
    BY <2>2, <2>3
<1> HIDE DEF e, s
<1>11. Listed(n - 1, e, s, open \ {t}, a - Net[t])
  BY <1>7, <1>8, <1>9, <1>10
<1> HIDE DEF Listed
<1>12. QED
  BY <1>3, <1>6, <1>11 DEF Covers

\* The ledger moves in two blocks only: the one that captures and those that settle.
LedgerStep ==
    \/ UNCHANGED ledgerVars
    \/ \E t \in Txns : Credit(t)
    \/ \E t \in Txns : CanSettle(t) /\ SettlePayout(t)

LEMMA NextLedger ==
    ASSUME [Next]_vars
    PROVE  LedgerStep
<1>1. CASE CaptureStep
  <2>1. ASSUME NEW w \in HookWorkers, NEW e \in Events, CapturePayment(w, e)
        PROVE  \E t \in Txns : Credit(t)
    BY <2>1, CaptureAssumption DEF CapturePayment, CaptureAssumption
  <2>2. QED
    BY <1>1, <2>1 DEF LedgerStep, CaptureStep, CaptureNext, GatewayDecides, ReceiveNotice,
       ForgetHookJob, SkipProcessedEvent, CrashHook, HookStep, BeginHook, AcknowledgeEvent,
       EnqueuePayout, FailPayment, RejectHook, FailHook, storeVars, ledgerVars
<1>2. CASE PayoutStep
  <2>1. ASSUME NEW w \in Workers, NEW t \in Txns, RecordAnswer(w, t) \/ WriteUpdate(w, t)
        PROVE  LedgerStep
    <3>1. CASE RecordAnswer(w, t)
      BY <3>1 DEF RecordAnswer, LedgerStep
    <3>2. CASE WriteUpdate(w, t)
      BY <3>2 DEF WriteUpdate, CanUpdate, LedgerStep
    <3>3. QED
      BY <2>1, <3>1, <3>2
  <2>2. CASE UNCHANGED ledgerVars
    BY <2>2 DEF LedgerStep
  <2>3. UNCHANGED storeVars => UNCHANGED ledgerVars
    BY DEF storeVars, ledgerVars
  <2>4. ASSUME NEW w \in Workers, NEW t \in Txns, RunStep(w, t)
        PROVE  LedgerStep
    BY <2>1, <2>2, <2>3, <2>4
       DEF RunStep, BeginPayout, LockFindsRefund, LockStops, LockGoesOn, FindAttempt,
           SubmitPayout, SubmitRejected, Throw, CallAnswered, CallAnswerLost, CallRefused,
           RecordFails, GiveUp, MarkPayoutFailed, BeginSync, QueryProvider, BeginNotice,
           ReadPayout, UpdateRejected, MarkNotice
  <2>5. QED
    BY <1>2, <2>2, <2>3, <2>4 DEF PayoutStep, PayoutNext, CrashRun, SkipPaidPayout,
       ForgetPayoutJob, TransferMoves, StartWorker, ResumePayouts, ForgetResumeJob
<1>3. CASE RefundStep
  BY <1>3 DEF LedgerStep, RefundStep, RefundNext, ClerkStep, CrashClerk, RefundMoves, BeginRefund,
     InsertRefund, RefuseRefund, RequestAnswered, RequestAnswerLost, RequestRefused, RejectRefund,
     BeginRefundSync, BeginRefundNotice, ReadRefund, WriteRefund, RefundRejected, storeVars,
     ledgerVars
<1>4. CASE DisputeStep
  BY <1>4 DEF LedgerStep, DisputeStep, DisputeNext, CrashOperator, OperatorStep, BeginDispute,
     InsertDispute, MoveToDisputed, BeginEdit, WriteEdit, storeVars, ledgerVars
<1>5. CASE UNCHANGED vars
  BY <1>5 DEF LedgerStep, vars, storeVars, ledgerVars
<1>6. QED
  BY <1>1, <1>2, <1>3, <1>4, <1>5 DEF Next

\* No step opens a transfer that it does not credit.
LEMMA OpensNone ==
    ASSUME BooksInv, BooksInv', Kept, NEW t \in Txns, credits'[t] = credits[t]
    PROVE  life'[t] \in Captured \ PaidOut => life[t] \in Captured \ PaidOut
  BY DEF BooksInv, StoreBooks, CreditedOnCapture, Kept

LEMMA NextCovers ==
    ASSUME BooksInv, WalletCovers, [Next]_vars
    PROVE  WalletCovers'
<1>1. BooksInv' /\ Kept
  BY NextBooks
<1>2. StoreTypeOK /\ StoreTypeOK'
  BY <1>1 DEF BooksInv, TypeInv, TypeOK
<1> USE DEF WalletCovers
<1> SUFFICES ASSUME NEW u \in Users PROVE Covers(OpenTransfers(u), balance[u])'
  OBVIOUS
<1> DEFINE after == {t \in Txns : UserOf[t] = u /\ life'[t] \in Captured \ PaidOut}
<1>3. Covers(OpenTransfers(u), balance[u])' <=> Covers(after, balance'[u])
  BY DEF OpenTransfers, Covers, Listed
<1>4. OpenTransfers(u) \subseteq Txns /\ balance[u] \in Nat /\ balance'[u] \in Nat
  BY <1>2 DEF OpenTransfers, StoreTypeOK
<1>5. CASE balance'[u] = balance[u] /\ \A t \in after : credits'[t] = credits[t]
  <2>1. after \subseteq OpenTransfers(u)
    BY <1>1, <1>5, OpensNone DEF OpenTransfers
  <2>2. QED
    BY <1>3, <1>4, <1>5, <2>1, CoversFewer
<1>6. ASSUME NEW t \in Txns, Credit(t)
      PROVE  Covers(after, balance'[u])
  <2>1. \A x \in Txns \ {t} : credits'[x] = credits[x]
    BY <1>2, <1>6 DEF Credit, StoreTypeOK
  <2>2. CASE UserOf[t] = u
    <3>1. after \subseteq OpenTransfers(u) \cup {t}
      BY <1>1, <2>1, OpensNone DEF OpenTransfers
    <3>2. balance'[u] = balance[u] + Net[t]
      BY <1>2, <1>6, <2>2 DEF Credit, StoreTypeOK
    <3>3. Covers(OpenTransfers(u) \cup {t}, balance[u] + Net[t])
      BY <1>4, CoversMore
    <3>4. QED
      BY <1>4, <3>1, <3>2, <3>3, CoversFewer
  <2>3. CASE UserOf[t] # u
    <3>1. balance'[u] = balance[u]
      BY <1>2, <1>6, <2>3 DEF Credit, StoreTypeOK
    <3>2. QED
      BY <1>3, <1>5, <2>1, <2>3, <3>1
  <2>4. QED
    BY <2>2, <2>3
<1>7. ASSUME NEW t \in Txns, CanSettle(t), SettlePayout(t)
      PROVE  Covers(after, balance'[u])
  <2>1. life[t] = "PAYOUT_PENDING"
    BY <1>2, <1>7, Transitions
       DEF CanSettle, CanMove, BooksInv, StoreBooks, StagesReached, StoreTypeOK, LifeStates
  <2>2. UNCHANGED credits /\ life'[t] = "COMPLETED"
    BY <1>2, <1>7 DEF SettlePayout, Debit, StoreTypeOK
  <2>3. CASE UserOf[t] = u
    <3>1. t \in OpenTransfers(u)
      BY <2>1, <2>3 DEF OpenTransfers, Captured, PaidOut
    <3>2. after \subseteq OpenTransfers(u) \ {t}
      BY <1>1, <2>2, OpensNone DEF OpenTransfers, PaidOut
    <3>3. balance'[u] = balance[u] - Net[t]
      BY <1>2, <1>7, <2>3 DEF SettlePayout, Debit, StoreTypeOK
    <3>4. Covers(OpenTransfers(u) \ {t}, balance[u] - Net[t])
      BY <1>4, <3>1, CoversLess
    <3>5. QED
      BY <1>4, <3>2, <3>3, <3>4, CoversFewer
  <2>4. CASE UserOf[t] # u
    <3>1. balance'[u] = balance[u]
      BY <1>2, <1>7, <2>4 DEF SettlePayout, Debit, StoreTypeOK
    <3>2. QED
      BY <1>3, <1>5, <2>2, <3>1
  <2>5. QED
    BY <2>3, <2>4
<1>8. CASE UNCHANGED ledgerVars
  BY <1>3, <1>5, <1>8 DEF ledgerVars
<1>9. QED
  BY <1>3, <1>6, <1>7, <1>8, NextLedger DEF LedgerStep

WalletInv == BooksInv /\ WalletCovers

LEMMA InitWallet == Init => WalletInv
<1> SUFFICES ASSUME Init PROVE WalletInv
  OBVIOUS
<1>1. ASSUME NEW u \in Users PROVE Covers(OpenTransfers(u), balance[u])
  <2>1. OpenTransfers(u) = {} /\ balance[u] = 0
    BY DEF Init, StoreInit, OpenTransfers, Captured
  <2>2. QED
    BY <2>1, CoversNothing
<1>2. QED
  BY <1>1, InitBooks DEF WalletInv, WalletCovers

\* What a user's wallet holds covers all the user's open transfers together.
THEOREM WalletsCover == Spec => []WalletInv
<1>1. WalletInv /\ [Next]_vars => WalletInv'
  BY NextBooks, NextCovers DEF WalletInv
<1>2. QED
  BY InitWallet, <1>1, PTL DEF Spec

\* So the debit of a payout in progress is never refused, however many transfers a
\* user has and in whatever order they are settled (finalizeSuccessfulPayout).
THEOREM DebitsAreCovered == Spec => []DebitNeverRefused
<1>1. WalletInv => DebitNeverRefused
  <2> SUFFICES ASSUME WalletInv, NEW t \in Txns, life[t] = "PAYOUT_PENDING"
               PROVE  CanDebit(t)
    BY DEF DebitNeverRefused
  <2>1. UserOf[t] \in Users /\ Net[t] \in Nat
    BY StoreAssumption DEF StoreAssumption
  <2>2. t \in OpenTransfers(UserOf[t]) /\ OpenTransfers(UserOf[t]) \subseteq Txns
    BY DEF OpenTransfers, Captured, PaidOut
  <2>3. balance[UserOf[t]] \in Nat /\ Covers(OpenTransfers(UserOf[t]), balance[UserOf[t]])
    BY <2>1 DEF WalletInv, WalletCovers, BooksInv, TypeInv, TypeOK, StoreTypeOK
  <2>4. Net[t] <= balance[UserOf[t]]
    BY <2>2, <2>3, CoversEach
  <2>5. QED
    BY <2>1, <2>3, <2>4 DEF CanDebit
<1>2. QED
  BY <1>1, WalletsCover, PTL

-----------------------------------------------------------------------------
(***************************************************************************)
(* Credited once.  A webhook run decides on what its first block read and  *)
(* credits in its second: two runs that decide on one order at the same    *)
(* time both credit it.  When no two do, a run that has still to credit    *)
(* never finds its payment captured.                                       *)
(***************************************************************************)
Decides(w, t) == hook[w] # HookIdle /\ hook[w].pc = "decide" /\ OrderOf[hook[w].event] = t

\* No two runs are between their two blocks on one order.
DecidedApart == \A v, w \in HookWorkers, t \in Txns : Decides(v, t) /\ Decides(w, t) => v = w

DecisionsFresh ==
    \A w \in HookWorkers, t \in Txns :
        Decides(w, t) /\ hook[w].seen \notin AlreadyCaptured => life[t] # "PAYMENT_SUCCESS"

OnceInv == BooksInv /\ CreditedOnce /\ DecisionsFresh

\* A transfer is PAYMENT_SUCCESS by its capture only.
NoCapture ==
    /\ UNCHANGED credits
    /\ \A t \in Txns : life'[t] = "PAYMENT_SUCCESS" => life[t] = "PAYMENT_SUCCESS"

LEMMA NextCaptures ==
    ASSUME TypeInv, [Next]_vars
    PROVE  NoCapture \/ \E w \in HookWorkers, e \in Events : CapturePayment(w, e)
<1> USE DEF TypeInv, TypeOK, StoreTypeOK
<1>1. UNCHANGED <<life, credits>> => NoCapture
  BY DEF NoCapture
<1>2. UNCHANGED storeVars => NoCapture
  BY <1>1 DEF storeVars
<1>3. ASSUME UNCHANGED ledgerVars, NEW x \in LifeStates \ {"PAYMENT_SUCCESS"}, NEW t \in Txns,
             life' = [life EXCEPT ![t] = x]
      PROVE  NoCapture
  BY <1>3 DEF NoCapture, ledgerVars
<1>4. CASE CaptureStep
  <2>1. ASSUME NEW w \in HookWorkers, NEW e \in Events, FailPayment(w, e)
        PROVE  NoCapture
    <3>1. OrderOf[e] \in Txns
      BY CaptureAssumption DEF CaptureAssumption
    <3>2. QED
      BY <1>3, <2>1, <3>1 DEF FailPayment, MoveTo, LifeStates
  <2>2. QED
    BY <1>1, <1>2, <1>4, <2>1 DEF CaptureStep, CaptureNext, GatewayDecides, ReceiveNotice,
       ForgetHookJob, SkipProcessedEvent, CrashHook, HookStep, BeginHook, AcknowledgeEvent,
       EnqueuePayout, RejectHook, FailHook, ledgerVars
<1>5. CASE PayoutStep
  <2>1. ASSUME NEW w \in Workers, NEW t \in Txns, RecordAnswer(w, t) \/ WriteUpdate(w, t)
        PROVE  NoCapture
    <3>1. CASE RecordAnswer(w, t)
      BY <3>1 DEF RecordAnswer, SettlePayout, Debit, NoCapture, ledgerVars
    <3>2. CASE WriteUpdate(w, t)
      BY <3>2 DEF WriteUpdate, SettlePayout, Debit, NoCapture, ledgerVars
    <3>3. QED
      BY <2>1, <3>1, <3>2
  <2>2. ASSUME NEW w \in Workers, NEW t \in Txns,
               LockFindsRefund(w, t) \/ GiveUp(w, t) \/ SubmitPayout(w, t)
        PROVE  NoCapture
    BY <2>2 DEF LockFindsRefund, GiveUp, MarkPayoutFailed, SubmitPayout, NoCapture, ledgerVars
  <2>3. ASSUME NEW w \in Workers, NEW t \in Txns, RunStep(w, t)
        PROVE  NoCapture
    BY <1>1, <1>2, <2>1, <2>2, <2>3
       DEF RunStep, BeginPayout, LockStops, LockGoesOn, FindAttempt, SubmitRejected, Throw,
           CallAnswered, CallAnswerLost, CallRefused, RecordFails, BeginSync, QueryProvider,
           BeginNotice, ReadPayout, UpdateRejected, MarkNotice, ledgerVars
  <2>4. QED
    BY <1>1, <1>2, <1>5, <2>3 DEF PayoutStep, PayoutNext, CrashRun, SkipPaidPayout,
       ForgetPayoutJob, TransferMoves, StartWorker, ResumePayouts, ForgetResumeJob, ledgerVars
<1>6. CASE RefundStep
  <2>1. ASSUME NEW c \in Clerks, WriteRefund(c)
        PROVE  NoCapture
    BY <2>1 DEF WriteRefund, NoCapture, ledgerVars
  <2>2. QED
    BY <1>1, <1>2, <1>6, <2>1 DEF RefundStep, RefundNext, ClerkStep, CrashClerk, RefundMoves,
       BeginRefund, InsertRefund, RefuseRefund, RequestAnswered, RequestAnswerLost,
       RequestRefused, RejectRefund, BeginRefundSync, BeginRefundNotice, ReadRefund,
       RefundRejected, ledgerVars
<1>7. CASE DisputeStep
  <2>1. ASSUME NEW o \in Operators, MoveToDisputed(o)
        PROVE  NoCapture
    BY <2>1 DEF MoveToDisputed, MoveTo, NoCapture, ledgerVars
  <2>2. QED
    BY <1>1, <1>2, <1>7, <2>1 DEF DisputeStep, DisputeNext, CrashOperator, OperatorStep,
       BeginDispute, InsertDispute, BeginEdit, WriteEdit, ledgerVars
<1>8. CASE UNCHANGED vars
  BY <1>2, <1>8 DEF vars, storeVars
<1>9. QED
  BY <1>4, <1>5, <1>6, <1>7, <1>8 DEF Next

\* A run decides on what it has just read.
HooksRead ==
    \A w \in HookWorkers, t \in Txns :
        Decides(w, t)' => \/ Decides(w, t) /\ hook'[w] = hook[w]
                          \/ hook'[w].seen = life[t] /\ UNCHANGED storeVars

LEMMA NextHooks ==
    ASSUME TypeInv, [Next]_vars
    PROVE  HooksRead
<1> USE DEF TypeInv, TypeOK, CaptureTypeOK
<1>1. UNCHANGED hook => HooksRead
  BY DEF HooksRead, Decides
<1>2. ASSUME NEW w \in HookWorkers, hook' = [hook EXCEPT ![w] = HookIdle]
      PROVE  HooksRead
  BY <1>2 DEF HooksRead, Decides
<1>3. ASSUME NEW w \in HookWorkers, NEW e \in Events, BeginHook(w, e)
      PROVE  HooksRead
  BY <1>3 DEF BeginHook, HooksRead, Decides
<1>4. ASSUME NEW w \in HookWorkers, NEW e \in Events, CapturePayment(w, e)
      PROVE  HooksRead
  <2>1. hook[w] \in HookTask
    BY <1>4 DEF CapturePayment, Deciding
  <2>2. hook'[w].pc = "enqueue" /\ \A v \in HookWorkers \ {w} : hook'[v] = hook[v]
    BY <1>4, <2>1 DEF CapturePayment, HookTask
  <2>3. QED
    BY <2>2 DEF HooksRead, Decides
<1>5. CASE CaptureStep
  BY <1>1, <1>2, <1>3, <1>4, <1>5 DEF CaptureStep, CaptureNext, GatewayDecides, ReceiveNotice,
     ForgetHookJob, SkipProcessedEvent, CrashHook, HookStep, AcknowledgeEvent, EnqueuePayout,
     FailPayment, RejectHook, FailHook, CompleteHook
<1>6. QED
  BY <1>1, <1>5 DEF Next, PayoutStep, RefundStep, DisputeStep, vars, captureVars

LEMMA NextOnce ==
    ASSUME OnceInv, DecidedApart, [Next]_vars
    PROVE  OnceInv'
<1> USE DEF OnceInv
<1>1. BooksInv' /\ TypeInv /\ StoreTypeOK
  BY NextBooks DEF BooksInv, TypeInv, TypeOK
<1>2. HooksRead
  BY <1>1, NextHooks
<1>3. CASE NoCapture
  <2>1. CreditedOnce'
    BY <1>3 DEF NoCapture, CreditedOnce
  <2>2. DecisionsFresh'
    BY <1>2, <1>3 DEF NoCapture, DecisionsFresh, HooksRead, storeVars, AlreadyCaptured, Captured
  <2>3. QED
    BY <1>1, <2>1, <2>2
<1>4. ASSUME NEW w \in HookWorkers, NEW e \in Events, CapturePayment(w, e)
      PROVE  OnceInv'
  <2> DEFINE t == OrderOf[e]
  <2>1. t \in Txns
    BY CaptureAssumption DEF CaptureAssumption
  <2>2. Decides(w, t) /\ hook[w].seen \notin AlreadyCaptured
    BY <1>4 DEF CapturePayment, Deciding, Decides
  <2>3. life[t] = "PAYMENT_PENDING"
    BY <1>1, <1>4, <2>1, <2>2, Transitions
       DEF CapturePayment, CanMove, StoreTypeOK, LifeStates, DecisionsFresh
  <2>4. credits[t] = 0
    BY <1>1, <2>1, <2>3 DEF BooksInv, StoreBooks, CreditedOnCapture, Captured, StoreTypeOK
  <2>5. CreditedOnce'
    BY <1>1, <1>4, <2>1, <2>4 DEF CapturePayment, Credit, CreditedOnce, StoreTypeOK
  <2>6. hook'[w].pc = "enqueue"
    <3>1. hook[w] \in HookTask
      BY <1>1, <2>2 DEF Decides, TypeInv, TypeOK, CaptureTypeOK
    <3>2. QED
      BY <1>1, <1>4, <3>1 DEF CapturePayment, HookTask, TypeInv, TypeOK, CaptureTypeOK
  <2>7. ~ UNCHANGED storeVars
    BY <1>4, <2>1, <2>4, <1>1 DEF CapturePayment, Credit, storeVars, StoreTypeOK
  <2>8. \A x \in Txns \ {t} : life'[x] = life[x]
    BY <1>1, <1>4 DEF CapturePayment, MoveTo, StoreTypeOK
  <2> HIDE DEF t
  <2>9. DecisionsFresh'
    <3> SUFFICES ASSUME NEW v \in HookWorkers, NEW x \in Txns, Decides(v, x)',
                        hook'[v].seen \notin AlreadyCaptured
                 PROVE  life'[x] # "PAYMENT_SUCCESS"
      BY DEF DecisionsFresh
    <3>1. Decides(v, x) /\ hook'[v] = hook[v]
      BY <1>2, <2>7 DEF HooksRead
    <3>2. x # t
      <4>1. v # w
        BY <2>6 DEF Decides
      <4>2. QED
        BY <2>2, <3>1, <4>1 DEF DecidedApart
    <3>3. QED
      BY <2>8, <3>1, <3>2 DEF DecisionsFresh
  <2>10. QED
    BY <1>1, <2>5, <2>9
<1>5. QED
  BY <1>1, <1>3, <1>4, NextCaptures

LEMMA InitOnce == Init => OnceInv
<1> SUFFICES ASSUME Init PROVE OnceInv
  OBVIOUS
<1>1. CreditedOnce /\ DecisionsFresh
  BY DEF Init, StoreInit, CaptureInit, CreditedOnce, DecisionsFresh, Decides
<1>2. QED
  BY <1>1, InitBooks DEF OnceInv

\* A payment is credited once, whatever is delivered again and in whatever order, in
\* every behaviour in which no two webhook runs decide on one order at the same time;
\* that they can is what lets the code credit twice (processCashfreeWebhook).
THEOREM CreditsAreOnce == Spec /\ []DecidedApart => []CreditedOnce
<1>1. OnceInv /\ DecidedApart /\ [Next]_vars => OnceInv'
  BY NextOnce
<1>2. OnceInv => CreditedOnce
  BY DEF OnceInv
<1>3. QED
  BY InitOnce, <1>1, <1>2, PTL DEF Spec

\* One worker, and with it one run at a time, is enough for that.
THEOREM OneWorkerCreditsOnce ==
    ASSUME \A v, w \in HookWorkers : v = w
    PROVE  Spec => []CreditedOnce
<1>1. DecidedApart
  BY DEF DecidedApart
<1>2. QED
  BY <1>1, CreditsAreOnce, PTL

-----------------------------------------------------------------------------
(***************************************************************************)
(* Resolved for good.  A response and a resolution both check the case and *)
(* then write it; a response that checked first and writes last reopens    *)
(* it.  When none is under way beside a resolution of the same case, the   *)
(* case of every response is still open.                                   *)
(***************************************************************************)
Edits(o, pc, d) == operator[o] # OperatorIdle /\ operator[o].pc = pc /\ operator[o].id = d

\* No response is between its check and its write while a resolution is.
EditsApart ==
    \A o, p \in Operators, d \in Cases : ~ (Edits(o, "respond", d) /\ Edits(p, "resolve", d))

ResponsesFresh ==
    \A o \in Operators, d \in Cases :
        Edits(o, "respond", d) => dispute[d].status \notin TerminalDisputeStatuses

CasesInv == TypeInv /\ ResponsesFresh

ResolvedKept ==
    \A d \in Cases : dispute[d].status \in TerminalDisputeStatuses
                       => dispute'[d].status \in TerminalDisputeStatuses

LEMMA EditKeepsCases ==
    ASSUME CasesInv, EditsApart, NEW o \in Operators,
           NEW s \in OpenStates \cup TerminalDisputeStatuses, WriteEdit(o, s)
    PROVE  ResponsesFresh' /\ ResolvedKept
<1> DEFINE d == operator[o].id
           row == [dispute[d] EXCEPT !.status = s]
<1> USE DEF CasesInv, TypeInv, TypeOK, DisputeTypeOK
<1>1. d \in Cases /\ dispute[d] \in Case
  BY DEF WriteEdit, Doing, CasesBacked, Opening, Editing
<1>2. row.status = s
  BY <1>1 DEF Case
<1>3. dispute' = [dispute EXCEPT ![d] = row] /\ operator' = [operator EXCEPT ![o] = OperatorIdle]
  BY DEF WriteEdit, EndRequest
<1>4. \/ Edits(o, "respond", d) /\ s \in OpenStates
      \/ Edits(o, "resolve", d) /\ s \in TerminalDisputeStatuses
  BY DEF WriteEdit, Doing, Edits
<1> HIDE DEF d, row
<1>5. \A x \in Cases : dispute'[x] = IF x = d THEN row ELSE dispute[x]
  BY <1>3
<1>6. ResolvedKept
  BY <1>1, <1>2, <1>4, <1>5 DEF ResolvedKept, ResponsesFresh
<1>7. ResponsesFresh'
  <2> SUFFICES ASSUME NEW p \in Operators, NEW x \in Cases, Edits(p, "respond", x)'
               PROVE  dispute'[x].status \notin TerminalDisputeStatuses
    BY DEF ResponsesFresh
  <2>1. Edits(p, "respond", x)
    BY <1>3 DEF Edits
  <2>2. CASE x = d
    BY <1>2, <1>4, <1>5, <2>1, <2>2 DEF EditsApart, OpenStates, TerminalDisputeStatuses
  <2>3. CASE x # d
    BY <1>5, <2>1, <2>3 DEF ResponsesFresh
  <2>4. QED
    BY <2>2, <2>3
<1>8. QED
  BY <1>6, <1>7

LEMMA NextCases ==
    ASSUME CasesInv, EditsApart, [Next]_vars
    PROVE  CasesInv' /\ ResolvedKept
<1> USE DEF CasesInv, TypeInv, TypeOK, DisputeTypeOK
<1>1. TypeInv'
  BY NextTypes
<1>2. ASSUME UNCHANGED dispute,
             \A p \in Operators, d \in Cases :
                Edits(p, "respond", d)' =>
                   Edits(p, "respond", d) \/ dispute[d].status \notin TerminalDisputeStatuses
      PROVE  ResponsesFresh' /\ ResolvedKept
  BY <1>2 DEF ResponsesFresh, ResolvedKept
<1>3. CASE UNCHANGED disputeVars
  <2>1. UNCHANGED <<dispute, operator>>
    BY <1>3 DEF disputeVars
  <2>2. \A p \in Operators, d \in Cases : Edits(p, "respond", d)' => Edits(p, "respond", d)
    BY <2>1 DEF Edits
  <2>3. QED
    BY <1>1, <1>2, <2>1, <2>2
<1>4. ASSUME NEW o \in Operators, OperatorStep(o) \/ CrashOperator(o)
      PROVE  ResponsesFresh' /\ ResolvedKept
  <2>1. CASE \E d \in Cases : BeginEdit(o, d, "respond") \/ BeginEdit(o, d, "resolve")
    BY <1>2, <2>1 DEF BeginEdit, Edits
  <2>2. CASE \/ \E d \in Cases, t \in Txns : BeginDispute(o, d, t)
             \/ MoveToDisputed(o) \/ CrashOperator(o)
    BY <1>2, <2>2 DEF BeginDispute, MoveToDisputed, CrashOperator, EndRequest, Edits
  <2>3. CASE \E s \in OpenStates : InsertDispute(o, s)
    <3>1. PICK s \in OpenStates : InsertDispute(o, s)
      BY <2>3
    <3>2. operator[o].id \in Cases /\ operator[o] \in Opening
      BY <3>1 DEF InsertDispute, Doing, Opening, Editing
    <3>3. \A p \in Operators, d \in Cases : Edits(p, "respond", d)' => Edits(p, "respond", d)
      BY <3>1, <3>2 DEF InsertDispute, EndRequest, Edits, Opening
    <3>4. \A d \in Cases :
             \/ dispute'[d] = dispute[d]
             \/ dispute[d].status = "NONE" /\ dispute'[d].status \notin TerminalDisputeStatuses
      BY <3>1, <3>2 DEF InsertDispute, NoCase, OpenStates, TerminalDisputeStatuses
    <3>5. QED
      BY <3>3, <3>4 DEF ResponsesFresh, ResolvedKept, TerminalDisputeStatuses
  <2>4. CASE \E s \in OpenStates \cup TerminalDisputeStatuses : WriteEdit(o, s)
    BY <2>4, EditKeepsCases
  <2>5. QED
    BY <1>4, <2>1, <2>2, <2>3, <2>4 DEF OperatorStep
<1>5. QED
  BY <1>1, <1>3, <1>4 DEF Next, CaptureStep, PayoutStep, RefundStep, DisputeStep, DisputeNext, vars

\* A resolved case stays resolved in every behaviour in which no response is under way
\* beside a resolution of the same case; that one can be is what lets the code reopen
\* it (respondToDispute, resolveDispute).
THEOREM ResolvedForGood == Spec /\ []EditsApart => ResolvedStaysResolved
<1>1. Init => CasesInv
  BY InitTypes DEF CasesInv, ResponsesFresh, Init, DisputeInit, Edits
<1>2. CasesInv /\ EditsApart /\ [Next]_vars => CasesInv' /\ [ResolvedKept]_vars
  BY NextCases
<1>3. QED
  BY <1>1, <1>2, PTL DEF Spec, ResolvedStaysResolved, ResolvedKept

\* One administrator at a time is enough for that.
THEOREM OneOperatorResolvesForGood ==
    ASSUME \A o, p \in Operators : o = p
    PROVE  Spec => ResolvedStaysResolved
<1>1. EditsApart
  BY DEF EditsApart, Edits
<1>2. QED
  BY <1>1, ResolvedForGood, PTL
=============================================================================
