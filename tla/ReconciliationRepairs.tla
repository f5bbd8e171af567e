------------------------ MODULE ReconciliationRepairs ------------------------
(***************************************************************************)
(* What a run of reconciliation has achieved when it completes, for every  *)
(* value of the constants: what the providers had done and the books       *)
(* lacked is in the books, and what nobody else would ever move again is   *)
(* reported, whatever webhooks, jobs, syncs, crashes and other runs were   *)
(* beside it.                                                              *)
(***************************************************************************)
EXTENDS ReconciliationProofs

(***************************************************************************)
(* What the settlement underneath never takes back.  A payout or refund    *)
(* row says SUCCESS only when the books have it, and so does the copy a    *)
(* handler has read; a payout that is PROCESSING has been claimed.         *)
(***************************************************************************)
RowsSettled ==
    /\ \A t \in Txns : payout[t] = "SUCCESS" => life[t] \in PaidOut
    /\ \A t \in Txns : payout[t] = "PROCESSING" => attempt[t] # "NONE"
    /\ \A w \in Workers :
          run[w] # Idle /\ run[w].pc = "write" /\ run[w].seenPayout = "SUCCESS"
            => life[run[w].txn] \in PaidOut

RefundRowsSettled ==
    /\ \A r \in RefundIds : refund[r].status = "SUCCESS" => reversals[r] >= 1
    /\ \A c \in Clerks :
          clerk[c] # ClerkIdle /\ clerk[c].pc = "write" /\ clerk[c].seenStatus = "SUCCESS"
            => reversals[clerk[c].id] >= 1

SettledInv == ProviderInv /\ RefundInv /\ RowsSettled /\ RefundRowsSettled

SettledOut(t) == debits[t] = 1 \/ transfer[t] = "REVERSED"
Moved(t) == providerRef[t] \/ payout[t] # "PROCESSING"

\* A write of a payout row: SUCCESS with the debit, PROCESSING by the claim, or by
\* an answer that brings the provider's reference.
RowsWritten ==
    \A t \in Txns :
        /\ payout'[t] = "SUCCESS" => payout[t] = "SUCCESS" \/ life'[t] \in PaidOut
        /\ payout'[t] = "PROCESSING" =>
              \/ payout[t] = "PROCESSING"
              \/ attempt'[t] # "NONE" /\ (providerRef'[t] \/ attempt[t] = "NONE")
        /\ providerRef[t] => providerRef'[t]
        /\ attempt[t] # "NONE" => attempt'[t] # "NONE"

\* A transfer that was made stays made, and one that bounced stays bounced.
TransfersKept ==
    \A t \in Txns : /\ transfer[t] \in {"SUCCESS", "REVERSED"} => transfer'[t] \in {"SUCCESS", "REVERSED"}
                    /\ transfer[t] = "REVERSED" => transfer'[t] = "REVERSED"

-----------------------------------------------------------------------------
(***************************************************************************)
(* The steps of the payout side.                                           *)
(***************************************************************************)
LEMMA RunStepWrites ==
    ASSUME PromiseInv, RowsSettled, NEW w \in Workers, NEW t \in Txns, RunStep(w, t)
    PROVE  RowsWritten
<1> USE DEF PromiseInv, BooksInv, TypeInv, TypeOK, At, Idle, rowVars
<1>0. AttemptsKept
  BY RunStepKeepsAttempts
<1>1. CASE UNCHANGED <<payout, providerRef>>
  BY <1>0, <1>1 DEF RowsWritten, AttemptsKept
<1>2. CASE LockFindsRefund(w, t) \/ GiveUp(w, t)
  BY <1>0, <1>2 DEF RowsWritten, AttemptsKept, LockFindsRefund, GiveUp, MarkPayoutFailed, StoreTypeOK
<1>3. CASE SubmitPayout(w, t)
  BY <1>0, <1>3 DEF RowsWritten, AttemptsKept, SubmitPayout, CanSubmit, StoreTypeOK, PayoutTypeOK
<1>4. CASE RecordAnswer(w, t) \/ WriteUpdate(w, t)
  <2> DEFINE m == MapStatus(run[w].status)
  <2>1. run[w] # Idle /\ run[w].txn = t /\ attempt[t] # "NONE"
    BY <1>4 DEF RecordAnswer, WriteUpdate, RunsAfterAttempt
  <2>2. /\ payout' = [payout EXCEPT ![t] = m]
        /\ providerRef' = [providerRef EXCEPT ![t] = TRUE]
    BY <1>4 DEF RecordAnswer, WriteUpdate
  <2>3. m = "SUCCESS" => life'[t] \in PaidOut
    <3>1. CASE RecordAnswer(w, t)
      BY <3>1 DEF RecordAnswer, SettlePayout, StoreTypeOK, PaidOut
    <3>2. CASE WriteUpdate(w, t) /\ Settles(w)
      BY <3>2 DEF WriteUpdate, SettlePayout, StoreTypeOK, PaidOut
    <3>3. CASE WriteUpdate(w, t) /\ ~ Settles(w)
      <4> SUFFICES ASSUME m = "SUCCESS" PROVE life'[t] \in PaidOut
        OBVIOUS
      <4>1. run[w].seenPayout = "SUCCESS" /\ run[w].pc = "write"
        BY <3>3 DEF WriteUpdate, Settles
      <4>2. life[t] \in PaidOut
        BY <2>1, <4>1 DEF RowsSettled
      <4>3. life'[t] = life[t]
        BY <3>3 DEF WriteUpdate, Starts, StoreTypeOK
      <4>4. QED
        BY <4>2, <4>3
    <3>4. QED
      BY <1>4, <3>1, <3>2, <3>3
  <2> HIDE DEF m
  <2>4. QED
    BY <1>0, <2>1, <2>2, <2>3 DEF RowsWritten, AttemptsKept, StoreTypeOK, PayoutTypeOK
<1>5. QED
  BY <1>1, <1>2, <1>3, <1>4
     DEF RunStep, BeginPayout, LockStops, LockGoesOn, FindAttempt, SubmitRejected, Throw,
         CallAnswered, CallAnswerLost, CallRefused, RecordFails, BeginSync, QueryProvider,
         BeginNotice, ReadPayout, UpdateRejected, MarkNotice, storeVars

\* A run reads a payout before it writes it.
LEMMA RunStepReads ==
    ASSUME TypeInv, RowsSettled, NEW w \in Workers, NEW t \in Txns, RunStep(w, t)
    PROVE  \A v \in Workers :
              run'[v] # Idle /\ run'[v].pc = "write" /\ run'[v].seenPayout = "SUCCESS"
                => run'[v].txn \in Txns /\ life[run'[v].txn] \in PaidOut
<1> USE DEF TypeInv, TypeOK, PayoutTypeOK, At, Idle
<1>a. \A v \in Workers : run[v] # Idle => run[v].txn \in Txns
  BY RunTypes
<1>0. ASSUME \A v \in Workers \ {w} : run'[v] = run[v],
             \/ run'[w] = Idle
             \/ run'[w].pc # "write"
             \/ run'[w].txn = t /\ run'[w].seenPayout = payout[t]
      PROVE  \A v \in Workers :
                run'[v] # Idle /\ run'[v].pc = "write" /\ run'[v].seenPayout = "SUCCESS"
                  => run'[v].txn \in Txns /\ life[run'[v].txn] \in PaidOut
  BY <1>0, <1>a DEF RowsSettled
<1>1. CASE ReadPayout(w, t)
  <2>1. run[w] # Idle /\ run[w] \in Run /\ run[w].txn = t
    BY <1>1, RunTypes DEF ReadPayout
  <2>2. CASE EndUpdate(w, t)
    BY <1>0, <2>2 DEF EndUpdate, Finish, Forget, Told
  <2>3. CASE run' = [run EXCEPT ![w].pc = "write", ![w].seenLife = life[t],
                                ![w].seenPayout = payout[t]]
    BY <1>0, <2>1, <2>3 DEF Run
  <2>4. QED
    BY <1>1, <2>2, <2>3 DEF ReadPayout
<1>2. CASE \/ BeginPayout(w, t) \/ LockFindsRefund(w, t) \/ LockStops(w, t)
           \/ BeginSync(w, t) \/ \E s \in TransferStates : BeginNotice(w, t, s)
  BY <1>0, <1>2 DEF BeginPayout, LockFindsRefund, LockStops, BeginSync, BeginNotice, Finish, Told
<1>3. CASE LockGoesOn(w, t) \/ FindAttempt(w, t)
  <2>1. run[w] # Idle /\ run[w] \in Run
    BY <1>3, RunTypes DEF LockGoesOn, FindAttempt
  <2>2. QED
    BY <1>0, <1>3, <2>1 DEF LockGoesOn, FindAttempt, GoTo, Forget, Told, Run
<1>4. CASE \/ SubmitPayout(w, t) \/ SubmitRejected(w, t) \/ CallRefused(w, t)
           \/ \E s \in TransferStates : CallAnswered(w, t, s) \/ CallAnswerLost(w, t, s)
  BY <1>0, <1>4 DEF SubmitPayout, SubmitRejected, Throw, CallRefused, CallAnswered, CallAnswerLost,
     Forget, Told
<1>5. CASE RecordAnswer(w, t) \/ RecordFails(w, t) \/ GiveUp(w, t) \/ QueryProvider(w, t)
  BY <1>0, <1>5 DEF RecordAnswer, RecordFails, GiveUp, QueryProvider, Finish, Forget, Told
<1>6. CASE WriteUpdate(w, t) \/ UpdateRejected(w, t) \/ MarkNotice(w, t)
  BY <1>0, <1>6 DEF WriteUpdate, UpdateRejected, MarkNotice, Throw, EndUpdate, Finish, Forget, Told
<1>7. QED
  BY <1>1, <1>2, <1>3, <1>4, <1>5, <1>6 DEF RunStep

\* The provider goes forward.
LEMMA PayoutTransfers ==
    ASSUME TypeInv, PayoutNext
    PROVE  TransfersKept
<1> USE DEF TypeInv, TypeOK, PayoutTypeOK, TransfersKept, providerVars
<1>1. CASE \E t \in Txns, s \in TransferStates : TransferMoves(t, s)
  BY <1>1 DEF TransferMoves
<1>2. ASSUME NEW w \in Workers, NEW t \in Txns, RunStep(w, t)
      PROVE  TransfersKept
  <2>1. CASE \E s \in TransferStates : CallAnswered(w, t, s) \/ CallAnswerLost(w, t, s)
    BY <2>1 DEF CallAnswered, CallAnswerLost, ProviderTakes
  <2>2. CASE UNCHANGED transfer
    BY <2>2
  <2>3. QED
    BY <1>2, <2>1, <2>2 DEF RunStep, BeginPayout, LockFindsRefund, LockStops, LockGoesOn,
       FindAttempt, SubmitPayout, SubmitRejected, Throw, CallRefused, RecordAnswer, RecordFails,
       GiveUp, BeginSync, QueryProvider, BeginNotice, ReadPayout, WriteUpdate, UpdateRejected,
       MarkNotice
<1>3. QED
  BY <1>1, <1>2 DEF PayoutNext, CrashRun, SkipPaidPayout, ForgetPayoutJob, StartWorker,
     ResumePayouts, ForgetResumeJob, payoutVars

-----------------------------------------------------------------------------
\* Every step of the settlement writes payout rows so.
LEMMA NextWrites ==
    ASSUME PromiseInv, RowsSettled, [Next]_vars
    PROVE  RowsWritten /\ TransfersKept
<1> USE DEF PromiseInv, BooksInv, TypeInv, TypeOK
<1>1. CASE PayoutStep
  <2>1. TransfersKept
    BY <1>1, PayoutTransfers DEF PayoutStep
  <2>2. CASE \E w \in Workers, t \in Txns : RunStep(w, t)
    BY <2>1, <2>2, RunStepWrites
  <2>3. CASE UNCHANGED <<payout, providerRef, attempt>>
    BY <2>1, <2>3 DEF RowsWritten
  <2>4. QED
    BY <1>1, <2>2, <2>3 DEF PayoutStep, PayoutNext, CrashRun, SkipPaidPayout, ForgetPayoutJob,
       TransferMoves, StartWorker, ResumePayouts, ForgetResumeJob, payoutVars, rowVars, storeVars
<1>2. ASSUME UNCHANGED payoutVars,
             \A t \in Txns : payout'[t] = payout[t] \/ payout'[t] \in {"QUEUED", "FAILED"}
      PROVE  RowsWritten /\ TransfersKept
  BY <1>2 DEF RowsWritten, TransfersKept, payoutVars
<1>3. CASE CaptureStep
  BY <1>2, <1>3 DEF CaptureStep, CaptureNext, GatewayDecides, ReceiveNotice, ForgetHookJob,
     SkipProcessedEvent, CrashHook, HookStep, BeginHook, AcknowledgeEvent,
     CapturePayment, PendingPayout, EnqueuePayout, FailPayment, RejectHook, FailHook, storeVars,
     StoreTypeOK
<1>4. CASE RefundStep
  <2>1. UNCHANGED payoutVars
    BY <1>4 DEF RefundStep
  <2>2. CASE \E c \in Clerks : WriteRefund(c)
    BY <1>2, <2>1, <2>2 DEF WriteRefund, StoreTypeOK
  <2>3. CASE UNCHANGED payout
    BY <1>2, <2>1, <2>3
  <2>4. QED
    BY <1>4, <2>2, <2>3 DEF RefundStep, RefundNext, ClerkStep, CrashClerk, RefundMoves,
       BeginRefund, InsertRefund, RefuseRefund, RequestAnswered, RequestAnswerLost,
       RequestRefused, RejectRefund, BeginRefundSync, BeginRefundNotice, ReadRefund,
       RefundRejected, storeVars
<1>5. CASE DisputeStep
  BY <1>2, <1>5 DEF DisputeStep, DisputeNext, CrashOperator, OperatorStep, BeginDispute,
     InsertDispute, MoveToDisputed, BeginEdit, WriteEdit, storeVars
<1>6. CASE UNCHANGED vars
  BY <1>2, <1>6 DEF vars, storeVars
<1>7. QED
  BY <1>1, <1>3, <1>4, <1>5, <1>6 DEF Next

\* So payout rows keep to the books.
LEMMA NextRowsSettled ==
    ASSUME PromiseInv, RowsSettled, RowsWritten, Kept, [Next]_vars
    PROVE  RowsSettled'
<1> USE DEF PromiseInv, BooksInv, TypeInv, TypeOK
<1>1. /\ \A t \in Txns : payout'[t] = "SUCCESS" => life'[t] \in PaidOut
      /\ \A t \in Txns : payout'[t] = "PROCESSING" => attempt'[t] # "NONE"
  BY DEF RowsSettled, RowsWritten, Kept
<1>2. \A w \in Workers :
         run'[w] # Idle /\ run'[w].pc = "write" /\ run'[w].seenPayout = "SUCCESS"
           => run'[w].txn \in Txns /\ life[run'[w].txn] \in PaidOut
  <2>1. CASE PayoutStep
    <3>1. CASE \E w \in Workers, t \in Txns : RunStep(w, t)
      BY <3>1, RunStepReads
    <3>2. CASE \E w \in Workers : CrashRun(w)
      BY <3>2, RunTypes DEF CrashRun, RowsSettled, PayoutTypeOK
    <3>3. CASE UNCHANGED run
      BY <3>3, RunTypes DEF RowsSettled
    <3>4. QED
      BY <2>1, <3>1, <3>2, <3>3 DEF PayoutStep, PayoutNext, SkipPaidPayout, ForgetPayoutJob,
         TransferMoves, StartWorker, ResumePayouts, ForgetResumeJob, payoutVars
  <2>2. CASE UNCHANGED run
    BY <2>2, RunTypes DEF RowsSettled
  <2>3. QED
    BY <2>1, <2>2 DEF Next, CaptureStep, RefundStep, DisputeStep, vars, payoutVars
<1>3. QED
  BY <1>1, <1>2 DEF RowsSettled, Kept

-----------------------------------------------------------------------------
(***************************************************************************)
(* The steps of the refund side.                                           *)
(***************************************************************************)
\* What the gateway has made, and what has been reversed, stays so.
RefundsForward ==
    \A r \in RefundIds : /\ gatewayRefund[r] = "SUCCESS" => gatewayRefund'[r] = "SUCCESS"
                         /\ reversals[r] >= 1 => reversals'[r] >= 1

LEMMA ClerkStepSettled ==
    ASSUME TypeInv, RefundRowsSettled, NEW c \in Clerks, ClerkStep(c)
    PROVE  RefundRowsSettled' /\ RefundsForward
<1> USE DEF TypeInv, TypeOK
<1>a. \A b \in Clerks : clerk[b] # ClerkIdle => clerk[b].id \in RefundIds
  BY ClerkRecords
<1>0. ASSUME RefundsForward,
             \A r \in RefundIds : refund'[r].status = "SUCCESS"
                => refund[r].status = "SUCCESS" \/ reversals'[r] >= 1,
             \A b \in Clerks \ {c} : clerk'[b] = clerk[b],
             \/ clerk'[c] = ClerkIdle
             \/ clerk'[c].pc # "write"
             \/ /\ clerk'[c].id \in RefundIds
                /\ clerk'[c].seenStatus = refund[clerk'[c].id].status
      PROVE  RefundRowsSettled' /\ RefundsForward
  BY <1>0, <1>a DEF RefundRowsSettled, RefundsForward
<1>b. UNCHANGED <<reversals, gatewayRefund>> => RefundsForward
  BY DEF RefundsForward
<1>1. CASE \/ \E r \in RefundIds, t \in Txns : \E x \in 1 .. Gross[t] : BeginRefund(c, r, t, x)
           \/ \E r \in RefundIds : BeginRefundSync(c, r)
           \/ \E r \in RefundIds, s \in GatewayRefundStates : BeginRefundNotice(c, r, s)
           \/ RefuseRefund(c) \/ RefundRejected(c)
  BY <1>0, <1>b, <1>1 DEF BeginRefund, BeginRefundSync, BeginRefundNotice, UpdateRefund,
     RefuseRefund, RefundRejected, EndClerk, RefundTypeOK, storeVars
<1>2. CASE InsertRefund(c)
  <2>1. clerk[c].id \in RefundIds /\ clerk[c] \in Request
    BY <1>2, ClerkRecords DEF InsertRefund, Busy
  <2>2. QED
    BY <1>0, <1>b, <1>2, <2>1 DEF InsertRefund, RefundTypeOK, StoreTypeOK, Request
<1>3. CASE \/ \E s \in GatewayRefundStates : RequestAnswered(c, s) \/ RequestAnswerLost(c, s)
           \/ RequestRefused(c)
  <2>1. clerk[c].id \in RefundIds /\ clerk[c] \in Request
    BY <1>3, ClerkRecords DEF RequestAnswered, RequestAnswerLost, RequestRefused, Busy
  <2>2. RefundsForward
    BY <1>3, <2>1 DEF RequestAnswered, RequestAnswerLost, RequestRefused, GatewayTakes,
       RefundsForward, RefundTypeOK
  <2>3. QED
    BY <1>0, <1>3, <2>1, <2>2 DEF RequestAnswered, RequestAnswerLost, RequestRefused,
       UpdateRefund, RefundTypeOK, Request, storeVars
<1>4. CASE RejectRefund(c)
  <2>1. clerk[c].id \in RefundIds /\ refund[clerk[c].id] \in RefundRow
    BY <1>4, ClerkRecords DEF RejectRefund, Busy
  <2>2. \A r \in RefundIds : refund'[r].status = "SUCCESS" => refund[r].status = "SUCCESS"
    BY <1>4, <2>1 DEF RejectRefund, StoreTypeOK, RefundRow
  <2>3. QED
    BY <1>0, <1>b, <1>4, <2>2 DEF RejectRefund, EndClerk, RefundTypeOK
<1>5. CASE ReadRefund(c)
  <2>1. clerk[c].id \in RefundIds /\ clerk[c] \in Update
    BY <1>5, ClerkRecords DEF ReadRefund, Busy
  <2>2. QED
    BY <1>0, <1>b, <1>5, <2>1 DEF ReadRefund, RefundTypeOK, Update, storeVars
<1>6. CASE WriteRefund(c)
  <2> DEFINE r == clerk[c].id
             m == MapRefundStatus(clerk[c].status)
  <2>1. r \in RefundIds /\ refund[r] \in RefundRow /\ clerk[c] \in Update /\ clerk[c] # ClerkIdle
        /\ clerk[c].pc = "write"
    BY <1>6, ClerkRecords DEF WriteRefund, Busy
  <2>2. m = "SUCCESS" => clerk[c].status = "SUCCESS"
    BY <2>1 DEF MapRefundStatus
  <2>3. m = "SUCCESS" => reversals'[r] >= 1
    BY <1>6, <2>1, <2>2 DEF WriteRefund, SettlesRefund, RefundRowsSettled, RefundTypeOK
  <2>4. refund' = [refund EXCEPT ![r] = [refund[r] EXCEPT !.status = m]]
    BY <1>6 DEF WriteRefund
  <2>5. \A x \in RefundIds : reversals[x] >= 1 => reversals'[x] >= 1
    BY <1>6, <2>1 DEF WriteRefund, RefundTypeOK
  <2>6. UNCHANGED gatewayRefund /\ clerk' = [clerk EXCEPT ![c] = ClerkIdle]
    BY <1>6 DEF WriteRefund, EndClerk
  <2> HIDE DEF r, m
  <2>7. \A x \in RefundIds : refund'[x].status = "SUCCESS"
           => refund[x].status = "SUCCESS" \/ reversals'[x] >= 1
    BY <2>1, <2>3, <2>4 DEF StoreTypeOK, RefundRow
  <2>8. RefundsForward
    BY <2>5, <2>6 DEF RefundsForward
  <2>9. QED
    BY <1>0, <2>6, <2>7, <2>8 DEF RefundTypeOK
<1>7. QED
  BY <1>1, <1>2, <1>3, <1>4, <1>5, <1>6 DEF ClerkStep

LEMMA NextRefundsSettled ==
    ASSUME TypeInv, RefundRowsSettled, [Next]_vars
    PROVE  RefundRowsSettled' /\ RefundsForward
<1> USE DEF TypeInv, TypeOK
<1>1. CASE UNCHANGED <<refund, refundVars>>
  BY <1>1 DEF refundVars, RefundRowsSettled, RefundsForward
<1>2. CASE CaptureStep \/ PayoutStep \/ DisputeStep \/ UNCHANGED vars
  BY <1>1, <1>2, RefundsUntouched DEF CaptureStep, PayoutStep, DisputeStep, vars, storeVars
<1>3. CASE RefundStep
  <2>1. CASE \E c \in Clerks : ClerkStep(c)
    BY <2>1, ClerkStepSettled
  <2>2. CASE \E c \in Clerks : CrashClerk(c)
    BY <2>2 DEF CrashClerk, EndClerk, RefundRowsSettled, RefundsForward, RefundTypeOK
  <2>3. CASE \E r \in RefundIds, s \in GatewayRefundStates : RefundMoves(r, s)
    BY <2>3 DEF RefundMoves, RefundRowsSettled, RefundsForward, RefundTypeOK, storeVars
  <2>4. QED
    BY <1>3, <2>1, <2>2, <2>3 DEF RefundStep, RefundNext
<1>4. QED
  BY <1>2, <1>3 DEF Next

-----------------------------------------------------------------------------
\* What no step takes back.
Forward ==
    /\ \A t \in Txns :
          /\ SettledOut(t) => SettledOut(t)'
          /\ transfer[t] \in {"SUCCESS", "REVERSED"} => transfer'[t] \in {"SUCCESS", "REVERSED"}
          /\ providerRef[t] => providerRef'[t]
          /\ attempt[t] # "NONE" => attempt'[t] # "NONE"
          /\ attempt[t] # "NONE" /\ Moved(t) => Moved(t)'
    /\ RefundsForward

LEMMA InitSettled == Init => SettledInv
<1> SUFFICES ASSUME Init PROVE SettledInv
  OBVIOUS
<1>1. ProviderInv /\ RefundInv
  BY InitProvider, InitRefunds
<1>2. RowsSettled /\ RefundRowsSettled
  BY DEF Init, StoreInit, PayoutInit, RefundInit, RowsSettled, RefundRowsSettled, NoRefund
<1>3. QED
  BY <1>1, <1>2 DEF SettledInv

LEMMA NextSettled ==
    ASSUME SettledInv, [Next]_vars
    PROVE  SettledInv' /\ Forward
<1> USE DEF SettledInv
<1>1. /\ ProviderInv' /\ RefundInv' /\ Kept /\ RefundRowsSettled' /\ RefundsForward
      /\ PromiseInv /\ BooksInv /\ BooksInv'
  BY NextProvider, NextRefunds, NextBooks, NextRefundsSettled DEF ProviderInv, RefundInv, BooksInv
<1>2. RowsWritten /\ TransfersKept
  BY <1>1, NextWrites
<1>3. RowsSettled'
  BY <1>1, <1>2, NextRowsSettled
<1>4. ASSUME NEW t \in Txns
      PROVE  /\ SettledOut(t) => SettledOut(t)'
             /\ attempt[t] # "NONE" /\ Moved(t) => Moved(t)'
  <2>1. (debits[t] = 1 <=> life[t] \in PaidOut) /\ (debits'[t] = 1 <=> life'[t] \in PaidOut)
    BY <1>1 DEF BooksInv, StoreBooks, DebitedOnCompletion
  <2>2. QED
    BY <1>1, <1>2, <2>1 DEF SettledOut, Moved, TransfersKept, RowsWritten, Kept
<1>5. QED
  BY <1>1, <1>2, <1>3, <1>4 DEF Forward, RowsWritten, TransfersKept

-----------------------------------------------------------------------------
(***************************************************************************)
(* The run.  Each payout it listed and has to repair is settled, or being  *)
(* asked about, or still to be asked about; each refund likewise; each     *)
(* payout that was stuck when it began has been claimed for good, and is   *)
(* reported, or still to be reported, or has been moved since.             *)
(***************************************************************************)
Asked(a, t) ==
    /\ agent[a].pc = "syncing" /\ agent[a].now.about = t
    /\ run[a].pc = "query" \/ run[a].status = "SUCCESS"

PaidAhead(a) ==
    /\ agent[a].pc \in {"payouts", "syncing"} => \A t \in agent[a].paid :
          /\ providerRef[t] /\ transfer[t] \in {"SUCCESS", "REVERSED"}
          /\ \/ SettledOut(t) \/ Asked(a, t)
             \/ \E c \in agent[a].todo : c.about = t /\ c.ref /\ ~ c.held
    /\ agent[a].pc \in {"refunds", "applying", "answer"} => \A t \in agent[a].paid : SettledOut(t)

Applied(a, r) ==
    /\ agent[a].pc = "applying" /\ agent[a].now.about = r
    /\ clerk[DeskOf[a]].id = r /\ clerk[DeskOf[a]].status = "SUCCESS"

ReturnedAhead(a) ==
    /\ agent[a].pc \in {"refunds", "applying"} => \A r \in agent[a].returned :
          /\ gatewayRefund[r] = "SUCCESS"
          /\ \/ reversals[r] >= 1 \/ Applied(a, r)
             \/ \E c \in agent[a].todo : c.about = r
    /\ agent[a].pc = "answer" => \A r \in agent[a].returned : reversals[r] >= 1

Reported(a, t) ==
    \/ Reports(a, "PAYOUT_MISSING_PROVIDER_REFERENCE", t)
    \/ Reports(a, "PAYOUT_BLOCKED_BY_REFUND", t)

AfterStart == {"payments", "list payouts", "payouts", "syncing", "refunds", "applying", "answer"}

StuckAhead(a) ==
    /\ agent[a].pc \in AfterStart => \A t \in agent[a].stuck : attempt[t] # "NONE"
    /\ agent[a].pc \in {"payouts", "syncing"} /\ InScope(a, "PAYOUT") => \A t \in agent[a].stuck :
          Moved(t) \/ Reported(a, t) \/ \E c \in agent[a].todo : c.about = t /\ ~ c.ref
    /\ agent[a].pc \in {"refunds", "applying", "answer"} /\ InScope(a, "PAYOUT") =>
          \A t \in agent[a].stuck : Moved(t) \/ Reported(a, t)

Ahead(a) == PaidAhead(a) /\ ReturnedAhead(a) /\ StuckAhead(a)

\* What a run lists are rows of its tables.
ListsTyped(a) ==
    agent[a] # AgentIdle =>
        agent[a].paid \subseteq Txns /\ agent[a].returned \subseteq RefundIds
        /\ agent[a].stuck \subseteq Txns

LEMMA ListTypes ==
    ASSUME AgentsBacked, NEW a \in Agents
    PROVE  ListsTyped(a)
  BY AgentRecords DEF AgentsBacked, Working, ListsTyped

\* A run that is not at work has nothing ahead.
LEMMA NothingAhead ==
    ASSUME NEW a \in Agents, agent'[a].pc \in {"idle", "start", "fail"}
    PROVE  Ahead(a)'
  BY DEF Ahead, PaidAhead, ReturnedAhead, StuckAhead, AfterStart

\* What others do takes nothing back.
LEMMA OthersKeepAhead ==
    ASSUME AgentsBacked, Forward, NEW a \in Agents, Ahead(a),
           UNCHANGED <<agent[a], run[a], clerk[DeskOf[a]]>>,
           agent[a] # AgentIdle => recRun'[agent[a].run].scopes = recRun[agent[a].run].scopes
    PROVE  Ahead(a)'
<1>1. CASE agent[a] = AgentIdle
  BY <1>1, NothingAhead DEF AgentIdle
<1>2. CASE agent[a] # AgentIdle
  <2>1. ListsTyped(a)
    BY ListTypes
  <2>2. PaidAhead(a)'
    BY <1>2, <2>1 DEF Ahead, PaidAhead, Asked, Forward, ListsTyped
  <2>3. ReturnedAhead(a)'
    BY <1>2, <2>1 DEF Ahead, ReturnedAhead, Applied, Forward, RefundsForward, ListsTyped
  <2>4. InScope(a, "PAYOUT")' <=> InScope(a, "PAYOUT")
    BY <1>2 DEF InScope
  <2>5. StuckAhead(a)'
    <3>1. \A t \in Txns : Reported(a, t)' <=> Reported(a, t)
      BY DEF Reported, Reports
    <3>2. \A t \in agent[a].stuck :
             /\ attempt[t] # "NONE" => attempt'[t] # "NONE"
             /\ attempt[t] # "NONE" /\ Moved(t) => Moved(t)'
      BY <1>2, <2>1 DEF Forward, ListsTyped
    <3>3. \A t \in agent[a].stuck : t \in Txns
      BY <1>2, <2>1 DEF ListsTyped
    <3>4. agent'[a] = agent[a] /\ StuckAhead(a)
      BY DEF Ahead
    <3> HIDE DEF Moved, Reported
    <3>5. QED
      BY <2>4, <3>1, <3>2, <3>3, <3>4 DEF StuckAhead, AfterStart
  <2>6. QED
    BY <2>2, <2>3, <2>5 DEF Ahead
<1>3. QED
  BY <1>1, <1>2

\* The scopes of a run do not change.
ScopesKept ==
    \A i \in RunIds : recRun[i] # NoRun => recRun'[i].scopes = recRun[i].scopes

LEMMA NextScopes ==
    ASSUME BookingInv, [ReconciliationNext]_<<vars, reconciliationVars>>
    PROVE  ScopesKept
<1> USE DEF BookingInv, Booked, ReconciliationTypeOK
<1>1. CASE UNCHANGED recRun
  BY <1>1 DEF ScopesKept
<1>2. ASSUME NEW a \in Agents, StartRun(a) \/ FinishRun(a) \/ FailRun(a)
      PROVE  ScopesKept
  <2>1. agent[a] # AgentIdle /\ agent[a].run \in RunIds
    BY <1>2, AgentRecords DEF AgentsInv, AgentsBacked, Working, AgentAt, StartRun, FinishRun, FailRun
  <2>2. recRun[agent[a].run] \in RunRow
    BY <2>1, RunRows DEF AgentsBooked, AgentBooked
  <2>3. PICK status, n : recRun' = [recRun EXCEPT ![agent[a].run] =
                                       [recRun[agent[a].run] EXCEPT !.status = status, !.mismatches = n]]
    <3>1. CASE FinishRun(a)
      BY <3>1 DEF FinishRun
    <3>2. CASE StartRun(a) \/ FailRun(a)
      <4>1. PICK status : recRun' = [recRun EXCEPT ![agent[a].run].status = status]
        BY <3>2 DEF StartRun, FailRun
      <4>2. [recRun[agent[a].run] EXCEPT !.status = status] =
              [recRun[agent[a].run] EXCEPT !.status = status, !.mismatches = recRun[agent[a].run].mismatches]
        BY <2>2 DEF RunRow
      <4>3. QED
        BY <4>1, <4>2
    <3>3. QED
      BY <1>2, <3>1, <3>2
  <2> DEFINE row == [recRun[agent[a].run] EXCEPT !.status = status, !.mismatches = n]
  <2>4. row.scopes = recRun[agent[a].run].scopes
    BY <2>2 DEF RunRow
  <2>5. recRun' = [recRun EXCEPT ![agent[a].run] = row]
    BY <2>3
  <2> HIDE DEF row
  <2>6. QED
    BY <2>1, <2>4, <2>5 DEF ScopesKept
<1>3. ASSUME NEW i \in RunIds, recRun[i] = NoRun, \A k \in RunIds : k # i => recRun'[k] = recRun[k]
      PROVE  ScopesKept
  BY <1>3 DEF ScopesKept
<1>4. CASE \/ \E i \in RunIds, scopes \in ScopeChoices : RequestRun(i, scopes)
           \/ \E a \in Agents, i \in RunIds : ScheduledRun(a, i)
  BY <1>3, <1>4 DEF RequestRun, ScheduledRun
<1>5. ASSUME NEW a \in Agents, AgentStep(a)
      PROVE  ScopesKept
  BY <1>1, <1>2, <1>4, <1>5 DEF AgentStep, BeginRun, ComparePayments, ListPayouts, ListRefunds,
     ReportPayout, AskProvider, AskGateway, GatewayUnaware, SyncPayout, SyncRefund, UpdateThrows,
     ReadFails, AnswerRun, LeaveRun, CrashAgent, AgentOnly, runVars
<1>6. QED
  BY <1>1, <1>4, <1>5 DEF ReconciliationNext, OthersStep, EnqueueRun, LoseRequest, BeginResolve,
     WriteResolve, reconciliationVars

-----------------------------------------------------------------------------
(***************************************************************************)
(* The steps of a run.                                                     *)
(***************************************************************************)
\* It begins, and has nothing to repair yet.
LEMMA StartAhead ==
    ASSUME SettledInv, AgentsBacked, NEW a \in Agents, Ahead(a), StartRun(a) \/ ComparePayments(a)
    PROVE  Ahead(a)'
<1>1. UNCHANGED vars
  BY DEF StartRun, ComparePayments, AgentOnly
<1>2. UNCHANGED attempt
  BY <1>1 DEF vars, payoutVars, rowVars
<1>3. agent[a] \in Working
  BY DEF AgentsBacked, Working, StartRun, ComparePayments, AgentAt
<1>4. CASE StartRun(a)
  <2>1. agent'[a].pc = "payments" /\ agent'[a].stuck = Stuck
    BY <1>3, <1>4, AgentRecords DEF AgentsBacked, StartRun
  <2>2. \A t \in Stuck : attempt[t] # "NONE"
    BY DEF Stuck, SettledInv, RowsSettled
  <2>3. QED
    BY <1>2, <2>1, <2>2 DEF Ahead, PaidAhead, ReturnedAhead, StuckAhead
<1>5. CASE ComparePayments(a)
  <2>1. agent[a].pc = "payments"
    BY <1>5 DEF ComparePayments, AgentAt
  <2>2. agent'[a].pc = "list payouts" /\ agent'[a].stuck = agent[a].stuck
    BY <1>3, <1>5, AgentRecords DEF AgentsBacked, ComparePayments
  <2>3. \A t \in agent[a].stuck : attempt[t] # "NONE"
    BY <2>1 DEF Ahead, StuckAhead, AfterStart
  <2>4. QED
    BY <1>2, <2>2, <2>3 DEF Ahead, PaidAhead, ReturnedAhead, StuckAhead
<1>6. QED
  BY <1>4, <1>5

\* It lists payouts that are open; what its query leaves out is not its to repair.
LEMMA ListPayoutsAhead ==
    ASSUME AgentsBacked, NEW a \in Agents, Ahead(a), ListPayouts(a)
    PROVE  Ahead(a)'
<1>1. agent[a].pc = "list payouts" /\ agent[a] # AgentIdle /\ agent[a] \in Working
  BY DEF ListPayouts, AgentAt, AgentsBacked, Working
<1>2. UNCHANGED <<vars, recRun>>
  BY DEF ListPayouts, AgentOnly, runVars
<1>3. UNCHANGED <<attempt, transfer, providerRef, payout>>
  BY <1>2 DEF vars, payoutVars, rowVars, storeVars, providerVars
<1>0. PICK listed \in SUBSET PayoutCandidates :
        agent' = [agent EXCEPT
           ![a].pc = "payouts",
           ![a].paid = PaidOutside \ (PayoutCandidates \ listed),
           ![a].stuck = @ \ (PayoutCandidates \ listed),
           ![a].todo = {PayoutCopy(t) : t \in listed}]
  BY ListedPayouts
<1> DEFINE cut == PayoutCandidates \ listed
<1>4. /\ agent'[a].pc = "payouts" /\ agent'[a].stuck = agent[a].stuck \ cut
      /\ agent'[a].run = agent[a].run
      /\ agent'[a].paid = PaidOutside \ cut
      /\ agent'[a].todo = {PayoutCopy(t) : t \in listed}
  BY <1>0, <1>1, AgentRecords DEF AgentsBacked
<1>5. InScope(a, "PAYOUT")' <=> InScope(a, "PAYOUT")
  BY <1>2, <1>4 DEF InScope
<1>6. ASSUME NEW t \in agent'[a].paid
      PROVE  /\ providerRef[t] /\ transfer[t] = "SUCCESS"
             /\ \E c \in agent'[a].todo : c.about = t /\ c.ref /\ ~ c.held
  <2>1. t \in PaidOutside /\ t \notin cut
    BY <1>4, <1>6
  <2>2. t \in PayoutCandidates /\ providerRef[t] /\ ~ RefundHolds(t) /\ transfer[t] = "SUCCESS"
    BY <2>1 DEF PaidOutside, PayoutCandidates, PayoutCandidate
  <2>3. PayoutCopy(t) \in agent'[a].todo
    BY <1>4, <2>1, <2>2
  <2>4. QED
    BY <2>2, <2>3 DEF PayoutCopy
<1>7. ASSUME NEW t \in agent'[a].stuck
      PROVE  attempt[t] # "NONE" /\ t \in Txns /\ t \notin cut
  BY <1>1, <1>4, ListTypes DEF ListsTyped, Ahead, StuckAhead, AfterStart
<1>8. ASSUME NEW t \in Txns, ~ Moved(t), t \notin cut
      PROVE  \E c \in agent'[a].todo : c.about = t /\ ~ c.ref
  <2>1. t \in PayoutCandidates /\ ~ providerRef[t]
    BY <1>8 DEF Moved, PayoutCandidates, PayoutCandidate
  <2>2. PayoutCopy(t) \in agent'[a].todo
    BY <1>4, <1>8, <2>1
  <2>3. QED
    BY <2>1, <2>2 DEF PayoutCopy
<1> HIDE DEF cut
<1>9. PaidAhead(a)'
  BY <1>3, <1>4, <1>6 DEF PaidAhead
<1>10. StuckAhead(a)'
  <2>1. \A t \in Txns : Moved(t)' <=> Moved(t)
    BY <1>3 DEF Moved
  <2> HIDE DEF Moved
  <2>2. QED
    BY <1>3, <1>4, <1>5, <1>7, <1>8, <2>1 DEF StuckAhead
<1>11. QED
  BY <1>4, <1>9, <1>10 DEF Ahead, ReturnedAhead

\* It goes through the payouts: none is dropped before it is asked about or reported.
LEMMA PayoutsKeepAhead ==
    ASSUME AgentsBacked, Forward, NEW a \in Agents, Ahead(a), agent[a] # AgentIdle,
           agent[a].pc \in {"payouts", "syncing"}, agent'[a].pc \in {"payouts", "syncing"},
           UNCHANGED recRun, agent'[a].run = agent[a].run,
           agent'[a].paid = agent[a].paid, agent'[a].stuck = agent[a].stuck,
           agent[a].found \subseteq agent'[a].found,
           \A c \in agent[a].todo :
              \/ c \in agent'[a].todo
              \/ c.ref /\ ~ c.held /\ Asked(a, c.about)'
              \/ (c.held \/ ~ c.ref) /\ Reported(a, c.about)',
           \A t \in agent[a].paid : Asked(a, t) => Asked(a, t)' \/ SettledOut(t)'
    PROVE  Ahead(a)'
<1> HIDE DEF Asked, SettledOut, Moved
<1>1. ListsTyped(a)
  BY ListTypes
<1>2. InScope(a, "PAYOUT")' <=> InScope(a, "PAYOUT")
  BY DEF InScope
<1>3. \A t \in agent[a].stuck : Reported(a, t) => Reported(a, t)'
  BY DEF Reported, Reports
<1>4. ASSUME NEW t \in agent[a].paid
      PROVE  /\ providerRef'[t] /\ transfer'[t] \in {"SUCCESS", "REVERSED"}
             /\ \/ SettledOut(t)' \/ Asked(a, t)'
                \/ \E c \in agent'[a].todo : c.about = t /\ c.ref /\ ~ c.held
  <2>1. t \in Txns
    BY <1>1 DEF ListsTyped
  <2>2. /\ providerRef[t] /\ transfer[t] \in {"SUCCESS", "REVERSED"}
        /\ \/ SettledOut(t) \/ Asked(a, t)
           \/ \E c \in agent[a].todo : c.about = t /\ c.ref /\ ~ c.held
    BY DEF Ahead, PaidAhead
  <2>3. QED
    BY <2>1, <2>2 DEF Forward
<1>5. ASSUME NEW t \in agent[a].stuck
      PROVE  /\ attempt'[t] # "NONE"
             /\ InScope(a, "PAYOUT") =>
                  Moved(t)' \/ Reported(a, t)' \/ \E c \in agent'[a].todo : c.about = t /\ ~ c.ref
  <2>1. t \in Txns /\ attempt[t] # "NONE"
    BY <1>1 DEF ListsTyped, Ahead, StuckAhead, AfterStart
  <2>2. InScope(a, "PAYOUT") =>
           Moved(t) \/ Reported(a, t) \/ \E c \in agent[a].todo : c.about = t /\ ~ c.ref
    BY DEF Ahead, StuckAhead
  <2> HIDE DEF Reported
  <2>3. QED
    BY <1>3, <2>1, <2>2 DEF Forward
<1>6. PaidAhead(a)'
  BY <1>4 DEF PaidAhead
<1>7. StuckAhead(a)'
  <2> HIDE DEF Reported
  <2>1. QED
    BY <1>2, <1>5 DEF StuckAhead
<1>8. QED
  BY <1>6, <1>7 DEF Ahead, ReturnedAhead

LEMMA ReportAhead ==
    ASSUME AgentsBacked, Forward, NEW a \in Agents, Ahead(a), NEW c \in agent[a].todo,
           ReportPayout(a, c)
    PROVE  Ahead(a)'
<1> DEFINE f == Finding(IF c.held THEN "PAYOUT_BLOCKED_BY_REFUND"
                        ELSE "PAYOUT_MISSING_PROVIDER_REFERENCE", c.about)
<1>1. agent[a].pc = "payouts" /\ agent[a] # AgentIdle /\ agent[a] \in Working
  BY DEF ReportPayout, AgentAt, AgentsBacked, Working
<1>2. /\ agent'[a].pc = "payouts" /\ agent'[a].run = agent[a].run
      /\ agent'[a].paid = agent[a].paid /\ agent'[a].stuck = agent[a].stuck
      /\ agent'[a].todo = agent[a].todo \ {c} /\ agent'[a].found = agent[a].found \cup {f}
  BY <1>1, AgentRecords DEF AgentsBacked, ReportPayout
<1>3. UNCHANGED recRun /\ (c.held \/ ~ c.ref)
  BY DEF ReportPayout, AgentOnly, runVars
<1>4. Reported(a, c.about)'
  BY <1>2 DEF Reported, Reports
<1>5. \A t : ~ Asked(a, t)
  BY <1>1 DEF Asked
<1> HIDE DEF f
<1>6. QED
  BY <1>1, <1>2, <1>3, <1>4, <1>5, PayoutsKeepAhead

LEMMA AskAhead ==
    ASSUME AgentsBacked, Forward, NEW a \in Agents, Ahead(a), NEW c \in agent[a].todo,
           AskProvider(a, c), TypeInv
    PROVE  Ahead(a)'
<1>1. agent[a].pc = "payouts" /\ agent[a] # AgentIdle /\ agent[a] \in Working
  BY DEF AskProvider, AgentAt, AgentsBacked, Working
<1>2. /\ agent'[a].pc = "syncing" /\ agent'[a].run = agent[a].run
      /\ agent'[a].paid = agent[a].paid /\ agent'[a].stuck = agent[a].stuck
      /\ agent'[a].todo = agent[a].todo \ {c} /\ agent'[a].found = agent[a].found
      /\ agent'[a].now = c
  BY <1>1, AgentRecords DEF AgentsBacked, AskProvider
<1>3. UNCHANGED recRun /\ ~ c.held /\ c.ref
  BY DEF AskProvider, runVars
<1>4. run'[a].pc = "query"
  BY ReconciliationAssumption
     DEF ReconciliationAssumption, AskProvider, OnPayout, BeginSync, Told, TypeInv, TypeOK, PayoutTypeOK
<1>5. Asked(a, c.about)'
  BY <1>2, <1>4 DEF Asked
<1>6. \A t : ~ Asked(a, t)
  BY <1>1 DEF Asked
<1>7. QED
  BY <1>1, <1>2, <1>3, <1>5, <1>6, PayoutsKeepAhead

\* What the provider has made and a run has asked about is in the books when the
\* sync returns, or has bounced.
LEMMA SyncAsked ==
    ASSUME SettledInv, SettledInv', Forward, NEW a \in Agents, SyncPayout(a),
           NEW t \in Txns, Asked(a, t), providerRef[t], transfer[t] \in {"SUCCESS", "REVERSED"}
    PROVE  SettledOut(t)' \/ (UNCHANGED agent /\ Asked(a, t)')
<1> USE DEF SettledInv, ProviderInv, PromiseInv, BooksInv, TypeInv, TypeOK
<1>1. a \in Workers
  BY ReconciliationAssumption DEF ReconciliationAssumption
<1>2. SettledOut(t) => SettledOut(t)'
  BY <1>1 DEF Forward
<1>3. /\ debits[t] = 1 <=> life[t] \in PaidOut
      /\ debits'[t] = 1 <=> life'[t] \in PaidOut
  BY <1>1 DEF StoreBooks, DebitedOnCompletion
<1>4. run'[a] # Idle => UNCHANGED agent
  BY DEF SyncPayout
<1>5. agent[a].pc = "syncing" /\ agent[a].now.about = t
  BY DEF Asked
<1>6. QueryProvider(a, t) \/ ReadPayout(a, t) \/ WriteUpdate(a, t)
  BY <1>5 DEF SyncPayout, OnPayout
<1>7. run[a] # Idle => run[a] \in Run /\ run[a].txn \in Txns
  BY <1>1, RunTypes
<1>8. CASE QueryProvider(a, t)
  <2>1. run'[a] = Told(run[a].kind, run[a].txn, "read", transfer[t])
    BY <1>1, <1>8 DEF QueryProvider, Forget, PayoutTypeOK
  <2>2. CASE transfer[t] = "SUCCESS"
    <3>1. run'[a].status = "SUCCESS" /\ run'[a] # Idle
      BY <2>1, <2>2 DEF Told, Idle
    <3>2. QED
      BY <1>4, <1>5, <3>1 DEF Asked
  <2>3. CASE transfer[t] = "REVERSED"
    BY <1>2, <2>3 DEF SettledOut
  <2>4. QED
    BY <2>2, <2>3
<1>9. CASE ReadPayout(a, t)
  <2>1. run[a] # Idle /\ run[a].pc = "read" /\ run[a].status = "SUCCESS" /\ run[a] \in Run
    BY <1>7, <1>9 DEF ReadPayout, At, Asked
  <2>2. CASE payout[t] = "SUCCESS"
    BY <1>1, <1>2, <1>3, <2>2 DEF RowsSettled, SettledOut
  <2>3. CASE payout[t] # "SUCCESS"
    <3>1. run' = [run EXCEPT ![a].pc = "write", ![a].seenLife = life[t], ![a].seenPayout = payout[t]]
      BY <1>9, <2>3 DEF ReadPayout
    <3>2. run'[a].pc = "write" /\ run'[a].status = "SUCCESS" /\ run'[a] # Idle
      BY <1>1, <2>1, <3>1 DEF Run, PayoutTypeOK, Idle
    <3>3. QED
      BY <1>4, <1>5, <3>2 DEF Asked
  <2>4. QED
    BY <2>2, <2>3
<1>10. CASE WriteUpdate(a, t)
  <2>1. run[a] # Idle /\ run[a].pc = "write" /\ run[a].status = "SUCCESS" /\ run[a].txn = t
    BY <1>10 DEF WriteUpdate, At, Asked
  <2>2. MapStatus(run[a].status) = "SUCCESS"
    BY <2>1 DEF MapStatus
  <2>3. CASE Settles(a)
    <3>1. life'[t] \in PaidOut
      BY <1>1, <1>10, <2>3 DEF WriteUpdate, SettlePayout, StoreTypeOK, PaidOut
    <3>2. QED
      BY <1>3, <3>1 DEF SettledOut
  <2>4. CASE ~ Settles(a)
    BY <1>1, <1>2, <1>3, <2>1, <2>2, <2>4 DEF Settles, RowsSettled, SettledOut
  <2>5. QED
    BY <2>3, <2>4
<1>11. QED
  BY <1>6, <1>8, <1>9, <1>10

LEMMA SyncPayoutAhead ==
    ASSUME SettledInv, SettledInv', AgentsBacked, Forward, NEW a \in Agents, Ahead(a), SyncPayout(a)
    PROVE  Ahead(a)'
<1>1. agent[a].pc = "syncing" /\ agent[a] # AgentIdle /\ agent[a] \in Working
  BY DEF SyncPayout, AgentAt, AgentsBacked, Working
<1>2. UNCHANGED recRun
  BY DEF SyncPayout, runVars
<1>3. \A t \in agent[a].paid : Asked(a, t) => SettledOut(t)' \/ (UNCHANGED agent /\ Asked(a, t)')
  BY <1>1, SyncAsked, ListTypes DEF Ahead, PaidAhead, ListsTyped
<1>4. CASE UNCHANGED agent
  BY <1>1, <1>2, <1>3, <1>4, PayoutsKeepAhead
<1>5. CASE Compared(a, "payouts", "PAYOUT_STATUS_MISMATCH", MapStatus(run[a].status))
  <2>1. /\ agent'[a].pc = "payouts" /\ agent'[a].run = agent[a].run
        /\ agent'[a].paid = agent[a].paid /\ agent'[a].stuck = agent[a].stuck
        /\ agent'[a].todo = agent[a].todo /\ agent[a].found \subseteq agent'[a].found
    BY <1>1, <1>5, AgentRecords DEF AgentsBacked, Compared
  <2>2. ~ UNCHANGED agent
    BY <1>1, <2>1
  <2>3. QED
    BY <1>1, <1>2, <1>3, <2>1, <2>2, PayoutsKeepAhead
<1>6. QED
  BY <1>4, <1>5 DEF SyncPayout

\* It is through with the payouts, and lists refunds that are open.
LEMMA ListRefundsAhead ==
    ASSUME AgentsBacked, NEW a \in Agents, Ahead(a), ListRefunds(a)
    PROVE  Ahead(a)'
<1> DEFINE copy(r) == [about |-> r, status |-> refund[r].status]
<1>1. agent[a].pc = "payouts" /\ agent[a].todo = {} /\ agent[a] # AgentIdle /\ agent[a] \in Working
  BY DEF ListRefunds, AgentAt, AgentsBacked, Working
<1>2. UNCHANGED <<vars, recRun>>
  BY DEF ListRefunds, AgentOnly, runVars
<1>3. UNCHANGED <<attempt, transfer, providerRef, payout, debits, gatewayRefund>>
  BY <1>2 DEF vars, payoutVars, rowVars, storeVars, providerVars, ledgerVars, refundVars
<1>0. PICK listed \in SUBSET RefundCandidates :
        agent' = [agent EXCEPT
           ![a].pc = "refunds",
           ![a].returned = ReturnedOutside \ (RefundCandidates \ listed),
           ![a].todo = {copy(r) : r \in listed}]
  BY ListedRefunds
<1>4. /\ agent'[a].pc = "refunds" /\ agent'[a].stuck = agent[a].stuck
      /\ agent'[a].run = agent[a].run /\ agent'[a].paid = agent[a].paid
      /\ agent'[a].found = agent[a].found
      /\ agent'[a].returned = ReturnedOutside \ (RefundCandidates \ listed)
      /\ agent'[a].todo = {copy(r) : r \in listed}
  BY <1>0, <1>1, AgentRecords DEF AgentsBacked
<1>5. InScope(a, "PAYOUT")' <=> InScope(a, "PAYOUT")
  BY <1>2, <1>4 DEF InScope
<1>6. \A t \in agent[a].paid : SettledOut(t) /\ SettledOut(t)'
  <2>1. \A t : ~ Asked(a, t)
    BY <1>1 DEF Asked
  <2> HIDE DEF Asked
  <2>2. QED
    BY <1>1, <1>3, <2>1 DEF Ahead, PaidAhead, SettledOut
<1>7. PaidAhead(a)'
  BY <1>4, <1>6 DEF PaidAhead
<1>8. StuckAhead(a)'
  <2>1. \A t \in agent[a].stuck : attempt[t] # "NONE" /\ (Moved(t) => Moved(t)')
    BY <1>1, <1>3 DEF Ahead, StuckAhead, AfterStart, Moved
  <2>2. \A t \in agent[a].stuck : Reported(a, t) => Reported(a, t)'
    BY <1>4 DEF Reported, Reports
  <2>3. InScope(a, "PAYOUT") => \A t \in agent[a].stuck : Moved(t) \/ Reported(a, t)
    BY <1>1 DEF Ahead, StuckAhead
  <2> HIDE DEF Moved, Reported
  <2>4. QED
    BY <1>3, <1>4, <1>5, <2>1, <2>2, <2>3 DEF StuckAhead
<1>9. ReturnedAhead(a)'
  <2>1. ASSUME NEW r \in agent'[a].returned
        PROVE  gatewayRefund'[r] = "SUCCESS" /\ \E c \in agent'[a].todo : c.about = r
    <3>1. r \in ReturnedOutside /\ r \notin RefundCandidates \ listed
      BY <1>4, <2>1
    <3>2. r \in RefundCandidates /\ gatewayRefund[r] = "SUCCESS"
      BY <3>1 DEF ReturnedOutside, RefundCandidates
    <3>3. copy(r) \in agent'[a].todo
      BY <1>4, <3>1, <3>2
    <3>4. QED
      BY <1>3, <3>2, <3>3
  <2>2. QED
    BY <1>4, <2>1 DEF ReturnedAhead
<1>10. QED
  BY <1>7, <1>8, <1>9 DEF Ahead

\* It goes through the refunds: none is dropped before it is asked about.
LEMMA RefundsKeepAhead ==
    ASSUME AgentsBacked, Forward, NEW a \in Agents, Ahead(a), agent[a] # AgentIdle,
           agent[a].pc \in {"refunds", "applying"}, agent'[a].pc \in {"refunds", "applying"},
           UNCHANGED recRun, agent'[a].run = agent[a].run,
           agent'[a].paid = agent[a].paid, agent'[a].stuck = agent[a].stuck,
           agent'[a].returned = agent[a].returned, agent[a].found \subseteq agent'[a].found,
           \A c \in agent[a].todo :
              c \in agent'[a].todo \/ (gatewayRefund[c.about] = "SUCCESS" => Applied(a, c.about)'),
           \A r \in agent[a].returned : Applied(a, r) => Applied(a, r)' \/ reversals'[r] >= 1
    PROVE  Ahead(a)'
<1> HIDE DEF Applied, SettledOut, Moved
<1>1. ListsTyped(a)
  BY ListTypes
<1>2. InScope(a, "PAYOUT")' <=> InScope(a, "PAYOUT")
  BY DEF InScope
<1>3. PaidAhead(a)'
  BY <1>1 DEF Ahead, PaidAhead, Forward, ListsTyped
<1>4. StuckAhead(a)'
  <2>1. \A t \in agent[a].stuck : Reported(a, t) => Reported(a, t)'
    BY DEF Reported, Reports
  <2>2. \A t \in agent[a].stuck :
          t \in Txns /\ attempt[t] # "NONE" /\ attempt'[t] # "NONE" /\ (Moved(t) => Moved(t)')
    BY <1>1 DEF ListsTyped, Ahead, StuckAhead, AfterStart, Forward
  <2>3. InScope(a, "PAYOUT") => \A t \in agent[a].stuck : Moved(t) \/ Reported(a, t)
    BY DEF Ahead, StuckAhead
  <2> HIDE DEF Reported
  <2>4. QED
    BY <1>2, <2>1, <2>2, <2>3 DEF StuckAhead
<1>5. ASSUME NEW r \in agent[a].returned
      PROVE  /\ gatewayRefund'[r] = "SUCCESS"
             /\ \/ reversals'[r] >= 1 \/ Applied(a, r)'
                \/ \E c \in agent'[a].todo : c.about = r
  <2>1. r \in RefundIds
    BY <1>1 DEF ListsTyped
  <2>2. /\ gatewayRefund[r] = "SUCCESS"
        /\ \/ reversals[r] >= 1 \/ Applied(a, r)
           \/ \E c \in agent[a].todo : c.about = r
    BY DEF Ahead, ReturnedAhead
  <2>3. QED
    BY <2>1, <2>2 DEF Forward, RefundsForward
<1>6. ReturnedAhead(a)'
  BY <1>5 DEF ReturnedAhead
<1>7. QED
  BY <1>3, <1>4, <1>6 DEF Ahead

LEMMA AskGatewayAhead ==
    ASSUME TypeInv, AgentsBacked, Forward, NEW a \in Agents, Ahead(a), NEW c \in agent[a].todo,
           AskGateway(a, c)
    PROVE  Ahead(a)'
<1>1. agent[a].pc = "refunds" /\ agent[a] # AgentIdle /\ agent[a] \in Working
  BY DEF AskGateway, AgentAt, AgentsBacked, Working
<1>2. /\ agent'[a].pc = "applying" /\ agent'[a].run = agent[a].run
      /\ agent'[a].paid = agent[a].paid /\ agent'[a].stuck = agent[a].stuck
      /\ agent'[a].returned = agent[a].returned /\ agent'[a].found = agent[a].found
      /\ agent'[a].todo = agent[a].todo \ {c} /\ agent'[a].now = c
  BY <1>1, AgentRecords DEF AgentsBacked, AskGateway
<1>3. UNCHANGED recRun
  BY DEF AskGateway, runVars
<1>4. clerk'[DeskOf[a]] = UpdateRefund(c.about, gatewayRefund[c.about])
  BY ReconciliationAssumption
     DEF ReconciliationAssumption, AskGateway, OnRefund, BeginRefundSync, TypeInv, TypeOK, RefundTypeOK
<1>5. gatewayRefund[c.about] = "SUCCESS" => Applied(a, c.about)'
  BY <1>2, <1>4 DEF Applied, UpdateRefund
<1>6. \A r : ~ Applied(a, r)
  BY <1>1 DEF Applied
<1>7. QED
  BY <1>1, <1>2, <1>3, <1>5, <1>6, RefundsKeepAhead

\* What the gateway has made and a run has asked about is reversed when the sync returns.
LEMMA SyncApplied ==
    ASSUME TypeInv, RefundRowsSettled, Forward, NEW a \in Agents, SyncRefund(a),
           NEW r \in RefundIds, Applied(a, r)
    PROVE  reversals'[r] >= 1 \/ (UNCHANGED agent /\ Applied(a, r)')
<1> DEFINE d == DeskOf[a]
<1> USE DEF TypeInv, TypeOK, RefundTypeOK
<1>1. d \in Clerks
  BY ReconciliationAssumption DEF ReconciliationAssumption
<1>2. agent[a].pc = "applying" /\ agent[a].now.about = r /\ clerk[d].id = r /\ clerk[d].status = "SUCCESS"
  BY DEF Applied
<1>3. CASE ReadRefund(d)
  <2>1. clerk[d] \in Update
    BY <1>1, <1>3, ClerkRecords DEF ReadRefund, Busy
  <2>2. clerk'[d].pc = "write" /\ clerk'[d].id = r /\ clerk'[d].status = "SUCCESS"
    BY <1>1, <1>2, <1>3, <2>1 DEF ReadRefund, Update
  <2>3. UNCHANGED agent
    BY <2>2 DEF SyncRefund, ClerkIdle
  <2>4. QED
    BY <1>2, <2>2, <2>3 DEF Applied
<1>4. CASE WriteRefund(d)
  <2>1. clerk[d] # ClerkIdle /\ clerk[d].pc = "write"
    BY <1>4 DEF WriteRefund, Busy
  <2>2. CASE SettlesRefund(d)
    BY <1>2, <1>4, <2>2 DEF WriteRefund
  <2>3. CASE ~ SettlesRefund(d)
    BY <1>1, <1>2, <2>1, <2>3 DEF SettlesRefund, RefundRowsSettled, Forward, RefundsForward
  <2>4. QED
    BY <2>2, <2>3
<1>5. QED
  BY <1>3, <1>4 DEF SyncRefund, OnRefund

LEMMA SyncRefundAhead ==
    ASSUME SettledInv, AgentsBacked, Forward, NEW a \in Agents, Ahead(a), SyncRefund(a)
    PROVE  Ahead(a)'
<1>1. agent[a].pc = "applying" /\ agent[a] # AgentIdle /\ agent[a] \in Working
  BY DEF SyncRefund, AgentAt, AgentsBacked, Working
<1>2. UNCHANGED recRun
  BY DEF SyncRefund, runVars
<1>3. \A r \in agent[a].returned : Applied(a, r) => reversals'[r] >= 1 \/ (UNCHANGED agent /\ Applied(a, r)')
  BY <1>1, SyncApplied, ListTypes DEF ListsTyped, SettledInv, ProviderInv, PromiseInv, BooksInv
<1>4. CASE UNCHANGED agent
  BY <1>1, <1>2, <1>3, <1>4, RefundsKeepAhead
<1>5. CASE Compared(a, "refunds", "REFUND_STATUS_MISMATCH", MapRefundStatus(clerk[DeskOf[a]].status))
  <2>1. /\ agent'[a].pc = "refunds" /\ agent'[a].run = agent[a].run
        /\ agent'[a].paid = agent[a].paid /\ agent'[a].stuck = agent[a].stuck
        /\ agent'[a].returned = agent[a].returned
        /\ agent'[a].todo = agent[a].todo /\ agent[a].found \subseteq agent'[a].found
    BY <1>1, <1>5, AgentRecords DEF AgentsBacked, Compared
  <2>2. ~ UNCHANGED agent
    BY <1>1, <2>1
  <2>3. QED
    BY <1>1, <1>2, <1>3, <2>1, <2>2, RefundsKeepAhead
<1>6. QED
  BY <1>4, <1>5 DEF SyncRefund

\* It ends when nothing is left to ask.
LEMMA FinishAhead ==
    ASSUME AgentsBacked, Forward, NEW a \in Agents, Ahead(a), FinishRun(a),
           recRun'[agent[a].run].scopes = recRun[agent[a].run].scopes
    PROVE  Ahead(a)'
<1>1. agent[a].pc = "refunds" /\ agent[a].todo = {} /\ agent[a] # AgentIdle /\ agent[a] \in Working
  BY DEF FinishRun, AgentAt, AgentsBacked, Working
<1>2. /\ agent'[a].pc = "answer" /\ agent'[a].run = agent[a].run
      /\ agent'[a].paid = agent[a].paid /\ agent'[a].stuck = agent[a].stuck
      /\ agent'[a].returned = agent[a].returned /\ agent'[a].found = agent[a].found
  BY <1>1, AgentRecords DEF AgentsBacked, FinishRun, Proceed
<1>3. ListsTyped(a)
  BY ListTypes
<1>4. InScope(a, "PAYOUT")' <=> InScope(a, "PAYOUT")
  BY <1>2 DEF InScope
<1> HIDE DEF SettledOut, Moved
<1>5. PaidAhead(a)'
  BY <1>1, <1>2, <1>3 DEF Ahead, PaidAhead, Forward, ListsTyped
<1>6. ReturnedAhead(a)'
  BY <1>1, <1>2, <1>3 DEF Ahead, ReturnedAhead, Applied, Forward, RefundsForward, ListsTyped
<1>7. StuckAhead(a)'
  <2>1. \A t \in agent[a].stuck : Reported(a, t) => Reported(a, t)'
    BY <1>2 DEF Reported, Reports
  <2>2. \A t \in agent[a].stuck :
          t \in Txns /\ attempt[t] # "NONE" /\ attempt'[t] # "NONE" /\ (Moved(t) => Moved(t)')
    BY <1>1, <1>3 DEF ListsTyped, Ahead, StuckAhead, AfterStart, Forward
  <2>3. InScope(a, "PAYOUT") => \A t \in agent[a].stuck : Moved(t) \/ Reported(a, t)
    BY <1>1 DEF Ahead, StuckAhead
  <2> HIDE DEF Reported
  <2>4. QED
    BY <1>2, <1>4, <2>1, <2>2, <2>3 DEF StuckAhead
<1>8. QED
  BY <1>5, <1>6, <1>7 DEF Ahead

\* A run that begins, throws, answers or dies has nothing to repair.
LEMMA LeavingAhead ==
    ASSUME AgentsBacked, NEW a \in Agents,
           \/ \E i \in RunIds : BeginRun(a, i) \/ ScheduledRun(a, i)
           \/ \E c \in TodoOf(a) : GatewayUnaware(a, c)
           \/ UpdateThrows(a) \/ ReadFails(a) \/ FailRun(a) \/ AnswerRun(a) \/ LeaveRun(a)
           \/ CrashAgent(a)
    PROVE  Ahead(a)'
<1>1. CASE \E i \in RunIds : BeginRun(a, i) \/ ScheduledRun(a, i)
  BY <1>1, NothingAhead DEF BeginRun, ScheduledRun, Begun, AgentsBacked
<1>2. CASE FailRun(a) \/ AnswerRun(a) \/ LeaveRun(a) \/ CrashAgent(a)
  <2>1. agent' = [agent EXCEPT ![a] = AgentIdle]
    BY <1>2 DEF FailRun, AnswerRun, LeaveRun, CrashAgent, Retry
  <2>2. QED
    BY <2>1, NothingAhead DEF AgentsBacked, AgentIdle
<1>3. CASE (\E c \in TodoOf(a) : GatewayUnaware(a, c)) \/ UpdateThrows(a) \/ ReadFails(a)
  <2>1. agent[a] \in Working
    BY <1>3 DEF GatewayUnaware, UpdateThrows, ReadFails, AgentAt, AgentsBacked, Working
  <2>2. agent'[a].pc = "fail"
    BY <1>3, <2>1, AgentRecords DEF AgentsBacked, GatewayUnaware, UpdateThrows, ReadFails, Proceed
  <2>3. QED
    BY <2>2, NothingAhead
<1>4. QED
  BY <1>1, <1>2, <1>3

LEMMA AgentKeepsAhead ==
    ASSUME SettledInv, SettledInv', AgentsBacked, Forward, NEW a \in Agents, Ahead(a),
           agent[a] # AgentIdle => recRun'[agent[a].run].scopes = recRun[agent[a].run].scopes,
           AgentStep(a)
    PROVE  Ahead(a)'
<1>1. TypeInv
  BY DEF SettledInv, ProviderInv, PromiseInv, BooksInv
<1>2. ASSUME NEW c \in TodoOf(a), ReportPayout(a, c) \/ AskProvider(a, c) \/ AskGateway(a, c)
      PROVE  Ahead(a)'
  <2>1. c \in agent[a].todo
    BY <1>2 DEF ReportPayout, AskProvider, AskGateway
  <2>2. QED
    BY <1>1, <1>2, <2>1, ReportAhead, AskAhead, AskGatewayAhead
<1>3. CASE FinishRun(a)
  BY <1>3, FinishAhead DEF FinishRun, AgentAt
<1>4. QED
  BY <1>2, <1>3, StartAhead, ListPayoutsAhead, SyncPayoutAhead, ListRefundsAhead, SyncRefundAhead,
     LeavingAhead DEF AgentStep

-----------------------------------------------------------------------------
(***************************************************************************)
(* The steps of others.                                                    *)
(***************************************************************************)
\* A sync of a payout concerns the worker that makes it, a sync of a refund the clerk.
LEMMA WorkerAlone ==
    ASSUME TypeInv, NEW b \in Agents, NEW t,
           \/ OnPayout(BeginSync(b, t))
           \/ OnPayout(QueryProvider(b, t) \/ ReadPayout(b, t) \/ WriteUpdate(b, t))
           \/ OnPayout(UpdateRejected(b, t) \/ CrashRun(b))
    PROVE  (\A v \in Workers \ {b} : run'[v] = run[v]) /\ UNCHANGED clerk
<1>1. UNCHANGED clerk
  BY DEF OnPayout, refundVars
<1>2. \E x : run' = [run EXCEPT ![b] = x]
  <2>1. CASE ReadPayout(b, t) /\ payout[t] = "SUCCESS" /\ MapStatus(run[b].status) = "SUCCESS"
    BY <2>1 DEF ReadPayout, EndUpdate, Finish, Forget
  <2>2. CASE ReadPayout(b, t) /\ ~ (payout[t] = "SUCCESS" /\ MapStatus(run[b].status) = "SUCCESS")
    BY <2>2 DEF ReadPayout
  <2>3. CASE QueryProvider(b, t) \/ WriteUpdate(b, t)
    BY <2>3 DEF QueryProvider, WriteUpdate, EndUpdate, Finish, Forget
  <2>4. CASE BeginSync(b, t) \/ UpdateRejected(b, t) \/ CrashRun(b)
    BY <2>4 DEF BeginSync, UpdateRejected, Throw, CrashRun
  <2>5. QED
    BY <2>1, <2>2, <2>3, <2>4 DEF OnPayout
<1>3. QED
  BY <1>1, <1>2 DEF TypeInv, TypeOK, PayoutTypeOK

LEMMA ClerkAlone ==
    ASSUME TypeInv, NEW b \in Agents,
           \/ \E r : OnRefund(BeginRefundSync(DeskOf[b], r))
           \/ OnRefund(ReadRefund(DeskOf[b]) \/ WriteRefund(DeskOf[b]))
           \/ OnRefund(RefundRejected(DeskOf[b]) \/ CrashClerk(DeskOf[b]))
    PROVE  (\A c \in Clerks \ {DeskOf[b]} : clerk'[c] = clerk[c]) /\ UNCHANGED run
<1>1. UNCHANGED run
  BY DEF OnRefund, payoutVars
<1>2. \E x : clerk' = [clerk EXCEPT ![DeskOf[b]] = x]
  <2>1. CASE ReadRefund(DeskOf[b])
    BY <2>1 DEF ReadRefund
  <2>2. CASE ~ ReadRefund(DeskOf[b])
    BY <2>2 DEF OnRefund, BeginRefundSync, WriteRefund, RefundRejected, CrashClerk, EndClerk
  <2>3. QED
    BY <2>1, <2>2
<1>3. QED
  BY <1>1, <1>2 DEF TypeInv, TypeOK, RefundTypeOK

\* So a run has its worker and its clerk to itself.
LEMMA AgentAlone ==
    ASSUME TypeInv, AgentsBacked, NEW a \in Agents, NEW b \in Agents, a # b, AgentStep(b)
    PROVE  UNCHANGED <<agent[a], run[a], clerk[DeskOf[a]]>>
<1>1. a \in Workers /\ DeskOf[a] \in Clerks /\ DeskOf[a] # DeskOf[b]
  BY ReconciliationAssumption DEF ReconciliationAssumption
<1>2. UNCHANGED agent[a]
  BY DEF AgentsBacked, AgentStep, BeginRun, ScheduledRun, StartRun, ComparePayments, ListPayouts,
     ListRefunds, ReportPayout, AskProvider, AskGateway, GatewayUnaware, SyncPayout, SyncRefund,
     Compared, UpdateThrows, ReadFails, Proceed, FinishRun, FailRun, AnswerRun, LeaveRun, Retry,
     CrashAgent
<1>3. CASE UNCHANGED <<run, clerk>>
  BY <1>2, <1>3
<1>4. CASE \/ \E t : \/ OnPayout(BeginSync(b, t))
                     \/ OnPayout(QueryProvider(b, t) \/ ReadPayout(b, t) \/ WriteUpdate(b, t))
                     \/ OnPayout(UpdateRejected(b, t) \/ CrashRun(b))
  BY <1>1, <1>2, <1>4, WorkerAlone
<1>5. CASE \/ \E r : OnRefund(BeginRefundSync(DeskOf[b], r))
           \/ OnRefund(ReadRefund(DeskOf[b]) \/ WriteRefund(DeskOf[b]))
           \/ OnRefund(RefundRejected(DeskOf[b]) \/ CrashClerk(DeskOf[b]))
  BY <1>1, <1>2, <1>5, ClerkAlone
<1>6. UNCHANGED vars => UNCHANGED <<run, clerk>>
  BY DEF vars, payoutVars, refundVars
<1>7. CASE \E c \in TodoOf(b) : AskProvider(b, c) \/ AskGateway(b, c)
  BY <1>4, <1>5, <1>7 DEF AskProvider, AskGateway
<1>8. CASE SyncPayout(b) \/ SyncRefund(b)
  BY <1>4, <1>5, <1>8 DEF SyncPayout, SyncRefund
<1>9. CASE UpdateThrows(b) \/ CrashAgent(b)
  <2>1. \/ \E t : OnPayout(UpdateRejected(b, t) \/ CrashRun(b))
        \/ OnRefund(RefundRejected(DeskOf[b]) \/ CrashClerk(DeskOf[b]))
        \/ UNCHANGED vars
    BY <1>9 DEF UpdateThrows, CrashAgent, OnPayout, OnRefund
  <2>2. QED
    BY <1>3, <1>4, <1>5, <1>6, <2>1
<1>10. QED
  BY <1>3, <1>6, <1>7, <1>8, <1>9
     DEF AgentStep, BeginRun, ScheduledRun, StartRun, ComparePayments, ListPayouts, ListRefunds,
         ReportPayout, GatewayUnaware, ReadFails, FinishRun, FailRun, AnswerRun, LeaveRun, AgentOnly

-----------------------------------------------------------------------------
RepairInv == BookingInv /\ SettledInv /\ \A a \in Agents : Ahead(a)

LEMMA InitRepairs == Init /\ ReconciliationInit => RepairInv
<1> SUFFICES ASSUME Init, ReconciliationInit PROVE RepairInv
  OBVIOUS
<1>1. \A a \in Agents : agent[a].pc = "idle"
  BY DEF ReconciliationInit, AgentIdle
<1>2. \A a \in Agents : Ahead(a)
  BY <1>1 DEF Ahead, PaidAhead, ReturnedAhead, StuckAhead, AfterStart
<1>3. QED
  BY <1>2, InitBooked, InitSettled DEF RepairInv

LEMMA NextRepairs ==
    RepairInv /\ [ReconciliationNext]_<<vars, reconciliationVars>> => RepairInv'
<1> SUFFICES ASSUME RepairInv, [ReconciliationNext]_<<vars, reconciliationVars>>
             PROVE  RepairInv'
  OBVIOUS
<1> USE DEF RepairInv
<1>1. BookingInv' /\ [Next]_vars /\ AgentsBacked /\ TypeInv
  BY NextBooked, NextAgents DEF BookingInv, AgentsInv
<1>2. SettledInv' /\ Forward
  BY <1>1, NextSettled
<1>3. \A b \in Agents : agent[b] # AgentIdle => recRun'[agent[b].run].scopes = recRun[agent[b].run].scopes
  <2>1. \A b \in Agents : agent[b] # AgentIdle => agent[b].run \in RunIds
    BY <1>1, AgentRecords DEF AgentsBacked, Working
  <2>2. QED
    BY <2>1, NextScopes DEF ScopesKept, BookingInv, Booked, AgentsBooked, AgentBooked
<1>4. ASSUME NEW a \in Agents
      PROVE  Ahead(a)'
  <2>1. CASE UNCHANGED <<agent[a], run[a], clerk[DeskOf[a]]>>
    BY <1>1, <1>2, <1>3, <2>1, OthersKeepAhead
  <2>2. ASSUME NEW b \in Agents, AgentStep(b)
        PROVE  Ahead(a)'
    <3>1. CASE b = a
      BY <1>1, <1>2, <1>3, <2>2, <3>1, AgentKeepsAhead
    <3>2. CASE b # a
      BY <1>1, <2>1, <2>2, <3>2, AgentAlone
    <3>3. QED
      BY <3>1, <3>2
  <2>3. CASE OthersStep
    BY <2>1, <2>3 DEF OthersStep, reconciliationVars
  <2>4. CASE UNCHANGED <<vars, agent>>
    BY <2>1, <2>4 DEF vars, payoutVars, refundVars
  <2>5. QED
    BY <2>2, <2>3, <2>4
       DEF ReconciliationNext, RequestRun, EnqueueRun, LoseRequest, BeginResolve, WriteResolve,
           reconciliationVars
<1>5. QED
  BY <1>1, <1>2, <1>4

\* While a run goes through its lists, whatever it has still to repair is settled,
\* being asked about, or still on the list (reconcilePayouts, reconcileRefunds).
THEOREM RunsRepair == ReconciliationSpec => []RepairInv
  BY InitRepairs, NextRepairs, PTL DEF ReconciliationSpec

\* A run that completes has repaired what it listed: a transfer that the provider
\* had made is debited, unless it has bounced, and a refund that the gateway had made
\* is reversed, for any number of runs, workers, clerks, crashes and webhooks.
THEOREM RepairsAreSettled == ReconciliationSpec => []RepairsSettled
<1>1. RepairInv => RepairsSettled
  BY DEF RepairInv, Ahead, PaidAhead, ReturnedAhead, SettledOut, RepairsSettled, Completed, AgentAt
<1>2. QED
  BY <1>1, RunsRepair, PTL

\* A payout that was claimed by a run that died before it reached the provider is
\* reported by every run over payouts that completes, unless it has been moved or
\* the run's query, which is limited, took as many others in its place.
THEOREM StuckAreReported == ReconciliationSpec => []StuckIsReported
<1>1. RepairInv => StuckIsReported
  BY DEF RepairInv, Ahead, StuckAhead, Reported, Moved, StuckIsReported, Completed, AgentAt
<1>2. QED
  BY <1>1, RunsRepair, PTL
=============================================================================
