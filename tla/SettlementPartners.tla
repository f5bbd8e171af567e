--------------------------- MODULE SettlementPartners ---------------------------
(***************************************************************************)
(* The system and those it works with, for every value of the constants.   *)
(* The payout provider: one request per transfer, one PAYOUT_SUBMITTED,    *)
(* and no debit without a transfer that the provider has made.  The        *)
(* gateway: what the books reverse it has refunded, and a transfer is      *)
(* REFUNDED exactly when one of its refunds has been reversed.             *)
(***************************************************************************)
EXTENDS SettlementPromise

(***************************************************************************)
(* The inductive invariant.  Only the run that claimed the payout is       *)
(* between its request and the record of the answer; a run that reports a  *)
(* success was told so by a provider that has made the transfer.           *)
(***************************************************************************)
Calling(w, t) == run[w] # Idle /\ run[w].txn = t /\ run[w].pc \in {"call", "record"}

OneCaller ==
    \A t \in Txns :
        /\ attempt[t] = "NONE" => requests[t] = 0
        /\ requests[t] <= 1 /\ submissions[t] <= requests[t]
        /\ \A w \in Workers : Calling(w, t) =>
              /\ submissions[t] = 0
              /\ run[w].pc = "call" <=> requests[t] = 0
              /\ \A v \in Workers : Calling(v, t) => v = w

Made(t) == transfer[t] \in {"SUCCESS", "REVERSED"}

SuccessIsMade ==
    /\ \A w \in Workers : run[w] # Idle /\ run[w].status = "SUCCESS" => Made(run[w].txn)
    /\ \A t \in Txns : "SUCCESS" \in notices[t] => Made(t)
    /\ \A t \in Txns : debits[t] # 0 => Made(t)

ProviderInv == PromiseInv /\ OneCaller /\ SuccessIsMade

-----------------------------------------------------------------------------
\* A step that begins no call leaves the callers as they are.
LEMMA NoNewCaller ==
    ASSUME OneCaller, UNCHANGED <<requests, submissions>>,
           \A t \in Txns : attempt'[t] = "NONE" => attempt[t] = "NONE",
           \A w \in Workers, t \in Txns :
              Calling(w, t)' => Calling(w, t) /\ run'[w].pc = run[w].pc
    PROVE  OneCaller'
  BY DEF OneCaller

\* Every step of a run keeps to one caller per transfer: the claim admits one
\* run, and only that run makes the request and records its answer.
LEMMA RunStepOneCaller ==
    ASSUME PromiseInv, OneCaller, NEW w \in Workers, NEW t \in Txns, RunStep(w, t)
    PROVE  OneCaller'
<1> USE DEF PromiseInv, BooksInv, TypeInv, TypeOK, PayoutTypeOK, At, Idle
<1>0. \A x \in Txns : attempt'[x] = "NONE" => attempt[x] = "NONE"
  BY RunStepKeepsAttempts DEF AttemptsKept
<1>1. CASE /\ UNCHANGED <<requests, submissions>>
           /\ \A v \in Workers \ {w} : run'[v] = run[v]
           /\ \/ run'[w] = Idle
              \/ run'[w].pc \notin {"call", "record"}
  BY <1>0, <1>1, NoNewCaller DEF Calling
<1>2. CASE SubmitPayout(w, t)
  <2>1. attempt[t] = "NONE"
    BY <1>2 DEF SubmitPayout, CanSubmit
  <2>2. requests[t] = 0 /\ submissions[t] = 0
    BY <2>1 DEF OneCaller
  <2>3. \A v \in Workers : ~ Calling(v, t)
    BY <2>1 DEF Calling, RunsAfterAttempt
  <2>4. /\ run' = [run EXCEPT ![w] = Told(run[w].kind, t, "call", "NONE")]
        /\ attempt' = [attempt EXCEPT ![t] = "PROCESSING"]
        /\ UNCHANGED <<requests, submissions>>
    BY <1>2 DEF SubmitPayout, Forget, providerVars
  <2>5. run'[w].pc = "call" /\ run'[w].txn = t /\ \A v \in Workers \ {w} : run'[v] = run[v]
    BY <2>4 DEF Told
  <2>6. QED
    BY <1>0, <2>2, <2>3, <2>4, <2>5 DEF OneCaller, Calling
<1>3. CASE \/ \E s \in TransferStates : CallAnswered(w, t, s) \/ CallAnswerLost(w, t, s)
           \/ CallRefused(w, t)
  <2>1. Calling(w, t) /\ run[w].pc = "call"
    BY <1>3 DEF CallAnswered, CallAnswerLost, CallRefused, Calling
  <2>2. /\ requests[t] = 0 /\ submissions[t] = 0
        /\ \A v \in Workers : Calling(v, t) => v = w
    BY <2>1 DEF OneCaller
  <2>3. attempt[t] # "NONE"
    BY <2>1 DEF Calling, RunsAfterAttempt
  <2>4. /\ requests' = [requests EXCEPT ![t] = @ + 1]
        /\ UNCHANGED <<submissions, attempt>>
    BY <1>3 DEF CallAnswered, CallAnswerLost, CallRefused, rowVars
  <2>5. /\ run'[w].pc \in {"record", "giveup"} /\ run'[w].txn = t
        /\ \A v \in Workers \ {w} : run'[v] = run[v]
    BY <1>3 DEF CallAnswered, CallAnswerLost, CallRefused, Forget, Told
  <2>6. requests'[t] = 1 /\ \A x \in Txns \ {t} : requests'[x] = requests[x]
    BY <2>2, <2>4
  <2>7. QED
    BY <2>2, <2>3, <2>4, <2>5, <2>6 DEF OneCaller, Calling
<1>4. CASE RecordAnswer(w, t)
  <2>1. Calling(w, t) /\ run[w].pc = "record"
    BY <1>4 DEF RecordAnswer, Calling
  <2>2. /\ requests[t] = 1 /\ submissions[t] = 0
        /\ \A v \in Workers : Calling(v, t) => v = w
    BY <2>1 DEF OneCaller
  <2>3. /\ submissions' = [submissions EXCEPT ![t] = @ + SubmittedPosts(MapStatus(run[w].status))]
        /\ UNCHANGED requests
    BY <1>4 DEF RecordAnswer, providerVars
  <2>4. SubmittedPosts(MapStatus(run[w].status)) \in {0, 1}
    BY DEF SubmittedPosts
  <2>5. run'[w] = Idle /\ \A v \in Workers \ {w} : run'[v] = run[v]
    BY <1>4 DEF RecordAnswer, Finish
  <2>6. submissions'[t] \in {0, 1} /\ \A x \in Txns \ {t} : submissions'[x] = submissions[x]
    BY <2>2, <2>3, <2>4
  <2>7. QED
    BY <1>0, <2>2, <2>3, <2>5, <2>6 DEF OneCaller, Calling
<1>5. CASE BeginPayout(w, t) \/ LockFindsRefund(w, t) \/ LockStops(w, t)
  BY <1>1, <1>5 DEF BeginPayout, LockFindsRefund, LockStops, Finish, rowVars, providerVars
<1>6. CASE LockGoesOn(w, t) \/ FindAttempt(w, t)
  <2>1. run[w] # Idle /\ run[w] \in Run
    BY <1>6, RunTypes DEF LockGoesOn, FindAttempt
  <2>2. QED
    BY <1>1, <1>6, <2>1 DEF LockGoesOn, FindAttempt, GoTo, Forget, Told, Run, rowVars, providerVars
<1>7. CASE SubmitRejected(w, t) \/ UpdateRejected(w, t)
  BY <1>1, <1>7 DEF SubmitRejected, UpdateRejected, Throw, rowVars, providerVars
<1>8. CASE RecordFails(w, t) \/ GiveUp(w, t)
  BY <1>1, <1>8 DEF RecordFails, GiveUp, Finish, Forget, Told, rowVars, providerVars
<1>9. CASE \/ BeginSync(w, t) \/ QueryProvider(w, t)
           \/ \E s \in TransferStates : BeginNotice(w, t, s)
  BY <1>1, <1>9 DEF BeginSync, QueryProvider, BeginNotice, Finish, Forget, Told, rowVars,
       providerVars
<1>10. CASE ReadPayout(w, t)
  <2>1. run[w] # Idle /\ run[w] \in Run
    BY <1>10, RunTypes DEF ReadPayout
  <2>2. QED
    BY <1>1, <1>10, <2>1 DEF ReadPayout, EndUpdate, Finish, Forget, Told, Run, rowVars, providerVars
<1>11. CASE WriteUpdate(w, t) \/ MarkNotice(w, t)
  BY <1>1, <1>11 DEF WriteUpdate, MarkNotice, EndUpdate, Finish, Forget, Told, rowVars,
       providerVars
<1>12. QED
  BY <1>2, <1>3, <1>4, <1>5, <1>6, <1>7, <1>8, <1>9, <1>10, <1>11 DEF RunStep

\* The payout side keeps to one caller.
LEMMA PayoutOneCaller ==
    ASSUME PromiseInv, OneCaller, PayoutNext
    PROVE  OneCaller'
<1> USE DEF PromiseInv, BooksInv, TypeInv, TypeOK, payoutVars, rowVars, providerVars
<1>1. CASE \E w \in Workers, t \in Txns : RunStep(w, t)
  BY <1>1, RunStepOneCaller
<1>2. CASE \E w \in Workers : CrashRun(w)
  <2>1. UNCHANGED <<requests, submissions, attempt>>
    BY <1>2 DEF CrashRun
  <2>2. \A w \in Workers : run'[w] # Idle => run'[w] = run[w]
    BY <1>2 DEF CrashRun, PayoutTypeOK
  <2>3. QED
    BY <2>1, <2>2, NoNewCaller DEF Calling
<1>3. CASE UNCHANGED <<requests, submissions, attempt, run>>
  BY <1>3, NoNewCaller DEF Calling
<1>4. QED
  BY <1>1, <1>2, <1>3
     DEF PayoutNext, SkipPaidPayout, ForgetPayoutJob, TransferMoves, StartWorker,
         ResumePayouts, ForgetResumeJob

-----------------------------------------------------------------------------
\* A transfer that was made stays made.
MadeNext(t) == transfer'[t] \in {"SUCCESS", "REVERSED"}
MadeKept == \A t \in Txns : Made(t) => MadeNext(t)

\* Every step of a run keeps a reported success true.
LEMMA RunStepSuccess ==
    ASSUME PromiseInv, SuccessIsMade, NEW w \in Workers, NEW t \in Txns, RunStep(w, t)
    PROVE  SuccessIsMade'
<1> USE DEF PromiseInv, BooksInv, TypeInv, TypeOK, PayoutTypeOK, At, Idle
<1>a. \A v \in Workers : run[v] # Idle => run[v].txn \in Txns
  BY RunTypes
<1>0. ASSUME MadeKept,
             \A v \in Workers \ {w} : run'[v] = run[v],
             run'[w] # Idle /\ run'[w].status = "SUCCESS" => MadeNext(run'[w].txn),
             \A x \in Txns : "SUCCESS" \in notices'[x] => "SUCCESS" \in notices[x] \/ MadeNext(x),
             \A x \in Txns : debits'[x] # 0 => debits[x] # 0 \/ MadeNext(x)
      PROVE  SuccessIsMade'
  BY <1>0, <1>a DEF SuccessIsMade, MadeKept, Made, MadeNext
<1>1. CASE /\ UNCHANGED <<transfer, notices, debits>>
           /\ \A v \in Workers \ {w} : run'[v] = run[v]
           /\ \/ run'[w] = Idle
              \/ run'[w].status # "SUCCESS"
              \/ run[w] # Idle /\ run'[w].status = run[w].status /\ run'[w].txn = run[w].txn
  BY <1>0, <1>1, <1>a DEF SuccessIsMade, Made, MadeNext, MadeKept
<1>2. CASE \E s \in TransferStates : CallAnswered(w, t, s) \/ CallAnswerLost(w, t, s)
  <2>1. PICK s \in TransferStates : CallAnswered(w, t, s) \/ CallAnswerLost(w, t, s)
    BY <1>2
  <2>2. /\ IF transfer[t] = "NONE" THEN s # "REVERSED" ELSE s = transfer[t]
        /\ transfer' = [transfer EXCEPT ![t] = s]
        /\ notices' = [notices EXCEPT ![t] = @ \cup {s}]
    BY <2>1 DEF CallAnswered, CallAnswerLost, ProviderTakes
  <2>3. MadeKept
    BY <2>2 DEF MadeKept, Made, MadeNext
  <2>4. /\ run'[w].txn = t /\ run'[w].status \in {s, "NONE"}
        /\ \A v \in Workers \ {w} : run'[v] = run[v]
    BY <2>1 DEF CallAnswered, CallAnswerLost, Forget, Told
  <2>5. s = "SUCCESS" => MadeNext(t)
    BY <2>2 DEF Made, MadeNext
  <2>6. UNCHANGED debits
    BY <2>1 DEF CallAnswered, CallAnswerLost, storeVars, ledgerVars
  <2>7. QED
    BY <1>0, <2>2, <2>3, <2>4, <2>5, <2>6
<1>3. CASE RecordAnswer(w, t) \/ WriteUpdate(w, t)
  <2>1. run[w] # Idle /\ run[w].txn = t /\ run[w].status \in TransferStates \cup {"NONE"}
    BY <1>3, RunTypes DEF RecordAnswer, WriteUpdate
  <2>2. MapStatus(run[w].status) = "SUCCESS" => Made(t)
    BY <2>1, MapStatusTypes DEF SuccessIsMade
  <2>3. \A x \in Txns : debits'[x] # debits[x] => Made(x)
    BY <1>3, <2>2
       DEF RecordAnswer, WriteUpdate, Settles, SettlePayout, Debit, StoreTypeOK, ledgerVars
  <2>4. UNCHANGED <<transfer, notices>>
    BY <1>3 DEF RecordAnswer, WriteUpdate, providerVars
  <2>5. /\ \A v \in Workers \ {w} : run'[v] = run[v]
        /\ run'[w] = Idle \/ (run'[w].txn = t /\ run'[w].status = run[w].status)
    BY <1>3, <2>1 DEF RecordAnswer, WriteUpdate, EndUpdate, Finish, Forget, Told
  <2>6. MadeKept /\ \A x \in Txns : MadeNext(x) <=> Made(x)
    BY <2>4 DEF MadeKept, Made, MadeNext
  <2>7. \A x \in Txns : debits'[x] # 0 => debits[x] # 0 \/ MadeNext(x)
    BY <2>3, <2>6
  <2>8. run'[w] # Idle /\ run'[w].status = "SUCCESS" => MadeNext(run'[w].txn)
    BY <2>1, <2>5, <2>6 DEF SuccessIsMade
  <2>9. QED
    BY <1>0, <2>4, <2>5, <2>6, <2>7, <2>8
<1>4. CASE BeginPayout(w, t) \/ LockFindsRefund(w, t) \/ LockStops(w, t)
  BY <1>1, <1>4 DEF BeginPayout, LockFindsRefund, LockStops, MarkPayoutFailed, Finish,
       storeVars, ledgerVars, providerVars
<1>5. CASE LockGoesOn(w, t) \/ FindAttempt(w, t)
  <2>1. run[w] # Idle /\ run[w] \in Run
    BY <1>5, RunTypes DEF LockGoesOn, FindAttempt
  <2>2. QED
    BY <1>1, <1>5, <2>1 DEF LockGoesOn, FindAttempt, GoTo, Forget, Told, Run, storeVars,
         ledgerVars, providerVars
<1>6. CASE SubmitPayout(w, t) \/ CallRefused(w, t)
  BY <1>1, <1>6 DEF SubmitPayout, CallRefused, Forget, Told, storeVars, ledgerVars, providerVars
<1>7. CASE SubmitRejected(w, t) \/ UpdateRejected(w, t) \/ MarkNotice(w, t)
  BY <1>1, <1>7 DEF SubmitRejected, UpdateRejected, MarkNotice, Throw, storeVars, ledgerVars,
       providerVars
<1>8. CASE RecordFails(w, t) \/ GiveUp(w, t)
  BY <1>1, <1>8 DEF RecordFails, GiveUp, MarkPayoutFailed, Finish, Forget, Told, storeVars,
       ledgerVars, providerVars
<1>9. CASE BeginSync(w, t)
  BY <1>1, <1>9 DEF BeginSync, Told, storeVars, ledgerVars, providerVars
<1>10. CASE QueryProvider(w, t)
  <2>1. UNCHANGED <<transfer, notices, debits>>
    BY <1>10 DEF QueryProvider, ledgerVars, providerVars
  <2>2. /\ \A v \in Workers \ {w} : run'[v] = run[v]
        /\ run'[w] = Idle \/ (run'[w].txn = t /\ run'[w].status = transfer[t])
    BY <1>10 DEF QueryProvider, Finish, Forget, Told
  <2>3. MadeKept
    BY <2>1 DEF MadeKept, Made, MadeNext
  <2>4. QED
    BY <1>0, <2>1, <2>2, <2>3 DEF Made, MadeNext
<1>11. CASE \E s \in TransferStates : BeginNotice(w, t, s)
  <2>1. UNCHANGED <<transfer, notices, debits>>
    BY <1>11 DEF BeginNotice, storeVars, ledgerVars, providerVars
  <2>2. /\ \A v \in Workers \ {w} : run'[v] = run[v]
        /\ run'[w].txn = t /\ run'[w].status \in notices[t]
    BY <1>11 DEF BeginNotice, Told
  <2>3. MadeKept
    BY <2>1 DEF MadeKept, Made, MadeNext
  <2>4. QED
    BY <1>0, <2>1, <2>2, <2>3 DEF Made, MadeNext, SuccessIsMade
<1>12. CASE ReadPayout(w, t)
  <2>1. run[w] # Idle /\ run[w] \in Run
    BY <1>12, RunTypes DEF ReadPayout
  <2>2. QED
    BY <1>1, <1>12, <2>1 DEF ReadPayout, EndUpdate, Finish, Forget, Told, Run, ledgerVars,
         providerVars
<1>13. QED
  BY <1>2, <1>3, <1>4, <1>5, <1>6, <1>7, <1>8, <1>9, <1>10, <1>11, <1>12 DEF RunStep

\* The payout side keeps a reported success true.
LEMMA PayoutSuccess ==
    ASSUME PromiseInv, SuccessIsMade, PayoutNext
    PROVE  SuccessIsMade'
<1> USE DEF PromiseInv, BooksInv, TypeInv, TypeOK, storeVars, ledgerVars, payoutVars, providerVars
<1>a. \A v \in Workers : run[v] # Idle => run[v].txn \in Txns
  BY RunTypes
<1>1. CASE \E w \in Workers, t \in Txns : RunStep(w, t)
  BY <1>1, RunStepSuccess
<1>2. CASE \E w \in Workers : CrashRun(w)
  <2>1. UNCHANGED <<transfer, notices, debits>>
    BY <1>2 DEF CrashRun
  <2>2. \A w \in Workers : run'[w] # Idle => run'[w] = run[w]
    BY <1>2 DEF CrashRun, PayoutTypeOK
  <2>3. QED
    BY <2>1, <2>2 DEF SuccessIsMade, Made, MadeNext
<1>3. CASE \E t \in Txns, s \in TransferStates : TransferMoves(t, s)
  <2>1. PICK t \in Txns, s \in TransferStates : TransferMoves(t, s)
    BY <1>3
  <2>2. /\ transfer' = [transfer EXCEPT ![t] = s]
        /\ notices' = [notices EXCEPT ![t] = @ \cup {s}]
        /\ UNCHANGED <<run, debits>>
    BY <2>1 DEF TransferMoves
  <2>3. \A x \in Txns : Made(x) => MadeNext(x)
    BY <2>1, <2>2 DEF TransferMoves, Made, MadeNext, PayoutTypeOK
  <2>4. \A x \in Txns : "SUCCESS" \in notices'[x] => MadeNext(x)
    BY <2>2, <2>3 DEF SuccessIsMade, Made, MadeNext, PayoutTypeOK
  <2>5. QED
    BY <1>a, <2>2, <2>3, <2>4 DEF SuccessIsMade, Made, MadeNext
<1>4. CASE UNCHANGED <<transfer, notices, debits, run>>
  BY <1>4 DEF SuccessIsMade, Made, MadeNext
<1>5. QED
  BY <1>1, <1>2, <1>3, <1>4
     DEF PayoutNext, SkipPaidPayout, ForgetPayoutJob, StartWorker, ResumePayouts, ForgetResumeJob

\* No other side debits.
LEMMA DebitsUntouched ==
    ASSUME CaptureStep \/ RefundStep \/ DisputeStep
    PROVE  UNCHANGED debits
<1> USE DEF storeVars, ledgerVars
<1>1. CASE CaptureStep
  BY <1>1 DEF CaptureStep, CaptureNext, GatewayDecides, ReceiveNotice, ForgetHookJob,
     SkipProcessedEvent, CrashHook, HookStep, BeginHook, AcknowledgeEvent,
     CapturePayment, Credit, EnqueuePayout, FailPayment, RejectHook, FailHook
<1>2. CASE RefundStep
  BY <1>2 DEF RefundStep, RefundNext, CrashClerk, RefundMoves, ClerkStep, BeginRefund,
     InsertRefund, RefuseRefund, RequestAnswered, RequestAnswerLost, RequestRefused,
     RejectRefund, BeginRefundSync, BeginRefundNotice, ReadRefund, WriteRefund, RefundRejected
<1>3. CASE DisputeStep
  BY <1>3 DEF DisputeStep, DisputeNext, CrashOperator, OperatorStep, BeginDispute,
     InsertDispute, MoveToDisputed, BeginEdit, WriteEdit
<1>4. QED
  BY <1>1, <1>2, <1>3

-----------------------------------------------------------------------------
\* The invariant holds at the start.
LEMMA InitProvider == Init => ProviderInv
<1> SUFFICES ASSUME Init PROVE ProviderInv
  OBVIOUS
<1>1. PromiseInv
  BY InitPromised
<1>2. OneCaller /\ SuccessIsMade
  BY DEF Init, StoreInit, PayoutInit, OneCaller, Calling, SuccessIsMade, Idle
<1>3. QED
  BY <1>1, <1>2 DEF ProviderInv

\* Every step keeps it.
LEMMA NextProvider == ProviderInv /\ [Next]_vars => ProviderInv'
<1> SUFFICES ASSUME ProviderInv, [Next]_vars PROVE ProviderInv'
  OBVIOUS
<1> USE DEF ProviderInv
<1>0. PromiseInv'
  BY NextPromised
<1>1. CASE PayoutStep
  BY <1>0, <1>1, PayoutOneCaller, PayoutSuccess DEF PayoutStep
<1>2. CASE \/ CaptureStep \/ RefundStep \/ DisputeStep \/ UNCHANGED vars
  <2>1. UNCHANGED payoutVars /\ UNCHANGED debits
    BY <1>2, DebitsUntouched DEF CaptureStep, RefundStep, DisputeStep, vars, storeVars, ledgerVars
  <2>2. OneCaller'
    BY <2>1, NoNewCaller DEF payoutVars, Calling
  <2>3. SuccessIsMade'
    BY <2>1 DEF payoutVars, SuccessIsMade, Made, MadeNext
  <2>4. QED
    BY <1>0, <2>2, <2>3
<1>3. QED
  BY <1>1, <1>2 DEF Next

\* The system and its provider agree in every state the system reaches.
THEOREM ProviderAgrees == Spec => []ProviderInv
  BY InitProvider, NextProvider, PTL DEF Spec

\* The provider is asked to pay a transfer at most once, and only for a captured
\* payment, however many jobs, restarts and redeliveries run processPayout.
THEOREM AskedOnce == Spec => []OneTransferRequest
<1>1. ProviderInv => OneTransferRequest
  <2> SUFFICES ASSUME ProviderInv, NEW t \in Txns
               PROVE  requests[t] <= 1 /\ (requests[t] = 1 => credits[t] >= 1)
    BY DEF OneTransferRequest
  <2>1. requests[t] <= 1 /\ (requests[t] = 1 => attempt[t] # "NONE")
    BY DEF ProviderInv, OneCaller
  <2>2. attempt[t] # "NONE" => life[t] \in Captured
    BY DEF ProviderInv, PromiseInv, BooksInv, TypeInv, TypeOK, StoreTypeOK, StoreBooks,
           StagesReached, AttemptsAgree, Unclaimed, LifeStates, Captured
  <2>3. life[t] \in Captured => credits[t] >= 1
    BY DEF ProviderInv, PromiseInv, BooksInv, StoreBooks, CreditedOnCapture
  <2>4. QED
    BY <2>1, <2>2, <2>3
<1>2. QED
  BY <1>1, ProviderAgrees, PTL

\* PAYOUT_SUBMITTED is posted at most once per request.
THEOREM PostedOnce == Spec => []SubmittedOnce
<1>1. ProviderInv => SubmittedOnce
  BY DEF ProviderInv, OneCaller, SubmittedOnce
<1>2. QED
  BY <1>1, ProviderAgrees, PTL

\* The wallet is debited only for a transfer the provider has made, whatever late,
\* repeated or reordered reports arrive.
THEOREM DebitsArePaid == Spec => []DebitedOnlyIfPaid
<1>1. ProviderInv => DebitedOnlyIfPaid
  BY DEF ProviderInv, SuccessIsMade, Made, DebitedOnlyIfPaid
<1>2. QED
  BY <1>1, ProviderAgrees, PTL

-----------------------------------------------------------------------------
(***************************************************************************)
(* The inductive invariant.  A handler that reports a success was told so  *)
(* by a gateway that never takes a success back; REFUNDED is left by no    *)
(* transition, and entered only by the block that reverses.                *)
(***************************************************************************)
SettledIsMade ==
    /\ \A c \in Clerks :
          clerk[c] # ClerkIdle /\ clerk[c].pc \in {"read", "write"} /\ clerk[c].status = "SUCCESS"
            => gatewayRefund[clerk[c].id] = "SUCCESS"
    /\ \A r \in RefundIds : "SUCCESS" \in refundNotices[r] => gatewayRefund[r] = "SUCCESS"
    /\ \A r \in RefundIds : reversals[r] >= 1 => gatewayRefund[r] = "SUCCESS"

ReversedIsRefunded ==
    /\ \A r \in RefundIds :
          reversals[r] >= 1 => refund[r] # NoRefund /\ life[refund[r].txn] = "REFUNDED"
    /\ \A t \in Txns : life[t] = "REFUNDED" => \E r \in RefundsOf(t) : reversals[r] >= 1

RefundInv == BooksInv /\ SettledIsMade /\ ReversedIsRefunded

\* No transfer becomes REFUNDED, or stops being so.
SameRefunded == \A t \in Txns : life'[t] = "REFUNDED" <=> life[t] = "REFUNDED"

\* Refund rows keep their transactions, and those that are new reverse nothing.
RowsKept ==
    /\ \A r \in RefundIds : refund[r] # NoRefund =>
          refund'[r] # NoRefund /\ refund'[r].txn = refund[r].txn
    /\ \A r \in RefundIds : reversals[r] = 0 => reversals'[r] = 0
    /\ \A r \in RefundIds : reversals[r] >= 1 => reversals'[r] >= 1

-----------------------------------------------------------------------------
\* A block that moves one transfer between two other states.
LEMMA MoveKeepsRefunded ==
    ASSUME StoreTypeOK, NEW t \in Txns, NEW to, life' = [life EXCEPT ![t] = to],
           life[t] # "REFUNDED", to # "REFUNDED"
    PROVE  SameRefunded
  BY DEF StoreTypeOK, SameRefunded

\* The payment side moves a payment that was not captured.
LEMMA CaptureKeepsRefunded ==
    ASSUME TypeInv, CaptureNext
    PROVE  SameRefunded
<1> USE DEF TypeInv, TypeOK, storeVars
<1>1. CASE UNCHANGED life
  BY <1>1 DEF SameRefunded
<1>2. ASSUME NEW w \in HookWorkers, NEW e \in Events, CapturePayment(w, e) \/ FailPayment(w, e)
      PROVE  SameRefunded
  <2>1. OrderOf[e] \in Txns
    BY CaptureAssumption DEF CaptureAssumption
  <2>2. life[OrderOf[e]] # "REFUNDED"
    BY <1>2, <2>1, Transitions DEF CapturePayment, FailPayment, CanMove, StoreTypeOK, LifeStates
  <2>3. QED
    BY <1>2, <2>1, <2>2, MoveKeepsRefunded DEF CapturePayment, FailPayment, MoveTo
<1>3. QED
  BY <1>1, <1>2
     DEF CaptureNext, GatewayDecides, ReceiveNotice, ForgetHookJob, SkipProcessedEvent,
         CrashHook, HookStep, BeginHook, AcknowledgeEvent, EnqueuePayout, RejectHook, FailHook

\* The payout side moves a transfer that is not completed.
LEMMA PayoutKeepsRefunded ==
    ASSUME TypeInv, PayoutNext
    PROVE  SameRefunded
<1> USE DEF TypeInv, TypeOK, storeVars
<1>1. CASE UNCHANGED life
  BY <1>1 DEF SameRefunded
<1>2. ASSUME NEW t \in Txns, MarkPayoutFailed(t)
      PROVE  SameRefunded
  BY <1>2 DEF MarkPayoutFailed, StoreTypeOK, SameRefunded
<1>3. ASSUME NEW t \in Txns, CanSettle(t), SettlePayout(t)
      PROVE  SameRefunded
  <2>1. life[t] # "REFUNDED"
    BY <1>3, Transitions DEF CanSettle, CanMove, StoreTypeOK, LifeStates
  <2>2. QED
    BY <1>3, <2>1, MoveKeepsRefunded DEF SettlePayout
<1>4. ASSUME NEW t \in Txns, CanMove(t, "PAYOUT_PENDING"),
             life' = [life EXCEPT ![t] = "PAYOUT_PENDING"]
      PROVE  SameRefunded
  <2>1. life[t] # "REFUNDED"
    BY <1>4, Transitions DEF CanMove, StoreTypeOK, LifeStates
  <2>2. QED
    BY <1>4, <2>1, MoveKeepsRefunded
<1>b. ASSUME NEW t \in Txns, life' = [life EXCEPT ![t] = @]
      PROVE  SameRefunded
  BY <1>b DEF StoreTypeOK, SameRefunded
<1>5. ASSUME NEW w \in Workers, NEW t \in Txns, RunStep(w, t)
      PROVE  SameRefunded
  <2>1. CASE \/ BeginPayout(w, t) \/ LockStops(w, t) \/ LockGoesOn(w, t) \/ FindAttempt(w, t)
             \/ SubmitRejected(w, t)
             \/ \E s \in TransferStates : CallAnswered(w, t, s) \/ CallAnswerLost(w, t, s)
             \/ CallRefused(w, t) \/ RecordFails(w, t)
    BY <1>1, <2>1
       DEF BeginPayout, LockStops, LockGoesOn, FindAttempt, SubmitRejected, Throw, CallAnswered,
           CallAnswerLost, CallRefused, RecordFails
  <2>2. CASE \/ BeginSync(w, t) \/ QueryProvider(w, t) \/ ReadPayout(w, t)
             \/ \E s \in TransferStates : BeginNotice(w, t, s)
             \/ UpdateRejected(w, t) \/ MarkNotice(w, t)
    BY <1>1, <2>2
       DEF BeginSync, QueryProvider, ReadPayout, BeginNotice, UpdateRejected, Throw, MarkNotice
  <2>3. CASE LockFindsRefund(w, t) \/ GiveUp(w, t)
    BY <1>2, <2>3 DEF LockFindsRefund, GiveUp
  <2>4. CASE SubmitPayout(w, t)
    BY <1>b, <1>4, <2>4 DEF SubmitPayout, CanSubmit
  <2>5. CASE RecordAnswer(w, t)
    BY <1>1, <1>3, <2>5 DEF RecordAnswer
  <2>6. CASE WriteUpdate(w, t)
    BY <1>b, <1>3, <1>4, <2>6 DEF WriteUpdate, CanUpdate
  <2>7. QED
    BY <1>5, <2>1, <2>2, <2>3, <2>4, <2>5, <2>6 DEF RunStep
<1>6. QED
  BY <1>1, <1>5
     DEF PayoutNext, CrashRun, SkipPaidPayout, ForgetPayoutJob, TransferMoves, StartWorker,
         ResumePayouts, ForgetResumeJob

\* The dispute side moves a transfer that is completed.
LEMMA DisputeKeepsRefunded ==
    ASSUME TypeInv, DisputeNext
    PROVE  SameRefunded
<1> USE DEF TypeInv, TypeOK, storeVars
<1>1. CASE UNCHANGED life
  BY <1>1 DEF SameRefunded
<1>2. ASSUME NEW o \in Operators, MoveToDisputed(o), CanMove(operator[o].txn, "DISPUTED")
      PROVE  SameRefunded
  <2>1. operator[o].txn \in Txns
    BY <1>2 DEF MoveToDisputed, Doing, DisputeTypeOK, Opening, Editing
  <2>2. life[operator[o].txn] # "REFUNDED"
    BY <1>2, <2>1, Transitions DEF CanMove, StoreTypeOK, LifeStates
  <2>3. QED
    BY <1>2, <2>1, <2>2, MoveKeepsRefunded DEF MoveToDisputed, MoveTo
<1>3. QED
  BY <1>1, <1>2
     DEF DisputeNext, CrashOperator, OperatorStep, BeginDispute, InsertDispute,
         MoveToDisputed, BeginEdit, WriteEdit

-----------------------------------------------------------------------------
\* A handler that updates a refund was told its status by the gateway, which does
\* not take a success back.
LEMMA RefundSuccess ==
    ASSUME TypeInv, SettledIsMade, RefundNext
    PROVE  SettledIsMade'
<1> USE DEF TypeInv, TypeOK, storeVars
<1>1. ASSUME NEW r \in RefundIds, NEW s \in GatewayRefundStates,
             gatewayRefund[r] # "SUCCESS",
             gatewayRefund' = [gatewayRefund EXCEPT ![r] = s],
             refundNotices' = [refundNotices EXCEPT ![r] = @ \cup {s}],
             UNCHANGED reversals
      PROVE  /\ \A x \in RefundIds : gatewayRefund[x] = "SUCCESS" => gatewayRefund'[x] = "SUCCESS"
             /\ gatewayRefund'[r] = s
             /\ \A x \in RefundIds : "SUCCESS" \in refundNotices'[x] => gatewayRefund'[x] = "SUCCESS"
             /\ \A x \in RefundIds : reversals'[x] >= 1 => gatewayRefund'[x] = "SUCCESS"
  BY <1>1 DEF SettledIsMade, RefundTypeOK
<1>2. \A c \in Clerks : clerk[c] # ClerkIdle => clerk[c].id \in RefundIds
  BY ClerkRecords
<1>3. ASSUME UNCHANGED <<gatewayRefund, refundNotices, reversals>>,
             \A c \in Clerks :
                clerk'[c] # ClerkIdle /\ clerk'[c].pc \in {"read", "write"}
                   /\ clerk'[c].status = "SUCCESS"
                  => \/ gatewayRefund[clerk'[c].id] = "SUCCESS"
                     \/ /\ clerk[c] # ClerkIdle /\ clerk[c].pc \in {"read", "write"}
                        /\ clerk[c].status = "SUCCESS" /\ clerk'[c].id = clerk[c].id
      PROVE  SettledIsMade'
  BY <1>3 DEF SettledIsMade
<1>4. ASSUME NEW c \in Clerks, ClerkStep(c)
      PROVE  SettledIsMade'
  <2>1. CASE \E r \in RefundIds, t \in Txns : \E a \in 1 .. Gross[t] : BeginRefund(c, r, t, a)
    BY <1>3, <2>1 DEF BeginRefund, RefundTypeOK
  <2>2. CASE RefuseRefund(c) \/ RefundRejected(c) \/ RejectRefund(c)
    BY <1>3, <2>2 DEF RefuseRefund, RefundRejected, RejectRefund, EndClerk, RefundTypeOK
  <2>3. CASE InsertRefund(c)
    BY <1>3, <2>3, ClerkRecords DEF InsertRefund, Busy, RefundTypeOK, Request
  <2>4. ASSUME NEW s \in GatewayRefundStates, RequestAnswered(c, s) \/ RequestAnswerLost(c, s)
        PROVE  SettledIsMade'
    <3> DEFINE r == clerk[c].id
    <3>1. r \in RefundIds /\ gatewayRefund[r] = "NONE" /\ clerk[c] \in Request
      BY <2>4, ClerkRecords DEF RequestAnswered, RequestAnswerLost, GatewayTakes, Busy
    <3>2. /\ gatewayRefund' = [gatewayRefund EXCEPT ![r] = s]
          /\ refundNotices' = [refundNotices EXCEPT ![r] = @ \cup {s}]
          /\ UNCHANGED reversals
      BY <2>4 DEF RequestAnswered, RequestAnswerLost, GatewayTakes
    <3>3. \/ clerk' = [clerk EXCEPT ![c] = UpdateRefund(r, s)]
          \/ clerk' = [clerk EXCEPT ![c].pc = "reject"]
      BY <2>4 DEF RequestAnswered, RequestAnswerLost
    <3>4. \A x \in Clerks :
             clerk'[x] # ClerkIdle /\ clerk'[x].pc \in {"read", "write"}
                /\ clerk'[x].status = "SUCCESS"
               => gatewayRefund'[clerk'[x].id] = "SUCCESS"
      <4>1. CASE clerk' = [clerk EXCEPT ![c] = UpdateRefund(r, s)]
        BY <1>1, <1>2, <3>1, <3>2, <4>1 DEF SettledIsMade, UpdateRefund, RefundTypeOK
      <4>2. CASE clerk' = [clerk EXCEPT ![c].pc = "reject"]
        BY <1>1, <1>2, <3>1, <3>2, <4>2 DEF SettledIsMade, RefundTypeOK, Request
      <4>3. QED
        BY <3>3, <4>1, <4>2
    <3>5. QED
      BY <1>1, <3>1, <3>2, <3>4 DEF SettledIsMade
  <2>5. CASE RequestRefused(c)
    BY <1>3, <2>5, ClerkRecords DEF RequestRefused, Busy, RefundTypeOK, Request
  <2>6. CASE \E r \in RefundIds : BeginRefundSync(c, r)
    BY <1>3, <2>6 DEF BeginRefundSync, UpdateRefund, RefundTypeOK
  <2>7. CASE \E r \in RefundIds, s \in GatewayRefundStates : BeginRefundNotice(c, r, s)
    BY <1>3, <2>7 DEF BeginRefundNotice, UpdateRefund, SettledIsMade, RefundTypeOK
  <2>8. CASE ReadRefund(c)
    BY <1>3, <2>8, ClerkRecords DEF ReadRefund, Busy, RefundTypeOK, Update
  <2>9. CASE WriteRefund(c)
    <3>1. clerk[c].id \in RefundIds /\ clerk' = [clerk EXCEPT ![c] = ClerkIdle]
      BY <2>9, ClerkRecords DEF WriteRefund, Busy, EndClerk
    <3>2. \A r \in RefundIds : reversals'[r] >= 1 => gatewayRefund[r] = "SUCCESS"
      BY <2>9, <3>1 DEF WriteRefund, Busy, SettlesRefund, SettledIsMade, RefundTypeOK
    <3>3. QED
      BY <2>9, <3>1, <3>2 DEF WriteRefund, SettledIsMade, RefundTypeOK
  <2>10. QED
    BY <1>4, <2>1, <2>2, <2>3, <2>4, <2>5, <2>6, <2>7, <2>8, <2>9 DEF ClerkStep
<1>5. CASE \E c \in Clerks : CrashClerk(c)
  BY <1>3, <1>5 DEF CrashClerk, EndClerk, RefundTypeOK
<1>6. ASSUME NEW r \in RefundIds, NEW s \in GatewayRefundStates, RefundMoves(r, s)
      PROVE  SettledIsMade'
  <2>1. /\ gatewayRefund[r] # "SUCCESS" /\ UNCHANGED <<reversals, clerk>>
        /\ gatewayRefund' = [gatewayRefund EXCEPT ![r] = s]
        /\ refundNotices' = [refundNotices EXCEPT ![r] = @ \cup {s}]
    BY <1>6 DEF RefundMoves
  <2>2. QED
    BY <1>1, <1>2, <2>1 DEF SettledIsMade
<1>7. QED
  BY <1>4, <1>5, <1>6 DEF RefundNext

\* Reversals follow the lifecycle through a step that makes no transfer REFUNDED.
LEMMA ReversalsFollow ==
    ASSUME TypeInv, ReversedIsRefunded, SameRefunded, RowsKept, UNCHANGED reversals
    PROVE  ReversedIsRefunded'
<1>1. \A r \in RefundIds : refund[r] # NoRefund => refund[r].txn \in Txns
  BY DEF TypeInv, TypeOK, StoreTypeOK, RefundRow
<1>2. QED
  BY <1>1 DEF ReversedIsRefunded, SameRefunded, RowsKept, RefundsOf

\* The refund side reverses in the block that makes the transfer REFUNDED.
LEMMA RefundReversals ==
    ASSUME TypeInv, ReversedIsRefunded, RefundNext
    PROVE  ReversedIsRefunded'
<1> USE DEF TypeInv, TypeOK, storeVars
<1>1. CASE UNCHANGED <<life, refund, reversals>>
  BY <1>1, ReversalsFollow DEF SameRefunded, RowsKept
<1>2. ASSUME NEW c \in Clerks, InsertRefund(c)
      PROVE  ReversedIsRefunded'
  <2>1. clerk[c].id \in RefundIds /\ refund[clerk[c].id] = NoRefund
    BY <1>2, ClerkRecords DEF InsertRefund, Busy, Refundable
  <2>2. RowsKept
    BY <1>2, <2>1 DEF InsertRefund, RowsKept, StoreTypeOK
  <2>3. QED
    BY <1>2, <2>2, ReversalsFollow DEF InsertRefund, SameRefunded
<1>3. ASSUME NEW c \in Clerks, RejectRefund(c) \/ WriteRefund(c)
      PROVE  ReversedIsRefunded'
  <2> DEFINE r == clerk[c].id
             t == refund[r].txn
  <2>1. r \in RefundIds /\ refund[r] \in RefundRow /\ refund[r] # NoRefund /\ t \in Txns
    BY <1>3, ClerkRecords DEF RejectRefund, WriteRefund, Busy, RefundsBacked
  <2>2. PICK s \in RefundStates : refund' = [refund EXCEPT ![r] = [refund[r] EXCEPT !.status = s]]
    <3>1. CASE RejectRefund(c)
      BY <3>1 DEF RejectRefund, RefundStates
    <3>2. CASE WriteRefund(c)
      <4>1. clerk[c].status \in GatewayRefundStates
        BY <3>2, ClerkRecords DEF WriteRefund, Busy, Update
      <4>2. MapRefundStatus(clerk[c].status) \in RefundStates
        BY <4>1 DEF MapRefundStatus, GatewayRefundStates, RefundStates
      <4>3. QED
        BY <3>2, <4>2 DEF WriteRefund
    <3>3. QED
      BY <1>3, <3>1, <3>2
  <2>3. [refund[r] EXCEPT !.status = s] # NoRefund /\ [refund[r] EXCEPT !.status = s].txn = t
    BY <2>1 DEF RefundRow, NoRefund, RefundStates
  <2>4. \A x \in RefundIds : refund[x] # NoRefund =>
           refund'[x] # NoRefund /\ refund'[x].txn = refund[x].txn
    BY <2>1, <2>2, <2>3 DEF StoreTypeOK
  <2>5. CASE RejectRefund(c) \/ (WriteRefund(c) /\ ~ SettlesRefund(c))
    <3>1. UNCHANGED reversals
      BY <2>1, <2>5 DEF RejectRefund, WriteRefund, RefundTypeOK
    <3>2. SameRefunded
      BY <2>1, <2>5 DEF RejectRefund, WriteRefund, StoreTypeOK, SameRefunded
    <3>3. RowsKept
      BY <2>4, <3>1 DEF RowsKept
    <3>4. QED
      BY <3>1, <3>2, <3>3, ReversalsFollow
  <2>6. CASE WriteRefund(c) /\ SettlesRefund(c)
    <3>1. /\ life' = [life EXCEPT ![t] = "REFUNDED"]
          /\ reversals' = [reversals EXCEPT ![r] = reversals[r] + 1]
      BY <2>6 DEF WriteRefund
    <3>2. /\ \A x \in RefundIds : reversals[x] >= 1 => reversals'[x] >= 1
          /\ reversals'[r] >= 1
          /\ \A x \in RefundIds \ {r} : reversals'[x] = reversals[x]
      BY <2>1, <3>1 DEF RefundTypeOK
    <3>3. life'[t] = "REFUNDED" /\ \A x \in Txns \ {t} : life'[x] = life[x]
      BY <2>1, <3>1 DEF StoreTypeOK
    <3>4. \A x \in RefundIds :
             reversals'[x] >= 1 => refund'[x] # NoRefund /\ life'[refund'[x].txn] = "REFUNDED"
      <4>1. \A x \in RefundIds : refund[x] # NoRefund => refund[x].txn \in Txns
        BY DEF StoreTypeOK, RefundRow
      <4>2. QED
        BY <2>1, <2>4, <3>2, <3>3, <4>1 DEF ReversedIsRefunded
    <3>5. \A x \in Txns : life'[x] = "REFUNDED" =>
             \E y \in RefundIds : refund'[y] # NoRefund /\ refund'[y].txn = x /\ reversals'[y] >= 1
      <4> SUFFICES ASSUME NEW x \in Txns, life'[x] = "REFUNDED"
                   PROVE  \E y \in RefundIds :
                             refund'[y] # NoRefund /\ refund'[y].txn = x /\ reversals'[y] >= 1
        OBVIOUS
      <4>1. CASE x = t
        BY <2>1, <2>4, <3>2, <4>1
      <4>2. CASE x # t
        BY <2>4, <3>2, <3>3, <4>2 DEF ReversedIsRefunded, RefundsOf
      <4>3. QED
        BY <4>1, <4>2
    <3>6. QED
      BY <3>4, <3>5 DEF ReversedIsRefunded, RefundsOf
  <2>7. QED
    BY <1>3, <2>5, <2>6
<1>4. QED
  BY <1>1, <1>2, <1>3
     DEF RefundNext, CrashClerk, RefundMoves, ClerkStep, BeginRefund, RefuseRefund,
         RequestAnswered, RequestAnswerLost, RequestRefused, BeginRefundSync,
         BeginRefundNotice, ReadRefund, RefundRejected

-----------------------------------------------------------------------------
\* The invariant holds at the start.
LEMMA InitRefunds == Init => RefundInv
<1> SUFFICES ASSUME Init PROVE RefundInv
  OBVIOUS
<1>1. BooksInv
  BY InitBooks
<1>2. SettledIsMade /\ ReversedIsRefunded
  BY DEF Init, StoreInit, RefundInit, SettledIsMade, ReversedIsRefunded
<1>3. QED
  BY <1>1, <1>2 DEF RefundInv

\* Every step keeps it.
LEMMA NextRefunds == RefundInv /\ [Next]_vars => RefundInv'
<1> SUFFICES ASSUME RefundInv, [Next]_vars PROVE RefundInv'
  OBVIOUS
<1> USE DEF RefundInv
<1>0. TypeInv /\ BooksInv'
  BY NextBooks DEF BooksInv
<1>1. CASE RefundStep
  BY <1>0, <1>1, RefundSuccess, RefundReversals DEF RefundStep
<1>2. CASE CaptureStep \/ PayoutStep \/ DisputeStep \/ UNCHANGED vars
  <2>1. SameRefunded
    BY <1>0, <1>2, CaptureKeepsRefunded, PayoutKeepsRefunded, DisputeKeepsRefunded
       DEF CaptureStep, PayoutStep, DisputeStep, vars, storeVars, SameRefunded
  <2>2. UNCHANGED refundVars /\ UNCHANGED refund
    BY <1>2, RefundsUntouched DEF CaptureStep, PayoutStep, DisputeStep, vars, storeVars
  <2>3. SettledIsMade'
    BY <2>2 DEF refundVars, SettledIsMade
  <2>4. ReversedIsRefunded'
    BY <1>0, <2>1, <2>2, ReversalsFollow DEF refundVars, RowsKept
  <2>5. QED
    BY <1>0, <2>3, <2>4
<1>3. QED
  BY <1>1, <1>2 DEF Next

\* Refunds, books and lifecycle agree in every state the system reaches.
THEOREM RefundsInOrder == Spec => []RefundInv
  BY InitRefunds, NextRefunds, PTL DEF Spec

\* A reversal is posted only for a refund that the gateway has made, and exactly
\* the transfers with such a reversal are REFUNDED (applyRefundUpdate).
THEOREM ReversalsAgree == Spec => []ReversedIfRefunded
<1>1. RefundInv => ReversedIfRefunded
  BY DEF RefundInv, SettledIsMade, ReversedIsRefunded, ReversedIfRefunded, RefundsOf
<1>2. QED
  BY <1>1, RefundsInOrder, PTL
=============================================================================
