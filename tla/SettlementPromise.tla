-------------------------- MODULE SettlementPromise --------------------------
(***************************************************************************)
(* The running system keeps the promise of a transfer, for every value of  *)
(* the constants: the refinement of TransferPromise, and the agreement of  *)
(* the denormalised payoutStatus column with the payout row.               *)
(***************************************************************************)
EXTENDS SettlementBooks

(***************************************************************************)
(* The inductive invariant.  The attempt row divides the life of a         *)
(* transfer: it is missing until the payout is claimed and never goes      *)
(* away, so whatever a run did not see move is behind it.                  *)
(***************************************************************************)
Unclaimed == {"PAYMENT_PENDING", "PAYMENT_FAILED", "PAYMENT_SUCCESS"}

AttemptsAgree ==
    \A t \in Txns : /\ attempt[t] = "NONE" <=> life[t] \in Unclaimed
                    /\ transfer[t] # "NONE" => attempt[t] # "NONE"

RunsAfterAttempt ==
    \A w \in Workers :
        run[w] # Idle =>
            /\ run[w].pc \in {"call", "record", "giveup", "read", "write"}
                  => attempt[run[w].txn] # "NONE"
            /\ run[w].pc \in {"lock", "prepare", "submit"} /\ run[w].seenLife # "PAYMENT_SUCCESS"
                  => attempt[run[w].txn] # "NONE"
            /\ run[w].pc = "write" => run[w].seenLife # "PAYMENT_SUCCESS"

PromiseInv == BooksInv /\ AttemptsAgree /\ RunsAfterAttempt /\ ColumnAgrees

\* What a step does to a transfer's promise, and what it leaves of the claim.
PromiseStep == [Promise!Next]_(Promise!vars)
ClaimsKept == \A t \in Txns : life'[t] \in Unclaimed <=> life[t] \in Unclaimed

-----------------------------------------------------------------------------
\* One transfer moves, and neither of its two books does.
LEMMA MoveIsPromised ==
    ASSUME StoreTypeOK, NEW t \in Txns, NEW from, NEW to, life[t] = from,
           life' = [life EXCEPT ![t] = to], UNCHANGED <<credits, debits>>,
           <<from, to>> \in {<<"PAYMENT_PENDING", "PAYMENT_FAILED">>,
                             <<"PAYMENT_SUCCESS", "PAYOUT_PENDING">>,
                             <<"PAYOUT_PENDING", "PAYOUT_FAILED">>,
                             <<"COMPLETED", "REFUNDED">>, <<"COMPLETED", "DISPUTED">>}
    PROVE  Promise!Next
<1>1. Promise!Move(t, from, to)
  BY DEF Promise!Move, Promise!Step
<1>2. QED
  BY <1>1 DEF Promise!Next

\* A step that leaves the lifecycle and the two books alone is a stutter.
LEMMA QuietIsPromised ==
    ASSUME UNCHANGED <<life, credits, debits>>
    PROVE  PromiseStep /\ ClaimsKept
  BY DEF PromiseStep, Promise!vars, ClaimsKept

\* A block that settles completes the promise.
LEMMA SettleIsPromised ==
    ASSUME StoreTypeOK, StoreBooks, NEW t \in Txns, CanSettle(t), SettlePayout(t)
    PROVE  PromiseStep /\ ClaimsKept
<1>1. life[t] = "PAYOUT_PENDING"
  BY Transitions
     DEF CanSettle, CanMove, StoreTypeOK, StoreBooks, StagesReached, LifeStates
<1>2. debits[t] = 0 /\ credits[t] >= 1
  BY <1>1 DEF StoreBooks, CreditedOnCapture, DebitedOnCompletion, Captured, PaidOut
<1>3. debits' = [debits EXCEPT ![t] = 1] /\ UNCHANGED credits
  BY <1>2 DEF SettlePayout, Debit, StoreTypeOK
<1>4. life' = [life EXCEPT ![t] = "COMPLETED"]
  BY DEF SettlePayout
<1>5. Promise!Complete(t)
  BY <1>1, <1>2, <1>3, <1>4 DEF Promise!Complete, Promise!Step
<1>6. QED
  BY <1>1, <1>4, <1>5 DEF Promise!Next, PromiseStep, ClaimsKept, StoreTypeOK, Unclaimed

\* markPayoutFailed fails the promise of an open payout, and of no other.
LEMMA MarkFailedIsPromised ==
    ASSUME StoreTypeOK, NEW t \in Txns, MarkPayoutFailed(t)
    PROVE  PromiseStep /\ ClaimsKept
<1>1. CASE life[t] = "PAYOUT_PENDING"
  <2>1. Promise!Next
    BY <1>1, MoveIsPromised DEF MarkPayoutFailed, ledgerVars
  <2>2. ClaimsKept
    BY <1>1 DEF MarkPayoutFailed, ClaimsKept, StoreTypeOK, Unclaimed
  <2>3. QED
    BY <2>1, <2>2 DEF PromiseStep
<1>2. CASE life[t] # "PAYOUT_PENDING"
  <2>1. UNCHANGED <<life, credits, debits>>
    BY <1>2 DEF MarkPayoutFailed, StoreTypeOK, ledgerVars
  <2>2. QED
    BY <2>1, QuietIsPromised
<1>3. QED
  BY <1>1, <1>2

-----------------------------------------------------------------------------
\* A function of Booleans that differs from another in one flag.
LEMMA SetOneFlag ==
    ASSUME NEW S, NEW t \in S, NEW f \in [S -> BOOLEAN], NEW g \in [S -> BOOLEAN],
           g[t], \A x \in S \ {t} : g[x] <=> f[x]
    PROVE  g = [f EXCEPT ![t] = TRUE]
  OBVIOUS

\* A function of Booleans that is nowhere true.
LEMMA NoFlags ==
    ASSUME NEW S, NEW f \in [S -> BOOLEAN], \A x \in S : ~ f[x]
    PROVE  f = [x \in S |-> FALSE]
  OBVIOUS

\* The payment side captures, or fails, a payment that was pending.
LEMMA CapturePromised ==
    ASSUME TypeInv, StoreBooks, CaptureNext
    PROVE  PromiseStep /\ ClaimsKept
<1> USE DEF TypeInv, TypeOK, storeVars, ledgerVars
<1>1. CASE UNCHANGED <<life, credits, debits>>
  BY <1>1, QuietIsPromised
<1>2. ASSUME NEW w \in HookWorkers, NEW e \in Events, CapturePayment(w, e)
      PROVE  PromiseStep /\ ClaimsKept
  <2> DEFINE t == OrderOf[e]
  <2>1. t \in Txns
    BY CaptureAssumption DEF CaptureAssumption
  <2>2. life[t] \in {"PAYMENT_PENDING", "PAYMENT_SUCCESS"}
    BY <1>2, <2>1, Transitions DEF CapturePayment, CanMove, StoreTypeOK, LifeStates
  <2>3. /\ life' = [life EXCEPT ![t] = "PAYMENT_SUCCESS"]
        /\ credits' = [credits EXCEPT ![t] = @ + 1]
        /\ debits' = debits
    BY <1>2 DEF CapturePayment, MoveTo, Credit
  <2>4. ClaimsKept
    BY <2>1, <2>2, <2>3 DEF ClaimsKept, StoreTypeOK, Unclaimed
  <2>5. CASE life[t] = "PAYMENT_PENDING"
    <3>1. [x \in Txns |-> credits[x] >= 1]' = [[x \in Txns |-> credits[x] >= 1] EXCEPT ![t] = TRUE]
      <4> DEFINE was == [x \in Txns |-> credits[x] >= 1]
                 is == [x \in Txns |-> credits'[x] >= 1]
      <4>1. was \in [Txns -> BOOLEAN] /\ is \in [Txns -> BOOLEAN]
        OBVIOUS
      <4>a. credits'[t] >= 1 /\ \A x \in Txns \ {t} : credits'[x] = credits[x]
        BY <2>1, <2>3 DEF StoreTypeOK
      <4>2. is[t] /\ \A x \in Txns \ {t} : is[x] <=> was[x]
        BY <2>1, <4>a, Zenon
      <4> HIDE DEF was, is
      <4>3. is = [was EXCEPT ![t] = TRUE]
        BY <2>1, <4>1, <4>2, SetOneFlag
      <4>4. QED
        BY <4>3 DEF was, is
    <3>2. Promise!Capture(t)
      BY <2>3, <2>5, <3>1 DEF Promise!Capture, Promise!Step
    <3>3. QED
      BY <2>1, <2>4, <3>2 DEF Promise!Next, PromiseStep
  <2>6. CASE life[t] = "PAYMENT_SUCCESS"
    <3>1. credits[t] >= 1
      BY <2>1, <2>6 DEF StoreBooks, CreditedOnCapture, Captured
    <3>2. [x \in Txns |-> credits[x] >= 1]' = [x \in Txns |-> credits[x] >= 1]
      BY <2>1, <2>3, <3>1 DEF StoreTypeOK
    <3>3. UNCHANGED <<life, debits>>
      BY <2>1, <2>3, <2>6 DEF StoreTypeOK
    <3>4. QED
      BY <2>4, <3>2, <3>3 DEF Promise!vars, PromiseStep
  <2>7. QED
    BY <2>2, <2>5, <2>6
<1>3. ASSUME NEW w \in HookWorkers, NEW e \in Events, FailPayment(w, e)
      PROVE  PromiseStep /\ ClaimsKept
  <2> DEFINE t == OrderOf[e]
  <2>1. t \in Txns
    BY CaptureAssumption DEF CaptureAssumption
  <2>2. life[t] \in {"PAYMENT_PENDING", "PAYMENT_FAILED"}
    BY <1>3, <2>1, Transitions DEF FailPayment, CanMove, StoreTypeOK, LifeStates
  <2>3. /\ life' = [life EXCEPT ![t] = "PAYMENT_FAILED"]
        /\ UNCHANGED <<credits, debits>>
    BY <1>3 DEF FailPayment, MoveTo
  <2>4. CASE life[t] = "PAYMENT_PENDING"
    <3>1. Promise!Next
      BY <2>1, <2>3, <2>4, MoveIsPromised
    <3>2. ClaimsKept
      BY <2>1, <2>3, <2>4 DEF ClaimsKept, StoreTypeOK, Unclaimed
    <3>3. QED
      BY <3>1, <3>2 DEF PromiseStep
  <2>5. CASE life[t] = "PAYMENT_FAILED"
    <3>1. UNCHANGED <<life, credits, debits>>
      BY <2>1, <2>3, <2>5 DEF StoreTypeOK
    <3>2. QED
      BY <3>1, QuietIsPromised
  <2>6. QED
    BY <2>2, <2>4, <2>5
<1>4. QED
  BY <1>1, <1>2, <1>3 DEF CaptureNext, GatewayDecides, ReceiveNotice, ForgetHookJob,
     SkipProcessedEvent, CrashHook, HookStep, BeginHook, AcknowledgeEvent, EnqueuePayout,
     RejectHook, FailHook

\* The refund side moves a completed transfer, or nothing.
LEMMA RefundPromised ==
    ASSUME TypeInv, StoreBooks, RefundNext
    PROVE  PromiseStep /\ ClaimsKept
<1> USE DEF TypeInv, TypeOK, storeVars, ledgerVars
<1>1. CASE UNCHANGED <<life, credits, debits>>
  BY <1>1, QuietIsPromised
<1>2. ASSUME NEW c \in Clerks, WriteRefund(c), SettlesRefund(c)
      PROVE  PromiseStep /\ ClaimsKept
  <2> DEFINE t == refund[clerk[c].id].txn
  <2>1. t \in Txns
    BY <1>2, ClerkRecords DEF WriteRefund, Busy
  <2>2. life[t] \in {"COMPLETED", "REFUNDED"}
    BY <1>2, <2>1, Transitions DEF WriteRefund, CanMove, StoreTypeOK, LifeStates
  <2>3. life' = [life EXCEPT ![t] = "REFUNDED"] /\ UNCHANGED <<credits, debits>>
    BY <1>2 DEF WriteRefund
  <2>4. CASE life[t] = "COMPLETED"
    <3>1. Promise!Next
      BY <2>1, <2>3, <2>4, MoveIsPromised
    <3>2. ClaimsKept
      BY <2>1, <2>3, <2>4 DEF ClaimsKept, StoreTypeOK, Unclaimed
    <3>3. QED
      BY <3>1, <3>2 DEF PromiseStep
  <2>5. CASE life[t] = "REFUNDED"
    <3>1. UNCHANGED <<life, credits, debits>>
      BY <2>1, <2>3, <2>5 DEF StoreTypeOK
    <3>2. QED
      BY <3>1, QuietIsPromised
  <2>6. QED
    BY <2>2, <2>4, <2>5
<1>3. ASSUME NEW c \in Clerks, WriteRefund(c), ~ SettlesRefund(c)
      PROVE  UNCHANGED <<life, credits, debits>>
  <2>1. refund[clerk[c].id].txn \in Txns
    BY <1>3, ClerkRecords DEF WriteRefund, Busy
  <2>2. QED
    BY <1>3, <2>1 DEF WriteRefund, StoreTypeOK
<1>4. QED
  BY <1>1, <1>2, <1>3
     DEF RefundNext, CrashClerk, RefundMoves, ClerkStep, BeginRefund, InsertRefund,
         RefuseRefund, RequestAnswered, RequestAnswerLost, RequestRefused, RejectRefund,
         BeginRefundSync, BeginRefundNotice, ReadRefund, RefundRejected

\* So does the dispute side.
LEMMA DisputePromised ==
    ASSUME TypeInv, StoreBooks, DisputeNext
    PROVE  PromiseStep /\ ClaimsKept
<1> USE DEF TypeInv, TypeOK, storeVars, ledgerVars
<1>1. CASE UNCHANGED <<life, credits, debits>>
  BY <1>1, QuietIsPromised
<1>2. ASSUME NEW o \in Operators, MoveToDisputed(o), CanMove(operator[o].txn, "DISPUTED")
      PROVE  PromiseStep /\ ClaimsKept
  <2> DEFINE t == operator[o].txn
  <2>1. t \in Txns
    BY <1>2 DEF MoveToDisputed, Doing, DisputeTypeOK, Opening, Editing
  <2>2. life[t] \in {"COMPLETED", "DISPUTED"}
    BY <1>2, <2>1, Transitions DEF CanMove, StoreTypeOK, LifeStates
  <2>3. life' = [life EXCEPT ![t] = "DISPUTED"] /\ UNCHANGED <<credits, debits>>
    BY <1>2 DEF MoveToDisputed, MoveTo
  <2>4. CASE life[t] = "COMPLETED"
    <3>1. Promise!Next
      BY <2>1, <2>3, <2>4, MoveIsPromised
    <3>2. ClaimsKept
      BY <2>1, <2>3, <2>4 DEF ClaimsKept, StoreTypeOK, Unclaimed
    <3>3. QED
      BY <3>1, <3>2 DEF PromiseStep
  <2>5. CASE life[t] = "DISPUTED"
    <3>1. UNCHANGED <<life, credits, debits>>
      BY <2>1, <2>3, <2>5 DEF StoreTypeOK
    <3>2. QED
      BY <3>1, QuietIsPromised
  <2>6. QED
    BY <2>2, <2>4, <2>5
<1>3. QED
  BY <1>1, <1>2
     DEF DisputeNext, CrashOperator, OperatorStep, BeginDispute, InsertDispute,
         MoveToDisputed, BeginEdit, WriteEdit

-----------------------------------------------------------------------------
\* The claim follows the attempt row while both stand still.
LEMMA ClaimsFollow ==
    ASSUME AttemptsAgree, ClaimsKept,
           \A t \in Txns : attempt'[t] = "NONE" <=> attempt[t] = "NONE",
           \A t \in Txns : transfer'[t] # "NONE" => transfer[t] # "NONE" \/ attempt[t] # "NONE"
    PROVE  AttemptsAgree'
  BY DEF AttemptsAgree, ClaimsKept

\* A step of a payout-side run claims, settles or fails a transfer, or leaves it.
LEMMA RunStepPromised ==
    ASSUME PromiseInv, NEW w \in Workers, NEW t \in Txns, RunStep(w, t)
    PROVE  PromiseStep /\ AttemptsAgree'
<1> USE DEF PromiseInv, BooksInv, TypeInv, TypeOK, storeVars, ledgerVars, rowVars, providerVars
<1>1. CASE UNCHANGED <<life, credits, debits, attempt, transfer>>
  BY <1>1, QuietIsPromised DEF AttemptsAgree
<1>2. CASE LockFindsRefund(w, t)
  <2>1. PromiseStep /\ ClaimsKept
    BY <1>2, MarkFailedIsPromised DEF LockFindsRefund
  <2>2. UNCHANGED <<attempt, transfer>>
    BY <1>2 DEF LockFindsRefund
  <2>3. QED
    BY <2>1, <2>2, ClaimsFollow
<1>3. CASE SubmitPayout(w, t)
  <2>1. life[t] \in Unclaimed /\ run[w].seenLife = "PAYMENT_SUCCESS"
    BY <1>3 DEF SubmitPayout, CanSubmit, At, AttemptsAgree, RunsAfterAttempt
  <2>2. life[t] = "PAYMENT_SUCCESS"
    BY <1>3, <2>1, Transitions
       DEF SubmitPayout, CanSubmit, CanMove, StoreTypeOK, LifeStates, Unclaimed
  <2>3. /\ life' = [life EXCEPT ![t] = "PAYOUT_PENDING"]
        /\ attempt' = [attempt EXCEPT ![t] = "PROCESSING"]
        /\ UNCHANGED <<credits, debits, transfer>>
    BY <1>3, <2>1 DEF SubmitPayout
  <2>4. Promise!Next
    BY <2>2, <2>3, MoveIsPromised
  <2>5. AttemptsAgree'
    BY <2>2, <2>3 DEF AttemptsAgree, StoreTypeOK, PayoutTypeOK, Unclaimed
  <2>6. QED
    BY <2>4, <2>5 DEF PromiseStep
<1>4. CASE \E s \in TransferStates : CallAnswered(w, t, s) \/ CallAnswerLost(w, t, s)
  <2>1. attempt[t] # "NONE"
    BY <1>4 DEF CallAnswered, CallAnswerLost, At, RunsAfterAttempt
  <2>2. UNCHANGED <<life, credits, debits, attempt>>
    BY <1>4 DEF CallAnswered, CallAnswerLost
  <2>3. \A x \in Txns : transfer'[x] # "NONE" => transfer[x] # "NONE" \/ x = t
    BY <1>4 DEF CallAnswered, CallAnswerLost, ProviderTakes, PayoutTypeOK
  <2>4. QED
    BY <2>1, <2>2, <2>3, QuietIsPromised, ClaimsFollow
<1>5. CASE RecordAnswer(w, t)
  <2> DEFINE m == MapStatus(run[w].status)
  <2>1. attempt[t] # "NONE" /\ m # "NONE"
    BY <1>5, RunTypes, MapStatusTypes DEF RecordAnswer, At, RunsAfterAttempt, PayoutStates
  <2>2. attempt' = [attempt EXCEPT ![t] = m] /\ UNCHANGED transfer
    BY <1>5 DEF RecordAnswer
  <2>3. PromiseStep /\ ClaimsKept
    <3>1. CASE m = "SUCCESS"
      BY <1>5, <3>1, SettleIsPromised DEF RecordAnswer
    <3>2. CASE m # "SUCCESS"
      BY <1>5, <3>2, QuietIsPromised DEF RecordAnswer
    <3>3. QED
      BY <3>1, <3>2
  <2>4. \A x \in Txns : attempt'[x] = "NONE" <=> attempt[x] = "NONE"
    BY <2>1, <2>2 DEF PayoutTypeOK
  <2>5. QED
    BY <2>2, <2>3, <2>4, ClaimsFollow
<1>6. CASE GiveUp(w, t)
  <2>1. attempt[t] # "NONE"
    BY <1>6 DEF GiveUp, At, RunsAfterAttempt
  <2>2. attempt' = [attempt EXCEPT ![t] = "FAILED"] /\ UNCHANGED transfer
    BY <1>6 DEF GiveUp
  <2>3. PromiseStep /\ ClaimsKept
    BY <1>6, MarkFailedIsPromised DEF GiveUp
  <2>4. \A x \in Txns : attempt'[x] = "NONE" <=> attempt[x] = "NONE"
    BY <2>1, <2>2 DEF PayoutTypeOK
  <2>5. QED
    BY <2>2, <2>3, <2>4, ClaimsFollow
<1>7. CASE WriteUpdate(w, t)
  <2> DEFINE m == MapStatus(run[w].status)
  <2>1. m # "NONE" /\ ~ Starts(w)
    BY <1>7, RunTypes, MapStatusTypes
       DEF WriteUpdate, At, Starts, RunsAfterAttempt, PayoutStates
  <2>2. /\ attempt' = [attempt EXCEPT ![t] = IF @ = "NONE" THEN @ ELSE m]
        /\ UNCHANGED transfer
    BY <1>7 DEF WriteUpdate
  <2>3. PromiseStep /\ ClaimsKept
    <3>1. CASE Settles(w)
      BY <1>7, <3>1, SettleIsPromised DEF WriteUpdate, CanUpdate
    <3>2. CASE ~ Settles(w)
      <4>1. UNCHANGED <<life, credits, debits>>
        BY <1>7, <2>1, <3>2 DEF WriteUpdate, StoreTypeOK
      <4>2. QED
        BY <4>1, QuietIsPromised
    <3>3. QED
      BY <3>1, <3>2
  <2>4. \A x \in Txns : attempt'[x] = "NONE" <=> attempt[x] = "NONE"
    BY <2>1, <2>2 DEF PayoutTypeOK
  <2>5. QED
    BY <2>2, <2>3, <2>4, ClaimsFollow
<1>8. CASE \/ BeginPayout(w, t) \/ LockStops(w, t) \/ LockGoesOn(w, t)
           \/ FindAttempt(w, t) \/ SubmitRejected(w, t)
  BY <1>1, <1>8 DEF BeginPayout, LockStops, LockGoesOn, FindAttempt, SubmitRejected, Throw
<1>9. CASE \/ CallRefused(w, t) \/ RecordFails(w, t) \/ BeginSync(w, t) \/ QueryProvider(w, t)
  BY <1>1, <1>9 DEF CallRefused, RecordFails, BeginSync, QueryProvider
<1>10. CASE \/ \E s \in TransferStates : BeginNotice(w, t, s)
            \/ ReadPayout(w, t) \/ UpdateRejected(w, t) \/ MarkNotice(w, t)
  BY <1>1, <1>10 DEF BeginNotice, ReadPayout, UpdateRejected, Throw, MarkNotice
<1>11. QED
  BY <1>2, <1>3, <1>4, <1>5, <1>6, <1>7, <1>8, <1>9, <1>10 DEF RunStep

\* The payout side keeps the promise.
LEMMA PayoutPromised ==
    ASSUME PromiseInv, PayoutNext
    PROVE  PromiseStep /\ AttemptsAgree'
<1> USE DEF PromiseInv, BooksInv, TypeInv, TypeOK, storeVars, ledgerVars, rowVars, providerVars,
            payoutVars
<1>1. CASE \E w \in Workers, t \in Txns : RunStep(w, t)
  BY <1>1, RunStepPromised
<1>2. CASE \E t \in Txns, s \in TransferStates : TransferMoves(t, s)
  <2>1. UNCHANGED <<life, credits, debits, attempt>>
    BY <1>2 DEF TransferMoves
  <2>2. \A x \in Txns : transfer'[x] # "NONE" => transfer[x] # "NONE"
    BY <1>2 DEF TransferMoves, PayoutTypeOK
  <2>3. QED
    BY <2>1, <2>2, QuietIsPromised, ClaimsFollow
<1>3. CASE UNCHANGED <<life, credits, debits, attempt, transfer>>
  BY <1>3, QuietIsPromised DEF AttemptsAgree
<1>4. QED
  BY <1>1, <1>2, <1>3
     DEF PayoutNext, CrashRun, SkipPaidPayout, ForgetPayoutJob, StartWorker, ResumePayouts,
         ForgetResumeJob

-----------------------------------------------------------------------------
\* An attempt row does not go away.
AttemptsKept == \A t \in Txns : attempt[t] # "NONE" => attempt'[t] # "NONE"

\* No step of a run takes the attempt row away.
LEMMA RunStepKeepsAttempts ==
    ASSUME TypeInv, NEW w \in Workers, NEW t \in Txns, RunStep(w, t)
    PROVE  AttemptsKept
<1> USE DEF TypeInv, TypeOK, PayoutTypeOK, AttemptsKept, rowVars
<1>1. CASE SubmitPayout(w, t) \/ GiveUp(w, t)
  BY <1>1 DEF SubmitPayout, GiveUp
<1>2. CASE RecordAnswer(w, t) \/ WriteUpdate(w, t)
  <2>1. MapStatus(run[w].status) # "NONE"
    BY <1>2, RunTypes, MapStatusTypes DEF RecordAnswer, WriteUpdate, At, PayoutStates
  <2>2. QED
    BY <1>2, <2>1 DEF RecordAnswer, WriteUpdate
<1>3. CASE UNCHANGED attempt
  BY <1>3
<1>4. QED
  BY <1>1, <1>2, <1>3
     DEF RunStep, BeginPayout, LockFindsRefund, LockStops, LockGoesOn, FindAttempt,
         SubmitRejected, Throw, CallAnswered, CallAnswerLost, CallRefused, RecordFails,
         BeginSync, QueryProvider, BeginNotice, ReadPayout, UpdateRejected, MarkNotice

\* The run that takes a step is past the claim when its next step relies on it;
\* the other runs are where they were.
LEMMA RunStepAfterAttempt ==
    ASSUME PromiseInv, NEW w \in Workers, NEW t \in Txns, RunStep(w, t)
    PROVE  RunsAfterAttempt'
<1> USE DEF PromiseInv, BooksInv, TypeInv, TypeOK, PayoutTypeOK, At, Idle
<1>0. AttemptsKept
  BY RunStepKeepsAttempts
<1>a. \A v \in Workers : run[v] # Idle => run[v].txn \in Txns
  BY RunTypes
<1>b. ASSUME \/ run'[w] = Idle
             \/ run'[w] # Idle /\ run'[w].pc \in {"query", "mark"}
             \/ /\ run'[w].txn \in Txns
                /\ attempt'[run'[w].txn] # "NONE"
                /\ run'[w].pc = "write" => run'[w].seenLife # "PAYMENT_SUCCESS",
             \A v \in Workers \ {w} : run'[v] = run[v]
      PROVE  RunsAfterAttempt'
  BY <1>0, <1>a, <1>b DEF RunsAfterAttempt, AttemptsKept
<1>1. CASE BeginPayout(w, t)
  <2>1. life[t] # "PAYMENT_SUCCESS" => attempt[t] # "NONE"
    BY <1>1 DEF BeginPayout, StoreBooks, CreditedOnCapture, AttemptsAgree, Unclaimed, Captured
  <2>2. UNCHANGED attempt
    BY <1>1 DEF BeginPayout, rowVars
  <2>3. /\ run'[w].txn = t /\ run'[w].pc = "lock" /\ run'[w].seenLife = life[t]
        /\ \A v \in Workers \ {w} : run'[v] = run[v]
    BY <1>1 DEF BeginPayout
  <2>4. QED
    BY <2>1, <2>2, <2>3 DEF RunsAfterAttempt
<1>2. CASE LockFindsRefund(w, t) \/ LockStops(w, t)
  BY <1>b, <1>2 DEF LockFindsRefund, LockStops, Finish
<1>3. CASE LockGoesOn(w, t) \/ FindAttempt(w, t)
  <2>1. CASE Forget(w, "query", "NONE")
    BY <1>b, <1>3, <2>1 DEF LockGoesOn, FindAttempt, Forget, Told
  <2>2. CASE GoTo(w, "prepare") \/ GoTo(w, "submit")
    <3>1. UNCHANGED attempt
      BY <1>3 DEF LockGoesOn, FindAttempt, rowVars
    <3>2. run[w] # Idle /\ run[w] \in Run /\ run[w].pc \in {"lock", "prepare"}
      BY <1>3, RunTypes DEF LockGoesOn, FindAttempt
    <3>3. /\ run'[w].txn = run[w].txn /\ run'[w].seenLife = run[w].seenLife
          /\ run'[w].pc \in {"prepare", "submit"}
          /\ \A v \in Workers \ {w} : run'[v] = run[v]
      BY <2>2, <3>2 DEF GoTo, Run
    <3>4. QED
      BY <3>1, <3>2, <3>3 DEF RunsAfterAttempt
  <2>3. QED
    BY <1>3, <2>1, <2>2 DEF LockGoesOn, FindAttempt
<1>4. CASE SubmitPayout(w, t)
  BY <1>b, <1>4 DEF SubmitPayout, Forget, Told
<1>5. CASE SubmitRejected(w, t) \/ UpdateRejected(w, t)
  BY <1>b, <1>5 DEF SubmitRejected, UpdateRejected, Throw
<1>6. CASE \/ \E s \in TransferStates : CallAnswered(w, t, s) \/ CallAnswerLost(w, t, s)
           \/ CallRefused(w, t) \/ RecordFails(w, t)
  <2>1. attempt[t] # "NONE"
    BY <1>6 DEF CallAnswered, CallAnswerLost, CallRefused, RecordFails, RunsAfterAttempt
  <2>2. PICK pc \in {"record", "giveup"}, s \in TransferStates \cup {"NONE"} : Forget(w, pc, s) /\ run[w].txn = t
    BY <1>6 DEF CallAnswered, CallAnswerLost, CallRefused, RecordFails
  <2>3. QED
    BY <1>0, <1>b, <2>1, <2>2 DEF Forget, Told, AttemptsKept
<1>7. CASE RecordAnswer(w, t) \/ GiveUp(w, t)
  BY <1>b, <1>7 DEF RecordAnswer, GiveUp, Finish
<1>8. CASE BeginSync(w, t)
  BY <1>b, <1>8 DEF BeginSync, Told
<1>9. CASE QueryProvider(w, t)
  <2>1. CASE providerRef[t]
    <3>1. attempt[t] # "NONE"
      BY <2>1 DEF AnswersBacked, AttemptsAgree
    <3>2. Forget(w, "read", transfer[t]) /\ run[w].txn = t
      BY <1>9, <2>1 DEF QueryProvider
    <3>3. QED
      BY <1>0, <1>b, <3>1, <3>2 DEF Forget, Told, AttemptsKept
  <2>2. CASE ~ providerRef[t]
    BY <1>b, <1>9, <2>2 DEF QueryProvider, Finish
  <2>3. QED
    BY <2>1, <2>2
<1>10. CASE \E s \in TransferStates : BeginNotice(w, t, s)
  <2>1. attempt[t] # "NONE"
    BY <1>10 DEF BeginNotice, AnswersBacked, AttemptsAgree
  <2>2. QED
    BY <1>0, <1>b, <1>10, <2>1 DEF BeginNotice, Told, AttemptsKept
<1>11. CASE ReadPayout(w, t)
  <2>1. attempt[t] # "NONE" /\ life[t] # "PAYMENT_SUCCESS"
    BY <1>11 DEF ReadPayout, RunsAfterAttempt, AttemptsAgree, Unclaimed
  <2>2. run[w] \in Run /\ run[w].txn = t
    BY <1>11, RunTypes DEF ReadPayout
  <2>3. CASE EndUpdate(w, t)
    BY <1>b, <2>3 DEF EndUpdate, Finish, Forget, Told
  <2>4. CASE run' = [run EXCEPT ![w].pc = "write", ![w].seenLife = life[t],
                                ![w].seenPayout = payout[t]]
    BY <1>0, <1>b, <2>1, <2>2, <2>4 DEF AttemptsKept, Run
  <2>5. QED
    BY <1>11, <2>3, <2>4 DEF ReadPayout
<1>12. CASE WriteUpdate(w, t)
  BY <1>b, <1>12 DEF WriteUpdate, EndUpdate, Finish, Forget, Told
<1>13. CASE MarkNotice(w, t)
  BY <1>b, <1>13 DEF MarkNotice
<1>14. QED
  BY <1>1, <1>2, <1>3, <1>4, <1>5, <1>6, <1>7, <1>8, <1>9, <1>10, <1>11, <1>12, <1>13
     DEF RunStep

\* The payout side stays behind its claim.
LEMMA PayoutAfterAttempt ==
    ASSUME PromiseInv, PayoutNext
    PROVE  RunsAfterAttempt'
<1> USE DEF PromiseInv, BooksInv, TypeInv, TypeOK, payoutVars, rowVars
<1>1. CASE \E w \in Workers, t \in Txns : RunStep(w, t)
  BY <1>1, RunStepAfterAttempt
<1>2. CASE \E w \in Workers : CrashRun(w)
  BY <1>2 DEF CrashRun, PayoutTypeOK, RunsAfterAttempt
<1>3. CASE UNCHANGED <<run, attempt>>
  BY <1>3 DEF RunsAfterAttempt
<1>4. QED
  BY <1>1, <1>2, <1>3
     DEF PayoutNext, SkipPaidPayout, ForgetPayoutJob, TransferMoves, StartWorker,
         ResumePayouts, ForgetResumeJob

-----------------------------------------------------------------------------
\* Each side writes the payout row and the column alike.
LEMMA CaptureColumn ==
    ASSUME TypeInv, StoreBooks, ColumnAgrees, CaptureNext
    PROVE  ColumnAgrees'
<1> USE DEF TypeInv, TypeOK, ColumnAgrees, storeVars
<1>1. CASE UNCHANGED <<payout, payoutStatus>>
  BY <1>1
<1>2. ASSUME NEW w \in HookWorkers, NEW e \in Events, CapturePayment(w, e)
      PROVE  ColumnAgrees'
  <2> DEFINE t == OrderOf[e]
  <2>1. t \in Txns
    BY CaptureAssumption DEF CaptureAssumption
  <2>2. life[t] \in {"PAYMENT_PENDING", "PAYMENT_SUCCESS"}
    BY <1>2, <2>1, Transitions DEF CapturePayment, CanMove, StoreTypeOK, LifeStates
  <2>3. life[t] = "PAYMENT_PENDING" <=> payout[t] = "NONE"
    BY <2>1, <2>2 DEF StoreBooks, CreditedOnCapture, Captured
  <2>4. ColumnAfter(t, "PAYMENT_SUCCESS", payoutStatus[t])
          = IF payout[t] = "NONE" THEN "QUEUED" ELSE payoutStatus[t]
    BY <2>2, <2>3 DEF ColumnAfter, LegacyPayoutStatus
  <2>5. /\ payout' = [payout EXCEPT ![t] = PendingPayout(t)]
        /\ payoutStatus' = [payoutStatus EXCEPT
                               ![t] = ColumnAfter(t, "PAYMENT_SUCCESS", payoutStatus[t])]
    BY <1>2 DEF CapturePayment, MoveTo
  <2>6. QED
    BY <2>1, <2>4, <2>5 DEF StoreTypeOK, PendingPayout
<1>3. ASSUME NEW w \in HookWorkers, NEW e \in Events, FailPayment(w, e)
      PROVE  ColumnAgrees'
  <2> DEFINE t == OrderOf[e]
  <2>1. t \in Txns
    BY CaptureAssumption DEF CaptureAssumption
  <2>2. life[t] \in {"PAYMENT_PENDING", "PAYMENT_FAILED"}
    BY <1>3, <2>1, Transitions DEF FailPayment, CanMove, StoreTypeOK, LifeStates
  <2>3. payout[t] = "NONE"
    BY <2>1, <2>2 DEF StoreBooks, CreditedOnCapture, Captured
  <2>4. QED
    BY <1>3, <2>1, <2>3 DEF FailPayment, MoveTo, StoreTypeOK
<1>4. QED
  BY <1>1, <1>2, <1>3 DEF CaptureNext, GatewayDecides, ReceiveNotice, ForgetHookJob,
     SkipProcessedEvent, CrashHook, HookStep, BeginHook, AcknowledgeEvent, EnqueuePayout,
     RejectHook, FailHook

\* On the payout side the update that would rewrite the column never starts a
\* payout again: its transfer was claimed before it was read.
LEMMA PayoutColumn ==
    ASSUME PromiseInv, PayoutNext
    PROVE  ColumnAgrees'
<1> USE DEF PromiseInv, BooksInv, TypeInv, TypeOK, StoreTypeOK, ColumnAgrees, storeVars
<1>1. CASE UNCHANGED <<payout, payoutStatus>>
  BY <1>1
<1>2. ASSUME NEW w \in Workers, NEW t \in Txns, LockFindsRefund(w, t) \/ GiveUp(w, t)
      PROVE  ColumnAgrees'
  BY <1>2 DEF LockFindsRefund, GiveUp, MarkPayoutFailed
<1>3. ASSUME NEW w \in Workers, NEW t \in Txns, SubmitPayout(w, t) \/ RecordAnswer(w, t)
      PROVE  ColumnAgrees'
  BY <1>3 DEF SubmitPayout, RecordAnswer
<1>4. ASSUME NEW w \in Workers, NEW t \in Txns, WriteUpdate(w, t)
      PROVE  ColumnAgrees'
  <2>1. ~ Starts(w)
    BY <1>4 DEF WriteUpdate, At, Starts, RunsAfterAttempt
  <2>2. QED
    BY <1>4, <2>1 DEF WriteUpdate
<1>5. ASSUME NEW w \in Workers, NEW t \in Txns, RunStep(w, t)
      PROVE  ColumnAgrees'
  <2>1. CASE \/ BeginPayout(w, t) \/ LockStops(w, t) \/ LockGoesOn(w, t)
             \/ FindAttempt(w, t) \/ SubmitRejected(w, t)
    BY <1>1, <2>1 DEF BeginPayout, LockStops, LockGoesOn, FindAttempt, SubmitRejected, Throw
  <2>2. CASE \/ \E s \in TransferStates : CallAnswered(w, t, s) \/ CallAnswerLost(w, t, s)
             \/ CallRefused(w, t) \/ RecordFails(w, t)
    BY <1>1, <2>2 DEF CallAnswered, CallAnswerLost, CallRefused, RecordFails
  <2>3. CASE \/ BeginSync(w, t) \/ QueryProvider(w, t) \/ ReadPayout(w, t)
             \/ \E s \in TransferStates : BeginNotice(w, t, s)
             \/ UpdateRejected(w, t) \/ MarkNotice(w, t)
    BY <1>1, <2>3 DEF BeginSync, QueryProvider, ReadPayout, BeginNotice, UpdateRejected,
         Throw, MarkNotice
  <2>4. QED
    BY <1>2, <1>3, <1>4, <1>5, <2>1, <2>2, <2>3 DEF RunStep
<1>6. QED
  BY <1>1, <1>5
     DEF PayoutNext, CrashRun, SkipPaidPayout, ForgetPayoutJob, TransferMoves, StartWorker,
         ResumePayouts, ForgetResumeJob

\* A refund that stops a payout writes both, other refunds neither.
LEMMA RefundColumn ==
    ASSUME TypeInv, ColumnAgrees, RefundNext
    PROVE  ColumnAgrees'
<1> USE DEF TypeInv, TypeOK, StoreTypeOK, ColumnAgrees, storeVars
<1>1. ASSUME NEW c \in Clerks, WriteRefund(c)
      PROVE  ColumnAgrees'
  BY <1>1 DEF WriteRefund
<1>2. QED
  BY <1>1
     DEF RefundNext, CrashClerk, RefundMoves, ClerkStep, BeginRefund, InsertRefund,
         RefuseRefund, RequestAnswered, RequestAnswerLost, RequestRefused, RejectRefund,
         BeginRefundSync, BeginRefundNotice, ReadRefund, RefundRejected

\* A dispute leaves the column as it is.
LEMMA DisputeColumn ==
    ASSUME TypeInv, ColumnAgrees, DisputeNext
    PROVE  ColumnAgrees'
<1> USE DEF TypeInv, TypeOK, StoreTypeOK, ColumnAgrees, storeVars
<1>1. ASSUME NEW o \in Operators, MoveToDisputed(o)
      PROVE  ColumnAgrees'
  <2>1. operator[o].txn \in Txns
    BY <1>1 DEF MoveToDisputed, Doing, DisputeTypeOK, Opening, Editing
  <2>2. UNCHANGED <<payout, payoutStatus>>
    BY <1>1, <2>1 DEF MoveToDisputed, MoveTo, ColumnAfter, LegacyPayoutStatus
  <2>3. QED
    BY <2>2
<1>2. QED
  BY <1>1
     DEF DisputeNext, CrashOperator, OperatorStep, BeginDispute, InsertDispute,
         BeginEdit, WriteEdit

-----------------------------------------------------------------------------
\* The system starts where the promise starts.
LEMMA InitPromised == Init => PromiseInv /\ Promise!Init
<1> SUFFICES ASSUME Init PROVE PromiseInv /\ Promise!Init
  OBVIOUS
<1> USE DEF Init, StoreInit
<1>1. BooksInv
  BY InitBooks
<1>2. AttemptsAgree /\ RunsAfterAttempt /\ ColumnAgrees
  BY DEF PayoutInit, AttemptsAgree, RunsAfterAttempt, ColumnAgrees, Unclaimed
<1>3. [t \in Txns |-> credits[t] >= 1] = [t \in Txns |-> FALSE]
  <2> DEFINE in == [t \in Txns |-> credits[t] >= 1]
  <2>a. \A t \in Txns : ~ (credits[t] >= 1)
    OBVIOUS
  <2>1. in \in [Txns -> BOOLEAN]
    OBVIOUS
  <2>2. \A t \in Txns : ~ in[t]
    BY <2>a, Zenon
  <2> HIDE DEF in
  <2>3. in = [t \in Txns |-> FALSE]
    BY <2>1, <2>2, NoFlags
  <2>4. QED
    BY <2>3 DEF in
<1>4. QED
  BY <1>1, <1>2, <1>3 DEF PromiseInv, Promise!Init

\* Every step is a step of the promise, or none.
LEMMA NextPromised == PromiseInv /\ [Next]_vars => PromiseInv' /\ PromiseStep
<1> SUFFICES ASSUME PromiseInv, [Next]_vars PROVE PromiseInv' /\ PromiseStep
  OBVIOUS
<1> USE DEF PromiseInv, BooksInv
<1>0. BooksInv'
  BY NextBooks
<1>a. ASSUME ClaimsKept, UNCHANGED <<attempt, transfer, run>>
      PROVE  AttemptsAgree' /\ RunsAfterAttempt'
  BY <1>a, ClaimsFollow DEF RunsAfterAttempt
<1>1. CASE CaptureStep
  <2>1. PromiseStep /\ ClaimsKept /\ ColumnAgrees'
    BY <1>1, CapturePromised, CaptureColumn DEF CaptureStep
  <2>2. UNCHANGED <<attempt, transfer, run>>
    BY <1>1 DEF CaptureStep, payoutVars
  <2>3. QED
    BY <1>0, <1>a, <2>1, <2>2
<1>2. CASE PayoutStep
  BY <1>0, <1>2, PayoutPromised, PayoutAfterAttempt, PayoutColumn DEF PayoutStep
<1>3. CASE RefundStep
  <2>1. PromiseStep /\ ClaimsKept /\ ColumnAgrees'
    BY <1>3, RefundPromised, RefundColumn DEF RefundStep
  <2>2. UNCHANGED <<attempt, transfer, run>>
    BY <1>3 DEF RefundStep, payoutVars
  <2>3. QED
    BY <1>0, <1>a, <2>1, <2>2
<1>4. CASE DisputeStep
  <2>1. PromiseStep /\ ClaimsKept /\ ColumnAgrees'
    BY <1>4, DisputePromised, DisputeColumn DEF DisputeStep
  <2>2. UNCHANGED <<attempt, transfer, run>>
    BY <1>4 DEF DisputeStep, payoutVars
  <2>3. QED
    BY <1>0, <1>a, <2>1, <2>2
<1>5. CASE UNCHANGED vars
  <2>1. UNCHANGED <<life, payout, payoutStatus, credits, debits, attempt, transfer, run>>
    BY <1>5 DEF vars, storeVars, ledgerVars, payoutVars
  <2>2. AttemptsAgree' /\ RunsAfterAttempt' /\ ColumnAgrees'
    BY <2>1 DEF AttemptsAgree, RunsAfterAttempt, ColumnAgrees
  <2>3. QED
    BY <1>0, <2>1, <2>2, QuietIsPromised
<1>6. QED
  BY <1>1, <1>2, <1>3, <1>4, <1>5 DEF Next

\* The invariant holds in every state the system reaches.
THEOREM PromiseKeptAlong == Spec => []PromiseInv
<1>1. PromiseInv /\ [Next]_vars => PromiseInv'
  BY NextPromised
<1>2. Init => PromiseInv
  BY InitPromised
<1>3. QED
  BY <1>1, <1>2, PTL DEF Spec

\* The whole system implements the promise of a transfer: whatever webhooks,
\* jobs, syncs, refunds and disputes do, a transfer moves along its lifecycle
\* and its money moves once.
THEOREM PromiseKept == Spec => KeepsPromise
<1>1. Init => Promise!Init
  BY InitPromised
<1>2. PromiseInv /\ [Next]_vars => [Promise!Next]_(Promise!vars)
  BY NextPromised DEF PromiseStep
<1>3. QED
  BY <1>1, <1>2, PromiseKeptAlong, PTL DEF Spec, KeepsPromise, Promise!Spec

\* The denormalised payoutStatus column equals the payout row's status after every
\* database block.
THEOREM ColumnsAgree == Spec => []ColumnAgrees
<1>1. PromiseInv => ColumnAgrees
  BY DEF PromiseInv
<1>2. QED
  BY <1>1, PromiseKeptAlong, PTL
=============================================================================
