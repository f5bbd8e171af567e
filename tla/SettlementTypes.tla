--------------------------- MODULE SettlementTypes ---------------------------
(***************************************************************************)
(* The type invariant, for every value of the constants.                   *)
(***************************************************************************)
EXTENDS Settlement, TLAPS

\* The two helpers every settlement or capture goes through keep the store typed.
LEMMA CreditTypes ==
    ASSUME StoreTypeOK, NEW t \in Txns, Credit(t)
    PROVE  /\ credits' \in [Txns -> Nat]
           /\ debits' \in [Txns -> Nat]
           /\ balance' \in [Users -> Nat]
<1>1. UserOf[t] \in Users /\ Net[t] \in Nat /\ balance \in [Users -> Nat]
  BY StoreAssumption DEF StoreAssumption, StoreTypeOK
<1>2. balance[UserOf[t]] + Net[t] \in Nat
  BY <1>1
<1>3. QED
  BY <1>1, <1>2 DEF StoreTypeOK, Credit

\* A covered debit keeps the ledger and the balances typed.
LEMMA DebitTypes ==
    ASSUME StoreTypeOK, NEW t \in Txns, CanDebit(t), Debit(t)
    PROVE  /\ credits' \in [Txns -> Nat]
           /\ debits' \in [Txns -> Nat]
           /\ balance' \in [Users -> Nat]
<1>1. UserOf[t] \in Users /\ Net[t] \in Nat /\ balance \in [Users -> Nat]
  BY StoreAssumption DEF StoreAssumption, StoreTypeOK
<1>2. balance[UserOf[t]] - Net[t] \in Nat
  BY <1>1 DEF CanDebit
<1>3. QED
  BY <1>1, <1>2 DEF StoreTypeOK, Debit

\* toLegacyStatus writes payout statuses only.
LEMMA ColumnTypes ==
    ASSUME NEW to \in LifeStates, NEW column \in PayoutStates
    PROVE  LegacyPayoutStatus(to, column) \in PayoutStates
  BY DEF LegacyPayoutStatus, PayoutStates, LifeStates

\* A transition keeps the two columns it writes typed.
LEMMA MoveTypes ==
    ASSUME StoreTypeOK, NEW t \in Txns, NEW to \in LifeStates, MoveTo(t, to)
    PROVE  /\ life' \in [Txns -> LifeStates]
           /\ payoutStatus' \in [Txns -> PayoutStates]
  BY ColumnTypes DEF StoreTypeOK, MoveTo, ColumnAfter

\* A fault stays within its budget.
LEMMA FaultTypes ==
    ASSUME StoreTypeOK, Fault
    PROVE  faults' \in 0 .. MaxFaults
  BY StoreAssumption DEF StoreAssumption, StoreTypeOK, Fault

-----------------------------------------------------------------------------
(***************************************************************************)
(* The payment side.                                                       *)
(***************************************************************************)
\* A run of a webhook job between two steps is a HookTask record.
LEMMA HookTypes ==
    ASSUME CaptureTypeOK, NEW w \in HookWorkers, hook[w] # HookIdle
    PROVE  /\ hook[w] \in HookTask
           /\ hook[w].event \in Events
           /\ hook[w].status \in PayStates
           /\ hook[w].seen \in LifeStates
  BY DEF CaptureTypeOK, HookTask

\* A run that completes leaves the webhook queue typed.
LEMMA CompleteHookTypes ==
    ASSUME CaptureTypeOK, NEW w \in HookWorkers, hook[w] # HookIdle, CompleteHook(w)
    PROVE  /\ hook' \in [HookWorkers -> HookTask \cup {HookIdle}]
           /\ hookJob' \in [Events -> PayStates \cup {"NONE", "DONE"}]
  BY HookTypes DEF CaptureTypeOK, CompleteHook

\* The payment side keeps the store and itself typed.
LEMMA CaptureTypes ==
    ASSUME TypeOK, CaptureNext
    PROVE  StoreTypeOK' /\ CaptureTypeOK'
<1> USE CaptureAssumption DEF TypeOK
<1>1. CASE \E e \in Events, s \in PayStates : GatewayDecides(e, s)
  BY <1>1 DEF GatewayDecides, StoreTypeOK, CaptureTypeOK, storeVars, ledgerVars, PayStates
<1>2. CASE \E e \in Events, s \in PayStates : ReceiveNotice(e, s)
  BY <1>2 DEF ReceiveNotice, StoreTypeOK, CaptureTypeOK, storeVars, ledgerVars
<1>3. CASE \E e \in Events : ForgetHookJob(e)
  BY <1>3 DEF ForgetHookJob, StoreTypeOK, CaptureTypeOK, storeVars, ledgerVars
<1>4. CASE \E e \in Events : SkipProcessedEvent(e)
  BY <1>4 DEF SkipProcessedEvent, StoreTypeOK, CaptureTypeOK, storeVars, ledgerVars
<1>5. CASE \E w \in HookWorkers : CrashHook(w)
  BY <1>5, FaultTypes DEF CrashHook, StoreTypeOK, CaptureTypeOK, storeVars, ledgerVars
<1>6. ASSUME NEW w \in HookWorkers, NEW e \in Events, HookStep(w, e)
      PROVE  StoreTypeOK' /\ CaptureTypeOK'
  <2> DEFINE t == OrderOf[e]
  <2>t. t \in Txns
    BY CaptureAssumption DEF CaptureAssumption
  <2>1. CASE BeginHook(w, e)
    <3>1. life[t] \in LifeStates
      BY <2>t DEF StoreTypeOK
    <3>2. QED
      BY <2>1, <3>1 DEF BeginHook, StoreTypeOK, CaptureTypeOK, storeVars, ledgerVars, HookTask
  <2>2. CASE AcknowledgeEvent(w, e)
    BY <2>2, CompleteHookTypes
       DEF AcknowledgeEvent, Deciding, StoreTypeOK, CaptureTypeOK, storeVars, ledgerVars
  <2>3. CASE CapturePayment(w, e)
    <3>1. /\ life' \in [Txns -> LifeStates]
          /\ payoutStatus' \in [Txns -> PayoutStates]
      BY <2>3, <2>t, MoveTypes DEF CapturePayment, LifeStates
    <3>2. /\ credits' \in [Txns -> Nat]
          /\ debits' \in [Txns -> Nat]
          /\ balance' \in [Users -> Nat]
      BY <2>3, <2>t, CreditTypes DEF CapturePayment
    <3>3. payout' \in [Txns -> PayoutStates \cup {"NONE"}]
      BY <2>3, <2>t DEF CapturePayment, PendingPayout, StoreTypeOK, PayoutStates
    <3>4. StoreTypeOK'
      BY <2>3, <3>1, <3>2, <3>3 DEF CapturePayment, StoreTypeOK
    <3>5. CaptureTypeOK'
      BY <2>3, HookTypes DEF CapturePayment, Deciding, CaptureTypeOK, HookTask
    <3>6. QED
      BY <3>4, <3>5
  <2>4. CASE EnqueuePayout(w, e)
    BY <2>4, <2>t, CompleteHookTypes
       DEF EnqueuePayout, AddJob, JobStates, StoreTypeOK, CaptureTypeOK, ledgerVars
  <2>5. CASE FailPayment(w, e)
    <3>1. /\ life' \in [Txns -> LifeStates]
          /\ payoutStatus' \in [Txns -> PayoutStates]
      BY <2>5, <2>t, MoveTypes DEF FailPayment, LifeStates
    <3>2. QED
      BY <2>5, <3>1, CompleteHookTypes
         DEF FailPayment, Deciding, StoreTypeOK, CaptureTypeOK, ledgerVars
  <2>6. CASE RejectHook(w, e)
    BY <2>6 DEF RejectHook, FailHook, StoreTypeOK, CaptureTypeOK, storeVars, ledgerVars
  <2>7. QED
    BY <1>6, <2>1, <2>2, <2>3, <2>4, <2>5, <2>6 DEF HookStep
<1>7. QED
  BY <1>1, <1>2, <1>3, <1>4, <1>5, <1>6 DEF CaptureNext

-----------------------------------------------------------------------------
(***************************************************************************)
(* The payout side.                                                        *)
(***************************************************************************)
\* A mapped provider status is a payout status, and SUCCESS maps only itself.
LEMMA MapStatusTypes ==
    ASSUME NEW s \in TransferStates \cup {"NONE"}
    PROVE  /\ MapStatus(s) \in PayoutStates
           /\ MapStatus(s) = "SUCCESS" <=> s = "SUCCESS"
  BY DEF TransferStates, MapStatus, PayoutStates

\* A run between two steps is a Run record.
LEMMA RunTypes ==
    ASSUME PayoutTypeOK, NEW w \in Workers, run[w] # Idle
    PROVE  /\ run[w] \in Run
           /\ run[w].txn \in Txns
           /\ run[w].kind \in Kinds
           /\ run[w].status \in TransferStates \cup {"NONE"}
           /\ run[w].seenLife \in LifeStates \cup {"NONE"}
           /\ run[w].seenPayout \in PayoutStates \cup {"NONE"}
  BY DEF PayoutTypeOK, Run

\* A run that drops its copies stays a Run record.
LEMMA ForgetTypes ==
    ASSUME PayoutTypeOK, NEW w \in Workers, run[w] # Idle,
           NEW pc \in Submitting \cup Syncing,
           NEW s \in TransferStates \cup {"NONE"}, Forget(w, pc, s)
    PROVE  run' \in [Workers -> Run \cup {Idle}]
<1>1. Told(run[w].kind, run[w].txn, pc, s) \in Run
  BY RunTypes DEF Told, Run
<1>2. QED
  BY <1>1 DEF Forget, PayoutTypeOK

\* A handler that returns leaves the runs and the payout queue typed.
LEMMA FinishTypes ==
    ASSUME StoreTypeOK, PayoutTypeOK, NEW w \in Workers, NEW t \in Txns, Finish(w, t)
    PROVE  /\ run' \in [Workers -> Run \cup {Idle}]
           /\ payoutJob' \in [Txns -> JobStates]
  BY DEF Finish, StoreTypeOK, PayoutTypeOK, JobStates

\* So does the end of applyTransferUpdate.
LEMMA EndUpdateTypes ==
    ASSUME StoreTypeOK, PayoutTypeOK, NEW w \in Workers, NEW t \in Txns, run[w] # Idle,
           EndUpdate(w, t)
    PROVE  /\ run' \in [Workers -> Run \cup {Idle}]
           /\ payoutJob' \in [Txns -> JobStates]
<1>1. CASE run[w].kind = "notice"
  <2>1. Forget(w, "mark", run[w].status) /\ UNCHANGED payoutJob
    BY <1>1 DEF EndUpdate
  <2>2. run[w].status \in TransferStates \cup {"NONE"} /\ "mark" \in Syncing
    BY RunTypes DEF Syncing
  <2>3. QED
    BY <2>1, <2>2, ForgetTypes DEF StoreTypeOK
<1>2. CASE run[w].kind # "notice"
  BY <1>2, FinishTypes DEF EndUpdate
<1>3. QED
  BY <1>1, <1>2

\* markPayoutFailed keeps the store typed.
LEMMA MarkFailedTypes ==
    ASSUME StoreTypeOK, NEW t \in Txns, MarkPayoutFailed(t), payoutJob' \in [Txns -> JobStates]
    PROVE  StoreTypeOK'
  BY DEF MarkPayoutFailed, StoreTypeOK, LifeStates, PayoutStates, ledgerVars

\* So do the writes of a block that settles.
LEMMA SettleTypes ==
    ASSUME StoreTypeOK, NEW t \in Txns, CanSettle(t), SettlePayout(t)
    PROVE  /\ life' \in [Txns -> LifeStates]
           /\ credits' \in [Txns -> Nat]
           /\ debits' \in [Txns -> Nat]
           /\ balance' \in [Users -> Nat]
  BY DebitTypes DEF CanSettle, SettlePayout, StoreTypeOK, LifeStates

\* What the payout side relies on to stay typed: a run that reports a status was
\* told one, by a provider that has the transfer.
AnswersBacked ==
    /\ \A w \in Workers :
          run[w] # Idle /\ run[w].pc \in {"record", "read", "write", "mark"}
            => run[w].status # "NONE" /\ transfer[run[w].txn] # "NONE"
    /\ \A t \in Txns : providerRef[t] \/ notices[t] # {} => transfer[t] # "NONE"

\* Every step of a payout-side run keeps the store and the payout side typed.
LEMMA RunStepTypes ==
    ASSUME StoreTypeOK, PayoutTypeOK, AnswersBacked, NEW w \in Workers, NEW t \in Txns, RunStep(w, t)
    PROVE  StoreTypeOK' /\ PayoutTypeOK'
<1> USE DEF storeVars, ledgerVars, rowVars, providerVars
<1>1. CASE BeginPayout(w, t)
  <2>1. life[t] \in LifeStates /\ payout[t] \in PayoutStates
    BY <1>1 DEF BeginPayout, StoreTypeOK
  <2>2. RefundHolds(t) \in BOOLEAN
    BY DEF RefundHolds
  <2>3. run' \in [Workers -> Run \cup {Idle}]
    BY <1>1, <2>1, <2>2 DEF BeginPayout, PayoutTypeOK, Run, Submitting, Kinds
  <2>4. QED
    BY <1>1, <2>3 DEF BeginPayout, StoreTypeOK, PayoutTypeOK
<1>2. CASE LockFindsRefund(w, t)
  BY <1>2, FinishTypes, MarkFailedTypes DEF LockFindsRefund, PayoutTypeOK
<1>3. CASE LockStops(w, t)
  BY <1>3, FinishTypes DEF LockStops, StoreTypeOK, PayoutTypeOK
<1>4. CASE LockGoesOn(w, t)
  <2>1. CASE Forget(w, "query", "NONE")
    <3>1. run' \in [Workers -> Run \cup {Idle}]
      BY <1>4, <2>1, ForgetTypes DEF LockGoesOn, At, Syncing
    <3>2. QED
      BY <1>4, <3>1 DEF LockGoesOn, StoreTypeOK, PayoutTypeOK
  <2>2. CASE GoTo(w, "prepare")
    <3>1. run' \in [Workers -> Run \cup {Idle}]
      BY <1>4, <2>2, RunTypes DEF LockGoesOn, At, GoTo, PayoutTypeOK, Run, Submitting
    <3>2. QED
      BY <1>4, <3>1 DEF LockGoesOn, StoreTypeOK, PayoutTypeOK
  <2>3. QED
    BY <1>4, <2>1, <2>2 DEF LockGoesOn
<1>5. CASE FindAttempt(w, t)
  <2>1. CASE Forget(w, "query", "NONE")
    <3>1. run' \in [Workers -> Run \cup {Idle}]
      BY <1>5, <2>1, ForgetTypes DEF FindAttempt, At, Syncing
    <3>2. QED
      BY <1>5, <3>1 DEF FindAttempt, StoreTypeOK, PayoutTypeOK
  <2>2. CASE GoTo(w, "submit")
    <3>1. run' \in [Workers -> Run \cup {Idle}]
      BY <1>5, <2>2, RunTypes DEF FindAttempt, At, GoTo, PayoutTypeOK, Run, Submitting
    <3>2. QED
      BY <1>5, <3>1 DEF FindAttempt, StoreTypeOK, PayoutTypeOK
  <2>3. QED
    BY <1>5, <2>1, <2>2 DEF FindAttempt
<1>6. CASE SubmitPayout(w, t)
  <2>1. run' \in [Workers -> Run \cup {Idle}]
    BY <1>6, ForgetTypes DEF SubmitPayout, At, Submitting
  <2>2. QED
    BY <1>6, <2>1 DEF SubmitPayout, StoreTypeOK, PayoutTypeOK, LifeStates, PayoutStates
<1>7. CASE SubmitRejected(w, t)
  BY <1>7 DEF SubmitRejected, Throw, StoreTypeOK, PayoutTypeOK
<1>8. CASE \E s \in TransferStates : CallAnswered(w, t, s)
  <2>1. PICK s \in TransferStates : CallAnswered(w, t, s)
    BY <1>8
  <2>2. run' \in [Workers -> Run \cup {Idle}]
    BY <2>1, ForgetTypes DEF CallAnswered, At, Submitting
  <2>3. QED
    BY <2>1, <2>2 DEF CallAnswered, ProviderTakes, StoreTypeOK, PayoutTypeOK
<1>9. CASE \E s \in TransferStates : CallAnswerLost(w, t, s)
  <2>1. PICK s \in TransferStates : CallAnswerLost(w, t, s)
    BY <1>9
  <2>2. run' \in [Workers -> Run \cup {Idle}]
    BY <2>1, ForgetTypes DEF CallAnswerLost, At, Submitting
  <2>3. faults' \in 0 .. MaxFaults
    BY <2>1, FaultTypes DEF CallAnswerLost
  <2>4. QED
    BY <2>1, <2>2, <2>3 DEF CallAnswerLost, ProviderTakes, StoreTypeOK, PayoutTypeOK
<1>10. CASE CallRefused(w, t)
  <2>1. run' \in [Workers -> Run \cup {Idle}]
    BY <1>10, ForgetTypes DEF CallRefused, At, Submitting
  <2>2. QED
    BY <1>10, <2>1 DEF CallRefused, StoreTypeOK, PayoutTypeOK
<1>11. CASE RecordAnswer(w, t)
  <2> DEFINE m == MapStatus(run[w].status)
  <2>1. m \in PayoutStates
    BY <1>11, RunTypes, MapStatusTypes DEF RecordAnswer, At
  <2>2. /\ run' \in [Workers -> Run \cup {Idle}]
        /\ payoutJob' \in [Txns -> JobStates]
    BY <1>11, FinishTypes DEF RecordAnswer
  <2>3. /\ life' \in [Txns -> LifeStates]
        /\ credits' \in [Txns -> Nat]
        /\ debits' \in [Txns -> Nat]
        /\ balance' \in [Users -> Nat]
    <3>1. CASE m = "SUCCESS"
      BY <1>11, <3>1, SettleTypes DEF RecordAnswer
    <3>2. CASE m # "SUCCESS"
      BY <1>11, <3>2 DEF RecordAnswer, StoreTypeOK
    <3>3. QED
      BY <3>1, <3>2
  <2>4. submissions' \in [Txns -> Nat]
    <3>1. SubmittedPosts(m) \in Nat
      BY DEF SubmittedPosts
    <3>2. submissions' = [submissions EXCEPT ![t] = @ + SubmittedPosts(m)]
      BY <1>11 DEF RecordAnswer
    <3>3. QED
      BY <3>1, <3>2 DEF PayoutTypeOK
  <2>5. /\ payout' \in [Txns -> PayoutStates \cup {"NONE"}]
        /\ payoutStatus' \in [Txns -> PayoutStates]
        /\ attempt' \in [Txns -> PayoutStates \cup {"NONE"}]
        /\ providerRef' \in [Txns -> BOOLEAN]
    BY <1>11, <2>1 DEF RecordAnswer, StoreTypeOK, PayoutTypeOK
  <2>6. QED
    BY <1>11, <2>2, <2>3, <2>4, <2>5 DEF RecordAnswer, StoreTypeOK, PayoutTypeOK
<1>12. CASE RecordFails(w, t)
  <2>1. run' \in [Workers -> Run \cup {Idle}]
    BY <1>12, ForgetTypes DEF RecordFails, At, Submitting
  <2>2. faults' \in 0 .. MaxFaults
    BY <1>12, FaultTypes DEF RecordFails, StoreTypeOK
  <2>3. QED
    BY <1>12, <2>1, <2>2 DEF RecordFails, StoreTypeOK, PayoutTypeOK
<1>13. CASE GiveUp(w, t)
  <2>1. /\ run' \in [Workers -> Run \cup {Idle}]
        /\ payoutJob' \in [Txns -> JobStates]
    BY <1>13, FinishTypes DEF GiveUp
  <2>2. StoreTypeOK'
    BY <1>13, <2>1, MarkFailedTypes DEF GiveUp
  <2>3. QED
    BY <1>13, <2>1, <2>2 DEF GiveUp, PayoutTypeOK, PayoutStates
<1>14. CASE BeginSync(w, t)
  BY <1>14 DEF BeginSync, Told, StoreTypeOK, PayoutTypeOK, Run, Syncing, Kinds
<1>15. CASE QueryProvider(w, t)
  <2>1. /\ run' \in [Workers -> Run \cup {Idle}]
        /\ payoutJob' \in [Txns -> JobStates]
    <3>1. CASE providerRef[t]
      <4>1. transfer[t] \in TransferStates \cup {"NONE"}
        BY DEF PayoutTypeOK
      <4>2. QED
        BY <1>15, <3>1, <4>1, ForgetTypes DEF QueryProvider, At, Syncing, StoreTypeOK
    <3>2. CASE ~ providerRef[t]
      BY <1>15, <3>2, FinishTypes DEF QueryProvider
    <3>3. QED
      BY <3>1, <3>2
  <2>2. QED
    BY <1>15, <2>1 DEF QueryProvider, StoreTypeOK, PayoutTypeOK
<1>16. CASE \E s \in TransferStates : BeginNotice(w, t, s)
  BY <1>16 DEF BeginNotice, Told, StoreTypeOK, PayoutTypeOK, Run, Syncing, Kinds
<1>17. CASE ReadPayout(w, t)
  <2>1. /\ run' \in [Workers -> Run \cup {Idle}]
        /\ payoutJob' \in [Txns -> JobStates]
    <3>1. CASE payout[t] = "SUCCESS" /\ MapStatus(run[w].status) = "SUCCESS"
      BY <1>17, <3>1, EndUpdateTypes DEF ReadPayout, At
    <3>2. CASE ~ (payout[t] = "SUCCESS" /\ MapStatus(run[w].status) = "SUCCESS")
      <4>1. /\ run' = [run EXCEPT ![w].pc = "write", ![w].seenLife = life[t],
                                  ![w].seenPayout = payout[t]]
            /\ UNCHANGED payoutJob
        BY <1>17, <3>2 DEF ReadPayout
      <4>2. life[t] \in LifeStates /\ payout[t] \in PayoutStates \cup {"NONE"}
        BY DEF StoreTypeOK
      <4>3. run[w] \in Run
        BY <1>17, RunTypes DEF ReadPayout, At
      <4>4. QED
        BY <4>1, <4>2, <4>3 DEF PayoutTypeOK, StoreTypeOK, Run, Syncing
    <3>3. QED
      BY <3>1, <3>2
  <2>2. QED
    BY <1>17, <2>1 DEF ReadPayout, StoreTypeOK, PayoutTypeOK
<1>18. CASE WriteUpdate(w, t)
  <2> DEFINE m == MapStatus(run[w].status)
  <2>1. m \in PayoutStates
    BY <1>18, RunTypes, MapStatusTypes DEF WriteUpdate, At
  <2>2. /\ run' \in [Workers -> Run \cup {Idle}]
        /\ payoutJob' \in [Txns -> JobStates]
    BY <1>18, EndUpdateTypes DEF WriteUpdate, At
  <2>3. /\ life' \in [Txns -> LifeStates]
        /\ credits' \in [Txns -> Nat]
        /\ debits' \in [Txns -> Nat]
        /\ balance' \in [Users -> Nat]
    <3>1. CASE Settles(w)
      BY <1>18, <3>1, SettleTypes DEF WriteUpdate, CanUpdate
    <3>2. CASE ~ Settles(w)
      BY <1>18, <3>2 DEF WriteUpdate, StoreTypeOK, LifeStates
    <3>3. QED
      BY <3>1, <3>2
  <2>4. ColumnAfter(t, "PAYOUT_PENDING", m) \in PayoutStates
    BY <2>1, ColumnTypes DEF ColumnAfter, LifeStates
  <2>5. /\ payout' \in [Txns -> PayoutStates \cup {"NONE"}]
        /\ payoutStatus' \in [Txns -> PayoutStates]
        /\ attempt' \in [Txns -> PayoutStates \cup {"NONE"}]
        /\ providerRef' \in [Txns -> BOOLEAN]
    BY <1>18, <2>1, <2>4 DEF WriteUpdate, StoreTypeOK, PayoutTypeOK
  <2>6. QED
    BY <1>18, <2>2, <2>3, <2>5 DEF WriteUpdate, StoreTypeOK, PayoutTypeOK
<1>19. CASE UpdateRejected(w, t)
  BY <1>19 DEF UpdateRejected, Throw, StoreTypeOK, PayoutTypeOK
<1>20. CASE MarkNotice(w, t)
  <2>1. run[w].status \in TransferStates
    BY <1>20, RunTypes DEF MarkNotice, At, AnswersBacked
  <2>2. QED
    BY <1>20, <2>1 DEF MarkNotice, StoreTypeOK, PayoutTypeOK
<1>21. QED
  BY <1>1, <1>2, <1>3, <1>4, <1>5, <1>6, <1>7, <1>8, <1>9, <1>10, <1>11, <1>12,
     <1>13, <1>14, <1>15, <1>16, <1>17, <1>18, <1>19, <1>20 DEF RunStep

\* A provider that has a transfer keeps it, and no run is told of one it lacks.
LEMMA RunStepBacked ==
    ASSUME StoreTypeOK, PayoutTypeOK, AnswersBacked, NEW w \in Workers, NEW t \in Txns,
           RunStep(w, t)
    PROVE  AnswersBacked'
<1> USE DEF AnswersBacked, At, Idle, storeVars, ledgerVars, rowVars, providerVars
<1>1. CASE BeginPayout(w, t)
  BY <1>1 DEF BeginPayout, PayoutTypeOK
<1>2. CASE LockFindsRefund(w, t)
  BY <1>2 DEF LockFindsRefund, Finish, PayoutTypeOK
<1>3. CASE LockStops(w, t)
  BY <1>3 DEF LockStops, Finish, PayoutTypeOK
<1>4. CASE LockGoesOn(w, t)
  BY <1>4 DEF LockGoesOn, Forget, Told, GoTo, PayoutTypeOK, Run
<1>5. CASE FindAttempt(w, t)
  BY <1>5 DEF FindAttempt, Forget, Told, GoTo, PayoutTypeOK, Run
<1>6. CASE SubmitPayout(w, t)
  BY <1>6 DEF SubmitPayout, Forget, Told, PayoutTypeOK
<1>7. CASE SubmitRejected(w, t)
  BY <1>7 DEF SubmitRejected, Throw, PayoutTypeOK
<1>8. CASE \E s \in TransferStates : CallAnswered(w, t, s)
  BY <1>8 DEF CallAnswered, ProviderTakes, Forget, Told, PayoutTypeOK, TransferStates
<1>9. CASE \E s \in TransferStates : CallAnswerLost(w, t, s)
  BY <1>9 DEF CallAnswerLost, ProviderTakes, Forget, Told, PayoutTypeOK, TransferStates
<1>10. CASE CallRefused(w, t)
  BY <1>10 DEF CallRefused, Forget, Told, PayoutTypeOK
<1>11. CASE RecordAnswer(w, t)
  BY <1>11 DEF RecordAnswer, Finish, PayoutTypeOK
<1>12. CASE RecordFails(w, t)
  BY <1>12 DEF RecordFails, Forget, Told, PayoutTypeOK
<1>13. CASE GiveUp(w, t)
  BY <1>13 DEF GiveUp, Finish, PayoutTypeOK
<1>14. CASE BeginSync(w, t)
  BY <1>14 DEF BeginSync, Told, PayoutTypeOK
<1>15. CASE QueryProvider(w, t)
  BY <1>15 DEF QueryProvider, Finish, Forget, Told, PayoutTypeOK
<1>16. CASE \E s \in TransferStates : BeginNotice(w, t, s)
  BY <1>16 DEF BeginNotice, Told, PayoutTypeOK, TransferStates
<1>17. CASE ReadPayout(w, t)
  BY <1>17 DEF ReadPayout, EndUpdate, Finish, Forget, Told, PayoutTypeOK, Run
<1>18. CASE WriteUpdate(w, t)
  BY <1>18 DEF WriteUpdate, EndUpdate, Finish, Forget, Told, PayoutTypeOK, Run
<1>19. CASE UpdateRejected(w, t)
  BY <1>19 DEF UpdateRejected, Throw, PayoutTypeOK
<1>20. CASE MarkNotice(w, t)
  BY <1>20 DEF MarkNotice, PayoutTypeOK
<1>21. QED
  BY <1>1, <1>2, <1>3, <1>4, <1>5, <1>6, <1>7, <1>8, <1>9, <1>10, <1>11, <1>12,
     <1>13, <1>14, <1>15, <1>16, <1>17, <1>18, <1>19, <1>20 DEF RunStep

\* The payout side keeps the store and itself typed.
LEMMA PayoutTypes ==
    ASSUME StoreTypeOK, PayoutTypeOK, AnswersBacked, PayoutNext
    PROVE  StoreTypeOK' /\ PayoutTypeOK' /\ AnswersBacked'
<1> USE DEF storeVars, ledgerVars, rowVars, providerVars, payoutVars
<1>1. CASE \E w \in Workers, t \in Txns : RunStep(w, t)
  BY <1>1, RunStepTypes, RunStepBacked
<1>2. CASE \E w \in Workers : CrashRun(w)
  BY <1>2, FaultTypes DEF CrashRun, StoreTypeOK, PayoutTypeOK, AnswersBacked
<1>3. CASE \E t \in Txns : SkipPaidPayout(t) \/ ForgetPayoutJob(t)
  BY <1>3 DEF SkipPaidPayout, ForgetPayoutJob, StoreTypeOK, PayoutTypeOK, AnswersBacked, JobStates
<1>4. CASE \E t \in Txns, s \in TransferStates : TransferMoves(t, s)
  <2>1. StoreTypeOK' /\ PayoutTypeOK'
    BY <1>4 DEF TransferMoves, StoreTypeOK, PayoutTypeOK
  <2>2. AnswersBacked'
    BY <1>4 DEF TransferMoves, PayoutTypeOK, AnswersBacked, TransferStates
  <2>3. QED
    BY <2>1, <2>2
<1>5. CASE StartWorker
  BY <1>5 DEF StartWorker, AddJob, StoreTypeOK, PayoutTypeOK, AnswersBacked, JobStates
<1>6. CASE ResumePayouts
  BY <1>6 DEF ResumePayouts, AddJob, StoreTypeOK, PayoutTypeOK, AnswersBacked, JobStates
<1>7. CASE ForgetResumeJob
  BY <1>7 DEF ForgetResumeJob, StoreTypeOK, PayoutTypeOK, AnswersBacked, JobStates
<1>8. QED
  BY <1>1, <1>2, <1>3, <1>4, <1>5, <1>6, <1>7 DEF PayoutNext

-----------------------------------------------------------------------------
(***************************************************************************)
(* Refunds and disputes.                                                   *)
(***************************************************************************)
\* What the refund side relies on: past the insert a handler speaks of a row
\* that exists, and so does the gateway.
RefundsBacked ==
    /\ \A c \in Clerks :
          clerk[c] # ClerkIdle /\ clerk[c].pc # "insert" => refund[clerk[c].id] # NoRefund
    /\ \A r \in RefundIds :
          gatewayRefund[r] # "NONE" \/ refundNotices[r] # {} => refund[r] # NoRefund

\* A handler's record by its control point; a refund that exists is a row.
LEMMA ClerkRecords ==
    ASSUME StoreTypeOK, RefundTypeOK, RefundsBacked, NEW c \in Clerks,
           clerk[c] # ClerkIdle
    PROVE  /\ clerk[c].id \in RefundIds
           /\ clerk[c].pc \in {"insert", "call", "reject"} => clerk[c] \in Request
           /\ clerk[c].pc \in {"read", "write"} => clerk[c] \in Update
           /\ clerk[c].pc # "insert" =>
                 /\ refund[clerk[c].id] \in RefundRow
                 /\ refund[clerk[c].id].txn \in Txns
                 /\ refund[clerk[c].id].status \in RefundStates
<1>1. clerk[c] \in Request \cup Update
  BY DEF RefundTypeOK
<1>2. clerk[c].id \in RefundIds
  BY <1>1 DEF Request, Update
<1>3. ASSUME clerk[c].pc # "insert"
      PROVE  refund[clerk[c].id] \in RefundRow
  BY <1>2, <1>3 DEF RefundsBacked, StoreTypeOK
<1>4. QED
  BY <1>1, <1>2, <1>3 DEF Request, Update, RefundRow

\* The refund side keeps the store and itself typed.
LEMMA RefundTypes ==
    ASSUME StoreTypeOK, RefundTypeOK, RefundsBacked, RefundNext
    PROVE  StoreTypeOK' /\ RefundTypeOK' /\ RefundsBacked'
<1> USE DEF storeVars, ledgerVars
<1>1. CASE \E c \in Clerks : CrashClerk(c)
  BY <1>1, FaultTypes DEF CrashClerk, EndClerk, StoreTypeOK, RefundTypeOK, RefundsBacked
<1>2. CASE \E r \in RefundIds, s \in GatewayRefundStates : RefundMoves(r, s)
  BY <1>2 DEF RefundMoves, StoreTypeOK, RefundTypeOK, RefundsBacked, GatewayRefundStates
<1>3. ASSUME NEW c \in Clerks, ClerkStep(c)
      PROVE  StoreTypeOK' /\ RefundTypeOK' /\ RefundsBacked'
  <2>1. CASE \E r \in RefundIds, t \in Txns : \E a \in 1 .. Gross[t] : BeginRefund(c, r, t, a)
    <3>a. PICK r \in RefundIds, t \in Txns : \E a \in 1 .. Gross[t] : BeginRefund(c, r, t, a)
      BY <2>1
    <3>1. PICK a \in 1 .. Gross[t] : BeginRefund(c, r, t, a)
      BY <3>a
    <3>2. [pc |-> "insert", id |-> r, txn |-> t, amount |-> a,
           seenLife |-> life[t], seenRefunds |-> refund] \in Request
      BY <3>1, StoreAssumption DEF StoreAssumption, StoreTypeOK, Request
    <3>3. QED
      BY <3>1, <3>2 DEF BeginRefund, StoreTypeOK, RefundTypeOK, RefundsBacked
  <2>2. CASE InsertRefund(c)
    <3>1. clerk[c] \in Request /\ clerk[c].id \in RefundIds
      BY <2>2, ClerkRecords DEF InsertRefund, Busy
    <3>2. [txn |-> clerk[c].txn, amount |-> clerk[c].amount, status |-> "PENDING"] \in RefundRow
      BY <3>1 DEF Request, RefundRow, RefundStates
    <3>3. StoreTypeOK'
      BY <2>2, <3>1, <3>2 DEF InsertRefund, StoreTypeOK
    <3>4. RefundTypeOK'
      BY <2>2, <3>1 DEF InsertRefund, RefundTypeOK, Request
    <3>5. RefundsBacked'
      BY <2>2, <3>1, <3>2 DEF InsertRefund, RefundsBacked, StoreTypeOK, RefundTypeOK,
                              Request, RefundRow, NoRefund, RefundStates
    <3>6. QED
      BY <3>3, <3>4, <3>5
  <2>3. CASE RefuseRefund(c)
    BY <2>3 DEF RefuseRefund, EndClerk, StoreTypeOK, RefundTypeOK, RefundsBacked
  <2>4. CASE \E s \in GatewayRefundStates : RequestAnswered(c, s)
    <3>1. PICK s \in GatewayRefundStates : RequestAnswered(c, s)
      BY <2>4
    <3>2. clerk[c].id \in RefundIds /\ refund[clerk[c].id] # NoRefund
      BY <3>1, ClerkRecords DEF RequestAnswered, Busy, RefundsBacked
    <3>3. UpdateRefund(clerk[c].id, s) \in Update
      BY <3>2 DEF UpdateRefund, Update, RefundStates
    <3>4. QED
      BY <3>1, <3>2, <3>3
         DEF RequestAnswered, GatewayTakes, UpdateRefund, StoreTypeOK, RefundTypeOK, RefundsBacked
  <2>5. CASE \E s \in GatewayRefundStates : RequestAnswerLost(c, s)
    <3>1. PICK s \in GatewayRefundStates : RequestAnswerLost(c, s)
      BY <2>5
    <3>2. /\ clerk[c] \in Request
          /\ clerk[c].id \in RefundIds
          /\ refund[clerk[c].id] # NoRefund
      BY <3>1, ClerkRecords DEF RequestAnswerLost, Busy, RefundsBacked
    <3>3. faults' \in 0 .. MaxFaults
      BY <3>1, FaultTypes DEF RequestAnswerLost
    <3>4. QED
      BY <3>1, <3>2, <3>3
         DEF RequestAnswerLost, GatewayTakes, StoreTypeOK, RefundTypeOK, RefundsBacked, Request
  <2>6. CASE RequestRefused(c)
    <3>1. /\ clerk[c] \in Request
          /\ refund[clerk[c].id] # NoRefund
      BY <2>6, ClerkRecords DEF RequestRefused, Busy, RefundsBacked
    <3>2. QED
      BY <2>6, <3>1 DEF RequestRefused, StoreTypeOK, RefundTypeOK, RefundsBacked, Request
  <2>7. CASE RejectRefund(c)
    <3>1. clerk[c].id \in RefundIds /\ refund[clerk[c].id] \in RefundRow
      BY <2>7, ClerkRecords DEF RejectRefund, Busy
    <3>2. [refund[clerk[c].id] EXCEPT !.status = "FAILED"] \in RefundRow
      BY <3>1 DEF RefundRow, RefundStates
    <3>3. refund' = [refund EXCEPT ![clerk[c].id] = [refund[clerk[c].id] EXCEPT !.status = "FAILED"]]
      BY <2>7 DEF RejectRefund
    <3>4. \A r \in RefundIds : refund[r] # NoRefund => refund'[r] # NoRefund
      BY <3>1, <3>2, <3>3 DEF StoreTypeOK, RefundRow, NoRefund, RefundStates
    <3>5. StoreTypeOK' /\ RefundTypeOK'
      BY <2>7, <3>1, <3>2, <3>3 DEF RejectRefund, EndClerk, StoreTypeOK, RefundTypeOK
    <3>6. RefundsBacked'
      BY <2>7, <3>4, ClerkRecords DEF RejectRefund, EndClerk, RefundTypeOK, RefundsBacked
    <3>7. QED
      BY <3>5, <3>6
  <2>8. CASE \E r \in RefundIds : BeginRefundSync(c, r)
    <3>1. PICK r \in RefundIds : BeginRefundSync(c, r)
      BY <2>8
    <3>2. UpdateRefund(r, gatewayRefund[r]) \in Update
      BY <3>1 DEF BeginRefundSync, RefundTypeOK, UpdateRefund, Update, RefundStates
    <3>3. QED
      BY <3>1, <3>2 DEF BeginRefundSync, UpdateRefund, StoreTypeOK, RefundTypeOK, RefundsBacked
  <2>9. CASE \E r \in RefundIds, s \in GatewayRefundStates : BeginRefundNotice(c, r, s)
    <3>1. PICK r \in RefundIds, s \in GatewayRefundStates : BeginRefundNotice(c, r, s)
      BY <2>9
    <3>2. UpdateRefund(r, s) \in Update
      BY <3>1 DEF UpdateRefund, Update, RefundStates
    <3>3. QED
      BY <3>1, <3>2 DEF BeginRefundNotice, UpdateRefund, StoreTypeOK, RefundTypeOK, RefundsBacked
  <2>10. CASE ReadRefund(c)
    <3>1. /\ clerk[c] \in Update
          /\ refund[clerk[c].id] # NoRefund
          /\ refund[clerk[c].id].txn \in Txns
          /\ refund[clerk[c].id].status \in RefundStates
      BY <2>10, ClerkRecords DEF ReadRefund, Busy, RefundsBacked
    <3>2. payout[refund[clerk[c].id].txn] \in PayoutStates \cup {"NONE"}
      BY <3>1 DEF StoreTypeOK
    <3>3. QED
      BY <2>10, <3>1, <3>2 DEF ReadRefund, StoreTypeOK, RefundTypeOK, RefundsBacked, Update
  <2>11. CASE WriteRefund(c)
    <3> DEFINE r == clerk[c].id
               t == refund[r].txn
               row == [refund[r] EXCEPT !.status = MapRefundStatus(clerk[c].status)]
    <3>1. /\ r \in RefundIds
          /\ clerk[c].status \in GatewayRefundStates
          /\ refund[r] \in RefundRow
          /\ t \in Txns
      BY <2>11, ClerkRecords DEF WriteRefund, Busy, Update
    <3>2. row \in RefundRow
      BY <3>1 DEF RefundRow, RefundStates, MapRefundStatus, GatewayRefundStates
    <3>3. refund' = [refund EXCEPT ![r] = row]
      BY <2>11 DEF WriteRefund
    <3>4. \A x \in RefundIds : refund[x] # NoRefund => refund'[x] # NoRefund
      BY <3>1, <3>2, <3>3 DEF StoreTypeOK, RefundRow, NoRefund, RefundStates
    <3>5. refund' \in [RefundIds -> RefundRow \cup {NoRefund}]
      BY <3>1, <3>2, <3>3 DEF StoreTypeOK
    <3>6. StoreTypeOK'
      BY <2>11, <3>1, <3>5 DEF WriteRefund, StoreTypeOK, LifeStates, PayoutStates
    <3>7. RefundTypeOK'
      BY <2>11, <3>1 DEF WriteRefund, EndClerk, RefundTypeOK
    <3>8. RefundsBacked'
      BY <2>11, <3>4, ClerkRecords DEF WriteRefund, EndClerk, RefundTypeOK, RefundsBacked
    <3>9. QED
      BY <3>6, <3>7, <3>8
  <2>12. CASE RefundRejected(c)
    BY <2>12 DEF RefundRejected, EndClerk, StoreTypeOK, RefundTypeOK, RefundsBacked
  <2>13. QED
    BY <1>3, <2>1, <2>2, <2>3, <2>4, <2>5, <2>6, <2>7, <2>8, <2>9, <2>10, <2>11, <2>12
       DEF ClerkStep
<1>4. QED
  BY <1>1, <1>2, <1>3 DEF RefundNext

\* What the dispute side relies on: a case that is being answered or resolved
\* exists, and one whose transaction is being moved was opened for it.
CasesBacked ==
    \A o \in Operators :
        operator[o] # OperatorIdle =>
            /\ operator[o].pc \in {"respond", "resolve"} => dispute[operator[o].id] # NoCase
            /\ operator[o].pc = "move" =>
                  /\ dispute[operator[o].id] # NoCase
                  /\ dispute[operator[o].id].txn = operator[o].txn

\* A row that exists keeps its transaction when its status is written.
LEMMA CaseRows ==
    ASSUME DisputeTypeOK, NEW d \in Cases, dispute[d] # NoCase,
           NEW s \in OpenStates \cup TerminalDisputeStatuses
    PROVE  LET row == [dispute[d] EXCEPT !.status = s]
           IN  row \in Case /\ row # NoCase /\ row.txn = dispute[d].txn
<1>1. dispute[d] \in Case
  BY DEF DisputeTypeOK
<1>2. QED
  BY <1>1 DEF Case, NoCase, OpenStates, TerminalDisputeStatuses

\* The dispute side keeps the store and itself typed.
LEMMA DisputeTypes ==
    ASSUME StoreTypeOK, DisputeTypeOK, CasesBacked, DisputeNext
    PROVE  StoreTypeOK' /\ DisputeTypeOK' /\ CasesBacked'
<1> USE DEF storeVars, ledgerVars
<1>1. CASE \E o \in Operators : CrashOperator(o)
  BY <1>1, FaultTypes DEF CrashOperator, EndRequest, StoreTypeOK, DisputeTypeOK, CasesBacked
<1>2. ASSUME NEW o \in Operators, OperatorStep(o)
      PROVE  StoreTypeOK' /\ DisputeTypeOK' /\ CasesBacked'
  <2>1. CASE \E d \in Cases, t \in Txns : BeginDispute(o, d, t)
    BY <2>1 DEF BeginDispute, StoreTypeOK, DisputeTypeOK, CasesBacked, Opening
  <2>2. CASE \E s \in OpenStates : InsertDispute(o, s)
    <3>1. PICK s \in OpenStates : InsertDispute(o, s)
      BY <2>2
    <3>2. operator[o] \in Opening
      BY <3>1 DEF InsertDispute, Doing, DisputeTypeOK, Opening, Editing
    <3>3. operator[o].id \in Cases /\ operator[o].txn \in Txns
      BY <3>2 DEF Opening
    <3>4. [txn |-> operator[o].txn, status |-> s] \in Case \ {NoCase}
      BY <3>1, <3>3 DEF Case, NoCase, OpenStates
    <3>5. CASE dispute[operator[o].id] = NoCase
      <4>1. /\ dispute' = [dispute EXCEPT ![operator[o].id] =
                              [txn |-> operator[o].txn, status |-> s]]
            /\ operator' = [operator EXCEPT ![o].pc = "move"]
        BY <3>1, <3>5 DEF InsertDispute
      <4>2. StoreTypeOK' /\ DisputeTypeOK'
        BY <3>1, <3>2, <3>4, <4>1 DEF InsertDispute, StoreTypeOK, DisputeTypeOK, Opening
      <4>3. CasesBacked'
        BY <3>2, <3>3, <3>4, <3>5, <4>1 DEF CasesBacked, DisputeTypeOK, Opening, Editing
      <4>4. QED
        BY <4>2, <4>3
    <3>6. CASE dispute[operator[o].id] # NoCase
      BY <3>1, <3>6 DEF InsertDispute, EndRequest, StoreTypeOK, DisputeTypeOK, CasesBacked
    <3>7. QED
      BY <3>5, <3>6
  <2>3. CASE MoveToDisputed(o)
    <3>1. operator[o].txn \in Txns
      BY <2>3 DEF MoveToDisputed, Doing, DisputeTypeOK, Opening, Editing
    <3>2. /\ life' \in [Txns -> LifeStates]
          /\ payoutStatus' \in [Txns -> PayoutStates]
      BY <2>3, <3>1, MoveTypes DEF MoveToDisputed, StoreTypeOK, LifeStates
    <3>3. QED
      BY <2>3, <3>2 DEF MoveToDisputed, EndRequest, StoreTypeOK, DisputeTypeOK, CasesBacked
  <2>4. CASE \E d \in Cases : BeginEdit(o, d, "respond") \/ BeginEdit(o, d, "resolve")
    BY <2>4 DEF BeginEdit, StoreTypeOK, DisputeTypeOK, CasesBacked, Editing
  <2>5. CASE \E s \in OpenStates \cup TerminalDisputeStatuses : WriteEdit(o, s)
    <3>1. PICK s \in OpenStates \cup TerminalDisputeStatuses : WriteEdit(o, s)
      BY <2>5
    <3> DEFINE d == operator[o].id
               row == [dispute[d] EXCEPT !.status = s]
    <3>2. d \in Cases /\ dispute[d] # NoCase
      BY <3>1 DEF WriteEdit, Doing, DisputeTypeOK, CasesBacked, Opening, Editing
    <3>3. row \in Case /\ row # NoCase /\ row.txn = dispute[d].txn
      BY <3>2, CaseRows
    <3>4. dispute' = [dispute EXCEPT ![d] = row]
      BY <3>1 DEF WriteEdit
    <3> HIDE DEF row
    <3>5. StoreTypeOK' /\ DisputeTypeOK'
      BY <3>1, <3>2, <3>3, <3>4 DEF WriteEdit, EndRequest, StoreTypeOK, DisputeTypeOK
    <3>6. CasesBacked'
      BY <3>1, <3>2, <3>3, <3>4
         DEF WriteEdit, EndRequest, DisputeTypeOK, CasesBacked, Opening, Editing
    <3>7. QED
      BY <3>5, <3>6
  <2>6. QED
    BY <1>2, <2>1, <2>2, <2>3, <2>4, <2>5 DEF OperatorStep
<1>3. QED
  BY <1>1, <1>2 DEF DisputeNext

-----------------------------------------------------------------------------
(***************************************************************************)
(* The four parts together.                                                *)
(***************************************************************************)
TypeInv == TypeOK /\ AnswersBacked /\ RefundsBacked /\ CasesBacked

\* The system starts typed.
LEMMA InitTypes == Init => TypeInv
<1> SUFFICES ASSUME Init PROVE TypeInv
  OBVIOUS
<1> USE StoreAssumption, CaptureAssumption DEF StoreAssumption, CaptureAssumption, Init
<1>1. StoreTypeOK
  BY DEF StoreInit, StoreTypeOK, LifeStates, PayoutStates, JobStates
<1>2. CaptureTypeOK
  BY DEF CaptureInit, CaptureTypeOK
<1>3. PayoutTypeOK /\ AnswersBacked
  BY DEF PayoutInit, PayoutTypeOK, AnswersBacked, JobStates
<1>4. RefundTypeOK /\ RefundsBacked
  BY DEF RefundInit, RefundTypeOK, RefundsBacked
<1>5. DisputeTypeOK /\ CasesBacked
  BY DEF DisputeInit, DisputeTypeOK, CasesBacked
<1>6. QED
  BY <1>1, <1>2, <1>3, <1>4, <1>5 DEF TypeInv, TypeOK

\* No side but the refunds' own writes refund rows.
LEMMA RefundsUntouched ==
    ASSUME CaptureStep \/ PayoutStep \/ DisputeStep
    PROVE  UNCHANGED refund
<1>1. CASE CaptureStep
  BY <1>1 DEF CaptureStep, CaptureNext, GatewayDecides, ReceiveNotice, ForgetHookJob,
     SkipProcessedEvent, CrashHook, HookStep, BeginHook, AcknowledgeEvent,
     CapturePayment, EnqueuePayout, FailPayment, RejectHook, FailHook, storeVars
<1>2. CASE PayoutStep
  <2>1. ASSUME NEW w \in Workers, NEW t \in Txns, RunStep(w, t)
        PROVE  UNCHANGED refund
    BY <2>1 DEF RunStep, BeginPayout, LockFindsRefund, LockStops, LockGoesOn, FindAttempt,
         SubmitPayout, SubmitRejected, Throw, CallAnswered, CallAnswerLost, CallRefused,
         RecordAnswer, RecordFails, GiveUp, BeginSync, QueryProvider, BeginNotice,
         ReadPayout, WriteUpdate, UpdateRejected, MarkNotice, MarkPayoutFailed, storeVars
  <2>2. QED
    BY <1>2, <2>1 DEF PayoutStep, PayoutNext, CrashRun, SkipPaidPayout, ForgetPayoutJob,
         TransferMoves, StartWorker, ResumePayouts, ForgetResumeJob, storeVars
<1>3. CASE DisputeStep
  BY <1>3 DEF DisputeStep, DisputeNext, CrashOperator, OperatorStep, BeginDispute,
     InsertDispute, MoveToDisputed, BeginEdit, WriteEdit, storeVars
<1>4. QED
  BY <1>1, <1>2, <1>3

\* Every step keeps it typed.  Only the rows a side relies on link it to the
\* others: no side but its own writes refunds, and none but its own disputes.
LEMMA NextTypes == TypeInv /\ [Next]_vars => TypeInv'
<1> SUFFICES ASSUME TypeInv, [Next]_vars PROVE TypeInv'
  OBVIOUS
<1> USE DEF TypeInv, TypeOK
<1>1. CASE CaptureStep
  <2>1. StoreTypeOK' /\ CaptureTypeOK'
    BY <1>1, CaptureTypes DEF CaptureStep
  <2>2. UNCHANGED <<payoutVars, refundVars, disputeVars>>
    BY <1>1 DEF CaptureStep
  <2>3. UNCHANGED refund
    BY <1>1, RefundsUntouched
  <2>4. QED
    BY <2>1, <2>2, <2>3 DEF payoutVars, refundVars, disputeVars, PayoutTypeOK, RefundTypeOK,
         DisputeTypeOK, AnswersBacked, RefundsBacked, CasesBacked
<1>2. CASE PayoutStep
  <2>1. StoreTypeOK' /\ PayoutTypeOK' /\ AnswersBacked'
    BY <1>2, PayoutTypes DEF PayoutStep
  <2>2. UNCHANGED <<captureVars, refundVars, disputeVars>>
    BY <1>2 DEF PayoutStep
  <2>3. UNCHANGED refund
    BY <1>2, RefundsUntouched
  <2>4. QED
    BY <2>1, <2>2, <2>3 DEF captureVars, refundVars, disputeVars, CaptureTypeOK, RefundTypeOK,
         DisputeTypeOK, RefundsBacked, CasesBacked
<1>3. CASE RefundStep
  <2>1. StoreTypeOK' /\ RefundTypeOK' /\ RefundsBacked'
    BY <1>3, RefundTypes DEF RefundStep
  <2>2. QED
    BY <1>3, <2>1 DEF RefundStep, captureVars, payoutVars, disputeVars, CaptureTypeOK,
         PayoutTypeOK, DisputeTypeOK, AnswersBacked, CasesBacked
<1>4. CASE DisputeStep
  <2>1. StoreTypeOK' /\ DisputeTypeOK' /\ CasesBacked'
    BY <1>4, DisputeTypes DEF DisputeStep
  <2>2. UNCHANGED refund
    BY <1>4, RefundsUntouched
  <2>3. QED
    BY <1>4, <2>1, <2>2 DEF DisputeStep, captureVars, payoutVars, refundVars, CaptureTypeOK,
         PayoutTypeOK, RefundTypeOK, AnswersBacked, RefundsBacked
<1>5. CASE UNCHANGED vars
  BY <1>5 DEF vars, storeVars, ledgerVars, captureVars, payoutVars, refundVars, disputeVars,
       StoreTypeOK, CaptureTypeOK, PayoutTypeOK, RefundTypeOK, DisputeTypeOK,
       AnswersBacked, RefundsBacked, CasesBacked
<1>6. QED
  BY <1>1, <1>2, <1>3, <1>4, <1>5 DEF Next

\* Every variable keeps its type, whatever the numbers of transactions, events,
\* workers, refunds and cases: no balance goes below zero, and every row a
\* handler dereferences is there.
THEOREM TypeCorrect == Spec => []TypeInv
  BY InitTypes, NextTypes, PTL DEF Spec

\* The type invariant of the runs.
THEOREM TypesKept == Spec => []TypeOK
<1>1. TypeInv => TypeOK
  BY DEF TypeInv
<1>2. QED
  BY <1>1, TypeCorrect, PTL
=============================================================================
