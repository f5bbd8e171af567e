------------------------------- MODULE Payouts -------------------------------
(***************************************************************************)
(* PayoutService and the transfer at the payout provider.  A run of a      *)
(* worker is a payout job (processPayout), a status sync                   *)
(* (syncTransferStatus, from reconciliation or a polling client) or a      *)
(* payout webhook (processCashfreePayoutWebhook).  All three may end in    *)
(* applyTransferUpdate, which reads the payout outside the database block  *)
(* it then writes.  Runs overlap: every guard taken from an earlier read   *)
(* is evaluated on the copy the run kept, never on the rows.               *)
(***************************************************************************)
EXTENDS TransferStore

CONSTANTS
    Workers,     \* concurrent runs on the payout side
    ResumeLimit  \* payouts that one resume job queues (findPendingWork)

VARIABLES
    attempt,      \* PayoutAttempt.status; the unique idempotency key admits one
    providerRef,  \* Payout.providerRef is set
    submissions,  \* PAYOUT_SUBMITTED journals per transaction
    transfer,     \* external: the transfer at the provider
    requests,     \* external: createPayout requests sent per transaction
    notices,      \* external: payout webhooks sent, deliverable again and again
    handled,      \* payout WebhookEvents marked processed
    resumeJob,    \* reconciliation queue: the job with id "resume-payouts"
    run           \* local state of each run

payoutVars == <<attempt, providerRef, submissions, transfer, requests,
                notices, handled, resumeJob, run>>
rowVars == <<attempt, providerRef, submissions>>
providerVars == <<transfer, requests, notices>>

\* RECEIVED stands for the in-flight words, UNKNOWN for any word outside the
\* three sets, REVERSED for a transfer that bounced after it succeeded.
TransferStates == {"RECEIVED", "UNKNOWN", "SUCCESS", "FAILED", "REVERSED"}

Idle == [pc |-> "idle"]
Submitting == {"lock", "prepare", "submit", "call", "record", "giveup"}
Syncing == {"query", "read", "write", "mark"}
Kinds == {"job", "sync", "notice"}
Run == [pc : Submitting \cup Syncing, kind : Kinds, txn : Txns,
        seenLife : LifeStates \cup {"NONE"}, seenPayout : PayoutStates \cup {"NONE"},
        held : BOOLEAN, status : TransferStates \cup {"NONE"}]

PayoutTypeOK ==
    /\ attempt \in [Txns -> PayoutStates \cup {"NONE"}]
    /\ providerRef \in [Txns -> BOOLEAN]
    /\ submissions \in [Txns -> Nat]
    /\ transfer \in [Txns -> TransferStates \cup {"NONE"}]
    /\ requests \in [Txns -> Nat]
    /\ notices \in [Txns -> SUBSET TransferStates]
    /\ handled \in [Txns -> SUBSET TransferStates]
    /\ resumeJob \in JobStates
    /\ run \in [Workers -> Run \cup {Idle}]

PayoutInit ==
    /\ attempt = [t \in Txns |-> "NONE"]
    /\ providerRef = [t \in Txns |-> FALSE]
    /\ submissions = [t \in Txns |-> 0]
    /\ transfer = [t \in Txns |-> "NONE"]
    /\ requests = [t \in Txns |-> 0]
    /\ notices = [t \in Txns |-> {}]
    /\ handled = [t \in Txns |-> {}]
    /\ resumeJob = "NONE"
    /\ run = [w \in Workers |-> Idle]

-----------------------------------------------------------------------------
\* A mutant: a transfer that is under way is taken for a success.
MapStatusEarly(s) ==
    CASE s \in {"SUCCESS", "RECEIVED"}   -> "SUCCESS"
      [] s \in {"FAILED", "REVERSED"}    -> "FAILED"
      [] OTHER                           -> "PROCESSING"

\* mapProviderStatus; mapTransferState agrees with it on every status.
MapStatus(s) ==
    CASE s = "SUCCESS"                  -> "SUCCESS"
      [] s \in {"FAILED", "REVERSED"}   -> "FAILED"
      [] s = "RECEIVED"                 -> "SUBMITTED"
      [] OTHER                          -> "PROCESSING"

\* The refunds that stop a payout.
RefundHolds(t) ==
    \E r \in RefundsOf(t) : refund[r].status \in {"PENDING", "PROCESSING", "SUCCESS"}

At(w, t, pc) ==
    /\ run[w] # Idle
    /\ run[w].txn = t
    /\ run[w].pc = pc

\* A run that holds no copy of a row, only the status s it was told, if any.
Told(kind, t, pc, s) ==
    [pc |-> pc, kind |-> kind, txn |-> t, seenLife |-> "NONE",
     seenPayout |-> "NONE", held |-> FALSE, status |-> s]

\* The run goes on, with the copies it has or without them.
GoTo(w, pc) == run' = [run EXCEPT ![w].pc = pc]
Forget(w, pc, s) == run' = [run EXCEPT ![w] = Told(run[w].kind, run[w].txn, pc, s)]

\* The handler returns: a payout job is completed, other runs just end.
Finish(w, t) ==
    /\ run' = [run EXCEPT ![w] = Idle]
    /\ payoutJob' = [payoutJob EXCEPT ![t] =
                        IF run[w].kind = "job" /\ @ = "WAITING" THEN "DONE" ELSE @]

\* A payout webhook still has its event row to mark; other runs return.
EndUpdate(w, t) ==
    IF run[w].kind = "notice" THEN Forget(w, "mark", run[w].status) /\ UNCHANGED payoutJob
                              ELSE Finish(w, t)

\* The handler throws: the job stays, to be retried.
Throw(w) ==
    /\ run' = [run EXCEPT ![w] = Idle]
    /\ UNCHANGED <<storeVars, rowVars, providerVars, handled, resumeJob>>

-----------------------------------------------------------------------------
(***************************************************************************)
(* processPayout.                                                          *)
(***************************************************************************)
BeginPayout(w, t) ==
    /\ run[w] = Idle
    /\ payoutJob[t] = "WAITING"
    /\ payout[t] \notin {"NONE", "SUCCESS"}
    /\ run' = [run EXCEPT ![w] =
                  [pc |-> "lock", kind |-> "job", txn |-> t,
                   seenLife |-> life[t], seenPayout |-> payout[t],
                   held |-> RefundHolds(t), status |-> "NONE"]]
    /\ UNCHANGED <<storeVars, rowVars, providerVars, handled, resumeJob>>

SkipPaidPayout(t) ==
    /\ payoutJob[t] = "WAITING"
    /\ payout[t] = "SUCCESS"
    /\ payoutJob' = [payoutJob EXCEPT ![t] = "DONE"]
    /\ UNCHANGED <<life, payoutStatus, payout, ledgerVars, refund, faults,
                   payoutVars>>

\* A mutant: the transaction's own column is forgotten.
MarkPayoutFailedOneRow(t) ==
    /\ payout' = [payout EXCEPT ![t] = "FAILED"]
    /\ payoutStatus' = [payoutStatus EXCEPT
                           ![t] = IF life[t] = "PAYOUT_PENDING" THEN "FAILED" ELSE @]
    /\ life' = [life EXCEPT ![t] = IF @ = "PAYOUT_PENDING" THEN "PAYOUT_FAILED" ELSE @]
    /\ UNCHANGED <<ledgerVars, refund, faults>>

\* A mutant: the lifecycle is not looked at.
MarkPayoutFailedBlindly(t) ==
    /\ payout' = [payout EXCEPT ![t] = "FAILED"]
    /\ payoutStatus' = [payoutStatus EXCEPT ![t] = "FAILED"]
    /\ life' = [life EXCEPT ![t] = "PAYOUT_FAILED"]
    /\ UNCHANGED <<ledgerVars, refund, faults>>

\* markPayoutFailed reads the lifecycle afresh: only PAYOUT_PENDING moves.
MarkPayoutFailed(t) ==
    /\ payout' = [payout EXCEPT ![t] = "FAILED"]
    /\ payoutStatus' = [payoutStatus EXCEPT ![t] = "FAILED"]
    /\ life' = [life EXCEPT ![t] = IF @ = "PAYOUT_PENDING" THEN "PAYOUT_FAILED" ELSE @]
    /\ UNCHANGED <<ledgerVars, refund, faults>>

\* The block that locks the payout row.  It writes nothing on the way to a
\* submission, and its lock is released when it commits.
Settled(t) == payout[t] = "SUCCESS"

\* A mutant: a captured payment is taken for a finished one.
SeenCaptured(w) == run[w].seenLife \in Captured

SeenComplete(w) == run[w].seenLife \in {"PAYOUT_SUCCESS", "COMPLETED"}

LockFindsRefund(w, t) ==
    /\ At(w, t, "lock")
    /\ ~ Settled(t)
    /\ run[w].held
    /\ MarkPayoutFailed(t)
    /\ Finish(w, t)
    /\ UNCHANGED <<rowVars, providerVars, handled, resumeJob>>

LockStops(w, t) ==
    /\ At(w, t, "lock")
    /\ \/ Settled(t)
       \/ ~ run[w].held /\ SeenComplete(w)
       \/ ~ run[w].held /\ payout[t] = "FAILED"
    /\ Finish(w, t)
    /\ UNCHANGED <<life, payoutStatus, payout, ledgerVars, refund, faults,
                   rowVars, providerVars, handled, resumeJob>>

LockGoesOn(w, t) ==
    /\ At(w, t, "lock")
    /\ ~ run[w].held
    /\ ~ SeenComplete(w)
    /\ \/ payout[t] \in {"SUBMITTED", "PROCESSING"} /\ Forget(w, "query", "NONE")
       \/ payout[t] \in {"PENDING", "QUEUED"} /\ GoTo(w, "prepare")
    /\ UNCHANGED <<storeVars, rowVars, providerVars, handled, resumeJob>>

\* An attempt that has not failed is reconciled instead of repeated.  The throw
\* for a beneficiary that is not registered is left out: AdmittedTransfer has that
\* the beneficiary of a transfer is, and no code takes that back.
FindAttempt(w, t) ==
    /\ At(w, t, "prepare")
    /\ IF attempt[t] \in {"NONE", "FAILED"} THEN GoTo(w, "submit")
                                            ELSE Forget(w, "query", "NONE")
    /\ UNCHANGED <<storeVars, rowVars, providerVars, handled, resumeJob>>

\* A mutant: the attempt's key is not unique.
CanSubmitAgain(w, t) ==
    run[w].seenLife = "PAYMENT_SUCCESS" => CanMove(t, "PAYOUT_PENDING")

\* The block that claims the payout: the transition when the first read saw
\* PAYMENT_SUCCESS, the two statuses, and the attempt row under its unique key.
CanSubmit(w, t) ==
    /\ run[w].seenLife = "PAYMENT_SUCCESS" => CanMove(t, "PAYOUT_PENDING")
    /\ attempt[t] = "NONE"

SubmitPayout(w, t) ==
    /\ At(w, t, "submit")
    /\ CanSubmit(w, t)
    /\ life' = [life EXCEPT ![t] =
                   IF run[w].seenLife = "PAYMENT_SUCCESS" THEN "PAYOUT_PENDING" ELSE @]
    /\ payout' = [payout EXCEPT ![t] = "PROCESSING"]
    /\ payoutStatus' = [payoutStatus EXCEPT ![t] = "PROCESSING"]
    /\ attempt' = [attempt EXCEPT ![t] = "PROCESSING"]
    /\ Forget(w, "call", "NONE")
    /\ UNCHANGED <<ledgerVars, refund, payoutJob, faults, providerRef,
                   submissions, providerVars, handled, resumeJob>>

SubmitRejected(w, t) ==
    /\ At(w, t, "submit")
    /\ ~ CanSubmit(w, t)
    /\ Throw(w)

-----------------------------------------------------------------------------
\* The provider takes the request and answers with a status, or takes it and
\* the answer is lost, or never takes it.  A repeated transfer_id would be
\* answered with the transfer that exists.
ProviderTakes(t, s) ==
    /\ IF transfer[t] = "NONE" THEN s \in TransferStates \ {"REVERSED"}
                               ELSE s = transfer[t]
    /\ transfer' = [transfer EXCEPT ![t] = s]
    /\ notices' = [notices EXCEPT ![t] = @ \cup {s}]

CallAnswered(w, t, s) ==
    /\ At(w, t, "call")
    /\ requests' = [requests EXCEPT ![t] = @ + 1]
    /\ ProviderTakes(t, s)
    /\ Forget(w, "record", s)
    /\ UNCHANGED <<storeVars, rowVars, handled, resumeJob>>

CallAnswerLost(w, t, s) ==
    /\ At(w, t, "call")
    /\ Fault
    /\ requests' = [requests EXCEPT ![t] = @ + 1]
    /\ ProviderTakes(t, s)
    /\ Forget(w, "giveup", "NONE")
    /\ UNCHANGED <<life, payoutStatus, payout, ledgerVars, refund, payoutJob,
                   rowVars, handled, resumeJob>>

CallRefused(w, t) ==
    /\ At(w, t, "call")
    /\ requests' = [requests EXCEPT ![t] = @ + 1]
    /\ Forget(w, "giveup", "NONE")
    /\ UNCHANGED <<storeVars, rowVars, transfer, notices, handled, resumeJob>>

\* A mutant: what an earlier read allowed is not checked again.
SettlesOnTrust(t) == TRUE

\* A block that settles: the debit must be covered and the two transitions
\* accepted, else everything the block wrote is rolled back.
CanSettle(t) == CanDebit(t) /\ CanMove(t, "PAYOUT_SUCCESS")

SettlePayout(t) ==
    /\ Debit(t)
    /\ life' = [life EXCEPT ![t] = "COMPLETED"]

\* A mutant: the settling block posts PAYOUT_SUBMITTED as well.
SubmittedPostsTwice(m) ==
    IF m = "SUCCESS" THEN 2 ELSE IF m = "SUBMITTED" THEN 1 ELSE 0

\* The PAYOUT_SUBMITTED journals that an answer of status m posts.
SubmittedPosts(m) == IF m \in {"SUCCESS", "SUBMITTED"} THEN 1 ELSE 0

\* The block that records the provider's answer.
RecordAnswer(w, t) ==
    LET m == MapStatus(run[w].status) IN
    /\ At(w, t, "record")
    /\ IF m = "SUCCESS" THEN CanSettle(t) /\ SettlePayout(t)
                        ELSE UNCHANGED <<life, ledgerVars>>
    /\ payout' = [payout EXCEPT ![t] = m]
    /\ payoutStatus' = [payoutStatus EXCEPT ![t] = m]
    /\ attempt' = [attempt EXCEPT ![t] = m]
    /\ providerRef' = [providerRef EXCEPT ![t] = TRUE]
    /\ submissions' = [submissions EXCEPT ![t] = @ + SubmittedPosts(m)]
    /\ Finish(w, t)
    /\ UNCHANGED <<refund, faults, providerVars, handled, resumeJob>>

\* The block is rolled back, by the code's own checks or by a fault; like an
\* exception of the call itself this ends in the catch clause.
RecordFails(w, t) ==
    /\ At(w, t, "record")
    /\ \/ MapStatus(run[w].status) = "SUCCESS" /\ ~ CanSettle(t) /\ UNCHANGED faults
       \/ Fault
    /\ Forget(w, "giveup", "NONE")
    /\ UNCHANGED <<life, payoutStatus, payout, ledgerVars, refund, payoutJob,
                   rowVars, providerVars, handled, resumeJob>>

\* The catch clause: the payout is marked failed and the job is complete.
GiveUp(w, t) ==
    /\ At(w, t, "giveup")
    /\ MarkPayoutFailed(t)
    /\ attempt' = [attempt EXCEPT ![t] = "FAILED"]
    /\ Finish(w, t)
    /\ UNCHANGED <<providerRef, submissions, providerVars, handled, resumeJob>>

-----------------------------------------------------------------------------
(***************************************************************************)
(* syncTransferStatus, processCashfreePayoutWebhook, applyTransferUpdate.  *)
(***************************************************************************)
\* Reconciliation, or a client that polls the transaction, asks for a sync.
BeginSync(w, t) ==
    /\ run[w] = Idle
    /\ payout[t] # "NONE"
    /\ run' = [run EXCEPT ![w] = Told("sync", t, "query", "NONE")]
    /\ UNCHANGED <<storeVars, rowVars, providerVars, handled, resumeJob>>

\* Without a provider reference the provider is never asked.
QueryProvider(w, t) ==
    /\ At(w, t, "query")
    /\ IF providerRef[t]
       THEN Forget(w, "read", transfer[t]) /\ UNCHANGED payoutJob
       ELSE Finish(w, t)
    /\ UNCHANGED <<life, payoutStatus, payout, ledgerVars, refund, faults,
                   rowVars, providerVars, handled, resumeJob>>

\* A webhook run holds the row lock of its event until it ends.
BeginNotice(w, t, s) ==
    /\ run[w] = Idle
    /\ s \in notices[t] \ handled[t]
    /\ \A v \in Workers :
          run[v] # Idle /\ run[v].kind = "notice" => <<run[v].txn, run[v].status>> # <<t, s>>
    /\ run' = [run EXCEPT ![w] = Told("notice", t, "read", s)]
    /\ UNCHANGED <<storeVars, rowVars, providerVars, handled, resumeJob>>

\* The read of applyTransferUpdate, outside the block that acts on it.
ReadPayout(w, t) ==
    /\ At(w, t, "read")
    /\ IF payout[t] = "SUCCESS" /\ MapStatus(run[w].status) = "SUCCESS"
       THEN EndUpdate(w, t)
       ELSE /\ run' = [run EXCEPT ![w].pc = "write", ![w].seenLife = life[t],
                                  ![w].seenPayout = payout[t]]
            /\ UNCHANGED payoutJob
    /\ UNCHANGED <<life, payoutStatus, payout, ledgerVars, refund, faults,
                   rowVars, providerVars, handled, resumeJob>>

\* A mutant: only a payout read as SUBMITTED is finalised.
SettlesSubmitted(w) == MapStatus(run[w].status) = "SUCCESS" /\ run[w].seenPayout = "SUBMITTED"

Settles(w) == MapStatus(run[w].status) = "SUCCESS" /\ run[w].seenPayout # "SUCCESS"
Starts(w) == MapStatus(run[w].status) # "SUCCESS" /\ run[w].seenLife = "PAYMENT_SUCCESS"

CanUpdate(w, t) ==
    /\ Settles(w) => CanSettle(t)
    /\ Starts(w) => CanMove(t, "PAYOUT_PENDING")

\* The attempt and the two statuses take the reported value whatever they hold.
WriteUpdate(w, t) ==
    LET m == MapStatus(run[w].status) IN
    /\ At(w, t, "write")
    /\ CanUpdate(w, t)
    /\ IF Settles(w)
       THEN SettlePayout(t)
       ELSE /\ life' = [life EXCEPT ![t] = IF Starts(w) THEN "PAYOUT_PENDING" ELSE @]
            /\ UNCHANGED ledgerVars
    /\ payout' = [payout EXCEPT ![t] = m]
    /\ payoutStatus' = [payoutStatus EXCEPT ![t] =
                           IF Starts(w) THEN ColumnAfter(t, "PAYOUT_PENDING", m) ELSE m]
    /\ attempt' = [attempt EXCEPT ![t] = IF @ = "NONE" THEN @ ELSE m]
    /\ providerRef' = [providerRef EXCEPT ![t] = TRUE]
    /\ EndUpdate(w, t)
    /\ UNCHANGED <<refund, faults, submissions, providerVars, handled, resumeJob>>

UpdateRejected(w, t) ==
    /\ At(w, t, "write")
    /\ ~ CanUpdate(w, t)
    /\ Throw(w)

\* The event is marked in a block that commits after the update has.
MarkNotice(w, t) ==
    /\ At(w, t, "mark")
    /\ handled' = [handled EXCEPT ![t] = @ \cup {run[w].status}]
    /\ run' = [run EXCEPT ![w] = Idle]
    /\ UNCHANGED <<storeVars, rowVars, providerVars, resumeJob>>

\* The process dies, or a read or a block outside the try fails.
CrashRun(w) ==
    /\ run[w] # Idle
    /\ Fault
    /\ run' = [run EXCEPT ![w] = Idle]
    /\ UNCHANGED <<life, payoutStatus, payout, ledgerVars, refund, payoutJob,
                   rowVars, providerVars, handled, resumeJob>>

-----------------------------------------------------------------------------
\* External: the transfer reaches an end, or bounces after it did.
TransferMoves(t, s) ==
    /\ \/ transfer[t] \in {"RECEIVED", "UNKNOWN"} /\ s \in {"SUCCESS", "FAILED"}
       \/ transfer[t] = "SUCCESS" /\ s = "REVERSED"
    /\ transfer' = [transfer EXCEPT ![t] = s]
    /\ notices' = [notices EXCEPT ![t] = @ \cup {s}]
    /\ UNCHANGED <<storeVars, rowVars, requests, handled, resumeJob, run>>

\* A starting worker process queues one resume job, under a fixed id.
StartWorker ==
    /\ resumeJob = "NONE"
    /\ resumeJob' = AddJob(resumeJob)
    /\ UNCHANGED <<storeVars, rowVars, providerVars, handled, run>>

\* It queues the payouts that are still open and due, up to a limit; those with a
\* later nextRetryAt are left out.
Due(t) == payout[t] \in {"QUEUED", "PROCESSING", "SUBMITTED"}

ResumePayouts ==
    /\ resumeJob = "WAITING"
    /\ resumeJob' = "DONE"
    /\ \E due \in SUBSET {t \in Txns : Due(t)} :
          /\ Cardinality(due) <= ResumeLimit
          /\ \/ {t \in Txns : payout[t] = "QUEUED"} \subseteq due
             \/ Cardinality(due) = ResumeLimit
          /\ payoutJob' = [t \in Txns |-> IF t \in due THEN AddJob(payoutJob[t])
                                                       ELSE payoutJob[t]]
    /\ UNCHANGED <<life, payoutStatus, payout, ledgerVars, refund, faults,
                   rowVars, providerVars, handled, run>>

\* Finished jobs are forgotten once a thousand later ones have finished.
ForgetPayoutJob(t) ==
    /\ payoutJob[t] = "DONE"
    /\ payoutJob' = [payoutJob EXCEPT ![t] = "NONE"]
    /\ UNCHANGED <<life, payoutStatus, payout, ledgerVars, refund, faults,
                   payoutVars>>

ForgetResumeJob ==
    /\ resumeJob = "DONE"
    /\ resumeJob' = "NONE"
    /\ UNCHANGED <<storeVars, rowVars, providerVars, handled, run>>

-----------------------------------------------------------------------------
RunStep(w, t) ==
    \/ BeginPayout(w, t)
    \/ LockFindsRefund(w, t) \/ LockStops(w, t) \/ LockGoesOn(w, t)
    \/ FindAttempt(w, t)
    \/ SubmitPayout(w, t) \/ SubmitRejected(w, t)
    \/ \E s \in TransferStates : CallAnswered(w, t, s) \/ CallAnswerLost(w, t, s)
    \/ CallRefused(w, t)
    \/ RecordAnswer(w, t) \/ RecordFails(w, t)
    \/ GiveUp(w, t)
    \/ BeginSync(w, t)
    \/ QueryProvider(w, t)
    \/ \E s \in TransferStates : BeginNotice(w, t, s)
    \/ ReadPayout(w, t)
    \/ WriteUpdate(w, t) \/ UpdateRejected(w, t)
    \/ MarkNotice(w, t)

PayoutNext ==
    \/ \E w \in Workers, t \in Txns : RunStep(w, t)
    \/ \E w \in Workers : CrashRun(w)
    \/ \E t \in Txns : SkipPaidPayout(t) \/ ForgetPayoutJob(t)
    \/ \E t \in Txns, s \in TransferStates : TransferMoves(t, s)
    \/ StartWorker \/ ResumePayouts \/ ForgetResumeJob
=============================================================================
