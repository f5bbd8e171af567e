---------------------------- MODULE PaymentCapture ----------------------------
(***************************************************************************)
(* From the gateway's payment notification to the captured payment: the    *)
(* Cashfree webhook route that queues a job per event id, and the worker   *)
(* that runs WebhookService.processCashfreeWebhook.                        *)
(*                                                                         *)
(* The worker decides in one database block, which locks the event row and *)
(* reads the transaction, and acts in a second one.  The lock is gone in   *)
(* between, and the decision rests on what the first block read.           *)
(***************************************************************************)
EXTENDS TransferStore

CONSTANTS
    Events,       \* webhook event ids: a cf_payment_id, or order id and status
    OrderOf,      \* the transaction an event id speaks of
    HookWorkers   \* concurrent runs of webhook jobs

ASSUME CaptureAssumption == OrderOf \in [Events -> Txns]

VARIABLES
    gateway,    \* what the gateway has decided about the payment of an event id
    announced,  \* notifications sent for it, deliverable any number of times
    hookJob,    \* the webhook job of that id: its payload, or its absence
    processed,  \* WebhookEvent.processed
    hook        \* local state of each run

captureVars == <<gateway, announced, hookJob, processed, hook>>

PayStates == {"PENDING", "SUCCESS", "FAILED"}

HookIdle == [pc |-> "idle"]
HookTask == [pc : {"decide", "enqueue"}, event : Events,
             status : PayStates, seen : LifeStates]

CaptureTypeOK ==
    /\ gateway \in [Events -> PayStates \cup {"NONE"}]
    /\ announced \in [Events -> SUBSET PayStates]
    /\ hookJob \in [Events -> PayStates \cup {"NONE", "DONE"}]
    /\ processed \in [Events -> BOOLEAN]
    /\ hook \in [HookWorkers -> HookTask \cup {HookIdle}]

CaptureInit ==
    /\ gateway = [e \in Events |-> "NONE"]
    /\ announced = [e \in Events |-> {}]
    /\ hookJob = [e \in Events |-> "NONE"]
    /\ processed = [e \in Events |-> FALSE]
    /\ hook = [w \in HookWorkers |-> HookIdle]

-----------------------------------------------------------------------------
\* External: the gateway takes the payment, refuses it, or says it is pending
\* first; each change is announced under the same event id.
GatewayDecides(e, s) ==
    /\ \/ gateway[e] = "NONE"
       \/ gateway[e] = "PENDING" /\ s \in {"SUCCESS", "FAILED"}
    /\ gateway' = [gateway EXCEPT ![e] = s]
    /\ announced' = [announced EXCEPT ![e] = @ \cup {s}]
    /\ UNCHANGED <<storeVars, hookJob, processed, hook>>

\* The route queues the notification under its event id.  The add is ignored
\* while a job of that id is retained, whatever status that job carries.
ReceiveNotice(e, s) ==
    /\ s \in announced[e]
    /\ hookJob[e] = "NONE"
    /\ hookJob' = [hookJob EXCEPT ![e] = s]
    /\ UNCHANGED <<storeVars, gateway, announced, processed, hook>>

\* Only the last 1000 finished jobs are retained; after that the id is free.
ForgetHookJob(e) ==
    /\ hookJob[e] = "DONE"
    /\ hookJob' = [hookJob EXCEPT ![e] = "NONE"]
    /\ UNCHANGED <<storeVars, gateway, announced, processed, hook>>

-----------------------------------------------------------------------------
\* A run ends: with success it completes the job, otherwise the job is retried.
CompleteHook(w) ==
    /\ hook' = [hook EXCEPT ![w] = HookIdle]
    /\ hookJob' = [hookJob EXCEPT ![hook[w].event] =
                      IF @ = hook[w].status THEN "DONE" ELSE @]

FailHook(w) ==
    /\ hook' = [hook EXCEPT ![w] = HookIdle]
    /\ UNCHANGED <<storeVars, gateway, announced, hookJob, processed>>

\* The queue delivers at least once: a job whose lock expired is handed to a
\* second worker while the first one is still running it.
\* The first block: the event is taken unless it is marked processed.
BeginHook(w, e) ==
    /\ hook[w] = HookIdle
    /\ hookJob[e] \in PayStates
    /\ ~ processed[e]
    /\ hook' = [hook EXCEPT ![w] =
                   [pc |-> "decide", event |-> e, status |-> hookJob[e],
                    seen |-> life[OrderOf[e]]]]
    /\ UNCHANGED <<storeVars, gateway, announced, hookJob, processed>>

SkipProcessedEvent(e) ==
    /\ hookJob[e] \in PayStates
    /\ processed[e]
    /\ hookJob' = [hookJob EXCEPT ![e] = "DONE"]
    /\ UNCHANGED <<storeVars, gateway, announced, processed, hook>>

\* A mutant: the first of the states below is left out of the list.
AlreadySubmitted == Captured \ {"PAYMENT_SUCCESS", "PAYOUT_FAILED"}

\* The lifecycle states in which a success notification has nothing to add.
AlreadyCaptured == Captured \ {"PAYOUT_FAILED"}

\* createOrGetPendingPayout.
PendingPayout(t) == IF payout[t] = "NONE" THEN "QUEUED" ELSE payout[t]

Deciding(w, e, success) ==
    /\ hook[w] # HookIdle
    /\ hook[w].pc = "decide"
    /\ hook[w].event = e
    /\ (hook[w].status = "SUCCESS") = success

\* Nothing to change: the event is marked processed.
AcknowledgeEvent(w, e) ==
    /\ \/ Deciding(w, e, TRUE) /\ hook[w].seen \in AlreadyCaptured
       \/ Deciding(w, e, FALSE) /\ hook[w].seen = "PAYMENT_FAILED"
    /\ processed' = [processed EXCEPT ![e] = TRUE]
    /\ CompleteHook(w)
    /\ UNCHANGED <<storeVars, gateway, announced>>

CapturePayment(w, e) ==
    LET t == OrderOf[e] IN
    /\ Deciding(w, e, TRUE)
    /\ hook[w].seen \notin AlreadyCaptured
    /\ CanMove(t, "PAYMENT_SUCCESS")
    /\ MoveTo(t, "PAYMENT_SUCCESS")
    /\ Credit(t)
    /\ payout' = [payout EXCEPT ![t] = PendingPayout(t)]
    /\ processed' = [processed EXCEPT ![e] = TRUE]
    /\ hook' = [hook EXCEPT ![w].pc = "enqueue"]
    /\ UNCHANGED <<refund, payoutJob, faults, gateway, announced, hookJob>>

\* The payout job is queued only after the second block has committed.
EnqueuePayout(w, e) ==
    LET t == OrderOf[e] IN
    /\ hook[w] # HookIdle
    /\ hook[w].pc = "enqueue"
    /\ hook[w].event = e
    /\ payoutJob' = [payoutJob EXCEPT ![t] = AddJob(@)]
    /\ CompleteHook(w)
    /\ UNCHANGED <<life, payoutStatus, payout, ledgerVars, refund, faults,
                   gateway, announced, processed>>

\* Every status that is not a success is taken as a failure, PENDING included.
FailPayment(w, e) ==
    LET t == OrderOf[e] IN
    /\ Deciding(w, e, FALSE)
    /\ hook[w].seen # "PAYMENT_FAILED"
    /\ CanMove(t, "PAYMENT_FAILED")
    /\ MoveTo(t, "PAYMENT_FAILED")
    /\ processed' = [processed EXCEPT ![e] = TRUE]
    /\ CompleteHook(w)
    /\ UNCHANGED <<payout, ledgerVars, refund, payoutJob, faults,
                   gateway, announced>>

\* The second block throws on a transition the state service rejects.
RejectHook(w, e) ==
    /\ \/ /\ Deciding(w, e, TRUE)
          /\ hook[w].seen \notin AlreadyCaptured
          /\ ~ CanMove(OrderOf[e], "PAYMENT_SUCCESS")
       \/ /\ Deciding(w, e, FALSE)
          /\ hook[w].seen # "PAYMENT_FAILED"
          /\ ~ CanMove(OrderOf[e], "PAYMENT_FAILED")
    /\ FailHook(w)

\* The process dies, or the next database or queue call fails.
CrashHook(w) ==
    /\ hook[w] # HookIdle
    /\ Fault
    /\ hook' = [hook EXCEPT ![w] = HookIdle]
    /\ UNCHANGED <<life, payoutStatus, payout, ledgerVars, refund, payoutJob,
                   gateway, announced, hookJob, processed>>

-----------------------------------------------------------------------------
HookStep(w, e) ==
    \/ BeginHook(w, e)
    \/ AcknowledgeEvent(w, e)
    \/ CapturePayment(w, e)
    \/ EnqueuePayout(w, e)
    \/ FailPayment(w, e)
    \/ RejectHook(w, e)

CaptureNext ==
    \/ \E e \in Events, s \in PayStates : GatewayDecides(e, s) \/ ReceiveNotice(e, s)
    \/ \E e \in Events : ForgetHookJob(e) \/ SkipProcessedEvent(e)
    \/ \E w \in HookWorkers, e \in Events : HookStep(w, e)
    \/ \E w \in HookWorkers : CrashHook(w)
=============================================================================
