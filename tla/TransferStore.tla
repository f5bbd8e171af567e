---------------------------- MODULE TransferStore ----------------------------
(***************************************************************************)
(* What the API and worker processes share: the Postgres rows of a         *)
(* transfer (transaction, payout, ledger, refunds) and the BullMQ payout   *)
(* queue.  A prisma.$transaction block is one step: its writes appear      *)
(* together or not at all.  Every process keeps what it read earlier in    *)
(* local state of its own, declared by the module that models it.          *)
(***************************************************************************)
EXTENDS Lifecycle, Integers, FiniteSets

CONSTANTS
    Txns,       \* transactions
    Users,      \* their owners
    UserOf,     \* Transaction.userId
    Gross,      \* Transaction.grossAmount, what the payer is charged
    Net,        \* Transaction.netPayoutAmount, what the beneficiary gets
    RefundIds,  \* Refund.refundId values that may be used
    MaxFaults   \* bound: crashes and failed database transactions in a run

ASSUME StoreAssumption ==
    /\ UserOf \in [Txns -> Users]
    /\ Gross \in [Txns -> Nat \ {0}]
    /\ Net \in [Txns -> Nat \ {0}]
    /\ \A t \in Txns : Net[t] <= Gross[t]
    /\ MaxFaults \in Nat

VARIABLES
    life,          \* Transaction.lifecycleState
    payoutStatus,  \* Transaction.payoutStatus, the denormalised column
    payout,        \* Payout.status; "NONE" before the row exists
    credits,       \* CREDIT rows (and PAYMENT_CAPTURED journals) per transaction
    debits,        \* DEBIT rows (and PAYOUT_SETTLED journals) per transaction
    balance,       \* User.balance
    refund,        \* refund rows; NoRefund before the row exists
    payoutJob,     \* payout queue: the job whose id is the transaction id
    faults         \* faults injected so far

ledgerVars == <<credits, debits, balance>>
storeVars == <<life, payoutStatus, payout, credits, debits, balance,
               refund, payoutJob, faults>>

JobStates == {"NONE", "WAITING", "DONE"}

NoRefund == [status |-> "NONE"]
RefundRow == [txn : Txns, amount : Nat, status : RefundStates]

StoreTypeOK ==
    /\ life \in [Txns -> LifeStates]
    /\ payoutStatus \in [Txns -> PayoutStates]
    /\ payout \in [Txns -> PayoutStates \cup {"NONE"}]
    /\ credits \in [Txns -> Nat]
    /\ debits \in [Txns -> Nat]
    /\ balance \in [Users -> Nat]
    /\ refund \in [RefundIds -> RefundRow \cup {NoRefund}]
    /\ payoutJob \in [Txns -> JobStates]
    /\ faults \in 0 .. MaxFaults

\* createTransfer has left every transaction waiting for its payer.
StoreInit ==
    /\ life = [t \in Txns |-> "PAYMENT_PENDING"]
    /\ payoutStatus = [t \in Txns |-> "PENDING"]
    /\ payout = [t \in Txns |-> "NONE"]
    /\ credits = [t \in Txns |-> 0]
    /\ debits = [t \in Txns |-> 0]
    /\ balance = [u \in Users |-> 0]
    /\ refund = [r \in RefundIds |-> NoRefund]
    /\ payoutJob = [t \in Txns |-> "NONE"]
    /\ faults = 0

-----------------------------------------------------------------------------
\* A transition that the state service would not reject.
CanMove(t, to) == TransitionAccepted(life[t], to)

\* The payoutStatus column once a block that wrote `column` has also moved the
\* transaction to `to`: the move rewrites it unless it was a no-op.
ColumnAfter(t, to, column) ==
    IF life[t] = to THEN column ELSE LegacyPayoutStatus(to, column)

\* The transition and the column it rewrites, with nothing written before it.
MoveTo(t, to) ==
    /\ life' = [life EXCEPT ![t] = to]
    /\ payoutStatus' = [payoutStatus EXCEPT ![t] = ColumnAfter(t, to, @)]

\* A mutant: the balance moves and the ledger row is forgotten.
CreditWithoutEntry(t) ==
    /\ balance' = [balance EXCEPT ![UserOf[t]] = @ + Net[t]]
    /\ UNCHANGED <<credits, debits>>

\* LedgerService.recordEntry, for the two entries the code writes.
Credit(t) ==
    /\ credits' = [credits EXCEPT ![t] = @ + 1]
    /\ balance' = [balance EXCEPT ![UserOf[t]] = @ + Net[t]]
    /\ UNCHANGED debits

\* A debit that would leave the wallet negative is refused.
CanDebit(t) == balance[UserOf[t]] >= Net[t]

\* A mutant: the wallet pays the fees as well.
DebitGross(t) ==
    /\ debits' = [debits EXCEPT ![t] = @ + 1]
    /\ balance' = [balance EXCEPT ![UserOf[t]] = @ - Gross[t]]
    /\ UNCHANGED credits

Debit(t) ==
    /\ debits' = [debits EXCEPT ![t] = @ + 1]
    /\ balance' = [balance EXCEPT ![UserOf[t]] = @ - Net[t]]
    /\ UNCHANGED credits

\* Queue.add with a custom job id: ignored while a job of that id is retained.
AddJob(state) == IF state = "NONE" THEN "WAITING" ELSE state

RefundsOf(t) == {r \in RefundIds : refund[r] # NoRefund /\ refund[r].txn = t}

\* A crash, a lost connection, a conflict: something outside the code's logic.
Fault ==
    /\ faults < MaxFaults
    /\ faults' = faults + 1
=============================================================================
