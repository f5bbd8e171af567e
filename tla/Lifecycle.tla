------------------------------ MODULE Lifecycle ------------------------------
(***************************************************************************)
(* The transaction lifecycle as transaction-state.service.ts declares it:  *)
(* its states, the transitions it validates, and the column it rewrites    *)
(* when a transition is taken.  Constant-level: no state lives here.       *)
(***************************************************************************)

LifeStates == {"INITIATED", "PAYMENT_PENDING", "PAYMENT_SUCCESS",
               "PAYMENT_FAILED", "PAYOUT_PENDING", "PAYOUT_SUCCESS",
               "PAYOUT_FAILED", "COMPLETED", "REFUNDED", "DISPUTED"}

PayoutStates == {"PENDING", "QUEUED", "PROCESSING", "SUBMITTED",
                 "SUCCESS", "FAILED"}

RefundStates == {"PENDING", "PROCESSING", "SUCCESS", "FAILED"}

(***************************************************************************)
(* ALLOWED_TRANSITIONS, as a relation.                                     *)
(***************************************************************************)
AllowedTransitions ==
    { <<"INITIATED", "PAYMENT_PENDING">>,
      <<"PAYMENT_PENDING", "PAYMENT_SUCCESS">>,
      <<"PAYMENT_PENDING", "PAYMENT_FAILED">>,
      <<"PAYMENT_SUCCESS", "PAYOUT_PENDING">>,
      <<"PAYOUT_PENDING", "PAYOUT_SUCCESS">>,
      <<"PAYOUT_PENDING", "PAYOUT_FAILED">>,
      <<"PAYOUT_SUCCESS", "COMPLETED">>,
      <<"PAYOUT_FAILED", "PAYOUT_PENDING">>,
      <<"COMPLETED", "REFUNDED">>,
      <<"COMPLETED", "DISPUTED">> }

\* transitionTransactionState accepts a transition of the relation, and takes
\* a request for the state the row is already in as done.
TransitionAccepted(from, to) ==
    from = to \/ <<from, to>> \in AllowedTransitions

\* A mutant: the states that write no payout status write their own name.
LegacyPayoutStatusEcho(to, column) ==
    CASE to \in {"INITIATED", "PAYMENT_PENDING"}   -> "PENDING"
      [] to = "PAYMENT_SUCCESS"                    -> "QUEUED"
      [] to \in {"PAYMENT_FAILED", "PAYOUT_FAILED"} -> "FAILED"
      [] to = "PAYOUT_PENDING"                     -> "PROCESSING"
      [] to \in {"PAYOUT_SUCCESS", "COMPLETED"}    -> "SUCCESS"
      [] OTHER                                     -> to

(***************************************************************************)
(* toLegacyStatus: the payoutStatus column a transition leaves behind.     *)
(* REFUNDED and DISPUTED write only the status column.                     *)
(***************************************************************************)
LegacyPayoutStatus(to, column) ==
    CASE to \in {"INITIATED", "PAYMENT_PENDING"}   -> "PENDING"
      [] to = "PAYMENT_SUCCESS"                    -> "QUEUED"
      [] to \in {"PAYMENT_FAILED", "PAYOUT_FAILED"} -> "FAILED"
      [] to = "PAYOUT_PENDING"                     -> "PROCESSING"
      [] to \in {"PAYOUT_SUCCESS", "COMPLETED"}    -> "SUCCESS"
      [] OTHER                                     -> column

\* toLegacyStatus: the status column, which every transition rewrites.
LegacyStatus(state) ==
    CASE state \in {"INITIATED", "PAYMENT_PENDING"} -> "INITIATED"
      [] state = "PAYMENT_FAILED"                  -> "FAILED"
      [] OTHER                                     -> "PAID"

(***************************************************************************)
(* The states in which the payer's money is in, and those in which the     *)
(* beneficiary's money is out.                                             *)
(***************************************************************************)
Captured == {"PAYMENT_SUCCESS", "PAYOUT_PENDING", "PAYOUT_SUCCESS",
             "PAYOUT_FAILED", "COMPLETED", "REFUNDED", "DISPUTED"}

PaidOut == {"PAYOUT_SUCCESS", "COMPLETED", "REFUNDED", "DISPUTED"}
=============================================================================
