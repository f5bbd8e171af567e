--------------------------- MODULE TransferPromise ---------------------------
(***************************************************************************)
(* What a transfer promises, whatever webhooks, retries, refunds and        *)
(* disputes do: its state moves along the published lifecycle, the payee's *)
(* money leaves the wallet once and only on completion, and nothing leaves *)
(* before the payer's money is in.  PAYOUT_SUCCESS is passed through inside *)
(* one database block and PAYOUT_FAILED is final.                          *)
(***************************************************************************)
EXTENDS Integers

CONSTANT Txns

VARIABLES
    stage,   \* the lifecycle state
    paidIn,  \* the payer's money has been credited
    paidOut  \* times the wallet has been debited

vars == <<stage, paidIn, paidOut>>

Init ==
    /\ stage = [t \in Txns |-> "PAYMENT_PENDING"]
    /\ paidIn = [t \in Txns |-> FALSE]
    /\ paidOut = [t \in Txns |-> 0]

Step(t, from, to) ==
    /\ stage[t] = from
    /\ stage' = [stage EXCEPT ![t] = to]

Move(t, from, to) == Step(t, from, to) /\ UNCHANGED <<paidIn, paidOut>>

Capture(t) ==
    /\ Step(t, "PAYMENT_PENDING", "PAYMENT_SUCCESS")
    /\ paidIn' = [paidIn EXCEPT ![t] = TRUE]
    /\ UNCHANGED paidOut

Complete(t) ==
    /\ paidIn[t]
    /\ paidOut[t] = 0
    /\ Step(t, "PAYOUT_PENDING", "COMPLETED")
    /\ paidOut' = [paidOut EXCEPT ![t] = 1]
    /\ UNCHANGED paidIn

Next ==
    \E t \in Txns :
        \/ Capture(t)
        \/ Move(t, "PAYMENT_PENDING", "PAYMENT_FAILED")
        \/ Move(t, "PAYMENT_SUCCESS", "PAYOUT_PENDING")
        \/ Complete(t)
        \/ Move(t, "PAYOUT_PENDING", "PAYOUT_FAILED")
        \/ Move(t, "COMPLETED", "REFUNDED")
        \/ Move(t, "COMPLETED", "DISPUTED")

Spec == Init /\ [][Next]_vars
=============================================================================
