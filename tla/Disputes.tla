------------------------------- MODULE Disputes -------------------------------
(***************************************************************************)
(* DisputeService.  Opening a case inserts its row and then moves the      *)
(* transaction, in two database calls with no common block; responding and *)
(* resolving read the case, check it, and then write it.                   *)
(***************************************************************************)
EXTENDS TransferStore

CONSTANTS
    Cases,     \* Dispute.disputeId values that may be used
    Operators  \* concurrent admin requests

VARIABLES
    dispute,   \* the dispute rows
    operator   \* local state of each request

disputeVars == <<dispute, operator>>

OpenStates == {"OPEN", "UNDER_REVIEW"}
TerminalDisputeStatuses == {"WON", "LOST", "CLOSED"}

NoCase == [status |-> "NONE"]
Case == [txn : Txns, status : OpenStates \cup TerminalDisputeStatuses]

OperatorIdle == [pc |-> "idle"]
Opening == [pc : {"insert", "move"}, id : Cases, txn : Txns]
Editing == [pc : {"respond", "resolve"}, id : Cases]

DisputeTypeOK ==
    /\ dispute \in [Cases -> Case \cup {NoCase}]
    /\ operator \in [Operators -> Opening \cup Editing \cup {OperatorIdle}]

DisputeInit ==
    /\ dispute = [d \in Cases |-> NoCase]
    /\ operator = [o \in Operators |-> OperatorIdle]

-----------------------------------------------------------------------------
Doing(o, pc) == operator[o] # OperatorIdle /\ operator[o].pc = pc

EndRequest(o) == operator' = [operator EXCEPT ![o] = OperatorIdle]

\* A mutant: the transaction is moved first, and nothing is inserted.
BeginDisputeByMove(o, d, t) ==
    /\ operator[o] = OperatorIdle
    /\ dispute[d] = NoCase
    /\ life[t] = "COMPLETED"
    /\ operator' = [operator EXCEPT ![o] = [pc |-> "move", id |-> d, txn |-> t]]
    /\ UNCHANGED <<storeVars, dispute>>

\* createDispute: read, insert, transition.
BeginDispute(o, d, t) ==
    /\ operator[o] = OperatorIdle
    /\ dispute[d] = NoCase
    /\ life[t] = "COMPLETED"
    /\ operator' = [operator EXCEPT ![o] =
                       [pc |-> "insert", id |-> d, txn |-> t]]
    /\ UNCHANGED <<storeVars, dispute>>

InsertDispute(o, s) ==
    LET d == operator[o].id IN
    /\ Doing(o, "insert")
    /\ s \in OpenStates
    /\ IF dispute[d] = NoCase
       THEN /\ dispute' = [dispute EXCEPT ![d] = [txn |-> operator[o].txn, status |-> s]]
            /\ operator' = [operator EXCEPT ![o].pc = "move"]
       ELSE EndRequest(o) /\ UNCHANGED dispute
    /\ UNCHANGED storeVars

MoveToDisputed(o) ==
    LET t == operator[o].txn IN
    /\ Doing(o, "move")
    /\ IF CanMove(t, "DISPUTED") THEN MoveTo(t, "DISPUTED")
                                 ELSE UNCHANGED <<life, payoutStatus>>
    /\ EndRequest(o)
    /\ UNCHANGED <<payout, ledgerVars, refund, payoutJob, faults, dispute>>

\* A mutant: the terminal check is forgotten.
BeginEditUnchecked(o, d, pc) ==
    /\ operator[o] = OperatorIdle
    /\ pc \in {"respond", "resolve"}
    /\ dispute[d] # NoCase
    /\ operator' = [operator EXCEPT ![o] = [pc |-> pc, id |-> d]]
    /\ UNCHANGED <<storeVars, dispute>>

\* respondToDispute and resolveDispute: the terminal check is made on the read.
BeginEdit(o, d, pc) ==
    /\ operator[o] = OperatorIdle
    /\ pc \in {"respond", "resolve"}
    /\ dispute[d] # NoCase
    /\ dispute[d].status \notin TerminalDisputeStatuses
    /\ operator' = [operator EXCEPT ![o] = [pc |-> pc, id |-> d]]
    /\ UNCHANGED <<storeVars, dispute>>

WriteEdit(o, s) ==
    /\ \/ Doing(o, "respond") /\ s \in OpenStates
       \/ Doing(o, "resolve") /\ s \in TerminalDisputeStatuses
    /\ dispute' = [dispute EXCEPT ![operator[o].id].status = s]
    /\ EndRequest(o)
    /\ UNCHANGED storeVars

CrashOperator(o) ==
    /\ operator[o] # OperatorIdle
    /\ Fault
    /\ EndRequest(o)
    /\ UNCHANGED <<life, payoutStatus, payout, ledgerVars, refund, payoutJob, dispute>>

-----------------------------------------------------------------------------
OperatorStep(o) ==
    \/ \E d \in Cases, t \in Txns : BeginDispute(o, d, t)
    \/ \E s \in OpenStates : InsertDispute(o, s)
    \/ MoveToDisputed(o)
    \/ \E d \in Cases : BeginEdit(o, d, "respond") \/ BeginEdit(o, d, "resolve")
    \/ \E s \in OpenStates \cup TerminalDisputeStatuses : WriteEdit(o, s)

DisputeNext == \E o \in Operators : OperatorStep(o) \/ CrashOperator(o)
=============================================================================
