------------------------------- MODULE Accounts -------------------------------
(***************************************************************************)
(* What the requests of a user share before any money moves: the user row, *)
(* and the clock that the limits and expiries are measured by.  A user     *)
(* stands for a mobile number; its row is made with the number verified    *)
(* and active, and no code clears either.                                  *)
(***************************************************************************)
EXTENDS Integers, Sequences, FiniteSets

CONSTANTS
    Users,      \* mobile numbers that may sign up
    Pans,       \* PAN numbers
    Names,      \* names of PAN holders and of account holders
    NameOnPan,  \* external: the name the tax register has for a PAN
    DayLength,  \* ticks of the clock in a day
    MaxTime,    \* bound: ticks in a run
    MaxFaults   \* bound: crashes and lost answers in a run

NoPan == "none"

ASSUME AccountsAssumption ==
    /\ NameOnPan \in [Pans -> Names] /\ NoPan \notin Pans
    /\ DayLength \in Nat \ {0}
    /\ MaxTime \in Nat
    /\ MaxFaults \in Nat

VARIABLES
    user,    \* user rows; NoUser before the row exists
    now,     \* the clock
    faults   \* faults injected so far

accountVars == <<user, now, faults>>

KycStates == {"PENDING", "SUBMITTED", "APPROVED", "REJECTED"}

NoUser == [row |-> "NONE"]
UserRow == [pan : Pans \cup {NoPan},  \* panNumber, with panName and panVerified
            profile : BOOLEAN,        \* names, phone and address are filled in
            kyc : KycStates]          \* kycStatus
NewUser == [pan |-> NoPan, profile |-> FALSE, kyc |-> "PENDING"]

AccountsTypeOK ==
    /\ user \in [Users -> UserRow \cup {NoUser}]
    /\ now \in 0 .. MaxTime
    /\ faults \in 0 .. MaxFaults

AccountsInit ==
    /\ user = [u \in Users |-> NoUser]
    /\ now = 0
    /\ faults = 0

Today == now \div DayLength

HasPan(row) == row # NoUser /\ row.pan # NoPan

\* A crash, a lost connection, a lost answer: something outside the code's logic.
Fault ==
    /\ faults < MaxFaults
    /\ faults' = faults + 1

-----------------------------------------------------------------------------
\* updateProfile.  No field can be emptied again: each is left out or non-empty.
UpdateProfile(u) ==
    /\ user[u] # NoUser
    /\ user' = [user EXCEPT ![u].profile = TRUE]
    /\ UNCHANGED <<now, faults>>

\* submitPan, when the register confirms the PAN; a number that another account
\* holds violates its unique key.  A user may submit another PAN later.
SubmitPan(u, p) ==
    /\ user[u] # NoUser
    /\ \A v \in Users \ {u} : user[v] # NoUser => user[v].pan # p
    /\ user' = [user EXCEPT ![u].pan = p]
    /\ UNCHANGED <<now, faults>>

Tick ==
    /\ now < MaxTime
    /\ now' = now + 1
    /\ UNCHANGED <<user, faults>>

AccountsNext ==
    \/ \E u \in Users : UpdateProfile(u) \/ \E p \in Pans : SubmitPan(u, p)
    \/ Tick
=============================================================================
