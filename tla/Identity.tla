------------------------------- MODULE Identity -------------------------------
(***************************************************************************)
(* AuthService: signing in with a verified mobile number, and refresh      *)
(* tokens that are rotated on every use.  The row of the new token is      *)
(* written before the old one is revoked, by two statements, so a token    *)
(* may be spent more than once; that is bounded here.                      *)
(***************************************************************************)
EXTENDS Accounts

CONSTANTS
    Clients,    \* requests in flight at the same time
    Devices,    \* fingerprints, "unknown" when the request carries none
    TokenLife   \* ticks until a refresh token expires

ASSUME IdentityAssumption == TokenLife \in Nat /\ IsFiniteSet(Clients)

VARIABLES
    token,      \* refreshToken rows, in the order they were written
    client      \* local state of each request

identityVars == <<token, client>>

\* `from` is the token that was spent for this one, 0 after a sign-in; the row
\* that was spent names its successor in replacedBy.
Token == [user : Users, device : Devices, at : Nat, from : Nat,
          revoked : BOOLEAN, replacedBy : Nat]

ClientIdle == [pc |-> "idle"]
ClientStates == [pc : {"create", "issue", "revoke"}, user : Users, device : Devices,
                 from : Nat, issued : Nat] \cup {ClientIdle}

IdentityTypeOK ==
    /\ token \in Seq(Token)
    /\ client \in [Clients -> ClientStates]

IdentityInit ==
    /\ token = <<>>
    /\ client = [c \in Clients |-> ClientIdle]

ClientAt(c, pc) == client[c] # ClientIdle /\ client[c].pc = pc
EndClient(c) == client' = [client EXCEPT ![c] = ClientIdle]

\* findActiveRefreshToken: not revoked, and it expires later than now.
Active(k) == ~ token[k].revoked /\ token[k].at + TokenLife > now

Successors(k) == {j \in DOMAIN token : token[j].from = k}

-----------------------------------------------------------------------------
\* verifyOtp and verifyWidget, once MSG91 has confirmed the number: the row of
\* the user is looked up.
BeginSignIn(c, u, d) ==
    /\ client[c] = ClientIdle
    /\ client' = [client EXCEPT ![c] =
                     [pc |-> IF user[u] = NoUser THEN "create" ELSE "issue",
                      user |-> u, device |-> d, from |-> 0, issued |-> 0]]
    /\ UNCHANGED <<accountVars, token>>

CreateUser(c) ==
    /\ ClientAt(c, "create")
    /\ user[client[c].user] = NoUser
    /\ user' = [user EXCEPT ![client[c].user] = NewUser]
    /\ client' = [client EXCEPT ![c].pc = "issue"]
    /\ UNCHANGED <<now, faults, token>>

\* Two first sign-ins with one number: the second insert violates the unique key.
RefuseCreateUser(c) ==
    /\ ClientAt(c, "create")
    /\ user[client[c].user] # NoUser
    /\ EndClient(c)
    /\ UNCHANGED <<accountVars, token>>

\* refresh: the token is active, its signature is good, its user is active.
BeginRefresh(c, k, d) ==
    /\ client[c] = ClientIdle
    /\ k \in DOMAIN token /\ Active(k)
    /\ client' = [client EXCEPT ![c] = [pc |-> "issue", user |-> token[k].user,
                                        device |-> d, from |-> k, issued |-> 0]]
    /\ UNCHANGED <<accountVars, token>>

\* buildAuthResponse: a new token row, with a hash of its own (a random jwtid).
IssueToken(c) ==
    /\ ClientAt(c, "issue")
    /\ token' = Append(token, [user |-> client[c].user, device |-> client[c].device,
                               at |-> now, from |-> client[c].from,
                               revoked |-> FALSE, replacedBy |-> 0])
    /\ IF client[c].from = 0
       THEN EndClient(c)
       ELSE client' = [client EXCEPT ![c].pc = "revoke", ![c].issued = Len(token) + 1]
    /\ UNCHANGED accountVars

\* A mutant: the spent token is marked, not revoked.
MarkToken(c) ==
    /\ ClientAt(c, "revoke")
    /\ token' = [token EXCEPT ![client[c].from].replacedBy = client[c].issued]
    /\ EndClient(c)
    /\ UNCHANGED accountVars

RevokeToken(c) ==
    /\ ClientAt(c, "revoke")
    /\ token' = [token EXCEPT ![client[c].from].revoked = TRUE,
                              ![client[c].from].replacedBy = client[c].issued]
    /\ EndClient(c)
    /\ UNCHANGED accountVars

\* The process dies, or a statement fails for a reason of its own.
CrashClient(c) ==
    /\ client[c] # ClientIdle
    /\ Fault
    /\ EndClient(c)
    /\ UNCHANGED <<user, now, token>>

-----------------------------------------------------------------------------
ClientStep(c) ==
    \/ \E u \in Users, d \in Devices : BeginSignIn(c, u, d)
    \/ CreateUser(c) \/ RefuseCreateUser(c)
    \/ \E k \in DOMAIN token, d \in Devices : BeginRefresh(c, k, d)
    \/ IssueToken(c) \/ RevokeToken(c)

IdentityNext == \E c \in Clients : ClientStep(c) \/ CrashClient(c)
=============================================================================
