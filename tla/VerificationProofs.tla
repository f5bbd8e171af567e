-------------------------- MODULE VerificationProofs --------------------------
(***************************************************************************)
(* Accounts, refresh tokens and identity verification, for every value of  *)
(* the constants: what User.kycStatus claims was said of a session of that *)
(* user, no handler uses a row that is not there, and a refresh token is   *)
(* not spent more often than there are requests and crashes.               *)
(***************************************************************************)
EXTENDS Admission, SequenceTheorems, FiniteSetTheorems, TLAPS

\* A fault stays within its budget.
LEMMA FaultCounted ==
    ASSUME AccountsTypeOK, Fault
    PROVE  faults' \in 0 .. MaxFaults
  BY AccountsAssumption DEF AccountsAssumption, AccountsTypeOK, Fault

\* A user row is a record of the three columns.
LEMMA UserRows ==
    ASSUME AccountsTypeOK, NEW u \in Users, user[u] # NoUser
    PROVE  /\ user[u] \in UserRow
           /\ user[u].pan \in Pans \cup {NoPan}
           /\ user[u].profile \in BOOLEAN
           /\ user[u].kyc \in KycStates
  BY DEF AccountsTypeOK, UserRow

LEMMA RowsOfUsers == NewUser \in UserRow /\ NewUser # NoUser /\ \A x \in UserRow : x # NoUser
  BY DEF NewUser, NoUser, UserRow, KycStates

-----------------------------------------------------------------------------
\* A row stays, with the PAN and the profile it has.
RowsStay ==
    \A u \in Users : user[u] # NoUser =>
        /\ user'[u] # NoUser
        /\ HasPan(user[u]) => HasPan(user'[u])
        /\ user[u].profile => user'[u].profile

\* What KYC has found out about a user is written by KYC alone.
KycStays ==
    \A u \in Users : user'[u] # NoUser =>
        user'[u].kyc = IF user[u] # NoUser THEN user[u].kyc ELSE "PENDING"

\* The two of a step that leaves the users alone.
LEMMA SameRows == UNCHANGED user => RowsStay /\ KycStays
  BY DEF RowsStay, KycStays

\* Accounts keep their type.
LEMMA AccountsTypes ==
    ASSUME AccountsTypeOK, AccountsNext
    PROVE  AccountsTypeOK' /\ RowsStay /\ KycStays
<1>1. ASSUME NEW u \in Users, UpdateProfile(u)
      PROVE  AccountsTypeOK' /\ RowsStay /\ KycStays
  <2> DEFINE row == [user[u] EXCEPT !.profile = TRUE]
  <2>1. /\ row \in UserRow
        /\ row.pan = user[u].pan /\ row.profile = TRUE /\ row.kyc = user[u].kyc
    BY <1>1, UserRows DEF UpdateProfile, UserRow
  <2>2. user' = [user EXCEPT ![u] = row]
    BY <1>1 DEF UpdateProfile
  <2> HIDE DEF row
  <2>3. QED
    BY <1>1, <2>1, <2>2, RowsOfUsers
       DEF UpdateProfile, AccountsTypeOK, RowsStay, KycStays, HasPan
<1>2. ASSUME NEW u \in Users, NEW p \in Pans, SubmitPan(u, p)
      PROVE  AccountsTypeOK' /\ RowsStay /\ KycStays
  <2> DEFINE row == [user[u] EXCEPT !.pan = p]
  <2>1. /\ row \in UserRow
        /\ row.pan = p /\ row.profile = user[u].profile /\ row.kyc = user[u].kyc
    BY <1>2, UserRows DEF SubmitPan, UserRow
  <2>2. user' = [user EXCEPT ![u] = row]
    BY <1>2 DEF SubmitPan
  <2> HIDE DEF row
  <2>3. QED
    BY <1>2, <2>1, <2>2, RowsOfUsers, AccountsAssumption
       DEF AccountsAssumption, SubmitPan, AccountsTypeOK, RowsStay, KycStays, HasPan
<1>3. CASE Tick
  BY <1>3, SameRows, AccountsAssumption DEF AccountsAssumption, Tick, AccountsTypeOK
<1>4. QED
  BY <1>1, <1>2, <1>3 DEF AccountsNext

-----------------------------------------------------------------------------
(***************************************************************************)
(* Refresh tokens.                                                         *)
(***************************************************************************)
\* A request between two steps is a record of its locals.
LEMMA ClientRecords ==
    ASSUME IdentityTypeOK, NEW c \in Clients, client[c] # ClientIdle
    PROVE  client[c] \in [pc : {"create", "issue", "revoke"}, user : Users,
                          device : Devices, from : Nat, issued : Nat]
  BY DEF IdentityTypeOK, ClientStates

\* Rows are where the sequence has them, and may be replaced by rows.
LEMMA TokenRows ==
    ASSUME IdentityTypeOK, NEW k \in DOMAIN token
    PROVE  /\ k \in 1 .. Len(token) /\ k \in Nat
           /\ token[k] \in Token
           /\ \A row \in Token : [token EXCEPT ![k] = row] \in Seq(Token)
<1>1. token \in Seq(Token)
  BY DEF IdentityTypeOK
<1>2. k \in 1 .. Len(token)
  BY <1>1, LenProperties
<1>3. QED
  BY <1>1, <1>2, ElementOfSeq, ExceptSeq

\* A request that ends.
LEMMA EndClientTypes ==
    ASSUME IdentityTypeOK, NEW c \in Clients, EndClient(c)
    PROVE  client' \in [Clients -> ClientStates]
  BY DEF IdentityTypeOK, EndClient, ClientStates

\* Signing in and the rotation of tokens keep their types.
LEMMA ClientTypes ==
    ASSUME AccountsTypeOK, IdentityTypeOK, NEW c \in Clients, ClientStep(c)
    PROVE  AccountsTypeOK' /\ IdentityTypeOK' /\ RowsStay /\ KycStays
<1> USE DEF accountVars
<1>1. ASSUME NEW u \in Users, NEW d \in Devices, BeginSignIn(c, u, d)
      PROVE  AccountsTypeOK' /\ IdentityTypeOK' /\ RowsStay /\ KycStays
  <2>1. client' \in [Clients -> ClientStates]
    BY <1>1 DEF BeginSignIn, IdentityTypeOK, ClientStates
  <2>2. QED
    BY <1>1, <2>1, SameRows DEF BeginSignIn, AccountsTypeOK, IdentityTypeOK
<1>2. CASE CreateUser(c)
  <2>1. client[c].user \in Users
    BY <1>2, ClientRecords DEF CreateUser, ClientAt
  <2>2. user' \in [Users -> UserRow \cup {NoUser}] /\ RowsStay /\ KycStays
    BY <1>2, <2>1, RowsOfUsers DEF CreateUser, AccountsTypeOK, RowsStay, KycStays, NewUser
  <2>3. client' \in [Clients -> ClientStates]
    BY <1>2, ClientRecords DEF CreateUser, ClientAt, IdentityTypeOK, ClientStates
  <2>4. QED
    BY <1>2, <2>2, <2>3 DEF CreateUser, AccountsTypeOK, IdentityTypeOK
<1>3. CASE RefuseCreateUser(c)
  BY <1>3, EndClientTypes, SameRows DEF RefuseCreateUser, AccountsTypeOK, IdentityTypeOK
<1>4. ASSUME NEW k \in DOMAIN token, NEW d \in Devices, BeginRefresh(c, k, d)
      PROVE  AccountsTypeOK' /\ IdentityTypeOK' /\ RowsStay /\ KycStays
  <2>1. token[k].user \in Users /\ k \in Nat
    BY TokenRows DEF Token
  <2>2. client' \in [Clients -> ClientStates]
    BY <1>4, <2>1 DEF BeginRefresh, IdentityTypeOK, ClientStates
  <2>3. QED
    BY <1>4, <2>2, SameRows DEF BeginRefresh, AccountsTypeOK, IdentityTypeOK
<1>5. CASE IssueToken(c)
  <2> DEFINE row == [user |-> client[c].user, device |-> client[c].device, at |-> now,
                     from |-> client[c].from, revoked |-> FALSE, replacedBy |-> 0]
  <2>1. row \in Token
    BY <1>5, ClientRecords DEF IssueToken, ClientAt, Token, AccountsTypeOK
  <2>2. token' \in Seq(Token)
    BY <1>5, <2>1 DEF IssueToken, IdentityTypeOK
  <2>3. Len(token) + 1 \in Nat
    BY DEF IdentityTypeOK
  <2>4. client' \in [Clients -> ClientStates]
    BY <1>5, <2>3, ClientRecords, EndClientTypes
       DEF IssueToken, ClientAt, IdentityTypeOK, ClientStates
  <2>5. QED
    BY <1>5, <2>2, <2>4, SameRows DEF IssueToken, AccountsTypeOK, IdentityTypeOK
<1>6. CASE RevokeToken(c)
  <2> DEFINE k == client[c].from
             row == [token[k] EXCEPT !.revoked = TRUE, !.replacedBy = client[c].issued]
  <2>1. token' = [token EXCEPT ![k] = row]
    BY <1>6 DEF RevokeToken
  <2>2. ASSUME k \in DOMAIN token
        PROVE  row \in Token
    BY <1>6, <2>2, ClientRecords, TokenRows DEF RevokeToken, ClientAt, Token
  <2>3. token' \in Seq(Token)
    <3>1. CASE k \in DOMAIN token
      <4> HIDE DEF row, k
      <4>1. QED
        BY <2>1, <2>2, <3>1, TokenRows
    <3>2. CASE k \notin DOMAIN token
      <4>1. token \in [1 .. Len(token) -> Token] /\ token \in Seq(Token)
        BY LenProperties DEF IdentityTypeOK
      <4> HIDE DEF row, k
      <4>2. token' = token
        BY <2>1, <3>2, <4>1
      <4>3. QED
        BY <4>1, <4>2
    <3>3. QED
      BY <3>1, <3>2
  <2>4. QED
    BY <1>6, <2>3, EndClientTypes, SameRows DEF RevokeToken, AccountsTypeOK, IdentityTypeOK
<1>7. QED
  BY <1>1, <1>2, <1>3, <1>4, <1>5, <1>6 DEF ClientStep

LEMMA IdentityTypes ==
    ASSUME AccountsTypeOK, IdentityTypeOK, IdentityNext
    PROVE  AccountsTypeOK' /\ IdentityTypeOK' /\ RowsStay /\ KycStays
<1>1. ASSUME NEW c \in Clients, CrashClient(c)
      PROVE  AccountsTypeOK' /\ IdentityTypeOK' /\ RowsStay /\ KycStays
  BY <1>1, EndClientTypes, FaultCounted, SameRows
     DEF CrashClient, AccountsTypeOK, IdentityTypeOK
<1>2. QED
  BY <1>1, ClientTypes DEF IdentityNext

-----------------------------------------------------------------------------
(***************************************************************************)
(* Identity verification.  A session names one user or nobody for good,    *)
(* and what the provider has once said of it stays said; a handler has in  *)
(* hand what was said of a session that names no other user than the one   *)
(* it writes to.                                                           *)
(***************************************************************************)
SessionsBacked ==
    \A s \in Sessions :
        /\ said[s] # {} => session[s] # NoSession
        /\ session[s] # NoSession => /\ session[s].user # Nobody =>
                                           user[session[s].user] # NoUser
                                     /\ session[s].word \in said[s]

\* What a webhook in hand was told, of a session that names a user.
Attributed(event) ==
    /\ session[event[1]] # NoSession /\ session[event[1]].user # Nobody
    /\ event[3] \in said[event[1]]

OfficersBacked ==
    \A o \in Officers : officer[o] # OfficerIdle =>
        /\ officer[o].pc \in {"open", "save", "write"} => user[officer[o].user] # NoUser
        /\ officer[o].pc = "save" => officer[o].word = "not started"
        /\ officer[o].pc = "write" => SaidTo(officer[o].user, officer[o].word)
        /\ officer[o].pc = "apply" => Attributed(officer[o].event)

KycInv == KycTypeOK /\ SessionsBacked /\ OfficersBacked /\ KycNotFromAnothers

\* A run of a handler between two steps has the locals of that step.
LEMMA OfficerRecords ==
    ASSUME KycTypeOK, NEW o \in Officers, officer[o] # OfficerIdle
    PROVE  /\ officer[o].pc \in {"open", "save", "write", "apply"}
           /\ officer[o].pc \in {"open", "save", "write"} => officer[o].user \in Users
           /\ officer[o].pc \in {"open", "save"} => officer[o].seen \in KycStates
           /\ officer[o].pc \in {"save", "write"} => officer[o].word \in Words
           /\ officer[o].pc = "apply" => officer[o].event \in Sessions \X Words \X Words
<1>1. officer[o] \in OfficerStates \ {OfficerIdle}
  BY DEF KycTypeOK
<1>2. QED
  BY <1>1 DEF OfficerStates

\* A handler that ends.
LEMMA EndOfficerKeeps ==
    ASSUME KycTypeOK, OfficersBacked, NEW o \in Officers, EndOfficer(o),
           UNCHANGED <<session, said>>, \A u \in Users : user[u] # NoUser => user'[u] # NoUser
    PROVE  /\ officer' \in [Officers -> OfficerStates]
           /\ OfficersBacked'
<1>1. officer' \in [Officers -> OfficerStates]
  BY DEF KycTypeOK, EndOfficer, OfficerStates
<1>2. ASSUME NEW q \in Officers, officer'[q] # OfficerIdle
      PROVE  officer'[q] = officer[q] /\ officer[q] # OfficerIdle
  BY <1>2 DEF KycTypeOK, EndOfficer
<1>3. OfficersBacked'
  BY <1>2, OfficerRecords DEF OfficersBacked, SaidTo, Attributed
<1>4. QED
  BY <1>1, <1>3

\* The same of the next state, for locals of either.
SaidNext(u, word) ==
    \E s \in Sessions : /\ session'[s] # NoSession
                        /\ session'[s].user \in {u, Nobody} /\ word \in said'[s]

AttributedNext(event) ==
    /\ session'[event[1]] # NoSession /\ session'[event[1]].user # Nobody
    /\ event[3] \in said'[event[1]]

\* A handler that goes on with locals that are backed.
LEMMA OfficerGoesOn ==
    ASSUME KycTypeOK, OfficersBacked, NEW o \in Officers, NEW x \in OfficerStates,
           officer' = [officer EXCEPT ![o] = x],
           x.pc \in {"open", "save", "write"} => user[x.user] # NoUser,
           x.pc = "save" => x.word = "not started",
           x.pc = "write" => SaidNext(x.user, x.word),
           x.pc = "apply" => AttributedNext(x.event),
           UNCHANGED user,
           \A s \in Sessions : session[s] # NoSession => session'[s] = session[s],
           \A s \in Sessions : said[s] \subseteq said'[s]
    PROVE  /\ officer' \in [Officers -> OfficerStates]
           /\ OfficersBacked'
<1>1. officer' \in [Officers -> OfficerStates]
  BY DEF KycTypeOK
<1>2. ASSUME NEW q \in Officers, officer'[q] # OfficerIdle
      PROVE  /\ officer'[q].pc \in {"open", "save", "write"} => user'[officer'[q].user] # NoUser
             /\ officer'[q].pc = "save" => officer'[q].word = "not started"
             /\ officer'[q].pc = "write" => SaidNext(officer'[q].user, officer'[q].word)
             /\ officer'[q].pc = "apply" => AttributedNext(officer'[q].event)
  <2>1. CASE q = o
    BY <2>1 DEF KycTypeOK
  <2>2. CASE q # o
    <3>1. officer'[q] = officer[q] /\ officer[q] # OfficerIdle
      BY <1>2, <2>2 DEF KycTypeOK
    <3>2. officer[q].pc = "apply" => officer[q].event[1] \in Sessions
      BY <3>1, OfficerRecords
    <3>3. /\ officer[q].pc \in {"open", "save", "write"} => user[officer[q].user] # NoUser
          /\ officer[q].pc = "save" => officer[q].word = "not started"
      BY <3>1 DEF OfficersBacked
    <3>4. ASSUME officer[q].pc = "write"
          PROVE  SaidNext(officer[q].user, officer[q].word)
      <4>1. SaidTo(officer[q].user, officer[q].word)
        BY <3>1, <3>4 DEF OfficersBacked
      <4>2. QED
        BY <4>1 DEF SaidTo, SaidNext
    <3>5. ASSUME officer[q].pc = "apply"
          PROVE  AttributedNext(officer[q].event)
      <4>1. Attributed(officer[q].event)
        BY <3>1, <3>5 DEF OfficersBacked
      <4>2. QED
        BY <3>2, <3>5, <4>1 DEF Attributed, AttributedNext
    <3>6. QED
      BY <3>1, <3>3, <3>4, <3>5
  <2>3. QED
    BY <2>1, <2>2
<1>3. QED
  BY <1>1, <1>2 DEF OfficersBacked, SaidTo, SaidNext, Attributed, AttributedNext

\* A status is written that was said to the user, or is PENDING.
LEMMA KycSet ==
    ASSUME AccountsTypeOK, KycTypeOK, SessionsBacked, KycNotFromAnothers,
           NEW u \in Users, user[u] # NoUser, NEW word \in Words,
           word # "not started" => SaidTo(u, word),
           SetKyc(u, word), UNCHANGED <<now, faults, session, said>>
    PROVE  AccountsTypeOK' /\ RowsStay /\ SessionsBacked' /\ KycNotFromAnothers'
<1> DEFINE row == [user[u] EXCEPT !.kyc = MapDiditStatus(word)]
<1>1. MapDiditStatus(word) \in KycStates
  BY DEF MapDiditStatus, Words, KycStates
<1>2. /\ row \in UserRow
      /\ row.pan = user[u].pan /\ row.profile = user[u].profile
      /\ row.kyc = MapDiditStatus(word)
  BY <1>1, UserRows DEF UserRow
<1>3. user' = [user EXCEPT ![u] = row]
  BY DEF SetKyc
<1> HIDE DEF row
<1>4. AccountsTypeOK'
  BY <1>2, <1>3 DEF AccountsTypeOK
<1>5. RowsStay
  BY <1>2, <1>3, RowsOfUsers DEF AccountsTypeOK, RowsStay, HasPan
<1>6. SessionsBacked'
  BY <1>5 DEF KycTypeOK, RowsStay, SessionsBacked, SessionRow
<1>7. ASSUME NEW v \in Users, user'[v] # NoUser
      PROVE  /\ user'[v].kyc = "APPROVED"  => SaidTo(v, "approved")
             /\ user'[v].kyc = "REJECTED"  => SaidTo(v, "declined")
             /\ user'[v].kyc = "SUBMITTED" => SaidTo(v, "in review")
  <2>1. CASE v = u
    BY <1>2, <1>3, <2>1 DEF AccountsTypeOK, MapDiditStatus, Words
  <2>2. CASE v # u
    BY <1>3, <1>7, <2>2 DEF AccountsTypeOK, KycNotFromAnothers
  <2>3. QED
    BY <2>1, <2>2
<1>8. KycNotFromAnothers'
  BY <1>7 DEF KycNotFromAnothers, SaidTo
<1>9. QED
  BY <1>4, <1>5, <1>6, <1>8

\* What was said to a user stays said.
LEMMA SaidStays ==
    ASSUME KycNotFromAnothers, SessionsBacked, UNCHANGED user,
           \A s \in Sessions : session[s] # NoSession =>
              session'[s] # NoSession /\ session'[s].user = session[s].user,
           \A s \in Sessions : said[s] \subseteq said'[s]
    PROVE  KycNotFromAnothers'
<1>1. ASSUME NEW u \in Users, NEW word, SaidTo(u, word)
      PROVE  SaidTo(u, word)'
  BY <1>1 DEF SaidTo
<1>2. QED
  BY <1>1 DEF KycNotFromAnothers

\* Every step of a handler keeps what KYC rests on.
LEMMA OfficerTypes ==
    ASSUME AccountsTypeOK, KycInv, NEW o \in Officers, OfficerStep(o)
    PROVE  AccountsTypeOK' /\ KycInv' /\ RowsStay
<1> USE DEF KycInv
<1>1. ASSUME UNCHANGED <<accountVars, session, said>>
      PROVE  AccountsTypeOK' /\ SessionsBacked' /\ KycNotFromAnothers' /\ RowsStay
  BY <1>1, SaidStays, SameRows DEF accountVars, AccountsTypeOK, SessionsBacked
<1>2. ASSUME NEW u \in Users, BeginSession(o, u)
      PROVE  AccountsTypeOK' /\ KycInv' /\ RowsStay
  <2> DEFINE x == [pc |-> "open", user |-> u, seen |-> user[u].kyc]
  <2>1. x \in OfficerStates
    BY <1>2, UserRows DEF BeginSession, OfficerStates
  <2>2. officer' \in [Officers -> OfficerStates] /\ OfficersBacked'
    BY <1>2, <2>1, OfficerGoesOn DEF BeginSession, accountVars
  <2>3. QED
    BY <1>1, <1>2, <2>2 DEF BeginSession, KycTypeOK
<1>3. ASSUME NEW u \in Users, NEW s \in Sessions, BeginSync(o, u, s)
      PROVE  AccountsTypeOK' /\ KycInv' /\ RowsStay
  <2> DEFINE x == [pc |-> "write", user |-> u, word |-> session[s].word]
  <2>1. session[s].word \in Words /\ session[s].word \in said[s]
    BY <1>3 DEF BeginSync, KycTypeOK, SessionsBacked
  <2>2. x \in OfficerStates
    BY <2>1 DEF OfficerStates
  <2>3. SaidNext(x.user, x.word)
    BY <1>3, <2>1 DEF BeginSync, SaidNext
  <2>4. officer' \in [Officers -> OfficerStates] /\ OfficersBacked'
    BY <1>3, <2>2, <2>3, OfficerGoesOn DEF BeginSync, accountVars
  <2>5. QED
    BY <1>1, <1>3, <2>4 DEF BeginSync, KycTypeOK
<1>4. ASSUME NEW s \in Sessions, OpenSession(o, s)
      PROVE  AccountsTypeOK' /\ KycInv' /\ RowsStay
  <2> DEFINE x == [pc |-> "save", user |-> officer[o].user, seen |-> officer[o].seen,
                   word |-> "not started"]
  <2>1. officer[o] # OfficerIdle /\ officer[o].pc = "open"
    BY <1>4 DEF OpenSession, OfficerAt
  <2>2. officer[o].user \in Users /\ user[officer[o].user] # NoUser
    BY <2>1, OfficerRecords DEF OfficersBacked
  <2>3. x \in OfficerStates
    BY <2>1, <2>2, OfficerRecords DEF OfficerStates, Words
  <2>4. said[s] = {}
    BY <1>4 DEF OpenSession, SessionsBacked
  <2>5. officer' \in [Officers -> OfficerStates] /\ OfficersBacked'
    BY <1>4, <2>2, <2>3, <2>4, OfficerGoesOn DEF OpenSession, accountVars, KycTypeOK
  <2>6. session' \in [Sessions -> SessionRow \cup {NoSession}]
    BY <1>4, <2>2 DEF OpenSession, KycTypeOK, Words, SessionRow
  <2>7. said' \in [Sessions -> SUBSET Words]
    BY <1>4 DEF OpenSession, KycTypeOK, Words
  <2>8. SessionsBacked'
    BY <1>4, <2>2 DEF OpenSession, accountVars, KycTypeOK, SessionsBacked, NoSession
  <2>9. KycNotFromAnothers'
    BY <1>4, <2>4, SaidStays DEF OpenSession, accountVars, KycTypeOK
  <2>10. QED
    BY <1>4, <2>5, <2>6, <2>7, <2>8, <2>9, SameRows
       DEF OpenSession, accountVars, KycTypeOK, AccountsTypeOK
<1>5. CASE RefuseSession(o)
  BY <1>1, <1>5, EndOfficerKeeps DEF RefuseSession, accountVars, KycTypeOK
<1>6. CASE SaveSessionStatus(o)
  <2>1. officer[o] # OfficerIdle /\ officer[o].pc = "save"
    BY <1>6 DEF SaveSessionStatus, OfficerAt
  <2>2. /\ officer[o].user \in Users /\ user[officer[o].user] # NoUser
        /\ officer[o].word = "not started" /\ officer[o].word \in Words
    BY <2>1, OfficerRecords DEF OfficersBacked
  <2>3. AccountsTypeOK' /\ RowsStay /\ SessionsBacked' /\ KycNotFromAnothers'
    <3>1. CASE UNCHANGED user
      BY <1>1, <1>6, <3>1 DEF SaveSessionStatus, accountVars
    <3>2. CASE SetKyc(officer[o].user, officer[o].word)
      BY <1>6, <2>2, <3>2, KycSet DEF SaveSessionStatus
    <3>3. QED
      BY <1>6, <3>1, <3>2 DEF SaveSessionStatus
  <2>4. officer' \in [Officers -> OfficerStates] /\ OfficersBacked'
    BY <1>6, <2>3, EndOfficerKeeps DEF SaveSessionStatus, RowsStay
  <2>5. QED
    BY <1>6, <2>3, <2>4 DEF SaveSessionStatus, KycTypeOK
<1>7. CASE WriteSync(o)
  <2>1. officer[o] # OfficerIdle /\ officer[o].pc = "write"
    BY <1>7 DEF WriteSync, OfficerAt
  <2>2. /\ officer[o].user \in Users /\ user[officer[o].user] # NoUser
        /\ officer[o].word \in Words /\ SaidTo(officer[o].user, officer[o].word)
    BY <2>1, OfficerRecords DEF OfficersBacked
  <2>3. AccountsTypeOK' /\ RowsStay /\ SessionsBacked' /\ KycNotFromAnothers'
    BY <1>7, <2>2, KycSet DEF WriteSync
  <2>4. officer' \in [Officers -> OfficerStates] /\ OfficersBacked'
    BY <1>7, <2>3, EndOfficerKeeps DEF WriteSync, RowsStay
  <2>5. QED
    BY <1>7, <2>3, <2>4 DEF WriteSync, KycTypeOK
<1>8. ASSUME NEW s \in Sessions, NEW word \in Words, NEW resolved \in Words,
             BeginKycNotice(o, s, word, resolved)
      PROVE  AccountsTypeOK' /\ KycInv' /\ RowsStay
  <2> DEFINE x == [pc |-> "apply", event |-> <<s, word, resolved>>]
  <2>1. x \in OfficerStates
    BY DEF OfficerStates
  <2>2. AttributedNext(x.event)
    BY <1>8 DEF BeginKycNotice, ResolvedWords, SessionsBacked, AttributedNext
  <2>3. officer' \in [Officers -> OfficerStates] /\ OfficersBacked'
    BY <1>8, <2>1, <2>2, OfficerGoesOn DEF BeginKycNotice, accountVars
  <2>4. QED
    BY <1>1, <1>8, <2>3 DEF BeginKycNotice, KycTypeOK
<1>9. CASE ApplyKycNotice(o)
  <2> DEFINE event == officer[o].event
             u == session[event[1]].user
  <2>1. officer[o] # OfficerIdle /\ officer[o].pc = "apply"
    BY <1>9 DEF ApplyKycNotice, OfficerAt
  <2>2. event \in Sessions \X Words \X Words /\ Attributed(event)
    BY <2>1, OfficerRecords DEF OfficersBacked
  <2>3. event[1] \in Sessions /\ event[3] \in Words /\ session[event[1]] # NoSession
    BY <2>2 DEF Attributed
  <2>4. u \in Users /\ user[u] # NoUser
    BY <2>2, <2>3 DEF SessionsBacked, KycTypeOK, Attributed, SessionRow
  <2>5. SaidTo(u, event[3])
    BY <2>2, <2>3 DEF SaidTo, Attributed
  <2>6. SetKyc(u, event[3]) /\ UNCHANGED <<now, faults, session, said>>
    BY <1>9 DEF ApplyKycNotice
  <2> HIDE DEF u
  <2>7. AccountsTypeOK' /\ RowsStay /\ SessionsBacked' /\ KycNotFromAnothers'
    BY <2>3, <2>4, <2>5, <2>6, KycSet
  <2>8. officer' \in [Officers -> OfficerStates] /\ OfficersBacked'
    BY <1>9, <2>7, EndOfficerKeeps DEF ApplyKycNotice, RowsStay
  <2>9. handled' \subseteq Sessions \X Words \X Words
    BY <1>9, <2>2 DEF ApplyKycNotice, KycTypeOK
  <2>10. QED
    BY <1>9, <2>7, <2>8, <2>9 DEF ApplyKycNotice, KycTypeOK
<1>10. QED
  BY <1>2, <1>3, <1>4, <1>5, <1>6, <1>7, <1>8, <1>9 DEF OfficerStep

\* Every step of identity verification does.
LEMMA KycTypes ==
    ASSUME AccountsTypeOK, KycInv, KycNext
    PROVE  AccountsTypeOK' /\ KycInv' /\ RowsStay
<1>1. ASSUME NEW o \in Officers, CrashOfficer(o)
      PROVE  AccountsTypeOK' /\ KycInv' /\ RowsStay
  <2>1. AccountsTypeOK' /\ RowsStay
    BY <1>1, FaultCounted, SameRows DEF CrashOfficer, AccountsTypeOK
  <2>2. officer' \in [Officers -> OfficerStates] /\ OfficersBacked'
    BY <1>1, <2>1, EndOfficerKeeps DEF CrashOfficer, RowsStay, KycInv
  <2>3. KycNotFromAnothers' /\ SessionsBacked'
    BY <1>1, SaidStays DEF CrashOfficer, KycInv, SessionsBacked
  <2>4. QED
    BY <1>1, <2>1, <2>2, <2>3 DEF CrashOfficer, KycInv, KycTypeOK
<1>2. ASSUME NEW s \in Sessions, NEW word \in Words, SessionMoves(s, word)
      PROVE  AccountsTypeOK' /\ KycInv' /\ RowsStay
  <2> DEFINE row == [session[s] EXCEPT !.word = word]
  <2>1. row \in SessionRow /\ row.user = session[s].user /\ row.word = word
    BY <1>2 DEF SessionMoves, KycInv, KycTypeOK, SessionRow
  <2>2. session' = [session EXCEPT ![s] = row] /\ said' = [said EXCEPT ![s] = @ \cup {word}]
    BY <1>2 DEF SessionMoves
  <2> HIDE DEF row
  <2>3. row # NoSession
    BY <2>1 DEF NoSession, SessionRow
  <2>4. KycTypeOK'
    BY <1>2, <2>1, <2>2 DEF SessionMoves, KycInv, KycTypeOK
  <2>5. \A q \in Sessions :
           /\ said[q] \subseteq said'[q]
           /\ session[q] # NoSession =>
                 session'[q] # NoSession /\ session'[q].user = session[q].user
    BY <2>1, <2>2, <2>3 DEF KycInv, KycTypeOK
  <2>6. SessionsBacked'
    <3>1. ASSUME NEW q \in Sessions, said'[q] # {}
          PROVE  session'[q] # NoSession
      BY <1>2, <2>2, <2>5, <3>1 DEF SessionMoves, KycInv, KycTypeOK, SessionsBacked
    <3>2. ASSUME NEW q \in Sessions, session'[q] # NoSession
          PROVE  /\ session'[q].user # Nobody => user[session'[q].user] # NoUser
                 /\ session'[q].word \in said'[q]
      <4>1. session[q] # NoSession /\ session'[q].user = session[q].user
        BY <1>2, <2>2, <2>5, <3>2 DEF SessionMoves, KycInv, KycTypeOK
      <4>2. session'[q].word \in said'[q]
        <5>1. CASE q = s
          BY <2>1, <2>2, <5>1 DEF KycInv, KycTypeOK
        <5>2. CASE q # s
          <6>1. session'[q] = session[q] /\ said'[q] = said[q]
            BY <2>2, <5>2 DEF KycInv, KycTypeOK
          <6>2. QED
            BY <4>1, <6>1 DEF KycInv, SessionsBacked
        <5>3. QED
          BY <5>1, <5>2
      <4>3. QED
        BY <4>1, <4>2 DEF KycInv, SessionsBacked
    <3>3. UNCHANGED user
      BY <1>2 DEF SessionMoves, accountVars
    <3>4. QED
      BY <3>1, <3>2, <3>3 DEF SessionsBacked
  <2>7. OfficersBacked'
    <3>1. UNCHANGED <<user, officer>>
      BY <1>2 DEF SessionMoves, accountVars
    <3>2. ASSUME NEW q \in Officers, officer[q] # OfficerIdle
          PROVE  /\ officer[q].pc = "write" => SaidNext(officer[q].user, officer[q].word)
                 /\ officer[q].pc = "apply" => AttributedNext(officer[q].event)
      <4>1. officer[q].pc = "apply" => officer[q].event[1] \in Sessions
        BY <3>2, OfficerRecords DEF KycInv
      <4>2. ASSUME officer[q].pc = "write"
            PROVE  SaidNext(officer[q].user, officer[q].word)
        <5>1. SaidTo(officer[q].user, officer[q].word)
          BY <3>2, <4>2 DEF KycInv, OfficersBacked
        <5>2. QED
          BY <2>5, <5>1 DEF SaidTo, SaidNext
      <4>3. ASSUME officer[q].pc = "apply"
            PROVE  AttributedNext(officer[q].event)
        <5>1. Attributed(officer[q].event)
          BY <3>2, <4>3 DEF KycInv, OfficersBacked
        <5>2. QED
          BY <2>5, <4>1, <4>3, <5>1 DEF Attributed, AttributedNext
      <4>4. QED
        BY <4>2, <4>3
    <3>3. QED
      BY <3>1, <3>2
         DEF KycInv, OfficersBacked, SaidTo, SaidNext, Attributed, AttributedNext
  <2>8. KycNotFromAnothers'
    BY <1>2, <2>5, SaidStays DEF SessionMoves, accountVars, KycInv
  <2>9. QED
    BY <1>2, <2>4, <2>6, <2>7, <2>8, SameRows
       DEF SessionMoves, accountVars, AccountsTypeOK, KycInv
<1>3. ASSUME NEW s \in Sessions, OpenElsewhere(s)
      PROVE  AccountsTypeOK' /\ KycInv' /\ RowsStay
  <2> DEFINE row == [user |-> Nobody, word |-> "not started"]
  <2>1. row \in SessionRow /\ row # NoSession
    BY DEF SessionRow, Words, NoSession
  <2>2. said[s] = {} /\ session[s] = NoSession
    BY <1>3 DEF OpenElsewhere, KycInv, SessionsBacked
  <2>3. /\ session' = [session EXCEPT ![s] = row]
        /\ said' = [said EXCEPT ![s] = {"not started"}]
        /\ UNCHANGED <<user, now, faults, handled, officer>>
    BY <1>3 DEF OpenElsewhere, accountVars
  <2>4. row.user = Nobody /\ row.word = "not started"
    OBVIOUS
  <2> HIDE DEF row
  <2>5. KycTypeOK'
    BY <2>1, <2>3 DEF KycInv, KycTypeOK, Words
  <2>6. \A q \in Sessions :
           /\ said[q] \subseteq said'[q]
           /\ session[q] # NoSession => session'[q] = session[q]
    BY <2>2, <2>3 DEF KycInv, KycTypeOK
  <2>7. SessionsBacked'
    <3>1. ASSUME NEW q \in Sessions, q # s
          PROVE  session'[q] = session[q] /\ said'[q] = said[q]
      BY <2>3, <3>1 DEF KycInv, KycTypeOK
    <3>2. session'[s] = row /\ said'[s] = {"not started"}
      BY <2>3 DEF KycInv, KycTypeOK
    <3>3. QED
      BY <2>1, <2>3, <2>4, <3>1, <3>2 DEF KycInv, SessionsBacked
  <2>8. OfficersBacked'
    <3>1. ASSUME NEW q \in Officers, officer[q] # OfficerIdle
          PROVE  /\ officer[q].pc = "write" => SaidNext(officer[q].user, officer[q].word)
                 /\ officer[q].pc = "apply" => AttributedNext(officer[q].event)
      <4>1. officer[q].pc = "apply" => officer[q].event[1] \in Sessions
        BY <3>1, OfficerRecords DEF KycInv
      <4>2. /\ officer[q].pc = "write" => SaidTo(officer[q].user, officer[q].word)
            /\ officer[q].pc = "apply" => Attributed(officer[q].event)
        BY <3>1 DEF KycInv, OfficersBacked
      <4>3. QED
        BY <2>6, <4>1, <4>2 DEF SaidTo, SaidNext, Attributed, AttributedNext
    <3>2. QED
      BY <2>3, <3>1
         DEF KycInv, OfficersBacked, SaidTo, SaidNext, Attributed, AttributedNext
  <2>9. KycNotFromAnothers'
    BY <2>3, <2>6, SaidStays DEF KycInv
  <2>10. QED
    BY <2>3, <2>5, <2>7, <2>8, <2>9, SameRows DEF AccountsTypeOK, KycInv
<1>4. QED
  BY <1>1, <1>2, <1>3, OfficerTypes DEF KycNext

\* Steps that leave KYC alone keep it, whatever they do to the user rows.
LEMMA KycApart ==
    ASSUME AccountsTypeOK, KycInv, UNCHANGED kycVars, RowsStay, KycStays
    PROVE  KycInv'
<1> USE DEF KycInv, kycVars
<1>1. KycTypeOK'
  BY DEF KycTypeOK
<1>2. SessionsBacked'
  BY DEF SessionsBacked, RowsStay, KycTypeOK, SessionRow
<1>3. OfficersBacked'
  BY OfficerRecords DEF OfficersBacked, SaidTo, RowsStay, Attributed
<1>4. ASSUME NEW u \in Users, NEW word
      PROVE  SaidTo(u, word) <=> SaidTo(u, word)'
  BY DEF SaidTo
<1>5. ASSUME NEW u \in Users, user'[u] # NoUser
      PROVE  /\ user'[u].kyc = "APPROVED"  => SaidTo(u, "approved")
             /\ user'[u].kyc = "REJECTED"  => SaidTo(u, "declined")
             /\ user'[u].kyc = "SUBMITTED" => SaidTo(u, "in review")
  BY <1>5 DEF KycNotFromAnothers, KycStays
<1>6. KycNotFromAnothers'
  BY <1>4, <1>5 DEF KycNotFromAnothers
<1>7. QED
  BY <1>1, <1>2, <1>3, <1>6

\* No session changes hands, and no word is taken back.
SaidGrows ==
    \A u \in Users, word \in Words : SaidTo(u, word) => SaidNext(u, word)

LEMMA KycSaysMore == ASSUME KycInv, KycNext PROVE SaidGrows
<1>1. ASSUME \A s \in Sessions :
               /\ said[s] \subseteq said'[s]
               /\ session[s] # NoSession =>
                     session'[s] # NoSession /\ session'[s].user = session[s].user
      PROVE  SaidGrows
  BY <1>1 DEF SaidGrows, SaidTo, SaidNext
<1>2. CASE UNCHANGED <<session, said>>
  BY <1>1, <1>2
<1>3. ASSUME NEW o \in Officers, NEW s \in Sessions, OpenSession(o, s)
      PROVE  SaidGrows
  <2>1. said[s] = {}
    BY <1>3 DEF OpenSession, KycInv, SessionsBacked
  <2>2. QED
    BY <1>1, <1>3, <2>1 DEF OpenSession, KycInv, KycTypeOK
<1>4. ASSUME NEW s \in Sessions, NEW word \in Words, SessionMoves(s, word)
      PROVE  SaidGrows
  <2> DEFINE row == [session[s] EXCEPT !.word = word]
  <2>1. row \in SessionRow /\ row.user = session[s].user
    BY <1>4 DEF SessionMoves, KycInv, KycTypeOK, SessionRow
  <2>2. session' = [session EXCEPT ![s] = row] /\ said' = [said EXCEPT ![s] = @ \cup {word}]
    BY <1>4 DEF SessionMoves
  <2>3. row # NoSession
    BY <2>1 DEF NoSession, SessionRow
  <2> HIDE DEF row
  <2>4. QED
    BY <1>1, <2>1, <2>2, <2>3 DEF KycInv, KycTypeOK
<1>5. ASSUME NEW s \in Sessions, OpenElsewhere(s)
      PROVE  SaidGrows
  <2>1. said[s] = {}
    BY <1>5 DEF OpenElsewhere, KycInv, SessionsBacked
  <2>2. QED
    BY <1>1, <1>5, <2>1 DEF OpenElsewhere, KycInv, KycTypeOK
<1>6. QED
  BY <1>2, <1>3, <1>4, <1>5
     DEF KycNext, OfficerStep, CrashOfficer, BeginSession, BeginSync, RefuseSession,
         SaveSessionStatus, WriteSync, BeginKycNotice, ApplyKycNotice

-----------------------------------------------------------------------------
(***************************************************************************)
(* How often a refresh token is spent.  While it is not revoked, each of   *)
(* its successors has a request that is about to revoke it, or one that    *)
(* crashed; a request that may yet add one was counted among the requests  *)
(* in flight when it found the token active.                               *)
(***************************************************************************)
Spending(k, pc) == {c \in Clients : ClientAt(c, pc) /\ client[c].from = k}

TokensRooted ==
    /\ \A j \in DOMAIN token : token[j].from <= Len(token)
    /\ \A c \in Clients : client[c] # ClientIdle =>
          /\ client[c].from <= Len(token)
          /\ client[c].pc = "revoke" => client[c].from # 0
          /\ client[c].pc = "create" => client[c].from = 0

ForksCounted ==
    \A k \in DOMAIN token :
        /\ ~ token[k].revoked =>
              Cardinality(Successors(k)) <= Cardinality(Spending(k, "revoke")) + faults
        /\ Cardinality(Successors(k)) + Cardinality(Spending(k, "issue"))
             <= Cardinality(Clients) + faults

ForksInv == AccountsTypeOK /\ IdentityTypeOK /\ TokensRooted /\ ForksCounted

\* A set that differs from a finite one in one element at most.
LEMMA OneToggled ==
    ASSUME NEW A, NEW B, NEW c, IsFiniteSet(A), B \ {c} = A \ {c}
    PROVE  /\ IsFiniteSet(B) /\ Cardinality(A) \in Nat /\ Cardinality(B) \in Nat
           /\ (c \in A <=> c \in B) => Cardinality(B) = Cardinality(A)
           /\ c \notin A /\ c \in B => Cardinality(B) = Cardinality(A) + 1
           /\ c \in A /\ c \notin B => Cardinality(B) + 1 = Cardinality(A)
<1> DEFINE C == A \ {c}
<1>1. IsFiniteSet(C)
  BY FS_Subset
<1>2. A = IF c \in A THEN C \cup {c} ELSE C
  OBVIOUS
<1>3. B = IF c \in B THEN C \cup {c} ELSE C
  OBVIOUS
<1>4. c \notin C
  OBVIOUS
<1> HIDE DEF C
<1>5. /\ IsFiniteSet(C \cup {c}) /\ Cardinality(C \cup {c}) = Cardinality(C) + 1
  BY <1>1, <1>4, FS_AddElement
<1>6. Cardinality(C) \in Nat
  BY <1>1, FS_CardinalityType
<1>7. QED
  BY <1>1, <1>2, <1>3, <1>5, <1>6

\* The sets that are counted are finite, and no request is in two of them.
LEMMA ForksFinite ==
    ASSUME IdentityTypeOK, NEW k
    PROVE  /\ IsFiniteSet(Successors(k)) /\ Cardinality(Successors(k)) \in Nat
           /\ Cardinality(Clients) \in Nat
           /\ \A pc : /\ IsFiniteSet(Spending(k, pc))
                      /\ Cardinality(Spending(k, pc)) \in Nat
<1>1. token \in Seq(Token)
  BY DEF IdentityTypeOK
<1>2. Len(token) \in Nat /\ DOMAIN token = 1 .. Len(token)
  BY <1>1, LenProperties
<1>3. IsFiniteSet(DOMAIN token)
  BY <1>2, FS_Interval
<1>4. IsFiniteSet(Successors(k))
  BY <1>3, FS_Subset DEF Successors
<1>5. ASSUME NEW pc PROVE IsFiniteSet(Spending(k, pc))
  BY FS_Subset, IdentityAssumption DEF Spending, IdentityAssumption
<1>6. QED
  BY <1>4, <1>5, FS_CardinalityType, IdentityAssumption DEF IdentityAssumption

\* A request that is idle leaves room for one that has issued a successor or is
\* about to.
LEMMA SpendersFit ==
    ASSUME IdentityTypeOK, NEW k, NEW c \in Clients, client[c] = ClientIdle
    PROVE  Cardinality(Spending(k, "revoke")) + Cardinality(Spending(k, "issue")) + 1
             <= Cardinality(Clients)
<1> DEFINE R == Spending(k, "revoke")
           I == Spending(k, "issue")
<1>1. R \cap I = {} /\ (R \cup I) \subseteq Clients \ {c}
  BY DEF Spending, ClientAt
<1>2. IsFiniteSet(R) /\ IsFiniteSet(I) /\ Cardinality(R) \in Nat /\ Cardinality(I) \in Nat
  BY ForksFinite
<1> HIDE DEF R, I
<1>3. Cardinality(R \cup I) = Cardinality(R) + Cardinality(I) - Cardinality(R \cap I)
  BY <1>2, FS_Union
<1>4. Cardinality({}) = 0
  BY FS_EmptySet
<1>5. /\ IsFiniteSet(Clients \ {c})
      /\ Cardinality(Clients \ {c}) = Cardinality(Clients) - 1
  BY FS_RemoveElement, IdentityAssumption DEF IdentityAssumption
<1>6. Cardinality(R \cup I) <= Cardinality(Clients \ {c})
  BY <1>1, <1>5, FS_Subset
<1>7. Cardinality(R) + Cardinality(I) + 1 <= Cardinality(Clients)
  <2>1. Cardinality(R \cap I) = 0
    BY <1>1, <1>4
  <2>2. Cardinality(Clients) \in Nat
    BY ForksFinite
  <2>3. QED
    BY <1>2, <1>3, <1>5, <1>6, <2>1, <2>2
<1>8. QED
  BY <1>7 DEF R, I

\* A step of one request leaves the others where they are, and counts for one.
LEMMA OneSpender ==
    ASSUME IdentityTypeOK, NEW c \in Clients, NEW k, NEW pc,
           \A d \in Clients \ {c} : client'[d] = client[d]
    PROVE  LET A == Spending(k, pc)
               B == Spending(k, pc)'
           IN  /\ Cardinality(A) \in Nat /\ Cardinality(B) \in Nat
               /\ (c \in A <=> c \in B) => Cardinality(B) = Cardinality(A)
               /\ c \notin A /\ c \in B => Cardinality(B) = Cardinality(A) + 1
               /\ c \in A /\ c \notin B => Cardinality(B) + 1 = Cardinality(A)
<1> DEFINE A == Spending(k, pc)
           B == Spending(k, pc)'
<1>1. B \ {c} = A \ {c}
  BY DEF Spending, ClientAt, ClientIdle
<1>2. IsFiniteSet(A)
  BY ForksFinite
<1> HIDE DEF A, B
<1>3. /\ Cardinality(A) \in Nat /\ Cardinality(B) \in Nat
      /\ (c \in A <=> c \in B) => Cardinality(B) = Cardinality(A)
      /\ c \notin A /\ c \in B => Cardinality(B) = Cardinality(A) + 1
      /\ c \in A /\ c \notin B => Cardinality(B) + 1 = Cardinality(A)
  BY <1>1, <1>2, OneToggled
<1>4. QED
  BY <1>3 DEF A, B

\* What the counts of a token are, and what is known of them.
LEMMA ForksKnown ==
    ASSUME ForksInv, NEW k \in DOMAIN token
    PROVE  /\ faults \in Nat /\ Cardinality(Clients) \in Nat
           /\ Cardinality(Successors(k)) \in Nat
           /\ ~ token[k].revoked =>
                Cardinality(Successors(k)) <= Cardinality(Spending(k, "revoke")) + faults
           /\ Cardinality(Successors(k)) + Cardinality(Spending(k, "issue"))
                <= Cardinality(Clients) + faults
           /\ Len(token) \in Nat /\ DOMAIN token = 1 .. Len(token) /\ k \in 1 .. Len(token)
<1>1. token \in Seq(Token)
  BY DEF ForksInv, IdentityTypeOK
<1>2. Len(token) \in Nat /\ DOMAIN token = 1 .. Len(token)
  BY <1>1, LenProperties
<1>3. faults \in Nat
  BY AccountsAssumption DEF ForksInv, AccountsTypeOK, AccountsAssumption
<1>4. QED
  BY <1>2, <1>3, ForksFinite DEF ForksInv, ForksCounted

\* Where the tokens are.
LEMMA TokensAt ==
    ASSUME IdentityTypeOK
    PROVE  token \in Seq(Token) /\ Len(token) \in Nat /\ DOMAIN token = 1 .. Len(token)
<1>1. token \in Seq(Token)
  BY DEF IdentityTypeOK
<1>2. QED
  BY <1>1, LenProperties

\* The steps that leave the tokens and the budget alone, and add no request
\* that is about to spend a token or to revoke one.
LEMMA ForksKept ==
    ASSUME ForksInv, NEW c \in Clients, UNCHANGED <<token, faults>>,
           \A d \in Clients \ {c} : client'[d] = client[d],
           client'[c] # ClientIdle => client'[c].from = 0 /\ client'[c].pc # "revoke",
           client[c] # ClientIdle => client[c].pc = "create"
    PROVE  (TokensRooted /\ ForksCounted)'
<1>1. Len(token) \in Nat /\ DOMAIN token = 1 .. Len(token)
  BY TokensAt DEF ForksInv
<1>2. TokensRooted'
  BY <1>1 DEF ForksInv, TokensRooted
<1>3. ASSUME NEW k \in DOMAIN token, NEW pc \in {"issue", "revoke"}
      PROVE  Cardinality(Spending(k, pc))' = Cardinality(Spending(k, pc))
  <2>1. c \notin Spending(k, pc) /\ c \notin Spending(k, pc)'
    BY <1>1, <1>3 DEF Spending, ClientAt
  <2>2. QED
    BY <2>1, OneSpender DEF ForksInv
<1>4. ASSUME NEW k PROVE Successors(k)' = Successors(k)
  BY DEF Successors
<1>5. QED
  BY <1>2, <1>3, <1>4 DEF ForksInv, ForksCounted

\* refresh: the token is active, so its successors are accounted for by requests
\* other than this one, which is counted among them from now on.
LEMMA BeginRefreshForks ==
    ASSUME ForksInv, NEW c \in Clients, NEW k \in DOMAIN token, NEW d \in Devices,
           BeginRefresh(c, k, d)
    PROVE  (TokensRooted /\ ForksCounted)'
<1>1. Len(token) \in Nat /\ DOMAIN token = 1 .. Len(token)
  BY TokensAt DEF ForksInv
<1>2. UNCHANGED <<token, faults>> /\ client[c] = ClientIdle /\ ~ token[k].revoked
  BY DEF BeginRefresh, Active, accountVars
<1>3. /\ client'[c] # ClientIdle /\ client'[c].pc = "issue" /\ client'[c].from = k
      /\ \A e \in Clients \ {c} : client'[e] = client[e]
  BY DEF BeginRefresh, ForksInv, IdentityTypeOK, ClientIdle
<1>4. TokensRooted'
  BY <1>1, <1>2, <1>3 DEF ForksInv, TokensRooted
<1>5. ASSUME NEW j \in DOMAIN token
      PROVE  /\ ~ token[j].revoked =>
                  Cardinality(Successors(j)) <= Cardinality(Spending(j, "revoke"))' + faults
             /\ Cardinality(Successors(j)) + Cardinality(Spending(j, "issue"))'
                  <= Cardinality(Clients) + faults
  <2>1. /\ c \notin Spending(j, "revoke") /\ c \notin Spending(j, "revoke")'
        /\ c \notin Spending(j, "issue")
        /\ c \in Spending(j, "issue")' <=> j = k
    BY <1>2, <1>3 DEF Spending, ClientAt
  <2>2. /\ Cardinality(Spending(j, "revoke"))' = Cardinality(Spending(j, "revoke"))
        /\ Cardinality(Spending(j, "revoke")) \in Nat
        /\ Cardinality(Spending(j, "issue")) \in Nat
        /\ Cardinality(Spending(j, "issue"))' =
             IF j = k THEN Cardinality(Spending(j, "issue")) + 1
             ELSE Cardinality(Spending(j, "issue"))
    BY <1>3, <2>1, OneSpender DEF ForksInv
  <2>3. Cardinality(Spending(j, "revoke")) + Cardinality(Spending(j, "issue")) + 1
          <= Cardinality(Clients)
    BY <1>2, SpendersFit DEF ForksInv
  <2>4. QED
    BY <1>2, <1>5, <2>2, <2>3, ForksKnown
<1>6. ASSUME NEW j PROVE Successors(j)' = Successors(j)
  BY <1>2 DEF Successors
<1>7. QED
  BY <1>2, <1>4, <1>5, <1>6 DEF ForksCounted

\* buildAuthResponse: the request has added its successor, and has not revoked
\* the token yet.
LEMMA IssueTokenForks ==
    ASSUME ForksInv, NEW c \in Clients, IssueToken(c)
    PROVE  (TokensRooted /\ ForksCounted)'
<1> DEFINE k == client[c].from
           row == [user |-> client[c].user, device |-> client[c].device, at |-> now,
                   from |-> client[c].from, revoked |-> FALSE, replacedBy |-> 0]
<1>1. Len(token) \in Nat /\ DOMAIN token = 1 .. Len(token) /\ token \in Seq(Token)
  BY TokensAt DEF ForksInv
<1> PICK n \in Nat : n = Len(token) + 1
  BY <1>1
<1>2. k \in Nat /\ k <= Len(token) /\ client[c] # ClientIdle /\ client[c].pc = "issue"
  BY ClientRecords DEF IssueToken, ClientAt, ForksInv, TokensRooted
<1>3. row \in Token /\ row.from = k /\ row.revoked = FALSE
  BY ClientRecords DEF IssueToken, ClientAt, ForksInv, Token, AccountsTypeOK
<1>4. token' = Append(token, row) /\ UNCHANGED faults
  BY DEF IssueToken, accountVars
<1> HIDE DEF row
<1>5. /\ Len(token') = n /\ DOMAIN token' = 1 .. n
      /\ token'[n].from = k
      /\ \A j \in 1 .. Len(token) : token'[j] = token[j]
  BY <1>1, <1>3, <1>4, AppendProperties
<1>6. /\ \A e \in Clients \ {c} : client'[e] = client[e]
      /\ k = 0 => client'[c] = ClientIdle
      /\ k # 0 => client'[c] # ClientIdle /\ client'[c].pc = "revoke" /\ client'[c].from = k
  BY <1>2, ClientRecords DEF IssueToken, ForksInv, IdentityTypeOK, EndClient, ClientIdle
<1> HIDE DEF k
<1>7. /\ \A j \in 1 .. Len(token) : token[j].from \in 0 .. Len(token)
      /\ \A e \in Clients : client[e] # ClientIdle => client[e].from \in 0 .. Len(token)
  <2>1. \A j \in 1 .. Len(token) : token[j].from \in Nat
    BY <1>1, TokenRows DEF ForksInv, Token
  <2>2. \A e \in Clients : client[e] # ClientIdle => client[e].from \in Nat
    BY ClientRecords DEF ForksInv
  <2>3. QED
    BY <1>1, <2>1, <2>2 DEF ForksInv, TokensRooted
<1>8. TokensRooted'
  <2>1. ASSUME NEW j \in 1 .. n PROVE token'[j].from <= n
    BY <1>1, <1>2, <1>5, <1>7, <2>1
  <2>2. ASSUME NEW e \in Clients, client'[e] # ClientIdle
        PROVE  /\ client'[e].from <= n
               /\ client'[e].pc = "revoke" => client'[e].from # 0
               /\ client'[e].pc = "create" => client'[e].from = 0
    BY <1>1, <1>2, <1>6, <1>7, <2>2 DEF ForksInv, TokensRooted
  <2>3. QED
    BY <1>5, <2>1, <2>2 DEF TokensRooted
<1>9. ASSUME NEW j \in 1 .. Len(token)
      PROVE  /\ Successors(j)' = IF j = k THEN Successors(j) \cup {n} ELSE Successors(j)
             /\ n \notin Successors(j)
  BY <1>1, <1>5 DEF Successors
<1>10. ASSUME NEW j \in 1 .. Len(token)
      PROVE  /\ ~ token'[j].revoked =>
                  Cardinality(Successors(j)') <= Cardinality(Spending(j, "revoke"))' + faults
             /\ Cardinality(Successors(j)') + Cardinality(Spending(j, "issue"))'
                  <= Cardinality(Clients) + faults
  <2>1. /\ c \notin Spending(j, "revoke") /\ c \notin Spending(j, "issue")'
        /\ c \in Spending(j, "revoke")' <=> j = k
        /\ c \in Spending(j, "issue") <=> j = k
    BY <1>1, <1>2, <1>6, <1>10 DEF k, Spending, ClientAt
  <2>2. /\ Cardinality(Spending(j, "revoke")) \in Nat
        /\ Cardinality(Spending(j, "issue")) \in Nat
        /\ Cardinality(Spending(j, "issue"))' \in Nat
        /\ j = k => /\ Cardinality(Spending(j, "revoke"))' = Cardinality(Spending(j, "revoke")) + 1
                    /\ Cardinality(Spending(j, "issue"))' + 1 = Cardinality(Spending(j, "issue"))
        /\ j # k => /\ Cardinality(Spending(j, "revoke"))' = Cardinality(Spending(j, "revoke"))
                    /\ Cardinality(Spending(j, "issue"))' = Cardinality(Spending(j, "issue"))
    BY <1>6, <2>1, OneSpender DEF ForksInv
  <2>3. Cardinality(Successors(j)') = IF j = k THEN Cardinality(Successors(j)) + 1
                                      ELSE Cardinality(Successors(j))
    BY <1>9, FS_AddElement, ForksFinite DEF ForksInv
  <2>4. token'[j].revoked = token[j].revoked
    BY <1>5
  <2>5. QED
    BY <1>1, <2>2, <2>3, <2>4, ForksKnown
<1>11. Successors(n)' = {} /\ \A pc : Spending(n, pc)' = {}
  <2>1. \A j \in 1 .. n : token'[j].from # n
    BY <1>1, <1>2, <1>5, <1>7
  <2>2. Successors(n)' = {}
    BY <1>5, <2>1 DEF Successors
  <2>3. ASSUME NEW pc PROVE Spending(n, pc)' = {}
    BY <1>1, <1>2, <1>6, <1>7 DEF Spending, ClientAt
  <2>4. QED
    BY <2>2, <2>3
<1>12. /\ Cardinality(Successors(n)') = 0
       /\ \A pc : Cardinality(Spending(n, pc))' = 0
  BY <1>11, FS_EmptySet
<1>13. faults \in Nat /\ Cardinality(Clients) \in Nat
  BY AccountsAssumption, ForksFinite DEF ForksInv, AccountsTypeOK, AccountsAssumption
<1>14. ASSUME NEW j \in 1 .. n
       PROVE  /\ ~ token'[j].revoked =>
                   Cardinality(Successors(j)') <= Cardinality(Spending(j, "revoke"))' + faults
              /\ Cardinality(Successors(j)') + Cardinality(Spending(j, "issue"))'
                   <= Cardinality(Clients) + faults
  <2>1. CASE j = n
    BY <1>12, <1>13, <2>1
  <2>2. CASE j \in 1 .. Len(token)
    BY <1>10, <2>2
  <2>3. QED
    BY <1>1, <2>1, <2>2
<1>15. QED
  BY <1>4, <1>5, <1>8, <1>14 DEF ForksCounted

\* The spent token is revoked; what counts of it from now on is the requests
\* that found it active before.
LEMMA RevokeTokenForks ==
    ASSUME ForksInv, NEW c \in Clients, RevokeToken(c)
    PROVE  (TokensRooted /\ ForksCounted)'
<1> DEFINE k == client[c].from
           row == [token[k] EXCEPT !.revoked = TRUE, !.replacedBy = client[c].issued]
<1>1. Len(token) \in Nat /\ DOMAIN token = 1 .. Len(token) /\ token \in Seq(Token)
  BY TokensAt DEF ForksInv
<1>2. k \in 1 .. Len(token) /\ client[c] # ClientIdle /\ client[c].pc = "revoke"
  BY <1>1, ClientRecords DEF RevokeToken, ClientAt, ForksInv, TokensRooted
<1>3. row.from = token[k].from /\ row.revoked
  <2>1. token[k] \in Token
    BY <1>1, <1>2, ElementOfSeq
  <2>2. QED
    BY <2>1 DEF Token
<1>4. token' = [token EXCEPT ![k] = row] /\ UNCHANGED faults
  BY DEF RevokeToken, accountVars
<1>5. /\ client'[c] = ClientIdle
      /\ \A e \in Clients \ {c} : client'[e] = client[e]
  BY DEF RevokeToken, EndClient, ForksInv, IdentityTypeOK
<1> HIDE DEF k, row
<1>6. /\ Len(token') = Len(token) /\ DOMAIN token' = DOMAIN token
      /\ \A j \in DOMAIN token : token'[j].from = token[j].from
      /\ \A j \in DOMAIN token : ~ token'[j].revoked => j # k /\ ~ token[j].revoked
  <2>1. token' \in Seq(Token) /\ Len(token') = Len(token)
    <3>1. row \in Token
      <4>1. token[k] \in Token
        BY <1>1, <1>2, ElementOfSeq
      <4>2. client[c].issued \in Nat
        BY <1>2, ClientRecords DEF ForksInv
      <4>3. QED
        BY <4>1, <4>2 DEF row, Token
    <3>2. QED
      BY <1>1, <1>2, <1>4, <3>1, ExceptSeq
  <2>2. DOMAIN token' = DOMAIN token
    BY <1>1, <1>4
  <2>3. QED
    BY <1>1, <1>2, <1>3, <1>4, <2>1, <2>2
<1>7. TokensRooted'
  BY <1>1, <1>5, <1>6 DEF ForksInv, TokensRooted
<1>8. ASSUME NEW j PROVE Successors(j)' = Successors(j)
  BY <1>6 DEF Successors
<1>9. ASSUME NEW j \in DOMAIN token
      PROVE  /\ ~ token'[j].revoked =>
                  Cardinality(Successors(j)) <= Cardinality(Spending(j, "revoke"))' + faults
             /\ Cardinality(Successors(j)) + Cardinality(Spending(j, "issue"))'
                  <= Cardinality(Clients) + faults
  <2>1. /\ c \notin Spending(j, "issue") /\ c \notin Spending(j, "issue")'
        /\ c \notin Spending(j, "revoke")'
        /\ c \in Spending(j, "revoke") <=> j = k
    BY <1>2, <1>5 DEF k, Spending, ClientAt
  <2>2. /\ Cardinality(Spending(j, "issue"))' = Cardinality(Spending(j, "issue"))
        /\ j # k => Cardinality(Spending(j, "revoke"))' = Cardinality(Spending(j, "revoke"))
    BY <1>5, <2>1, OneSpender DEF ForksInv
  <2>3. QED
    BY <1>6, <2>2, ForksKnown
<1>10. QED
  BY <1>4, <1>6, <1>7, <1>8, <1>9 DEF ForksCounted

\* A request that dies may leave its token unrevoked: one fault more is allowed.
LEMMA CrashClientForks ==
    ASSUME ForksInv, NEW c \in Clients, CrashClient(c)
    PROVE  (TokensRooted /\ ForksCounted)'
<1>1. Len(token) \in Nat /\ DOMAIN token = 1 .. Len(token)
  BY TokensAt DEF ForksInv
<1>2. UNCHANGED token /\ faults' = faults + 1
  BY DEF CrashClient, Fault
<1>3. client'[c] = ClientIdle /\ \A e \in Clients \ {c} : client'[e] = client[e]
  BY DEF CrashClient, EndClient, ForksInv, IdentityTypeOK
<1>4. TokensRooted'
  BY <1>1, <1>2, <1>3 DEF ForksInv, TokensRooted
<1>5. ASSUME NEW j PROVE Successors(j)' = Successors(j)
  BY <1>2 DEF Successors
<1>6. ASSUME NEW j \in DOMAIN token
      PROVE  /\ ~ token[j].revoked =>
                  Cardinality(Successors(j)) <= Cardinality(Spending(j, "revoke"))' + faults'
             /\ Cardinality(Successors(j)) + Cardinality(Spending(j, "issue"))'
                  <= Cardinality(Clients) + faults'
  <2>1. ASSUME NEW pc
        PROVE  /\ Cardinality(Spending(j, pc)) \in Nat
               /\ Cardinality(Spending(j, pc))' \in Nat
               /\ \/ Cardinality(Spending(j, pc))' = Cardinality(Spending(j, pc))
                  \/ Cardinality(Spending(j, pc))' + 1 = Cardinality(Spending(j, pc))
    <3>1. c \notin Spending(j, pc)'
      BY <1>3 DEF Spending, ClientAt
    <3>2. QED
      BY <1>3, <3>1, OneSpender DEF ForksInv
  <2>2. /\ ~ token[j].revoked =>
              Cardinality(Successors(j)) <= Cardinality(Spending(j, "revoke"))' + (faults + 1)
        /\ Cardinality(Successors(j)) + Cardinality(Spending(j, "issue"))'
              <= Cardinality(Clients) + (faults + 1)
    <3>1. /\ Cardinality(Spending(j, "revoke")) \in Nat
          /\ Cardinality(Spending(j, "revoke"))' \in Nat
          /\ Cardinality(Spending(j, "revoke")) <= Cardinality(Spending(j, "revoke"))' + 1
      BY <2>1
    <3>2. /\ Cardinality(Spending(j, "issue")) \in Nat
          /\ Cardinality(Spending(j, "issue"))' \in Nat
          /\ Cardinality(Spending(j, "issue"))' <= Cardinality(Spending(j, "issue"))
      BY <2>1
    <3>3. QED
      BY <3>1, <3>2, ForksKnown
  <2>3. QED
    BY <1>2, <2>2
<1>7. QED
  BY <1>2, <1>4, <1>5, <1>6 DEF ForksCounted

\* The parts of the system other than this one write no token, and their faults
\* only add to what is allowed.
LEMMA ForksApart ==
    ASSUME ForksInv, UNCHANGED <<token, client>>, faults' = faults \/ Fault
    PROVE  (TokensRooted /\ ForksCounted)'
<1>1. TokensRooted'
  BY DEF ForksInv, TokensRooted
<1>2. ASSUME NEW j
      PROVE  /\ Successors(j)' = Successors(j)
             /\ Spending(j, "revoke")' = Spending(j, "revoke")
             /\ Spending(j, "issue")' = Spending(j, "issue")
  BY DEF Successors, Spending, ClientAt
<1>3. faults' = faults \/ faults' = faults + 1
  BY DEF Fault
<1>4. ASSUME NEW j \in DOMAIN token
      PROVE  /\ ~ token[j].revoked =>
                  Cardinality(Successors(j)) <= Cardinality(Spending(j, "revoke")) + faults'
             /\ Cardinality(Successors(j)) + Cardinality(Spending(j, "issue"))
                  <= Cardinality(Clients) + faults'
  <2>1. Cardinality(Spending(j, "revoke")) \in Nat /\ Cardinality(Spending(j, "issue")) \in Nat
    BY ForksFinite DEF ForksInv
  <2>2. QED
    BY <1>3, <2>1, ForksKnown
<1>5. QED
  BY <1>1, <1>2, <1>4 DEF ForksCounted

\* What KYC and the desks do to the budget.
LEMMA FaultsElsewhere ==
    ASSUME KycNext \/ CreationNext
    PROVE  faults' = faults \/ Fault
<1>1. ASSUME NEW o \in Officers, OfficerStep(o) PROVE faults' = faults
  BY <1>1 DEF OfficerStep, BeginSession, BeginSync, OpenSession, RefuseSession,
              SaveSessionStatus, WriteSync, BeginKycNotice, ApplyKycNotice, accountVars
<1>2. ASSUME NEW o \in Officers, CrashOfficer(o) PROVE Fault
  BY <1>2 DEF CrashOfficer
<1>3. ASSUME NEW s \in Sessions, NEW word \in Words,
             SessionMoves(s, word) \/ OpenElsewhere(s)
      PROVE  faults' = faults
  BY <1>3 DEF SessionMoves, OpenElsewhere, accountVars
<1>4. ASSUME NEW d \in Desks, DeskStep(d) PROVE faults' = faults \/ Fault
  BY <1>4 DEF DeskStep, BeginBeneficiary, BeginTransfer, InsertBeneficiary,
              RegisterBeneficiary, RegisterAnswerLost, StoreBeneficiary, RefuseBeneficiary,
              Evaluate, RefuseTransfer, InsertTransfer, RefuseKey, WaitForPayment,
              CreateOrder, OrderAnswerLost, RefuseOrder, NoteOrder, SaveAnswer, accountVars
<1>5. ASSUME NEW d \in Desks, CrashDesk(d) PROVE Fault
  BY <1>5 DEF CrashDesk
<1>6. ASSUME NEW i, NEW state, PaymentEnds(i, state) \/ PayoutFails(i)
      PROVE  faults' = faults
  BY <1>6 DEF PaymentEnds, PayoutFails, accountVars
<1>7. QED
  <2>1. "approved" \in Words
    BY DEF Words
  <2>2. QED
    BY <1>1, <1>2, <1>3, <1>4, <1>5, <1>6, <2>1 DEF KycNext, CreationNext

LEMMA ForksOfClient ==
    ASSUME ForksInv, NEW c \in Clients, ClientStep(c) \/ CrashClient(c)
    PROVE  (TokensRooted /\ ForksCounted)'
<1>1. ASSUME NEW u \in Users, NEW d \in Devices, BeginSignIn(c, u, d)
      PROVE  (TokensRooted /\ ForksCounted)'
  <2>1. /\ \A e \in Clients \ {c} : client'[e] = client[e]
        /\ client'[c].from = 0 /\ client'[c].pc # "revoke" /\ client[c] = ClientIdle
    BY <1>1 DEF BeginSignIn, ForksInv, IdentityTypeOK
  <2>2. QED
    BY <1>1, <2>1, ForksKept DEF BeginSignIn, accountVars
<1>2. CASE CreateUser(c)
  <2>1. client[c] # ClientIdle /\ client[c].pc = "create" /\ client[c].from = 0
    BY <1>2 DEF CreateUser, ClientAt, ForksInv, TokensRooted
  <2>2. /\ \A e \in Clients \ {c} : client'[e] = client[e]
        /\ client'[c].from = 0 /\ client'[c].pc = "issue"
    BY <1>2, <2>1, ClientRecords DEF CreateUser, ForksInv, IdentityTypeOK
  <2>3. QED
    BY <1>2, <2>1, <2>2, ForksKept DEF CreateUser
<1>3. CASE RefuseCreateUser(c)
  <2>1. /\ \A e \in Clients \ {c} : client'[e] = client[e]
        /\ client'[c] = ClientIdle /\ client[c].pc = "create"
    BY <1>3 DEF RefuseCreateUser, ClientAt, EndClient, ForksInv, IdentityTypeOK
  <2>2. QED
    BY <1>3, <2>1, ForksKept DEF RefuseCreateUser, accountVars
<1>4. QED
  BY <1>1, <1>2, <1>3, BeginRefreshForks, IssueTokenForks, RevokeTokenForks,
     CrashClientForks DEF ClientStep

LEMMA ForksNext ==
    ASSUME ForksInv, [AdmissionNext]_admissionVars
    PROVE  (TokensRooted /\ ForksCounted)'
<1>1. CASE AccountsStep
  BY <1>1, ForksApart
     DEF AccountsStep, identityVars, AccountsNext, UpdateProfile, SubmitPan, Tick
<1>2. CASE IdentityStep
  BY <1>2, ForksOfClient DEF IdentityStep, IdentityNext
<1>3. CASE KycStep
  BY <1>3, ForksApart, FaultsElsewhere DEF KycStep, identityVars
<1>4. CASE CreationStep
  BY <1>4, ForksApart, FaultsElsewhere DEF CreationStep, identityVars
<1>5. CASE UNCHANGED admissionVars
  BY <1>5, ForksApart DEF admissionVars, accountVars, identityVars
<1>6. QED
  BY <1>1, <1>2, <1>3, <1>4, <1>5 DEF AdmissionNext
=============================================================================
