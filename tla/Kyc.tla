--------------------------------- MODULE Kyc ---------------------------------
(***************************************************************************)
(* DiditService: verification sessions at the provider, the status a user  *)
(* asks to have synchronised, and the provider's webhooks, which may come  *)
(* late, out of order and again.  Each of them writes User.kycStatus.      *)
(***************************************************************************)
EXTENDS Accounts

CONSTANTS
    Sessions,   \* session ids the provider may give out
    Officers    \* runs of the handlers in flight at the same time

VARIABLES
    session,    \* external: the session at the provider, its user and status
    said,       \* external: the statuses it has announced, deliverable again and again
    handled,    \* WebhookEvent rows marked as processed, by session, notice and status
    officer     \* local state of each run

kycVars == <<session, said, handled, officer>>

\* One word for each class that mapDiditStatus tells apart.
Words == {"not started", "in review", "approved", "declined"}

NoSession == [word |-> "NONE"]
\* vendor_data is optional: a session may name no user.
Nobody == "nobody"
SessionRow == [user : Users \cup {Nobody}, word : Words]
OfficerIdle == [pc |-> "idle"]
OfficerStates ==
    [pc : {"open"}, user : Users, seen : KycStates]
    \cup [pc : {"save"}, user : Users, seen : KycStates, word : Words]
    \cup [pc : {"write"}, user : Users, word : Words]
    \cup [pc : {"apply"}, event : Sessions \X Words \X Words]
    \cup {OfficerIdle}

KycTypeOK ==
    /\ session \in [Sessions -> SessionRow \cup {NoSession}]
    /\ said \in [Sessions -> SUBSET Words]
    /\ handled \subseteq Sessions \X Words \X Words
    /\ officer \in [Officers -> OfficerStates]

KycInit ==
    /\ session = [s \in Sessions |-> NoSession]
    /\ said = [s \in Sessions |-> {}]
    /\ handled = {}
    /\ officer = [o \in Officers |-> OfficerIdle]

OfficerAt(o, pc) == officer[o] # OfficerIdle /\ officer[o].pc = pc
EndOfficer(o) == officer' = [officer EXCEPT ![o] = OfficerIdle]

-----------------------------------------------------------------------------
\* A mutant: the provider's word is stored as it comes.
StoreWord(word) == word

MapDiditStatus(word) ==
    CASE word = "approved"  -> "APPROVED"
      [] word = "declined"  -> "REJECTED"
      [] word = "in review" -> "SUBMITTED"
      [] OTHER              -> "PENDING"

SetKyc(u, word) == user' = [user EXCEPT ![u].kyc = MapDiditStatus(word)]

\* createSession, also as the fallback of the PAN check: the user is read, the
\* session is opened at the provider, and its status is written if it is not
\* the one that was read.
BeginSession(o, u) ==
    /\ officer[o] = OfficerIdle
    /\ user[u] # NoUser
    /\ officer' = [officer EXCEPT ![o] = [pc |-> "open", user |-> u, seen |-> user[u].kyc]]
    /\ UNCHANGED <<accountVars, session, said, handled>>

OpenSession(o, s) ==
    /\ OfficerAt(o, "open")
    /\ session[s] = NoSession
    /\ session' = [session EXCEPT ![s] = [user |-> officer[o].user, word |-> "not started"]]
    /\ said' = [said EXCEPT ![s] = {"not started"}]
    /\ officer' = [officer EXCEPT ![o] = [pc |-> "save", user |-> officer[o].user,
                                          seen |-> officer[o].seen,
                                          word |-> "not started"]]
    /\ UNCHANGED <<accountVars, handled>>

RefuseSession(o) ==
    /\ OfficerAt(o, "open")
    /\ EndOfficer(o)
    /\ UNCHANGED <<accountVars, session, said, handled>>

SaveSessionStatus(o) ==
    /\ OfficerAt(o, "save")
    /\ IF MapDiditStatus(officer[o].word) # officer[o].seen
       THEN SetKyc(officer[o].user, officer[o].word)
       ELSE UNCHANGED user
    /\ EndOfficer(o)
    /\ UNCHANGED <<now, faults, session, said, handled>>

\* A mutant: anybody's session will do.
AskForAnySession(o, u, s) ==
    /\ officer[o] = OfficerIdle
    /\ user[u] # NoUser
    /\ session[s] # NoSession
    /\ officer' = [officer EXCEPT ![o] = [pc |-> "write", user |-> u,
                                          word |-> session[s].word]]
    /\ UNCHANGED <<accountVars, session, said, handled>>

\* syncSession: the provider is asked; a session that names another user is
\* refused, one that names nobody is not.
BeginSync(o, u, s) ==
    /\ officer[o] = OfficerIdle
    /\ user[u] # NoUser
    /\ session[s] # NoSession
    /\ session[s].user \in {u, Nobody}
    /\ officer' = [officer EXCEPT ![o] = [pc |-> "write", user |-> u,
                                          word |-> session[s].word]]
    /\ UNCHANGED <<accountVars, session, said, handled>>

WriteSync(o) ==
    /\ OfficerAt(o, "write")
    /\ SetKyc(officer[o].user, officer[o].word)
    /\ EndOfficer(o)
    /\ UNCHANGED <<now, faults, session, said, handled>>

\* resolveWebhookPayload: what a payload leaves out is asked for, so that the
\* status may be the one the session has by now.
ResolvedWords(s, word) == {word, session[s].word}

\* processWebhook for the notice that announced `word`, unless its event has
\* been processed, or its session names nobody: that is refused, and the event
\* stays unprocessed.  Its id carries the notice's timestamp and the status.
BeginKycNotice(o, s, word, resolved) ==
    /\ officer[o] = OfficerIdle
    /\ word \in said[s]
    /\ session[s].user # Nobody
    /\ resolved \in ResolvedWords(s, word)
    /\ <<s, word, resolved>> \notin handled
    /\ officer' = [officer EXCEPT ![o] = [pc |-> "apply", event |-> <<s, word, resolved>>]]
    /\ UNCHANGED <<accountVars, session, said, handled>>

\* The block that writes the status and marks the event.
ApplyKycNotice(o) ==
    LET event == officer[o].event
    IN
    /\ OfficerAt(o, "apply")
    /\ SetKyc(session[event[1]].user, event[3])
    /\ handled' = handled \cup {event}
    /\ EndOfficer(o)
    /\ UNCHANGED <<now, faults, session, said>>

CrashOfficer(o) ==
    /\ officer[o] # OfficerIdle
    /\ Fault
    /\ EndOfficer(o)
    /\ UNCHANGED <<user, now, session, said, handled>>

\* External: the provider, or a reviewer there, moves a session on, in any
\* order; bound: to each status once, which keeps events apart by their status.
SessionMoves(s, word) ==
    /\ session[s] # NoSession
    /\ word \notin said[s]
    /\ session' = [session EXCEPT ![s].word = word]
    /\ said' = [said EXCEPT ![s] = @ \cup {word}]
    /\ UNCHANGED <<accountVars, handled, officer>>

\* External: a session that createSession has not opened, and that names nobody.
OpenElsewhere(s) ==
    /\ session[s] = NoSession
    /\ session' = [session EXCEPT ![s] = [user |-> Nobody, word |-> "not started"]]
    /\ said' = [said EXCEPT ![s] = {"not started"}]
    /\ UNCHANGED <<accountVars, handled, officer>>

-----------------------------------------------------------------------------
OfficerStep(o) ==
    \/ \E u \in Users : BeginSession(o, u) \/ \E s \in Sessions : BeginSync(o, u, s)
    \/ \E s \in Sessions : OpenSession(o, s)
    \/ RefuseSession(o) \/ SaveSessionStatus(o) \/ WriteSync(o)
    \/ \E s \in Sessions, word, resolved \in Words : BeginKycNotice(o, s, word, resolved)
    \/ ApplyKycNotice(o)

KycNext ==
    \/ \E o \in Officers : OfficerStep(o) \/ CrashOfficer(o)
    \/ \E s \in Sessions : OpenElsewhere(s) \/ \E word \in Words : SessionMoves(s, word)
=============================================================================
