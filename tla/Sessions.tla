------------------------------ MODULE Sessions ------------------------------
(***************************************************************************)
(* Device-bound sessions: apps/api/src/identity/sessions.ts over the       *)
(* session table, behind the guard of lib/auth-middleware.ts.              *)
(*                                                                         *)
(* A pair (access token, refresh token) is drawn at random, stored as two  *)
(* hashes and sent to the device once; here a pair is one Token, presented *)
(* in either of its two roles.  Handlers run their statements one by one,  *)
(* each its own READ COMMITTED transaction: a call takes one step per      *)
(* statement, keeps what it has read, and reads the clock when the code    *)
(* does.  A call that dies between two statements, or whose answer never   *)
(* reaches the device, leaves what it wrote.                               *)
(*                                                                         *)
(* An erasure (module Login) is one step here: it deletes the sessions and *)
(* tombstones the account at one commit.  The columns platform, user_agent *)
(* and last_used_at, with the touch that writes the last, are left out: no *)
(* statement of the API decides by them.                                   *)
(***************************************************************************)
EXTENDS Naturals

CONSTANTS
  Session,     \* session rows that can be created
  Account,     \* accounts, all live at the start
  Token,       \* pairs of tokens that can be drawn
  Call,        \* handlers that can run at once
  None,        \* null
  AccessTTL,   \* ACCESS_TOKEN_TTL_MS
  RefreshTTL,  \* REFRESH_TOKEN_TTL_MS
  Retention,   \* ENDED_SESSION_RETENTION_MS
  MaxTime      \* bound of the clock

ASSUME SessionsAssumption ==
  /\ AccessTTL \in Nat /\ RefreshTTL \in Nat /\ Retention \in Nat
  /\ MaxTime \in Nat
  /\ None \notin Session \cup Account \cup Token \cup Call \cup Nat

VARIABLES
  now,      \* the clock
  account,  \* accounts: in order, sanctioned (on the row or its identity), erased
  session,  \* session rows
  drawn,    \* the session each pair was drawn for
  handed,   \* pairs that reached a device
  spent,    \* pairs a rotation has retired: the history of the table
  call      \* the handlers in flight and what each has read so far

vars == <<now, account, session, drawn, handed, spent, call>>

SessionRows ==
  [row: {"unused", "open", "gone"}, account: Account \cup {None},
   live: Token \cup {None}, retired: Token \cup {None},
   createdAt: Nat, accessExpiresAt: Nat, expiresAt: Nat,
   revokedAt: Nat \cup {None}]

\* The guarded routes that end sessions.
Routes == {"logout", "logout-all", "delete"}

CallRecords ==
  [pc: {"idle", "insert", "answer", "rotate", "findRetired", "revoke",
        "refused", "admit", "act"},
   at: Nat, token: Token \cup {None}, session: Session \cup {None},
   account: Account \cup {None}, until: Nat, route: Routes \cup {None}]

Idle ==
  [pc |-> "idle", at |-> 0, token |-> None, session |-> None,
   account |-> None, until |-> 0, route |-> None]

TypeOK ==
  /\ now \in Nat
  /\ account \in [Account -> {"ok", "sanctioned", "deleted"}]
  /\ session \in [Session -> SessionRows]
  /\ drawn \in [Token -> Session \cup {None}]
  /\ handed \subseteq Token /\ spent \subseteq Token
  /\ call \in [Call -> CallRecords]

Init ==
  /\ now = 0
  /\ account = [x \in Account |-> "ok"]
  /\ session = [s \in Session |->
       [row |-> "unused", account |-> None, live |-> None, retired |-> None,
        createdAt |-> 0, accessExpiresAt |-> 0, expiresAt |-> 0,
        revokedAt |-> None]]
  /\ drawn = [t \in Token |-> None]
  /\ handed = {}
  /\ spent = {}
  /\ call = [c \in Call |-> Idle]

-----------------------------------------------------------------------------
(* Helpers *)

Finish(c) == call' = [call EXCEPT ![c] = Idle]

Go(c, step) == call' = [call EXCEPT ![c].pc = step]

Rows == <<account, session, drawn, handed, spent>>

Open(s) == session[s].row = "open"

\* A row no statement has revoked: WHERE revoked_at IS NULL.
Unended(s) == Open(s) /\ session[s].revokedAt = None

\* SESSION_ALIVE, and the guard's LIVE_STATES with the identity's standing.
Alive(s) == account[session[s].account] = "ok"

Ended(row, at) == [row EXCEPT !.revokedAt = at]

-----------------------------------------------------------------------------
(* POST /auth/exchange, from the consumed code on: issueSession *)

\* insertSession's WHERE EXISTS sees an account that is not erased.
BeginIssue(c, x) ==
  /\ call[c].pc = "idle"
  /\ account[x] # "deleted"
  /\ call' = [call EXCEPT ![c] =
       [Idle EXCEPT !.pc = "insert", !.at = now, !.account = x]]
  /\ UNCHANGED <<now, Rows>>

\* Mutation: the life of the refresh token is counted backwards.
FreshRowBackdated(x, t, at) ==
  [row |-> "open", account |-> x, live |-> t, retired |-> None,
   createdAt |-> at, accessExpiresAt |-> at + AccessTTL,
   expiresAt |-> at - RefreshTTL, revokedAt |-> None]

FreshRow(x, t, at) ==
  [row |-> "open", account |-> x, live |-> t, retired |-> None,
   createdAt |-> at, accessExpiresAt |-> at + AccessTTL,
   expiresAt |-> at + RefreshTTL, revokedAt |-> None]

\* insertSession's write: a pair drawn for a new row.
InsertSession(c, s, t) ==
  /\ call[c].pc = "insert"
  /\ session[s].row = "unused"
  /\ drawn[t] = None
  /\ session' = [session EXCEPT ![s] = FreshRow(call[c].account, t, call[c].at)]
  /\ drawn' = [drawn EXCEPT ![t] = s]
  /\ call' = [call EXCEPT ![c].pc = "answer", ![c].token = t]
  /\ UNCHANGED <<now, account, handed, spent>>

\* The response with the new pair reaches the device.
Answer(c) ==
  /\ call[c].pc = "answer"
  /\ handed' = handed \cup {call[c].token}
  /\ Finish(c)
  /\ UNCHANGED <<now, account, session, drawn, spent>>

-----------------------------------------------------------------------------
(* POST /auth/refresh: refreshSession *)

\* Whoever holds a pair presents its refresh token, live or retired long ago.
BeginRefresh(c, t) ==
  /\ call[c].pc = "idle"
  /\ t \in handed
  /\ call' = [call EXCEPT ![c] =
       [Idle EXCEPT !.pc = "rotate", !.at = now, !.token = t]]
  /\ UNCHANGED <<now, Rows>>

\* Mutation: the retired hash rotates too.
RotatableByEither(s, t, at) ==
  /\ Unended(s)
  /\ session[s].live = t \/ session[s].retired = t
  /\ session[s].expiresAt > at
  /\ Alive(s)

\* rotateSession's WHERE clause.
Rotatable(s, t, at) ==
  /\ Unended(s)
  /\ session[s].live = t
  /\ session[s].expiresAt > at
  /\ Alive(s)

\* rotateSession: the presented pair is retired for a new one, in place.
Rotate(c, s, next) ==
  LET t == call[c].token IN
  /\ call[c].pc = "rotate"
  /\ Rotatable(s, t, call[c].at)
  /\ drawn[next] = None
  /\ session' = [session EXCEPT ![s].live = next, ![s].retired = t,
                                ![s].accessExpiresAt = call[c].at + AccessTTL]
  /\ drawn' = [drawn EXCEPT ![next] = s]
  /\ spent' = spent \cup {t}
  /\ call' = [call EXCEPT ![c].pc = "answer", ![c].token = next]
  /\ UNCHANGED <<now, account, handed>>

RotateRefused(c) ==
  /\ call[c].pc = "rotate"
  /\ \A s \in Session : ~Rotatable(s, call[c].token, call[c].at)
  /\ Go(c, "findRetired")
  /\ UNCHANGED <<now, Rows>>

\* Mutation: the live hash is looked for among the retired ones.
ReusedOrLive(s, t) == Unended(s) /\ (session[s].retired = t \/ session[s].live = t)

\* Mutation: the row is ended only if something has ended it already.
ReusedUnlessEnded(s, t) ==
  Open(s) /\ session[s].revokedAt # None /\ session[s].retired = t

\* The row findSessionByRetiredRefreshHash answers, if it still has to be ended.
Reused(s, t) == Unended(s) /\ session[s].retired = t

\* With nothing to end the answer is session_revoked all the same.
FindRetired(c) ==
  /\ call[c].pc = "findRetired"
  /\ \/ \E s \in Session :
          /\ Reused(s, call[c].token)
          /\ call' = [call EXCEPT ![c].pc = "revoke", ![c].session = s]
     \/ /\ \A s \in Session : ~Reused(s, call[c].token)
        /\ Go(c, "refused")
  /\ UNCHANGED <<now, Rows>>

\* revokeSession, "refresh_reuse": by id, if nothing has ended it since.
RevokeReused(c) ==
  LET s == call[c].session IN
  /\ call[c].pc = "revoke"
  /\ session' = IF Unended(s)
                THEN [session EXCEPT ![s] = Ended(@, call[c].at)] ELSE session
  /\ Go(c, "refused")
  /\ UNCHANGED <<now, account, drawn, handed, spent>>

\* The device learns that its token is no good.
AnswerRefused(c) ==
  /\ call[c].pc = "refused"
  /\ Finish(c)
  /\ UNCHANGED <<now, Rows>>

-----------------------------------------------------------------------------
(* Requests behind requireSession *)

\* Mutation: the access token's own expiry only.
AnswersUntilAccessExpires(s) == session[s].accessExpiresAt

\* findSessionByAccessHash: the session, and when its access token stops
\* answering, which is never later than its refresh token does.
AnswersUntil(s) ==
  IF session[s].accessExpiresAt < session[s].expiresAt
  THEN session[s].accessExpiresAt ELSE session[s].expiresAt

\* The lookup by the access token; a refusal at this point writes nothing.
Lookup(c, s, route) ==
  /\ call[c].pc = "idle"
  /\ session[s].live \in handed
  /\ Unended(s) /\ Alive(s)
  /\ call' = [call EXCEPT ![c] =
       [Idle EXCEPT !.pc = "admit", !.token = session[s].live, !.session = s,
                    !.account = session[s].account, !.until = AnswersUntil(s),
                    !.route = route]]
  /\ UNCHANGED <<now, Rows>>

\* The guard reads the clock after the lookup and lets the request through.
Admit(c) ==
  /\ call[c].pc = "admit"
  /\ IF call[c].until >= now
     THEN call' = [call EXCEPT ![c].pc = "act", ![c].at = now]
     ELSE Finish(c)
  /\ UNCHANGED <<now, Rows>>

\* endSession: this device; the handler's clock reads between admission and write.
EndSession(c) ==
  LET s == call[c].session IN
  /\ call[c].pc = "act" /\ call[c].route = "logout"
  /\ \E at \in call[c].at .. now :
       session' = IF Unended(s) THEN [session EXCEPT ![s] = Ended(@, at)] ELSE session
  /\ Finish(c)
  /\ UNCHANGED <<now, account, drawn, handed, spent>>

\* endAllSessions: every device of the account.
EndAllSessions(c) ==
  /\ call[c].pc = "act" /\ call[c].route = "logout-all"
  /\ \E at \in call[c].at .. now :
       session' = [s \in Session |->
         IF Unended(s) /\ session[s].account = call[c].account
         THEN Ended(session[s], at) ELSE session[s]]
  /\ Finish(c)
  /\ UNCHANGED <<now, account, drawn, handed, spent>>

\* eraseAccount: every session row of the account goes, under its lock.
EraseAccount(c) ==
  /\ call[c].pc = "act" /\ call[c].route = "delete"
  /\ account[call[c].account] # "deleted"
  /\ account' = [account EXCEPT ![call[c].account] = "deleted"]
  /\ session' = [s \in Session |->
       IF Open(s) /\ session[s].account = call[c].account
       THEN [session[s] EXCEPT !.row = "gone"] ELSE session[s]]
  /\ Finish(c)
  /\ UNCHANGED <<now, drawn, handed, spent>>

-----------------------------------------------------------------------------
(* The nightly sweep, failures, staff and time *)

\* deleteDeadSessions: ended longer than its retention, expired, or erased.
Dead(s) ==
  /\ Open(s)
  /\ \/ /\ session[s].revokedAt # None
        /\ session[s].revokedAt + Retention < now
     \/ session[s].expiresAt < now
     \/ account[session[s].account] = "deleted"

SweepSessions ==
  /\ \E s \in Session : Dead(s)
  /\ session' = [s \in Session |->
       IF Dead(s) THEN [session[s] EXCEPT !.row = "gone"] ELSE session[s]]
  /\ UNCHANGED <<now, account, drawn, handed, spent, call>>

\* A handler dies, its answer is lost, or it was a request that ends nothing.
Crash(c) ==
  /\ call[c].pc # "idle"
  /\ Finish(c)
  /\ UNCHANGED <<now, Rows>>

\* Staff suspend or ban: columns no code of the API writes.
Sanction(x) ==
  /\ account[x] = "ok"
  /\ account' = [account EXCEPT ![x] = "sanctioned"]
  /\ UNCHANGED <<now, session, drawn, handed, spent, call>>

Tick ==
  /\ now < MaxTime
  /\ now' = now + 1
  /\ UNCHANGED <<Rows, call>>

-----------------------------------------------------------------------------

Issue(c) ==
  \/ \E x \in Account : BeginIssue(c, x)
  \/ \E s \in Session, t \in Token : InsertSession(c, s, t)
  \/ Answer(c)

Refresh(c) ==
  \/ \E t \in Token : BeginRefresh(c, t)
  \/ \E s \in Session, next \in Token : Rotate(c, s, next)
  \/ RotateRefused(c) \/ FindRetired(c) \/ RevokeReused(c) \/ AnswerRefused(c)

Request(c) ==
  \/ \E s \in Session, route \in Routes : Lookup(c, s, route)
  \/ Admit(c) \/ EndSession(c) \/ EndAllSessions(c) \/ EraseAccount(c)

Next ==
  \/ \E c \in Call : Issue(c) \/ Refresh(c) \/ Request(c) \/ Crash(c)
  \/ SweepSessions
  \/ \E x \in Account : Sanction(x)
  \/ Tick

Spec == Init /\ [][Next]_vars

-----------------------------------------------------------------------------
(* Properties *)

(***************************************************************************)
(* The table keeps the promise of TokenFamily: the pairs of a session form *)
(* one chain, each is retired by at most one of the refreshes that present *)
(* it, and a session that was revoked, swept or erased never rotates again *)
(* (rotateSession's WHERE clause under any interleaving of refreshes,      *)
(* logouts, erasures and sweeps).                                          *)
(***************************************************************************)
Family == INSTANCE TokenFamily WITH
  Family <- Session,
  state <- [s \in Session |->
    IF session[s].row = "unused" THEN "none"
    ELSE IF Unended(s) THEN "alive" ELSE "ended"],
  live <- [s \in Session |-> session[s].live],
  of <- drawn

RefreshIsAChain == Family!Spec

\* No request is answered with a session older than its refresh life, whatever
\* a last-minute rotation wrote into access_expires_at (findSessionByAccessHash).
AnswersWithinLife ==
  \A c \in Call : call[c].pc = "act" =>
    call[c].at <= session[call[c].session].createdAt + RefreshTTL

\* refreshSession never refuses a retired token and lets its session stand,
\* except where a later rotation has already overwritten the retired hash.
ReuseNoticed ==
  [][\A c \in Call, s \in Session :
       /\ call[c].pc # "refused" /\ call'[c].pc = "refused"
       /\ call[c].token \in spent /\ drawn[call[c].token] = s
       => ~Unended(s)' \/ session'[s].retired # call[c].token]_vars

\* A session ends for one of five reasons, each somebody's doing: its refresh
\* life is over, its account is erased, its own device logs out, a device of the
\* account logs out everywhere, or one of its own retired tokens is presented.
\* No logout on one device, no refused refresh and no sweep ends another's.
EndedForAReason ==
  [][\A s \in Session : Unended(s) /\ ~Unended(s)' =>
       \/ session[s].expiresAt < now
       \/ account'[session[s].account] = "deleted"
       \/ \E c \in Call :
            /\ call[c].pc = "act" /\ call[c].route = "logout"
            /\ call[c].session = s
       \/ \E c \in Call :
            /\ call[c].pc = "act" /\ call[c].route = "logout-all"
            /\ call[c].account = session[s].account
       \/ \E c \in Call :
            /\ call[c].pc = "revoke"
            /\ call[c].token \in spent /\ drawn[call[c].token] = s]_vars
=============================================================================
