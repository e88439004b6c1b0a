-------------------------------- MODULE Staff --------------------------------
(***************************************************************************)
(* Staff sessions (apps/api/src/identity/admin-session.ts): the bank login *)
(* of everybody else, marked "admin", resolves to an identity with a role  *)
(* and ends in a session of eight hours without a refresh.  The role is    *)
(* read in the callback, again at the exchange, and by the guard of every  *)
(* request (lib/admin-middleware.ts).  The maintainer grants and revokes   *)
(* roles with a command of their own (packages/db/src/cli/moderator.ts),   *)
(* whose revocation is two statements without a transaction.               *)
(*                                                                         *)
(* Every statement is a step.  What the bank answers is a choice.  The     *)
(* identity's standing is left out: nothing in the repository changes it.  *)
(***************************************************************************)
EXTENDS Naturals, FiniteSets

CONSTANTS Identity, Attempt, Code, Session, Handler, None,
          AttemptTTL,   \* ten minutes, in ticks
          CodeTTL,      \* a minute
          SessionTTL,   \* eight hours
          MaxTime,      \* bound: ticks
          MaxGrants     \* bound: grants after the first

Roles == {"moderator", "researcher"}

\* Lifetimes are numbers, and None is no value.
StaffAssumption ==
  /\ {AttemptTTL, CodeTTL, SessionTTL, MaxTime, MaxGrants} \subseteq Nat
  /\ None \notin Identity \cup Attempt \cup Code \cup Session \cup Roles

VARIABLES
  now,
  role,        \* moderator_roles: the identity's role, None without a row
  attempt,     \* auth_request rows with platform "admin"
  mailed,      \* for each one-time code drawn, whose callback drew it
  session,     \* admin_session rows
  call,        \* the API's handlers
  cli,         \* the identity whose revocation is half done, or None
  grants,      \* grants made so far
  escaped,     \* history: sessions that a revocation missed, its exchange or itself cut in two
  epoch        \* history: revocations of an identity

vars == <<now, role, attempt, mailed, session, call, cli, grants, escaped, epoch>>

NoAttempt == [is |-> "unused", expiresAt |-> 0, code |-> None, codeExpiresAt |-> 0,
              used |-> FALSE, identity |-> None]
NoSession == [is |-> "unused", identity |-> None, code |-> None, attempt |-> None,
              expiresAt |-> 0, revoked |-> FALSE, epoch |-> 0]
Idle == [pc |-> "idle", attempt |-> None, identity |-> None, code |-> None,
         session |-> None, at |-> 0, epoch |-> 0]

Init ==
  /\ now = 0 /\ grants = 0 /\ cli = None
  /\ role \in [Identity -> Roles \cup {None}]
  /\ attempt = [a \in Attempt |-> NoAttempt]
  /\ mailed = [k \in Code |-> None]
  /\ session = [s \in Session |-> NoSession]
  /\ call = [c \in Handler |-> Idle]
  /\ escaped = {}
  /\ epoch = [i \in Identity |-> 0]

Goto(c, pc) == call' = [call EXCEPT ![c].pc = pc]
Finish(c)   == call' = [call EXCEPT ![c] = Idle]

Tick ==
  /\ now < MaxTime
  /\ now' = now + 1
  /\ UNCHANGED <<role, attempt, mailed, session, call, cli, grants, escaped, epoch>>

-----------------------------------------------------------------------------
(* The login: /admin/auth/start and the callback                           *)

startAdminLogin(a) ==
  /\ attempt[a].is = "unused"
  /\ attempt' = [attempt EXCEPT ![a] = [NoAttempt EXCEPT !.is = "row", !.expiresAt = now + AttemptTTL]]
  /\ UNCHANGED <<now, role, mailed, session, call, cli, grants, escaped, epoch>>

Completable(a) ==
  /\ attempt[a].is = "row" /\ attempt[a].code = None
  /\ attempt[a].expiresAt > now

\* The bank's answer is bound to the attempt's state, and the person is somebody.
BeginCallback(c, a, i) ==
  /\ call[c] = Idle /\ Completable(a)
  /\ call' = [call EXCEPT ![c] =
       [Idle EXCEPT !.pc = "allow", !.attempt = a, !.identity = i, !.at = now]]
  /\ UNCHANGED <<now, role, attempt, mailed, session, cli, grants, escaped, epoch>>

\* findIdentityByHmac and findModeratorRole; whoever cancelled ends like whoever has no role.
AllowStaff(c) ==
  /\ call[c].pc = "allow"
  /\ IF role[call[c].identity] # None THEN Goto(c, "attach") ELSE Goto(c, "expire")
  /\ UNCHANGED <<now, role, attempt, mailed, session, cli, grants, escaped, epoch>>

BankDenies(c) ==
  /\ call[c].pc = "allow"
  /\ Goto(c, "expire")
  /\ UNCHANGED <<now, role, attempt, mailed, session, cli, grants, escaped, epoch>>

\* expireAuthRequest: the attempt is spent.
expireAuthRequest(c) ==
  /\ call[c].pc = "expire"
  /\ attempt' = [attempt EXCEPT ![call[c].attempt].expiresAt = call[c].at]
  /\ Finish(c)
  /\ UNCHANGED <<now, role, mailed, session, cli, grants, escaped, epoch>>

\* Mutation: the attempt does not keep for whom its code is.
attachAdminCodeOnly(c) ==
  /\ call[c].pc = "attach"
  /\ \E k \in Code :
       /\ mailed[k] = None
       /\ mailed' = [mailed EXCEPT ![k] = call[c].identity]
       /\ attempt' = [attempt EXCEPT ![call[c].attempt].code = k,
                                     ![call[c].attempt].codeExpiresAt = call[c].at + CodeTTL]
  /\ Finish(c)
  /\ UNCHANGED <<now, role, session, cli, grants, escaped, epoch>>

\* Whatever code the attempt carried before, this one replaces it.
attachAdminCode(c) ==
  /\ call[c].pc = "attach"
  /\ \E k \in Code :
       /\ mailed[k] = None
       /\ mailed' = [mailed EXCEPT ![k] = call[c].identity]
       /\ attempt' = [attempt EXCEPT ![call[c].attempt].code = k,
                                     ![call[c].attempt].codeExpiresAt = call[c].at + CodeTTL,
                                     ![call[c].attempt].identity = call[c].identity]
  /\ Finish(c)
  /\ UNCHANGED <<now, role, session, cli, grants, escaped, epoch>>

-----------------------------------------------------------------------------
(* /admin/auth/exchange                                                    *)

\* findAuthRequestByCodeHash: the row as it is now goes with the handler.
FindCode(c, k) ==
  /\ call[c] = Idle /\ mailed[k] # None
  /\ \E a \in Attempt :
       /\ attempt[a].code = k
       /\ attempt[a].codeExpiresAt >= now
       /\ call' = [call EXCEPT ![c] = [Idle EXCEPT !.pc = "consume", !.attempt = a,
                     !.identity = attempt[a].identity, !.code = k, !.at = now]]
  /\ UNCHANGED <<now, role, attempt, mailed, session, cli, grants, escaped, epoch>>

Consumable(a) == ~attempt[a].used

consumeCode(c) ==
  /\ call[c].pc = "consume"
  /\ IF Consumable(call[c].attempt)
     THEN /\ attempt' = [attempt EXCEPT ![call[c].attempt].used = TRUE]
          /\ Goto(c, "role")
     ELSE Finish(c) /\ UNCHANGED attempt
  /\ UNCHANGED <<now, role, mailed, session, cli, grants, escaped, epoch>>

RereadRole(c) ==
  /\ call[c].pc = "role"
  /\ IF role[call[c].identity] = None THEN Finish(c)
     ELSE call' = [call EXCEPT ![c].pc = "insert", ![c].epoch = epoch[call[c].identity]]
  /\ UNCHANGED <<now, role, attempt, mailed, session, cli, grants, escaped, epoch>>

SignedIn(c) == call[c].identity

insertAdminSession(c) ==
  /\ call[c].pc = "insert"
  /\ \E s \in Session :
       /\ session[s].is = "unused"
       /\ session' = [session EXCEPT ![s] =
            [is |-> "row", identity |-> SignedIn(c), code |-> call[c].code,
             attempt |-> call[c].attempt, expiresAt |-> call[c].at + SessionTTL,
             revoked |-> FALSE, epoch |-> call[c].epoch]]
       /\ escaped' = IF \/ epoch[call[c].identity] # call[c].epoch
                           \/ cli = call[c].identity
                        THEN escaped \cup {s} ELSE escaped
  /\ Finish(c)
  /\ UNCHANGED <<now, role, attempt, mailed, cli, grants, epoch>>

-----------------------------------------------------------------------------
(* Requests behind the guard                                               *)

Live(s) ==
  /\ session[s].is = "row" /\ ~session[s].revoked
  /\ role[session[s].identity] # None
  /\ session[s].expiresAt >= now

requireAdmin(c, s) ==
  /\ call[c] = Idle /\ Live(s)
  /\ call' = [call EXCEPT ![c] =
       [Idle EXCEPT !.pc = "act", !.identity = session[s].identity, !.session = s]]
  /\ UNCHANGED <<now, role, attempt, mailed, session, cli, grants, escaped, epoch>>

\* whoami, the queue, a decision: what they do is Moderation's.
Act(c) ==
  /\ call[c].pc = "act"
  /\ Finish(c)
  /\ UNCHANGED <<now, role, attempt, mailed, session, cli, grants, escaped, epoch>>

endAdminSession(c) ==
  /\ call[c].pc = "act"
  /\ session' = [session EXCEPT ![call[c].session].revoked = (@ \/ session[call[c].session].is = "row")]
  /\ Finish(c)
  /\ UNCHANGED <<now, role, attempt, mailed, cli, grants, escaped, epoch>>

sweepAdminSessions ==
  /\ \E s \in Session : session[s].is = "row" /\ (session[s].revoked \/ session[s].expiresAt < now)
  /\ session' = [s \in Session |->
       IF session[s].is = "row" /\ (session[s].revoked \/ session[s].expiresAt < now)
       THEN [NoSession EXCEPT !.is = "gone"] ELSE session[s]]
  /\ UNCHANGED <<now, role, attempt, mailed, call, cli, grants, escaped, epoch>>

\* The process dies: a statement under way is rolled back, the code stays used.
Crash(c) ==
  /\ call[c] # Idle
  /\ Finish(c)
  /\ UNCHANGED <<now, role, attempt, mailed, session, cli, grants, escaped, epoch>>

-----------------------------------------------------------------------------
(* The maintainer's command                                                *)

grant(i, r) ==
  /\ cli = None /\ grants < MaxGrants
  /\ role[i] # r
  /\ role' = [role EXCEPT ![i] = r]
  /\ grants' = grants + 1
  /\ UNCHANGED <<now, attempt, mailed, session, call, cli, escaped, epoch>>

revoke(i) ==
  /\ cli = None /\ role[i] # None
  /\ role' = [role EXCEPT ![i] = None]
  /\ cli' = i
  /\ epoch' = [epoch EXCEPT ![i] = @ + 1]
  /\ UNCHANGED <<now, attempt, mailed, session, call, grants, escaped>>

EndedByRevocation(i) == {s \in Session : session[s].is = "row" /\ session[s].identity = i}

RevokeSessions ==
  /\ cli # None
  /\ session' = [s \in Session |->
       IF s \in EndedByRevocation(cli) THEN [session[s] EXCEPT !.revoked = TRUE] ELSE session[s]]
  /\ cli' = None
  /\ UNCHANGED <<now, role, attempt, mailed, call, grants, escaped, epoch>>

\* The command dies between its two statements.
RevokeDies ==
  /\ cli # None
  /\ escaped' = escaped \cup {s \in Session : session[s].is = "row" /\ session[s].identity = cli}
  /\ cli' = None
  /\ UNCHANGED <<now, role, attempt, mailed, session, call, grants, epoch>>

-----------------------------------------------------------------------------
Next ==
  \/ Tick \/ sweepAdminSessions \/ RevokeSessions \/ RevokeDies
  \/ \E a \in Attempt : startAdminLogin(a)
  \/ \E i \in Identity : \/ \E r \in Roles : grant(i, r)
                         \/ revoke(i)
  \/ \E c \in Handler :
       \/ \E a \in Attempt, i \in Identity : BeginCallback(c, a, i)
       \/ AllowStaff(c) \/ BankDenies(c) \/ expireAuthRequest(c) \/ attachAdminCode(c)
       \/ \E k \in Code : FindCode(c, k)
       \/ consumeCode(c) \/ RereadRole(c) \/ insertAdminSession(c)
       \/ \E s \in Session : requireAdmin(c, s)
       \/ Act(c) \/ endAdminSession(c) \/ Crash(c)

Spec == Init /\ [][Next]_vars

-----------------------------------------------------------------------------
TypeOK ==
  /\ now \in 0 .. MaxTime /\ grants \in 0 .. MaxGrants
  /\ role \in [Identity -> Roles \cup {None}]
  /\ mailed \in [Code -> Identity \cup {None}]
  /\ cli \in Identity \cup {None} /\ escaped \subseteq Session
  /\ \A a \in Attempt : attempt[a].code # None => attempt[a].identity = mailed[attempt[a].code]
  /\ \A s \in Session : session[s].is = "row" => session[s].identity \in Identity
  /\ \A c \in Handler :
       /\ call[c].pc \in {"idle", "allow", "attach", "expire", "consume", "role", "insert", "act"}
       /\ call[c].pc # "idle" => call[c].identity \in Identity

\* However many callbacks and exchanges of one staff attempt run at once
\* (attachAdminCode overwrites, consumeCode names the row and not the code), it
\* opens one session at most, for the person whose own callback drew the code.
OneStaffSessionPerLogin ==
  \A s \in Session : session[s].is = "row" =>
    /\ session[s].identity = mailed[session[s].code]
    /\ \A t \in Session \ {s} : session[t].is = "row" => session[t].attempt # session[s].attempt

\* A role that was taken away and granted again opens no session of before:
\* "the rows go too" (moderator.ts), except for a session whose exchange had
\* read the role before it went and was written after, and when the command
\* died between its two statements.
RevocationEndsSessions ==
  \A s \in Session \ escaped :
    session[s].is = "row" /\ ~session[s].revoked /\ cli # session[s].identity =>
      session[s].epoch = epoch[session[s].identity]
=============================================================================
