------------------------------- MODULE Login -------------------------------
(***************************************************************************)
(* The bank login of apps/api/src/identity: /auth/start, /auth/callback,   *)
(* /auth/exchange and POST /account/delete over the rows they share        *)
(* (identity, account, auth_request, session), with the nightly sweep.     *)
(*                                                                         *)
(* Every handler runs its statements one by one on a connection pool, each *)
(* statement its own READ COMMITTED transaction; only the erasure opens a  *)
(* transaction.  So a call of the model takes one step per statement and   *)
(* keeps what it has read in its own record, where it may go stale.  A     *)
(* statement that looks the account up and then writes a row referencing   *)
(* it takes two steps: the snapshot its WHERE EXISTS reads, and the write, *)
(* which the foreign key's KEY SHARE lock holds back while an erasure has  *)
(* the account row FOR UPDATE.  updateBrokerReference writes no column a   *)
(* property reads and is left out.                                         *)
(***************************************************************************)
EXTENDS Registration, FiniteSets

CONSTANTS
  Person,      \* people a bank can identify
  Attempt,     \* auth_request rows, one per /auth/start
  Account,     \* account rows that can be created
  Code,        \* one-time codes
  Session,     \* session rows that can be created
  Call,        \* handlers that can run at once
  None,        \* null
  RequestTTL,  \* AUTH_REQUEST_TTL_MS
  CodeTTL,     \* ONE_TIME_CODE_TTL_MS
  MaxTime,     \* bound of the clock
  MaxRefused   \* the refused_attempts counter saturates here

ASSUME LoginAssumption ==
  /\ RequestTTL \in Nat /\ CodeTTL \in Nat
  /\ MaxTime \in Nat /\ MaxRefused \in Nat
  /\ IsFiniteSet(Account)
  /\ None \notin Person \cup Attempt \cup Account \cup Code \cup Session \cup Call

VARIABLES
  now,       \* the clock every handler reads once, at its start
  identity,  \* identity rows, by the person whose HMAC they carry
  account,   \* account rows: absent, live, or the tombstone an erasure leaves
  lock,      \* who holds an account row FOR UPDATE
  attempt,   \* auth_request rows
  mailed,    \* one-time codes sent to an app: the attempt and the person of the login
  session,   \* session rows
  call       \* the handlers in flight and what each has read so far

vars == <<now, identity, account, lock, attempt, mailed, session, call>>

CallbackSteps ==
  {"find", "bank", "identity", "account", "refuse", "insertIdentity",
   "insertAccount", "attach", "attaching"}
ExchangeSteps == {"findCode", "consume", "issue", "inserting"}
EraseSteps == {"lock", "erasing"}

AccountRows == [state: {"absent", "live", "deleted"}, person: Person \cup {None}]

AttemptRows ==
  [row: {"unused", "open", "gone"}, expiresAt: Nat, code: Code \cup {None},
   codeExpiresAt: Nat, used: BOOLEAN, account: Account \cup {None},
   cancelled: BOOLEAN]

MailedCodes == [attempt: Attempt \cup {None}, person: Person \cup {None}]

SessionRows ==
  [row: {"unused", "open", "gone"}, account: Account \cup {None},
   code: Code \cup {None}, attempt: Attempt \cup {None}]

CallRecords ==
  [pc: {"idle"} \cup CallbackSteps \cup ExchangeSteps \cup EraseSteps,
   at: Nat, attempt: Attempt \cup {None}, person: Person \cup {None},
   seen: IdentityRows, account: Account \cup {None}, code: Code \cup {None},
   retried: BOOLEAN, tries: {0, 1}, afterCancel: BOOLEAN]

Idle ==
  [pc |-> "idle", at |-> 0, attempt |-> None, person |-> None,
   seen |-> NoIdentity, account |-> None, code |-> None,
   retried |-> FALSE, tries |-> 0, afterCancel |-> FALSE]

TypeOK ==
  /\ now \in Nat
  /\ identity \in [Person -> IdentityRows]
  /\ account \in [Account -> AccountRows]
  /\ lock \in [Account -> Call \cup {None}]
  /\ attempt \in [Attempt -> AttemptRows]
  /\ mailed \in [Code -> MailedCodes]
  /\ session \in [Session -> SessionRows]
  /\ call \in [Call -> CallRecords]

Init ==
  /\ now = 0
  /\ identity = [p \in Person |-> NoIdentity]
  /\ account = [x \in Account |-> [state |-> "absent", person |-> None]]
  /\ lock = [x \in Account |-> None]
  /\ attempt = [a \in Attempt |->
       [row |-> "unused", expiresAt |-> 0, code |-> None, codeExpiresAt |-> 0,
        used |-> FALSE, account |-> None, cancelled |-> FALSE]]
  /\ mailed = [k \in Code |-> [attempt |-> None, person |-> None]]
  /\ session = [s \in Session |->
       [row |-> "unused", account |-> None, code |-> None, attempt |-> None]]
  /\ call = [c \in Call |-> Idle]

-----------------------------------------------------------------------------
(* Helpers *)

Live(x) == account[x].state = "live"

LiveAccountsOf(p) == {x \in Account : Live(x) /\ account[x].person = p}

\* The handler answers, or throws: nothing of what it read outlives it.
Finish(c) == call' = [call EXCEPT ![c] = Idle]

Go(c, step) == call' = [call EXCEPT ![c].pc = step]

Rows == <<identity, account, lock, attempt, mailed, session>>

\* Bounds: a handler starts only while the instance still has a fresh row for it
\* and for every other handler of its kind in flight.
InFlight(steps) == Cardinality({c \in Call : call[c].pc \in steps})

RoomForCallback ==
  /\ InFlight(CallbackSteps) < Cardinality({k \in Code : mailed[k].attempt = None})
  /\ InFlight(CallbackSteps) < Cardinality({x \in Account : account[x].state = "absent"})

RoomForExchange ==
  InFlight(ExchangeSteps) < Cardinality({s \in Session : session[s].row = "unused"})

-----------------------------------------------------------------------------
(* /auth/start *)

\* startLogin: remember the attempt with its deadline.
StartLogin(a) ==
  /\ attempt[a].row = "unused"
  /\ attempt' = [attempt EXCEPT ![a].row = "open", ![a].expiresAt = now + RequestTTL]
  /\ UNCHANGED <<now, identity, account, lock, mailed, session, call>>

-----------------------------------------------------------------------------
(* /auth/callback *)

\* The browser returns with a state /auth/start gave out.
BeginCallback(c, a) ==
  /\ call[c].pc = "idle" /\ RoomForCallback
  /\ attempt[a].row # "unused"
  /\ call' = [call EXCEPT ![c] =
       [Idle EXCEPT !.pc = "find", !.at = now, !.attempt = a,
                    !.afterCancel = attempt[a].cancelled]]
  /\ UNCHANGED <<now, Rows>>

\* Mutation: a deadline that is now still counts as ahead.
CompletableAtDeadline(a, t) ==
  /\ attempt[a].row = "open"
  /\ attempt[a].code = None
  /\ attempt[a].expiresAt >= t

\* completeLogin goes on for a known attempt without a code, before its deadline.
Completable(a, t) ==
  /\ attempt[a].row = "open"
  /\ attempt[a].code = None
  /\ attempt[a].expiresAt > t

FindAttempt(c) ==
  /\ call[c].pc = "find"
  /\ IF Completable(call[c].attempt, call[c].at) THEN Go(c, "bank") ELSE Finish(c)
  /\ UNCHANGED <<now, Rows>>

\* What expireAuthRequest leaves: the deadline is the moment of the cancellation.
Expired(row, at) == [row EXCEPT !.expiresAt = at, !.cancelled = TRUE]

\* The person backed out at the bank (access_denied): the attempt is over.
BankDenies(c) ==
  LET a == call[c].attempt IN
  /\ call[c].pc = "bank"
  /\ attempt' = IF attempt[a].row = "open"
                THEN [attempt EXCEPT ![a] = Expired(@, call[c].at)]
                ELSE attempt
  /\ Finish(c)
  /\ UNCHANGED <<now, identity, account, lock, mailed, session>>

\* The broker failed, or the person is under age: nothing is written.
BankFails(c) ==
  /\ call[c].pc = "bank"
  /\ Finish(c)
  /\ UNCHANGED <<now, Rows>>

BankIdentifies(c, p) ==
  /\ call[c].pc = "bank"
  /\ call' = [call EXCEPT ![c].pc = "identity", ![c].person = p]
  /\ UNCHANGED <<now, Rows>>

\* resolveAccount, first read: the identity row, if any.
ReadIdentity(c) ==
  LET row == identity[call[c].person] IN
  /\ call[c].pc = "identity"
  /\ call' = [call EXCEPT ![c].seen = row,
                          ![c].pc = IF row.known THEN "account" ELSE "insertIdentity"]
  /\ UNCHANGED <<now, Rows>>

\* resolveAccount, second read and decision: the identity as read before, the
\* live account as it is now.
ReadAccount(c) ==
  LET live == LiveAccountsOf(call[c].person)
      decision == decideRegistration(call[c].seen, live # {}, call[c].at)
  IN
  /\ call[c].pc = "account"
  /\ \/ /\ decision = "refuse"
        /\ Go(c, "refuse")
     \/ /\ decision = "create_account"
        /\ Go(c, "insertAccount")
     \/ /\ decision = "resume"
        /\ \E x \in live :
             call' = [call EXCEPT ![c].pc = "attach", ![c].account = x]
  /\ UNCHANGED <<now, Rows>>

\* countRefusedAttempt, then auth_banned, auth_suspended or auth_cooldown.
CountRefused(c) ==
  /\ call[c].pc = "refuse"
  /\ identity' = [identity EXCEPT ![call[c].person].refused =
                    IF @ < MaxRefused THEN @ + 1 ELSE @]
  /\ Finish(c)
  /\ UNCHANGED <<now, account, lock, attempt, mailed, session>>

\* insertIdentity, ON CONFLICT DO NOTHING: the loser decides once more.  It
\* cannot lose twice, an identity row is never deleted.
InsertIdentity(c) ==
  LET p == call[c].person IN
  /\ call[c].pc = "insertIdentity"
  /\ IF identity[p].known
     THEN /\ ~call[c].retried
          /\ call' = [call EXCEPT ![c].pc = "identity", ![c].retried = TRUE]
          /\ UNCHANGED identity
     ELSE /\ identity' = [identity EXCEPT ![p] = FreshIdentity]
          /\ Go(c, "insertAccount")
  /\ UNCHANGED <<now, account, lock, attempt, mailed, session>>

\* Mutation: no unique index under insertAccount.
InsertAccountUnindexed(c, x) ==
  LET p == call[c].person IN
  /\ call[c].pc = "insertAccount"
  /\ account[x].state = "absent"
  /\ account' = [account EXCEPT ![x] = [state |-> "live", person |-> p]]
  /\ call' = [call EXCEPT ![c].pc = "attach", ![c].account = x]
  /\ UNCHANGED <<now, identity, lock, attempt, mailed, session>>

\* insertAccount under the partial unique index: one live account per identity.
InsertAccount(c, x) ==
  LET p == call[c].person IN
  /\ call[c].pc = "insertAccount"
  /\ LiveAccountsOf(p) = {}
  /\ account[x].state = "absent"
  /\ account' = [account EXCEPT ![x] = [state |-> "live", person |-> p]]
  /\ call' = [call EXCEPT ![c].pc = "attach", ![c].account = x]
  /\ UNCHANGED <<now, identity, lock, attempt, mailed, session>>

\* The index refuses the row: the unique violation surfaces as an error.
AccountTaken(c) ==
  /\ call[c].pc = "insertAccount"
  /\ LiveAccountsOf(call[c].person) # {}
  /\ Finish(c)
  /\ UNCHANGED <<now, Rows>>

\* attachCode's WHERE EXISTS, as of the statement's snapshot.
CheckAttach(c) ==
  /\ call[c].pc = "attach"
  /\ attempt[call[c].attempt].row = "open"
  /\ Live(call[c].account)
  /\ Go(c, "attaching")
  /\ UNCHANGED <<now, Rows>>

\* What attachCode writes.
Attached(row, k, at, x) ==
  [row EXCEPT !.code = k, !.codeExpiresAt = at + CodeTTL, !.account = x]

\* attachCode's write, once the account row is free; an update that leaves
\* account_id as it was checks no foreign key and does not wait.  The browser
\* leaves with the code.
AttachCode(c, k) ==
  LET a == call[c].attempt
      x == call[c].account
  IN
  /\ call[c].pc = "attaching"
  /\ attempt[a].row = "open"
  /\ lock[x] = None \/ attempt[a].account = x
  /\ mailed[k].attempt = None
  /\ attempt' = [attempt EXCEPT ![a] = Attached(@, k, call[c].at, x)]
  /\ mailed' = [mailed EXCEPT ![k] = [attempt |-> a, person |-> call[c].person]]
  /\ Finish(c)
  /\ UNCHANGED <<now, identity, account, lock, session>>

\* Mutation: resolve again as often as the attach writes nothing.
AttachRetriedForEver(c) ==
  LET gone == attempt[call[c].attempt].row # "open" IN
  /\ \/ call[c].pc = "attach" /\ (gone \/ ~Live(call[c].account))
     \/ call[c].pc = "attaching" /\ gone
  /\ call' = [call EXCEPT ![c].pc = "identity", ![c].tries = 1,
                          ![c].account = None, ![c].retried = FALSE]
  /\ UNCHANGED <<now, Rows>>

\* attachCode wrote nothing: resolve once more, then give up.
AttachRefused(c) ==
  LET gone == attempt[call[c].attempt].row # "open" IN
  /\ \/ call[c].pc = "attach" /\ (gone \/ ~Live(call[c].account))
     \/ call[c].pc = "attaching" /\ gone
  /\ IF call[c].tries = 0
     THEN call' = [call EXCEPT ![c].pc = "identity", ![c].tries = 1,
                               ![c].account = None, ![c].retried = FALSE]
     ELSE Finish(c)
  /\ UNCHANGED <<now, Rows>>

-----------------------------------------------------------------------------
(* /auth/exchange *)

BeginExchange(c, k) ==
  /\ call[c].pc = "idle" /\ RoomForExchange
  /\ mailed[k].attempt # None
  /\ call' = [call EXCEPT ![c] =
       [Idle EXCEPT !.pc = "findCode", !.at = now, !.code = k]]
  /\ UNCHANGED <<now, Rows>>

\* The row a presented code names, within its minute.
Exchangeable(a, k, t) ==
  /\ attempt[a].row = "open"
  /\ attempt[a].code = k
  /\ attempt[a].account # None
  /\ attempt[a].codeExpiresAt >= t

FindCode(c) ==
  /\ call[c].pc = "findCode"
  /\ \/ \E a \in Attempt :
          /\ Exchangeable(a, call[c].code, call[c].at)
          /\ call' = [call EXCEPT ![c].pc = "consume", ![c].attempt = a,
                                  ![c].account = attempt[a].account]
     \/ /\ \A a \in Attempt : ~Exchangeable(a, call[c].code, call[c].at)
        /\ Finish(c)
  /\ UNCHANGED <<now, Rows>>

\* Mutation: consumeCode without "code_used_at IS NULL".
ConsumableAgain(a) == attempt[a].row = "open"

\* consumeCode: the row, by its id, the first time only.
Consumable(a) == attempt[a].row = "open" /\ ~attempt[a].used

ConsumeCode(c) ==
  LET a == call[c].attempt IN
  /\ call[c].pc = "consume"
  /\ IF Consumable(a)
     THEN /\ attempt' = [attempt EXCEPT ![a].used = TRUE]
          /\ Go(c, "issue")
     ELSE /\ Finish(c)
          /\ UNCHANGED attempt
  /\ UNCHANGED <<now, identity, account, lock, mailed, session>>

\* insertSession's WHERE EXISTS, as of the statement's snapshot.
CheckIssue(c) ==
  /\ call[c].pc = "issue"
  /\ IF Live(call[c].account) THEN Go(c, "inserting") ELSE Finish(c)
  /\ UNCHANGED <<now, Rows>>

\* Mutation: the account is read from the login attempt once more.
InsertSessionReread(c, s) ==
  /\ call[c].pc = "inserting"
  /\ lock[call[c].account] = None
  /\ session[s].row = "unused"
  /\ session' = [session EXCEPT ![s] =
       [row |-> "open", account |-> attempt[call[c].attempt].account,
        code |-> call[c].code, attempt |-> call[c].attempt]]
  /\ Finish(c)
  /\ UNCHANGED <<now, identity, account, lock, attempt, mailed>>

\* insertSession's write, once the account row is free.
InsertSession(c, s) ==
  /\ call[c].pc = "inserting"
  /\ lock[call[c].account] = None
  /\ session[s].row = "unused"
  /\ session' = [session EXCEPT ![s] =
       [row |-> "open", account |-> call[c].account, code |-> call[c].code,
        attempt |-> call[c].attempt]]
  /\ Finish(c)
  /\ UNCHANGED <<now, identity, account, lock, attempt, mailed>>

-----------------------------------------------------------------------------
(* POST /account/delete *)

\* requireSession lets a caller through whose account and identity are in order.
Answers(s) ==
  LET x == session[s].account IN
  /\ session[s].row = "open"
  /\ Live(x)
  /\ identity[account[x].person].standing = "ok"

BeginErase(c, s) ==
  /\ call[c].pc = "idle"
  /\ Answers(s)
  /\ call' = [call EXCEPT ![c] =
       [Idle EXCEPT !.pc = "lock", !.at = now, !.account = session[s].account]]
  /\ UNCHANGED <<now, Rows>>

\* lockAccountForErasure waits for the row; a tombstone answers 404 and rolls
\* back.  Under the lock the identity's deletion count is read.
LockAccount(c) ==
  LET x == call[c].account IN
  /\ call[c].pc = "lock"
  /\ lock[x] = None
  /\ IF Live(x)
     THEN /\ lock' = [lock EXCEPT ![x] = c]
          /\ call' = [call EXCEPT ![c].pc = "erasing",
                                  ![c].seen = identity[account[x].person]]
     ELSE /\ Finish(c)
          /\ UNCHANGED lock
  /\ UNCHANGED <<now, identity, account, attempt, mailed, session>>

\* The rest of eraseAccount up to the commit: sessions and login attempts of
\* the account go, the account becomes a tombstone if it still is none, the
\* identity counts it.
CommitErase(c) ==
  LET x == call[c].account IN
  /\ call[c].pc = "erasing"
  /\ Live(x)
  /\ session' = [s \in Session |->
       IF session[s].row = "open" /\ session[s].account = x
       THEN [session[s] EXCEPT !.row = "gone"] ELSE session[s]]
  /\ attempt' = [a \in Attempt |->
       IF attempt[a].row = "open" /\ attempt[a].account = x
       THEN [attempt[a] EXCEPT !.row = "gone"] ELSE attempt[a]]
  /\ account' = [account EXCEPT ![x].state = "deleted"]
  /\ identity' = [identity EXCEPT ![account[x].person] =
       recordDeletion(@, call[c].seen.deletions, call[c].at)]
  /\ lock' = [lock EXCEPT ![x] = None]
  /\ Finish(c)
  /\ UNCHANGED <<now, mailed>>

-----------------------------------------------------------------------------
(* The nightly sweep, failures, staff and time *)

\* Mutation: the sweep's clause on erased accounts is missing.
DeadUnlessErased(s) == session[s].row = "open" /\ session[s].account = None

\* What deleteDeadSessions removes, of sessions still within their life: those
\* of an erased account.
Dead(s) == session[s].row = "open" /\ account[session[s].account].state = "deleted"

SweepSessions ==
  /\ \E s \in Session : Dead(s)
  /\ session' = [s \in Session |->
       IF Dead(s)
       THEN [session[s] EXCEPT !.row = "gone"] ELSE session[s]]
  /\ UNCHANGED <<now, identity, account, lock, attempt, mailed, call>>

\* deleteExpiredAuthRequests: past the deadline, and past the code's if there is one.
Stale(row) ==
  /\ row.row = "open"
  /\ row.expiresAt < now
  /\ row.code = None \/ row.codeExpiresAt < now

SweepAttempts ==
  /\ \E a \in Attempt : Stale(attempt[a])
  /\ attempt' = [a \in Attempt |->
       IF Stale(attempt[a]) THEN [attempt[a] EXCEPT !.row = "gone"] ELSE attempt[a]]
  /\ UNCHANGED <<now, identity, account, lock, mailed, session, call>>

\* A handler dies with its process or its connection: its transaction rolls back.
Crash(c) ==
  /\ call[c].pc # "idle"
  /\ lock' = [x \in Account |-> IF lock[x] = c THEN None ELSE lock[x]]
  /\ Finish(c)
  /\ UNCHANGED <<now, identity, account, attempt, mailed, session>>

\* Staff suspend or ban the person: a column no code of the API writes.
Sanction(p) ==
  /\ identity[p].known
  /\ identity[p].standing = "ok"
  /\ identity' = [identity EXCEPT ![p].standing = "sanctioned"]
  /\ UNCHANGED <<now, account, lock, attempt, mailed, session, call>>

Tick ==
  /\ now < MaxTime
  /\ now' = now + 1
  /\ UNCHANGED <<Rows, call>>

-----------------------------------------------------------------------------

Callback(c) ==
  \/ FindAttempt(c) \/ BankDenies(c) \/ BankFails(c)
  \/ \E p \in Person : BankIdentifies(c, p)
  \/ ReadIdentity(c) \/ ReadAccount(c) \/ CountRefused(c) \/ InsertIdentity(c)
  \/ \E x \in Account : InsertAccount(c, x)
  \/ AccountTaken(c) \/ CheckAttach(c) \/ AttachRefused(c)
  \/ \E k \in Code : AttachCode(c, k)

Exchange(c) ==
  \/ FindCode(c) \/ ConsumeCode(c) \/ CheckIssue(c)
  \/ \E s \in Session : InsertSession(c, s)

Erase(c) == LockAccount(c) \/ CommitErase(c)

\* A handler in flight takes its next statement.
Step(c) == Callback(c) \/ Exchange(c) \/ Erase(c)

Begin(c) ==
  \/ \E a \in Attempt : BeginCallback(c, a)
  \/ \E k \in Code : BeginExchange(c, k)
  \/ \E s \in Session : BeginErase(c, s)

Environment ==
  \/ \E a \in Attempt : StartLogin(a)
  \/ \E p \in Person : Sanction(p)
  \/ \E c \in Call : Crash(c)
  \/ Tick

Next ==
  \/ \E c \in Call : Begin(c) \/ Step(c)
  \/ SweepSessions \/ SweepAttempts
  \/ Environment

\* The statements that wait for a row an erasure holds.
Queued(c) ==
  \/ LockAccount(c)
  \/ \E k \in Code : AttachCode(c, k)
  \/ \E s \in Session : InsertSession(c, s)

\* Statements return, PostgreSQL grants a row lock in the order of the queue, and
\* the night comes.  Nothing is assumed of people, of the clock or of failures.
Fairness ==
  /\ \A c \in Call : WF_vars(Step(c)) /\ SF_vars(Queued(c))
  /\ WF_vars(SweepSessions)

Spec == Init /\ [][Next]_vars /\ Fairness

-----------------------------------------------------------------------------
(* Safety *)

\* An identity has at most one live account, whatever logins of the same
\* person race each other and whatever erasures run between them.
OneLiveAccount ==
  \A x, y \in Account :
    Live(x) /\ Live(y) /\ account[x].person = account[y].person => x = y

\* The identity's deletion_count is the number of tombstones it has: the count
\* read under the account's lock and written back loses no deletion and counts
\* none twice, whatever devices delete at once.
DeletionsCounted ==
  \A p \in Person :
    identity[p].deletions =
      Cardinality({x \in Account : account[x].state = "deleted" /\ account[x].person = p})

\* A login attempt yields at most one session for ever: not by two exchanges of
\* its code, nor by a second callback that writes a new code over a spent one.
OneSessionPerAttempt ==
  \A s, t \in Session :
    session[s].row # "unused" /\ session[t].row # "unused"
      /\ session[s].attempt = session[t].attempt => s = t

\* A session belongs to an account of the person the bank identified in the
\* very callback that mailed the exchanged code, even when another callback of
\* the same attempt has meanwhile put another person's account on the row.
SessionOfTheLogin ==
  \A s \in Session : session[s].row # "unused" =>
    /\ account[session[s].account].person = mailed[session[s].code].person
    /\ session[s].attempt = mailed[session[s].code].attempt

\* A callback that arrives after the person cancelled at the bank never gets
\* past the attempt's check, at whatever instant of the clock it arrives.
CancelledStaysCancelled ==
  \A c \in Call : call[c].afterCancel => call[c].pc \in {"idle", "find"}

\* An account row appears for the person.
Created(p) ==
  \E x \in Account : /\ account[x].state = "absent"
                     /\ account'[x] = [state |-> "live", person |-> p]

Forbidden(p) == identity[p].standing # "ok" \/ CoolingDown(identity[p], now)

\* An account appears for a sanctioned or cooling-down identity only through a
\* login that had read the identity row before the sanction or the erasure was
\* written; every login that reads afterwards is refused.
OnlyStaleReadsSlipThrough ==
  [][\A p \in Person : Created(p) /\ Forbidden(p) =>
       \E c \in Call : /\ call[c].pc = "insertAccount"
                       /\ call[c].person = p
                       /\ call[c].seen # [identity[p] EXCEPT !.refused = call[c].seen.refused]]_vars

(* Liveness *)

\* Every handler comes to an answer: the retries of resolveAccount and of the
\* attach end, and no handler waits for ever behind an erasure's lock.
CallsSettle == \A c \in Call : []<>(call[c].pc = "idle")

\* A session written behind an erasure, by an exchange whose check had already
\* passed, is removed by the nightly sweep.
TombstonesLoseTheirSessions ==
  \A s \in Session :
    []<>~(session[s].row = "open" /\ ~Live(session[s].account))

(* What the documents say and the code does not do *)

\* features/identity/re-registration.feature: inside the thirty days after a
\* deletion, account creation is refused.
NoAccountInsideCooldown ==
  [][\A p \in Person : Created(p) => ~CoolingDown(identity[p], now)]_vars
=============================================================================
