--------------------------- MODULE SessionsProofs ---------------------------
(***************************************************************************)
(* The properties of Sessions hold for any number of sessions, accounts,   *)
(* tokens and handlers and for any lifetimes.  The inductive invariant     *)
(* says what a row in use has in its columns (Kept) and what a handler has *)
(* read and may still rely on (Calls): what it read about a session stays  *)
(* true because rows only grow (Grows).                                    *)
(***************************************************************************)
EXTENDS Sessions, TLAPS

\* What a row has in its columns, and how it agrees with the pairs drawn.
RowKept(s) ==
  /\ session[s].row = "unused" =>
       session[s].live = None /\ session[s].retired = None /\ session[s].revokedAt = None
  /\ session[s].row # "unused" =>
       /\ session[s].account \in Account
       /\ session[s].live \in Token \ spent
       /\ drawn[session[s].live] = s
       /\ session[s].expiresAt = session[s].createdAt + RefreshTTL

\* The last pair retired is one of the session's spent pairs.
RetiredKept(s) ==
  session[s].retired # None =>
    session[s].retired \in spent /\ drawn[session[s].retired] = s

Types ==
  /\ account \in [Account -> {"ok", "sanctioned", "deleted"}]
  /\ session \in [Session -> SessionRows]
  /\ drawn \in [Token -> Session \cup {None}]
  /\ handed \subseteq Token /\ spent \subseteq Token

Chained ==
  /\ \A s \in Session : RowKept(s) /\ RetiredKept(s)
  /\ \A t \in handed \cup spent : drawn[t] \in Session

Kept == Types /\ Chained

\* What the statements a handler has run have given it.
Ready(r) ==
  /\ r.pc = "insert" => r.account \in Account
  /\ r.pc \in {"answer", "rotate", "findRetired", "revoke", "refused"} =>
       r.token \in Token /\ drawn[r.token] \in Session
  /\ r.pc = "revoke" =>
       r.session \in Session /\ drawn[r.token] = r.session /\ r.token \in spent
  /\ r.pc \in {"admit", "act"} =>
       /\ r.session \in Session
       /\ session[r.session].row # "unused"
       /\ r.account = session[r.session].account
  /\ r.pc = "admit" => r.until <= session[r.session].expiresAt
  /\ r.pc = "act" => r.at <= session[r.session].expiresAt

Calls ==
  /\ now \in Nat
  /\ call \in [Call -> CallRecords]
  /\ \A c \in Call : Ready(call[c])

Inv == Kept /\ Calls

-----------------------------------------------------------------------------
(* How the table changes *)

\* What no step takes back.
Grows ==
  /\ \A t \in Token : drawn[t] \in Session => drawn'[t] = drawn[t]
  /\ spent \subseteq spent'
  /\ \A s \in Session : session[s].row # "unused" =>
       /\ session'[s].row # "unused"
       /\ session'[s].account = session[s].account
       /\ session'[s].expiresAt = session[s].expiresAt

\* A row is revoked, or leaves the table.
EndsRow(s) ==
  \/ session'[s] = session[s]
  \/ Open(s) /\ \E at \in Nat : session'[s] = Ended(session[s], at)
  \/ Open(s) /\ session'[s] = [session[s] EXCEPT !.row = "gone"]

Ending ==
  /\ \E f \in [Session -> SessionRows] : session' = f
  /\ \A s \in Session : EndsRow(s)
  /\ UNCHANGED <<drawn, handed, spent>>

LEMMA EndedRow ==
  ASSUME NEW row \in SessionRows, NEW at \in Nat
  PROVE  /\ Ended(row, at) \in SessionRows
         /\ [row EXCEPT !.row = "gone"] \in SessionRows
<1>1. Ended(row, at) \in SessionRows
  BY DEF Ended, SessionRows
<1>2. [row EXCEPT !.row = "gone"] \in SessionRows
  BY DEF SessionRows
<1> QED BY <1>1, <1>2

\* An ending row keeps every column but the mark of its end.
LEMMA EndsRowColumns ==
  ASSUME Types, NEW s \in Session, EndsRow(s)
  PROVE  /\ session'[s].account = session[s].account
         /\ session'[s].live = session[s].live
         /\ session'[s].retired = session[s].retired
         /\ session'[s].createdAt = session[s].createdAt
         /\ session'[s].expiresAt = session[s].expiresAt
         /\ session[s].row = "unused" => session'[s] = session[s]
         /\ session[s].row # "unused" => session'[s].row # "unused"
<1>t. session[s] \in SessionRows
  BY DEF Types
<1>1. CASE session'[s] = session[s]
  BY <1>1
<1>2. CASE Open(s) /\ \E at \in Nat : session'[s] = Ended(session[s], at)
  BY <1>t, <1>2 DEF Open, Ended, SessionRows
<1>3. CASE Open(s) /\ session'[s] = [session[s] EXCEPT !.row = "gone"]
  BY <1>t, <1>3 DEF Open, SessionRows
<1> QED BY <1>1, <1>2, <1>3 DEF EndsRow

LEMMA EndingKeeps ==
  ASSUME Kept, Ending, account' \in [Account -> {"ok", "sanctioned", "deleted"}]
  PROVE  Kept' /\ Grows
<1>t. Types /\ Chained
  BY DEF Kept
<1>1. Types'
  BY <1>t DEF Ending, Types
<1>2. Grows
  BY <1>t, EndsRowColumns DEF Ending, Grows
<1>3. ASSUME NEW s \in Session
      PROVE  RowKept(s)' /\ RetiredKept(s)'
  <2>1. RowKept(s) /\ RetiredKept(s)
    BY <1>t DEF Chained
  <2> QED BY <1>t, <2>1, EndsRowColumns DEF Ending, RowKept, RetiredKept
<1>4. \A t \in handed' \cup spent' : drawn'[t] \in Session
  BY <1>t DEF Chained, Ending
<1> QED BY <1>1, <1>2, <1>3, <1>4 DEF Kept, Chained

\* Nothing the invariant reads of the table changes.
LEMMA QuietKeeps ==
  ASSUME Kept, UNCHANGED <<session, drawn, spent>>,
         account' \in [Account -> {"ok", "sanctioned", "deleted"}],
         handed' \subseteq Token, \A t \in handed' : drawn[t] \in Session
  PROVE  Kept' /\ Grows
<1>1. Types' /\ Grows
  BY DEF Kept, Types, Grows
<1>2. Chained'
  BY DEF Kept, Chained, RowKept, RetiredKept
<1> QED BY <1>1, <1>2 DEF Kept

LEMMA FreshRowTyped ==
  ASSUME NEW x \in Account, NEW t \in Token, NEW at \in Nat
  PROVE  /\ FreshRow(x, t, at) \in SessionRows
         /\ FreshRow(x, t, at).row = "open" /\ FreshRow(x, t, at).account = x
         /\ FreshRow(x, t, at).live = t /\ FreshRow(x, t, at).retired = None
         /\ FreshRow(x, t, at).revokedAt = None
         /\ FreshRow(x, t, at).expiresAt = FreshRow(x, t, at).createdAt + RefreshTTL
<1> DEFINE a == at + AccessTTL
           e == at + RefreshTTL
<1>1. a \in Nat /\ e \in Nat
  BY SessionsAssumption
<1>2. FreshRow(x, t, at) =
        [row |-> "open", account |-> x, live |-> t, retired |-> None,
         createdAt |-> at, accessExpiresAt |-> a, expiresAt |-> e, revokedAt |-> None]
  BY DEF FreshRow
<1>3. FreshRow(x, t, at).createdAt = at /\ FreshRow(x, t, at).expiresAt = at + RefreshTTL
  BY DEF FreshRow
<1> HIDE DEF a, e
<1>4. FreshRow(x, t, at) \in SessionRows
  BY <1>1, <1>2 DEF SessionRows
<1> QED BY <1>2, <1>3, <1>4

LEMMA InsertKeeps ==
  ASSUME Kept, NEW c \in Call, call[c] \in CallRecords, Ready(call[c]),
         NEW s \in Session, NEW t \in Token, InsertSession(c, s, t)
  PROVE  Kept' /\ Grows
<1> DEFINE row == FreshRow(call[c].account, t, call[c].at)
<1>t. Types /\ Chained
  BY DEF Kept
<1>1. /\ session[s].row = "unused" /\ drawn[t] = None
      /\ session' = [session EXCEPT ![s] = row]
      /\ drawn' = [drawn EXCEPT ![t] = s]
      /\ UNCHANGED <<account, handed, spent>>
  BY DEF InsertSession
<1>2. /\ row \in SessionRows /\ row.row = "open" /\ row.account \in Account
      /\ row.live = t /\ row.retired = None
      /\ row.expiresAt = row.createdAt + RefreshTTL
  <2>1. call[c].account \in Account /\ call[c].at \in Nat
    BY DEF InsertSession, Ready, CallRecords
  <2> QED BY <2>1, FreshRowTyped
<1> HIDE DEF row
<1>3. t \notin spent /\ t \notin handed
  BY <1>t, <1>1, SessionsAssumption DEF Chained, Types
<1>4. Types'
  BY <1>t, <1>1, <1>2 DEF Types
<1>5. \A u \in Token : drawn[u] \in Session => drawn'[u] = drawn[u]
  BY <1>t, <1>1, SessionsAssumption DEF Types
<1>6. \A r \in Session : r # s => session'[r] = session[r]
  BY <1>t, <1>1 DEF Types
<1>7. session'[s] = row /\ drawn'[t] = s
  BY <1>t, <1>1 DEF Types
<1>8. Grows
  BY <1>1, <1>5, <1>6 DEF Grows
<1>9. ASSUME NEW r \in Session
      PROVE  RowKept(r)' /\ RetiredKept(r)'
  <2>1. CASE r = s
    BY <2>1, <1>1, <1>2, <1>3, <1>7 DEF RowKept, RetiredKept
  <2>2. CASE r # s
    <3>1. RowKept(r) /\ RetiredKept(r) /\ session'[r] = session[r]
      BY <2>2, <1>t, <1>6 DEF Chained
    <3>2. RowKept(r)'
      BY <3>1, <1>1, <1>5 DEF RowKept
    <3>3. RetiredKept(r)'
      BY <3>1, <1>t, <1>1, <1>5 DEF RetiredKept, Types
    <3> QED BY <3>2, <3>3
  <2> QED BY <2>1, <2>2
<1>10. \A u \in handed' \cup spent' : drawn'[u] \in Session
  BY <1>t, <1>1, <1>5 DEF Chained, Types
<1> QED BY <1>4, <1>8, <1>9, <1>10 DEF Kept, Chained

LEMMA RotateKeeps ==
  ASSUME Kept, NEW c \in Call, call[c] \in CallRecords, Ready(call[c]),
         NEW s \in Session, NEW next \in Token, Rotate(c, s, next)
  PROVE  Kept' /\ Grows
<1> DEFINE t == call[c].token
           e == call[c].at + AccessTTL
           row == [session[s] EXCEPT !.live = next, !.retired = t, !.accessExpiresAt = e]
<1>t. Types /\ Chained /\ session[s] \in SessionRows
  BY DEF Kept, Types
<1>1. /\ session[s].row = "open" /\ session[s].live = t
      /\ drawn[next] = None
      /\ session' = [session EXCEPT ![s] = row]
      /\ drawn' = [drawn EXCEPT ![next] = s]
      /\ spent' = spent \cup {t}
      /\ UNCHANGED <<account, handed>>
  BY <1>t DEF Rotate, Rotatable, Unended, Open, Types
<1>2. t \in Token /\ t \notin spent /\ drawn[t] = s /\ session[s].account \in Account
  BY <1>t, <1>1 DEF Chained, RowKept
<1>3. e \in Nat
  BY SessionsAssumption DEF CallRecords
<1> HIDE DEF t, e
<1>4. /\ row \in SessionRows /\ row.row = "open" /\ row.account = session[s].account
      /\ row.live = next /\ row.retired = t
      /\ row.createdAt = session[s].createdAt /\ row.expiresAt = session[s].expiresAt
  BY <1>t, <1>1, <1>2, <1>3 DEF SessionRows
<1> HIDE DEF row
<1>5. next \notin spent /\ next \notin handed /\ next # t
  BY <1>t, <1>1, <1>2, SessionsAssumption DEF Chained, Types
<1>6. Types'
  BY <1>t, <1>1, <1>2, <1>4 DEF Types
<1>7. \A u \in Token : drawn[u] \in Session => drawn'[u] = drawn[u]
  BY <1>t, <1>1, SessionsAssumption DEF Types
<1>8. \A r \in Session : r # s => session'[r] = session[r]
  BY <1>t, <1>1 DEF Types
<1>9. session'[s] = row /\ drawn'[next] = s /\ drawn'[t] = s
  BY <1>t, <1>1, <1>2, <1>5 DEF Types
<1>10. Grows
  BY <1>1, <1>4, <1>7, <1>8, <1>9 DEF Grows
<1>11. ASSUME NEW r \in Session
       PROVE  RowKept(r)' /\ RetiredKept(r)'
  <2>1. CASE r = s
    <3>1. RowKept(s)
      BY <1>t DEF Chained
    <3>2. RowKept(s)'
      BY <3>1, <1>1, <1>4, <1>5, <1>9 DEF RowKept
    <3>3. RetiredKept(s)'
      BY <1>1, <1>4, <1>9 DEF RetiredKept
    <3> QED BY <2>1, <3>2, <3>3
  <2>2. CASE r # s
    <3>1. RowKept(r) /\ RetiredKept(r) /\ session'[r] = session[r]
      BY <2>2, <1>t, <1>8 DEF Chained
    <3>2. RowKept(r)'
      BY <2>2, <3>1, <1>1, <1>2, <1>7 DEF RowKept
    <3>3. RetiredKept(r)'
      BY <3>1, <1>t, <1>1, <1>7 DEF RetiredKept, Types
    <3> QED BY <3>2, <3>3
  <2> QED BY <2>1, <2>2
<1>12. \A u \in handed' \cup spent' : drawn'[u] \in Session
  BY <1>t, <1>1, <1>2, <1>7 DEF Chained, Types
<1> QED BY <1>6, <1>10, <1>11, <1>12 DEF Kept, Chained

\* The steps that revoke sessions or take rows out of the table.
LEMMA Endings ==
  ASSUME Kept, now \in Nat, NEW c \in Call, call[c] \in CallRecords,
         RevokeReused(c) \/ EndSession(c) \/ EndAllSessions(c) \/ EraseAccount(c)
  PROVE  Ending /\ account' \in [Account -> {"ok", "sanctioned", "deleted"}]
<1>t. Types /\ \A s \in Session : session[s] \in SessionRows
  BY DEF Kept, Types
<1>1. CASE RevokeReused(c)
  <2> DEFINE at == call[c].at
             f == IF Unended(call[c].session)
                  THEN [session EXCEPT ![call[c].session] = Ended(@, at)] ELSE session
  <2>1. at \in Nat /\ session' = f /\ UNCHANGED <<account, drawn, handed, spent>>
    BY <1>1 DEF RevokeReused, CallRecords
  <2> HIDE DEF at
  <2>2. f \in [Session -> SessionRows]
    BY <1>t, <2>1, EndedRow DEF Types
  <2>3. \A s \in Session : EndsRow(s)
    BY <1>t, <2>1 DEF Types, EndsRow, Unended
  <2> QED BY <1>t, <2>1, <2>2, <2>3 DEF Ending, Types
<1>2. CASE EndSession(c)
  <2>1. PICK at \in call[c].at .. now :
          session' = IF Unended(call[c].session)
                     THEN [session EXCEPT ![call[c].session] = Ended(@, at)] ELSE session
    BY <1>2 DEF EndSession
  <2>2. at \in Nat /\ UNCHANGED <<account, drawn, handed, spent>>
    BY <1>2 DEF EndSession, CallRecords
  <2>3. session' \in [Session -> SessionRows]
    BY <1>t, <2>1, <2>2, EndedRow DEF Types
  <2>4. \A s \in Session : EndsRow(s)
    BY <1>t, <2>1, <2>2 DEF Types, EndsRow, Unended
  <2> QED BY <1>t, <2>2, <2>3, <2>4 DEF Ending, Types
<1>3. CASE EndAllSessions(c)
  <2>1. PICK at \in call[c].at .. now :
          session' = [s \in Session |->
            IF Unended(s) /\ session[s].account = call[c].account
            THEN Ended(session[s], at) ELSE session[s]]
    BY <1>3 DEF EndAllSessions
  <2>2. at \in Nat /\ UNCHANGED <<account, drawn, handed, spent>>
    BY <1>3 DEF EndAllSessions, CallRecords
  <2>3. session' \in [Session -> SessionRows]
    BY <1>t, <2>1, <2>2, EndedRow DEF Types
  <2>4. \A s \in Session : EndsRow(s)
    BY <1>t, <2>1, <2>2 DEF Types, EndsRow, Unended
  <2> QED BY <1>t, <2>2, <2>3, <2>4 DEF Ending, Types
<1>4. CASE EraseAccount(c)
  <2>1. /\ session' = [s \in Session |->
             IF Open(s) /\ session[s].account = call[c].account
             THEN [session[s] EXCEPT !.row = "gone"] ELSE session[s]]
        /\ account' = [account EXCEPT ![call[c].account] = "deleted"]
        /\ UNCHANGED <<drawn, handed, spent>>
    BY <1>4 DEF EraseAccount
  <2>2. session' \in [Session -> SessionRows]
    BY <1>t, <2>1, EndedRow DEF Types
  <2>3. \A s \in Session : EndsRow(s)
    BY <1>t, <2>1 DEF Types, EndsRow
  <2>4. account' \in [Account -> {"ok", "sanctioned", "deleted"}]
    BY <1>t, <2>1 DEF Types
  <2> QED BY <2>1, <2>2, <2>3, <2>4 DEF Ending
<1> QED BY <1>1, <1>2, <1>3, <1>4

LEMMA SweepEnds ==
  ASSUME Kept, SweepSessions
  PROVE  Ending /\ account' \in [Account -> {"ok", "sanctioned", "deleted"}]
<1>t. Types /\ \A s \in Session : session[s] \in SessionRows
  BY DEF Kept, Types
<1>1. /\ session' = [s \in Session |->
           IF Dead(s) THEN [session[s] EXCEPT !.row = "gone"] ELSE session[s]]
      /\ UNCHANGED <<account, drawn, handed, spent>>
  BY DEF SweepSessions
<1>2. session' \in [Session -> SessionRows]
  BY <1>t, <1>1, EndedRow DEF Types
<1>3. \A s \in Session : EndsRow(s)
  BY <1>t, <1>1 DEF Types, EndsRow, Dead
<1> QED BY <1>t, <1>1, <1>2, <1>3 DEF Ending, Types

-----------------------------------------------------------------------------
(* What handlers rely on *)

LEMMA IdleReady == Idle \in CallRecords /\ Ready(Idle) /\ Idle.pc = "idle" /\ Idle.token = None
BY DEF Idle, CallRecords, Ready

\* What one handler has read stays true whatever the others do.
LEMMA ReadyStays ==
  ASSUME Kept, Grows, NEW r \in CallRecords, Ready(r)
  PROVE  Ready(r)'
<1>1. r.pc = "revoke" => r.token \in spent'
  BY DEF Ready, Grows
<1> QED BY <1>1 DEF Ready, Grows, CallRecords

LEMMA CallsMove ==
  ASSUME Inv, Grows, NEW c \in Call, NEW r \in CallRecords, Ready(r)',
         call' = [call EXCEPT ![c] = r], now' = now
  PROVE  Calls'
<1>1. call' \in [Call -> CallRecords]
  BY DEF Inv, Calls
<1>2. ASSUME NEW d \in Call
      PROVE  Ready(call[d])'
  <2>1. CASE d = c
    <3>1. call'[d] = r
      BY <2>1 DEF Inv, Calls
    <3> QED BY <3>1 DEF Ready
  <2>2. CASE d # c
    <3>1. call'[d] = call[d] /\ call[d] \in CallRecords /\ Ready(call[d])
      BY <2>2 DEF Inv, Calls
    <3>2. PICK p \in CallRecords : p = call[d]
      BY <3>1
    <3>3. Ready(p)'
      BY <3>1, <3>2, ReadyStays DEF Inv
    <3>4. call'[d] = p
      BY <3>1, <3>2
    <3> QED BY <3>3, <3>4 DEF Ready
  <2> QED BY <2>1, <2>2
<1> QED BY <1>1, <1>2 DEF Inv, Calls

LEMMA CallsFinish ==
  ASSUME Inv, Grows, NEW c \in Call, Finish(c), now' = now
  PROVE  Calls'
<1>1. Ready(Idle)'
  BY DEF Ready, Idle
<1> QED BY <1>1, IdleReady, CallsMove DEF Finish

LEMMA CallsStay ==
  ASSUME Inv, Grows, call' = call, now' \in Nat
  PROVE  Calls'
<1>1. ASSUME NEW d \in Call
      PROVE  Ready(call[d])'
  <2>1. PICK p \in CallRecords : p = call[d] /\ Ready(p)
    BY DEF Inv, Calls
  <2>2. Ready(p)'
    BY <2>1, ReadyStays DEF Inv
  <2> QED BY <2>1, <2>2 DEF Ready
<1> QED BY <1>1 DEF Inv, Calls

LEMMA InvInit == Init => Inv
<1> SUFFICES ASSUME Init PROVE Inv
  OBVIOUS
<1>1. Types
  BY SessionsAssumption DEF Init, Types, SessionRows
<1>2. Chained
  BY DEF Init, Chained, RowKept, RetiredKept
<1>3. Calls
  BY IdleReady DEF Init, Calls
<1> QED BY <1>1, <1>2, <1>3 DEF Inv, Kept

\* A step that changes at most the handler's own record.
LEMMA OwnStep ==
  ASSUME Inv, NEW c \in Call, NEW r \in CallRecords, Ready(r),
         UNCHANGED <<now, Rows>>, call' = [call EXCEPT ![c] = r]
  PROVE  Inv'
<1>1. Kept' /\ Grows
  <2>1. UNCHANGED <<account, session, drawn, handed, spent>>
    BY DEF Rows
  <2> QED BY <2>1, QuietKeeps DEF Inv, Kept, Types, Chained
<1>2. Ready(r)'
  BY <1>1, ReadyStays DEF Inv
<1> QED BY <1>1, <1>2, CallsMove DEF Inv

LEMMA IssueKeeps ==
  ASSUME Inv, NEW c \in Call, Issue(c)
  PROVE  Inv'
<1>t. /\ Kept /\ Types /\ Chained /\ now \in Nat
      /\ call[c] \in CallRecords /\ Ready(call[c])
  BY DEF Inv, Kept, Calls
<1>1. ASSUME NEW x \in Account, BeginIssue(c, x)
      PROVE  Inv'
  <2> DEFINE r == [Idle EXCEPT !.pc = "insert", !.at = now, !.account = x]
  <2>1. r \in CallRecords /\ Ready(r)
    BY <1>t, IdleReady DEF CallRecords, Ready, Idle
  <2>2. call' = [call EXCEPT ![c] = r] /\ UNCHANGED <<now, Rows>>
    BY <1>1 DEF BeginIssue
  <2> HIDE DEF r
  <2> QED BY <2>1, <2>2, OwnStep
<1>2. ASSUME NEW s \in Session, NEW t \in Token, InsertSession(c, s, t)
      PROVE  Inv'
  <2> DEFINE r == [call[c] EXCEPT !.pc = "answer", !.token = t]
  <2>1. Kept' /\ Grows
    BY <1>t, <1>2, InsertKeeps
  <2>2. call' = [call EXCEPT ![c] = r] /\ now' = now /\ drawn' = [drawn EXCEPT ![t] = s]
    BY <1>t, <1>2 DEF InsertSession, Calls
  <2>3. r \in CallRecords /\ r.pc = "answer" /\ r.token = t
    BY <1>t DEF CallRecords
  <2>4. drawn'[t] \in Session
    BY <1>t, <2>2 DEF Types
  <2> HIDE DEF r
  <2>5. PICK p \in CallRecords : p = r
    BY <2>3
  <2>6. Ready(p)'
    BY <2>3, <2>4, <2>5 DEF Ready
  <2> QED BY <2>1, <2>2, <2>5, <2>6, CallsMove DEF Inv
<1>3. CASE Answer(c)
  <2>1. /\ handed' = handed \cup {call[c].token} /\ Finish(c)
        /\ UNCHANGED <<now, account, session, drawn, spent>>
    BY <1>3 DEF Answer
  <2>2. call[c].token \in Token /\ drawn[call[c].token] \in Session
    BY <1>t, <1>3 DEF Answer, Ready
  <2>3. Kept' /\ Grows
    BY <1>t, <2>1, <2>2, QuietKeeps DEF Types, Chained
  <2> QED BY <2>1, <2>3, CallsFinish DEF Inv
<1> QED BY <1>1, <1>2, <1>3 DEF Issue

LEMMA RefreshKeeps ==
  ASSUME Inv, NEW c \in Call, Refresh(c)
  PROVE  Inv'
<1>t. /\ Kept /\ Types /\ Chained /\ now \in Nat
      /\ call[c] \in CallRecords /\ Ready(call[c])
  BY DEF Inv, Kept, Calls
<1>1. ASSUME NEW t \in Token, BeginRefresh(c, t)
      PROVE  Inv'
  <2> DEFINE r == [Idle EXCEPT !.pc = "rotate", !.at = now, !.token = t]
  <2>1. r \in CallRecords
    BY <1>t, IdleReady DEF CallRecords
  <2>2. Ready(r)
    BY <1>t, <1>1, IdleReady DEF CallRecords, Ready, BeginRefresh, Chained
  <2>3. call' = [call EXCEPT ![c] = r] /\ UNCHANGED <<now, Rows>>
    BY <1>1 DEF BeginRefresh
  <2> HIDE DEF r
  <2> QED BY <2>1, <2>2, <2>3, OwnStep
<1>2. ASSUME NEW s \in Session, NEW next \in Token, Rotate(c, s, next)
      PROVE  Inv'
  <2> DEFINE r == [call[c] EXCEPT !.pc = "answer", !.token = next]
  <2>1. Kept' /\ Grows
    BY <1>t, <1>2, RotateKeeps
  <2>2. call' = [call EXCEPT ![c] = r] /\ now' = now /\ drawn' = [drawn EXCEPT ![next] = s]
    BY <1>t, <1>2 DEF Rotate, Calls
  <2>3. r \in CallRecords /\ r.pc = "answer" /\ r.token = next
    BY <1>t DEF CallRecords
  <2>4. drawn'[next] \in Session
    BY <1>t, <2>2 DEF Types
  <2> HIDE DEF r
  <2>5. PICK p \in CallRecords : p = r
    BY <2>3
  <2>6. Ready(p)'
    BY <2>3, <2>4, <2>5 DEF Ready
  <2> QED BY <2>1, <2>2, <2>5, <2>6, CallsMove DEF Inv
<1>3. CASE RotateRefused(c)
  <2> DEFINE r == [call[c] EXCEPT !.pc = "findRetired"]
  <2>1. r \in CallRecords /\ Ready(r)
    BY <1>t, <1>3 DEF CallRecords, Ready, RotateRefused
  <2>2. call' = [call EXCEPT ![c] = r] /\ UNCHANGED <<now, Rows>>
    BY <1>3 DEF RotateRefused, Go
  <2> HIDE DEF r
  <2> QED BY <2>1, <2>2, OwnStep
<1>4. CASE FindRetired(c)
  <2>1. ASSUME NEW s \in Session, Reused(s, call[c].token),
               call' = [call EXCEPT ![c].pc = "revoke", ![c].session = s]
        PROVE  Inv'
    <3> DEFINE r == [call[c] EXCEPT !.pc = "revoke", !.session = s]
    <3>1. r \in CallRecords
      BY <1>t DEF CallRecords
    <3>2. call[c].token \in spent /\ drawn[call[c].token] = s
      <4>1. call[c].token \in Token /\ session[s].retired = call[c].token /\ RetiredKept(s)
        BY <1>t, <1>4, <2>1 DEF FindRetired, Ready, Reused, Chained
      <4> QED BY <4>1, SessionsAssumption DEF RetiredKept
    <3>3. Ready(r)
      BY <1>t, <1>4, <3>2 DEF CallRecords, Ready, FindRetired
    <3>4. call' = [call EXCEPT ![c] = r] /\ UNCHANGED <<now, Rows>>
      BY <1>4, <2>1 DEF FindRetired, Calls
    <3> HIDE DEF r
    <3> QED BY <3>1, <3>3, <3>4, OwnStep
  <2>2. CASE Go(c, "refused")
    <3> DEFINE r == [call[c] EXCEPT !.pc = "refused"]
    <3>1. r \in CallRecords /\ Ready(r)
      BY <1>t, <1>4 DEF CallRecords, Ready, FindRetired
    <3>2. call' = [call EXCEPT ![c] = r] /\ UNCHANGED <<now, Rows>>
      BY <1>4, <2>2 DEF FindRetired, Go
    <3> HIDE DEF r
    <3> QED BY <3>1, <3>2, OwnStep
  <2> QED BY <1>4, <2>1, <2>2 DEF FindRetired
<1>5. CASE RevokeReused(c)
  <2> DEFINE r == [call[c] EXCEPT !.pc = "refused"]
  <2>1. Kept' /\ Grows
    BY <1>t, <1>5, Endings, EndingKeeps
  <2>2. r \in CallRecords /\ Ready(r)
    BY <1>t, <1>5 DEF CallRecords, Ready, RevokeReused
  <2>3. call' = [call EXCEPT ![c] = r] /\ now' = now
    BY <1>5 DEF RevokeReused, Go
  <2> HIDE DEF r
  <2>4. PICK p \in CallRecords : p = r
    BY <2>2
  <2>5. Ready(p)'
    BY <1>t, <2>1, <2>2, <2>4, ReadyStays
  <2> QED BY <2>1, <2>3, <2>4, <2>5, CallsMove DEF Inv
<1>6. CASE AnswerRefused(c)
  <2>1. Finish(c) /\ UNCHANGED <<now, Rows>>
    BY <1>6 DEF AnswerRefused
  <2> QED BY <2>1, IdleReady, OwnStep DEF Finish
<1> QED BY <1>1, <1>2, <1>3, <1>4, <1>5, <1>6 DEF Refresh

LEMMA RequestKeeps ==
  ASSUME Inv, NEW c \in Call, Request(c)
  PROVE  Inv'
<1>t. /\ Kept /\ Types /\ Chained /\ now \in Nat
      /\ call[c] \in CallRecords /\ Ready(call[c])
  BY DEF Inv, Kept, Calls
<1>1. ASSUME NEW s \in Session, NEW route \in Routes, Lookup(c, s, route)
      PROVE  Inv'
  <2> DEFINE r == [Idle EXCEPT !.pc = "admit", !.token = session[s].live, !.session = s,
                    !.account = session[s].account, !.until = AnswersUntil(s),
                    !.route = route]
  <2>1. session[s] \in SessionRows /\ session[s].row = "open"
    BY <1>t, <1>1 DEF Lookup, Unended, Open, Types
  <2>2. AnswersUntil(s) \in Nat /\ AnswersUntil(s) <= session[s].expiresAt
    BY <2>1 DEF AnswersUntil, SessionRows
  <2>3. r \in CallRecords
    BY <2>1, <2>2, IdleReady DEF CallRecords, SessionRows
  <2>4. Ready(r)
    BY <2>1, <2>2, IdleReady DEF CallRecords, Ready
  <2>5. call' = [call EXCEPT ![c] = r] /\ UNCHANGED <<now, Rows>>
    BY <1>1 DEF Lookup
  <2> HIDE DEF r
  <2> QED BY <2>3, <2>4, <2>5, OwnStep
<1>2. CASE Admit(c)
  <2>1. CASE call[c].until >= now
    <3> DEFINE r == [call[c] EXCEPT !.pc = "act", !.at = now]
    <3>1. r \in CallRecords
      BY <1>t DEF CallRecords
    <3>2. session[call[c].session].expiresAt \in Nat
      BY <1>t, <1>2 DEF Admit, Ready, Types, SessionRows
    <3>3. Ready(r)
      BY <1>t, <1>2, <2>1, <3>2 DEF CallRecords, Ready, Admit
    <3>4. call' = [call EXCEPT ![c] = r] /\ UNCHANGED <<now, Rows>>
      BY <1>2, <2>1 DEF Admit, Calls
    <3> HIDE DEF r
    <3> QED BY <3>1, <3>3, <3>4, OwnStep
  <2>2. CASE ~(call[c].until >= now)
    <3>1. Finish(c) /\ UNCHANGED <<now, Rows>>
      BY <1>2, <2>2 DEF Admit
    <3> QED BY <3>1, IdleReady, OwnStep DEF Finish
  <2> QED BY <2>1, <2>2
<1>3. CASE EndSession(c) \/ EndAllSessions(c) \/ EraseAccount(c)
  <2>1. Kept' /\ Grows
    BY <1>t, <1>3, Endings, EndingKeeps
  <2>2. Finish(c) /\ now' = now
    BY <1>3 DEF EndSession, EndAllSessions, EraseAccount
  <2> QED BY <2>1, <2>2, CallsFinish DEF Inv
<1> QED BY <1>1, <1>2, <1>3 DEF Request

LEMMA InvNext == Inv /\ [Next]_vars => Inv'
<1> SUFFICES ASSUME Inv, [Next]_vars PROVE Inv'
  OBVIOUS
<1>t. Kept /\ Types /\ Chained /\ now \in Nat
  BY DEF Inv, Kept, Calls
<1>1. ASSUME NEW c \in Call, Issue(c) \/ Refresh(c) \/ Request(c) \/ Crash(c)
      PROVE  Inv'
  <2>1. CASE Crash(c)
    <3>1. Finish(c) /\ UNCHANGED <<now, Rows>>
      BY <2>1 DEF Crash
    <3> QED BY <3>1, IdleReady, OwnStep DEF Finish
  <2> QED BY <1>1, <2>1, IssueKeeps, RefreshKeeps, RequestKeeps
<1>2. CASE SweepSessions
  <2>1. Kept' /\ Grows
    BY <1>t, <1>2, SweepEnds, EndingKeeps
  <2> QED BY <1>t, <1>2, <2>1, CallsStay DEF SweepSessions, Inv
<1>3. ASSUME NEW x \in Account, Sanction(x)
      PROVE  Inv'
  <2>1. account' \in [Account -> {"ok", "sanctioned", "deleted"}]
    BY <1>t, <1>3 DEF Sanction, Types
  <2>2. UNCHANGED <<now, session, drawn, handed, spent, call>>
    BY <1>3 DEF Sanction
  <2>3. Kept' /\ Grows
    BY <1>t, <2>1, <2>2, QuietKeeps DEF Types, Chained
  <2> QED BY <1>t, <2>2, <2>3, CallsStay DEF Inv
<1>4. CASE Tick \/ UNCHANGED vars
  <2>1. UNCHANGED <<account, session, drawn, handed, spent, call>> /\ now' \in Nat
    BY <1>t, <1>4 DEF Tick, Rows, vars
  <2>2. Kept' /\ Grows
    BY <1>t, <2>1, QuietKeeps DEF Types, Chained
  <2> QED BY <2>1, <2>2, CallsStay DEF Inv
<1> QED BY <1>1, <1>2, <1>3, <1>4 DEF Next

THEOREM SessionsInv == Spec => []Inv
BY InvInit, InvNext, PTL DEF Spec

-----------------------------------------------------------------------------
(* The properties *)

\* The actions that change the session table or the pairs drawn for it.
LEMMA TableSteps ==
  ASSUME [Next]_vars
  PROVE  \/ UNCHANGED <<session, drawn, spent>>
         \/ SweepSessions
         \/ \E c \in Call :
              \/ \E s \in Session, t \in Token : InsertSession(c, s, t)
              \/ \E s \in Session, t \in Token : Rotate(c, s, t)
              \/ RevokeReused(c) \/ EndSession(c) \/ EndAllSessions(c) \/ EraseAccount(c)
<1>1. ASSUME NEW c \in Call, Issue(c)
      PROVE  \/ UNCHANGED <<session, drawn, spent>>
             \/ \E s \in Session, t \in Token : InsertSession(c, s, t)
  BY <1>1 DEF Issue, BeginIssue, Answer, Rows
<1>2. ASSUME NEW c \in Call, Refresh(c)
      PROVE  \/ UNCHANGED <<session, drawn, spent>>
             \/ \E s \in Session, t \in Token : Rotate(c, s, t)
             \/ RevokeReused(c)
  BY <1>2 DEF Refresh, BeginRefresh, RotateRefused, FindRetired, AnswerRefused, Rows
<1>3. ASSUME NEW c \in Call, Request(c)
      PROVE  \/ UNCHANGED <<session, drawn, spent>>
             \/ EndSession(c) \/ EndAllSessions(c) \/ EraseAccount(c)
  BY <1>3 DEF Request, Lookup, Admit, Rows
<1>4. ASSUME NEW c \in Call, Crash(c)
      PROVE  UNCHANGED <<session, drawn, spent>>
  BY <1>4 DEF Crash, Rows
<1>5. ASSUME Tick \/ (\E x \in Account : Sanction(x)) \/ UNCHANGED vars
      PROVE  UNCHANGED <<session, drawn, spent>>
  BY <1>5 DEF Tick, Sanction, Rows, vars
<1> QED BY <1>1, <1>2, <1>3, <1>4, <1>5 DEF Next

\* A handler moved by a step to anywhere but "refused" refuses nothing.
LEMMA OtherMove ==
  ASSUME call \in [Call -> CallRecords], NEW c \in Call, NEW d \in Call, NEW r \in CallRecords,
         call' = [call EXCEPT ![d] = r], r.pc # "refused",
         call[c].pc # "refused"
  PROVE  call'[c].pc # "refused"
OBVIOUS

\* The only ways to refuse a refresh.
LEMMA RefusingSteps ==
  ASSUME Inv, [Next]_vars, NEW c \in Call,
         call[c].pc # "refused", call'[c].pc = "refused"
  PROVE  FindRetired(c) \/ RevokeReused(c)
<1>t. call \in [Call -> CallRecords] /\ now \in Nat /\ \A d \in Call : call[d] \in CallRecords
  BY DEF Inv, Calls
<1>f. ASSUME NEW d \in Call, Finish(d)
      PROVE  FALSE
  BY <1>t, <1>f, IdleReady, OtherMove DEF Finish
<1>1. ASSUME NEW d \in Call, Issue(d)
      PROVE  FALSE
  <2>1. ASSUME NEW x \in Account, BeginIssue(d, x)
        PROVE  FALSE
    <3>1. /\ call' = [call EXCEPT ![d] = [Idle EXCEPT !.pc = "insert", !.at = now, !.account = x]]
          /\ [Idle EXCEPT !.pc = "insert", !.at = now, !.account = x] \in CallRecords
          /\ [Idle EXCEPT !.pc = "insert", !.at = now, !.account = x].pc # "refused"
      BY <1>t, <2>1, IdleReady DEF BeginIssue, CallRecords
    <3> QED BY <1>t, <3>1, OtherMove
  <2>2. ASSUME NEW s \in Session, NEW t \in Token, InsertSession(d, s, t)
        PROVE  FALSE
    <3>1. /\ call' = [call EXCEPT ![d] = [call[d] EXCEPT !.pc = "answer", !.token = t]]
          /\ [call[d] EXCEPT !.pc = "answer", !.token = t] \in CallRecords
          /\ [call[d] EXCEPT !.pc = "answer", !.token = t].pc # "refused"
      BY <1>t, <2>2 DEF InsertSession, CallRecords
    <3> QED BY <1>t, <3>1, OtherMove
  <2>3. CASE Answer(d)
    BY <1>f, <2>3 DEF Answer
  <2> QED BY <1>1, <2>1, <2>2, <2>3 DEF Issue
<1>2. ASSUME NEW d \in Call, Refresh(d)
      PROVE  FindRetired(c) \/ RevokeReused(c)
  <2>1. CASE d # c
    BY <1>t, <1>2, <2>1 DEF Refresh, BeginRefresh, Rotate, RotateRefused, FindRetired,
      RevokeReused, AnswerRefused, Finish, Go
  <2>2. CASE d = c
    <3>1. ASSUME NEW t \in Token, BeginRefresh(c, t)
          PROVE  FALSE
      BY <1>t, <3>1, IdleReady DEF BeginRefresh, CallRecords
    <3>2. ASSUME NEW s \in Session, NEW next \in Token, Rotate(c, s, next)
          PROVE  FALSE
      BY <1>t, <3>2 DEF Rotate, CallRecords
    <3>3. ~RotateRefused(c)
      BY <1>t DEF RotateRefused, Go, CallRecords
    <3>4. ~AnswerRefused(c)
      BY <1>f DEF AnswerRefused
    <3> QED BY <1>2, <2>2, <3>1, <3>2, <3>3, <3>4 DEF Refresh
  <2> QED BY <2>1, <2>2
<1>3. ASSUME NEW d \in Call, Request(d)
      PROVE  FALSE
  <2>1. CASE d # c
    BY <1>t, <1>3, <2>1 DEF Request, Lookup, Admit, EndSession, EndAllSessions,
      EraseAccount, Finish
  <2>2. CASE d = c
    <3>1. ASSUME NEW s \in Session, NEW route \in Routes, Lookup(c, s, route)
          PROVE  FALSE
      BY <1>t, <3>1, IdleReady DEF Lookup, CallRecords
    <3>2. ~Admit(c)
      BY <1>t, <1>f DEF Admit, CallRecords
    <3>3. ~(EndSession(c) \/ EndAllSessions(c) \/ EraseAccount(c))
      BY <1>f DEF EndSession, EndAllSessions, EraseAccount
    <3> QED BY <1>3, <2>2, <3>1, <3>2, <3>3 DEF Request
  <2> QED BY <2>1, <2>2
<1>4. ASSUME NEW d \in Call, Crash(d)
      PROVE  FALSE
  BY <1>f, <1>4 DEF Crash
<1>5. ASSUME \/ SweepSessions \/ Tick
             \/ (\E x \in Account : Sanction(x))
             \/ UNCHANGED vars
      PROVE  FALSE
  BY <1>5 DEF SweepSessions, Tick, Sanction, vars
<1> QED BY <1>1, <1>2, <1>3, <1>4, <1>5 DEF Next

\* Type correctness.
THEOREM SessionsTypeOK == Spec => []TypeOK
<1>1. Inv => TypeOK
  BY DEF Inv, Kept, Types, Calls, TypeOK
<1> QED BY <1>1, SessionsInv, PTL

\* No request is answered past the refresh life of its session: the guard's
\* deadline, read with the row, never exceeds expires_at, and no rotation moves it.
THEOREM SessionsAnswersWithinLife == Spec => []AnswersWithinLife
<1>1. Inv => AnswersWithinLife
  <2> SUFFICES ASSUME Inv, NEW c \in Call, call[c].pc = "act"
               PROVE  call[c].at <= session[call[c].session].createdAt + RefreshTTL
    BY DEF AnswersWithinLife
  <2>1. Ready(call[c])
    BY DEF Inv, Calls
  <2>2. RowKept(call[c].session) /\ session[call[c].session].row # "unused"
    BY <2>1 DEF Inv, Kept, Chained, Ready
  <2> QED BY <2>1, <2>2 DEF Ready, RowKept
<1> QED BY <1>1, SessionsInv, PTL

\* A refused refresh whose token was spent leaves its session ended, or rotated
\* once more: what FindRetired read about the row is still so when it is revoked.
THEOREM SessionsReuseNoticed == Spec => ReuseNoticed
<1>1. Inv /\ [Next]_vars =>
        \A c \in Call, s \in Session :
          /\ call[c].pc # "refused" /\ call'[c].pc = "refused"
          /\ call[c].token \in spent /\ drawn[call[c].token] = s
          => ~Unended(s)' \/ session'[s].retired # call[c].token
  <2> SUFFICES ASSUME Inv, [Next]_vars, NEW c \in Call, NEW s \in Session,
                      call[c].pc # "refused", call'[c].pc = "refused",
                      call[c].token \in spent, drawn[call[c].token] = s
               PROVE  ~Unended(s)' \/ session'[s].retired # call[c].token
    OBVIOUS
  <2>t. /\ Kept /\ Types /\ Chained /\ now \in Nat
        /\ call \in [Call -> CallRecords] /\ call[c] \in CallRecords
        /\ Ready(call[c])
    BY DEF Inv, Kept, Calls
  <2>1. FindRetired(c) \/ RevokeReused(c)
    BY <2>t, RefusingSteps
  <2>2. CASE FindRetired(c)
    <3>1. \A r \in Session :
            call' = [call EXCEPT ![c].pc = "revoke", ![c].session = r]
              => call'[c].pc = "revoke"
      BY <2>t DEF CallRecords
    <3>2. ~Reused(s, call[c].token) /\ session' = session
      BY <2>2, <3>1 DEF FindRetired, Rows
    <3> QED BY <3>2 DEF Reused, Unended, Open
  <2>3. CASE RevokeReused(c)
    <3>1. call[c].session = s
      BY <2>t, <2>3 DEF RevokeReused, Ready
    <3>2. CASE Unended(s)
      <4>1. session' = [session EXCEPT ![s] = Ended(@, call[c].at)]
        BY <2>3, <3>1, <3>2 DEF RevokeReused
      <4>2. session'[s].revokedAt = call[c].at
        BY <2>t, <4>1 DEF Types, Ended, SessionRows
      <4>3. call[c].at # None
        BY <2>t, SessionsAssumption DEF CallRecords
      <4> QED BY <4>2, <4>3 DEF Unended
    <3>3. CASE ~Unended(s)
      BY <2>3, <3>1, <3>3 DEF RevokeReused, Unended, Open
    <3> QED BY <3>2, <3>3
  <2> QED BY <2>1, <2>2, <2>3
<1> QED BY <1>1, SessionsInv, PTL DEF Spec, ReuseNoticed

\* A session ends for one of the five reasons and no other.
THEOREM SessionsEndedForAReason == Spec => EndedForAReason
<1>1. Inv /\ [Next]_vars =>
        \A s \in Session : Unended(s) /\ ~Unended(s)' =>
          \/ session[s].expiresAt < now
          \/ account'[session[s].account] = "deleted"
          \/ \E c \in Call :
               /\ call[c].pc = "act" /\ call[c].route = "logout"
               /\ call[c].session = s
          \/ \E c \in Call :
               /\ call[c].pc = "act" /\ call[c].route = "logout-all"
               /\ call[c].account = session[s].account
          \/ \E c \in Call :
               /\ call[c].pc = "revoke"
               /\ call[c].token \in spent /\ drawn[call[c].token] = s
  <2> SUFFICES ASSUME Inv, [Next]_vars, NEW s \in Session, Unended(s), ~Unended(s)'
               PROVE
          \/ session[s].expiresAt < now
          \/ account'[session[s].account] = "deleted"
          \/ \E c \in Call :
               /\ call[c].pc = "act" /\ call[c].route = "logout"
               /\ call[c].session = s
          \/ \E c \in Call :
               /\ call[c].pc = "act" /\ call[c].route = "logout-all"
               /\ call[c].account = session[s].account
          \/ \E c \in Call :
               /\ call[c].pc = "revoke"
               /\ call[c].token \in spent /\ drawn[call[c].token] = s
    OBVIOUS
  <2>t. /\ Kept /\ Types /\ Chained /\ session[s] \in SessionRows
        /\ session[s].account \in Account
    BY DEF Inv, Kept, Types, Chained, RowKept, Unended, Open
  <2>1. session'[s] # session[s]
    BY DEF Unended, Open
  <2>2. \/ SweepSessions
        \/ \E c \in Call :
             \/ \E r \in Session, t \in Token : InsertSession(c, r, t)
             \/ \E r \in Session, t \in Token : Rotate(c, r, t)
             \/ RevokeReused(c) \/ EndSession(c) \/ EndAllSessions(c) \/ EraseAccount(c)
    BY <2>1, TableSteps
  <2>3. ASSUME NEW c \in Call, NEW r \in Session, NEW t \in Token, InsertSession(c, r, t)
        PROVE  FALSE
    BY <2>t, <2>1, <2>3 DEF InsertSession, Types, Unended, Open
  <2>4. ASSUME NEW c \in Call, NEW r \in Session, NEW t \in Token, Rotate(c, r, t)
        PROVE  FALSE
    BY <2>t, <2>4 DEF Rotate, Types, Unended, Open, SessionRows
  <2>5. ASSUME NEW c \in Call, RevokeReused(c)
        PROVE  \E d \in Call : /\ call[d].pc = "revoke"
                               /\ call[d].token \in spent /\ drawn[call[d].token] = s
    <3>1. Ready(call[c]) /\ call[c].pc = "revoke"
      BY <2>5 DEF Inv, Calls, RevokeReused
    <3>2. call[c].session = s
      BY <2>t, <2>1, <2>5 DEF RevokeReused, Types
    <3> QED BY <3>1, <3>2 DEF Ready
  <2>6. ASSUME NEW c \in Call, EndSession(c)
        PROVE  \E d \in Call : /\ call[d].pc = "act" /\ call[d].route = "logout"
                               /\ call[d].session = s
    <3>1. call[c].session = s
      BY <2>t, <2>1, <2>6 DEF EndSession, Types
    <3> QED BY <2>6, <3>1 DEF EndSession
  <2>7. ASSUME NEW c \in Call, EndAllSessions(c)
        PROVE  \E d \in Call : /\ call[d].pc = "act" /\ call[d].route = "logout-all"
                               /\ call[d].account = session[s].account
    <3>1. call[c].account = session[s].account
      BY <2>t, <2>1, <2>7 DEF EndAllSessions, Types
    <3> QED BY <2>7, <3>1 DEF EndAllSessions
  <2>8. ASSUME NEW c \in Call, EraseAccount(c)
        PROVE  account'[session[s].account] = "deleted"
    BY <2>t, <2>1, <2>8 DEF EraseAccount, Types
  <2>9. CASE SweepSessions
    <3>1. Dead(s) /\ account' = account
      BY <2>t, <2>1, <2>9 DEF SweepSessions, Types
    <3> QED BY <3>1 DEF Dead, Unended
  <2> QED BY <2>2, <2>3, <2>4, <2>5, <2>6, <2>7, <2>8, <2>9
<1> QED BY <1>1, SessionsInv, PTL DEF Spec, EndedForAReason

-----------------------------------------------------------------------------
(* The refinement *)

\* The family of a session, as the INSTANCE of TokenFamily reads it.
FamilyState(s) ==
  IF session[s].row = "unused" THEN "none"
  ELSE IF Unended(s) THEN "alive" ELSE "ended"

\* Rows that end, end their families; nothing else of a family moves.
LEMMA EndingIsEnd ==
  ASSUME Kept, Ending
  PROVE  Family!Next
<1>t. Types
  BY DEF Kept
<1>1. PICK F \in SUBSET Session :
        \A s \in Session : s \in F <=> Unended(s) /\ ~Unended(s)'
  <2>1. {s \in Session : Unended(s) /\ ~Unended(s)'} \in SUBSET Session
    OBVIOUS
  <2> QED BY <2>1
<1>2. \A s \in F : FamilyState(s) = "alive"
  BY <1>1 DEF FamilyState, Unended, Open
<1>3. ASSUME NEW s \in Session
      PROVE  FamilyState(s)' = IF s \in F THEN "ended" ELSE FamilyState(s)
  <2>1. EndsRow(s) /\ session[s] \in SessionRows
    BY <1>t DEF Ending, Types
  <2>2. CASE session'[s] = session[s]
    BY <1>1, <2>2 DEF FamilyState, Unended, Open
  <2>3. CASE Open(s) /\ \E at \in Nat : session'[s] = Ended(session[s], at)
    <3>1. PICK at \in Nat : session'[s] = Ended(session[s], at)
      BY <2>3
    <3>2. session'[s].row = "open" /\ session'[s].revokedAt = at /\ at # None
      BY <2>1, <2>3, <3>1, SessionsAssumption DEF Open, Ended, SessionRows
    <3> QED BY <1>1, <2>3, <3>2 DEF FamilyState, Unended, Open
  <2>4. CASE Open(s) /\ session'[s] = [session[s] EXCEPT !.row = "gone"]
    <3>1. session'[s].row = "gone"
      BY <2>1, <2>4 DEF SessionRows
    <3> QED BY <1>1, <2>4, <3>1 DEF FamilyState, Unended, Open
  <2> QED BY <2>1, <2>2, <2>3, <2>4 DEF EndsRow
<1>4. [s \in Session |-> session'[s].live] = [s \in Session |-> session[s].live]
  BY <1>t, EndsRowColumns DEF Ending
<1>5. \A s \in F : [f \in Session |-> FamilyState(f)][s] = "alive"
  BY <1>2
<1>6. [f \in Session |-> FamilyState(f)'] =
      [f \in Session |-> IF f \in F THEN "ended" ELSE [g \in Session |-> FamilyState(g)][f]]
  BY <1>3
<1>7. Family!End(F)
  BY <1>4, <1>5, <1>6 DEF Family!End, FamilyState, Ending
<1> QED BY <1>7 DEF Family!Next

LEMMA InsertIsOpen ==
  ASSUME Kept, NEW c \in Call, NEW s \in Session, NEW t \in Token, InsertSession(c, s, t)
  PROVE  Family!Next
<1> DEFINE row == FreshRow(call[c].account, t, call[c].at)
<1>t. Types /\ RowKept(s)
  BY DEF Kept, Chained
<1>1. /\ session[s].row = "unused" /\ drawn[t] = None
      /\ session' = [session EXCEPT ![s] = row]
      /\ drawn' = [drawn EXCEPT ![t] = s] /\ spent' = spent
  BY DEF InsertSession
<1>2. row.row = "open" /\ row.revokedAt = None /\ row.live = t
  BY DEF FreshRow
<1> HIDE DEF row
<1>3. \A r \in Session : session'[r] = IF r = s THEN row ELSE session[r]
  BY <1>t, <1>1 DEF Types
<1>4. FamilyState(s) = "none" /\ FamilyState(s)' = "alive"
  BY <1>1, <1>2, <1>3 DEF FamilyState, Unended, Open
<1>5. \A r \in Session : r # s => FamilyState(r)' = FamilyState(r)
  BY <1>3 DEF FamilyState, Unended, Open
<1>6. [r \in Session |-> FamilyState(r)'] =
      [[r \in Session |-> FamilyState(r)] EXCEPT ![s] = "alive"]
  BY <1>4, <1>5
<1>7. [r \in Session |-> session'[r].live] =
      [[r \in Session |-> session[r].live] EXCEPT ![s] = t]
  BY <1>2, <1>3
<1>8. [r \in Session |-> FamilyState(r)][s] = "none"
  BY <1>4
<1>9. Family!Open(s, t)
  BY <1>1, <1>6, <1>7, <1>8 DEF Family!Open, FamilyState
<1> QED BY <1>9 DEF Family!Next

LEMMA RotateIsSpend ==
  ASSUME Kept, NEW c \in Call, NEW s \in Session, NEW next \in Token, Rotate(c, s, next)
  PROVE  Family!Next
<1> DEFINE t == call[c].token
           row == [session[s] EXCEPT !.live = next, !.retired = t,
                                     !.accessExpiresAt = call[c].at + AccessTTL]
<1>t. Types /\ RowKept(s) /\ session[s] \in SessionRows
  BY DEF Kept, Chained, Types
<1>1. /\ Unended(s) /\ session[s].live = t /\ drawn[next] = None
      /\ session' = [session EXCEPT ![s] = row]
      /\ drawn' = [drawn EXCEPT ![next] = s] /\ spent' = spent \cup {t}
  BY <1>t DEF Rotate, Rotatable, Types
<1>2. row.row = session[s].row /\ row.revokedAt = session[s].revokedAt /\ row.live = next
  BY <1>t DEF SessionRows
<1>3. t \in Token /\ t \notin spent /\ session[s].row = "open"
  BY <1>t, <1>1 DEF RowKept, Unended, Open
<1> HIDE DEF row, t
<1>4. \A r \in Session : session'[r] = IF r = s THEN row ELSE session[r]
  BY <1>t, <1>1 DEF Types
<1>5. \A r \in Session : FamilyState(r)' = FamilyState(r)
  BY <1>2, <1>4 DEF FamilyState, Unended, Open
<1>6. [r \in Session |-> FamilyState(r)'] = [r \in Session |-> FamilyState(r)]
  BY <1>5
<1>7. [r \in Session |-> session'[r].live] =
      [[r \in Session |-> session[r].live] EXCEPT ![s] = next]
  BY <1>2, <1>4
<1>8. /\ [r \in Session |-> FamilyState(r)][s] = "alive"
      /\ [r \in Session |-> session[r].live][s] = t
  BY <1>1, <1>3 DEF FamilyState
<1>9. Family!Spend(s, t, next)
  BY <1>1, <1>3, <1>6, <1>7, <1>8 DEF Family!Spend, FamilyState
<1> QED BY <1>3, <1>9 DEF Family!Next

LEMMA FamilyInit == Init => Family!Init
<1> SUFFICES ASSUME Init PROVE Family!Init
  OBVIOUS
<1> QED BY DEF Init, Family!Init

LEMMA FamilyNext == Inv /\ [Next]_vars => [Family!Next]_Family!vars
<1> SUFFICES ASSUME Inv, [Next]_vars PROVE [Family!Next]_Family!vars
  OBVIOUS
<1>t. Kept /\ now \in Nat /\ \A c \in Call : call[c] \in CallRecords
  BY DEF Inv, Calls
<1>1. CASE SweepSessions
  BY <1>t, <1>1, SweepEnds, EndingIsEnd
<1>2. ASSUME NEW c \in Call, NEW s \in Session, NEW t \in Token, InsertSession(c, s, t)
      PROVE  Family!Next
  BY <1>t, <1>2, InsertIsOpen
<1>3. ASSUME NEW c \in Call, NEW s \in Session, NEW t \in Token, Rotate(c, s, t)
      PROVE  Family!Next
  BY <1>t, <1>3, RotateIsSpend
<1>4. ASSUME NEW c \in Call,
             RevokeReused(c) \/ EndSession(c) \/ EndAllSessions(c) \/ EraseAccount(c)
      PROVE  Family!Next
  <2>1. Ending
    BY <1>t, <1>4, Endings
  <2> QED BY <1>t, <2>1, EndingIsEnd
<1>5. CASE UNCHANGED <<session, drawn, spent>>
  BY <1>5 DEF Family!vars, Unended, Open
<1>6. \/ UNCHANGED <<session, drawn, spent>>
      \/ SweepSessions
      \/ \E c \in Call :
           \/ \E s \in Session, t \in Token : InsertSession(c, s, t)
           \/ \E s \in Session, t \in Token : Rotate(c, s, t)
           \/ RevokeReused(c) \/ EndSession(c) \/ EndAllSessions(c) \/ EraseAccount(c)
  BY TableSteps
<1> QED BY <1>1, <1>2, <1>3, <1>4, <1>5, <1>6

\* The session table implements the token families: the tokens of a session form
\* one chain, each spent at most once, and a session that ended stays ended.
THEOREM SessionsRefreshIsAChain == Spec => RefreshIsAChain
BY SessionsInv, FamilyInit, FamilyNext, PTL DEF Spec, RefreshIsAChain, Family!Spec
=============================================================================
