---------------------------- MODULE LoginProofs ----------------------------
(***************************************************************************)
(* The safety properties of Login hold for any number of people, attempts, *)
(* accounts, codes, sessions and handlers.  Each is a conjunct of an       *)
(* inductive invariant; the parts are stated separately, and the lemma for *)
(* a part assumes only the parts it needs.                                 *)
(***************************************************************************)
EXTENDS Login, FiniteSetTheorems, TLAPS

\* The steps of a callback once the bank has said who this is.
IdentifiedSteps == {"identity", "account", "refuse", "insertIdentity",
                    "insertAccount", "attach", "attaching"}

\* What the statements a handler has run have given it.
Ready(r) ==
  /\ r.pc \in CallbackSteps => r.attempt \in Attempt
  /\ r.pc \in IdentifiedSteps => r.person \in Person
  /\ r.pc \in {"attach", "attaching"} => r.account \in Account
  /\ r.pc \in ExchangeSteps => r.code \in Code
  /\ r.pc \in {"consume", "issue", "inserting"} => r.attempt \in Attempt /\ r.account \in Account
  /\ r.pc \in EraseSteps => r.account \in Account

Calls ==
  /\ now \in Nat
  /\ call \in [Call -> CallRecords]
  /\ \A c \in Call : Ready(call[c]) /\ call[c].at <= now

\* Rows in use have their columns filled.
RowsTyped ==
  /\ identity \in [Person -> IdentityRows]
  /\ account \in [Account -> AccountRows]
  /\ lock \in [Account -> Call \cup {None}]
  /\ attempt \in [Attempt -> AttemptRows]
  /\ mailed \in [Code -> MailedCodes]
  /\ session \in [Session -> SessionRows]
  /\ \A x \in Account : account[x].state # "absent" => account[x].person \in Person
  /\ \A a \in Attempt : attempt[a].code # None => attempt[a].account \in Account
  /\ \A k \in Code : mailed[k].attempt # None => mailed[k].person \in Person
  /\ \A s \in Session : session[s].row # "unused" =>
       /\ session[s].account \in Account
       /\ session[s].code \in Code
       /\ session[s].attempt \in Attempt

Typed == Calls /\ RowsTyped

-----------------------------------------------------------------------------
(* Types *)

LEMMA IdleReady == Idle \in CallRecords /\ Ready(Idle) /\ Idle.at = 0 /\ Idle.pc = "idle"
BY DEF Idle, CallRecords, Ready, NoIdentity, IdentityRows, NoDate, Standings,
  CallbackSteps, ExchangeSteps, EraseSteps, IdentifiedSteps

\* A handler's record replaced by a well-formed one leaves all of them so.
LEMMA CallsMove ==
  ASSUME Calls, NEW c \in Call, NEW r \in CallRecords, Ready(r), r.at <= now,
         call' = [call EXCEPT ![c] = r], now' = now
  PROVE  Calls'
BY DEF Calls

LEMMA CallsFinish ==
  ASSUME Calls, NEW c \in Call, Finish(c), now' = now
  PROVE  Calls'
BY IdleReady, CallsMove DEF Finish, Calls

\* The same, with the deadline of the handler kept.
LEMMA CallsGo ==
  ASSUME Calls, NEW c \in Call, NEW r \in CallRecords, Ready(r), r.at = call[c].at,
         call' = [call EXCEPT ![c] = r], now' = now
  PROVE  Calls'
BY CallsMove DEF Calls

LEMMA TypedInit == Init => Typed
<1> SUFFICES ASSUME Init PROVE Typed
  OBVIOUS
<1>1. Calls
  BY IdleReady DEF Init, Calls
<1>2. RowsTyped
  BY LoginAssumption DEF Init, RowsTyped, IdentityRows, AccountRows, AttemptRows,
    MailedCodes, SessionRows, NoIdentity, NoDate, Standings
<1> QED BY <1>1, <1>2 DEF Typed

\* What the updates of an attempt write is a row.
LEMMA AttemptUpdates ==
  ASSUME NEW row \in AttemptRows, NEW t \in Nat
  PROVE  /\ Expired(row, t) \in AttemptRows
         /\ [row EXCEPT !.used = TRUE] \in AttemptRows
         /\ [row EXCEPT !.row = "gone"] \in AttemptRows
         /\ [row EXCEPT !.row = "open", !.expiresAt = t] \in AttemptRows
<1>1. Expired(row, t) \in AttemptRows
  BY DEF Expired, AttemptRows
<1>2. [row EXCEPT !.used = TRUE] \in AttemptRows
  BY DEF AttemptRows
<1>3. [row EXCEPT !.row = "gone"] \in AttemptRows
  BY DEF AttemptRows
<1>4. [row EXCEPT !.row = "open", !.expiresAt = t] \in AttemptRows
  BY DEF AttemptRows
<1> QED BY <1>1, <1>2, <1>3, <1>4

LEMMA AttachedRow ==
  ASSUME NEW row \in AttemptRows, NEW k \in Code, NEW t \in Nat, NEW x \in Account
  PROVE  Attached(row, k, t, x) \in AttemptRows
<1> DEFINE e == t + CodeTTL
<1>1. e \in Nat
  BY LoginAssumption
<1> HIDE DEF e
<1>2. [row EXCEPT !.code = k, !.codeExpiresAt = e, !.account = x] \in AttemptRows
  BY <1>1 DEF AttemptRows
<1> QED BY <1>2 DEF Attached, e

LEMMA IdentityUpdates ==
  ASSUME NEW row \in IdentityRows, NEW n \in Nat, NEW t \in Nat
  PROVE  /\ recordDeletion(row, n, t) \in IdentityRows
         /\ [row EXCEPT !.refused = n] \in IdentityRows
         /\ [row EXCEPT !.standing = "sanctioned"] \in IdentityRows
<1> DEFINE e == t + Cooldown
           m == n + 1
<1>1. e \in Nat /\ m \in Nat
  BY CooldownAssumption
<1> HIDE DEF e, m
<1>2. [row EXCEPT !.deletions = m, !.reregisterAfter = e] \in IdentityRows
  BY <1>1 DEF IdentityRows
<1>3. [row EXCEPT !.refused = n] \in IdentityRows
  BY DEF IdentityRows
<1>4. [row EXCEPT !.standing = "sanctioned"] \in IdentityRows
  BY DEF IdentityRows, Standings
<1> QED BY <1>2, <1>3, <1>4 DEF recordDeletion, e, m

LEMMA CallbackKeepsCalls ==
  ASSUME Typed, NEW c \in Call, Callback(c)
  PROVE  Calls'
<1>t. Calls /\ RowsTyped /\ call[c] \in CallRecords /\ Ready(call[c])
  BY DEF Typed, Calls
<1>1. CASE FindAttempt(c)
  <2>0. CASE Completable(call[c].attempt, call[c].at)
    <3> DEFINE r == [call[c] EXCEPT !.pc = "bank"]
    <3>1. r \in CallRecords /\ r.at = call[c].at
      BY <1>t, <1>1 DEF FindAttempt, RowsTyped, CallRecords, CallbackSteps, ExchangeSteps, EraseSteps
    <3>2. Ready(r)
      BY <1>t, <1>1, <2>0 DEF FindAttempt, RowsTyped, Ready, CallRecords, CallbackSteps, ExchangeSteps, EraseSteps, IdentifiedSteps
    <3>3. call' = [call EXCEPT ![c] = r]
      BY <1>t, <1>1, <2>0 DEF FindAttempt, Calls, Go
    <3> QED BY <1>t, <1>1, <3>1, <3>2, <3>3, CallsGo DEF FindAttempt, Rows
  <2>1. CASE Finish(c)
    BY <1>t, <1>1, <2>1, CallsFinish DEF FindAttempt, Rows
  <2> QED BY <1>1, <2>0, <2>1 DEF FindAttempt
<1>2. CASE BankDenies(c)
  BY <1>t, <1>2, CallsFinish DEF BankDenies, Rows
<1>3. CASE BankFails(c)
  BY <1>t, <1>3, CallsFinish DEF BankFails, Rows
<1>4. ASSUME NEW p \in Person, BankIdentifies(c, p) PROVE Calls'
  <2> DEFINE r == [call[c] EXCEPT !.pc = "identity", !.person = p]
  <2>1. r \in CallRecords /\ r.at = call[c].at
    BY <1>t, <1>4 DEF BankIdentifies, RowsTyped, CallRecords, CallbackSteps, ExchangeSteps, EraseSteps
  <2>2. Ready(r)
    BY <1>t, <1>4 DEF BankIdentifies, RowsTyped, Ready, CallRecords, CallbackSteps, ExchangeSteps, EraseSteps, IdentifiedSteps
  <2>3. call' = [call EXCEPT ![c] = r]
    BY <1>t, <1>4 DEF BankIdentifies, Calls, Go
  <2> QED BY <1>t, <1>4, <2>1, <2>2, <2>3, CallsGo DEF BankIdentifies, Rows
<1>5. CASE ReadIdentity(c)
  <2> DEFINE row == identity[call[c].person]
             r == [call[c] EXCEPT !.seen = row,
                                  !.pc = IF row.known THEN "account" ELSE "insertIdentity"]
  <2>0. call[c].person \in Person /\ row \in IdentityRows
    BY <1>t, <1>5 DEF ReadIdentity, Ready, IdentifiedSteps, RowsTyped
  <2>1. r \in CallRecords /\ r.at = call[c].at
    BY <1>t, <2>0 DEF CallRecords, CallbackSteps
  <2>2. Ready(r)
    BY <1>t, <1>5 DEF ReadIdentity, Ready, CallRecords, CallbackSteps, ExchangeSteps, EraseSteps, IdentifiedSteps
  <2>3. call' = [call EXCEPT ![c] = r]
    BY <1>t, <1>5 DEF ReadIdentity, Calls
  <2> QED BY <1>t, <1>5, <2>1, <2>2, <2>3, CallsGo DEF ReadIdentity, Rows
<1>6. CASE ReadAccount(c)
  <2>1. CASE Go(c, "refuse") \/ Go(c, "insertAccount")
    <3>1. PICK step \in {"refuse", "insertAccount"} : Go(c, step)
      BY <2>1
    <3> DEFINE r == [call[c] EXCEPT !.pc = step]
    <3>2. r \in CallRecords /\ r.at = call[c].at
      BY <1>t DEF CallRecords, CallbackSteps
    <3>3. Ready(r)
      BY <1>t, <1>6 DEF ReadAccount, Ready, CallRecords, CallbackSteps, ExchangeSteps, EraseSteps, IdentifiedSteps
    <3>4. call' = [call EXCEPT ![c] = r]
      BY <1>t, <3>1 DEF Calls, Go
    <3> QED BY <1>t, <1>6, <3>2, <3>3, <3>4, CallsGo DEF ReadAccount, Rows
  <2>2. ASSUME NEW x \in Account,
               call' = [call EXCEPT ![c].pc = "attach", ![c].account = x]
        PROVE  Calls'
    <3> DEFINE r == [call[c] EXCEPT !.pc = "attach", !.account = x]
    <3>1. r \in CallRecords /\ r.at = call[c].at
      BY <1>t DEF CallRecords, CallbackSteps
    <3>2. Ready(r)
      BY <1>t, <1>6 DEF ReadAccount, Ready, CallRecords, CallbackSteps, ExchangeSteps, EraseSteps, IdentifiedSteps
    <3>3. call' = [call EXCEPT ![c] = r]
      BY <1>t, <2>2 DEF Calls
    <3> QED BY <1>t, <1>6, <3>1, <3>2, <3>3, CallsGo DEF ReadAccount, Rows
  <2> QED BY <1>6, <2>1, <2>2 DEF ReadAccount, LiveAccountsOf
<1>7. CASE CountRefused(c)
  BY <1>t, <1>7, CallsFinish DEF CountRefused, Rows
<1>8. CASE InsertIdentity(c)
  <2> DEFINE r == IF identity[call[c].person].known
                  THEN [call[c] EXCEPT !.pc = "identity", !.retried = TRUE]
                  ELSE [call[c] EXCEPT !.pc = "insertAccount"]
  <2>1. r \in CallRecords /\ r.at = call[c].at
    BY <1>t DEF CallRecords, CallbackSteps
  <2>2. Ready(r)
    BY <1>t, <1>8 DEF InsertIdentity, Ready, CallRecords, CallbackSteps, ExchangeSteps, EraseSteps, IdentifiedSteps
  <2>3. call' = [call EXCEPT ![c] = r]
    BY <1>t, <1>8 DEF InsertIdentity, Calls, Go
  <2> QED BY <1>t, <1>8, <2>1, <2>2, <2>3, CallsGo DEF InsertIdentity
<1>9. ASSUME NEW x \in Account, InsertAccount(c, x) PROVE Calls'
  <2> DEFINE r == [call[c] EXCEPT !.pc = "attach", !.account = x]
  <2>1. r \in CallRecords /\ r.at = call[c].at
    BY <1>t, <1>9 DEF InsertAccount, RowsTyped, CallRecords, CallbackSteps, ExchangeSteps, EraseSteps
  <2>2. Ready(r)
    BY <1>t, <1>9 DEF InsertAccount, RowsTyped, Ready, CallRecords, CallbackSteps, ExchangeSteps, EraseSteps, IdentifiedSteps
  <2>3. call' = [call EXCEPT ![c] = r]
    BY <1>t, <1>9 DEF InsertAccount, Calls, Go
  <2> QED BY <1>t, <1>9, <2>1, <2>2, <2>3, CallsGo DEF InsertAccount, Rows
<1>10. CASE AccountTaken(c)
  BY <1>t, <1>10, CallsFinish DEF AccountTaken, Rows
<1>11. CASE CheckAttach(c)
  <2> DEFINE r == [call[c] EXCEPT !.pc = "attaching"]
  <2>1. r \in CallRecords /\ r.at = call[c].at
    BY <1>t, <1>11 DEF CheckAttach, RowsTyped, CallRecords, CallbackSteps, ExchangeSteps, EraseSteps
  <2>2. Ready(r)
    BY <1>t, <1>11 DEF CheckAttach, RowsTyped, Ready, CallRecords, CallbackSteps, ExchangeSteps, EraseSteps, IdentifiedSteps
  <2>3. call' = [call EXCEPT ![c] = r]
    BY <1>t, <1>11 DEF CheckAttach, Calls, Go
  <2> QED BY <1>t, <1>11, <2>1, <2>2, <2>3, CallsGo DEF CheckAttach, Rows
<1>12. CASE AttachRefused(c)
  <2>0. CASE call[c].tries = 0
    <3> DEFINE r == [call[c] EXCEPT !.pc = "identity", !.tries = 1, !.account = None, !.retried = FALSE]
    <3>1. r \in CallRecords /\ r.at = call[c].at
      BY <1>t, <1>12 DEF AttachRefused, RowsTyped, CallRecords, CallbackSteps, ExchangeSteps, EraseSteps
    <3>2. Ready(r)
      BY <1>t, <1>12, <2>0 DEF AttachRefused, RowsTyped, Ready, CallRecords, CallbackSteps, ExchangeSteps, EraseSteps, IdentifiedSteps
    <3>3. call' = [call EXCEPT ![c] = r]
      BY <1>t, <1>12, <2>0 DEF AttachRefused, Calls, Go
    <3> QED BY <1>t, <1>12, <3>1, <3>2, <3>3, CallsGo DEF AttachRefused, Rows
  <2>1. CASE Finish(c)
    BY <1>t, <1>12, <2>1, CallsFinish DEF AttachRefused, Rows
  <2> QED BY <1>12, <2>0, <2>1 DEF AttachRefused
<1>13. ASSUME NEW k \in Code, AttachCode(c, k) PROVE Calls'
  BY <1>t, <1>13, CallsFinish DEF AttachCode, Rows
<1> QED BY <1>1, <1>2, <1>3, <1>4, <1>5, <1>6, <1>7, <1>8, <1>9, <1>10, <1>11, <1>12, <1>13
  DEF Callback

LEMMA CallbackKeepsRows ==
  ASSUME Typed, NEW c \in Call, Callback(c)
  PROVE  RowsTyped'
<1>t. Calls /\ RowsTyped /\ call[c] \in CallRecords /\ Ready(call[c])
  BY DEF Typed, Calls
<1>1. CASE FindAttempt(c)
  BY <1>t, <1>1 DEF FindAttempt, RowsTyped, Rows
<1>2. CASE BankDenies(c)
  <2> DEFINE a == call[c].attempt
  <2>1. a \in Attempt /\ call[c].at \in Nat
    BY <1>t, <1>2 DEF BankDenies, Ready, CallRecords, CallbackSteps
  <2>2. /\ Expired(attempt[a], call[c].at) \in AttemptRows
        /\ Expired(attempt[a], call[c].at).code = attempt[a].code
        /\ Expired(attempt[a], call[c].at).account = attempt[a].account
    <3>1. attempt[a] \in AttemptRows
      BY <1>t, <2>1 DEF RowsTyped
    <3>2. Expired(attempt[a], call[c].at) \in AttemptRows
      BY <2>1, <3>1, AttemptUpdates
    <3> QED BY <3>1, <3>2 DEF Expired, AttemptRows
  <2> QED BY <1>t, <1>2, <2>1, <2>2 DEF BankDenies, RowsTyped
<1>3. CASE BankFails(c)
  BY <1>t, <1>3 DEF BankFails, RowsTyped, Rows
<1>4. ASSUME NEW p \in Person, BankIdentifies(c, p) PROVE RowsTyped'
  BY <1>t, <1>4 DEF BankIdentifies, RowsTyped, Rows
<1>5. CASE ReadIdentity(c)
  BY <1>t, <1>5 DEF ReadIdentity, RowsTyped, Rows
<1>6. CASE ReadAccount(c)
  BY <1>t, <1>6 DEF ReadAccount, RowsTyped, Rows
<1>7. CASE CountRefused(c)
  <2> DEFINE p == call[c].person
  <2>1. p \in Person
    BY <1>t, <1>7 DEF CountRefused, Ready, IdentifiedSteps
  <2> DEFINE n == IF identity[p].refused < MaxRefused THEN identity[p].refused + 1 ELSE identity[p].refused
  <2>2. n \in Nat
    BY <1>t, <2>1 DEF RowsTyped, IdentityRows
  <2>3. [identity[p] EXCEPT !.refused = n] \in IdentityRows
    BY <1>t, <2>1, <2>2, IdentityUpdates DEF RowsTyped
  <2>4. identity' = [identity EXCEPT ![p] = [identity[p] EXCEPT !.refused = n]]
    BY <1>t, <1>7 DEF CountRefused, RowsTyped
  <2>5. identity' \in [Person -> IdentityRows]
    BY <1>t, <2>3, <2>4 DEF RowsTyped
  <2> QED BY <1>t, <1>7, <2>5 DEF CountRefused, RowsTyped
<1>8. CASE InsertIdentity(c)
  <2>1. FreshIdentity \in IdentityRows
    BY DEF FreshIdentity, NoIdentity, IdentityRows, NoDate, Standings
  <2>2. identity' \in [Person -> IdentityRows]
    BY <1>t, <1>8, <2>1 DEF InsertIdentity, RowsTyped
  <2> QED BY <1>t, <1>8, <2>2 DEF InsertIdentity, RowsTyped
<1>9. ASSUME NEW x \in Account, InsertAccount(c, x) PROVE RowsTyped'
  <2>1. call[c].person \in Person
    BY <1>t, <1>9 DEF InsertAccount, Ready, IdentifiedSteps
  <2> QED BY <1>t, <1>9, <2>1 DEF InsertAccount, RowsTyped, AccountRows
<1>10. CASE AccountTaken(c)
  BY <1>t, <1>10 DEF AccountTaken, RowsTyped, Rows
<1>11. CASE CheckAttach(c)
  BY <1>t, <1>11 DEF CheckAttach, RowsTyped, Rows
<1>12. CASE AttachRefused(c)
  BY <1>t, <1>12 DEF AttachRefused, RowsTyped, Rows
<1>13. ASSUME NEW k \in Code, AttachCode(c, k) PROVE RowsTyped'
  <2> DEFINE a == call[c].attempt
             x == call[c].account
  <2>1. a \in Attempt /\ x \in Account /\ call[c].person \in Person /\ call[c].at \in Nat
    BY <1>t, <1>13 DEF AttachCode, Ready, CallRecords, CallbackSteps, IdentifiedSteps
  <2>2. attempt' \in [Attempt -> AttemptRows]
    BY <1>t, <1>13, <2>1, AttachedRow DEF AttachCode, RowsTyped
  <2>3. \A b \in Attempt : attempt'[b].code # None => attempt'[b].account \in Account
    BY <1>t, <1>13, <2>1 DEF AttachCode, Attached, RowsTyped, AttemptRows
  <2>4. mailed' \in [Code -> MailedCodes]
    BY <1>t, <1>13, <2>1 DEF AttachCode, RowsTyped, MailedCodes
  <2>5. \A l \in Code : mailed'[l].attempt # None => mailed'[l].person \in Person
    BY <1>t, <1>13, <2>1 DEF AttachCode, RowsTyped, MailedCodes
  <2> QED BY <1>t, <1>13, <2>2, <2>3, <2>4, <2>5 DEF AttachCode, RowsTyped
<1> QED BY <1>1, <1>2, <1>3, <1>4, <1>5, <1>6, <1>7, <1>8, <1>9, <1>10, <1>11, <1>12, <1>13
  DEF Callback

LEMMA ExchangeTyped ==
  ASSUME Typed, NEW c \in Call, Exchange(c)
  PROVE  Typed'
<1>t. Calls /\ RowsTyped /\ call[c] \in CallRecords /\ Ready(call[c])
  BY DEF Typed, Calls
<1>1. CASE FindCode(c)
  <2>1. ASSUME NEW a \in Attempt, Exchangeable(a, call[c].code, call[c].at),
               call' = [call EXCEPT ![c].pc = "consume", ![c].attempt = a,
                                    ![c].account = attempt[a].account]
        PROVE  Calls'
    <3> DEFINE r == [call[c] EXCEPT !.pc = "consume", !.attempt = a, !.account = attempt[a].account]
    <3>1. call[c].code \in Code /\ attempt[a].account \in Account
      BY <1>t, <1>1, <2>1, LoginAssumption
      DEF FindCode, Ready, ExchangeSteps, Exchangeable, RowsTyped
    <3>2. r \in CallRecords /\ r.at = call[c].at
      BY <1>t, <3>1 DEF CallRecords, ExchangeSteps
    <3>3. Ready(r)
      BY <1>t, <3>1 DEF Ready, CallRecords, CallbackSteps, ExchangeSteps, EraseSteps, IdentifiedSteps
    <3>4. call' = [call EXCEPT ![c] = r]
      BY <1>t, <2>1 DEF Calls
    <3> QED BY <1>t, <1>1, <3>2, <3>3, <3>4, CallsGo DEF FindCode, Rows
  <2>2. ASSUME Finish(c) PROVE Calls'
    BY <1>t, <1>1, <2>2, CallsFinish DEF FindCode, Rows
  <2>3. Calls'
    BY <1>1, <2>1, <2>2 DEF FindCode
  <2>4. RowsTyped'
    BY <1>t, <1>1 DEF FindCode, RowsTyped, Rows
  <2> QED BY <2>3, <2>4 DEF Typed
<1>2. CASE ConsumeCode(c)
  <2>1. CASE Consumable(call[c].attempt)
    <3> DEFINE r == [call[c] EXCEPT !.pc = "issue"]
    <3>1. r \in CallRecords /\ r.at = call[c].at
      BY <1>t DEF CallRecords, ExchangeSteps
    <3>2. Ready(r)
      BY <1>t, <1>2 DEF ConsumeCode, Ready, CallRecords, CallbackSteps, ExchangeSteps, EraseSteps, IdentifiedSteps
    <3>3. call' = [call EXCEPT ![c] = r]
      BY <1>t, <1>2, <2>1 DEF ConsumeCode, Go, Calls
    <3>4. Calls'
      BY <1>t, <1>2, <3>1, <3>2, <3>3, CallsGo DEF ConsumeCode
    <3> DEFINE a == call[c].attempt
    <3>5. a \in Attempt /\ [attempt[a] EXCEPT !.used = TRUE] \in AttemptRows
      BY <1>t, <1>2, AttemptUpdates DEF ConsumeCode, Ready, RowsTyped
    <3>6. attempt' = [attempt EXCEPT ![a] = [attempt[a] EXCEPT !.used = TRUE]]
      BY <1>t, <1>2, <2>1 DEF ConsumeCode, RowsTyped
    <3>7. RowsTyped'
      BY <1>t, <1>2, <2>1, <3>5, <3>6 DEF ConsumeCode, RowsTyped, AttemptRows
    <3> QED BY <3>4, <3>7 DEF Typed
  <2>2. CASE ~Consumable(call[c].attempt)
    <3>1. Calls'
      BY <1>t, <1>2, <2>2, CallsFinish DEF ConsumeCode
    <3>2. RowsTyped'
      BY <1>t, <1>2, <2>2 DEF ConsumeCode, RowsTyped
    <3> QED BY <3>1, <3>2 DEF Typed
  <2> QED BY <2>1, <2>2
<1>3. CASE CheckIssue(c)
  <2>1. ASSUME Live(call[c].account) PROVE Calls'
    <3> DEFINE r == [call[c] EXCEPT !.pc = "inserting"]
    <3>1. r \in CallRecords /\ r.at = call[c].at
      BY <1>t DEF CallRecords, ExchangeSteps
    <3>2. Ready(r)
      BY <1>t, <1>3 DEF CheckIssue, Ready, CallRecords, CallbackSteps, ExchangeSteps, EraseSteps, IdentifiedSteps
    <3>3. call' = [call EXCEPT ![c] = r]
      BY <1>t, <1>3, <2>1 DEF CheckIssue, Go, Calls
    <3> QED BY <1>t, <1>3, <3>1, <3>2, <3>3, CallsGo DEF CheckIssue, Rows
  <2>2. ASSUME ~Live(call[c].account) PROVE Calls'
    BY <1>t, <1>3, <2>2, CallsFinish DEF CheckIssue, Rows
  <2>3. RowsTyped'
    BY <1>t, <1>3 DEF CheckIssue, RowsTyped, Rows
  <2> QED BY <2>1, <2>2, <2>3 DEF Typed
<1>4. ASSUME NEW s \in Session, InsertSession(c, s) PROVE Typed'
  <2>1. Calls'
    BY <1>t, <1>4, CallsFinish DEF InsertSession
  <2>2. call[c].account \in Account /\ call[c].code \in Code /\ call[c].attempt \in Attempt
    BY <1>t, <1>4 DEF InsertSession, Ready, ExchangeSteps
  <2>3. RowsTyped'
    BY <1>t, <1>4, <2>2 DEF InsertSession, RowsTyped, SessionRows
  <2> QED BY <2>1, <2>3 DEF Typed
<1> QED BY <1>1, <1>2, <1>3, <1>4
  DEF Exchange

LEMMA EraseTyped ==
  ASSUME Typed, NEW c \in Call, Erase(c)
  PROVE  Typed'
<1>t. Calls /\ RowsTyped /\ call[c] \in CallRecords /\ Ready(call[c])
  BY DEF Typed, Calls
<1>1. CASE LockAccount(c)
  <2>1. CASE Live(call[c].account)
    <3> DEFINE x == call[c].account
               r == [call[c] EXCEPT !.pc = "erasing", !.seen = identity[account[x].person]]
    <3>1. x \in Account /\ account[x].person \in Person
      BY <1>t, <1>1, <2>1 DEF LockAccount, Live, Ready, EraseSteps, RowsTyped
    <3>2. r \in CallRecords /\ r.at = call[c].at
      BY <1>t, <3>1 DEF RowsTyped, CallRecords, EraseSteps
    <3>3. Ready(r)
      BY <1>t, <3>1 DEF Ready, CallRecords, CallbackSteps, ExchangeSteps, EraseSteps, IdentifiedSteps
    <3>4. call' = [call EXCEPT ![c] = r]
      BY <1>t, <1>1, <2>1 DEF LockAccount, Calls
    <3>5. Calls'
      BY <1>t, <1>1, <3>2, <3>3, <3>4, CallsGo DEF LockAccount
    <3>6. RowsTyped'
      BY <1>t, <1>1, <2>1 DEF LockAccount, RowsTyped
    <3> QED BY <3>5, <3>6 DEF Typed
  <2>2. CASE ~Live(call[c].account)
    <3>1. Calls'
      BY <1>t, <1>1, <2>2, CallsFinish DEF LockAccount
    <3>2. RowsTyped'
      BY <1>t, <1>1, <2>2 DEF LockAccount, RowsTyped
    <3> QED BY <3>1, <3>2 DEF Typed
  <2> QED BY <2>1, <2>2
<1>2. CASE CommitErase(c)
  <2>1. Calls'
    BY <1>t, <1>2, CallsFinish DEF CommitErase
  <2> DEFINE x == call[c].account
             p == account[x].person
  <2>a. x \in Account /\ p \in Person /\ call[c].at \in Nat /\ call[c].seen.deletions \in Nat
    BY <1>t, <1>2 DEF CommitErase, Live, Ready, EraseSteps, RowsTyped, CallRecords, IdentityRows
  <2>b. recordDeletion(identity[p], call[c].seen.deletions, call[c].at) \in IdentityRows
    BY <1>t, <2>a, IdentityUpdates DEF RowsTyped
  <2>2. identity' \in [Person -> IdentityRows]
    BY <1>t, <1>2, <2>a, <2>b DEF CommitErase, RowsTyped
  <2>c. account' = [account EXCEPT ![x] = [account[x] EXCEPT !.state = "deleted"]]
    BY <1>t, <1>2 DEF CommitErase, RowsTyped
  <2>d. [account[x] EXCEPT !.state = "deleted"] \in AccountRows
    BY <1>t, <2>a DEF RowsTyped, AccountRows
  <2>3. account' \in [Account -> AccountRows] /\ lock' \in [Account -> Call \cup {None}]
    BY <1>t, <1>2, <2>a, <2>c, <2>d DEF CommitErase, RowsTyped
  <2>4. \A w \in Account : account'[w].state # "absent" => account'[w].person \in Person
    BY <1>t, <1>2 DEF CommitErase, Live, RowsTyped, AccountRows
  <2>5. /\ attempt' \in [Attempt -> AttemptRows]
        /\ \A a \in Attempt : attempt'[a].code # None => attempt'[a].account \in Account
    BY <1>t, <1>2 DEF CommitErase, RowsTyped, AttemptRows
  <2>6. /\ session' \in [Session -> SessionRows]
        /\ \A s \in Session : session'[s].row # "unused" =>
             /\ session'[s].account \in Account
             /\ session'[s].code \in Code
             /\ session'[s].attempt \in Attempt
    BY <1>t, <1>2 DEF CommitErase, RowsTyped, SessionRows
  <2>7. RowsTyped'
    BY <1>t, <1>2, <2>2, <2>3, <2>4, <2>5, <2>6 DEF CommitErase, RowsTyped
  <2> QED BY <2>1, <2>7 DEF Typed
<1> QED BY <1>1, <1>2
  DEF Erase

\* A new call is well formed.
LEMMA BeginTyped ==
  ASSUME Typed, NEW c \in Call, Begin(c)
  PROVE  Typed'
<1>t. Calls /\ RowsTyped
  BY DEF Typed
<1>u. Idle \in CallRecords /\ now \in Nat /\ now <= now
  BY <1>t, IdleReady DEF Calls
<1>1. ASSUME NEW a \in Attempt, BeginCallback(c, a) PROVE Typed'
  <2> DEFINE r == [Idle EXCEPT !.pc = "find", !.at = now, !.attempt = a,
                               !.afterCancel = attempt[a].cancelled]
  <2>1. attempt[a].cancelled \in BOOLEAN
    BY <1>t DEF RowsTyped, AttemptRows
  <2>2. r \in CallRecords /\ r.at = now
    BY <1>u, <2>1 DEF CallRecords, CallbackSteps
  <2>3. Ready(r)
    BY <1>u DEF Ready, CallRecords, CallbackSteps, ExchangeSteps, EraseSteps, IdentifiedSteps
  <2>4. Calls'
    BY <1>t, <1>u, <1>1, <2>2, <2>3, CallsMove DEF BeginCallback
  <2>5. RowsTyped'
    BY <1>t, <1>1 DEF BeginCallback, RowsTyped, Rows
  <2> QED BY <2>4, <2>5 DEF Typed
<1>2. ASSUME NEW k \in Code, BeginExchange(c, k) PROVE Typed'
  <2> DEFINE r == [Idle EXCEPT !.pc = "findCode", !.at = now, !.code = k]
  <2>1. r \in CallRecords /\ r.at = now
    BY <1>u DEF CallRecords, ExchangeSteps
  <2>2. Ready(r)
    BY <1>u DEF Ready, CallRecords, CallbackSteps, ExchangeSteps, EraseSteps, IdentifiedSteps
  <2>3. Calls'
    BY <1>t, <1>u, <1>2, <2>1, <2>2, CallsMove DEF BeginExchange, Rows
  <2>4. RowsTyped'
    BY <1>t, <1>2 DEF BeginExchange, RowsTyped, Rows
  <2> QED BY <2>3, <2>4 DEF Typed
<1>3. ASSUME NEW s \in Session, BeginErase(c, s) PROVE Typed'
  <2> DEFINE r == [Idle EXCEPT !.pc = "lock", !.at = now, !.account = session[s].account]
  <2>1. session[s].account \in Account
    BY <1>t, <1>3 DEF BeginErase, Answers, RowsTyped
  <2>2. r \in CallRecords /\ r.at = now
    BY <1>u, <2>1 DEF CallRecords, EraseSteps
  <2>3. Ready(r)
    BY <1>u, <2>1 DEF Ready, CallRecords, CallbackSteps, ExchangeSteps, EraseSteps, IdentifiedSteps
  <2>4. Calls'
    BY <1>t, <1>u, <1>3, <2>2, <2>3, CallsMove DEF BeginErase, Rows
  <2>5. RowsTyped'
    BY <1>t, <1>3 DEF BeginErase, RowsTyped, Rows
  <2> QED BY <2>4, <2>5 DEF Typed
<1> QED BY <1>1, <1>2, <1>3 DEF Begin

LEMMA EnvironmentTyped ==
  ASSUME Typed, Environment
  PROVE  Typed'
<1>t. Calls /\ RowsTyped
  BY DEF Typed
<1>1. ASSUME NEW a \in Attempt, StartLogin(a) PROVE Typed'
  <2> DEFINE e == now + RequestTTL
  <2>1. e \in Nat
    BY <1>t, LoginAssumption DEF Calls
  <2> HIDE DEF e
  <2>2. attempt' = [attempt EXCEPT ![a] = [attempt[a] EXCEPT !.row = "open", !.expiresAt = e]]
    BY <1>t, <1>1 DEF StartLogin, RowsTyped, e
  <2>3. attempt[a] \in AttemptRows
    BY <1>t DEF RowsTyped
  <2>4. [attempt[a] EXCEPT !.row = "open", !.expiresAt = e] \in AttemptRows
    BY <2>1, <2>3, AttemptUpdates
  <2>5. attempt' \in [Attempt -> AttemptRows]
    BY <1>t, <2>2, <2>4 DEF RowsTyped
  <2>6. \A b \in Attempt : attempt'[b].code = attempt[b].code /\ attempt'[b].account = attempt[b].account
    BY <1>t, <2>2 DEF RowsTyped, AttemptRows
  <2>7. RowsTyped'
    BY <1>t, <1>1, <2>5, <2>6 DEF StartLogin, RowsTyped
  <2> QED BY <1>t, <1>1, <2>7 DEF StartLogin, Calls, Typed
<1>2. ASSUME NEW p \in Person, Sanction(p) PROVE Typed'
  <2>1. identity' = [identity EXCEPT ![p] = [identity[p] EXCEPT !.standing = "sanctioned"]]
    BY <1>t, <1>2 DEF Sanction, RowsTyped
  <2>2. [identity[p] EXCEPT !.standing = "sanctioned"] \in IdentityRows
    BY <1>t DEF RowsTyped, IdentityRows, Standings
  <2> QED BY <1>t, <1>2, <2>1, <2>2 DEF Sanction, RowsTyped, Calls, Typed
<1>3. ASSUME NEW c \in Call, Crash(c) PROVE Typed'
  <2>1. Calls'
    BY <1>t, <1>3, CallsFinish DEF Crash
  <2> QED BY <1>t, <1>3, <2>1 DEF Crash, RowsTyped, Typed
<1>4. CASE Tick
  BY <1>t, <1>4 DEF Tick, Rows, RowsTyped, Calls, CallRecords, Typed
<1> QED BY <1>1, <1>2, <1>3, <1>4 DEF Environment

LEMMA SweepTyped ==
  ASSUME Typed, SweepSessions \/ SweepAttempts
  PROVE  Typed'
<1>t. Calls /\ RowsTyped
  BY DEF Typed
<1>1. CASE SweepSessions
  <2>1. \A s \in Session :
          /\ session'[s] \in SessionRows
          /\ session'[s].account = session[s].account
          /\ session'[s].code = session[s].code
          /\ session'[s].attempt = session[s].attempt
          /\ session'[s].row # "unused" => session[s].row # "unused"
    BY <1>t, <1>1 DEF SweepSessions, Dead, RowsTyped, SessionRows
  <2>2. session' \in [Session -> SessionRows]
    BY <1>1, <2>1 DEF SweepSessions
  <2> QED BY <1>t, <1>1, <2>1, <2>2 DEF SweepSessions, RowsTyped, Calls, Typed
<1>2. CASE SweepAttempts
  <2>1. \A a \in Attempt :
          /\ attempt'[a] \in AttemptRows
          /\ attempt'[a].code = attempt[a].code
          /\ attempt'[a].account = attempt[a].account
    BY <1>t, <1>2 DEF SweepAttempts, RowsTyped, AttemptRows
  <2>2. attempt' \in [Attempt -> AttemptRows]
    BY <1>2, <2>1 DEF SweepAttempts
  <2> QED BY <1>t, <1>2, <2>1, <2>2 DEF SweepAttempts, RowsTyped, Calls, Typed
<1> QED BY <1>1, <1>2

LEMMA TypedNext == Typed /\ [Next]_vars => Typed'
<1> SUFFICES ASSUME Typed, [Next]_vars PROVE Typed'
  OBVIOUS
<1>1. ASSUME NEW c \in Call, Step(c) PROVE Typed'
  BY <1>1, CallbackKeepsCalls, CallbackKeepsRows, ExchangeTyped, EraseTyped DEF Step, Typed
<1>2. CASE UNCHANGED vars
  BY <1>2 DEF vars, Typed, Calls, RowsTyped
<1> QED BY <1>1, <1>2, BeginTyped, EnvironmentTyped, SweepTyped DEF Next

\* Login's type invariant: every row and every handler's record keeps its
\* columns, for any number of people, rows and handlers.
THEOREM LoginTypeOK == Spec => []TypeOK
<1>1. Typed => TypeOK
  BY DEF Typed, Calls, RowsTyped, TypeOK
<1> QED BY <1>1, TypedInit, TypedNext, PTL DEF Spec

-----------------------------------------------------------------------------
(* What the steps of one kind leave alone *)

\* A callback writes no session and spends no code; it keeps its person once
\* it is known.
LEMMA CallbackQuiet ==
  ASSUME Typed, NEW c \in Call, Callback(c)
  PROVE  /\ session' = session /\ now' = now /\ lock' = lock
         /\ call'[c].pc \in CallbackSteps \cup {"idle"}
         /\ \A d \in Call : d # c => call'[d] = call[d]
         /\ \A a \in Attempt : attempt'[a].used = attempt[a].used
<1>t. Calls /\ RowsTyped
  BY DEF Typed
<1>1. CASE FindAttempt(c)
  BY <1>t, <1>1, IdleReady DEF FindAttempt, Rows, Go, Finish, Calls, CallRecords, CallbackSteps
<1>2. CASE BankDenies(c)
  BY <1>t, <1>2, IdleReady DEF BankDenies, Expired, Finish, Calls, RowsTyped, AttemptRows
<1>3. CASE BankFails(c)
  BY <1>t, <1>3, IdleReady DEF BankFails, Rows, Finish, Calls
<1>4. ASSUME NEW p \in Person, BankIdentifies(c, p)
      PROVE  /\ session' = session /\ now' = now /\ lock' = lock
             /\ call'[c].pc \in CallbackSteps \cup {"idle"}
             /\ \A d \in Call : d # c => call'[d] = call[d]
             /\ \A a \in Attempt : attempt'[a].used = attempt[a].used
  BY <1>t, <1>4 DEF BankIdentifies, Rows, Calls, CallRecords, CallbackSteps
<1>5. CASE ReadIdentity(c)
  BY <1>t, <1>5 DEF ReadIdentity, Rows, Calls, CallRecords, CallbackSteps
<1>6. CASE ReadAccount(c)
  BY <1>t, <1>6 DEF ReadAccount, Rows, Go, Calls, CallRecords, CallbackSteps
<1>7. CASE CountRefused(c)
  BY <1>t, <1>7, IdleReady DEF CountRefused, Finish, Calls
<1>8. CASE InsertIdentity(c)
  BY <1>t, <1>8 DEF InsertIdentity, Go, Calls, CallRecords, CallbackSteps
<1>9. ASSUME NEW x \in Account, InsertAccount(c, x)
      PROVE  /\ session' = session /\ now' = now /\ lock' = lock
             /\ call'[c].pc \in CallbackSteps \cup {"idle"}
             /\ \A d \in Call : d # c => call'[d] = call[d]
             /\ \A a \in Attempt : attempt'[a].used = attempt[a].used
  BY <1>t, <1>9 DEF InsertAccount, Calls, CallRecords, CallbackSteps
<1>10. CASE AccountTaken(c)
  BY <1>t, <1>10, IdleReady DEF AccountTaken, Rows, Finish, Calls
<1>11. CASE CheckAttach(c)
  BY <1>t, <1>11 DEF CheckAttach, Rows, Go, Calls, CallRecords, CallbackSteps
<1>12. CASE AttachRefused(c)
  BY <1>t, <1>12, IdleReady DEF AttachRefused, Rows, Finish, Calls, CallRecords, CallbackSteps
<1>13. ASSUME NEW k \in Code, AttachCode(c, k)
       PROVE  /\ session' = session /\ now' = now /\ lock' = lock
              /\ call'[c].pc \in CallbackSteps \cup {"idle"}
              /\ \A d \in Call : d # c => call'[d] = call[d]
              /\ \A a \in Attempt : attempt'[a].used = attempt[a].used
  BY <1>t, <1>13, IdleReady DEF AttachCode, Attached, Finish, Calls, RowsTyped, AttemptRows
<1> QED BY <1>1, <1>2, <1>3, <1>4, <1>5, <1>6, <1>7, <1>8, <1>9, <1>10, <1>11, <1>12, <1>13
  DEF Callback

LEMMA CallbackOnly ==
  ASSUME NEW c \in Call, Callback(c)
  PROVE  call[c].pc \in CallbackSteps
BY DEF Callback, FindAttempt, BankDenies, BankFails, BankIdentifies, ReadIdentity, ReadAccount,
  CountRefused, InsertIdentity, InsertAccount, AccountTaken, CheckAttach, AttachRefused,
  AttachCode, CallbackSteps

\* An exchange touches only the attempt it spends and the session it writes.
LEMMA ExchangeQuiet ==
  ASSUME Typed, NEW c \in Call, Exchange(c)
  PROVE  /\ UNCHANGED <<now, identity, account, lock, mailed>>
         /\ call[c].pc \in ExchangeSteps
         /\ call'[c].pc \in {"consume", "issue", "inserting", "idle"}
         /\ FindCode(c) => call'[c].pc \in {"consume", "idle"}
         /\ \A d \in Call : d # c => call'[d] = call[d]
<1> DEFINE Goal == /\ call'[c].pc \in {"consume", "issue", "inserting", "idle"}
                   /\ FindCode(c) => call'[c].pc \in {"consume", "idle"}
                   /\ \A d \in Call : d # c => call'[d] = call[d]
<1>t. Calls
  BY DEF Typed
<1>1. UNCHANGED <<now, identity, account, lock, mailed>> /\ call[c].pc \in ExchangeSteps
  BY DEF Exchange, FindCode, ConsumeCode, CheckIssue, InsertSession, Rows, ExchangeSteps
<1>2. ASSUME Finish(c) PROVE Goal
  BY <1>t, <1>2, IdleReady DEF Finish, Calls
<1>3. ASSUME NEW a \in Attempt,
             call' = [call EXCEPT ![c].pc = "consume", ![c].attempt = a,
                                  ![c].account = attempt[a].account]
      PROVE  Goal
  BY <1>t, <1>3 DEF Calls, CallRecords
<1>4. ASSUME call[c].pc \in {"consume", "issue"}, Go(c, "issue") \/ Go(c, "inserting")
      PROVE  Goal
  BY <1>t, <1>4 DEF Go, Calls, CallRecords, FindCode
<1> QED BY <1>1, <1>2, <1>3, <1>4 DEF Exchange, FindCode, ConsumeCode, CheckIssue, InsertSession

\* An erasure mails no code and spends none; it removes rows and writes none.
LEMMA EraseQuiet ==
  ASSUME Typed, NEW c \in Call, Erase(c)
  PROVE  /\ mailed' = mailed /\ now' = now
         /\ call'[c].pc \in {"erasing", "idle"}
         /\ \A d \in Call : d # c => call'[d] = call[d]
         /\ \A a \in Attempt :
              /\ attempt'[a].used = attempt[a].used
              /\ attempt'[a].code = attempt[a].code
              /\ attempt'[a].account = attempt[a].account
         /\ \A s \in Session :
              /\ session'[s].row # "unused" => session[s].row # "unused"
              /\ session'[s].attempt = session[s].attempt
              /\ session'[s].code = session[s].code
              /\ session'[s].account = session[s].account
         /\ \A x \in Account :
              /\ account'[x].person = account[x].person
              /\ account'[x].state = "absent" <=> account[x].state = "absent"
<1>t. Calls /\ RowsTyped
  BY DEF Typed
<1>1. CASE LockAccount(c)
  BY <1>t, <1>1, IdleReady DEF LockAccount, Finish, Calls, CallRecords, EraseSteps
<1>2. CASE CommitErase(c)
  BY <1>t, <1>2, IdleReady DEF CommitErase, Live, Finish, Calls, RowsTyped, AccountRows, AttemptRows, SessionRows
<1> QED BY <1>1, <1>2 DEF Erase

\* A call that begins has not yet run a statement.
LEMMA BeginQuiet ==
  ASSUME Typed, NEW c \in Call, Begin(c)
  PROVE  /\ UNCHANGED <<now, Rows>>
         /\ call[c].pc = "idle"
         /\ call'[c].pc \in {"find", "findCode", "lock"}
         /\ \A d \in Call : d # c => call'[d] = call[d]
BY IdleReady DEF Begin, BeginCallback, BeginExchange, BeginErase, Typed, Calls, Rows, Idle

\* The sweep and the environment only end calls; they create and spend nothing.
LEMMA OthersQuiet ==
  ASSUME Typed, SweepSessions \/ SweepAttempts \/ Environment
  PROVE  /\ account' = account /\ mailed' = mailed
         /\ \A c \in Call : call'[c] = call[c] \/ call'[c] = Idle
         /\ \A a \in Attempt :
              /\ attempt'[a].used = attempt[a].used
              /\ attempt'[a].code = attempt[a].code
              /\ attempt'[a].account = attempt[a].account
         /\ \A s \in Session :
              /\ session'[s].row # "unused" => session[s].row # "unused"
              /\ session'[s].attempt = session[s].attempt
              /\ session'[s].code = session[s].code
              /\ session'[s].account = session[s].account
<1>t. Calls /\ RowsTyped
  BY DEF Typed
<1>1. CASE SweepSessions
  BY <1>t, <1>1 DEF SweepSessions, Dead, RowsTyped, SessionRows
<1>2. CASE SweepAttempts
  BY <1>t, <1>2 DEF SweepAttempts, RowsTyped, AttemptRows
<1>3. ASSUME NEW a \in Attempt, StartLogin(a)
      PROVE  /\ UNCHANGED <<account, mailed, session, call>>
             /\ \A b \in Attempt :
                  /\ attempt'[b].used = attempt[b].used
                  /\ attempt'[b].code = attempt[b].code
                  /\ attempt'[b].account = attempt[b].account
  BY <1>t, <1>3 DEF StartLogin, RowsTyped, AttemptRows
<1>4. ASSUME NEW p \in Person, Sanction(p)
      PROVE  UNCHANGED <<account, mailed, attempt, session, call>>
  BY <1>4 DEF Sanction
<1>5. ASSUME NEW c \in Call, Crash(c)
      PROVE  /\ UNCHANGED <<account, mailed, attempt, session>>
             /\ \A d \in Call : call'[d] = call[d] \/ call'[d] = Idle
  BY <1>t, <1>5 DEF Crash, Finish, Calls
<1>6. CASE Tick
  BY <1>6 DEF Tick, Rows
<1> QED BY <1>1, <1>2, <1>3, <1>4, <1>5, <1>6 DEF Environment

-----------------------------------------------------------------------------
(* One live account per identity *)

LEMMA AccountSteps ==
  ASSUME Typed, [Next]_vars
  PROVE  \/ account' = account
         \/ \E c \in Call, x \in Account : InsertAccount(c, x)
         \/ \E c \in Call : CommitErase(c)
<1>1. ASSUME NEW c \in Call, Callback(c)
      PROVE  account' = account \/ \E x \in Account : InsertAccount(c, x)
  BY <1>1 DEF Callback, FindAttempt, BankDenies, BankFails, BankIdentifies, ReadIdentity,
    ReadAccount, CountRefused, InsertIdentity, AccountTaken, CheckAttach, AttachRefused,
    AttachCode, Rows
<1>2. ASSUME NEW c \in Call, Exchange(c) PROVE account' = account
  BY <1>2 DEF Exchange, FindCode, ConsumeCode, CheckIssue, InsertSession, Rows
<1>3. ASSUME NEW c \in Call, Erase(c) PROVE account' = account \/ CommitErase(c)
  BY <1>3 DEF Erase, LockAccount
<1>4. ASSUME NEW c \in Call, Begin(c) PROVE account' = account
  BY <1>4, BeginQuiet DEF Rows
<1>5. CASE UNCHANGED vars
  BY <1>5 DEF vars
<1> QED BY <1>1, <1>2, <1>3, <1>4, <1>5, OthersQuiet DEF Next, Step

LEMMA OneLiveAccountNext ==
  ASSUME Typed, OneLiveAccount, [Next]_vars
  PROVE  OneLiveAccount'
<1>t. RowsTyped
  BY DEF Typed
<1>1. CASE account' = account
  BY <1>1 DEF OneLiveAccount, Live
<1>2. ASSUME NEW c \in Call, NEW x \in Account, InsertAccount(c, x) PROVE OneLiveAccount'
  BY <1>t, <1>2 DEF InsertAccount, LiveAccountsOf, OneLiveAccount, Live, RowsTyped, AccountRows
<1>3. ASSUME NEW c \in Call, CommitErase(c) PROVE OneLiveAccount'
  BY <1>t, <1>3 DEF CommitErase, OneLiveAccount, Live, RowsTyped, AccountRows
<1> QED BY <1>1, <1>2, <1>3, AccountSteps

\* At most one live account per identity, for any number of logins and
\* erasures of the same person at once.
THEOREM LoginOneLiveAccount == Spec => []OneLiveAccount
<1>1. Init => OneLiveAccount
  BY DEF Init, OneLiveAccount, Live
<1> QED BY <1>1, TypedInit, TypedNext, OneLiveAccountNext, PTL DEF Spec

-----------------------------------------------------------------------------
(* One session per attempt *)

Issuing(c) == call[c].pc \in {"issue", "inserting"}

Issued(s) == session[s].row # "unused"

\* The right to issue the session of an attempt: spent by consumeCode, held by
\* one handler, and never again after the session is there.
Spent ==
  /\ \A c \in Call : Issuing(c) => attempt[call[c].attempt].used
  /\ \A s \in Session : Issued(s) => attempt[session[s].attempt].used
  /\ \A c, d \in Call : Issuing(c) /\ Issuing(d) /\ call[c].attempt = call[d].attempt => c = d
  /\ \A c \in Call, s \in Session : Issuing(c) /\ Issued(s) => session[s].attempt # call[c].attempt
  /\ OneSessionPerAttempt

\* Spent is kept by a step that issues nothing and spends nothing.
LEMMA SpentQuiet ==
  ASSUME Typed, Spent,
         \A c \in Call : Issuing(c)' => Issuing(c) /\ call'[c].attempt = call[c].attempt,
         \A a \in Attempt : attempt[a].used => attempt'[a].used,
         \A s \in Session : Issued(s)' => Issued(s) /\ session'[s].attempt = session[s].attempt
  PROVE  Spent'
<1>1. \A c \in Call : Issuing(c) => call[c].attempt \in Attempt
  BY DEF Issuing, Typed, Calls, Ready
<1>2. \A s \in Session : Issued(s) => session[s].attempt \in Attempt
  BY DEF Issued, Typed, RowsTyped
<1> QED BY <1>1, <1>2 DEF Spent, OneSessionPerAttempt, Issued

LEMMA SpentNext ==
  ASSUME Typed, Spent, [Next]_vars
  PROVE  Spent'
<1>t. Calls /\ RowsTyped
  BY DEF Typed
<1>1. ASSUME NEW c \in Call, Callback(c) PROVE Spent'
  BY <1>1, CallbackQuiet, SpentQuiet DEF Issuing, Issued, CallbackSteps
<1>2. ASSUME NEW c \in Call, Erase(c) PROVE Spent'
  BY <1>2, EraseQuiet, SpentQuiet DEF Issuing, Issued
<1>3. ASSUME NEW c \in Call, Begin(c) PROVE Spent'
  BY <1>3, BeginQuiet, SpentQuiet DEF Issuing, Issued, Rows
<1>4. CASE SweepSessions \/ SweepAttempts \/ Environment
  BY <1>4, OthersQuiet, SpentQuiet, IdleReady DEF Issuing, Issued
<1>5. ASSUME NEW c \in Call, FindCode(c) PROVE Spent'
  <2>1. ~Issuing(c)' /\ \A d \in Call : d # c => call'[d] = call[d]
    BY <1>5, ExchangeQuiet DEF Exchange, Issuing
  <2> QED BY <1>5, <2>1, SpentQuiet DEF FindCode, Issuing, Issued, Rows
<1>6. ASSUME NEW c \in Call, ConsumeCode(c) PROVE Spent'
  <2> DEFINE a == call[c].attempt
  <2>0. a \in Attempt /\ ~Issuing(c) /\ session' = session
    BY <1>t, <1>6 DEF ConsumeCode, Issuing, Calls, Ready
  <2>1. CASE Consumable(a)
    <3>1. attempt'[a].used /\ ~attempt[a].used
      BY <1>t, <1>6, <2>0, <2>1 DEF ConsumeCode, Consumable, RowsTyped, AttemptRows
    <3>2. \A b \in Attempt : attempt[b].used => attempt'[b].used
      BY <1>t, <1>6, <2>0, <2>1 DEF ConsumeCode, RowsTyped, AttemptRows
    <3>3. /\ Issuing(c)' /\ call'[c].attempt = a
          /\ \A d \in Call : d # c => call'[d] = call[d]
      BY <1>t, <1>6, <2>1 DEF ConsumeCode, Issuing, Go, Calls, CallRecords
    <3>4. \A d \in Call : Issuing(d) => call[d].attempt # a /\ call[d].attempt \in Attempt
      BY <1>t, <3>1 DEF Spent, Issuing, Calls, Ready
    <3>5. \A s \in Session : Issued(s) => session[s].attempt # a /\ session[s].attempt \in Attempt
      BY <1>t, <3>1 DEF Spent, Issued, RowsTyped
    <3> QED BY <2>0, <3>1, <3>2, <3>3, <3>4, <3>5 DEF Spent, Issuing, Issued, OneSessionPerAttempt
  <2>2. CASE ~Consumable(a)
    <3>1. ~Issuing(c)' /\ \A d \in Call : d # c => call'[d] = call[d]
      BY <1>t, <1>6, <2>2, IdleReady DEF ConsumeCode, Issuing, Finish, Calls
    <3> QED BY <1>6, <2>2, <3>1, SpentQuiet DEF ConsumeCode, Issuing, Issued
  <2> QED BY <2>1, <2>2
<1>7. ASSUME NEW c \in Call, CheckIssue(c) PROVE Spent'
  <2>1. /\ Issuing(c)' => call'[c].attempt = call[c].attempt
        /\ \A d \in Call : d # c => call'[d] = call[d]
    BY <1>t, <1>7, IdleReady DEF CheckIssue, Issuing, Go, Finish, Calls, CallRecords
  <2>2. Issuing(c)
    BY <1>7 DEF CheckIssue, Issuing
  <2> QED BY <1>7, <2>1, <2>2, SpentQuiet DEF CheckIssue, Issuing, Issued, Rows
<1>8. ASSUME NEW c \in Call, NEW s \in Session, InsertSession(c, s) PROVE Spent'
  <2>1. Issuing(c) /\ ~Issued(s) /\ attempt' = attempt
    BY <1>8 DEF InsertSession, Issuing, Issued
  <2>2. ~Issuing(c)' /\ \A d \in Call : d # c => call'[d] = call[d]
    BY <1>t, <1>8, IdleReady DEF InsertSession, Issuing, Finish, Calls
  <2>3. /\ Issued(s)' /\ session'[s].attempt = call[c].attempt
        /\ \A t \in Session : t # s => session'[t] = session[t]
    BY <1>t, <1>8 DEF InsertSession, Issued, RowsTyped
  <2> QED BY <2>1, <2>2, <2>3 DEF Spent, Issuing, Issued, OneSessionPerAttempt
<1>9. CASE UNCHANGED vars
  BY <1>9 DEF vars, Spent, Issuing, Issued, OneSessionPerAttempt
<1> QED BY <1>1, <1>2, <1>3, <1>4, <1>5, <1>6, <1>7, <1>8, <1>9 DEF Next, Step, Exchange

\* A login attempt yields at most one session for ever, however many callbacks
\* write codes on its row and however many exchanges present them.
THEOREM LoginOneSessionPerAttempt == Spec => []OneSessionPerAttempt
<1>1. Init => Spent
  BY DEF Init, Spent, Issuing, Issued, OneSessionPerAttempt, Idle
<1>2. Spent => OneSessionPerAttempt
  BY DEF Spent
<1> QED BY <1>1, <1>2, TypedInit, TypedNext, SpentNext, PTL DEF Spec

-----------------------------------------------------------------------------
(* The session belongs to the person of the login *)

\* The account a code was mailed for is the identified person's.
OwnedBy(x, k) == account[x].state # "absent" /\ account[x].person = mailed[k].person

OwnedAttempts ==
  \A a \in Attempt : attempt[a].code # None =>
    mailed[attempt[a].code].attempt = a /\ OwnedBy(attempt[a].account, attempt[a].code)

OwnedSessions ==
  \A s \in Session : Issued(s) =>
    mailed[session[s].code].attempt = session[s].attempt
      /\ OwnedBy(session[s].account, session[s].code)

OwnedCall(c) ==
  /\ call[c].pc \in {"attach", "attaching"} =>
       /\ account[call[c].account].state # "absent"
       /\ account[call[c].account].person = call[c].person
  /\ call[c].pc \in ExchangeSteps => mailed[call[c].code].attempt # None
  /\ call[c].pc \in {"consume", "issue", "inserting"} =>
       mailed[call[c].code].attempt = call[c].attempt /\ OwnedBy(call[c].account, call[c].code)

Owned == OwnedAttempts /\ OwnedSessions /\ \A c \in Call : OwnedCall(c)

\* An account row keeps its person, a mailed code its attempt and its person.
Kept ==
  /\ \A x \in Account : account[x].state # "absent" =>
       account'[x].state # "absent" /\ account'[x].person = account[x].person
  /\ \A k \in Code : mailed[k].attempt # None => mailed'[k] = mailed[k]

LEMMA RowsKept ==
  ASSUME Typed, [Next]_vars
  PROVE  Kept
<1>t. Calls /\ RowsTyped
  BY DEF Typed
<1>1. \A x \in Account : account[x].state # "absent" =>
        account'[x].state # "absent" /\ account'[x].person = account[x].person
  <2>1. ASSUME NEW c \in Call, NEW y \in Account, InsertAccount(c, y)
        PROVE  \A x \in Account : account[x].state # "absent" => account'[x] = account[x]
    BY <1>t, <2>1 DEF InsertAccount, RowsTyped
  <2>2. ASSUME NEW c \in Call, CommitErase(c)
        PROVE  \A x \in Account : account[x].state # "absent" =>
                 account'[x].state # "absent" /\ account'[x].person = account[x].person
    BY <2>2, EraseQuiet DEF Erase
  <2> QED BY <2>1, <2>2, AccountSteps
<1>2. \A k \in Code : mailed[k].attempt # None => mailed'[k] = mailed[k]
  <2>1. ASSUME NEW c \in Call, Callback(c)
        PROVE  mailed' = mailed \/ \E k \in Code : AttachCode(c, k)
    BY <2>1 DEF Callback, FindAttempt, BankDenies, BankFails, BankIdentifies, ReadIdentity,
      ReadAccount, CountRefused, InsertIdentity, InsertAccount, AccountTaken, CheckAttach,
      AttachRefused, Rows
  <2>2. ASSUME NEW c \in Call, NEW l \in Code, AttachCode(c, l)
        PROVE  \A k \in Code : mailed[k].attempt # None => mailed'[k] = mailed[k]
    BY <1>t, <2>2 DEF AttachCode, RowsTyped
  <2>3. ASSUME NEW c \in Call, Exchange(c) PROVE mailed' = mailed
    BY <2>3 DEF Exchange, FindCode, ConsumeCode, CheckIssue, InsertSession, Rows
  <2>4. ASSUME NEW c \in Call, Begin(c) PROVE mailed' = mailed
    BY <2>4, BeginQuiet DEF Rows
  <2>5. CASE UNCHANGED vars
    BY <2>5 DEF vars
  <2> QED BY <2>1, <2>2, <2>3, <2>4, <2>5, EraseQuiet, OthersQuiet DEF Next, Step
<1> QED BY <1>1, <1>2 DEF Kept

\* What a kept account and a kept code are, they are after the step.
LEMMA OwnedStays ==
  ASSUME Typed, Kept, NEW x \in Account, NEW k \in Code, mailed[k].attempt # None
  PROVE  /\ OwnedBy(x, k) => OwnedBy(x, k)'
         /\ mailed'[k].attempt = mailed[k].attempt
BY DEF Kept, OwnedBy

LEMMA OwnedAttemptsKept ==
  ASSUME Typed, Owned, Kept,
         \A a \in Attempt :
           attempt'[a].code = attempt[a].code /\ attempt'[a].account = attempt[a].account
  PROVE  OwnedAttempts'
BY OwnedStays, LoginAssumption DEF Typed, RowsTyped, Owned, OwnedAttempts, OwnedBy, AttemptRows

LEMMA OwnedSessionsKept ==
  ASSUME Typed, Owned, Kept,
         \A s \in Session : Issued(s)' =>
           /\ Issued(s)
           /\ session'[s].account = session[s].account
           /\ session'[s].code = session[s].code
           /\ session'[s].attempt = session[s].attempt
  PROVE  OwnedSessions'
BY OwnedStays, LoginAssumption DEF Typed, RowsTyped, Owned, OwnedSessions, OwnedBy, Issued

LEMMA OwnedCallKept ==
  ASSUME Typed, Owned, Kept, NEW c \in Call, call'[c] = call[c] \/ call'[c].pc \in {"idle", "find", "lock", "erasing"}
  PROVE  OwnedCall(c)'
<1>1. CASE call'[c] = call[c]
  <2>1. Ready(call[c]) /\ call[c] \in CallRecords /\ OwnedCall(c)
    BY DEF Typed, Calls, Owned
  <2>2. call[c].pc \in {"attach", "attaching"} => call[c].account \in Account
    BY <2>1 DEF Ready
  <2>3. call[c].pc \in ExchangeSteps => call[c].code \in Code /\ mailed'[call[c].code] = mailed[call[c].code]
    BY <2>1 DEF Ready, OwnedCall, Kept
  <2>4. call[c].pc \in {"consume", "issue", "inserting"} =>
          call[c].account \in Account /\ call[c].pc \in ExchangeSteps
    BY <2>1 DEF Ready, ExchangeSteps
  <2> QED BY <1>1, <2>1, <2>2, <2>3, <2>4 DEF OwnedCall, OwnedBy, Kept
<1>2. CASE call'[c].pc \in {"idle", "find", "lock", "erasing"}
  BY <1>2 DEF OwnedCall, ExchangeSteps
<1> QED BY <1>1, <1>2

\* The account a callback leads to is its person's.
LEMMA OwnedCallback ==
  ASSUME Typed, Owned, Kept, NEW c \in Call, Callback(c)
  PROVE  Owned'
<1>t. Calls /\ RowsTyped /\ call[c] \in CallRecords /\ Ready(call[c]) /\ OwnedCall(c)
  BY DEF Typed, Calls, Owned
<1>1. OwnedSessions'
  BY CallbackQuiet, OwnedSessionsKept DEF Issued
<1>2. \A d \in Call : d # c => OwnedCall(d)'
  BY CallbackQuiet, OwnedCallKept
<1>3. OwnedCall(c)'
  <2>1. CASE call'[c].pc \notin {"attach", "attaching"}
    BY <2>1, CallbackQuiet DEF OwnedCall, CallbackSteps, ExchangeSteps
  <2>2. CASE ReadAccount(c) /\ call'[c].pc \in {"attach", "attaching"}
    <3>1. PICK x \in LiveAccountsOf(call[c].person) :
            call' = [call EXCEPT ![c].pc = "attach", ![c].account = x]
      BY <1>t, <2>2 DEF ReadAccount, Go, Calls, CallRecords
    <3>2. call'[c].account = x /\ call'[c].person = call[c].person /\ call'[c].pc = "attach"
      BY <1>t, <3>1 DEF Calls, CallRecords
    <3> QED BY <2>2, <3>1, <3>2 DEF ReadAccount, Rows, LiveAccountsOf, Live, OwnedCall, ExchangeSteps
  <2>3. ASSUME NEW x \in Account, InsertAccount(c, x) PROVE OwnedCall(c)'
    <3>1. call'[c].account = x /\ call'[c].person = call[c].person /\ call'[c].pc = "attach"
      BY <1>t, <2>3 DEF InsertAccount, Calls, CallRecords
    <3>2. account'[x].state # "absent" /\ account'[x].person = call[c].person
      BY <1>t, <2>3 DEF InsertAccount, RowsTyped
    <3> QED BY <3>1, <3>2 DEF OwnedCall, ExchangeSteps
  <2>4. CASE CheckAttach(c)
    <3>1. call'[c].account = call[c].account /\ call'[c].person = call[c].person /\ call'[c].pc = "attaching"
      BY <1>t, <2>4 DEF CheckAttach, Go, Calls, CallRecords
    <3> QED BY <1>t, <2>4, <3>1 DEF CheckAttach, Rows, OwnedCall, ExchangeSteps
  <2>5. call'[c].pc \in {"attach", "attaching"} =>
          \/ ReadAccount(c) \/ CheckAttach(c)
          \/ \E x \in Account : InsertAccount(c, x)
    <3>1. ASSUME NEW k \in Code, AttachCode(c, k) PROVE call'[c].pc = "idle"
      BY <1>t, <3>1, IdleReady DEF AttachCode, Finish, Calls
    <3>2. ASSUME NEW p \in Person, BankIdentifies(c, p) PROVE call'[c].pc = "identity"
      BY <1>t, <3>2 DEF BankIdentifies, Calls, CallRecords
    <3>3. ASSUME BankDenies(c) \/ BankFails(c) \/ CountRefused(c) \/ AccountTaken(c)
          PROVE  call'[c].pc = "idle"
      BY <1>t, <3>3, IdleReady DEF BankDenies, BankFails, CountRefused, AccountTaken, Finish, Calls
    <3>4. ASSUME FindAttempt(c) PROVE call'[c].pc \in {"idle", "bank"}
      BY <1>t, <3>4, IdleReady DEF FindAttempt, Finish, Go, Calls, CallRecords
    <3>5. ASSUME ReadIdentity(c) PROVE call'[c].pc \in {"account", "insertIdentity"}
      BY <1>t, <3>5 DEF ReadIdentity, Calls, CallRecords
    <3>6. ASSUME InsertIdentity(c) PROVE call'[c].pc \in {"identity", "insertAccount"}
      BY <1>t, <3>6 DEF InsertIdentity, Go, Calls, CallRecords
    <3>7. ASSUME AttachRefused(c) PROVE call'[c].pc \in {"identity", "idle"}
      BY <1>t, <3>7, IdleReady DEF AttachRefused, Finish, Calls, CallRecords
    <3> QED BY <3>1, <3>2, <3>3, <3>4, <3>5, <3>6, <3>7 DEF Callback
  <2> QED BY <2>1, <2>2, <2>3, <2>4, <2>5
<1>4. OwnedAttempts'
  <2>1. ASSUME NEW k \in Code, AttachCode(c, k) PROVE OwnedAttempts'
    <3> DEFINE a == call[c].attempt
               x == call[c].account
    <3>1. /\ a \in Attempt /\ x \in Account /\ mailed[k].attempt = None
          /\ account[x].state # "absent" /\ account[x].person = call[c].person
      BY <1>t, <2>1 DEF AttachCode, Ready, OwnedCall, CallbackSteps
    <3>2. /\ attempt'[a].code = k /\ attempt'[a].account = x
          /\ \A b \in Attempt : b # a => attempt'[b] = attempt[b]
      BY <1>t, <2>1, <3>1 DEF AttachCode, Attached, RowsTyped, AttemptRows
    <3>3. mailed'[k].attempt = a /\ mailed'[k].person = call[c].person /\ account' = account
      BY <1>t, <2>1 DEF AttachCode, RowsTyped
    <3>4. ASSUME NEW b \in Attempt, attempt'[b].code # None
          PROVE  /\ mailed'[attempt'[b].code].attempt = b
                 /\ OwnedBy(attempt[b].account, attempt[b].code)'
      <4>1. CASE b = a
        BY <3>1, <3>2, <3>3, <4>1 DEF OwnedBy
      <4>2. CASE b # a
        <5>1. /\ attempt[b].code \in Code /\ attempt[b].account \in Account
              /\ mailed[attempt[b].code].attempt = b
              /\ OwnedBy(attempt[b].account, attempt[b].code)
          BY <1>t, <3>2, <3>4, <4>2 DEF RowsTyped, AttemptRows, Owned, OwnedAttempts
        <5> QED BY <3>2, <4>2, <5>1, OwnedStays, LoginAssumption DEF OwnedBy
      <4> QED BY <4>1, <4>2
    <3> QED BY <3>4 DEF OwnedAttempts
  <2>2. CASE BankDenies(c)
    BY <1>t, <2>2, OwnedAttemptsKept DEF BankDenies, Expired, RowsTyped, AttemptRows
  <2>3. CASE attempt' = attempt
    BY <2>3, OwnedAttemptsKept
  <2> QED BY <2>1, <2>2, <2>3 DEF Callback, FindAttempt, BankFails, BankIdentifies, ReadIdentity,
    ReadAccount, CountRefused, InsertIdentity, InsertAccount, AccountTaken, CheckAttach,
    AttachRefused, Rows
<1> QED BY <1>1, <1>2, <1>3, <1>4 DEF Owned

\* What an exchange has read of the attempt is the login's, and the session it writes too.
LEMMA OwnedExchange ==
  ASSUME Typed, Owned, Kept, NEW c \in Call, Exchange(c)
  PROVE  Owned'
<1>t. Calls /\ RowsTyped /\ call[c] \in CallRecords /\ Ready(call[c]) /\ OwnedCall(c)
  BY DEF Typed, Calls, Owned
<1>1. \A d \in Call : d # c => call'[d] = call[d]
  BY <1>t DEF Exchange, FindCode, ConsumeCode, CheckIssue, InsertSession, Go, Finish, Calls
<1>2. \A d \in Call : d # c => OwnedCall(d)'
  BY <1>1, OwnedCallKept
<1>3. account' = account /\ mailed' = mailed
  BY DEF Exchange, FindCode, ConsumeCode, CheckIssue, InsertSession, Rows
<1>4. OwnedAttempts'
  <2>1. CASE ConsumeCode(c)
    BY <1>t, <2>1, OwnedAttemptsKept DEF ConsumeCode, RowsTyped, AttemptRows
  <2>2. CASE attempt' = attempt
    BY <2>2, OwnedAttemptsKept
  <2> QED BY <2>1, <2>2 DEF Exchange, FindCode, CheckIssue, InsertSession, Rows
<1>5. OwnedSessions'
  <2>1. ASSUME NEW s \in Session, InsertSession(c, s) PROVE OwnedSessions'
    <3>1. /\ session'[s].code = call[c].code /\ session'[s].account = call[c].account
          /\ session'[s].attempt = call[c].attempt
          /\ \A t \in Session : t # s => session'[t] = session[t]
      BY <1>t, <2>1 DEF InsertSession, RowsTyped
    <3>2. mailed[call[c].code].attempt = call[c].attempt /\ OwnedBy(call[c].account, call[c].code)
      BY <1>t, <2>1 DEF InsertSession, OwnedCall
    <3> QED BY <1>3, <3>1, <3>2 DEF Owned, OwnedSessions, OwnedBy, Issued
  <2>2. CASE session' = session
    BY <2>2, OwnedSessionsKept DEF Issued
  <2> QED BY <2>1, <2>2 DEF Exchange, FindCode, ConsumeCode, CheckIssue, Rows
<1>6. OwnedCall(c)'
  <2>1. CASE call'[c].pc = "idle"
    BY <2>1, OwnedCallKept
  <2>2. ASSUME NEW a \in Attempt, call[c].pc = "findCode", Exchangeable(a, call[c].code, call[c].at),
               call' = [call EXCEPT ![c].pc = "consume", ![c].attempt = a,
                                    ![c].account = attempt[a].account]
        PROVE  OwnedCall(c)'
    <3>1. /\ call'[c].pc = "consume" /\ call'[c].attempt = a
          /\ call'[c].account = attempt[a].account /\ call'[c].code = call[c].code
      BY <1>t, <2>2 DEF Calls, CallRecords
    <3>2. call[c].code \in Code /\ attempt[a].code = call[c].code
      BY <1>t, <2>2 DEF Ready, ExchangeSteps, Exchangeable
    <3>3. mailed[call[c].code].attempt = a /\ OwnedBy(attempt[a].account, call[c].code)
      BY <3>2, LoginAssumption DEF Owned, OwnedAttempts
    <3> QED BY <1>3, <3>1, <3>3, LoginAssumption DEF OwnedCall, OwnedBy
  <2>3. ASSUME call[c].pc \in {"consume", "issue"}, Go(c, "issue") \/ Go(c, "inserting")
        PROVE  OwnedCall(c)'
    <3>1. /\ call'[c].pc \in {"issue", "inserting"} /\ call'[c].attempt = call[c].attempt
          /\ call'[c].account = call[c].account /\ call'[c].code = call[c].code
      BY <1>t, <2>3 DEF Go, Calls, CallRecords
    <3> QED BY <1>t, <1>3, <2>3, <3>1 DEF OwnedCall, OwnedBy, ExchangeSteps
  <2>4. Finish(c) => call'[c].pc = "idle"
    BY <1>t, IdleReady DEF Finish, Calls
  <2> QED BY <2>1, <2>2, <2>3, <2>4 DEF Exchange, FindCode, ConsumeCode, CheckIssue, InsertSession
<1> QED BY <1>2, <1>4, <1>5, <1>6 DEF Owned

LEMMA OwnedNext ==
  ASSUME Typed, Owned, [Next]_vars
  PROVE  Owned'
<1>t. Calls /\ RowsTyped /\ Kept
  BY RowsKept DEF Typed
<1>1. ASSUME NEW c \in Call, Erase(c) PROVE Owned'
  <2>1. OwnedAttempts' /\ OwnedSessions'
    BY <1>t, <1>1, EraseQuiet, OwnedAttemptsKept, OwnedSessionsKept DEF Issued
  <2>2. \A d \in Call : OwnedCall(d)'
    BY <1>t, <1>1, EraseQuiet, OwnedCallKept
  <2> QED BY <2>1, <2>2 DEF Owned
<1>2. ASSUME NEW c \in Call, Begin(c) PROVE Owned'
  <2>1. OwnedAttempts' /\ OwnedSessions'
    BY <1>t, <1>2, BeginQuiet, OwnedAttemptsKept, OwnedSessionsKept DEF Issued, Rows
  <2>2. \A d \in Call : d # c => OwnedCall(d)'
    BY <1>t, <1>2, BeginQuiet, OwnedCallKept
  <2>3. ASSUME call'[c].pc \in {"find", "lock"} PROVE OwnedCall(c)'
    BY <1>t, <2>3, OwnedCallKept
  <2>4. ASSUME NEW k \in Code, BeginExchange(c, k) PROVE OwnedCall(c)'
    <3>1. call'[c].pc = "findCode" /\ call'[c].code = k /\ mailed'[k].attempt # None
      BY <1>t, <2>4 DEF BeginExchange, Idle, Calls, Rows
    <3> QED BY <3>1 DEF OwnedCall, ExchangeSteps
  <2>5. OwnedCall(c)'
    <3>1. ASSUME NEW a \in Attempt, BeginCallback(c, a) PROVE call'[c].pc = "find"
      BY <1>t, <3>1 DEF BeginCallback, Idle, Calls
    <3>2. ASSUME NEW s \in Session, BeginErase(c, s) PROVE call'[c].pc = "lock"
      BY <1>t, <3>2 DEF BeginErase, Idle, Calls
    <3> QED BY <1>2, <2>3, <2>4, <3>1, <3>2 DEF Begin
  <2> QED BY <2>1, <2>2, <2>5 DEF Owned
<1>3. CASE SweepSessions \/ SweepAttempts \/ Environment
  <2>1. OwnedAttempts' /\ OwnedSessions'
    BY <1>t, <1>3, OthersQuiet, OwnedAttemptsKept, OwnedSessionsKept DEF Issued
  <2>2. \A d \in Call : OwnedCall(d)'
    BY <1>t, <1>3, OthersQuiet, IdleReady, OwnedCallKept
  <2> QED BY <2>1, <2>2 DEF Owned
<1>4. CASE UNCHANGED vars
  BY <1>4 DEF vars, Owned, OwnedAttempts, OwnedSessions, OwnedCall, OwnedBy, Issued
<1> QED BY <1>t, <1>1, <1>2, <1>3, <1>4, OwnedCallback, OwnedExchange DEF Next, Step

\* A session belongs to the person the bank identified in the callback that
\* mailed its code, for any number of people on any number of attempts.
THEOREM LoginSessionOfTheLogin == Spec => []SessionOfTheLogin
<1>1. Init => Owned
  BY DEF Init, Owned, OwnedAttempts, OwnedSessions, OwnedCall, Issued, Idle, ExchangeSteps
<1>2. Owned => SessionOfTheLogin
  BY DEF Owned, OwnedSessions, OwnedBy, Issued, SessionOfTheLogin
<1> QED BY <1>1, <1>2, TypedInit, TypedNext, OwnedNext, PTL DEF Spec

-----------------------------------------------------------------------------
(* Every deletion is counted once *)

\* An account belongs to an identity row, which is never deleted.
Known ==
  /\ \A p \in Person : ~identity[p].known => identity[p].deletions = 0
  /\ \A x \in Account : account[x].state # "absent" => identity[account[x].person].known
  /\ \A c \in Call : call[c].pc \in {"account", "insertAccount"} => identity[call[c].person].known

\* The erasure holds the row it has read, so the count it read is the count.
Counting ==
  /\ \A c \in Call : call[c].pc = "erasing" =>
       /\ lock[call[c].account] = c
       /\ Live(call[c].account)
       /\ call[c].seen.deletions = identity[account[call[c].account].person].deletions
  /\ \A x \in Account : lock[x] # None => call[lock[x]].pc = "erasing" /\ call[lock[x]].account = x

Tombstones(p) == {x \in Account : account[x].state = "deleted" /\ account[x].person = p}

\* Only the commit of an erasure changes a deletion count; a row once known stays.
LEMMA IdentitySteps ==
  ASSUME Typed, Known, [Next]_vars
  PROVE  /\ \A p \in Person : identity[p].known => identity'[p].known
         /\ \/ \E c \in Call : CommitErase(c)
            \/ \A p \in Person : identity'[p].deletions = identity[p].deletions
<1> DEFINE Goal == /\ \A p \in Person : identity[p].known => identity'[p].known
                   /\ \/ \E c \in Call : CommitErase(c)
                      \/ \A p \in Person : identity'[p].deletions = identity[p].deletions
<1>t. Calls /\ RowsTyped
  BY DEF Typed
<1>1. CASE identity' = identity
  BY <1>1
<1>2. ASSUME NEW c \in Call, CountRefused(c) PROVE Goal
  BY <1>t, <1>2 DEF CountRefused, RowsTyped, IdentityRows
<1>3. ASSUME NEW c \in Call, InsertIdentity(c) PROVE Goal
  BY <1>t, <1>3 DEF InsertIdentity, FreshIdentity, NoIdentity, Known, RowsTyped, IdentityRows
<1>4. ASSUME NEW c \in Call, CommitErase(c) PROVE Goal
  BY <1>t, <1>4 DEF CommitErase, recordDeletion, RowsTyped, IdentityRows
<1>5. ASSUME NEW p \in Person, Sanction(p) PROVE Goal
  BY <1>t, <1>5 DEF Sanction, RowsTyped, IdentityRows
<1>6. ASSUME NEW c \in Call, Callback(c)
      PROVE  identity' = identity \/ CountRefused(c) \/ InsertIdentity(c)
  BY <1>6 DEF Callback, FindAttempt, BankDenies, BankFails, BankIdentifies, ReadIdentity,
    ReadAccount, InsertAccount, AccountTaken, CheckAttach, AttachRefused, AttachCode, Rows
<1>7. ASSUME NEW c \in Call, Exchange(c) \/ Begin(c) PROVE identity' = identity
  BY <1>7, BeginQuiet DEF Exchange, FindCode, ConsumeCode, CheckIssue, InsertSession, Rows
<1>8. ASSUME NEW c \in Call, Erase(c) PROVE identity' = identity \/ CommitErase(c)
  BY <1>8 DEF Erase, LockAccount
<1>9. CASE SweepSessions \/ SweepAttempts \/ UNCHANGED vars
  BY <1>1, <1>9 DEF SweepSessions, SweepAttempts, vars
<1>10. ASSUME Environment PROVE identity' = identity \/ \E p \in Person : Sanction(p)
  BY <1>10 DEF Environment, StartLogin, Crash, Tick, Rows
<1> QED BY <1>1, <1>2, <1>3, <1>4, <1>5, <1>6, <1>7, <1>8, <1>9, <1>10 DEF Next, Step

LEMMA KnownNext ==
  ASSUME Typed, Known, Counting, [Next]_vars
  PROVE  Known'
<1>t. Calls /\ RowsTyped
  BY DEF Typed
<1>1. \A x \in Account : account'[x].state # "absent" => identity'[account'[x].person].known
  <2>1. CASE account' = account
    BY <1>t, <2>1, IdentitySteps DEF Known, RowsTyped
  <2>2. ASSUME NEW c \in Call, NEW y \in Account, InsertAccount(c, y)
        PROVE  \A x \in Account : account'[x].state # "absent" => identity'[account'[x].person].known
    BY <1>t, <2>2 DEF InsertAccount, Known, RowsTyped, AccountRows
  <2>3. ASSUME NEW c \in Call, CommitErase(c)
        PROVE  \A x \in Account : account'[x].state # "absent" => identity'[account'[x].person].known
    <3>1. \A x \in Account : /\ account'[x].person = account[x].person
                             /\ account'[x].state = "absent" <=> account[x].state = "absent"
      BY <2>3, EraseQuiet DEF Erase
    <3> QED BY <1>t, <3>1, IdentitySteps DEF Known, RowsTyped
  <2> QED BY <2>1, <2>2, <2>3, AccountSteps
<1>2. \A p \in Person : ~identity'[p].known => identity'[p].deletions = 0
  <2>1. ASSUME NEW c \in Call, CommitErase(c)
        PROVE  \A p \in Person : ~identity'[p].known => identity'[p].deletions = 0
    <3> DEFINE x == call[c].account
               p == account[x].person
    <3>1. x \in Account /\ p \in Person /\ identity[p].known
      BY <1>t, <2>1 DEF CommitErase, Live, Known, Calls, RowsTyped, Ready, EraseSteps
    <3>2. \A q \in Person : q # p => identity'[q] = identity[q]
      BY <1>t, <2>1 DEF CommitErase, RowsTyped
    <3> QED BY <3>1, <3>2, IdentitySteps DEF Known
  <2> QED BY <2>1, IdentitySteps DEF Known
<1>3. ASSUME NEW d \in Call, call'[d].pc \in {"account", "insertAccount"}
      PROVE  identity'[call'[d].person].known
  <2>1. CASE call'[d] = call[d]
    BY <1>t, <1>3, <2>1, IdentitySteps DEF Known, Calls, Ready, IdentifiedSteps
  <2>2. CASE ReadIdentity(d)
    BY <1>t, <1>3, <2>2 DEF ReadIdentity, Rows, Calls, CallRecords
  <2>3. CASE ReadAccount(d)
    <3>1. call'[d].person = call[d].person
      BY <1>t, <2>3 DEF ReadAccount, Go, Calls, CallRecords
    <3> QED BY <2>3, <3>1 DEF ReadAccount, Rows, Known
  <2>4. CASE InsertIdentity(d)
    <3>1. /\ call[d].person \in Person
          /\ ~identity[call[d].person].known
          /\ call'[d].person = call[d].person
      BY <1>t, <1>3, <2>4 DEF InsertIdentity, Go, Calls, CallRecords, Ready, IdentifiedSteps
    <3> QED BY <1>t, <2>4, <3>1 DEF InsertIdentity, FreshIdentity, NoIdentity, RowsTyped
  <2>5. ASSUME NEW c \in Call, Callback(c)
        PROVE  call'[d] = call[d] \/ ReadIdentity(d) \/ ReadAccount(d) \/ InsertIdentity(d)
    <3>1. CASE c # d
      BY <2>5, <3>1, CallbackQuiet
    <3>2. CASE c = d
      <4>1. ASSUME NEW p \in Person, BankIdentifies(d, p) PROVE call'[d].pc = "identity"
        BY <1>t, <4>1 DEF BankIdentifies, Calls, CallRecords
      <4>2. ASSUME NEW x \in Account, InsertAccount(d, x) PROVE call'[d].pc = "attach"
        BY <1>t, <4>2 DEF InsertAccount, Calls, CallRecords
      <4>3. ASSUME NEW k \in Code, AttachCode(d, k) PROVE call'[d].pc = "idle"
        BY <1>t, <4>3, IdleReady DEF AttachCode, Finish, Calls
      <4>4. ASSUME FindAttempt(d) \/ CheckAttach(d) \/ AttachRefused(d)
            PROVE  call'[d].pc \in {"idle", "bank", "attaching", "identity"}
        BY <1>t, <4>4, IdleReady DEF FindAttempt, CheckAttach, AttachRefused, Finish, Go, Calls, CallRecords
      <4>5. ASSUME BankDenies(d) \/ BankFails(d) \/ CountRefused(d) \/ AccountTaken(d)
            PROVE  call'[d].pc = "idle"
        BY <1>t, <4>5, IdleReady DEF BankDenies, BankFails, CountRefused, AccountTaken, Finish, Calls
      <4> QED BY <1>3, <2>5, <3>2, <4>1, <4>2, <4>3, <4>4, <4>5 DEF Callback
    <3> QED BY <3>1, <3>2
  <2>6. ASSUME NEW c \in Call, Exchange(c) PROVE call'[d] = call[d]
    BY <1>3, <2>6, ExchangeQuiet
  <2>7. ASSUME NEW c \in Call, Erase(c) \/ Begin(c) PROVE call'[d] = call[d]
    BY <1>3, <2>7, EraseQuiet, BeginQuiet
  <2>8. CASE SweepSessions \/ SweepAttempts \/ Environment
    BY <1>3, <2>8, <2>1, OthersQuiet, IdleReady
  <2>9. CASE UNCHANGED vars
    BY <2>1, <2>9 DEF vars
  <2> QED BY <2>1, <2>2, <2>3, <2>4, <2>5, <2>6, <2>7, <2>8, <2>9 DEF Next, Step
<1> QED BY <1>1, <1>2, <1>3 DEF Known

LEMMA LockSteps ==
  ASSUME Typed, [Next]_vars
  PROVE  lock' = lock \/ \E c \in Call : LockAccount(c) \/ CommitErase(c) \/ Crash(c)
<1>1. ASSUME NEW c \in Call, Exchange(c) PROVE lock' = lock
  BY <1>1 DEF Exchange, FindCode, ConsumeCode, CheckIssue, InsertSession, Rows
<1>2. ASSUME SweepSessions \/ SweepAttempts \/ UNCHANGED vars PROVE lock' = lock
  BY <1>2 DEF SweepSessions, SweepAttempts, vars
<1>3. ASSUME Environment PROVE lock' = lock \/ \E c \in Call : Crash(c)
  BY <1>3 DEF Environment, StartLogin, Sanction, Tick, Rows
<1> QED BY <1>1, <1>2, <1>3, CallbackQuiet, BeginQuiet DEF Next, Step, Erase, Rows

\* A handler neither enters nor leaves the erasure's transaction.
Outside(c) == call[c].pc # "erasing" /\ call'[c].pc # "erasing"

\* A handler that holds a lock runs its erasure's commit or dies.
LEMMA ErasingSteps ==
  ASSUME Typed, [Next]_vars, NEW c \in Call
  PROVE  \/ call'[c] = call[c] \/ Outside(c)
         \/ LockAccount(c) \/ CommitErase(c) \/ Crash(c)
<1>t. Calls
  BY DEF Typed
<1>1. ASSUME NEW d \in Call, Callback(d) PROVE call'[c] = call[c] \/ Outside(c)
  BY <1>1, CallbackOnly, CallbackQuiet DEF CallbackSteps, Outside
<1>2. ASSUME NEW d \in Call, Exchange(d) PROVE call'[c] = call[c] \/ Outside(c)
  BY <1>2, ExchangeQuiet DEF ExchangeSteps, Outside
<1>3. ASSUME NEW d \in Call, Erase(d) PROVE call'[c] = call[c] \/ LockAccount(c) \/ CommitErase(c)
  BY <1>3, EraseQuiet DEF Erase
<1>4. ASSUME NEW d \in Call, Begin(d) PROVE call'[c] = call[c] \/ Outside(c)
  BY <1>4, BeginQuiet DEF Outside
<1>5. ASSUME SweepSessions \/ SweepAttempts \/ UNCHANGED vars PROVE call'[c] = call[c]
  BY <1>5 DEF SweepSessions, SweepAttempts, vars
<1>6. ASSUME Environment PROVE call'[c] = call[c] \/ Crash(c)
  <2>1. ASSUME NEW d \in Call, Crash(d), d # c PROVE call'[c] = call[c]
    BY <1>t, <2>1 DEF Crash, Finish, Calls
  <2> QED BY <1>6, <2>1 DEF Environment, StartLogin, Sanction, Tick
<1> QED BY <1>1, <1>2, <1>3, <1>4, <1>5, <1>6 DEF Next, Step

LEMMA CountingNext ==
  ASSUME Typed, OneLiveAccount, Known, Counting, [Next]_vars
  PROVE  Counting'
<1>t. Calls /\ RowsTyped
  BY DEF Typed
<1>1. ASSUME NEW c \in Call, LockAccount(c) PROVE Counting'
  <2> DEFINE x == call[c].account
  <2>1. x \in Account /\ call[c].pc = "lock" /\ lock[x] = None /\ identity' = identity /\ account' = account
    BY <1>t, <1>1 DEF LockAccount, Calls, Ready, EraseSteps
  <2>2. CASE Live(x)
    <3>1. /\ call'[c].pc = "erasing" /\ call'[c].account = x
          /\ call'[c].seen = identity[account[x].person]
          /\ \A d \in Call : d # c => call'[d] = call[d]
      BY <1>t, <1>1, <2>2 DEF LockAccount, Calls, CallRecords
    <3>2. lock'[x] = c /\ \A y \in Account : y # x => lock'[y] = lock[y]
      BY <1>t, <1>1, <2>1, <2>2 DEF LockAccount, RowsTyped
    <3>3. \A d \in Call : call[d].pc = "erasing" => call[d].account # x /\ call[d].account \in Account
      BY <1>t, <2>1, LoginAssumption DEF Counting, Calls, Ready, EraseSteps
    <3>4. \A y \in Account : y # x /\ lock[y] # None => lock[y] # c
      BY <2>1 DEF Counting
    <3> QED BY <1>t, <2>1, <2>2, <3>1, <3>2, <3>3, <3>4 DEF Counting, Live, RowsTyped
  <2>3. CASE ~Live(x)
    <3>1. lock' = lock /\ call'[c] = Idle /\ \A d \in Call : d # c => call'[d] = call[d]
      BY <1>t, <1>1, <2>3 DEF LockAccount, Finish, Calls
    <3> QED BY <1>t, <2>1, <3>1, IdleReady DEF Counting, Live, RowsTyped
  <2> QED BY <2>2, <2>3
<1>2. ASSUME NEW c \in Call, CommitErase(c) PROVE Counting'
  <2> DEFINE x == call[c].account
             p == account[x].person
  <2>1. /\ x \in Account /\ p \in Person /\ call[c].pc = "erasing" /\ Live(x) /\ lock[x] = c
    BY <1>t, <1>2 DEF CommitErase, Counting, Calls, Ready, EraseSteps, Live, RowsTyped
  <2>2. call'[c] = Idle /\ \A d \in Call : d # c => call'[d] = call[d]
    BY <1>t, <1>2 DEF CommitErase, Finish, Calls
  <2>3. lock'[x] = None /\ \A y \in Account : y # x => lock'[y] = lock[y] /\ account'[y] = account[y]
    BY <1>t, <1>2, <2>1 DEF CommitErase, RowsTyped
  <2>4. ASSUME NEW d \in Call, d # c, call[d].pc = "erasing"
        PROVE  /\ call[d].account \in Account /\ call[d].account # x
               /\ account[call[d].account].person \in Person
               /\ account[call[d].account].person # p
    BY <1>t, <2>1, <2>4 DEF Counting, Calls, Ready, EraseSteps, Live, OneLiveAccount, RowsTyped
  <2>5. \A q \in Person : q # p => identity'[q] = identity[q]
    BY <1>t, <1>2 DEF CommitErase, RowsTyped
  <2>6. ASSUME NEW d \in Call, call'[d].pc = "erasing"
        PROVE  /\ lock'[call'[d].account] = d /\ Live(call[d].account)'
               /\ call'[d].seen.deletions = identity'[account'[call'[d].account].person].deletions
               /\ call'[d].account = call[d].account
    BY <2>2, <2>3, <2>4, <2>5, <2>6, IdleReady DEF Counting, Live
  <2>7. ASSUME NEW y \in Account, lock'[y] # None
        PROVE  call'[lock'[y]].pc = "erasing" /\ call'[lock'[y]].account = y
    BY <1>t, <2>1, <2>2, <2>3, <2>7 DEF Counting, RowsTyped
  <2> QED BY <2>6, <2>7 DEF Counting, Live
<1>3. ASSUME NEW c \in Call, Crash(c) PROVE Counting'
  <2>1. call'[c] = Idle /\ \A d \in Call : d # c => call'[d] = call[d]
    BY <1>t, <1>3 DEF Crash, Finish, Calls
  <2>2. /\ identity' = identity /\ account' = account
        /\ \A y \in Account : lock'[y] = IF lock[y] = c THEN None ELSE lock[y]
    BY <1>t, <1>3 DEF Crash, RowsTyped
  <2>3. \A d \in Call : call[d].pc = "erasing" => call[d].account \in Account
    BY <1>t DEF Calls, Ready, EraseSteps
  <2> QED BY <1>t, <2>1, <2>2, <2>3, IdleReady, LoginAssumption DEF Counting, Live, RowsTyped
<1>4. ASSUME lock' = lock, \A c \in Call : ~LockAccount(c) /\ ~CommitErase(c) /\ ~Crash(c)
      PROVE  Counting'
  <2>1. \A c \in Call : call'[c] = call[c] \/ Outside(c)
    BY <1>4, ErasingSteps
  <2>2. \A p \in Person : identity'[p].deletions = identity[p].deletions
    BY <1>4, IdentitySteps
  <2>3. \A x \in Account : Live(x) => account'[x] = account[x]
    <3>1. ASSUME NEW c \in Call, NEW x \in Account, InsertAccount(c, x)
          PROVE  \A y \in Account : Live(y) => account'[y] = account[y]
      BY <1>t, <3>1 DEF InsertAccount, Live, RowsTyped
    <3> QED BY <1>4, <3>1, AccountSteps
  <2>4. \A c \in Call : call[c].pc = "erasing" =>
          call[c].account \in Account /\ account[call[c].account].person \in Person
    BY <1>t DEF Calls, Ready, EraseSteps, RowsTyped, Counting, Live
  <2>5. \A x \in Account : lock[x] # None => lock[x] \in Call
    BY <1>t DEF RowsTyped
  <2> QED BY <1>4, <2>1, <2>2, <2>3, <2>4, <2>5 DEF Counting, Live, Outside
<1> QED BY <1>1, <1>2, <1>3, <1>4, LockSteps

LEMMA DeletionsCountedNext ==
  ASSUME Typed, Known, Counting, DeletionsCounted, [Next]_vars
  PROVE  DeletionsCounted'
<1>t. Calls /\ RowsTyped
  BY DEF Typed
<1>1. ASSUME NEW c \in Call, CommitErase(c) PROVE DeletionsCounted'
  <2>0. call[c].account \in Account /\ account[call[c].account].person \in Person
    BY <1>t, <1>1 DEF CommitErase, Calls, Ready, EraseSteps, Live, RowsTyped
  <2> PICK x \in Account, p \in Person : x = call[c].account /\ p = account[x].person
    BY <2>0
  <2>1. account[x].state = "live" /\ call[c].seen.deletions = identity[p].deletions
    BY <1>t, <1>1 DEF CommitErase, Counting, Live
  <2>2. /\ account'[x].state = "deleted" /\ account'[x].person = p
        /\ \A y \in Account : y # x => account'[y] = account[y]
    BY <1>t, <1>1, <2>1 DEF CommitErase, RowsTyped, AccountRows
  <2>3. /\ identity'[p].deletions = identity[p].deletions + 1
        /\ \A q \in Person : q # p => identity'[q] = identity[q]
    BY <1>t, <1>1, <2>1 DEF CommitErase, recordDeletion, RowsTyped, IdentityRows
  <2>4. Tombstones(p)' = Tombstones(p) \cup {x} /\ x \notin Tombstones(p)
    <3>1. \A y \in Account : y \in Tombstones(p)' <=> y \in Tombstones(p) \/ y = x
      BY <2>1, <2>2 DEF Tombstones
    <3> QED BY <2>1, <3>1 DEF Tombstones
  <2>5. \A q \in Person : q # p => Tombstones(q)' = Tombstones(q)
    BY <2>1, <2>2 DEF Tombstones
  <2>6. IsFiniteSet(Tombstones(p))
    BY FS_Subset, LoginAssumption DEF Tombstones
  <2>7. Cardinality(Tombstones(p))' = Cardinality(Tombstones(p)) + 1
    BY <2>4, <2>6, FS_AddElement
  <2> QED BY <2>3, <2>5, <2>7 DEF DeletionsCounted, Tombstones
<1>2. ASSUME \A c \in Call : ~CommitErase(c) PROVE DeletionsCounted'
  <2>1. \A p \in Person : identity'[p].deletions = identity[p].deletions
    BY <1>2, IdentitySteps
  <2>2. ASSUME NEW c \in Call, NEW x \in Account, InsertAccount(c, x), NEW p \in Person
        PROVE  Tombstones(p)' = Tombstones(p)
    BY <1>t, <2>2 DEF InsertAccount, Tombstones, RowsTyped
  <2>3. \A p \in Person : Tombstones(p)' = Tombstones(p)
    BY <1>2, <2>2, AccountSteps DEF Tombstones
  <2> QED BY <2>1, <2>3 DEF DeletionsCounted, Tombstones
<1> QED BY <1>1, <1>2

\* The deletion count is the number of tombstones, for any number of devices
\* deleting the same person's accounts at once: the lock makes it inductive.
THEOREM LoginDeletionsCounted == Spec => []DeletionsCounted
<1> DEFINE Inv == Typed /\ OneLiveAccount /\ Known /\ Counting /\ DeletionsCounted
<1>1. Init => Inv
  <2> SUFFICES ASSUME Init PROVE Inv
    OBVIOUS
  <2>1. OneLiveAccount /\ Known
    BY DEF Init, OneLiveAccount, Live, Known, NoIdentity, Idle
  <2>2. Counting
    BY DEF Init, Counting, Idle
  <2>3. \A p \in Person : Tombstones(p) = {} /\ identity[p].deletions = 0
    BY DEF Init, Tombstones, NoIdentity
  <2>4. DeletionsCounted
    BY <2>3, FS_EmptySet DEF DeletionsCounted, Tombstones
  <2> QED BY <2>1, <2>2, <2>4, TypedInit
<1>2. Inv /\ [Next]_vars => Inv'
  BY TypedNext, OneLiveAccountNext, KnownNext, CountingNext, DeletionsCountedNext
<1> QED BY <1>1, <1>2, PTL DEF Spec

-----------------------------------------------------------------------------
(* Cancelled attempts *)

\* The deadline a cancellation writes is behind every callback that comes after
\* it, and whoever may still write a deadline came before.
Cancelled ==
  /\ \A a \in Attempt : attempt[a].cancelled =>
       attempt[a].row # "unused" /\ attempt[a].expiresAt <= now
  /\ \A c \in Call : call[c].afterCancel /\ call[c].pc = "find" =>
       /\ attempt[call[c].attempt].cancelled
       /\ attempt[call[c].attempt].expiresAt <= call[c].at
  /\ \A c, d \in Call :
       /\ call[c].afterCancel /\ call[c].pc = "find"
       /\ ~call[d].afterCancel /\ call[d].pc \in {"find", "bank"}
       /\ call[c].attempt = call[d].attempt
       => call[d].at <= call[c].at
  /\ CancelledStaysCancelled

\* How an attempt's deadline moves.
LEMMA DeadlineSteps ==
  ASSUME Typed, [Next]_vars, NEW a \in Attempt
  PROVE  \/ /\ attempt'[a].cancelled = attempt[a].cancelled
            /\ attempt'[a].expiresAt = attempt[a].expiresAt
            /\ attempt[a].row # "unused" => attempt'[a].row # "unused"
         \/ /\ StartLogin(a)
            /\ attempt'[a].cancelled = attempt[a].cancelled
         \/ \E c \in Call :
              /\ BankDenies(c) /\ a = call[c].attempt
              /\ attempt[a].row = "open" /\ attempt'[a].row = "open" /\ attempt'[a].cancelled
              /\ attempt'[a].expiresAt = call[c].at
<1> DEFINE Same == /\ attempt'[a].cancelled = attempt[a].cancelled
                   /\ attempt'[a].expiresAt = attempt[a].expiresAt
                   /\ attempt[a].row # "unused" => attempt'[a].row # "unused"
<1>t. Calls /\ RowsTyped
  BY DEF Typed
<1>0. attempt' = attempt => Same
  OBVIOUS
<1>1. ASSUME NEW c \in Call, BankDenies(c)
      PROVE  \/ Same
             \/ /\ a = call[c].attempt
                /\ attempt[a].row = "open" /\ attempt'[a].row = "open" /\ attempt'[a].cancelled
                /\ attempt'[a].expiresAt = call[c].at
  BY <1>t, <1>1 DEF BankDenies, Expired, RowsTyped, AttemptRows
<1>2. ASSUME NEW c \in Call, NEW k \in Code, AttachCode(c, k) PROVE Same
  BY <1>t, <1>2 DEF AttachCode, Attached, RowsTyped, AttemptRows
<1>3. ASSUME NEW c \in Call, ConsumeCode(c) PROVE Same
  BY <1>t, <1>3 DEF ConsumeCode, RowsTyped, AttemptRows
<1>4. ASSUME NEW c \in Call, CommitErase(c) PROVE Same
  BY <1>t, <1>4 DEF CommitErase, RowsTyped, AttemptRows
<1>5. ASSUME SweepAttempts PROVE Same
  BY <1>t, <1>5 DEF SweepAttempts, RowsTyped, AttemptRows
<1>6. ASSUME NEW b \in Attempt, StartLogin(b)
      PROVE  Same \/ (StartLogin(a) /\ attempt'[a].cancelled = attempt[a].cancelled)
  BY <1>t, <1>6 DEF StartLogin, RowsTyped, AttemptRows
<1>7. ASSUME NEW c \in Call, Callback(c)
      PROVE  attempt' = attempt \/ BankDenies(c) \/ \E k \in Code : AttachCode(c, k)
  BY <1>7 DEF Callback, FindAttempt, BankFails, BankIdentifies, ReadIdentity, ReadAccount,
    CountRefused, InsertIdentity, InsertAccount, AccountTaken, CheckAttach, AttachRefused, Rows
<1>8. ASSUME NEW c \in Call, Exchange(c) PROVE attempt' = attempt \/ ConsumeCode(c)
  BY <1>8 DEF Exchange, FindCode, CheckIssue, InsertSession, Rows
<1>9. ASSUME NEW c \in Call, Erase(c) PROVE attempt' = attempt \/ CommitErase(c)
  BY <1>9 DEF Erase, LockAccount
<1>10. ASSUME NEW c \in Call, Begin(c) PROVE attempt' = attempt
  BY <1>10, BeginQuiet DEF Rows
<1>11. ASSUME SweepSessions \/ UNCHANGED vars PROVE attempt' = attempt
  BY <1>11 DEF SweepSessions, vars
<1>12. ASSUME Environment PROVE attempt' = attempt \/ \E b \in Attempt : StartLogin(b)
  BY <1>12 DEF Environment, Sanction, Crash, Tick, Rows
<1> HIDE DEF Same
<1>13. \/ Same
       \/ StartLogin(a) /\ attempt'[a].cancelled = attempt[a].cancelled
       \/ \E c \in Call :
            /\ BankDenies(c) /\ a = call[c].attempt
            /\ attempt[a].row = "open" /\ attempt'[a].row = "open" /\ attempt'[a].cancelled
            /\ attempt'[a].expiresAt = call[c].at
  BY <1>0, <1>1, <1>2, <1>3, <1>4, <1>5, <1>6, <1>7, <1>8, <1>9, <1>10, <1>11, <1>12
  DEF Next, Step
<1> QED BY <1>13 DEF Same

\* Who is at the head of a callback, and since when.
LEMMA HeadSteps ==
  ASSUME Typed, [Next]_vars, NEW c \in Call
  PROVE  \/ /\ call'[c].afterCancel = call[c].afterCancel
            /\ call'[c].attempt = call[c].attempt /\ call'[c].at = call[c].at
            /\ call'[c].pc = call[c].pc
         \/ /\ FindAttempt(c) /\ Completable(call[c].attempt, call[c].at)
            /\ call'[c].pc = "bank" /\ call'[c].afterCancel = call[c].afterCancel
            /\ call'[c].attempt = call[c].attempt /\ call'[c].at = call[c].at
         \/ /\ \E a \in Attempt : BeginCallback(c, a)
            /\ call'[c].attempt \in Attempt
            /\ call'[c].pc = "find" /\ call'[c].at = now
            /\ call'[c].afterCancel = attempt[call'[c].attempt].cancelled
         \/ /\ call'[c].pc \notin {"find", "bank"}
            /\ call'[c].afterCancel => call[c].afterCancel /\ call[c].pc \notin {"idle", "find"}
<1> DEFINE Same == /\ call'[c].afterCancel = call[c].afterCancel
                   /\ call'[c].attempt = call[c].attempt /\ call'[c].at = call[c].at
                   /\ call'[c].pc = call[c].pc
           Past == /\ call'[c].pc \notin {"find", "bank"}
                   /\ call'[c].afterCancel => call[c].afterCancel /\ call[c].pc \notin {"idle", "find"}
           Found == /\ FindAttempt(c) /\ Completable(call[c].attempt, call[c].at)
                    /\ call'[c].pc = "bank" /\ call'[c].afterCancel = call[c].afterCancel
                    /\ call'[c].attempt = call[c].attempt /\ call'[c].at = call[c].at
           Began == /\ \E a \in Attempt : BeginCallback(c, a)
                    /\ call'[c].attempt \in Attempt
                    /\ call'[c].pc = "find" /\ call'[c].at = now
                    /\ call'[c].afterCancel = attempt[call'[c].attempt].cancelled
<1>t. Calls
  BY DEF Typed
<1>i. ~Idle.afterCancel
  BY DEF Idle
<1>0. call'[c] = call[c] => Same
  OBVIOUS
<1>f. Finish(c) => Past
  BY <1>t, <1>i, IdleReady DEF Finish, Calls
<1>1. ASSUME Callback(c) PROVE Same \/ Found \/ Past
  <2>1. CASE FindAttempt(c)
    BY <1>t, <1>f, <2>1 DEF FindAttempt, Go, Calls, CallRecords
  <2>2. ASSUME BankDenies(c) \/ BankFails(c) \/ CountRefused(c) \/ AccountTaken(c) PROVE Past
    BY <1>f, <2>2 DEF BankDenies, BankFails, CountRefused, AccountTaken
  <2>3. ASSUME NEW p \in Person, BankIdentifies(c, p) PROVE Past
    BY <1>t, <2>3 DEF BankIdentifies, Calls, CallRecords
  <2>4. ASSUME ReadIdentity(c) PROVE Past
    BY <1>t, <2>4 DEF ReadIdentity, Calls, CallRecords
  <2>5. ASSUME ReadAccount(c) PROVE Past
    BY <1>t, <2>5 DEF ReadAccount, Go, Calls, CallRecords
  <2>6. ASSUME InsertIdentity(c) PROVE Past
    BY <1>t, <2>6 DEF InsertIdentity, Go, Calls, CallRecords
  <2>7. ASSUME NEW x \in Account, InsertAccount(c, x) PROVE Past
    BY <1>t, <2>7 DEF InsertAccount, Calls, CallRecords
  <2>8. ASSUME CheckAttach(c) PROVE Past
    BY <1>t, <2>8 DEF CheckAttach, Go, Calls, CallRecords
  <2>9. ASSUME AttachRefused(c) PROVE Past
    BY <1>t, <1>f, <2>9 DEF AttachRefused, Calls, CallRecords
  <2>10. ASSUME NEW k \in Code, AttachCode(c, k) PROVE Past
    BY <1>f, <2>10 DEF AttachCode
  <2> HIDE DEF Same, Past
  <2> QED BY <1>1, <2>1, <2>2, <2>3, <2>4, <2>5, <2>6, <2>7, <2>8, <2>9, <2>10 DEF Callback
<1>2. ASSUME Exchange(c) PROVE Past
  <2>1. ASSUME NEW a \in Attempt, call[c].pc = "findCode",
               call' = [call EXCEPT ![c].pc = "consume", ![c].attempt = a,
                                    ![c].account = attempt[a].account]
        PROVE  Past
    BY <1>t, <2>1 DEF Calls, CallRecords
  <2>2. ASSUME call[c].pc \in {"consume", "issue"}, Go(c, "issue") \/ Go(c, "inserting")
        PROVE  Past
    BY <1>t, <2>2 DEF Go, Calls, CallRecords
  <2> HIDE DEF Past
  <2> QED BY <1>2, <1>f, <2>1, <2>2 DEF Exchange, FindCode, ConsumeCode, CheckIssue, InsertSession
<1>3. ASSUME Erase(c) PROVE Past
  <2>1. ASSUME LockAccount(c) PROVE Past
    BY <1>t, <1>f, <2>1 DEF LockAccount, Calls, CallRecords
  <2> QED BY <1>3, <1>f, <2>1 DEF Erase, CommitErase
<1>4. ASSUME Begin(c) PROVE Began \/ Past
  <2>1. ASSUME NEW a \in Attempt, BeginCallback(c, a) PROVE Began
    BY <1>t, <2>1 DEF BeginCallback, Idle, Calls
  <2>2. ASSUME NEW k \in Code, BeginExchange(c, k) PROVE Past
    BY <1>t, <2>2 DEF BeginExchange, Idle, Calls
  <2>3. ASSUME NEW s \in Session, BeginErase(c, s) PROVE Past
    BY <1>t, <2>3 DEF BeginErase, Idle, Calls
  <2> QED BY <1>4, <2>1, <2>2, <2>3 DEF Begin
<1>5. ASSUME NEW d \in Call, d # c, Begin(d) \/ Step(d) PROVE call'[c] = call[c]
  BY <1>5, CallbackQuiet, ExchangeQuiet, EraseQuiet, BeginQuiet DEF Step
<1>6. ASSUME SweepSessions \/ SweepAttempts \/ Environment \/ UNCHANGED vars PROVE Same \/ Past
  <2>1. call'[c] = Idle => Past
    BY <1>i, IdleReady
  <2> QED BY <1>0, <1>6, <2>1, OthersQuiet DEF vars
<1> HIDE DEF Same, Past, Found, Began
<1>7. Same \/ Found \/ Began \/ Past
  BY <1>0, <1>1, <1>2, <1>3, <1>4, <1>5, <1>6 DEF Next, Step
<1> QED BY <1>7 DEF Same, Past, Found, Began

LEMMA CancelledNext ==
  ASSUME Typed, Cancelled, [Next]_vars
  PROVE  Cancelled'
<1>t. Calls /\ RowsTyped /\ Calls'
  BY TypedNext DEF Typed
<1>n. now <= now'
  <2>1. ASSUME NEW c \in Call, Begin(c) \/ Step(c) PROVE now' = now
    BY <2>1, BeginQuiet, CallbackQuiet, ExchangeQuiet, EraseQuiet DEF Step
  <2>2. ASSUME SweepSessions \/ SweepAttempts \/ UNCHANGED vars PROVE now' = now
    BY <2>2 DEF SweepSessions, SweepAttempts, vars
  <2>3. ASSUME Environment PROVE now' = now \/ now' = now + 1
    BY <2>3 DEF Environment, StartLogin, Sanction, Crash, Tick
  <2>4. now' = now \/ now' = now + 1
    BY <2>1, <2>2, <2>3 DEF Next
  <2> QED BY <1>t, <2>4 DEF Calls
<1>a. \A c \in Call : call[c].pc \in {"find", "bank"} => call[c].attempt \in Attempt
  BY <1>t DEF Calls, Ready, CallbackSteps
<1>v. /\ now \in Nat /\ now' \in Nat
      /\ \A c \in Call : call[c].at \in Nat /\ call[c].at <= now /\ call'[c].at \in Nat /\ call'[c].at <= now'
      /\ \A a \in Attempt : attempt[a].expiresAt \in Nat
  BY <1>t DEF Calls, CallRecords, RowsTyped, AttemptRows
<1>1. ASSUME NEW a \in Attempt, attempt'[a].cancelled
      PROVE  attempt'[a].row # "unused" /\ attempt'[a].expiresAt <= now'
  <2>1. ASSUME StartLogin(a), attempt'[a].cancelled = attempt[a].cancelled PROVE FALSE
    BY <1>1, <2>1 DEF StartLogin, Cancelled
  <2>2. attempt[a].cancelled => attempt[a].row # "unused" /\ attempt[a].expiresAt <= now
    BY DEF Cancelled
  <2>3. CASE /\ attempt'[a].cancelled = attempt[a].cancelled
             /\ attempt'[a].expiresAt = attempt[a].expiresAt
             /\ attempt[a].row # "unused" => attempt'[a].row # "unused"
    <3>1. attempt[a].row # "unused" /\ attempt[a].expiresAt <= now
      BY <1>1, <2>2, <2>3
    <3> QED BY <1>n, <1>v, <2>3, <3>1
  <2>4. ASSUME NEW c \in Call, attempt'[a].row = "open", attempt'[a].expiresAt = call[c].at
        PROVE  attempt'[a].row # "unused" /\ attempt'[a].expiresAt <= now'
    BY <1>n, <1>v, <2>4
  <2> QED BY <2>1, <2>3, <2>4, DeadlineSteps
<1>2. CancelledStaysCancelled'
  <2>1. ASSUME NEW c \in Call, call'[c].afterCancel PROVE call'[c].pc \in {"idle", "find"}
    <3>1. ASSUME FindAttempt(c), Completable(call[c].attempt, call[c].at), call[c].afterCancel
          PROVE  FALSE
      <4>1. call[c].pc = "find"
        BY <3>1 DEF FindAttempt
      <4>2. attempt[call[c].attempt].expiresAt <= call[c].at /\ call[c].attempt \in Attempt
        BY <1>a, <3>1, <4>1 DEF Cancelled
      <4> QED BY <1>v, <3>1, <4>2 DEF Completable
    <3>2. call[c].afterCancel => call[c].pc \in {"idle", "find"}
      BY DEF Cancelled, CancelledStaysCancelled
    <3> QED BY <2>1, <3>1, <3>2, HeadSteps
  <2> QED BY <2>1 DEF CancelledStaysCancelled
<1>3. ASSUME NEW c \in Call, call'[c].afterCancel, call'[c].pc = "find"
      PROVE  /\ attempt'[call'[c].attempt].cancelled
             /\ attempt'[call'[c].attempt].expiresAt <= call'[c].at
  <2>1. CASE /\ call[c].afterCancel /\ call[c].pc = "find"
             /\ call'[c].attempt = call[c].attempt /\ call'[c].at = call[c].at
    <3> PICK a \in Attempt : a = call[c].attempt
      BY <1>a, <2>1
    <3>1. attempt[a].cancelled /\ attempt[a].expiresAt <= call[c].at /\ attempt[a].row # "unused"
      BY <2>1 DEF Cancelled
    <3>2. ~StartLogin(a)
      BY <3>1 DEF StartLogin
    <3>3. ASSUME NEW d \in Call, BankDenies(d), a = call[d].attempt PROVE call[d].at <= call[c].at
      <4>1. call[d].pc = "bank"
        BY <3>3 DEF BankDenies
      <4>2. ~call[d].afterCancel
        BY <4>1 DEF Cancelled, CancelledStaysCancelled
      <4>3. call[c].attempt = call[d].attempt
        BY <3>3
      <4> QED BY <2>1, <4>1, <4>2, <4>3 DEF Cancelled
    <3> QED BY <2>1, <3>1, <3>2, <3>3, DeadlineSteps
  <2>2. CASE /\ \E a \in Attempt : BeginCallback(c, a)
             /\ call'[c].attempt \in Attempt /\ call'[c].at = now
             /\ call'[c].afterCancel = attempt[call'[c].attempt].cancelled
    <3>1. attempt' = attempt
      BY <2>2 DEF BeginCallback, Rows
    <3> QED BY <1>3, <2>2, <3>1 DEF Cancelled
  <2> QED BY <1>3, <2>1, <2>2, HeadSteps
<1>4. ASSUME NEW c \in Call, NEW d \in Call,
             call'[c].afterCancel, call'[c].pc = "find",
             ~call'[d].afterCancel, call'[d].pc \in {"find", "bank"},
             call'[c].attempt = call'[d].attempt
      PROVE  call'[d].at <= call'[c].at
  <2>1. CASE /\ call[c].afterCancel /\ call[c].pc = "find"
             /\ call'[c].attempt = call[c].attempt /\ call'[c].at = call[c].at
    <3>1. CASE /\ ~call[d].afterCancel /\ call[d].pc \in {"find", "bank"}
               /\ call'[d].attempt = call[d].attempt /\ call'[d].at = call[d].at
      <4>1. call[c].attempt = call[d].attempt
        BY <1>4, <2>1, <3>1
      <4> QED BY <2>1, <3>1, <4>1 DEF Cancelled
    <3>2. CASE call'[d].afterCancel = attempt[call'[d].attempt].cancelled
      <4>1. call'[d].attempt = call[c].attempt
        BY <1>4, <2>1
      <4>2. attempt[call[c].attempt].cancelled
        BY <2>1 DEF Cancelled
      <4> QED BY <1>4, <3>2, <4>1, <4>2
    <3>3. FindAttempt(d) => call[d].pc = "find"
      BY DEF FindAttempt
    <3> QED BY <1>4, <3>1, <3>2, <3>3, HeadSteps
  <2>2. CASE (\E a \in Attempt : BeginCallback(c, a)) /\ call'[c].at = now
    <3>1. now' = now
      BY <2>2 DEF BeginCallback
    <3> QED BY <1>v, <2>2, <3>1
  <2> QED BY <1>4, <2>1, <2>2, HeadSteps
<1> QED BY <1>1, <1>2, <1>3, <1>4 DEF Cancelled

\* A callback that comes after the person cancelled never completes, for any
\* number of browsers returning with the same state at once.
THEOREM LoginCancelledStaysCancelled == Spec => []CancelledStaysCancelled
<1>1. Init => Cancelled
  BY DEF Init, Cancelled, CancelledStaysCancelled, Idle
<1>2. Cancelled => CancelledStaysCancelled
  BY DEF Cancelled
<1> QED BY <1>1, <1>2, TypedInit, TypedNext, CancelledNext, PTL DEF Spec

-----------------------------------------------------------------------------
(* Who slips through the registration rule *)

\* A login about to create an account either made the identity itself or was
\* let through by the rule on the row it had read.
Decided ==
  \A c \in Call :
    /\ call[c].pc = "insertIdentity" => ~call[c].seen.known
    /\ call[c].pc = "insertAccount" =>
         \/ ~call[c].seen.known
         \/ /\ call[c].seen.standing = "ok"
            /\ ~CoolingDown(call[c].seen, call[c].at)
    /\ call[c].pc = "account" => call[c].seen.known

LEMMA DecidedNext ==
  ASSUME Typed, Decided, [Next]_vars
  PROVE  Decided'
<1>t. Calls /\ RowsTyped
  BY DEF Typed
<1> SUFFICES ASSUME NEW d \in Call,
                    call'[d] # call[d],
                    call'[d].pc \in {"insertIdentity", "insertAccount", "account"}
             PROVE  /\ call'[d].pc = "insertIdentity" => ~call'[d].seen.known
                    /\ call'[d].pc = "insertAccount" =>
                         \/ ~call'[d].seen.known
                         \/ /\ call'[d].seen.standing = "ok"
                            /\ ~CoolingDown(call'[d].seen, call'[d].at)
                    /\ call'[d].pc = "account" => call'[d].seen.known
  BY DEF Decided, CoolingDown
<1>1. Callback(d)
  <2>1. ASSUME NEW c \in Call, Callback(c) PROVE c = d
    BY <2>1, CallbackQuiet
  <2>2. ASSUME NEW c \in Call, Exchange(c) \/ Erase(c) \/ Begin(c) PROVE FALSE
    BY <2>2, ExchangeQuiet, EraseQuiet, BeginQuiet
  <2>3. ASSUME SweepSessions \/ SweepAttempts \/ Environment \/ UNCHANGED vars PROVE FALSE
    BY <2>3, OthersQuiet, IdleReady DEF vars
  <2> QED BY <2>1, <2>2, <2>3 DEF Next, Step
<1>2. CASE ReadIdentity(d)
  <2>1. /\ call'[d].seen = identity[call[d].person]
        /\ call'[d].pc = IF identity[call[d].person].known THEN "account" ELSE "insertIdentity"
    BY <1>t, <1>2 DEF ReadIdentity, Calls, CallRecords
  <2> QED BY <2>1
<1>3. CASE ReadAccount(d)
  <2>1. Go(d, "insertAccount") /\ call[d].pc = "account"
    <3>1. Go(d, "refuse") => call'[d].pc = "refuse"
      BY <1>t DEF Go, Calls, CallRecords
    <3>2. ASSUME NEW x \in Account, call' = [call EXCEPT ![d].pc = "attach", ![d].account = x]
          PROVE  call'[d].pc = "attach"
      BY <1>t, <3>2 DEF Calls, CallRecords
    <3> QED BY <1>3, <3>1, <3>2 DEF ReadAccount, LiveAccountsOf
  <2>2. call'[d].seen = call[d].seen /\ call'[d].at = call[d].at /\ call'[d].pc = "insertAccount"
    BY <1>t, <2>1 DEF Go, Calls, CallRecords
  <2>3. call[d].seen.known /\ call[d].seen \in IdentityRows
    BY <1>t, <2>1 DEF Decided, Calls, CallRecords
  <2>4. decideRegistration(call[d].seen, LiveAccountsOf(call[d].person) # {}, call[d].at) = "create_account"
    <3>1. Go(d, "refuse") => call'[d].pc = "refuse"
      BY <1>t DEF Go, Calls, CallRecords
    <3>2. ASSUME NEW x \in Account, call' = [call EXCEPT ![d].pc = "attach", ![d].account = x]
          PROVE  call'[d].pc = "attach"
      BY <1>t, <3>2 DEF Calls, CallRecords
    <3> QED BY <1>3, <2>2, <3>1, <3>2 DEF ReadAccount, LiveAccountsOf
  <2>5. call[d].seen.standing = "ok" /\ ~CoolingDown(call[d].seen, call[d].at)
    BY <2>3, <2>4 DEF decideRegistration, IdentityRows, Standings
  <2> QED BY <2>2, <2>5
<1>4. CASE InsertIdentity(d)
  <2>1. call'[d].seen = call[d].seen /\ call'[d].pc \in {"identity", "insertAccount"}
    BY <1>t, <1>4 DEF InsertIdentity, Go, Calls, CallRecords
  <2> QED BY <1>4, <2>1 DEF InsertIdentity, Decided
<1>5. ASSUME NEW p \in Person, BankIdentifies(d, p) PROVE FALSE
  BY <1>t, <1>5 DEF BankIdentifies, Calls, CallRecords
<1>6. ASSUME NEW x \in Account, InsertAccount(d, x) PROVE FALSE
  BY <1>t, <1>6 DEF InsertAccount, Calls, CallRecords
<1>7. ASSUME NEW k \in Code, AttachCode(d, k) PROVE FALSE
  BY <1>t, <1>7, IdleReady DEF AttachCode, Finish, Calls
<1>8. ASSUME FindAttempt(d) \/ CheckAttach(d) \/ AttachRefused(d) PROVE FALSE
  BY <1>t, <1>8, IdleReady DEF FindAttempt, CheckAttach, AttachRefused, Finish, Go, Calls, CallRecords
<1>9. ASSUME BankDenies(d) \/ BankFails(d) \/ CountRefused(d) \/ AccountTaken(d) PROVE FALSE
  BY <1>t, <1>9, IdleReady DEF BankDenies, BankFails, CountRefused, AccountTaken, Finish, Calls
<1> QED BY <1>1, <1>2, <1>3, <1>4, <1>5, <1>6, <1>7, <1>8, <1>9 DEF Callback

\* An account that appears against the registration rule was let through on a
\* row read before the sanction or the deletion that now forbids it.
THEOREM LoginOnlyStaleReadsSlipThrough == Spec => OnlyStaleReadsSlipThrough
<1> DEFINE ReadBefore(p) == \E c \in Call :
             /\ call[c].pc = "insertAccount"
             /\ call[c].person = p
             /\ call[c].seen # [identity[p] EXCEPT !.refused = call[c].seen.refused]
           Inv == Typed /\ OneLiveAccount /\ Known /\ Counting /\ Decided
<1>1. Init => Inv
  BY TypedInit DEF Init, OneLiveAccount, Live, Known, Counting, Decided, Idle, NoIdentity
<1>2. Inv /\ [Next]_vars => Inv'
  BY TypedNext, OneLiveAccountNext, KnownNext, CountingNext, DecidedNext
<1>3. ASSUME Inv, [Next]_vars, NEW p \in Person, Created(p), Forbidden(p)
      PROVE  ReadBefore(p)
  <2>t. Calls /\ RowsTyped
    BY <1>3 DEF Typed
  <2>1. PICK y \in Account : account[y].state = "absent" /\ account'[y] = [state |-> "live", person |-> p]
    BY <1>3 DEF Created
  <2>2. ASSUME NEW c \in Call, CommitErase(c) PROVE FALSE
    BY <1>3, <2>1, <2>2, EraseQuiet DEF Erase
  <2>3. PICK c \in Call, x \in Account : InsertAccount(c, x)
    BY <1>3, <2>1, <2>2, AccountSteps
  <2>4. call[c].pc = "insertAccount" /\ call[c].person = p
    <3>1. y = x
      BY <2>t, <2>1, <2>3 DEF InsertAccount, RowsTyped
    <3> QED BY <2>t, <2>1, <2>3, <3>1 DEF InsertAccount, RowsTyped
  <2>5. ASSUME call[c].seen = [identity[p] EXCEPT !.refused = call[c].seen.refused] PROVE FALSE
    <3>1. identity[p] \in IdentityRows /\ identity[p].known
      BY <1>3, <2>t, <2>4 DEF RowsTyped, Known
    <3>2. /\ call[c].seen.known = identity[p].known
          /\ call[c].seen.standing = identity[p].standing
          /\ call[c].seen.reregisterAfter = identity[p].reregisterAfter
      BY <2>5, <3>1 DEF IdentityRows
    <3>3. identity[p].standing = "ok" /\ ~(call[c].at < identity[p].reregisterAfter)
      BY <1>3, <2>4, <3>1, <3>2 DEF Decided, CoolingDown
    <3>4. /\ call[c].at \in Nat /\ now \in Nat /\ call[c].at <= now
          /\ identity[p].reregisterAfter \in Nat
      BY <2>t, <3>1 DEF Calls, CallRecords, IdentityRows
    <3> QED BY <1>3, <3>3, <3>4 DEF Forbidden, CoolingDown
  <2> QED BY <2>4, <2>5
<1>4. Inv /\ [Next]_vars => [\A p \in Person : Created(p) /\ Forbidden(p) => ReadBefore(p)]_vars
  BY <1>3
<1> QED BY <1>1, <1>2, <1>4, PTL DEF Spec, OnlyStaleReadsSlipThrough
=============================================================================
