------------------------------ MODULE PondGate ------------------------------
(***************************************************************************)
(* The pond gate: apps/api/src/jobs/pond-gate.ts over the rows account,    *)
(* preferences and gate, beside everything that changes what a count reads *)
(* (savePreferences, declareGender, setPondOfAccount, eraseAccount and a   *)
(* profile that becomes or ceases to be complete).                         *)
(*                                                                         *)
(* A count is one READ COMMITTED transaction of several statements: each   *)
(* statement reads what is committed when it starts and the transaction's  *)
(* own writes (draft), and nobody else sees those before the commit.  The  *)
(* locks are PostgreSQL's: GATE_LOCK_KEY is gateLock; an account row       *)
(* locked FOR SHARE by a count is in its locked.  A writer locks the       *)
(* account FOR UPDATE first, reads after it and commits: nobody can tell   *)
(* its statements apart, so it is one step that waits for the counts that  *)
(* share the row.  setPondOfAccount is one statement instead, whose        *)
(* snapshot is older than the lock it waits for: two steps.                *)
(*                                                                         *)
(* Clock values are left out: admitted, opened and counted say whether the *)
(* column is set.  Standing and shadow_banned are left out, since nothing  *)
(* in the repository sets them.                                            *)
(***************************************************************************)
EXTENDS Admission

CONSTANTS
  Account,     \* accounts
  Pond,        \* ponds
  Handler,     \* requests and night jobs that can run at once
  Registered,  \* registered_at of each account, ties broken by id
  Age,         \* age of each account's person
  Preferences, \* what savePreferences can be given
  Onboarded,   \* what the accounts can be at the start
  Step,        \* waitlist_k
  GateK,       \* gate_k
  MaxChanges   \* bound of the changes people make

AccountRows ==
  [live: BOOLEAN, pond: Pond \cup {None}, gender: Gender \cup {None},
   prefs: Preferences \cup {None}, finished: BOOLEAN]

\* A place of 0 is null.  group and stay are history: the group an admission
\* was given with, and during which stay in the pond.
GateRows ==
  [row: {"absent", "present"}, pond: Pond \cup {None}, admitted: BOOLEAN,
   place: Nat, pool: Nat, opened: BOOLEAN, counted: BOOLEAN,
   group: ContestedGroup \cup {"nobody"}, stay: Nat]

ASSUME PondGateAssumption ==
  /\ IsFiniteSet(Account)
  /\ Registered \in [Account -> Nat] /\ Age \in [Account -> Nat]
  /\ \A x, y \in Account : Registered[x] = Registered[y] => x = y
  /\ Preferences \subseteq [seeks : SUBSET Gender \ {{}}, min : Nat, max : Nat]
  /\ \A rows \in Onboarded : rows \in [Account -> AccountRows] /\ \A x \in Account : rows[x].live
  /\ Step \in Nat \ {0} /\ GateK \in Nat /\ MaxChanges \in Nat
  /\ None \notin Account \cup Pond \cup Handler
  /\ None \notin Gender /\ \A S \in SUBSET Gender : S # None
  /\ None \notin Preferences /\ None \notin GateRows

VARIABLES
  account,   \* account rows with their hard preferences
  gate,      \* gate rows
  gateLock,  \* who holds the advisory lock of the counts
  call,      \* the handlers in flight
  changes,   \* how many changes people have made
  stays,     \* history: how often each account has changed its pond
  told       \* history: who was told "open" and has changed nothing since

vars == <<account, gate, gateLock, call, changes, stays, told>>

Absent ==
  [row |-> "absent", pond |-> None, admitted |-> FALSE, place |-> 0, pool |-> 0,
   opened |-> FALSE, counted |-> FALSE, group |-> "nobody", stay |-> 0]

CallRecords ==
  [pc: {"idle", "move", "accounts", "repair", "pond", "insert",
        "facts", "row", "lock", "asker", "first", "reread"},
   account: Account \cup {None}, pond: Pond \cup {None},
   sees: BOOLEAN, locked: SUBSET Account, todo: SUBSET Pond,
   computed: [Account -> GateRows \cup {None}],
   draft: [Account -> GateRows \cup {None}]]

Nothing == [x \in Account |-> None]

Idle ==
  [pc |-> "idle", account |-> None, pond |-> None, sees |-> FALSE, locked |-> {},
   todo |-> {}, computed |-> Nothing, draft |-> Nothing]

TypeOK ==
  /\ account \in [Account -> AccountRows]
  /\ gate \in [Account -> GateRows]
  /\ gateLock \in Handler \cup {None}
  /\ call \in [Handler -> CallRecords]
  /\ changes \in 0..MaxChanges
  /\ stays \in [Account -> Nat]
  /\ told \in [Account -> BOOLEAN]

Init ==
  /\ account \in Onboarded
  /\ gate = [x \in Account |-> Absent]
  /\ gateLock = None
  /\ call = [c \in Handler |-> Idle]
  /\ changes = 0
  /\ stays = [x \in Account |-> 0]
  /\ told = [x \in Account |-> FALSE]

Becomes(c, record) == call' = [call EXCEPT ![c] = record]
Goes(c, pc)        == Becomes(c, [call[c] EXCEPT !.pc = pc])
Finishes(c)        == Becomes(c, Idle)

\* No count shares the row: a writer gets it.
Free(x) == \A c \in Handler : x \notin call[c].locked

\* A person changes something: bounded.
Changes(x) == changes < MaxChanges /\ changes' = changes + 1

-----------------------------------------------------------------------------
(* What people change *)

\* Mutation: what was said of the pool is emptied too.
EmptiedWhole(row) == [row EXCEPT !.admitted = FALSE, !.pool = None, !.counted = FALSE]

Emptied(row) ==
  [row EXCEPT !.admitted = FALSE, !.place = 0, !.opened = FALSE, !.counted = FALSE]

Declared(row) ==
  [gender |-> row.gender, seeks |-> IF row.prefs = None THEN None ELSE row.prefs.seeks]

\* A writer of the account's declarations, admissionAnew in its transaction.
Declare(x, row) ==
  /\ Changes(x)
  /\ account[x].live /\ Free(x)
  /\ account' = [account EXCEPT ![x] = row]
  /\ gate' = [gate EXCEPT ![x] =
                IF @.row = "present" /\ joinsAGroupThatWaits(Declared(account[x]), Declared(row))
                THEN Emptied(@) ELSE @]
  /\ told' = [told EXCEPT ![x] = FALSE]
  /\ UNCHANGED <<gateLock, call, stays>>

savePreferences(x) ==
  \E p \in Preferences : Declare(x, [account[x] EXCEPT !.prefs = p])

declareGender(x) ==
  \E g \in Gender : Declare(x, [account[x] EXCEPT !.gender = g])

\* Onboarding, a profile, a photo's approval: whatever else makes a person
\* complete, or no longer so, under no lock a count takes.
Profile(x) ==
  /\ Changes(x)
  /\ account[x].live
  /\ account' = [account EXCEPT ![x].finished = ~@]
  /\ UNCHANGED <<gate, gateLock, call, stays, told>>

eraseAccount(x) ==
  /\ Changes(x)
  /\ account[x].live /\ Free(x)
  /\ account' = [account EXCEPT ![x] =
       [live |-> FALSE, pond |-> None, gender |-> None, prefs |-> None, finished |-> FALSE]]
  /\ gate' = [gate EXCEPT ![x] = Absent]
  /\ told' = [told EXCEPT ![x] = FALSE]
  /\ UNCHANGED <<gateLock, call, stays>>

\* setPondOfAccount takes its snapshot.  It sees the gate row it will empty,
\* or none: a row that is written while it waits for the account is missed.
BeginMove(c, x, p) ==
  /\ Changes(x)
  /\ call[c].pc = "idle"
  /\ Becomes(c, [Idle EXCEPT !.pc = "move", !.account = x, !.pond = p,
                   !.sees = gate[x].row = "present" /\ gate[x].pond # p])
  /\ UNCHANGED <<account, gate, gateLock, stays, told>>

\* It has the account.  A row it saw is looked at again as it is now.
Move(c) ==
  LET x == call[c].account
      p == call[c].pond
  IN  /\ call[c].pc = "move"
      /\ Free(x)
      /\ IF account[x].live
         THEN /\ account' = [account EXCEPT ![x].pond = p]
              /\ gate' = [gate EXCEPT ![x] =
                   IF call[c].sees /\ @.row = "present" /\ @.pond # p
                   THEN [Emptied(@) EXCEPT !.pond = p] ELSE @]
              /\ stays' = [stays EXCEPT ![x] = IF account[x].pond = p THEN @ ELSE @ + 1]
              /\ told' = [told EXCEPT ![x] = FALSE]
         ELSE UNCHANGED <<account, gate, stays, told>>
      /\ Finishes(c)
      /\ UNCHANGED <<gateLock, changes>>

-----------------------------------------------------------------------------
(* What a count computes *)

Night(c) == call[c].account = None

\* The gate as the transaction of a count sees it.
SeenGate(c) == [x \in Account |-> IF call[c].draft[x] = None THEN gate[x] ELSE call[c].draft[x]]

\* FACTS and subjectFrom: who of the pond has everything a count asks for.
Subject(x, p) ==
  /\ account[x].live /\ account[x].pond = p
  /\ account[x].gender # None /\ account[x].prefs # None /\ account[x].finished

\* The rows a count reads: at night of the accounts it locked; on a first ask
\* of the whole pond, while the asker lives in it.
Read(c, p) ==
  {x \in Account :
     /\ Subject(x, p)
     /\ IF Night(c)
        THEN x \in call[c].locked
        ELSE account[call[c].account].live /\ account[call[c].account].pond = p}

Here(row, p) == row.row = "present" /\ row.pond = p

Group(x) == contestedGroup(account[x].gender, account[x].prefs.seeks)

\* The population of a pond, for admission.
People(rows, S, p) ==
  [x \in S |-> [group |-> Group(x), registered |-> Registered[x],
                admitted |-> Here(rows[x], p) /\ rows[x].admitted]]

PoolPerson(x) ==
  [gender |-> account[x].gender, seeks |-> account[x].prefs.seeks,
   min |-> account[x].prefs.min, max |-> account[x].prefs.max, age |-> Age[x]]

\* The people of shown whom x could be shown to, and they to x.
PoolOf(x, shown) == {y \in shown \ {x} : inEachOthersPool(PoolPerson(x), PoolPerson(y))}

Waits(row, p, place) ==
  [Absent EXCEPT !.row = "present", !.pond = p, !.place = sayPlace(place, Step),
                 !.pool = row.pool, !.counted = TRUE]

Undecided(row, p) == [Absent EXCEPT !.row = "present", !.pond = p, !.pool = row.pool]

\* Mutation: a gate is open while the pool is large enough.
AdmittedByPool(row, p, x, pool) ==
  [row |-> "present", pond |-> p, admitted |-> TRUE, place |-> 0,
   pool |-> sayPool(IF row.row = "present" THEN row.pool ELSE None, pool, Step),
   opened |-> pool >= GateK, counted |-> TRUE,
   group |-> IF Here(row, p) /\ row.admitted THEN row.group ELSE Group(x),
   stay |-> IF Here(row, p) /\ row.admitted THEN row.stay ELSE stays[x]]

Admitted(row, p, x, pool) ==
  LET stays1 == Here(row, p) /\ row.admitted
      said   == IF row.row = "present" THEN row.pool ELSE None
  IN  [row |-> "present", pond |-> p, admitted |-> TRUE, place |-> 0,
       pool |-> sayPool(said, pool, Step),
       opened |-> (Here(row, p) /\ row.opened) \/ pool >= GateK,
       counted |-> TRUE,
       group |-> IF stays1 THEN row.group ELSE Group(x),
       stay |-> IF stays1 THEN row.stay ELSE stays[x]]

\* Mutation: the pool is of those a former count let in.
NightRowOfRecorded(rows, p, people, admission, x) ==
  IF x \in DOMAIN admission.waiting
  THEN Waits(rows[x], p, admission.waiting[x])
  ELSE Admitted(rows[x], p, x, Cardinality(PoolOf(x, Recorded(people))))

\* The night writes every row: whoever it lets in is inside for everybody.
NightRow(rows, p, people, admission, x) ==
  IF x \in DOMAIN admission.waiting
  THEN Waits(rows[x], p, admission.waiting[x])
  ELSE Admitted(rows[x], p, x,
         Cardinality(PoolOf(x, {y \in DOMAIN people :
                                  people[y].admitted \/ y \in admission.admitted})))

\* Mutation: a first ask decides as the night would.
FirstRowOfTheNight(rows, p, people, admission, x) ==
  IF x \in DOMAIN admission.waiting
  THEN Waits(rows[x], p, placeAlone(people, x))
  ELSE Admitted(rows[x], p, x, Cardinality(PoolOf(x, Recorded(people))))

\* A first ask writes the asker's row: it rests on recorded admissions alone.
FirstRow(rows, p, people, admission, x) ==
  IF x \in DOMAIN admission.waiting
  THEN Waits(rows[x], p, placeAlone(people, x))
  ELSE IF ~admitsAlone(people, x)
       THEN Undecided(rows[x], p)
       ELSE Admitted(rows[x], p, x, Cardinality(PoolOf(x, Recorded(people))))

-----------------------------------------------------------------------------
(* The statements of a count *)

\* The night's transaction waits for the advisory lock, and has it.
BeginNight(c) ==
  /\ call[c].pc = "idle" /\ gateLock = None
  /\ gateLock' = c
  /\ Becomes(c, [Idle EXCEPT !.pc = "accounts"])
  /\ UNCHANGED <<account, gate, changes, stays, told>>

\* Every account that may have a row.  No writer is between two steps with
\* one, so there is nobody to wait for.
LockAccounts(c) ==
  /\ call[c].pc = "accounts"
  /\ Becomes(c, [call[c] EXCEPT !.pc = "repair",
                   !.locked = {x \in Account : account[x].live /\ account[x].pond # None}])
  /\ UNCHANGED <<account, gate, gateLock, changes, stays, told>>

\* Rows of accounts that are gone go; rows of a pond that was left are
\* emptied.  The ponds to count are those somebody lives in.
Repair(c) ==
  /\ call[c].pc = "repair"
  /\ Becomes(c, [call[c] EXCEPT !.pc = "pond",
       !.todo = {account[x].pond : x \in {y \in Account : account[y].live}} \ {None},
       !.draft = [x \in Account |->
          IF gate[x].row = "absent" THEN None
          ELSE IF ~account[x].live \/ account[x].pond = None THEN Absent
          ELSE IF account[x].pond # gate[x].pond
               THEN [Emptied(gate[x]) EXCEPT !.pond = account[x].pond]
               ELSE None]])
  /\ UNCHANGED <<account, gate, gateLock, changes, stays, told>>

\* countPond reads a pond and computes what it will write.
ReadPond(c, p) ==
  LET rows   == SeenGate(c)
      read   == Read(c, p)
      people == People(rows, read, p)
      admission == admit(people)
      writes == IF Night(c) THEN read ELSE read \cap {call[c].account}
  IN  /\ call[c].pc = "pond" /\ p \in call[c].todo
      /\ Becomes(c, [call[c] EXCEPT !.pc = "insert", !.pond = p, !.todo = @ \ {p},
           !.computed = [x \in Account |->
              IF x \notin writes THEN None
              ELSE IF Night(c) THEN NightRow(rows, p, people, admission, x)
              ELSE FirstRow(rows, p, people, admission, x)]])
      /\ UNCHANGED <<account, gate, gateLock, changes, stays, told>>

\* The one statement that writes a pond's rows asks for the account once more.
InsertRows(c) ==
  /\ call[c].pc = "insert"
  /\ Becomes(c, [call[c] EXCEPT !.pc = "pond", !.computed = Nothing,
       !.draft = [x \in Account |->
          IF /\ call[c].computed[x] # None
             /\ account[x].live /\ account[x].pond = call[c].pond
          THEN call[c].computed[x] ELSE @[x]]])
  /\ UNCHANGED <<account, gate, gateLock, changes, stays, told>>

\* Mutation: the advisory lock is the session's, not the transaction's.
CommitHoldingOn(c) ==
  /\ call[c].pc = "pond" /\ call[c].todo = {}
  /\ gate' = SeenGate(c)
  /\ Finishes(c)
  /\ UNCHANGED <<account, gateLock, changes, stays, told>>

\* The commit publishes the rows and lets go of the locks.
Commit(c) ==
  /\ call[c].pc = "pond" /\ call[c].todo = {}
  /\ gate' = SeenGate(c)
  /\ gateLock' = None
  /\ IF Night(c) THEN Finishes(c)
     ELSE Becomes(c, [Idle EXCEPT !.pc = "reread", !.account = call[c].account,
                                  !.pond = call[c].pond])
  /\ UNCHANGED <<account, changes, stays, told>>

-----------------------------------------------------------------------------
(* gateOf, countFirst *)

\* gateOf reads the caller's pond; without one there is nothing to say.
Ask(c, x) ==
  /\ call[c].pc = "idle"
  /\ account[x].live /\ account[x].pond # None
  /\ Becomes(c, [Idle EXCEPT !.pc = "facts", !.account = x, !.pond = account[x].pond])
  /\ UNCHANGED <<account, gate, gateLock, changes, stays, told>>

\* It reads the caller's facts: "incomplete", or on.
AskFacts(c) ==
  /\ call[c].pc = "facts"
  /\ IF Subject(call[c].account, call[c].pond) THEN Goes(c, "row") ELSE Finishes(c)
  /\ UNCHANGED <<account, gate, gateLock, changes, stays, told>>

\* What a row says to somebody of this pond.
answer(row, p) ==
  IF ~Here(row, p) \/ ~row.counted THEN "pending"
  ELSE IF row.opened THEN "open"
  ELSE IF row.admitted THEN "closed"
  ELSE IF row.place = 0 THEN "pending" ELSE "waiting"

\* It reads the row, before or after it has counted, and answers by it.
Answer(c) ==
  LET x == call[c].account
  IN  /\ told' = [told EXCEPT ![x] =
           @ \/ (answer(gate[x], call[c].pond) = "open" /\ account[x].pond = call[c].pond)]
      /\ Finishes(c)
      /\ UNCHANGED <<account, gate, gateLock, changes, stays>>

AskRow(c) ==
  /\ call[c].pc = "row"
  /\ IF gate[call[c].account].row = "absent"
     THEN Goes(c, "lock") /\ UNCHANGED <<account, gate, gateLock, changes, stays, told>>
     ELSE Answer(c)

Reread(c) == call[c].pc = "reread" /\ Answer(c)

\* countFirst does not wait for another count: "pending".
TryLock(c) ==
  /\ call[c].pc = "lock"
  /\ IF gateLock = None
     THEN gateLock' = c /\ Goes(c, "asker")
     ELSE Finishes(c) /\ UNCHANGED gateLock
  /\ UNCHANGED <<account, gate, changes, stays, told>>

\* Mutation: the asker's account is read without a lock.
LockNobody(c) ==
  /\ call[c].pc = "asker"
  /\ Goes(c, "first")
  /\ UNCHANGED <<account, gate, gateLock, changes, stays, told>>

LockAsker(c) ==
  /\ call[c].pc = "asker"
  /\ Becomes(c, [call[c] EXCEPT !.pc = "first",
                   !.locked = {call[c].account} \cap {x \in Account : account[x].live}])
  /\ UNCHANGED <<account, gate, gateLock, changes, stays, told>>

\* Mutation: not asked again.
CountAtOnce(c) ==
  /\ call[c].pc = "first"
  /\ Becomes(c, [call[c] EXCEPT !.pc = "pond", !.todo = {call[c].pond}])
  /\ UNCHANGED <<account, gate, gateLock, changes, stays, told>>

\* Asked again under the lock: of several first asks at once, one counts.
AskAgain(c) ==
  /\ call[c].pc = "first"
  /\ IF gate[call[c].account].row = "absent"
     THEN /\ Becomes(c, [call[c] EXCEPT !.pc = "pond", !.todo = {call[c].pond}])
          /\ UNCHANGED gateLock
     ELSE Finishes(c) /\ gateLock' = None
  /\ UNCHANGED <<account, gate, changes, stays, told>>

-----------------------------------------------------------------------------

Person ==
  \E x \in Account :
    savePreferences(x) \/ declareGender(x) \/ Profile(x) \/ eraseAccount(x)

Count(c) ==
  \/ LockAccounts(c) \/ Repair(c) \/ InsertRows(c) \/ Commit(c)
  \/ \E p \in Pond : ReadPond(c, p)

Gate(c) ==
  \/ AskFacts(c) \/ AskRow(c) \/ TryLock(c) \/ LockAsker(c) \/ AskAgain(c) \/ Reread(c)

Next ==
  \/ Person
  \/ \E c \in Handler :
       \/ \E x \in Account : Ask(c, x) \/ \E p \in Pond : BeginMove(c, x, p)
       \/ Move(c) \/ Gate(c) \/ BeginNight(c) \/ Count(c)

Spec == Init /\ [][Next]_vars

\* A handler's statements follow each other; the night's timer fires again.
\* A count that waits for the advisory lock is given it when its holder lets
\* go, since PostgreSQL queues: strong fairness for BeginNight, for the one
\* process that runs the night jobs.
Fairness ==
  /\ \A c \in Handler : WF_vars(Move(c) \/ Gate(c) \/ Count(c))
  /\ SF_vars(\E c \in Handler : BeginNight(c))

FairSpec == Spec /\ Fairness

-----------------------------------------------------------------------------
(* Properties *)

\* The row is of the pond the account lives in: what it says holds.
InForce(x) == account[x].live /\ Here(gate[x], account[x].pond)

\* Nobody passes a line by a declaration taken back: who is let in and would
\* wait with a group was let in with that group, whatever was declared while
\* a count was reading and writing (ADR-015 section 9; countGates locks the
\* accounts before it reads).
LineNotJumped ==
  \A x \in Account : InForce(x) /\ gate[x].admitted => Group(x) \in {"nobody", gate[x].group}

\* Who was told that matching is open, and has changed nothing since, has an
\* open gate: no count, overlapping move or first ask takes it back (ADR-015
\* section 5, gateOf).
ToldOpenIsOpen == \A x \in Account : told[x] => InForce(x) /\ gate[x].opened

\* No count lets anybody out and no gate closes: an admission ends only in a
\* step in which its person changes their account (countPond keeps
\* admittedAt and openedAt).
NobodyIsLetOut ==
  [][\A x \in Account :
       InForce(x) /\ gate[x].admitted /\ account'[x] = account[x]
         => gate'[x].admitted /\ (gate[x].opened => gate'[x].opened)]_vars

\* The first ask is once in an account's life: a row that exists comes to say
\* something else only at a night's commit, however many asks race with it,
\* with a night and with a move that empties it (countFirst, GATE_EMPTIED).
SaidAtNight ==
  [][\A x \in Account :
       gate[x].row = "present" /\ gate'[x] # gate[x] /\ gate'[x].counted
         => \E c \in Handler : Night(c) /\ Commit(c)]_vars

\* What a first ask lets in rests on recorded admissions alone: the row would
\* be the same if nobody who is not let in were there, and it passes nobody of
\* its group in the line (ADR-015 section 7; admitsAlone).
AskRestsOnWhatIsWritten ==
  [][\A c \in Handler, p \in Pond :
       ~Night(c) /\ ReadPond(c, p) =>
         LET x        == call[c].account
             people   == People(gate, Read(c, p), p)
             recorded == only(people, Recorded(people) \cup {x})
         IN  call'[c].computed[x] # None /\ call'[c].computed[x].admitted =>
               /\ call'[c].computed[x] = FirstRow(gate, p, recorded, admit(recorded), x)
               /\ people[x].group \in ContestedGroup => Ahead(people, Recorded(people), x) = {}]_vars

\* The gate as one count of a pond would leave it if nothing ran beside it.
Recount(rows, p) ==
  LET subjects == {x \in Account : Subject(x, p)}
      people   == People(rows, subjects, p)
      admission == admit(people)
  IN  [x \in Account |->
         IF x \in subjects THEN NightRow(rows, p, people, admission, x) ELSE rows[x]]

\* Counting twice changes nothing the second time, from whatever rows asks,
\* moves, declarations and earlier nights have left (countGates).
CountingTwiceChangesNothing ==
  \A p \in Pond : Recount(Recount(gate, p), p) = Recount(gate, p)

\* Once people change nothing more, whoever is complete is counted where they
\* live: no row is left pending for ever, in no pond that was left.
EverybodyIsDecided ==
  \A x \in Account :
    <>[](\A p \in Pond : Subject(x, p) => Here(gate[x], p) /\ gate[x].counted)

\* "A place is a place in one pond, and nobody carries an admission along"
\* (ADR-015 section 8): an admission in force was given during this stay.
AdmissionStaysWithThePond ==
  \A x \in Account : InForce(x) /\ gate[x].admitted => gate[x].stay = stays[x]
=============================================================================
