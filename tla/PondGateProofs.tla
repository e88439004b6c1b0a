--------------------------- MODULE PondGateProofs ---------------------------
(***************************************************************************)
(* The safety properties of PondGate hold for any number of accounts,      *)
(* ponds and handlers, any preferences, share, step and gate_k.  What the  *)
(* rules of Admission let in plays no part in most of them: they rest on   *)
(* the locks and on the order of the statements.  The inductive invariant  *)
(* says of every row a count means to write that it still fits its account *)
(* (Writes), because the count holds the account.                          *)
(*                                                                         *)
(* The last two rest on the rounds of admit: after as many as there are    *)
(* people nobody more may come in, so a count that finds them recorded     *)
(* changes nothing (RecountAgain); and whom a first ask lets in, admit     *)
(* lets in among the recorded alone (FirstRowRests).                       *)
(***************************************************************************)
EXTENDS PondGate, FiniteSetTheorems, WellFoundedInduction, TLAPS

\* A count, from its advisory lock to its commit.
CountSteps == {"accounts", "repair", "pond", "insert", "asker", "first"}

\* Handlers that act for an account.
AskSteps == {"move", "facts", "row", "lock", "asker", "first", "reread"}

\* A row fits its account: who is let in waits with no other group.
Fits(x, r) ==
  /\ r.opened => r.admitted
  /\ r.admitted =>
       /\ r.row = "present"
       /\ account[x].gender # None /\ account[x].prefs # None
       /\ Group(x) \in {"nobody", r.group}

RowsFit ==
  \A x \in Account :
    /\ Fits(x, gate[x])
    /\ ~account[x].live => account[x].pond = None
    /\ gate[x].row = "present" => account[x].pond # None

\* What the row r of x keeps of the row there is.
Keeps(x, r) ==
  InForce(x) /\ gate[x].admitted => r.admitted /\ (gate[x].opened => r.opened)

\* A row a count means to write, of what its handler's record says.
Writes(h, x, r) ==
  /\ x \in h.locked
  /\ r.row = "present" /\ r.pond = account[x].pond /\ r.pond # None
  /\ Fits(x, r)
  /\ Keeps(x, r)
  /\ h.account # None => gate[x].row = "absent"

\* What a handler's record says is so.
Held(h) ==
  /\ h.pc \notin CountSteps => h.locked = {}
  /\ \A x \in h.locked : account[x].live
  /\ h.pc \in AskSteps => h.account \in Account /\ h.pond \in Pond
  /\ h.pc \in {"accounts", "repair"} => h.account = None
  /\ h.pc = "insert" => h.pond \in Pond
  /\ h.pc = "repair" => \A x \in Account : gate[x].row = "present" => x \in h.locked
  /\ h.pc = "first" /\ account[h.account].live => h.account \in h.locked
  /\ h.pc \in {"pond", "insert"} /\ h.account # None =>
       /\ gate[h.account].row = "absent"
       /\ account[h.account].live => h.account \in h.locked
       /\ h.pond \in Pond
  /\ \A x \in Account :
       /\ h.draft[x] # None => h.pc \in {"pond", "insert"} /\ Writes(h, x, h.draft[x])
       /\ h.computed[x] # None => h.pc = "insert" /\ Writes(h, x, h.computed[x])

Counts(c) == (gateLock = c <=> call[c].pc \in CountSteps) /\ Held(call[c])

Inv == TypeOK /\ RowsFit /\ ToldOpenIsOpen /\ \A c \in Handler : Counts(c)

-----------------------------------------------------------------------------
(* Arithmetic of what is said *)

LEMMA DivNat ==
  ASSUME NEW a \in Nat, NEW b \in Nat \ {0}
  PROVE  a \div b \in Nat
OBVIOUS

LEMMA TimesNat ==
  ASSUME NEW a \in Nat, NEW b \in Nat
  PROVE  a * b \in Nat
OBVIOUS

\* What is said of a place or a pool is a natural number.
LEMMA SaidNat ==
  ASSUME NEW n \in Nat, NEW step \in Nat \ {0}
  PROVE  /\ saidInStep(n, step) \in Nat
         /\ sayPlace(n, step) \in Nat
         /\ \A said \in Nat \cup {None} : sayPool(said, n, step) \in Nat
<1>1. \A m \in Nat : (m \div step) * step \in Nat
  BY DivNat, TimesNat
<1>2. (IF n < 1 THEN 1 ELSE n) + step - 1 \in Nat
  OBVIOUS
<1>3. sayPlace(n, step) \in Nat
  BY <1>1, <1>2 DEF sayPlace
<1>4. \A said \in Nat \cup {None} : sayPool(said, n, step) \in Nat
  BY <1>1 DEF sayPool, saidInStep
<1> QED BY <1>1, <1>3, <1>4 DEF saidInStep

-----------------------------------------------------------------------------
(* The rows a count computes *)

LEMMA GroupTyped ==
  ASSUME TypeOK, NEW x \in Account, account[x].gender # None, account[x].prefs # None
  PROVE  Group(x) \in ContestedGroup \cup {"nobody"}
<1>1. account[x] \in AccountRows
  BY DEF TypeOK
<1>2. account[x].gender \in Gender
  BY <1>1 DEF AccountRows
<1> QED BY <1>2 DEF Group, contestedGroup, Gender, ContestedGroup

LEMMA WaitsTyped ==
  ASSUME NEW row \in GateRows, NEW p \in Pond, NEW place \in Nat
  PROVE  /\ Waits(row, p, place) \in GateRows /\ Undecided(row, p) \in GateRows
         /\ Waits(row, p, place).row = "present" /\ Waits(row, p, place).pond = p
         /\ ~Waits(row, p, place).admitted /\ ~Waits(row, p, place).opened
         /\ Undecided(row, p).row = "present" /\ Undecided(row, p).pond = p
         /\ ~Undecided(row, p).admitted /\ ~Undecided(row, p).opened
<1>1. sayPlace(place, Step) \in Nat
  BY SaidNat, PondGateAssumption
<1>2. row.pool \in Nat
  BY DEF GateRows
<1> QED BY <1>1, <1>2 DEF Waits, Undecided, Absent, GateRows

LEMMA AdmittedTyped ==
  ASSUME TypeOK, NEW x \in Account, account[x].gender # None, account[x].prefs # None,
         NEW row \in GateRows, NEW p \in Pond, NEW pool \in Nat
  PROVE  LET r == Admitted(row, p, x, pool)
         IN  /\ r \in GateRows
             /\ r.row = "present" /\ r.pond = p /\ r.admitted
             /\ Here(row, p) /\ row.opened => r.opened
             /\ \/ r.group = Group(x)
                \/ Here(row, p) /\ row.admitted /\ r.group = row.group
<1> DEFINE said == IF row.row = "present" THEN row.pool ELSE None
<1>1. said \in Nat \cup {None}
  BY DEF GateRows
<1>2. sayPool(said, pool, Step) \in Nat
  BY <1>1, SaidNat, PondGateAssumption
<1>3. Group(x) \in ContestedGroup \cup {"nobody"} /\ row.group \in ContestedGroup \cup {"nobody"}
  BY GroupTyped DEF GateRows
<1>4. stays[x] \in Nat /\ row.stay \in Nat /\ row.opened \in BOOLEAN
  BY DEF TypeOK, GateRows
<1> DEFINE opened == (Here(row, p) /\ row.opened) \/ pool >= GateK
           group  == IF Here(row, p) /\ row.admitted THEN row.group ELSE Group(x)
           stay   == IF Here(row, p) /\ row.admitted THEN row.stay ELSE stays[x]
           figure == sayPool(said, pool, Step)
<1>5. /\ opened \in BOOLEAN /\ group \in ContestedGroup \cup {"nobody"} /\ stay \in Nat
      /\ figure \in Nat
  BY <1>2, <1>3, <1>4
<1>6. Admitted(row, p, x, pool) =
       [row |-> "present", pond |-> p, admitted |-> TRUE, place |-> 0, pool |-> figure,
        opened |-> opened, counted |-> TRUE, group |-> group, stay |-> stay]
  BY DEF Admitted
<1>7. /\ Here(row, p) /\ row.opened => opened
      /\ group = Group(x) \/ (Here(row, p) /\ row.admitted /\ group = row.group)
  OBVIOUS
<1> HIDE DEF said, opened, group, stay, figure
<1>8. Admitted(row, p, x, pool) \in GateRows
  BY <1>5, <1>6 DEF GateRows
<1> QED BY <1>6, <1>7, <1>8

\* People are finitely many, so places and pools are natural numbers.
LEMMA PoolNat ==
  ASSUME NEW S \in SUBSET Account, NEW x, NEW shown \in SUBSET S
  PROVE  Cardinality(PoolOf(x, shown)) \in Nat
<1>1. PoolOf(x, shown) \in SUBSET Account
  BY DEF PoolOf
<1> QED BY <1>1, FS_Subset, FS_CardinalityType, PondGateAssumption

LEMMA AheadNat ==
  ASSUME NEW people, DOMAIN people \in SUBSET Account, NEW S, NEW x
  PROVE  Cardinality(Ahead(people, S, x)) \in Nat
<1>1. Ahead(people, S, x) \in SUBSET Account
  BY DEF Ahead
<1> QED BY <1>1, FS_Subset, FS_CardinalityType, PondGateAssumption

\* A row is computed for a subject: typed, of the pond, and with the group of
\* the subject or of the admission it keeps.
ComputedWell(r, row, p, x) ==
  /\ r \in GateRows
  /\ r.row = "present" /\ r.pond = p
  /\ r.opened => r.admitted
  /\ r.admitted => \/ r.group = Group(x)
                   \/ Here(row, p) /\ row.admitted /\ r.group = row.group

LEMMA AdmittedComputed ==
  ASSUME TypeOK, NEW x \in Account, NEW p \in Pond, Subject(x, p),
         NEW row \in GateRows, NEW pool \in Nat
  PROVE  /\ ComputedWell(Admitted(row, p, x, pool), row, p, x)
         /\ Admitted(row, p, x, pool).admitted
         /\ Here(row, p) /\ row.opened => Admitted(row, p, x, pool).opened
BY AdmittedTyped DEF ComputedWell, Subject

LEMMA WaitsComputed ==
  ASSUME NEW x, NEW p \in Pond, NEW row \in GateRows, NEW place \in Nat
  PROVE  /\ ComputedWell(Waits(row, p, place), row, p, x)
         /\ ComputedWell(Undecided(row, p), row, p, x)
BY WaitsTyped DEF ComputedWell

LEMMA NightRowComputed ==
  ASSUME TypeOK, NEW p \in Pond, NEW rows \in [Account -> GateRows],
         NEW S \in SUBSET Account, \A y \in S : Subject(y, p), NEW x \in S
  PROVE  LET people == People(rows, S, p)
             r      == NightRow(rows, p, people, admit(people), x)
         IN  /\ ComputedWell(r, rows[x], p, x)
             /\ Here(rows[x], p) /\ rows[x].admitted =>
                  r.admitted /\ (rows[x].opened => r.opened)
<1> DEFINE people == People(rows, S, p)
           admission == admit(people)
           shown == {y \in DOMAIN people : people[y].admitted \/ y \in admission.admitted}
<1>1. DOMAIN people = S
  BY DEF People
<1>2. shown \in SUBSET S
  BY <1>1
<1>3. rows[x] \in GateRows /\ x \in Account /\ Subject(x, p)
  OBVIOUS
<1>4. people[x].admitted = (Here(rows[x], p) /\ rows[x].admitted)
  BY DEF People
<1>5. x \in DOMAIN admission.waiting =>
        /\ ~people[x].admitted
        /\ admission.waiting[x] = 1 + Cardinality(Ahead(people, Inside(people), x))
  BY DEF admit, Recorded
<1>6. Cardinality(Ahead(people, Inside(people), x)) \in Nat
  BY <1>1, AheadNat
<1>7. Cardinality(PoolOf(x, shown)) \in Nat
  BY <1>2, PoolNat
<1> HIDE DEF people, admission, shown
<1>8. CASE x \in DOMAIN admission.waiting
  <2>1. admission.waiting[x] \in Nat
    BY <1>5, <1>6, <1>8
  <2>2. NightRow(rows, p, people, admission, x) = Waits(rows[x], p, admission.waiting[x])
    BY <1>8 DEF NightRow
  <2> QED BY <2>1, <2>2, <1>3, <1>4, <1>5, <1>8, WaitsComputed DEF people, admission
<1>9. CASE x \notin DOMAIN admission.waiting
  <2>1. NightRow(rows, p, people, admission, x)
          = Admitted(rows[x], p, x, Cardinality(PoolOf(x, shown)))
    BY <1>9 DEF NightRow, shown
  <2> QED BY <2>1, <1>3, <1>7, AdmittedComputed DEF people, admission
<1> QED BY <1>8, <1>9

LEMMA FirstRowComputed ==
  ASSUME TypeOK, NEW p \in Pond, NEW rows \in [Account -> GateRows],
         NEW S \in SUBSET Account, \A y \in S : Subject(y, p), NEW x \in S
  PROVE  LET people == People(rows, S, p)
         IN  ComputedWell(FirstRow(rows, p, people, admit(people), x), rows[x], p, x)
<1> DEFINE people == People(rows, S, p)
           admission == admit(people)
<1>1. DOMAIN people = S
  BY DEF People
<1>2. Recorded(people) \in SUBSET S
  BY <1>1 DEF Recorded
<1>3. rows[x] \in GateRows /\ x \in Account /\ Subject(x, p)
  OBVIOUS
<1>4. placeAlone(people, x) \in Nat
  BY <1>1, AheadNat DEF placeAlone
<1>5. Cardinality(PoolOf(x, Recorded(people))) \in Nat
  BY <1>2, PoolNat
<1> HIDE DEF people, admission
<1>6. FirstRow(rows, p, people, admission, x) \in
        {Waits(rows[x], p, placeAlone(people, x)), Undecided(rows[x], p),
         Admitted(rows[x], p, x, Cardinality(PoolOf(x, Recorded(people))))}
  BY DEF FirstRow
<1>7. ComputedWell(FirstRow(rows, p, people, admission, x), rows[x], p, x)
  BY <1>3, <1>4, <1>5, <1>6, AdmittedComputed, WaitsComputed
<1> QED BY <1>7 DEF people, admission

-----------------------------------------------------------------------------
(* What a step leaves as it was *)

LEMMA IdleReady == Idle \in CallRecords /\ Idle.pc = "idle" /\ Idle.locked = {}
                     /\ Idle.draft = Nothing /\ Idle.computed = Nothing
BY DEF Idle, CallRecords, Nothing

LEMMA AbsentTyped == Absent \in GateRows /\ ~Absent.admitted /\ ~Absent.opened /\ Absent.row = "absent"
BY DEF Absent, GateRows, ContestedGroup

LEMMA EmptiedTyped ==
  ASSUME NEW r \in GateRows
  PROVE  /\ Emptied(r) \in GateRows
         /\ \A p \in Pond : [Emptied(r) EXCEPT !.pond = p] \in GateRows
         /\ ~Emptied(r).admitted /\ ~Emptied(r).opened /\ Emptied(r).row = r.row
         /\ \A p \in Pond : LET e == [Emptied(r) EXCEPT !.pond = p]
                            IN  ~e.admitted /\ ~e.opened /\ ~e.counted /\ e.row = r.row /\ e.pond = p
         /\ ~Emptied(r).counted /\ Emptied(r).pond = r.pond
BY DEF Emptied, GateRows

\* An account a count holds keeps its declarations and its row.
Untouched(x) ==
  /\ gate'[x] = gate[x]
  /\ account'[x].live = account[x].live /\ account'[x].pond = account[x].pond
  /\ account'[x].gender = account[x].gender /\ account'[x].prefs = account[x].prefs

LEMMA UntouchedFits ==
  ASSUME NEW x, Untouched(x), NEW r, Fits(x, r)
  PROVE  Fits(x, r)'
BY DEF Untouched, Fits, Group

LEMMA UntouchedWrites ==
  ASSUME NEW h, NEW x \in Account, Untouched(x), NEW r, Writes(h, x, r)
  PROVE  Writes(h, x, r)'
<1>1. Fits(x, r)'
  BY UntouchedFits DEF Writes
<1>2. Keeps(x, r)'
  BY DEF Writes, Keeps, InForce, Here, Untouched
<1> QED BY <1>1, <1>2 DEF Writes, Untouched

\* What a record says stays so through a step that creates no row, lets nobody
\* live again and touches no account it holds.
LEMMA HeldStays ==
  ASSUME NEW h \in CallRecords, Held(h),
         \A x \in h.locked : Untouched(x),
         \A x \in Account : gate'[x].row = "present" => gate[x].row = "present",
         \A x \in Account : gate[x].row = "absent" => gate'[x].row = "absent",
         \A x \in Account : account'[x].live => account[x].live
  PROVE  Held(h)'
<1>1. h.locked \in SUBSET Account
  BY DEF CallRecords
<1>2. \A x \in Account : h.draft[x] # None =>
        h.pc \in {"pond", "insert"} /\ Writes(h, x, h.draft[x])'
  BY UntouchedWrites DEF Held, Writes
<1>3. \A x \in Account : h.computed[x] # None =>
        h.pc = "insert" /\ Writes(h, x, h.computed[x])'
  BY UntouchedWrites DEF Held, Writes
<1>4. \A x \in h.locked : account'[x].live
  BY DEF Held, Untouched
<1>5. h.pc = "first" \/ (h.pc \in {"pond", "insert"} /\ h.account # None) => h.account \in Account
  BY <1>1 DEF Held, AskSteps, CallRecords
<1> QED BY <1>1, <1>2, <1>3, <1>4, <1>5 DEF Held

LEMMA HeldUnchanged ==
  ASSUME NEW h \in CallRecords, Held(h), UNCHANGED <<account, gate>>
  PROVE  Held(h)'
BY HeldStays DEF Untouched

\* A handler's record in the next state, by its own step or another's.
LEMMA CountsBy ==
  ASSUME NEW c \in Handler, NEW h, call'[c] = h, Held(h)',
         gateLock' = c <=> h.pc \in CountSteps
  PROVE  Counts(c)'
BY DEF Counts, Held, Writes

LEMMA OthersCount ==
  ASSUME TypeOK, NEW c \in Handler, Counts(c), call'[c] = call[c],
         gateLock' = c <=> gateLock = c,
         \A x \in call[c].locked : Untouched(x),
         \A x \in Account : gate'[x].row = "present" => gate[x].row = "present",
         \A x \in Account : gate[x].row = "absent" => gate'[x].row = "absent",
         \A x \in Account : account'[x].live => account[x].live
  PROVE  Counts(c)'
<1>1. PICK h \in CallRecords : h = call[c]
  BY DEF TypeOK
<1>2. Held(h) /\ (gateLock = c <=> h.pc \in CountSteps)
  BY <1>1 DEF Counts
<1>3. Held(h)'
  BY <1>1, <1>2, HeldStays
<1> QED BY <1>1, <1>2, <1>3, CountsBy

\* A record that is not counting holds nothing.
LEMMA NotCounting ==
  ASSUME NEW h, h.pc \notin CountSteps, h.locked = {}, h.draft = Nothing, h.computed = Nothing,
         h.pc \in AskSteps => h.account \in Account /\ h.pond \in Pond
  PROVE  Held(h) /\ Held(h)'
BY DEF Held, CountSteps, AskSteps, Nothing

LEMMA IdleKeeps ==
  ASSUME NEW c \in Handler, call'[c] = Idle, gateLock' # c
  PROVE  Counts(c)'
<1>1. Held(Idle)' /\ Idle.pc \notin CountSteps
  BY IdleReady, NotCounting DEF CountSteps, AskSteps
<1> QED BY <1>1, CountsBy

\* A step of one handler that writes no row.
LEMMA HandlerStep ==
  ASSUME Inv, NEW c \in Handler, NEW r \in CallRecords, Becomes(c, r),
         UNCHANGED <<account, gate, stays>>,
         changes' \in 0..MaxChanges, told' \in [Account -> BOOLEAN],
         \A x \in Account : told'[x] => InForce(x) /\ gate[x].opened,
         gateLock' \in Handler \cup {None},
         \A d \in Handler \ {c} : gateLock' = d <=> gateLock = d,
         Counts(c)'
  PROVE  Inv'
<1>1. TypeOK'
  BY DEF Inv, TypeOK, Becomes
<1>2. RowsFit'
  BY DEF Inv, RowsFit, Fits, Group
<1>3. ToldOpenIsOpen'
  BY DEF ToldOpenIsOpen, InForce, Here
<1>4. ASSUME NEW d \in Handler, d # c PROVE Counts(d)'
  <2>1. call'[d] = call[d]
    BY <1>4 DEF Inv, TypeOK, Becomes
  <2>2. gateLock' = d <=> gateLock = d
    BY <1>4
  <2>3. \A x : Untouched(x)
    BY DEF Untouched
  <2> QED BY <1>4, <2>1, <2>2, <2>3, OthersCount DEF Inv
<1> QED BY <1>1, <1>2, <1>3, <1>4 DEF Inv

LEMMA QuietStep ==
  ASSUME Inv, NEW c \in Handler, NEW r \in CallRecords, Becomes(c, r),
         UNCHANGED <<account, gate, changes, stays, told>>,
         gateLock' \in Handler \cup {None},
         \A d \in Handler \ {c} : gateLock' = d <=> gateLock = d,
         Counts(c)'
  PROVE  Inv'
<1>1. changes' \in 0..MaxChanges /\ told' \in [Account -> BOOLEAN]
  BY DEF Inv, TypeOK
<1>2. \A x \in Account : told'[x] => InForce(x) /\ gate[x].opened
  BY DEF Inv, ToldOpenIsOpen
<1> QED BY <1>1, <1>2, HandlerStep

-----------------------------------------------------------------------------
(* People *)

\* A writer touches one account that no count holds, and creates no row.
LEMMA WriterCounts ==
  ASSUME TypeOK, NEW x \in Account, Free(x),
         \A y \in Account : y # x => gate'[y] = gate[y] /\ account'[y] = account[y],
         gate'[x].row = "present" => gate[x].row = "present",
         account'[x].live => account[x].live,
         UNCHANGED gateLock,
         NEW c \in Handler, Counts(c), call'[c] = call[c],
         gate[x].row = "absent" => gate'[x].row = "absent"
  PROVE  Counts(c)'
<1>1. call[c].locked \in SUBSET Account /\ x \notin call[c].locked
  BY DEF Free, TypeOK, CallRecords
<1>2. \A y \in call[c].locked : Untouched(y)
  BY <1>1 DEF Untouched
<1>3. \A y \in Account : gate'[y].row = "present" => gate[y].row = "present"
  OBVIOUS
<1>4. \A y \in Account : gate[y].row = "absent" => gate'[y].row = "absent"
  OBVIOUS
<1>5. \A y \in Account : account'[y].live => account[y].live
  OBVIOUS
<1> QED BY <1>2, <1>3, <1>4, <1>5, OthersCount

LEMMA DeclareKeeps ==
  ASSUME Inv, NEW x \in Account, NEW row \in AccountRows, Declare(x, row),
         row.live = account[x].live, row.pond = account[x].pond,
         account[x].gender # None => row.gender # None,
         account[x].prefs # None => row.prefs # None
  PROVE  Inv'
<1> DEFINE joins == joinsAGroupThatWaits(Declared(account[x]), Declared(row))
           e == IF gate[x].row = "present" /\ joins THEN Emptied(gate[x]) ELSE gate[x]
<1>t. TypeOK /\ RowsFit /\ ToldOpenIsOpen /\ gate[x] \in GateRows /\ account[x] \in AccountRows
  BY DEF Inv, TypeOK
<1>1. e \in GateRows /\ e.row = gate[x].row
  BY <1>t, EmptiedTyped
<1>2. gate' = [gate EXCEPT ![x] = e] /\ account' = [account EXCEPT ![x] = row]
  BY <1>t DEF Declare, TypeOK
<1>3. changes' \in 0..MaxChanges
  BY <1>t, PondGateAssumption DEF Declare, Changes, TypeOK
<1>4. TypeOK'
  BY <1>t, <1>1, <1>2, <1>3 DEF Declare, TypeOK
<1>g. gate'[x] = e
  BY <1>t, <1>2 DEF TypeOK
<1>5. Fits(x, gate[x])'
  <2>1. CASE gate[x].row = "present" /\ joins
    BY <1>t, <1>g, <2>1, EmptiedTyped DEF Fits
  <2>2. CASE ~(gate[x].row = "present" /\ joins)
    <3>1. Fits(x, gate[x])
      BY <1>t DEF RowsFit
    <3>0. gate'[x] = gate[x]
      BY <1>g, <2>2
    <3>2. CASE ~gate[x].admitted
      BY <3>0, <3>1, <3>2 DEF Fits
    <3>3. CASE gate[x].admitted
      <4>1. /\ account[x].gender # None /\ account[x].prefs # None /\ ~joins
            /\ Group(x) \in {"nobody", gate[x].group}
        BY <2>2, <3>1, <3>3 DEF Fits
      <4>2. account[x].prefs.seeks # None /\ row.prefs.seeks # None
        BY <1>t, <4>1, PondGateAssumption DEF AccountRows
      <4>3. groupOf(Declared(account[x])) = Group(x)
        BY <4>1, <4>2 DEF groupOf, Declared, Group
      <4>4. groupOf(Declared(row)) = Group(x)'
        BY <1>t, <1>2, <4>1, <4>2 DEF groupOf, Declared, Group, TypeOK
      <4>5. Group(x)' \in ContestedGroup \cup {"nobody"}
        BY <1>4, <1>2, <1>t, <4>1, GroupTyped DEF groupOf, Declared, Group, TypeOK, AccountRows,
           contestedGroup, Gender, ContestedGroup
      <4>6. Group(x)' \in {"nobody", gate[x].group}
        BY <4>1, <4>3, <4>4, <4>5 DEF joinsAGroupThatWaits
      <4>7. account'[x].gender # None /\ account'[x].prefs # None
        BY <1>t, <1>2, <4>1 DEF TypeOK
      <4> QED BY <3>0, <3>1, <4>6, <4>7 DEF Fits
    <3> QED BY <3>2, <3>3
  <2> QED BY <2>1, <2>2
<1> HIDE DEF e, joins
<1>6. RowsFit'
  <2> SUFFICES ASSUME NEW y \in Account
               PROVE  /\ Fits(y, gate[y])'
                      /\ ~account'[y].live => account'[y].pond = None
                      /\ gate'[y].row = "present" => account'[y].pond # None
    BY DEF RowsFit
  <2>1. CASE y = x
    BY <1>t, <1>1, <1>2, <1>5, <1>g, <2>1 DEF RowsFit, TypeOK
  <2>2. CASE y # x
    BY <1>t, <1>2, <2>2 DEF RowsFit, Fits, Group, TypeOK
  <2> QED BY <2>1, <2>2
<1>7. ToldOpenIsOpen'
  BY <1>t, <1>2 DEF ToldOpenIsOpen, InForce, Here, Declare, TypeOK
<1>8. ASSUME NEW c \in Handler PROVE Counts(c)'
  BY <1>t, <1>1, <1>2, WriterCounts DEF Declare, Inv, TypeOK
<1> QED BY <1>4, <1>6, <1>7, <1>8 DEF Inv

LEMMA ProfileKeeps ==
  ASSUME Inv, NEW x \in Account, Profile(x)
  PROVE  Inv'
<1>t. TypeOK /\ account[x] \in AccountRows
  BY DEF Inv, TypeOK
<1>1. changes' \in 0..MaxChanges
  BY <1>t, PondGateAssumption DEF Profile, Changes, TypeOK
<1>2. TypeOK'
  BY <1>t, <1>1 DEF Profile, TypeOK, AccountRows
<1>3. \A y \in Account : Untouched(y)
  BY <1>t DEF Untouched, Profile, TypeOK
<1>4. RowsFit'
  BY <1>3, UntouchedFits DEF Inv, RowsFit, Untouched, Profile
<1>5. ToldOpenIsOpen'
  BY <1>3 DEF Inv, ToldOpenIsOpen, InForce, Here, Untouched, Profile
<1>6. ASSUME NEW c \in Handler PROVE Counts(c)'
  <2>1. call[c].locked \in SUBSET Account
    BY <1>t DEF TypeOK, CallRecords
  <2> QED BY <1>3, <2>1, OthersCount DEF Inv, Untouched, Profile
<1> QED BY <1>2, <1>4, <1>5, <1>6 DEF Inv

LEMMA EraseKeeps ==
  ASSUME Inv, NEW x \in Account, eraseAccount(x)
  PROVE  Inv'
<1>t. TypeOK
  BY DEF Inv
<1>1. changes' \in 0..MaxChanges
  BY <1>t, PondGateAssumption DEF eraseAccount, Changes, TypeOK
<1>2. [live |-> FALSE, pond |-> None, gender |-> None, prefs |-> None, finished |-> FALSE]
        \in AccountRows
  BY DEF AccountRows
<1>3. TypeOK'
  BY <1>t, <1>1, <1>2, AbsentTyped DEF eraseAccount, TypeOK
<1>4. /\ gate'[x] = Absent /\ ~account'[x].live /\ account'[x].pond = None
      /\ \A y \in Account : y # x => gate'[y] = gate[y] /\ account'[y] = account[y]
  BY <1>t DEF eraseAccount, TypeOK
<1>5. RowsFit'
  BY <1>4, AbsentTyped DEF Inv, RowsFit, Fits, Group
<1>6. ToldOpenIsOpen'
  BY <1>t, <1>4 DEF Inv, ToldOpenIsOpen, InForce, Here, eraseAccount, TypeOK
<1>7. ASSUME NEW c \in Handler PROVE Counts(c)'
  BY <1>t, <1>4, AbsentTyped, WriterCounts DEF eraseAccount, Inv
<1> QED BY <1>3, <1>5, <1>6, <1>7 DEF Inv

-----------------------------------------------------------------------------
(* Moves *)

\* A handler that is not counting goes on to a step that holds nothing.
LEMMA BystanderGoesOn ==
  ASSUME Inv, NEW c \in Handler, NEW r \in CallRecords, Becomes(c, r), call[c].pc \notin CountSteps,
         r.pc \notin CountSteps, r.locked = {}, r.draft = Nothing, r.computed = Nothing,
         r.pc \in AskSteps => r.account \in Account /\ r.pond \in Pond,
         UNCHANGED <<account, gate, gateLock, stays>>,
         changes' \in 0..MaxChanges, told' \in [Account -> BOOLEAN],
         \A x \in Account : told'[x] => InForce(x) /\ gate[x].opened
  PROVE  Inv'
<1>1. call'[c] = r /\ gateLock # c /\ gateLock \in Handler \cup {None}
  BY DEF Becomes, Inv, TypeOK, Counts
<1>2. Held(r)'
  BY NotCounting
<1>3. Counts(c)'
  BY <1>1, <1>2, CountsBy
<1> QED BY <1>1, <1>3, HandlerStep

LEMMA BeginMoveKeeps ==
  ASSUME Inv, NEW c \in Handler, NEW x \in Account, NEW p \in Pond, BeginMove(c, x, p)
  PROVE  Inv'
<1>t. TypeOK /\ call[c].pc \notin CountSteps
  BY DEF Inv, BeginMove, CountSteps
<1>1. PICK sees \in BOOLEAN : sees = (gate[x].row = "present" /\ gate[x].pond # p)
  OBVIOUS
<1>2. PICK r : r = [Idle EXCEPT !.pc = "move", !.account = x, !.pond = p, !.sees = sees]
  OBVIOUS
<1>3. /\ r \in CallRecords /\ r.pc = "move" /\ r.account = x /\ r.pond = p /\ r.locked = {}
      /\ r.draft = Nothing /\ r.computed = Nothing
  BY <1>1, <1>2, IdleReady DEF CallRecords
<1>4. Becomes(c, r)
  BY <1>1, <1>2 DEF BeginMove
<1>5. changes' \in 0..MaxChanges /\ told' \in [Account -> BOOLEAN]
  BY <1>t, PondGateAssumption DEF BeginMove, Changes, TypeOK
<1>6. \A y \in Account : told'[y] => InForce(y) /\ gate[y].opened
  BY DEF Inv, ToldOpenIsOpen, BeginMove
<1>7. r.pc \notin CountSteps
  BY <1>3 DEF CountSteps
<1> QED BY <1>t, <1>3, <1>4, <1>5, <1>6, <1>7, BystanderGoesOn DEF BeginMove

LEMMA MoveKeeps ==
  ASSUME Inv, NEW c \in Handler, Move(c)
  PROVE  Inv'
<1>t. TypeOK /\ RowsFit /\ ToldOpenIsOpen /\ Counts(c) /\ gateLock # c /\ Becomes(c, Idle)
  BY DEF Inv, Move, Counts, CountSteps, Finishes
<1>x. PICK x \in Account, p \in Pond : x = call[c].account /\ p = call[c].pond /\ p # None
  BY <1>t, PondGateAssumption DEF Move, Counts, Held, AskSteps
<1> DEFINE e == IF call[c].sees /\ gate[x].row = "present" /\ gate[x].pond # p
                  THEN [Emptied(gate[x]) EXCEPT !.pond = p] ELSE gate[x]
<1>0. call'[c] = Idle /\ gateLock' = gateLock
  BY <1>t DEF Move, Becomes, TypeOK
<1>c. Counts(c)'
  BY <1>t, <1>0, IdleKeeps
<1>1. CASE ~account[x].live
  <2>1. UNCHANGED <<account, gate, stays, told, changes>>
    BY <1>x, <1>1 DEF Move
  <2>2. gateLock' \in Handler \cup {None}
    BY <1>t, <1>0 DEF TypeOK
  <2> QED BY <1>t, <1>0, <1>c, <2>1, <2>2, IdleReady, QuietStep
<1>2. CASE account[x].live
  <2>1. e \in GateRows /\ e.row = gate[x].row
    BY <1>t, <1>x, EmptiedTyped DEF TypeOK
  <2>2. /\ account' = [account EXCEPT ![x].pond = p] /\ gate' = [gate EXCEPT ![x] = e]
        /\ stays' = [stays EXCEPT ![x] = IF account[x].pond = p THEN @ ELSE @ + 1]
        /\ told' = [told EXCEPT ![x] = FALSE]
        /\ UNCHANGED changes
    BY <1>t, <1>x, <1>2 DEF Move, TypeOK
  <2>3. TypeOK'
    BY <1>t, <1>0, <1>x, <2>1, <2>2, IdleReady DEF TypeOK, AccountRows, Becomes
  <2>4. /\ gate'[x] = e
        /\ account'[x].live = account[x].live /\ account'[x].pond = p
        /\ account'[x].gender = account[x].gender /\ account'[x].prefs = account[x].prefs
        /\ \A y \in Account : y # x => gate'[y] = gate[y] /\ account'[y] = account[y]
    BY <1>t, <1>x, <2>2 DEF TypeOK, AccountRows
  <2>5. Fits(x, gate[x])'
    <3>1. e = gate[x] \/ (~e.admitted /\ ~e.opened)
      BY <1>t, <1>x, EmptiedTyped DEF TypeOK
    <3> HIDE DEF e
    <3>2. Group(x)' = Group(x)
      BY <2>4 DEF Group
    <3>3. Fits(x, gate[x])
      BY <1>t DEF RowsFit
    <3> QED BY <2>4, <3>1, <3>2, <3>3 DEF Fits
  <2> HIDE DEF e
  <2>6. RowsFit'
    <3> SUFFICES ASSUME NEW y \in Account
                 PROVE  /\ Fits(y, gate[y])'
                        /\ ~account'[y].live => account'[y].pond = None
                        /\ gate'[y].row = "present" => account'[y].pond # None
      BY DEF RowsFit
    <3>1. CASE y = x
      BY <1>x, <1>2, <2>4, <2>5, <3>1
    <3>2. CASE y # x
      BY <1>t, <2>4, <3>2 DEF RowsFit, Fits, Group
    <3> QED BY <3>1, <3>2
  <2>7. ToldOpenIsOpen'
    BY <1>t, <2>2, <2>4 DEF ToldOpenIsOpen, InForce, Here, TypeOK
  <2>8. ASSUME NEW d \in Handler, d # c PROVE Counts(d)'
    <3>1. call'[d] = call[d] /\ Counts(d) /\ Free(x)
      BY <1>t, <1>x, <2>8 DEF Inv, Becomes, TypeOK, Move
    <3> QED BY <1>t, <1>0, <1>x, <2>1, <2>4, <3>1, WriterCounts
  <2> QED BY <1>c, <2>3, <2>6, <2>7, <2>8 DEF Inv
<1> QED BY <1>1, <1>2

-----------------------------------------------------------------------------
(* Asks *)

\* A handler that is not counting has no rows to write.
LEMMA BystanderRecord ==
  ASSUME TypeOK, NEW c \in Handler, Held(call[c]), call[c].pc \notin {"pond", "insert"}
  PROVE  call[c].draft = Nothing /\ call[c].computed = Nothing
<1>1. /\ call[c].draft \in [Account -> GateRows \cup {None}]
      /\ call[c].computed \in [Account -> GateRows \cup {None}]
  BY DEF TypeOK, CallRecords
<1>2. \A x \in Account : call[c].draft[x] = None /\ call[c].computed[x] = None
  BY DEF Held
<1> QED BY <1>1, <1>2 DEF Nothing

LEMMA FinishKeeps ==
  ASSUME Inv, NEW c \in Handler, call[c].pc \notin CountSteps, Finishes(c),
         UNCHANGED <<account, gate, gateLock, changes, stays, told>>
  PROVE  Inv'
<1>1. Idle.pc \notin CountSteps /\ Idle.pc \notin AskSteps
  BY IdleReady DEF CountSteps, AskSteps
<1>2. changes' \in 0..MaxChanges /\ told' \in [Account -> BOOLEAN]
  BY DEF Inv, TypeOK
<1>3. \A x \in Account : told'[x] => InForce(x) /\ gate[x].opened
  BY DEF Inv, ToldOpenIsOpen
<1> QED BY <1>1, <1>2, <1>3, IdleReady, BystanderGoesOn DEF Finishes

LEMMA AskKeeps ==
  ASSUME Inv, NEW c \in Handler, NEW x \in Account, Ask(c, x)
  PROVE  Inv'
<1>t. TypeOK /\ ToldOpenIsOpen /\ call[c].pc \notin CountSteps
  BY DEF Inv, Ask, CountSteps
<1>1. PICK p \in Pond : p = account[x].pond
  BY <1>t DEF Ask, TypeOK, AccountRows
<1>2. PICK r : r = [Idle EXCEPT !.pc = "facts", !.account = x, !.pond = p]
  OBVIOUS
<1>3. /\ r \in CallRecords /\ r.pc = "facts" /\ r.account = x /\ r.pond = p /\ r.locked = {}
      /\ r.draft = Nothing /\ r.computed = Nothing
  BY <1>2, IdleReady DEF CallRecords
<1>4. Becomes(c, r)
  BY <1>1, <1>2 DEF Ask
<1>5. r.pc \notin CountSteps
  BY <1>3 DEF CountSteps
<1>6. changes' \in 0..MaxChanges /\ told' \in [Account -> BOOLEAN]
  BY <1>t DEF Ask, TypeOK
<1>7. \A y \in Account : told'[y] => InForce(y) /\ gate[y].opened
  BY <1>t DEF ToldOpenIsOpen, Ask
<1> QED BY <1>t, <1>3, <1>4, <1>5, <1>6, <1>7, BystanderGoesOn DEF Ask

LEMMA GoesOnKeeps ==
  ASSUME Inv, NEW c \in Handler, call[c].pc \in {"facts", "row"}, NEW q \in {"row", "lock"},
         Goes(c, q), UNCHANGED <<account, gate, gateLock, changes, stays, told>>
  PROVE  Inv'
<1>t. TypeOK /\ ToldOpenIsOpen /\ call[c].pc \notin CountSteps /\ Held(call[c])
  BY DEF Inv, Counts, CountSteps
<1>1. PICK r : r = [call[c] EXCEPT !.pc = q]
  OBVIOUS
<1>2. call[c] \in CallRecords
  BY <1>t DEF TypeOK
<1>3. /\ r \in CallRecords /\ r.pc = q /\ r.account = call[c].account /\ r.pond = call[c].pond
      /\ r.locked = call[c].locked /\ r.draft = call[c].draft /\ r.computed = call[c].computed
  BY <1>1, <1>2 DEF CallRecords
<1>4. r.locked = {} /\ r.draft = Nothing /\ r.computed = Nothing
  BY <1>t, <1>3, BystanderRecord DEF Held, CountSteps
<1>5. r.account \in Account /\ r.pond \in Pond /\ r.pc \notin CountSteps
  BY <1>t, <1>3 DEF Held, AskSteps, CountSteps
<1>6. Becomes(c, r)
  BY <1>1 DEF Goes
<1>7. changes' \in 0..MaxChanges /\ told' \in [Account -> BOOLEAN]
  BY <1>t DEF TypeOK
<1>8. \A y \in Account : told'[y] => InForce(y) /\ gate[y].opened
  BY <1>t DEF ToldOpenIsOpen
<1> QED BY <1>t, <1>3, <1>4, <1>5, <1>6, <1>7, <1>8, BystanderGoesOn

LEMMA AskFactsKeeps ==
  ASSUME Inv, NEW c \in Handler, AskFacts(c)
  PROVE  Inv'
<1>1. CASE Goes(c, "row")
  BY <1>1, GoesOnKeeps DEF AskFacts
<1>2. CASE Finishes(c)
  BY <1>2, FinishKeeps DEF AskFacts, CountSteps
<1> QED BY <1>1, <1>2 DEF AskFacts

\* Who is told "open" lives in the pond of a row that says so.
LEMMA AnswerKeeps ==
  ASSUME Inv, NEW c \in Handler, call[c].pc \in {"row", "reread"}, Answer(c)
  PROVE  Inv'
<1>t. TypeOK /\ RowsFit /\ ToldOpenIsOpen /\ call[c].pc \notin CountSteps
  BY DEF Inv, CountSteps
<1>1. PICK x \in Account, p \in Pond : x = call[c].account /\ p = call[c].pond
  BY DEF Inv, Counts, Held, AskSteps
<1>2. told' = [told EXCEPT ![x] = @ \/ (answer(gate[x], p) = "open" /\ account[x].pond = p)]
  BY <1>1 DEF Answer
<1>3. told' \in [Account -> BOOLEAN]
  BY <1>t, <1>2 DEF TypeOK
<1>4. ASSUME NEW y \in Account, told'[y] PROVE InForce(y) /\ gate[y].opened
  <2>1. CASE told[y]
    BY <1>t, <2>1 DEF ToldOpenIsOpen
  <2>2. CASE ~told[y]
    <3>1. y = x /\ answer(gate[x], p) = "open" /\ account[x].pond = p
      BY <1>t, <1>2, <1>4, <2>2 DEF TypeOK
    <3>2. Here(gate[x], p) /\ gate[x].opened
      BY <3>1 DEF answer
    <3>3. account[x].live
      BY <1>t, <3>1, PondGateAssumption DEF RowsFit
    <3> QED BY <3>1, <3>2, <3>3 DEF InForce
  <2> QED BY <2>1, <2>2
<1>5. Becomes(c, Idle) /\ Idle.pc \notin CountSteps /\ Idle.pc \notin AskSteps
  BY IdleReady DEF Answer, Finishes, CountSteps, AskSteps
<1>6. changes' \in 0..MaxChanges
  BY <1>t DEF Answer, TypeOK
<1>7. UNCHANGED <<account, gate, gateLock, stays>>
  BY DEF Answer
<1> QED BY <1>t, <1>3, <1>4, <1>5, <1>6, <1>7, IdleReady, BystanderGoesOn

LEMMA AskRowKeeps ==
  ASSUME Inv, NEW c \in Handler, AskRow(c)
  PROVE  Inv'
<1>1. CASE Answer(c)
  BY <1>1, AnswerKeeps DEF AskRow
<1>2. CASE Goes(c, "lock") /\ UNCHANGED <<account, gate, gateLock, changes, stays, told>>
  BY <1>2, GoesOnKeeps DEF AskRow
<1> QED BY <1>1, <1>2 DEF AskRow

-----------------------------------------------------------------------------
(* The statements of a count, up to its commit *)

\* A handler's own step under the advisory lock.
LEMMA CountStep ==
  ASSUME Inv, NEW c \in Handler, NEW r \in CallRecords, Becomes(c, r), Held(r),
         r.pc \in CountSteps, gateLock' = c, gateLock \in {c, None},
         UNCHANGED <<account, gate, changes, stays, told>>
  PROVE  Inv'
<1>1. call'[c] = r /\ c # None
  BY PondGateAssumption DEF Becomes, Inv, TypeOK
<1>2. Held(r)'
  BY HeldUnchanged
<1>3. Counts(c)'
  BY <1>1, <1>2, CountsBy
<1>4. \A d \in Handler \ {c} : gateLock' = d <=> gateLock = d
  BY PondGateAssumption
<1> QED BY <1>3, <1>4, QuietStep

LEMMA BeginNightKeeps ==
  ASSUME Inv, NEW c \in Handler, BeginNight(c)
  PROVE  Inv'
<1>1. PICK r : r = [Idle EXCEPT !.pc = "accounts"]
  OBVIOUS
<1>2. /\ r \in CallRecords /\ r.pc = "accounts" /\ r.account = None /\ r.locked = {}
      /\ r.draft = Nothing /\ r.computed = Nothing
  BY <1>1, IdleReady DEF CallRecords, Idle
<1>3. Held(r) /\ r.pc \in CountSteps
  BY <1>2 DEF Held, CountSteps, AskSteps, Nothing
<1> QED BY <1>1, <1>2, <1>3, CountStep DEF BeginNight

LEMMA TryLockKeeps ==
  ASSUME Inv, NEW c \in Handler, TryLock(c)
  PROVE  Inv'
<1>t. TypeOK /\ Held(call[c]) /\ call[c].pc = "lock" /\ call[c] \in CallRecords
  BY DEF Inv, Counts, TryLock, TypeOK
<1>1. CASE gateLock = None
  <2>1. PICK r : r = [call[c] EXCEPT !.pc = "asker"]
    OBVIOUS
  <2>2. /\ r \in CallRecords /\ r.pc = "asker" /\ r.account = call[c].account
        /\ r.pond = call[c].pond /\ r.locked = call[c].locked
        /\ r.draft = call[c].draft /\ r.computed = call[c].computed
    BY <1>t, <2>1 DEF CallRecords
  <2>3. r.draft = Nothing /\ r.computed = Nothing /\ r.locked = {}
    BY <1>t, <2>2, BystanderRecord DEF Held, CountSteps
  <2>4. r.account \in Account /\ r.pond \in Pond
    BY <1>t, <2>2 DEF Held, AskSteps
  <2>5. Held(r) /\ r.pc \in CountSteps
    BY <2>2, <2>3, <2>4 DEF Held, CountSteps, AskSteps, Nothing
  <2> QED BY <1>1, <2>1, <2>2, <2>5, CountStep DEF TryLock, Goes
<1>2. CASE gateLock # None
  BY <1>t, <1>2, FinishKeeps DEF TryLock, CountSteps
<1> QED BY <1>1, <1>2

\* The step of a count is under its advisory lock.
LEMMA UnderLock ==
  ASSUME Inv, NEW c \in Handler, call[c].pc \in CountSteps
  PROVE  TypeOK /\ RowsFit /\ Held(call[c]) /\ gateLock = c /\ call[c] \in CallRecords
BY DEF Inv, Counts, TypeOK

LEMMA LockAskerKeeps ==
  ASSUME Inv, NEW c \in Handler, LockAsker(c)
  PROVE  Inv'
<1>t. TypeOK /\ Held(call[c]) /\ gateLock = c /\ call[c] \in CallRecords /\ call[c].pc = "asker"
  BY UnderLock DEF LockAsker, CountSteps
<1>1. PICK locked \in SUBSET Account :
        locked = {call[c].account} \cap {x \in Account : account[x].live}
  OBVIOUS
<1>2. PICK r : r = [call[c] EXCEPT !.pc = "first", !.locked = locked]
  OBVIOUS
<1>3. /\ r \in CallRecords /\ r.pc = "first" /\ r.account = call[c].account
      /\ r.pond = call[c].pond /\ r.locked = locked
      /\ r.draft = call[c].draft /\ r.computed = call[c].computed
  BY <1>t, <1>2 DEF CallRecords
<1>4. r.draft = Nothing /\ r.computed = Nothing
  BY <1>t, <1>3, BystanderRecord
<1>5. r.account \in Account /\ r.pond \in Pond
  BY <1>t, <1>3 DEF Held, AskSteps
<1>6. Held(r) /\ r.pc \in CountSteps
  BY <1>1, <1>3, <1>4, <1>5 DEF Held, CountSteps, AskSteps, Nothing
<1>7. Becomes(c, r)
  BY <1>1, <1>2 DEF LockAsker
<1> QED BY <1>t, <1>3, <1>6, <1>7, CountStep DEF LockAsker

LEMMA AskAgainKeeps ==
  ASSUME Inv, NEW c \in Handler, AskAgain(c)
  PROVE  Inv'
<1>t. TypeOK /\ Held(call[c]) /\ gateLock = c /\ call[c] \in CallRecords /\ call[c].pc = "first"
  BY UnderLock DEF AskAgain, CountSteps
<1>0. call[c].account \in Account /\ call[c].pond \in Pond /\ call[c].account # None
  BY <1>t, PondGateAssumption DEF Held, AskSteps
<1>1. CASE gate[call[c].account].row = "absent"
  <2>1. PICK r : r = [call[c] EXCEPT !.pc = "pond", !.todo = {call[c].pond}]
    OBVIOUS
  <2>2. /\ r \in CallRecords /\ r.pc = "pond" /\ r.account = call[c].account
        /\ r.pond = call[c].pond /\ r.locked = call[c].locked
        /\ r.draft = call[c].draft /\ r.computed = call[c].computed
    BY <1>t, <1>0, <2>1 DEF CallRecords
  <2>3. r.draft = Nothing /\ r.computed = Nothing
    BY <1>t, <2>2, BystanderRecord
  <2>4. /\ \A x \in r.locked : account[x].live
        /\ account[r.account].live => r.account \in r.locked
        /\ gate[r.account].row = "absent"
    BY <1>t, <1>1, <2>2 DEF Held
  <2>5. Held(r) /\ r.pc \in CountSteps
    BY <1>0, <2>2, <2>3, <2>4 DEF Held, CountSteps, AskSteps, Nothing
  <2>6. Becomes(c, r) /\ gateLock' = c
    BY <1>t, <1>1, <2>1 DEF AskAgain
  <2> QED BY <1>t, <2>2, <2>5, <2>6, CountStep DEF AskAgain
<1>2. CASE gate[call[c].account].row # "absent"
  <2>1. Becomes(c, Idle) /\ gateLock' = None /\ None \notin Handler
    BY <1>2, PondGateAssumption DEF AskAgain, Finishes
  <2>2. call'[c] = Idle
    BY <1>t, <2>1 DEF Becomes, TypeOK
  <2>3. Counts(c)'
    BY <2>1, <2>2, IdleKeeps
  <2> QED BY <1>t, <2>1, <2>3, IdleReady, QuietStep DEF AskAgain
<1> QED BY <1>1, <1>2

LEMMA LockAccountsKeeps ==
  ASSUME Inv, NEW c \in Handler, LockAccounts(c)
  PROVE  Inv'
<1>t. /\ TypeOK /\ RowsFit /\ Held(call[c]) /\ gateLock = c /\ call[c] \in CallRecords
      /\ call[c].pc = "accounts"
  BY UnderLock DEF LockAccounts, CountSteps
<1>1. PICK locked \in SUBSET Account :
        locked = {x \in Account : account[x].live /\ account[x].pond # None}
  OBVIOUS
<1>2. PICK r : r = [call[c] EXCEPT !.pc = "repair", !.locked = locked]
  OBVIOUS
<1>3. /\ r \in CallRecords /\ r.pc = "repair" /\ r.account = call[c].account /\ r.locked = locked
      /\ r.draft = call[c].draft /\ r.computed = call[c].computed
  BY <1>t, <1>2 DEF CallRecords
<1>4. r.draft = Nothing /\ r.computed = Nothing /\ r.account = None
  BY <1>t, <1>3, BystanderRecord DEF Held
<1>5. \A x \in Account : gate[x].row = "present" => x \in r.locked
  BY <1>t, <1>1, <1>3 DEF RowsFit
<1>6. Held(r) /\ r.pc \in CountSteps
  BY <1>1, <1>3, <1>4, <1>5 DEF Held, CountSteps, AskSteps, Nothing
<1>7. Becomes(c, r)
  BY <1>1, <1>2 DEF LockAccounts
<1> QED BY <1>t, <1>3, <1>6, <1>7, CountStep DEF LockAccounts

\* The night empties the rows of a pond that was left; none is of nobody.
LEMMA RepairKeeps ==
  ASSUME Inv, NEW c \in Handler, Repair(c)
  PROVE  Inv'
<1>t. /\ TypeOK /\ RowsFit /\ Held(call[c]) /\ gateLock = c /\ call[c] \in CallRecords
      /\ call[c].pc = "repair"
  BY UnderLock DEF Repair, CountSteps
<1>1. PICK draft :
        draft = [x \in Account |->
          IF gate[x].row = "absent" THEN None
          ELSE IF ~account[x].live \/ account[x].pond = None THEN Absent
          ELSE IF account[x].pond # gate[x].pond
               THEN [Emptied(gate[x]) EXCEPT !.pond = account[x].pond]
               ELSE None]
  OBVIOUS
<1>2. PICK todo \in SUBSET Pond :
        todo = {account[x].pond : x \in {y \in Account : account[y].live}} \ {None}
  BY <1>t DEF TypeOK, AccountRows
<1>3. ASSUME NEW x \in Account, draft[x] # None
      PROVE  /\ x \in call[c].locked /\ account[x].live
             /\ account[x].pond \in Pond /\ account[x].pond # None
             /\ gate[x].pond # account[x].pond /\ gate[x].row = "present"
             /\ draft[x] = [Emptied(gate[x]) EXCEPT !.pond = account[x].pond]
  <2>1. gate[x].row = "present"
    BY <1>t, <1>1, <1>3 DEF TypeOK, GateRows
  <2>2. account[x].pond # None /\ account[x].live /\ x \in call[c].locked
    BY <1>t, <2>1 DEF RowsFit, Held
  <2>3. account[x].pond \in Pond
    BY <1>t, <2>2 DEF TypeOK, AccountRows
  <2> QED BY <1>1, <1>3, <2>1, <2>2, <2>3
<1>4. ASSUME NEW x \in Account, draft[x] # None
      PROVE  /\ draft[x] \in GateRows /\ draft[x].row = "present" /\ draft[x].pond = account[x].pond
             /\ ~draft[x].admitted /\ ~draft[x].opened
  <2>1. PICK g \in GateRows : g = gate[x]
    BY <1>t DEF TypeOK
  <2>2. PICK p \in Pond : p = account[x].pond
    BY <1>3, <1>4
  <2>3. draft[x] = [Emptied(g) EXCEPT !.pond = p] /\ g.row = "present"
    BY <1>3, <1>4, <2>1, <2>2
  <2> QED BY <2>2, <2>3, EmptiedTyped
<1>5. draft \in [Account -> GateRows \cup {None}]
  BY <1>1, <1>4
<1>6. PICK r : r = [call[c] EXCEPT !.pc = "pond", !.todo = todo, !.draft = draft]
  OBVIOUS
<1>7. /\ r \in CallRecords /\ r.pc = "pond" /\ r.account = call[c].account
      /\ r.locked = call[c].locked /\ r.draft = draft /\ r.computed = call[c].computed
  BY <1>t, <1>5, <1>6 DEF CallRecords
<1>8. r.computed = Nothing /\ r.account = None /\ \A x \in r.locked : account[x].live
  BY <1>t, <1>7, BystanderRecord DEF Held
<1>9. ASSUME NEW x \in Account, draft[x] # None PROVE Writes(r, x, draft[x])
  <2>1. Fits(x, draft[x])
    BY <1>4, <1>9 DEF Fits
  <2>2. Keeps(x, draft[x])
    BY <1>3, <1>9 DEF Keeps, InForce, Here
  <2>3. x \in r.locked /\ account[x].pond # None
    BY <1>3, <1>7, <1>9
  <2>4. r.account = None /\ draft[x].row = "present" /\ draft[x].pond = account[x].pond
    BY <1>4, <1>8, <1>9
  <2> QED BY <2>1, <2>2, <2>3, <2>4 DEF Writes
<1>10. Held(r) /\ r.pc \in CountSteps
  BY <1>7, <1>8, <1>9 DEF Held, CountSteps, AskSteps, Nothing
<1>11. Becomes(c, r)
  BY <1>1, <1>2, <1>6 DEF Repair
<1> QED BY <1>t, <1>7, <1>10, <1>11, CountStep DEF Repair

\* The gate a count sees: its draft fits the accounts as the gate does, and
\* keeps what is in force.
LEMMA SeenFits ==
  ASSUME TypeOK, RowsFit, NEW c \in Handler, Held(call[c]), NEW x \in Account
  PROVE  LET row == SeenGate(c)[x]
         IN  /\ row \in GateRows /\ Fits(x, row)
             /\ row.row = "present" => account[x].pond # None
             /\ InForce(x) /\ gate[x].admitted =>
                  Here(row, account[x].pond) /\ row.admitted /\ (gate[x].opened => row.opened)
<1>1. call[c].draft \in [Account -> GateRows \cup {None}] /\ gate[x] \in GateRows
  BY DEF TypeOK, CallRecords
<1>2. CASE call[c].draft[x] = None
  BY <1>1, <1>2 DEF SeenGate, RowsFit, InForce
<1>3. CASE call[c].draft[x] # None
  <2>1. Writes(call[c], x, call[c].draft[x])
    BY <1>3 DEF Held
  <2>2. SeenGate(c)[x] = call[c].draft[x]
    BY <1>3 DEF SeenGate
  <2> QED BY <1>1, <1>3, <2>1, <2>2 DEF Writes, Keeps, Here
<1> QED BY <1>2, <1>3

LEMMA ReadPondKeeps ==
  ASSUME Inv, NEW c \in Handler, NEW p \in Pond, ReadPond(c, p)
  PROVE  Inv'
<1>t. /\ TypeOK /\ RowsFit /\ Held(call[c]) /\ gateLock = c /\ call[c] \in CallRecords
      /\ call[c].pc = "pond" /\ p # None
  BY UnderLock, PondGateAssumption DEF ReadPond, CountSteps
<1>1. PICK rows \in [Account -> GateRows] : rows = SeenGate(c)
  BY <1>t, SeenFits DEF SeenGate
<1>2. PICK read \in SUBSET Account : read = Read(c, p)
  BY DEF Read
<1>3. PICK writes \in SUBSET read :
        writes = IF Night(c) THEN read ELSE read \cap {call[c].account}
  OBVIOUS
<1>4. PICK computed :
        computed = [x \in Account |->
              IF x \notin writes THEN None
              ELSE IF Night(c)
                   THEN NightRow(rows, p, People(rows, read, p), admit(People(rows, read, p)), x)
                   ELSE FirstRow(rows, p, People(rows, read, p), admit(People(rows, read, p)), x)]
  OBVIOUS
<1>5. \A y \in read : Subject(y, p)
  BY <1>2 DEF Read
<1>6. ASSUME NEW x \in writes PROVE x \in call[c].locked
  <2>1. CASE Night(c)
    BY <1>2, <1>3, <2>1 DEF Read
  <2>2. CASE ~Night(c)
    <3>1. x = call[c].account /\ account[x].live
      BY <1>2, <1>3, <1>5, <2>2 DEF Subject
    <3> QED BY <1>t, <2>2, <3>1 DEF Held, Night
  <2> QED BY <2>1, <2>2
<1>7. ASSUME NEW x \in writes PROVE call[c].account # None => gate[x].row = "absent"
  BY <1>t, <1>3, <1>7 DEF Held, Night
<1>8. ASSUME NEW x \in writes
      PROVE  /\ ComputedWell(computed[x], rows[x], p, x)
             /\ Night(c) /\ Here(rows[x], p) /\ rows[x].admitted =>
                  computed[x].admitted /\ (rows[x].opened => computed[x].opened)
  <2>1. CASE Night(c)
    <3>1. computed[x] = NightRow(rows, p, People(rows, read, p), admit(People(rows, read, p)), x)
      BY <1>4, <2>1
    <3> QED BY <1>t, <1>5, <3>1, NightRowComputed
  <2>2. CASE ~Night(c)
    <3>1. computed[x] = FirstRow(rows, p, People(rows, read, p), admit(People(rows, read, p)), x)
      BY <1>4, <2>2
    <3> QED BY <1>t, <1>5, <2>2, <3>1, FirstRowComputed
  <2> QED BY <2>1, <2>2
<1>9. ASSUME NEW x \in writes
      PROVE  Writes(call[c], x, computed[x])
  <2>1. /\ Subject(x, p) /\ x \in Account /\ Fits(x, rows[x])
        /\ InForce(x) /\ gate[x].admitted =>
             Here(rows[x], account[x].pond) /\ rows[x].admitted /\ (gate[x].opened => rows[x].opened)
    BY <1>t, <1>1, <1>5, SeenFits
  <2>2. Fits(x, computed[x])
    BY <1>8, <2>1 DEF Fits, ComputedWell, Subject
  <2>3. Keeps(x, computed[x])
    <3>1. CASE Night(c)
      BY <1>8, <2>1, <3>1 DEF Keeps, Subject
    <3>2. CASE ~Night(c)
      BY <1>7, <3>2 DEF Keeps, InForce, Here, Night
    <3> QED BY <3>1, <3>2
  <2> QED BY <1>t, <1>6, <1>7, <1>8, <2>1, <2>2, <2>3 DEF Writes, ComputedWell, Subject
<1>10. computed \in [Account -> GateRows \cup {None}]
  BY <1>4, <1>8 DEF ComputedWell
<1>11. PICK r : r = [call[c] EXCEPT !.pc = "insert", !.pond = p, !.todo = @ \ {p},
                                    !.computed = computed]
  OBVIOUS
<1>12. /\ r \in CallRecords /\ r.pc = "insert" /\ r.account = call[c].account /\ r.pond = p
       /\ r.locked = call[c].locked /\ r.draft = call[c].draft /\ r.computed = computed
  BY <1>t, <1>10, <1>11 DEF CallRecords
<1>13. \A x \in Account : r.draft[x] # None => Writes(r, x, r.draft[x])
  BY <1>t, <1>12 DEF Held, Writes
<1>14. \A x \in Account : r.computed[x] # None => Writes(r, x, r.computed[x])
  BY <1>4, <1>9, <1>12 DEF Writes
<1>15. Held(r) /\ r.pc \in CountSteps
  BY <1>t, <1>12, <1>13, <1>14 DEF Held, CountSteps, AskSteps
<1>16. Becomes(c, r)
  BY <1>1, <1>2, <1>3, <1>4, <1>11 DEF ReadPond
<1> QED BY <1>t, <1>12, <1>15, <1>16, CountStep DEF ReadPond

LEMMA InsertRowsKeeps ==
  ASSUME Inv, NEW c \in Handler, InsertRows(c)
  PROVE  Inv'
<1>t. /\ TypeOK /\ RowsFit /\ Held(call[c]) /\ gateLock = c /\ call[c] \in CallRecords
      /\ call[c].pc = "insert"
  BY UnderLock DEF InsertRows, CountSteps
<1>0. /\ call[c].draft \in [Account -> GateRows \cup {None}]
      /\ call[c].computed \in [Account -> GateRows \cup {None}]
  BY <1>t DEF CallRecords
<1>1. PICK draft :
        draft = [x \in Account |->
          IF /\ call[c].computed[x] # None
             /\ account[x].live /\ account[x].pond = call[c].pond
          THEN call[c].computed[x] ELSE call[c].draft[x]]
  OBVIOUS
<1>2. draft \in [Account -> GateRows \cup {None}]
  BY <1>0, <1>1
<1>3. PICK r : r = [call[c] EXCEPT !.pc = "pond", !.computed = Nothing, !.draft = draft]
  OBVIOUS
<1>4. /\ r \in CallRecords /\ r.pc = "pond" /\ r.account = call[c].account /\ r.pond = call[c].pond
      /\ r.locked = call[c].locked /\ r.draft = draft /\ r.computed = Nothing
  BY <1>t, <1>2, <1>3 DEF CallRecords, Nothing
<1>5. \A x \in Account : draft[x] # None => Writes(r, x, draft[x])
  BY <1>t, <1>1, <1>4 DEF Held, Writes
<1>6. Held(r) /\ r.pc \in CountSteps
  BY <1>t, <1>4, <1>5 DEF Held, CountSteps, AskSteps, Nothing
<1>7. Becomes(c, r)
  BY <1>1, <1>3 DEF InsertRows
<1> QED BY <1>t, <1>4, <1>6, <1>7, CountStep DEF InsertRows

-----------------------------------------------------------------------------
(* The commit *)

LEMMA CommitKeeps ==
  ASSUME Inv, NEW c \in Handler, Commit(c)
  PROVE  Inv'
<1>t. /\ TypeOK /\ RowsFit /\ ToldOpenIsOpen /\ Held(call[c]) /\ gateLock = c
      /\ call[c] \in CallRecords /\ call[c].pc = "pond"
  BY UnderLock DEF Commit, CountSteps, Inv
<1>1. /\ gate' = SeenGate(c) /\ gateLock' = None /\ None \notin Handler
      /\ UNCHANGED <<account, changes, stays, told>>
  BY PondGateAssumption DEF Commit
<1>2. PICK r \in CallRecords :
        /\ Becomes(c, r) /\ r.locked = {} /\ r.draft = Nothing /\ r.computed = Nothing
        /\ r.pc \in {"idle", "reread"}
        /\ r.pc = "reread" => r.account \in Account /\ r.pond \in Pond
  <2>1. CASE Night(c)
    BY <2>1, IdleReady DEF Commit, Finishes
  <2>2. CASE ~Night(c)
    <3>1. call[c].account \in Account /\ call[c].pond \in Pond
      BY <1>t, <2>2 DEF Held, CallRecords, Night
    <3>2. PICK s : s = [Idle EXCEPT !.pc = "reread", !.account = call[c].account,
                                    !.pond = call[c].pond]
      OBVIOUS
    <3>3. /\ s \in CallRecords /\ s.locked = {} /\ s.draft = Nothing /\ s.computed = Nothing
          /\ s.pc = "reread" /\ s.account = call[c].account /\ s.pond = call[c].pond
      BY <3>1, <3>2, IdleReady DEF CallRecords
    <3>4. Becomes(c, s)
      BY <2>2, <3>2 DEF Commit
    <3> QED BY <3>1, <3>3, <3>4
  <2> QED BY <2>1, <2>2
<1>3. call'[c] = r /\ \A d \in Handler : d # c => call'[d] = call[d]
  BY <1>t, <1>2 DEF Becomes, TypeOK
<1>4. TypeOK'
  <2>1. gate' \in [Account -> GateRows]
    BY <1>t, <1>1, SeenFits DEF SeenGate
  <2> QED BY <1>t, <1>1, <1>2, <2>1 DEF TypeOK, Becomes
<1>5. RowsFit'
  <2> SUFFICES ASSUME NEW x \in Account
               PROVE  /\ Fits(x, gate[x])'
                      /\ ~account'[x].live => account'[x].pond = None
                      /\ gate'[x].row = "present" => account'[x].pond # None
    BY DEF RowsFit
  <2>1. PICK row : row = SeenGate(c)[x]
    OBVIOUS
  <2>2. Fits(x, row) /\ (row.row = "present" => account[x].pond # None)
    BY <1>t, <2>1, SeenFits
  <2>3. gate'[x] = row
    BY <1>1, <2>1
  <2>4. Fits(x, gate[x])'
    BY <1>1, <2>2, <2>3 DEF Fits, Group
  <2> QED BY <1>t, <1>1, <2>2, <2>3, <2>4 DEF RowsFit
<1>6. ToldOpenIsOpen'
  <2> SUFFICES ASSUME NEW x \in Account, told'[x] PROVE (InForce(x) /\ gate[x].opened)'
    BY DEF ToldOpenIsOpen
  <2>1. PICK row : row = SeenGate(c)[x]
    OBVIOUS
  <2>2. InForce(x) /\ gate[x].opened /\ gate[x].admitted
    BY <1>t, <1>1 DEF ToldOpenIsOpen, RowsFit, Fits
  <2>3. Here(row, account[x].pond) /\ row.opened
    BY <1>t, <2>1, <2>2, SeenFits
  <2>4. gate'[x] = row
    BY <1>1, <2>1
  <2> QED BY <1>1, <2>2, <2>3, <2>4 DEF InForce, Here
<1>7. ASSUME NEW d \in Handler PROVE Counts(d)'
  <2>1. CASE d = c
    <3>1. Held(r)' /\ r.pc \notin CountSteps
      BY <1>2, NotCounting DEF CountSteps, AskSteps
    <3> QED BY <1>1, <1>3, <2>1, <3>1, CountsBy
  <2>2. CASE d # c
    <3>1. call'[d] = call[d] /\ Counts(d) /\ gateLock # d /\ call[d].pc \notin CountSteps
      BY <1>t, <1>3, <2>2 DEF Inv, Counts
    <3>2. PICK h : h = call[d]
      OBVIOUS
    <3>3. /\ h.draft = Nothing /\ h.computed = Nothing /\ h.locked = {} /\ h.pc \notin CountSteps
          /\ h.pc \in AskSteps => h.account \in Account /\ h.pond \in Pond
      BY <1>t, <3>1, <3>2, BystanderRecord DEF Counts, Held, CountSteps
    <3>4. Held(h)'
      BY <3>3, NotCounting
    <3> QED BY <1>1, <3>1, <3>2, <3>3, <3>4, CountsBy
  <2> QED BY <2>1, <2>2
<1> QED BY <1>4, <1>5, <1>6, <1>7 DEF Inv

-----------------------------------------------------------------------------
(* The invariant *)

LEMMA InvInit == Init => Inv
<1> SUFFICES ASSUME Init PROVE Inv
  OBVIOUS
<1>1. account \in [Account -> AccountRows] /\ \A x \in Account : account[x].live
  BY PondGateAssumption DEF Init
<1>2. 0 \in 0..MaxChanges
  BY PondGateAssumption
<1>3. TypeOK
  BY <1>1, <1>2, IdleReady, AbsentTyped DEF Init, TypeOK
<1>4. RowsFit
  BY <1>1, AbsentTyped DEF Init, RowsFit, Fits
<1>5. ToldOpenIsOpen
  BY DEF Init, ToldOpenIsOpen
<1>6. ASSUME NEW c \in Handler PROVE Counts(c)
  <2>1. call[c] = Idle /\ gateLock # c
    BY PondGateAssumption DEF Init
  <2>2. Idle.pc \notin CountSteps /\ Idle.pc \notin AskSteps
    BY IdleReady DEF CountSteps, AskSteps
  <2>3. Held(Idle)
    BY <2>2, IdleReady, NotCounting
  <2> QED BY <2>1, <2>2, <2>3 DEF Counts
<1> QED BY <1>3, <1>4, <1>5, <1>6 DEF Inv

LEMMA SavePreferencesKeeps ==
  ASSUME Inv, NEW x \in Account, savePreferences(x)
  PROVE  Inv'
<1>1. PICK p \in Preferences : Declare(x, [account[x] EXCEPT !.prefs = p])
  BY DEF savePreferences
<1>2. account[x] \in AccountRows /\ p # None
  BY PondGateAssumption DEF Inv, TypeOK
<1>3. PICK row : row = [account[x] EXCEPT !.prefs = p]
  OBVIOUS
<1>4. /\ row \in AccountRows /\ row.live = account[x].live /\ row.pond = account[x].pond
      /\ row.gender = account[x].gender /\ row.prefs = p
  BY <1>2, <1>3 DEF AccountRows
<1> QED BY <1>1, <1>2, <1>3, <1>4, DeclareKeeps

LEMMA DeclareGenderKeeps ==
  ASSUME Inv, NEW x \in Account, declareGender(x)
  PROVE  Inv'
<1>1. PICK g \in Gender : Declare(x, [account[x] EXCEPT !.gender = g])
  BY DEF declareGender
<1>2. account[x] \in AccountRows /\ g # None
  BY PondGateAssumption DEF Inv, TypeOK
<1>3. PICK row : row = [account[x] EXCEPT !.gender = g]
  OBVIOUS
<1>4. /\ row \in AccountRows /\ row.live = account[x].live /\ row.pond = account[x].pond
      /\ row.gender = g /\ row.prefs = account[x].prefs
  BY <1>2, <1>3 DEF AccountRows
<1> QED BY <1>1, <1>2, <1>3, <1>4, DeclareKeeps

LEMMA InvStutter ==
  ASSUME Inv, UNCHANGED vars
  PROVE  Inv'
<1>1. ASSUME NEW c \in Handler PROVE Counts(c)'
  <2>1. call[c].locked \in SUBSET Account
    BY DEF Inv, TypeOK, CallRecords
  <2> QED BY <2>1, OthersCount DEF Inv, vars, Untouched
<1>2. TypeOK' /\ ToldOpenIsOpen'
  BY DEF Inv, vars, TypeOK, ToldOpenIsOpen, InForce, Here
<1>3. RowsFit'
  BY DEF Inv, vars, RowsFit, Fits, Group
<1> QED BY <1>1, <1>2, <1>3 DEF Inv

LEMMA InvNext == Inv /\ [Next]_vars => Inv'
<1> SUFFICES ASSUME Inv, [Next]_vars PROVE Inv'
  OBVIOUS
<1>1. CASE Person
  BY <1>1, SavePreferencesKeeps, DeclareGenderKeeps, ProfileKeeps, EraseKeeps DEF Person
<1>2. ASSUME NEW c \in Handler, NEW x \in Account, Ask(c, x) PROVE Inv'
  BY <1>2, AskKeeps
<1>3. ASSUME NEW c \in Handler, NEW x \in Account, NEW p \in Pond, BeginMove(c, x, p) PROVE Inv'
  BY <1>3, BeginMoveKeeps
<1>4. ASSUME NEW c \in Handler, Move(c) PROVE Inv'
  BY <1>4, MoveKeeps
<1>5. ASSUME NEW c \in Handler, Gate(c) PROVE Inv'
  <2>1. CASE Reread(c)
    BY <2>1, AnswerKeeps DEF Reread
  <2> QED BY <1>5, <2>1, AskFactsKeeps, AskRowKeeps, TryLockKeeps, LockAskerKeeps, AskAgainKeeps
          DEF Gate
<1>6. ASSUME NEW c \in Handler, BeginNight(c) PROVE Inv'
  BY <1>6, BeginNightKeeps
<1>7. ASSUME NEW c \in Handler, Count(c) PROVE Inv'
  BY <1>7, LockAccountsKeeps, RepairKeeps, InsertRowsKeeps, CommitKeeps, ReadPondKeeps DEF Count
<1>8. CASE UNCHANGED vars
  BY <1>8, InvStutter
<1> QED BY <1>1, <1>2, <1>3, <1>4, <1>5, <1>6, <1>7, <1>8 DEF Next

\* Inv is an invariant of the pond gate.
THEOREM PondGateInv == Spec => []Inv
<1> QED BY InvInit, InvNext, PTL DEF Spec

\* Type correctness.
THEOREM PondGateTypeOK == Spec => []TypeOK
<1>1. Inv => TypeOK
  BY DEF Inv
<1> QED BY <1>1, PondGateInv, PTL

\* Nobody passes a line by a declaration taken back, whatever is declared
\* while counts read and write.
THEOREM PondGateLineNotJumped == Spec => []LineNotJumped
<1>1. Inv => LineNotJumped
  BY DEF Inv, RowsFit, Fits, LineNotJumped
<1> QED BY <1>1, PondGateInv, PTL

\* Who was told "open", and has changed nothing since, has an open gate.
THEOREM PondGateToldOpenIsOpen == Spec => []ToldOpenIsOpen
<1>1. Inv => ToldOpenIsOpen
  BY DEF Inv
<1> QED BY <1>1, PondGateInv, PTL

-----------------------------------------------------------------------------
(* What a step never does *)

\* The commit of a count keeps the rows in force, and a first ask's creates.
LEMMA CommitLetsNobodyOut ==
  ASSUME Inv, NEW c \in Handler, Commit(c), NEW x \in Account
  PROVE  /\ InForce(x) /\ gate[x].admitted =>
              gate'[x].admitted /\ (gate[x].opened => gate'[x].opened)
         /\ gate[x].row = "present" /\ gate'[x] # gate[x] => Night(c)
<1>t. TypeOK /\ RowsFit /\ Held(call[c])
  BY UnderLock DEF Commit, CountSteps
<1>1. gate'[x] = SeenGate(c)[x]
  BY DEF Commit
<1>2. InForce(x) /\ gate[x].admitted =>
        gate'[x].admitted /\ (gate[x].opened => gate'[x].opened)
  <2>1. PICK row : row = SeenGate(c)[x]
    OBVIOUS
  <2>2. InForce(x) /\ gate[x].admitted => row.admitted /\ (gate[x].opened => row.opened)
    BY <1>t, <2>1, SeenFits
  <2> QED BY <1>1, <2>1, <2>2
<1>3. gate[x].row = "present" /\ gate'[x] # gate[x] => Night(c)
  BY <1>t, <1>1 DEF SeenGate, Held, Writes, Night
<1> QED BY <1>2, <1>3

\* Who changes their account counts nothing.
LEMMA EmptiedIsNotCounted ==
  ASSUME Inv, NEW x \in Account, gate'[x] # gate[x],
         \/ Person
         \/ \E c \in Handler : Move(c)
  PROVE  ~gate'[x].counted
<1>t. TypeOK /\ \A y \in Account : gate[y] \in GateRows
  BY DEF Inv, TypeOK
<1>1. ASSUME NEW y \in Account, NEW row, Declare(y, row) PROVE ~gate'[x].counted
  <2>1. gate'[x] = gate[x] \/ gate'[x] = Emptied(gate[x])
    BY <1>t, <1>1 DEF Declare, TypeOK
  <2> QED BY <1>t, <2>1, EmptiedTyped
<1>2. ASSUME NEW y \in Account, eraseAccount(y) PROVE ~gate'[x].counted
  <2>1. gate'[x] = gate[x] \/ gate'[x] = Absent
    BY <1>t, <1>2 DEF eraseAccount, TypeOK
  <2> QED BY <2>1 DEF Absent
<1>3. ASSUME NEW c \in Handler, Move(c) PROVE ~gate'[x].counted
  <2>1. PICK y \in Account, p \in Pond : y = call[c].account /\ p = call[c].pond
    BY <1>3 DEF Inv, Counts, Held, AskSteps, Move
  <2>2. gate'[x] = gate[x] \/ gate'[x] = [Emptied(gate[x]) EXCEPT !.pond = p]
    BY <1>t, <1>3, <2>1 DEF Move, TypeOK
  <2>3. PICK e : e = [Emptied(gate[x]) EXCEPT !.pond = p]
    OBVIOUS
  <2>4. ~e.counted
    BY <1>t, <2>3, EmptiedTyped
  <2> QED BY <2>2, <2>3, <2>4
<1>4. ASSUME NEW y \in Account, Profile(y) PROVE ~gate'[x].counted
  BY <1>4 DEF Profile
<1> QED BY <1>1, <1>2, <1>3, <1>4 DEF Person, savePreferences, declareGender

\* Every other handler's step leaves the rows alone.
LEMMA WhoWritesRows ==
  ASSUME Inv, [Next]_vars
  PROVE  \/ gate' = gate
         \/ Person
         \/ \E c \in Handler : Move(c) \/ Commit(c)
BY DEF Next, vars, Gate, Count, Ask, AskFacts, AskRow, Answer, Reread, Finishes, Becomes, Goes,
       TryLock, LockAsker, AskAgain, BeginMove, BeginNight, LockAccounts, Repair, ReadPond,
       InsertRows

\* No count lets anybody out: an admission ends with a change of its person's.
THEOREM PondGateNobodyIsLetOut == Spec => NobodyIsLetOut
<1> DEFINE Kept == \A x \in Account :
             InForce(x) /\ gate[x].admitted /\ account'[x] = account[x]
               => gate'[x].admitted /\ (gate[x].opened => gate'[x].opened)
<1>1. Inv /\ [Next]_vars => Kept
  <2> SUFFICES ASSUME Inv, [Next]_vars, NEW x \in Account,
                      InForce(x), gate[x].admitted, account'[x] = account[x]
               PROVE  gate'[x].admitted /\ (gate[x].opened => gate'[x].opened)
    OBVIOUS
  <2>t. TypeOK
    BY DEF Inv
  <2>1. ASSUME NEW y \in Account, NEW row, Declare(y, row) PROVE gate'[x] = gate[x]
    <3>1. CASE y = x
      <4>1. row = account[x]
        BY <2>t, <2>1, <3>1 DEF Declare, TypeOK
      <4>2. ~joinsAGroupThatWaits(Declared(account[x]), Declared(row))
        BY <4>1 DEF joinsAGroupThatWaits
      <4> QED BY <2>t, <2>1, <3>1, <4>2 DEF Declare, TypeOK
    <3>2. CASE y # x
      BY <2>t, <2>1, <3>2 DEF Declare, TypeOK
    <3> QED BY <3>1, <3>2
  <2>2. ASSUME NEW y \in Account, eraseAccount(y) PROVE gate'[x] = gate[x]
    BY <2>t, <2>2 DEF eraseAccount, TypeOK, InForce
  <2>3. ASSUME NEW c \in Handler, Move(c) PROVE gate'[x] = gate[x]
    BY <2>t, <2>3 DEF Move, TypeOK, InForce, Here, AccountRows
  <2>4. ASSUME NEW c \in Handler, Commit(c)
        PROVE  gate'[x].admitted /\ (gate[x].opened => gate'[x].opened)
    BY <2>4, CommitLetsNobodyOut
  <2>5. CASE Person
    <3>1. gate'[x] = gate[x]
      BY <2>1, <2>2, <2>5 DEF Person, savePreferences, declareGender, Profile
    <3> QED BY <3>1
  <2> QED BY <2>3, <2>4, <2>5, WhoWritesRows
<1>2. Inv /\ [Next]_vars => [Kept]_vars
  BY <1>1
<1> HIDE DEF Kept
<1>3. Spec => [][Kept]_vars
  BY <1>2, PondGateInv, PTL DEF Spec
<1> QED BY <1>3 DEF Kept, NobodyIsLetOut

\* A row that exists comes to say something else only at a night's commit.
THEOREM PondGateSaidAtNight == Spec => SaidAtNight
<1> DEFINE AtNight == \A x \in Account :
             gate[x].row = "present" /\ gate'[x] # gate[x] /\ gate'[x].counted
               => \E c \in Handler : Night(c) /\ Commit(c)
<1>1. Inv /\ [Next]_vars => AtNight
  <2> SUFFICES ASSUME Inv, [Next]_vars, NEW x \in Account,
                      gate[x].row = "present", gate'[x] # gate[x], gate'[x].counted
               PROVE  \E c \in Handler : Night(c) /\ Commit(c)
    OBVIOUS
  <2>1. PICK c \in Handler : Commit(c)
    BY WhoWritesRows, EmptiedIsNotCounted
  <2> QED BY <2>1, CommitLetsNobodyOut
<1>2. Inv /\ [Next]_vars => [AtNight]_vars
  BY <1>1
<1> HIDE DEF AtNight
<1>3. Spec => [][AtNight]_vars
  BY <1>2, PondGateInv, PTL DEF Spec
<1> QED BY <1>3 DEF AtNight, SaidAtNight

-----------------------------------------------------------------------------
(* The rounds of admit                                                     *)

\* Of the numbers some are in T, the first of them included, and with each the
\* next: then all are.
LEMMA Induction ==
  ASSUME NEW T \in SUBSET Nat, 0 \in T, \A n \in T : n + 1 \in T
  PROVE  T = Nat
<1> DEFINE R == {ss \in Nat \X Nat : ss[1] < ss[2]}
           L == Nat \ T
<1> SUFFICES ASSUME L # {} PROVE FALSE
  OBVIOUS
<1>1. IsWellFoundedOn(R, Nat)
  BY NatLessThanWellFounded DEF OpToRel
<1>2. PICK n \in L : \A m \in L : <<m, n>> \notin R
  <2>1. L \subseteq Nat
    OBVIOUS
  <2> HIDE DEF R, L
  <2> QED BY <1>1, <2>1, WFMin
<1>3. n \in Nat /\ n # 0 /\ n - 1 \in Nat /\ n - 1 < n /\ (n - 1) + 1 = n
  BY <1>2
<1>4. n - 1 \in T
  BY <1>2, <1>3
<1> QED BY <1>2, <1>3, <1>4

\* What a step says of each set, repeated from a base, is a function of the round.
LEMMA Iterated ==
  ASSUME NEW D, NEW base \in D, NEW step \in [D -> D]
  PROVE  \E f \in [Nat -> D] : f[0] = base /\ \A n \in Nat : f[n + 1] = step[f[n]]
<1> DEFINE Up(n, g) == /\ g \in [0 .. n -> D] /\ g[0] = base
                       /\ \A m \in 1 .. n : g[m] = step[g[m - 1]]
           T == {n \in Nat : \E g : Up(n, g)}
           Agree(k) == \A n, m \in Nat : \A g, h :
                         k <= n /\ k <= m /\ Up(n, g) /\ Up(m, h) => g[k] = h[k]
           A == {k \in Nat : Agree(k)}
           G(n) == CHOOSE g : Up(n, g)
           f0 == [n \in Nat |-> G(n)[n]]
<1>1. \A n \in Nat : Up(n, G(n))
  <2>1. 0 \in T
    <3>1. Up(0, [m \in 0 .. 0 |-> base])
      OBVIOUS
    <3> QED BY <3>1
  <2>2. ASSUME NEW n \in T PROVE n + 1 \in T
    <3>1. PICK g : Up(n, g)
      OBVIOUS
    <3> DEFINE g2 == [m \in 0 .. n + 1 |-> IF m = n + 1 THEN step[g[n]] ELSE g[m]]
    <3>2. n \in Nat /\ g[n] \in D
      BY <3>1
    <3>3. g2 \in [0 .. n + 1 -> D] /\ g2[0] = base
      BY <3>1, <3>2
    <3>4. \A m \in 1 .. n + 1 : g2[m] = step[g2[m - 1]]
      BY <3>1, <3>2
    <3>5. Up(n + 1, g2)
      BY <3>3, <3>4
    <3> HIDE DEF Up, g2
    <3> QED BY <3>2, <3>5
  <2>3. T = Nat
    <3> HIDE DEF T
    <3>1. T \in SUBSET Nat
      BY DEF T
    <3> QED BY <2>1, <2>2, <3>1, Induction
  <2> HIDE DEF Up
  <2> QED BY <2>3
<1>2. \A k \in Nat : Agree(k)
  <2>1. 0 \in A
    OBVIOUS
  <2>2. ASSUME NEW k \in A PROVE k + 1 \in A
    <3> SUFFICES ASSUME NEW n \in Nat, NEW m \in Nat, NEW g, NEW h,
                        k + 1 <= n, k + 1 <= m, Up(n, g), Up(m, h)
                 PROVE  g[k + 1] = h[k + 1]
      <4> HIDE DEF Up
      <4> QED OBVIOUS
    <3>1. k \in Nat /\ k <= n /\ k <= m /\ k + 1 \in 1 .. n /\ k + 1 \in 1 .. m /\ (k + 1) - 1 = k
      OBVIOUS
    <3>2. g[k] = h[k]
      <4> HIDE DEF Up
      <4> QED BY <3>1
    <3> QED BY <3>1, <3>2
  <2>3. A = Nat
    <3>1. A \in SUBSET Nat
      OBVIOUS
    <3> HIDE DEF A
    <3> QED BY <2>1, <2>2, <3>1, Induction
  <2> HIDE DEF Agree
  <2> QED BY <2>3
<1>3. f0 \in [Nat -> D] /\ f0[0] = base
  <2> HIDE DEF G
  <2>1. \A n \in Nat : G(n)[n] \in D /\ G(0)[0] = base
    BY <1>1
  <2> QED BY <2>1
<1>4. \A n \in Nat : f0[n + 1] = step[f0[n]]
  <2> SUFFICES ASSUME NEW n \in Nat PROVE f0[n + 1] = step[f0[n]]
    OBVIOUS
  <2>1. Up(n, G(n)) /\ Up(n + 1, G(n + 1))
    <3> HIDE DEF G, Up
    <3> QED BY <1>1
  <2>2. G(n)[n] = G(n + 1)[n]
    <3> HIDE DEF G, Up
    <3> QED BY <1>2, <2>1
  <2>3. G(n + 1)[n + 1] = step[G(n + 1)[n]]
    <3>1. n + 1 \in 1 .. n + 1 /\ (n + 1) - 1 = n
      OBVIOUS
    <3> HIDE DEF G
    <3> QED BY <2>1, <3>1
  <2> HIDE DEF G, Up
  <2> QED BY <2>2, <2>3
<1> HIDE DEF f0
<1> QED BY <1>3, <1>4

\* The rounds of admit, of which Inside is the last.
Rounds(people, r) ==
  /\ r \in [Nat -> SUBSET DOMAIN people]
  /\ r[0] = Recorded(people) \cup {i \in DOMAIN people : people[i].group = "nobody"}
  /\ \A n \in Nat : r[n + 1] = r[n] \cup NextIn(people, r[n])

LEMMA InsideIsARound ==
  ASSUME NEW people
  PROVE  \E r : Rounds(people, r) /\ Inside(people) = r[Cardinality(DOMAIN people)]
<1> DEFINE D == SUBSET DOMAIN people
           base == Recorded(people) \cup {i \in DOMAIN people : people[i].group = "nobody"}
           step == [S \in D |-> S \cup NextIn(people, S)]
           F(f) == f = [n \in Nat |-> IF n = 0 THEN base ELSE f[n - 1] \cup NextIn(people, f[n - 1])]
           r == CHOOSE f : F(f)
<1>1. base \in D /\ \A S : NextIn(people, S) \in D
  BY DEF Recorded, NextIn, Heads
<1>2. step \in [D -> D]
  BY <1>1
<1>3. PICK f \in [Nat -> D] : f[0] = base /\ \A n \in Nat : f[n + 1] = step[f[n]]
  <2> HIDE DEF D, base, step
  <2> QED BY <1>1, <1>2, Iterated
<1>4. F(f)
  <2>1. \A n \in Nat : f[n] = IF n = 0 THEN base ELSE f[n - 1] \cup NextIn(people, f[n - 1])
    <3> SUFFICES ASSUME NEW n \in Nat, n # 0
                 PROVE  f[n] = f[n - 1] \cup NextIn(people, f[n - 1])
      BY <1>3
    <3>1. n - 1 \in Nat /\ (n - 1) + 1 = n
      OBVIOUS
    <3>2. f[n] = step[f[n - 1]] /\ f[n - 1] \in D
      <4> HIDE DEF step, D
      <4> QED BY <1>3, <3>1
    <3> QED BY <3>2
  <2> QED BY <1>3, <2>1
<1>5. F(r)
  <2> HIDE DEF F
  <2> QED BY <1>4
<1>6. \A n \in Nat : r[n] = IF n = 0 THEN base ELSE r[n - 1] \cup NextIn(people, r[n - 1])
  <2> HIDE DEF r, base
  <2> QED BY <1>5
<1>7. r[0] = base /\ \A n \in Nat : r[n + 1] = r[n] \cup NextIn(people, r[n])
  <2>1. \A n \in Nat : n + 1 \in Nat /\ n + 1 # 0 /\ (n + 1) - 1 = n
    OBVIOUS
  <2> HIDE DEF r, base
  <2> QED BY <1>6, <2>1
<1>8. r \in [Nat -> D]
  <2> DEFINE B == {n \in Nat : r[n] \in D}
  <2>1. B \in SUBSET Nat /\ 0 \in B /\ \A n \in B : n + 1 \in B
    <3> HIDE DEF r, base
    <3> QED BY <1>1, <1>7
  <2>2. B = Nat
    <3> HIDE DEF B
    <3> QED BY <2>1, Induction
  <2> HIDE DEF r
  <2>3. \A n \in Nat : r[n] \in D
    BY <2>2
  <2>4. r = [n \in Nat |-> r[n]]
    BY <1>5
  <2> QED BY <2>3, <2>4
<1>9. Inside(people) = r[Cardinality(DOMAIN people)]
  BY DEF Inside
<1> HIDE DEF r
<1> QED BY <1>7, <1>8, <1>9 DEF Rounds

\* Nobody of an earlier round goes out.
LEMMA RoundsGrow ==
  ASSUME NEW people, NEW r, Rounds(people, r), NEW k \in Nat
  PROVE  \A n \in Nat : k <= n => r[k] \subseteq r[n]
<1> DEFINE T == {n \in Nat : k <= n => r[k] \subseteq r[n]}
<1>1. 0 \in T
  <2>1. k <= 0 => k = 0
    OBVIOUS
  <2> QED BY <2>1
<1>2. ASSUME NEW n \in T PROVE n + 1 \in T
  <2>1. n \in Nat /\ r[n] \subseteq r[n + 1]
    BY DEF Rounds
  <2>2. k <= n + 1 => k <= n \/ k = n + 1
    BY <2>1
  <2> QED BY <2>1, <2>2
<1>3. T = Nat
  <2>1. T \in SUBSET Nat
    OBVIOUS
  <2> HIDE DEF T
  <2> QED BY <1>1, <1>2, <2>1, Induction
<1> QED BY <1>3

\* A round that lets nobody in is the last that matters.
LEMMA RoundsEnd ==
  ASSUME NEW people, NEW r, Rounds(people, r), NEW k \in Nat, NextIn(people, r[k]) = {}
  PROVE  \A n \in Nat : k <= n => r[n] = r[k]
<1> DEFINE T == {n \in Nat : k <= n => r[n] = r[k]}
<1>1. 0 \in T
  <2>1. k <= 0 => k = 0
    OBVIOUS
  <2> QED BY <2>1
<1>2. ASSUME NEW n \in T PROVE n + 1 \in T
  <2>1. n \in Nat /\ r[n + 1] = r[n] \cup NextIn(people, r[n])
    BY DEF Rounds
  <2>2. k <= n + 1 => k <= n \/ k = n + 1
    BY <2>1
  <2> QED BY <2>1, <2>2
<1>3. T = Nat
  <2>1. T \in SUBSET Nat
    OBVIOUS
  <2> HIDE DEF T
  <2> QED BY <1>1, <1>2, <2>1, Induction
<1> QED BY <1>3

\* After as many rounds as there are people nobody more may come in: each round
\* before lets somebody in.
LEMMA NobodyMoreComesIn ==
  ASSUME NEW people, IsFiniteSet(DOMAIN people)
  PROVE  /\ Inside(people) \subseteq DOMAIN people
         /\ Recorded(people) \subseteq Inside(people)
         /\ {i \in DOMAIN people : people[i].group = "nobody"} \subseteq Inside(people)
         /\ NextIn(people, Inside(people)) = {}
<1> DEFINE N == Cardinality(DOMAIN people)
<1>1. PICK r : Rounds(people, r) /\ Inside(people) = r[N]
  BY InsideIsARound
<1>2. N \in Nat
  BY FS_CardinalityType
<1>3. \A n \in Nat : /\ r[n] \in SUBSET DOMAIN people /\ IsFiniteSet(r[n])
                     /\ Cardinality(r[n]) \in Nat /\ Cardinality(r[n]) <= N
                     /\ Cardinality(r[n]) = N => r[n] = DOMAIN people
  <2> SUFFICES ASSUME NEW n \in Nat
               PROVE  /\ r[n] \in SUBSET DOMAIN people /\ IsFiniteSet(r[n])
                      /\ Cardinality(r[n]) \in Nat /\ Cardinality(r[n]) <= N
                      /\ Cardinality(r[n]) = N => r[n] = DOMAIN people
    OBVIOUS
  <2>1. r[n] \in SUBSET DOMAIN people
    BY <1>1 DEF Rounds
  <2> QED BY <2>1, FS_Subset, FS_CardinalityType
<1>4. NextIn(people, r[N]) = {}
  <2> SUFFICES ASSUME NextIn(people, r[N]) # {} PROVE FALSE
    OBVIOUS
  <2>1. \A n \in Nat : n <= N => NextIn(people, r[n]) # {}
    BY <1>1, <1>2, RoundsEnd
  <2> DEFINE T == {n \in Nat : n <= N => n <= Cardinality(r[n])}
  <2>2. 0 \in T
    BY <1>3
  <2>3. ASSUME NEW n \in T PROVE n + 1 \in T
    <3> SUFFICES ASSUME n + 1 <= N PROVE n + 1 <= Cardinality(r[n + 1])
      OBVIOUS
    <3>1. n \in Nat /\ n + 1 \in Nat /\ n <= N /\ n <= Cardinality(r[n])
      BY <1>2
    <3>2. PICK i \in NextIn(people, r[n]) : TRUE
      BY <2>1, <3>1
    <3>3. i \notin r[n]
      BY DEF NextIn, Heads
    <3>4. r[n] \cup {i} \subseteq r[n + 1]
      BY <1>1, <3>1, <3>2 DEF Rounds
    <3>5. Cardinality(r[n] \cup {i}) = Cardinality(r[n]) + 1
      BY <1>3, <3>1, <3>3, FS_AddElement
    <3>6. Cardinality(r[n] \cup {i}) <= Cardinality(r[n + 1])
      BY <1>3, <3>1, <3>4, FS_Subset
    <3> QED BY <1>3, <3>1, <3>5, <3>6
  <2>4. T = Nat
    <3>1. T \in SUBSET Nat
      OBVIOUS
    <3> HIDE DEF T
    <3> QED BY <2>2, <2>3, <3>1, Induction
  <2>5. N <= Cardinality(r[N])
    <3>1. N \in T
      BY <1>2, <2>4
    <3> QED BY <1>2, <3>1
  <2>6. r[N] = DOMAIN people
    BY <1>2, <1>3, <2>5
  <2>7. NextIn(people, DOMAIN people) = {}
    BY DEF NextIn, Heads
  <2> QED BY <2>6, <2>7
<1>5. r[0] \subseteq r[N]
  BY <1>1, <1>2, RoundsGrow
<1> HIDE DEF N
<1> QED BY <1>1, <1>2, <1>3, <1>4, <1>5 DEF Rounds

\* Who comes in next depends on groups and places, not on what was recorded.
LEMMA NextInAlike ==
  ASSUME NEW people, NEW again, DOMAIN again = DOMAIN people,
         \A i \in DOMAIN people : /\ again[i].group = people[i].group
                                  /\ again[i].registered = people[i].registered,
         NEW S \in SUBSET DOMAIN people
  PROVE  /\ NextIn(again, S) = NextIn(people, S)
         /\ \A i \in DOMAIN people : Ahead(again, S, i) = Ahead(people, S, i)
<1>1. \A i \in DOMAIN people : Ahead(again, S, i) = Ahead(people, S, i)
  BY DEF Ahead
<1>2. \A g : Members(again, S, g) = Members(people, S, g)
  BY DEF Members
<1>3. \A g : mayEnter(again, S, g) = mayEnter(people, S, g)
  BY <1>2 DEF mayEnter
<1>4. Heads(again, S) = Heads(people, S)
  BY <1>1, <1>3 DEF Heads
<1>5. Heads(people, S) \subseteq DOMAIN people
  BY DEF Heads
<1>6. NextIn(again, S) = NextIn(people, S)
  BY <1>4, <1>5 DEF NextIn
<1> QED BY <1>1, <1>6

\* Once everybody who came in is recorded, nobody else comes in.
LEMMA InsideStands ==
  ASSUME NEW people, NEW again, IsFiniteSet(DOMAIN people), DOMAIN again = DOMAIN people,
         \A i \in DOMAIN people : /\ again[i].group = people[i].group
                                  /\ again[i].registered = people[i].registered
                                  /\ again[i].admitted <=> i \in Inside(people)
  PROVE  Inside(again) = Inside(people) /\ Recorded(again) = Inside(people)
<1>1. /\ Inside(people) \subseteq DOMAIN people /\ NextIn(people, Inside(people)) = {}
      /\ {i \in DOMAIN people : people[i].group = "nobody"} \subseteq Inside(people)
  BY NobodyMoreComesIn
<1>2. Recorded(again) = Inside(people)
  BY <1>1 DEF Recorded
<1>3. PICK r : Rounds(again, r) /\ Inside(again) = r[Cardinality(DOMAIN again)]
  BY InsideIsARound
<1>4. r[0] = Inside(people)
  <2>1. {i \in DOMAIN again : again[i].group = "nobody"} \subseteq Inside(people)
    BY <1>1
  <2> QED BY <1>2, <1>3, <2>1 DEF Rounds
<1>5. NextIn(again, r[0]) = {}
  BY <1>1, <1>4, NextInAlike
<1>6. Cardinality(DOMAIN again) \in Nat /\ 0 <= Cardinality(DOMAIN again)
  BY FS_CardinalityType
<1>7. r[Cardinality(DOMAIN again)] = r[0]
  BY <1>3, <1>5, <1>6, RoundsEnd
<1> QED BY <1>2, <1>3, <1>4, <1>7

-----------------------------------------------------------------------------
(* What is said the second time *)

LEMMA DivMultiple ==
  ASSUME NEW a \in Nat, NEW b \in Nat \ {0}
  PROVE  a \div b \in Nat /\ (a * b) \div b = a /\ a * b \in Nat
OBVIOUS

LEMMA DivBounds ==
  ASSUME NEW a \in Nat, NEW b \in Nat \ {0}
  PROVE  (a \div b) * b <= a /\ a - (a \div b) * b < b
OBVIOUS

LEMMA SaidAgain ==
  ASSUME NEW n \in Nat, NEW step \in Nat \ {0}, NEW said \in Nat \cup {None}
  PROVE  sayPool(sayPool(said, n, step), n, step) = sayPool(said, n, step)
<1>1. \A m \in Nat : saidInStep(m, step) \in Nat /\ saidInStep(saidInStep(m, step), step) = saidInStep(m, step)
  BY DivMultiple DEF saidInStep
<1>2. sayPool(said, n, step) \in {saidInStep(n, step), saidInStep(said, step)}
  BY DEF sayPool
<1> DEFINE q == sayPool(said, n, step)
<1>3. q \in Nat /\ saidInStep(q, step) = q /\ q # None
  BY <1>1, <1>2, AdmissionAssumption DEF sayPool
<1>4. Far(n, q, step) => q = saidInStep(n, step)
  BY <1>1, <1>3 DEF sayPool
<1>5. sayPool(q, n, step) = q
  <2> HIDE DEF q
  <2> QED BY <1>3, <1>4 DEF sayPool
<1> QED BY <1>5

\* A row of somebody let in, written again with the pool it was written with.
LEMMA AdmittedAgain ==
  ASSUME NEW row \in GateRows, NEW p, NEW x, NEW n \in Nat
  PROVE  Admitted(Admitted(row, p, x, n), p, x, n) = Admitted(row, p, x, n)
<1> DEFINE said == IF row.row = "present" THEN row.pool ELSE None
           q == sayPool(said, n, Step)
           open == (Here(row, p) /\ row.opened) \/ n >= GateK
           once == Admitted(row, p, x, n)
<1>1. said \in Nat \cup {None}
  BY DEF GateRows
<1>2. sayPool(q, n, Step) = q
  <2> HIDE DEF said
  <2> QED BY <1>1, SaidAgain, PondGateAssumption
<1> HIDE DEF q
<1>3. /\ once = [row |-> "present", pond |-> p, admitted |-> TRUE, place |-> 0, pool |-> q,
                 opened |-> open, counted |-> TRUE, group |-> once.group, stay |-> once.stay]
      /\ once.row = "present" /\ once.pond = p /\ once.admitted /\ once.pool = q
      /\ once.opened = open
  BY DEF Admitted, q
<1> HIDE DEF once
<1>4. Here(once, p) /\ once.admitted
  BY <1>3 DEF Here
<1>5. ((Here(once, p) /\ once.opened) \/ n >= GateK) = open
  BY <1>3, <1>4
<1> HIDE DEF open
<1>6. Admitted(once, p, x, n) =
        [row |-> "present", pond |-> p, admitted |-> TRUE, place |-> 0, pool |-> q,
         opened |-> open, counted |-> TRUE, group |-> once.group, stay |-> once.stay]
  BY <1>2, <1>3, <1>4, <1>5 DEF Admitted
<1>7. Admitted(once, p, x, n) = once
  BY <1>3, <1>6
<1> QED BY <1>7 DEF once

LEMMA WaitsAgain ==
  ASSUME NEW row, NEW p, NEW place
  PROVE  Waits(Waits(row, p, place), p, place) = Waits(row, p, place)
BY DEF Waits, Absent

LEMMA AdmittedIsIn ==
  ASSUME NEW row, NEW p, NEW x, NEW n
  PROVE  LET r == Admitted(row, p, x, n) IN r.row = "present" /\ r.pond = p /\ r.admitted
BY DEF Admitted

-----------------------------------------------------------------------------
(* A pond counted twice *)

\* The night's row, by who is inside once admit is done.
LEMMA NightRowByInside ==
  ASSUME NEW rows, NEW p, NEW people, IsFiniteSet(DOMAIN people), NEW x \in DOMAIN people
  PROVE  NightRow(rows, p, people, admit(people), x) =
           IF x \in Inside(people)
           THEN Admitted(rows[x], p, x, Cardinality(PoolOf(x, Inside(people))))
           ELSE Waits(rows[x], p, 1 + Cardinality(Ahead(people, Inside(people), x)))
<1> DEFINE I == Inside(people)
           W == DOMAIN people \ (Recorded(people) \cup I)
           shown == {y \in DOMAIN people : people[y].admitted \/ y \in admit(people).admitted}
<1>1. I \subseteq DOMAIN people /\ Recorded(people) \subseteq I
  BY NobodyMoreComesIn
<1> HIDE DEF I
<1>2. /\ admit(people).admitted = I \ Recorded(people)
      /\ admit(people).waiting = [i \in W |-> 1 + Cardinality(Ahead(people, I, i))]
  BY DEF admit, I
<1>3. W = DOMAIN people \ I
  BY <1>1
<1>4. shown = I
  BY <1>1, <1>2 DEF Recorded
<1> HIDE DEF W, shown
<1>5. /\ DOMAIN admit(people).waiting = DOMAIN people \ I
      /\ x \notin I => admit(people).waiting[x] = 1 + Cardinality(Ahead(people, I, x))
  BY <1>2, <1>3
<1>6. NightRow(rows, p, people, admit(people), x) =
        IF x \in I THEN Admitted(rows[x], p, x, Cardinality(PoolOf(x, shown)))
        ELSE Waits(rows[x], p, 1 + Cardinality(Ahead(people, I, x)))
  BY <1>5 DEF NightRow, shown
<1> QED BY <1>4, <1>6 DEF I

LEMMA RecountAgain ==
  ASSUME TypeOK, NEW p \in Pond
  PROVE  Recount(Recount(gate, p), p) = Recount(gate, p)
<1> DEFINE S == {x \in Account : Subject(x, p)}
           P == People(gate, S, p)
           I == Inside(P)
           once == Recount(gate, p)
           Q == People(once, S, p)
           twice == Recount(once, p)
<1>1. /\ S \subseteq Account /\ DOMAIN P = S /\ DOMAIN Q = S /\ IsFiniteSet(S)
  BY PondGateAssumption, FS_Subset DEF People
<1>2. \A i \in S : /\ Q[i].group = P[i].group /\ Q[i].registered = P[i].registered
                   /\ P[i].admitted = (Here(gate[i], p) /\ gate[i].admitted)
                   /\ Q[i].admitted = (Here(once[i], p) /\ once[i].admitted)
  BY DEF People
<1>3. /\ \A x \in S : once[x] = NightRow(gate, p, P, admit(P), x)
      /\ \A x \in S : twice[x] = NightRow(once, p, Q, admit(Q), x)
      /\ \A x \in Account \ S : twice[x] = once[x]
      /\ DOMAIN once = Account /\ DOMAIN twice = Account
      /\ once = [x \in Account |-> once[x]] /\ twice = [x \in Account |-> twice[x]]
  BY DEF Recount
<1> HIDE DEF S, once, twice
<1>4. I \subseteq S /\ Recorded(P) \subseteq I
  <2> HIDE DEF P
  <2> QED BY <1>1, NobodyMoreComesIn
<1>5. ASSUME NEW x \in S
      PROVE  once[x] = IF x \in I THEN Admitted(gate[x], p, x, Cardinality(PoolOf(x, I)))
                       ELSE Waits(gate[x], p, 1 + Cardinality(Ahead(P, I, x)))
  <2> HIDE DEF P
  <2> QED BY <1>1, <1>3, NightRowByInside
<1>6. \A x \in S : Here(once[x], p) /\ once[x].admitted <=> x \in I
  <2> HIDE DEF I
  <2>1. ASSUME NEW x \in S, x \in I PROVE Here(once[x], p) /\ once[x].admitted
    BY <1>5, <2>1, AdmittedIsIn DEF Here
  <2>2. ASSUME NEW x \in S, x \notin I PROVE ~once[x].admitted
    BY <1>5, <2>2 DEF Waits, Absent
  <2> QED BY <2>1, <2>2
<1>7. \A i \in S : Q[i].admitted <=> i \in I
  BY <1>2, <1>6
<1>8. Inside(Q) = I
  <2> HIDE DEF P, Q
  <2> QED BY <1>1, <1>2, <1>7, InsideStands
<1>9. \A x \in S : Ahead(Q, I, x) = Ahead(P, I, x)
  <2> HIDE DEF P, Q, I
  <2> QED BY <1>1, <1>2, <1>4, NextInAlike
<1>10. ASSUME NEW x \in S
       PROVE  twice[x] = IF x \in I THEN Admitted(once[x], p, x, Cardinality(PoolOf(x, I)))
                         ELSE Waits(once[x], p, 1 + Cardinality(Ahead(P, I, x)))
  <2> HIDE DEF P, Q, I
  <2> QED BY <1>1, <1>3, <1>8, <1>9, NightRowByInside
<1> HIDE DEF P, Q, I
<1>11. ASSUME NEW x \in S PROVE twice[x] = once[x]
  <2>1. gate[x] \in GateRows /\ Cardinality(PoolOf(x, I)) \in Nat
    <3>1. PoolOf(x, I) \subseteq S
      BY <1>4 DEF PoolOf
    <3> QED BY <1>1, <3>1, FS_Subset, FS_CardinalityType DEF TypeOK
  <2>2. CASE x \in I
    BY <1>5, <1>10, <2>1, <2>2, AdmittedAgain
  <2>3. CASE x \notin I
    BY <1>5, <1>10, <2>3, WaitsAgain
  <2> QED BY <2>2, <2>3
<1>12. twice = once
  BY <1>3, <1>11
<1> QED BY <1>12 DEF once, twice

-----------------------------------------------------------------------------
(* What a first ask rests on *)

LEMMA OnlyThem ==
  ASSUME NEW people, NEW S \in SUBSET DOMAIN people
  PROVE  DOMAIN only(people, S) = S /\ \A i \in S : only(people, S)[i] = people[i]
BY DEF only

\* Whoever admit lets in with nobody but the recorded is inside among them alone.
LEMMA AloneAmongTheRecorded ==
  ASSUME NEW people, IsFiniteSet(DOMAIN people), NEW x \in DOMAIN people, ~people[x].admitted,
         admitsAlone(people, x)
  PROVE  LET recorded == only(people, Recorded(people) \cup {x})
         IN  /\ admitsAlone(recorded, x) /\ x \in Inside(recorded)
             /\ Recorded(recorded) = Recorded(people)
             /\ people[x].group \in ContestedGroup => Ahead(people, Recorded(people), x) = {}
<1> DEFINE S == Recorded(people) \cup {x}
           recorded == only(people, S)
<1>1. /\ S \in SUBSET DOMAIN people /\ IsFiniteSet(S)
      /\ DOMAIN recorded = S /\ \A i \in S : recorded[i] = people[i]
  <2>1. S \in SUBSET DOMAIN people
    BY DEF Recorded
  <2> HIDE DEF S
  <2> QED BY <2>1, FS_Subset, OnlyThem
<1>2. Recorded(recorded) = Recorded(people)
  <2> HIDE DEF recorded
  <2> QED BY <1>1 DEF Recorded
<1>3. recorded = only(recorded, Recorded(recorded) \cup {x})
  <2>1. only(recorded, S) = [i \in S |-> recorded[i]]
    <3> HIDE DEF S, recorded
    <3> QED BY <1>1 DEF only
  <2>2. recorded = [i \in S |-> recorded[i]]
    <3>1. DOMAIN people \cap S = S
      BY <1>1
    <3>2. recorded = [i \in S |-> people[i]]
      BY <3>1 DEF only
    <3> HIDE DEF recorded, S
    <3> QED BY <1>1, <3>2
  <2> QED BY <1>2, <2>1, <2>2
<1>4. CASE people[x].group = "nobody"
  <2>1. admitsAlone(recorded, x)
    BY <1>1, <1>4 DEF admitsAlone
  <2>2. x \in Inside(recorded)
    <3>1. x \in {i \in DOMAIN recorded : recorded[i].group = "nobody"} /\ IsFiniteSet(DOMAIN recorded)
      BY <1>1, <1>4
    <3> HIDE DEF recorded
    <3> QED BY <3>1, NobodyMoreComesIn
  <2>3. people[x].group \notin ContestedGroup
    BY <1>4 DEF ContestedGroup
  <2> QED BY <1>2, <2>1, <2>2, <2>3
<1>5. CASE people[x].group # "nobody"
  <2>1. Ahead(people, Recorded(people), x) = {} /\ x \in admit(recorded).admitted
    BY <1>5 DEF admitsAlone
  <2>2. Ahead(recorded, Recorded(recorded), x) = {}
    <3>1. Ahead(recorded, Recorded(recorded), x) \subseteq Ahead(people, Recorded(people), x)
      <4> HIDE DEF recorded
      <4> QED BY <1>1, <1>2 DEF Ahead
    <3> QED BY <2>1, <3>1
  <2>3. admitsAlone(recorded, x)
    BY <1>3, <2>1, <2>2 DEF admitsAlone
  <2>4. x \in Inside(recorded)
    BY <2>1 DEF admit
  <2> QED BY <1>2, <2>1, <2>3, <2>4
<1> QED BY <1>4, <1>5

LEMMA FirstRowRests ==
  ASSUME NEW people, IsFiniteSet(DOMAIN people), NEW x \in DOMAIN people, ~people[x].admitted,
         NEW rows, NEW p, FirstRow(rows, p, people, admit(people), x).admitted
  PROVE  LET recorded == only(people, Recorded(people) \cup {x})
         IN  /\ FirstRow(rows, p, people, admit(people), x) =
                  FirstRow(rows, p, recorded, admit(recorded), x)
             /\ people[x].group \in ContestedGroup => Ahead(people, Recorded(people), x) = {}
<1> DEFINE recorded == only(people, Recorded(people) \cup {x})
           row == Admitted(rows[x], p, x, Cardinality(PoolOf(x, Recorded(people))))
<1>1. admitsAlone(people, x) /\ FirstRow(rows, p, people, admit(people), x) = row
  <2>1. \A place : ~Waits(rows[x], p, place).admitted
    BY DEF Waits, Absent
  <2>2. ~Undecided(rows[x], p).admitted
    BY DEF Undecided, Absent
  <2> QED BY <2>1, <2>2 DEF FirstRow
<1>2. /\ admitsAlone(recorded, x) /\ x \in Inside(recorded)
      /\ Recorded(recorded) = Recorded(people)
      /\ people[x].group \in ContestedGroup => Ahead(people, Recorded(people), x) = {}
  BY <1>1, AloneAmongTheRecorded
<1> HIDE DEF recorded
<1>3. x \notin DOMAIN admit(recorded).waiting
  BY <1>2 DEF admit
<1>4. FirstRow(rows, p, recorded, admit(recorded), x) = row
  BY <1>2, <1>3 DEF FirstRow
<1> QED BY <1>1, <1>2, <1>4 DEF recorded

\* A pond counted anew, from whatever typed rows, and counted again.
THEOREM PondGateCountingTwiceChangesNothing == Spec => []CountingTwiceChangesNothing
<1>1. TypeOK => CountingTwiceChangesNothing
  BY RecountAgain DEF CountingTwiceChangesNothing
<1> QED BY <1>1, PondGateTypeOK, PTL

-----------------------------------------------------------------------------
(* A first ask counts one pond, once *)

\* Until it has counted the asker's pond it has written nothing, and then it is done.
Single(h) ==
  h.account # None =>
    /\ h.pc = "pond" => h.todo \subseteq {h.pond} /\ (h.todo # {} => h.draft = Nothing)
    /\ h.pc = "insert" => h.todo = {}

Singles == \A c \in Handler : Single(call[c])

LEMMA SingleStep ==
  ASSUME TypeOK, Singles, NEW c \in Handler, NEW h, Becomes(c, h), Single(h)
  PROVE  Singles'
<1>1. call'[c] = h /\ \A d \in Handler \ {c} : call'[d] = call[d]
  BY DEF TypeOK, Becomes
<1> QED BY <1>1 DEF Singles, Single

\* Every step but those of a count that has begun: no record is at a pond after it.
LEMMA SingleElsewhere ==
  ASSUME NEW h, h.pc \notin {"pond", "insert"}
  PROVE  Single(h)
BY DEF Single

LEMMA RecordFields ==
  ASSUME NEW h \in CallRecords
  PROVE  /\ \A pc : [h EXCEPT !.pc = pc].pc = pc
         /\ h.draft = [x \in Account |-> h.draft[x]]
BY DEF CallRecords

LEMMA SinglesKept == Inv /\ Singles /\ [Next]_vars => Singles'
<1> SUFFICES ASSUME Inv, Singles, [Next]_vars PROVE Singles'
  OBVIOUS
<1>t. /\ TypeOK /\ \A c \in Handler : call[c] \in CallRecords
      /\ \A c \in Handler : Held(call[c]) /\ Single(call[c])
  BY DEF Inv, TypeOK, Counts, Singles
<1>0. ASSUME call' = call PROVE Singles'
  BY <1>0 DEF Singles, Single
<1>e. ASSUME NEW c \in Handler, NEW h, Becomes(c, h), h.pc \notin {"pond", "insert"} PROVE Singles'
  BY <1>t, <1>e, SingleStep, SingleElsewhere
<1>g. ASSUME NEW c \in Handler, NEW pc, Goes(c, pc), pc \notin {"pond", "insert"} PROVE Singles'
  BY <1>e, <1>g, <1>t, RecordFields DEF Goes
<1>f. ASSUME NEW c \in Handler, Finishes(c) PROVE Singles'
  BY <1>e, <1>f, IdleReady DEF Finishes
<1>1. CASE Person \/ UNCHANGED vars
  BY <1>0, <1>1 DEF Person, savePreferences, declareGender, Declare, Profile, eraseAccount, vars
<1>2. ASSUME NEW c \in Handler,
             \/ \E x \in Account : Ask(c, x)
             \/ \E x \in Account, p \in Pond : BeginMove(c, x, p)
             \/ BeginNight(c)
      PROVE  Singles'
  <2>1. ASSUME NEW x \in Account, Ask(c, x) PROVE Singles'
    <3> DEFINE h == [Idle EXCEPT !.pc = "facts", !.account = x, !.pond = account[x].pond]
    <3>1. Becomes(c, h) /\ h.pc = "facts"
      BY <2>1 DEF Ask, Idle
    <3> HIDE DEF h
    <3> QED BY <1>e, <3>1
  <2>2. ASSUME NEW x \in Account, NEW p \in Pond, BeginMove(c, x, p) PROVE Singles'
    <3> DEFINE h == [Idle EXCEPT !.pc = "move", !.account = x, !.pond = p,
                                 !.sees = gate[x].row = "present" /\ gate[x].pond # p]
    <3>1. Becomes(c, h)
      BY <2>2 DEF BeginMove
    <3>2. h.pc = "move"
      BY DEF Idle
    <3> HIDE DEF h
    <3> QED BY <1>e, <3>1, <3>2
  <2>3. CASE BeginNight(c)
    <3> DEFINE h == [Idle EXCEPT !.pc = "accounts"]
    <3>1. Becomes(c, h) /\ h.pc = "accounts"
      BY <2>3 DEF BeginNight, Idle
    <3> HIDE DEF h
    <3> QED BY <1>e, <3>1
  <2> QED BY <1>2, <2>1, <2>2, <2>3
<1>3. ASSUME NEW c \in Handler, Move(c) \/ AskFacts(c) \/ AskRow(c) \/ TryLock(c) \/ Reread(c)
      PROVE  Singles'
  <2>1. Finishes(c) \/ \E pc \in {"row", "lock", "asker"} : Goes(c, pc)
    BY <1>3 DEF Move, AskFacts, AskRow, TryLock, Reread, Answer
  <2> QED BY <1>f, <1>g, <2>1
<1>4. ASSUME NEW c \in Handler, LockAccounts(c) \/ LockAsker(c) PROVE Singles'
  <2> DEFINE h(S, pc) == [call[c] EXCEPT !.pc = pc, !.locked = S]
  <2>1. \A S : h(S, "repair").pc = "repair" /\ h(S, "first").pc = "first"
    BY <1>t DEF CallRecords
  <2>2. \E S : Becomes(c, h(S, "repair")) \/ Becomes(c, h(S, "first"))
    BY <1>4 DEF LockAccounts, LockAsker
  <2> HIDE DEF h
  <2> QED BY <1>e, <2>1, <2>2
<1>5. ASSUME NEW c \in Handler, Commit(c) PROVE Singles'
  <2> DEFINE h == [Idle EXCEPT !.pc = "reread", !.account = call[c].account,
                               !.pond = call[c].pond]
  <2>1. h.pc = "reread"
    BY DEF Idle
  <2>2. Finishes(c) \/ Becomes(c, h)
    BY <1>5 DEF Commit
  <2> HIDE DEF h
  <2> QED BY <1>e, <1>f, <2>1, <2>2
<1>6. ASSUME NEW c \in Handler, AskAgain(c) PROVE Singles'
  <2>1. CASE Finishes(c)
    BY <1>f, <2>1
  <2>2. CASE Becomes(c, [call[c] EXCEPT !.pc = "pond", !.todo = {call[c].pond}])
    <3> DEFINE h == [call[c] EXCEPT !.pc = "pond", !.todo = {call[c].pond}]
    <3>1. /\ h.pc = "pond" /\ h.todo = {call[c].pond} /\ h.pond = call[c].pond
          /\ h.draft = call[c].draft
      BY <1>t DEF CallRecords
    <3>2. call[c].draft = Nothing
      <4>1. \A x \in Account : call[c].draft[x] = None
        BY <1>6, <1>t DEF AskAgain, Held
      <4> QED BY <1>t, <4>1, RecordFields DEF Nothing
    <3> HIDE DEF h
    <3>3. Single(h)
      BY <3>1, <3>2 DEF Single
    <3> QED BY <1>t, <2>2, <3>3, SingleStep DEF h
  <2> QED BY <1>6, <2>1, <2>2 DEF AskAgain
<1>7. ASSUME NEW c \in Handler, Repair(c) PROVE Singles'
  <2>1. call[c].account = None
    BY <1>7, <1>t DEF Repair, Held
  <2>2. PICK T, d : Becomes(c, [call[c] EXCEPT !.pc = "pond", !.todo = T, !.draft = d])
    BY <1>7 DEF Repair
  <2> DEFINE h == [call[c] EXCEPT !.pc = "pond", !.todo = T, !.draft = d]
  <2>3. h.account = None
    BY <1>t, <2>1 DEF CallRecords
  <2> HIDE DEF h
  <2>4. Single(h)
    BY <2>3 DEF Single
  <2> QED BY <1>t, <2>2, <2>4, SingleStep DEF h
<1>8. ASSUME NEW c \in Handler, NEW p \in Pond, ReadPond(c, p) PROVE Singles'
  <2>1. \E w : Becomes(c, [call[c] EXCEPT !.pc = "insert", !.pond = p, !.todo = @ \ {p},
                                          !.computed = w])
    BY <1>8 DEF ReadPond
  <2>2. PICK w : Becomes(c, [call[c] EXCEPT !.pc = "insert", !.pond = p, !.todo = @ \ {p},
                                            !.computed = w])
    BY <2>1
  <2> DEFINE h == [call[c] EXCEPT !.pc = "insert", !.pond = p, !.todo = @ \ {p}, !.computed = w]
  <2>3. h.pc = "insert" /\ h.account = call[c].account /\ h.todo = call[c].todo \ {p}
    BY <1>t DEF CallRecords
  <2>4. call[c].account # None => call[c].todo \ {p} = {}
    BY <1>8, <1>t DEF ReadPond, Single
  <2> HIDE DEF h
  <2>5. Single(h)
    BY <2>3, <2>4 DEF Single
  <2> QED BY <1>t, <2>2, <2>5, SingleStep DEF h
<1>9. ASSUME NEW c \in Handler, InsertRows(c) PROVE Singles'
  <2>1. PICK d : Becomes(c, [call[c] EXCEPT !.pc = "pond", !.computed = Nothing, !.draft = d])
    BY <1>9 DEF InsertRows
  <2> DEFINE h == [call[c] EXCEPT !.pc = "pond", !.computed = Nothing, !.draft = d]
  <2>2. h.pc = "pond" /\ h.account = call[c].account /\ h.todo = call[c].todo
    BY <1>t DEF CallRecords
  <2>3. call[c].account # None => call[c].todo = {}
    BY <1>9, <1>t DEF InsertRows, Single
  <2> HIDE DEF h
  <2>4. Single(h)
    BY <2>2, <2>3 DEF Single
  <2> QED BY <1>t, <2>1, <2>4, SingleStep DEF h
<1> QED BY <1>1, <1>2, <1>3, <1>4, <1>5, <1>6, <1>7, <1>8, <1>9 DEF Next, Gate, Count

\* A first ask's row rests on recorded admissions alone.
THEOREM PondGateAskRestsOnWhatIsWritten == Spec => AskRestsOnWhatIsWritten
<1> DEFINE Rests(c, p) ==
      LET x        == call[c].account
          people   == People(gate, Read(c, p), p)
          recorded == only(people, Recorded(people) \cup {x})
      IN  call'[c].computed[x] # None /\ call'[c].computed[x].admitted =>
            /\ call'[c].computed[x] = FirstRow(gate, p, recorded, admit(recorded), x)
            /\ people[x].group \in ContestedGroup => Ahead(people, Recorded(people), x) = {}
    Rest == \A c \in Handler, p \in Pond : ~Night(c) /\ ReadPond(c, p) => Rests(c, p)
<1>1. Inv /\ Singles => Rest
  <2> SUFFICES ASSUME Inv, Singles, NEW c \in Handler, NEW p \in Pond, ~Night(c), ReadPond(c, p)
               PROVE  Rests(c, p)
    OBVIOUS
  <2> DEFINE x == call[c].account
             people == People(gate, Read(c, p), p)
             row == FirstRow(gate, p, people, admit(people), x)
             W == [y \in Account |->
                     IF y \notin Read(c, p) \cap {x} THEN None
                     ELSE FirstRow(gate, p, people, admit(people), y)]
  <2>t. TypeOK /\ call[c] \in CallRecords /\ Held(call[c]) /\ Single(call[c])
    BY DEF Inv, TypeOK, Counts, Singles
  <2>1. x \in Account /\ gate[x].row = "absent"
    BY <2>t DEF ReadPond, Night, Held, CallRecords
  <2>2. SeenGate(c) = gate
    <3>1. call[c].draft = Nothing
      BY <2>t DEF ReadPond, Night, Single
    <3>2. SeenGate(c) = [y \in Account |-> gate[y]]
      BY <3>1 DEF SeenGate, Nothing
    <3> QED BY <2>t, <3>2 DEF TypeOK
  <2>3. call'[c].computed = W
    <3>1. Becomes(c, [call[c] EXCEPT !.pc = "insert", !.pond = p, !.todo = @ \ {p},
                                     !.computed = W])
      BY <2>2 DEF ReadPond, Night
    <3> HIDE DEF W
    <3> QED BY <2>t, <3>1 DEF Becomes, TypeOK, CallRecords
  <2>4. /\ DOMAIN people = Read(c, p) /\ IsFiniteSet(DOMAIN people)
        /\ x \in Read(c, p) => ~people[x].admitted
    <3>1. Read(c, p) \subseteq Account /\ DOMAIN people = Read(c, p)
      BY DEF Read, People
    <3>2. IsFiniteSet(Read(c, p))
      BY <3>1, PondGateAssumption, FS_Subset
    <3>3. x \in Read(c, p) => ~people[x].admitted
      BY <2>1 DEF People, Here
    <3> QED BY <3>1, <3>2, <3>3
  <2>5. call'[c].computed[x] # None => x \in Read(c, p) /\ call'[c].computed[x] = row
    <3> HIDE DEF people
    <3> QED BY <2>1, <2>3
  <2> HIDE DEF people, x, row
  <2>6. SUFFICES ASSUME x \in Read(c, p), row.admitted
                 PROVE  LET recorded == only(people, Recorded(people) \cup {x})
                        IN  /\ row = FirstRow(gate, p, recorded, admit(recorded), x)
                            /\ people[x].group \in ContestedGroup =>
                                 Ahead(people, Recorded(people), x) = {}
    BY <2>5 DEF people, x
  <2> QED BY <2>4, <2>6, FirstRowRests DEF row
<1>2. Init => Singles
  BY IdleReady, SingleElsewhere DEF Init, Singles
<1> HIDE DEF Rest
<1>3. Spec => [](Inv /\ Singles)
  BY <1>2, InvInit, InvNext, SinglesKept, PTL DEF Spec
<1>4. Spec => [][Rest]_vars
  BY <1>1, <1>3, PTL
<1> QED BY <1>4 DEF Rest, AskRestsOnWhatIsWritten

=============================================================================
