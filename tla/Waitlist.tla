------------------------------ MODULE Waitlist ------------------------------
(***************************************************************************)
(* The waitlist counter of one pond (apps/api/src/jobs/                    *)
(* waitlist-snapshot.ts, pond/waitlist.ts, packages/schema/src/            *)
(* waitlist.ts): people are counted once a Finnish day by whichever        *)
(* process asks, the figures move in steps of at least k people, and what  *)
(* is said of them is suppressed below k.                                  *)
(***************************************************************************)
EXTENDS Integers, Folds

CONSTANTS Process, None,
          Cell,             \* the genders one may declare
          WAITLIST_K_MIN,
          MaxPeople, MaxK, MaxDay, MaxMoves   \* bounds: the pond, k, days, people moving

WaitlistAssumption ==
  /\ {WAITLIST_K_MIN, MaxPeople, MaxK} \subseteq Nat
  /\ None \notin [verified : Int, cell : [Cell -> Int]]

VARIABLES
  day,
  pond,       \* the accounts that count: [verified, cell]
  k,          \* matching_config.waitlist_k, as configured
  figures,    \* the pond's waitlist_snapshot row, and moves when it was read
  takenOn,    \* the day of taken_at
  count,      \* a process's takeSnapshot
  said,       \* the figures the public route last said anything of
  moves,      \* how many times a person came or went
  counted,    \* the days counted
  overtaken   \* a count committed under an older day than the one before it

vars == <<day, pond, k, figures, takenOn, count, said, moves, counted, overtaken>>

Idle == [pc |-> "idle"]

Init ==
  /\ day = 1
  /\ pond \in {[verified |-> n, cell |-> [g \in Cell |-> 0]] : n \in 0 .. MaxPeople}
  /\ k = WAITLIST_K_MIN
  /\ figures = [row |-> None, at |-> 0] /\ said = figures /\ takenOn = None
  /\ count = [c \in Process |-> Idle]
  /\ moves = 0 /\ counted = {} /\ overtaken = FALSE

Higher(a, b) == IF a >= b THEN a ELSE b
Apart(a, b)  == IF a >= b THEN a - b ELSE b - a

\* waitlistK: never below the floor.
waitlistK == Higher(WAITLIST_K_MIN, k)

Declared(c) == MapThenFoldSet(+, 0, LAMBDA g : c.cell[g], LAMBDA S : CHOOSE g \in S : TRUE, Cell)

NoneOrMany(n, t) == n = 0 \/ n >= t

\* What may be said of figures under the threshold t; finishing is said by the
\* same rule as the split, and left out.
publishCounts(row, t) ==
  IF row = None \/ t < WAITLIST_K_MIN \/ Declared(row) > row.verified \/ row.verified < t
  THEN None
  ELSE [verified |-> row.verified,
        cell |-> IF /\ \A g \in Cell : row.cell[g] >= t
                    /\ NoneOrMany(row.verified - Declared(row), t)
                 THEN row.cell ELSE None]

\* The figures the counter stands on after today's count.
moveFigures(standing, today, t) ==
  IF standing = None \/ standing.verified < WAITLIST_K_MIN THEN today
  ELSE IF Apart(today.verified, standing.verified) >= Higher(t, WAITLIST_K_MIN)
       THEN today ELSE standing

-----------------------------------------------------------------------------
(* takeSnapshot, of the night or of a first boot                           *)

\* The clock is read before the lock is asked for.
BeginCount(c) ==
  /\ count[c] = Idle
  /\ count' = [count EXCEPT ![c] = [pc |-> "asked", day |-> day]]
  /\ UNCHANGED <<day, pond, k, figures, takenOn, said, moves, counted, overtaken>>

\* WAITLIST_LOCK_KEY, held by a count until it commits.
LockFree == \A c \in Process : count[c].pc # "counting"

\* Mutation: the day's count is taken again by a second process.
CountedNever(d) == FALSE

CountedAlready(d) == takenOn = d

\* Under the lock: the day's first count reads k, the people and the standing figures.
ReadPond(c) ==
  /\ count[c].pc = "asked" /\ LockFree
  /\ count' = [count EXCEPT ![c] =
       IF CountedAlready(count[c].day) THEN Idle
       ELSE [pc |-> "counting", day |-> count[c].day, next |->
               LET row == moveFigures(figures.row, pond, waitlistK)
               IN  IF row = figures.row THEN figures ELSE [row |-> row, at |-> moves]]]
  /\ UNCHANGED <<day, pond, k, figures, takenOn, said, moves, counted, overtaken>>

\* What readWaitlist says of figures from now on is remembered, if it is anything.
Says(standing, t) == IF publishCounts(standing.row, t) = None THEN said ELSE standing

\* The row is replaced when the figures move, and marked as counted either way.
WriteFigures(c) ==
  /\ count[c].pc = "counting"
  /\ figures' = count[c].next
  /\ takenOn' = count[c].day
  /\ counted' = counted \cup {count[c].day}
  /\ overtaken' = (overtaken \/ \E d \in counted : d > count[c].day)
  /\ said' = Says(count[c].next, waitlistK)
  /\ count' = [count EXCEPT ![c] = Idle]
  /\ UNCHANGED <<day, pond, k, moves>>

-----------------------------------------------------------------------------
(* The people and the configuration                                        *)

Comes == pond.verified < MaxPeople /\ pond' = [pond EXCEPT !.verified = @ + 1]

\* Somebody leaves who declared nothing, or g.
Goes ==
  \/ /\ pond.verified > Declared(pond)
     /\ pond' = [pond EXCEPT !.verified = @ - 1]
  \/ \E g \in Cell : /\ pond.cell[g] > 0
                      /\ pond' = [pond EXCEPT !.verified = @ - 1, !.cell[g] = @ - 1]

PersonMoves ==
  /\ moves < MaxMoves
  /\ Comes \/ Goes
  /\ moves' = moves + 1
  /\ UNCHANGED <<day, k, figures, takenOn, count, said, counted, overtaken>>

\* A gender is declared: no total moves.
PersonAnswers ==
  /\ \E g \in Cell : /\ Declared(pond) < pond.verified
                     /\ pond' = [pond EXCEPT !.cell[g] = @ + 1]
  /\ UNCHANGED <<day, k, figures, takenOn, count, said, moves, counted, overtaken>>

\* matching_config.waitlist_k is set anew; the route publishes under it at once.
Configure(n) ==
  /\ n # k
  /\ k' = n
  /\ said' = Says(figures, Higher(WAITLIST_K_MIN, n))
  /\ UNCHANGED <<day, pond, figures, takenOn, count, moves, counted, overtaken>>

Midnight ==
  /\ day < MaxDay
  /\ day' = day + 1
  /\ UNCHANGED <<pond, k, figures, takenOn, count, said, moves, counted, overtaken>>

Next ==
  \/ \E c \in Process : BeginCount(c) \/ ReadPond(c) \/ WriteFigures(c)
  \/ PersonMoves \/ PersonAnswers \/ Midnight
  \/ \E n \in 1 .. MaxK : Configure(n)

Spec == Init /\ [][Next]_vars

-----------------------------------------------------------------------------
Rows == [verified : 0 .. MaxPeople, cell : [Cell -> 0 .. MaxPeople]]

TypeOK ==
  /\ day \in 1 .. MaxDay /\ pond \in Rows
  /\ \A f \in {figures, said} : (f.row = None \/ f.row \in Rows) /\ f.at \in 0 .. moves
  /\ takenOn = None \/ takenOn \in counted
  /\ \A c \in Process : count[c].pc \in {"idle", "asked", "counting"}

\* Two figures ever said of a pond lie at least the floor's number of people
\* apart, whatever k was between them (moveFigures: "whatever the difference
\* between the old and the new says, it says of at least k people").
SaidInStep ==
  said.row # None /\ said'.row # said.row => said'.at >= said.at + WAITLIST_K_MIN

SaidInSteps == [][SaidInStep]_vars

\* A Finnish day is counted once, whichever processes ask, unless a count that
\* read its clock before midnight waited for one that read it after.
CountsANewDay ==
  \A c \in Process :
    count[c].pc = "counting" /\ count'[c] = Idle =>
      overtaken' \/ count[c].day \notin counted

OneCountADay == [][CountsANewDay]_vars
=============================================================================
