------------------------------ MODULE Admission ------------------------------
(***************************************************************************)
(* The rules of the pond gate (apps/api/src/pond/gate.ts and               *)
(* apps/api/src/matching/pool.ts), pure: who of a pond is let in, in which *)
(* order the others wait, how a pool and a place are said.                 *)
(*                                                                         *)
(* A population is a function from people to what admission sees of them:  *)
(* the group they wait with ("nobody" where contestedGroup answers null),  *)
(* whether they are let in already, and their place in the order of        *)
(* registration, which is total because ids break the ties.  The share is  *)
(* the fraction ShareNum / ShareDen; the code's division of two integers   *)
(* rounds to the nearest double, and so compares with the configured       *)
(* share's double as the exact fractions compare.                          *)
(***************************************************************************)
EXTENDS Integers, FiniteSets

CONSTANTS
  None,      \* null
  ShareNum,  \* majority_share_max, over
  ShareDen

ASSUME AdmissionAssumption ==
  /\ ShareNum \in Nat /\ ShareDen \in Nat \ {0} /\ ShareNum <= ShareDen
  /\ None \notin Nat

-----------------------------------------------------------------------------
(* Who can be shown to whom *)

passesFiltersOf(viewer, candidate) ==
  /\ candidate.gender \in viewer.seeks
  /\ viewer.min <= candidate.age /\ candidate.age <= viewer.max

inEachOthersPool(a, b) == passesFiltersOf(a, b) /\ passesFiltersOf(b, a)

-----------------------------------------------------------------------------
(* Groups *)

ContestedGroup == {"woman", "man"}

Gender == ContestedGroup \cup {"non_binary"}

contestedGroup(gender, seeks) ==
  IF gender = "non_binary" \/ gender \in seeks THEN "nobody" ELSE gender

groupOf(declared) ==
  IF declared.gender = None \/ declared.seeks = None
  THEN "undeclared"
  ELSE contestedGroup(declared.gender, declared.seeks)

joinsAGroupThatWaits(before, after) ==
  groupOf(after) \in ContestedGroup /\ groupOf(before) # groupOf(after)

-----------------------------------------------------------------------------
(* Admission *)

other(group) == IF group = "woman" THEN "man" ELSE "woman"

\* Of the two groups, who of S belongs to this one.
Members(people, S, group) == {i \in S : people[i].group = group}

\* The people of a group who are before a person in the line behind S.
Ahead(people, S, i) ==
  {j \in DOMAIN people \ S :
     people[j].group = people[i].group /\ people[j].registered < people[i].registered}

mayEnter(people, S, group) ==
  LET own    == Cardinality(Members(people, S, group))
      others == Cardinality(Members(people, S, other(group)))
  IN  own <= others \/ ShareDen * (own + 1) <= ShareNum * (own + others + 1)

\* The heads of the two lines who may enter once those of S are inside.
Heads(people, S) ==
  {i \in DOMAIN people \ S :
     /\ people[i].group \in ContestedGroup
     /\ Ahead(people, S, i) = {}
     /\ mayEnter(people, S, people[i].group)}

\* Of the heads the one who registered first: one person or none.
NextIn(people, S) ==
  {i \in Heads(people, S) :
     \A j \in Heads(people, S) : people[i].registered <= people[j].registered}

Recorded(people) == {i \in DOMAIN people : people[i].admitted}

\* Everybody inside once the loop of admit has run.
Inside(people) ==
  LET round[n \in Nat] ==
        IF n = 0
        THEN Recorded(people) \cup {i \in DOMAIN people : people[i].group = "nobody"}
        ELSE LET S == round[n - 1] IN S \cup NextIn(people, S)
  IN  round[Cardinality(DOMAIN people)]

admit(people) ==
  LET inside == Inside(people)
  IN  [admitted |-> inside \ Recorded(people),
       waiting  |-> [i \in DOMAIN people \ (Recorded(people) \cup inside) |->
                       1 + Cardinality(Ahead(people, inside, i))]]

only(people, S) == [i \in DOMAIN people \cap S |-> people[i]]

admitsAlone(people, id) ==
  \/ people[id].admitted
  \/ people[id].group = "nobody"
  \/ /\ Ahead(people, Recorded(people), id) = {}
     /\ id \in admit(only(people, Recorded(people) \cup {id})).admitted

placeAlone(people, id) == 1 + Cardinality(Ahead(people, Recorded(people), id))

-----------------------------------------------------------------------------
(* What is said *)

saidInStep(said, step) == (said \div step) * step

Far(a, b, step) == a - b >= step \/ b - a >= step

sayPool(said, pool, step) ==
  IF said = None \/ Far(pool, saidInStep(said, step), step)
  THEN saidInStep(pool, step)
  ELSE saidInStep(said, step)

sayPlace(place, step) ==
  (((IF place < 1 THEN 1 ELSE place) + step - 1) \div step) * step
=============================================================================
