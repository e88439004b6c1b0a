----------------------------- MODULE MCService -----------------------------
(***************************************************************************)
(* Twenty-three parts that share no row and no lock, in one run of TLC:    *)
(* the eleven of Service, the three of Processes, the seven of Screens and *)
(* two more, which fill the slots of Service as its parts do.  A behaviour *)
(* is one of one part, chosen at the start.                                *)
(***************************************************************************)
EXTENDS Service, Processes, Screens, TLC

CONSTANTS
  s1, s2,                                    \* Staff's and Device's sessions
  k1, k2,                                    \* Staff's codes, and the bank's keys
  o1, o2, f1, f2, f3, f4,                    \* Budget: owners, and photos
  p1, p2,                                    \* Profile: a prompt; Questions: ponds; Personas: a picture
  u1, u2,                                    \* Questions and Home: accounts; Personas
  Param                                      \* Requests: a parameter of a path

(* The values of the constants of these modules.                           *)

OwnersOfPhotos == [p \in {f1, f2, f3, f4} |-> IF p = f4 THEN None ELSE IF p = f3 THEN o2 ELSE o1]

UnrulyPairs == {<<2, 1>>}

Banned == [p \in {u1} |-> "banned"]

Arg(flag, value) == [flag |-> flag, value |-> value]

CommandLines ==
  {<<>>, <<Arg("--remove", None)>>, <<Arg("--dryrun", None)>>,
   <<Arg("--dry-run", None), Arg("--size", 24)>>,
   <<Arg("--env", "preview"), Arg("--size", 235)>>,
   <<Arg("--env", "production"), Arg("--env", "development")>>}

Served == <<"api", "mobile">>

Proc(dir, command) == [dir |-> dir, command |-> command]

DevMachines ==
  {[docker |-> TRUE, brew |-> TRUE, db |-> "brew"],
   [docker |-> TRUE, brew |-> TRUE, db |-> "foreign"],
   [docker |-> FALSE, brew |-> TRUE, db |-> None]}

\* A stale copy, a program of ours in a directory beside, and a foreign one.
PortHolders == {Proc("inside", "node"), Proc("sibling", "wrapper"), Proc("elsewhere", "node")}

\* Two agents above a wrapper, below an editor; six agents above one.
Parents ==
  LET agent == Proc("elsewhere", "node")
      wrapper == Proc("elsewhere", "wrapper")
  IN {<<wrapper, agent, agent, Proc("elsewhere", "named shell"), agent>>,
      <<wrapper, agent, agent, agent, agent, agent, agent>>}

Translated == <<"en", "fi", "sv">>
Released == <<"en", "fi">>
PhoneLocales == {<<"de">>, <<"sv", "fi">>}

-----------------------------------------------------------------------------
Birth(y, m, d) == [year |-> y, month |-> m, day |-> d]

Y == INSTANCE Ages WITH
       Born <- {Birth(2004, 2, 29), Birth(2007, 2, 28), Birth(2007, 12, 31), Birth(1926, 1, 31)},
       Starts <- {Birth(2022, 2, 25), Birth(2024, 2, 25), Birth(2017, 12, 26),
                  Birth(2025, 12, 26), Birth(2026, 1, 26)},
       MaxDays <- 8,
       code <- v1, at <- v2, days <- v3

C == INSTANCE Requests WITH
       Provisions <- {[broker |-> b, media |-> b, production |-> b] : b \in BOOLEAN},
       given <- v1, caller <- v2, role <- v3, call <- v4

Rest5  == <<v5, Rest6>>
Rest4  == <<v4, Rest5>>

From5  == v5 = None /\ From6
From4  == v4 = None /\ From5

Elsewhere == <<program, places, screen, fields>>

InitParts ==
  /\ Init
  /\ \/ NoProgram /\ NoScreen /\ \/ InitService
                                 \/ part = "ages"     /\ Y!Init /\ From4
                                 \/ part = "requests" /\ C!Init /\ From5
     \/ part = None /\ From1 /\ \/ InitProcesses /\ NoScreen
                                \/ NoProgram /\ InitScreens

NextParts ==
  \/ NextService /\ UNCHANGED Elsewhere
  \/ part = "ages"     /\ Y!Next /\ UNCHANGED <<part, vars, Rest4, Elsewhere>>
  \/ part = "requests" /\ C!Next /\ UNCHANGED <<part, vars, Rest5, Elsewhere>>
  \/ NextProcesses /\ UNCHANGED <<part, vars, slots, screen, fields>>
  \/ NextScreens /\ UNCHANGED <<part, vars, slots, program, places>>

SpecParts == InitParts /\ [][NextParts]_<<part, vars, slots, Elsewhere>>

Symmetry == Permutations(Handler)

-----------------------------------------------------------------------------
\* What is written out in tables and sums: whoever is let in is of age, on leap days and
\* at a century's turn too, and no mistyped code is anybody's; a request meets the guards
\* of its path first, and an answer its contract names; the waitlist counts people, and
\* the demo's population shows each threshold it is there for.
RoutesAndFigures ==
  /\ part = "ages" => Y!TypeOK /\ Y!NeverOlder /\ Y!DrawnToTheAge /\ Y!PersonasAreOfAge /\ Y!TyposAreRefused
  /\ part = "requests" => C!TypeOK /\ C!GuardedFirst /\ C!AnswersAreInContract /\ C!KeptIsNobodysOwn
  /\ part = "waitlist" => W!TypeOK
  /\ part = "population" => U!ShowsTheThresholds
=============================================================================
