----------------------------- MODULE Population -----------------------------
(***************************************************************************)
(* The synthetic population of a demo (packages/db/src/seed/population.ts, *)
(* write-population.ts, command.ts; apps/api/scripts/demo-population.ts):  *)
(* the command line, the server it is about to write to, the people it     *)
(* plans for the product's thresholds, the one transaction that replaces   *)
(* those who were there, and the counter and gates counted anew after it.  *)
(*                                                                         *)
(* A population in the database is who wrote it and its size: it is        *)
(* written and removed whole.  Two commands, and the API's own count of    *)
(* the day, may cross, and a command may be killed anywhere.               *)
(***************************************************************************)
EXTENDS Integers, FiniteSets, Sequences, Functions, TLC

CONSTANTS Command, None,
          Typed       \* bound: what may be typed, arguments one after another

DEMO_SIZE == 300
DEMO_SIZE_MAX == 5000
DEMO_ENVIRONMENTS == {"development", "test", "preview"}

\* A population is who wrote it and its size; a count is of whom, and of today or not;
\* and a command is where it is, with what it was told, saw or counts.
Populations == [by : Command, size : 1 .. DEMO_SIZE_MAX]
Counts      == [today : BOOLEAN, of : Populations \cup {None}]

Actions  == {"write", "remove", "dry-run"}
Progress ==
  [at : {"refused", "killed"}]
    \cup [at : {"parsed", "begin", "ended"}, size : 1 .. DEMO_SIZE_MAX, env : DEMO_ENVIRONMENTS,
          action : Actions]
    \cup [at : {"found", "failed", "replaced", "dropped", "counted", "ended"},
          size : 1 .. DEMO_SIZE_MAX, action : Actions, saw : Populations \cup {None}]
    \cup [at : {"counting", "counted", "ended"}, of : Populations \cup {None}]

\* --env is followed by a name (one that is left out is the empty string), and None is none
\* of all these.
PopulationAssumption ==
  /\ \A line \in Typed : \A i \in DOMAIN line : line[i].flag = "--env" => line[i].value # None
  /\ None \notin {"development", "preview", "production"} \cup Populations \cup Counts \cup Progress

VARIABLES
  target,    \* what the server is: [database, managed]
  appEnv,
  people,    \* the synthetic people: None, or [by, size]
  held,      \* one of them has a row this does not know, of the audit log
  met,       \* identities a login made
  counter,   \* the people waitlist_snapshot was counted of; None without a row
  gates,     \* the people the gates were counted of
  lines,     \* what a command was typed with
  cmd,       \* a command's progress
  api,       \* the API's count of the day
  excused    \* "crossed", "killed": why the counter may not be of these people

vars == <<target, appEnv, people, held, met, counter, gates, lines, cmd, api, excused>>

-----------------------------------------------------------------------------
(* The plan                                                                *)

\* Shares in hundredths; those of the small pond in 24ths.
POND_PLANS ==
  [paakaupunkiseutu |-> [fixed |-> 24, genders |-> [woman |-> 9, man |-> 13, non_binary |-> 2]],
   otaniemi |-> [share |-> 62, genders |-> [woman |-> 42, man |-> 50, non_binary |-> 8]],
   espoo    |-> [share |-> 38, genders |-> [woman |-> 30, man |-> 64, non_binary |-> 6]]]

\* Whole numbers in the proportions of the shares: rounded down, and one more for the
\* largest remainders.  Equal ones are ordered by the noise of a floating point number,
\* so that either may get it.
apportion(total, shares) ==
  LET sum == SumFunction(shares)
      down == [k \in DOMAIN shares |-> (total * shares[k]) \div sum]
      remainder == [k \in DOMAIN shares |-> (total * shares[k]) % sum]
      left == total - SumFunction(down)
      Largest == {S \in SUBSET DOMAIN shares :
                    /\ Cardinality(S) = left
                    /\ \A k \in S, j \in DOMAIN shares \ S : remainder[k] >= remainder[j]}
  IN {[k \in DOMAIN shares |-> down[k] + IF k \in S THEN 1 ELSE 0] : S \in Largest}

Least(a, b) == IF a <= b THEN a ELSE b

neverOnboarded(size) == (size * 8 + 50) \div 100

planSizes(size) ==
  LET onboarded == size - neverOnboarded(size)
      fixed == Least(POND_PLANS.paakaupunkiseutu.fixed, onboarded)
  IN {[paakaupunkiseutu |-> fixed] @@ rest :
        rest \in apportion(onboarded - fixed,
                           [p \in {"otaniemi", "espoo"} |-> POND_PLANS[p].share])}

PondSummary(counts) ==
  [genders |-> counts, people |-> SumFunction(counts),
   largest |-> CHOOSE n \in Range(counts) : \A m \in Range(counts) : m <= n]

plannedPonds(size) ==
  UNION {{[p \in DOMAIN POND_PLANS |-> PondSummary(counts[p])] :
            counts \in {c \in [DOMAIN POND_PLANS -> UNION {apportion(sizes[p], POND_PLANS[p].genders) :
                                                       p \in DOMAIN POND_PLANS}] :
                          \A p \in DOMAIN POND_PLANS :
                            c[p] \in apportion(sizes[p], POND_PLANS[p].genders)}} :
         sizes \in planSizes(size)}

\* One after another by pond and gender, and after them those who never onboarded.
generatePopulation(size, ponds) ==
  SumFunction([p \in DOMAIN ponds |-> ponds[p].people]) + neverOnboarded(size)

gate_k == 30
waitlist_k == 10
OverTheMajority(pond) == 10 * pond.largest > 6 * pond.people
SplitIsSaid(pond) == \A g \in DOMAIN pond.genders : pond.genders[g] >= waitlist_k

\* What a population of this size does not show.
uncrossed(ponds) ==
  LET small == ponds.paakaupunkiseutu
      launch == ponds.otaniemi
      skewed == ponds.espoo
  IN {m \in {"a total under the gate" , "a split that is hidden", "a gate that opens",
              "a majority let in", "a split", "a skewed pond", "a majority held back"} :
        CASE m = "a total under the gate" -> small.people \notin waitlist_k .. gate_k - 1
          [] m = "a split that is hidden" -> SplitIsSaid(small)
          [] m = "a gate that opens"      -> launch.people < gate_k
          [] m = "a majority let in"      -> OverTheMajority(launch)
          [] m = "a split"                -> ~SplitIsSaid(launch)
          [] m = "a skewed pond"          -> skewed.people < gate_k
          [] m = "a majority held back"   -> ~OverTheMajority(skewed)}

-----------------------------------------------------------------------------
(* The command line                                                        *)

Refused == [at |-> "refused"]

ValueOf(line, flag, default) ==
  IF \E i \in DOMAIN line : line[i].flag = flag
  THEN line[CHOOSE i \in DOMAIN line : line[i].flag = flag].value ELSE default

\* Every argument is understood, once, or none is.  A value that is no whole number is 0.
parseDemoCommand(line, env) ==
  LET flags == [i \in DOMAIN line |-> line[i].flag]
      named == {ValueOf(line, "--env", None), env} \ {None}
      size == ValueOf(line, "--size", DEMO_SIZE)
  IN IF /\ Range(flags) \subseteq {"--env", "--size", "--remove", "--dry-run"}
        /\ IsInjective(flags)
        /\ named \subseteq DEMO_ENVIRONMENTS
        /\ size \in 1 .. DEMO_SIZE_MAX
        /\ ~{"--remove", "--dry-run"} \subseteq Range(flags)
     THEN [at |-> "parsed", size |-> size,
           env |-> ValueOf(line, "--env", IF env = None THEN "development" ELSE env),
           action |-> IF "--remove" \in Range(flags) THEN "remove"
                      ELSE IF "--dry-run" \in Range(flags) THEN "dry-run" ELSE "write"]
     ELSE Refused

\* A managed server is refused unless it is a pull request's own database, asked for as
\* a preview.
assertDemoTarget(server, env) ==
  server.managed => env = "preview" /\ server.database = "kuutti_pr"

-----------------------------------------------------------------------------
(* Who is synthetic: the mark alone is a subject as the broker sent it     *)

Synthetic(identity) == identity.marked /\ identity.hashOfLabel /\ ~identity.authenticated

AsWritten  == [marked |-> TRUE, hashOfLabel |-> TRUE, authenticated |-> FALSE]
OfALogin(marked) == [marked |-> marked, hashOfLabel |-> FALSE, authenticated |-> TRUE]

Removed(identities) == {i \in identities : Synthetic(i)}

-----------------------------------------------------------------------------
Init ==
  /\ target \in {[database |-> "kuutti", managed |-> FALSE], [database |-> "kuutti", managed |-> TRUE],
                 [database |-> "kuutti_pr", managed |-> TRUE]}
  /\ appEnv \in {None, "preview", "production"}
  /\ people = None /\ held = FALSE /\ met = {OfALogin(b) : b \in BOOLEAN} /\ gates = None
  /\ counter \in {None, [today |-> FALSE, of |-> None]}
  /\ lines = [c \in Command |-> None] /\ cmd = [c \in Command |-> None]
  /\ api = None /\ excused = {}

Goes(c, to) == cmd' = [cmd EXCEPT ![c].at = to]

Type(c) ==
  /\ cmd[c] = None
  /\ \E line \in Typed :
       LET parsed == parseDemoCommand(line, appEnv) IN
       /\ cmd' = [cmd EXCEPT ![c] = parsed]
       /\ lines' = [lines EXCEPT ![c] = IF parsed = Refused THEN None ELSE line]
  /\ UNCHANGED <<target, appEnv, people, held, met, counter, gates, api, excused>>

\* A dry run ends before it connects; the others ask the server what it is.
Ask(c) ==
  /\ cmd[c] # None /\ cmd[c].at = "parsed"
  /\ IF cmd[c].action = "dry-run" THEN Goes(c, "ended")
     ELSE IF assertDemoTarget(target, cmd[c].env) THEN Goes(c, "begin")
     ELSE cmd' = [cmd EXCEPT ![c] = Refused]
  /\ lines' = [lines EXCEPT ![c] = None]
  /\ UNCHANGED <<target, appEnv, people, held, met, counter, gates, api, excused>>

\* The transaction finds those it is to remove.
Find(c) ==
  /\ cmd[c] # None /\ cmd[c].at = "begin"
  /\ cmd' = [cmd EXCEPT ![c] = [at |-> "found", size |-> @.size, action |-> @.action, saw |-> people]]
  /\ UNCHANGED <<target, appEnv, people, held, met, counter, gates, lines, api, excused>>

CountUnderWay == api # None \/ \E c \in Command : cmd[c] # None /\ cmd[c].at = "counting"

CountedToday == counter # None /\ counter.today

\* They go with everything of theirs, and the new ones come: with a row this does not
\* know, or beside a population committed meanwhile, the transaction is taken back.
Replace(c) ==
  LET mine == people = cmd[c].saw IN
  /\ cmd[c] # None /\ cmd[c].at = "found"
  /\ IF (mine /\ held) \/ (~mine /\ people # None /\ cmd[c].action = "write")
     THEN /\ Goes(c, "failed")
          /\ UNCHANGED <<people, held, met, excused>>
     ELSE /\ people' = IF cmd[c].action = "write" THEN [by |-> c, size |-> cmd[c].size]
                       ELSE IF mine /\ Synthetic(AsWritten) THEN None ELSE people
          /\ held' = (held /\ people' = people)
          /\ met' = met \ Removed(met)
          /\ excused' = excused \cup IF CountUnderWay /\ people' # people THEN {"crossed"} ELSE {}
          /\ Goes(c, "replaced")
  /\ UNCHANGED <<target, appEnv, counter, gates, lines, api>>

\* A count that has rows before it holds them; one that has none is not seen.
DropCounter(c) ==
  /\ cmd[c] # None /\ cmd[c].at = "replaced"
  /\ ~(CountUnderWay /\ counter # None)
  /\ counter' = None /\ Goes(c, "dropped")
  /\ UNCHANGED <<target, appEnv, people, held, met, gates, lines, api, excused>>

\* takeSnapshot, under its lock: nothing is left to do on a day that is counted.
BeginSnapshot(c) ==
  /\ cmd[c] # None /\ cmd[c].at = "dropped" /\ ~CountUnderWay
  /\ IF ~CountedToday
     THEN cmd' = [cmd EXCEPT ![c] = [at |-> "counting", of |-> people]]
     ELSE Goes(c, "counted")
  /\ UNCHANGED <<target, appEnv, people, held, met, counter, gates, lines, api, excused>>

EndSnapshot(c) ==
  /\ cmd[c] # None /\ cmd[c].at = "counting"
  /\ counter' = [today |-> TRUE, of |-> cmd[c].of] /\ Goes(c, "counted")
  /\ UNCHANGED <<target, appEnv, people, held, met, gates, lines, api, excused>>

\* countGates, under a lock of its own.
CountGates(c) ==
  /\ cmd[c] # None /\ cmd[c].at = "counted"
  /\ gates' = people /\ Goes(c, "ended")
  /\ UNCHANGED <<target, appEnv, people, held, met, counter, lines, api, excused>>

\* Ctrl-C, or a lost connection: an open transaction is taken back.
Kill(c) ==
  /\ cmd[c] # None /\ cmd[c].at \in {"found", "replaced", "dropped", "counting", "counted"}
  /\ cmd' = [cmd EXCEPT ![c] = [at |-> "killed"]]
  /\ excused' = excused \cup IF cmd[c].at = "found" THEN {} ELSE {"killed"}
  /\ UNCHANGED <<target, appEnv, people, held, met, counter, gates, lines, api>>

\* The API's count of the day (Waitlist), of a boot or of a night.
ApiBegins ==
  /\ ~CountUnderWay /\ ~CountedToday
  /\ api' = [today |-> TRUE, of |-> people]
  /\ UNCHANGED <<target, appEnv, people, held, met, counter, gates, lines, cmd, excused>>

ApiEnds ==
  /\ api # None /\ counter' = api /\ api' = None
  /\ UNCHANGED <<target, appEnv, people, held, met, gates, lines, cmd, excused>>

\* A member of staff does something to one of them.
IsAudited ==
  /\ people # None /\ held' = TRUE
  /\ UNCHANGED <<target, appEnv, people, met, counter, gates, lines, cmd, api, excused>>

Next ==
  \/ \E c \in Command : \/ Type(c) \/ Ask(c) \/ Find(c) \/ Replace(c) \/ DropCounter(c)
                         \/ BeginSnapshot(c) \/ EndSnapshot(c) \/ CountGates(c) \/ Kill(c)
  \/ ApiBegins \/ ApiEnds \/ IsAudited

Spec == Init /\ [][Next]_vars

-----------------------------------------------------------------------------
Running(c) == cmd[c] # None /\ cmd[c].at \notin {"refused", "failed", "ended", "killed"}

TypeOK ==
  /\ people \in Populations \cup {None} /\ {counter, api} \subseteq Counts \cup {None}
  /\ cmd \in [Command -> Progress \cup {None}]
  /\ (held => people # None) /\ met \subseteq {OfALogin(b) : b \in BOOLEAN}
  /\ excused \subseteq {"crossed", "killed"}

\* A command that goes on has no name in it that is not allowed, whichever other name
\* stands beside it, and none writes into a deployed database, whatever it was told.
NeverOnDeployed ==
  /\ \A c \in Command : lines[c] # None =>
       \A i \in DOMAIN lines[c] :
         lines[c][i].flag = "--env" => lines[c][i].value \in DEMO_ENVIRONMENTS
  /\ people # None => appEnv # "production" /\ (target.managed => target.database = "kuutti_pr")

\* Nobody who logged in is removed, the ones whose subject begins with the mark included.
PeopleAreSpared == met \subseteq met'

\* From 235 people up a population shows all it is there for, and each of its people has
\* a place, in whichever of the ponds.
ShowsTheThresholds ==
  \A c \in Command : cmd[c] # None /\ cmd[c].at = "parsed" =>
    LET size == cmd[c].size IN
    \A ponds \in plannedPonds(size) :
      /\ size >= 235 => uncrossed(ponds) = {}
      /\ generatePopulation(size, ponds) = size

\* When the commands have ended, the gates and the counter are of the people who are
\* there: unless one was killed on its way, or committed under a count in flight.
CountedAnew ==
  (\E c \in Command : cmd[c] # None /\ cmd[c].at = "ended" /\ people # None /\ people.by = c)
    /\ (\A c \in Command : ~Running(c)) =>
      /\ "killed" \notin excused => gates = people
      /\ excused = {} /\ api = None => counter = [today |-> TRUE, of |-> people]
=============================================================================
