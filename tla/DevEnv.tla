------------------------------- MODULE DevEnv -------------------------------
(***************************************************************************)
(* The local environment with one command (scripts/dev-env.ts): `up`       *)
(* brings a database, frees the ports of stale copies, migrates, starts    *)
(* the services and waits until each answers; `down` frees the ports and   *)
(* stops the database; Ctrl+C stops what a run has started.                *)
(*                                                                         *)
(* Several runs may cross, on one database and the same ports.  A service  *)
(* is a shell and the server beneath it, unless the shell became the       *)
(* server; a server may ignore SIGTERM.  Above a run, and above a stale    *)
(* copy, are processes of others: what started it, and what started that.  *)
(***************************************************************************)
EXTENDS Naturals, Sequences, Functions

CONSTANTS Run, None,
          SERVICES,       \* the names, in their order
          Skips, Machines,   \* bounds: what is skipped; [docker, brew, db] as it is found
          Holders,        \* bound: who else may hold a port
          Chains,         \* bound: who may be above a run or a stale copy, nearest first
          MaxTrouble         \* bound: ports taken and servers dying

VARIABLES
  docker, brew,   \* whether docker compose, and Homebrew's PostgreSQL, can be run
  db,             \* who listens on the database's port
  other,          \* a port's holder that no run started
  stubborn,       \* whether servers ignore SIGTERM: "no", "beneath" their shell, or "exec"
  server,         \* a run's servers
  run,            \* a run's progress
  harmed,         \* who was killed at a port or above it
  raced,          \* a run looked at a port before another's server held it
  trouble

vars == <<docker, brew, db, other, stubborn, server, run, harmed, raced, trouble>>

\* A process, by its working directory and its command: one that OURS names ("node"),
\* `sh -c` ("wrapper"), a shell that OURS names as well, or any other.
Directories == {"inside", "sibling", "elsewhere"}
Commands == {"node", "wrapper", "named shell", "other"}
Kind(dir, command) == [dir |-> dir, command |-> command]
Kinds == [dir : Directories, command : Commands]

DevEnvAssumption ==
  /\ SERVICES \in Seq(STRING)
  /\ None \notin Run \cup {"starting", "listening", "orphan", "gone", "compose", "brew", "foreign"}
  /\ Machines \subseteq [docker : BOOLEAN, brew : BOOLEAN, db : {None, "compose", "brew", "foreign"}]
  /\ MaxTrouble \in Nat /\ Holders \subseteq Kinds /\ Chains \subseteq Seq(Kinds)

Service == Range(SERVICES)

\* Of some services the one that comes first.
Nth(s) == CHOOSE i \in DOMAIN SERVICES : SERVICES[i] = s
First(services) == CHOOSE s \in services : \A t \in services : Nth(s) <= Nth(t)

\* A directory whose name begins with the repository's is taken for it.
isOurs(k) == k.dir \in {"inside", "sibling"} /\ k.command # "other"

\* processTree: of the parents above, nearest first, the first n, up to a shell that is
\* no wrapper or to a program of another name.  Their directories are not looked at.
MaxParents == 6
Climbed(chain, n) ==
  {i \in DOMAIN chain : i <= n /\ \A j \in 1 .. i : chain[j].command \in {"node", "wrapper"}}

\* What freePort kills: the holder of a port and what is climbed to, of a run or of a
\* stale copy (None).
Tree(of, holder, chain, n) ==
  {[of |-> of, at |-> 0, kind |-> holder]} \cup
  {[of |-> of, at |-> i, kind |-> chain[i]] : i \in Climbed(chain, n)}

Idle == [at |-> "idle"]

Init ==
  /\ \E m \in Machines : docker = m.docker /\ brew = m.brew /\ db = m.db
  /\ \E k \in Holders \cup {None} : other = [s \in Service |-> IF s = First(Service) THEN k ELSE None]
  /\ stubborn \in {"no", "beneath", "exec"}
  /\ server = [r \in Run |-> [s \in Service |-> None]]
  /\ run = [r \in Run |-> Idle] /\ harmed = {} /\ raced = FALSE /\ trouble = 0

Listens(r, s) == server[r][s] \in {"listening", "orphan"}
Free(s) == other[s] = None /\ \A r \in Run : ~Listens(r, s)
Running(r) == run[r].at \notin {"idle", "stopped", "over"}
Goes(r, to) == run' = [run EXCEPT ![r].at = to]

\* SIGTERM to the process group of each child: what does not end is left.
Terminated(servers, Left) ==
  [s \in Service |-> IF servers[s] \in {None, "orphan"} THEN servers[s]
                     ELSE IF servers[s] = "listening" /\ stubborn \in Left THEN "orphan" ELSE "gone"]

\* fail: SIGTERM, and out.
Fail(r) ==
  /\ run' = [run EXCEPT ![r] = [at |-> "over"]]
  /\ server' = [server EXCEPT ![r] = Terminated(@, {"beneath", "exec"})]

-----------------------------------------------------------------------------
(* up                                                                      *)

Selected(skip) == Service \ skip

Up(r, skip) ==
  /\ run[r] = Idle
  /\ run' = [run EXCEPT ![r] = [at |-> "database", does |-> "up", mine |-> Selected(skip),
                                todo |-> Selected(skip), again |-> FALSE]]
  /\ UNCHANGED <<docker, brew, db, other, stubborn, server, harmed, raced, trouble>>

\* When docker came after Homebrew's server it is handed the port; a server neither
\* started holds it for good.
HandOver(r) ==
  /\ run[r].at = "database" /\ docker /\ brew /\ db \in {"brew", "foreign"}
  /\ \/ db = "brew" /\ db' = None /\ UNCHANGED <<run, server>>
     \/ db = "foreign" /\ UNCHANGED db /\ Fail(r)
  /\ UNCHANGED <<docker, brew, other, stubborn, harmed, raced, trouble>>

EnsureDatabase(r) ==
  /\ run[r].at = "database" /\ ~(docker /\ brew /\ db \in {"brew", "foreign"})
  /\ \/ /\ db # None \/ docker \/ brew
        /\ db' = IF db # None THEN db ELSE IF docker THEN "compose" ELSE "brew"
        /\ Goes(r, "freeing") /\ UNCHANGED server
     \/ db = None /\ ~docker /\ ~brew /\ UNCHANGED db /\ Fail(r)
  /\ UNCHANGED <<docker, brew, other, stubborn, harmed, raced, trouble>>

\* freePort: nobody is there.
FindFree(r) ==
  /\ run[r].at = "freeing" /\ run[r].todo # {} /\ Free(First(run[r].todo))
  /\ run' = [run EXCEPT ![r].todo = @ \ {First(@)}, ![r].again = FALSE]
  /\ raced' = (raced \/ \E q \in Run : server[q][First(run[r].todo)] = "starting")
  /\ UNCHANGED <<docker, brew, db, other, stubborn, server, harmed, trouble>>

\* Somebody foreign is, or somebody still.
GiveUpPort(r) ==
  /\ run[r].at = "freeing" /\ run[r].todo # {}
  /\ LET s == First(run[r].todo) IN
     ~Free(s) /\ (run[r].again \/ (other[s] # None /\ ~isOurs(other[s])))
  /\ Fail(r)
  /\ UNCHANGED <<docker, brew, db, other, stubborn, harmed, raced, trouble>>

\* A stale copy goes, and with it whoever is above it under a name like ours.
KillStale(r) ==
  /\ run[r].at = "freeing" /\ run[r].todo # {} /\ ~run[r].again
  /\ LET s == First(run[r].todo) IN
     /\ other[s] # None /\ isOurs(other[s])
     /\ other' = [other EXCEPT ![s] = None]
     /\ \E chain \in Chains : harmed' = harmed \cup Tree(None, other[s], chain, MaxParents)
  /\ run' = [run EXCEPT ![r].again = TRUE]
  /\ UNCHANGED <<docker, brew, db, stubborn, server, raced, trouble>>

\* A server of a run goes, and the run with it: told to stop, it stops its other
\* children itself, or is killed after five seconds and leaves them.  Up to three of
\* the parents are the run's own; whoever started it is above.  A server whose run is
\* over has nobody above.
KillServer(r, q) ==
  /\ run[r].at = "freeing" /\ run[r].todo # {} /\ ~run[r].again
  /\ LET s == First(run[r].todo)
         supervised == server[q][s] = "listening" /\ Running(q)
     IN /\ Listens(q, s)
        /\ \E forced \in BOOLEAN :
             /\ server' = [server EXCEPT ![q] =
                  [IF supervised /\ ~forced THEN Terminated(@, {"beneath"}) ELSE @ EXCEPT ![s] = "gone"]]
             /\ run' = [run EXCEPT ![r].again = TRUE,
                          ![q] = IF ~supervised THEN @
                                 ELSE [at |-> IF forced THEN "over" ELSE "stopped"]]
        /\ \E chain \in Chains, own \in 1 .. 3 :
             harmed' = harmed \cup Tree(q, Kind("inside", "node"),
                                       IF supervised THEN chain ELSE <<>>, MaxParents - own)
  /\ q # r
  /\ UNCHANGED <<docker, brew, db, other, stubborn, raced, trouble>>

PortsAreFree(r) ==
  /\ run[r].at = "freeing" /\ run[r].todo = {}
  /\ Goes(r, IF run[r].does = "up" THEN "migrating" ELSE "stopping database")
  /\ UNCHANGED <<docker, brew, db, other, stubborn, server, harmed, raced, trouble>>

\* Migrations and seed, then every service at once.
MigrateAndStart(r) ==
  /\ run[r].at = "migrating"
  /\ IF db = None THEN Fail(r) /\ UNCHANGED raced
     ELSE /\ server' = [server EXCEPT ![r] =
                          [s \in Service |-> IF s \in run[r].mine THEN "starting" ELSE None]]
          /\ run' = [run EXCEPT ![r].at = "waiting", ![r].todo = run[r].mine]
          /\ raced' = (raced \/ \E q \in Run \ {r} : Running(q) /\ run[q].at # "up")
  /\ UNCHANGED <<docker, brew, db, other, stubborn, harmed, trouble>>

\* A port in use ends the server that asks for it.
Listen(r, s) ==
  /\ server[r][s] = "starting"
  /\ server' = [server EXCEPT ![r][s] = IF Free(s) THEN "listening" ELSE "gone"]
  /\ UNCHANGED <<docker, brew, db, other, stubborn, run, harmed, raced, trouble>>

\* Whoever answers there.
IsReady(r) ==
  /\ run[r].at = "waiting" /\ run[r].todo # {} /\ ~Free(First(run[r].todo))
  /\ run' = [run EXCEPT ![r].todo = @ \ {First(@)}]
  /\ UNCHANGED <<docker, brew, db, other, stubborn, server, harmed, raced, trouble>>

\* Nobody is there in time, or somebody who answers with something else.
TimeOut(r) ==
  /\ run[r].at = "waiting" /\ run[r].todo # {}
  /\ LET s == First(run[r].todo) IN Free(s) \/ other[s] # None
  /\ Fail(r)
  /\ UNCHANGED <<docker, brew, db, other, stubborn, harmed, raced, trouble>>

\* A run that has started nothing is over then.
EverythingIsUp(r) ==
  /\ run[r].at = "waiting" /\ run[r].todo = {}
  /\ IF run[r].mine = {} THEN run' = [run EXCEPT ![r] = [at |-> "over"]] ELSE Goes(r, "up")
  /\ UNCHANGED <<docker, brew, db, other, stubborn, server, harmed, raced, trouble>>

-----------------------------------------------------------------------------
\* stopChildren: SIGTERM to each group whose leader lives, and SIGKILL to one whose
\* leader still does.  A server beneath a shell that has ended gets neither.
Interrupt(r) ==
  /\ Running(r)
  /\ server' = [server EXCEPT ![r] = Terminated(@, {"beneath"})]
  /\ run' = [run EXCEPT ![r] = [at |-> "stopped"]]
  /\ UNCHANGED <<docker, brew, db, other, stubborn, harmed, raced, trouble>>

Down(r) ==
  /\ run[r] = Idle
  /\ run' = [run EXCEPT ![r] = [at |-> "freeing", does |-> "down", mine |-> {},
                                todo |-> Service, again |-> FALSE]]
  /\ UNCHANGED <<docker, brew, db, other, stubborn, server, harmed, raced, trouble>>

\* Compose goes down, and what listens after that is taken for Homebrew's.
StopDatabase(r) ==
  /\ run[r].at = "stopping database"
  /\ db' = IF (docker /\ db = "compose") \/ (brew /\ db = "brew") THEN None ELSE db
  /\ run' = [run EXCEPT ![r] = [at |-> "over"]]
  /\ UNCHANGED <<docker, brew, other, stubborn, server, harmed, raced, trouble>>

Squeeze(s) ==
  /\ trouble < MaxTrouble /\ trouble' = trouble + 1 /\ Free(s)
  /\ other' = [other EXCEPT ![s] = Kind("elsewhere", "node")]
  /\ UNCHANGED <<docker, brew, db, stubborn, server, run, harmed, raced>>

ServerDies(r, s) ==
  /\ trouble < MaxTrouble /\ trouble' = trouble + 1 /\ Listens(r, s)
  /\ server' = [server EXCEPT ![r][s] = "gone"]
  /\ UNCHANGED <<docker, brew, db, other, stubborn, run, harmed, raced>>

Next ==
  \/ \E r \in Run :
       \/ \E skip \in Skips : Up(r, skip)
       \/ Down(r) \/ HandOver(r) \/ EnsureDatabase(r) \/ FindFree(r) \/ GiveUpPort(r)
       \/ KillStale(r) \/ PortsAreFree(r) \/ MigrateAndStart(r) \/ IsReady(r) \/ TimeOut(r)
       \/ EverythingIsUp(r) \/ Interrupt(r) \/ StopDatabase(r)
       \/ \E q \in Run : KillServer(r, q)
       \/ \E s \in Service : Listen(r, s) \/ ServerDies(r, s)
  \/ \E s \in Service : Squeeze(s)

Spec == Init /\ [][Next]_vars

-----------------------------------------------------------------------------
TypeOK ==
  /\ db \in {None, "compose", "brew", "foreign"} /\ trouble \in 0 .. MaxTrouble
  /\ other \in [Service -> Kinds \cup {None}]
  /\ server \in [Run -> [Service -> {None, "starting", "listening", "orphan", "gone"}]]

\* "Nothing foreign is ever killed" (dev-env.ts:14) does not hold.  Who holds a port is
\* killed only as ours, which a sibling directory passes for.  But wherever they live,
\* parents of a holder that was killed go as well, one above the other, up to the
\* sixth, as long as each has a name like ours or is `sh -c`; a terminal, the shell in
\* it, and what is above them are spared.  What is above a run goes only with the run.
ForeignIsSpared ==
  \A h \in harmed :
    /\ h.at = 0 => isOurs(h.kind)
    /\ h.at > 0 =>
         /\ h.at <= MaxParents /\ h.kind.command \in {"node", "wrapper"}
         /\ \E g \in harmed : g.of = h.of /\ g.at = h.at - 1
         /\ h.of \in Run => ~Running(h.of)

\* "Everything is up": each service is answered by the run's own server, and the
\* database is there, unless another run looked at the ports before this one's servers
\* held them, or there was trouble.
UpIsMine ==
  \A r \in Run : run[r].at = "up" /\ ~raced /\ trouble = 0 =>
    /\ db # None
    /\ \A s \in run[r].mine : server[r][s] = "listening"

\* A run that was stopped has left nothing running, but a server that ignores SIGTERM
\* beneath a shell that does not.
NothingIsLeft ==
  \A r \in Run, s \in Service :
    run[r].at = "stopped" /\ stubborn # "beneath" => server[r][s] \in {None, "gone"}
=============================================================================
