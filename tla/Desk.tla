-------------------------------- MODULE Desk --------------------------------
(***************************************************************************)
(* The review queue of the admin panel (PhotoQueue.tsx): the list and the  *)
(* count a moderator sees, the decision on each row, and the queue of the  *)
(* API meanwhile, which other moderators decide on and new photos join.    *)
(* A list holds no more than it is asked for, the oldest first; the count  *)
(* is of all.  The reason of a rejection and the picture are left out.     *)
(***************************************************************************)
EXTENDS Naturals, FiniteSets

CONSTANTS Photo,         \* numbered in the order of created_at
          None,
          Limit,         \* how many photos the screen asks for
          Queues,        \* bound: the queue as it is found
          MaxLoads,      \* bound: lists asked for, by their number
          MaxTrouble     \* bound: answers lost, photos arriving, decisions of others

DeskAssumption ==
  /\ Photo \subseteq Nat /\ IsFiniteSet(Photo) /\ Limit \in Nat \ {0} /\ MaxTrouble \in Nat
  /\ Queues \subseteq SUBSET Photo
  /\ None \notin Nat \cup [by : {"me", "another"}, decision : {"approved", "rejected"}]
  /\ \A photos \in SUBSET Photo : photos # None

VARIABLES
  waiting,   \* the photos in the API's queue
  verdict,   \* per photo: what was decided and by whom, or None
  kind,      \* the list: "loading", "error" or "ready"
  items, total,
  row,       \* per photo on the list: what its row shows, and which mount of it this is
  loads,     \* lists under way
  loaded,    \* lists asked for so far
  decisions, \* decisions under way
  off,       \* history: the queue changed unknown to the screen, or a list crossed a decision
  trouble

list == <<kind, items, total>>
vars == <<waiting, verdict, list, row, loads, loaded, decisions, off, trouble>>

Asked(n) == [number |-> n, items |-> None, total |-> None]

Init ==
  /\ waiting \in Queues /\ verdict = [p \in Photo |-> None]
  /\ kind = "loading" /\ items = {} /\ total = 0
  /\ row = [p \in Photo |-> [is |-> "idle", mount |-> 1]]
  /\ loaded = 1 /\ loads = {Asked(1)}
  /\ decisions = {} /\ off = FALSE /\ trouble = 0

Trouble == trouble < MaxTrouble /\ trouble' = trouble + 1

\* Rows that leave the list; one that comes back is a new one.
Unmounted(photos) ==
  [p \in Photo |-> IF p \in photos THEN [is |-> "idle", mount |-> row[p].mount + 1] ELSE row[p]]

-----------------------------------------------------------------------------
(* The list                                                                *)

load ==
  /\ loaded < MaxLoads /\ loaded' = loaded + 1
  /\ kind' = "loading" /\ items' = {} /\ row' = Unmounted(items)
  /\ loads' = loads \cup {Asked(loaded + 1)}
  /\ off' = (off /\ (loads # {} \/ decisions # {}))
  /\ UNCHANGED <<waiting, verdict, total, decisions, trouble>>

\* The oldest photos, no more than the limit.
listQueue(photos) == {p \in photos : Cardinality({q \in photos : q <= p}) <= Limit}

\* The items and their number are two statements, side by side.
Serve(l) ==
  /\ \/ l.items = None /\ loads' = (loads \ {l}) \cup {[l EXCEPT !.items = listQueue(waiting)]}
     \/ l.total = None /\ loads' = (loads \ {l}) \cup {[l EXCEPT !.total = Cardinality(waiting)]}
  /\ UNCHANGED <<waiting, verdict, list, row, loaded, decisions, off, trouble>>

\* The answer of an older load is shown like any other, and rows that are on both
\* lists stay.
Loaded(l) ==
  /\ l.items # None /\ l.total # None
  /\ loads' = loads \ {l}
  /\ kind' = "ready" /\ items' = l.items /\ total' = l.total
  /\ row' = Unmounted(items \ l.items)
  /\ UNCHANGED <<waiting, verdict, loaded, decisions, off, trouble>>

LoadFails(l) ==
  /\ Trouble /\ loads' = loads \ {l}
  /\ kind' = "error" /\ items' = {} /\ row' = Unmounted(items)
  /\ UNCHANGED <<waiting, verdict, total, loaded, decisions, off>>

-----------------------------------------------------------------------------
(* A decision                                                              *)

\* The buttons of a row, and the form of a rejection, which opens first.
Shows(p, is) == kind = "ready" /\ p \in items /\ row[p].is \in is

reject(p) ==
  /\ Shows(p, {"idle", "failed"})
  /\ row' = [row EXCEPT ![p].is = "rejecting"]
  /\ UNCHANGED <<waiting, verdict, list, loads, loaded, decisions, off, trouble>>

cancel(p) ==
  /\ Shows(p, {"rejecting"})
  /\ row' = [row EXCEPT ![p].is = "idle"]
  /\ UNCHANGED <<waiting, verdict, list, loads, loaded, decisions, off, trouble>>

decide(p, decision) ==
  /\ Shows(p, IF decision = "approved" THEN {"idle", "failed"} ELSE {"rejecting"})
  /\ row' = [row EXCEPT ![p].is = "saving"]
  /\ decisions' = decisions \cup
       {[photo |-> p, decision |-> decision, mount |-> row[p].mount, is |-> "sent"]}
  /\ UNCHANGED <<waiting, verdict, list, loads, loaded, off, trouble>>

\* Only a queued photo takes a decision.
ServeDecision(d) ==
  LET taken == d.photo \in waiting IN
  /\ d.is = "sent"
  /\ decisions' = (decisions \ {d}) \cup {[d EXCEPT !.is = IF taken THEN "taken" ELSE "refused"]}
  /\ IF taken
     THEN /\ waiting' = waiting \ {d.photo}
          /\ verdict' = [verdict EXCEPT ![d.photo] = [by |-> "me", decision |-> d.decision]]
          /\ off' = (off \/ loads # {})
     ELSE UNCHANGED <<waiting, verdict, off>>
  /\ UNCHANGED <<list, row, loads, loaded, trouble>>

\* The row's own state, if it is still there.
RowShows(d, is) ==
  IF row[d.photo].mount = d.mount THEN [row EXCEPT ![d.photo].is = is] ELSE row

ShownAfter(d) == IF d.is = "taken" THEN d.decision ELSE "failed"

\* decided: one less is waiting, on whichever list is shown by now.
Counts(d) == d.is = "taken"

DecisionReturns(d) ==
  /\ d.is # "sent" /\ decisions' = decisions \ {d}
  /\ row' = RowShows(d, ShownAfter(d))
  /\ total' = IF Counts(d) /\ kind = "ready" /\ total > 0 THEN total - 1 ELSE total
  /\ off' = (off \/ loads # {} \/ row[d.photo].mount # d.mount)
  /\ UNCHANGED <<waiting, verdict, kind, items, loads, loaded, trouble>>

\* A request that fails on the way throws: the row says for ever that it saves.
DecisionLost(d) ==
  /\ Trouble /\ decisions' = decisions \ {d} /\ off' = TRUE
  /\ UNCHANGED <<waiting, verdict, list, row, loads, loaded>>

\* Another moderator decides, the owner deletes; the automatic check queues a photo.
ChangesElsewhere(p) ==
  /\ Trouble /\ off' = TRUE
  /\ \/ p \in waiting /\ waiting' = waiting \ {p}
        /\ verdict' = [verdict EXCEPT ![p] = [by |-> "another", decision |-> "rejected"]]
     \/ p \notin waiting /\ verdict[p] = None /\ waiting' = waiting \cup {p} /\ UNCHANGED verdict
  /\ UNCHANGED <<list, row, loads, loaded, decisions>>

Next ==
  \/ load
  \/ \E l \in loads : Serve(l) \/ Loaded(l) \/ LoadFails(l)
  \/ \E p \in Photo :
       \/ reject(p) \/ cancel(p) \/ ChangesElsewhere(p)
       \/ \E decision \in {"approved", "rejected"} : decide(p, decision)
  \/ \E d \in decisions : ServeDecision(d) \/ DecisionReturns(d) \/ DecisionLost(d)

Spec == Init /\ [][Next]_vars

-----------------------------------------------------------------------------
TypeOK ==
  /\ waiting \subseteq Photo /\ items \subseteq Photo /\ total \in 0 .. Cardinality(Photo)
  /\ kind \in {"loading", "error", "ready"}
  /\ \A p \in Photo : row[p].is \in {"idle", "rejecting", "saving", "failed", "approved", "rejected"}

\* A row says that a photo was decided only if this moderator's decision is the one
\* that stands, whoever else decided meanwhile and whichever lists came late.
DecidedIsMine ==
  \A p \in items : row[p].is \in {"approved", "rejected"} =>
    verdict[p] = [by |-> "me", decision |-> row[p].is]

\* With nothing under way the count is what is waiting, and the rows without a
\* decision are the oldest of those photos, all of them where the list was not as
\* long as it may be: unless others changed the queue since the list was read, or a
\* list crossed a decision.
CountIsWaiting ==
  LET open == {p \in items : row[p].is \notin {"approved", "rejected"}} IN
  kind = "ready" /\ loads = {} /\ decisions = {} /\ ~off =>
    /\ total = Cardinality(waiting)
    /\ open \subseteq waiting /\ \A p \in open, q \in waiting \ open : p < q
    /\ Cardinality(items) < Limit => open = waiting
=============================================================================
