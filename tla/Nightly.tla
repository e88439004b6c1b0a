------------------------------- MODULE Nightly -------------------------------
(***************************************************************************)
(* The nightly jobs (apps/api/src/jobs/nightly.ts, index.ts): every API    *)
(* process arms a timer to 04:00 in Helsinki, runs its jobs one after the  *)
(* other and arms it anew, and processes come, go and overlap.  Two of the *)
(* jobs keep what needs the night: the events table's monthly partitions   *)
(* (research/partitions.ts) and the waitlist's day (Waitlist).             *)
(*                                                                         *)
(* Time goes by the hour, UTC.  Helsinki is two hours ahead, three between *)
(* the changes of spring and autumn.  What is due at an hour happens in    *)
(* it: a timer is not an hour late and a night's jobs do not take one.     *)
(***************************************************************************)
EXTENDS Integers, FiniteSets, Sequences, Folds

CONSTANTS Process, None,
          SpringAt, AutumnAt,      \* the hours of the changes
          MonthDays,               \* a month, all of one length
          EVENTS_RETENTION_DAYS,
          StartHours,              \* bound: hours of the day at which processes start
          MaxHour, MaxFailures     \* bounds: clock, jobs that fail

\* The clocks change at 01:00 UTC; no event is too old in the month it is of; fewer
\* jobs fail than a month has nights.
NightlyAssumption ==
  /\ None \notin Nat
  /\ SpringAt \in Nat /\ SpringAt % 24 = 1 /\ AutumnAt \in Nat /\ AutumnAt % 24 = 1
  /\ MonthDays \in Nat \ {0} /\ EVENTS_RETENTION_DAYS \in Nat /\ EVENTS_RETENTION_DAYS >= MonthDays
  /\ MaxHour \in Nat /\ MaxFailures \in Nat /\ MaxFailures < MonthDays

NIGHTLY_HOUR == 4
HoursOf(days) == 24 * days

VARIABLES
  now,
  proc,        \* each process: the hour its timer fires, and its night's jobs to do
  partitions,  \* months with a partition of events
  counted,     \* Finnish days the waitlist was counted on
  failures,
  age, calm    \* hours a process is up, hours since a job failed, up to a day and two

vars == <<now, proc, partitions, counted, failures, age, calm>>

Long == 26
Older(n) == IF n < Long THEN n + 1 ELSE n

Down == [timer |-> None, jobs |-> <<>>]

Init ==
  /\ now = 0 /\ failures = 0 /\ calm = Long
  /\ proc = [p \in Process |-> Down]
  /\ age = [p \in Process |-> 0]
  /\ partitions = {} /\ counted = {}

Up(p) == proc[p] # Down

-----------------------------------------------------------------------------
(* The calendar                                                            *)

Local(t)       == t + IF SpringAt <= t /\ t < AutumnAt THEN 3 ELSE 2
finnishDay(t)  == Local(t) \div 24
LocalHour(t)   == Local(t) % 24

\* In hours: the time to the next 04:00 by the wall clock, which a change of
\* the clocks in between makes 05:00 or 03:00.
msUntilNightly(t) ==
  LET wait == NIGHTLY_HOUR - LocalHour(t) IN IF wait > 0 THEN wait ELSE wait + 24

\* The instant of local midnight on a day: the day read as UTC, moved twice by
\* what the wall clock shows there too much.
zonedMidnight(d) ==
  LET wanted == HoursOf(d)
      first  == wanted + (wanted - Local(wanted))
  IN  first + (wanted - Local(first))

dayWindow(t) ==
  [start |-> zonedMidnight(finnishDay(t)), end |-> zonedMidnight(finnishDay(t) + 1)]

Month(t)           == t \div HoursOf(MonthDays)
MonthStart(m)      == m * HoursOf(MonthDays)

partitionsAhead(t) == {Month(t), Month(t) + 1}

-----------------------------------------------------------------------------
(* Processes and their night                                               *)

\* Boot: this month's partition and the next, the waitlist's first count when
\* there is none, the timer.
Boot(p) ==
  /\ ~Up(p) /\ now % 24 \in StartHours
  /\ partitions' = partitions \cup partitionsAhead(now)
  /\ counted' = IF counted = {} THEN {finnishDay(now)} ELSE counted
  /\ proc' = [proc EXCEPT ![p] = [timer |-> now + msUntilNightly(now), jobs |-> <<>>]]
  /\ age' = [age EXCEPT ![p] = 0]
  /\ UNCHANGED <<now, failures, calm>>

\* A deploy drains the process, or it dies, in the middle of its jobs too.
Stop(p) ==
  /\ Up(p)
  /\ proc' = [proc EXCEPT ![p] = Down]
  /\ age' = [age EXCEPT ![p] = 0]
  /\ UNCHANGED <<now, partitions, counted, failures, calm>>

\* The timer fires and runNightly begins.
NightComes(p) ==
  /\ Up(p) /\ proc[p].jobs = <<>> /\ proc[p].timer <= now
  /\ proc' = [proc EXCEPT ![p].jobs = <<"research-events-partitions", "waitlist-snapshot", "arm">>]
  /\ UNCHANGED <<now, partitions, counted, failures, age, calm>>

JobIs(p, name) == proc[p].jobs # <<>> /\ Head(proc[p].jobs) = name
JobDone(p)     == proc' = [proc EXCEPT ![p].jobs = Tail(@)]

\* pruneEventPartitions: its oldest row may have reached the retention.
Overdue(m, t) == MonthStart(m) + HoursOf(EVENTS_RETENTION_DAYS) <= t

\* researchEventsJob, with one reading of the clock.
KeepPartitions(p) ==
  /\ JobIs(p, "research-events-partitions")
  /\ partitions' = {m \in partitions \cup partitionsAhead(now) : ~Overdue(m, now)}
  /\ JobDone(p)
  /\ UNCHANGED <<now, counted, failures, age, calm>>

\* takeSnapshot, which does nothing on a day that was counted.
CountWaitlist(p) ==
  /\ JobIs(p, "waitlist-snapshot")
  /\ counted' = counted \cup {finnishDay(now)}
  /\ JobDone(p)
  /\ UNCHANGED <<now, partitions, failures, age, calm>>

\* A failed job is logged, the others go on.
JobFails(p) ==
  /\ failures < MaxFailures
  /\ JobIs(p, "research-events-partitions") \/ JobIs(p, "waitlist-snapshot")
  /\ failures' = failures + 1 /\ calm' = 0
  /\ JobDone(p)
  /\ UNCHANGED <<now, partitions, counted, age>>

Arm(p) ==
  /\ JobIs(p, "arm")
  /\ proc' = [proc EXCEPT ![p] = [timer |-> now + msUntilNightly(now), jobs |-> <<>>]]
  /\ UNCHANGED <<now, partitions, counted, failures, age, calm>>

\* An hour passes when nothing is due.
Hour ==
  /\ now < MaxHour
  /\ \A p \in Process : Up(p) => proc[p].jobs = <<>> /\ proc[p].timer > now
  /\ now' = now + 1
  /\ age' = [p \in Process |-> IF Up(p) THEN Older(age[p]) ELSE 0]
  /\ calm' = Older(calm)
  /\ UNCHANGED <<proc, partitions, counted, failures>>

Next ==
  \/ \E p \in Process : \/ Boot(p) \/ Stop(p) \/ NightComes(p)
                        \/ KeepPartitions(p) \/ CountWaitlist(p) \/ JobFails(p) \/ Arm(p)
  \/ Hour

Spec == Init /\ [][Next]_vars

-----------------------------------------------------------------------------
TypeOK ==
  /\ now \in 0 .. MaxHour /\ failures \in 0 .. MaxFailures
  /\ age \in [Process -> 0 .. Long] /\ calm \in 0 .. Long
  /\ \A p \in Process : Up(p) => proc[p].timer > now - 1 /\ proc[p].timer <= now + 24

\* All is settled when a process is up for more than a day without a failed job.
Settled == calm = Long /\ \E p \in Process : age[p] = Long /\ proc[p].jobs = <<>> /\ proc[p].timer > now

\* The night comes to every Finnish day, the 23 and the 25 hours long too: by
\* six in the morning the day is counted, though a timer that crosses a change
\* of the clocks fires at three or at five.
EveryDayIsCounted ==
  Settled /\ LocalHour(now) >= 6 => finnishDay(now) \in counted

\* An event finds the partition of its month as long as a process is up: one
\* failed night leaves others before the month that was to be made.
EventsHaveAPartition ==
  (\E p \in Process : Up(p)) => Month(now) \in partitions

\* A settled process keeps no event longer than the retention and the time to
\* the next night.
EventsAreDropped ==
  Settled => \A m \in partitions : now < MonthStart(m) + HoursOf(EVENTS_RETENTION_DAYS) + Long

\* The window the budgets count over is the Finnish day it is, to the hour,
\* also when the clocks change within it.
WindowIsTheDay ==
  LET w == dayWindow(now)
  IN  /\ w.start <= now /\ now < w.end
      /\ Local(w.start) = HoursOf(finnishDay(now))
      /\ Local(w.end) = HoursOf(finnishDay(now) + 1)
=============================================================================
