-------------------------------- MODULE Device --------------------------------
(***************************************************************************)
(* The phone's side of a session (apps/mobile/src/lib/session.ts, api.ts,  *)
(* features/identity): the pair of tokens in memory and in the secure      *)
(* store, the one refresh under way, the sign-in screen that only takes a  *)
(* code for a login it started, and what becomes of all that when answers  *)
(* are lost, the person signs out meanwhile, or the system ends the app.   *)
(*                                                                         *)
(* The API's side is the token family of Sessions, cut down to one chain   *)
(* for each session: pairs are numbered, the last one drawn is live, the   *)
(* one before is retired, and presenting that one ends the session.  A     *)
(* request that needs a refresh may come at any time.                      *)
(***************************************************************************)
EXTENDS Naturals, Sequences

CONSTANTS Session, None, Left,
          MaxPairs,    \* bound: pairs of a session
          MaxWrites,   \* bound: store calls under way when the person signs out
          MaxTrouble   \* bound: messages lost, and ends of the app

DeviceAssumption ==
  /\ MaxPairs \in Nat \ {0} /\ MaxTrouble \in Nat
  /\ None \notin Session \cup [session : Session, n : Nat]
  /\ Left \notin Session \cup {None}

VARIABLES
  api,       \* for each session the number of its live pair, and whether it ended
  memory,    \* the pair the app works with
  store,     \* SecureStore's value
  writes,    \* SecureStore calls under way, in order
  inFlight,  \* refreshes under way
  shown,     \* SessionProvider's status
  pending,   \* the mark of a login this device started
  link,      \* the session whose code is being exchanged
  leaving,   \* signOut, signOutEverywhere or deleteAccount under way
  wants,     \* history: the session signed in to, Left after leaving it, None when unsure
  trouble,   \* messages lost and app ends so far
  excused    \* history: a pair was lost before it was stored, or a sign-in or
             \* sign-out met a refresh or a write under way

vars == <<api, memory, store, writes, inFlight, shown, pending, link, leaving,
          wants, trouble, excused>>

Init ==
  /\ api = [s \in Session |-> [n |-> 0, ended |-> FALSE]]
  /\ memory = None /\ store = None /\ writes = <<>> /\ inFlight = <<>>
  /\ shown = "loading" /\ pending = FALSE /\ link = None /\ leaving = "no"
  /\ wants = None /\ trouble = 0 /\ excused = FALSE

fromStored(p) == IF p = None THEN "signed-out" ELSE "signed-in"

\* persist: memory at once, the store when the call is through.
persist(p) ==
  /\ memory' = p
  /\ writes' = Append(writes, p)

\* A SecureStore call returns, and the persist that made it runs the listeners.
StoreWritten ==
  /\ writes # <<>>
  /\ store' = Head(writes) /\ writes' = Tail(writes)
  /\ shown' = IF shown = "loading" THEN shown ELSE fromStored(memory)
  /\ UNCHANGED <<api, memory, inFlight, pending, link, leaving, wants, trouble, excused>>

loadSession ==
  /\ shown = "loading"
  /\ memory' = store /\ shown' = fromStored(store)
  /\ UNCHANGED <<api, store, writes, inFlight, pending, link, leaving, wants, trouble, excused>>

-----------------------------------------------------------------------------
(* refreshSession                                                          *)

\* Mutation: a caller that arrives while a refresh runs starts its own.
NoFlightButOne == Len(inFlight) < 2

NoFlight == inFlight = <<>>

\* A stale access token or a 401: one refresh, whose result all callers get.
refreshSession ==
  /\ memory # None /\ NoFlight
  /\ inFlight' = Append(inFlight, [is |-> "sent", of |-> memory, pair |-> None])
  /\ UNCHANGED <<api, memory, store, writes, shown, pending, link, leaving, wants, trouble, excused>>

\* POST /auth/refresh on the API's side: the next pair for the live one; a
\* refusal otherwise, which ends the session when the pair is the retired one.
ServeRefresh(i) ==
  LET p == inFlight[i].of  s == p.session
  IN  /\ inFlight[i].is = "sent"
      /\ IF ~api[s].ended /\ p.n = api[s].n
         THEN /\ p.n < MaxPairs
              /\ api' = [api EXCEPT ![s].n = @ + 1]
              /\ inFlight' = [inFlight EXCEPT ![i] =
                   [is |-> "answered", of |-> p, pair |-> [session |-> s, n |-> p.n + 1]]]
         ELSE /\ api' = [api EXCEPT ![s].ended = @ \/ p.n + 1 = api[s].n]
              /\ inFlight' = [inFlight EXCEPT ![i].is = "answered"]
      /\ UNCHANGED <<memory, store, writes, shown, pending, link, leaving, wants, trouble, excused>>

clearSession == persist(None)

\* The requests under way but one.
Others(q, i) == SubSeq(q, 1, i - 1) \o SubSeq(q, i + 1, Len(q))

\* A new pair is saved over whatever is there, a 401 clears whatever is there.
RefreshReturns(i) ==
  /\ inFlight[i].is = "answered"
  /\ IF inFlight[i].pair = None THEN clearSession ELSE persist(inFlight[i].pair)
  /\ inFlight' = Others(inFlight, i)
  /\ UNCHANGED <<api, store, shown, pending, link, leaving, wants, trouble, excused>>

\* The request or its answer is lost, or the API is unwell: the pair stays.
RefreshFails(i) ==
  /\ trouble < MaxTrouble
  /\ inFlight' = Others(inFlight, i)
  /\ trouble' = trouble + 1
  /\ excused' = (excused \/ inFlight[i].pair # None)
  /\ UNCHANGED <<api, memory, store, writes, shown, pending, link, leaving, wants>>

-----------------------------------------------------------------------------
(* SignInScreen and signIn                                                 *)

\* markLoginStarted, then the system browser; no button while a code is exchanged.
OpenBank ==
  /\ shown = "signed-out" /\ link = None /\ writes = <<>> /\ ~pending
  /\ pending' = TRUE
  /\ UNCHANGED <<api, memory, store, writes, inFlight, shown, link, leaving, wants, trouble, excused>>

\* takeLoginStarted, and no session on the screen.
Taken == pending /\ shown = "signed-out"

\* A link with a code opens the screen; the mark is taken whatever comes of it.
OpenLink(s) ==
  /\ shown # "loading" /\ link = None /\ api[s].n = 0
  /\ pending' = FALSE
  /\ link' = IF Taken THEN s ELSE None
  /\ UNCHANGED <<api, memory, store, writes, inFlight, shown, leaving, wants, trouble, excused>>

Busy == inFlight # <<>> \/ writes # <<>> \/ leaving = "asked"

\* POST /auth/exchange answers, and saveSession begins.
signIn ==
  /\ link # None
  /\ api' = [api EXCEPT ![link].n = 1]
  /\ persist([session |-> link, n |-> 1])
  /\ wants' = link /\ link' = None
  /\ excused' = (excused \/ Busy)
  /\ UNCHANGED <<store, inFlight, shown, pending, leaving, trouble>>

\* The code is used up, late or lost on the way.
SignInFails ==
  /\ link # None /\ link' = None
  /\ UNCHANGED <<api, memory, store, writes, inFlight, shown, pending, leaving, wants, trouble, excused>>

-----------------------------------------------------------------------------
(* signOut, signOutEverywhere, deleteAccount                               *)

Leave ==
  /\ shown = "signed-in" /\ leaving = "no" /\ Len(writes) < MaxWrites
  /\ leaving' = "asked" /\ wants' = None
  /\ UNCHANGED <<api, memory, store, writes, inFlight, shown, pending, link, trouble, excused>>

\* The API ends the session of an access token that is the live pair's.
LeaveServed ==
  /\ leaving = "asked"
  /\ memory # None /\ memory.n = api[memory.session].n
  /\ api' = [api EXCEPT ![memory.session].ended = TRUE]
  /\ leaving' = "answered"
  /\ UNCHANGED <<memory, store, writes, inFlight, shown, pending, link, wants, trouble, excused>>

\* signOut goes on when the API could not be asked; the other two stay signed
\* in when no answer came, whatever the API has done.
LeaveUnserved ==
  /\ \/ leaving = "asked" /\ leaving' = "answered" /\ UNCHANGED wants
     \/ /\ leaving # "no" /\ leaving' = "no"
        /\ wants' = IF memory # None /\ ~api[memory.session].ended THEN memory.session ELSE None
  /\ UNCHANGED <<api, memory, store, writes, inFlight, shown, pending, link, trouble, excused>>

ClearLocally == clearSession

FinishLeaving ==
  /\ leaving = "answered"
  /\ ClearLocally
  /\ leaving' = "no" /\ wants' = Left
  /\ excused' = (excused \/ Busy)
  /\ UNCHANGED <<api, store, inFlight, shown, pending, link, trouble>>

-----------------------------------------------------------------------------
\* Another device of the account logs out everywhere, or the session expires.
EndElsewhere(s) ==
  /\ api[s].n > 0 /\ ~api[s].ended
  /\ api' = [api EXCEPT ![s].ended = TRUE]
  /\ wants' = IF wants = s THEN None ELSE wants
  /\ UNCHANGED <<memory, store, writes, inFlight, shown, pending, link, leaving, trouble, excused>>

\* The system ends the app and it starts again: the store and the mark stay.
Restart ==
  /\ trouble < MaxTrouble
  /\ trouble' = trouble + 1
  /\ shown' = "loading" /\ memory' = None /\ writes' = <<>> /\ inFlight' = <<>>
  /\ link' = None /\ leaving' = "no"
  /\ excused' = (excused \/ writes # <<>> \/ \E i \in DOMAIN inFlight : inFlight[i].pair # None)
  /\ UNCHANGED <<api, store, pending, wants>>

Next ==
  \/ StoreWritten \/ loadSession \/ refreshSession
  \/ \E i \in DOMAIN inFlight : ServeRefresh(i) \/ RefreshReturns(i) \/ RefreshFails(i)
  \/ OpenBank \/ signIn \/ SignInFails
  \/ Leave \/ LeaveServed \/ LeaveUnserved \/ FinishLeaving \/ Restart
  \/ \E s \in Session : OpenLink(s) \/ EndElsewhere(s)

Spec == Init /\ [][Next]_vars

-----------------------------------------------------------------------------
Pairs == [session : Session, n : 1 .. MaxPairs]

TypeOK ==
  /\ memory \in Pairs \cup {None} /\ store \in Pairs \cup {None}
  /\ \A i \in DOMAIN writes : writes[i] \in Pairs \cup {None}
  /\ \A i \in DOMAIN inFlight : inFlight[i].of \in Pairs /\ inFlight[i].pair \in Pairs \cup {None}
  /\ shown \in {"loading", "signed-in", "signed-out"}
  /\ leaving \in {"no", "asked", "answered"}
  /\ link \in Session \cup {None} /\ wants \in Session \cup {None, Left}
  /\ trouble \in 0 .. MaxTrouble
  /\ \A s \in Session : api[s].n \in 0 .. MaxPairs

\* However many requests meet an expired token, and wherever the app is ended,
\* a device stays in the session it signed in to while nobody ended that
\* session (refreshSession, "one refresh at a time"): it loses it only when a
\* new pair was lost before it was stored, or around a sign-in or sign-out
\* that met a refresh under way.
StaysSignedIn ==
  wants \in Session /\ ~excused /\ shown # "loading" =>
    memory # None /\ memory.session = wants

\* Whoever signed out is signed out, without the API too and after the app
\* starts again, unless a refresh was under way at that moment.
StaysSignedOut ==
  wants = Left /\ ~excused =>
    memory = None /\ (writes = <<>> => store = None)
=============================================================================
