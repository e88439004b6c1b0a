-------------------------------- MODULE Home --------------------------------
(***************************************************************************)
(* Two cards of the app's home screen: the switch of the research consent  *)
(* (AccountActions.tsx) and where the person stands at the pond gate       *)
(* (useGate.ts).  Both ask the API and show the answer; answers come late, *)
(* out of order or never, the person signs out and somebody else signs in, *)
(* and the night's count runs meanwhile.  The screen stays where it is     *)
(* through all of it, and the switch keeps its state.                      *)
(***************************************************************************)
EXTENDS Naturals, FiniteSets

CONSTANTS Account, None,
          MaxNight,      \* bound: nights
          MaxAsked,      \* bound: reads of one gate card
          MaxTrouble     \* bound: answers lost, sign-outs, changes elsewhere, deploys

\* What the switch shows of an answer; and the switch's requests.
Shown   == {"on", "off", "outdated"}
Fetches == [of : Account, is : {"sent", "answered", "lost"}, says : Shown \cup {None}]
Writes  == [of : Account, on : BOOLEAN, is : {"sent", "answered", "refused"}, says : Shown \cup {None}]

\* None is nobody, and no request.
HomeAssumption ==
  {MaxNight, MaxAsked, MaxTrouble} \subseteq Nat /\ None \notin Account \cup Fetches \cup Writes

VARIABLES
  who,        \* the account signed in on this phone, or None
  given,      \* the accounts whose consent to the wording in force is active
  wording,    \* "bundled": the wording in force is the app's; "newer"
  switch,     \* "loading", "unavailable", "on", "off" or "outdated"
  fetch,      \* GET /consents under way, or None
  write,      \* the switch's change under way, which locks it, or None
  behind,     \* history: what the switch shows may be of before a change
  night,      \* how many nights have counted: what the API says of the gate
  card,       \* the gate's card: gone, loading, failed, or the night it shows
  asked,      \* reads of this card so far: the ref of useGate
  reads,      \* GET /gate under way
  trouble

consents == <<given, wording>>
research == <<switch, fetch, write, behind>>
gate == <<card, asked, reads>>
vars == <<who, consents, research, night, gate, trouble>>

Init ==
  /\ who = None /\ given \in SUBSET Account /\ wording = "bundled"
  /\ switch = "loading" /\ fetch = None /\ write = None /\ behind = FALSE
  /\ night = 0 /\ card = [is |-> "gone"] /\ asked = 0 /\ reads = {}
  /\ trouble = 0

Trouble == trouble < MaxTrouble /\ trouble' = trouble + 1

-----------------------------------------------------------------------------
(* The session, and the screen in front                                    *)

\* The effect on the session's status asks for the consents anew; the switch shows
\* what it showed until they are there.
SignIn(a) ==
  /\ who = None /\ who' = a
  /\ fetch' = [of |-> a, is |-> "sent", says |-> None]
  /\ behind' = (behind /\ write # None)
  /\ UNCHANGED <<consents, switch, write, night, gate, trouble>>

\* The cleanup forgets the read under way, not a write; the gate's card goes, and
\* what it asked comes back to nobody.
SignOut ==
  /\ Trouble /\ who # None /\ who' = None
  /\ fetch' = None /\ card' = [is |-> "gone"] /\ asked' = 0 /\ reads' = {}
  /\ UNCHANGED <<consents, switch, write, behind, night>>

read(quietly) ==
  /\ asked < MaxAsked /\ asked' = asked + 1
  /\ reads' = reads \cup {[mine |-> asked + 1, quietly |-> quietly, is |-> "sent", says |-> None]}
  /\ UNCHANGED <<who, consents, research, night, trouble>>

\* The card comes with the finished onboarding, and asks when it comes to the front;
\* it asks again whenever the screen or the app does.
CardComes == who # None /\ card.is = "gone" /\ card' = [is |-> "loading"] /\ read(TRUE)

ToTheFront == card.is # "gone" /\ card' = card /\ read(TRUE)

retry == card.is = "failed" /\ card' = [is |-> "loading"] /\ read(FALSE)

-----------------------------------------------------------------------------
(* The gate's answers                                                      *)

Night ==
  /\ night < MaxNight /\ night' = night + 1
  /\ UNCHANGED <<who, consents, research, gate, trouble>>

ServeGate(r) ==
  /\ r.is = "sent"
  /\ reads' = (reads \ {r}) \cup {[r EXCEPT !.is = "answered", !.says = night]}
  /\ UNCHANGED <<who, consents, research, night, card, asked, trouble>>

LoseGate(r) ==
  /\ Trouble /\ r.is # "lost"
  /\ reads' = (reads \ {r}) \cup {[r EXCEPT !.is = "lost"]}
  /\ UNCHANGED <<who, consents, research, night, card, asked>>

\* Of two reads under way the later one speaks.
current(r) == r.mine = asked

GateAnswered(r) ==
  /\ r.is # "sent"
  /\ reads' = reads \ {r}
  /\ card' = IF ~current(r) THEN card
             ELSE IF r.is = "answered" THEN [is |-> "ready", gate |-> r.says]
             ELSE IF r.quietly /\ card.is = "ready" THEN card
             ELSE [is |-> "failed"]
  /\ UNCHANGED <<who, consents, research, night, asked, trouble>>

-----------------------------------------------------------------------------
(* The switch                                                              *)

\* apply: what the consents of an account say of the switch.
Says(a, set) ==
  IF wording = "newer" THEN "outdated" ELSE IF a \in set THEN "on" ELSE "off"

ServeFetch ==
  /\ fetch # None /\ fetch.is = "sent"
  /\ fetch' = [fetch EXCEPT !.is = "answered", !.says = Says(fetch.of, given)]
  /\ UNCHANGED <<who, consents, switch, write, behind, night, gate, trouble>>

LoseFetch ==
  /\ Trouble /\ fetch # None /\ fetch.is # "lost"
  /\ fetch' = [fetch EXCEPT !.is = "lost"]
  /\ UNCHANGED <<who, consents, switch, write, behind, night, gate>>

Fetched ==
  /\ fetch # None /\ fetch.is # "sent" /\ fetch' = None
  /\ switch' = IF fetch.is = "answered" THEN fetch.says ELSE "unavailable"
  /\ UNCHANGED <<who, consents, write, behind, night, gate, trouble>>

\* A switch that shows something may be tapped, unless a change is under way.
set(on) ==
  /\ who # None /\ write = None /\ switch = (IF on THEN "off" ELSE "on")
  /\ write' = [of |-> who, on |-> on, is |-> "sent", says |-> None]
  /\ behind' = (behind \/ fetch # None)
  /\ UNCHANGED <<who, consents, switch, fetch, night, gate, trouble>>

\* The API takes a consent to the wording in force only, and nothing of a session
\* that was signed out before it arrived.
Takes(w) == w.of = who /\ (w.on => wording = "bundled")

ServeSet ==
  /\ write # None /\ write.is = "sent"
  /\ given' = IF ~Takes(write) THEN given
              ELSE IF write.on THEN given \cup {write.of} ELSE given \ {write.of}
  /\ write' = [write EXCEPT !.is = IF Takes(write) THEN "answered" ELSE "refused",
                            !.says = Says(write.of, given')]
  /\ UNCHANGED <<who, wording, switch, fetch, behind, night, gate, trouble>>

LoseSet ==
  /\ Trouble /\ write # None /\ write.is # "refused"
  /\ write' = [write EXCEPT !.is = "refused"]
  /\ behind' = TRUE
  /\ UNCHANGED <<who, consents, switch, fetch, night, gate>>

\* An answer is shown, a refusal leaves the switch as it was.
Shows == IF write.is = "answered" THEN write.says ELSE switch

\* Nobody asks whose answer it is, nor whether the consents have been read since.
SetReturns ==
  /\ write # None /\ write.is # "sent" /\ write' = None
  /\ switch' = Shows
  /\ behind' = (behind \/ write.of # who \/ fetch # None)
  /\ UNCHANGED <<who, consents, fetch, night, gate, trouble>>

\* From another device of the account; a deploy with a newer wording.
ChangeElsewhere(a) ==
  /\ Trouble /\ behind' = TRUE
  /\ given' = IF a \in given THEN given \ {a} ELSE given \cup {a}
  /\ UNCHANGED <<who, wording, switch, fetch, write, night, gate>>

NewWording ==
  /\ Trouble /\ wording = "bundled" /\ wording' = "newer" /\ given' = {} /\ behind' = TRUE
  /\ UNCHANGED <<who, switch, fetch, write, night, gate>>

Next ==
  \/ SignOut \/ CardComes \/ ToTheFront \/ retry \/ Night
  \/ ServeFetch \/ LoseFetch \/ Fetched \/ ServeSet \/ LoseSet \/ SetReturns \/ NewWording
  \/ \E a \in Account : SignIn(a) \/ ChangeElsewhere(a)
  \/ \E r \in reads : ServeGate(r) \/ LoseGate(r) \/ GateAnswered(r)
  \/ \E on \in BOOLEAN : set(on)

Spec == Init /\ [][Next]_vars

-----------------------------------------------------------------------------
TypeOK ==
  /\ who \in Account \cup {None} /\ given \in SUBSET Account
  /\ switch \in Shown \cup {"loading", "unavailable"} /\ wording \in {"bundled", "newer"}
  /\ fetch \in Fetches \cup {None} /\ write \in Writes \cup {None} /\ behind \in BOOLEAN
  /\ card.is \in {"gone", "loading", "failed", "ready"}
  /\ asked \in 0 .. MaxAsked /\ \A r \in reads : r.mine \in 1 .. asked

\* Once everything is answered the switch shows the consent of the account that is
\* signed in, also after a refused change: unless an answer was lost, another device
\* or a deploy changed it, or the answers of two requests crossed.
SwitchIsTrue ==
  who # None /\ fetch = None /\ write = None /\ ~behind /\ switch # "unavailable" =>
    switch = Says(who, given)

\* A card that shows where the person stands never goes back to an older night, nor
\* to nothing: of two reads under way the later one speaks, and a quiet read that
\* fails takes nothing away.
NeverGoesBack ==
  card.is = "ready" /\ card'.is # "gone" => card'.is = "ready" /\ card'.gate >= card.gate
=============================================================================
