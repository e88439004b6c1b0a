----------------------------- MODULE Questions -----------------------------
(***************************************************************************)
(* The app's way through onboarding (apps/mobile/src/features/identity):   *)
(* the home screen's gate sends an account that has not finished to the    *)
(* questions, which follow the status the API answers and ask the next     *)
(* thing, one screen at a time.  The API's side is what module Onboarding  *)
(* looks into; here a status is read, and a row written, in one step.      *)
(***************************************************************************)
EXTENDS Naturals, Sequences

CONSTANTS Account, Pond, None,
          Finished,      \* accounts that finished onboarding before
          MaxVersion,    \* bound: wordings
          MaxTrouble     \* bound: answers lost, sign-outs, deploys, updates

QuestionsAssumption ==
  /\ None \notin Account /\ None \notin Pond /\ Pond # {} /\ MaxVersion \in Nat \ {0}

VARIABLES
  current,    \* the wording in force of the terms and of the privacy notice
  bundled,    \* the wording built into the app
  rows,       \* what the API keeps of each account
  who,        \* the account signed in on the phone, or None
  page,       \* "home" or "questions"
  gate,       \* the home screen's gate
  reads,      \* GET /onboarding under way
  steps,      \* the questions screen's writes under way
  seen,       \* the status the questions screen shows, or that it has none
  offered,    \* "Not now" was tapped on this screen
  afterSeeks, \* whom the person seeks is chosen, and not saved yet
  busy, failed,
  tapped,     \* history: the pond tapped last, None once two taps have crossed
  trouble

api == <<current, rows>>
screen == <<steps, seen, offered, afterSeeks, busy, failed>>
vars == <<api, bundled, who, page, gate, reads, screen, tapped, trouble>>

Kinds == {"terms", "privacy"}

Init ==
  /\ current = 1 /\ bundled = 1
  /\ rows = [a \in Account |->
               IF a \in Finished
               THEN [agreed |-> [kind : Kinds, version : {1}], declared |-> {"gender", "preferences"},
                     pond |-> CHOOSE p \in Pond : TRUE, research |-> TRUE, active |-> TRUE]
               ELSE [agreed |-> {}, declared |-> {}, pond |-> None, research |-> FALSE,
                     active |-> FALSE]]
  /\ who = None /\ page = "home" /\ gate = "signed-out" /\ reads = {}
  /\ steps = {} /\ seen = [is |-> "loading"] /\ offered = FALSE /\ afterSeeks = FALSE
  /\ busy = FALSE /\ failed = FALSE
  /\ tapped = None /\ trouble = 0

-----------------------------------------------------------------------------
(* The API                                                                 *)

missing(a) ==
  {k \in Kinds : [kind |-> k, version |-> current] \notin rows[a].agreed}
    \cup ({"gender", "preferences"} \ rows[a].declared)
    \cup (IF rows[a].pond = None THEN {"pond"} ELSE {})

Read(op) == [op |-> op, of |-> who, is |-> "sent", live |-> TRUE, status |-> None]

\* A read that finds nothing missing activates the account.
ServeRead(r) ==
  /\ r \in reads /\ r.is = "sent"
  /\ LET left   == missing(r.of)
         active == rows[r.of].active \/ left = {}
     IN  /\ rows' = [rows EXCEPT ![r.of].active = active]
         /\ reads' = (reads \ {r}) \cup
              {[r EXCEPT !.is = "answered",
                         !.status = [is |-> "ready", missing |-> left, active |-> active,
                                     version |-> current, research |-> rows[r.of].research]]}
  /\ UNCHANGED <<current, bundled, who, page, gate, screen, tapped, trouble>>

Trouble == trouble < MaxTrouble /\ trouble' = trouble + 1

LoseRead(r) ==
  /\ Trouble /\ r \in reads /\ r.is # "lost"
  /\ reads' = (reads \ {r}) \cup {[r EXCEPT !.is = "lost"]}
  /\ UNCHANGED <<api, bundled, who, page, gate, screen, tapped>>

\* Whether the API takes a request of a step: its session is not signed out, and
\* a consent names the wording in force.
Takes(s, w) == s.of = who /\ (w.op \in Kinds \cup {"research"} => w.version = current)

Written(row, w) ==
  CASE w.op \in Kinds    -> [row EXCEPT !.agreed = @ \cup {[kind |-> w.op, version |-> w.version]}]
    [] w.op = "research" -> [row EXCEPT !.research = TRUE]
    [] w.op = "pond"     -> [row EXCEPT !.pond = w.pond]
    [] OTHER             -> [row EXCEPT !.declared = @ \cup {w.op}]

-----------------------------------------------------------------------------
(* useOnboarding                                                           *)

\* step: the requests one after the other, then the status again.
step(writes) ==
  /\ steps' = steps \cup {[of |-> who, left |-> writes, live |-> TRUE]}
  /\ busy' = TRUE /\ failed' = FALSE
  /\ UNCHANGED <<api, bundled, who, page, gate, reads, seen, offered, afterSeeks, trouble>>

StepGoesOn(s) ==
  LET w == Head(s.left) IN
  /\ s \in steps /\ Takes(s, w)
  /\ rows' = [rows EXCEPT ![s.of] = Written(@, w)]
  /\ IF Len(s.left) > 1
     THEN steps' = (steps \ {s}) \cup {[s EXCEPT !.left = Tail(@)]} /\ UNCHANGED reads
     ELSE steps' = steps \ {s} /\ reads' = reads \cup {[Read("step") EXCEPT !.live = s.live]}
  /\ UNCHANGED <<current, bundled, who, page, gate, seen, offered, afterSeeks, busy, failed,
                 tapped, trouble>>

\* Refused, or lost with or without being written: the status stays as it was.
StepFails(s) ==
  /\ s \in steps
  /\ \/ ~Takes(s, Head(s.left)) /\ UNCHANGED <<rows, trouble>>
     \/ /\ Trouble
        /\ rows' \in {rows, [rows EXCEPT ![s.of] = Written(@, Head(s.left))]}
  /\ steps' = steps \ {s} /\ failed' = (failed \/ s.live) /\ busy' = (busy /\ ~s.live)
  /\ tapped' = None
  /\ UNCHANGED <<current, bundled, who, page, gate, reads, seen, offered, afterSeeks>>

-----------------------------------------------------------------------------
(* Which question comes next                                               *)

nextStep(status, wasOffered) ==
  LET left == status.missing IN
  IF left \cap Kinds # {} THEN "consents"
  ELSE IF "gender" \in left THEN "gender"
  ELSE IF "preferences" \in left THEN "seeks"
  ELSE IF "pond" \in left THEN "pond"
  ELSE IF ~status.research /\ ~wasOffered THEN "research" ELSE "done"

Shown == page = "questions" /\ seen.is = "ready"

Asks(question) ==
  Shown /\ LET q == nextStep(seen, offered)
           IN  question = IF q = "seeks" /\ afterSeeks THEN "age" ELSE q

-----------------------------------------------------------------------------
(* useOnboardingGate, and the way between the two screens                  *)

\* The effect's cleanup: a gate that is gone takes no answer.
Taken(r) == r.live

\* What is under way, and nobody waits for any more.
Unmounted(set) == {[x EXCEPT !.live = FALSE] : x \in set}

GoHome(others) ==
  /\ page' = "home" /\ gate' = "checking"
  /\ reads' = Unmounted(others) \cup {Read("gate")} /\ steps' = Unmounted(steps)

GoToQuestions(others) ==
  /\ page' = "questions" /\ gate' = "incomplete" /\ reads' = Unmounted(others) \cup {Read("load")} /\ steps' = Unmounted(steps)
  /\ seen' = [is |-> "loading"] /\ offered' = FALSE /\ afterSeeks' = FALSE /\ busy' = FALSE /\ failed' = FALSE

SignIn(a) ==
  /\ who = None /\ who' = a /\ gate' = "checking"
  /\ reads' = reads \cup {[Read("gate") EXCEPT !.of = a]}
  /\ UNCHANGED <<api, bundled, page, screen, tapped, trouble>>

SignOut ==
  /\ Trouble /\ who # None /\ page = "home"
  /\ who' = None /\ gate' = "signed-out" /\ reads' = Unmounted(reads)
  /\ tapped' = None
  /\ UNCHANGED <<api, bundled, page, screen>>

GateAnswered(r) ==
  /\ r \in reads /\ r.op = "gate" /\ r.is # "sent" /\ Taken(r)
  /\ IF r.is = "answered" /\ (~r.status.active \/ r.status.missing # {})
     THEN GoToQuestions(reads \ {r})
     ELSE /\ gate' = IF r.is = "lost" THEN "unknown" ELSE "complete"
          /\ reads' = reads \ {r}
          /\ UNCHANGED <<page, screen>>
  /\ UNCHANGED <<api, bundled, who, tapped, trouble>>

GateRetry ==
  /\ gate = "unknown" /\ page = "home" /\ GoHome(reads)
  /\ UNCHANGED <<api, bundled, who, seen, offered, afterSeeks, busy, failed, tapped, trouble>>

\* The last question answered, the screen replaces itself by home.
Show(status, wasOffered, r) ==
  /\ seen' = status /\ offered' = wasOffered
  /\ IF nextStep(status, wasOffered) = "done" THEN GoHome(reads \ {r})
     ELSE reads' = reads \ {r} /\ UNCHANGED <<page, gate, steps>>

ScreenAnswered(r) ==
  /\ r \in reads /\ r.op \in {"load", "step"} /\ r.is # "sent" /\ r.live
  /\ IF r.is = "lost"
     THEN seen' = [is |-> "error"] /\ reads' = reads \ {r} /\ UNCHANGED <<offered, page, gate, steps>>
     ELSE Show(r.status, offered, r)
  /\ busy' = (busy /\ r.op = "load")
  /\ UNCHANGED <<api, bundled, who, afterSeeks, failed, tapped, trouble>>

ScreenRetry ==
  /\ page = "questions" /\ seen.is = "error" /\ \A r \in reads : ~r.live
  /\ reads' = reads \cup {Read("load")}
  /\ UNCHANGED <<api, bundled, who, page, gate, screen, tapped, trouble>>

Dropped(r) ==
  /\ r \in reads /\ ~r.live /\ r.is # "sent"
  /\ reads' = reads \ {r}
  /\ UNCHANGED <<api, bundled, who, page, gate, screen, tapped, trouble>>

-----------------------------------------------------------------------------
(* The buttons                                                             *)

\* Another wording than the one built in shows no button, but the update.
ShowsItsButton == bundled = seen.version

Consent(op) == [op |-> op, version |-> bundled]

AcceptBoth ==
  /\ Asks("consents") /\ ~busy /\ ShowsItsButton
  /\ step(<<Consent("terms"), Consent("privacy")>>)
  /\ UNCHANGED tapped

Declare ==
  /\ Asks("gender") /\ ~busy /\ step(<<[op |-> "gender"]>>)
  /\ UNCHANGED tapped

\* Seeks and the age window are one save: the first button only moves on.
ChooseSeeks ==
  /\ Asks("seeks") /\ afterSeeks' = TRUE
  /\ UNCHANGED <<api, bundled, who, page, gate, reads, steps, seen, offered, busy, failed,
                 tapped, trouble>>

SavePreferences ==
  /\ Asks("age") /\ ~busy /\ step(<<[op |-> "preferences"]>>)
  /\ UNCHANGED tapped

\* A pond's chip is not disabled while another one's step is under way.
ChoosePond(p) ==
  /\ Asks("pond") /\ step(<<[op |-> "pond", pond |-> p]>>)
  /\ tapped' = IF steps = {} THEN p ELSE None

SayYes ==
  /\ Asks("research") /\ ~busy /\ ShowsItsButton /\ step(<<Consent("research")>>)
  /\ UNCHANGED tapped

NotNow ==
  /\ Asks("research") /\ ~busy
  /\ Show(seen, TRUE, None)
  /\ UNCHANGED <<api, bundled, who, afterSeeks, busy, failed, tapped, trouble>>

\* A deploy with newer wordings; an update of the app, which starts it again.
NewWording ==
  /\ Trouble /\ current < MaxVersion /\ current' = current + 1
  /\ UNCHANGED <<rows, bundled, who, page, gate, reads, screen, tapped>>

UpdateApp ==
  /\ Trouble /\ bundled < MaxVersion /\ bundled' = bundled + 1
  /\ page' = "home" /\ reads' = IF who = None THEN {} ELSE {Read("gate")}
  /\ gate' = IF who = None THEN "signed-out" ELSE "checking"
  /\ steps' = {} /\ tapped' = None
  /\ UNCHANGED <<api, who, seen, offered, afterSeeks, busy, failed>>

Next ==
  \/ \E r \in reads :
       ServeRead(r) \/ LoseRead(r) \/ GateAnswered(r) \/ ScreenAnswered(r) \/ Dropped(r)
  \/ \E s \in steps : StepGoesOn(s) \/ StepFails(s)
  \/ \E a \in Account : SignIn(a)
  \/ \E p \in Pond : ChoosePond(p)
  \/ SignOut \/ GateRetry \/ ScreenRetry
  \/ AcceptBoth \/ Declare \/ ChooseSeeks \/ SavePreferences \/ SayYes \/ NotNow
  \/ NewWording \/ UpdateApp

Spec == Init /\ [][Next]_vars
-----------------------------------------------------------------------------
TypeOK ==
  /\ current \in 1 .. MaxVersion /\ bundled \in 1 .. MaxVersion
  /\ who \in Account \cup {None} /\ page \in {"home", "questions"}
  /\ gate \in {"signed-out", "checking", "complete", "incomplete", "unknown"}
  /\ \A r \in reads : r.op \in {"gate", "load", "step"} /\ r.is \in {"sent", "answered", "lost"}
  /\ \A a \in Account : rows[a].pond \in Pond \cup {None}

\* "Nothing personal is asked before the person has read what happens to it": no
\* answer is stored of an account that has not accepted both texts, in some
\* wording, whatever was lost or deployed on the way.
NothingBeforeConsent ==
  \A a \in Account :
    rows[a].declared # {} \/ rows[a].pond # None =>
      \A k \in Kinds : \E c \in rows[a].agreed : c.kind = k

\* The home screen opens for an account that was active when it was asked, and
\* never on the answer about another one.
GateIsTheirs ==
  /\ gate = "complete" => who # None /\ rows[who].active
  /\ who = None <=> gate = "signed-out"

\* The pond is the one tapped last, once nothing is under way: unless two taps
\* crossed or an answer was lost.
LastPondStands ==
  who # None /\ tapped # None /\ steps = {} => rows[who].pond = tapped
=============================================================================
