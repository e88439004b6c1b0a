-------------------------------- MODULE Panel --------------------------------
(***************************************************************************)
(* The staff session as one tab of the admin panel keeps it (session.tsx   *)
(* of apps/admin): a code or a refusal in the address, a session in the    *)
(* tab's storage, and what is shown, over loads of the page, the way to    *)
(* the bank and back, and answers that are late or lost.  In development   *)
(* React runs the provider's effect twice.  What the API does for a        *)
(* request is module Staff's; here it is one step.                         *)
(***************************************************************************)
EXTENDS Naturals, FiniteSets

CONSTANTS None,
          MaxLogins,     \* bound: bank logins that bring a code, which are numbered
          MaxTrouble     \* bound: answers lost, loads, sessions that end at the API, refusals

PanelAssumption == None \notin Nat /\ {MaxLogins, MaxTrouble} \subseteq Nat

VARIABLES
  development,  \* the build runs the effect twice
  page,         \* "shown", or "bank" once the button has sent the browser away
  stored,       \* the session in sessionStorage, or None
  state,        \* what the panel shows
  calls,        \* the page's requests under way
  api,          \* per session: "none" until its code is exchanged, "live" or "over"
  logins,       \* codes handed out so far; code n brings session n
  asked,        \* history: how often each code was sent
  told,         \* history: the address of this page carried a refusal
  crossed,      \* history: a sign-out passed a check under way
  trouble

vars == <<development, page, stored, state, calls, api, logins, asked, told, crossed, trouble>>

SessionIds == 1 .. MaxLogins

\* What the address carries: nothing, the number of a code, or a refusal.
Nothing == 0
Refusal == MaxLogins + 1

SignedOut(error) == [status |-> "signed-out", error |-> error]
SignedIn(s) == [status |-> "signed-in", session |-> s]

Init ==
  /\ development \in BOOLEAN
  /\ page = "shown" /\ stored = None /\ state = SignedOut("none") /\ calls = {}
  /\ api = [s \in SessionIds |-> "none"] /\ logins = 0 /\ asked = [s \in SessionIds |-> 0]
  /\ told = FALSE /\ crossed = FALSE /\ trouble = 0

-----------------------------------------------------------------------------
(* A load of the page                                                      *)

\* readStored: a session past its eight hours is none; it stays in storage.
readStored(s) == IF s # None /\ api[s] # "expired" THEN s ELSE None

Call(op, s) == [op |-> op, session |-> s, is |-> "sent"]

\* A run that finds nothing signs out only a panel that shows nothing yet.
SignsOutIfLoading(x) == IF x.state.status = "loading" THEN SignedOut("none") ELSE x.state

\* One run of the effect up to its first wait, on what the page has become.
Run(x, fragment) ==
  IF fragment = Refusal
  THEN [x EXCEPT !.stored = None, !.state = SignedOut("admin_not_allowed")]
  ELSE IF fragment \in SessionIds
  THEN [x EXCEPT !.calls = @ \cup {Call("exchange", fragment)}]
  ELSE IF readStored(x.stored) # None
  THEN [x EXCEPT !.state = SignedIn(x.stored), !.calls = @ \cup {Call("whoami", x.stored)}]
  ELSE [x EXCEPT !.state = SignsOutIfLoading(x)]

\* The fragment is consumed once, by the run that finds it.
Consumed(fragment) == Nothing

Fresh == [stored |-> stored, state |-> [status |-> "loading"], calls |-> {}]

\* The cleanup between the two runs unmounts the first, whose whoami then says
\* nothing; the second asks again with the same session.
Load(fragment) ==
  LET first == Run(Fresh, fragment)
      x == IF development THEN Run(first, Consumed(fragment)) ELSE first
  IN  /\ page' = "shown"
      /\ stored' = x.stored /\ state' = x.state /\ calls' = x.calls
      /\ asked' = [s \in SessionIds |->
                     asked[s] + IF s = fragment
                                THEN IF development /\ Consumed(fragment) = s THEN 2 ELSE 1
                                ELSE 0]
      /\ told' = (fragment = Refusal) /\ crossed' = FALSE
      /\ UNCHANGED <<development, api>>

Trouble == trouble < MaxTrouble /\ trouble' = trouble + 1

\* Answers of the page before come to nobody.
Reload == Trouble /\ page = "shown" /\ Load(Nothing) /\ UNCHANGED logins

\* The button; a panel that shows the queue has none.
signIn ==
  /\ page = "shown" /\ state.status = "signed-out" /\ page' = "bank"
  /\ calls' = {}
  /\ UNCHANGED <<development, stored, state, api, logins, asked, told, crossed, trouble>>

ComesBack ==
  /\ page = "bank"
  /\ \/ logins < MaxLogins /\ logins' = logins + 1 /\ Load(logins + 1) /\ UNCHANGED trouble
     \/ Trouble /\ UNCHANGED logins /\ \E fragment \in {Refusal, Nothing} : Load(fragment)

-----------------------------------------------------------------------------
(* The API                                                                 *)

Serve(c) ==
  /\ c.is = "sent"
  /\ LET s == c.session
         ok == api[s] = IF c.op = "exchange" THEN "none" ELSE "live"
     IN  /\ api' = CASE ok /\ c.op = "exchange" -> [api EXCEPT ![s] = "live"]
                     [] ok /\ c.op = "logout"   -> [api EXCEPT ![s] = "over"]
                     [] OTHER -> api
         /\ calls' = (calls \ {c}) \cup {[c EXCEPT !.is = IF ok THEN "answered" ELSE "refused"]}
  /\ UNCHANGED <<development, page, stored, state, logins, asked, told, crossed, trouble>>

\* A role taken away ends its sessions and codes, eight hours end a session, and a
\* code's minute is over, unasked.
SessionEnds(s) ==
  /\ Trouble /\ s <= logins /\ api[s] \in {"none", "live"}
  /\ \E how \in {"over", "expired"} : api' = [api EXCEPT ![s] = how]
  /\ UNCHANGED <<development, page, stored, state, calls, logins, asked, told, crossed>>

-----------------------------------------------------------------------------
(* Answers                                                                 *)

Settle(c) ==
  /\ calls' = calls \ {c}
  /\ UNCHANGED <<development, page, api, logins, asked, told, trouble>>

\* Not gated on mounted: the code is spent, and the first run's answer counts.
ExchangeReturns(c) ==
  /\ c.op = "exchange" /\ c.is # "sent" /\ Settle(c)
  /\ IF c.is = "answered"
     THEN stored' = c.session /\ state' = SignedIn(c.session)
     ELSE state' = SignedOut("generic") /\ UNCHANGED stored
  /\ UNCHANGED crossed

\* The API refuses the stored session: it is dropped.
DropsStored == None

WhoamiReturns(c) ==
  /\ c.op = "whoami" /\ c.is # "sent" /\ Settle(c)
  /\ IF c.is = "answered"
     THEN state' = SignedIn(c.session) /\ UNCHANGED stored
     ELSE stored' = DropsStored /\ state' = SignedOut("none")
  /\ UNCHANGED crossed

\* A request that fails on the way throws: nothing of the panel changes.
Lost(c) ==
  /\ Trouble /\ c.op # "logout"
  /\ calls' = calls \ {c}
  /\ UNCHANGED <<development, page, stored, state, api, logins, asked, told, crossed>>

signOut ==
  /\ page = "shown" /\ state.status = "signed-in"
  /\ calls' = calls \cup {Call("logout", state.session)}
  /\ crossed' = (crossed \/ \E c \in calls : c.op = "whoami")
  /\ UNCHANGED <<development, page, stored, state, api, logins, asked, told, trouble>>

\* Whatever came of it, or nothing: this tab is signed out.
SignOutReturns(c) ==
  /\ c.op = "logout" /\ Settle(c)
  /\ stored' = None /\ state' = SignedOut("none")
  /\ UNCHANGED crossed

Next ==
  \/ Reload \/ signIn \/ ComesBack \/ signOut
  \/ \E s \in SessionIds : SessionEnds(s)
  \/ \E c \in calls :
       Serve(c) \/ ExchangeReturns(c) \/ WhoamiReturns(c) \/ Lost(c) \/ SignOutReturns(c)

Spec == Init /\ [][Next]_vars

-----------------------------------------------------------------------------
TypeOK ==
  /\ page \in {"shown", "bank"} /\ stored \in SessionIds \cup {None}
  /\ state.status \in {"loading", "signed-out", "signed-in"}
  /\ \A c \in calls : c.op \in {"exchange", "whoami", "logout"}
  /\ \A s \in SessionIds : api[s] \in {"none", "live", "over", "expired"}

\* A code is sent once, however often the effect runs and the page is loaded.
CodesAreSentOnce == \A s \in SessionIds : asked[s] <= 1

\* With nothing under way the panel shows what it has stored: signed in with the
\* session that a reload would find, or signed out with none left to find: unless
\* the sign-out passed a check that was under way.
ShownIsStored ==
  calls = {} /\ page = "shown" /\ ~crossed =>
    /\ state.status = "signed-in" => stored = state.session
    /\ state.status = "signed-out" => readStored(stored) = None

\* The reason the bank login was turned away stays until the next one.
RefusalStaysShown == told => state = SignedOut("admin_not_allowed")
=============================================================================
