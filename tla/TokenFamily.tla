---------------------------- MODULE TokenFamily ----------------------------
(***************************************************************************)
(* What rotating refresh tokens promise, whatever the table looks like.    *)
(*                                                                         *)
(* A bank login opens a family of tokens.  A family has one live token at  *)
(* a time; the live token is spent for the next one, so the tokens of a    *)
(* family form one chain and each of them is spent at most once, by one of *)
(* the refreshes that present it.  A family that has ended stays ended:    *)
(* none of its tokens is ever spent again.                                 *)
(***************************************************************************)
CONSTANTS Family, Token, None

VARIABLES
  state,  \* of each family
  live,   \* the token of each family that can be spent
  of,     \* the family each token was drawn for, None for a token never drawn
  spent   \* tokens that bought the next one

vars == <<state, live, of, spent>>

TypeOK ==
  /\ state \in [Family -> {"none", "alive", "ended"}]
  /\ live \in [Family -> Token \cup {None}]
  /\ of \in [Token -> Family \cup {None}]
  /\ spent \subseteq Token

Init ==
  /\ state = [f \in Family |-> "none"]
  /\ live = [f \in Family |-> None]
  /\ of = [t \in Token |-> None]
  /\ spent = {}

Open(f, t) ==
  /\ state[f] = "none"
  /\ of[t] = None
  /\ state' = [state EXCEPT ![f] = "alive"]
  /\ live' = [live EXCEPT ![f] = t]
  /\ of' = [of EXCEPT ![t] = f]
  /\ UNCHANGED spent

Spend(f, t, next) ==
  /\ state[f] = "alive"
  /\ live[f] = t
  /\ t \notin spent
  /\ of[next] = None
  /\ live' = [live EXCEPT ![f] = next]
  /\ of' = [of EXCEPT ![next] = f]
  /\ spent' = spent \cup {t}
  /\ UNCHANGED state

End(F) ==
  /\ \A f \in F : state[f] = "alive"
  /\ state' = [f \in Family |-> IF f \in F THEN "ended" ELSE state[f]]
  /\ UNCHANGED <<live, of, spent>>

Next ==
  \/ \E f \in Family, t \in Token : Open(f, t)
  \/ \E f \in Family, t, next \in Token : Spend(f, t, next)
  \/ \E F \in SUBSET Family : End(F)

Spec == Init /\ [][Next]_vars
=============================================================================
