----------------------------- MODULE MCPondGate -----------------------------
(* Instances of PondGate for TLC. *)
EXTENDS PondGate

CONSTANTS m1, m2, w1, p1, p2

Men   == [seeks |-> {"man"}, min |-> 18, max |-> 99]
Women == [seeks |-> {"woman"}, min |-> 18, max |-> 99]
Both  == [seeks |-> {"man", "woman"}, min |-> 18, max |-> 99]

\* Of three people the man who registered first, another man, a woman.
RegisteredInOrder == [x \in Account |-> IF x = m1 THEN 1 ELSE IF x = m2 THEN 2 ELSE 3]

AgeOfAll == [x \in Account |-> 30]

Complete(x) ==
  [live |-> TRUE, pond |-> p1, gender |-> IF x = w1 THEN "woman" ELSE "man",
   prefs |-> IF x = w1 THEN Men ELSE Women, finished |-> TRUE]

AllComplete == {[x \in Account |-> Complete(x)]}

\* Each of them complete, still without a finished profile, or seeking both.
AnyOf ==
  [Account -> UNION {{Complete(x), [Complete(x) EXCEPT !.finished = FALSE],
                      [Complete(x) EXCEPT !.prefs = Both]} : x \in Account}]

Starts ==
  {a \in AnyOf : \A x \in Account : a[x].gender = Complete(x).gender}

MCPreferences == {Men, Women, Both}
=============================================================================
