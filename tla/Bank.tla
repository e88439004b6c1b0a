-------------------------------- MODULE Bank --------------------------------
(***************************************************************************)
(* The broker of the bank login (apps/api/src/identity/oidc-broker.ts,     *)
(* discovery.ts, broker.ts): one adapter, and two dialects of it.  Against *)
(* Telia the request is signed and the ID token encrypted to our key;      *)
(* against the mock it is plain OpenID Connect.  The bank publishes its    *)
(* keys, signs with one of them, and changes it while people log in; what  *)
(* the adapter's library does (openid-client: the checks of the code       *)
(* grant, the keys it holds for five minutes) is modelled from the options *)
(* the code gives it.  A minute is a unit of time.                         *)
(***************************************************************************)
EXTENDS Naturals, FiniteSets

CONSTANTS Attempt,     \* logins, each of a person of its own
          Key, None,
          AcrLevels,   \* the levels of assurance a bank can name
          MaxTime, MaxFaults

\* There is a key at the start, the level asked for is one, and None is no value.
BankAssumption ==
  /\ {MaxTime, MaxFaults} \subseteq Nat /\ Key # {}
  /\ None \notin Attempt \cup AcrLevels \cup Nat /\ "asked" \in AcrLevels

VARIABLES
  now,
  issuer,      \* "telia" or "mock"
  keysGiven,   \* TELIA_SIGNING_KEY and TELIA_ENCRYPTION_KEY are configured
  acrValues,   \* the levels asked for; {} when none is configured
  published,   \* when the bank published a key; None before
  signing,     \* the key it signs with
  held,        \* the keys the library holds, and since when
  login,       \* an attempt's way through the bank and back
  hasty,       \* a key was signed with within a minute of its publication
  faults

vars == <<now, issuer, keysGiven, acrValues, published, signing, held, login, hasty, faults>>

PublishedKeys == {k \in Key : published[k] # None}

FIRST == CHOOSE k \in Key : TRUE

\* OidcBroker.create: a Telia issuer needs our keys.
create == issuer = "telia" => keysGiven

Init ==
  /\ now = 0
  /\ issuer \in {"telia", "mock"} /\ keysGiven \in BOOLEAN /\ acrValues \in {{}, {"asked"}}
  /\ create
  /\ published = [k \in Key |-> IF k = FIRST THEN 0 ELSE None] /\ signing = FIRST
  /\ held = [keys |-> {FIRST}, at |-> 0]
  /\ login = [a \in Attempt |-> [at |-> "none"]] /\ hasty = FALSE /\ faults = 0

Tick ==
  /\ now < MaxTime /\ now' = now + 1
  /\ UNCHANGED <<issuer, keysGiven, acrValues, published, signing, held, login, hasty, faults>>

-----------------------------------------------------------------------------
(* The bank                                                                *)

Publish(k) ==
  /\ published[k] = None /\ published' = [published EXCEPT ![k] = now]
  /\ UNCHANGED <<now, issuer, keysGiven, acrValues, signing, held, login, hasty, faults>>

SignWith(k) ==
  /\ published[k] # None /\ k # signing /\ signing' = k
  /\ hasty' = (hasty \/ now < published[k] + 1)
  /\ UNCHANGED <<now, issuer, keysGiven, acrValues, published, held, login, faults>>

\* A person names themselves at the bank, which answers with a code for their token.  A
\* bank that is not set up as it should be leaves a claim out or says another, or does
\* not encrypt.
Identify(a, token) ==
  /\ login[a].at = "sent"
  /\ login' = [login EXCEPT ![a] = [at |-> "answered", token |-> token]]
  /\ faults' = faults + IF token.mistaken THEN 1 ELSE 0
  /\ faults' <= MaxFaults
  /\ UNCHANGED <<now, issuer, keysGiven, acrValues, published, signing, held, hasty>>

Token(a) ==
  [hetu |-> a, nonce |-> a, acr |-> "asked", encrypted |-> issuer = "telia",
   key |-> signing, mistaken |-> FALSE]

Mistakes(t) ==
  {[t EXCEPT !.hetu = None, !.mistaken = TRUE], [t EXCEPT !.acr = None, !.mistaken = TRUE],
   [t EXCEPT !.encrypted = FALSE, !.mistaken = issuer = "telia"]}
  \cup {[t EXCEPT !.acr = l, !.mistaken = TRUE] : l \in AcrLevels \ {"asked"}}
  \cup {[t EXCEPT !.hetu = b, !.nonce = b, !.mistaken = TRUE] : b \in Attempt \ {t.nonce}}

-----------------------------------------------------------------------------
(* The adapter                                                             *)

\* startLogin: the state and the nonce, and Telia's request signed.
startLogin(a) ==
  /\ login[a].at = "none"
  /\ login' = [login EXCEPT ![a] = [at |-> "sent"]]
  /\ UNCHANGED <<now, issuer, keysGiven, acrValues, published, signing, held, hasty, faults>>

\* The issuer's keys: fetched again when they are five minutes old, or for a key they
\* lack once they are a minute old.
KeysFor(k) ==
  IF now >= held.at + 5 \/ (k \notin held.keys /\ now >= held.at + 1)
  THEN [keys |-> PublishedKeys, at |-> now] ELSE held

\* identityFromClaims: the level we asked for is the level we accept.
identityFromClaims(t) ==
  IF t.hetu = None THEN "no identity code"
  ELSE IF t.acr = None THEN "no acr"
  ELSE IF acrValues # {} /\ t.acr \notin acrValues THEN "unexpected acr"
  ELSE "identified"

\* completeLogin: signature, nonce and encryption, and then the claims.  A token in the
\* clear is not from a bank that has our key.
completeLogin(a) ==
  LET t == login[a].token
      keys == KeysFor(t.key)
      answer == IF t.key \notin keys.keys THEN "no key"
                ELSE IF t.nonce # a THEN "unexpected nonce"
                ELSE IF keysGiven /\ ~t.encrypted THEN "not encrypted"
                ELSE identityFromClaims(t)
  IN /\ login[a].at = "answered"
     /\ held' = keys
     /\ login' = [login EXCEPT ![a] =
          [at |-> answer, mistaken |-> t.mistaken,
           is |-> IF answer = "identified" THEN t.hetu ELSE None,
           acr |-> IF answer = "identified" THEN t.acr ELSE None]]
     /\ UNCHANGED <<now, issuer, keysGiven, acrValues, published, signing, hasty, faults>>

Next ==
  \/ Tick
  \/ \E k \in Key : Publish(k) \/ SignWith(k)
  \/ \E a \in Attempt :
       \/ startLogin(a) \/ completeLogin(a)
       \/ \E t \in {Token(a)} \cup Mistakes(Token(a)) : Identify(a, t)

Spec == Init /\ [][Next]_vars

-----------------------------------------------------------------------------
TypeOK ==
  /\ now \in 0 .. MaxTime /\ faults \in 0 .. MaxFaults
  /\ held.keys \subseteq PublishedKeys /\ held.at <= now
  /\ \A a \in Attempt : login[a].at \in {"none", "sent", "answered", "identified", "no key",
       "unexpected nonce", "not encrypted", "no identity code", "no acr", "unexpected acr"}

\* A login is the person's who named themselves in it, at the level asked for, whatever
\* the bank got wrong.
LoginsAreTheirs ==
  \A a \in Attempt : login[a].at = "identified" =>
    /\ login[a].is = a
    /\ acrValues # {} => login[a].acr \in acrValues

\* Where the bank makes no mistake the login completes, and a change of its keys is not
\* noticed: "a key published in advance is picked up without a restart"
\* (oidc-broker.ts:16).  But the mock does not get a person in when our keys are there
\* beside it, which oidc-broker.ts:24 says it ignores.
NoLoginFailsForUs ==
  \A a \in Attempt :
    "mistaken" \in DOMAIN login[a] /\ ~login[a].mistaken /\ ~hasty
      /\ ~(issuer = "mock" /\ keysGiven) => login[a].at = "identified"
=============================================================================
