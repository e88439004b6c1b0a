----------------------------- MODULE Onboarding -----------------------------
(***************************************************************************)
(* Activation (apps/api/src/identity/onboarding.ts): an account becomes    *)
(* active when a status read finds nothing missing, a rule computed from   *)
(* rows that are read one after the other while the person, a second       *)
(* device and an erasure go on writing them.                               *)
(***************************************************************************)
EXTENDS Naturals

CONSTANTS Handler, MaxVersion   \* bound: wordings

VARIABLES
  account,   \* account.state
  declared,  \* what the account's and the preferences' rows answer
  agreed,    \* the consent rows [kind, version]
  current,   \* CURRENT_CONSENT_VERSIONS of terms and privacy
  call

vars == <<account, declared, agreed, current, call>>

Consents == {"terms", "privacy"}
\* savePreferences writes seeks and age_window together.
Declarations == {"gender", "preferences", "pond"}
Idle == [pc |-> "idle"]

Init ==
  /\ account = "registered" /\ declared = {} /\ agreed = {}
  /\ current = [k \in Consents |-> 1]
  /\ call = [c \in Handler |-> Idle]

Live == account # "deleted"

Become(c, state) == call' = [call EXCEPT ![c] = state]

-----------------------------------------------------------------------------
(* onboardingStatus                                                        *)

\* The account's row, gender included; a tombstone answers 404.
BeginStatus(c) ==
  /\ call[c] = Idle /\ Live
  /\ Become(c, [pc |-> "status", state |-> account, found |-> declared \cap {"gender"},
                left |-> {"preferences", "pond", "consents"}])
  /\ UNCHANGED <<account, declared, agreed, current>>

\* acceptedCurrent: a consent counts for the wording in force only.
accepted == {k \in Consents : [kind |-> k, version |-> current[k]] \in agreed}

\* One of three queries on three connections, in any order.
ReadPart(c) ==
  /\ call[c].pc = "status"
  /\ \E part \in call[c].left :
       Become(c, [call[c] EXCEPT !.left = @ \ {part},
                                 !.found = @ \cup IF part = "consents" THEN accepted
                                                  ELSE declared \cap {part}])
  /\ UNCHANGED <<account, declared, agreed, current>>

missingSteps(found) == (Declarations \cup Consents) \ found

\* Mutation: the update activates whatever account it finds.
ActivatesAny == TRUE

\* The WHERE of activateAccount.
Activates == account = "registered"

\* What onboardingStatus does when everything was read.
FinishStatus(c) ==
  /\ call[c].pc = "status" /\ call[c].left = {}
  /\ LET complete == missingSteps(call[c].found) = {}
         tries    == complete /\ call[c].state = "registered"
     IN  IF tries /\ Activates
         THEN /\ account' = "active"
              /\ Become(c, [pc |-> "answered", state |-> "active", complete |-> TRUE])
         ELSE /\ Become(c, IF tries THEN [pc |-> "lost"]
                           ELSE [pc |-> "answered", state |-> call[c].state, complete |-> complete])
              /\ UNCHANGED account
  /\ UNCHANGED <<declared, agreed, current>>

\* The state as stored now, unless the account was erased meanwhile.
Stored == IF Live THEN account ELSE "registered"

\* A parallel read won the update.
ReadStored(c) ==
  /\ call[c].pc = "lost"
  /\ Become(c, [pc |-> "answered", state |-> Stored, complete |-> TRUE])
  /\ UNCHANGED <<account, declared, agreed, current>>

Answered(c) ==
  /\ call[c].pc = "answered"
  /\ Become(c, Idle)
  /\ UNCHANGED <<account, declared, agreed, current>>

-----------------------------------------------------------------------------
(* The rows, each written under the account's lock by a live account only  *)

\* declareGender, savePreferences and the pond's choice replace, never clear.
Declare(step) ==
  /\ Live /\ step \notin declared
  /\ declared' = declared \cup {step}
  /\ UNCHANGED <<account, agreed, current, call>>

\* giveConsent of terms or privacy, for the current wording only.
GiveConsent(k) ==
  /\ Live /\ k \notin accepted
  /\ agreed' = agreed \cup {[kind |-> k, version |-> current[k]]}
  /\ UNCHANGED <<account, declared, current, call>>

\* eraseAccount: the tombstone keeps its consent rows and nothing declared.
Erase ==
  /\ Live
  /\ account' = "deleted" /\ declared' = {}
  /\ UNCHANGED <<agreed, current, call>>

\* A deploy with a newer wording of the kind; the requests of the old process end.
NewWording(k) ==
  /\ current[k] < MaxVersion
  /\ current' = [current EXCEPT ![k] = @ + 1]
  /\ call' = [c \in Handler |-> Idle]
  /\ UNCHANGED <<account, declared, agreed>>

Next ==
  \/ \E c \in Handler :
       BeginStatus(c) \/ ReadPart(c) \/ FinishStatus(c) \/ ReadStored(c) \/ Answered(c)
  \/ \E step \in Declarations : Declare(step)
  \/ \E k \in Consents : GiveConsent(k) \/ NewWording(k)
  \/ Erase

Spec == Init /\ [][Next]_vars

-----------------------------------------------------------------------------
TypeOK ==
  /\ account \in {"registered", "active", "deleted"}
  /\ declared \subseteq Declarations
  /\ agreed \subseteq [kind : Consents, version : 1 .. MaxVersion]
  /\ current \in [Consents -> 1 .. MaxVersion]
  /\ \A c \in Handler : call[c].pc \in {"idle", "status", "lost", "answered"}

\* A tombstone is bare and stays one, whatever status read was under way, and
\* nobody is active who never declared or agreed to what activation waits for.
ActiveOnlyOnboarded ==
  /\ account = "active" =>
       /\ declared = Declarations
       /\ \A k \in Consents : \E row \in agreed : row.kind = k
  /\ account = "deleted" => declared = {}

\* A status that found nothing missing says registered of an erased account
\* only: the loser of two activations answers with what is stored.
CompleteIsActive ==
  \A c \in Handler :
    call[c].pc = "answered" /\ call[c].complete /\ call[c].state = "registered" => ~Live
=============================================================================
