---------------------------- MODULE Registration ----------------------------
(***************************************************************************)
(* The re-registration rule of apps/api/src/identity/registration.ts, as   *)
(* pure operators: what a bank login becomes for the person it identified, *)
(* and what an erasure writes on the identity row it keeps.                *)
(*                                                                         *)
(* Time is a natural number.  NoDate stands for the null of the column     *)
(* reregister_after: no instant is smaller, so a null date never refuses.  *)
(***************************************************************************)
EXTENDS Naturals

CONSTANT Cooldown  \* REREGISTER_COOLDOWN_DAYS, in units of the model's clock

ASSUME CooldownAssumption == Cooldown \in Nat \ {0}

NoDate == 0

Standings == {"ok", "sanctioned"}  \* suspended and banned are refused alike

IdentityRows ==
  [known: BOOLEAN, standing: Standings, deletions: Nat,
   reregisterAfter: Nat, refused: Nat]

\* What findIdentityByHmac answers for a person the database has never seen.
NoIdentity ==
  [known |-> FALSE, standing |-> "ok", deletions |-> 0,
   reregisterAfter |-> NoDate, refused |-> 0]

FreshIdentity == [NoIdentity EXCEPT !.known = TRUE]

CoolingDown(identity, t) == t < identity.reregisterAfter

\* Mutation: the rule without its cooldown.
decideWithoutCooldown(identity, hasLive, t) ==
  CASE ~identity.known                                -> "create_identity"
    [] identity.known /\ identity.standing # "ok"     -> "refuse"
    [] identity.known /\ identity.standing = "ok" /\ hasLive -> "resume"
    [] OTHER -> "create_account"

(***************************************************************************)
(* decideRegistration: the sanction first, then the live account, then the *)
(* cooldown; hasLive says whether the second read found a live account.    *)
(***************************************************************************)
decideRegistration(identity, hasLive, t) ==
  CASE ~identity.known                                -> "create_identity"
    [] identity.known /\ identity.standing # "ok"     -> "refuse"
    [] identity.known /\ identity.standing = "ok" /\ hasLive -> "resume"
    [] OTHER -> IF CoolingDown(identity, t) THEN "refuse" ELSE "create_account"

\* Mutation: the cooldown is counted backwards.
recordDeletionBackdated(identity, deletionsRead, at) ==
  [identity EXCEPT !.deletions = deletionsRead + 1,
                   !.reregisterAfter = at - Cooldown]

\* Mutation: a deletion that has its cooldown is not counted.
recordDeletionUncounted(identity, deletionsRead, at) ==
  [identity EXCEPT !.deletions = deletionsRead, !.reregisterAfter = at + Cooldown]

\* recordDeletion: one more deletion than was read, and the date of the cooldown.
recordDeletion(identity, deletionsRead, at) ==
  [identity EXCEPT !.deletions = deletionsRead + 1,
                   !.reregisterAfter = at + Cooldown]
=============================================================================
