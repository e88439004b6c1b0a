------------------------------ MODULE Moderation ------------------------------
(***************************************************************************)
(* A photo is seen by nobody else before it was approved (apps/api/src/    *)
(* media/moderation.ts, admin-routes.ts): the automatic check right after  *)
(* the upload, the nightly sweep that repeats it for what was missed, and  *)
(* the decision of a moderator race on two rows, photo and photo_review,   *)
(* and on the audit log.                                                   *)
(*                                                                         *)
(* A transaction is one step: its rows are locked in one order everywhere. *)
(* What the check sees is a choice; a photo's age is too, for the sweep    *)
(* only looks at photos older than ten minutes.                            *)
(***************************************************************************)
EXTENDS Naturals, FiniteSets, Sequences

CONSTANTS Photo, Staff, Handler, None,
          SWEEP_BATCH,
          MaxFailures   \* bound: checks that fail, and requests that die

ASSUME ModerationAssumption ==
  None \notin Staff /\ SWEEP_BATCH \in Nat \ {0} /\ MaxFailures \in Nat

VARIABLES
  photo,     \* photo.state, "none" before the upload and "gone" after
  uploads,   \* photos in the order of created_at
  old,       \* photos uploaded more than RECHECK_AFTER_MS ago
  card,      \* photos whose card variant is in the store
  review,    \* photo_review rows
  audit,     \* audit_log: for each photo the decisions, in order
  call,      \* uploads' checks, sweeps and staff's requests
  failures   \* failures so far

vars == <<photo, uploads, old, card, review, audit, call, failures>>

NoReview == [decision |-> None, by |-> None]
Idle == [pc |-> "idle", photo |-> None, batch |-> {}, decision |-> None, by |-> None]

Init ==
  /\ photo = [p \in Photo |-> "none"]
  /\ uploads = <<>> /\ old = {} /\ card = {}
  /\ review = [p \in Photo |-> NoReview]
  /\ audit = [p \in Photo |-> <<>>]
  /\ call = [c \in Handler |-> Idle]
  /\ failures = 0

Exists(p) == photo[p] \notin {"none", "gone"}

Goto(c, pc) == call' = [call EXCEPT ![c].pc = pc]
Finish(c)   == call' = [call EXCEPT ![c] = Idle]

-----------------------------------------------------------------------------
(* The photo, as far as Moderation depends on it                           *)

\* insertPhoto, after the variants were stored, and moderatePhoto in the same request.
UploadPhoto(c, p) ==
  /\ call[c] = Idle /\ photo[p] = "none"
  /\ photo' = [photo EXCEPT ![p] = "pending"]
  /\ uploads' = Append(uploads, p)
  /\ card' = card \cup {p}
  /\ call' = [call EXCEPT ![c] = [Idle EXCEPT !.pc = "inspect", !.photo = p]]
  /\ UNCHANGED <<old, review, audit, failures>>

\* The owner deletes the photo or the account is erased; photo_review cascades.
DeletePhoto(p) ==
  /\ Exists(p)
  /\ photo' = [photo EXCEPT ![p] = "gone"]
  /\ review' = [review EXCEPT ![p] = NoReview]
  /\ card' = card \ {p}
  /\ UNCHANGED <<uploads, old, audit, call, failures>>

\* Ten minutes pass.
GrowOld(p) ==
  /\ Exists(p) /\ p \notin old
  /\ old' = old \cup {p}
  /\ UNCHANGED <<photo, uploads, card, review, audit, call, failures>>

-----------------------------------------------------------------------------
(* The automatic check                                                     *)

\* What an inspection comes to under the thresholds: whether it ran, whether a
\* label reaches the threshold, whether a face does.
Inspections == [checked : BOOLEAN, flagged : BOOLEAN, face : BOOLEAN]

\* Mutation: what is flagged is refused without a person.
decideAlone(i) == IF i.flagged THEN "rejected" ELSE IF i.checked /\ i.face THEN "approved" ELSE "queued"

decideModeration(i) == IF i.checked /\ ~i.flagged /\ i.face THEN "approved" ELSE "queued"

Inspect(c) ==
  /\ call[c].pc = "inspect"
  /\ \E i \in Inspections :
       call' = [call EXCEPT ![c].pc = "record", ![c].decision = decideModeration(i)]
  /\ UNCHANGED <<photo, uploads, old, card, review, audit, failures>>

\* ORDER BY created_at LIMIT n.
Oldest(S, n) ==
  LET Before(p, q) == \E i, j \in DOMAIN uploads : i < j /\ uploads[i] = p /\ uploads[j] = q
  IN  {p \in S : Cardinality({q \in S : Before(q, p)}) < n}

\* The sweep goes on with the next photo of its batch, an upload's check is over.
GoOn(c, batch) ==
  IF batch = {} THEN Finish(c)
  ELSE \E p \in Oldest(batch, 1) :
         call' = [call EXCEPT ![c] =
           [Idle EXCEPT !.pc = "card", !.photo = p, !.batch = batch \ {p}]]

NextOfBatch(c) == GoOn(c, call[c].batch)

\* The inspection throws: the photo stays pending, and the sweep goes on.
InspectFails(c) ==
  /\ call[c].pc = "inspect" /\ failures < MaxFailures
  /\ failures' = failures + 1
  /\ NextOfBatch(c)
  /\ UNCHANGED <<photo, uploads, old, card, review, audit>>

\* The WHERE of upsertAutomaticReview.
Overwritable(p) == review[p].by = None

Movable(p) == photo[p] = "pending"

\* The transaction of moderatePhoto: the review, then the move from pending.
Record(c) ==
  /\ call[c].pc = "record" /\ Exists(call[c].photo)
  /\ LET p == call[c].photo  d == call[c].decision
     IN  /\ review' = IF Overwritable(p) THEN [review EXCEPT ![p] = [decision |-> d, by |-> None]]
                      ELSE review
         /\ photo' = IF Movable(p) THEN [photo EXCEPT ![p] = d] ELSE photo
  /\ NextOfBatch(c)
  /\ UNCHANGED <<uploads, old, card, audit, failures>>

\* The review's foreign key: the photo is gone.  The error ends the sweep.
RecordFails(c) ==
  /\ call[c].pc = "record" /\ ~Exists(call[c].photo)
  /\ Finish(c)
  /\ UNCHANGED <<photo, uploads, old, card, review, audit, failures>>

-----------------------------------------------------------------------------
(* sweepPendingPhotos                                                      *)

\* Mutation: a photo the check has failed for once is left to the owner.
MissedWithoutReview(p) == photo[p] = "pending" /\ p \in old /\ review[p].decision # None

Missed(p) == photo[p] = "pending" /\ p \in old /\ review[p].by = None

findPendingUnchecked == Oldest({p \in Photo : Missed(p)}, SWEEP_BATCH)

StartSweep(c) ==
  /\ call[c] = Idle
  /\ findPendingUnchecked # {}
  /\ GoOn(c, findPendingUnchecked)
  /\ UNCHANGED <<photo, uploads, old, card, review, audit, failures>>

GetCard(c) ==
  /\ call[c].pc = "card"
  /\ IF call[c].photo \in card THEN Goto(c, "inspect") ELSE NextOfBatch(c)
  /\ UNCHANGED <<photo, uploads, old, card, review, audit, failures>>

-----------------------------------------------------------------------------
(* POST /admin/photos/{id}/decision                                        *)

\* findPhotoForStaff: a photo that is not queued is refused without a trace.
BeginDecision(c, s, p, d) ==
  /\ call[c] = Idle /\ photo[p] = "queued"
  /\ call' = [call EXCEPT ![c] =
       [Idle EXCEPT !.pc = "decide", !.photo = p, !.by = s, !.decision = d]]
  /\ UNCHANGED <<photo, uploads, old, card, review, audit, failures>>

\* Mutation: the UPDATE is not keyed on the state.
DecidableAgain(p) == Exists(p)

\* The WHERE of decidePhoto.
Decidable(p) == photo[p] = "queued"

\* Mutation: the refusal leaves its audit row.
RefusedWithEntry(c) == audit' = [audit EXCEPT ![call[c].photo] = Append(@, call[c].by)]

Refused(c) == UNCHANGED audit

\* recordAudit and decidePhoto in one transaction, rolled back by the 409.
Decide(c) ==
  /\ call[c].pc = "decide"
  /\ LET p == call[c].photo
     IN  IF Decidable(p)
         THEN /\ audit' = [audit EXCEPT ![p] = Append(@, call[c].by)]
              /\ photo' = [photo EXCEPT ![p] = call[c].decision]
              /\ review' = [review EXCEPT ![p] = [decision |-> call[c].decision, by |-> call[c].by]]
         ELSE Refused(c) /\ UNCHANGED <<photo, review>>
  /\ Finish(c)
  /\ UNCHANGED <<uploads, old, card, failures>>

\* A process dies with whatever it was doing; nothing half written stays.
Crash(c) ==
  /\ call[c] # Idle /\ failures < MaxFailures
  /\ failures' = failures + 1
  /\ Finish(c)
  /\ UNCHANGED <<photo, uploads, old, card, review, audit>>

-----------------------------------------------------------------------------
CheckStep(c) == GetCard(c) \/ Inspect(c) \/ Record(c) \/ RecordFails(c)

Next ==
  \/ \E c \in Handler :
       \/ CheckStep(c) \/ InspectFails(c) \/ StartSweep(c) \/ Decide(c) \/ Crash(c)
       \/ \E p \in Photo :
            \/ UploadPhoto(c, p)
            \/ \E s \in Staff, d \in {"approved", "rejected"} : BeginDecision(c, s, p, d)
  \/ \E p \in Photo : DeletePhoto(p) \/ GrowOld(p)

Spec == Init /\ [][Next]_vars

\* Requests and sweeps run to their end, the night comes again, time passes.
FairSpec ==
  /\ Spec
  /\ \A c \in Handler : WF_vars(CheckStep(c)) /\ WF_vars(Decide(c))
  /\ WF_vars(\E c \in Handler : StartSweep(c))
  /\ \A p \in Photo : WF_vars(GrowOld(p))

-----------------------------------------------------------------------------
Calls ==
  [pc : {"idle"}, photo : {None}, batch : {{}}, decision : {None}, by : {None}]
    \cup [pc : {"inspect", "card"}, photo : Photo, batch : SUBSET Photo, decision : {None}, by : {None}]
    \cup [pc : {"record"}, photo : Photo, batch : SUBSET Photo,
          decision : {"approved", "queued"}, by : {None}]
    \cup [pc : {"decide"}, photo : Photo, batch : {{}},
          decision : {"approved", "rejected"}, by : Staff]

\* Every variable has its type; the automatic check sends a photo on or to a
\* person and never rejects, so no check carries that decision.
TypeOK ==
  /\ photo \in [Photo -> {"none", "pending", "approved", "queued", "rejected", "gone"}]
  /\ old \subseteq Photo /\ card \subseteq Photo /\ failures \in 0 .. MaxFailures
  /\ review \in [Photo -> [decision : {None, "approved", "queued", "rejected"}, by : Staff \cup {None}]]
  /\ audit \in [Photo -> Seq(Staff)] /\ uploads \in Seq(Photo)
  /\ call \in [Handler -> Calls]

\* The two rows of a photo tell one story (moderation.ts, "the record and the
\* move are one unit"): pending has no review, a person's decision is what the
\* photo is, and rejected is only ever a person's.
RowsAgree ==
  \A p \in Photo :
    /\ photo[p] \in {"none", "pending", "gone"} => review[p] = NoReview
    /\ review[p].by # None => photo[p] = review[p].decision
    /\ photo[p] = "rejected" => review[p].by # None

\* Each photo a person decided about has exactly one entry in the audit log,
\* theirs: of two moderators one writes, the other's entry is rolled back.
DecisionsAreAudited ==
  \A p \in Photo :
    /\ Len(audit[p]) <= 1
    /\ review[p].by # None => audit[p] = <<review[p].by>>

\* What the records of a photo say of it, and of whoever decided: both of the above.
RecordsAgree == RowsAgree /\ DecisionsAreAudited

\* What a person decided stands until the photo goes, whatever checks, sweeps
\* and other moderators were under way.
PersonDecides ==
  [][\A p \in Photo :
       review[p].by # None =>
         \/ review'[p] = review[p] /\ photo'[p] = photo[p]
         \/ photo'[p] = "gone"]_vars

\* Crashes and failed checks leave no photo waiting for ever: while the night
\* comes again, a pending photo is checked or gone (findPendingUnchecked).
EveryPhotoIsChecked ==
  \A p \in Photo : photo[p] = "pending" ~> photo[p] # "pending"
=============================================================================
