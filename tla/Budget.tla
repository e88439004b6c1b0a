------------------------------- MODULE Budget -------------------------------
(***************************************************************************)
(* The exposure budget of one viewer (apps/api/src/media/budget.ts,        *)
(* photos.ts issuePhotoUrl, repo.ts insertPhotoAccess and                  *)
(* recordCardServed, profile/card.ts): so many fetches of a variant and so *)
(* many people's cards a Finnish day.  A request reads the photo and the   *)
(* clock, then waits for an advisory lock under which one statement counts *)
(* and writes; statements see what was committed when they began.          *)
(*                                                                         *)
(* No route serves another person's card yet; buildCard is modelled as the *)
(* round builder will call it.                                             *)
(***************************************************************************)
EXTENDS Naturals, Sequences, FiniteSets

CONSTANTS Photo, Subject, Variant, Handler, None,
          OwnerOf,      \* [Photo -> Subject], None for the viewer's own
          FetchLimit,   \* matching_config.photo_fetches_per_day, the same for each variant
          CardLimit,    \* matching_config.exposure_cards_per_day
          MaxDay,       \* bound: days
          MaxRows       \* bound: photo_access rows

\* A photo is somebody's or the viewer's; what is locked for a variant is not the cards' key.
BudgetAssumption ==
  /\ {FetchLimit, CardLimit, MaxDay, MaxRows} \subseteq Nat /\ MaxDay > 0
  /\ IsFiniteSet(Photo) /\ OwnerOf \in [Photo -> Subject \cup {None}]
  /\ None \notin Subject \cup Nat /\ "cards" \notin Variant

VARIABLES
  day,      \* the Finnish day it is
  photo,    \* the photos' states
  access,   \* photo_access rows
  shown,    \* card_shown.at of the viewer's rows, as a day, None without a row
  charged,  \* cards that took room, [subject, day]; a subject's go with any photo of theirs
  call

vars == <<day, photo, access, shown, charged, call>>

Idle == [pc |-> "idle"]

Init ==
  /\ day = 1
  /\ photo = [p \in Photo |-> "pending"]
  /\ access = <<>> /\ shown = [p \in Photo |-> None] /\ charged = {}
  /\ call = [c \in Handler |-> Idle]

Become(c, state) == call' = [call EXCEPT ![c] = state]

Approved(s) == {p \in Photo : OwnerOf[p] = s /\ photo[p] = "approved"}

Holds(lock) == \E c \in Handler : call[c].pc = "write" /\ call[c].lock = lock

\* Mutation: the statement runs without the advisory lock.
UnlockedAlways(lock) == TRUE

\* pg_advisory_xact_lock on the variant's or the cards' key of this viewer.
Unlocked(lock) == ~Holds(lock)

-----------------------------------------------------------------------------
(* issuePhotoUrl                                                           *)

\* findVisiblePhoto: one's own, or approved and on a card the viewer was shown.
Visible(p) ==
  IF OwnerOf[p] = None THEN photo[p] # "gone" ELSE photo[p] = "approved" /\ shown[p] # None

\* The photo, then the clock.
BeginFetch(c, p, v) ==
  /\ call[c] = Idle /\ Visible(p)
  /\ Become(c, [pc |-> "fetch", lock |-> v, at |-> day])
  /\ UNCHANGED <<day, photo, access, shown, charged>>

Fetches(v, since) == {i \in DOMAIN access : access[i].variant = v /\ access[i].at >= since}

\* insertPhotoAccess takes the lock; its statement counts and finds room, or not.
CountFetches(c) ==
  /\ call[c].pc = "fetch" /\ Unlocked(call[c].lock)
  /\ IF Cardinality(Fetches(call[c].lock, call[c].at)) < FetchLimit
     THEN Become(c, [call[c] EXCEPT !.pc = "write"])
     ELSE Become(c, Idle)
  /\ UNCHANGED <<day, photo, access, shown, charged>>

WriteFetch(c) ==
  /\ call[c].pc = "write" /\ call[c].lock \in Variant /\ Len(access) < MaxRows
  /\ access' = Append(access, [variant |-> call[c].lock, at |-> call[c].at])
  /\ Become(c, Idle)
  /\ UNCHANGED <<day, photo, shown, charged>>

-----------------------------------------------------------------------------
(* buildCard for somebody else's card                                      *)

\* The subject is complete, so has an approved photo; the list, then the clock.
BeginCard(c, s) ==
  /\ call[c] = Idle /\ Approved(s) # {}
  /\ Become(c, [pc |-> "card", lock |-> "cards", subject |-> s, photos |-> Approved(s), at |-> day])
  /\ UNCHANGED <<day, photo, access, shown, charged>>

\* Subjects of the rows since the day began.
ShownSince(since) ==
  {OwnerOf[p] : p \in {q \in Photo : shown[q] # None /\ shown[q] >= since}}

CountCards(c) ==
  /\ call[c].pc = "card" /\ Unlocked("cards")
  /\ LET used == ShownSince(call[c].at)
     IN  IF Cardinality(used) < CardLimit \/ call[c].subject \in used
         THEN Become(c, [call[c] EXCEPT !.pc = "write"])
         ELSE Become(c, Idle)
  /\ UNCHANGED <<day, photo, access, shown, charged>>

\* ON CONFLICT: a row from before the day takes the request's date.
Redated(p, at) == IF shown[p] = None \/ shown[p] < at THEN at ELSE shown[p]

\* The insert, or its foreign key's error when a photo of the card is gone.
WriteCard(c) ==
  /\ call[c].pc = "write" /\ call[c].lock = "cards"
  /\ IF \E p \in call[c].photos : photo[p] = "gone"
     THEN UNCHANGED <<shown, charged>>
     ELSE /\ shown' = [p \in Photo |-> IF p \in call[c].photos THEN Redated(p, call[c].at) ELSE shown[p]]
          /\ charged' = IF call[c].subject \in ShownSince(call[c].at) THEN charged
                        ELSE charged \cup {[subject |-> call[c].subject, day |-> call[c].at]}
  /\ Become(c, Idle)
  /\ UNCHANGED <<day, photo, access>>

-----------------------------------------------------------------------------
\* Moderation approves.
Approve(p) ==
  /\ photo[p] = "pending"
  /\ photo' = [photo EXCEPT ![p] = "approved"]
  /\ UNCHANGED <<day, access, shown, charged, call>>

\* The owner deletes a photo; card_shown cascades, photo_access stays.
DeletePhoto(p) ==
  /\ photo[p] # "gone"
  /\ photo' = [photo EXCEPT ![p] = "gone"]
  /\ shown' = [shown EXCEPT ![p] = None]
  /\ charged' = {r \in charged : r.subject # OwnerOf[p]}
  /\ UNCHANGED <<day, access, call>>

Midnight ==
  /\ day < MaxDay
  /\ day' = day + 1
  /\ UNCHANGED <<photo, access, shown, charged, call>>

Next ==
  \/ \E c \in Handler :
       \/ CountFetches(c) \/ WriteFetch(c) \/ CountCards(c) \/ WriteCard(c)
       \/ \E p \in Photo, v \in Variant : BeginFetch(c, p, v)
       \/ \E s \in Subject : BeginCard(c, s)
  \/ \E p \in Photo : DeletePhoto(p) \/ Approve(p)
  \/ Midnight

Spec == Init /\ [][Next]_vars

-----------------------------------------------------------------------------
TypeOK ==
  /\ day \in 1 .. MaxDay
  /\ photo \in [Photo -> {"pending", "approved", "gone"}]
  /\ \A i \in DOMAIN access : access[i].variant \in Variant /\ access[i].at \in 1 .. day
  /\ shown \in [Photo -> 1 .. day \cup {None}]
  /\ charged \subseteq [subject : Subject, day : 1 .. day]
  /\ \A c \in Handler : call[c].pc \in {"idle", "fetch", "card", "write"}

\* No day goes over its fetches of a variant or its cards, though requests
\* count under a clock they read before they waited, on either side of
\* midnight, and rows of earlier days move to a later one.  A subject shown
\* already costs nothing more; one who deletes a photo may leave the count, for
\* the row that counted them is gone.
WithinBudgets ==
  \A d \in 1 .. day :
    /\ \A v \in Variant :
         Cardinality({i \in DOMAIN access : access[i].variant = v /\ access[i].at = d}) <= FetchLimit
    /\ Cardinality({r \in charged : r.day = d}) <= CardLimit
=============================================================================
