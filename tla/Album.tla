------------------------------- MODULE Album -------------------------------
(***************************************************************************)
(* The photos screen of the app (apps/mobile/src/features/media): the list *)
(* it shows beside the one the API keeps, while answers are late or lost,  *)
(* an order is shown before the API has taken it, and the same account is  *)
(* changed from elsewhere.  A photo is its name; the screen numbers what   *)
(* it shows, so that a list is a sequence.                                 *)
(***************************************************************************)
EXTENDS Naturals, FiniteSets, SequencesExt

CONSTANTS None,
          MaxPhotos,     \* max_photos of the configuration
          MaxUploads,    \* bound: photos ever stored, numbered as they come
          MaxCalls,      \* bound: requests under way when another is made
          MaxTrouble     \* bound: answers lost, tokens refused, changes from elsewhere, reopenings

AlbumAssumption == None \notin Nat \cup Seq(Nat)

VARIABLES
  album,      \* the API's list
  list,       \* the screen's list, None before the first answer
  status,     \* "loading", "ready" or "error"
  busy,       \* what the screen is doing
  removing,   \* the photo the dialog asks about
  calls,      \* requests under way
  next,       \* the next photo's number
  doubled,    \* history: one upload has stored two photos
  trouble,
  behind      \* history: the screen missed a change it was told nothing of

vars == <<album, list, status, busy, removing, calls, next, doubled, trouble, behind>>

Request(op, arg) ==
  [op |-> op, arg |-> arg, is |-> "sent", answer |-> None, again |-> FALSE,
   stored |-> FALSE,     \* history: an upload that was served
   mine |-> TRUE,        \* the screen that asked is still there
   clean |-> TRUE]       \* the list has not changed since it was answered

\* The photos but one, in their order: the k-th is the one with k up to it.
Kept(photos, p) == {i \in DOMAIN photos : photos[i] # p}
Upto(kept, i) == Cardinality({j \in kept : j <= i})

Without(photos, p) ==
  LET kept == Kept(photos, p)
  IN  [k \in 1 .. Cardinality(kept) |-> photos[CHOOSE i \in kept : Upto(kept, i) = k]]

Init ==
  /\ album = <<>> /\ list = None /\ status = "loading" /\ busy = "idle"
  /\ removing = None /\ calls = <<Request("list", None)>>
  /\ next = 1 /\ doubled = FALSE /\ trouble = 0 /\ behind = FALSE

Screen == <<list, status, busy, removing>>

Answered(i, answer) == [calls EXCEPT ![i].is = "answered", ![i].answer = answer]

\* An answer given before the list changed is an answer about an older list.
Outdated(cs) ==
  [j \in DOMAIN cs |-> [cs[j] EXCEPT !.clean = @ /\ cs[j].is # "answered"]]

-----------------------------------------------------------------------------
(* The API's side, a request in one step; Photos has the statements        *)

ServeList(i) ==
  /\ calls[i].op = "list" /\ calls[i].is = "sent"
  /\ calls' = Answered(i, album)
  /\ UNCHANGED <<album, Screen, next, doubled, trouble, behind>>

Refuse(i) ==
  /\ calls' = [calls EXCEPT ![i].is = "refused"]
  /\ UNCHANGED <<album, Screen, next, doubled, trouble, behind>>

\* The list becomes another one, and the caller gets its answer.
Change(i, new, answer) ==
  /\ album' = new
  /\ calls' = [Outdated(calls) EXCEPT ![i].is = "answered", ![i].answer = answer,
                                      ![i].stored = TRUE]
  /\ behind' = (behind \/ ~calls[i].mine)
  /\ UNCHANGED <<Screen, trouble>>

ServeUpload(i) ==
  /\ calls[i].op = "add" /\ calls[i].is = "sent"
  /\ IF Len(album) < MaxPhotos
     THEN /\ Change(i, Append(album, next), next)
          /\ next' = next + 1 /\ doubled' = (doubled \/ calls[i].stored)
     ELSE Refuse(i)

\* A photo that is gone is a 404.
ServeRemoval(i) ==
  LET p == calls[i].arg IN
  /\ calls[i].op = "remove" /\ calls[i].is = "sent"
  /\ IF Contains(album, p)
     THEN Change(i, Without(album, p), p) /\ UNCHANGED <<next, doubled>>
     ELSE Refuse(i)

\* PUT /photos/order takes the photos there are, each once, and answers the list.
ServeOrder(i) ==
  LET order == calls[i].arg IN
  /\ calls[i].op = "order" /\ calls[i].is = "sent"
  /\ IF ToSet(order) = ToSet(album) /\ Len(order) = Len(album)
     THEN Change(i, order, order) /\ UNCHANGED <<next, doubled>>
     ELSE Refuse(i)

\* The request or its answer is lost; what was served stays served.
LoseAnswer(i) ==
  /\ trouble < MaxTrouble /\ calls[i].is \in {"sent", "answered"}
  /\ trouble' = trouble + 1
  /\ calls' = [calls EXCEPT ![i].is = "lost"]
  /\ behind' = (behind \/ (calls[i].op \in {"add", "remove"} /\ calls[i].is = "answered"))
  /\ UNCHANGED <<album, Screen, next, doubled>>

\* Another device of the account removes a photo.
ChangeElsewhere ==
  /\ trouble < MaxTrouble /\ album # <<>>
  /\ trouble' = trouble + 1
  /\ album' = Tail(album)
  /\ calls' = Outdated(calls)
  /\ behind' = TRUE
  /\ UNCHANGED <<Screen, next, doubled>>

-----------------------------------------------------------------------------
(* What the person may tap: buttons are off while busy, and a dialog        *)
(* covers the screen                                                       *)

CanTap == busy = "idle" /\ removing = None /\ Len(calls) < MaxCalls

Ask(op, arg, doing) ==
  /\ calls' = Append(calls, Request(op, arg))
  /\ busy' = doing
  /\ UNCHANGED <<album, status, next, doubled, trouble, behind>>

\* add: the button, then the picker, the check on the phone and the resize.
Add ==
  /\ CanTap /\ status = "ready" /\ Len(list) < MaxPhotos /\ next <= MaxUploads
  /\ busy' = "picking"
  /\ UNCHANGED <<album, list, status, removing, calls, next, doubled, trouble, behind>>

\* Cancelled, no permission, or refused by the check: nothing is sent.
PickingEnds ==
  /\ busy = "picking" /\ busy' = "idle"
  /\ UNCHANGED <<album, list, status, removing, calls, next, doubled, trouble, behind>>

Upload ==
  /\ busy = "picking"
  /\ Ask("add", None, "uploading")
  /\ UNCHANGED <<list, removing>>

\* uploadPhoto answers one 401 by one refresh and one retry.
SendsAgain(i) == calls[i].is = "sent"

UploadRetried(i) ==
  /\ trouble < MaxTrouble
  /\ calls[i].op = "add" /\ SendsAgain(i) /\ ~calls[i].again
  /\ trouble' = trouble + 1
  /\ calls' = [calls EXCEPT ![i].is = "sent", ![i].again = TRUE]
  /\ UNCHANGED <<album, Screen, next, doubled, behind>>

OpenDialog(p) ==
  /\ CanTap /\ list # None /\ Contains(list, p)
  /\ removing' = p
  /\ UNCHANGED <<album, list, status, busy, calls, next, doubled, trouble, behind>>

CloseDialog ==
  /\ removing # None /\ removing' = None
  /\ UNCHANGED <<album, list, status, busy, calls, next, doubled, trouble, behind>>

\* The dialog closes, and the photo it asked about is removed.
remove ==
  /\ removing # None /\ removing' = None
  /\ Ask("remove", removing, "removing")
  /\ UNCHANGED list

\* reorder: the screen shows the new order at once.
reorder(photos) ==
  /\ CanTap
  /\ list' = photos
  /\ Ask("order", photos, "reordering")
  /\ UNCHANGED removing

Swapped(photos, i, j) == [photos EXCEPT ![i] = photos[j], ![j] = photos[i]]

\* One step to the front; the step to the back is its neighbour's.
move(from) == list # None /\ from \in 2 .. Len(list) /\ reorder(Swapped(list, from - 1, from))

makeMain(from) ==
  /\ list # None /\ from \in 2 .. Len(list)
  /\ reorder(<<list[from]>> \o RemoveAt(list, from))

-----------------------------------------------------------------------------
(* Answers, to a screen that is still there                                *)

Settle(i) == calls' = RemoveAt(calls, i) /\ UNCHANGED <<album, removing, next, doubled, trouble>>

\* A list the API gave, from GET /photos or after an order.
ShowList(i) ==
  /\ list' = calls[i].answer
  /\ behind' = ~calls[i].clean

reloadReturns(i) ==
  /\ calls[i].op = "list" /\ calls[i].mine /\ calls[i].is \in {"answered", "lost"}
  /\ IF calls[i].is = "answered"
     THEN ShowList(i) /\ status' = "ready"
     ELSE status' = "error" /\ UNCHANGED <<list, behind>>
  /\ Settle(i) /\ UNCHANGED busy

UploadReturns(i) ==
  /\ calls[i].op = "add" /\ calls[i].mine /\ calls[i].is # "sent"
  /\ IF calls[i].is = "answered" /\ list # None
     THEN /\ list' = Append(list, calls[i].answer)
          /\ behind' = (behind \/ ~calls[i].clean \/ Contains(list, calls[i].answer))
     ELSE UNCHANGED <<list, behind>>
  /\ busy' = "idle"
  /\ Settle(i) /\ UNCHANGED status

RemovalReturns(i) ==
  /\ calls[i].op = "remove" /\ calls[i].mine /\ calls[i].is # "sent"
  /\ list' = IF calls[i].is = "answered"
             THEN Without(list, calls[i].arg) ELSE list
  /\ busy' = "idle"
  /\ Settle(i) /\ UNCHANGED <<status, behind>>

\* The catch of reorder ends in a reload.
Reloads(cs) == Append(cs, Request("list", None))

OrderReturns(i) ==
  /\ calls[i].op = "order" /\ calls[i].mine /\ calls[i].is # "sent"
  /\ IF calls[i].is = "answered"
     THEN ShowList(i) /\ calls' = RemoveAt(calls, i)
     ELSE calls' = Reloads(RemoveAt(calls, i)) /\ UNCHANGED <<list, behind>>
  /\ busy' = "idle"
  /\ UNCHANGED <<album, status, removing, next, doubled, trouble>>

\* update and setState of a screen that is gone do nothing.
Dropped(i) ==
  /\ ~calls[i].mine /\ calls[i].is # "sent"
  /\ Settle(i) /\ UNCHANGED <<list, status, busy, behind>>

\* The person leaves the screen and comes back: a new one, which loads.
Reopen ==
  /\ trouble < MaxTrouble
  /\ trouble' = trouble + 1
  /\ list' = None /\ status' = "loading" /\ busy' = "idle" /\ removing' = None
  /\ calls' = Append([j \in DOMAIN calls |-> [calls[j] EXCEPT !.mine = FALSE]],
                     Request("list", None))
  /\ UNCHANGED <<album, next, doubled, behind>>

Next ==
  \/ \E i \in DOMAIN calls :
       \/ ServeList(i) \/ ServeUpload(i) \/ ServeRemoval(i) \/ ServeOrder(i)
       \/ LoseAnswer(i) \/ UploadRetried(i) \/ Dropped(i)
       \/ reloadReturns(i) \/ UploadReturns(i) \/ RemovalReturns(i) \/ OrderReturns(i)
  \/ \E p \in ToSet(album) \cup 1 .. MaxUploads : OpenDialog(p)
  \/ \E from \in 1 .. MaxPhotos : move(from) \/ makeMain(from)
  \/ Add \/ PickingEnds \/ Upload \/ CloseDialog \/ remove
  \/ ChangeElsewhere \/ Reopen

Spec == Init /\ [][Next]_vars

-----------------------------------------------------------------------------
TypeOK ==
  /\ album \in Seq(Nat)
  /\ status \in {"loading", "ready", "error"}
  /\ busy \in {"idle", "picking", "uploading", "removing", "reordering"}
  /\ removing \in Nat \cup {None} /\ next \in Nat
  /\ \A i \in DOMAIN calls : calls[i].op \in {"list", "add", "remove", "order"}

\* Once everything is answered, a screen that could load shows the photos there
\* are in the order they have, also after an order the API refused: unless an
\* answer that changed something was lost, the change came from elsewhere, or a
\* list read before a change was answered after it.
ScreenIsTrue ==
  calls = <<>> /\ status = "ready" /\ ~behind => list = album

\* One tap stores one photo at most, however the upload is retried.
OneTapOnePhoto == ~doubled
=============================================================================
