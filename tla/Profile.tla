------------------------------ MODULE Profile ------------------------------
(***************************************************************************)
(* The profile as one person writes it on the phone (features/profile of   *)
(* the app) and as the API keeps it (profile/): a draft that is saved      *)
(* whole, edited while a save is under way, and answered with what is      *)
(* stored and whether it is complete.  Meanwhile another device saves, the *)
(* photos and preferences change, the account is erased, and the save of a *)
(* screen that was left lands late.                                        *)
(***************************************************************************)
EXTENDS FiniteSets, Functions

CONSTANTS Prompt, None,
          PROMPTS_MAX, PROMPTS_FOR_COMPLETENESS,
          MaxEdits,      \* bound: edits
          MaxTrouble     \* bound: lost answers, screens left, changes from elsewhere

VARIABLES
  account,    \* "live" or "deleted"
  row,        \* the profile row, or None
  rest,       \* enough approved photos, seeks and an age window are there
  late,       \* the save of a screen that is gone, or None
  status,     \* the screen: "loading", "ready" or "error"
  draft,
  complete,   \* the verdict on the screen, None before the first
  notice,     \* "none", "saved" or "error"
  call,       \* the screen's request under way, or None
  wrote,      \* the draft as typed since the save was pressed, None if it was not touched
  crossed,    \* history: the row or the rest changed unknown to the screen
  edits, trouble

server == <<account, row, rest, late>>
screen == <<status, draft, complete, notice>>
edited == <<wrote, crossed>>
vars == <<server, screen, call, edited, edits, trouble>>

\* A name that is blank or carries contact details is "bad"; a bio here is long
\* enough to count; an answer is "" until something is written.
ProfileUpdate ==
  [name : {"ok", "bad"}, about : {"none", "bio", "preset"},
   prompts : UNION {[S -> {"", "text"}] : S \in SUBSET Prompt}]

ProfileAssumption == None \notin ProfileUpdate

EMPTY_PROFILE == [name |-> "bad", about |-> "none", prompts |-> <<>>]

Complete(document, others) ==
  /\ document # None /\ others
  /\ \/ document.about = "bio"
     \/ Cardinality(DOMAIN document.prompts) >= PROMPTS_FOR_COMPLETENESS

Request(op, document) ==
  [op |-> op, is |-> "sent", document |-> document, complete |-> FALSE, submitted |-> wrote]

Init ==
  /\ account = "live" /\ row = None /\ rest \in BOOLEAN /\ late = None
  /\ status = "loading" /\ draft = EMPTY_PROFILE /\ complete = None /\ notice = "none"
  /\ wrote = None /\ call = Request("load", None)
  /\ crossed = FALSE /\ edits = 0 /\ trouble = 0

-----------------------------------------------------------------------------
(* The API                                                                 *)

\* saveProfile's refusals, and the account's row under lock in upsertProfile.
Writes(document) == document.name = "ok" /\ account = "live"

Upsert ==
  /\ call # None /\ call.op = "save" /\ call.is = "sent"
  /\ IF Writes(call.document)
     THEN row' = call.document /\ call' = [call EXCEPT !.is = "stored"]
     ELSE row' = row /\ call' = [call EXCEPT !.is = "refused"]
  /\ UNCHANGED <<account, rest, late, screen, edited, edits, trouble>>

\* findProfile of GET /profile.
FindProfile ==
  /\ call # None /\ call.op = "load" /\ call.is = "sent"
  /\ call' = [call EXCEPT !.is = IF account = "live" THEN "stored" ELSE "refused",
                          !.document = row]
  /\ crossed' = FALSE
  /\ UNCHANGED <<server, screen, wrote, edits, trouble>>

\* completenessOf: the photos and the preferences are read after the row is written;
\* a GET reads the photos beside the row, and promises nothing.
CompletenessOf ==
  /\ call # None /\ call.is = "stored"
  /\ call' = [call EXCEPT !.is = "answered", !.complete = Complete(call.document, rest)]
  /\ UNCHANGED <<server, screen, edited, edits, trouble>>

\* Behind the screen's back.
Trouble == trouble < MaxTrouble /\ trouble' = trouble + 1

LoseAnswer ==
  /\ Trouble /\ call # None /\ call.is # "refused"
  /\ call' = [call EXCEPT !.is = "refused"]
  /\ late' = IF call.op = "save" /\ call.is = "sent" THEN call.document ELSE late
  /\ crossed' = TRUE
  /\ UNCHANGED <<account, row, rest, screen, wrote, edits>>

\* A save nobody waits for any more; another device's is one of these.
SaveElsewhere(document) ==
  /\ \/ document = late /\ late' = None /\ UNCHANGED trouble
     \/ Trouble /\ document = [EMPTY_PROFILE EXCEPT !.name = "ok"] /\ UNCHANGED late
  /\ document # None
  /\ row' = IF Writes(document) THEN document ELSE row
  /\ crossed' = TRUE
  /\ UNCHANGED <<account, rest, screen, call, wrote, edits>>

RestChanges ==
  /\ Trouble /\ rest' = ~rest /\ crossed' = TRUE
  /\ UNCHANGED <<account, row, late, screen, call, wrote, edits>>

\* eraseProfileOfAccount, in the transaction that makes the tombstone.
Erase ==
  /\ account = "live" /\ account' = "deleted" /\ row' = None /\ crossed' = TRUE
  /\ UNCHANGED <<rest, late, screen, call, wrote, edits, trouble>>

-----------------------------------------------------------------------------
(* The screen                                                              *)

\* update, by the field, the chip or the prompt that was touched.
Patched(d) ==
  {[d EXCEPT !.name = n] : n \in {"ok", "bad"}}
  \cup {[d EXCEPT !.about = a] : a \in {"none", "bio", "preset"}}
  \cup {[d EXCEPT !.prompts = [p \in DOMAIN d.prompts \cup {q} |->
                                 IF p = q THEN t ELSE d.prompts[p]]] :
          q \in {p \in Prompt : p \in DOMAIN d.prompts \/ Cardinality(DOMAIN d.prompts) < PROMPTS_MAX},
          t \in {"", "text"}}
  \cup {[d EXCEPT !.prompts = Restrict(d.prompts, DOMAIN d.prompts \ {q})] : q \in DOMAIN d.prompts}

update(d) ==
  /\ status = "ready" /\ edits < MaxEdits /\ d \in Patched(draft)
  /\ edits' = edits + 1
  /\ draft' = d /\ wrote' = d /\ notice' = "none"
  /\ UNCHANGED <<server, status, complete, call, crossed, trouble>>

\* A prompt without an answer is left out of the save.
Sent(d) ==
  [d EXCEPT !.prompts = Restrict(@, {p \in DOMAIN @ : @[p] # ""})]

\* submitted is the draft as the button found it: until it is typed in again.
save ==
  /\ status = "ready" /\ call = None
  /\ call' = Request("save", Sent(draft))
  /\ notice' = "none" /\ wrote' = None /\ crossed' = (late # None)
  /\ UNCHANGED <<server, status, draft, complete, edits, trouble>>

\* The stored document replaces the draft only if nothing was typed meanwhile.
ReplacesDraft == wrote = None

Saved ==
  /\ call # None /\ call.op = "save" /\ call.is = "answered"
  /\ draft' = IF ReplacesDraft THEN call.document ELSE draft
  /\ complete' = call.complete /\ notice' = "saved" /\ call' = None
  /\ UNCHANGED <<server, status, edited, edits, trouble>>

NotSaved ==
  /\ call # None /\ call.op = "save" /\ call.is = "refused"
  /\ notice' = "error" /\ call' = None
  /\ wrote' = IF wrote = None THEN call.submitted ELSE wrote
  /\ UNCHANGED <<server, status, draft, complete, crossed, edits, trouble>>

Loaded ==
  /\ call # None /\ call.op = "load" /\ call.is \in {"answered", "refused"}
  /\ IF call.is = "refused"
     THEN status' = "error" /\ UNCHANGED <<draft, complete>>
     ELSE /\ status' = "ready" /\ complete' = call.complete
          /\ draft' = IF call.document = None THEN EMPTY_PROFILE ELSE call.document
  /\ call' = None
  /\ UNCHANGED <<server, notice, edited, edits, trouble>>

Load ==
  /\ status' = "loading" /\ call' = Request("load", None)
  /\ wrote' = None
  /\ UNCHANGED <<account, row, rest, edits, crossed>>

Retry == status = "error" /\ Load /\ UNCHANGED <<late, draft, complete, notice, trouble>>

\* The screen is left and opened again: a save on its way may still land.
Reopen ==
  /\ Trouble /\ Load
  /\ late' = IF call # None /\ call.op = "save" /\ call.is = "sent" THEN call.document ELSE late
  /\ draft' = EMPTY_PROFILE /\ complete' = None /\ notice' = "none"

Next ==
  \/ Upsert \/ FindProfile \/ CompletenessOf \/ LoseAnswer \/ RestChanges \/ Erase
  \/ SaveElsewhere(late) \/ SaveElsewhere([EMPTY_PROFILE EXCEPT !.name = "ok"])
  \/ \E d \in ProfileUpdate : update(d)
  \/ save \/ Saved \/ NotSaved \/ Loaded \/ Retry \/ Reopen

Spec == Init /\ [][Next]_vars

-----------------------------------------------------------------------------
TypeOK ==
  /\ account \in {"live", "deleted"} /\ rest \in BOOLEAN /\ crossed \in BOOLEAN
  /\ {row, late, wrote} \subseteq ProfileUpdate \cup {None}
  /\ status \in {"loading", "ready", "error"} /\ draft \in ProfileUpdate
  /\ complete \in BOOLEAN \cup {None} /\ notice \in {"none", "saved", "error"}

\* What the person has written and not saved is on the screen, whatever answers
\* arrive: a save that succeeds or fails does not take newer keystrokes away.
KeystrokesAreKept == wrote # None => draft = wrote

\* "Saved" over an untouched draft means that the draft is what is stored, and the
\* verdict beside it is the stored document's, unless something else changed.
SavedIsStored ==
  notice = "saved" /\ ~crossed =>
    /\ wrote = None => draft = row
    /\ complete = Complete(row, rest)

\* No profile is written for a tombstone, by whichever save lands late.
NoProfileOfTombstone == account = "deleted" => row = None
=============================================================================
