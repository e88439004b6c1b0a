---------------------------- MODULE Translations ----------------------------
(***************************************************************************)
(* The texts of one translated locale in packages/i18n/messages.yaml, as   *)
(* the commands i18n:translate and i18n:review and the hands of people     *)
(* change them.  A text is machine text until a native reviewer approves   *)
(* it; the approval is a hash of the English and the text together, so a   *)
(* later edit of either shows.  Three parties work on the file at their    *)
(* own pace: a reviewer with a sheet exported some time ago, a translation *)
(* run whose answers take seconds (sync) or a day (a batch, with its       *)
(* manifest on disk), and whoever edits the file by hand.                  *)
(*                                                                         *)
(* English and translations are numbered versions; the hash of a pair is   *)
(* the pair.  Which text breaks the rules of the file (ICU arguments,      *)
(* links, length) under which English is a constant.  legal.* and admin.*  *)
(* keys pass through neither command and are left out.                     *)
(***************************************************************************)
EXTENDS Integers, FiniteSets

CONSTANTS
    Key,       \* the keys of the file
    Unruly,    \* the pairs of an English and a text that breaks a rule under it
    MaxEn,     \* bound: versions of a key's English
    MaxText,   \* bound: different translations of one key
    MaxEdits   \* bound: edits by hand

\* There is an English, and a text.
TranslationsAssumption == {MaxEn, MaxText} \subseteq Nat \ {0} /\ MaxEdits \in Nat

VARIABLES
    file,      \* per key: en, the locale's text, the machine flag, the review's hash
    sheet,     \* the review sheet that is out: per key the pair it shows, or NoPair
    job,       \* the translation run that waits for answers, or NoJob
    approved,  \* the pairs a reviewer has approved, of each key
    edits      \* how often the file was edited by hand

vars == <<file, sheet, job, approved, edits>>

English == 1..MaxEn
Text == 1..MaxText
Nothing == 0
NoPair == <<Nothing, Nothing>>
Mode == {"missing", "retranslate", "stale"}
NoJob == [kind |-> "none", mode |-> "missing", asked |-> [k \in Key |-> Nothing]]

TypeOK ==
    /\ file \in [Key -> [en : English, text : Text \cup {Nothing}, machine : BOOLEAN,
                         hash : (English \X Text) \cup {NoPair}]]
    /\ sheet \in [Key -> (English \X Text) \cup {NoPair}]
    /\ job \in [kind : {"none", "sync", "batch"}, mode : Mode, asked : [Key -> English \cup {Nothing}]]
    /\ approved \in [Key -> SUBSET (English \X Text)]
    /\ edits \in 0..MaxEdits

\* Hand-written entries carry the flag until a reviewer approves them
\* (the check refuses a text with neither mark).
Init ==
    /\ file \in [Key -> {[en |-> 1, text |-> t, machine |-> t # Nothing, hash |-> NoPair] :
                           t \in {Nothing, 1}}]
    /\ sheet = [k \in Key |-> NoPair]
    /\ job = NoJob
    /\ approved = [k \in Key |-> {}]
    /\ edits = 0

-----------------------------------------------------------------------------
(* Where a text stands *)

ReviewHash(en, text) == <<en, text>>

Stale(m) == m.hash # NoPair /\ m.text # Nothing /\ m.hash # ReviewHash(m.en, m.text)

StateOf(m) ==
    IF m.text = Nothing THEN "missing"
    ELSE IF m.machine \/ m.hash = NoPair THEN "machine"
    ELSE IF Stale(m) THEN "stale"
    ELSE "reviewed"

Pending(m) == StateOf(m) \in {"machine", "stale"}

FlagMachine(m) == [m EXCEPT !.machine = TRUE, !.hash = NoPair]

MarkReviewed(m, en, text) == [m EXCEPT !.machine = FALSE, !.hash = ReviewHash(en, text)]

\* Why a text cannot be written, whoever wrote it.
RejectionReason(en, text) == <<en, text>> \in Unruly

\* An approval is held to the rules of the file, under the file's English.
ApprovalProblem(m, text) == RejectionReason(m.en, text)

\* What --approved-since names: a new hash, or a reviewed pair that moved.
NewlyReviewed(before, after) ==
    {k \in Key : /\ after[k].hash # NoPair
                 /\ \/ before[k].hash # after[k].hash
                    \/ before[k].en # after[k].en
                    \/ before[k].text # after[k].text}

-----------------------------------------------------------------------------
(* The reviewer *)

\* The keys a command names: some at least, or it stops.
SelectKeys == SUBSET Key \ {{}}

\* --approve: the reviewer has read the texts as they are in the file.
Approve(ks) ==
    /\ \A k \in ks : Pending(file[k]) /\ ~ApprovalProblem(file[k], file[k].text)
    /\ file' = [k \in Key |-> IF k \in ks THEN MarkReviewed(file[k], file[k].en, file[k].text)
                              ELSE file[k]]
    /\ approved' = [k \in Key |-> IF k \in ks THEN approved[k] \cup {<<file[k].en, file[k].text>>}
                                  ELSE approved[k]]
    /\ UNCHANGED <<sheet, job, edits>>

\* --reflag: a reviewed text goes back to machine text.
Reflag(ks) ==
    /\ \A k \in ks : StateOf(file[k]) \in {"reviewed", "stale"}
    /\ file' = [k \in Key |-> IF k \in ks THEN FlagMachine(file[k]) ELSE file[k]]
    /\ UNCHANGED <<sheet, job, approved, edits>>

SheetKeys(all) == {k \in Key : IF all THEN file[k].text # Nothing ELSE Pending(file[k])}

\* --export: the sheet shows each text with the hash of the pair it shows.
Export(all) ==
    /\ SheetKeys(all) # {}
    /\ sheet' = [k \in Key |-> IF k \in SheetKeys(all) THEN <<file[k].en, file[k].text>>
                               ELSE NoPair]
    /\ UNCHANGED <<file, job, approved, edits>>

\* A row as it comes back: the cell with the English (which somebody may have
\* edited, though nobody is asked to), the text, corrected or not, and the mark.
Row == [en : English, text : Text, x : BOOLEAN]

\* The row is applied only when the file still holds the pair the sheet was
\* exported with, and the reviewer read that English.
Current(k, row) ==
    /\ sheet[k] = ReviewHash(file[k].en, file[k].text)
    /\ row.en = file[k].en

\* Nothing unruly is approved, nor written as a correction.
Ruled(m, row) ==
    IF row.x THEN ~ApprovalProblem(m, row.text)
    ELSE row.text # m.text => ~RejectionReason(m.en, row.text)

\* What an accepted row makes of its entry.
Imported(m, row) ==
    LET written == [m EXCEPT !.text = row.text] IN
    IF row.x THEN MarkReviewed(written, m.en, row.text)
    ELSE IF row.text # m.text THEN FlagMachine(written)
    ELSE m

\* --import: each row is applied or refused.  The sheet stays where it is and
\* may be imported again.
Import ==
    /\ \E rows \in [{k \in Key : sheet[k] # NoPair} -> Row] :
          LET taken == {k \in DOMAIN rows : Current(k, rows[k]) /\ Ruled(file[k], rows[k])} IN
          /\ taken # {}
          /\ file' = [k \in Key |-> IF k \in taken THEN Imported(file[k], rows[k]) ELSE file[k]]
          /\ approved' = [k \in Key |->
                IF k \in DOMAIN rows /\ rows[k].x
                THEN approved[k] \cup {<<rows[k].en, rows[k].text>>} ELSE approved[k]]
    /\ UNCHANGED <<sheet, job, edits>>

-----------------------------------------------------------------------------
(* The translator *)

SelectForTranslation(mode) ==
    {k \in Key : CASE mode = "missing" -> file[k].text = Nothing
                   [] mode = "retranslate" -> file[k].text # Nothing /\ file[k].machine
                   [] mode = "stale" -> Stale(file[k])}

\* What the requests of a run ask for: each text selected, in its English.
Requests(mode) ==
    [k \in Key |-> IF k \in SelectForTranslation(mode) THEN file[k].en ELSE Nothing]

\* A run reads the file and asks for the texts it selects; a batch writes a
\* manifest with the fingerprint of each key's English.
Submit(kind, mode) ==
    /\ job = NoJob
    /\ SelectForTranslation(mode) # {}
    /\ job' = [kind |-> kind, mode |-> mode, asked |-> Requests(mode)]
    /\ UNCHANGED <<file, sheet, approved, edits>>

Asked == {k \in Key : job.asked[k] # Nothing}

\* One request each: a part of what is asked for (of one namespace, and small).
Chunks == SUBSET Asked \ {{}}

\* Whatever keys the model answers for, only those of the request are kept.
Kept(chunk, answers) == [k \in chunk \cap DOMAIN answers |-> answers[k]]

\* What a request comes back with: some answers, or none of them (declined, cut
\* off, off the schema).
Replies(chunk) ==
    {Kept(chunk, answers) : answers \in UNION {[given -> Text] : given \in SUBSET Key}}

\* What an ended batch comes back with: each request failed, or answered for
\* its own keys, so together for keys that were asked.
Results == Replies(Asked)

\* apply: the file is read again, and only what was asked for, still needs the
\* text and breaks no rule is written.
Applied(keys, answers) ==
    [k \in Key |->
        IF /\ k \in keys \cap DOMAIN answers \cap SelectForTranslation(job.mode)
           /\ ~RejectionReason(file[k].en, answers[k])
        THEN FlagMachine([file[k] EXCEPT !.text = answers[k]])
        ELSE file[k]]

\* The answer to one request of a sync run, or its failure.
AnswerSync(chunk) ==
    /\ job.kind = "sync"
    /\ chunk \in Chunks
    /\ \E answers \in Replies(chunk) : file' = Applied(chunk, answers)
    /\ job' = IF chunk = Asked THEN NoJob
              ELSE [job EXCEPT !.asked = [k \in Key |-> IF k \in chunk THEN Nothing ELSE job.asked[k]]]
    /\ UNCHANGED <<sheet, approved, edits>>

\* Mutation: the fingerprints in the manifest are not compared.
AskedAtAnyTime == Asked

\* Asked for in the English the file still holds.
SameSource == {k \in Asked : job.asked[k] = file[k].en}

\* --batch-id: the answers of an ended batch.  The manifest goes last, so a run
\* that dies before that leaves the batch to be collected again.
Collect(dies) ==
    /\ job.kind = "batch"
    /\ \E answers \in Results : file' = Applied(SameSource, answers)
    /\ job' = IF dies THEN job ELSE NoJob
    /\ UNCHANGED <<sheet, approved, edits>>

\* A sync run is stopped, or the manifest of a batch is deleted.
Abandon ==
    /\ job # NoJob
    /\ job' = NoJob
    /\ UNCHANGED <<file, sheet, approved, edits>>

-----------------------------------------------------------------------------
(* People edit the file *)

EditEnglish(k) ==
    /\ edits < MaxEdits
    /\ edits' = edits + 1
    /\ \E en \in English \ {file[k].en} : file' = [file EXCEPT ![k].en = en]
    /\ UNCHANGED <<sheet, job, approved>>

\* A text of one's own keeps the marks it finds; a first one carries the flag.
EditText(k) ==
    /\ edits < MaxEdits
    /\ edits' = edits + 1
    /\ \E t \in Text \ {file[k].text} :
          file' = [file EXCEPT ![k].text = t,
                               ![k].machine = file[k].machine \/ file[k].text = Nothing]
    /\ UNCHANGED <<sheet, job, approved>>

Translator ==
    \/ \E chunk \in SUBSET Key : AnswerSync(chunk)
    \/ \E dies \in BOOLEAN : Collect(dies)

Next ==
    \/ \E ks \in SelectKeys : Approve(ks) \/ Reflag(ks)
    \/ \E all \in BOOLEAN : Export(all)
    \/ Import
    \/ \E kind \in {"sync", "batch"}, mode \in Mode : Submit(kind, mode)
    \/ Translator
    \/ Abandon
    \/ \E k \in Key : EditEnglish(k) \/ EditText(k)

Spec == Init /\ [][Next]_vars

-----------------------------------------------------------------------------
(* Properties *)

\* What stands as reviewed, and so passes the release check of the file, is an
\* English and a text that a reviewer approved together and that keep to the
\* rules together: whatever was edited, translated or imported since
\* (markReviewed, isStale, importSheet, approvalProblem).
ReviewedWasApproved ==
    \A k \in Key :
        StateOf(file[k]) = "reviewed" =>
            <<file[k].en, file[k].text>> \in approved[k] \ Unruly

\* A returned sheet changes a text only while the file holds what the sheet
\* showed; answers of a translation run never replace a text that counts as
\* reviewed, however long they took, and those of a batch are never written
\* under another English than they were made from (importSheet, apply, collect).
OverwritesNothingNewer ==
    \A k \in Key : file'[k] # file[k] =>
        /\ Import => sheet[k] = <<file[k].en, file[k].text>>
        /\ Translator => StateOf(file[k]) # "reviewed"
        /\ (job.kind = "batch" /\ Translator) => job.asked[k] = file[k].en

\* "An approval nobody asked for shows": a pair that begins to stand as
\* reviewed, by a command or by an edit that goes back to what a hash was made
\* of, is one that the pull request is told of (newlyReviewed).
ApprovalsShow ==
    \A k \in Key :
        (StateOf(file'[k]) = "reviewed" /\ file'[k] # file[k]) => k \in NewlyReviewed(file, file')

NothingNewerIsOverwritten == [][OverwritesNothingNewer]_vars
=============================================================================
