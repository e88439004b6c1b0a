----------------------------- MODULE ToolsProofs -----------------------------
(***************************************************************************)
(* The invariants of the three parts of Service that are tools: the        *)
(* translations, the reset of the demo, and the demo's population; for any *)
(* keys, texts, personas, pictures and commands.  ServiceProofs puts them  *)
(* beside those of the other parts.                                        *)
(***************************************************************************)
EXTENDS Service, TLAPS, FiniteSetTheorems

-----------------------------------------------------------------------------
(* The translations.  A review's hash is of a pair that was approved and    *)
(* keeps to the rules, whatever has become of the text since.               *)

Entries ==
  [en : T!English, text : T!Text \cup {T!Nothing}, machine : BOOLEAN,
   hash : (T!English \X T!Text) \cup {T!NoPair}]

HashKnown(m, a) ==
  m.hash # T!NoPair => m.hash \in a \ Unruly /\ ~m.machine /\ m.text # T!Nothing

TranslationsInv ==
  /\ v1 \in [TextKey -> Entries]
  /\ v3 \in [kind : {"none", "sync", "batch"}, mode : T!Mode, asked : [TextKey -> T!English \cup {T!Nothing}]]
  /\ DOMAIN v4 = TextKey
  /\ \A k \in TextKey : HashKnown(v1[k], v4[k])

LEMMA NothingIsNoText ==
  /\ T!Nothing \notin T!English /\ T!Nothing \notin T!Text
  /\ 1 \in T!English /\ 1 \in T!Text
  /\ \A e \in T!English, t \in T!Text : <<e, t>> # T!NoPair /\ <<e, t>> \in T!English \X T!Text
<1>1. MaxEn \in Nat \ {0} /\ MaxText \in Nat \ {0}
  BY ServiceAssumption DEF T!TranslationsAssumption
<1> QED BY <1>1 DEF T!Nothing, T!English, T!Text, T!NoPair

LEMMA TranslationsInit == T!Init => TranslationsInv
<1> SUFFICES ASSUME T!Init PROVE TranslationsInv
  OBVIOUS
<1>1. v3 = T!NoJob /\ v4 = [k \in TextKey |-> {}]
  BY DEF T!Init
<1>2. ASSUME NEW k \in TextKey PROVE v1[k] \in Entries /\ v1[k].hash = T!NoPair
  <2>1. PICK t \in {T!Nothing, 1} : v1[k] = [en |-> 1, text |-> t, machine |-> t # T!Nothing, hash |-> T!NoPair]
    BY DEF T!Init
  <2>2. t \in T!Text \cup {T!Nothing} /\ 1 \in T!English
    BY NothingIsNoText
  <2> QED BY <2>1, <2>2 DEF Entries
<1>3. v1 \in [TextKey -> Entries]
  BY <1>2 DEF T!Init
<1> QED BY <1>1, <1>2, <1>3 DEF TranslationsInv, HashKnown, T!NoJob, T!Mode

\* A text that goes on as machine text carries no hash.
LEMMA Flagged ==
  ASSUME NEW m \in Entries, NEW t \in T!Text \cup {T!Nothing}, NEW a
  PROVE  /\ T!FlagMachine(m) \in Entries /\ HashKnown(T!FlagMachine(m), a)
         /\ T!FlagMachine([m EXCEPT !.text = t]) \in Entries
         /\ HashKnown(T!FlagMachine([m EXCEPT !.text = t]), a)
         /\ T!FlagMachine(m).hash = T!NoPair /\ T!FlagMachine([m EXCEPT !.text = t]).hash = T!NoPair
BY DEF Entries, HashKnown, T!FlagMachine

\* One marked as reviewed carries that of the pair, which is approved with it.
LEMMA Marked ==
  ASSUME NEW m \in Entries, NEW t \in T!Text, NEW a, <<m.en, t>> \in a \ Unruly
  PROVE  /\ T!MarkReviewed([m EXCEPT !.text = t], m.en, t) \in Entries
         /\ HashKnown(T!MarkReviewed([m EXCEPT !.text = t], m.en, t), a)
BY NothingIsNoText DEF Entries, HashKnown, T!MarkReviewed, T!ReviewHash

LEMMA ApproveKeeps ==
  ASSUME TranslationsInv, NEW ks \in T!SelectKeys, T!Approve(ks)
  PROVE  TranslationsInv'
<1>1. /\ v1' = [k \in TextKey |-> IF k \in ks THEN T!MarkReviewed(v1[k], v1[k].en, v1[k].text) ELSE v1[k]]
      /\ v4' = [k \in TextKey |-> IF k \in ks THEN v4[k] \cup {<<v1[k].en, v1[k].text>>} ELSE v4[k]]
      /\ v3' = v3 /\ \A k \in ks : T!Pending(v1[k]) /\ <<v1[k].en, v1[k].text>> \notin Unruly
  BY DEF T!Approve, T!ApprovalProblem, T!RejectionReason
<1>2. ASSUME NEW k \in TextKey
      PROVE  v1'[k] \in Entries /\ HashKnown(v1'[k], v4'[k])
  <2> DEFINE m == v1[k]
  <2>1. m \in Entries /\ HashKnown(m, v4[k])
    BY DEF TranslationsInv
  <2>2. CASE k \notin ks
    BY <1>1, <2>1, <2>2
  <2>3. CASE k \in ks
    <3>1. m.text # T!Nothing
      BY <1>1, <2>3 DEF T!Pending, T!StateOf
    <3>2. m.text \in T!Text /\ m = [m EXCEPT !.text = m.text]
      BY <2>1, <3>1 DEF Entries
    <3>3. v1'[k] = T!MarkReviewed(m, m.en, m.text) /\ <<m.en, m.text>> \in v4'[k] \ Unruly
      BY <1>1, <2>3
    <3> HIDE DEF m
    <3> QED BY <2>1, <3>2, <3>3, Marked
  <2> QED BY <2>2, <2>3
<1> QED BY <1>1, <1>2 DEF TranslationsInv

LEMMA ImportKeeps ==
  ASSUME TranslationsInv, T!Import
  PROVE  TranslationsInv'
<1>1. PICK rows \in [{k \in TextKey : v2[k] # T!NoPair} -> T!Row] :
        LET taken == {k \in DOMAIN rows : T!Current(k, rows[k]) /\ T!Ruled(v1[k], rows[k])} IN
        /\ v1' = [k \in TextKey |-> IF k \in taken THEN T!Imported(v1[k], rows[k]) ELSE v1[k]]
        /\ v4' = [k \in TextKey |-> IF k \in DOMAIN rows /\ rows[k].x
                    THEN v4[k] \cup {<<rows[k].en, rows[k].text>>} ELSE v4[k]]
  BY DEF T!Import
<1>2. ASSUME NEW k \in TextKey
      PROVE  v1'[k] \in Entries /\ HashKnown(v1'[k], v4'[k])
  <2> DEFINE m == v1[k]
             row == rows[k]
  <2>1. m \in Entries /\ HashKnown(m, v4[k]) /\ v4[k] \subseteq v4'[k]
    BY <1>1 DEF TranslationsInv
  <2>2. CASE v1'[k] = m
    BY <2>1, <2>2 DEF HashKnown
  <2>3. CASE v1'[k] # m
    <3>1. /\ k \in DOMAIN rows /\ T!Current(k, row) /\ T!Ruled(m, row) /\ v1'[k] = T!Imported(m, row)
      BY <1>1, <2>3
    <3>2. row \in T!Row /\ row.text \in T!Text /\ row.en = m.en
      BY <3>1 DEF T!Row, T!Current
    <3>3. row.x => <<m.en, row.text>> \in v4'[k] \ Unruly
      BY <1>1, <3>1, <3>2 DEF T!Ruled, T!ApprovalProblem, T!RejectionReason
    <3> HIDE DEF m, row
    <3>4. CASE row.x
      BY <2>1, <3>1, <3>2, <3>3, <3>4, Marked DEF T!Imported
    <3>5. CASE ~row.x
      <4>1. v1'[k] \in {m, T!FlagMachine([m EXCEPT !.text = row.text])}
        BY <3>1, <3>5 DEF T!Imported
      <4>2. HashKnown(m, v4'[k])
        BY <2>1 DEF HashKnown
      <4> QED BY <2>1, <3>2, <4>1, <4>2, Flagged
    <3> QED BY <3>4, <3>5
  <2> QED BY <2>2, <2>3
<1>3. v3' = v3 /\ DOMAIN v4' = TextKey /\ DOMAIN v1' = TextKey
  BY <1>1 DEF T!Import
<1>4. v1' = [k \in TextKey |-> v1'[k]]
  BY <1>1
<1> QED BY <1>2, <1>3, <1>4 DEF TranslationsInv

\* What the translator writes, and where.
LEMMA AppliedIs ==
  ASSUME TranslationsInv, NEW keys, NEW answers, \A k \in DOMAIN answers : answers[k] \in T!Text,
         NEW k \in TextKey
  PROVE  /\ T!Applied(keys, answers)[k] \in Entries
         /\ \A a : HashKnown(v1[k], a) => HashKnown(T!Applied(keys, answers)[k], a)
         /\ T!Applied(keys, answers)[k] # v1[k] =>
              /\ k \in keys /\ T!StateOf(v1[k]) # "reviewed"
              /\ T!Applied(keys, answers)[k].hash = T!NoPair
<1> DEFINE m == T!Applied(keys, answers)[k]
<1>1. v1[k] \in Entries /\ v3.mode \in T!Mode
  BY DEF TranslationsInv
<1>2. CASE m = v1[k]
  BY <1>1, <1>2
<1>3. CASE m # v1[k]
  <2>1. /\ k \in keys /\ k \in DOMAIN answers /\ k \in T!SelectForTranslation(v3.mode)
        /\ m = T!FlagMachine([v1[k] EXCEPT !.text = answers[k]])
    BY <1>3 DEF T!Applied
  <2>2. T!StateOf(v1[k]) # "reviewed"
    <3>1. \/ v1[k].text = T!Nothing
          \/ v1[k].machine
          \/ T!Stale(v1[k])
      BY <1>1, <2>1 DEF T!SelectForTranslation, T!Mode
    <3> QED BY <3>1 DEF T!StateOf
  <2> QED BY <1>1, <2>1, <2>2, Flagged
<1> QED BY <1>2, <1>3

LEMMA RepliesAreTexts ==
  ASSUME NEW chunk, NEW answers \in T!Replies(chunk), NEW k \in DOMAIN answers
  PROVE  answers[k] \in T!Text
<1>1. PICK given \in SUBSET TextKey : \E all \in [given -> T!Text] : answers = T!Kept(chunk, all)
  BY Zenon DEF T!Replies
<1>2. PICK all \in [given -> T!Text] : answers = T!Kept(chunk, all)
  BY <1>1
<1>3. DOMAIN answers = chunk \cap given /\ answers[k] = all[k]
  BY <1>2, Zenon DEF T!Kept
<1> QED  BY <1>2, <1>3

LEMMA TranslatorKeeps ==
  ASSUME TranslationsInv, T!Translator
  PROVE  TranslationsInv' /\ \A k \in TextKey : v1'[k] # v1[k] =>
           /\ T!StateOf(v1[k]) # "reviewed" /\ v1'[k].hash = T!NoPair
           /\ v3.kind = "batch" => v3.asked[k] = v1[k].en
<1> DEFINE Jobs == [kind : {"none", "sync", "batch"}, mode : T!Mode,
                    asked : [TextKey -> T!English \cup {T!Nothing}]]
           Written(keys, answers) ==
             /\ v1' = T!Applied(keys, answers) /\ \A k \in DOMAIN answers : answers[k] \in T!Text
             /\ v3.kind = "batch" => keys = T!SameSource
<1>0. v4' = v4 /\ v3' \in Jobs
  <2>1. ASSUME NEW chunk \in SUBSET TextKey, T!AnswerSync(chunk) PROVE v4' = v4 /\ v3' \in Jobs
    BY <2>1 DEF T!AnswerSync, TranslationsInv, T!NoJob, T!Mode
  <2>2. ASSUME NEW dies \in BOOLEAN, T!Collect(dies) PROVE v4' = v4 /\ v3' \in Jobs
    BY <2>2 DEF T!Collect, TranslationsInv, T!NoJob, T!Mode
  <2> QED BY <2>1, <2>2 DEF T!Translator
<1>1. PICK keys, answers : Written(keys, answers)
  <2>1. ASSUME NEW chunk \in SUBSET TextKey, T!AnswerSync(chunk)
        PROVE  \E keys, answers : Written(keys, answers)
    <3>1. PICK answers \in T!Replies(chunk) : v1' = T!Applied(chunk, answers)
      BY <2>1 DEF T!AnswerSync
    <3>2. v3.kind # "batch"
      BY <2>1 DEF T!AnswerSync
    <3>3. Written(chunk, answers)
      BY <3>1, <3>2, RepliesAreTexts
    <3> QED BY <3>3
  <2>2. ASSUME NEW dies \in BOOLEAN, T!Collect(dies)
        PROVE  \E keys, answers : Written(keys, answers)
    <3>1. PICK answers \in T!Results : v1' = T!Applied(T!SameSource, answers)
      BY <2>2 DEF T!Collect
    <3>2. Written(T!SameSource, answers)
      BY <3>1, RepliesAreTexts DEF T!Results
    <3> QED BY <3>2
  <2> QED BY <2>1, <2>2 DEF T!Translator
<1>2. ASSUME NEW k \in TextKey
      PROVE  /\ v1'[k] \in Entries /\ HashKnown(v1'[k], v4'[k])
             /\ v1'[k] # v1[k] => k \in keys /\ T!StateOf(v1[k]) # "reviewed" /\ v1'[k].hash = T!NoPair
  <2>1. HashKnown(v1[k], v4[k]) /\ v4' = v4
    BY <1>0 DEF TranslationsInv
  <2>2. v1' = T!Applied(keys, answers) /\ \A j \in DOMAIN answers : answers[j] \in T!Text
    BY <1>1
  <2> HIDE DEF Written, Jobs
  <2> QED BY <2>1, <2>2, AppliedIs
<1>3. v1' = [k \in TextKey |-> v1'[k]]
  BY <1>1 DEF T!Applied
<1>4. TranslationsInv'
  BY <1>0, <1>2, <1>3 DEF TranslationsInv
<1> QED BY <1>1, <1>2, <1>4 DEF T!SameSource

LEMMA EditsKeep ==
  ASSUME TranslationsInv, NEW k \in TextKey, T!EditEnglish(k) \/ T!EditText(k)
  PROVE  TranslationsInv'
<1> DEFINE m == v1[k]
<1>1. m \in Entries /\ HashKnown(m, v4[k])
  BY DEF TranslationsInv
<1>2. PICK n \in Entries : v1' = [v1 EXCEPT ![k] = n] /\ n.hash = m.hash
                           /\ (m.text # T!Nothing => n.machine = m.machine /\ n.text # T!Nothing)
  <2>1. CASE T!EditEnglish(k)
    <3>1. PICK en \in T!English : v1' = [v1 EXCEPT ![k].en = en]
      BY <2>1 DEF T!EditEnglish
    <3> DEFINE n == [m EXCEPT !.en = en]
    <3>2. v1' = [v1 EXCEPT ![k] = n]
      BY <3>1
    <3>3. n \in Entries /\ n.hash = m.hash /\ n.text = m.text /\ n.machine = m.machine
      BY <1>1 DEF Entries
    <3> HIDE DEF n
    <3> QED BY <3>2, <3>3
  <2>2. CASE T!EditText(k)
    <3>1. PICK t \in T!Text :
            v1' = [v1 EXCEPT ![k].text = t, ![k].machine = v1[k].machine \/ v1[k].text = T!Nothing]
      BY <2>2 DEF T!EditText
    <3> DEFINE n == [m EXCEPT !.text = t, !.machine = m.machine \/ m.text = T!Nothing]
    <3>2. v1' = [v1 EXCEPT ![k] = n]
      BY <3>1 DEF TranslationsInv
    <3>3. /\ n \in Entries /\ n.hash = m.hash /\ n.text = t /\ n.machine = (m.machine \/ m.text = T!Nothing)
      BY <1>1 DEF Entries
    <3> HIDE DEF n
    <3> QED BY <1>1, <3>2, <3>3, NothingIsNoText DEF Entries
  <2> QED BY <2>1, <2>2
<1>3. v3' = v3 /\ v4' = v4
  BY DEF T!EditEnglish, T!EditText
<1>4. v1' \in [TextKey -> Entries] /\ v1'[k] = n /\ \A j \in TextKey \ {k} : v1'[j] = v1[j]
  BY <1>2 DEF TranslationsInv
<1>5. HashKnown(n, v4[k])
  BY <1>1, <1>2 DEF HashKnown, Entries
<1> QED BY <1>3, <1>4, <1>5 DEF TranslationsInv

LEMMA TranslationsKeep == TranslationsInv /\ T!Next => TranslationsInv'
<1> SUFFICES ASSUME TranslationsInv, T!Next PROVE TranslationsInv'
  OBVIOUS
<1>1. ASSUME NEW ks \in T!SelectKeys, T!Reflag(ks) PROVE TranslationsInv'
  <2>1. v1' = [k \in TextKey |-> IF k \in ks THEN T!FlagMachine(v1[k]) ELSE v1[k]] /\ v3' = v3 /\ v4' = v4
    BY <1>1 DEF T!Reflag
  <2>2. \A k \in TextKey : v1'[k] \in Entries /\ HashKnown(v1'[k], v4[k])
    BY <2>1, Flagged DEF TranslationsInv
  <2> QED BY <2>1, <2>2 DEF TranslationsInv
<1>2. ASSUME NEW all \in BOOLEAN, T!Export(all) PROVE TranslationsInv'
  BY <1>2 DEF T!Export, TranslationsInv
<1>3. ASSUME NEW kind \in {"sync", "batch"}, NEW mode \in T!Mode, T!Submit(kind, mode) PROVE TranslationsInv'
  <2>1. T!Requests(mode) \in [TextKey -> T!English \cup {T!Nothing}]
    BY DEF T!Requests, TranslationsInv, Entries
  <2> QED BY <1>3, <2>1 DEF T!Submit, TranslationsInv
<1>4. CASE T!Abandon
  BY <1>4 DEF T!Abandon, TranslationsInv, T!NoJob, T!Mode
<1> QED BY <1>1, <1>2, <1>3, <1>4, ApproveKeeps, ImportKeeps, TranslatorKeeps, EditsKeep DEF T!Next

LEMMA TranslationsSay == TranslationsInv => T!ReviewedWasApproved
<1> SUFFICES ASSUME TranslationsInv, NEW k \in TextKey, T!StateOf(v1[k]) = "reviewed"
             PROVE  <<v1[k].en, v1[k].text>> \in v4[k] \ Unruly
  BY DEF T!ReviewedWasApproved
<1>1. v1[k].hash # T!NoPair /\ v1[k].hash = <<v1[k].en, v1[k].text>>
  BY DEF T!StateOf, T!Stale, T!ReviewHash
<1> QED BY <1>1 DEF TranslationsInv, HashKnown

\* Two texts of one pair and one hash that is there are one.
LEMMA NothingIsOverwritten ==
  ASSUME TranslationsInv, TranslationsInv'
  PROVE  T!OverwritesNothingNewer /\ T!ApprovalsShow
<1>1. ASSUME NEW k \in TextKey, v1'[k] # v1[k], T!Import PROVE v2[k] = <<v1[k].en, v1[k].text>>
  BY <1>1 DEF T!Import, T!Current, T!ReviewHash
<1>2. T!OverwritesNothingNewer
  BY <1>1, TranslatorKeeps DEF T!OverwritesNothingNewer
<1>3. ASSUME NEW k \in TextKey, T!StateOf(v1'[k]) = "reviewed", v1'[k] # v1[k]
      PROVE  k \in T!NewlyReviewed(v1, v1')
  <2>1. v1'[k].hash # T!NoPair
    BY <1>3 DEF T!StateOf
  <2>2. v1[k] \in Entries /\ v1'[k] \in Entries /\ HashKnown(v1[k], v4[k]) /\ HashKnown(v1'[k], v4'[k])
    BY DEF TranslationsInv
  <2>3. \/ v1'[k].hash # v1[k].hash \/ v1'[k].en # v1[k].en \/ v1'[k].text # v1[k].text
    BY <1>3, <2>1, <2>2 DEF Entries, HashKnown
  <2> QED BY <2>1, <2>3 DEF T!NewlyReviewed
<1> QED BY <1>2, <1>3 DEF T!ApprovalsShow

LEMMA TranslationsTypesInit == T!Init => T!TypeOK
<1> SUFFICES ASSUME T!Init PROVE T!TypeOK
  OBVIOUS
<1>1. TranslationsInv
  BY TranslationsInit
<1>2. v2 = [k \in TextKey |-> T!NoPair] /\ v4 = [k \in TextKey |-> {}] /\ v5 = 0
  BY DEF T!Init
<1>3. 0 \in 0 .. MaxEdits
  BY ServiceAssumption DEF T!TranslationsAssumption
<1> QED BY <1>1, <1>2, <1>3 DEF TranslationsInv, Entries, T!TypeOK

LEMMA TranslationsTypesKeep ==
  ASSUME TranslationsInv, T!TypeOK, T!Next, TranslationsInv'
  PROVE  T!TypeOK'
<1> DEFINE Pairs == T!English \X T!Text
<1>1. /\ v1 \in [TextKey -> Entries] /\ v1' \in [TextKey -> Entries]
      /\ v3' \in [kind : {"none", "sync", "batch"}, mode : T!Mode, asked : [TextKey -> T!English \cup {T!Nothing}]]
  BY DEF TranslationsInv
<1>2. /\ v2 \in [TextKey -> Pairs \cup {T!NoPair}] /\ v4 \in [TextKey -> SUBSET Pairs] /\ v5 \in 0 .. MaxEdits
  BY DEF T!TypeOK
<1>3. MaxEdits \in Nat
  BY ServiceAssumption DEF T!TranslationsAssumption
<1> HIDE DEF Pairs
<1>4. v2' \in [TextKey -> Pairs \cup {T!NoPair}]
  <2>1. CASE v2' = v2
    BY <1>2, <2>1
  <2>2. ASSUME NEW all \in BOOLEAN, T!Export(all) PROVE v2' \in [TextKey -> Pairs \cup {T!NoPair}]
    <3>1. \A k \in TextKey : v1[k].text # T!Nothing => <<v1[k].en, v1[k].text>> \in Pairs
      BY <1>1 DEF Entries, Pairs
    <3>2. \A k \in T!SheetKeys(all) : v1[k].text # T!Nothing
      BY DEF T!SheetKeys, T!Pending, T!StateOf
    <3>3. v2' = [k \in TextKey |-> IF k \in T!SheetKeys(all) THEN <<v1[k].en, v1[k].text>> ELSE T!NoPair]
      BY <2>2 DEF T!Export
    <3> QED BY <3>1, <3>2, <3>3
  <2> QED BY <2>1, <2>2
       DEF T!Next, T!Approve, T!Reflag, T!Import, T!Submit, T!Translator, T!AnswerSync, T!Collect, T!Abandon,
           T!EditEnglish, T!EditText
<1>5. v4' \in [TextKey -> SUBSET Pairs]
  <2>1. CASE v4' = v4
    BY <1>2, <2>1
  <2>2. ASSUME NEW ks \in T!SelectKeys, T!Approve(ks) PROVE v4' \in [TextKey -> SUBSET Pairs]
    <3>1. v4' = [k \in TextKey |-> IF k \in ks THEN v4[k] \cup {<<v1[k].en, v1[k].text>>} ELSE v4[k]]
      BY <2>2 DEF T!Approve
    <3>2. \A k \in ks : v1[k].text # T!Nothing
      BY <2>2 DEF T!Approve, T!Pending, T!StateOf
    <3>3. \A k \in TextKey : v1[k].text # T!Nothing => <<v1[k].en, v1[k].text>> \in Pairs
      BY <1>1 DEF Entries, Pairs
    <3> QED BY <1>2, <3>1, <3>2, <3>3
  <2>3. CASE T!Import
    <3>1. PICK rows \in [{k \in TextKey : v2[k] # T!NoPair} -> T!Row] :
            v4' = [k \in TextKey |->
                     IF k \in DOMAIN rows /\ rows[k].x THEN v4[k] \cup {<<rows[k].en, rows[k].text>>} ELSE v4[k]]
      BY <2>3 DEF T!Import
    <3>2. \A k \in DOMAIN rows : <<rows[k].en, rows[k].text>> \in Pairs
      BY DEF T!Row, Pairs
    <3> QED BY <1>2, <3>1, <3>2
  <2> QED BY <2>1, <2>2, <2>3
       DEF T!Next, T!Export, T!Reflag, T!Submit, T!Translator, T!AnswerSync, T!Collect, T!Abandon,
           T!EditEnglish, T!EditText
<1>6. v5' \in 0 .. MaxEdits
  <2>1. CASE v5' = v5
    BY <1>2, <2>1
  <2>2. CASE v5 < MaxEdits /\ v5' = v5 + 1
    BY <1>2, <1>3, <2>2
  <2> QED BY <2>1, <2>2
       DEF T!Next, T!Approve, T!Export, T!Reflag, T!Import, T!Submit, T!Translator, T!AnswerSync, T!Collect,
           T!Abandon, T!EditEnglish, T!EditText
<1> QED BY <1>1, <1>4, <1>5, <1>6 DEF Entries, Pairs, T!TypeOK

-----------------------------------------------------------------------------
(* The reset of the demo.  While it runs and nobody is new, everybody is    *)
(* locked: so nobody leaves, registers or becomes staff, and whoever has an *)
(* account and is to go is erased or is yet to be.  The objects are of rows *)
(* the reset still sees, or of those it is just about to delete.            *)

Erasing == {"erasing", "erased rows", "erased"}
Underway == {"locked", "asked", "looked"} \cup Erasing

Stores == {"none", "api", "other"}
Owned  == {"live", "banned"}

Runs ==
  [pc : Underway, store : Stores, lost : BOOLEAN, bare : BOOLEAN, locked : SUBSET Persona,
   ids : SUBSET Persona, spared : SUBSET Persona, photos : SUBSET (Persona \X Picture),
   check : SUBSET Picture, absent : BOOLEAN, todo : SUBSET Persona, mine : SUBSET Picture,
   keys : SUBSET Picture, deleted : SUBSET (Persona \X Picture), erased : SUBSET Persona, answer : Nat]

Begun == [pc : {"begun"}, store : Stores, lost : BOOLEAN, bare : BOOLEAN]

Histories ==
  [pc : {"histories"}, bare : BOOLEAN, spared : SUBSET Persona,
   todo : SUBSET DOMAIN PERSONA_HISTORIES, doing : SUBSET DOMAIN PERSONA_HISTORIES]

Over == [pc : R!Ended]

PersonasTyped ==
  /\ v1 \in [Persona -> {"none", "identity", "live", "banned", "gone"}]
  /\ v2 \in [Persona -> {"none", "role", "ended", "audited"}]
  /\ v3 \in SUBSET (Persona \X Picture) /\ \A r \in v3 : v1[r[1]] \in Owned
  /\ v6 \in Runs \cup Begun \cup Histories \cup Over
  /\ v7 \in BOOLEAN /\ v8 \in BOOLEAN /\ v9 \in BOOLEAN

\* The objects and the rows, whether a reset runs or not.
ObjectsKnown ==
  /\ v8 \/ v9 \/ v5 \subseteq v4 \cup R!PicturesOf(v3)
  /\ v7 \/ R!PicturesOf(R!Seen) \subseteq v5
  /\ v6.pc = "staff row" => v8
  /\ v6.pc \in {"begun"} \cup Underway => (v6.store = "other" /\ v6.lost => v9)

\* Whom the reset has erased, and who may yet do what.
PeopleKnown ==
  v6.pc \in Underway =>
    /\ v6.deleted = {r \in v3 : r[1] \in v6.erased} /\ v6.erased \subseteq v6.ids
    /\ v6.pc \notin Erasing => v6.erased = {}
    /\ v6.pc \in Erasing => v6.todo \subseteq v6.ids
    /\ ~v8 => /\ \A p \in Persona : v1[p] # "none" => p \in v6.locked
              /\ \A p \in v6.ids : v2[p] \in {"none", "ended"}
              /\ v6.pc \in Erasing =>
                   \A p \in v6.ids : v1[p] \in Owned => p \in v6.todo \cup v6.erased

\* What it knows of the stores, and has left in them.
StoresKnown ==
  /\ v6.pc = "looked" /\ v6.store = "other" /\ ~v6.lost =>
       v6.check = R!PicturesOf(v6.photos) \/ v6.absent
  /\ v6.pc \in Erasing /\ v6.store = "other" /\ ~v9 => v6.photos = {}
  /\ v6.pc \in {"erased rows", "erased"} /\ v6.store = "other" /\ ~v9 => v6.mine = {}
  /\ ~v8 /\ ~v9 =>
       /\ v6.pc = "erasing" => v5 \subseteq v4 \cup R!PicturesOf(R!Seen)
       /\ v6.pc = "erased rows" => v5 \subseteq v4 \cup R!PicturesOf(R!Seen) \cup v6.keys
       /\ v6.pc = "erased" =>
            \/ v5 \subseteq v4 \cup R!PicturesOf(R!Seen)
            \/ v6.answer = 0 /\ v5 \subseteq v4 \cup R!PicturesOf(R!Seen) \cup v6.mine
            \/ v6.answer # 0 /\ v6.mine = {}

PersonasInv == PersonasTyped /\ ObjectsKnown /\ PeopleKnown /\ StoresKnown

LEMMA PicturesOfRows ==
  /\ \A s, t : s \subseteq t => R!PicturesOf(s) \subseteq R!PicturesOf(t)
  /\ \A s, t : R!PicturesOf(s \cup t) = R!PicturesOf(s) \cup R!PicturesOf(t)
  /\ \A p, k : R!PicturesOf({<<p, k>>}) = {k}
  /\ R!PicturesOf({}) = {}
  /\ \A s : R!PicturesOf(s) = {} => s = {}
  /\ \A s \in SUBSET (Persona \X Picture) : R!PicturesOf(s) \in SUBSET Picture
<1>1. \A s, t : s \subseteq t => R!PicturesOf(s) \subseteq R!PicturesOf(t)
  BY DEF R!PicturesOf
<1>2. \A s, t : R!PicturesOf(s \cup t) = R!PicturesOf(s) \cup R!PicturesOf(t)
  BY DEF R!PicturesOf
<1>3. \A p, k : R!PicturesOf({<<p, k>>}) = {k}
  BY DEF R!PicturesOf
<1>4. /\ R!PicturesOf({}) = {}
      /\ \A s : R!PicturesOf(s) = {} => s = {}
  BY DEF R!PicturesOf
<1>5. \A s \in SUBSET (Persona \X Picture) : R!PicturesOf(s) \in SUBSET Picture
  BY DEF R!PicturesOf
<1> QED  BY <1>1, <1>2, <1>3, <1>4, <1>5

LEMMA RunShapes ==
  ASSUME PersonasTyped
  PROVE  /\ v6.pc \in Underway <=> v6 \in Runs
         /\ v6.pc = "begun" <=> v6 \in Begun
         /\ v6.pc = "histories" <=> v6 \in Histories
         /\ R!InTransaction <=> v6.pc \in Underway
         /\ v6.pc \in Underway \cup {"begun", "histories"} \cup R!Ended
BY DEF PersonasTyped, Runs, Begun, Histories, Over, Underway, Erasing, R!Ended, R!InTransaction, R!Under

\* What the reset sees is what it has not erased.
LEMMA SeenIs ==
  ASSUME PersonasTyped, PeopleKnown
  PROVE  /\ v6.pc \in Underway => R!Seen = {r \in v3 : r[1] \notin v6.erased}
         /\ v6.pc \notin Erasing => R!Seen = v3
         /\ R!Seen \subseteq v3
<1>1. v6.pc \in Underway => R!Seen = {r \in v3 : r[1] \notin v6.erased}
  BY RunShapes DEF R!Seen, PeopleKnown
<1>2. v6.pc \notin Underway => R!Seen = v3
  BY RunShapes DEF R!Seen
<1>3. v6.pc \in Underway /\ v6.pc \notin Erasing => v6.erased = {}
  BY DEF PeopleKnown
<1> QED BY <1>1, <1>2, <1>3 DEF Underway

LEMMA PersonasInit == R!Init => PersonasInv
<1> SUFFICES ASSUME R!Init PROVE PersonasInv
  OBVIOUS
<1>1. /\ v1 \in [Persona -> {"none", "live"}] /\ v2 = [p \in Persona |-> "none"]
      /\ v3 \in SUBSET (R!Accounts \X Picture) /\ v5 = v4 \cup R!PicturesOf(v3)
      /\ v6 = R!Idle /\ v7 = FALSE /\ v8 = FALSE /\ v9 = FALSE
  BY DEF R!Init
<1>2. v6 \in Over /\ v6.pc = "idle"
  BY <1>1 DEF R!Idle, Over, R!Ended
<1>3. \A r \in v3 : r \in Persona \X Picture /\ v1[r[1]] \in Owned
  BY <1>1 DEF R!Accounts, Owned
<1>4. PersonasTyped
  BY <1>1, <1>2, <1>3 DEF PersonasTyped
<1>5. R!Seen = v3
  BY <1>2 DEF R!Seen, R!InTransaction, R!Under, R!Ended
<1> QED BY <1>1, <1>2, <1>4, <1>5 DEF PersonasInv, ObjectsKnown, PeopleKnown, StoresKnown, Underway, Erasing

-----------------------------------------------------------------------------
(* The command.                                                            *)

\* The command goes on where nothing of its own has changed.
LEMMA GoesOn ==
  ASSUME PersonasInv, UNCHANGED <<v1, v2, v3, v4, v5, v8>>, v7' \in BOOLEAN, v9' \in BOOLEAN,
         v7 => v7', v9 => v9', v6' \in Runs \cup Begun \cup Histories \cup Over,
         v7' \/ R!Seen' = R!Seen \/ R!Seen' \subseteq R!Seen,
         v6'.pc = "staff row" => v8,
         v6'.pc \in {"begun"} \cup Underway => (v6'.store = "other" /\ v6'.lost => v9'),
         PeopleKnown', StoresKnown'
  PROVE  PersonasInv'
<1>1. PersonasTyped'
  BY DEF PersonasInv, PersonasTyped
<1>2. v7' \/ R!PicturesOf(R!Seen') \subseteq v5
  BY PicturesOfRows DEF PersonasInv, ObjectsKnown
<1>3. R!PicturesOf(R!Seen)' = R!PicturesOf(R!Seen') /\ R!PicturesOf(v3)' = R!PicturesOf(v3')
  BY DEF R!PicturesOf
<1>4. ObjectsKnown'
  BY <1>2, <1>3 DEF PersonasInv, ObjectsKnown
<1> QED BY <1>1, <1>4 DEF PersonasInv

\* What is over, or has not begun to erase, owes nothing.
LEMMA Ends ==
  ASSUME PersonasInv, UNCHANGED <<v1, v2, v3, v4, v5, v8>>, v7' \in BOOLEAN, v9' \in BOOLEAN,
         v7 => v7', v9 => v9', v6' \in Over \cup Begun \cup Histories,
         v7' \/ v6.pc \notin Erasing,
         v6'.pc = "staff row" => v8,
         v6'.pc = "begun" => (v6'.store = "other" /\ v6'.lost => v9')
  PROVE  PersonasInv'
<1>1. v6'.pc \notin Underway
  BY DEF Over, Begun, Histories, Underway, Erasing, R!Ended
<1>2. R!Seen' = v3
  <2>1. ~R!InTransaction'
    BY DEF R!InTransaction, R!Under, Over, Begun, Histories, R!Ended
  <2> QED BY <2>1 DEF R!Seen
<1>3. PeopleKnown' /\ StoresKnown'
  BY <1>1 DEF PeopleKnown, StoresKnown, Underway, Erasing
<1>4. v6.pc \notin Erasing => R!Seen = v3
  BY SeenIs DEF PersonasInv
<1> QED BY <1>1, <1>2, <1>3, <1>4, GoesOn

LEMMA TakeBackKeeps ==
  ASSUME PersonasInv, NEW why \in {"taken back", "staff row"}, R!TakeBack(why), why = "staff row" => v8
  PROVE  PersonasInv'
<1>1. v6' = [pc |-> why] /\ v7' = TRUE /\ UNCHANGED <<v1, v2, v3, v4, v5, v8, v9>>
  BY DEF R!TakeBack, R!Over, R!rows
<1>2. v6' \in Over /\ v6'.pc = why
  BY <1>1 DEF Over, R!Ended
<1> QED BY <1>1, <1>2, Ends DEF PersonasInv, PersonasTyped, R!Ended


LEMMA BeginKeeps ==
  ASSUME PersonasInv, NEW store \in Stores, NEW lost \in BOOLEAN, NEW bare \in BOOLEAN,
         NEW same \in BOOLEAN, R!Begin(store, lost, bare, same)
  PROVE  PersonasInv'
<1>1. /\ v6.pc = "idle" /\ v9' = (v9 \/ (lost /\ store = "other"))
      /\ UNCHANGED <<v1, v2, v3, v4, v5, v7, v8>>
      /\ v6' \in {[pc |-> "begun", store |-> store, lost |-> lost, bare |-> bare], [pc |-> "refused"]}
  BY DEF R!Begin, R!Under, R!Over, R!rows
<1>2. CASE v6' = [pc |-> "refused"]
  <2>1. v6' \in Over /\ v6'.pc = "refused"
    BY <1>2 DEF Over, R!Ended
  <2> QED BY <1>1, <2>1, Ends DEF PersonasInv, PersonasTyped, Erasing
<1>3. CASE v6' = [pc |-> "begun", store |-> store, lost |-> lost, bare |-> bare]
  <2>1. v6' \in Begun /\ v6'.pc = "begun" /\ v6'.store = store /\ v6'.lost = lost
    BY <1>3 DEF Begun
  <2> QED BY <1>1, <2>1, Ends DEF PersonasInv, PersonasTyped, Erasing
<1> QED BY <1>1, <1>2, <1>3

LEMMA LockKeeps == ASSUME PersonasInv, R!Lock PROVE PersonasInv'
<1> DEFINE r == [pc |-> "locked", store |-> v6.store, lost |-> v6.lost, bare |-> v6.bare,
                 locked |-> R!Identities, ids |-> {}, spared |-> {}, photos |-> {}, check |-> {},
                 absent |-> FALSE, todo |-> {}, mine |-> {}, keys |-> {}, deleted |-> {},
                 erased |-> {}, answer |-> 0]
<1>1. /\ v6.pc = "begun" /\ v6' = r /\ UNCHANGED <<v1, v2, v3, v4, v5, v7, v8, v9>>
  BY DEF R!Lock, R!Go, R!Under, R!rows
<1>2. v6 \in Begun
  BY <1>1, RunShapes DEF PersonasInv
<1>3. /\ r \in Runs /\ r.pc = "locked" /\ r.locked = R!Identities /\ r.ids = {} /\ r.deleted = {}
      /\ r.erased = {} /\ r.store = v6.store /\ r.lost = v6.lost
  BY <1>2 DEF Begun, Runs, Underway, R!Identities
<1> HIDE DEF r
<1>4. R!Seen' = v3 /\ R!Seen = v3
  <2>1. R!Seen = v3
    BY <1>1, SeenIs DEF PersonasInv, Erasing
  <2>2. R!Seen' = v3
    BY <1>1, <1>3 DEF R!Seen
  <2> QED BY <2>1, <2>2
<1>5. PeopleKnown'
  BY <1>1, <1>3 DEF PeopleKnown, Underway, Erasing, R!Identities
<1>6. StoresKnown'
  BY <1>1, <1>3 DEF StoresKnown, Erasing
<1>7. v6'.store = "other" /\ v6'.lost => v9'
  BY <1>1, <1>3 DEF PersonasInv, ObjectsKnown
<1> QED BY <1>1, <1>3, <1>4, <1>5, <1>6, <1>7, GoesOn DEF PersonasInv, PersonasTyped

\* The questions asked in the transaction, before anybody is erased.
LEMMA AsksOn ==
  ASSUME PersonasInv, v6.pc \in Underway \ Erasing, NEW r \in Runs, v6' = r,
         UNCHANGED <<v1, v2, v3, v4, v5, v7, v8, v9>>,
         r.pc \in {"asked", "looked"}, r.locked = v6.locked, r.deleted = v6.deleted, r.erased = v6.erased,
         r.store = v6.store, r.lost = v6.lost,
         ~v8 => \A p \in r.ids : v2[p] \in {"none", "ended"},
         r.pc = "looked" /\ r.store = "other" /\ ~r.lost => r.check = R!PicturesOf(r.photos) \/ r.absent
  PROVE  PersonasInv'
<1>1. v6.erased = {} /\ v6.deleted = {}
  BY DEF PersonasInv, PeopleKnown
<1>2. R!Seen' = v3 /\ R!Seen = v3
  <2>1. R!Seen = v3
    BY SeenIs DEF PersonasInv
  <2>2. R!Seen' = v3
    BY <1>1 DEF R!Seen
  <2> QED BY <2>1, <2>2
<1>3. PeopleKnown'
  BY <1>1 DEF PersonasInv, PeopleKnown, Underway, Erasing
<1>4. StoresKnown'
  <2>1. R!PicturesOf(v6.photos)' = R!PicturesOf(r.photos)
    BY DEF R!PicturesOf
  <2> QED BY <2>1 DEF StoresKnown, Erasing
<1>5. v6'.store = "other" /\ v6'.lost => v9'
  BY DEF PersonasInv, ObjectsKnown
<1> QED BY <1>2, <1>3, <1>4, <1>5, GoesOn DEF PersonasInv, PersonasTyped

\* The answers that end it.
LEMMA RefusedKeeps ==
  ASSUME PersonasInv, v6.pc \in Underway \ Erasing, R!Go(R!Over("refused"))
  PROVE  PersonasInv'
<1>1. v6' = [pc |-> "refused"] /\ UNCHANGED <<v1, v2, v3, v4, v5, v7, v8, v9>>
  BY DEF R!Go, R!Over, R!rows
<1>2. v6' \in Over /\ v6'.pc = "refused"
  BY <1>1 DEF Over, R!Ended
<1> QED BY <1>1, <1>2, Ends DEF PersonasInv, PersonasTyped

LEMMA AskStaffKeeps == ASSUME PersonasInv, R!Ask PROVE PersonasInv'
<1> DEFINE r == [v6 EXCEPT !.pc = "asked", !.spared = {p \in R!Identities : R!IsStaff(p)},
                           !.ids = {p \in R!Identities : ~R!IsStaff(p)}]
<1>1. v6.pc = "locked" /\ v6' = r /\ UNCHANGED <<v1, v2, v3, v4, v5, v7, v8, v9>>
  BY DEF R!Ask, R!Go, R!Under, R!rows
<1>2. v6 \in Runs /\ v6.pc \in Underway \ Erasing
  BY <1>1, RunShapes DEF PersonasInv, Underway, Erasing
<1>3. /\ r \in Runs /\ r.pc = "asked" /\ r.locked = v6.locked /\ r.deleted = v6.deleted
      /\ r.erased = v6.erased /\ r.store = v6.store /\ r.lost = v6.lost
      /\ r.ids = {p \in R!Identities : ~R!IsStaff(p)}
  BY <1>2 DEF Runs, Underway, R!Identities
<1>4. \A p \in r.ids : v2[p] \in {"none", "ended"}
  BY <1>3 DEF PersonasInv, PersonasTyped, R!Identities, R!IsStaff
<1> HIDE DEF r
<1> QED BY <1>1, <1>2, <1>3, <1>4, AsksOn

LEMMA LookKeeps == ASSUME PersonasInv, R!Look PROVE PersonasInv'
<1> DEFINE found == {r \in v3 : r[1] \in v6.ids}
           r == [v6 EXCEPT !.pc = "looked", !.photos = found,
                   !.check = IF v6.store = "none" \/ v6.lost THEN {} ELSE R!PicturesOf(found)]
<1>1. v6.pc = "asked" /\ (R!Go(R!Over("refused")) \/ R!Go(r))
  BY DEF R!Look, R!Under
<1>2. v6 \in Runs /\ v6.pc \in Underway \ Erasing
  BY <1>1, RunShapes DEF PersonasInv, Underway, Erasing
<1>3. CASE R!Go(r)
  <2>1. v6' = r /\ UNCHANGED <<v1, v2, v3, v4, v5, v7, v8, v9>>
    BY <1>3 DEF R!Go, R!rows
  <2>2. found \in SUBSET (Persona \X Picture)
    BY DEF PersonasInv, PersonasTyped
  <2> HIDE DEF found
  <2>3. R!PicturesOf(found) \in SUBSET Picture
    BY <2>2, PicturesOfRows
  <2>4. /\ r \in Runs /\ r.pc = "looked" /\ r.locked = v6.locked /\ r.deleted = v6.deleted
        /\ r.erased = v6.erased /\ r.store = v6.store /\ r.lost = v6.lost /\ r.ids = v6.ids
        /\ r.photos = found
        /\ (r.store = "other" /\ ~r.lost => r.check = R!PicturesOf(found))
    BY <1>2, <2>2, <2>3 DEF Runs, Underway
  <2>5. ~v8 => \A p \in r.ids : v2[p] \in {"none", "ended"}
    BY <1>2, <2>4 DEF PersonasInv, PeopleKnown
  <2> HIDE DEF r
  <2> QED BY <1>2, <2>1, <2>4, <2>5, AsksOn
<1> QED BY <1>1, <1>2, <1>3, RefusedKeeps

LEMMA AskStoreKeeps ==
  ASSUME PersonasInv, NEW k \in Picture, NEW answers \in BOOLEAN, R!AskStore(k, answers)
  PROVE  PersonasInv'
<1> DEFINE r == [v6 EXCEPT !.check = v6.check \ {k},
                           !.absent = v6.absent \/ v6.store = "other" \/ k \notin v5]
<1>1. v6.pc = "looked" /\ (R!Go(R!Over("refused")) \/ R!Go(r))
  BY DEF R!AskStore, R!Under
<1>2. v6 \in Runs /\ v6.pc \in Underway \ Erasing
  BY <1>1, RunShapes DEF PersonasInv, Underway, Erasing
<1>3. CASE R!Go(r)
  <2>1. v6' = r /\ UNCHANGED <<v1, v2, v3, v4, v5, v7, v8, v9>>
    BY <1>3 DEF R!Go, R!rows
  <2>2. /\ r \in Runs /\ r.pc = "looked" /\ r.locked = v6.locked /\ r.deleted = v6.deleted
        /\ r.erased = v6.erased /\ r.store = v6.store /\ r.lost = v6.lost /\ r.ids = v6.ids
        /\ (r.store = "other" => r.absent)
    BY <1>1, <1>2 DEF Runs
  <2>3. ~v8 => \A p \in r.ids : v2[p] \in {"none", "ended"}
    BY <1>2, <2>2 DEF PersonasInv, PeopleKnown
  <2> HIDE DEF r
  <2> QED BY <1>2, <2>1, <2>2, <2>3, AsksOn
<1> QED BY <1>1, <1>2, <1>3, RefusedKeeps

LEMMA ReadAccountsKeeps == ASSUME PersonasInv, R!ReadAccounts PROVE PersonasInv'
<1> DEFINE r == [v6 EXCEPT !.pc = "erasing", !.todo = R!Accounts \cap v6.ids]
<1>1. v6.pc = "looked" /\ v6.check = {} /\ IF v6.absent THEN R!Go(R!Over("refused")) ELSE R!Go(r)
  BY DEF R!ReadAccounts, R!Under
<1>2. v6 \in Runs /\ v6.pc \in Underway \ Erasing
  BY <1>1, RunShapes DEF PersonasInv, Underway, Erasing
<1>3. CASE R!Go(r) /\ ~v6.absent
  <2>1. v6' = r /\ UNCHANGED <<v1, v2, v3, v4, v5, v7, v8, v9>>
    BY <1>3 DEF R!Go, R!rows
  <2>2. /\ r \in Runs /\ r.pc = "erasing" /\ r.locked = v6.locked /\ r.deleted = v6.deleted
        /\ r.erased = v6.erased /\ r.store = v6.store /\ r.lost = v6.lost /\ r.ids = v6.ids
        /\ r.photos = v6.photos /\ r.todo = R!Accounts \cap v6.ids
    BY <1>2 DEF Runs, Underway, Erasing, R!Accounts
  <2> HIDE DEF r
  <2>3. v6.erased = {} /\ v6.deleted = {}
    BY <1>2 DEF PersonasInv, PeopleKnown
  <2>4. R!Seen' = v3 /\ R!Seen = v3
    <3>1. R!Seen = v3
      BY <1>2, SeenIs DEF PersonasInv
    <3>2. R!Seen' = v3
      BY <2>1, <2>2, <2>3 DEF R!Seen
    <3> QED BY <3>1, <3>2
  <2>5. PeopleKnown'
    <3>1. /\ v6'.deleted = {x \in v3' : x[1] \in v6'.erased} /\ v6'.erased \subseteq v6'.ids
          /\ v6'.todo \subseteq v6'.ids
      BY <2>1, <2>2, <2>3
    <3>2. ~v8 => /\ \A p \in Persona : v1[p] # "none" => p \in v6.locked
                 /\ \A p \in v6.ids : v2[p] \in {"none", "ended"}
      BY <1>2 DEF PersonasInv, PeopleKnown
    <3>3. \A p \in v6.ids : v1[p] \in Owned => p \in R!Accounts \cap v6.ids
      BY <1>2 DEF R!Accounts, Owned, Runs
    <3> QED BY <2>1, <2>2, <3>1, <3>2, <3>3 DEF PeopleKnown, Erasing
  <2>6. v6.store = "other" /\ ~v9 => v6.photos = {}
    <3>1. v6.store = "other" /\ ~v9 => ~v6.lost
      BY <1>2 DEF PersonasInv, ObjectsKnown
    <3>2. v6.store = "other" /\ ~v9 => R!PicturesOf(v6.photos) = {}
      BY <1>1, <1>3, <3>1 DEF PersonasInv, StoresKnown
    <3> QED BY <3>2, PicturesOfRows
  <2>7. StoresKnown'
    <3>1. R!PicturesOf(R!Seen)' = R!PicturesOf(v3)
      BY <2>4 DEF R!PicturesOf
    <3> QED BY <2>1, <2>2, <2>6, <3>1 DEF PersonasInv, ObjectsKnown, StoresKnown, Erasing
  <2>8. v6'.store = "other" /\ v6'.lost => v9'
    BY <1>2, <2>1, <2>2 DEF PersonasInv, ObjectsKnown
  <2> QED BY <2>1, <2>2, <2>4, <2>5, <2>7, <2>8, GoesOn DEF PersonasInv, PersonasTyped
<1> QED BY <1>1, <1>2, <1>3, RefusedKeeps


LEMMA EraseRowsKeeps ==
  ASSUME PersonasInv, NEW p \in Persona, R!EraseRows(p)
  PROVE  PersonasInv'
<1> DEFINE rowsOf == {r \in v3 : r[1] = p}
           mine == {r \in v6.photos : r[1] = p}
           keys == R!PicturesOf(rowsOf)
           minePictures == R!PicturesOf(mine)
           r == [v6 EXCEPT !.pc = "erased rows", !.todo = v6.todo \ {p}, !.erased = v6.erased \cup {p},
                   !.deleted = v6.deleted \cup rowsOf, !.keys = keys, !.mine = minePictures]
<1>1. v6.pc = "erasing" /\ p \in v6.todo /\ (R!TakeBack("taken back") \/ R!Go(r))
  BY DEF R!EraseRows, R!Under
<1>2. CASE R!Go(r)
  <2>1. v6 \in Runs
    BY <1>1, RunShapes DEF PersonasInv, Underway, Erasing
  <2>2. v6' = r /\ UNCHANGED <<v1, v2, v3, v4, v5, v7, v8, v9>>
    BY <1>2 DEF R!Go, R!rows
  <2>3. /\ rowsOf \in SUBSET (Persona \X Picture) /\ mine \in SUBSET (Persona \X Picture)
        /\ (v6.photos = {} => mine = {})
    BY <2>1 DEF PersonasInv, PersonasTyped, Runs
  <2>4. keys \in SUBSET Picture /\ minePictures \in SUBSET Picture
    BY <2>3, PicturesOfRows
  <2>5. v6.photos = {} => minePictures = {}
    BY <2>3, PicturesOfRows
  <2>6. R!Seen = {x \in v3 : x[1] \notin v6.erased}
    BY <1>1, SeenIs DEF PersonasInv, Underway, Erasing
  <2>7. /\ v6.deleted = {x \in v3 : x[1] \in v6.erased} /\ v6.erased \subseteq v6.ids
        /\ v6.todo \subseteq v6.ids /\ p \in v6.ids
    BY <1>1 DEF PersonasInv, PeopleKnown, Underway, Erasing
  <2>8. \A x : x \in rowsOf <=> x \in v3 /\ x[1] = p
    OBVIOUS
  <2> HIDE DEF rowsOf, mine, keys, minePictures
  <2>9. /\ r \in Runs /\ r.pc = "erased rows" /\ r.locked = v6.locked /\ r.ids = v6.ids
        /\ r.store = v6.store /\ r.lost = v6.lost /\ r.photos = v6.photos
        /\ r.todo = v6.todo \ {p} /\ r.erased = v6.erased \cup {p} /\ r.deleted = v6.deleted \cup rowsOf
        /\ r.keys = keys /\ r.mine = minePictures
    <3>1. rowsOf \in SUBSET (Persona \X Picture)
      BY <2>3
    <3> QED BY <2>1, <2>4, <3>1 DEF Runs, Underway, Erasing
  <2> HIDE DEF r
  <2>10. r.deleted = {x \in v3 : x[1] \in r.erased}
    BY <2>7, <2>8, <2>9
  <2>11. R!Seen' = {x \in v3 : x[1] \notin r.erased}
    <3>1. R!Seen' = v3 \ r.deleted
      BY <2>2, <2>9 DEF R!Seen, R!InTransaction, R!Under, R!Ended
    <3> QED BY <2>10, <3>1
  <2>12. R!Seen' \subseteq R!Seen /\ R!Seen \subseteq R!Seen' \cup rowsOf
    BY <2>6, <2>8, <2>9, <2>11
  <2>13. R!PicturesOf(R!Seen) \subseteq R!PicturesOf(R!Seen') \cup keys
    <3>1. R!PicturesOf(R!Seen) \subseteq R!PicturesOf(R!Seen' \cup rowsOf)
      BY <2>12, PicturesOfRows
    <3>2. R!PicturesOf(R!Seen' \cup rowsOf) = R!PicturesOf(R!Seen') \cup R!PicturesOf(rowsOf)
      BY PicturesOfRows
    <3> QED BY <3>1, <3>2 DEF keys
  <2>14. R!PicturesOf(R!Seen)' = R!PicturesOf(R!Seen')
    BY DEF R!PicturesOf
  <2>15. PeopleKnown'
    <3>1. ~v8 => /\ \A q \in Persona : v1[q] # "none" => q \in v6.locked
                 /\ \A q \in v6.ids : v2[q] \in {"none", "ended"}
                 /\ \A q \in v6.ids : v1[q] \in Owned => q \in v6.todo \cup v6.erased
      BY <1>1 DEF PersonasInv, PeopleKnown, Underway, Erasing
    <3> QED BY <2>2, <2>7, <2>9, <2>10, <3>1 DEF PeopleKnown, Erasing
  <2>16. StoresKnown'
    <3>1. v6.store = "other" /\ ~v9 => v6.photos = {}
      BY <1>1 DEF PersonasInv, StoresKnown, Erasing
    <3>2. ~v8 /\ ~v9 => v5 \subseteq v4 \cup R!PicturesOf(R!Seen)
      BY <1>1 DEF PersonasInv, StoresKnown
    <3> QED BY <2>2, <2>5, <2>9, <2>13, <2>14, <3>1, <3>2 DEF StoresKnown
  <2>17. v6'.store = "other" /\ v6'.lost => v9'
    BY <1>1, <2>2, <2>9 DEF PersonasInv, ObjectsKnown, Underway, Erasing
  <2> QED BY <2>2, <2>9, <2>12, <2>15, <2>16, <2>17, GoesOn DEF PersonasInv, PersonasTyped
<1> QED BY <1>1, <1>2, TakeBackKeeps

LEMMA Pictures ==
  ASSUME NEW s \in SUBSET Picture
  PROVE  R!Cardinality(s) \in Nat /\ (R!Cardinality(s) = 0 <=> s = {})
<1>1. IsFiniteSet(Picture)
  <2>1. R!IsFiniteSet(Picture)
    BY ServiceAssumption DEF R!PersonasAssumption
  <2> QED BY Zenon, <2>1 DEF R!IsFiniteSet, IsFiniteSet
<1>2. R!Cardinality(s) = Cardinality(s)
  BY Zenon DEF R!Cardinality, Cardinality
<1>3. IsFiniteSet(s)
  BY <1>1, FS_Subset
<1> QED BY <1>2, <1>3, FS_CardinalityType, FS_EmptySet

LEMMA EraseObjectsKeeps ==
  ASSUME PersonasInv, NEW fails \in BOOLEAN, R!EraseObjects(fails)
  PROVE  PersonasInv'
<1> DEFINE gone == IF v6.store = "none" \/ fails THEN {} ELSE R!Orphaned(v6.keys)
           r == [v6 EXCEPT !.pc = "erased", !.answer = R!Cardinality(gone)]
<1>1. /\ v6.pc = "erased rows" /\ v6' = r /\ UNCHANGED <<v1, v2, v3, v4, v7, v9>>
      /\ v5' = IF v6.store = "api" THEN v5 \ gone ELSE v5
      /\ v8' = (v8 \/ (gone = {} /\ ~(v6.keys \subseteq v6.mine)))
  BY DEF R!EraseObjects, R!Under, R!rows
<1>2. v6 \in Runs /\ v6.store \in Stores /\ v6.keys \in SUBSET Picture
  BY <1>1, RunShapes DEF PersonasInv, Underway, Erasing, Runs
<1> DEFINE seen == R!PicturesOf(R!Seen)
<1>3. R!Orphaned(v6.keys) = {k \in v6.keys : k \notin v4 \cup seen}
  BY DEF R!Orphaned
<1>4. gone \in SUBSET Picture /\ \A k \in gone : k \notin v4 \cup seen
  BY <1>2, <1>3
<1>5. R!Cardinality(gone) \in Nat /\ (R!Cardinality(gone) = 0 <=> gone = {})
  BY <1>4, Pictures
<1>6. ~fails /\ v6.store = "api" => \A k \in v6.keys : k \in v4 \cup seen \/ k \in gone
  BY <1>3
<1>7. v6.store = "none" \/ fails => gone = {}
  OBVIOUS
<1> HIDE DEF gone
<1>8. /\ r \in Runs /\ r.pc = "erased" /\ r.locked = v6.locked /\ r.ids = v6.ids
      /\ r.store = v6.store /\ r.lost = v6.lost /\ r.photos = v6.photos /\ r.todo = v6.todo
      /\ r.erased = v6.erased /\ r.deleted = v6.deleted /\ r.mine = v6.mine
      /\ r.answer = R!Cardinality(gone)
  BY <1>2, <1>5 DEF Runs, Underway, Erasing
<1> HIDE DEF r
<1>9. R!Seen' = R!Seen /\ seen' = seen /\ R!PicturesOf(v3)' = R!PicturesOf(v3)
  <2>1. R!Seen' = R!Seen
    BY <1>1, <1>8 DEF R!Seen, R!InTransaction, R!Under, R!Ended
  <2> QED BY <1>1, <2>1 DEF R!PicturesOf
<1> HIDE DEF seen
<1>10. v5' \subseteq v5 /\ \A k \in seen : k \in v5 => k \in v5'
  BY <1>1, <1>4
<1>11. v8' \in BOOLEAN /\ (v8 => v8')
  BY <1>1 DEF PersonasInv, PersonasTyped
<1>12. PersonasTyped'
  BY <1>1, <1>8, <1>11 DEF PersonasInv, PersonasTyped
<1>13. ObjectsKnown'
  <2>1. v8 \/ v9 \/ v5 \subseteq v4 \cup R!PicturesOf(v3)
    BY DEF PersonasInv, ObjectsKnown
  <2>2. v7 \/ seen \subseteq v5
    BY DEF PersonasInv, ObjectsKnown, seen
  <2>3. v6.store = "other" /\ v6.lost => v9
    BY <1>1 DEF PersonasInv, ObjectsKnown, Underway, Erasing
  <2>4. v7 \/ seen' \subseteq v5'
    BY <1>9, <1>10, <2>2
  <2> QED BY <1>1, <1>8, <1>9, <1>10, <1>11, <2>1, <2>3, <2>4 DEF ObjectsKnown, seen
<1>14. PeopleKnown'
  BY <1>1, <1>8, <1>11 DEF PersonasInv, PeopleKnown, Underway, Erasing
<1>15. StoresKnown'
  <2>1. v6.store = "other" /\ ~v9 => v6.photos = {} /\ v6.mine = {}
    BY <1>1 DEF PersonasInv, StoresKnown, Erasing
  <2>2. ~v8 /\ ~v9 => v5 \subseteq v4 \cup seen \cup v6.keys
    BY <1>1 DEF PersonasInv, StoresKnown, seen
  <2>3. ASSUME ~v8', ~v9
        PROVE  \/ v5' \subseteq v4 \cup seen
               \/ r.answer = 0 /\ v5' \subseteq v4 \cup seen \cup v6.mine
               \/ r.answer # 0 /\ v6.mine = {}
    <3>1. v5 \subseteq v4 \cup seen \cup v6.keys
      BY <1>11, <2>2, <2>3
    <3>2. CASE gone = {}
      <4>1. v6.keys \subseteq v6.mine /\ r.answer = 0
        BY <1>1, <1>5, <1>8, <2>3, <3>2
      <4> QED BY <1>10, <3>1, <4>1
    <3>3. CASE gone # {} /\ v6.store = "api"
      BY <1>1, <1>6, <1>7, <3>1, <3>3
    <3>4. CASE gone # {} /\ v6.store = "other"
      BY <1>5, <1>8, <2>1, <2>3, <3>4
    <3> QED BY <1>2, <1>7, <3>2, <3>3, <3>4 DEF Stores
  <2>4. r.pc = "erased" /\ v4' = v4 /\ v9' = v9 /\ R!PicturesOf(R!Seen)' = seen
    BY <1>1, <1>8, <1>9 DEF seen
  <2>5. /\ v6'.pc = "erased" /\ v6'.answer = r.answer /\ v6'.mine = v6.mine
        /\ v6'.photos = v6.photos /\ v6'.store = v6.store
    BY <1>1, <1>8
  <2>6. ~v8' /\ ~v9' =>
          \/ v5' \subseteq v4' \cup R!PicturesOf(R!Seen)'
          \/ v6'.answer = 0 /\ v5' \subseteq v4' \cup R!PicturesOf(R!Seen)' \cup v6'.mine
          \/ v6'.answer # 0 /\ v6'.mine = {}
    BY <2>3, <2>4, <2>5
  <2>7. v6'.store = "other" /\ ~v9' => v6'.photos = {} /\ v6'.mine = {}
    BY <2>1, <2>4, <2>5
  <2> QED BY <2>5, <2>6, <2>7 DEF StoresKnown
<1> QED BY <1>12, <1>13, <1>14, <1>15 DEF PersonasInv

LEMMA CountObjectsKeeps == ASSUME PersonasInv, R!CountObjects PROVE PersonasInv'
<1> DEFINE r == [v6 EXCEPT !.pc = "erasing", !.answer = 0, !.mine = {}, !.keys = {}]
           due == R!Orphaned(v6.mine)
           seen == R!PicturesOf(R!Seen)
<1>1. v6.pc = "erased" /\ (R!TakeBack("taken back") \/ (R!Go(r) /\ v6.answer = R!Cardinality(due)))
  BY DEF R!CountObjects, R!Under, R!Due
<1>2. CASE R!Go(r) /\ v6.answer = R!Cardinality(due)
  <2>1. v6 \in Runs /\ v6.mine \in SUBSET Picture
    BY <1>1, RunShapes DEF PersonasInv, Underway, Erasing, Runs
  <2>2. v6' = r /\ UNCHANGED <<v1, v2, v3, v4, v5, v7, v8, v9>>
    BY <1>2 DEF R!Go, R!rows
  <2>3. /\ r \in Runs /\ r.pc = "erasing" /\ r.locked = v6.locked /\ r.ids = v6.ids
        /\ r.store = v6.store /\ r.lost = v6.lost /\ r.photos = v6.photos /\ r.todo = v6.todo
        /\ r.erased = v6.erased /\ r.deleted = v6.deleted
    BY <2>1 DEF Runs, Underway, Erasing
  <2> HIDE DEF r
  <2>4. R!Seen' = R!Seen /\ R!PicturesOf(R!Seen)' = seen
    <3>1. R!Seen' = R!Seen
      BY <1>1, <2>2, <2>3 DEF R!Seen, R!InTransaction, R!Under, R!Ended
    <3> QED BY <3>1 DEF R!PicturesOf
  <2>5. due = {k \in v6.mine : k \notin v4 \cup seen} /\ due \in SUBSET Picture
    BY <2>1 DEF R!Orphaned
  <2> HIDE DEF due, seen
  <2>6. R!Cardinality(due) \in Nat /\ (R!Cardinality(due) = 0 <=> due = {})
    BY <2>5, Pictures
  <2>7. ~v8 /\ ~v9 => v5 \subseteq v4 \cup seen
    <3>1. ~v8 /\ ~v9 =>
            \/ v5 \subseteq v4 \cup seen
            \/ v6.answer = 0 /\ v5 \subseteq v4 \cup seen \cup v6.mine
            \/ v6.answer # 0 /\ v6.mine = {}
      BY <1>1 DEF PersonasInv, StoresKnown, seen
    <3> QED BY <1>2, <2>5, <2>6, <3>1
  <2>8. PeopleKnown'
    BY <1>1, <2>2, <2>3 DEF PersonasInv, PeopleKnown, Underway, Erasing
  <2>9. StoresKnown'
    <3>1. v6.store = "other" /\ ~v9 => v6.photos = {}
      BY <1>1 DEF PersonasInv, StoresKnown, Erasing
    <3> QED BY <2>2, <2>3, <2>4, <2>7, <3>1 DEF StoresKnown
  <2>10. v6'.store = "other" /\ v6'.lost => v9'
    BY <1>1, <2>2, <2>3 DEF PersonasInv, ObjectsKnown, Underway, Erasing
  <2> QED BY <2>2, <2>3, <2>4, <2>8, <2>9, <2>10, GoesOn DEF PersonasInv, PersonasTyped
<1> QED BY <1>1, <1>2, TakeBackKeeps


\* What is erased for good is what nobody sees any more.
LEMMA CommitKeeps == ASSUME PersonasInv, R!Commit PROVE PersonasInv'
<1>1. v6.pc = "erasing" /\ v6.todo = {} /\ v6 \in Runs
  <2>1. v6.pc = "erasing" /\ v6.todo = {}
    BY DEF R!Commit, R!Under
  <2> QED BY <2>1, RunShapes DEF PersonasInv, Underway, Erasing
<1>2. CASE \E p \in v6.ids : ~R!Forgettable(p)
  <2>1. v8
    <3>1. ~v8 => \A p \in v6.ids : v2[p] \in {"none", "ended"}
      BY <1>1 DEF PersonasInv, PeopleKnown, Underway, Erasing
    <3> QED BY <1>2, <3>1 DEF R!Forgettable, PersonasInv, PersonasTyped
  <2> QED BY <1>2, <2>1, TakeBackKeeps DEF R!Commit
<1>3. CASE ~\E p \in v6.ids : ~R!Forgettable(p)
  <2> DEFINE r == [pc |-> "histories", bare |-> v6.bare, spared |-> v6.spared,
                   todo |-> IF v6.bare THEN {} ELSE DOMAIN PERSONA_HISTORIES \ v6.spared, doing |-> {}]
             left == {x \in v3 : x[1] \notin v6.ids}
             seen == R!PicturesOf(R!Seen)
  <2>1. /\ v1' = [p \in Persona |-> IF p \in v6.ids THEN "none" ELSE v1[p]]
        /\ v2' = [p \in Persona |-> IF p \in v6.ids THEN "none" ELSE v2[p]]
        /\ v3' = left /\ v6' = r /\ UNCHANGED <<v4, v5, v7, v8, v9>>
    BY <1>3 DEF R!Commit
  <2>2. r \in Histories /\ r.pc = "histories"
    BY <1>1 DEF Runs, Histories
  <2> HIDE DEF r
  <2>3. PersonasTyped'
    <3>1. \A x \in left : x \in v3 /\ x[1] \in Persona /\ x[1] \notin v6.ids /\ v1[x[1]] \in Owned
      BY DEF PersonasInv, PersonasTyped
    <3>2. left \in SUBSET (Persona \X Picture)
      BY DEF PersonasInv, PersonasTyped
    <3> HIDE DEF left
    <3>3. \A x \in v3' : v1'[x[1]] \in Owned
      BY <2>1, <3>1
    <3>4. /\ v1' \in [Persona -> {"none", "identity", "live", "banned", "gone"}]
          /\ v2' \in [Persona -> {"none", "role", "ended", "audited"}]
      BY <2>1 DEF PersonasInv, PersonasTyped
    <3> QED BY <2>1, <2>2, <3>2, <3>3, <3>4 DEF PersonasInv, PersonasTyped
  <2>4. R!Seen = {x \in v3 : x[1] \notin v6.erased} /\ v6.erased \subseteq v6.ids
    BY <1>1, SeenIs DEF PersonasInv, PeopleKnown, Underway, Erasing
  <2>5. left \subseteq R!Seen
    BY <2>4
  <2>6. ~v8 => R!Seen \subseteq left
    <3> SUFFICES ASSUME ~v8, NEW x \in R!Seen PROVE x[1] \notin v6.ids
      BY <2>4
    <3>1. x \in v3 /\ v1[x[1]] \in Owned /\ x[1] \notin v6.erased
      BY <2>4 DEF PersonasInv, PersonasTyped
    <3>2. x[1] \in v6.ids => x[1] \in v6.todo \cup v6.erased
      BY <1>1, <3>1 DEF PersonasInv, PeopleKnown, Underway, Erasing
    <3> QED BY <1>1, <3>1, <3>2
  <2>7. R!Seen' = left
    BY <2>1, <2>2 DEF R!Seen, R!InTransaction, R!Under
  <2>8. R!PicturesOf(R!Seen)' = R!PicturesOf(left) /\ R!PicturesOf(v3)' = R!PicturesOf(left)
    BY <2>1, <2>7 DEF R!PicturesOf
  <2>9. R!PicturesOf(left) \subseteq seen /\ (~v8 => seen \subseteq R!PicturesOf(left))
    BY <2>5, <2>6, PicturesOfRows
  <2>10. /\ ~v8 /\ ~v9 => v5 \subseteq v4 \cup seen
         /\ v7 \/ seen \subseteq v5
    BY <1>1 DEF PersonasInv, StoresKnown, ObjectsKnown
  <2> HIDE DEF left, seen
  <2>11. ObjectsKnown'
    <3>1. v8 \/ v9 \/ v5 \subseteq v4 \cup R!PicturesOf(left)
      BY <2>9, <2>10
    <3>2. v7 \/ R!PicturesOf(left) \subseteq v5
      BY <2>9, <2>10
    <3> QED BY <2>1, <2>2, <2>8, <3>1, <3>2 DEF ObjectsKnown, Underway, Erasing
  <2>12. PeopleKnown' /\ StoresKnown'
    BY <2>1, <2>2 DEF PeopleKnown, StoresKnown, Underway, Erasing
  <2> QED BY <2>3, <2>11, <2>12 DEF PersonasInv
<1> QED BY <1>2, <1>3

-----------------------------------------------------------------------------
(* The histories, and meanwhile.                                           *)

\* Outside a run the accounts, the rows and the objects change together.
LEMMA RowsChange ==
  ASSUME PersonasInv, v6.pc \notin Underway, v6' \in Histories \cup Over \cup Begun,
         v6'.pc = "staff row" => v8, v6'.pc = "begun" => v6' = v6,
         v1' \in [Persona -> {"none", "identity", "live", "banned", "gone"}],
         v2' \in [Persona -> {"none", "role", "ended", "audited"}],
         v3' \in SUBSET (Persona \X Picture), \A x \in v3' : v1'[x[1]] \in Owned,
         v8 \/ v9 \/ v5' \subseteq v4 \cup R!PicturesOf(v3'),
         v7 \/ R!PicturesOf(v3') \subseteq v5',
         UNCHANGED <<v4, v7, v9>>, v8' \in BOOLEAN, v8 => v8'
  PROVE  PersonasInv'
<1>1. v6'.pc \notin Underway
  BY DEF Over, Begun, Histories, Underway, Erasing, R!Ended
<1>2. R!Seen' = v3'
  <2>1. ~R!InTransaction'
    BY DEF R!InTransaction, R!Under, Over, Begun, Histories, R!Ended
  <2> QED BY <2>1 DEF R!Seen
<1>3. PeopleKnown' /\ StoresKnown'
  BY <1>1 DEF PeopleKnown, StoresKnown, Underway, Erasing
<1>4. PersonasTyped'
  BY DEF PersonasInv, PersonasTyped
<1>5. R!PicturesOf(R!Seen)' = R!PicturesOf(v3') /\ R!PicturesOf(v3)' = R!PicturesOf(v3')
  BY <1>2 DEF R!PicturesOf
<1>6. v6'.pc = "begun" => (v6'.store = "other" /\ v6'.lost => v9')
  BY DEF PersonasInv, ObjectsKnown
<1>7. ObjectsKnown'
  BY <1>1, <1>5, <1>6 DEF ObjectsKnown
<1> QED BY <1>3, <1>4, <1>7 DEF PersonasInv

\* Rows of one person that go with the objects nobody else has.
LEMMA TakenAway ==
  ASSUME PersonasInv, NEW p \in Persona, v3' = {x \in v3 : x[1] # p},
         v5' = {k \in v5 : k \in v4 \cup R!PicturesOf(v3')}
  PROVE  /\ v3' \in SUBSET (Persona \X Picture) /\ v3' \subseteq v3
         /\ v5' \subseteq v4 \cup R!PicturesOf(v3')
         /\ R!PicturesOf(v3) \subseteq v5 => R!PicturesOf(v3') \subseteq v5'
<1>1. v3' \subseteq v3 /\ v3 \in SUBSET (Persona \X Picture)
  BY DEF PersonasInv, PersonasTyped
<1>2. R!PicturesOf(v3') \subseteq R!PicturesOf(v3)
  BY <1>1, PicturesOfRows
<1> HIDE DEF R!PicturesOf
<1> QED BY <1>1, <1>2

LEMMA GiveLoginKeeps ==
  ASSUME PersonasInv, NEW p \in Persona, R!GiveLogin(p)
  PROVE  PersonasInv'
<1>1. v6.pc = "histories" /\ v6 \in Histories /\ v6.pc \notin Underway /\ v6.pc \notin Erasing
  <2>1. v6.pc = "histories"
    BY DEF R!GiveLogin, R!Under
  <2> QED BY <2>1, RunShapes DEF PersonasInv, Underway, Erasing
<1>2. CASE R!Go(R!Over("stopped"))
  <2>1. v6' = [pc |-> "stopped"] /\ UNCHANGED <<v1, v2, v3, v4, v5, v7, v8, v9>>
    BY <1>2 DEF R!Go, R!Over, R!rows
  <2>2. v6' \in Over /\ v6'.pc = "stopped"
    BY <2>1 DEF Over, R!Ended
  <2> QED BY <1>1, <2>1, <2>2, Ends DEF PersonasInv, PersonasTyped
<1>3. CASE v1[p] \notin {"gone", "banned"}
  <2> DEFINE r == [v6 EXCEPT !.doing = {p}, !.todo = v6.todo \ {p}]
  <2>1. /\ v1' = [v1 EXCEPT ![p] = "live"] /\ v6' = r /\ p \in v6.todo
        /\ UNCHANGED <<v2, v3, v4, v5, v7, v8, v9>>
    BY <1>3 DEF R!GiveLogin
  <2>2. r \in Histories /\ r.pc = "histories"
    BY <1>1, <2>1 DEF Histories
  <2> HIDE DEF r
  <2>3. v1' \in [Persona -> {"none", "identity", "live", "banned", "gone"}]
    BY <2>1 DEF PersonasInv, PersonasTyped
  <2>4. \A x \in v3' : v1'[x[1]] \in Owned
    BY <2>1 DEF PersonasInv, PersonasTyped, Owned
  <2>5. R!Seen = v3
    BY <1>1, SeenIs DEF PersonasInv
  <2>6. (v8 \/ v9 \/ v5 \subseteq v4 \cup R!PicturesOf(v3)) /\ (v7 \/ R!PicturesOf(v3) \subseteq v5)
    BY <2>5 DEF PersonasInv, ObjectsKnown
  <2>7. R!PicturesOf(v3') = R!PicturesOf(v3)
    BY <2>1
  <2> QED BY <1>1, <2>1, <2>2, <2>3, <2>4, <2>6, <2>7, RowsChange DEF PersonasInv, PersonasTyped
<1> QED BY <1>2, <1>3 DEF R!GiveLogin

LEMMA GiveRestKeeps ==
  ASSUME PersonasInv, NEW p \in Persona, R!GiveRest(p)
  PROVE  PersonasInv'
<1>1. v6.pc = "histories" /\ v6 \in Histories /\ v6.pc \notin Underway /\ v6.pc \notin Erasing
      /\ p \in v6.doing
  <2>1. v6.pc = "histories" /\ p \in v6.doing
    BY DEF R!GiveRest, R!Under
  <2> QED BY <2>1, RunShapes DEF PersonasInv, Underway, Erasing
<1>2. CASE v1[p] # "live"
  <2>1. v6' = [pc |-> "stopped"] /\ UNCHANGED <<v1, v2, v3, v4, v5, v7, v8, v9>>
    BY <1>2 DEF R!GiveRest, R!Go, R!Over, R!rows
  <2>2. v6' \in Over /\ v6'.pc = "stopped"
    BY <2>1 DEF Over, R!Ended
  <2> QED BY <1>1, <2>1, <2>2, Ends DEF PersonasInv, PersonasTyped
<1>3. CASE v1[p] = "live"
  <2> DEFINE r == [v6 EXCEPT !.doing = {}]
             h == PERSONA_HISTORIES[p]
  <2>1. /\ v1' = [v1 EXCEPT ![p] = h] /\ v6' = r /\ UNCHANGED <<v2, v4, v7, v8, v9>>
        /\ v3' = IF h = "gone" THEN {x \in v3 : x[1] # p} ELSE v3
        /\ v5' = IF h = "gone" THEN {k \in v5 : k \in v4 \cup R!PicturesOf(v3')} ELSE v5
    BY <1>3 DEF R!GiveRest
  <2>2. r \in Histories /\ r.pc = "histories"
    BY <1>1 DEF Histories
  <2> HIDE DEF r
  <2>3. h \in {"live", "banned", "gone"}
    <3>1. p \in DOMAIN PERSONA_HISTORIES
      BY <1>1 DEF Histories
    <3> QED BY <3>1, ServiceAssumption DEF R!PersonasAssumption
  <2> HIDE DEF h
  <2>4. v1' \in [Persona -> {"none", "identity", "live", "banned", "gone"}]
    BY <2>1, <2>3 DEF PersonasInv, PersonasTyped
  <2>5. R!Seen = v3
    BY <1>1, SeenIs DEF PersonasInv
  <2>6. (v8 \/ v9 \/ v5 \subseteq v4 \cup R!PicturesOf(v3)) /\ (v7 \/ R!PicturesOf(v3) \subseteq v5)
    BY <2>5 DEF PersonasInv, ObjectsKnown
  <2>7. \A x \in v3 : x[1] \in Persona /\ v1[x[1]] \in Owned
    BY DEF PersonasInv, PersonasTyped
  <2>8. CASE h = "gone"
    <3>1. v3' = {x \in v3 : x[1] # p} /\ v5' = {k \in v5 : k \in v4 \cup R!PicturesOf(v3')}
      BY <2>1, <2>8
    <3>2. \A x \in v3' : v1'[x[1]] \in Owned
      BY <2>1, <2>7, <3>1 DEF PersonasInv, PersonasTyped
    <3>3. /\ v3' \in SUBSET (Persona \X Picture)
          /\ v5' \subseteq v4 \cup R!PicturesOf(v3')
          /\ R!PicturesOf(v3) \subseteq v5 => R!PicturesOf(v3') \subseteq v5'
      BY <3>1, TakenAway
    <3> QED BY <1>1, <2>1, <2>2, <2>4, <2>6, <3>2, <3>3, RowsChange DEF PersonasInv, PersonasTyped
  <2>9. CASE h # "gone"
    <3>1. v3' = v3 /\ v5' = v5 /\ R!PicturesOf(v3') = R!PicturesOf(v3)
      BY <2>1, <2>9
    <3>2. \A x \in v3' : v1'[x[1]] \in Owned
      BY <2>1, <2>3, <2>7, <2>9, <3>1 DEF PersonasInv, PersonasTyped, Owned
    <3> QED BY <1>1, <2>1, <2>2, <2>4, <2>6, <3>1, <3>2, RowsChange DEF PersonasInv, PersonasTyped
  <2> QED BY <2>8, <2>9
<1> QED BY <1>2, <1>3


LEMMA FinishKeeps == ASSUME PersonasInv, R!Finish PROVE PersonasInv'
<1>1. v6.pc = "histories" /\ v6' = [pc |-> "done"] /\ UNCHANGED <<v1, v2, v3, v4, v5, v7, v8, v9>>
  BY DEF R!Finish, R!Go, R!Over, R!Under, R!rows
<1>2. v6' \in Over /\ v6'.pc = "done"
  BY <1>1 DEF Over, R!Ended
<1> QED BY <1>1, <1>2, Ends DEF PersonasInv, PersonasTyped, Erasing

LEMMA AgainKeeps == ASSUME PersonasInv, R!Again PROVE PersonasInv'
<1>1. v6.pc \in R!Ended /\ v6' = [pc |-> "idle"] /\ UNCHANGED <<v1, v2, v3, v4, v5, v7, v8, v9>>
  BY DEF R!Again, R!Go, R!Idle, R!Under, R!rows
<1>2. v6' \in Over /\ v6'.pc = "idle"
  BY <1>1 DEF Over, R!Ended
<1>3. v6.pc \notin Erasing
  BY <1>1 DEF Erasing, R!Ended
<1> QED BY <1>1, <1>2, <1>3, Ends DEF PersonasInv, PersonasTyped

\* What others do while the command stands where it is.
LEMMA Meanwhile ==
  ASSUME PersonasInv, UNCHANGED <<v4, v6, v7, v9>>, PersonasTyped', v8 => v8',
         v6.pc \in Underway =>
           {r \in v3' : r[1] \in v6.erased} = {r \in v3 : r[1] \in v6.erased},
         v8' \/ (v5' \subseteq v5 \cup R!PicturesOf(R!Seen') /\ v3 \subseteq v3'),
         v7 \/ R!PicturesOf(R!Seen') \subseteq v5',
         v6.pc \in Underway /\ ~v8' =>
           /\ \A p \in Persona : v1'[p] # "none" => p \in v6.locked
           /\ \A p \in v6.ids : v2'[p] \in {"none", "ended"}
           /\ \A p \in Persona : v1'[p] \in Owned => v1[p] \in Owned
  PROVE  PersonasInv'
<1> DEFINE seen == R!PicturesOf(R!Seen)
           seenAfter == R!PicturesOf(R!Seen')
<1>1. PeopleKnown'
  <2>1. v6.pc \in Underway => v6.ids \in SUBSET Persona
    BY RunShapes DEF PersonasInv, Runs
  <2> QED BY <2>1 DEF PersonasInv, PeopleKnown
<1>2. /\ R!Seen' \subseteq v3'
      /\ v6.pc \in Underway => R!Seen' = {r \in v3' : r[1] \notin v6.erased}
      /\ v6.pc \notin Underway => R!Seen' = v3'
  <2>1. v6.pc \in Underway => R!Seen' = {r \in v3' : r[1] \notin v6.erased}
    <3>1. v6.pc \in Underway => v6.deleted = {r \in v3' : r[1] \in v6.erased}
      BY DEF PersonasInv, PeopleKnown
    <3>2. v6.pc \in Underway <=> R!InTransaction
      BY RunShapes DEF PersonasInv
    <3>3. R!InTransaction' = R!InTransaction
      BY DEF R!InTransaction, R!Under
    <3> QED BY <3>1, <3>2, <3>3 DEF R!Seen
  <2>2. v6.pc \notin Underway => R!Seen' = v3'
    <3>1. v6.pc \in Underway <=> R!InTransaction
      BY RunShapes DEF PersonasInv
    <3>2. R!InTransaction' = R!InTransaction
      BY DEF R!InTransaction, R!Under
    <3> QED BY <3>1, <3>2 DEF R!Seen
  <2> QED BY <2>1, <2>2
<1>3. v3 \subseteq v3' => R!Seen \subseteq R!Seen'
  <2>1. v6.pc \in Underway => R!Seen = {r \in v3 : r[1] \notin v6.erased}
    BY SeenIs DEF PersonasInv
  <2>2. v6.pc \notin Underway => R!Seen = v3
    BY SeenIs DEF PersonasInv, Underway, Erasing
  <2> QED BY <1>2, <2>1, <2>2
<1>4. /\ R!PicturesOf(R!Seen)' = seenAfter /\ R!PicturesOf(v3)' = R!PicturesOf(v3')
      /\ R!PicturesOf(v6.photos)' = R!PicturesOf(v6.photos)
  BY DEF R!PicturesOf
<1>5. v3 \subseteq v3' => /\ seen \subseteq seenAfter
                          /\ R!PicturesOf(v3) \subseteq R!PicturesOf(v3')
  BY <1>3, PicturesOfRows
<1>6. seenAfter \subseteq R!PicturesOf(v3')
  BY <1>2, PicturesOfRows
<1>7. PersonasTyped' /\ v8' \in BOOLEAN /\ v8 \in BOOLEAN
  BY DEF PersonasInv, PersonasTyped
<1> HIDE DEF seen, seenAfter
<1>8. ObjectsKnown'
  <2>1. v8 \/ v9 \/ v5 \subseteq v4 \cup R!PicturesOf(v3)
    BY DEF PersonasInv, ObjectsKnown
  <2>2. v8' \/ (v5' \subseteq v5 \cup seenAfter /\ v3 \subseteq v3')
    BY DEF seenAfter
  <2>3. v8' \/ v9 \/ v5' \subseteq v4 \cup R!PicturesOf(v3')
    BY <1>5, <1>6, <2>1, <2>2
  <2>4. v7 \/ seenAfter \subseteq v5'
    BY DEF seenAfter
  <2>5. v6.pc = "staff row" => v8
    BY DEF PersonasInv, ObjectsKnown
  <2>6. v6.pc \in {"begun"} \cup Underway => (v6.store = "other" /\ v6.lost => v9)
    BY DEF PersonasInv, ObjectsKnown
  <2> QED BY <1>4, <2>3, <2>4, <2>5, <2>6 DEF ObjectsKnown
<1>9. StoresKnown'
  <2>1. v8' \/ (v5' \subseteq v5 \cup seenAfter /\ seen \subseteq seenAfter)
    BY <1>5 DEF seenAfter
  <2>2. StoresKnown
    BY DEF PersonasInv
  <2>3. ~v8' /\ ~v9 =>
       /\ v6.pc = "erasing" => v5' \subseteq v4 \cup seenAfter
       /\ v6.pc = "erased rows" => v5' \subseteq v4 \cup seenAfter \cup v6.keys
       /\ v6.pc = "erased" =>
            \/ v5' \subseteq v4 \cup seenAfter
            \/ v6.answer = 0 /\ v5' \subseteq v4 \cup seenAfter \cup v6.mine
            \/ v6.answer # 0 /\ v6.mine = {}
    <3> SUFFICES ASSUME ~v8', ~v9
                 PROVE  /\ v6.pc = "erasing" => v5' \subseteq v4 \cup seenAfter
                        /\ v6.pc = "erased rows" => v5' \subseteq v4 \cup seenAfter \cup v6.keys
                        /\ v6.pc = "erased" =>
                             \/ v5' \subseteq v4 \cup seenAfter
                             \/ v6.answer = 0 /\ v5' \subseteq v4 \cup seenAfter \cup v6.mine
                             \/ v6.answer # 0 /\ v6.mine = {}
      OBVIOUS
    <3>1. /\ v6.pc = "erasing" => v5 \subseteq v4 \cup seen
          /\ v6.pc = "erased rows" => v5 \subseteq v4 \cup seen \cup v6.keys
          /\ v6.pc = "erased" =>
               \/ v5 \subseteq v4 \cup seen
               \/ v6.answer = 0 /\ v5 \subseteq v4 \cup seen \cup v6.mine
               \/ v6.answer # 0 /\ v6.mine = {}
      BY <2>2 DEF StoresKnown, seen
    <3> QED BY <2>1, <3>1
  <2>4. /\ v6.pc = "looked" /\ v6.store = "other" /\ ~v6.lost =>
             v6.check = R!PicturesOf(v6.photos) \/ v6.absent
        /\ v6.pc \in Erasing /\ v6.store = "other" /\ ~v9 => v6.photos = {}
        /\ v6.pc \in {"erased rows", "erased"} /\ v6.store = "other" /\ ~v9 => v6.mine = {}
    BY <2>2 DEF StoresKnown
  <2> QED BY <1>4, <2>3, <2>4 DEF StoresKnown
<1> QED BY <1>1, <1>7, <1>8, <1>9 DEF PersonasInv

\* The accounts and the roles change, and no row and no object.
LEMMA NobodysRows ==
  ASSUME PersonasInv, UNCHANGED <<v3, v4, v5, v6, v7, v9>>, PersonasTyped', v8 => v8',
         v6.pc \in Underway /\ ~v8' =>
           /\ \A p \in Persona : v1'[p] # "none" => p \in v6.locked
           /\ \A p \in v6.ids : v2'[p] \in {"none", "ended"}
           /\ \A p \in Persona : v1'[p] \in Owned => v1[p] \in Owned
  PROVE  PersonasInv'
<1>1. R!Seen' = R!Seen
  BY DEF R!Seen, R!InTransaction, R!Under
<1>2. R!PicturesOf(R!Seen') = R!PicturesOf(R!Seen)
  BY <1>1
<1>3. v7 \/ R!PicturesOf(R!Seen') \subseteq v5'
  BY <1>2 DEF PersonasInv, ObjectsKnown
<1> QED BY <1>3, Meanwhile

\* Whoever runs into the reset's lock has not been new behind its back.
LEMMA EverybodyLocked ==
  ASSUME PersonasInv
  PROVE  v6.pc \in Underway /\ ~v8 =>
           /\ \A p \in Persona : v1[p] # "none" => p \in v6.locked /\ R!Locked(p)
           /\ \A p \in v6.ids : v2[p] \in {"none", "ended"}
BY RunShapes DEF PersonasInv, PeopleKnown, R!Locked

LEMMA IdentityKeeps ==
  ASSUME PersonasInv, NEW p \in Persona, R!Identify(p)
  PROVE  PersonasInv'
<1>1. /\ v1[p] = "none" /\ v1' = [v1 EXCEPT ![p] = "identity"]
      /\ v8' = (v8 \/ R!InTransaction) /\ UNCHANGED <<v2, v3, v4, v5, v6, v7, v9>>
  BY DEF R!Identify
<1>2. v6.pc \in Underway => v8'
  BY <1>1, RunShapes DEF PersonasInv
<1>3. v8 \in BOOLEAN /\ R!InTransaction \in BOOLEAN
  BY DEF PersonasInv, PersonasTyped, R!InTransaction, R!Under
<1>4. \A x \in v3 : x[1] \in Persona /\ x[1] # p /\ v1[x[1]] \in Owned
  BY <1>1 DEF PersonasInv, PersonasTyped, Owned
<1>5. v1' \in [Persona -> {"none", "identity", "live", "banned", "gone"}]
  BY <1>1 DEF PersonasInv, PersonasTyped
<1>6. \A x \in v3 : v1'[x[1]] \in Owned
  BY <1>1, <1>4 DEF PersonasInv, PersonasTyped
<1>7. PersonasTyped'
  BY <1>1, <1>3, <1>5, <1>6 DEF PersonasInv, PersonasTyped
<1> QED BY <1>1, <1>2, <1>3, <1>7, NobodysRows

LEMMA RegisterKeeps ==
  ASSUME PersonasInv, NEW p \in Persona, R!Register(p)
  PROVE  PersonasInv'
<1>1. /\ v1[p] = "identity" /\ ~R!Locked(p) /\ v1' = [v1 EXCEPT ![p] = "live"]
      /\ UNCHANGED <<v2, v3, v4, v5, v6, v7, v8, v9>>
  BY DEF R!Register
<1>2. ~(v6.pc \in Underway /\ ~v8')
  BY <1>1, EverybodyLocked
<1>3. v1' \in [Persona -> {"none", "identity", "live", "banned", "gone"}]
  BY <1>1 DEF PersonasInv, PersonasTyped
<1>4. \A x \in v3 : v1'[x[1]] \in Owned
  BY <1>1 DEF PersonasInv, PersonasTyped, Owned
<1>5. PersonasTyped'
  BY <1>1, <1>3, <1>4 DEF PersonasInv, PersonasTyped
<1> QED BY <1>1, <1>2, <1>5, NobodysRows

LEMMA GrantKeeps ==
  ASSUME PersonasInv, NEW p \in Persona, R!Grant(p)
  PROVE  PersonasInv'
<1>1. /\ v1[p] # "none" /\ ~R!Locked(p) /\ v2' = [v2 EXCEPT ![p] = "role"]
      /\ UNCHANGED <<v1, v3, v4, v5, v6, v7, v8, v9>>
  BY DEF R!Grant, R!Identities
<1>2. ~(v6.pc \in Underway /\ ~v8')
  BY <1>1, EverybodyLocked
<1>3. v2' \in [Persona -> {"none", "role", "ended", "audited"}]
  BY <1>1 DEF PersonasInv, PersonasTyped
<1>4. PersonasTyped'
  BY <1>1, <1>3 DEF PersonasInv, PersonasTyped
<1> QED BY <1>1, <1>2, <1>4, NobodysRows

LEMMA RevokeKeeps ==
  ASSUME PersonasInv, NEW p \in Persona, R!Revoke(p)
  PROVE  PersonasInv'
<1>1. v2' = [v2 EXCEPT ![p] = "ended"] /\ UNCHANGED <<v1, v3, v4, v5, v6, v7, v8, v9>>
  BY DEF R!Revoke
<1>2. v6.pc \in Underway => v6.ids \in SUBSET Persona
  BY RunShapes DEF PersonasInv, Runs
<1>3. v2' \in [Persona -> {"none", "role", "ended", "audited"}]
  BY <1>1 DEF PersonasInv, PersonasTyped
<1>4. v6.pc \in Underway /\ ~v8 => \A q \in v6.ids : v2'[q] \in {"none", "ended"}
  BY <1>1, <1>2, EverybodyLocked DEF PersonasInv, PersonasTyped
<1>5. PersonasTyped'
  BY <1>1, <1>3 DEF PersonasInv, PersonasTyped
<1> QED BY <1>1, <1>4, <1>5, EverybodyLocked, NobodysRows

LEMMA DecideKeeps ==
  ASSUME PersonasInv, NEW p \in Persona, R!Decide(p)
  PROVE  PersonasInv'
<1>1. /\ v2[p] = "role" /\ v2' = [v2 EXCEPT ![p] = "audited"]
      /\ UNCHANGED <<v1, v3, v4, v5, v6, v7, v8, v9>>
  BY DEF R!Decide
<1>2. v6.pc \in Underway => v6.ids \in SUBSET Persona
  BY RunShapes DEF PersonasInv, Runs
<1>3. v2' \in [Persona -> {"none", "role", "ended", "audited"}]
  BY <1>1 DEF PersonasInv, PersonasTyped
<1>4. v6.pc \in Underway /\ ~v8 => \A q \in v6.ids : v2'[q] \in {"none", "ended"}
  BY <1>1, <1>2, EverybodyLocked DEF PersonasInv, PersonasTyped
<1>5. PersonasTyped'
  BY <1>1, <1>3 DEF PersonasInv, PersonasTyped
<1> QED BY <1>1, <1>4, <1>5, EverybodyLocked, NobodysRows

LEMMA UploadKeeps ==
  ASSUME PersonasInv, NEW p \in Persona, NEW k \in Picture, R!Upload(p, k)
  PROVE  PersonasInv'
<1>1. /\ v1[p] = "live" /\ ~R!AccountLocked(p)
      /\ v3' = v3 \cup {<<p, k>>} /\ v5' = v5 \cup {k} /\ UNCHANGED <<v1, v2, v4, v6, v7, v8, v9>>
  BY DEF R!Upload
<1>2. v6.pc \in Underway => p \notin v6.erased
  BY <1>1, RunShapes DEF PersonasInv, R!AccountLocked
<1>3. v6.pc \in Underway =>
        {r \in v3' : r[1] \in v6.erased} = {r \in v3 : r[1] \in v6.erased}
  BY <1>1, <1>2
<1>4. PersonasTyped'
  BY <1>1 DEF PersonasInv, PersonasTyped, Owned
<1>5. R!Seen' = R!Seen \cup {<<p, k>>}
  <2>1. CASE v6.pc \in Underway
    <3>1. R!InTransaction /\ R!InTransaction'
      BY <1>1, <2>1, RunShapes DEF PersonasInv, R!InTransaction, R!Under
    <3>2. v6.deleted = {r \in v3 : r[1] \in v6.erased}
      BY <2>1 DEF PersonasInv, PeopleKnown
    <3>3. <<p, k>> \notin v6.deleted
      BY <1>2, <2>1, <3>2
    <3> QED BY <1>1, <3>1, <3>3 DEF R!Seen
  <2>2. CASE v6.pc \notin Underway
    <3>1. ~R!InTransaction /\ ~R!InTransaction'
      BY <1>1, <2>2, RunShapes DEF PersonasInv, R!InTransaction, R!Under
    <3> QED BY <1>1, <3>1 DEF R!Seen
  <2> QED BY <2>1, <2>2
<1>6. R!PicturesOf(R!Seen') = R!PicturesOf(R!Seen) \cup {k}
  <2>1. R!PicturesOf(R!Seen \cup {<<p, k>>}) = R!PicturesOf(R!Seen) \cup R!PicturesOf({<<p, k>>})
    BY PicturesOfRows
  <2>2. R!PicturesOf({<<p, k>>}) = {k}
    BY PicturesOfRows
  <2>3. R!PicturesOf(R!Seen') = R!PicturesOf(R!Seen \cup {<<p, k>>})
    BY <1>5
  <2> QED BY <2>1, <2>2, <2>3
<1>7. v7 \/ R!PicturesOf(R!Seen) \subseteq v5
  BY DEF PersonasInv, ObjectsKnown
<1>8. /\ v5' \subseteq v5 \cup R!PicturesOf(R!Seen') /\ v3 \subseteq v3'
      /\ v7 \/ R!PicturesOf(R!Seen') \subseteq v5'
  BY <1>1, <1>6, <1>7
<1> QED BY <1>1, <1>3, <1>4, <1>8, EverybodyLocked, Meanwhile

LEMMA LeaveKeeps ==
  ASSUME PersonasInv, NEW p \in Persona, R!Leave(p)
  PROVE  PersonasInv'
<1>1. /\ v1[p] = "live" /\ ~R!Locked(p) /\ ~R!AccountLocked(p)
      /\ v1' = [v1 EXCEPT ![p] = "gone"] /\ v3' = {x \in v3 : x[1] # p}
      /\ v5' = {k \in v5 : k \in v4 \cup R!PicturesOf(v3')}
      /\ UNCHANGED <<v2, v4, v6, v7, v8, v9>>
  BY DEF R!Leave
<1>2. /\ v3' \in SUBSET (Persona \X Picture) /\ v3' \subseteq v3
      /\ v5' \subseteq v4 \cup R!PicturesOf(v3')
      /\ R!PicturesOf(v3) \subseteq v5 => R!PicturesOf(v3') \subseteq v5'
  BY <1>1, TakenAway
<1>3. v1' \in [Persona -> {"none", "identity", "live", "banned", "gone"}]
  BY <1>1 DEF PersonasInv, PersonasTyped
<1>4. \A x \in v3' : v1'[x[1]] \in Owned
  BY <1>1 DEF PersonasInv, PersonasTyped
<1>5. PersonasTyped'
  BY <1>1, <1>2, <1>3, <1>4 DEF PersonasInv, PersonasTyped
<1>6. CASE v6.pc \in Underway
  <2>1. v8 /\ v8'
    BY <1>1, <1>6, EverybodyLocked
  <2>2. p \notin v6.erased
    BY <1>1, <1>6, RunShapes DEF PersonasInv, R!AccountLocked
  <2>3. {r \in v3' : r[1] \in v6.erased} = {r \in v3 : r[1] \in v6.erased}
    BY <1>1, <2>2
  <2>4. R!Seen' \subseteq R!Seen /\ R!Seen' \subseteq v3'
    BY <1>1 DEF R!Seen, R!InTransaction, R!Under
  <2>5. /\ R!PicturesOf(R!Seen') \subseteq R!PicturesOf(R!Seen)
        /\ R!PicturesOf(R!Seen') \subseteq R!PicturesOf(v3')
    BY <2>4, PicturesOfRows
  <2>6. v7 \/ R!PicturesOf(R!Seen) \subseteq v5
    BY DEF PersonasInv, ObjectsKnown
  <2>7. v7 \/ R!PicturesOf(R!Seen') \subseteq v5'
    BY <1>1, <2>5, <2>6
  <2> QED BY <1>1, <1>5, <2>1, <2>3, <2>7, Meanwhile
<1>7. CASE v6.pc \notin Underway
  <2>1. v6 \in Histories \cup Over \cup Begun
    BY <1>7 DEF PersonasInv, PersonasTyped, Runs
  <2>2. R!Seen = v3
    BY <1>7, SeenIs DEF PersonasInv, Underway, Erasing
  <2>3. v7 \/ R!PicturesOf(v3') \subseteq v5'
    BY <1>2, <2>2 DEF PersonasInv, ObjectsKnown
  <2>4. v6.pc = "staff row" => v8
    BY DEF PersonasInv, ObjectsKnown
  <2> QED BY <1>1, <1>2, <1>3, <1>4, <1>7, <2>1, <2>3, <2>4, RowsChange DEF PersonasInv, PersonasTyped
<1> QED BY <1>6, <1>7

LEMMA PersonasKeep == ASSUME PersonasInv, R!Next PROVE PersonasInv'
<1>1. CASE \E store \in {"none", "api", "other"}, lost, bare, same \in BOOLEAN :
             R!Begin(store, lost, bare, same)
  BY <1>1, BeginKeeps DEF Stores
<1>2. CASE R!Lock
  BY <1>2, LockKeeps
<1>3. CASE R!Ask
  BY <1>3, AskStaffKeeps
<1>4. CASE R!Look
  BY <1>4, LookKeeps
<1>5. CASE R!ReadAccounts
  BY <1>5, ReadAccountsKeeps
<1>6. CASE R!CountObjects
  BY <1>6, CountObjectsKeeps
<1>7. CASE R!Commit
  BY <1>7, CommitKeeps
<1>8. CASE R!Abort
  BY <1>8, TakeBackKeeps DEF R!Abort
<1>9. CASE R!Finish
  BY <1>9, FinishKeeps
<1>10. CASE R!Again
  BY <1>10, AgainKeeps
<1>11. CASE \E k \in Picture, answers \in BOOLEAN : R!AskStore(k, answers)
  BY <1>11, AskStoreKeeps
<1>12. CASE \E fails \in BOOLEAN : R!EraseObjects(fails)
  BY <1>12, EraseObjectsKeeps
<1>13. ASSUME NEW p \in Persona,
              R!EraseRows(p) \/ R!GiveLogin(p) \/ R!GiveRest(p) \/ R!Identify(p)
              \/ R!Register(p) \/ R!Leave(p) \/ R!Grant(p) \/ R!Revoke(p) \/ R!Decide(p)
              \/ \E k \in Picture : R!Upload(p, k)
       PROVE  PersonasInv'
  BY <1>13, EraseRowsKeeps, GiveLoginKeeps, GiveRestKeeps, IdentityKeeps, RegisterKeeps,
     LeaveKeeps, GrantKeeps, RevokeKeeps, DecideKeeps, UploadKeeps
<1> QED BY <1>1, <1>2, <1>3, <1>4, <1>5, <1>6, <1>7, <1>8, <1>9, <1>10, <1>11, <1>12, <1>13
        DEF R!Next

LEMMA PersonasSay ==
  PersonasInv => R!RowsGoWithTheirObjects /\ R!StaffSeenOrGone /\ R!PhotosAreWhole
<1> SUFFICES ASSUME PersonasInv
             PROVE  R!RowsGoWithTheirObjects /\ R!StaffSeenOrGone /\ R!PhotosAreWhole
  OBVIOUS
<1>1. ~R!InTransaction => R!Seen = v3
  BY DEF R!Seen
<1>2. ~R!InTransaction => R!PicturesOf(R!Seen) = R!PicturesOf(v3)
  BY <1>1
<1> QED BY <1>2 DEF PersonasInv, ObjectsKnown, R!RowsGoWithTheirObjects, R!StaffSeenOrGone,
                    R!PhotosAreWhole, R!Under

LEMMA PersonasTypesInit == R!Init => R!TypeOK
<1> SUFFICES ASSUME R!Init PROVE R!TypeOK
  OBVIOUS
<1>1. PersonasTyped
  BY PersonasInit DEF PersonasInv
<1>2. v4 \in {{}, {CHOOSE k \in Picture : TRUE}} /\ v5 = v4 \cup R!PicturesOf(v3) /\ v6 = R!Idle /\ v10 = 0
  BY DEF R!Init
<1>3. MaxOthers \in Nat /\ Picture # {}
  BY ServiceAssumption DEF R!PersonasAssumption
<1>4. (CHOOSE k \in Picture : TRUE) \in Picture
  BY <1>3
<1>5. v4 \subseteq Picture /\ v5 \subseteq Picture
  BY <1>1, <1>2, <1>4, PicturesOfRows DEF PersonasTyped
<1>6. v6.pc = "idle" /\ v10 \in 0 .. MaxOthers
  BY <1>2, <1>3 DEF R!Idle
<1> QED BY <1>1, <1>5, <1>6 DEF PersonasTyped, R!TypeOK, R!Ended

LEMMA PersonasTypesKeep ==
  ASSUME PersonasInv, R!TypeOK, R!Next, PersonasInv'
  PROVE  R!TypeOK'
<1>1. PersonasTyped' /\ PersonasTyped
  BY DEF PersonasInv
<1>2. v6'.pc \in R!Ended \cup {"begun", "locked", "asked", "looked", "erasing", "erased rows", "erased", "histories"}
  BY <1>1 DEF PersonasTyped, Runs, Begun, Histories, Over, Underway, Erasing
<1>3. /\ v4 \subseteq Picture /\ v5 \subseteq Picture /\ v10 \in 0 .. MaxOthers /\ MaxOthers \in Nat
      /\ R!PicturesOf(v3') \subseteq Picture
  BY <1>1, ServiceAssumption, PicturesOfRows DEF R!TypeOK, R!PersonasAssumption, PersonasTyped
<1>4. v4' = v4
  BY Zenon DEF R!Next, R!Begin, R!Lock, R!Ask, R!Look, R!AskStore, R!ReadAccounts, R!EraseRows, R!EraseObjects,
         R!CountObjects, R!Commit, R!Abort, R!GiveLogin, R!GiveRest, R!Finish, R!Again, R!Identify, R!Register,
         R!Upload, R!Leave, R!Grant, R!Revoke, R!Decide, R!Go, R!TakeBack, R!rows
<1>5. v10' = v10 \/ (v10 < MaxOthers /\ v10' = v10 + 1)
  BY Zenon DEF R!Next, R!Begin, R!Lock, R!Ask, R!Look, R!AskStore, R!ReadAccounts, R!EraseRows, R!EraseObjects,
         R!CountObjects, R!Commit, R!Abort, R!GiveLogin, R!GiveRest, R!Finish, R!Again, R!Identify, R!Register,
         R!Upload, R!Leave, R!Grant, R!Revoke, R!Decide, R!Go, R!TakeBack, R!Move
<1>6. v5' \subseteq v5 \/ \E p \in Persona, k \in Picture : R!Upload(p, k)
  BY Zenon DEF R!Next, R!Begin, R!Lock, R!Ask, R!Look, R!AskStore, R!ReadAccounts, R!EraseRows, R!EraseObjects,
         R!CountObjects, R!Commit, R!Abort, R!GiveLogin, R!GiveRest, R!Finish, R!Again, R!Identify, R!Register,
         R!Leave, R!Grant, R!Revoke, R!Decide, R!Go, R!TakeBack
<1>7. v5' \subseteq Picture
  BY <1>3, <1>6 DEF R!Upload
<1>8. v10' \in 0 .. MaxOthers
  BY <1>3, <1>5
<1> QED BY <1>1, <1>2, <1>3, <1>4, <1>7, <1>8 DEF PersonasTyped, R!TypeOK

-----------------------------------------------------------------------------
(* The demo's population.  A command that goes on was told of no deployed   *)
(* environment; while nobody was killed nor committed under a count, the    *)
(* counter is of the people who are there, or somebody is about to drop it, *)
(* and whoever wrote them is past a count only when there is one, or        *)
(* somebody is about to count.                                              *)

At(c, set) == v9[c] # None /\ v9[c].at \in set

Somebody(set) == \E c \in Handler : At(c, set)

Deployable == v2 # "production" /\ (v1.managed => v1.database = "kuutti_pr")

Recounting == {"dropped", "counting"}
Writing  == {"replaced", "counted"} \cup Recounting
Through  == {"counted", "ended"}

People == U!Populations \cup {None}

\* The shapes of what there is.
PopulationTyped ==
  /\ v2 \in {None, "preview", "production"} /\ v3 \in People
  /\ v5 \subseteq {U!OfALogin(b) : b \in BOOLEAN}
  /\ v6 \in U!Counts \cup {None} /\ v10 \in U!Counts \cup {None}
  /\ DOMAIN v8 = Handler /\ v9 \in [Handler -> U!Progress \cup {None}]

\* No command goes on that may not.
ToldOfNone ==
  /\ \A c \in Handler : v8[c] # None =>
       \A i \in DOMAIN v8[c] : v8[c][i].flag = "--env" => v8[c][i].value \in U!DEMO_ENVIRONMENTS
  /\ \A c \in Handler : At(c, {"parsed"}) => v2 # "production"
  /\ \A c \in Handler : At(c, {"begin", "found"}) => Deployable
  /\ v3 # None => Deployable /\ At(v3.by, Writing \cup {"ended", "killed"})

\* The gates are of these people, or somebody is about to count them.
GatesFollow == "killed" \in v11 \/ v7 = v3 \/ Somebody(Writing)

\* And so is the counter.
CounterFollows ==
  v11 = {} =>
    /\ v10 # None => v10 = [today |-> TRUE, of |-> v3]
    /\ \A c \in Handler : At(c, {"counting"}) => v9[c].of = v3
    /\ U!CountedToday => v6.of = v3 \/ Somebody({"replaced"})
    /\ v3 # None /\ At(v3.by, Through) => U!CountedToday \/ Somebody(Recounting)

PopulationInv == PopulationTyped /\ ToldOfNone /\ GatesFollow /\ CounterFollows

LEMMA NoneIsNothing ==
  /\ None \notin U!Populations /\ None \notin U!Counts /\ None \notin U!Progress
  /\ None \notin {"development", "preview", "production"}
  /\ \A line \in Typed : \A i \in DOMAIN line : line[i].flag = "--env" => line[i].value # None
BY ServiceAssumption DEF U!PopulationAssumption

\* Where a command is, it has what it needs there.
LEMMA Shapes ==
  ASSUME NEW r \in U!Progress
  PROVE  /\ r.at = "parsed" =>
              r \in [at : {"parsed", "begin", "ended"}, size : 1 .. U!DEMO_SIZE_MAX, env : U!DEMO_ENVIRONMENTS,
                     action : U!Actions]
         /\ r.at = "begin" =>
              r \in [at : {"parsed", "begin", "ended"}, size : 1 .. U!DEMO_SIZE_MAX, env : U!DEMO_ENVIRONMENTS,
                     action : U!Actions]
         /\ r.at \in {"found", "replaced", "dropped"} =>
              r \in [at : {"found", "failed", "replaced", "dropped", "counted", "ended"},
                     size : 1 .. U!DEMO_SIZE_MAX, action : U!Actions, saw : People]
         /\ r.at = "counting" => r \in [at : {"counting", "counted", "ended"}, of : People]
         /\ r.at = "counted" => [r EXCEPT !.at = "ended"] \in U!Progress
BY DEF U!Progress, People

LEMMA PopulationInit == U!Init => PopulationInv
<1> SUFFICES ASSUME U!Init PROVE PopulationInv
  OBVIOUS
<1>1. /\ v2 \in {None, "preview", "production"} /\ v3 = None /\ v7 = None
      /\ v5 = {U!OfALogin(b) : b \in BOOLEAN} /\ v6 \in {None, [today |-> FALSE, of |-> None]}
      /\ v8 = [c \in Handler |-> None] /\ v9 = [c \in Handler |-> None] /\ v10 = None
  BY DEF U!Init
<1>2. v6 \in U!Counts \cup {None} /\ (v6 # None => ~v6.today)
  <2> DEFINE old == [today |-> FALSE, of |-> None]
  <2>1. old \in U!Counts /\ ~old.today
    BY DEF U!Counts
  <2> HIDE DEF old
  <2> QED BY <1>1, <2>1 DEF old
<1>3. PopulationTyped
  BY <1>1, <1>2 DEF PopulationTyped, People
<1>4. ToldOfNone /\ GatesFollow
  BY <1>1 DEF ToldOfNone, GatesFollow, At
<1>5. CounterFollows
  BY <1>1, <1>2 DEF CounterFollows, At, U!CountedToday
<1> QED BY <1>3, <1>4, <1>5 DEF PopulationInv

\* A command line that is understood names only environments of the demo.
LEMMA Understood ==
  ASSUME NEW line \in Typed, NEW env \in {None, "preview", "production"},
         U!parseDemoCommand(line, env) # U!Refused
  PROVE  /\ env # "production"
         /\ \A i \in DOMAIN line : line[i].flag = "--env" => line[i].value \in U!DEMO_ENVIRONMENTS
         /\ U!parseDemoCommand(line, env) \in U!Progress /\ U!parseDemoCommand(line, env).at = "parsed"
<1> DEFINE flags == [i \in DOMAIN line |-> line[i].flag]
           named == {U!ValueOf(line, "--env", None), env} \ {None}
           size == U!ValueOf(line, "--size", U!DEMO_SIZE)
           to == U!ValueOf(line, "--env", IF env = None THEN "development" ELSE env)
           action == IF "--remove" \in U!Range(flags) THEN "remove"
                     ELSE IF "--dry-run" \in U!Range(flags) THEN "dry-run" ELSE "write"
<1>1. /\ U!IsInjective(flags) /\ named \subseteq U!DEMO_ENVIRONMENTS /\ size \in 1 .. U!DEMO_SIZE_MAX
      /\ U!parseDemoCommand(line, env) = [at |-> "parsed", size |-> size, env |-> to, action |-> action]
  BY DEF U!parseDemoCommand
<1> HIDE DEF size, action
<1>2. env # "production"
  BY <1>1, NoneIsNothing DEF U!DEMO_ENVIRONMENTS
<1>3. ASSUME NEW i \in DOMAIN line, line[i].flag = "--env"
      PROVE  /\ line[i].value \in U!DEMO_ENVIRONMENTS
             /\ \A d : U!ValueOf(line, "--env", d) = line[i].value
  <2> DEFINE j == CHOOSE n \in DOMAIN line : line[n].flag = "--env"
  <2>1. j \in DOMAIN line /\ line[j].flag = "--env"
    BY <1>3
  <2>2. \A d : U!ValueOf(line, "--env", d) = line[j].value
    BY <1>3 DEF U!ValueOf
  <2> HIDE DEF j
  <2>3. i = j
    BY <1>1, <1>3, <2>1 DEF U!IsInjective
  <2>4. line[i].value # None
    BY <1>3, NoneIsNothing
  <2> QED BY <1>1, <2>2, <2>3, <2>4
<1>4. to \in U!DEMO_ENVIRONMENTS
  <2>1. CASE \E i \in DOMAIN line : line[i].flag = "--env"
    BY <1>3, <2>1
  <2>2. CASE ~\E i \in DOMAIN line : line[i].flag = "--env"
    <3>1. to = IF env = None THEN "development" ELSE env
      BY <2>2 DEF U!ValueOf
    <3> QED BY <1>1, <3>1 DEF U!DEMO_ENVIRONMENTS
  <2> QED BY <2>1, <2>2
<1>5. action \in U!Actions
  BY DEF action, U!Actions
<1> HIDE DEF to, named, flags
<1>6. [at |-> "parsed", size |-> size, env |-> to, action |-> action] \in U!Progress
  BY <1>1, <1>4, <1>5 DEF U!Progress
<1> QED BY <1>1, <1>2, <1>3, <1>6

\* One command goes on, and the others are where they were.
LEMMA Goes ==
  ASSUME PopulationInv, NEW c \in Handler, NEW r \in U!Progress, v9' = [v9 EXCEPT ![c] = r]
  PROVE  /\ v9' \in [Handler -> U!Progress \cup {None}]
         /\ \A set : At(c, set)' <=> r.at \in set
         /\ \A d \in Handler \ {c} : \A set : At(d, set)' <=> At(d, set)
         /\ v9'[c] = r /\ \A d \in Handler \ {c} : v9'[d] = v9[d]
<1>1. v9 \in [Handler -> U!Progress \cup {None}] /\ r # None
  BY NoneIsNothing DEF PopulationInv, PopulationTyped
<1> QED BY <1>1 DEF At

\* Nothing is to be counted for a command that has not committed.
LEMMA StillCounted ==
  ASSUME PopulationInv, NEW c \in Handler, NEW r \in U!Progress, v9' = [v9 EXCEPT ![c] = r],
         ~At(c, Writing \cup {"ended", "killed"}), r.at # "counting",
         UNCHANGED <<v3, v6, v7, v10, v11>>
  PROVE  /\ GatesFollow' /\ CounterFollows'
         /\ v3' # None => At(v3.by, Writing \cup {"ended", "killed"})'
<1>1. /\ v9' \in [Handler -> U!Progress \cup {None}]
      /\ \A set : At(c, set)' <=> r.at \in set
      /\ \A d \in Handler \ {c} : \A set : At(d, set)' <=> At(d, set)
      /\ v9'[c] = r /\ \A d \in Handler \ {c} : v9'[d] = v9[d]
  BY Goes
<1>2. \A set \in {Writing, Recounting, {"replaced"}} : Somebody(set) => Somebody(set)'
  BY <1>1 DEF Somebody, Writing, Recounting, At
<1>3. v3 # None => v3.by \in Handler \ {c} /\ At(v3.by, Writing \cup {"ended", "killed"})
  BY DEF PopulationInv, PopulationTyped, ToldOfNone, People, U!Populations
<1>4. GatesFollow'
  BY <1>2 DEF PopulationInv, GatesFollow
<1>5. CounterFollows'
  BY <1>1, <1>2, <1>3 DEF PopulationInv, CounterFollows, U!CountedToday, At, Through
<1>6. v3' # None => At(v3.by, Writing \cup {"ended", "killed"})'
  BY <1>1, <1>3 DEF At
<1> QED BY <1>4, <1>5, <1>6

LEMMA TypeKeeps ==
  ASSUME PopulationInv, NEW c \in Handler, U!Type(c)
  PROVE  PopulationInv'
<1>1. PICK line \in Typed :
        /\ v9' = [v9 EXCEPT ![c] = U!parseDemoCommand(line, v2)]
        /\ v8' = [v8 EXCEPT ![c] = IF U!parseDemoCommand(line, v2) = U!Refused THEN None ELSE line]
  BY DEF U!Type
<1> DEFINE r == U!parseDemoCommand(line, v2)
<1>2. v9[c] = None /\ UNCHANGED <<v1, v2, v3, v5, v6, v7, v10, v11>> /\ DOMAIN v8' = Handler
  BY <1>1 DEF U!Type, PopulationInv, PopulationTyped
<1>3. /\ r \in U!Progress /\ r.at \in {"refused", "parsed"}
      /\ r.at = "parsed" => v2 # "production"
      /\ r # U!Refused =>
           \A i \in DOMAIN line : line[i].flag = "--env" => line[i].value \in U!DEMO_ENVIRONMENTS
  <2>1. CASE r = U!Refused
    BY <2>1 DEF U!Refused, U!Progress
  <2>2. CASE r # U!Refused
    BY <2>2, Understood DEF PopulationInv, PopulationTyped
  <2> QED BY <2>1, <2>2
<1>4. /\ v9' \in [Handler -> U!Progress \cup {None}]
      /\ \A set : At(c, set)' <=> r.at \in set
      /\ \A d \in Handler \ {c} : \A set : At(d, set)' <=> At(d, set)
      /\ v9'[c] = r /\ \A d \in Handler \ {c} : v9'[d] = v9[d]
  BY <1>1, <1>3, Goes
<1>5. \A set : ~At(c, set)
  BY <1>2 DEF At
<1>6. v8'[c] = (IF r = U!Refused THEN None ELSE line) /\ \A d \in Handler \ {c} : v8'[d] = v8[d]
  BY <1>1 DEF PopulationInv, PopulationTyped
<1> HIDE DEF r
<1>7. PopulationTyped'
  BY <1>2, <1>4 DEF PopulationInv, PopulationTyped
<1>8. ToldOfNone'
  <2>1. \A d \in Handler : v8'[d] # None =>
          \A i \in DOMAIN v8'[d] : v8'[d][i].flag = "--env" => v8'[d][i].value \in U!DEMO_ENVIRONMENTS
    BY <1>3, <1>6 DEF PopulationInv, ToldOfNone
  <2>2. /\ \A d \in Handler : At(d, {"parsed"})' => v2' # "production"
        /\ \A d \in Handler : At(d, {"begin", "found"})' => Deployable'
    BY <1>2, <1>3, <1>4 DEF PopulationInv, ToldOfNone, Deployable
  <2>3. v3' # None => Deployable' /\ At(v3.by, Writing \cup {"ended", "killed"})'
    BY <1>1, <1>2, <1>3, <1>5, StillCounted DEF PopulationInv, ToldOfNone, Deployable, r
  <2> QED BY <1>2, <2>1, <2>2, <2>3 DEF ToldOfNone, At
<1>9. GatesFollow' /\ CounterFollows'
  BY <1>1, <1>2, <1>3, <1>5, StillCounted DEF r
<1> QED BY <1>7, <1>8, <1>9 DEF PopulationInv

\* A command asks the server, looks for the people, fails, or is killed before it has
\* written.
LEMMA ReadsKeep ==
  ASSUME PopulationInv, NEW c \in Handler, NEW r \in U!Progress, v9' = [v9 EXCEPT ![c] = r],
         ~At(c, Writing \cup {"ended", "killed"}), r.at \notin {"parsed", "counting"},
         r.at \in {"begin", "found"} => Deployable,
         UNCHANGED <<v1, v2, v3, v5, v6, v7, v10, v11>>,
         v8' = v8 \/ v8' = [v8 EXCEPT ![c] = None]
  PROVE  PopulationInv'
<1>1. /\ v9' \in [Handler -> U!Progress \cup {None}]
      /\ \A set : At(c, set)' <=> r.at \in set
      /\ \A d \in Handler \ {c} : \A set : At(d, set)' <=> At(d, set)
  BY Goes
<1>2. DOMAIN v8' = Handler /\ \A d \in Handler : v8'[d] \in {None, v8[d]}
  BY DEF PopulationInv, PopulationTyped
<1>3. GatesFollow' /\ CounterFollows' /\ (v3' # None => At(v3.by, Writing \cup {"ended", "killed"})')
  BY StillCounted
<1>4. PopulationTyped'
  BY <1>1, <1>2 DEF PopulationInv, PopulationTyped
<1>5. ToldOfNone'
  <2>1. \A d \in Handler : v8'[d] # None =>
          \A i \in DOMAIN v8'[d] : v8'[d][i].flag = "--env" => v8'[d][i].value \in U!DEMO_ENVIRONMENTS
    BY <1>2 DEF PopulationInv, ToldOfNone
  <2>2. /\ \A d \in Handler : At(d, {"parsed"})' => v2' # "production"
        /\ \A d \in Handler : At(d, {"begin", "found"})' => Deployable'
    BY <1>1 DEF PopulationInv, ToldOfNone, Deployable
  <2>3. v3' # None => Deployable'
    BY DEF PopulationInv, ToldOfNone, Deployable
  <2> QED BY <1>3, <2>1, <2>2, <2>3 DEF ToldOfNone, At
<1> QED BY <1>3, <1>4, <1>5 DEF PopulationInv

LEMMA AskKeeps ==
  ASSUME PopulationInv, NEW c \in Handler, U!Ask(c)
  PROVE  PopulationInv'
<1>1. /\ v9[c] # None /\ v9[c].at = "parsed" /\ v8' = [v8 EXCEPT ![c] = None]
      /\ UNCHANGED <<v1, v2, v3, v5, v6, v7, v10, v11>>
  BY DEF U!Ask
<1>2. v9[c] \in [at : {"parsed", "begin", "ended"}, size : 1 .. U!DEMO_SIZE_MAX,
                 env : U!DEMO_ENVIRONMENTS, action : U!Actions] /\ v2 # "production"
  BY <1>1, Shapes DEF PopulationInv, PopulationTyped, ToldOfNone, At
<1>3. ~At(c, Writing \cup {"ended", "killed"})
  BY <1>1 DEF At, Writing, Recounting
<1>4. PICK r \in U!Progress :
        /\ v9' = [v9 EXCEPT ![c] = r] /\ r.at \in {"ended", "begin", "refused"}
        /\ r.at = "begin" => Deployable
  <2>1. ASSUME NEW to \in {"begin", "ended"}, U!Goes(c, to)
        PROVE  /\ [v9[c] EXCEPT !.at = to] \in U!Progress /\ [v9[c] EXCEPT !.at = to].at = to
               /\ v9' = [v9 EXCEPT ![c] = [v9[c] EXCEPT !.at = to]]
    BY <1>2, <2>1 DEF U!Goes, U!Progress
  <2>2. U!Refused \in U!Progress /\ U!Refused.at = "refused"
    BY DEF U!Refused, U!Progress
  <2>3. U!assertDemoTarget(v1, v9[c].env) => Deployable
    BY <1>2 DEF U!assertDemoTarget, Deployable
  <2>4. U!Goes(c, "ended") \/ (Deployable /\ U!Goes(c, "begin")) \/ v9' = [v9 EXCEPT ![c] = U!Refused]
    BY <2>3 DEF U!Ask
  <2> QED BY <2>1, <2>2, <2>4
<1> QED BY <1>1, <1>3, <1>4, ReadsKeep

LEMMA FindKeeps ==
  ASSUME PopulationInv, NEW c \in Handler, U!Find(c)
  PROVE  PopulationInv'
<1>1. /\ v9[c] # None /\ v9[c].at = "begin"
      /\ v9' = [v9 EXCEPT ![c] = [at |-> "found", size |-> v9[c].size, action |-> v9[c].action, saw |-> v3]]
      /\ UNCHANGED <<v1, v2, v3, v5, v6, v7, v8, v10, v11>>
  BY DEF U!Find
<1>2. v9[c] \in [at : {"parsed", "begin", "ended"}, size : 1 .. U!DEMO_SIZE_MAX,
                 env : U!DEMO_ENVIRONMENTS, action : U!Actions] /\ Deployable /\ v3 \in People
  BY <1>1, Shapes DEF PopulationInv, PopulationTyped, ToldOfNone, At
<1> DEFINE r == [at |-> "found", size |-> v9[c].size, action |-> v9[c].action, saw |-> v3]
<1>3. r \in U!Progress /\ r.at = "found"
  BY <1>2 DEF U!Progress, People
<1>4. ~At(c, Writing \cup {"ended", "killed"})
  BY <1>1 DEF At, Writing, Recounting
<1> HIDE DEF r
<1> QED BY <1>1, <1>2, <1>3, <1>4, ReadsKeep DEF r

\* Nobody who logged in is synthetic.
LEMMA NobodyMetIsSynthetic == PopulationInv => U!Removed(v5) = {}
BY DEF PopulationInv, PopulationTyped, U!Removed, U!Synthetic, U!OfALogin

LEMMA ReplaceKeeps ==
  ASSUME PopulationInv, NEW c \in Handler, U!Replace(c)
  PROVE  PopulationInv'
<1>1. /\ v9[c] # None /\ v9[c].at = "found" /\ UNCHANGED <<v1, v2, v6, v7, v8, v10>>
  BY DEF U!Replace
<1>2. v9[c] \in [at : {"found", "failed", "replaced", "dropped", "counted", "ended"},
                 size : 1 .. U!DEMO_SIZE_MAX, action : U!Actions, saw : People] /\ Deployable
  BY <1>1, Shapes DEF PopulationInv, PopulationTyped, ToldOfNone, At
<1>3. ASSUME NEW to \in {"failed", "replaced"}, U!Goes(c, to)
      PROVE  /\ [v9[c] EXCEPT !.at = to] \in U!Progress /\ [v9[c] EXCEPT !.at = to].at = to
             /\ v9' = [v9 EXCEPT ![c] = [v9[c] EXCEPT !.at = to]]
  BY <1>2, <1>3 DEF U!Goes, U!Progress, People
<1>4. ~At(c, Writing \cup {"ended", "killed"}) /\ \A set \in {Writing, Recounting, {"replaced"}, {"counting"}, Through} : ~At(c, set)
  BY <1>1 DEF At, Writing, Recounting, Through
<1>5. CASE U!Goes(c, "failed") /\ UNCHANGED <<v3, v5, v11>>
  <2> DEFINE r == [v9[c] EXCEPT !.at = "failed"]
  <2>1. r \in U!Progress /\ r.at = "failed" /\ v9' = [v9 EXCEPT ![c] = r]
    BY <1>3, <1>5
  <2> HIDE DEF r
  <2> QED BY <1>1, <1>4, <1>5, <2>1, ReadsKeep
<1>6. CASE U!Goes(c, "replaced")
  <2> DEFINE r == [v9[c] EXCEPT !.at = "replaced"]
  <2>1. r \in U!Progress /\ r.at = "replaced" /\ v9' = [v9 EXCEPT ![c] = r]
    BY <1>3, <1>6
  <2>2. /\ v3' \in {v3, None, [by |-> c, size |-> v9[c].size]} /\ v5' = v5 \ U!Removed(v5)
        /\ v11' = v11 \cup IF U!CountUnderWay /\ v3' # v3 THEN {"crossed"} ELSE {}
    <3>1. ~U!Goes(c, "failed")
      BY <1>3, <1>6, <1>2 DEF PopulationInv, PopulationTyped
    <3> QED BY <3>1 DEF U!Replace
  <2> HIDE DEF r
  <2>3. /\ v9' \in [Handler -> U!Progress \cup {None}]
        /\ \A set : At(c, set)' <=> r.at \in set
        /\ \A d \in Handler \ {c} : \A set : At(d, set)' <=> At(d, set)
        /\ v9'[c] = r /\ \A d \in Handler \ {c} : v9'[d] = v9[d]
    BY <2>1, Goes
  <2>4. Somebody({"replaced"})' /\ Somebody(Writing)'
    BY <2>1, <2>3 DEF Somebody, Writing
  <2>5. [by |-> c, size |-> v9[c].size] \in U!Populations
    BY <1>2 DEF U!Populations
  <2>6. PopulationTyped'
    BY <1>1, <2>2, <2>3, <2>5 DEF PopulationInv, PopulationTyped, People
  <2>7. v3' # None => v3'.by \in Handler /\ (v3'.by = c \/ (v3' = v3 /\ v3.by # c))
    BY <2>2, <2>5 DEF PopulationInv, PopulationTyped, People, U!Populations
  <2>8. ToldOfNone'
    <3>1. v3' # None => At(v3.by, Writing \cup {"ended", "killed"})'
      <4>1. CASE v3' # None /\ v3'.by = c
        BY <2>1, <2>3, <4>1 DEF At, Writing
      <4>2. CASE v3' # None /\ v3' = v3 /\ v3.by # c
        BY <2>3, <2>7, <4>2 DEF PopulationInv, ToldOfNone, At
      <4> QED BY <2>7, <4>1, <4>2
    <3>2. \A d \in Handler : v8'[d] # None =>
            \A i \in DOMAIN v8'[d] : v8'[d][i].flag = "--env" => v8'[d][i].value \in U!DEMO_ENVIRONMENTS
      BY <1>1 DEF PopulationInv, ToldOfNone
    <3>3. /\ \A d \in Handler : At(d, {"parsed"})' => v2' # "production"
          /\ \A d \in Handler : At(d, {"begin", "found"})' => Deployable'
      BY <1>1, <1>2, <2>1, <2>3 DEF PopulationInv, ToldOfNone, Deployable
    <3>4. Deployable'
      BY <1>1, <1>2 DEF Deployable
    <3> QED BY <3>1, <3>2, <3>3, <3>4 DEF ToldOfNone, At
  <2>9. GatesFollow'
    BY <2>4 DEF GatesFollow
  <2>10. CounterFollows'
    <3> SUFFICES ASSUME v11' = {}
                 PROVE  /\ v10' # None => v10' = [today |-> TRUE, of |-> v3']
                        /\ \A d \in Handler : At(d, {"counting"})' => v9'[d].of = v3'
                        /\ U!CountedToday' => v6'.of = v3' \/ Somebody({"replaced"})'
                        /\ v3' # None /\ At(v3.by, Through)' => U!CountedToday' \/ Somebody(Recounting)'
      BY DEF CounterFollows
    <3>1. v11 = {} /\ (v3' = v3 \/ ~U!CountUnderWay)
      BY <2>2
    <3>2. v10' # None => v10' = [today |-> TRUE, of |-> v3']
      BY <1>1, <3>1 DEF PopulationInv, CounterFollows, U!CountUnderWay
    <3>3. \A d \in Handler : At(d, {"counting"})' => v9'[d].of = v3'
      BY <1>4, <2>1, <2>3, <3>1 DEF PopulationInv, CounterFollows, U!CountUnderWay, At
    <3>4. v3' # None /\ At(v3.by, Through)' => U!CountedToday' \/ Somebody(Recounting)'
      <4>1. ASSUME v3' # None, At(v3.by, Through)' PROVE v3' = v3 /\ v3.by # c /\ v3.by \in Handler /\ At(v3.by, Through)
        <5>1. v3'.by # c
          BY <2>1, <2>3, <4>1 DEF At, Through
        <5> QED BY <2>3, <2>7, <4>1, <5>1 DEF At
      <4>2. Somebody(Recounting) => Somebody(Recounting)'
        BY <1>4, <2>3 DEF Somebody, Recounting, At
      <4>3. U!CountedToday => U!CountedToday'
        BY <1>1 DEF U!CountedToday
      <4> QED BY <3>1, <4>1, <4>2, <4>3 DEF PopulationInv, CounterFollows
    <3> QED BY <2>4, <3>2, <3>3, <3>4
  <2> QED BY <2>6, <2>8, <2>9, <2>10 DEF PopulationInv
<1> QED BY <1>5, <1>6 DEF U!Replace


\* A command that has committed goes on, or is killed.
LEMMA WriterGoes ==
  ASSUME PopulationInv, NEW c \in Handler, NEW r \in U!Progress, v9' = [v9 EXCEPT ![c] = r],
         r.at \in Writing \cup {"ended", "killed"}, v6' \in U!Counts \cup {None},
         UNCHANGED <<v1, v2, v3, v5, v8, v10>>
  PROVE  PopulationTyped' /\ ToldOfNone'
<1>1. /\ v9' \in [Handler -> U!Progress \cup {None}]
      /\ \A set : At(c, set)' <=> r.at \in set
      /\ \A d \in Handler \ {c} : \A set : At(d, set)' <=> At(d, set)
  BY Goes
<1>2. PopulationTyped'
  BY <1>1 DEF PopulationInv, PopulationTyped
<1>3. v3' # None => v3.by \in Handler /\ At(v3.by, Writing \cup {"ended", "killed"})'
  BY <1>1 DEF PopulationInv, PopulationTyped, ToldOfNone, People, U!Populations
<1>4. \A d \in Handler : v8'[d] # None =>
        \A i \in DOMAIN v8'[d] : v8'[d][i].flag = "--env" => v8'[d][i].value \in U!DEMO_ENVIRONMENTS
  BY DEF PopulationInv, ToldOfNone
<1>5. /\ \A d \in Handler : At(d, {"parsed"})' => v2' # "production"
      /\ \A d \in Handler : At(d, {"begin", "found"})' => Deployable'
  BY <1>1 DEF PopulationInv, ToldOfNone, Deployable, Writing, Recounting
<1>6. v3' # None => Deployable'
  BY DEF PopulationInv, ToldOfNone, Deployable
<1> QED BY <1>2, <1>3, <1>4, <1>5, <1>6 DEF ToldOfNone, At

LEMMA DropKeeps ==
  ASSUME PopulationInv, NEW c \in Handler, U!DropCounter(c)
  PROVE  PopulationInv'
<1> DEFINE r == [v9[c] EXCEPT !.at = "dropped"]
<1>1. /\ v9[c] # None /\ v9[c].at = "replaced" /\ v6' = None /\ v9' = [v9 EXCEPT ![c] = r]
      /\ UNCHANGED <<v1, v2, v3, v5, v7, v8, v10, v11>>
  BY DEF U!DropCounter, U!Goes, PopulationInv, PopulationTyped
<1>2. r \in U!Progress /\ r.at = "dropped"
  BY <1>1, Shapes DEF PopulationInv, PopulationTyped, U!Progress, People
<1> HIDE DEF r
<1>3. /\ \A set : At(c, set)' <=> r.at \in set
      /\ \A d \in Handler \ {c} : \A set : At(d, set)' <=> At(d, set)
      /\ \A d \in Handler \ {c} : v9'[d] = v9[d]
  BY <1>1, <1>2, Goes
<1>4. Somebody(Writing)' /\ Somebody(Recounting)'
  BY <1>2, <1>3 DEF Somebody, Writing, Recounting
<1>5. PopulationTyped' /\ ToldOfNone'
  BY <1>1, <1>2, WriterGoes DEF Writing, Recounting
<1>6. CounterFollows'
  BY <1>1, <1>2, <1>3, <1>4 DEF PopulationInv, CounterFollows, U!CountedToday, At
<1> QED BY <1>4, <1>5, <1>6 DEF PopulationInv, GatesFollow

LEMMA BeginCountKeeps ==
  ASSUME PopulationInv, NEW c \in Handler, U!BeginSnapshot(c)
  PROVE  PopulationInv'
<1>1. /\ v9[c] # None /\ v9[c].at = "dropped" /\ UNCHANGED <<v1, v2, v3, v5, v6, v7, v8, v10, v11>>
  BY DEF U!BeginSnapshot
<1>2. PICK r \in U!Progress :
        /\ v9' = [v9 EXCEPT ![c] = r]
        /\ \/ r.at = "counting" /\ r.of = v3
           \/ r.at = "counted" /\ U!CountedToday
  <2>1. CASE U!CountedToday
    <3> DEFINE r == [v9[c] EXCEPT !.at = "counted"]
    <3>1. r \in U!Progress /\ r.at = "counted"
      BY <1>1, Shapes DEF PopulationInv, PopulationTyped, U!Progress, People
    <3>2. v9' = [v9 EXCEPT ![c] = r]
      BY <2>1 DEF U!BeginSnapshot, U!Goes
    <3> HIDE DEF r
    <3> QED BY <2>1, <3>1, <3>2
  <2>2. CASE ~U!CountedToday
    <3> DEFINE r == [at |-> "counting", of |-> v3]
    <3>1. r \in U!Progress /\ r.at = "counting" /\ r.of = v3
      BY DEF PopulationInv, PopulationTyped, U!Progress, People
    <3>2. v9' = [v9 EXCEPT ![c] = r]
      BY <2>2 DEF U!BeginSnapshot
    <3> HIDE DEF r
    <3> QED BY <3>1, <3>2
  <2> QED BY <2>1, <2>2
<1>3. /\ \A set : At(c, set)' <=> r.at \in set
      /\ \A d \in Handler \ {c} : \A set : At(d, set)' <=> At(d, set)
      /\ v9'[c] = r /\ \A d \in Handler \ {c} : v9'[d] = v9[d]
  BY <1>2, Goes
<1>4. Somebody(Writing)' /\ (r.at = "counting" => Somebody(Recounting)')
  BY <1>2, <1>3 DEF Somebody, Writing, Recounting
<1>5. PopulationTyped' /\ ToldOfNone'
  BY <1>1, <1>2, WriterGoes DEF Writing, Recounting, PopulationInv, PopulationTyped
<1>6. CounterFollows'
  <2>1. Somebody({"replaced"}) => Somebody({"replaced"})'
    BY <1>1, <1>3 DEF Somebody, At
  <2>2. U!CountedToday' <=> U!CountedToday
    BY <1>1 DEF U!CountedToday
  <2>3. U!CountedToday' \/ Somebody(Recounting)'
    BY <1>2, <1>4, <2>2
  <2> QED BY <1>1, <1>2, <1>3, <2>1, <2>2, <2>3 DEF PopulationInv, CounterFollows, At
<1> QED BY <1>4, <1>5, <1>6 DEF PopulationInv, GatesFollow

LEMMA EndCountKeeps ==
  ASSUME PopulationInv, NEW c \in Handler, U!EndSnapshot(c)
  PROVE  PopulationInv'
<1> DEFINE r == [v9[c] EXCEPT !.at = "counted"]
           count == [today |-> TRUE, of |-> v9[c].of]
<1>1. /\ v9[c] # None /\ v9[c].at = "counting" /\ v6' = count /\ v9' = [v9 EXCEPT ![c] = r]
      /\ UNCHANGED <<v1, v2, v3, v5, v7, v8, v10, v11>>
  BY DEF U!EndSnapshot, U!Goes, PopulationInv, PopulationTyped
<1>2. v9[c] \in [at : {"counting", "counted", "ended"}, of : People]
  BY <1>1, Shapes DEF PopulationInv, PopulationTyped
<1>3. r \in U!Progress /\ r.at = "counted"
  BY <1>2 DEF U!Progress, People
<1>4. count \in U!Counts /\ count.today /\ count.of = v9[c].of
  BY <1>2 DEF U!Counts, People
<1> HIDE DEF r, count
<1>5. /\ \A set : At(c, set)' <=> r.at \in set
      /\ \A d \in Handler \ {c} : \A set : At(d, set)' <=> At(d, set)
      /\ \A d \in Handler \ {c} : v9'[d] = v9[d]
  BY <1>1, <1>3, Goes
<1>6. Somebody(Writing)'
  BY <1>3, <1>5 DEF Somebody, Writing
<1>7. PopulationTyped' /\ ToldOfNone'
  BY <1>1, <1>3, <1>4, WriterGoes DEF Writing
<1>8. CounterFollows'
  <2>1. U!CountedToday'
    BY <1>1, <1>4, NoneIsNothing DEF U!CountedToday
  <2>2. v11 = {} => v9[c].of = v3
    BY <1>1 DEF PopulationInv, CounterFollows, At
  <2> QED BY <1>1, <1>3, <1>4, <1>5, <2>1, <2>2 DEF PopulationInv, CounterFollows, At
<1> QED BY <1>6, <1>7, <1>8 DEF PopulationInv, GatesFollow

LEMMA CountGatesKeeps ==
  ASSUME PopulationInv, NEW c \in Handler, U!CountGates(c)
  PROVE  PopulationInv'
<1> DEFINE r == [v9[c] EXCEPT !.at = "ended"]
<1>1. /\ v9[c] # None /\ v9[c].at = "counted" /\ v7' = v3 /\ v9' = [v9 EXCEPT ![c] = r]
      /\ UNCHANGED <<v1, v2, v3, v5, v6, v8, v10, v11>>
  BY DEF U!CountGates, U!Goes, PopulationInv, PopulationTyped
<1>2. r \in U!Progress /\ r.at = "ended"
  BY <1>1, Shapes DEF PopulationInv, PopulationTyped
<1> HIDE DEF r
<1>3. /\ \A set : At(c, set)' <=> r.at \in set
      /\ \A d \in Handler \ {c} : \A set : At(d, set)' <=> At(d, set)
      /\ \A d \in Handler \ {c} : v9'[d] = v9[d]
  BY <1>1, <1>2, Goes
<1>4. PopulationTyped' /\ ToldOfNone'
  BY <1>1, <1>2, WriterGoes DEF PopulationInv, PopulationTyped
<1>5. CounterFollows'
  <2>1. \A set \in {{"replaced"}, Recounting} : Somebody(set) => Somebody(set)'
    BY <1>1, <1>3 DEF Somebody, At, Recounting
  <2>2. U!CountedToday' <=> U!CountedToday
    BY <1>1 DEF U!CountedToday
  <2>3. \A d \in Handler : At(d, Through)' => At(d, Through)
    BY <1>1, <1>3 DEF At, Through
  <2>4. v3 # None => v3.by \in Handler
    BY DEF PopulationInv, PopulationTyped, People, U!Populations
  <2>5. At(v3.by, Through)' /\ v3 # None => At(v3.by, Through)
    BY <1>1, <2>3, <2>4 DEF At
  <2> QED BY <1>1, <1>2, <1>3, <2>1, <2>2, <2>5 DEF PopulationInv, CounterFollows, At
<1> QED BY <1>1, <1>4, <1>5 DEF PopulationInv, GatesFollow

LEMMA KillKeeps ==
  ASSUME PopulationInv, NEW c \in Handler, U!Kill(c)
  PROVE  PopulationInv'
<1> DEFINE r == [at |-> "killed"]
<1>1. /\ v9[c] # None /\ v9[c].at \in {"found"} \cup Writing /\ v9' = [v9 EXCEPT ![c] = r]
      /\ v11' = v11 \cup IF v9[c].at = "found" THEN {} ELSE {"killed"}
      /\ UNCHANGED <<v1, v2, v3, v5, v6, v7, v8, v10>>
  BY DEF U!Kill, Writing, Recounting
<1>2. r \in U!Progress /\ r.at = "killed"
  BY DEF U!Progress
<1> HIDE DEF r
<1>3. CASE v9[c].at = "found"
  <2>1. ~At(c, Writing \cup {"ended", "killed"}) /\ v11' = v11
    BY <1>1, <1>3 DEF At, Writing, Recounting
  <2> QED BY <1>1, <1>2, <2>1, ReadsKeep
<1>4. CASE v9[c].at # "found"
  <2>1. "killed" \in v11'
    BY <1>1, <1>4
  <2>2. PopulationTyped' /\ ToldOfNone'
    BY <1>1, <1>2, WriterGoes DEF PopulationInv, PopulationTyped
  <2> QED BY <2>1, <2>2 DEF PopulationInv, GatesFollow, CounterFollows
<1> QED BY <1>3, <1>4

\* The API's count, and the audit log.
LEMMA ApiKeeps ==
  ASSUME PopulationInv, U!ApiBegins \/ U!ApiEnds \/ U!IsAudited
  PROVE  PopulationInv'
<1>1. UNCHANGED <<v1, v2, v3, v5, v7, v8, v9, v11>>
  BY DEF U!ApiBegins, U!ApiEnds, U!IsAudited
<1>2. \/ /\ v6' = v6 /\ v10' = [today |-> TRUE, of |-> v3]
      \/ v10 # None /\ v6' = v10 /\ v10' = None
      \/ v6' = v6 /\ v10' = v10
  BY DEF U!ApiBegins, U!ApiEnds, U!IsAudited
<1>3. [today |-> TRUE, of |-> v3] \in U!Counts
  BY DEF PopulationInv, PopulationTyped, U!Counts, People
<1>4. PopulationTyped'
  BY <1>1, <1>2, <1>3 DEF PopulationInv, PopulationTyped
<1>5. \A d, set : At(d, set)' <=> At(d, set)
  BY <1>1 DEF At
<1>6. ToldOfNone'
  BY <1>1 DEF PopulationInv, ToldOfNone, At, Deployable
<1>7. \A set : Somebody(set)' <=> Somebody(set)
  BY <1>5 DEF Somebody
<1>8. GatesFollow'
  BY <1>1, <1>7 DEF PopulationInv, GatesFollow
<1>9. CounterFollows'
  <2>1. CASE v6' = v6
    <3>1. U!CountedToday' <=> U!CountedToday
      BY <2>1 DEF U!CountedToday
    <3> QED BY <1>1, <1>2, <1>5, <1>7, <2>1, <3>1 DEF PopulationInv, CounterFollows, At
  <2>2. CASE v10 # None /\ v6' = v10 /\ v10' = None
    <3>1. v11 = {} => v6' = [today |-> TRUE, of |-> v3]
      BY <2>2 DEF PopulationInv, CounterFollows
    <3>2. v11 = {} => U!CountedToday' /\ v6'.of = v3
      BY <2>2, <3>1 DEF U!CountedToday
    <3> QED BY <1>1, <1>5, <1>7, <2>2, <3>2 DEF PopulationInv, CounterFollows, At
  <2> QED BY <1>2, <2>1, <2>2
<1> QED BY <1>4, <1>6, <1>8, <1>9 DEF PopulationInv

LEMMA PopulationKeeps == PopulationInv /\ U!Next => PopulationInv'
BY TypeKeeps, AskKeeps, FindKeeps, ReplaceKeeps, DropKeeps, BeginCountKeeps, EndCountKeeps,
   CountGatesKeeps, KillKeeps, ApiKeeps DEF U!Next

LEMMA PopulationSays == PopulationInv => U!NeverOnDeployed /\ U!CountedAnew
<1> SUFFICES ASSUME PopulationInv PROVE U!NeverOnDeployed /\ U!CountedAnew
  OBVIOUS
<1>1. U!NeverOnDeployed
  BY DEF PopulationInv, ToldOfNone, Deployable, U!NeverOnDeployed
<1>2. ASSUME NEW c \in Handler, v9[c] # None, v9[c].at = "ended", v3 # None, v3.by = c,
             \A d \in Handler : ~U!Running(d)
      PROVE  /\ "killed" \notin v11 => v7 = v3
             /\ v11 = {} /\ v10 = None => v6 = [today |-> TRUE, of |-> v3]
  <2>1. ~Somebody(Writing) /\ ~Somebody(Recounting) /\ ~Somebody({"replaced"})
    BY <1>2 DEF Somebody, At, Writing, Recounting, U!Running
  <2>2. "killed" \notin v11 => v7 = v3
    BY <2>1 DEF PopulationInv, GatesFollow
  <2>3. v11 = {} => U!CountedToday /\ v6.of = v3
    BY <1>2, <2>1 DEF PopulationInv, CounterFollows, At, Through
  <2>4. U!CountedToday => v6 \in U!Counts /\ v6.today
    BY DEF U!CountedToday, PopulationInv, PopulationTyped
  <2>5. v11 = {} => v6 = [today |-> TRUE, of |-> v3]
    BY <2>3, <2>4 DEF U!Counts
  <2> QED BY <2>2, <2>5
<1>3. U!CountedAnew
  BY <1>2 DEF U!CountedAnew
<1> QED BY <1>1, <1>3

LEMMA PeopleSpared == PopulationInv /\ U!Next => U!PeopleAreSpared
<1> SUFFICES ASSUME PopulationInv, U!Next PROVE v5 \subseteq v5'
  BY DEF U!PeopleAreSpared
<1>1. U!Removed(v5) = {}
  BY NobodyMetIsSynthetic
<1>2. ASSUME NEW c \in Handler, U!Replace(c) PROVE v5 \subseteq v5'
  BY <1>1, <1>2 DEF U!Replace
<1>3. CASE v5' = v5
  BY <1>3
<1> QED BY <1>2, <1>3 DEF U!Next, U!Type, U!Ask, U!Find, U!DropCounter, U!BeginSnapshot, U!EndSnapshot,
                          U!CountGates, U!Kill, U!ApiBegins, U!ApiEnds, U!IsAudited

LEMMA PopulationTypesInit == U!Init => U!TypeOK
<1> SUFFICES ASSUME U!Init PROVE U!TypeOK
  OBVIOUS
<1>1. PopulationTyped
  BY PopulationInit DEF PopulationInv
<1>2. v4 = FALSE /\ v11 = {}
  BY DEF U!Init
<1> QED BY <1>1, <1>2 DEF PopulationTyped, People, U!TypeOK

LEMMA PopulationTypesKeep ==
  ASSUME PopulationInv, U!TypeOK, U!Next, PopulationInv'
  PROVE  U!TypeOK'
<1>1. PopulationTyped'
  BY DEF PopulationInv
<1>2. (v4 => v3 # None) /\ v11 \subseteq {"crossed", "killed"}
  BY DEF U!TypeOK
<1>3. (v4' => v3' # None) /\ v11' \subseteq {"crossed", "killed"}
  <2>1. CASE UNCHANGED <<v3, v4, v11>>
    BY <1>2, <2>1
  <2>2. ASSUME NEW c \in Handler, U!Replace(c) \/ U!Kill(c)
        PROVE  (v4' => v3' # None) /\ v11' \subseteq {"crossed", "killed"}
    <3>1. CASE U!Kill(c)
      <4>1. v3' = v3 /\ v4' = v4 /\ v11' = v11 \cup (IF v9[c].at = "found" THEN {} ELSE {"killed"})
        BY <3>1 DEF U!Kill
      <4> QED BY <1>2, <4>1
    <3>2. CASE U!Replace(c) /\ ~UNCHANGED <<v3, v4, v11>>
      <4>1. /\ v4' <=> (v4 /\ v3' = v3)
            /\ v11' = v11 \cup (IF U!CountUnderWay /\ v3' # v3 THEN {"crossed"} ELSE {})
        BY <3>2 DEF U!Replace
      <4> QED BY <1>2, <4>1
    <3>3. CASE UNCHANGED <<v3, v4, v11>>
      BY <1>2, <3>3
    <3> QED BY <2>2, <3>1, <3>2, <3>3
  <2>3. CASE U!IsAudited
    BY <1>2, <2>3 DEF U!IsAudited
  <2> QED BY <2>1, <2>2, <2>3
       DEF U!Next, U!Type, U!Ask, U!Find, U!DropCounter, U!BeginSnapshot, U!EndSnapshot, U!CountGates,
           U!ApiBegins, U!ApiEnds
<1> QED BY <1>1, <1>3 DEF PopulationTyped, People, U!TypeOK
=============================================================================
