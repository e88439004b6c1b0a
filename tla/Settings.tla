------------------------------ MODULE Settings ------------------------------
(***************************************************************************)
(* What the app keeps of a person's taste (apps/mobile/src): the language, *)
(* stored on the phone and read after the first screen (lib/locale.tsx,    *)
(* lib/preferences.ts), the theme and the contrast, which last as long as  *)
(* the app runs and follow the phone until they are chosen                 *)
(* (theme/ThemeProvider.tsx), and the sheet they are chosen in             *)
(* (features/smoke/DevSettings.tsx).  Reads and writes of the store are    *)
(* asynchronous, unordered, and may fail; the app may be killed and        *)
(* updated to another channel's build.                                     *)
(***************************************************************************)
EXTENDS Naturals, Sequences, Functions

CONSTANTS None,
          LOCALES, RELEASED_LOCALES,  \* in their order
          Phones,                     \* bound: what the phone prefers, most preferred first
          MaxMoves                    \* bound: what people, phones and stores do

VARIABLES
  channel,      \* "production", "staging", or "dev"
  phone,        \* the phone's [languages, contrast]
  stored,       \* the language in the store; None without
  preference,   \* the language chosen; "system"
  reading,      \* the store's answer to the read of this start: [at, value]
  writes,       \* the writes in flight, oldest first
  scheme,       \* [preference, native]: the theme chosen, and handed to NativeWind
  contrast,     \* [read, system, chosen]: as the first read, the events and the person say
  chose,        \* the [language] chosen last, and whether in this [run]; None when not kept
  excused,      \* "late read", "late contrast", "unordered", "failed"
  moves

vars == <<channel, phone, stored, preference, reading, writes, scheme, contrast, chose, excused, moves>>

PSEUDO_LOCALE == "en-XA"
DEFAULT_LOCALE == "en"

SettingsAssumption ==
  /\ {LOCALES, RELEASED_LOCALES} \subseteq Seq(STRING) \ {<<>>} /\ Phones \subseteq Seq(STRING)
  /\ Range(RELEASED_LOCALES) \subseteq Range(LOCALES)
  /\ None \notin {"system", PSEUDO_LOCALE} \cup Range(LOCALES) /\ MaxMoves \in Nat

SERVED_LOCALES == IF channel = "production" THEN RELEASED_LOCALES ELSE LOCALES

OFFERED_LOCALES == Range(SERVED_LOCALES) \cup IF channel = "dev" THEN {PSEUDO_LOCALE} ELSE {}

\* The first preference that has a catalogue on offer; else English, or the first.
resolveLocale(preferences, allowed) ==
  LET known == {i \in DOMAIN preferences : preferences[i] \in Range(allowed)} IN
  IF known # {} THEN preferences[CHOOSE i \in known : \A j \in known : i <= j]
  ELSE IF DEFAULT_LOCALE \in Range(allowed) THEN DEFAULT_LOCALE ELSE Head(allowed)

deviceLocale == resolveLocale(phone.languages, SERVED_LOCALES)

\* The language on the screen.
effective == IF preference = "system" THEN deviceLocale ELSE preference

highContrast == IF contrast.chosen = None THEN contrast.system ELSE contrast.chosen

Read(at, value) == [at |-> at, value |-> value]
Asked == Read("asked", None)
Done  == Read("done", None)

Start ==
  /\ preference' = "system" /\ reading' = Asked /\ writes' = <<>>
  /\ scheme' = [preference |-> "system", native |-> "system"]
  /\ contrast' = [read |-> Asked, system |-> FALSE, chosen |-> None]

Init ==
  /\ channel \in {"production", "staging", "dev"}
  /\ phone \in [languages : Phones, contrast : BOOLEAN]
  /\ stored \in {None} \cup Range(LOCALES)
  /\ preference = "system" /\ reading = Asked /\ writes = <<>>
  /\ scheme = [preference |-> "system", native |-> "system"]
  /\ contrast = [read |-> Asked, system |-> FALSE, chosen |-> None]
  /\ chose = None /\ excused = {} /\ moves = 0

Moves == moves < MaxMoves /\ moves' = moves + 1

-----------------------------------------------------------------------------
(* Language                                                                *)

\* The store is read some time after it is asked, and its answer comes later still.
ReadStore ==
  /\ reading = Asked /\ reading' = Read("answered", stored)
  /\ UNCHANGED <<channel, phone, stored, preference, writes, scheme, contrast, chose, excused, moves>>

\* A preference that cannot be read was never set.
FailRead ==
  /\ Moves /\ reading = Asked /\ reading' = Read("answered", None)
  /\ excused' = excused \cup {"failed"}
  /\ UNCHANGED <<channel, phone, stored, preference, writes, scheme, contrast, chose>>

isOffered(value) == value \in OFFERED_LOCALES

ShowStored ==
  /\ reading.at = "answered" /\ reading' = Done
  /\ preference' = IF isOffered(reading.value) THEN reading.value ELSE preference
  /\ excused' = IF chose # None /\ chose.run /\ preference' # chose.language
                THEN excused \cup {"late read"} ELSE excused
  /\ UNCHANGED <<channel, phone, stored, writes, scheme, contrast, chose, moves>>

\* A choice is on the screen at once, and written behind it.
setLanguage(next) ==
  /\ Moves /\ preference' = next /\ chose' = [language |-> next, run |-> TRUE]
  /\ writes' = Append(writes, IF next = "system" THEN None ELSE next)
  /\ excused' = IF writes # <<>> THEN excused \cup {"unordered"} ELSE excused
  /\ UNCHANGED <<channel, phone, stored, reading, scheme, contrast>>

\* The writes in flight but one.
Others(q, i) == SubSeq(q, 1, i - 1) \o SubSeq(q, i + 1, Len(q))

writePreference(i) ==
  /\ stored' = writes[i] /\ writes' = Others(writes, i)
  /\ UNCHANGED <<channel, phone, preference, reading, scheme, contrast, chose, excused, moves>>

\* "The choice still holds for this session; it just will not survive a restart."
FailWrite(i) ==
  /\ Moves /\ writes' = Others(writes, i) /\ excused' = excused \cup {"failed"}
  /\ UNCHANGED <<channel, phone, stored, preference, reading, scheme, contrast, chose>>

-----------------------------------------------------------------------------
(* Theme and contrast                                                      *)

setScheme(next) ==
  /\ Moves /\ scheme' = [preference |-> next, native |-> next]
  /\ UNCHANGED <<channel, phone, stored, preference, reading, writes, contrast, chose, excused>>

ReadContrast ==
  /\ contrast.read = Asked /\ contrast' = [contrast EXCEPT !.read = Read("answered", phone.contrast)]
  /\ UNCHANGED <<channel, phone, stored, preference, reading, writes, scheme, chose, excused, moves>>

ShowContrast ==
  /\ contrast.read.at = "answered"
  /\ contrast' = [contrast EXCEPT !.read = Done, !.system = contrast.read.value]
  /\ excused' = IF contrast'.system # phone.contrast THEN excused \cup {"late contrast"} ELSE excused
  /\ UNCHANGED <<channel, phone, stored, preference, reading, writes, scheme, chose, moves>>

\* The phone's own setting: the event of it.
PhoneContrast ==
  /\ Moves /\ phone' = [phone EXCEPT !.contrast = ~@]
  /\ contrast' = [contrast EXCEPT !.system = phone'.contrast]
  /\ UNCHANGED <<channel, stored, preference, reading, writes, scheme, chose, excused>>

PhoneLanguages ==
  /\ Moves /\ phone' \in {[phone EXCEPT !.languages = l] : l \in Phones \ {phone.languages}}
  /\ UNCHANGED <<channel, stored, preference, reading, writes, scheme, contrast, chose, excused>>

setHighContrast(on) ==
  /\ Moves /\ contrast' = [contrast EXCEPT !.chosen = on]
  /\ UNCHANGED <<channel, phone, stored, preference, reading, writes, scheme, chose, excused>>

-----------------------------------------------------------------------------
\* The sheet is there for the team: in every channel but the store's.
DevSettings ==
  /\ channel # "production"
  /\ \/ \E l \in {"system"} \cup OFFERED_LOCALES : setLanguage(l)
     \/ \E s \in {"system", "light", "dark"} : setScheme(s)
     \/ setHighContrast(~highContrast)

\* Writes in flight are lost with the process, or not; the next start may be of another
\* channel's build.
Restart ==
  /\ Moves /\ Start
  /\ channel' \in {channel, "production"}
  /\ chose' = IF writes # <<>> \/ excused # {} \/ chose = None \/ channel' # channel THEN None
              ELSE [chose EXCEPT !.run = FALSE]
  /\ excused' = {}
  /\ UNCHANGED <<phone, stored>>

Next ==
  \/ ReadStore \/ FailRead \/ ShowStored \/ ReadContrast \/ ShowContrast
  \/ PhoneContrast \/ PhoneLanguages \/ DevSettings \/ Restart
  \/ \E i \in DOMAIN writes : writePreference(i) \/ FailWrite(i)

Spec == Init /\ [][Next]_vars

-----------------------------------------------------------------------------
TypeOK ==
  /\ stored \in {None, PSEUDO_LOCALE} \cup Range(LOCALES) /\ moves \in 0 .. MaxMoves
  /\ preference \in {"system", PSEUDO_LOCALE} \cup Range(LOCALES)
  /\ excused \subseteq {"late read", "late contrast", "unordered", "failed"}

\* A production build shows released languages alone, whatever an earlier build of another
\* channel has stored (locale.tsx:25: machine text "is never shown there").
OnlyServedIsShown == effective \in OFFERED_LOCALES

\* What was chosen is on the screen, but for an answer of the store that came after the
\* choice; and once all is written the store has it, and a start reads it again.
ChoiceStands ==
  chose # None =>
    /\ reading = Done /\ excused \cap {"late read", "failed"} = {} => preference = chose.language
    /\ writes = <<>> /\ excused \cap {"unordered", "failed"} = {} =>
         stored = IF chose.language = "system" THEN None ELSE chose.language

\* The contrast is the phone's until the person chooses, but for a first read that came
\* after the event of a change; and what NativeWind shows is what the sheet marks.
FollowsThePhone ==
  /\ contrast.chosen = None /\ contrast.read = Done /\ "late contrast" \notin excused =>
       highContrast = phone.contrast
  /\ scheme.native = scheme.preference
=============================================================================
