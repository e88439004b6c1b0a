------------------------------- MODULE Screens -------------------------------
(***************************************************************************)
(* The screens of the phone and the panel, side by side: each is one       *)
(* client of the API, of which it has what it needs.  A behaviour is one   *)
(* of one screen, chosen at the start, and the screen puts its variables   *)
(* into x1, x2, ... in the order of its vars tuple; the rest stay Blank.   *)
(***************************************************************************)
EXTENDS Naturals

CONSTANTS
  Blank,                                     \* the None of each
  PhoneSession, Left, MaxPairs, MaxWrites, PhoneTrouble,   \* Device
  MaxPhotos, MaxUploads, MaxCalls, AlbumTrouble,           \* Album
  Prompt, PROMPTS_MAX, PROMPTS_FOR_COMPLETENESS, ProfileEdits, ProfileTrouble,   \* Profile
  PhoneAccount, Finished, Pond, Wordings, QuestionsTrouble,       \* Questions
  LOCALES, RELEASED_LOCALES, Phones, SettingsMoves,        \* Settings
  MaxLogins, PanelTrouble,                   \* Panel
  Queued, QueueLimit, Queues, MaxLoads, DeskTrouble   \* Desk

VARIABLES screen, x1, x2, x3, x4, x5, x6, x7, x8, x9, x10, x11, x12, x13, x14, x15

D == INSTANCE Device WITH
       None <- Blank, Session <- PhoneSession, MaxTrouble <- PhoneTrouble,
       api <- x1, memory <- x2, store <- x3, writes <- x4, inFlight <- x5, shown <- x6,
       pending <- x7, link <- x8, leaving <- x9, wants <- x10, trouble <- x11, excused <- x12

A == INSTANCE Album WITH
       None <- Blank, MaxTrouble <- AlbumTrouble,
       album <- x1, list <- x2, status <- x3, busy <- x4, removing <- x5,
       calls <- x6, next <- x7, doubled <- x8, trouble <- x9, behind <- x10

P == INSTANCE Profile WITH
       None <- Blank, MaxEdits <- ProfileEdits, MaxTrouble <- ProfileTrouble,
       account <- x1, row <- x2, rest <- x3, late <- x4, status <- x5, draft <- x6,
       complete <- x7, notice <- x8, call <- x9, wrote <- x10, crossed <- x11,
       edits <- x12, trouble <- x13

Q == INSTANCE Questions WITH
       None <- Blank, Account <- PhoneAccount, MaxVersion <- Wordings, MaxTrouble <- QuestionsTrouble,
       current <- x1, bundled <- x2, rows <- x3, who <- x4, page <- x5, gate <- x6,
       reads <- x7, steps <- x8, seen <- x9, offered <- x10, afterSeeks <- x11,
       busy <- x12, failed <- x13, tapped <- x14, trouble <- x15

M == INSTANCE Settings WITH
       None <- Blank, MaxMoves <- SettingsMoves,
       channel <- x1, phone <- x2, stored <- x3, preference <- x4, reading <- x5, writes <- x6,
       scheme <- x7, contrast <- x8, chose <- x9, excused <- x10, moves <- x11

L == INSTANCE Panel WITH
       None <- Blank, MaxTrouble <- PanelTrouble,
       development <- x1, page <- x2, stored <- x3, state <- x4, calls <- x5, api <- x6,
       logins <- x7, asked <- x8, told <- x9, crossed <- x10, trouble <- x11

K == INSTANCE Desk WITH
       None <- Blank, Photo <- Queued, Limit <- QueueLimit, MaxTrouble <- DeskTrouble,
       waiting <- x1, verdict <- x2, kind <- x3, items <- x4, total <- x5, row <- x6,
       loads <- x7, loaded <- x8, decisions <- x9, off <- x10, trouble <- x11

ASSUME ScreensAssumption ==
  /\ D!DeviceAssumption /\ A!AlbumAssumption /\ P!ProfileAssumption /\ Q!QuestionsAssumption
  /\ M!SettingsAssumption /\ L!PanelAssumption /\ K!DeskAssumption

\* The fields above a number, and that they are blank.
Over13 == <<x14, x15>>
Over12 == <<x13, Over13>>
Over11 == <<x12, Over12>>
Over10 == <<x11, Over11>>
fields == <<x1, x2, x3, x4, x5, x6, x7, x8, x9, x10, Over10>>

Blank13 == x14 = Blank /\ x15 = Blank
Blank12 == x13 = Blank /\ Blank13
Blank11 == x12 = Blank /\ Blank12
Blank10 == x11 = Blank /\ Blank11
NoScreen ==
  /\ screen = Blank /\ x1 = Blank /\ x2 = Blank /\ x3 = Blank /\ x4 = Blank /\ x5 = Blank
  /\ x6 = Blank /\ x7 = Blank /\ x8 = Blank /\ x9 = Blank /\ x10 = Blank /\ Blank10

InitScreens ==
  \/ screen = "device"    /\ D!Init /\ Blank12
  \/ screen = "album"     /\ A!Init /\ Blank10
  \/ screen = "profile"   /\ P!Init /\ Blank13
  \/ screen = "questions" /\ Q!Init
  \/ screen = "settings"  /\ M!Init /\ Blank11
  \/ screen = "panel"     /\ L!Init /\ Blank11
  \/ screen = "desk"      /\ K!Init /\ Blank11

NextScreens ==
  /\ UNCHANGED screen
  /\ \/ screen = "device"    /\ D!Next /\ UNCHANGED Over12
     \/ screen = "album"     /\ A!Next /\ UNCHANGED Over10
     \/ screen = "profile"   /\ P!Next /\ UNCHANGED Over13
     \/ screen = "questions" /\ Q!Next
     \/ screen = "settings"  /\ M!Next /\ UNCHANGED Over11
     \/ screen = "panel"     /\ L!Next /\ UNCHANGED Over11
     \/ screen = "desk"      /\ K!Next /\ UNCHANGED Over11

SpecScreens == InitScreens /\ [][NextScreens]_<<screen, fields>>

-----------------------------------------------------------------------------
\* What the screens promise, each in its module, beside the type of its variables: the
\* phone stays signed in, and out, as its owner left it, and what its screens show is
\* what the API keeps and what was chosen, whichever answers were late or lost; the panel
\* shows the session it has stored, and its queue the decisions that stand.
ScreensKeepTheirWord ==
  /\ screen = "device"    => D!TypeOK /\ D!StaysSignedIn /\ D!StaysSignedOut
  /\ screen = "album"     => A!TypeOK /\ A!ScreenIsTrue /\ A!OneTapOnePhoto
  /\ screen = "profile"   => P!TypeOK /\ P!KeystrokesAreKept /\ P!SavedIsStored /\ P!NoProfileOfTombstone
  /\ screen = "questions" => Q!TypeOK /\ Q!NothingBeforeConsent /\ Q!GateIsTheirs /\ Q!LastPondStands
  /\ screen = "settings"  => M!TypeOK /\ M!OnlyServedIsShown /\ M!ChoiceStands /\ M!FollowsThePhone
  /\ screen = "panel"     => L!TypeOK /\ L!CodesAreSentOnce /\ L!ShownIsStored /\ L!RefusalStaysShown
  /\ screen = "desk"      => K!TypeOK /\ K!DecidedIsMine /\ K!CountIsWaiting
=============================================================================
