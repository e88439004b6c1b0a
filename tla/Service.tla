------------------------------ MODULE Service ------------------------------
(***************************************************************************)
(* Parts of the system that share no row and no lock, side by side: those  *)
(* about which there are theorems for any of their constants.  A behaviour *)
(* is one of one part, chosen at the start.  Consents has its own          *)
(* variables, which stand still unless it is the one; the others put       *)
(* theirs into the slots v1, v2, ... in the order of their vars tuple, and *)
(* a slot no variable fills stays None.                                    *)
(***************************************************************************)
EXTENDS Consents

CONSTANTS
  Identity, AdminAttempt, Code, AdminSession,                                     \* Staff
  AttemptTTL, CodeTTL, SessionTTL, StaffTime, MaxGrants,
  BankKey, AcrLevels, BankTime, MaxFaults,                                        \* Bank
  Photo, Subject, Variant, OwnerOf, FetchLimit, CardLimit, BudgetDays, MaxRows,   \* Budget
  LIMIT, WINDOW, SECOND, MANY, LimiterTime,                                       \* Limiter
  Cell, WAITLIST_K_MIN, MaxPeople, MaxK, WaitlistDays, MaxMoves,                  \* Waitlist
  Account, MaxNight, MaxAsked, MaxTrouble,                                        \* Home
  TextKey, Unruly, MaxEn, MaxText, MaxEdits,                                      \* Translations
  Persona, Picture, PERSONA_HISTORIES, MaxOthers,                                 \* Personas
  Typed                                                                           \* Population

VARIABLES part, v1, v2, v3, v4, v5, v6, v7, v8, v9, v10, v11, v12

O == INSTANCE Onboarding WITH
       account <- v1, declared <- v2, agreed <- v3, current <- v4, call <- v5

S == INSTANCE Staff WITH
       Attempt <- AdminAttempt, Session <- AdminSession, MaxTime <- StaffTime,
       now <- v1, role <- v2, attempt <- v3, mailed <- v4, session <- v5, call <- v6,
       cli <- v7, grants <- v8, escaped <- v9, epoch <- v10

I == INSTANCE Bank WITH
       Attempt <- Handler, Key <- BankKey, MaxTime <- BankTime,
       now <- v1, issuer <- v2, keysGiven <- v3, acrValues <- v4, published <- v5,
       signing <- v6, held <- v7, login <- v8, hasty <- v9, faults <- v10

B == INSTANCE Budget WITH
       MaxDay <- BudgetDays,
       day <- v1, photo <- v2, access <- v3, shown <- v4, charged <- v5, call <- v6

V == INSTANCE Limiter WITH
       Client <- Handler, MaxTime <- LimiterTime,
       now <- v1, trustedProxy <- v2, buckets <- v3, admitted <- v4, told <- v5

W == INSTANCE Waitlist WITH
       Process <- Handler, MaxDay <- WaitlistDays,
       day <- v1, pond <- v2, k <- v3, figures <- v4, takenOn <- v5, count <- v6,
       said <- v7, moves <- v8, counted <- v9, overtaken <- v10

H == INSTANCE Home WITH
       who <- v1, given <- v2, wording <- v3, switch <- v4, fetch <- v5, write <- v6,
       behind <- v7, night <- v8, card <- v9, asked <- v10, reads <- v11, trouble <- v12

T == INSTANCE Translations WITH
       Key <- TextKey,
       file <- v1, sheet <- v2, job <- v3, approved <- v4, edits <- v5

R == INSTANCE Personas WITH
       MaxMoves <- MaxOthers,
       account <- v1, staff <- v2, photos <- v3, others <- v4, objects <- v5, reset <- v6,
       torn <- v7, behind <- v8, forced <- v9, moves <- v10

U == INSTANCE Population WITH
       Command <- Handler,
       target <- v1, appEnv <- v2, people <- v3, held <- v4, met <- v5, counter <- v6,
       gates <- v7, lines <- v8, cmd <- v9, api <- v10, excused <- v11

ASSUME ServiceAssumption ==
  /\ S!StaffAssumption /\ I!BankAssumption
  /\ B!BudgetAssumption /\ V!LimiterAssumption /\ W!WaitlistAssumption /\ H!HomeAssumption
  /\ T!TranslationsAssumption /\ R!PersonasAssumption /\ U!PopulationAssumption

\* The slots from a number on, and that they are empty.
Rest11 == <<v11, v12>>
Rest7  == <<v7, v8, v9, v10, Rest11>>
Rest6  == <<v6, Rest7>>
slots  == <<v1, v2, v3, v4, v5, Rest6>>

From11 == v11 = None /\ v12 = None
From7  == v7 = None /\ v8 = None /\ v9 = None /\ v10 = None /\ From11
From6  == v6 = None /\ From7
From1  == v1 = None /\ v2 = None /\ v3 = None /\ v4 = None /\ v5 = None /\ From6

InitService ==
  /\ Init
  /\ \/ part = "consents"     /\ From1
     \/ part = "onboarding"   /\ O!Init /\ From6
     \/ part = "staff"        /\ S!Init /\ From11
     \/ part = "bank"         /\ I!Init /\ From11
     \/ part = "budget"       /\ B!Init /\ From7
     \/ part = "limiter"      /\ V!Init /\ From6
     \/ part = "waitlist"     /\ W!Init /\ From11
     \/ part = "home"         /\ H!Init
     \/ part = "translations" /\ T!Init /\ From6
     \/ part = "personas"     /\ R!Init /\ From11
     \/ part = "population"   /\ U!Init /\ v12 = None

NextService ==
  /\ UNCHANGED part
  /\ \/ part = "consents"     /\ Next   /\ UNCHANGED slots
     \/ part = "onboarding"   /\ O!Next /\ UNCHANGED <<vars, Rest6>>
     \/ part = "staff"        /\ S!Next /\ UNCHANGED <<vars, Rest11>>
     \/ part = "bank"         /\ I!Next /\ UNCHANGED <<vars, Rest11>>
     \/ part = "budget"       /\ B!Next /\ UNCHANGED <<vars, Rest7>>
     \/ part = "limiter"      /\ V!Next /\ UNCHANGED <<vars, Rest6>>
     \/ part = "waitlist"     /\ W!Next /\ UNCHANGED <<vars, Rest11>>
     \/ part = "home"         /\ H!Next /\ UNCHANGED vars
     \/ part = "translations" /\ T!Next /\ UNCHANGED <<vars, Rest6>>
     \/ part = "personas"     /\ R!Next /\ UNCHANGED <<vars, Rest11>>
     \/ part = "population"   /\ U!Next /\ UNCHANGED <<vars, v12>>

SpecService == InitService /\ [][NextService]_<<part, vars, slots>>

-----------------------------------------------------------------------------
(* What the parts promise; each promise is stated in the part's module.    *)

\* Each part's variables stay in their types; the waitlist's are counts of people, of
\* whom a sum is taken, and stand with the figures of MCService.
TypesOK ==
  /\ TypeOK
  /\ part = "onboarding"   => O!TypeOK
  /\ part = "staff"        => S!TypeOK
  /\ part = "bank"         => I!TypeOK
  /\ part = "budget"       => B!TypeOK
  /\ part = "limiter"      => V!TypeOK
  /\ part = "home"         => H!TypeOK
  /\ part = "translations" => T!TypeOK
  /\ part = "personas"     => R!TypeOK
  /\ part = "population"   => U!TypeOK

\* Who is let in: an account is active only onboarded; staff by one session a login, and
\* none after the role is taken away; and a login is the person's who named themselves
\* at the bank.
WhoIsLetIn ==
  /\ part = "onboarding" => O!ActiveOnlyOnboarded /\ O!CompleteIsActive
  /\ part = "staff" => S!OneStaffSessionPerLogin /\ S!RevocationEndsSessions
  /\ part = "bank" => I!LoginsAreTheirs /\ I!NoLoginFailsForUs

\* No viewer is served beyond the day's budgets, no client let through beyond the
\* minute's, and no day takes more consents than its cap.
WithinBudgets ==
  /\ part = "budget"  => B!WithinBudgets
  /\ part = "limiter" => V!AdmitsTheLimit /\ V!WaitIsEnough /\ V!CountedAsThemselves
  /\ ChurnIsCapped

\* What people are told of the counts: the waitlist's day is counted once and said
\* in steps of k people, and the card of the gate never goes back a night.
ToldCarefully ==
  /\ [](part = "home" => H!SwitchIsTrue)
  /\ [][/\ part = "waitlist" => W!SaidInStep /\ W!CountsANewDay
        /\ part = "home" => H!NeverGoesBack]_<<part, vars, slots>>

\* What a tool has written stands as it promises: a text that counts as reviewed was
\* approved; the reset of the demo takes its people whole, with their objects, or not at
\* all; and the demo's population is nowhere it must not be, and counted anew.
ToolsKeepTheirWord ==
  /\ part = "translations" => T!ReviewedWasApproved
  /\ part = "personas" => R!RowsGoWithTheirObjects /\ R!StaffSeenOrGone /\ R!PhotosAreWhole
  /\ part = "population" => U!NeverOnDeployed /\ U!CountedAnew

\* Nobody's work or person is lost to a tool: no translation's newer text is overwritten,
\* an approval shows, and no demo's clean-up takes somebody who logged in.
WorkIsSpared ==
  /\ []ToolsKeepTheirWord
  /\ [][/\ part = "translations" => T!OverwritesNothingNewer /\ T!ApprovalsShow
        /\ part = "population" => U!PeopleAreSpared]_<<part, vars, slots>>
=============================================================================
