------------------------------ MODULE Processes ------------------------------
(***************************************************************************)
(* Programs that run by themselves, side by side: the API's process at its *)
(* boot and in its nights, and a developer's environment.  A behaviour is  *)
(* one of one program, chosen at the start, and the program puts its       *)
(* variables into w1, w2, ... in the order of its vars tuple; the rest     *)
(* stay Absent.                                                            *)
(***************************************************************************)
EXTENDS Naturals

CONSTANTS
  Absent,                                    \* the None of each
  Process,
  Images, BootFaults, MaxBoots,              \* Boot
  SpringAt, AutumnAt, MonthDays,             \* Nightly
  EVENTS_RETENTION_DAYS, StartHours, MaxHour, NightFailures,
  SERVICES, Skips, Machines, Holders, Chains, EnvTrouble     \* DevEnv

VARIABLES program, w1, w2, w3, w4, w5, w6, w7, w8, w9, w10

G == INSTANCE Boot WITH
       None <- Absent, MaxFaults <- BootFaults,
       given <- w1, proc <- w2, database <- w3, lock <- w4, applied <- w5, boots <- w6

N == INSTANCE Nightly WITH
       None <- Absent, MaxFailures <- NightFailures,
       now <- w1, proc <- w2, partitions <- w3, counted <- w4, failures <- w5, age <- w6, calm <- w7

E == INSTANCE DevEnv WITH
       None <- Absent, Run <- Process, MaxTrouble <- EnvTrouble,
       docker <- w1, brew <- w2, db <- w3, other <- w4, stubborn <- w5, server <- w6,
       run <- w7, harmed <- w8, raced <- w9, trouble <- w10

ASSUME ProcessesAssumption == G!BootAssumption /\ N!NightlyAssumption /\ E!DevEnvAssumption

\* The places above a number, and that they are empty.
Above7 == <<w8, w9, w10>>
Above6 == <<w7, Above7>>
places == <<w1, w2, w3, w4, w5, w6, Above6>>

Empty7 == w8 = Absent /\ w9 = Absent /\ w10 = Absent
Empty6 == w7 = Absent /\ Empty7
NoProgram ==
  /\ program = Absent /\ w1 = Absent /\ w2 = Absent /\ w3 = Absent /\ w4 = Absent
  /\ w5 = Absent /\ w6 = Absent /\ Empty6

InitProcesses ==
  \/ program = "boot"    /\ G!Init /\ Empty6
  \/ program = "nightly" /\ N!Init /\ Empty7
  \/ program = "devenv"  /\ E!Init

NextProcesses ==
  /\ UNCHANGED program
  /\ \/ program = "boot"    /\ G!Next /\ UNCHANGED Above6
     \/ program = "nightly" /\ N!Next /\ UNCHANGED Above7
     \/ program = "devenv"  /\ E!Next

SpecProcesses == InitProcesses /\ [][NextProcesses]_<<program, places>>

-----------------------------------------------------------------------------
\* What the processes promise, each in its module, beside the type of its variables: at
\* their boot each migration is applied once, whoever listens serves what it was
\* configured for, and a preview keeps to itself; in their nights every day is counted,
\* and events have their partition, and lose it; and a developer's run stands on its own
\* servers, kills at a port, and above it, who passes for its own, and leaves nothing behind.
ProcessesHold ==
  /\ program = "boot"    => G!TypeOK /\ G!MigratedOnce /\ G!ServesWhole /\ G!PreviewKeepsToItself
  /\ program = "nightly" => /\ N!TypeOK /\ N!EveryDayIsCounted /\ N!WindowIsTheDay
                            /\ N!EventsHaveAPartition /\ N!EventsAreDropped
  /\ program = "devenv"  => E!TypeOK /\ E!ForeignIsSpared /\ E!UpIsMine /\ E!NothingIsLeft
=============================================================================
