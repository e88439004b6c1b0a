-------------------------------- MODULE Boot --------------------------------
(***************************************************************************)
(* The API's boot (apps/api/src/index.ts), for two processes of one        *)
(* deployment that overlap, with the same configuration and perhaps        *)
(* another image: the configuration read from the environment and the      *)
(* parameters behind it (lib/config.ts), the bank's discovery, a preview's *)
(* database, the migrations under their advisory lock, the seed, media     *)
(* (media/wiring.ts), and the server.  A process may be killed anywhere.   *)
(***************************************************************************)
EXTENDS Naturals, FiniteSets

CONSTANTS Process, None,
          Images,        \* the migrations an image carries are 1..its number
          MaxFaults,     \* bound: what is wrong with a configuration
          MaxBoots       \* bound: starts, restarts included

VARIABLES
  given,      \* the environment's variables over the store's parameters (loadConfig)
  proc,       \* per process: where it is, and what it decided
  database,   \* per database: whether it is there, its migrations, its seeded account
  lock,       \* per database: who holds the migrations' advisory lock
  applied,    \* history: per database and migration, how often it was applied
  boots

vars == <<given, proc, database, lock, applied, boots>>

BootAssumption ==
  /\ None \notin Process
  /\ Images \subseteq Nat \ {0} /\ MaxBoots \in Nat

\* The migrations of all the images there are.
Migrations == UNION {1..image : image \in Images}

Databases == {"environment", "preview"}
Environments == {"development", "preview", "staging", "production"}
Deployed == Environments \ {"development"}

\* What may stand in the variables the boot decides by.  "url" and the three groups of
\* parameters are as the store of the environment has them: a preview reads staging's.
Variables == [APP_ENV       : Environments,
              PR_NUMBER     : BOOLEAN,
              DATABASE_URL  : BOOLEAN,
              DB_APP        : BOOLEAN,              \* host, name, the application's role
              DB_PREVIEW    : BOOLEAN,              \* the preview's role
              HETU_HMAC_KEY : {"none", "zeros", "key"},
              ADMIN_APP_URL : {"https", "localhost"},
              CORS          : {"none", "https", "localhost"},
              CLOUDFRONT    : {"none", "half", "all"},
              S3_ENDPOINT   : BOOLEAN,
              OIDC_ISSUER   : {"none", "mock", "telia"},
              OIDC_CLIENT   : BOOLEAN,
              TELIA_KEYS    : BOOLEAN]

\* A right configuration of each environment.
Right(env) ==
  LET dev == env = "development" IN
  [APP_ENV |-> env, PR_NUMBER |-> env = "preview", DATABASE_URL |-> dev,
   DB_APP |-> ~dev, DB_PREVIEW |-> env \in {"preview", "staging"},
   HETU_HMAC_KEY |-> IF dev THEN "zeros" ELSE "key",
   ADMIN_APP_URL |-> IF dev THEN "localhost" ELSE "https",
   CORS |-> IF dev THEN "none" ELSE "https",
   CLOUDFRONT |-> IF dev THEN "none" ELSE "all", S3_ENDPOINT |-> dev,
   OIDC_ISSUER |-> IF dev THEN "mock" ELSE "telia", OIDC_CLIENT |-> TRUE, TELIA_KEYS |-> ~dev]

Faults(g) == {field \in DOMAIN g : g[field] # Right(g.APP_ENV)[field]}

Configurations == {g \in Variables : Cardinality(Faults(g)) <= MaxFaults}

-----------------------------------------------------------------------------
(* The configuration.                                                      *)

Local(g) == g.APP_ENV = "development"
IsPreview(g) == g.APP_ENV = "preview"

previewConfig(g) == g.PR_NUMBER = IsPreview(g)
composeDatabaseUrl(g) == IF IsPreview(g) THEN g.DB_APP /\ g.DB_PREVIEW ELSE g.DB_APP
Plain(g) == g.CORS = "localhost"

parses(g) ==
  /\ previewConfig(g)
  /\ g.DATABASE_URL \/ composeDatabaseUrl(g)
  /\ g.HETU_HMAC_KEY = "zeros" => Local(g)
  /\ g.APP_ENV = "production" => g.ADMIN_APP_URL = "https" /\ ~Plain(g)

\* What the process holds after parseConfig: a preview lets go of the rest.
Kept(g) == IF IsPreview(g) THEN [g EXCEPT !.CLOUDFRONT = "none", !.DB_APP = FALSE] ELSE g
databaseUrl(g) == IF IsPreview(g) THEN "preview" ELSE "environment"

\* The broker, when discovery answers: half a configuration is none.
brokerOf(g) == /\ g.OIDC_CLIENT /\ g.HETU_HMAC_KEY # "none"
               /\ g.OIDC_ISSUER = "telia" => g.TELIA_KEYS

\* createMediaDeps: "throws", or the mode.
createMediaDeps(g) ==
  CASE g.CLOUDFRONT = "half" -> "throws"
    [] g.CLOUDFRONT = "all"  -> "cloudfront"
    [] g.CLOUDFRONT = "none" /\ g.S3_ENDPOINT -> IF Local(g) THEN "presigned" ELSE "throws"
    [] OTHER -> "off"

-----------------------------------------------------------------------------
(* A process.                                                              *)

Off == [pc |-> "off"]

Init ==
  /\ given \in Configurations
  /\ proc = [p \in Process |-> Off]
  /\ database \in [Databases -> {[there |-> TRUE, migrated |-> 0, seeded |-> FALSE],
                                 [there |-> FALSE, migrated |-> 0, seeded |-> FALSE]}]
  /\ database["environment"].there
  /\ lock = [d \in Databases |-> None]
  /\ applied = [d \in Databases |-> [m \in Migrations |-> 0]]
  /\ boots = 0

At(p, pc) == proc[p].pc = pc
To(p, pc) == proc' = [proc EXCEPT ![p].pc = pc]
Exit(p) == proc' = [proc EXCEPT ![p] = Off]
Only(p, next) == next /\ UNCHANGED <<given, database, lock, applied, boots>>
Base(p) == proc[p].database

\* loadConfig: a configuration that does not parse ends the process.
Start(p, image) ==
  /\ At(p, "off") /\ boots < MaxBoots /\ boots' = boots + 1
  /\ proc' = IF parses(given)
               THEN [proc EXCEPT ![p] = [pc |-> "configured", image |-> image, seen |-> 0, found |-> FALSE,
                                         config |-> Kept(given), database |-> databaseUrl(given),
                                         broker |-> FALSE, media |-> "off"]]
               ELSE proc
  /\ UNCHANGED <<given, database, lock, applied>>

\* Discovery answers or not; locally a login that cannot work is a warning.
DiscoverBroker(p, answers) ==
  /\ At(p, "configured")
  /\ LET config == proc[p].config
         works == answers /\ brokerOf(config)
         next == IF IsPreview(config) THEN "naming" ELSE "connected"
     IN Only(p, IF config.OIDC_ISSUER = "none" \/ works \/ Local(config)
                  THEN proc' = [proc EXCEPT ![p].pc = next,
                                            ![p].broker = works /\ config.OIDC_ISSUER # "none"]
                  ELSE Exit(p))

\* ensurePreviewDatabase: the check and the create are two statements, and a second
\* create of the same name is the same outcome.
FindPreview(p) ==
  /\ At(p, "naming")
  /\ Only(p, To(p, IF database[Base(p)].there THEN "connected" ELSE "creating"))

CreatePreview(p) ==
  /\ At(p, "creating") /\ To(p, "connected")
  /\ database' = [database EXCEPT ![Base(p)].there = TRUE]
  /\ UNCHANGED <<given, lock, applied, boots>>

\* Mutation: whoever comes reads the journal at once.
LockMigrationsUnlocked(p) ==
  /\ At(p, "connected")
  /\ lock' = [lock EXCEPT ![Base(p)] = p] /\ To(p, "locked")
  /\ UNCHANGED <<given, database, applied, boots>>

\* migrate: the lock, what was applied last, the rest in one transaction, the lock back.
LockMigrations(p) ==
  /\ At(p, "connected") /\ lock[Base(p)] = None
  /\ lock' = [lock EXCEPT ![Base(p)] = p] /\ To(p, "locked")
  /\ UNCHANGED <<given, database, applied, boots>>

ReadJournal(p) ==
  /\ At(p, "locked")
  /\ Only(p, proc' = [proc EXCEPT ![p].pc = "migrating", ![p].seen = database[Base(p)].migrated])

ApplyMigrations(p) ==
  /\ At(p, "migrating") /\ To(p, "migrated")
  /\ LET d == Base(p)  missing == (proc[p].seen + 1)..proc[p].image IN
     /\ applied' = [applied EXCEPT ![d] = [m \in DOMAIN @ |-> IF m \in missing THEN @[m] + 1 ELSE @[m]]]
     /\ database' = [database EXCEPT ![d].migrated = IF missing = {} THEN @ ELSE proc[p].image]
  /\ UNCHANGED <<given, lock, boots>>

UnlockMigrations(p) ==
  /\ At(p, "migrated") /\ lock' = [lock EXCEPT ![Base(p)] = None]
  /\ To(p, IF IsPreview(proc[p].config) THEN "seeding" ELSE "seeded")
  /\ UNCHANGED <<given, database, applied, boots>>

\* seed: its account is looked for, then inserted; the unique index refuses a second.
SeedAccount(p) ==
  /\ At(p, "seeding")
  /\ Only(p, proc' = [proc EXCEPT ![p].pc = "inserting", ![p].found = database[Base(p)].seeded])

InsertSeeded(p) ==
  /\ At(p, "inserting")
  /\ IF ~proc[p].found /\ database[Base(p)].seeded THEN Exit(p) /\ UNCHANGED database
     ELSE To(p, "seeded") /\ database' = [database EXCEPT ![Base(p)].seeded = TRUE]
  /\ UNCHANGED <<given, lock, applied, boots>>

SetUpMedia(p) ==
  /\ At(p, "seeded")
  /\ LET mode == createMediaDeps(proc[p].config) IN
     Only(p, IF mode = "throws" THEN Exit(p)
             ELSE proc' = [proc EXCEPT ![p].pc = "ready", ![p].media = mode])

\* A port that another process of this computer holds ends the boot.
Listen(p) ==
  /\ At(p, "ready")
  /\ LET taken == Local(given) /\ \E q \in Process \ {p} : At(q, "listening") IN
     Only(p, IF taken THEN Exit(p) ELSE To(p, "listening"))

\* SIGTERM to a server lets it drain; to a boot, or from a crash, it is the end, and
\* the connection's lock and transaction with it.
Drain(p) == At(p, "listening") /\ Only(p, To(p, "draining"))
Die(p) ==
  /\ ~At(p, "off") /\ Exit(p)
  /\ lock' = [d \in Databases |-> IF lock[d] = p THEN None ELSE lock[d]]
  /\ UNCHANGED <<given, database, applied, boots>>

Next ==
  \E p \in Process :
    \/ \E image \in Images : Start(p, image)
    \/ \E answers \in BOOLEAN : DiscoverBroker(p, answers)
    \/ FindPreview(p) \/ CreatePreview(p)
    \/ LockMigrations(p) \/ ReadJournal(p) \/ ApplyMigrations(p) \/ UnlockMigrations(p)
    \/ SeedAccount(p) \/ InsertSeeded(p) \/ SetUpMedia(p) \/ Listen(p) \/ Drain(p) \/ Die(p)

Spec == Init /\ [][Next]_vars

-----------------------------------------------------------------------------
TypeOK ==
  /\ given \in Configurations /\ boots \in 0..MaxBoots
  /\ \A p \in Process : At(p, "off") \/
       /\ proc[p].pc \in {"configured", "naming", "creating", "connected", "locked", "migrating", "migrated",
                         "seeding", "inserting", "seeded", "ready", "listening", "draining"}
       /\ proc[p].image \in Images /\ proc[p].seen \in {0} \cup Images /\ proc[p].found \in BOOLEAN
       /\ proc[p].database \in Databases /\ proc[p].broker \in BOOLEAN
       /\ proc[p].media \in {"off", "presigned", "cloudfront"}
  /\ \A d \in Databases : /\ database[d].there \in BOOLEAN /\ database[d].seeded \in BOOLEAN
                          /\ database[d].migrated \in {0} \cup Images
  /\ lock \in [Databases -> Process \cup {None}]

\* Two containers that start at once apply each migration exactly once, wherever one
\* of them is killed (migrate.ts).
MigratedOnce ==
  \A d \in Databases : \A m \in DOMAIN applied[d] :
    applied[d][m] = IF m <= database[d].migrated THEN 1 ELSE 0

\* Whoever listens serves what it was configured for: a database with every migration
\* of its image, and in a deployed environment a login that works when there is a bank,
\* photos behind the distribution or none, no development key, and in production no
\* address without https.
ServesWhole ==
  \A p \in Process : proc[p].pc \in {"listening", "draining"} =>
    /\ LET d == database[Base(p)] IN
       d.there /\ d.migrated >= proc[p].image /\ (IsPreview(given) => d.seeded)
    /\ given.APP_ENV \in Deployed =>
         /\ given.OIDC_ISSUER # "none" => proc[p].broker
         /\ proc[p].media # "presigned" /\ given.HETU_HMAC_KEY # "zeros"
    /\ given.APP_ENV = "production" => given.ADMIN_APP_URL = "https" /\ given.CORS # "localhost"

\* A preview reads staging's parameters and keeps to what is its own: its database, and
\* no photos; and nobody else opens a preview's database.
PreviewKeepsToItself ==
  \A p \in Process : ~At(p, "off") =>
    /\ (Base(p) = "preview") = IsPreview(given)
    /\ IsPreview(given) => proc[p].media = "off"
=============================================================================
