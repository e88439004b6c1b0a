---------------------------- MODULE ProcessesProofs ----------------------------
(***************************************************************************)
(* Theorems about Processes and about Moderation, whose sweep is one of    *)
(* the nights' jobs, for any number of processes, images, nights, services,*)
(* photos and staff: each program has its invariant.  A behaviour of       *)
(* Processes is one of one program, so its invariant is that of each       *)
(* program while it is the one.                                            *)
(***************************************************************************)
EXTENDS Processes, Moderation, Integers, FiniteSets, Sequences, TLAPS, FiniteSetTheorems, WellFoundedInduction

-----------------------------------------------------------------------------
(* Boot.  Whoever has the migrations' lock read the journal that is, and   *)
(* each stage of the boot leaves behind it what the stage is for: a        *)
(* configuration that parses, a bank that answered, a database that is     *)
(* there, migrated and seeded, and photos behind the distribution.         *)

BootHolding == {"locked", "migrating", "migrated"}
BootMigrated == {"migrated", "seeding", "inserting", "seeded", "ready", "listening", "draining"}
BootSeeded == {"seeded", "ready", "listening", "draining"}
BootReady == {"ready", "listening", "draining"}

\* A process that has begun, with the configuration of this deployment.
BootProcess ==
  [pc : {"configured", "naming", "creating", "connected"} \cup BootHolding \cup BootMigrated,
   image : Images, seen : {0} \cup Images, found : BOOLEAN, config : G!Variables,
   database : G!Databases, broker : BOOLEAN, media : {"off", "presigned", "cloudfront"}]

BootTypes ==
  /\ w1 \in G!Variables
  /\ w2 \in [Process -> {G!Off} \cup BootProcess]
  /\ w3 \in [G!Databases -> [there : BOOLEAN, migrated : {0} \cup Images, seeded : BOOLEAN]]
  /\ w4 \in [G!Databases -> Process \cup {Absent}]
  /\ w5 \in [G!Databases -> [G!Migrations -> Nat]]
  /\ w6 \in 0..MaxBoots

\* What its stage has left behind it.
BootStage(p) ==
  /\ G!parses(w1) /\ w2[p].config = G!Kept(w1) /\ w2[p].database = G!databaseUrl(w1)
  /\ w2[p].pc # "configured" /\ w1.APP_ENV # "development" /\ w1.OIDC_ISSUER # "none" =>
       w2[p].broker
  /\ w2[p].pc \in {"naming", "creating"} => w1.APP_ENV = "preview"
  /\ w2[p].pc \notin {"configured", "naming", "creating"} => w3[w2[p].database].there
  /\ w2[p].pc \in BootHolding => w4[w2[p].database] = p
  /\ w2[p].pc = "migrating" => w2[p].seen = w3[w2[p].database].migrated
  /\ w2[p].pc \in BootMigrated => w3[w2[p].database].migrated >= w2[p].image
  /\ w2[p].pc \in BootSeeded /\ w1.APP_ENV = "preview" => w3[w2[p].database].seeded
  /\ w2[p].media = IF w2[p].pc \in BootReady THEN G!createMediaDeps(w2[p].config) ELSE "off"

BootInv ==
  /\ w1 \in G!Configurations
  /\ BootTypes
  /\ w3["environment"].there
  /\ \A p \in Process : w2[p] # G!Off => BootStage(p)
  /\ G!MigratedOnce

LEMMA BootOff == G!Off \notin BootProcess /\ G!Off.pc = "off" /\ \A r \in BootProcess : r.pc # "off"
BY DEF G!Off, BootProcess, BootHolding, BootMigrated

LEMMA BootKept ==
  ASSUME NEW g \in G!Variables
  PROVE  /\ G!Kept(g) \in G!Variables
         /\ G!Kept(g).APP_ENV = g.APP_ENV /\ G!Kept(g).OIDC_ISSUER = g.OIDC_ISSUER
         /\ G!databaseUrl(g) \in G!Databases
         /\ G!databaseUrl(g) = "preview" <=> g.APP_ENV = "preview"
         /\ G!IsPreview(G!Kept(g)) = G!IsPreview(g) /\ G!Local(G!Kept(g)) = G!Local(g)
<1>1. G!Kept(g) \in G!Variables
  <2>1. CASE ~G!IsPreview(g)
    BY <2>1 DEF G!Kept
  <2>2. CASE G!IsPreview(g)
    <3>1. G!Kept(g) = [g EXCEPT !.CLOUDFRONT = "none", !.DB_APP = FALSE]
      BY <2>2 DEF G!Kept
    <3>2. [g EXCEPT !.CLOUDFRONT = "none"] \in G!Variables
      BY Zenon DEF G!Variables
    <3> QED BY <3>1, <3>2, Zenon DEF G!Variables
  <2> QED BY <2>1, <2>2
<1>2. G!Kept(g).APP_ENV = g.APP_ENV /\ G!Kept(g).OIDC_ISSUER = g.OIDC_ISSUER
  BY DEF G!Kept, G!Variables
<1>3. /\ G!databaseUrl(g) \in G!Databases
      /\ G!databaseUrl(g) = "preview" <=> g.APP_ENV = "preview"
  BY DEF G!databaseUrl, G!Databases, G!IsPreview
<1> QED BY <1>1, <1>2, <1>3 DEF G!IsPreview, G!Local

\* What the media come to: never presigned in a deployed environment, off in a preview.
LEMMA BootMedia ==
  ASSUME NEW g \in G!Variables, G!createMediaDeps(G!Kept(g)) # "throws"
  PROVE  /\ G!createMediaDeps(G!Kept(g)) \in {"off", "presigned", "cloudfront"}
         /\ g.APP_ENV # "development" => G!createMediaDeps(G!Kept(g)) # "presigned"
         /\ g.APP_ENV = "preview" => G!createMediaDeps(G!Kept(g)) = "off"
<1>1. G!Kept(g).CLOUDFRONT \in {"none", "half", "all"} /\ G!Kept(g).APP_ENV = g.APP_ENV
  BY BootKept DEF G!Variables
<1>2. g.APP_ENV = "preview" => G!Kept(g).CLOUDFRONT = "none"
  BY DEF G!Kept, G!Variables, G!IsPreview
<1>3. CASE G!Kept(g).CLOUDFRONT = "half"
  BY <1>3 DEF G!createMediaDeps
<1>4. CASE G!Kept(g).CLOUDFRONT = "all"
  BY <1>2, <1>4 DEF G!createMediaDeps
<1>5. CASE G!Kept(g).CLOUDFRONT = "none"
  BY <1>1, <1>5 DEF G!createMediaDeps, G!Local
<1> QED BY <1>1, <1>3, <1>4, <1>5

\* What is promised follows from the stages.
LEMMA BootPromises ==
  ASSUME BootInv PROVE G!ServesWhole /\ G!PreviewKeepsToItself
<1>1. ASSUME NEW p \in Process, w2[p].pc \in {"listening", "draining"}
      PROVE  /\ w3[w2[p].database].there /\ w3[w2[p].database].migrated >= w2[p].image
             /\ G!IsPreview(w1) => w3[w2[p].database].seeded
             /\ w1.APP_ENV \in G!Deployed =>
                  /\ w1.OIDC_ISSUER # "none" => w2[p].broker
                  /\ w2[p].media # "presigned" /\ w1.HETU_HMAC_KEY # "zeros"
             /\ w1.APP_ENV = "production" => w1.ADMIN_APP_URL = "https" /\ w1.CORS # "localhost"
  <2>1. BootStage(p)
    BY <1>1, BootOff DEF BootInv
  <2>2. /\ w3[w2[p].database].there /\ w3[w2[p].database].migrated >= w2[p].image
        /\ G!IsPreview(w1) => w3[w2[p].database].seeded
    BY <1>1, <2>1 DEF BootStage, BootMigrated, BootSeeded, G!IsPreview
  <2>3. w1.APP_ENV \in G!Deployed /\ w1.OIDC_ISSUER # "none" => w2[p].broker
    BY <1>1, <2>1 DEF BootStage, G!Deployed
  <2>4. w2[p].media = G!createMediaDeps(G!Kept(w1)) /\ w2[p].media # "throws"
    <3>1. w2[p] \in BootProcess
      BY <1>1, BootOff DEF BootInv, BootTypes
    <3> QED BY <1>1, <2>1, <3>1 DEF BootStage, BootReady, BootProcess
  <2>5. w1.APP_ENV \in G!Deployed => w2[p].media # "presigned" /\ w1.HETU_HMAC_KEY # "zeros"
    BY <2>1, <2>4, BootMedia DEF BootStage, G!parses, G!Local, G!Deployed, BootInv, BootTypes
  <2>6. w1.APP_ENV = "production" => w1.ADMIN_APP_URL = "https" /\ w1.CORS # "localhost"
    BY <2>1 DEF BootStage, G!parses, G!Plain
  <2> QED BY <2>2, <2>3, <2>5, <2>6
<1>2. ASSUME NEW p \in Process, w2[p].pc # "off"
      PROVE  /\ (w2[p].database = "preview") = G!IsPreview(w1)
             /\ G!IsPreview(w1) => w2[p].media = "off"
  <2>1. BootStage(p) /\ w2[p] \in BootProcess
    BY <1>2, BootOff DEF BootInv, BootTypes
  <2>2. (w2[p].database = "preview") = G!IsPreview(w1)
    <3>1. w2[p].database = IF G!IsPreview(w1) THEN "preview" ELSE "environment"
      BY <2>1 DEF BootStage, G!databaseUrl
    <3>2. G!IsPreview(w1) \in BOOLEAN
      BY DEF G!IsPreview
    <3>3. "preview" # "environment"
      OBVIOUS
    <3> QED BY <3>1, <3>2, <3>3
  <2>3. CASE w2[p].pc \in BootReady
    <3>1. w2[p].media = G!createMediaDeps(G!Kept(w1)) /\ w2[p].media # "throws"
      BY <2>1, <2>3 DEF BootStage, BootProcess
    <3> QED BY <2>2, <3>1, BootMedia DEF G!IsPreview, BootInv, BootTypes
  <2>4. CASE w2[p].pc \notin BootReady
    BY <2>1, <2>2, <2>4 DEF BootStage
  <2> QED BY <2>3, <2>4, <2>2
<1> QED BY <1>1, <1>2 DEF G!ServesWhole, G!PreviewKeepsToItself, G!At, G!Base

LEMMA BootInitInv == G!BootAssumption /\ G!Init => BootInv
<1> SUFFICES ASSUME G!BootAssumption, G!Init PROVE BootInv
  OBVIOUS
<1>1. w1 \in G!Configurations /\ w1 \in G!Variables
  BY DEF G!Init, G!Configurations
<1>2. BootTypes
  <2>1. w2 \in [Process -> {G!Off} \cup BootProcess]
    BY DEF G!Init
  <2>2. w3 \in [G!Databases -> [there : BOOLEAN, migrated : {0} \cup Images, seeded : BOOLEAN]]
    <3>1. /\ [there |-> TRUE, migrated |-> 0, seeded |-> FALSE]
               \in [there : BOOLEAN, migrated : {0} \cup Images, seeded : BOOLEAN]
          /\ [there |-> FALSE, migrated |-> 0, seeded |-> FALSE]
               \in [there : BOOLEAN, migrated : {0} \cup Images, seeded : BOOLEAN]
      OBVIOUS
    <3>2. w3 \in [G!Databases -> {[there |-> TRUE, migrated |-> 0, seeded |-> FALSE],
                                  [there |-> FALSE, migrated |-> 0, seeded |-> FALSE]}]
      BY DEF G!Init
    <3> QED BY <3>1, <3>2
  <2>3. w4 \in [G!Databases -> Process \cup {Absent}]
    BY DEF G!Init
  <2>4. w5 \in [G!Databases -> [G!Migrations -> Nat]]
    BY DEF G!Init
  <2>5. w6 \in 0..MaxBoots
    BY DEF G!Init, G!BootAssumption
  <2> QED BY <1>1, <2>1, <2>2, <2>3, <2>4, <2>5 DEF BootTypes
<1>3. G!MigratedOnce
  <2> SUFFICES ASSUME NEW d \in G!Databases, NEW m \in DOMAIN w5[d]
               PROVE  w5[d][m] = IF m <= w3[d].migrated THEN 1 ELSE 0
    BY DEF G!MigratedOnce
  <2>1. w3[d].migrated = 0 /\ m \in G!Migrations /\ w5[d][m] = 0
    BY DEF G!Init
  <2>2. m \in Nat \ {0}
    BY <2>1 DEF G!Migrations, G!BootAssumption
  <2> QED BY <2>1, <2>2
<1>4. \A p \in Process : w2[p] = G!Off
  BY DEF G!Init
<1>5. w3["environment"].there
  BY DEF G!Init
<1> QED BY <1>1, <1>2, <1>3, <1>4, <1>5 DEF BootInv

\* Numbers of migrations.
LEMMA BootNumbers ==
  ASSUME G!BootAssumption
  PROVE  /\ \A n \in {0} \cup Images : n \in Nat
         /\ \A n \in Images : n \in Nat \ {0}
         /\ \A r \in BootProcess : r.image \in Nat \ {0} /\ r.seen \in Nat /\ r.image \in Images
                                  /\ r.database \in G!Databases
         /\ \A f \in [G!Databases -> [there : BOOLEAN, migrated : {0} \cup Images, seeded : BOOLEAN]] :
              \A d \in G!Databases : f[d].migrated \in Nat
         /\ \A m \in G!Migrations : m \in Nat \ {0}
<1>1. \A n \in {0} \cup Images : n \in Nat
  BY DEF G!BootAssumption
<1>2. \A n \in Images : n \in Nat \ {0}
  BY DEF G!BootAssumption
<1>3. \A r \in BootProcess : r.image \in Images /\ r.seen \in {0} \cup Images /\ r.database \in G!Databases
  BY DEF BootProcess
<1>4. ASSUME NEW f \in [G!Databases -> [there : BOOLEAN, migrated : {0} \cup Images, seeded : BOOLEAN]],
             NEW d \in G!Databases
      PROVE  f[d].migrated \in {0} \cup Images
  OBVIOUS
<1>5. ASSUME NEW m \in G!Migrations PROVE m \in Nat \ {0}
  <2>1. PICK image \in Images : m \in 1..image
    BY Zenon DEF G!Migrations
  <2> QED BY <1>2, <2>1
<1> QED BY <1>1, <1>2, <1>3, <1>4, <1>5

\* A step of one process, that takes nothing from a database and leaves the holders of
\* the lock alone.
LEMMA BootStep ==
  ASSUME BootInv, NEW p \in Process, NEW r \in {G!Off} \cup BootProcess,
         w1' = w1, w2' = [w2 EXCEPT ![p] = r],
         w3' \in [G!Databases -> [there : BOOLEAN, migrated : {0} \cup Images, seeded : BOOLEAN]],
         w4' \in [G!Databases -> Process \cup {Absent}],
         w5' \in [G!Databases -> [G!Migrations -> Nat]],
         w6' \in 0..MaxBoots,
         \A d \in G!Databases : /\ w3[d].there => w3'[d].there
                                /\ w3[d].seeded => w3'[d].seeded
                                /\ w3'[d].migrated >= w3[d].migrated,
         \A q \in Process \ {p} : \A d \in G!Databases :
            w4[d] = q => w4'[d] = q /\ w3'[d].migrated = w3[d].migrated,
         G!MigratedOnce',
         r # G!Off => BootStage(p)',
         G!BootAssumption
  PROVE  BootInv'
<1>1. BootTypes'
  BY DEF BootTypes, BootInv
<1>2. (w1 \in G!Configurations)' /\ w3'["environment"].there
  <2>1. "environment" \in G!Databases
    BY DEF G!Databases
  <2> QED BY <2>1 DEF BootInv, G!Configurations, G!Faults, G!Right
<1>3. ASSUME NEW q \in Process, w2'[q] # G!Off PROVE BootStage(q)'
  <2>1. CASE q = p
    BY <1>3, <2>1 DEF BootInv, BootTypes
  <2>2. CASE q # p
    <3>1. w2'[q] = w2[q] /\ BootStage(q) /\ w2[q] \in BootProcess
      BY <1>3, <2>2 DEF BootInv, BootTypes
    <3> DEFINE d == w2[q].database
    <3>2. d \in G!Databases /\ w2[q].image \in Nat /\ w3[d].migrated \in Nat /\ w3'[d].migrated \in Nat
      BY <3>1, BootNumbers DEF BootInv, BootTypes
    <3>3. /\ w3[d].there => w3'[d].there
          /\ w3[d].seeded => w3'[d].seeded
          /\ w3'[d].migrated >= w3[d].migrated
      BY <3>2
    <3>4. w2[q].pc \in BootHolding => w4'[d] = q /\ w3'[d].migrated = w3[d].migrated
      BY <2>2, <3>1, <3>2 DEF BootStage
    <3>5. w2[q].pc \in BootMigrated => w3'[d].migrated >= w2[q].image
      BY <3>1, <3>2, <3>3 DEF BootStage
    <3>6. w2[q].pc = "migrating" => w2[q].seen = w3'[d].migrated
      BY <3>1, <3>4 DEF BootStage, BootHolding
    <3>7. (G!parses(w1))' /\ G!parses(w1)
      BY <3>1 DEF BootStage, G!parses, G!previewConfig, G!IsPreview, G!composeDatabaseUrl, G!Local, G!Plain
    <3>8. (G!Kept(w1))' = G!Kept(w1) /\ (G!databaseUrl(w1))' = G!databaseUrl(w1)
      BY DEF G!Kept, G!databaseUrl, G!IsPreview
    <3>9. (G!createMediaDeps(w2[q].config))' = G!createMediaDeps(w2[q].config)
      BY <3>1 DEF G!createMediaDeps, G!Local
    <3> QED BY <3>1, <3>3, <3>4, <3>5, <3>6, <3>7, <3>8, <3>9 DEF BootStage
  <2> QED BY <2>1, <2>2
<1> QED BY <1>1, <1>2, <1>3 DEF BootInv

\* One that only moves a process on.
LEMMA BootOnly ==
  ASSUME BootInv, G!BootAssumption, NEW p \in Process, NEW r \in {G!Off} \cup BootProcess,
         w2' = [w2 EXCEPT ![p] = r], UNCHANGED <<w1, w3, w4, w5>>, w6' \in 0..MaxBoots,
         r # G!Off => BootStage(p)'
  PROVE  BootInv'
<1>1. /\ w3' \in [G!Databases -> [there : BOOLEAN, migrated : {0} \cup Images, seeded : BOOLEAN]]
      /\ w4' \in [G!Databases -> Process \cup {Absent}]
      /\ w5' \in [G!Databases -> [G!Migrations -> Nat]]
  BY DEF BootInv, BootTypes
<1>2. \A d \in G!Databases : w3[d].migrated \in Nat
  BY BootNumbers DEF BootInv, BootTypes
<1>3. \A d \in G!Databases : /\ w3[d].there => w3'[d].there
                             /\ w3[d].seeded => w3'[d].seeded
                             /\ w3'[d].migrated >= w3[d].migrated
  BY <1>2
<1>4. G!MigratedOnce'
  BY DEF G!MigratedOnce, BootInv
<1>5. \A q \in Process \ {p} : \A d \in G!Databases :
        w4[d] = q => w4'[d] = q /\ w3'[d].migrated = w3[d].migrated
  OBVIOUS
<1> QED BY <1>1, <1>3, <1>4, <1>5, BootStep

\* What is known of a process that has begun.
LEMMA BootAt ==
  ASSUME BootInv, G!BootAssumption, NEW p \in Process, w2[p].pc # "off"
  PROVE  /\ w2[p] \in BootProcess /\ BootStage(p) /\ w2[p].database \in G!Databases
         /\ w2[p].image \in Nat \ {0} /\ w2[p].seen \in Nat /\ w2[p].image \in Images
         /\ w3[w2[p].database].migrated \in Nat
         /\ w1 \in G!Variables /\ w2 \in [Process -> {G!Off} \cup BootProcess]
<1>1. w2[p] \in BootProcess /\ BootStage(p)
  BY BootOff DEF BootInv, BootTypes
<1> QED BY <1>1, BootNumbers DEF BootInv, BootTypes

\* The stage of a process looks at its own progress and at its database.
LEMMA BootStageOf ==
  ASSUME NEW p \in Process, w1' = w1, BootInv, G!BootAssumption,
         NEW r \in BootProcess, w2'[p] = r,
         G!parses(w1), r.config = G!Kept(w1), r.database = G!databaseUrl(w1),
         r.pc # "configured" /\ w1.APP_ENV # "development" /\ w1.OIDC_ISSUER # "none" => r.broker,
         r.pc \in {"naming", "creating"} => w1.APP_ENV = "preview",
         r.pc \notin {"configured", "naming", "creating"} => w3'[r.database].there,
         r.pc \in BootHolding => w4'[r.database] = p,
         r.pc = "migrating" => r.seen = w3'[r.database].migrated,
         r.pc \in BootMigrated => w3'[r.database].migrated >= r.image,
         r.pc \in BootSeeded /\ w1.APP_ENV = "preview" => w3'[r.database].seeded,
         r.media = IF r.pc \in BootReady THEN G!createMediaDeps(r.config) ELSE "off"
  PROVE  BootStage(p)'
<1>1. (G!parses(w1))'
  BY DEF G!parses, G!previewConfig, G!IsPreview, G!composeDatabaseUrl, G!Local, G!Plain
<1>2. (G!Kept(w1))' = G!Kept(w1) /\ (G!databaseUrl(w1))' = G!databaseUrl(w1)
  BY DEF G!Kept, G!databaseUrl, G!IsPreview
<1>3. (G!createMediaDeps(w2[p].config))' = G!createMediaDeps(r.config)
  BY DEF G!createMediaDeps, G!Local
<1> QED BY <1>1, <1>2, <1>3 DEF BootStage

-----------------------------------------------------------------------------
(* Boot, step by step. *)

LEMMA BootStarts ==
  ASSUME BootInv, G!BootAssumption, NEW p \in Process, NEW image \in Images, G!Start(p, image)
  PROVE  BootInv'
<1>1. w2[p] = G!Off /\ UNCHANGED <<w1, w3, w4, w5>> /\ w6' \in 0..MaxBoots
  <2>1. w2[p] = G!Off
    BY BootOff DEF G!Start, G!At, BootInv, BootTypes
  <2>2. w6 \in 0..MaxBoots /\ MaxBoots \in Nat /\ w6 < MaxBoots /\ w6' = w6 + 1
    BY DEF G!Start, BootInv, BootTypes, G!BootAssumption
  <2> QED BY <2>1, <2>2 DEF G!Start
<1>2. CASE ~G!parses(w1)
  <2>1. w2' = [w2 EXCEPT ![p] = w2[p]]
    BY <1>2 DEF G!Start, BootInv, BootTypes
  <2> QED BY <1>1, <2>1, BootOnly
<1>3. CASE G!parses(w1)
  <2> DEFINE r == [pc |-> "configured", image |-> image, seen |-> 0, found |-> FALSE,
                   config |-> G!Kept(w1), database |-> G!databaseUrl(w1),
                   broker |-> FALSE, media |-> "off"]
  <2>1. w2' = [w2 EXCEPT ![p] = r] /\ w1' = w1
    BY <1>3 DEF G!Start
  <2>2. r \in BootProcess
    BY BootKept DEF BootProcess, BootInv, BootTypes
  <2>3. w2'[p] = r
    BY <2>1, <2>2 DEF BootInv, BootTypes
  <2>4. BootStage(p)'
    BY <1>3, <2>1, <2>2, <2>3, BootStageOf DEF BootHolding, BootMigrated, BootSeeded, BootReady
  <2> QED BY <1>1, <2>1, <2>2, <2>4, BootOnly
<1> QED BY <1>2, <1>3

LEMMA BootDiscovers ==
  ASSUME BootInv, G!BootAssumption, NEW p \in Process, NEW answers \in BOOLEAN,
         G!DiscoverBroker(p, answers)
  PROVE  BootInv'
<1> DEFINE config == w2[p].config
           works == answers /\ G!brokerOf(config)
           next == IF G!IsPreview(config) THEN "naming" ELSE "connected"
<1>1. w2[p].pc = "configured" /\ w2[p].pc # "off"
  BY DEF G!DiscoverBroker, G!At
<1>2. UNCHANGED <<w1, w3, w4, w5>> /\ w6' \in 0..MaxBoots
  BY DEF G!DiscoverBroker, G!Only, BootInv, BootTypes
<1>3. CASE ~(config.OIDC_ISSUER = "none" \/ works \/ G!Local(config))
  <2>1. w2' = [w2 EXCEPT ![p] = G!Off]
    BY <1>3 DEF G!DiscoverBroker, G!Only, G!Exit
  <2> QED BY <1>2, <2>1, BootOnly
<1>4. CASE config.OIDC_ISSUER = "none" \/ works \/ G!Local(config)
  <2> DEFINE broker == works /\ config.OIDC_ISSUER # "none"
             r == [w2[p] EXCEPT !.pc = next, !.broker = broker]
  <2>1. w2[p] \in BootProcess /\ BootStage(p) /\ w2 \in [Process -> {G!Off} \cup BootProcess]
        /\ w1 \in G!Variables
    BY <1>1, BootAt
  <2>2. w2' = [w2 EXCEPT ![p].pc = next, ![p].broker = broker]
    BY <1>4 DEF G!DiscoverBroker, G!Only
  <2>3. w2' = [w2 EXCEPT ![p] = r]
    BY <2>1, <2>2
  <2>4. broker \in BOOLEAN /\ next \in {"naming", "connected"}
    BY DEF G!brokerOf
  <2> HIDE DEF broker, next
  <2>5. r \in BootProcess /\ r.pc = next /\ r.broker = broker /\ r.config = config
        /\ r.database = w2[p].database /\ r.media = w2[p].media
    BY <2>1, <2>4 DEF BootProcess
  <2>6. w2'[p] = r
    BY <2>1, <2>3
  <2>7. config = G!Kept(w1) /\ w2[p].database = G!databaseUrl(w1) /\ G!parses(w1) /\ w2[p].media = "off"
    BY <1>1, <2>1 DEF BootStage, BootReady
  <2>8. w1.APP_ENV # "development" /\ w1.OIDC_ISSUER # "none" => broker
    BY <1>4, <2>1, <2>7, BootKept DEF broker, G!Local
  <2>9. next = "naming" => w1.APP_ENV = "preview"
    BY <2>1, <2>7, BootKept DEF next, G!IsPreview
  <2>10. next # "naming" => w3[w2[p].database].there
    <3>1. next # "naming" => w2[p].database = "environment"
      BY <2>1, <2>7, BootKept DEF next, G!IsPreview, G!Databases
    <3> QED BY <3>1 DEF BootInv
  <2> HIDE DEF r, config
  <2>11. BootStage(p)'
    BY <1>2, <2>4, <2>5, <2>6, <2>7, <2>8, <2>9, <2>10, BootStageOf
       DEF BootHolding, BootMigrated, BootSeeded, BootReady
  <2> QED BY <1>2, <2>3, <2>5, <2>11, BootOnly
<1> QED BY <1>3, <1>4

\* A move to another stage: what is new of it is what has to be shown.
LEMMA BootMoves ==
  ASSUME BootInv, G!BootAssumption, NEW p \in Process, w2[p].pc # "off", NEW to,
         to \in {"creating", "connected"} \cup BootHolding \cup BootMigrated,
         w2[p].pc # "configured", (w2[p].pc \in BootReady) = (to \in BootReady)
  PROVE  LET r == [w2[p] EXCEPT !.pc = to] IN
         /\ [w2 EXCEPT ![p].pc = to] = [w2 EXCEPT ![p] = r]
         /\ r \in BootProcess
         /\ r.pc = to /\ r.seen = w2[p].seen /\ r.image = w2[p].image /\ r.database = w2[p].database
         /\ r.config = G!Kept(w1) /\ r.database = G!databaseUrl(w1) /\ G!parses(w1)
         /\ r.broker = w2[p].broker
         /\ w1.APP_ENV # "development" /\ w1.OIDC_ISSUER # "none" => r.broker
         /\ r.media = IF to \in BootReady THEN G!createMediaDeps(r.config) ELSE "off"
<1> DEFINE r == [w2[p] EXCEPT !.pc = to]
<1>1. w2[p] \in BootProcess /\ BootStage(p) /\ w2 \in [Process -> {G!Off} \cup BootProcess]
  BY BootAt
<1>2. [w2 EXCEPT ![p].pc = to] = [w2 EXCEPT ![p] = r]
  BY <1>1
<1>3. /\ r \in BootProcess
      /\ r.pc = to /\ r.seen = w2[p].seen /\ r.image = w2[p].image /\ r.database = w2[p].database
      /\ r.broker = w2[p].broker /\ r.config = w2[p].config /\ r.media = w2[p].media
  BY <1>1 DEF BootProcess
<1> HIDE DEF r
<1>4. QED BY <1>1, <1>2, <1>3 DEF BootStage, r

LEMMA BootFinds ==
  ASSUME BootInv, G!BootAssumption, NEW p \in Process, G!FindPreview(p)
  PROVE  BootInv'
<1> DEFINE to == IF w3[w2[p].database].there THEN "connected" ELSE "creating"
           r == [w2[p] EXCEPT !.pc = to]
<1>1. w2[p].pc = "naming" /\ w2[p].pc # "off" /\ w2' = [w2 EXCEPT ![p].pc = to]
      /\ UNCHANGED <<w1, w3, w4, w5>> /\ w6' \in 0..MaxBoots
  BY DEF G!FindPreview, G!At, G!To, G!Only, G!Base, BootInv, BootTypes
<1>2. to \in {"creating", "connected"} /\ (to = "connected" => w3[w2[p].database].there)
      /\ to \notin BootReady /\ to \notin BootHolding /\ to \notin BootMigrated /\ to \notin BootSeeded
  BY DEF BootReady, BootHolding, BootMigrated, BootSeeded
<1>3. w2[p].pc \notin BootReady /\ w1.APP_ENV = "preview"
  BY <1>1, BootAt DEF BootReady, BootStage
<1> HIDE DEF to
<1>4. /\ w2' = [w2 EXCEPT ![p] = r]
      /\ r \in BootProcess
      /\ r.pc = to /\ r.database = w2[p].database
      /\ r.config = G!Kept(w1) /\ r.database = G!databaseUrl(w1) /\ G!parses(w1)
      /\ w1.APP_ENV # "development" /\ w1.OIDC_ISSUER # "none" => r.broker
      /\ r.media = IF to \in BootReady THEN G!createMediaDeps(r.config) ELSE "off"
  BY <1>1, <1>2, <1>3, BootMoves
<1> HIDE DEF r
<1>5. w2'[p] = r
  BY <1>1, <1>4, BootAt
<1>6. BootStage(p)'
  BY <1>1, <1>2, <1>3, <1>4, <1>5, BootStageOf
<1> QED BY <1>1, <1>4, <1>6, BootOnly

LEMMA BootCreates ==
  ASSUME BootInv, G!BootAssumption, NEW p \in Process, G!CreatePreview(p)
  PROVE  BootInv'
<1> DEFINE d == w2[p].database
           r == [w2[p] EXCEPT !.pc = "connected"]
<1>1. w2[p].pc = "creating" /\ w2[p].pc # "off" /\ w2' = [w2 EXCEPT ![p].pc = "connected"]
      /\ w3' = [w3 EXCEPT ![d].there = TRUE]
      /\ UNCHANGED <<w1, w4, w5, w6>>
  BY DEF G!CreatePreview, G!At, G!To, G!Base
<1>2. d \in G!Databases
  BY <1>1, BootAt
<1>3. "creating" \notin BootReady /\ "connected" \notin BootReady
      /\ "connected" \notin BootHolding /\ "connected" \notin BootMigrated /\ "connected" \notin BootSeeded
  BY DEF BootReady, BootHolding, BootMigrated, BootSeeded
<1>4. /\ w2' = [w2 EXCEPT ![p] = r]
      /\ r \in BootProcess
      /\ r.pc = "connected" /\ r.database = d
      /\ r.config = G!Kept(w1) /\ r.database = G!databaseUrl(w1) /\ G!parses(w1)
      /\ w1.APP_ENV # "development" /\ w1.OIDC_ISSUER # "none" => r.broker
      /\ r.media = "off"
  BY <1>1, <1>3, BootMoves
<1> HIDE DEF r, d
<1>5. /\ w3' \in [G!Databases -> [there : BOOLEAN, migrated : {0} \cup Images, seeded : BOOLEAN]]
      /\ \A e \in G!Databases : /\ w3'[e].there = (w3[e].there \/ e = d)
                                /\ w3'[e].seeded = w3[e].seeded /\ w3'[e].migrated = w3[e].migrated
  BY <1>1, <1>2 DEF BootInv, BootTypes
<1>6. w2'[p] = r
  BY <1>1, <1>4, BootAt
<1>7. BootStage(p)'
  BY <1>1, <1>2, <1>3, <1>4, <1>5, <1>6, BootStageOf
<1>8. G!MigratedOnce'
  BY <1>1, <1>5 DEF BootInv, G!MigratedOnce
<1>9. \A e \in G!Databases : w3[e].migrated \in Nat
  BY BootNumbers DEF BootInv, BootTypes
<1>10. \A e \in G!Databases : /\ w3[e].there => w3'[e].there
                              /\ w3[e].seeded => w3'[e].seeded
                              /\ w3'[e].migrated >= w3[e].migrated
  BY <1>5, <1>9
<1>11. /\ w4' \in [G!Databases -> Process \cup {Absent}] /\ w5' \in [G!Databases -> [G!Migrations -> Nat]]
       /\ w6' \in 0..MaxBoots
  BY <1>1 DEF BootInv, BootTypes
<1>12. \A q \in Process \ {p} : \A e \in G!Databases :
         w4[e] = q => w4'[e] = q /\ w3'[e].migrated = w3[e].migrated
  BY <1>1, <1>5
<1>13. r \in {G!Off} \cup BootProcess
  BY <1>4
<1>14. w1' = w1
  BY <1>1
<1> QED BY <1>4, <1>5, <1>7, <1>8, <1>10, <1>11, <1>12, <1>13, <1>14, BootStep

LEMMA BootLocks ==
  ASSUME BootInv, G!BootAssumption, NEW p \in Process, G!LockMigrations(p)
  PROVE  BootInv'
<1> DEFINE d == w2[p].database
           r == [w2[p] EXCEPT !.pc = "locked"]
<1>1. w2[p].pc = "connected" /\ w2[p].pc # "off" /\ w2' = [w2 EXCEPT ![p].pc = "locked"]
      /\ w4[d] = Absent /\ w4' = [w4 EXCEPT ![d] = p]
      /\ UNCHANGED <<w1, w3, w5, w6>>
  BY DEF G!LockMigrations, G!At, G!To, G!Base
<1>2. d \in G!Databases /\ w3[d].there
  BY <1>1, BootAt DEF BootStage
<1>3. "connected" \notin BootReady /\ "locked" \notin BootReady
      /\ "locked" \in BootHolding /\ "locked" \notin BootMigrated /\ "locked" \notin BootSeeded
  BY DEF BootReady, BootHolding, BootMigrated, BootSeeded
<1>4. /\ w2' = [w2 EXCEPT ![p] = r]
      /\ r \in BootProcess
      /\ r.pc = "locked" /\ r.database = d
      /\ r.config = G!Kept(w1) /\ r.database = G!databaseUrl(w1) /\ G!parses(w1)
      /\ w1.APP_ENV # "development" /\ w1.OIDC_ISSUER # "none" => r.broker
      /\ r.media = "off"
  BY <1>1, <1>3, BootMoves
<1> HIDE DEF r, d
<1>5. /\ w4' \in [G!Databases -> Process \cup {Absent}] /\ w5' \in [G!Databases -> [G!Migrations -> Nat]]
      /\ w3' \in [G!Databases -> [there : BOOLEAN, migrated : {0} \cup Images, seeded : BOOLEAN]]
      /\ w6' \in 0..MaxBoots /\ w4'[d] = p
  BY <1>1, <1>2 DEF BootInv, BootTypes
<1>6. w2'[p] = r
  BY <1>1, <1>4, BootAt
<1>7. BootStage(p)'
  BY <1>1, <1>2, <1>3, <1>4, <1>5, <1>6, BootStageOf
<1>8. G!MigratedOnce'
  BY <1>1 DEF BootInv, G!MigratedOnce
<1>9. \A e \in G!Databases : w3[e].migrated \in Nat
  BY BootNumbers DEF BootInv, BootTypes
<1>10. \A e \in G!Databases : /\ w3[e].there => w3'[e].there
                              /\ w3[e].seeded => w3'[e].seeded
                              /\ w3'[e].migrated >= w3[e].migrated
  BY <1>1, <1>9
<1>11. \A q \in Process \ {p} : \A e \in G!Databases :
         w4[e] = q => w4'[e] = q /\ w3'[e].migrated = w3[e].migrated
  <2>1. ASSUME NEW q \in Process \ {p}, NEW e \in G!Databases, w4[e] = q
        PROVE  w4'[e] = q
    <3>1. e # d
      BY <1>1, <2>1 DEF G!BootAssumption
    <3> QED BY <1>1, <2>1, <3>1 DEF BootInv, BootTypes
  <2> QED BY <1>1, <2>1
<1>12. r \in {G!Off} \cup BootProcess /\ w1' = w1
  BY <1>1, <1>4
<1> QED BY <1>4, <1>5, <1>7, <1>8, <1>10, <1>11, <1>12, BootStep

LEMMA BootReadsJournal ==
  ASSUME BootInv, G!BootAssumption, NEW p \in Process, G!ReadJournal(p)
  PROVE  BootInv'
<1> DEFINE d == w2[p].database
           r == [w2[p] EXCEPT !.pc = "migrating", !.seen = w3[d].migrated]
<1>1. w2[p].pc = "locked" /\ w2[p].pc # "off"
      /\ w2' = [w2 EXCEPT ![p].pc = "migrating", ![p].seen = w3[d].migrated]
      /\ UNCHANGED <<w1, w3, w4, w5>> /\ w6' \in 0..MaxBoots
  BY DEF G!ReadJournal, G!At, G!Only, G!Base, BootInv, BootTypes
<1>2. w2[p] \in BootProcess /\ BootStage(p) /\ w2 \in [Process -> {G!Off} \cup BootProcess] /\ d \in G!Databases
  BY <1>1, BootAt
<1>3. w3[d].migrated \in {0} \cup Images
  BY <1>2 DEF BootInv, BootTypes
<1>4. w2' = [w2 EXCEPT ![p] = r] /\ w2'[p] = r
  BY <1>1, <1>2
<1>5. /\ r \in BootProcess
      /\ r.pc = "migrating" /\ r.seen = w3[d].migrated /\ r.config = w2[p].config /\ r.database = d
      /\ r.broker = w2[p].broker /\ r.media = w2[p].media
  BY <1>2, <1>3 DEF BootProcess, BootHolding
<1> HIDE DEF r, d
<1>6. /\ "migrating" \notin BootReady /\ "migrating" \in BootHolding
      /\ "migrating" \notin BootMigrated /\ "migrating" \notin BootSeeded
      /\ "locked" \notin BootReady /\ "locked" \in BootHolding
  BY DEF BootReady, BootHolding, BootMigrated, BootSeeded
<1>7. w3[d].there /\ w4[d] = p
  BY <1>1, <1>2, <1>6 DEF BootStage, d
<1>8. /\ G!parses(w1) /\ r.config = G!Kept(w1) /\ r.database = G!databaseUrl(w1)
      /\ w1.APP_ENV # "development" /\ w1.OIDC_ISSUER # "none" => r.broker
      /\ r.media = "off"
  BY <1>1, <1>2, <1>5, <1>6 DEF BootStage, d
<1>9. BootStage(p)'
  <2>1. w1' = w1 /\ w3'[r.database].there /\ w4'[r.database] = p /\ r.seen = w3'[r.database].migrated
    BY <1>1, <1>5, <1>7
  <2> QED BY <1>4, <1>5, <1>6, <1>8, <2>1, BootStageOf
<1> QED BY <1>1, <1>4, <1>5, <1>9, BootOnly

\* The migrations that were missing, each applied once.
LEMMA BootApplies ==
  ASSUME BootInv, G!BootAssumption, NEW p \in Process, G!ApplyMigrations(p)
  PROVE  BootInv'
<1> DEFINE d == w2[p].database
           image == w2[p].image
           seen == w2[p].seen
           r == [w2[p] EXCEPT !.pc = "migrated"]
           missing == (seen + 1)..image
<1>1. w2[p].pc = "migrating" /\ w2[p].pc # "off" /\ w2' = [w2 EXCEPT ![p].pc = "migrated"]
      /\ w5' = [w5 EXCEPT ![d] = [m \in DOMAIN @ |-> IF m \in missing THEN @[m] + 1 ELSE @[m]]]
      /\ w3' = [w3 EXCEPT ![d].migrated = IF missing = {} THEN @ ELSE image]
      /\ UNCHANGED <<w1, w4, w6>>
  BY DEF G!ApplyMigrations, G!At, G!To, G!Base
<1>2. /\ d \in G!Databases /\ image \in Nat \ {0} /\ image \in Images /\ seen \in Nat /\ w3[d].migrated \in Nat
      /\ w3[d].there /\ w4[d] = p /\ seen = w3[d].migrated
  BY <1>1, BootAt DEF BootStage, BootHolding
<1>3. "migrating" \notin BootReady /\ "migrated" \notin BootReady
      /\ "migrated" \in BootHolding /\ "migrated" \in BootMigrated /\ "migrated" \notin BootSeeded
  BY DEF BootReady, BootHolding, BootMigrated, BootSeeded
<1>4. /\ w2' = [w2 EXCEPT ![p] = r]
      /\ r \in BootProcess
      /\ r.pc = "migrated" /\ r.database = d /\ r.image = image
      /\ r.config = G!Kept(w1) /\ r.database = G!databaseUrl(w1) /\ G!parses(w1)
      /\ w1.APP_ENV # "development" /\ w1.OIDC_ISSUER # "none" => r.broker
      /\ r.media = "off"
  BY <1>1, <1>3, BootMoves
<1>5. missing = {} <=> image <= seen
  BY <1>2
<1>6. missing = {} => w3[d].migrated \in {0} \cup Images
  BY <1>2 DEF BootInv, BootTypes
<1> HIDE DEF r, d, image, seen
<1>7. /\ w3' \in [G!Databases -> [there : BOOLEAN, migrated : {0} \cup Images, seeded : BOOLEAN]]
      /\ \A e \in G!Databases : /\ w3'[e].there = w3[e].there
                                /\ w3'[e].seeded = w3[e].seeded
                                /\ e # d => w3'[e].migrated = w3[e].migrated
      /\ w3'[d].migrated = IF missing = {} THEN w3[d].migrated ELSE image
  <2> HIDE DEF missing
  <2> QED BY <1>1, <1>2 DEF BootInv, BootTypes
<1>8. \A e \in G!Databases : w3[e].migrated \in Nat
  BY BootNumbers DEF BootInv, BootTypes
<1>9. w3'[d].migrated >= w3[d].migrated /\ w3'[d].migrated >= image
  BY <1>2, <1>5, <1>7
<1>10. \A e \in G!Databases : /\ w3[e].there => w3'[e].there
                              /\ w3[e].seeded => w3'[e].seeded
                              /\ w3'[e].migrated >= w3[e].migrated
  BY <1>7, <1>8, <1>9
<1>11. w2'[p] = r /\ w4'[d] = p
  BY <1>1, <1>2, <1>4, BootAt
<1>12. BootStage(p)'
  BY <1>1, <1>2, <1>3, <1>4, <1>7, <1>9, <1>11, BootStageOf
<1>13. /\ w5' \in [G!Databases -> [G!Migrations -> Nat]]
       /\ \A e \in G!Databases : e # d => w5'[e] = w5[e]
       /\ DOMAIN w5'[d] = DOMAIN w5[d] /\ DOMAIN w5[d] = G!Migrations
       /\ \A m \in G!Migrations : w5'[d][m] = IF m \in missing THEN w5[d][m] + 1 ELSE w5[d][m]
  <2> DEFINE row == [m \in DOMAIN w5[d] |-> IF m \in missing THEN w5[d][m] + 1 ELSE w5[d][m]]
  <2>1. w5 \in [G!Databases -> [G!Migrations -> Nat]] /\ w5[d] \in [G!Migrations -> Nat]
    BY <1>2 DEF BootInv, BootTypes
  <2>2. row \in [G!Migrations -> Nat]
    <3> HIDE DEF missing
    <3> QED BY <2>1
  <2>3. w5' = [w5 EXCEPT ![d] = row]
    BY <1>1
  <2>4. \A m \in G!Migrations : row[m] = IF m \in missing THEN w5[d][m] + 1 ELSE w5[d][m]
    BY <2>1
  <2> HIDE DEF row, missing
  <2> QED BY <1>2, <2>1, <2>2, <2>3, <2>4
<1>14. G!MigratedOnce'
  <2> SUFFICES ASSUME NEW e \in G!Databases, NEW m \in DOMAIN w5'[e]
               PROVE  w5'[e][m] = IF m <= w3'[e].migrated THEN 1 ELSE 0
    BY DEF G!MigratedOnce
  <2>1. m \in G!Migrations /\ m \in Nat \ {0}
    BY <1>13, BootNumbers
  <2>2. w5[e][m] = IF m <= w3[e].migrated THEN 1 ELSE 0
    BY <1>13, <2>1 DEF BootInv, BootTypes, G!MigratedOnce
  <2>3. CASE e # d
    BY <1>7, <1>13, <2>2, <2>3
  <2>4. CASE e = d
    BY <1>2, <1>5, <1>7, <1>13, <2>1, <2>2, <2>4
  <2> QED BY <2>3, <2>4
<1>15. w4' \in [G!Databases -> Process \cup {Absent}] /\ w6' \in 0..MaxBoots
  BY <1>1 DEF BootInv, BootTypes
<1>16. \A q \in Process \ {p} : \A e \in G!Databases :
         w4[e] = q => w4'[e] = q /\ w3'[e].migrated = w3[e].migrated
  BY <1>1, <1>2, <1>7
<1>17. r \in {G!Off} \cup BootProcess /\ w1' = w1
  BY <1>1, <1>4
<1> QED BY <1>4, <1>7, <1>10, <1>12, <1>13, <1>14, <1>15, <1>16, <1>17, BootStep

LEMMA BootUnlocks ==
  ASSUME BootInv, G!BootAssumption, NEW p \in Process, G!UnlockMigrations(p)
  PROVE  BootInv'
<1> DEFINE d == w2[p].database
           to == IF G!IsPreview(w2[p].config) THEN "seeding" ELSE "seeded"
           r == [w2[p] EXCEPT !.pc = to]
<1>1. w2[p].pc = "migrated" /\ w2[p].pc # "off" /\ w2' = [w2 EXCEPT ![p].pc = to]
      /\ w4' = [w4 EXCEPT ![d] = Absent]
      /\ UNCHANGED <<w1, w3, w5, w6>>
  BY DEF G!UnlockMigrations, G!At, G!To, G!Base
<1>2. /\ d \in G!Databases /\ w3[d].there /\ w4[d] = p /\ w3[d].migrated >= w2[p].image
      /\ w2[p].config = G!Kept(w1) /\ w1 \in G!Variables
  BY <1>1, BootAt DEF BootStage, BootHolding, BootMigrated
<1>3. /\ "migrated" \notin BootReady /\ to \notin BootReady /\ to \notin BootHolding
      /\ to \in BootMigrated /\ to \notin {"configured", "naming", "creating", "migrating"}
      /\ to \in BootSeeded => w1.APP_ENV # "preview"
  BY <1>2, BootKept DEF BootReady, BootHolding, BootMigrated, BootSeeded, G!IsPreview
<1> HIDE DEF to
<1>4. /\ w2' = [w2 EXCEPT ![p] = r]
      /\ r \in BootProcess
      /\ r.pc = to /\ r.database = d /\ r.image = w2[p].image
      /\ r.config = G!Kept(w1) /\ r.database = G!databaseUrl(w1) /\ G!parses(w1)
      /\ w1.APP_ENV # "development" /\ w1.OIDC_ISSUER # "none" => r.broker
      /\ r.media = "off"
  BY <1>1, <1>3, BootMoves
<1> HIDE DEF r, d
<1>5. /\ w4' \in [G!Databases -> Process \cup {Absent}] /\ w5' \in [G!Databases -> [G!Migrations -> Nat]]
      /\ w3' \in [G!Databases -> [there : BOOLEAN, migrated : {0} \cup Images, seeded : BOOLEAN]]
      /\ w6' \in 0..MaxBoots
  BY <1>1, <1>2 DEF BootInv, BootTypes
<1>6. w2'[p] = r
  BY <1>1, <1>4, BootAt
<1>7. BootStage(p)'
  BY <1>1, <1>2, <1>3, <1>4, <1>5, <1>6, BootStageOf
<1>8. G!MigratedOnce'
  BY <1>1 DEF BootInv, G!MigratedOnce
<1>9. \A e \in G!Databases : w3[e].migrated \in Nat
  BY BootNumbers DEF BootInv, BootTypes
<1>10. \A e \in G!Databases : /\ w3[e].there => w3'[e].there
                              /\ w3[e].seeded => w3'[e].seeded
                              /\ w3'[e].migrated >= w3[e].migrated
  BY <1>1, <1>9
<1>11. \A q \in Process \ {p} : \A e \in G!Databases :
         w4[e] = q => w4'[e] = q /\ w3'[e].migrated = w3[e].migrated
  <2>1. ASSUME NEW q \in Process \ {p}, NEW e \in G!Databases, w4[e] = q
        PROVE  w4'[e] = q
    BY <1>1, <1>2, <2>1 DEF BootInv, BootTypes
  <2> QED BY <1>1, <2>1
<1>12. r \in {G!Off} \cup BootProcess /\ w1' = w1
  BY <1>1, <1>4
<1> QED BY <1>4, <1>5, <1>7, <1>8, <1>10, <1>11, <1>12, BootStep

LEMMA BootSeeds ==
  ASSUME BootInv, G!BootAssumption, NEW p \in Process, G!SeedAccount(p)
  PROVE  BootInv'
<1> DEFINE d == w2[p].database
           found == w3[d].seeded
           r == [w2[p] EXCEPT !.pc = "inserting", !.found = found]
<1>1. w2[p].pc = "seeding" /\ w2[p].pc # "off"
      /\ w2' = [w2 EXCEPT ![p].pc = "inserting", ![p].found = found]
      /\ UNCHANGED <<w1, w3, w4, w5>> /\ w6' \in 0..MaxBoots
  BY DEF G!SeedAccount, G!At, G!Only, G!Base, BootInv, BootTypes
<1>2. w2[p] \in BootProcess /\ BootStage(p) /\ w2 \in [Process -> {G!Off} \cup BootProcess] /\ d \in G!Databases
  BY <1>1, BootAt
<1>3. found \in BOOLEAN
  BY <1>2 DEF BootInv, BootTypes
<1> HIDE DEF found
<1>4. w2' = [w2 EXCEPT ![p] = r] /\ w2'[p] = r
  BY <1>1, <1>2
<1>5. /\ r \in BootProcess
      /\ r.pc = "inserting" /\ r.config = w2[p].config /\ r.database = d /\ r.image = w2[p].image
      /\ r.broker = w2[p].broker /\ r.media = w2[p].media
  BY <1>2, <1>3 DEF BootProcess, BootMigrated
<1> HIDE DEF r, d
<1>6. /\ "inserting" \notin BootReady /\ "inserting" \notin BootHolding
      /\ "inserting" \in BootMigrated /\ "inserting" \notin BootSeeded
      /\ "seeding" \notin BootReady /\ "seeding" \in BootMigrated
  BY DEF BootReady, BootHolding, BootMigrated, BootSeeded
<1>7. w3[d].there /\ w3[d].migrated >= w2[p].image
  BY <1>1, <1>2, <1>6 DEF BootStage, d
<1>8. /\ G!parses(w1) /\ r.config = G!Kept(w1) /\ r.database = G!databaseUrl(w1)
      /\ w1.APP_ENV # "development" /\ w1.OIDC_ISSUER # "none" => r.broker
      /\ r.media = "off"
  BY <1>1, <1>2, <1>5, <1>6 DEF BootStage, d
<1>9. BootStage(p)'
  <2>1. w1' = w1 /\ w3'[r.database].there /\ w3'[r.database].migrated >= r.image
    BY <1>1, <1>5, <1>7
  <2> QED BY <1>4, <1>5, <1>6, <1>8, <2>1, BootStageOf
<1> QED BY <1>1, <1>4, <1>5, <1>9, BootOnly

LEMMA BootInserts ==
  ASSUME BootInv, G!BootAssumption, NEW p \in Process, G!InsertSeeded(p)
  PROVE  BootInv'
<1> DEFINE d == w2[p].database
           r == [w2[p] EXCEPT !.pc = "seeded"]
<1>1. w2[p].pc = "inserting" /\ w2[p].pc # "off" /\ UNCHANGED <<w1, w4, w5, w6>>
  BY DEF G!InsertSeeded, G!At
<1>2. CASE ~w2[p].found /\ w3[d].seeded
  <2>1. w2' = [w2 EXCEPT ![p] = G!Off] /\ UNCHANGED <<w1, w3, w4, w5>> /\ w6' \in 0..MaxBoots
    BY <1>2 DEF G!InsertSeeded, G!Exit, G!Base, BootInv, BootTypes
  <2> QED BY <2>1, BootOnly
<1>3. CASE ~(~w2[p].found /\ w3[d].seeded)
  <2>1. w2' = [w2 EXCEPT ![p].pc = "seeded"] /\ w3' = [w3 EXCEPT ![d].seeded = TRUE]
    BY <1>3 DEF G!InsertSeeded, G!To, G!Base
  <2>2. d \in G!Databases /\ w3[d].there /\ w3[d].migrated >= w2[p].image
    BY <1>1, BootAt DEF BootStage, BootHolding, BootMigrated
  <2>3. "inserting" \notin BootReady /\ "seeded" \notin BootReady
        /\ "seeded" \notin BootHolding /\ "seeded" \in BootMigrated /\ "seeded" \in BootSeeded
    BY DEF BootReady, BootHolding, BootMigrated, BootSeeded
  <2>4. /\ w2' = [w2 EXCEPT ![p] = r]
        /\ r \in BootProcess
        /\ r.pc = "seeded" /\ r.database = d /\ r.image = w2[p].image
        /\ r.config = G!Kept(w1) /\ r.database = G!databaseUrl(w1) /\ G!parses(w1)
        /\ w1.APP_ENV # "development" /\ w1.OIDC_ISSUER # "none" => r.broker
        /\ r.media = "off"
    BY <1>1, <2>1, <2>3, BootMoves
  <2> HIDE DEF r, d
  <2>5. /\ w3' \in [G!Databases -> [there : BOOLEAN, migrated : {0} \cup Images, seeded : BOOLEAN]]
        /\ \A e \in G!Databases : /\ w3'[e].there = w3[e].there
                                  /\ w3'[e].seeded = (w3[e].seeded \/ e = d)
                                  /\ w3'[e].migrated = w3[e].migrated
    BY <2>1, <2>2 DEF BootInv, BootTypes
  <2>6. w2'[p] = r /\ w1' = w1 /\ r \in {G!Off} \cup BootProcess
    BY <1>1, <2>4, BootAt
  <2>7. BootStage(p)'
    <3>1. w3'[r.database].there /\ w3'[r.database].migrated >= r.image /\ w3'[r.database].seeded
      BY <2>2, <2>4, <2>5
    <3> QED BY <2>3, <2>4, <2>6, <3>1, BootStageOf
  <2>8. G!MigratedOnce'
    BY <1>1, <2>5 DEF BootInv, G!MigratedOnce
  <2>9. \A e \in G!Databases : w3[e].migrated \in Nat
    BY BootNumbers DEF BootInv, BootTypes
  <2>10. \A e \in G!Databases : /\ w3[e].there => w3'[e].there
                                /\ w3[e].seeded => w3'[e].seeded
                                /\ w3'[e].migrated >= w3[e].migrated
    BY <2>5, <2>9
  <2>11. /\ w4' \in [G!Databases -> Process \cup {Absent}] /\ w5' \in [G!Databases -> [G!Migrations -> Nat]]
         /\ w6' \in 0..MaxBoots
    BY <1>1 DEF BootInv, BootTypes
  <2>12. \A q \in Process \ {p} : \A e \in G!Databases :
           w4[e] = q => w4'[e] = q /\ w3'[e].migrated = w3[e].migrated
    BY <1>1, <2>5
  <2> QED BY <2>4, <2>5, <2>6, <2>7, <2>8, <2>10, <2>11, <2>12, BootStep
<1> QED BY <1>2, <1>3

LEMMA BootSetsUpMedia ==
  ASSUME BootInv, G!BootAssumption, NEW p \in Process, G!SetUpMedia(p)
  PROVE  BootInv'
<1> DEFINE d == w2[p].database
           mode == G!createMediaDeps(w2[p].config)
           r == [w2[p] EXCEPT !.pc = "ready", !.media = mode]
<1>1. w2[p].pc = "seeded" /\ w2[p].pc # "off" /\ UNCHANGED <<w1, w3, w4, w5>> /\ w6' \in 0..MaxBoots
  BY DEF G!SetUpMedia, G!At, G!Only, BootInv, BootTypes
<1>2. CASE mode = "throws"
  <2>1. w2' = [w2 EXCEPT ![p] = G!Off]
    BY <1>2 DEF G!SetUpMedia, G!Only, G!Exit
  <2> QED BY <1>1, <2>1, BootOnly
<1>3. CASE mode # "throws"
  <2>1. w2[p] \in BootProcess /\ BootStage(p) /\ w2 \in [Process -> {G!Off} \cup BootProcess]
        /\ w1 \in G!Variables
    BY <1>1, BootAt
  <2>2. mode \in {"off", "presigned", "cloudfront"}
    BY <1>3, <2>1, BootMedia DEF BootStage
  <2>3. w2' = [w2 EXCEPT ![p].pc = "ready", ![p].media = mode]
    BY <1>3 DEF G!SetUpMedia, G!Only
  <2> HIDE DEF mode
  <2>4. w2' = [w2 EXCEPT ![p] = r] /\ w2'[p] = r
    BY <2>1, <2>3
  <2>5. /\ r \in BootProcess
        /\ r.pc = "ready" /\ r.config = w2[p].config /\ r.database = d /\ r.image = w2[p].image
        /\ r.broker = w2[p].broker /\ r.media = mode
    BY <2>1, <2>2 DEF BootProcess, BootMigrated
  <2> HIDE DEF r, d
  <2>6. /\ "ready" \in BootReady /\ "ready" \notin BootHolding
        /\ "ready" \in BootMigrated /\ "ready" \in BootSeeded
        /\ "seeded" \in BootSeeded /\ "seeded" \in BootMigrated
    BY DEF BootReady, BootHolding, BootMigrated, BootSeeded
  <2>7. /\ w3[d].there /\ w3[d].migrated >= w2[p].image
        /\ w1.APP_ENV = "preview" => w3[d].seeded
    BY <1>1, <2>1, <2>6 DEF BootStage, d
  <2>8. /\ G!parses(w1) /\ r.config = G!Kept(w1) /\ r.database = G!databaseUrl(w1)
        /\ w1.APP_ENV # "development" /\ w1.OIDC_ISSUER # "none" => r.broker
        /\ r.media = G!createMediaDeps(r.config)
    BY <1>1, <2>1, <2>5 DEF BootStage, d, mode
  <2>9. BootStage(p)'
    <3>1. /\ w1' = w1 /\ w3'[r.database].there /\ w3'[r.database].migrated >= r.image
          /\ w1.APP_ENV = "preview" => w3'[r.database].seeded
      BY <1>1, <2>5, <2>7
    <3> QED BY <2>4, <2>5, <2>6, <2>8, <3>1, BootStageOf
  <2> QED BY <1>1, <2>4, <2>5, <2>9, BootOnly
<1> QED BY <1>2, <1>3

\* The last two moves, to listening and to draining.
LEMMA BootGoesOn ==
  ASSUME BootInv, G!BootAssumption, NEW p \in Process, w2[p].pc \in {"ready", "listening"},
         NEW to \in {"listening", "draining"}, w2' = [w2 EXCEPT ![p].pc = to],
         UNCHANGED <<w1, w3, w4, w5>>, w6' \in 0..MaxBoots
  PROVE  BootInv'
<1> DEFINE r == [w2[p] EXCEPT !.pc = to]
           d == w2[p].database
<1>1. /\ w2[p].pc \in BootReady /\ w2[p].pc \in BootSeeded /\ w2[p].pc \in BootMigrated
      /\ to \in BootReady /\ to \in BootSeeded /\ to \in BootMigrated /\ to \notin BootHolding
      /\ w2[p].pc # "off"
  BY DEF BootReady, BootHolding, BootMigrated, BootSeeded
<1>2. /\ w2' = [w2 EXCEPT ![p] = r]
      /\ r \in BootProcess
      /\ r.pc = to /\ r.database = d /\ r.image = w2[p].image
      /\ r.config = G!Kept(w1) /\ r.database = G!databaseUrl(w1) /\ G!parses(w1)
      /\ w1.APP_ENV # "development" /\ w1.OIDC_ISSUER # "none" => r.broker
      /\ r.media = G!createMediaDeps(r.config)
  BY <1>1, BootMoves
<1>3. /\ w3[d].there /\ w3[d].migrated >= w2[p].image
      /\ w1.APP_ENV = "preview" => w3[d].seeded
  BY <1>1, BootAt DEF BootStage
<1> HIDE DEF r, d
<1>4. /\ w1' = w1 /\ w3'[r.database].there /\ w3'[r.database].migrated >= r.image
      /\ w1.APP_ENV = "preview" => w3'[r.database].seeded
  BY <1>2, <1>3
<1>5. w2'[p] = r
  BY <1>1, <1>2, BootAt
<1>6. BootStage(p)'
  BY <1>1, <1>2, <1>4, <1>5, BootStageOf
<1> QED BY <1>2, <1>6, BootOnly

LEMMA BootListens ==
  ASSUME BootInv, G!BootAssumption, NEW p \in Process, G!Listen(p) \/ G!Drain(p)
  PROVE  BootInv'
<1>1. UNCHANGED <<w1, w3, w4, w5>> /\ w6' \in 0..MaxBoots
  BY DEF G!Listen, G!Drain, G!Only, BootInv, BootTypes
<1>2. CASE w2' = [w2 EXCEPT ![p] = G!Off]
  BY <1>1, <1>2, BootOnly
<1>3. CASE w2' # [w2 EXCEPT ![p] = G!Off]
  <2>1. w2[p].pc \in {"ready", "listening"}
    BY DEF G!Listen, G!Drain, G!At
  <2>2. PICK to \in {"listening", "draining"} : w2' = [w2 EXCEPT ![p].pc = to]
    BY <1>3 DEF G!Listen, G!Drain, G!Only, G!Exit, G!To
  <2> QED BY <1>1, <2>1, <2>2, BootGoesOn
<1> QED BY <1>2, <1>3

\* The end of a process gives its lock back, and nobody else's.
LEMMA BootDies ==
  ASSUME BootInv, G!BootAssumption, NEW p \in Process, G!Die(p)
  PROVE  BootInv'
<1>1. w2' = [w2 EXCEPT ![p] = G!Off] /\ UNCHANGED <<w1, w3, w5, w6>>
      /\ w4' = [d \in G!Databases |-> IF w4[d] = p THEN Absent ELSE w4[d]]
  BY DEF G!Die, G!Exit
<1>2. /\ w4' \in [G!Databases -> Process \cup {Absent}] /\ w5' \in [G!Databases -> [G!Migrations -> Nat]]
      /\ w3' \in [G!Databases -> [there : BOOLEAN, migrated : {0} \cup Images, seeded : BOOLEAN]]
      /\ w6' \in 0..MaxBoots
  BY <1>1 DEF BootInv, BootTypes
<1>3. G!MigratedOnce'
  BY <1>1 DEF BootInv, G!MigratedOnce
<1>4. \A e \in G!Databases : w3[e].migrated \in Nat
  BY BootNumbers DEF BootInv, BootTypes
<1>5. \A e \in G!Databases : /\ w3[e].there => w3'[e].there
                             /\ w3[e].seeded => w3'[e].seeded
                             /\ w3'[e].migrated >= w3[e].migrated
  BY <1>1, <1>4
<1>6. \A q \in Process \ {p} : \A e \in G!Databases :
         w4[e] = q => w4'[e] = q /\ w3'[e].migrated = w3[e].migrated
  BY <1>1
<1>7. w1' = w1
  BY <1>1
<1> QED BY <1>1, <1>2, <1>3, <1>5, <1>6, <1>7, BootStep

LEMMA BootNextInv == G!BootAssumption /\ BootInv /\ [G!Next]_(G!vars) => BootInv'
<1> SUFFICES ASSUME G!BootAssumption, BootInv, [G!Next]_(G!vars) PROVE BootInv'
  OBVIOUS
<1>1. ASSUME NEW p \in Process, NEW image \in Images, G!Start(p, image) PROVE BootInv'
  BY <1>1, BootStarts
<1>2. ASSUME NEW p \in Process, NEW answers \in BOOLEAN, G!DiscoverBroker(p, answers) PROVE BootInv'
  BY <1>2, BootDiscovers
<1>3. ASSUME NEW p \in Process, G!FindPreview(p) \/ G!CreatePreview(p) PROVE BootInv'
  BY <1>3, BootFinds, BootCreates
<1>4. ASSUME NEW p \in Process, G!LockMigrations(p) \/ G!ReadJournal(p) PROVE BootInv'
  BY <1>4, BootLocks, BootReadsJournal
<1>5. ASSUME NEW p \in Process, G!ApplyMigrations(p) \/ G!UnlockMigrations(p) PROVE BootInv'
  BY <1>5, BootApplies, BootUnlocks
<1>6. ASSUME NEW p \in Process, G!SeedAccount(p) \/ G!InsertSeeded(p) PROVE BootInv'
  BY <1>6, BootSeeds, BootInserts
<1>7. ASSUME NEW p \in Process, G!SetUpMedia(p) \/ G!Listen(p) \/ G!Drain(p) \/ G!Die(p) PROVE BootInv'
  BY <1>7, BootSetsUpMedia, BootListens, BootDies
<1>8. CASE UNCHANGED G!vars
  <2>1. UNCHANGED <<w1, w2, w3, w4, w5, w6>>
    BY <1>8 DEF G!vars
  <2>2. BootTypes'
    BY <2>1 DEF BootInv, BootTypes
  <2>3. G!MigratedOnce' /\ w3'["environment"].there /\ (w1 \in G!Configurations)'
    BY <2>1 DEF BootInv, G!MigratedOnce, G!Configurations, G!Faults, G!Right
  <2>4. ASSUME NEW p \in Process, w2'[p] # G!Off PROVE BootStage(p)'
    <3>1. BootStage(p)
      BY <2>1, <2>4 DEF BootInv
    <3> QED BY <2>1, <3>1 DEF BootStage, G!parses, G!previewConfig, G!IsPreview, G!composeDatabaseUrl,
               G!Local, G!Plain, G!Kept, G!databaseUrl, G!createMediaDeps
  <2> QED BY <2>2, <2>3, <2>4 DEF BootInv
<1> QED BY <1>1, <1>2, <1>3, <1>4, <1>5, <1>6, <1>7, <1>8, Zenon DEF G!Next

LEMMA BootTypeOK == BootInv => G!TypeOK
<1> SUFFICES ASSUME BootInv PROVE G!TypeOK
  OBVIOUS
<1>1. ASSUME NEW p \in Process, w2[p].pc # "off"
      PROVE  /\ w2[p].pc \in {"configured", "naming", "creating", "connected", "locked", "migrating", "migrated",
                              "seeding", "inserting", "seeded", "ready", "listening", "draining"}
             /\ w2[p].image \in Images /\ w2[p].seen \in {0} \cup Images /\ w2[p].found \in BOOLEAN
             /\ w2[p].database \in G!Databases /\ w2[p].broker \in BOOLEAN
             /\ w2[p].media \in {"off", "presigned", "cloudfront"}
  <2>1. w2[p] \in BootProcess
    BY <1>1, BootOff DEF BootInv, BootTypes
  <2> QED BY <2>1 DEF BootProcess, BootHolding, BootMigrated
<1>2. \A d \in G!Databases : /\ w3[d].there \in BOOLEAN /\ w3[d].seeded \in BOOLEAN
                             /\ w3[d].migrated \in {0} \cup Images
  BY DEF BootInv, BootTypes
<1> QED BY <1>1, <1>2 DEF G!TypeOK, G!At, BootInv, BootTypes

-----------------------------------------------------------------------------
(* The nights.  A timer is never behind and fires between three and five   *)
(* by the wall clock; what an armed timer stands for is a fresh process, a *)
(* failure of the last day, or a night whose jobs were done.               *)

LEMMA NightLocal ==
  ASSUME N!NightlyAssumption, NEW t \in Int
  PROVE  /\ N!Local(t) \in Int /\ (N!Local(t) = t + 2 \/ N!Local(t) = t + 3)
         /\ N!finnishDay(t) \in Int /\ N!LocalHour(t) \in 0 .. 23
         /\ N!Local(t) = 24 * N!finnishDay(t) + N!LocalHour(t)
<1>1. N!Local(t) \in Int /\ (N!Local(t) = t + 2 \/ N!Local(t) = t + 3)
  BY DEF N!Local, N!NightlyAssumption
<1>2. ASSUME NEW u \in Int PROVE u \div 24 \in Int /\ u % 24 \in 0 .. 23 /\ u = 24 * (u \div 24) + (u % 24)
  OBVIOUS
<1> QED BY <1>1, <1>2 DEF N!finnishDay, N!LocalHour

LEMMA NightArms ==
  ASSUME N!NightlyAssumption, NEW t \in Int
  PROVE  /\ N!msUntilNightly(t) \in 1 .. 24
         /\ N!LocalHour(t + N!msUntilNightly(t)) \in 3 .. 5
<1> DEFINE ms == N!msUntilNightly(t)
<1>1. N!LocalHour(t) \in 0 .. 23 /\ N!Local(t) = 24 * N!finnishDay(t) + N!LocalHour(t) /\ N!finnishDay(t) \in Int
      /\ N!Local(t) \in Int /\ (N!Local(t) = t + 2 \/ N!Local(t) = t + 3)
  BY NightLocal
<1>2. ms \in 1 .. 24 /\ (ms = 4 - N!LocalHour(t) \/ ms = 28 - N!LocalHour(t))
  BY <1>1 DEF N!msUntilNightly, N!NIGHTLY_HOUR
<1> HIDE DEF ms
<1>3. t + ms \in Int
  BY <1>2
<1>4. /\ N!LocalHour(t + ms) \in 0 .. 23 /\ N!Local(t + ms) = 24 * N!finnishDay(t + ms) + N!LocalHour(t + ms)
      /\ N!finnishDay(t + ms) \in Int /\ N!Local(t + ms) \in Int
      /\ (N!Local(t + ms) = t + ms + 2 \/ N!Local(t + ms) = t + ms + 3)
  BY <1>3, NightLocal
<1>5. N!LocalHour(t + ms) \in 3 .. 5
  <2> DEFINE k == N!finnishDay(t + ms) - N!finnishDay(t)
             h == N!LocalHour(t + ms)
  <2>1. k \in Int /\ h \in 0 .. 23
    BY <1>1, <1>4
  <2>2. 24 * k + h = N!Local(t + ms) - 24 * N!finnishDay(t)
    BY <1>1, <1>4
  <2>3. N!Local(t + ms) - 24 * N!finnishDay(t) \in 3 .. 5 \cup 27 .. 29
    BY <1>1, <1>2, <1>4
  <2> HIDE DEF k, h
  <2>4. 24 * k + h \in 3 .. 5 \cup 27 .. 29
    BY <2>2, <2>3
  <2>5. h \in 3 .. 5
    BY <2>1, <2>4
  <2> QED BY <2>5 DEF h
<1> QED BY <1>2, <1>5 DEF ms

\* Midnight on a day is where the wall clock begins the day.
LEMMA NightMidnight ==
  ASSUME N!NightlyAssumption, NEW d \in Int
  PROVE  /\ N!zonedMidnight(d) \in Int /\ N!Local(N!zonedMidnight(d)) = 24 * d
         /\ N!Local(N!zonedMidnight(d) - 1) = 24 * d - 1
<1>1. PICK a \in Int, b \in Int : SpringAt = 24 * a + 1 /\ AutumnAt = 24 * b + 1
  <2>1. SpringAt = 24 * (SpringAt \div 24) + 1 /\ AutumnAt = 24 * (AutumnAt \div 24) + 1
        /\ SpringAt \div 24 \in Int /\ AutumnAt \div 24 \in Int
    BY DEF N!NightlyAssumption
  <2> QED BY <2>1
<1>2. ASSUME NEW t \in {24 * d - 4, 24 * d - 3, 24 * d - 2}
      PROVE  N!Local(t) = t + IF a < d /\ d <= b THEN 3 ELSE 2
  BY <1>1, <1>2 DEF N!Local
<1>3. ASSUME NEW t \in Int, t = 24 * d PROVE N!Local(t) = t + 2 \/ N!Local(t) = t + 3
  BY <1>3, NightLocal
<1> DEFINE off == IF a < d /\ d <= b THEN 3 ELSE 2
<1>4. N!zonedMidnight(d) = 24 * d - off
  <2> DEFINE wanted == 24 * d
             first == wanted + (wanted - N!Local(wanted))
  <2>1. N!Local(wanted) = wanted + 2 \/ N!Local(wanted) = wanted + 3
    BY <1>3
  <2>2. wanted \in Int
    OBVIOUS
  <2>3. first = wanted - 2 \/ first = wanted - 3
    BY <2>1, <2>2
  <2>4. first \in Int /\ N!Local(first) = first + off
    BY <1>2, <2>2, <2>3
  <2>5. N!zonedMidnight(d) = first + (wanted - N!Local(first))
    BY DEF N!zonedMidnight, N!HoursOf
  <2> HIDE DEF first, wanted, off
  <2>6. off \in {2, 3}
    BY DEF off
  <2> QED BY <2>2, <2>4, <2>5, <2>6 DEF wanted
<1> QED BY <1>2, <1>4

LEMMA NightWindow ==
  ASSUME N!NightlyAssumption, w1 \in Nat
  PROVE  N!WindowIsTheDay
<1> DEFINE d == N!finnishDay(w1)
           s == N!zonedMidnight(d)
           e == N!zonedMidnight(d + 1)
<1>1. /\ d \in Int /\ N!LocalHour(w1) \in 0 .. 23 /\ N!Local(w1) = 24 * d + N!LocalHour(w1)
      /\ (N!Local(w1) = w1 + 2 \/ N!Local(w1) = w1 + 3)
  BY NightLocal
<1>2. s \in Int /\ N!Local(s) = 24 * d /\ N!Local(s - 1) = 24 * d - 1
  BY <1>1, NightMidnight
<1>3. d + 1 \in Int
  BY <1>1
<1>4. e \in Int /\ N!Local(e) = 24 * (d + 1) /\ N!Local(e - 1) = 24 * (d + 1) - 1
  BY <1>3, NightMidnight
<1> HIDE DEF d, s, e
<1>5. s - 1 \in Int /\ e - 1 \in Int
  BY <1>2, <1>4
<1>6. (N!Local(s - 1) = s - 1 + 2 \/ N!Local(s - 1) = s - 1 + 3) /\ (N!Local(e) = e + 2 \/ N!Local(e) = e + 3)
  BY <1>4, <1>5, NightLocal
<1>7. s <= w1 \/ w1 = s - 1 \/ w1 < s - 1
  BY <1>2
<1>8. s <= w1
  BY <1>1, <1>2, <1>6, <1>7
<1>9. w1 < e
  <2>1. w1 = e \/ w1 > e \/ w1 < e
    BY <1>4
  <2> QED BY <1>1, <1>4, <1>6, <2>1
<1> QED BY <1>2, <1>4, <1>8, <1>9 DEF N!WindowIsTheDay, N!dayWindow, N!HoursOf, d, s, e

LEMMA NightMonth ==
  ASSUME N!NightlyAssumption, NEW t \in Nat
  PROVE  /\ N!Month(t) \in Nat /\ N!MonthStart(N!Month(t)) \in Nat
         /\ N!MonthStart(N!Month(t)) <= t /\ t < N!MonthStart(N!Month(t)) + 24 * MonthDays
<1> DEFINE H == 24 * MonthDays
<1>1. H \in Nat /\ H > 0
  BY DEF N!NightlyAssumption
<1>2. N!Month(t) = t \div H /\ \A m : N!MonthStart(m) = m * H
  BY DEF N!Month, N!MonthStart, N!HoursOf
<1> HIDE DEF H
<1>3. t \div H \in Int /\ H * (t \div H) <= t /\ t < H * (t \div H) + H
  BY <1>1
<1>4. t \div H \in Nat
  BY <1>1, <1>3
<1>5. (t \div H) * H = H * (t \div H) /\ (t \div H) * H \in Nat
  BY <1>1, <1>4
<1> QED BY <1>2, <1>3, <1>4, <1>5 DEF H

LEMMA NightMonths ==
  ASSUME N!NightlyAssumption, NEW m \in Nat
  PROVE  N!MonthStart(m) \in Nat /\ N!MonthStart(m + 1) = N!MonthStart(m) + 24 * MonthDays
BY DEF N!NightlyAssumption, N!MonthStart, N!HoursOf

\* The month of the next hour is the same, or the next, which begins then.
LEMMA NightNextMonth ==
  ASSUME N!NightlyAssumption, NEW t \in Nat
  PROVE  \/ N!Month(t + 1) = N!Month(t)
         \/ N!Month(t + 1) = N!Month(t) + 1 /\ N!MonthStart(N!Month(t) + 1) = t + 1
<1> DEFINE H == 24 * MonthDays
           m == N!Month(t)
           n == N!Month(t + 1)
<1>1. H \in Nat /\ H > 0
  BY DEF N!NightlyAssumption
<1>2. m \in Nat /\ N!MonthStart(m) <= t /\ t < N!MonthStart(m) + H
  BY NightMonth
<1>3. n \in Nat /\ N!MonthStart(n) <= t + 1 /\ t + 1 < N!MonthStart(n) + H
  BY NightMonth
<1>4. N!MonthStart(m) = m * H /\ N!MonthStart(n) = n * H /\ N!MonthStart(m + 1) = (m + 1) * H
  BY DEF N!MonthStart, N!HoursOf
<1> HIDE DEF H, m, n
<1>5. n >= m
  <2>1. ASSUME n < m PROVE FALSE
    <3>1. (n + 1) * H <= m * H
      BY <1>1, <1>2, <1>3, <2>1
    <3>2. (n + 1) * H = n * H + H
      BY <1>1, <1>3
    <3> QED BY <1>1, <1>2, <1>3, <1>4, <3>1, <3>2
  <2> QED BY <1>2, <1>3, <2>1
<1>6. n <= m + 1
  <2>1. ASSUME n > m + 1 PROVE FALSE
    <3>1. (m + 2) * H <= n * H
      BY <1>1, <1>2, <1>3, <2>1
    <3>2. (m + 2) * H = m * H + H + H
      BY <1>1, <1>2
    <3> QED BY <1>1, <1>2, <1>3, <1>4, <3>1, <3>2
  <2> QED BY <1>2, <1>3, <2>1
<1>7. (m + 1) * H = m * H + H /\ m * H \in Nat
  BY <1>1, <1>2
<1>8. n = m \/ n = m + 1
  BY <1>2, <1>3, <1>5, <1>6
<1>9. n = m + 1 => N!MonthStart(m + 1) = t + 1
  BY <1>1, <1>2, <1>3, <1>4, <1>7
<1> QED BY <1>8, <1>9 DEF m, n

NightP == "research-events-partitions"
NightW == "waitlist-snapshot"
NightJobs == {<<>>, <<NightP, NightW, "arm">>, <<NightW, "arm">>, <<"arm">>}
NightUp == [timer : Nat, jobs : NightJobs]

NightTypes ==
  /\ w1 \in 0 .. MaxHour /\ w5 \in 0 .. NightFailures /\ w7 \in 0 .. 26
  /\ w6 \in [Process -> 0 .. 26] /\ w3 \subseteq Nat
  /\ w2 \in [Process -> {N!Down} \cup NightUp]

\* Every partition is younger than the retention at an hour.
NightKept(t) == \A m \in w3 : N!MonthStart(m) + 24 * EVENTS_RETENTION_DAYS > t

\* The night of an hour was done and its timer set then.
NightWas(x, t) ==
  /\ x.timer <= t + 24 /\ N!LocalHour(t) <= 5
  /\ N!finnishDay(t) \in w4 /\ NightKept(t)

NightSince(p) ==
  \/ w6[p] + w2[p].timer - w1 <= 24
  \/ w7 + w2[p].timer - w1 <= 24
  \/ \E t \in 0 .. w1 : NightWas(w2[p], t)

NightRun(p) ==
  LET x == w2[p] IN
  /\ w1 <= x.timer /\ x.timer <= w1 + 24 /\ N!LocalHour(x.timer) \in 3 .. 5
  /\ x.jobs # <<>> => x.timer = w1
  /\ x.jobs \in {<<NightW, "arm">>, <<"arm">>} => w7 = 0 \/ NightKept(w1)
  /\ x.jobs = <<"arm">> => w7 = 0 \/ N!finnishDay(w1) \in w4
  /\ x.jobs = <<>> => NightSince(p)

\* A month without the partition of the next has nights that failed, if any.
NightLate(p) ==
  N!Month(w1) + 1 \notin w3 =>
    LET end == N!MonthStart(N!Month(w1)) + 24 * w5 IN
    /\ w2[p].timer < end + 24
    /\ w2[p].jobs \in {<<NightW, "arm">>, <<"arm">>} => w2[p].timer < end

NightInv ==
  /\ NightTypes
  /\ \A p \in Process : IF N!Up(p) THEN NightRun(p) /\ NightLate(p) /\ N!Month(w1) \in w3
                         ELSE w6[p] = 0

\* What is known of a process that is up, and of one that is not.
LEMMA NightAt ==
  ASSUME N!NightlyAssumption, NightInv, NEW p \in Process
  PROVE  /\ N!Up(p) => /\ w2[p] \in NightUp /\ w2[p].timer \in Nat /\ w2[p].jobs \in NightJobs
                       /\ NightRun(p) /\ NightLate(p) /\ N!Month(w1) \in w3
         /\ ~N!Up(p) => w6[p] = 0
         /\ \A x \in NightUp : x # N!Down
<1>1. \A x \in NightUp : x.timer \in Nat /\ x.jobs \in NightJobs
  BY DEF NightUp
<1>2. \A x \in NightUp : x # N!Down
  <2>1. N!Down.timer = Absent /\ Absent \notin Nat
    BY DEF N!Down, N!NightlyAssumption
  <2> QED BY <1>1, <2>1
<1>3. w2[p] \in {N!Down} \cup NightUp
  BY DEF NightInv, NightTypes
<1> QED BY <1>1, <1>2, <1>3 DEF NightInv, N!Up

LEMMA NightNumbers ==
  ASSUME N!NightlyAssumption, NightInv
  PROVE  /\ w1 \in Nat /\ w5 \in Nat /\ w5 <= NightFailures /\ w7 \in 0 .. 26 /\ w3 \subseteq Nat
         /\ w2 \in [Process -> {N!Down} \cup NightUp]
         /\ \A p \in Process : w6[p] \in 0 .. 26
         /\ N!Month(w1) \in Nat /\ N!MonthStart(N!Month(w1)) \in Nat
         /\ N!MonthStart(N!Month(w1)) <= w1 /\ w1 < N!MonthStart(N!Month(w1)) + 24 * MonthDays
<1>1. w1 \in Nat /\ w5 \in Nat /\ w5 <= NightFailures /\ w7 \in 0 .. 26 /\ w3 \subseteq Nat
      /\ w2 \in [Process -> {N!Down} \cup NightUp]
  BY DEF NightInv, NightTypes, N!NightlyAssumption
<1>2. \A p \in Process : w6[p] \in 0 .. 26
  BY DEF NightInv, NightTypes
<1> QED BY <1>1, <1>2, NightMonth

\* The partitions a boot or a night makes ahead are young.
LEMMA NightAhead ==
  ASSUME N!NightlyAssumption, NightInv, NEW t \in 0 .. w1, NEW m \in N!partitionsAhead(w1)
  PROVE  m \in Nat /\ N!MonthStart(m) + 24 * EVENTS_RETENTION_DAYS > t /\ ~N!Overdue(m, w1)
<1> DEFINE k == N!Month(w1)
<1>1. k \in Nat /\ N!MonthStart(k) \in Nat /\ w1 < N!MonthStart(k) + 24 * MonthDays /\ w1 \in Nat
  BY NightNumbers
<1>2. N!MonthStart(k + 1) = N!MonthStart(k) + 24 * MonthDays
  BY <1>1, NightMonths
<1>3. m = k \/ m = k + 1
  BY DEF N!partitionsAhead
<1>4. EVENTS_RETENTION_DAYS \in Nat /\ MonthDays \in Nat /\ EVENTS_RETENTION_DAYS >= MonthDays
  BY DEF N!NightlyAssumption
<1> HIDE DEF k
<1>5. m \in Nat /\ N!MonthStart(m) + 24 * EVENTS_RETENTION_DAYS > w1
  BY <1>1, <1>2, <1>3, <1>4
<1>6. N!MonthStart(m) \in Nat
  BY <1>1, <1>2, <1>3, <1>4
<1> QED BY <1>1, <1>4, <1>5, <1>6 DEF N!Overdue, N!HoursOf

LEMMA NightPromises ==
  ASSUME N!NightlyAssumption, NightInv
  PROVE  N!TypeOK /\ N!EveryDayIsCounted /\ N!EventsHaveAPartition /\ N!EventsAreDropped /\ N!WindowIsTheDay
<1>1. N!TypeOK
  <2>1. \A p \in Process : N!Up(p) => w2[p].timer > w1 - 1 /\ w2[p].timer <= w1 + 24
    BY NightAt, NightNumbers DEF NightRun
  <2> QED BY <2>1 DEF NightInv, NightTypes, N!TypeOK, N!Long
<1>2. N!EventsHaveAPartition
  BY NightAt DEF N!EventsHaveAPartition
<1>3. N!WindowIsTheDay
  BY NightNumbers, NightWindow
<1>4. ASSUME N!Settled
      PROVE  \E t \in 0 .. w1 : /\ w1 < t + 24 /\ N!LocalHour(t) <= 5
                                /\ N!finnishDay(t) \in w4 /\ NightKept(t)
  <2>1. PICK p \in Process : w6[p] = 26 /\ w2[p].jobs = <<>> /\ w2[p].timer > w1
    BY <1>4 DEF N!Settled, N!Long
  <2>2. w7 = 26 /\ w1 \in Nat
    BY <1>4, NightNumbers DEF N!Settled, N!Long
  <2>3. CASE N!Up(p)
    <3>1. w2[p].timer \in Nat /\ NightSince(p)
      BY <2>1, <2>3, NightAt DEF NightRun
    <3>2. PICK t \in 0 .. w1 : NightWas(w2[p], t)
      BY <2>1, <2>2, <3>1 DEF NightSince
    <3>3. w1 < t + 24
      BY <2>1, <2>2, <3>1, <3>2 DEF NightWas
    <3> QED BY <3>2, <3>3 DEF NightWas
  <2>4. CASE ~N!Up(p)
    <3>1. w6[p] = 0
      BY <2>4, NightAt
    <3> QED BY <2>1, <3>1
  <2> QED BY <2>3, <2>4
<1>5. N!EventsAreDropped
  <2>1. ASSUME N!Settled, NEW m \in w3
        PROVE  w1 < N!MonthStart(m) + N!HoursOf(EVENTS_RETENTION_DAYS) + N!Long
    <3>1. PICK t \in 0 .. w1 : w1 < t + 24 /\ NightKept(t)
      BY <1>4, <2>1
    <3>2. m \in Nat /\ N!MonthStart(m) \in Nat /\ EVENTS_RETENTION_DAYS \in Nat /\ w1 \in Nat
      BY NightNumbers, NightMonths DEF N!NightlyAssumption
    <3>3. N!MonthStart(m) + 24 * EVENTS_RETENTION_DAYS > t
      BY <3>1 DEF NightKept
    <3> QED BY <3>1, <3>2, <3>3 DEF N!HoursOf, N!Long
  <2> QED BY <2>1 DEF N!EventsAreDropped
<1>6. N!EveryDayIsCounted
  <2>1. ASSUME N!Settled, N!LocalHour(w1) >= 6 PROVE N!finnishDay(w1) \in w4
    <3>1. PICK t \in 0 .. w1 : w1 < t + 24 /\ N!LocalHour(t) <= 5 /\ N!finnishDay(t) \in w4
      BY <1>4, <2>1
    <3>2. w1 \in Int /\ t \in Int /\ t <= w1
      BY NightNumbers
    <3>3. /\ N!Local(t) \in Int /\ (N!Local(t) = t + 2 \/ N!Local(t) = t + 3)
          /\ N!finnishDay(t) \in Int /\ N!LocalHour(t) \in 0 .. 23
          /\ N!Local(t) = 24 * N!finnishDay(t) + N!LocalHour(t)
      BY <3>2, NightLocal
    <3>4. /\ N!Local(w1) \in Int /\ (N!Local(w1) = w1 + 2 \/ N!Local(w1) = w1 + 3)
          /\ N!finnishDay(w1) \in Int /\ N!LocalHour(w1) \in 0 .. 23
          /\ N!Local(w1) = 24 * N!finnishDay(w1) + N!LocalHour(w1)
      BY <3>2, NightLocal
    <3>5. N!Local(t) <= N!Local(w1)
      <4>1. t = w1 \/ t + 1 <= w1
        BY <3>2
      <4> QED BY <3>2, <3>3, <3>4, <4>1
    <3>6. N!finnishDay(t) = N!finnishDay(w1)
      BY <2>1, <3>1, <3>2, <3>3, <3>4, <3>5
    <3> QED BY <3>1, <3>6
  <2> QED BY <2>1 DEF N!EveryDayIsCounted
<1> QED BY <1>1, <1>2, <1>3, <1>5, <1>6

LEMMA NightInitInv == N!NightlyAssumption /\ N!Init => NightInv
<1> SUFFICES ASSUME N!NightlyAssumption, N!Init PROVE NightInv
  OBVIOUS
<1>1. w1 = 0 /\ w5 = 0 /\ w7 = 26 /\ w2 = [p \in Process |-> N!Down] /\ w6 = [p \in Process |-> 0] /\ w3 = {}
  BY DEF N!Init, N!Long
<1>2. NightTypes
  BY <1>1 DEF NightTypes, N!NightlyAssumption
<1>3. \A p \in Process : ~N!Up(p) /\ w6[p] = 0
  BY <1>1 DEF N!Up
<1> QED BY <1>2, <1>3 DEF NightInv

\* What is fixed at the present hour stays so for the processes a step leaves alone:
\* no partition too old is made, and no day uncounted.
LEMMA NightOthers ==
  ASSUME N!NightlyAssumption, NightInv, NEW p \in Process, N!Up(p),
         w1' = w1, w2'[p] = w2[p], w6'[p] = w6[p], w4 \subseteq w4',
         w5' \in Nat, w5 <= w5', w7' = w7 \/ w7' = 0,
         \A m \in w3' : m \in w3 \/ m \in N!partitionsAhead(w1),
         \A m \in N!partitionsAhead(w1) : m \in w3 => m \in w3'
  PROVE  (IF N!Up(p) THEN NightRun(p) /\ NightLate(p) /\ N!Month(w1) \in w3 ELSE w6[p] = 0)'
<1>1. /\ w2[p] \in NightUp /\ w2[p].timer \in Nat /\ w2[p].jobs \in NightJobs
      /\ NightRun(p) /\ NightLate(p) /\ N!Month(w1) \in w3
  BY NightAt
<1>2. /\ w1 \in Nat /\ w5 \in Nat /\ w7 \in 0 .. 26 /\ w6[p] \in 0 .. 26
      /\ N!Month(w1) \in Nat /\ N!MonthStart(N!Month(w1)) \in Nat
  BY NightNumbers
<1>3. \A t \in 0 .. w1 : NightKept(t) => NightKept(t)'
  <2>1. ASSUME NEW t \in 0 .. w1, NightKept(t), NEW m \in w3'
        PROVE  N!MonthStart(m) + 24 * EVENTS_RETENTION_DAYS > t
    BY <2>1, NightAhead DEF NightKept
  <2> QED BY <2>1 DEF NightKept
<1>4. N!Up(p)'
  BY DEF N!Up
<1>5. NightSince(p) => NightSince(p)'
  <2>1. CASE w6[p] + w2[p].timer - w1 <= 24
    BY <2>1 DEF NightSince
  <2>2. CASE w7 + w2[p].timer - w1 <= 24
    <3>1. w7' + w2[p].timer - w1 <= 24
      BY <1>1, <1>2, <2>2
    <3> QED BY <3>1 DEF NightSince
  <2>3. ASSUME NEW t \in 0 .. w1, NightWas(w2[p], t)
        PROVE  NightSince(p)'
    <3>1. NightWas(w2[p], t)'
      BY <1>3, <2>3 DEF NightWas
    <3> QED BY <3>1 DEF NightSince
  <2> QED BY <2>1, <2>2, <2>3 DEF NightSince
<1>6. NightRun(p)'
  <2>1. w1 \in 0 .. w1
    BY <1>2
  <2> QED BY <1>1, <1>3, <1>5, <2>1 DEF NightRun
<1>7. N!Month(w1)' = N!Month(w1) /\ N!Month(w1) \in w3'
  BY <1>1 DEF N!Month, N!partitionsAhead
<1>8. NightLate(p)'
  <2>1. ASSUME N!Month(w1) + 1 \notin w3' PROVE N!Month(w1) + 1 \notin w3
    BY <2>1 DEF N!partitionsAhead
  <2> QED BY <1>1, <1>2, <1>7, <2>1 DEF NightLate
<1> QED BY <1>4, <1>6, <1>7, <1>8

\* A step of one process within the hour.
LEMMA NightStep ==
  ASSUME N!NightlyAssumption, NightInv, NEW q \in Process, NEW x \in {N!Down} \cup NightUp,
         w2' = [w2 EXCEPT ![q] = x], w6' = w6 \/ w6' = [w6 EXCEPT ![q] = 0],
         w1' = w1, w4 \subseteq w4',
         w5' \in 0 .. NightFailures, w5 <= w5', w7' = w7 \/ w7' = 0,
         \A m \in w3' : m \in w3 \/ m \in N!partitionsAhead(w1),
         \A m \in N!partitionsAhead(w1) : m \in w3 => m \in w3',
         (IF N!Up(q) THEN NightRun(q) /\ NightLate(q) /\ N!Month(w1) \in w3 ELSE w6[q] = 0)'
  PROVE  NightInv'
<1>1. w7' \in 0 .. 26 /\ w6' \in [Process -> 0 .. 26] /\ w2' \in [Process -> {N!Down} \cup NightUp]
  <2>1. w7 \in 0 .. 26 /\ w6 \in [Process -> 0 .. 26] /\ w2 \in [Process -> {N!Down} \cup NightUp]
    BY DEF NightInv, NightTypes
  <2> QED BY <2>1
<1>2. w3' \subseteq Nat
  <2>1. 0 \in 0 .. w1 /\ w3 \subseteq Nat
    BY NightNumbers
  <2> QED BY <2>1, NightAhead
<1>3. NightTypes'
  <2>1. w1' \in 0 .. MaxHour
    BY DEF NightInv, NightTypes
  <2> QED BY <1>1, <1>2, <2>1 DEF NightTypes
<1>4. ASSUME NEW p \in Process
      PROVE  (IF N!Up(p) THEN NightRun(p) /\ NightLate(p) /\ N!Month(w1) \in w3 ELSE w6[p] = 0)'
  <2>1. CASE p = q
    BY <2>1
  <2>2. CASE p # q
    <3>1. w2'[p] = w2[p] /\ w6'[p] = w6[p]
      BY <2>2 DEF NightInv, NightTypes
    <3>2. CASE N!Up(p)
      <4>1. w5' \in Nat
        BY DEF N!NightlyAssumption
      <4> QED BY <3>1, <3>2, <4>1, NightOthers
    <3>3. CASE ~N!Up(p)
      <4>1. w6[p] = 0
        BY <3>3, NightAt
      <4>2. ~N!Up(p)'
        BY <3>1, <3>3 DEF N!Up
      <4> QED BY <3>1, <4>1, <4>2
    <3> QED BY <3>2, <3>3
  <2> QED BY <2>1, <2>2
<1> QED BY <1>3, <1>4 DEF NightInv

\* A timer that was armed now.
LEMMA NightTimer ==
  ASSUME N!NightlyAssumption, NightInv
  PROVE  LET timer == w1 + N!msUntilNightly(w1) IN
         /\ [timer |-> timer, jobs |-> <<>>] \in NightUp
         /\ timer \in Nat /\ w1 <= timer /\ timer <= w1 + 24 /\ N!LocalHour(timer) \in 3 .. 5
<1> DEFINE timer == w1 + N!msUntilNightly(w1)
<1>1. w1 \in Nat /\ w1 \in Int
  BY NightNumbers
<1>2. N!msUntilNightly(w1) \in 1 .. 24 /\ N!LocalHour(timer) \in 3 .. 5
  BY <1>1, NightArms
<1>3. timer \in Nat /\ w1 <= timer /\ timer <= w1 + 24
  BY <1>1, <1>2
<1> HIDE DEF timer
<1>4. [timer |-> timer, jobs |-> <<>>] \in NightUp
  BY <1>3 DEF NightUp, NightJobs
<1> QED BY <1>2, <1>3, <1>4 DEF timer

LEMMA NightBoots ==
  ASSUME N!NightlyAssumption, NightInv, NEW q \in Process, N!Boot(q)
  PROVE  NightInv'
<1> DEFINE timer == w1 + N!msUntilNightly(w1)
           x == [timer |-> timer, jobs |-> <<>>]
<1>1. /\ ~N!Up(q) /\ w3' = w3 \cup N!partitionsAhead(w1)
      /\ w4' = (IF w4 = {} THEN {N!finnishDay(w1)} ELSE w4)
      /\ w2' = [w2 EXCEPT ![q] = x] /\ w6' = [w6 EXCEPT ![q] = 0]
      /\ UNCHANGED <<w1, w5, w7>>
  BY DEF N!Boot
<1>2. x \in NightUp /\ timer \in Nat /\ w1 <= timer /\ timer <= w1 + 24 /\ N!LocalHour(timer) \in 3 .. 5
  BY NightTimer
<1>3. x.timer = timer /\ x.jobs = <<>> /\ x # N!Down
  BY <1>2, NightAt
<1> HIDE DEF timer, x
<1>4. w2'[q] = x /\ w6'[q] = 0 /\ w1 \in Nat
  BY <1>1, NightNumbers DEF NightInv, NightTypes
<1>5. N!Up(q)'
  BY <1>3, <1>4 DEF N!Up
<1>6. N!Month(w1)' = N!Month(w1) /\ {N!Month(w1), N!Month(w1) + 1} \subseteq w3'
  BY <1>1 DEF N!Month, N!partitionsAhead
<1>7. NightSince(q)'
  BY <1>1, <1>2, <1>3, <1>4 DEF NightSince
<1>8. NightRun(q)'
  <2>1. /\ w1' = w1 /\ w1 <= w2'[q].timer /\ w2'[q].timer <= w1 + 24
        /\ N!LocalHour(w2'[q].timer) \in 3 .. 5 /\ w2'[q].jobs = <<>>
    BY <1>1, <1>2, <1>3, <1>4
  <2>2. <<>> \notin {<<NightW, "arm">>, <<"arm">>}
    OBVIOUS
  <2> QED BY <1>7, <2>1, <2>2 DEF NightRun
<1>9. NightLate(q)'
  BY <1>6 DEF NightLate
<1>10. w4 \subseteq w4' /\ w5' \in 0 .. NightFailures /\ w5 <= w5'
  BY <1>1, NightNumbers DEF N!NightlyAssumption
<1> QED BY <1>1, <1>2, <1>5, <1>6, <1>8, <1>9, <1>10, NightStep

LEMMA NightStops ==
  ASSUME N!NightlyAssumption, NightInv, NEW q \in Process, N!Stop(q)
  PROVE  NightInv'
<1>1. w2' = [w2 EXCEPT ![q] = N!Down] /\ w6' = [w6 EXCEPT ![q] = 0] /\ UNCHANGED <<w1, w3, w4, w5, w7>>
  BY DEF N!Stop
<1>2. w2'[q] = N!Down /\ w6'[q] = 0
  BY <1>1 DEF NightInv, NightTypes
<1>3. ~N!Up(q)'
  BY <1>2 DEF N!Up
<1>4. w5' \in 0 .. NightFailures /\ w5 <= w5'
  BY <1>1, NightNumbers DEF N!NightlyAssumption
<1> QED BY <1>1, <1>2, <1>3, <1>4, NightStep

LEMMA NightFires ==
  ASSUME N!NightlyAssumption, NightInv, NEW q \in Process, N!NightComes(q)
  PROVE  NightInv'
<1> DEFINE x == [w2[q] EXCEPT !.jobs = <<NightP, NightW, "arm">>]
<1>1. /\ N!Up(q) /\ w2[q].jobs = <<>> /\ w2[q].timer <= w1
      /\ w2' = [w2 EXCEPT ![q].jobs = <<NightP, NightW, "arm">>]
      /\ UNCHANGED <<w1, w3, w4, w5, w6, w7>>
  BY DEF N!NightComes, NightP, NightW
<1>2. /\ w2[q] \in NightUp /\ w2[q].timer \in Nat /\ NightRun(q) /\ NightLate(q) /\ N!Month(w1) \in w3
      /\ w1 \in Nat /\ w2 \in [Process -> {N!Down} \cup NightUp]
  BY <1>1, NightAt, NightNumbers
<1>3. x \in NightUp /\ x.timer = w2[q].timer /\ x.jobs = <<NightP, NightW, "arm">>
  BY <1>2 DEF NightUp, NightJobs
<1>4. w2' = [w2 EXCEPT ![q] = x] /\ x # N!Down
  BY <1>1, <1>2, <1>3, NightAt
<1> HIDE DEF x
<1>5. w2'[q] = x /\ N!Up(q)'
  BY <1>2, <1>4 DEF N!Up
<1>6. <<NightP, NightW, "arm">> \notin {<<>>, <<NightW, "arm">>, <<"arm">>}
  OBVIOUS
<1>7. NightRun(q)' /\ NightLate(q)' /\ N!Month(w1)' = N!Month(w1)
  <2>1. x.timer = w1
    BY <1>1, <1>2, <1>3 DEF NightRun
  <2>2. w2'[q].timer = w1 /\ w2'[q].jobs \notin {<<>>, <<NightW, "arm">>, <<"arm">>}
        /\ N!LocalHour(w2'[q].timer) \in 3 .. 5
    BY <1>2, <1>3, <1>5, <1>6, <2>1 DEF NightRun
  <2>3. NightRun(q)'
    BY <1>1, <1>2, <2>2 DEF NightRun
  <2>4. NightLate(q)'
    BY <1>1, <1>2, <1>3, <1>5, <1>6 DEF NightLate, N!Month
  <2> QED BY <1>1, <2>3, <2>4 DEF N!Month
<1>8. w5' \in 0 .. NightFailures /\ w5 <= w5'
  BY <1>1, NightNumbers DEF N!NightlyAssumption
<1> QED BY <1>1, <1>2, <1>3, <1>4, <1>5, <1>7, <1>8, NightStep

\* A job is behind: the process goes on to the next.
LEMMA NightJob ==
  ASSUME N!NightlyAssumption, NightInv, NEW q \in Process, NEW name, N!JobIs(q, name), N!JobDone(q)
  PROVE  \E x \in NightUp :
           /\ w2' = [w2 EXCEPT ![q] = x] /\ w2'[q] = x /\ N!Up(q) /\ N!Up(q)'
           /\ x.timer = w2[q].timer /\ x.timer = w1
           /\ \/ name = NightP /\ w2[q].jobs = <<NightP, NightW, "arm">> /\ x.jobs = <<NightW, "arm">>
              \/ name = NightW /\ w2[q].jobs = <<NightW, "arm">> /\ x.jobs = <<"arm">>
              \/ name = "arm" /\ w2[q].jobs = <<"arm">> /\ x.jobs = <<>>
<1>1. /\ w2[q].jobs # <<>> /\ Head(w2[q].jobs) = name /\ w2' = [w2 EXCEPT ![q].jobs = Tail(@)]
      /\ w2 \in [Process -> {N!Down} \cup NightUp]
  BY NightNumbers DEF N!JobIs, N!JobDone
<1>2. N!Up(q) /\ w2[q] \in NightUp /\ w2[q].timer = w1 /\ w2[q].jobs \in NightJobs
  <2>1. N!Up(q)
    BY <1>1 DEF N!Up, N!Down
  <2> QED BY <1>1, <2>1, NightAt DEF NightRun
<1>3. /\ Tail(<<NightP, NightW, "arm">>) = <<NightW, "arm">> /\ Head(<<NightP, NightW, "arm">>) = NightP
      /\ Tail(<<NightW, "arm">>) = <<"arm">> /\ Head(<<NightW, "arm">>) = NightW
      /\ Tail(<<"arm">>) = <<>> /\ Head(<<"arm">>) = "arm"
  OBVIOUS
<1>4. Tail(w2[q].jobs) \in NightJobs
  BY <1>1, <1>2, <1>3 DEF NightJobs
<1> DEFINE x == [w2[q] EXCEPT !.jobs = Tail(@)]
<1>5. x \in NightUp /\ x.timer = w2[q].timer /\ x.jobs = Tail(w2[q].jobs)
  BY <1>2, <1>4 DEF NightUp
<1>6. w2' = [w2 EXCEPT ![q] = x] /\ x # N!Down
  BY <1>1, <1>2, <1>5, NightAt
<1> HIDE DEF x
<1>7. w2'[q] = x /\ N!Up(q)'
  BY <1>1, <1>6 DEF N!Up
<1> QED BY <1>1, <1>2, <1>3, <1>5, <1>6, <1>7 DEF NightJobs

LEMMA NightFails ==
  ASSUME N!NightlyAssumption, NightInv, NEW q \in Process, N!JobFails(q)
  PROVE  NightInv'
<1>1. PICK name \in {NightP, NightW} : N!JobIs(q, name)
  BY DEF N!JobFails, NightP, NightW
<1>2. /\ w5 < NightFailures /\ w5' = w5 + 1 /\ w7' = 0 /\ UNCHANGED <<w1, w3, w4, w6>>
      /\ N!JobDone(q)
  BY DEF N!JobFails
<1>3. PICK x \in NightUp :
        /\ w2' = [w2 EXCEPT ![q] = x] /\ w2'[q] = x /\ N!Up(q) /\ N!Up(q)'
        /\ x.timer = w2[q].timer /\ x.timer = w1
        /\ \/ name = NightP /\ w2[q].jobs = <<NightP, NightW, "arm">> /\ x.jobs = <<NightW, "arm">>
           \/ name = NightW /\ w2[q].jobs = <<NightW, "arm">> /\ x.jobs = <<"arm">>
           \/ name = "arm" /\ w2[q].jobs = <<"arm">> /\ x.jobs = <<>>
  BY <1>1, <1>2, NightJob
<1>4. x.jobs # <<>>
  <2>1. name # "arm"
    BY <1>1 DEF NightP, NightW
  <2>2. <<NightW, "arm">> # <<>> /\ <<"arm">> # <<>>
    OBVIOUS
  <2> QED BY <1>3, <2>1, <2>2
<1>5. /\ w2[q].timer \in Nat /\ NightRun(q) /\ NightLate(q) /\ N!Month(w1) \in w3
      /\ w1 \in Nat /\ w5 \in Nat /\ NightFailures \in Nat /\ N!MonthStart(N!Month(w1)) \in Nat
  BY <1>3, NightAt, NightNumbers DEF N!NightlyAssumption
<1>6. NightRun(q)'
  <2>1. /\ w1' = w1 /\ w1 <= w2'[q].timer /\ w2'[q].timer <= w1 + 24
        /\ N!LocalHour(w2'[q].timer) \in 3 .. 5 /\ w2'[q].jobs # <<>> /\ w2'[q].timer = w1 /\ w7' = 0
    BY <1>2, <1>3, <1>4, <1>5 DEF NightRun
  <2> QED BY <2>1 DEF NightRun
<1>7. NightLate(q)'
  <2>1. N!Month(w1)' = N!Month(w1) /\ N!MonthStart(N!Month(w1))' = N!MonthStart(N!Month(w1))
    BY <1>2 DEF N!Month, N!MonthStart
  <2>2. ASSUME N!Month(w1) + 1 \notin w3
        PROVE  w2'[q].timer < N!MonthStart(N!Month(w1)) + 24 * (w5 + 1)
    BY <1>3, <1>5, <2>2 DEF NightLate
  <2>3. N!Month(w1) + 1 \notin w3 =>
          /\ w2'[q].timer < N!MonthStart(N!Month(w1)) + 24 * w5'
          /\ w2'[q].timer < N!MonthStart(N!Month(w1)) + 24 * w5' + 24
    BY <1>2, <1>3, <1>5, <2>2
  <2> QED BY <1>2, <2>1, <2>3 DEF NightLate
<1>8. w5' \in 0 .. NightFailures /\ w5 <= w5'
  BY <1>2, <1>5
<1>9. N!Month(w1)' \in w3'
  BY <1>2, <1>5 DEF N!Month
<1> QED BY <1>2, <1>3, <1>6, <1>7, <1>8, <1>9, NightStep

LEMMA NightKeeps ==
  ASSUME N!NightlyAssumption, NightInv, NEW q \in Process, N!KeepPartitions(q)
  PROVE  NightInv'
<1>1. /\ N!JobIs(q, NightP) /\ N!JobDone(q) /\ UNCHANGED <<w1, w4, w5, w6, w7>>
      /\ w3' = {m \in w3 \cup N!partitionsAhead(w1) : ~N!Overdue(m, w1)}
  BY DEF N!KeepPartitions, NightP
<1>2. PICK x \in NightUp :
        /\ w2' = [w2 EXCEPT ![q] = x] /\ w2'[q] = x /\ N!Up(q) /\ N!Up(q)'
        /\ x.timer = w2[q].timer /\ x.timer = w1
        /\ \/ NightP = NightP /\ w2[q].jobs = <<NightP, NightW, "arm">> /\ x.jobs = <<NightW, "arm">>
           \/ NightP = NightW /\ w2[q].jobs = <<NightW, "arm">> /\ x.jobs = <<"arm">>
           \/ NightP = "arm" /\ w2[q].jobs = <<"arm">> /\ x.jobs = <<>>
  BY <1>1, NightJob
<1>3. x.jobs = <<NightW, "arm">>
  <2>1. NightP # "arm" /\ NightP # NightW
    BY DEF NightP, NightW
  <2> QED BY <1>2, <2>1
<1>4. /\ w2[q].timer \in Nat /\ NightRun(q) /\ w1 \in Nat /\ w5 \in Nat /\ w5 <= NightFailures /\ w3 \subseteq Nat
  BY <1>2, NightAt, NightNumbers
<1>5. \A m \in w3' : N!MonthStart(m) + 24 * EVENTS_RETENTION_DAYS > w1
  <2>1. ASSUME NEW m \in w3' PROVE N!MonthStart(m) + 24 * EVENTS_RETENTION_DAYS > w1
    <3>1. m \in Nat
      <4>1. 0 \in 0 .. w1
        BY <1>4
      <4> QED BY <1>1, <1>4, <4>1, NightAhead
    <3>2. N!MonthStart(m) \in Nat /\ EVENTS_RETENTION_DAYS \in Nat
      BY <3>1, NightMonths DEF N!NightlyAssumption
    <3>3. ~N!Overdue(m, w1)
      BY <1>1
    <3> QED BY <1>4, <3>2, <3>3 DEF N!Overdue, N!HoursOf
  <2> QED BY <2>1
<1>6. NightKept(w1)'
  BY <1>1, <1>5 DEF NightKept
<1>7. \A m \in N!partitionsAhead(w1) : m \in w3'
  <2>1. w1 \in 0 .. w1
    BY <1>4
  <2> QED BY <1>1, <2>1, NightAhead
<1>8. NightRun(q)'
  <2>1. /\ w1' = w1 /\ w1 <= w2'[q].timer /\ w2'[q].timer <= w1 + 24
        /\ N!LocalHour(w2'[q].timer) \in 3 .. 5 /\ w2'[q].jobs = <<NightW, "arm">> /\ w2'[q].timer = w1
    BY <1>1, <1>2, <1>3, <1>4 DEF NightRun
  <2>2. <<NightW, "arm">> # <<"arm">> /\ <<NightW, "arm">> # <<>>
    OBVIOUS
  <2> QED BY <1>6, <2>1, <2>2 DEF NightRun
<1>9. {N!Month(w1), N!Month(w1) + 1} \subseteq w3' /\ N!Month(w1)' = N!Month(w1)
  BY <1>1, <1>7 DEF N!partitionsAhead, N!Month
<1>10. NightLate(q)' /\ N!Month(w1)' \in w3'
  BY <1>9 DEF NightLate
<1>11. w5' \in 0 .. NightFailures /\ w5 <= w5'
  BY <1>1, <1>4 DEF N!NightlyAssumption
<1> QED BY <1>1, <1>2, <1>7, <1>8, <1>10, <1>11, NightStep

LEMMA NightCounts ==
  ASSUME N!NightlyAssumption, NightInv, NEW q \in Process, N!CountWaitlist(q)
  PROVE  NightInv'
<1>1. /\ N!JobIs(q, NightW) /\ N!JobDone(q) /\ UNCHANGED <<w1, w3, w5, w6, w7>>
      /\ w4' = w4 \cup {N!finnishDay(w1)}
  BY DEF N!CountWaitlist, NightW
<1>2. PICK x \in NightUp :
        /\ w2' = [w2 EXCEPT ![q] = x] /\ w2'[q] = x /\ N!Up(q) /\ N!Up(q)'
        /\ x.timer = w2[q].timer /\ x.timer = w1
        /\ \/ NightW = NightP /\ w2[q].jobs = <<NightP, NightW, "arm">> /\ x.jobs = <<NightW, "arm">>
           \/ NightW = NightW /\ w2[q].jobs = <<NightW, "arm">> /\ x.jobs = <<"arm">>
           \/ NightW = "arm" /\ w2[q].jobs = <<"arm">> /\ x.jobs = <<>>
  BY <1>1, NightJob
<1>3. x.jobs = <<"arm">> /\ w2[q].jobs = <<NightW, "arm">>
  <2>1. NightW # "arm" /\ NightP # NightW
    BY DEF NightP, NightW
  <2> QED BY <1>2, <2>1
<1>4. /\ w2[q].timer \in Nat /\ NightRun(q) /\ NightLate(q) /\ N!Month(w1) \in w3
      /\ w1 \in Nat /\ w5 \in Nat /\ w5 <= NightFailures
  BY <1>2, NightAt, NightNumbers
<1>5. NightRun(q)'
  <2>1. /\ w1' = w1 /\ w1 <= w2'[q].timer /\ w2'[q].timer <= w1 + 24
        /\ N!LocalHour(w2'[q].timer) \in 3 .. 5 /\ w2'[q].jobs = <<"arm">> /\ w2'[q].timer = w1
    BY <1>1, <1>2, <1>3, <1>4 DEF NightRun
  <2>2. <<"arm">> # <<>>
    OBVIOUS
  <2>3. w7 = 0 \/ NightKept(w1)
    BY <1>3, <1>4 DEF NightRun
  <2>4. NightKept(w1)' = NightKept(w1) /\ N!finnishDay(w1) \in w4' /\ w7' = w7
    BY <1>1 DEF NightKept
  <2> QED BY <2>1, <2>2, <2>3, <2>4 DEF NightRun
<1>6. NightLate(q)'
  <2>1. /\ w1' = w1 /\ w3' = w3 /\ w5' = w5 /\ w2'[q].timer = w2[q].timer
        /\ w2[q].jobs \in {<<NightW, "arm">>, <<"arm">>}
    BY <1>1, <1>2, <1>3
  <2> QED BY <1>4, <2>1 DEF NightLate, N!Month
<1>7. N!Month(w1)' \in w3' /\ w5' \in 0 .. NightFailures /\ w5 <= w5'
  BY <1>1, <1>4 DEF N!NightlyAssumption, N!Month
<1> QED BY <1>1, <1>2, <1>5, <1>6, <1>7, NightStep

LEMMA NightArmed ==
  ASSUME N!NightlyAssumption, NightInv, NEW q \in Process, N!Arm(q)
  PROVE  NightInv'
<1> DEFINE timer == w1 + N!msUntilNightly(w1)
           x == [timer |-> timer, jobs |-> <<>>]
<1>1. /\ w2[q].jobs # <<>> /\ Head(w2[q].jobs) = "arm"
      /\ w2' = [w2 EXCEPT ![q] = x]
      /\ UNCHANGED <<w1, w3, w4, w5, w6, w7>>
  BY DEF N!Arm, N!JobIs
<1>2. x \in NightUp /\ timer \in Nat /\ w1 <= timer /\ timer <= w1 + 24 /\ N!LocalHour(timer) \in 3 .. 5
  BY NightTimer
<1>3. x.timer = timer /\ x.jobs = <<>> /\ x # N!Down
  BY <1>2, NightAt
<1> HIDE DEF timer, x
<1>4. N!Up(q)
  BY <1>1 DEF N!Up, N!Down
<1>5. /\ w2[q].timer \in Nat /\ NightRun(q) /\ NightLate(q) /\ N!Month(w1) \in w3 /\ w2[q].jobs \in NightJobs
      /\ w1 \in Nat /\ w5 \in Nat /\ w5 <= NightFailures /\ w7 \in 0 .. 26 /\ N!MonthStart(N!Month(w1)) \in Nat
  BY <1>4, NightAt, NightNumbers
<1>6. w2[q].jobs = <<"arm">>
  <2>1. Head(<<NightP, NightW, "arm">>) = NightP /\ Head(<<NightW, "arm">>) = NightW /\ NightP # "arm" /\ NightW # "arm"
    BY DEF NightP, NightW
  <2> QED BY <1>1, <1>5, <2>1 DEF NightJobs
<1>7. w2'[q] = x /\ w6'[q] = w6[q]
  BY <1>1, NightNumbers
<1>8. N!Up(q)'
  BY <1>3, <1>7 DEF N!Up
<1>9. NightSince(q)'
  <2>1. CASE w7 = 0
    <3>1. w7' + w2'[q].timer - w1' <= 24
      BY <1>1, <1>2, <1>3, <1>5, <1>7, <2>1
    <3> QED BY <3>1 DEF NightSince
  <2>2. CASE w7 # 0
    <3>1. NightKept(w1) /\ N!finnishDay(w1) \in w4 /\ w2[q].timer = w1
      <4>1. <<"arm">> \in {<<NightW, "arm">>, <<"arm">>} /\ <<"arm">> # <<>>
        OBVIOUS
      <4> QED BY <1>5, <1>6, <2>2, <4>1 DEF NightRun
    <3>2. N!LocalHour(w1) <= 5
      <4>1. N!LocalHour(w1) \in 3 .. 5
        BY <1>5, <3>1 DEF NightRun
      <4> QED BY <4>1
    <3>3. NightKept(w1)' /\ w1' = w1 /\ w4' = w4
      BY <1>1, <3>1 DEF NightKept
    <3>4. w1' \in 0 .. w1' /\ w2'[q].timer <= w1' + 24 /\ N!LocalHour(w1') <= 5 /\ N!finnishDay(w1') \in w4' /\ NightKept(w1)'
      BY <1>2, <1>3, <1>5, <1>7, <3>1, <3>2, <3>3
    <3>5. NightWas(w2[q], w1)'
      BY <3>4 DEF NightWas
    <3> QED BY <3>4, <3>5 DEF NightSince
  <2> QED BY <2>1, <2>2
<1>10. NightRun(q)'
  <2>1. /\ w1' = w1 /\ w1 <= w2'[q].timer /\ w2'[q].timer <= w1 + 24
        /\ N!LocalHour(w2'[q].timer) \in 3 .. 5 /\ w2'[q].jobs = <<>>
    BY <1>1, <1>2, <1>3, <1>7
  <2>2. <<>> \notin {<<NightW, "arm">>, <<"arm">>}
    OBVIOUS
  <2> QED BY <1>9, <2>1, <2>2 DEF NightRun
<1>11. NightLate(q)'
  <2>1. N!Month(w1)' = N!Month(w1) /\ N!MonthStart(N!Month(w1))' = N!MonthStart(N!Month(w1))
    BY <1>1 DEF N!Month, N!MonthStart
  <2>2. ASSUME N!Month(w1) + 1 \notin w3
        PROVE  w2'[q].timer < N!MonthStart(N!Month(w1)) + 24 * w5 + 24
    <3>1. w2[q].timer < N!MonthStart(N!Month(w1)) + 24 * w5
      BY <1>5, <1>6, <2>2 DEF NightLate
    <3>2. w2[q].timer = w1
      BY <1>5, <1>6 DEF NightRun
    <3> QED BY <1>2, <1>3, <1>5, <1>7, <3>1, <3>2
  <2>3. w2'[q].jobs \notin {<<NightW, "arm">>, <<"arm">>}
    <3>1. w2'[q].jobs = <<>>
      BY <1>3, <1>7
    <3> QED BY <3>1
  <2> QED BY <1>1, <2>1, <2>2, <2>3 DEF NightLate
<1>12. N!Month(w1)' \in w3' /\ w5' \in 0 .. NightFailures /\ w5 <= w5' /\ w4 \subseteq w4'
  BY <1>1, <1>5 DEF N!NightlyAssumption, N!Month
<1> QED BY <1>1, <1>2, <1>8, <1>10, <1>11, <1>12, NightStep

LEMMA NightOlder ==
  \A n \in 0 .. 26 : /\ N!Older(n) \in 0 .. 26 /\ (N!Older(n) = n \/ N!Older(n) = n + 1)
                     /\ N!Older(n) <= n + 1
BY DEF N!Older, N!Long

LEMMA NightSum ==
  \A a, b, t, n \in Int : a + t - n <= 24 /\ b <= a + 1 => b + t - (n + 1) <= 24
OBVIOUS

\* An hour passes: a month that ends has its partition, for what its nights could not
\* do is less than its nights.
LEMMA NightHour ==
  ASSUME N!NightlyAssumption, NightInv, N!Hour
  PROVE  NightInv'
<1>1. /\ w1 < MaxHour /\ w1' = w1 + 1 /\ UNCHANGED <<w2, w3, w4, w5>>
      /\ \A p \in Process : N!Up(p) => w2[p].jobs = <<>> /\ w2[p].timer > w1
      /\ w6' = [p \in Process |-> IF N!Up(p) THEN N!Older(w6[p]) ELSE 0]
      /\ w7' = N!Older(w7)
  BY DEF N!Hour
<1>2. /\ w1 \in Nat /\ w5 \in Nat /\ w5 <= NightFailures /\ w7 \in 0 .. 26 /\ w3 \subseteq Nat
      /\ \A p \in Process : w6[p] \in 0 .. 26
      /\ N!Month(w1) \in Nat /\ N!MonthStart(N!Month(w1)) \in Nat
      /\ MaxHour \in Nat /\ NightFailures \in Nat /\ MonthDays \in Nat /\ NightFailures < MonthDays
  BY NightNumbers DEF N!NightlyAssumption
<1>3. w7' \in 0 .. 26 /\ w7' <= w7 + 1
  BY <1>1, <1>2, NightOlder
<1>4. ASSUME NEW p \in Process
      PROVE  w6'[p] \in 0 .. 26 /\ (N!Up(p) => w6'[p] <= w6[p] + 1) /\ (~N!Up(p) => w6'[p] = 0)
  <2>1. N!Older(w6[p]) \in 0 .. 26 /\ N!Older(w6[p]) <= w6[p] + 1
    BY <1>2, NightOlder
  <2>2. w6'[p] = IF N!Up(p) THEN N!Older(w6[p]) ELSE 0
    BY <1>1
  <2>3. 0 \in 0 .. 26
    OBVIOUS
  <2> QED BY <2>1, <2>2, <2>3
<1>5. NightTypes'
  <2>1. w6' \in [Process -> 0 .. 26]
    BY <1>1, <1>4
  <2>2. w1' \in 0 .. MaxHour
    BY <1>1, <1>2
  <2> QED BY <1>1, <1>3, <2>1, <2>2 DEF NightInv, NightTypes
<1>6. ASSUME NEW p \in Process
      PROVE  (IF N!Up(p) THEN NightRun(p) /\ NightLate(p) /\ N!Month(w1) \in w3 ELSE w6[p] = 0)'
  <2>1. CASE ~N!Up(p)
    <3>1. ~N!Up(p)' /\ w6'[p] = 0
      BY <1>1, <1>4, <2>1 DEF N!Up
    <3> QED BY <3>1
  <2>2. CASE N!Up(p)
    <3>1. N!Up(p)'
      BY <1>1, <2>2 DEF N!Up
    <3>2. /\ w2[p].timer \in Nat /\ NightRun(p) /\ NightLate(p) /\ N!Month(w1) \in w3
          /\ w2[p].jobs = <<>> /\ w2[p].timer > w1
      BY <1>1, <2>2, NightAt
    <3>3. w2[p].timer <= w1 + 24 /\ N!LocalHour(w2[p].timer) \in 3 .. 5 /\ NightSince(p)
      BY <3>2 DEF NightRun
    <3>4. NightSince(p)'
      <4>1. CASE w6[p] + w2[p].timer - w1 <= 24
        <5>1. w6'[p] + w2'[p].timer - w1' <= 24
          <6>1. w6'[p] <= w6[p] + 1 /\ w6'[p] \in 0 .. 26
            BY <1>4, <2>2
          <6>2. w6[p] \in 0 .. 26 /\ w2'[p].timer = w2[p].timer /\ w1' = w1 + 1
            BY <1>1, <1>2
          <6>3. w6[p] \in Int /\ w6'[p] \in Int
            BY <6>1, <6>2
          <6>4. w2[p].timer \in Int
            BY <3>2
          <6>5. w1 \in Int
            BY <1>2
          <6> QED BY <4>1, <6>1, <6>2, <6>3, <6>4, <6>5, NightSum
        <5> QED BY <5>1 DEF NightSince
      <4>2. CASE w7 + w2[p].timer - w1 <= 24
        <5>1. w7' + w2'[p].timer - w1' <= 24
          <6>1. w2'[p].timer = w2[p].timer /\ w1' = w1 + 1
            BY <1>1
          <6>2. w7 \in Int /\ w7' \in Int /\ w7' <= w7 + 1
            BY <1>2, <1>3
          <6>3. w2[p].timer \in Int /\ w1 \in Int
            BY <1>2, <3>2
          <6> QED BY <4>2, <6>1, <6>2, <6>3, NightSum
        <5> QED BY <5>1 DEF NightSince
      <4>3. ASSUME NEW t \in 0 .. w1, NightWas(w2[p], t)
            PROVE  NightSince(p)'
        <5>1. t \in 0 .. w1'
          BY <1>1, <1>2
        <5>2. NightKept(t)'
          BY <1>1, <4>3 DEF NightWas, NightKept
        <5>3. NightWas(w2[p], t)'
          BY <1>1, <4>3, <5>2 DEF NightWas
        <5> QED BY <5>1, <5>3 DEF NightSince
      <4> QED BY <3>3, <4>1, <4>2, <4>3 DEF NightSince
    <3>5. NightRun(p)'
      <4>1. /\ w1' <= w2'[p].timer /\ w2'[p].timer <= w1' + 24
            /\ N!LocalHour(w2'[p].timer) \in 3 .. 5 /\ w2'[p].jobs = <<>>
        BY <1>1, <1>2, <3>2, <3>3
      <4>2. <<>> \notin {<<NightW, "arm">>, <<"arm">>}
        OBVIOUS
      <4> QED BY <3>4, <4>1, <4>2 DEF NightRun
    <3> DEFINE m == N!Month(w1)
    <3>6. m \in Nat /\ N!MonthStart(m) \in Nat /\ N!MonthStart(m + 1) = N!MonthStart(m) + 24 * MonthDays
      BY <1>2, NightMonths
    <3>7. CASE N!Month(w1 + 1) = m
      <4>1. N!Month(w1)' = N!Month(w1) /\ N!MonthStart(N!Month(w1))' = N!MonthStart(N!Month(w1))
        BY <1>1, <3>7 DEF N!Month, N!MonthStart
      <4>2. NightLate(p)'
        BY <1>1, <3>2, <4>1 DEF NightLate
      <4> QED BY <1>1, <3>1, <3>2, <3>5, <4>1, <4>2
    <3>8. CASE N!Month(w1 + 1) = m + 1 /\ N!MonthStart(m + 1) = w1 + 1
      <4>1. N!Month(w1)' = m + 1 /\ N!MonthStart(N!Month(w1))' = w1 + 1
        BY <1>1, <3>8 DEF N!Month, N!MonthStart
      <4>2. m + 1 \in w3
        <5>1. ASSUME m + 1 \notin w3 PROVE FALSE
          <6>1. w2[p].timer < N!MonthStart(m) + 24 * w5 + 24
            BY <1>2, <3>2, <3>6, <5>1 DEF NightLate
          <6> HIDE DEF m
          <6>2. w2[p].timer < w1 + 1
            BY <1>2, <3>6, <3>8, <3>2, <6>1
          <6> QED BY <1>2, <3>2, <6>2
        <5> QED BY <5>1
      <4>3. w2'[p].timer < w1' + 24 * w5' + 24 /\ w2'[p].jobs = <<>>
        BY <1>1, <1>2, <3>2, <3>3, SMTT(30)
      <4>4. NightLate(p)'
        <5>1. <<>> \notin {<<NightW, "arm">>, <<"arm">>}
          OBVIOUS
        <5> QED BY <1>1, <4>1, <4>3, <5>1 DEF NightLate
      <4> QED BY <1>1, <3>1, <3>5, <4>1, <4>2, <4>4
    <3>9. \/ N!Month(w1 + 1) = N!Month(w1)
          \/ N!Month(w1 + 1) = N!Month(w1) + 1 /\ N!MonthStart(N!Month(w1) + 1) = w1 + 1
      BY <1>2, NightNextMonth
    <3> QED BY <3>7, <3>8, <3>9
  <2> QED BY <2>1, <2>2
<1> QED BY <1>5, <1>6 DEF NightInv

LEMMA NightNextInv == N!NightlyAssumption /\ NightInv /\ [N!Next]_(N!vars) => NightInv'
<1> SUFFICES ASSUME N!NightlyAssumption, NightInv, [N!Next]_(N!vars) PROVE NightInv'
  OBVIOUS
<1>1. CASE UNCHANGED N!vars
  <2>1. UNCHANGED <<w1, w2, w3, w4, w5, w6, w7>>
    BY <1>1 DEF N!vars
  <2>2. NightTypes'
    BY <2>1 DEF NightInv, NightTypes
  <2>3. ASSUME NEW p \in Process
        PROVE  (IF N!Up(p) THEN NightRun(p) /\ NightLate(p) /\ N!Month(w1) \in w3 ELSE w6[p] = 0)'
    <3>1. IF N!Up(p) THEN NightRun(p) /\ NightLate(p) /\ N!Month(w1) \in w3 ELSE w6[p] = 0
      BY DEF NightInv
    <3>2. /\ N!Up(p)' = N!Up(p) /\ NightKept(w1)' = NightKept(w1) /\ N!Month(w1)' = N!Month(w1)
          /\ N!MonthStart(N!Month(w1))' = N!MonthStart(N!Month(w1))
      BY <2>1 DEF N!Up, NightKept, N!Month, N!MonthStart
    <3>3. \A t : NightWas(w2[p], t)' = NightWas(w2[p], t)
      BY <2>1 DEF NightWas, NightKept
    <3>4. NightSince(p)' = NightSince(p)
      BY <2>1, <3>3 DEF NightSince
    <3>5. NightRun(p)' = NightRun(p)
      BY <2>1, <3>2, <3>4 DEF NightRun
    <3>6. NightLate(p)' = NightLate(p)
      BY <2>1, <3>2 DEF NightLate
    <3> QED BY <2>1, <3>1, <3>2, <3>5, <3>6
  <2> QED BY <2>2, <2>3 DEF NightInv
<1>2. ASSUME NEW p \in Process,
             \/ N!Boot(p) \/ N!Stop(p) \/ N!NightComes(p)
             \/ N!KeepPartitions(p) \/ N!CountWaitlist(p) \/ N!JobFails(p) \/ N!Arm(p)
      PROVE  NightInv'
  BY <1>2, NightBoots, NightStops, NightFires, NightKeeps, NightCounts, NightFails, NightArmed
<1>3. CASE N!Hour
  BY <1>3, NightHour
<1> QED BY <1>1, <1>2, <1>3 DEF N!Next

-----------------------------------------------------------------------------
(* The developer's environment.  While no two runs have crossed and nobody *)
(* makes trouble, a port that a run has found free stays free until the    *)
(* run's own server takes it, and the servers of a run that waits are the  *)
(* only ones on their ports.                                               *)

EnvQuiet == {Absent, "gone"}
EnvStatus == {Absent, "starting", "listening", "orphan", "gone"}

\* A run under way, and one that has not begun or is at its end.
EnvRunning ==
  [at : {"database", "freeing", "migrating", "waiting", "up", "stopping database"},
   does : {"up", "down"}, mine : SUBSET E!Service, todo : SUBSET E!Service, again : BOOLEAN]
EnvResting == {[at |-> "idle"], [at |-> "over"], [at |-> "stopped"]}

EnvTypes ==
  /\ w3 \in {Absent, "compose", "brew", "foreign"}
  /\ w4 \in [E!Service -> E!Kinds \cup {Absent}]
  /\ w6 \in [Process -> [E!Service -> EnvStatus]]
  /\ w7 \in [Process -> EnvRunning \cup EnvResting]
  /\ w9 \in BOOLEAN /\ w10 \in 0 .. EnvTrouble

\* The ports a run has found free.
EnvCleared(x) == (IF x.does = "up" THEN x.mine ELSE E!Service) \ x.todo

EnvHandOver == w1 /\ w2 /\ w3 \in {"brew", "foreign"}

\* One run: what it has started by when.
EnvRun(r) ==
  LET x == w7[r] IN
  /\ x.at \in {"database", "migrating", "waiting", "up"} => x.does = "up"
  /\ x.at = "database" => x.todo = x.mine
  /\ x.at = "stopping database" => x.does = "down"
  /\ x.at \in {"migrating", "stopping database", "up"} => x.todo = {}
  /\ x.at = "up" => x.mine # {}
  /\ x.at \notin {"waiting", "up", "over", "stopped"} => \A s \in E!Service : w6[r][s] = Absent
  /\ x.at \in {"waiting", "up"} =>
       \A s \in E!Service : w6[r][s] # "orphan" /\ (s \notin x.mine => w6[r][s] = Absent)
  /\ x.at = "stopped" /\ w5 # "beneath" => \A s \in E!Service : w6[r][s] \in EnvQuiet
  /\ x.at \in {"freeing", "migrating", "waiting", "up"} /\ x.does = "up" => ~EnvHandOver

\* The runs together, while they have not crossed.
EnvApart ==
  \A r \in Process :
    /\ w7[r].at \in {"freeing", "migrating", "stopping database"} =>
         \A s \in EnvCleared(w7[r]) : w4[s] = Absent /\ \A q \in Process : w6[q][s] \in EnvQuiet
    /\ w7[r].at \in {"waiting", "up"} =>
         /\ \A s \in w7[r].mine :
              /\ w6[r][s] \in {"starting", "listening"} /\ w4[s] = Absent
              /\ s \notin w7[r].todo => w6[r][s] = "listening"
              /\ \A q \in Process \ {r} : w6[q][s] \in EnvQuiet
         /\ w7[r].mine # {} => w3 # Absent

EnvInv ==
  /\ EnvTypes
  /\ \A r \in Process : EnvRun(r)
  /\ ~w9 /\ w10 = 0 => EnvApart

\* Who was killed: at a port as one of ours, above it next to another, with a name like
\* ours, and above a run only with the run.
EnvFair(h, killed) ==
  /\ h.at = 0 => E!isOurs(h.kind)
  /\ h.at > 0 => /\ h.at <= E!MaxParents /\ h.kind.command \in {"node", "wrapper"}
                 /\ \E g \in killed : g.of = h.of /\ g.at = h.at - 1
EnvEnded(h) == h.at > 0 /\ h.of \in Process => w7[h.of].at \in {"over", "stopped"}
EnvSpared == \A h \in w8 : EnvFair(h, w8) /\ EnvEnded(h)

LEMMA EnvPromises ==
  ASSUME EnvInv, EnvSpared PROVE E!ForeignIsSpared /\ E!UpIsMine /\ E!NothingIsLeft /\ E!TypeOK
<1>1. E!ForeignIsSpared
  BY DEF EnvSpared, EnvFair, EnvEnded, E!ForeignIsSpared, E!Running
<1>2. ASSUME NEW r \in Process, w7[r].at = "up", ~w9, w10 = 0
      PROVE  w3 # Absent /\ \A s \in w7[r].mine : w6[r][s] = "listening"
  BY <1>2 DEF EnvInv, EnvApart, EnvRun
<1>3. ASSUME NEW r \in Process, NEW s \in E!Service, w7[r].at = "stopped", w5 # "beneath"
      PROVE  w6[r][s] \in {Absent, "gone"}
  BY <1>3 DEF EnvInv, EnvRun, EnvQuiet
<1>4. E!TypeOK
  BY DEF EnvInv, EnvTypes, E!TypeOK, EnvStatus
<1> QED BY <1>1, <1>2, <1>3, <1>4 DEF E!UpIsMine, E!NothingIsLeft

LEMMA EnvRecords ==
  /\ \A x \in EnvRunning : /\ x.at \in {"database", "freeing", "migrating", "waiting", "up", "stopping database"}
                           /\ x.mine \subseteq E!Service /\ x.todo \subseteq E!Service
                           /\ x.does \in {"up", "down"}
  /\ \A x \in EnvResting : x.at \in {"idle", "over", "stopped"}
  /\ \A x \in EnvRunning \cup EnvResting : x.at = "idle" => x = E!Idle
  /\ \A x \in EnvRunning \cup EnvResting : x.at \notin {"idle", "over", "stopped"} => x \in EnvRunning
<1>1. \A x \in EnvRunning : /\ x.at \in {"database", "freeing", "migrating", "waiting", "up", "stopping database"}
                            /\ x.mine \subseteq E!Service /\ x.todo \subseteq E!Service
                            /\ x.does \in {"up", "down"}
  BY DEF EnvRunning
<1>2. \A x \in EnvResting : x.at \in {"idle", "over", "stopped"} /\ (x.at = "idle" => x = E!Idle)
  BY DEF EnvResting, E!Idle
<1> QED BY <1>1, <1>2

LEMMA EnvInitInv == E!DevEnvAssumption /\ E!Init => EnvInv
<1> SUFFICES ASSUME E!DevEnvAssumption, E!Init PROVE EnvInv
  OBVIOUS
<1>1. w3 \in {Absent, "compose", "brew", "foreign"}
  <2>1. PICK m \in Machines : w3 = m.db
    BY DEF E!Init
  <2> QED BY <2>1 DEF E!DevEnvAssumption
<1>2. w4 \in [E!Service -> E!Kinds \cup {Absent}]
  BY DEF E!Init, E!DevEnvAssumption
<1>3. w6 \in [Process -> [E!Service -> EnvStatus]]
  BY DEF E!Init, EnvStatus
<1>4. w7 \in [Process -> EnvRunning \cup EnvResting]
  BY DEF E!Init, E!Idle, EnvResting
<1>5. w9 \in BOOLEAN /\ w10 \in 0 .. EnvTrouble /\ w8 = {}
  <2>1. w8 = {} /\ w9 = FALSE /\ w10 = 0
    BY DEF E!Init
  <2>2. EnvTrouble \in Nat
    BY DEF E!DevEnvAssumption
  <2>3. w9 \in BOOLEAN
    BY <2>1, Zenon
  <2>4. w10 \in 0 .. EnvTrouble
    BY <2>1, <2>2
  <2> QED BY <2>1, <2>3, <2>4
<1>6. ASSUME NEW r \in Process PROVE w7[r].at = "idle" /\ \A s \in E!Service : w6[r][s] = Absent
  BY DEF E!Init, E!Idle
<1>7. \A r \in Process : EnvRun(r)
  BY <1>6 DEF EnvRun
<1>8. EnvApart
  BY <1>6 DEF EnvApart
<1> QED BY <1>1, <1>2, <1>3, <1>4, <1>5, <1>7, <1>8 DEF EnvInv, EnvTypes

\* A step of one run that starts and stops no server, and takes the database from nobody.
LEMMA EnvMove ==
  ASSUME EnvInv, NEW r \in Process, NEW x \in EnvRunning \cup EnvResting,
         w7' = [w7 EXCEPT ![r] = x], UNCHANGED <<w1, w2, w4, w5, w6, w10>>,
         w3' \in {Absent, "compose", "brew", "foreign"}, EnvHandOver' => EnvHandOver,
         w9' \in BOOLEAN, w9 => w9',
         EnvRun(r)',
         ~w9' /\ w10 = 0 =>
           /\ x.at \in {"freeing", "migrating", "stopping database"} =>
                \A s \in EnvCleared(x) : w4[s] = Absent /\ \A q \in Process : w6[q][s] \in EnvQuiet
           /\ x.at \in {"waiting", "up"} =>
                /\ \A s \in x.mine :
                     /\ w6[r][s] \in {"starting", "listening"} /\ w4[s] = Absent
                     /\ s \notin x.todo => w6[r][s] = "listening"
                     /\ \A q \in Process \ {r} : w6[q][s] \in EnvQuiet
                /\ x.mine # {} => w3' # Absent
           /\ \A q \in Process \ {r} : w7[q].at \in {"waiting", "up"} /\ w7[q].mine # {} => w3' # Absent
  PROVE  EnvInv'
<1>1. EnvTypes'
  BY DEF EnvInv, EnvTypes
<1>2. w7'[r] = x /\ \A q \in Process \ {r} : w7'[q] = w7[q]
  BY DEF EnvInv, EnvTypes
<1>3. ASSUME NEW q \in Process PROVE EnvRun(q)'
  <2>1. CASE q = r
    BY <2>1, Zenon
  <2>2. CASE q # r
    <3>1. EnvRun(q) /\ w7'[q] = w7[q] /\ w6' = w6 /\ w5' = w5
      BY <1>2, <2>2 DEF EnvInv
    <3> QED BY <3>1 DEF EnvRun
  <2> QED BY <2>1, <2>2
<1>4. ASSUME ~w9', w10' = 0 PROVE EnvApart'
  <2>1. EnvApart /\ w10 = 0
    BY <1>4 DEF EnvInv
  <2>2. ASSUME NEW q \in Process, w7'[q].at \in {"freeing", "migrating", "stopping database"},
               NEW s \in EnvCleared(w7'[q])
        PROVE  w4'[s] = Absent /\ \A p \in Process : w6'[p][s] \in EnvQuiet
    <3>1. CASE q = r
      BY <1>2, <1>4, <2>1, <2>2, <3>1
    <3>2. CASE q # r
      BY <1>2, <2>1, <2>2, <3>2 DEF EnvApart
    <3> QED BY <3>1, <3>2
  <2>3. ASSUME NEW q \in Process, w7'[q].at \in {"waiting", "up"}
        PROVE  /\ \A s \in w7'[q].mine :
                    /\ w6'[q][s] \in {"starting", "listening"} /\ w4'[s] = Absent
                    /\ s \notin w7'[q].todo => w6'[q][s] = "listening"
                    /\ \A p \in Process \ {q} : w6'[p][s] \in EnvQuiet
               /\ w7'[q].mine # {} => w3' # Absent
    <3>1. CASE q = r
      BY <1>2, <1>4, <2>1, <2>3, <3>1
    <3>2. CASE q # r
      <4>1. w7'[q] = w7[q] /\ w7[q].at \in {"waiting", "up"} /\ w6' = w6 /\ w4' = w4
        BY <1>2, <2>3, <3>2
      <4>2. \A s \in w7[q].mine :
              /\ w6[q][s] \in {"starting", "listening"} /\ w4[s] = Absent
              /\ s \notin w7[q].todo => w6[q][s] = "listening"
              /\ \A p \in Process \ {q} : w6[p][s] \in EnvQuiet
        BY <2>1, <4>1 DEF EnvApart
      <4>3. w7[q].mine # {} => w3' # Absent
        BY <1>4, <2>1, <3>2, <4>1
      <4> QED BY <4>1, <4>2, <4>3
    <3> QED BY <3>1, <3>2
  <2> QED BY <2>2, <2>3 DEF EnvApart, EnvCleared, EnvQuiet
<1> QED BY <1>1, <1>3, <1>4 DEF EnvInv

\* A step that only ends runs, and servers with them.
LEMMA EnvEnd ==
  ASSUME EnvInv, UNCHANGED <<w1, w2, w3, w4, w5, w9, w10>>,
         w6' \in [Process -> [E!Service -> EnvStatus]], w7' \in [Process -> EnvRunning \cup EnvResting],
         \A q \in Process : \A s \in E!Service :
            (w6[q][s] \in EnvQuiet => w6'[q][s] \in EnvQuiet),
         \A q \in Process :
           \/ w7'[q] = w7[q] /\ (w7[q].at \notin {"over", "stopped"} => w6'[q] = w6[q])
           \/ w7'[q] = [at |-> "over"]
           \/ /\ w7'[q] = [at |-> "stopped"]
              /\ w5 # "beneath" => \A s \in E!Service : w6'[q][s] \in EnvQuiet
           \/ /\ w7'[q] = [w7[q] EXCEPT !.again = TRUE] /\ w7[q].at = "freeing" /\ w6'[q] = w6[q]
  PROVE  EnvInv'
<1>1. EnvTypes'
  BY DEF EnvInv, EnvTypes
<1>2. ASSUME NEW q \in Process
      PROVE  \/ w7'[q] = w7[q] /\ (w7[q].at \notin {"over", "stopped"} => w6'[q] = w6[q])
             \/ /\ w7'[q].at \in {"over", "stopped"}
                /\ w7'[q].at = "stopped" /\ w5 # "beneath" => \A s \in E!Service : w6'[q][s] \in EnvQuiet
             \/ /\ w7'[q].at = "freeing" /\ w7[q].at = "freeing" /\ w6'[q] = w6[q]
                /\ w7'[q].does = w7[q].does /\ w7'[q].mine = w7[q].mine /\ w7'[q].todo = w7[q].todo
  <2>1. w7[q] \in EnvRunning \cup EnvResting
    BY DEF EnvInv, EnvTypes
  <2>2. CASE w7'[q] = [w7[q] EXCEPT !.again = TRUE] /\ w7[q].at = "freeing" /\ w6'[q] = w6[q]
    <3>1. w7[q] \in EnvRunning
      BY <2>1, <2>2, EnvRecords
    <3> QED BY <2>2, <3>1 DEF EnvRunning
  <2> QED BY <2>2
<1>3. ASSUME NEW q \in Process PROVE EnvRun(q)'
  <2>1. EnvRun(q)
    BY DEF EnvInv
  <2>2. CASE w7'[q] = w7[q] /\ (w7[q].at \notin {"over", "stopped"} => w6'[q] = w6[q])
    <3>1. CASE w7[q].at \in {"over", "stopped"}
      BY <2>1, <2>2, <3>1 DEF EnvRun, EnvHandOver
    <3>2. CASE w7[q].at \notin {"over", "stopped"}
      BY <2>1, <2>2, <3>2 DEF EnvRun, EnvHandOver
    <3> QED BY <3>1, <3>2
  <2>3. CASE /\ w7'[q].at \in {"over", "stopped"}
             /\ w7'[q].at = "stopped" /\ w5 # "beneath" => \A s \in E!Service : w6'[q][s] \in EnvQuiet
    BY <2>3 DEF EnvRun, EnvQuiet
  <2>4. CASE /\ w7'[q].at = "freeing" /\ w7[q].at = "freeing" /\ w6'[q] = w6[q]
             /\ w7'[q].does = w7[q].does /\ w7'[q].mine = w7[q].mine /\ w7'[q].todo = w7[q].todo
    BY <2>1, <2>4 DEF EnvRun, EnvHandOver
  <2> QED BY <1>2, <2>2, <2>3, <2>4
<1>4. ASSUME ~w9', w10' = 0 PROVE EnvApart'
  <2>1. EnvApart
    BY <1>4 DEF EnvInv
  <2>2. ASSUME NEW q \in Process, w7'[q].at \in {"freeing", "migrating", "stopping database"},
               NEW s \in EnvCleared(w7'[q])
        PROVE  w4'[s] = Absent /\ \A p \in Process : w6'[p][s] \in EnvQuiet
    <3>1. w7[q].at \in {"freeing", "migrating", "stopping database"} /\ s \in EnvCleared(w7[q])
      BY <1>2, <2>2 DEF EnvCleared
    <3>2. w4[s] = Absent /\ \A p \in Process : w6[p][s] \in EnvQuiet
      BY <2>1, <3>1 DEF EnvApart
    <3>3. s \in E!Service
      <4>1. w7[q] \in EnvRunning
        <5>1. w7[q] \in EnvRunning \cup EnvResting
          BY DEF EnvInv, EnvTypes
        <5>2. w7[q].at \notin {"idle", "over", "stopped"}
          BY <3>1
        <5> QED BY <5>1, <5>2, EnvRecords, Zenon
      <4> QED BY <3>1, <4>1, EnvRecords DEF EnvCleared
    <3> QED BY <3>2, <3>3
  <2>3. ASSUME NEW q \in Process, w7'[q].at \in {"waiting", "up"}
        PROVE  /\ \A s \in w7'[q].mine :
                    /\ w6'[q][s] \in {"starting", "listening"} /\ w4'[s] = Absent
                    /\ s \notin w7'[q].todo => w6'[q][s] = "listening"
                    /\ \A p \in Process \ {q} : w6'[p][s] \in EnvQuiet
               /\ w7'[q].mine # {} => w3' # Absent
    <3>1. w7'[q] = w7[q] /\ w6'[q] = w6[q]
      BY <1>2, <2>3
    <3>2. w7[q].mine \subseteq E!Service
      BY <2>3, <3>1, EnvRecords DEF EnvInv, EnvTypes
    <3>3. /\ \A s \in w7[q].mine :
                /\ w6[q][s] \in {"starting", "listening"} /\ w4[s] = Absent
                /\ s \notin w7[q].todo => w6[q][s] = "listening"
                /\ \A p \in Process \ {q} : w6[p][s] \in EnvQuiet
          /\ w7[q].mine # {} => w3 # Absent
      BY <2>1, <2>3, <3>1 DEF EnvApart
    <3> QED BY <3>1, <3>2, <3>3
  <2> QED BY <2>2, <2>3 DEF EnvApart, EnvCleared, EnvQuiet
<1> QED BY <1>1, <1>3, <1>4 DEF EnvInv

-----------------------------------------------------------------------------
(* The developer's environment, step by step. *)

\* What is known of a run under way.
LEMMA EnvAt ==
  ASSUME EnvInv, NEW r \in Process
  PROVE  /\ w7 \in [Process -> EnvRunning \cup EnvResting]
         /\ w7[r] \in EnvRunning \cup EnvResting
         /\ w7[r].at \notin {"idle", "over", "stopped"} => w7[r] \in EnvRunning
         /\ w7[r].at = "idle" => w7[r] = E!Idle
         /\ EnvRun(r)
BY EnvRecords DEF EnvInv, EnvTypes

LEMMA EnvBegins ==
  ASSUME EnvInv, NEW r \in Process, (\E skip \in Skips : E!Up(r, skip)) \/ E!Down(r)
  PROVE  EnvInv'
<1>1. w7[r].at = "idle"
  BY DEF E!Up, E!Down, E!Idle
<1>2. PICK x \in EnvRunning : /\ w7' = [w7 EXCEPT ![r] = x]
                              /\ \/ x.at = "database" /\ x.does = "up" /\ x.todo = x.mine
                                 \/ x.at = "freeing" /\ x.does = "down" /\ x.todo = E!Service
  <2>1. CASE E!Down(r)
    <3> DEFINE x == [at |-> "freeing", does |-> "down", mine |-> {}, todo |-> E!Service, again |-> FALSE]
    <3>1. x \in EnvRunning /\ w7' = [w7 EXCEPT ![r] = x]
      BY <2>1 DEF E!Down, EnvRunning
    <3> QED BY <3>1
  <2>2. ASSUME NEW skip \in Skips, E!Up(r, skip)
        PROVE  \E x \in EnvRunning : /\ w7' = [w7 EXCEPT ![r] = x]
                                      /\ x.at = "database" /\ x.does = "up" /\ x.todo = x.mine
    <3> DEFINE x == [at |-> "database", does |-> "up", mine |-> E!Selected(skip),
                     todo |-> E!Selected(skip), again |-> FALSE]
    <3>1. x \in EnvRunning /\ w7' = [w7 EXCEPT ![r] = x]
      BY <2>2 DEF E!Up, EnvRunning, E!Selected
    <3> QED BY <3>1
  <2> QED BY <2>1, <2>2
<1>3. UNCHANGED <<w1, w2, w3, w4, w5, w6, w8, w9, w10>>
  BY DEF E!Up, E!Down
<1>4. w7'[r] = x
  BY <1>2, EnvAt
<1>5. EnvRun(r)'
  <2>1. \A s \in E!Service : w6[r][s] = Absent
    BY <1>1, EnvAt DEF EnvRun
  <2> QED BY <1>2, <1>3, <1>4, <2>1 DEF EnvRun
<1>6. x.at = "freeing" => EnvCleared(x) = {}
  BY <1>2 DEF EnvCleared
<1>7. \A q \in Process : ~w9 /\ w10 = 0 /\ w7[q].at \in {"waiting", "up"} /\ w7[q].mine # {} => w3 # Absent
  BY DEF EnvInv, EnvApart
<1>8. /\ w3' \in {Absent, "compose", "brew", "foreign"} /\ w9' \in BOOLEAN /\ (w9 => w9')
      /\ EnvHandOver' => EnvHandOver
  BY <1>3 DEF EnvInv, EnvTypes, EnvHandOver
<1> QED BY <1>2, <1>3, <1>5, <1>6, <1>7, <1>8, EnvMove

\* A run goes to another place, and its record is another only in that.
LEMMA EnvGoes ==
  ASSUME EnvInv, NEW r \in Process, w7[r].at \notin {"idle", "over", "stopped"},
         NEW to \in {"database", "freeing", "migrating", "waiting", "up", "stopping database"}
  PROVE  \E x \in EnvRunning :
           /\ [w7 EXCEPT ![r].at = to] = [w7 EXCEPT ![r] = x]
           /\ x.at = to /\ x.does = w7[r].does /\ x.mine = w7[r].mine /\ x.todo = w7[r].todo
           /\ EnvCleared(x) = EnvCleared(w7[r])
<1> DEFINE x == [w7[r] EXCEPT !.at = to]
<1>1. w7[r] \in EnvRunning
  BY EnvAt
<1>2. x \in EnvRunning /\ x.at = to /\ x.does = w7[r].does /\ x.mine = w7[r].mine /\ x.todo = w7[r].todo
  BY <1>1 DEF EnvRunning
<1>3. [w7 EXCEPT ![r].at = to] = [w7 EXCEPT ![r] = x]
  BY EnvAt
<1> HIDE DEF x
<1> QED BY <1>2, <1>3 DEF EnvCleared

\* The database of a run that waits, while runs are apart.
LEMMA EnvDatabase ==
  ASSUME EnvInv, ~w9, w10 = 0
  PROVE  \A q \in Process : w7[q].at \in {"waiting", "up"} /\ w7[q].mine # {} => w3 # Absent
BY DEF EnvInv, EnvApart

LEMMA EnvFreed ==
  ASSUME EnvInv, NEW r \in Process, E!PortsAreFree(r)
  PROVE  EnvInv'
<1> DEFINE to == IF w7[r].does = "up" THEN "migrating" ELSE "stopping database"
<1>1. w7[r].at = "freeing" /\ w7[r].todo = {} /\ w7' = [w7 EXCEPT ![r].at = to]
      /\ UNCHANGED <<w1, w2, w3, w4, w5, w6, w8, w9, w10>>
  BY DEF E!PortsAreFree, E!Goes
<1>2. to \in {"database", "freeing", "migrating", "waiting", "up", "stopping database"}
      /\ to \in {"migrating", "stopping database"} /\ (to = "migrating" <=> w7[r].does = "up")
      /\ w7[r].at \notin {"idle", "over", "stopped"}
  BY <1>1
<1> HIDE DEF to
<1>3. PICK x \in EnvRunning :
        /\ [w7 EXCEPT ![r].at = to] = [w7 EXCEPT ![r] = x]
        /\ x.at = to /\ x.does = w7[r].does /\ x.mine = w7[r].mine /\ x.todo = w7[r].todo
        /\ EnvCleared(x) = EnvCleared(w7[r])
  BY <1>2, EnvGoes
<1>4. w7' = [w7 EXCEPT ![r] = x] /\ w7'[r] = x /\ x.does \in {"up", "down"}
  BY <1>1, <1>3, EnvAt, EnvRecords
<1>5. EnvRun(r)'
  <2>1. EnvRun(r)
    BY EnvAt
  <2> QED BY <1>1, <1>2, <1>3, <1>4, <2>1 DEF EnvRun, EnvHandOver
<1>6. ~w9 /\ w10 = 0 =>
        \A s \in EnvCleared(x) : w4[s] = Absent /\ \A q \in Process : w6[q][s] \in EnvQuiet
  BY <1>1, <1>3 DEF EnvInv, EnvApart
<1>7. /\ w3' \in {Absent, "compose", "brew", "foreign"} /\ w9' \in BOOLEAN /\ (w9 => w9')
      /\ EnvHandOver' => EnvHandOver
  BY <1>1 DEF EnvInv, EnvTypes, EnvHandOver
<1>8. x.at \notin {"waiting", "up"}
  BY <1>2, <1>3
<1> QED BY <1>1, <1>3, <1>4, <1>5, <1>6, <1>7, <1>8, EnvDatabase, EnvMove

\* What a run that ends leaves of its servers.
LEMMA EnvTerminated ==
  ASSUME EnvInv, NEW r \in Process, NEW kinds
  PROVE  LET row == E!Terminated(w6[r], kinds) IN
         /\ row \in [E!Service -> EnvStatus]
         /\ \A s \in E!Service : w6[r][s] \in EnvQuiet => row[s] \in EnvQuiet
         /\ (w5 \notin kinds /\ \A s \in E!Service : w6[r][s] # "orphan") =>
               \A s \in E!Service : row[s] \in EnvQuiet
<1>1. w6[r] \in [E!Service -> EnvStatus]
  BY DEF EnvInv, EnvTypes
<1> QED BY <1>1 DEF E!Terminated, EnvStatus, EnvQuiet

LEMMA EnvFails ==
  ASSUME EnvInv, NEW r \in Process, E!Fail(r), UNCHANGED <<w1, w2, w3, w4, w5, w8, w9, w10>>
  PROVE  EnvInv'
<1> DEFINE row == E!Terminated(w6[r], {"beneath", "exec"})
<1>1. w7' = [w7 EXCEPT ![r] = [at |-> "over"]] /\ w6' = [w6 EXCEPT ![r] = row]
  BY DEF E!Fail
<1>2. row \in [E!Service -> EnvStatus] /\ \A s \in E!Service : w6[r][s] \in EnvQuiet => row[s] \in EnvQuiet
  BY EnvTerminated
<1> HIDE DEF row
<1>3. /\ w6 \in [Process -> [E!Service -> EnvStatus]] /\ w7 \in [Process -> EnvRunning \cup EnvResting]
      /\ [at |-> "over"] \in EnvResting
  BY DEF EnvInv, EnvTypes, EnvResting
<1>4. w6' \in [Process -> [E!Service -> EnvStatus]] /\ w7' \in [Process -> EnvRunning \cup EnvResting]
  BY <1>1, <1>2, <1>3
<1>5. \A q \in Process : w7'[q] = [at |-> "over"] \/ (w7'[q] = w7[q] /\ w6'[q] = w6[q])
  BY <1>1, <1>3
<1>6. \A q \in Process : \A s \in E!Service : w6[q][s] \in EnvQuiet => w6'[q][s] \in EnvQuiet
  BY <1>1, <1>2, <1>3
<1> QED BY <1>4, <1>5, <1>6, EnvEnd

LEMMA EnvGivesUp ==
  ASSUME EnvInv, NEW r \in Process, E!GiveUpPort(r) \/ E!TimeOut(r)
  PROVE  EnvInv'
<1>1. E!Fail(r) /\ UNCHANGED <<w1, w2, w3, w4, w5, w8, w9, w10>>
  BY DEF E!GiveUpPort, E!TimeOut
<1> QED BY <1>1, EnvFails

LEMMA EnvInterrupt ==
  ASSUME E!DevEnvAssumption, EnvInv, NEW r \in Process, E!Interrupt(r)
  PROVE  EnvInv'
<1> DEFINE row == E!Terminated(w6[r], {"beneath"})
<1>1. /\ w7' = [w7 EXCEPT ![r] = [at |-> "stopped"]] /\ w6' = [w6 EXCEPT ![r] = row]
      /\ UNCHANGED <<w1, w2, w3, w4, w5, w8, w9, w10>>
      /\ w7[r].at \notin {"idle", "stopped", "over"}
  BY DEF E!Interrupt, E!Running
<1>2. \A s \in E!Service : w6[r][s] # "orphan"
  <2>1. EnvRun(r) /\ w7[r] \in EnvRunning
    BY <1>1, EnvAt
  <2> QED BY <1>1, <2>1, EnvRecords DEF EnvRun, E!DevEnvAssumption
<1>3. /\ row \in [E!Service -> EnvStatus]
      /\ \A s \in E!Service : w6[r][s] \in EnvQuiet => row[s] \in EnvQuiet
      /\ w5 # "beneath" => \A s \in E!Service : row[s] \in EnvQuiet
  BY <1>2, EnvTerminated
<1> HIDE DEF row
<1>4. /\ w6 \in [Process -> [E!Service -> EnvStatus]] /\ w7 \in [Process -> EnvRunning \cup EnvResting]
      /\ [at |-> "stopped"] \in EnvResting
  BY DEF EnvInv, EnvTypes, EnvResting
<1>5. w6' \in [Process -> [E!Service -> EnvStatus]] /\ w7' \in [Process -> EnvRunning \cup EnvResting]
  BY <1>1, <1>3, <1>4
<1>6. \A q \in Process :
        \/ /\ w7'[q] = [at |-> "stopped"]
           /\ w5 # "beneath" => \A s \in E!Service : w6'[q][s] \in EnvQuiet
        \/ w7'[q] = w7[q] /\ w6'[q] = w6[q]
  BY <1>1, <1>3, <1>4
<1>7. \A q \in Process : \A s \in E!Service : w6[q][s] \in EnvQuiet => w6'[q][s] \in EnvQuiet
  BY <1>1, <1>3, <1>4
<1> QED BY <1>1, <1>5, <1>6, <1>7, EnvEnd

LEMMA EnvHandsOver ==
  ASSUME E!DevEnvAssumption, EnvInv, NEW r \in Process, E!HandOver(r)
  PROVE  EnvInv'
<1>1. /\ w7[r].at = "database" /\ w1 /\ w2 /\ UNCHANGED <<w1, w2, w4, w5, w8, w9, w10>>
      /\ \/ w3 = "brew" /\ w3' = Absent /\ UNCHANGED <<w7, w6>>
         \/ w3 = "foreign" /\ UNCHANGED w3 /\ E!Fail(r)
  BY DEF E!HandOver
<1>2. CASE w3 = "brew" /\ w3' = Absent /\ UNCHANGED <<w7, w6>>
  <2>1. EnvTypes'
    BY <1>1, <1>2 DEF EnvInv, EnvTypes
  <2>2. EnvHandOver /\ ~EnvHandOver'
    BY <1>1, <1>2 DEF EnvHandOver, E!DevEnvAssumption
  <2>3. ASSUME NEW q \in Process PROVE EnvRun(q)' /\ (w7[q].at \in {"waiting", "up"} => w7[q].does = "down")
    <3>1. EnvRun(q) /\ w7[q] \in EnvRunning \cup EnvResting
      BY EnvAt
    <3>2. EnvRun(q)'
      BY <1>1, <1>2, <2>2, <3>1 DEF EnvRun
    <3>3. w7[q].at \notin {"waiting", "up"}
      BY <2>2, <3>1 DEF EnvRun
    <3> QED BY <3>2, <3>3
  <2>4. \A q \in Process : w7[q].at \notin {"waiting", "up"}
    BY <2>2, EnvAt DEF EnvRun
  <2>5. ASSUME ~w9', w10' = 0 PROVE EnvApart'
    <3>1. EnvApart /\ w7' = w7 /\ w6' = w6 /\ w4' = w4
      BY <1>1, <1>2, <2>5 DEF EnvInv
    <3>2. ASSUME NEW q \in Process, w7'[q].at \in {"freeing", "migrating", "stopping database"},
                 NEW s \in EnvCleared(w7'[q])
          PROVE  w4'[s] = Absent /\ \A p \in Process : w6'[p][s] \in EnvQuiet
      BY <3>1, <3>2 DEF EnvApart
    <3>3. \A q \in Process : w7'[q].at \notin {"waiting", "up"}
      BY <2>4, <3>1
    <3> QED BY <3>2, <3>3 DEF EnvApart, EnvCleared, EnvQuiet
  <2> QED BY <2>1, <2>3, <2>5 DEF EnvInv
<1>3. CASE w3 = "foreign" /\ UNCHANGED w3 /\ E!Fail(r)
  BY <1>1, <1>3, EnvFails
<1> QED BY <1>1, <1>2, <1>3

LEMMA EnvEnsures ==
  ASSUME E!DevEnvAssumption, EnvInv, NEW r \in Process, E!EnsureDatabase(r)
  PROVE  EnvInv'
<1>1. /\ w7[r].at = "database" /\ ~EnvHandOver /\ UNCHANGED <<w1, w2, w4, w5, w8, w9, w10>>
      /\ \/ /\ w3 # Absent \/ w1 \/ w2
            /\ w3' = (IF w3 # Absent THEN w3 ELSE IF w1 THEN "compose" ELSE "brew")
            /\ w7' = [w7 EXCEPT ![r].at = "freeing"] /\ UNCHANGED w6
         \/ w3 = Absent /\ UNCHANGED w3 /\ E!Fail(r)
  BY DEF E!EnsureDatabase, E!Goes, EnvHandOver
<1>2. CASE /\ w3 # Absent \/ w1 \/ w2
           /\ w3' = (IF w3 # Absent THEN w3 ELSE IF w1 THEN "compose" ELSE "brew")
           /\ w7' = [w7 EXCEPT ![r].at = "freeing"] /\ UNCHANGED w6
  <2>1. PICK x \in EnvRunning :
          /\ [w7 EXCEPT ![r].at = "freeing"] = [w7 EXCEPT ![r] = x]
          /\ x.at = "freeing" /\ x.does = w7[r].does /\ x.mine = w7[r].mine /\ x.todo = w7[r].todo
          /\ EnvCleared(x) = EnvCleared(w7[r])
    <3>1. "freeing" \in {"database", "freeing", "migrating", "waiting", "up", "stopping database"}
          /\ w7[r].at \notin {"idle", "over", "stopped"}
      BY <1>1
    <3> QED BY <3>1, EnvGoes
  <2>2. w7' = [w7 EXCEPT ![r] = x] /\ w7'[r] = x /\ EnvRun(r)
    BY <1>2, <2>1, EnvAt
  <2>3. w3' # Absent /\ w3' \in {Absent, "compose", "brew", "foreign"} /\ ~EnvHandOver'
    <3>1. w3 \in {Absent, "compose", "brew", "foreign"}
      BY DEF EnvInv, EnvTypes
    <3> QED BY <1>1, <1>2, <3>1 DEF EnvHandOver, E!DevEnvAssumption
  <2>4. EnvRun(r)'
    BY <1>1, <1>2, <2>1, <2>2, <2>3 DEF EnvRun
  <2>5. EnvCleared(x) = {}
    BY <1>1, <2>1, <2>2 DEF EnvRun, EnvCleared
  <2>6. w9' \in BOOLEAN /\ (w9 => w9') /\ UNCHANGED <<w1, w2, w4, w5, w6, w8, w10>>
    BY <1>1, <1>2 DEF EnvInv, EnvTypes
  <2> QED BY <2>1, <2>2, <2>3, <2>4, <2>5, <2>6, EnvMove
<1>3. CASE w3 = Absent /\ UNCHANGED w3 /\ E!Fail(r)
  BY <1>1, <1>3, EnvFails
<1> QED BY <1>1, <1>2, <1>3

LEMMA EnvStops ==
  ASSUME E!DevEnvAssumption, EnvInv, NEW r \in Process, E!StopDatabase(r)
  PROVE  EnvInv'
<1> DEFINE x == [at |-> "over"]
<1>1. /\ w7[r].at = "stopping database" /\ UNCHANGED <<w1, w2, w4, w5, w6, w8, w9, w10>>
      /\ w3' = (IF (w1 /\ w3 = "compose") \/ (w2 /\ w3 = "brew") THEN Absent ELSE w3)
      /\ w7' = [w7 EXCEPT ![r] = x]
  BY DEF E!StopDatabase
<1>2. x \in EnvResting /\ x.at = "over"
  BY DEF EnvResting
<1> HIDE DEF x
<1>3. w7'[r] = x /\ EnvRun(r) /\ w7[r] \in EnvRunning
  BY <1>1, EnvAt
<1>4. /\ w3' \in {Absent, "compose", "brew", "foreign"} /\ w9' \in BOOLEAN /\ (w9 => w9')
      /\ EnvHandOver' => EnvHandOver
  BY <1>1 DEF EnvInv, EnvTypes, EnvHandOver, E!DevEnvAssumption
<1>5. EnvRun(r)'
  BY <1>2, <1>3 DEF EnvRun
<1>6. ASSUME ~w9, w10 = 0, NEW q \in Process, w7[q].at \in {"waiting", "up"}, w7[q].mine # {}
      PROVE  FALSE
  <2>1. EnvCleared(w7[r]) = E!Service
    BY <1>1, <1>3 DEF EnvRun, EnvCleared
  <2>2. PICK s \in w7[q].mine : TRUE
    BY <1>6
  <2>3. s \in E!Service
    <3>1. w7[q] \in EnvRunning
      BY <1>6, EnvAt
    <3> QED BY <2>2, <3>1, EnvRecords
  <2>4. w6[q][s] \in EnvQuiet
    BY <1>1, <1>6, <2>1, <2>3 DEF EnvInv, EnvApart
  <2>5. w6[q][s] \in {"starting", "listening"}
    BY <1>6, <2>2 DEF EnvInv, EnvApart
  <2> QED BY <2>4, <2>5 DEF EnvQuiet, E!DevEnvAssumption
<1> QED BY <1>1, <1>2, <1>4, <1>5, <1>6, EnvMove

LEMMA EnvFinds ==
  ASSUME E!DevEnvAssumption, EnvInv, NEW r \in Process, E!FindFree(r)
  PROVE  EnvInv'
<1> DEFINE f == E!First(w7[r].todo)
           x == [w7[r] EXCEPT !.todo = @ \ {f}, !.again = FALSE]
<1>1. /\ w7[r].at = "freeing" /\ E!Free(f) /\ UNCHANGED <<w1, w2, w3, w4, w5, w6, w8, w10>>
      /\ w9' = (w9 \/ \E q \in Process : w6[q][f] = "starting")
  BY DEF E!FindFree
<1>2. w7[r] \in EnvRunning /\ EnvRun(r)
  BY <1>1, EnvAt
<1>3. w7' = [w7 EXCEPT ![r] = x]
  <2>1. w7' = [w7 EXCEPT ![r].todo = @ \ {f}, ![r].again = FALSE]
    BY DEF E!FindFree
  <2> QED BY <1>2, <2>1, EnvAt
<1> HIDE DEF f
<1>4. x \in EnvRunning /\ x.at = "freeing" /\ x.does = w7[r].does /\ x.mine = w7[r].mine /\ x.todo = w7[r].todo \ {f}
  BY <1>1, <1>2 DEF EnvRunning
<1> HIDE DEF x
<1>5. w7'[r] = x
  BY <1>3, EnvAt
<1>6. EnvRun(r)'
  BY <1>1, <1>2, <1>4, <1>5 DEF EnvRun, EnvHandOver
<1>7. ASSUME ~w9', w10 = 0, NEW s \in EnvCleared(x)
      PROVE  w4[s] = Absent /\ \A q \in Process : w6[q][s] \in EnvQuiet
  <2>1. s \in E!Service /\ (s = f \/ s \in EnvCleared(w7[r]))
    BY <1>2, <1>4, <1>7, EnvRecords DEF EnvCleared
  <2>2. CASE s = f
    <3>1. w4[s] = Absent /\ \A q \in Process : w6[q][s] \notin {"starting", "listening", "orphan"}
      BY <1>1, <1>7, <2>2 DEF E!Free, E!Listens
    <3>2. \A q \in Process : w6[q][s] \in EnvStatus
      BY <2>1 DEF EnvInv, EnvTypes
    <3> QED BY <3>1, <3>2 DEF EnvQuiet, EnvStatus
  <2>3. CASE s \in EnvCleared(w7[r])
    BY <1>1, <1>7, <2>3 DEF EnvInv, EnvApart
  <2> QED BY <2>1, <2>2, <2>3
<1>8. /\ w3' \in {Absent, "compose", "brew", "foreign"} /\ (w9 => w9')
      /\ EnvHandOver' => EnvHandOver
  BY <1>1 DEF EnvInv, EnvTypes, EnvHandOver
<1>9. w9' \in BOOLEAN
  <2>1. w9 \in BOOLEAN
    BY DEF EnvInv, EnvTypes
  <2> QED BY <1>1, <2>1, Zenon
<1>10. ~w9' /\ w10 = 0 => \A q \in Process : w7[q].at \in {"waiting", "up"} /\ w7[q].mine # {} => w3' # Absent
  BY <1>1, EnvDatabase
<1> QED BY <1>1, <1>3, <1>4, <1>6, <1>7, <1>8, <1>9, <1>10, EnvMove

LEMMA EnvAnswers ==
  ASSUME E!DevEnvAssumption, EnvInv, NEW r \in Process, E!IsReady(r)
  PROVE  EnvInv'
<1> DEFINE f == E!First(w7[r].todo)
           x == [w7[r] EXCEPT !.todo = @ \ {f}]
<1>1. /\ w7[r].at = "waiting" /\ ~E!Free(f) /\ UNCHANGED <<w1, w2, w3, w4, w5, w6, w8, w9, w10>>
  BY DEF E!IsReady
<1>2. w7[r] \in EnvRunning /\ EnvRun(r)
  BY <1>1, EnvAt
<1>3. w7' = [w7 EXCEPT ![r] = x]
  <2>1. w7' = [w7 EXCEPT ![r].todo = @ \ {f}]
    BY DEF E!IsReady
  <2> QED BY <1>2, <2>1, EnvAt
<1> HIDE DEF f
<1>4. x \in EnvRunning /\ x.at = "waiting" /\ x.does = w7[r].does /\ x.mine = w7[r].mine /\ x.todo = w7[r].todo \ {f}
  BY <1>1, <1>2 DEF EnvRunning
<1> HIDE DEF x
<1>5. w7'[r] = x
  BY <1>3, EnvAt
<1>6. EnvRun(r)'
  BY <1>1, <1>2, <1>4, <1>5 DEF EnvRun, EnvHandOver
<1>7. ASSUME ~w9, w10 = 0, NEW s \in x.mine
      PROVE  /\ w6[r][s] \in {"starting", "listening"} /\ w4[s] = Absent
             /\ s \notin x.todo => w6[r][s] = "listening"
             /\ \A q \in Process \ {r} : w6[q][s] \in EnvQuiet
  <2>1. /\ w6[r][s] \in {"starting", "listening"} /\ w4[s] = Absent
        /\ s \notin w7[r].todo => w6[r][s] = "listening"
        /\ \A q \in Process \ {r} : w6[q][s] \in EnvQuiet
    BY <1>1, <1>4, <1>7 DEF EnvInv, EnvApart
  <2>2. s = f => w6[r][s] = "listening"
    BY <1>1, <2>1 DEF E!Free, E!Listens, EnvQuiet, E!DevEnvAssumption
  <2> QED BY <1>4, <2>1, <2>2
<1>8. /\ w3' \in {Absent, "compose", "brew", "foreign"} /\ w9' \in BOOLEAN /\ (w9 => w9')
      /\ EnvHandOver' => EnvHandOver
  BY <1>1 DEF EnvInv, EnvTypes, EnvHandOver
<1>9. ~w9' /\ w10 = 0 => \A q \in Process : w7[q].at \in {"waiting", "up"} /\ w7[q].mine # {} => w3' # Absent
  BY <1>1, EnvDatabase
<1> QED BY <1>1, <1>3, <1>4, <1>6, <1>7, <1>8, <1>9, EnvMove

LEMMA EnvIsUp ==
  ASSUME EnvInv, NEW r \in Process, E!EverythingIsUp(r)
  PROVE  EnvInv'
<1>1. /\ w7[r].at = "waiting" /\ w7[r].todo = {} /\ UNCHANGED <<w1, w2, w3, w4, w5, w6, w8, w9, w10>>
      /\ IF w7[r].mine = {} THEN w7' = [w7 EXCEPT ![r] = [at |-> "over"]]
         ELSE w7' = [w7 EXCEPT ![r].at = "up"]
  BY DEF E!EverythingIsUp, E!Goes
<1>2. w7[r] \in EnvRunning /\ EnvRun(r) /\ w7 \in [Process -> EnvRunning \cup EnvResting]
  BY <1>1, EnvAt
<1>3. CASE w7[r].mine = {}
  <2>1. [at |-> "over"] \in EnvResting
    BY DEF EnvResting
  <2>2. w7' \in [Process -> EnvRunning \cup EnvResting]
    BY <1>1, <1>2, <1>3, <2>1
  <2>3. \A q \in Process : w7'[q] = [at |-> "over"] \/ (w7'[q] = w7[q] /\ w6'[q] = w6[q])
    BY <1>1, <1>2, <1>3
  <2>4. w6' \in [Process -> [E!Service -> EnvStatus]]
    BY <1>1 DEF EnvInv, EnvTypes
  <2>5. \A q \in Process : \A s \in E!Service : w6[q][s] \in EnvQuiet => w6'[q][s] \in EnvQuiet
    BY <1>1
  <2> QED BY <1>1, <2>2, <2>3, <2>4, <2>5, EnvEnd
<1>4. CASE w7[r].mine # {}
  <2>1. PICK x \in EnvRunning :
          /\ [w7 EXCEPT ![r].at = "up"] = [w7 EXCEPT ![r] = x]
          /\ x.at = "up" /\ x.does = w7[r].does /\ x.mine = w7[r].mine /\ x.todo = w7[r].todo
          /\ EnvCleared(x) = EnvCleared(w7[r])
    <3>1. "up" \in {"database", "freeing", "migrating", "waiting", "up", "stopping database"}
          /\ w7[r].at \notin {"idle", "over", "stopped"}
      BY <1>1
    <3> QED BY <3>1, EnvGoes
  <2>2. w7' = [w7 EXCEPT ![r] = x] /\ w7'[r] = x
    BY <1>1, <1>2, <1>4, <2>1
  <2>3. EnvRun(r)'
    BY <1>1, <1>2, <1>4, <2>1, <2>2 DEF EnvRun, EnvHandOver
  <2>4. ~w9' /\ w10 = 0 =>
          \A s \in x.mine : /\ w6[r][s] \in {"starting", "listening"} /\ w4[s] = Absent
                            /\ s \notin x.todo => w6[r][s] = "listening"
                            /\ \A q \in Process \ {r} : w6[q][s] \in EnvQuiet
    BY <1>1, <2>1 DEF EnvInv, EnvApart
  <2>5. /\ w3' \in {Absent, "compose", "brew", "foreign"} /\ w9' \in BOOLEAN /\ (w9 => w9')
        /\ EnvHandOver' => EnvHandOver
    BY <1>1 DEF EnvInv, EnvTypes, EnvHandOver
  <2>6. ~w9' /\ w10 = 0 => \A q \in Process : w7[q].at \in {"waiting", "up"} /\ w7[q].mine # {} => w3' # Absent
    BY <1>1, EnvDatabase
  <2> QED BY <1>1, <2>1, <2>2, <2>3, <2>4, <2>5, <2>6, EnvMove
<1> QED BY <1>3, <1>4

\* A run has seen somebody go from a port, and looks again.
LEMMA EnvLooksAgain ==
  ASSUME EnvInv, NEW r \in Process, w7[r].at = "freeing"
  PROVE  \E x \in EnvRunning :
           /\ x = [w7[r] EXCEPT !.again = TRUE] /\ [w7 EXCEPT ![r].again = TRUE] = [w7 EXCEPT ![r] = x]
           /\ x.at = w7[r].at /\ x.does = w7[r].does /\ x.mine = w7[r].mine /\ x.todo = w7[r].todo
<1> DEFINE x == [w7[r] EXCEPT !.again = TRUE]
<1>1. w7[r] \in EnvRunning
  BY EnvAt
<1>2. x \in EnvRunning /\ x.at = w7[r].at /\ x.does = w7[r].does /\ x.mine = w7[r].mine /\ x.todo = w7[r].todo
  BY <1>1 DEF EnvRunning
<1>3. [w7 EXCEPT ![r].again = TRUE] = [w7 EXCEPT ![r] = x]
  BY EnvAt
<1> QED BY <1>2, <1>3

LEMMA EnvKillsStale ==
  ASSUME EnvInv, NEW r \in Process, E!KillStale(r)
  PROVE  EnvInv'
<1> DEFINE f == E!First(w7[r].todo)
<1>1. /\ w7[r].at = "freeing" /\ w7' = [w7 EXCEPT ![r].again = TRUE]
      /\ w4[f] # Absent /\ E!isOurs(w4[f]) /\ w4' = [w4 EXCEPT ![f] = Absent]
      /\ UNCHANGED <<w1, w2, w3, w5, w6, w9, w10>>
  BY DEF E!KillStale
<1> HIDE DEF f
<1>2. PICK x \in EnvRunning :
           /\ [w7 EXCEPT ![r].again = TRUE] = [w7 EXCEPT ![r] = x]
           /\ x.at = w7[r].at /\ x.does = w7[r].does /\ x.mine = w7[r].mine /\ x.todo = w7[r].todo
  BY <1>1, EnvLooksAgain
<1>3. /\ w7' = [w7 EXCEPT ![r] = x] /\ w7'[r] = x /\ \A q \in Process \ {r} : w7'[q] = w7[q]
  BY <1>1, <1>2, EnvAt
<1>4. \A q \in Process : /\ w7'[q].at = w7[q].at /\ EnvCleared(w7'[q]) = EnvCleared(w7[q])
                         /\ w7'[q].at # "idle" => /\ w7'[q].does = w7[q].does /\ w7'[q].mine = w7[q].mine
                                                  /\ w7'[q].todo = w7[q].todo
  BY <1>2, <1>3 DEF EnvCleared
<1>5. w4 \in [E!Service -> E!Kinds \cup {Absent}] /\ w7 \in [Process -> EnvRunning \cup EnvResting]
  BY DEF EnvInv, EnvTypes
<1>6. w4' \in [E!Service -> E!Kinds \cup {Absent}] /\ \A s \in E!Service : w4[s] = Absent => w4'[s] = Absent
  BY <1>1, <1>5
<1>8. EnvTypes'
  BY <1>1, <1>3, <1>5, <1>6 DEF EnvInv, EnvTypes
<1>9. \A q \in Process : EnvRun(q)'
  <2>1. ASSUME NEW q \in Process PROVE EnvRun(q)'
    <3>1. EnvRun(q)
      BY EnvAt
    <3>2. CASE q = r
      BY <1>1, <1>2, <1>3, <3>1, <3>2 DEF EnvRun, EnvHandOver
    <3>3. CASE q # r
      <4>1. w7'[q] = w7[q]
        BY <1>3, <3>3
      <4> QED BY <1>1, <3>1, <4>1 DEF EnvRun, EnvHandOver
    <3> QED BY <3>2, <3>3
  <2> QED BY <2>1
<1>10. ASSUME ~w9', w10' = 0 PROVE EnvApart'
  <2>1. EnvApart /\ w6' = w6 /\ w3' = w3
    BY <1>1, <1>10 DEF EnvInv
  <2>2. ASSUME NEW q \in Process, w7'[q].at \in {"freeing", "migrating", "stopping database"},
               NEW s \in EnvCleared(w7'[q])
        PROVE  w4'[s] = Absent /\ \A p \in Process : w6'[p][s] \in EnvQuiet
    <3>1. w7[q].at \in {"freeing", "migrating", "stopping database"} /\ s \in EnvCleared(w7[q])
      BY <1>4, <2>2
    <3>2. s \in E!Service
      <4>1. w7[q] \in EnvRunning
        BY <3>1, EnvAt
      <4> QED BY <3>1, <4>1, EnvRecords DEF EnvCleared
    <3>3. w4[s] = Absent /\ \A p \in Process : w6[p][s] \in EnvQuiet
      BY <2>1, <3>1 DEF EnvApart
    <3> QED BY <1>6, <2>1, <3>2, <3>3
  <2>3. ASSUME NEW q \in Process, w7'[q].at \in {"waiting", "up"}
        PROVE  /\ \A s \in w7'[q].mine :
                    /\ w6'[q][s] \in {"starting", "listening"} /\ w4'[s] = Absent
                    /\ s \notin w7'[q].todo => w6'[q][s] = "listening"
                    /\ \A p \in Process \ {q} : w6'[p][s] \in EnvQuiet
               /\ w7'[q].mine # {} => w3' # Absent
    <3>1. w7'[q] = w7[q]
      BY <1>1, <1>2, <1>3, <2>3
    <3>2. w7[q].mine \subseteq E!Service
      <4>1. w7[q] \in EnvRunning
        BY <2>3, <3>1, EnvAt
      <4> QED BY <4>1, EnvRecords
    <3>3. /\ \A s \in w7[q].mine :
                /\ w6[q][s] \in {"starting", "listening"} /\ w4[s] = Absent
                /\ s \notin w7[q].todo => w6[q][s] = "listening"
                /\ \A p \in Process \ {q} : w6[p][s] \in EnvQuiet
          /\ w7[q].mine # {} => w3 # Absent
      BY <2>1, <2>3, <3>1 DEF EnvApart
    <3> QED BY <1>6, <2>1, <3>1, <3>2, <3>3
  <2> QED BY <2>2, <2>3 DEF EnvApart, EnvCleared, EnvQuiet
<1> QED BY <1>8, <1>9, <1>10 DEF EnvInv

\* A set of numbers has a least one.
LEMMA LeastNumber ==
  ASSUME NEW S, S \subseteq Nat, S # {}
  PROVE  \E m \in S : \A n \in S : m <= n
<1> DEFINE R == OpToRel(<, Nat)
<1>1. IsWellFoundedOn(R, Nat)
  BY NatLessThanWellFounded
<1>2. R = {ss \in Nat \X Nat : ss[1] < ss[2]}
  BY DEF OpToRel
<1> HIDE DEF R
<1>3. \E m \in S : \A n \in S : <<n, m>> \notin R
  BY <1>1, WFMin
<1>4. PICK m \in S : \A n \in S : <<n, m>> \notin R
  BY <1>3
<1>5. ASSUME NEW n \in S PROVE m <= n
  <2>1. n \in Nat /\ m \in Nat /\ <<n, m>> \in Nat \X Nat /\ <<n, m>>[1] = n /\ <<n, m>>[2] = m
    OBVIOUS
  <2>2. ~(n < m)
    BY <1>2, <1>4, <2>1
  <2> QED BY <2>1, <2>2
<1> QED BY <1>5

LEMMA EnvFirst ==
  ASSUME E!DevEnvAssumption, NEW S, S \subseteq E!Service, S # {}
  PROVE  E!First(S) \in S
<1>1. \A s \in E!Service : E!Nth(s) \in Nat
  <2>1. ASSUME NEW s \in E!Service PROVE E!Nth(s) \in DOMAIN SERVICES
    <3>1. \E i \in DOMAIN SERVICES : SERVICES[i] = s
      BY DEF E!Service, Range, E!Range
    <3> QED BY <3>1 DEF E!Nth
  <2>2. DOMAIN SERVICES \subseteq Nat
    BY DEF E!DevEnvAssumption
  <2> QED BY <2>1, <2>2
<1> DEFINE T == {E!Nth(s) : s \in S}
<1>2. T \subseteq Nat /\ T # {}
  BY <1>1
<1>3. \E m \in T : \A n \in T : m <= n
  <2> HIDE DEF T
  <2> QED BY <1>2, LeastNumber
<1>4. \E s \in S : \A t \in S : E!Nth(s) <= E!Nth(t)
  BY <1>3
<1> QED BY <1>4 DEF E!First

\* A server of another run goes.
LEMMA EnvKillsServer ==
  ASSUME E!DevEnvAssumption, EnvInv, NEW r \in Process, NEW q \in Process, E!KillServer(r, q)
  PROVE  EnvInv'
<1> DEFINE s == E!First(w7[r].todo)
           supervised == w6[q][s] = "listening" /\ E!Running(q)
<1>1. /\ w7[r].at = "freeing" /\ E!Listens(q, s) /\ q # r
      /\ UNCHANGED <<w1, w2, w3, w4, w5, w9, w10>>
  BY DEF E!KillServer
<1>2. PICK forced \in BOOLEAN :
        /\ w6' = [w6 EXCEPT ![q] =
             [IF supervised /\ ~forced THEN E!Terminated(@, {"beneath"}) ELSE @ EXCEPT ![s] = "gone"]]
        /\ w7' = [w7 EXCEPT ![r].again = TRUE,
                     ![q] = IF ~supervised THEN @ ELSE [at |-> IF forced THEN "over" ELSE "stopped"]]
  BY DEF E!KillServer
<1> DEFINE row == [IF supervised /\ ~forced THEN E!Terminated(w6[q], {"beneath"}) ELSE w6[q] EXCEPT ![s] = "gone"]
           end == IF ~supervised THEN w7[q] ELSE [at |-> IF forced THEN "over" ELSE "stopped"]
<1>3. PICK x \in EnvRunning : /\ x = [w7[r] EXCEPT !.again = TRUE]
                              /\ [w7 EXCEPT ![r].again = TRUE] = [w7 EXCEPT ![r] = x]
  BY <1>1, EnvLooksAgain
<1>4. w6 \in [Process -> [E!Service -> EnvStatus]] /\ w7 \in [Process -> EnvRunning \cup EnvResting]
  BY DEF EnvInv, EnvTypes
<1>5. w6' = [w6 EXCEPT ![q] = row]
  BY <1>2, <1>4, Zenon
<1>6. w7'[r] = x /\ w7'[q] = end /\ \A p \in Process \ {r, q} : w7'[p] = w7[p]
  BY <1>1, <1>2, <1>3, <1>4
<1>7. /\ row \in [E!Service -> EnvStatus]
      /\ \A t \in E!Service : w6[q][t] \in EnvQuiet => row[t] \in EnvQuiet
      /\ (supervised /\ ~forced /\ w5 # "beneath" /\ \A t \in E!Service : w6[q][t] # "orphan") =>
            \A t \in E!Service : row[t] \in EnvQuiet
  <2> DEFINE gone == E!Terminated(w6[q], {"beneath"})
  <2>1. /\ gone \in [E!Service -> EnvStatus]
        /\ \A t \in E!Service : w6[q][t] \in EnvQuiet => gone[t] \in EnvQuiet
        /\ (w5 # "beneath" /\ \A t \in E!Service : w6[q][t] # "orphan") =>
              \A t \in E!Service : gone[t] \in EnvQuiet
    BY EnvTerminated
  <2>2. w6[q] \in [E!Service -> EnvStatus]
    BY <1>4
  <2> HIDE DEF gone, s, supervised
  <2>3. CASE supervised /\ ~forced
    <3>1. row = [gone EXCEPT ![s] = "gone"]
      BY <2>3 DEF gone
    <3> QED BY <2>1, <3>1 DEF EnvStatus, EnvQuiet
  <2>4. CASE ~(supervised /\ ~forced)
    <3>1. row = [w6[q] EXCEPT ![s] = "gone"]
      BY <2>4
    <3> QED BY <2>2, <2>4, <3>1 DEF EnvStatus, EnvQuiet
  <2> QED BY <2>3, <2>4
<1> HIDE DEF row
<1>8. w6' \in [Process -> [E!Service -> EnvStatus]] /\ w6'[q] = row /\ \A p \in Process \ {q} : w6'[p] = w6[p]
  BY <1>4, <1>5, <1>7
<1>9. end \in EnvRunning \cup EnvResting
  <2>1. [at |-> "over"] \in EnvResting /\ [at |-> "stopped"] \in EnvResting
    BY DEF EnvResting
  <2> HIDE DEF s
  <2> QED BY <1>4, <2>1
<1>10. w7' \in [Process -> EnvRunning \cup EnvResting]
  <2> HIDE DEF s, supervised, end
  <2>1. DOMAIN w7' = Process /\ w7' = [p \in Process |-> w7'[p]]
    BY <1>2, <1>4
  <2>2. \A p \in Process : w7'[p] \in EnvRunning \cup EnvResting
    BY <1>3, <1>4, <1>6, <1>9
  <2> QED BY <2>1, <2>2
<1>11. EnvRun(q) /\ w7[q] \in EnvRunning \cup EnvResting
  BY EnvAt
<1>12. s \in E!Service
  <2>1. w7[r] \in EnvRunning /\ w7[r].todo # {}
    BY <1>1, EnvAt DEF E!KillServer
  <2> QED BY <2>1, EnvFirst, EnvRecords
<1>13. /\ w7[q].at = "idle" => \A t \in E!Service : w6[q][t] = Absent
       /\ E!Running(q) => \A t \in E!Service : w6[q][t] # "orphan"
  <2>1. E!Running(q) => w7[q] \in EnvRunning
    BY EnvAt DEF E!Running
  <2>2. Absent # "orphan"
    BY DEF E!DevEnvAssumption
  <2>3. w7[q].at = "idle" => \A t \in E!Service : w6[q][t] = Absent
    BY <1>11 DEF EnvRun
  <2> QED BY <1>11, <2>1, <2>2, <2>3, EnvRecords DEF EnvRun
<1>14. \A p \in Process : \A t \in E!Service : w6[p][t] \in EnvQuiet => w6'[p][t] \in EnvQuiet
  BY <1>7, <1>8
<1>15. CASE supervised
  <2>1. end = [at |-> IF forced THEN "over" ELSE "stopped"]
    BY <1>15
  <2>2. end = [at |-> "over"] \/ (end = [at |-> "stopped"] /\ ~forced)
    BY <2>1
  <2>3. ~forced /\ w5 # "beneath" => \A t \in E!Service : w6'[q][t] \in EnvQuiet
    <3>1. E!Running(q)
      BY <1>15
    <3> HIDE DEF s, supervised
    <3> QED BY <1>7, <1>8, <1>13, <1>15, <3>1
  <2> HIDE DEF end, supervised, s
  <2>4. ASSUME NEW p \in Process
        PROVE  \/ w7'[p] = w7[p] /\ w6'[p] = w6[p]
               \/ w7'[p] = [at |-> "over"]
               \/ /\ w7'[p] = [at |-> "stopped"]
                  /\ w5 # "beneath" => \A t \in E!Service : w6'[p][t] \in EnvQuiet
               \/ /\ w7'[p] = [w7[p] EXCEPT !.again = TRUE] /\ w7[p].at = "freeing" /\ w6'[p] = w6[p]
    <3>1. CASE p = q
      BY <1>6, <2>2, <2>3, <3>1
    <3>2. CASE p = r
      BY <1>1, <1>3, <1>6, <1>8, <3>2
    <3>3. CASE p \notin {r, q}
      BY <1>6, <1>8, <3>3
    <3> QED BY <3>1, <3>2, <3>3
  <2> QED BY <1>1, <1>8, <1>10, <1>14, <2>4, EnvEnd
<1>16. CASE ~supervised
  <2>1. w7'[q] = w7[q]
    BY <1>6, <1>16
  <2>2. w7[q].at \in {"over", "stopped"}
    <3>1. w6[q][s] \in {"listening", "orphan"}
      BY <1>1 DEF E!Listens
    <3>2. ~E!Running(q)
      BY <1>12, <1>13, <1>16, <3>1
    <3>3. w7[q].at # "idle"
      <4>1. Absent \notin {"listening", "orphan"}
        BY DEF E!DevEnvAssumption
      <4> HIDE DEF s
      <4> QED BY <1>12, <1>13, <3>1, <4>1
    <3> QED BY <3>2, <3>3 DEF E!Running
  <2> HIDE DEF supervised, end, s
  <2>3. ASSUME NEW p \in Process
        PROVE  \/ w7'[p] = w7[p] /\ (w7[p].at \notin {"over", "stopped"} => w6'[p] = w6[p])
               \/ /\ w7'[p] = [w7[p] EXCEPT !.again = TRUE] /\ w7[p].at = "freeing" /\ w6'[p] = w6[p]
    <3>1. CASE p = q
      BY <2>1, <2>2, <3>1
    <3>2. CASE p = r
      BY <1>1, <1>3, <1>6, <1>8, <3>2
    <3>3. CASE p \notin {r, q}
      BY <1>6, <1>8, <3>3
    <3> QED BY <3>1, <3>2, <3>3
  <2> QED BY <1>1, <1>8, <1>10, <1>14, <2>3, EnvEnd
<1> QED BY <1>15, <1>16

\* The servers of a run start: the others have none there while they do not cross.
LEMMA EnvStarts ==
  ASSUME E!DevEnvAssumption, EnvInv, NEW r \in Process, E!MigrateAndStart(r)
  PROVE  EnvInv'
<1> DEFINE row == [s \in E!Service |-> IF s \in w7[r].mine THEN "starting" ELSE Absent]
           x == [w7[r] EXCEPT !.at = "waiting", !.todo = w7[r].mine]
<1>1. w7[r].at = "migrating" /\ UNCHANGED <<w1, w2, w3, w4, w5, w8, w10>>
  BY DEF E!MigrateAndStart
<1>2. CASE w3 = Absent
  <2>1. E!Fail(r) /\ UNCHANGED <<w1, w2, w3, w4, w5, w8, w9, w10>>
    BY <1>1, <1>2 DEF E!MigrateAndStart
  <2> QED BY <2>1, EnvFails
<1>3. CASE w3 # Absent
  <2>1. w7[r] \in EnvRunning /\ EnvRun(r) /\ w7 \in [Process -> EnvRunning \cup EnvResting]
        /\ w6 \in [Process -> [E!Service -> EnvStatus]]
    BY <1>1, EnvAt DEF EnvInv, EnvTypes
  <2>2. /\ w6' = [w6 EXCEPT ![r] = row]
        /\ w7' = [w7 EXCEPT ![r].at = "waiting", ![r].todo = w7[r].mine]
        /\ w9' = (w9 \/ \E q \in Process \ {r} : E!Running(q) /\ w7[q].at # "up")
    BY <1>3 DEF E!MigrateAndStart
  <2>3. w7' = [w7 EXCEPT ![r] = x]
    BY <2>1, <2>2
  <2>4. /\ x \in EnvRunning /\ x.at = "waiting" /\ x.does = w7[r].does
        /\ x.mine = w7[r].mine /\ x.todo = w7[r].mine
    BY <2>1, EnvRecords DEF EnvRunning
  <2>5. row \in [E!Service -> EnvStatus] /\ \A s \in E!Service : row[s] = IF s \in w7[r].mine THEN "starting" ELSE Absent
    BY DEF EnvStatus
  <2> HIDE DEF x, row
  <2>6. /\ w7'[r] = x /\ \A q \in Process \ {r} : w7'[q] = w7[q]
        /\ w6'[r] = row /\ \A q \in Process \ {r} : w6'[q] = w6[q]
    BY <2>1, <2>2, <2>3
  <2>7. EnvTypes'
    <3>1. w6' \in [Process -> [E!Service -> EnvStatus]]
      BY <2>1, <2>2, <2>5
    <3>2. w7' \in [Process -> EnvRunning \cup EnvResting]
      BY <2>1, <2>3, <2>4
    <3>3. w9' \in BOOLEAN
      <4>1. w9 \in BOOLEAN
        BY DEF EnvInv, EnvTypes
      <4> QED BY <2>2, <4>1, Zenon
    <3> QED BY <1>1, <3>1, <3>2, <3>3 DEF EnvInv, EnvTypes
  <2>8. ASSUME NEW q \in Process PROVE EnvRun(q)'
    <3>1. CASE q = r
      <4>1. x.does = "up" /\ ~EnvHandOver'
        BY <1>1, <2>1, <2>4 DEF EnvRun, EnvHandOver
      <4>2. \A s \in E!Service : row[s] # "orphan" /\ (s \notin x.mine => row[s] = Absent)
        BY <2>4, <2>5 DEF E!DevEnvAssumption
      <4>3. w7'[q] = x /\ w6'[q] = row
        BY <2>6, <3>1
      <4> QED BY <2>4, <4>1, <4>2, <4>3 DEF EnvRun
    <3>2. CASE q # r
      <4>1. EnvRun(q) /\ w7'[q] = w7[q] /\ w6'[q] = w6[q]
        BY <2>6, <3>2 DEF EnvInv
      <4> QED BY <1>1, <4>1 DEF EnvRun, EnvHandOver
    <3> QED BY <3>1, <3>2
  <2>9. ASSUME ~w9', w10' = 0 PROVE EnvApart'
    <3>1. EnvApart /\ \A q \in Process \ {r} : w7[q].at \in {"idle", "over", "stopped", "up"}
      BY <1>1, <2>2, <2>9 DEF EnvInv, E!Running
    <3>2. \A s \in w7[r].mine : w4[s] = Absent /\ \A q \in Process : w6[q][s] \in EnvQuiet
      <4>1. w7[r].does = "up" /\ w7[r].todo = {}
        BY <1>1, <2>1 DEF EnvRun
      <4>2. EnvCleared(w7[r]) = w7[r].mine
        BY <4>1 DEF EnvCleared
      <4> QED BY <1>1, <3>1, <4>2 DEF EnvApart
    <3>3. \A q \in Process : w7'[q].at \notin {"freeing", "migrating", "stopping database"}
      BY <2>4, <2>6, <3>1
    <3>4. ASSUME NEW q \in Process, w7'[q].at \in {"waiting", "up"}
          PROVE  /\ \A s \in w7'[q].mine :
                      /\ w6'[q][s] \in {"starting", "listening"} /\ w4'[s] = Absent
                      /\ s \notin w7'[q].todo => w6'[q][s] = "listening"
                      /\ \A p \in Process \ {q} : w6'[p][s] \in EnvQuiet
                 /\ w7'[q].mine # {} => w3' # Absent
      <4>1. CASE q = r
        <5>1. w7[r].mine \subseteq E!Service
          BY <2>1, EnvRecords
        <5> QED BY <1>1, <1>3, <2>4, <2>5, <2>6, <3>2, <4>1, <5>1
      <4>2. CASE q # r
        <5>1. w7'[q] = w7[q] /\ w6'[q] = w6[q] /\ w7[q].at = "up"
          BY <2>6, <3>1, <3>4, <4>2
        <5>2. w7[q].mine \subseteq E!Service
          <6>1. w7[q] \in EnvRunning
            BY <5>1, EnvAt
          <6> QED BY <6>1, EnvRecords
        <5>3. /\ \A s \in w7[q].mine :
                  /\ w6[q][s] \in {"starting", "listening"} /\ w4[s] = Absent
                  /\ s \notin w7[q].todo => w6[q][s] = "listening"
                  /\ \A p \in Process \ {q} : w6[p][s] \in EnvQuiet
              /\ w7[q].mine # {} => w3 # Absent
          BY <3>1, <5>1 DEF EnvApart
        <5>4. ASSUME NEW s \in w7[q].mine, NEW p \in Process \ {q} PROVE w6'[p][s] \in EnvQuiet
          <6>1. s \notin w7[r].mine
            BY <3>2, <5>3 DEF EnvQuiet, E!DevEnvAssumption
          <6>2. CASE p = r
            BY <2>5, <2>6, <5>2, <6>1, <6>2 DEF EnvQuiet
          <6>3. CASE p # r
            BY <2>6, <5>3, <6>3
          <6> QED BY <6>2, <6>3
        <5> QED BY <1>1, <5>1, <5>3, <5>4
      <4> QED BY <4>1, <4>2
    <3> QED BY <3>3, <3>4 DEF EnvApart, EnvCleared, EnvQuiet
  <2> QED BY <2>7, <2>8, <2>9 DEF EnvInv
<1> QED BY <1>2, <1>3

LEMMA EnvListens ==
  ASSUME E!DevEnvAssumption, EnvInv, NEW r \in Process, NEW s \in E!Service, E!Listen(r, s)
  PROVE  EnvInv'
<1> DEFINE new == IF E!Free(s) THEN "listening" ELSE "gone"
<1>1. /\ w6[r][s] = "starting" /\ w6' = [w6 EXCEPT ![r][s] = new]
      /\ UNCHANGED <<w1, w2, w3, w4, w5, w7, w8, w9, w10>>
  BY DEF E!Listen
<1>2. new \in {"listening", "gone"} /\ (E!Free(s) => new = "listening")
  OBVIOUS
<1> HIDE DEF new
<1>3. w6 \in [Process -> [E!Service -> EnvStatus]]
  BY DEF EnvInv, EnvTypes
<1>4. /\ w6' \in [Process -> [E!Service -> EnvStatus]]
      /\ w6'[r][s] = new
      /\ \A q \in Process, t \in E!Service : q # r \/ t # s => w6'[q][t] = w6[q][t]
  BY <1>1, <1>2, <1>3 DEF EnvStatus
<1>5. EnvTypes'
  BY <1>1, <1>4 DEF EnvInv, EnvTypes
<1>6. w7[r].at \in {"waiting", "up", "over"} \/ (w7[r].at = "stopped" /\ w5 = "beneath")
  <2>1. EnvRun(r) /\ w7[r] \in EnvRunning \cup EnvResting
    BY EnvAt
  <2> QED BY <1>1, <2>1, EnvRecords DEF EnvRun, EnvQuiet, E!DevEnvAssumption
<1>7. ASSUME NEW q \in Process PROVE EnvRun(q)'
  <2>1. EnvRun(q)
    BY EnvAt
  <2>2. CASE q # r
    <3>1. \A t \in E!Service : w6'[q][t] = w6[q][t]
      BY <1>4, <2>2
    <3> QED BY <1>1, <2>1, <3>1 DEF EnvRun, EnvHandOver
  <2>3. CASE q = r
    <3>1. ASSUME w7[r].at \in {"waiting", "up"}, NEW t \in E!Service
          PROVE  w6'[r][t] # "orphan" /\ (t \notin w7[r].mine => w6'[r][t] = Absent)
      <4>1. w6[r][t] # "orphan" /\ (t \notin w7[r].mine => w6[r][t] = Absent)
        BY <2>1, <2>3, <3>1 DEF EnvRun
      <4>2. CASE t = s
        BY <1>1, <1>2, <1>4, <4>1, <4>2 DEF E!DevEnvAssumption
      <4>3. CASE t # s
        BY <1>4, <4>1, <4>3
      <4> QED BY <4>2, <4>3
    <3> QED BY <1>1, <1>6, <2>1, <2>3, <3>1 DEF EnvRun, EnvHandOver
  <2> QED BY <2>2, <2>3
<1>8. ASSUME ~w9', w10' = 0 PROVE EnvApart'
  <2>1. EnvApart
    BY <1>1, <1>8 DEF EnvInv
  <2>2. ASSUME NEW q \in Process, w7'[q].at \in {"freeing", "migrating", "stopping database"},
               NEW t \in EnvCleared(w7'[q])
        PROVE  w4'[t] = Absent /\ \A p \in Process : w6'[p][t] \in EnvQuiet
    <3>1. w7'[q] = w7[q] /\ w4' = w4
      BY <1>1
    <3>2. w4[t] = Absent /\ \A p \in Process : w6[p][t] \in EnvQuiet
      BY <2>1, <2>2, <3>1 DEF EnvApart
    <3>3. t # s
      BY <1>1, <3>2 DEF EnvQuiet, E!DevEnvAssumption
    <3>4. t \in E!Service
      <4>1. w7[q] \in EnvRunning
        BY <2>2, <3>1, EnvAt
      <4> QED BY <2>2, <3>1, <4>1, EnvRecords DEF EnvCleared
    <3> QED BY <1>4, <3>1, <3>2, <3>3, <3>4
  <2>3. ASSUME NEW q \in Process, w7'[q].at \in {"waiting", "up"}
        PROVE  /\ \A t \in w7'[q].mine :
                    /\ w6'[q][t] \in {"starting", "listening"} /\ w4'[t] = Absent
                    /\ t \notin w7'[q].todo => w6'[q][t] = "listening"
                    /\ \A p \in Process \ {q} : w6'[p][t] \in EnvQuiet
               /\ w7'[q].mine # {} => w3' # Absent
    <3>1. w7'[q] = w7[q] /\ w4' = w4 /\ w3' = w3
      BY <1>1
    <3>2. w7[q].mine \subseteq E!Service
      <4>1. w7[q] \in EnvRunning
        BY <2>3, <3>1, EnvAt
      <4> QED BY <4>1, EnvRecords
    <3>3. /\ \A t \in w7[q].mine :
                /\ w6[q][t] \in {"starting", "listening"} /\ w4[t] = Absent
                /\ t \notin w7[q].todo => w6[q][t] = "listening"
                /\ \A p \in Process \ {q} : w6[p][t] \in EnvQuiet
          /\ w7[q].mine # {} => w3 # Absent
      BY <2>1, <2>3, <3>1 DEF EnvApart
    <3>4. ASSUME s \in w7[q].mine
          PROVE  q = r /\ new = "listening"
      <4>1. q = r
        BY <1>1, <3>3, <3>4 DEF EnvQuiet, E!DevEnvAssumption
      <4>2. E!Free(s)
        BY <1>1, <3>3, <3>4, <4>1 DEF E!Free, E!Listens, EnvQuiet, E!DevEnvAssumption
      <4> QED BY <1>2, <4>1, <4>2
    <3>5. ASSUME NEW t \in w7[q].mine
          PROVE  /\ w6'[q][t] \in {"starting", "listening"} /\ w4'[t] = Absent
                 /\ t \notin w7'[q].todo => w6'[q][t] = "listening"
                 /\ \A p \in Process \ {q} : w6'[p][t] \in EnvQuiet
      <4>1. CASE t = s
        BY <1>4, <3>1, <3>3, <3>4, <4>1
      <4>2. CASE t # s
        BY <1>4, <3>1, <3>2, <3>3, <4>2
      <4> QED BY <4>1, <4>2
    <3> QED BY <3>1, <3>3, <3>5
  <2> QED BY <2>2, <2>3 DEF EnvApart, EnvCleared, EnvQuiet
<1> QED BY <1>5, <1>7, <1>8 DEF EnvInv

LEMMA EnvTroubles ==
  ASSUME E!DevEnvAssumption, EnvInv, NEW s \in E!Service,
         E!Squeeze(s) \/ \E r \in Process : E!ServerDies(r, s)
  PROVE  EnvInv'
<1>1. w10 < EnvTrouble /\ w10' = w10 + 1 /\ UNCHANGED <<w1, w2, w3, w5, w7, w8, w9>>
  BY DEF E!Squeeze, E!ServerDies
<1>2. w10 \in 0 .. EnvTrouble /\ EnvTrouble \in Nat
  BY DEF EnvInv, EnvTypes, E!DevEnvAssumption
<1>3. w10' \in 0 .. EnvTrouble /\ w10' # 0
  BY <1>1, <1>2
<1>4. w4' \in [E!Service -> E!Kinds \cup {Absent}]
  <2>1. w4 \in [E!Service -> E!Kinds \cup {Absent}]
    BY DEF EnvInv, EnvTypes
  <2>2. w4' = w4 \/ w4' = [w4 EXCEPT ![s] = E!Kind("elsewhere", "node")]
    BY DEF E!Squeeze, E!ServerDies
  <2>3. E!Kind("elsewhere", "node") \in E!Kinds
    BY DEF E!Kinds, E!Kind, E!Directories, E!Commands
  <2> QED BY <2>1, <2>2, <2>3
<1>5. w6 \in [Process -> [E!Service -> EnvStatus]]
  BY DEF EnvInv, EnvTypes
<1>6. CASE E!Squeeze(s)
  <2>1. w6' = w6
    BY <1>6 DEF E!Squeeze
  <2>2. \A q \in Process : EnvRun(q)
    BY EnvAt
  <2>3. \A q \in Process : EnvRun(q)'
    BY <1>1, <2>1, <2>2 DEF EnvRun, EnvHandOver
  <2> QED BY <1>1, <1>3, <1>4, <1>5, <2>1, <2>3 DEF EnvInv, EnvTypes
<1>7. ASSUME NEW r \in Process, E!ServerDies(r, s)
      PROVE  EnvInv'
  <2>1. w6[r][s] \in {"listening", "orphan"} /\ w6' = [w6 EXCEPT ![r][s] = "gone"]
    BY <1>7 DEF E!ServerDies, E!Listens
  <2>2. /\ w6' \in [Process -> [E!Service -> EnvStatus]] /\ w6'[r][s] = "gone"
        /\ \A q \in Process, t \in E!Service : q # r \/ t # s => w6'[q][t] = w6[q][t]
    BY <1>5, <2>1 DEF EnvStatus
  <2>3. ASSUME NEW q \in Process PROVE EnvRun(q)'
    <3>1. EnvRun(q)
      BY EnvAt
    <3>2. CASE q # r
      <4>1. \A t \in E!Service : w6'[q][t] = w6[q][t]
        BY <2>2, <3>2
      <4> QED BY <1>1, <3>1, <4>1 DEF EnvRun, EnvHandOver
    <3>3. CASE q = r
      <4>1. w7[r].at \in {"waiting", "up", "over", "stopped"}
        BY <2>1, <3>1, <3>3 DEF EnvRun, E!DevEnvAssumption
      <4>2. ASSUME w7[r].at \in {"waiting", "up"}, NEW t \in E!Service
            PROVE  w6'[r][t] # "orphan" /\ (t \notin w7[r].mine => w6'[r][t] = Absent)
        <5>1. w6[r][t] # "orphan" /\ (t \notin w7[r].mine => w6[r][t] = Absent)
          BY <3>1, <3>3, <4>2 DEF EnvRun
        <5>2. CASE t = s
          BY <2>1, <2>2, <5>1, <5>2 DEF E!DevEnvAssumption
        <5>3. CASE t # s
          BY <2>2, <5>1, <5>3
        <5> QED BY <5>2, <5>3
      <4>3. w7[r].at = "stopped" /\ w5 # "beneath" => \A t \in E!Service : w6'[r][t] \in EnvQuiet
        BY <2>2, <3>1, <3>3 DEF EnvRun, EnvQuiet
      <4>4. w7[r].at \in {"over", "stopped"} => w7[r] \in EnvResting
        BY EnvAt, EnvRecords
      <4> QED BY <1>1, <3>1, <3>3, <4>1, <4>2, <4>3 DEF EnvRun, EnvHandOver
    <3> QED BY <3>2, <3>3
  <2> QED BY <1>1, <1>3, <1>4, <2>2, <2>3 DEF EnvInv, EnvTypes
<1> QED BY <1>6, <1>7

LEMMA EnvNextInv == E!DevEnvAssumption /\ EnvInv /\ [E!Next]_(E!vars) => EnvInv'
<1> SUFFICES ASSUME E!DevEnvAssumption, EnvInv, [E!Next]_(E!vars) PROVE EnvInv'
  OBVIOUS
<1>1. CASE UNCHANGED E!vars
  <2>1. UNCHANGED <<w1, w2, w3, w4, w5, w6, w7, w8, w9, w10>>
    BY <1>1 DEF E!vars
  <2>2. EnvTypes' /\ EnvHandOver' = EnvHandOver
    BY <2>1 DEF EnvInv, EnvTypes, EnvHandOver
  <2>3. \A r \in Process : EnvRun(r)'
    BY <2>1, EnvAt DEF EnvRun, EnvHandOver
  <2>4. ~w9' /\ w10' = 0 => EnvApart'
    BY <2>1 DEF EnvInv, EnvApart, EnvCleared
  <2> QED BY <2>1, <2>2, <2>3, <2>4 DEF EnvInv
<1>2. ASSUME NEW r \in Process,
             \/ \E skip \in Skips : E!Up(r, skip)
             \/ E!Down(r) \/ E!HandOver(r) \/ E!EnsureDatabase(r) \/ E!FindFree(r) \/ E!GiveUpPort(r)
             \/ E!KillStale(r) \/ E!PortsAreFree(r) \/ E!MigrateAndStart(r) \/ E!IsReady(r) \/ E!TimeOut(r)
             \/ E!EverythingIsUp(r) \/ E!Interrupt(r) \/ E!StopDatabase(r)
             \/ \E q \in Process : E!KillServer(r, q)
             \/ \E s \in E!Service : E!Listen(r, s)
      PROVE  EnvInv'
  BY <1>2, EnvBegins, EnvHandsOver, EnvEnsures, EnvFinds, EnvGivesUp, EnvKillsStale, EnvFreed, EnvStarts,
     EnvAnswers, EnvIsUp, EnvInterrupt, EnvStops, EnvKillsServer, EnvListens
<1>3. ASSUME NEW s \in E!Service, E!Squeeze(s) \/ \E r \in Process : E!ServerDies(r, s)
      PROVE  EnvInv'
  BY <1>3, EnvTroubles
<1> QED BY <1>1, <1>2, <1>3 DEF E!Next

\* A run that is over stays so.
LEMMA EnvOver ==
  ASSUME EnvInv, [E!Next]_(E!vars), NEW p \in Process, w7[p].at \in {"over", "stopped"}
  PROVE  w7'[p] = w7[p]
<1>1. w7 \in [Process -> EnvRunning \cup EnvResting] /\ w7[p] # E!Idle
  BY EnvAt DEF E!Idle
<1>2. CASE UNCHANGED E!vars
  BY <1>2 DEF E!vars
<1>3. ASSUME NEW r \in Process, \/ \E skip \in Skips : E!Up(r, skip)
                                \/ E!Down(r) \/ E!HandOver(r) \/ E!EnsureDatabase(r) \/ E!FindFree(r)
      PROVE  w7'[p] = w7[p]
  BY <1>1, <1>3 DEF E!Up, E!Down, E!HandOver, E!EnsureDatabase, E!FindFree, E!Fail, E!Goes
<1>4. ASSUME NEW r \in Process, E!GiveUpPort(r) \/ E!KillStale(r) \/ E!PortsAreFree(r) \/ E!MigrateAndStart(r)
      PROVE  w7'[p] = w7[p]
  BY <1>1, <1>4 DEF E!GiveUpPort, E!KillStale, E!PortsAreFree, E!MigrateAndStart, E!Fail, E!Goes
<1>5. ASSUME NEW r \in Process,
             \/ E!IsReady(r) \/ E!TimeOut(r) \/ E!EverythingIsUp(r) \/ E!Interrupt(r) \/ E!StopDatabase(r)
      PROVE  w7'[p] = w7[p]
  BY <1>1, <1>5 DEF E!IsReady, E!TimeOut, E!EverythingIsUp, E!Interrupt, E!StopDatabase, E!Running,
                    E!Fail, E!Goes
<1>6. ASSUME NEW r \in Process, NEW q \in Process, E!KillServer(r, q)
      PROVE  w7'[p] = w7[p]
  <2>1. /\ w7[r].at = "freeing" /\ q # r
        /\ \E end : /\ w7' = [w7 EXCEPT ![r].again = TRUE, ![q] = end]
                    /\ end # w7[q] => E!Running(q)
    BY <1>6 DEF E!KillServer
  <2>2. PICK end : /\ w7' = [w7 EXCEPT ![r].again = TRUE, ![q] = end]
                   /\ end # w7[q] => E!Running(q)
    BY <2>1
  <2>3. p # r /\ (p = q => end = w7[q])
    BY <2>1, <2>2 DEF E!Running
  <2> QED BY <1>1, <2>2, <2>3
<1>7. CASE \E s \in E!Service : \/ E!Squeeze(s) \/ \E r \in Process : E!Listen(r, s) \/ E!ServerDies(r, s)
  BY <1>7 DEF E!Squeeze, E!Listen, E!ServerDies
<1> QED BY <1>2, <1>3, <1>4, <1>5, <1>6, <1>7 DEF E!Next

\* What is climbed to has no gap.
LEMMA EnvTree ==
  ASSUME NEW of, NEW holder, E!isOurs(holder), NEW chain \in Seq(E!Kinds), NEW n \in 0 .. 6
  PROVE  \A h \in E!Tree(of, holder, chain, n) : h.of = of /\ EnvFair(h, E!Tree(of, holder, chain, n))
<1> DEFINE tree == E!Tree(of, holder, chain, n)
<1>1. ASSUME NEW h \in tree PROVE h.of = of /\ EnvFair(h, tree)
  <2>1. CASE h = [of |-> of, at |-> 0, kind |-> holder]
    BY <2>1 DEF EnvFair
  <2>2. ASSUME NEW i \in E!Climbed(chain, n), h = [of |-> of, at |-> i, kind |-> chain[i]]
        PROVE  h.of = of /\ EnvFair(h, tree)
    <3>1. /\ i \in 1 .. Len(chain) /\ DOMAIN chain = 1 .. Len(chain) /\ Len(chain) \in Nat /\ i <= n
          /\ \A j \in 1 .. i : chain[j].command \in {"node", "wrapper"}
      BY <2>2 DEF E!Climbed
    <3>2. h.of = of /\ h.at = i /\ h.kind = chain[i] /\ i > 0 /\ i <= 6
      BY <2>2, <3>1
    <3>3. \E g \in tree : g.of = of /\ g.at = i - 1
      <4>1. CASE i = 1
        <5>1. [of |-> of, at |-> 0, kind |-> holder] \in tree
          BY DEF E!Tree
        <5> QED BY <4>1, <5>1
      <4>2. CASE i > 1
        <5>1. i - 1 \in E!Climbed(chain, n)
          BY <3>1, <4>2 DEF E!Climbed
        <5>2. [of |-> of, at |-> i - 1, kind |-> chain[i - 1]] \in tree
          BY <5>1 DEF E!Tree
        <5> QED BY <5>2
      <4> QED BY <3>1, <4>1, <4>2
    <3>4. chain[i].command \in {"node", "wrapper"}
      BY <3>1
    <3> QED BY <3>2, <3>3, <3>4 DEF EnvFair, E!MaxParents
  <2> QED BY <2>1, <2>2 DEF E!Tree
<1> QED BY <1>1

LEMMA EnvSparedNext ==
  ASSUME E!DevEnvAssumption, EnvInv, EnvSpared, [E!Next]_(E!vars)
  PROVE  EnvSpared'
<1>1. \A p \in Process : w7[p].at \in {"over", "stopped"} => w7'[p].at \in {"over", "stopped"}
  BY EnvOver
<1>2. \A h \in w8 : EnvFair(h, w8) /\ EnvEnded(h)'
  BY <1>1 DEF EnvSpared, EnvEnded
<1>3. ASSUME NEW tree, w8' = w8 \cup tree,
             \A h \in tree : EnvFair(h, tree) /\ EnvEnded(h)'
      PROVE  EnvSpared'
  BY <1>2, <1>3 DEF EnvSpared, EnvFair
<1>4. CASE w8' = w8
  BY <1>2, <1>4 DEF EnvSpared, EnvFair
<1>5. ASSUME NEW r \in Process, E!KillStale(r)
      PROVE  EnvSpared'
  <2> DEFINE k == w4[E!First(w7[r].todo)]
  <2>1. E!isOurs(k) /\ \E chain \in Chains : w8' = w8 \cup E!Tree(Absent, k, chain, E!MaxParents)
    BY <1>5 DEF E!KillStale
  <2> HIDE DEF k
  <2>2. PICK chain \in Chains : w8' = w8 \cup E!Tree(Absent, k, chain, E!MaxParents)
    BY <2>1
  <2>3. chain \in Seq(E!Kinds) /\ E!MaxParents \in 0 .. 6 /\ Absent \notin Process
    BY DEF E!DevEnvAssumption, E!MaxParents
  <2>4. \A h \in E!Tree(Absent, k, chain, E!MaxParents) :
          h.of = Absent /\ EnvFair(h, E!Tree(Absent, k, chain, E!MaxParents))
    BY <2>1, <2>3, EnvTree
  <2>5. \A h \in E!Tree(Absent, k, chain, E!MaxParents) : EnvEnded(h)'
    BY <2>3, <2>4 DEF EnvEnded
  <2> QED BY <1>3, <2>2, <2>4, <2>5
<1>6. ASSUME NEW r \in Process, NEW q \in Process, E!KillServer(r, q)
      PROVE  EnvSpared'
  <2> DEFINE supervised == w6[q][E!First(w7[r].todo)] = "listening" /\ E!Running(q)
             above(chain) == IF supervised THEN chain ELSE <<>>
             tree(chain, own) == E!Tree(q, E!Kind("inside", "node"), above(chain), E!MaxParents - own)
  <2>1. PICK chain \in Chains, own \in 1 .. 3 : w8' = w8 \cup tree(chain, own)
    BY <1>6 DEF E!KillServer
  <2>2. above(chain) \in Seq(E!Kinds) /\ E!MaxParents - own \in 0 .. 6
        /\ E!isOurs(E!Kind("inside", "node"))
    BY DEF E!DevEnvAssumption, E!MaxParents, E!isOurs, E!Kind
  <2>3. CASE supervised
    <3>1. w7'[q].at \in {"over", "stopped"}
      <4>1. w7 \in [Process -> EnvRunning \cup EnvResting]
        BY EnvAt
      <4>2. q # r /\ \E forced \in BOOLEAN : w7' = [w7 EXCEPT ![r].again = TRUE,
                         ![q] = [at |-> IF forced THEN "over" ELSE "stopped"]]
        BY <1>6, <2>3 DEF E!KillServer
      <4> QED BY <4>1, <4>2
    <3> HIDE DEF supervised, above
    <3>2. \A h \in tree(chain, own) : h.of = q /\ EnvFair(h, tree(chain, own))
      BY <2>2, EnvTree
    <3>3. \A h \in tree(chain, own) : EnvEnded(h)'
      BY <3>1, <3>2 DEF EnvEnded
    <3> HIDE DEF tree
    <3> QED BY <1>3, <2>1, <3>2, <3>3
  <2>4. CASE ~supervised
    <3>1. above(chain) = <<>>
      BY <2>4
    <3> HIDE DEF supervised, above
    <3>2. \A h \in tree(chain, own) : h.of = q /\ EnvFair(h, tree(chain, own))
      BY <2>2, EnvTree
    <3>3. \A h \in tree(chain, own) : h.at = 0
      BY <3>1 DEF E!Tree, E!Climbed
    <3>4. \A h \in tree(chain, own) : EnvEnded(h)'
      BY <3>3 DEF EnvEnded
    <3> HIDE DEF tree
    <3> QED BY <1>3, <2>1, <3>2, <3>4
  <2> QED BY <2>3, <2>4
<1>7. \/ w8' = w8 \/ \E r \in Process : E!KillStale(r) \/ \E q \in Process : E!KillServer(r, q)
  BY DEF E!Next, E!vars, E!Up, E!Down, E!HandOver, E!EnsureDatabase, E!FindFree, E!GiveUpPort,
         E!PortsAreFree, E!MigrateAndStart, E!IsReady, E!TimeOut, E!EverythingIsUp, E!Interrupt,
         E!StopDatabase, E!Squeeze, E!Listen, E!ServerDies
<1> QED BY <1>4, <1>5, <1>6, <1>7

-----------------------------------------------------------------------------
(* The programs side by side                                               *)

ProcessesInv ==
  /\ program = "boot"    => BootInv
  /\ program = "nightly" => NightInv
  /\ program = "devenv"  => EnvInv /\ EnvSpared

LEMMA ProcessesInit == InitProcesses => ProcessesInv
<1> SUFFICES ASSUME InitProcesses PROVE ProcessesInv
  OBVIOUS
<1>1. /\ program = "boot"    => G!Init
      /\ program = "nightly" => N!Init
      /\ program = "devenv"  => E!Init
  BY Zenon DEF InitProcesses
<1>2. E!Init => EnvSpared
  BY DEF E!Init, EnvSpared
<1> QED BY <1>1, <1>2, ProcessesAssumption, BootInitInv, NightInitInv, EnvInitInv DEF ProcessesInv

\* A step is one of the program's, or nothing moves.
LEMMA StepOfProgram ==
  ASSUME [NextProcesses]_<<program, places>>
  PROVE  /\ program' = program
         /\ program = "boot"    => [G!Next]_(G!vars)
         /\ program = "nightly" => [N!Next]_(N!vars)
         /\ program = "devenv"  => [E!Next]_(E!vars)
<1>1. CASE NextProcesses
  BY <1>1 DEF NextProcesses
<1>2. CASE UNCHANGED <<program, places>>
  <2>1. program' = program
        /\ UNCHANGED <<w1, w2, w3, w4, w5, w6, w7, w8, w9, w10>>
    BY <1>2 DEF places, Above6, Above7
  <2>2. UNCHANGED G!vars
    BY <2>1 DEF G!vars
  <2>3. UNCHANGED N!vars
    BY <2>1 DEF N!vars
  <2>4. UNCHANGED E!vars
    BY <2>1 DEF E!vars
  <2> QED BY <2>1, <2>2, <2>3, <2>4
<1> QED BY <1>1, <1>2

LEMMA ProcessesKeep == ProcessesInv /\ [NextProcesses]_<<program, places>> => ProcessesInv'
<1> SUFFICES ASSUME ProcessesInv, [NextProcesses]_<<program, places>> PROVE ProcessesInv'
  OBVIOUS
<1>1. program' = program
  BY StepOfProgram
<1>2. program = "boot" => BootInv'
  BY StepOfProgram, ProcessesAssumption, BootNextInv DEF ProcessesInv
<1>3. program = "nightly" => NightInv'
  BY StepOfProgram, ProcessesAssumption, NightNextInv DEF ProcessesInv
<1>4. program = "devenv" => EnvInv' /\ EnvSpared'
  BY StepOfProgram, ProcessesAssumption, EnvNextInv, EnvSparedNext DEF ProcessesInv
<1> QED BY <1>1, <1>2, <1>3, <1>4 DEF ProcessesInv

\* Each migration is applied once, whoever listens serves what it was configured for and
\* a preview keeps to itself, however many containers boot, fail and are killed at once;
\* every Finnish day is counted and every event's month has its partition, and loses it,
\* across both changes of the clock, deploys and restarts, as long as the process stays
\* up the nights it takes; and a developer's environments stand on their own servers,
\* kill at a port only who passes for one of theirs, and above it only an unbroken chain
\* of names like theirs, and leave nothing behind, however many run beside each other.
THEOREM ProcessesHoldAlways == SpecProcesses => []ProcessesHold
<1>1. ProcessesInv => ProcessesHold
  <2> SUFFICES ASSUME ProcessesInv PROVE ProcessesHold
    OBVIOUS
  <2>1. program = "boot" => G!TypeOK /\ G!MigratedOnce /\ G!ServesWhole /\ G!PreviewKeepsToItself
    BY BootTypeOK, BootPromises DEF ProcessesInv, BootInv
  <2>2. program = "nightly" => /\ N!TypeOK /\ N!EveryDayIsCounted /\ N!WindowIsTheDay
                               /\ N!EventsHaveAPartition /\ N!EventsAreDropped
    BY ProcessesAssumption, NightPromises DEF ProcessesInv
  <2>3. program = "devenv" => E!TypeOK /\ E!ForeignIsSpared /\ E!UpIsMine /\ E!NothingIsLeft
    BY EnvPromises DEF ProcessesInv
  <2> QED BY <2>1, <2>2, <2>3 DEF ProcessesHold
<1> QED BY <1>1, ProcessesInit, ProcessesKeep, PTL DEF SpecProcesses

-----------------------------------------------------------------------------
(* Moderation.  A person's decision is told apart from a check's by what it*)
(* may be; that no audit entry exists without one is what keeps a queued   *)
(* photo's log empty.                                                      *)

\* A decision of a person is one of two, and what the log holds is of one that
\* stands, unless the photo went after it.
DecisionsStand ==
  \A p \in Photo :
    /\ review[p].by # None => review[p].decision \in {"approved", "rejected"}
    /\ audit[p] # <<>> => photo[p] = "gone" \/ review[p].by # None

Inv == TypeOK /\ RowsAgree /\ DecisionsAreAudited /\ DecisionsStand

States  == {"none", "pending", "approved", "queued", "rejected", "gone"}
Reviews == [decision : {None, "approved", "queued", "rejected"}, by : Staff \cup {None}]

\* What the invariant says of one photo.
Agree(ph, rv, log) ==
  /\ ph \in {"none", "pending", "gone"} => rv = NoReview
  /\ rv.by # None => ph = rv.decision
  /\ ph = "rejected" => rv.by # None
  /\ Len(log) <= 1
  /\ rv.by # None => log = <<rv.by>>
  /\ rv.by # None => rv.decision \in {"approved", "rejected"}
  /\ log # <<>> => ph = "gone" \/ rv.by # None

LEMMA InvByPhoto == Inv <=> TypeOK /\ \A p \in Photo : Agree(photo[p], review[p], audit[p])
BY DEF Inv, RowsAgree, DecisionsAreAudited, DecisionsStand, Agree

LEMMA RowTypes ==
  ASSUME TypeOK, NEW p \in Photo
  PROVE  photo[p] \in States /\ review[p] \in Reviews /\ audit[p] \in Seq(Staff)
BY DEF TypeOK, States, Reviews

\* Only one photo's rows change: the others still agree.
LEMMA OnePhoto ==
  ASSUME Inv, NEW p \in Photo, NEW ph \in States, NEW rv \in Reviews, NEW log \in Seq(Staff),
         photo' = [photo EXCEPT ![p] = ph], review' = [review EXCEPT ![p] = rv],
         audit' = [audit EXCEPT ![p] = log],
         Agree(ph, rv, log),
         old' \subseteq Photo, card' \subseteq Photo, failures' \in 0 .. MaxFailures,
         uploads' \in Seq(Photo), call' \in [Handler -> Calls]
  PROVE  Inv'
<1>t. TypeOK /\ \A q \in Photo : Agree(photo[q], review[q], audit[q])
  BY InvByPhoto
<1>1. /\ photo' \in [Photo -> States] /\ review' \in [Photo -> Reviews]
      /\ audit' \in [Photo -> Seq(Staff)]
  BY <1>t DEF TypeOK, States, Reviews
<1>2. TypeOK'
  BY <1>1 DEF TypeOK, States, Reviews
<1>3. ASSUME NEW q \in Photo PROVE Agree(photo'[q], review'[q], audit'[q])
  BY <1>t, <1>3 DEF TypeOK
<1> QED BY <1>2, <1>3 DEF Inv, RowsAgree, DecisionsAreAudited, DecisionsStand, Agree

\* No row changes.
LEMMA NoPhoto ==
  ASSUME Inv, UNCHANGED <<photo, review, audit>>,
         old' \subseteq Photo, card' \subseteq Photo, failures' \in 0 .. MaxFailures,
         uploads' \in Seq(Photo), call' \in [Handler -> Calls]
  PROVE  Inv'
BY DEF Inv, TypeOK, RowsAgree, DecisionsAreAudited, DecisionsStand

-----------------------------------------------------------------------------
(* Handlers *)

LEMMA CallTypes ==
  /\ Idle \in Calls
  /\ \A r \in Calls :
       /\ r.pc # "idle" => r.photo \in Photo
       /\ r.batch \in SUBSET Photo
       /\ r.pc = "record" => r.decision \in {"approved", "queued"}
       /\ r.pc = "decide" => r.decision \in {"approved", "rejected"} /\ r.by \in Staff
  /\ \A p \in Photo, b \in SUBSET Photo, pc \in {"inspect", "card"} :
       [Idle EXCEPT !.pc = pc, !.photo = p, !.batch = b] \in Calls
BY DEF Calls, Idle

LEMMA FinishTypes ==
  ASSUME TypeOK, NEW c \in Handler, Finish(c)
  PROVE  call' \in [Handler -> Calls]
BY CallTypes DEF TypeOK, Finish

LEMMA GoOnTypes ==
  ASSUME TypeOK, NEW c \in Handler, NEW b \in SUBSET Photo, GoOn(c, b)
  PROVE  call' \in [Handler -> Calls]
<1>1. CASE b = {}
  BY <1>1, FinishTypes DEF GoOn
<1>2. CASE b # {}
  <2>1. PICK p \in Oldest(b, 1) : call' = [call EXCEPT ![c] =
           [Idle EXCEPT !.pc = "card", !.photo = p, !.batch = b \ {p}]]
    BY <1>2 DEF GoOn
  <2>2. p \in Photo /\ b \ {p} \in SUBSET Photo
    BY DEF Oldest
  <2>3. [Idle EXCEPT !.pc = "card", !.photo = p, !.batch = b \ {p}] \in Calls
    BY <2>2, CallTypes
  <2> QED BY <2>1, <2>3 DEF TypeOK
<1> QED BY <1>1, <1>2

LEMMA NextOfBatchTypes ==
  ASSUME TypeOK, NEW c \in Handler, NextOfBatch(c)
  PROVE  call' \in [Handler -> Calls]
BY CallTypes, GoOnTypes DEF NextOfBatch, TypeOK

-----------------------------------------------------------------------------
(* Actions *)

LEMMA InitInv == Init => Inv
<1> SUFFICES ASSUME Init PROVE Inv
  OBVIOUS
<1>1. TypeOK
  <2>1. audit \in [Photo -> Seq(Staff)] /\ uploads \in Seq(Photo)
    BY DEF Init
  <2>2. call \in [Handler -> Calls]
    BY CallTypes DEF Init
  <2>3. /\ photo \in [Photo -> States] /\ review \in [Photo -> Reviews]
        /\ old \subseteq Photo /\ card \subseteq Photo /\ failures \in 0 .. MaxFailures
    BY ModerationAssumption DEF Init, NoReview, States, Reviews
  <2> QED BY <2>1, <2>2, <2>3 DEF TypeOK, States, Reviews
<1>2. \A p \in Photo : Agree(photo[p], review[p], audit[p])
  BY DEF Init, Agree, NoReview
<1> QED BY <1>1, <1>2, InvByPhoto

LEMMA UploadKeeps ==
  ASSUME Inv, NEW c \in Handler, NEW p \in Photo, UploadPhoto(c, p)
  PROVE  Inv'
<1>t. TypeOK /\ Agree(photo[p], review[p], audit[p])
  BY InvByPhoto
<1>1. review[p] = NoReview /\ review[p].by = None /\ audit[p] = <<>>
  BY <1>t DEF Agree, UploadPhoto, NoReview
<1>2. [Idle EXCEPT !.pc = "inspect", !.photo = p] \in Calls
  BY DEF Calls, Idle
<1>3. call' \in [Handler -> Calls]
  BY <1>t, <1>2 DEF UploadPhoto, TypeOK
<1>4. /\ photo' = [photo EXCEPT ![p] = "pending"]
      /\ review' = [review EXCEPT ![p] = review[p]]
      /\ audit' = [audit EXCEPT ![p] = audit[p]]
  BY <1>t DEF UploadPhoto, TypeOK
<1>5. Agree("pending", review[p], audit[p])
  BY <1>1 DEF Agree
<1>6. /\ old' \subseteq Photo /\ card' \subseteq Photo /\ failures' \in 0 .. MaxFailures
      /\ uploads' \in Seq(Photo)
  BY <1>t DEF UploadPhoto, TypeOK
<1>7. review[p] \in Reviews /\ audit[p] \in Seq(Staff) /\ "pending" \in States
  BY <1>t, RowTypes DEF States
<1> QED BY <1>3, <1>4, <1>5, <1>6, <1>7, OnePhoto

LEMMA DeleteKeeps ==
  ASSUME Inv, NEW p \in Photo, DeletePhoto(p)
  PROVE  Inv'
<1>t. TypeOK /\ Agree(photo[p], review[p], audit[p])
  BY InvByPhoto
<1>1. Agree("gone", NoReview, audit[p])
  BY <1>t DEF Agree, NoReview
<1>2. "gone" \in States /\ NoReview \in Reviews /\ audit[p] \in Seq(Staff)
  BY <1>t, RowTypes DEF States, Reviews, NoReview
<1>3. /\ photo' = [photo EXCEPT ![p] = "gone"] /\ review' = [review EXCEPT ![p] = NoReview]
      /\ audit' = [audit EXCEPT ![p] = audit[p]]
  BY <1>t DEF DeletePhoto, TypeOK
<1>4. /\ old' \subseteq Photo /\ card' \subseteq Photo /\ failures' \in 0 .. MaxFailures
      /\ uploads' \in Seq(Photo) /\ call' \in [Handler -> Calls]
  BY <1>t DEF DeletePhoto, TypeOK
<1> QED BY <1>1, <1>2, <1>3, <1>4, OnePhoto

\* A check's decision replaces a check's, and moves a photo that is pending.
LEMMA RecordKeeps ==
  ASSUME Inv, NEW c \in Handler, Record(c)
  PROVE  Inv'
<1> DEFINE p == call[c].photo
           d == call[c].decision
           ph == IF Movable(p) THEN d ELSE photo[p]
           rv == IF Overwritable(p) THEN [decision |-> d, by |-> None] ELSE review[p]
<1>t. TypeOK /\ p \in Photo /\ d \in {"approved", "queued"}
  BY CallTypes DEF Inv, TypeOK, Record
<1>1. /\ Agree(photo[p], review[p], audit[p]) /\ photo[p] \notin {"none", "gone"}
      /\ photo[p] \in States /\ review[p] \in Reviews /\ audit[p] \in Seq(Staff)
  BY <1>t, InvByPhoto, RowTypes DEF Record, Exists
<1>2. call' \in [Handler -> Calls]
  BY <1>t, NextOfBatchTypes DEF Record
<1>3. /\ old' \subseteq Photo /\ card' \subseteq Photo /\ failures' \in 0 .. MaxFailures
      /\ uploads' \in Seq(Photo)
  BY <1>t DEF Record, TypeOK
<1>4. /\ photo' = [photo EXCEPT ![p] = ph] /\ review' = [review EXCEPT ![p] = rv]
      /\ audit' = [audit EXCEPT ![p] = audit[p]]
  BY <1>t DEF Record, TypeOK
<1>5. ph \in States /\ rv \in Reviews
  BY <1>t, <1>1 DEF States, Reviews
<1>6. Agree(ph, rv, audit[p])
  BY <1>t, <1>1 DEF Agree, Movable, Overwritable, NoReview
<1> HIDE DEF p, ph, rv
<1> QED BY <1>t, <1>1, <1>2, <1>3, <1>4, <1>5, <1>6, OnePhoto

\* A queued photo has no entry in the log yet: a decision writes the first one.
LEMMA DecideKeeps ==
  ASSUME Inv, NEW c \in Handler, Decide(c)
  PROVE  Inv'
<1> DEFINE p == call[c].photo
           rv == [decision |-> call[c].decision, by |-> call[c].by]
<1>t. /\ TypeOK /\ p \in Photo
      /\ call[c].decision \in {"approved", "rejected"} /\ call[c].by \in Staff
  BY CallTypes DEF Inv, TypeOK, Decide
<1>1. call' \in [Handler -> Calls]
  BY <1>t, FinishTypes DEF Decide
<1>2. /\ old' \subseteq Photo /\ card' \subseteq Photo /\ failures' \in 0 .. MaxFailures
      /\ uploads' \in Seq(Photo)
  BY <1>t DEF Decide, TypeOK
<1>3. CASE Decidable(p)
  <2>1. Agree(photo[p], review[p], audit[p]) /\ photo[p] = "queued"
    BY <1>t, <1>3, InvByPhoto DEF Decidable
  <2>2. audit[p] = <<>>
    BY <2>1 DEF Agree
  <2>3. Append(audit[p], call[c].by) = <<call[c].by>>
    BY <2>2
  <2>4. /\ photo' = [photo EXCEPT ![p] = call[c].decision] /\ review' = [review EXCEPT ![p] = rv]
        /\ audit' = [audit EXCEPT ![p] = <<call[c].by>>]
    BY <1>3, <2>3 DEF Decide
  <2>5. Agree(call[c].decision, rv, <<call[c].by>>)
    BY <1>t, ModerationAssumption DEF Agree
  <2>6. call[c].decision \in States /\ rv \in Reviews /\ <<call[c].by>> \in Seq(Staff)
    BY <1>t DEF States, Reviews
  <2> HIDE DEF p, rv
  <2> QED BY <1>t, <1>1, <1>2, <2>4, <2>5, <2>6, OnePhoto
<1>4. CASE ~Decidable(p)
  <2>1. UNCHANGED <<photo, review, audit>>
    BY <1>4 DEF Decide, Refused
  <2> QED BY <1>1, <1>2, <2>1, NoPhoto
<1> QED BY <1>3, <1>4

\* What reads the rows without writing them.
LEMMA ReadersKeep ==
  ASSUME Inv, NEW c \in Handler,
         \/ Inspect(c) \/ InspectFails(c) \/ RecordFails(c) \/ StartSweep(c) \/ GetCard(c) \/ Crash(c)
         \/ \E s \in Staff, p \in Photo, d \in {"approved", "rejected"} : BeginDecision(c, s, p, d)
  PROVE  Inv'
<1>t. TypeOK /\ call \in [Handler -> Calls]
  BY DEF Inv, TypeOK
<1>1. /\ UNCHANGED <<photo, review, audit>>
      /\ old' \subseteq Photo /\ card' \subseteq Photo /\ failures' \in 0 .. MaxFailures
      /\ uploads' \in Seq(Photo)
  <2>1. UNCHANGED <<photo, review, audit, old, card, uploads>>
    BY DEF Inspect, InspectFails, RecordFails, StartSweep, GetCard, Crash, BeginDecision
  <2>2. failures' = failures \/ (failures < MaxFailures /\ failures' = failures + 1)
    BY DEF Inspect, InspectFails, RecordFails, StartSweep, GetCard, Crash, BeginDecision
  <2>3. failures' \in 0 .. MaxFailures
    BY <1>t, <2>2, ModerationAssumption DEF TypeOK
  <2> QED BY <1>t, <2>1, <2>3 DEF TypeOK
<1>2. call' \in [Handler -> Calls]
  <2>1. CASE Inspect(c)
    <3>1. PICK i \in Inspections :
            call' = [call EXCEPT ![c].pc = "record", ![c].decision = decideModeration(i)]
      BY <2>1 DEF Inspect
    <3>2. /\ call[c] \in Calls /\ call[c].pc = "inspect"
          /\ decideModeration(i) \in {"approved", "queued"}
      BY <1>t, <2>1 DEF Inspect, decideModeration
    <3>3. [call[c] EXCEPT !.pc = "record", !.decision = decideModeration(i)] \in Calls
      BY <3>2 DEF Calls
    <3> QED BY <1>t, <3>1, <3>3
  <2>2. CASE InspectFails(c)
    BY <1>t, <2>2, NextOfBatchTypes DEF InspectFails
  <2>3. CASE RecordFails(c) \/ Crash(c)
    BY <1>t, <2>3, FinishTypes DEF RecordFails, Crash
  <2>4. CASE StartSweep(c)
    <3>1. findPendingUnchecked \in SUBSET Photo
      BY DEF findPendingUnchecked, Oldest
    <3> QED BY <1>t, <2>4, <3>1, GoOnTypes DEF StartSweep
  <2>5. CASE GetCard(c)
    <3>1. CASE call[c].photo \in card
      <4>1. call' = [call EXCEPT ![c].pc = "inspect"] /\ call[c].pc = "card" /\ call[c] \in Calls
        BY <1>t, <2>5, <3>1 DEF GetCard, Goto
      <4>2. [call[c] EXCEPT !.pc = "inspect"] \in Calls
        BY <4>1 DEF Calls
      <4> QED BY <1>t, <4>1, <4>2
    <3>2. CASE call[c].photo \notin card
      BY <1>t, <2>5, <3>2, NextOfBatchTypes DEF GetCard
    <3> QED BY <3>1, <3>2
  <2>6. ASSUME NEW s \in Staff, NEW p \in Photo, NEW d \in {"approved", "rejected"},
               BeginDecision(c, s, p, d)
        PROVE  call' \in [Handler -> Calls]
    <3>1. [Idle EXCEPT !.pc = "decide", !.photo = p, !.by = s, !.decision = d] \in Calls
      BY DEF Calls, Idle
    <3> QED BY <1>t, <2>6, <3>1 DEF BeginDecision
  <2> QED BY <2>1, <2>2, <2>3, <2>4, <2>5, <2>6
<1> QED BY <1>1, <1>2, NoPhoto

LEMMA NextKeeps == Inv /\ [Next]_vars => Inv'
<1> SUFFICES ASSUME Inv, [Next]_vars PROVE Inv'
  OBVIOUS
<1>1. ASSUME NEW c \in Handler, CheckStep(c) PROVE Inv'
  BY <1>1, RecordKeeps, ReadersKeep DEF CheckStep
<1>2. ASSUME NEW c \in Handler, InspectFails(c) \/ StartSweep(c) \/ Decide(c) \/ Crash(c) PROVE Inv'
  BY <1>2, DecideKeeps, ReadersKeep
<1>3. ASSUME NEW c \in Handler, NEW p \in Photo,
             \/ UploadPhoto(c, p)
             \/ \E s \in Staff, d \in {"approved", "rejected"} : BeginDecision(c, s, p, d)
      PROVE  Inv'
  BY <1>3, UploadKeeps, ReadersKeep
<1>4. ASSUME NEW p \in Photo, DeletePhoto(p) PROVE Inv'
  BY <1>4, DeleteKeeps
<1>5. ASSUME NEW p \in Photo, GrowOld(p) PROVE Inv'
  BY <1>5, NoPhoto DEF GrowOld, Inv, TypeOK
<1>6. CASE UNCHANGED vars
  BY <1>6, NoPhoto DEF vars, Inv, TypeOK
<1> QED BY <1>1, <1>2, <1>3, <1>4, <1>5, <1>6 DEF Next

-----------------------------------------------------------------------------
(* Theorems *)

LEMMA SpecInv == Spec => []Inv
BY InitInv, NextKeeps, PTL DEF Spec

\* Rows and requests keep their types; no check ever rejects a photo.
THEOREM ModerationTypeOK == Spec => []TypeOK
<1>1. Inv => TypeOK
  BY DEF Inv
<1> QED BY <1>1, SpecInv, PTL

\* The photo's row, its review and the audit log tell one story.
THEOREM ModerationRecordsAgree == Spec => []RecordsAgree
<1>1. Inv => RecordsAgree
  BY DEF Inv, RecordsAgree
<1> QED BY <1>1, SpecInv, PTL

\* No check, sweep or second moderator changes what a person decided.
THEOREM ModerationPersonDecides == Spec => PersonDecides
<1>1. ASSUME Inv, [Next]_vars
      PROVE  [\A p \in Photo :
                review[p].by # None =>
                  \/ review'[p] = review[p] /\ photo'[p] = photo[p]
                  \/ photo'[p] = "gone"]_vars
  <2> SUFFICES ASSUME Next, NEW p \in Photo, review[p].by # None
               PROVE  \/ review'[p] = review[p] /\ photo'[p] = photo[p]
                      \/ photo'[p] = "gone"
    BY <1>1
  <2>t. TypeOK /\ Agree(photo[p], review[p], audit[p])
    BY <1>1, InvByPhoto
  <2>0. photo[p] \notin {"none", "pending", "queued"}
    BY <2>t DEF Agree, NoReview
  <2>1. ASSUME NEW c \in Handler, Record(c)
        PROVE  review'[p] = review[p] /\ photo'[p] = photo[p]
    BY <2>t, <2>0, <2>1 DEF Record, TypeOK, Movable, Overwritable
  <2>2. ASSUME NEW c \in Handler, Decide(c)
        PROVE  review'[p] = review[p] /\ photo'[p] = photo[p]
    BY <2>t, <2>0, <2>2 DEF Decide, TypeOK, Decidable
  <2>3. ASSUME NEW c \in Handler, NEW q \in Photo, UploadPhoto(c, q)
        PROVE  review'[p] = review[p] /\ photo'[p] = photo[p]
    BY <2>t, <2>0, <2>3 DEF UploadPhoto, TypeOK
  <2>4. ASSUME NEW q \in Photo, DeletePhoto(q)
        PROVE  \/ review'[p] = review[p] /\ photo'[p] = photo[p]
               \/ photo'[p] = "gone"
    BY <2>t, <2>4 DEF DeletePhoto, TypeOK
  <2>5. CASE UNCHANGED <<photo, review>>
    BY <2>5
  <2> QED BY <2>1, <2>2, <2>3, <2>4, <2>5
       DEF Next, CheckStep, GetCard, Inspect, RecordFails, InspectFails, StartSweep, Crash,
           BeginDecision, GrowOld
<1> QED BY <1>1, SpecInv, PTL DEF Spec, PersonDecides
=============================================================================
