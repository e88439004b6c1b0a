------------------------------ MODULE Personas ------------------------------
(***************************************************************************)
(* demo:reset, which forgets the personas of the mock bank and gives some  *)
(* of them a history (apps/api/scripts/demo-reset.ts and demo/), on a      *)
(* computer whose API runs: one transaction with the personas' identities  *)
(* locked, every account's erasure with its photos' objects, and the       *)
(* checks that take everything back; then logins as anybody's.  Meanwhile  *)
(* personas log in, upload, leave, and are made staff.  A picture is one   *)
(* object here, for the three variants that are written together; how an   *)
(* upload and an erasure of the API overlap is in Photos.                  *)
(***************************************************************************)
EXTENDS Naturals, FiniteSets

CONSTANTS Persona, Picture,
          PERSONA_HISTORIES,  \* persona -> what is done afterwards, for those with a history
          MaxMoves            \* bound: what others do

\* A history ends in a ban or in leaving, or the persona goes on living.
PersonasAssumption ==
  /\ MaxMoves \in Nat /\ IsFiniteSet(Picture) /\ Picture # {}
  /\ PERSONA_HISTORIES \in UNION {[set -> {"live", "banned", "gone"}] : set \in SUBSET Persona}

VARIABLES
  account,    \* per persona: "none", "identity" with no account yet, "live", "banned", "gone"
  staff,      \* per persona: "none", "role", "ended" sessions of a role, "audited" for ever
  photos,     \* the personas' photo rows, <<persona, picture>>
  others,     \* the pictures of other people's rows
  objects,    \* the API's object store
  reset,      \* the command
  torn,       \* history: a reset was taken back, and an object store has no rollback
  behind,     \* history: somebody new, or a photo it could not delete, behind its back
  forced,     \* history: told that the objects are lost, it asked no store
  moves

rows == <<account, staff, photos, others>>
vars == <<rows, objects, reset, torn, behind, forced, moves>>

Idle == [pc |-> "idle"]
Ended == {"idle", "refused", "taken back", "staff row", "stopped", "done"}

Under(pcs) == reset.pc \in pcs
InTransaction == ~Under(Ended \cup {"begun", "histories", "given"})
Identities == {p \in Persona : account[p] # "none"}
Accounts == {p \in Persona : account[p] \in {"live", "banned"}}

Locked(p) == InTransaction /\ p \in reset.locked
AccountLocked(p) == InTransaction /\ p \in reset.erased
PicturesOf(set) == {r[2] : r \in set}

\* What a statement of the reset sees of photo rows: its own deletions are gone.
Seen == photos \ (IF InTransaction THEN reset.deleted ELSE {})
Orphaned(keys) == {k \in keys : k \notin others \cup PicturesOf(Seen)}

Init ==
  /\ account \in [Persona -> {"none", "live"}] /\ staff = [p \in Persona |-> "none"]
  /\ photos \in SUBSET (Accounts \X Picture) /\ others \in {{}, {CHOOSE k \in Picture : TRUE}}
  /\ objects = others \cup PicturesOf(photos)
  /\ reset = Idle /\ torn = FALSE /\ behind = FALSE /\ forced = FALSE /\ moves = 0

-----------------------------------------------------------------------------
(* The command.                                                            *)

Go(to) == reset' = to /\ UNCHANGED <<rows, objects, torn, behind, forced, moves>>

\* What is left of the command's record when it is over; one that erases is taken back.
Over(pc) == [pc |-> pc]
TakeBack(why) ==
  reset' = Over(why) /\ torn' = TRUE /\ UNCHANGED <<rows, objects, behind, forced, moves>>

\* The answers before anybody is erased: the API's database is this one, unless bare.
lookAtApi(bare, same) == bare \/ same

Begin(store, lost, bare, same) ==
  /\ Under({"idle"})
  /\ reset' = IF lookAtApi(bare, same)
                THEN [pc |-> "begun", store |-> store, lost |-> lost, bare |-> bare]
                ELSE Over("refused")
  /\ forced' = (forced \/ (lost /\ store = "other"))
  /\ UNCHANGED <<rows, objects, torn, behind, moves>>

\* The identities' rows are locked from here to the deletion.
Lock ==
  /\ Under({"begun"})
  /\ Go([pc |-> "locked", store |-> reset.store, lost |-> reset.lost, bare |-> reset.bare,
               locked |-> Identities, ids |-> {}, spared |-> {}, photos |-> {}, check |-> {},
               absent |-> FALSE, todo |-> {}, mine |-> {}, keys |-> {}, deleted |-> {},
               erased |-> {}, answer |-> 0])

IsStaff(p) == staff[p] \in {"role", "audited"}

Ask ==
  /\ Under({"locked"})
  /\ Go([reset EXCEPT !.pc = "asked", !.spared = {p \in Identities : IsStaff(p)},
                      !.ids = {p \in Identities : ~IsStaff(p)}])

\* The photos, and with no store to delete them from, nobody is erased.
Look ==
  /\ Under({"asked"})
  /\ LET found == {r \in photos : r[1] \in reset.ids} IN
     Go(IF reset.store = "none" /\ found # {} THEN Over("refused")
        ELSE [reset EXCEPT !.pc = "looked", !.photos = found,
                           !.check = IF reset.store = "none" \/ reset.lost THEN {} ELSE PicturesOf(found)])

\* The store of the command's configuration is asked for one photo, and may not answer.
\* Another store than the API's holds none of them.
AskStore(k, answers) ==
  /\ Under({"looked"}) /\ k \in reset.check
  /\ Go(IF ~answers THEN Over("refused") ELSE [reset EXCEPT !.check = @ \ {k},
                      !.absent = @ \/ reset.store = "other" \/ k \notin objects])

ReadAccounts ==
  /\ Under({"looked"}) /\ reset.check = {}
  /\ Go(IF reset.absent THEN Over("refused")
        ELSE [reset EXCEPT !.pc = "erasing", !.todo = Accounts \cap reset.ids])

\* eraseAccount's transaction, a savepoint here: the account's lock, and its rows.
EraseRows(p) ==
  /\ Under({"erasing"}) /\ p \in reset.todo
  /\ LET rowsOf == {r \in photos : r[1] = p} IN
     IF p \notin Accounts THEN TakeBack("taken back")
     ELSE Go([reset EXCEPT !.pc = "erased rows", !.todo = @ \ {p}, !.erased = @ \cup {p},
                           !.deleted = @ \cup rowsOf, !.keys = PicturesOf(rowsOf),
                           !.mine = PicturesOf({r \in reset.photos : r[1] = p})])

\* deleteOrphanedObjects: what no row names goes, from the store that is configured;
\* a store that fails is forgiven, and answers nothing deleted.
EraseObjects(fails) ==
  /\ Under({"erased rows"}) /\ (fails => reset.store # "none" /\ Orphaned(reset.keys) # {})
  /\ LET gone == IF reset.store = "none" \/ fails THEN {} ELSE Orphaned(reset.keys) IN
     /\ objects' = IF reset.store = "api" THEN objects \ gone ELSE objects
     /\ reset' = [reset EXCEPT !.pc = "erased", !.answer = Cardinality(gone)]
     /\ behind' = (behind \/ (gone = {} /\ ~(reset.keys \subseteq reset.mine)))
  /\ UNCHANGED <<rows, torn, forced, moves>>

Due == Cardinality(Orphaned(reset.mine))
CountObjects ==
  /\ Under({"erased"})
  /\ IF reset.answer # Due THEN TakeBack("taken back")
     ELSE Go([reset EXCEPT !.pc = "erasing", !.answer = 0, !.mine = {}, !.keys = {}])

\* The ended staff sessions, then deleteIdentities: a staff row stops it.
Forgettable(p) == staff[p] \in {"none", "ended"}
Commit ==
  /\ Under({"erasing"}) /\ reset.todo = {}
  /\ IF \E p \in reset.ids : ~Forgettable(p) THEN TakeBack("staff row")
     ELSE /\ account' = [p \in Persona |-> IF p \in reset.ids THEN "none" ELSE account[p]]
          /\ staff' = [p \in Persona |-> IF p \in reset.ids THEN "none" ELSE staff[p]]
          /\ photos' = {r \in photos : r[1] \notin reset.ids}
          /\ reset' = [pc |-> "histories", bare |-> reset.bare, spared |-> reset.spared,
                       todo |-> IF reset.bare THEN {} ELSE DOMAIN PERSONA_HISTORIES \ reset.spared,
                       doing |-> {}]
          /\ UNCHANGED <<others, objects, torn, behind, forced, moves>>

\* The command, its connection or its statement ends: a deadlock with an account
\* that is being deleted, too.
Abort == InTransaction /\ TakeBack("taken back")

\* giveHistory: a login at the bank, refused while a deletion's wait runs or after a ban.
GiveLogin(p) ==
  /\ Under({"histories"}) /\ reset.doing = {} /\ p \in reset.todo
  /\ IF account[p] \in {"gone", "banned"} THEN Go(Over("stopped"))
     ELSE /\ account' = [account EXCEPT ![p] = "live"]
          /\ reset' = [reset EXCEPT !.doing = {p}, !.todo = @ \ {p}]
          /\ UNCHANGED <<staff, photos, others, objects, torn, behind, forced, moves>>

\* The rest of it, through the routes of the session, and what no route does.
GiveRest(p) ==
  /\ Under({"histories"}) /\ p \in reset.doing
  /\ IF account[p] # "live" THEN Go(Over("stopped"))
     ELSE /\ account' = [account EXCEPT ![p] = PERSONA_HISTORIES[p]]
          /\ photos' = IF PERSONA_HISTORIES[p] = "gone" THEN {r \in photos : r[1] # p} ELSE photos
          /\ objects' = IF PERSONA_HISTORIES[p] = "gone"
                          THEN {k \in objects : k \in others \cup PicturesOf(photos')} ELSE objects
          /\ reset' = [reset EXCEPT !.doing = {}]
          /\ UNCHANGED <<staff, others, torn, behind, forced, moves>>

Finish == Under({"histories"}) /\ reset.todo = {} /\ reset.doing = {} /\ Go(Over("done"))

\* The person at the computer resets again.
Again == Under(Ended \ {"idle"}) /\ Go(Idle)

-----------------------------------------------------------------------------
(* Meanwhile.  Whoever names an identity by a foreign key waits for its lock. *)

Move(p) == moves < MaxMoves /\ moves' = moves + 1

\* A first login inserts the identity, then the account; a later one finds both.
Identify(p) ==
  /\ account[p] = "none" /\ Move(p)
  /\ account' = [account EXCEPT ![p] = "identity"]
  /\ behind' = (behind \/ InTransaction)
  /\ UNCHANGED <<staff, photos, others, objects, reset, torn, forced>>

Register(p) ==
  /\ account[p] = "identity" /\ ~Locked(p) /\ Move(p)
  /\ account' = [account EXCEPT ![p] = "live"]
  /\ UNCHANGED <<staff, photos, others, objects, reset, torn, behind, forced>>

Upload(p, k) ==
  /\ account[p] = "live" /\ ~AccountLocked(p) /\ <<p, k>> \notin photos /\ Move(p)
  /\ photos' = photos \cup {<<p, k>>} /\ objects' = objects \cup {k}
  /\ UNCHANGED <<account, staff, others, reset, torn, behind, forced>>

\* The account's deletion writes the identity, and waits for it when it is locked.
Leave(p) ==
  /\ account[p] = "live" /\ ~Locked(p) /\ ~AccountLocked(p) /\ Move(p)
  /\ account' = [account EXCEPT ![p] = "gone"] /\ photos' = {r \in photos : r[1] # p}
  /\ objects' = {k \in objects : k \in others \cup PicturesOf(photos')}
  /\ UNCHANGED <<staff, others, reset, torn, behind, forced>>

\* moderator grant, and revoke with the staff session it ends; a decision in the audit log.
Grant(p) ==
  /\ p \in Identities /\ account[p] # "banned" /\ staff[p] \in {"none", "ended"} /\ ~Locked(p) /\ Move(p)
  /\ staff' = [staff EXCEPT ![p] = "role"] /\ UNCHANGED <<account, photos, others, objects, reset, torn, behind, forced>>

Revoke(p) ==
  /\ staff[p] = "role" /\ Move(p)
  /\ staff' = [staff EXCEPT ![p] = "ended"] /\ UNCHANGED <<account, photos, others, objects, reset, torn, behind, forced>>

Decide(p) ==
  /\ staff[p] = "role" /\ ~Locked(p) /\ Move(p)
  /\ staff' = [staff EXCEPT ![p] = "audited"] /\ UNCHANGED <<account, photos, others, objects, reset, torn, behind, forced>>

Next ==
  \/ \E store \in {"none", "api", "other"}, lost, bare, same \in BOOLEAN : Begin(store, lost, bare, same)
  \/ Lock \/ Ask \/ Look \/ ReadAccounts \/ CountObjects \/ Commit \/ Abort \/ Finish \/ Again
  \/ \E k \in Picture, answers \in BOOLEAN : AskStore(k, answers)
  \/ \E fails \in BOOLEAN : EraseObjects(fails)
  \/ \E p \in Persona :
       \/ EraseRows(p) \/ GiveLogin(p) \/ GiveRest(p)
       \/ Identify(p) \/ Register(p) \/ Leave(p) \/ Grant(p) \/ Revoke(p) \/ Decide(p)
       \/ \E k \in Picture : Upload(p, k)

Spec == Init /\ [][Next]_vars

TypeOK ==
  /\ account \in [Persona -> {"none", "identity", "live", "banned", "gone"}]
  /\ staff \in [Persona -> {"none", "role", "ended", "audited"}]
  /\ photos \subseteq Persona \X Picture /\ others \subseteq Picture /\ objects \subseteq Picture
  /\ reset.pc \in Ended \cup {"begun", "locked", "asked", "looked", "erasing", "erased rows",
                             "erased", "histories"}
  /\ torn \in BOOLEAN /\ behind \in BOOLEAN /\ forced \in BOOLEAN /\ moves \in 0..MaxMoves

\* No row goes while its objects stay (reset.ts): an object nothing names is left only
\* when the command was told that the objects are lost, or behind its back: an upload
\* after its look at the photos with no store to delete from, or somebody new.
RowsGoWithTheirObjects ==
  ~InTransaction /\ ~behind /\ ~forced => objects \subseteq others \cup PicturesOf(photos)

\* A role granted while the reset runs is seen by its question or finds the persona
\* gone: the deletion only ever meets a staff row of somebody it could not lock.
StaffSeenOrGone == Under({"staff row"}) => behind

\* A reset that is not taken back, refused or stopped or done, leaves every photo's
\* objects where they were, or goes with their rows.
PhotosAreWhole == ~InTransaction /\ ~torn => PicturesOf(photos) \subseteq objects
=============================================================================
