------------------------------- MODULE Photos -------------------------------
(***************************************************************************)
(* The photos of an account: rows in PostgreSQL and objects in an object   *)
(* store, which cannot change together (apps/api/src/media).  An upload    *)
(* stores the objects first and inserts the row that owns them after; a    *)
(* deletion and an erasure delete rows first and then the objects that no  *)
(* row of any account refers to.  Objects are addressed by their content,  *)
(* so two rows may share them.                                             *)
(*                                                                         *)
(* Photo ids are numbered in the order of created_at.  What an upload      *)
(* decodes, signs and answers is left out; moderation is the subject of    *)
(* Moderation, and fetching a photo of Budget.                             *)
(***************************************************************************)
EXTENDS Naturals, FiniteSets, TLC

CONSTANTS Account, Key, Variant, Handler, None,
          MaxPhotos,    \* matching_config max_photos
          MaxRows       \* bound: rows ever inserted

Photo == 1 .. MaxRows

ASSUME PhotosAssumption ==
  /\ MaxPhotos \in Nat /\ MaxRows \in Nat
  /\ IsFiniteSet(Handler) /\ Handler # {}
  /\ None \notin Account \cup Photo \cup Key

VARIABLES
  live,      \* the accounts that are not tombstones
  photo,     \* the rows, "unused" before and "gone" after
  objects,   \* for each content key the variants in the store
  late,      \* puts still under way after the upload that made them has failed
  call,      \* the handlers
  spoilt,    \* history: keys of a call that died, of a store call that failed
  raced,     \* history: keys that two handlers held at once
  mingled,   \* history: accounts whose order two handlers wrote at once
  together   \* history: accounts with two inserts at once

Overlaps == <<raced, mingled, together>>
vars == <<live, photo, objects, late, call, spoilt, Overlaps>>

Unused == [account |-> None, key |-> None, pos |-> 0, is |-> "unused"]
Gone   == [Unused EXCEPT !.is = "gone"]
PhotoRows ==
  [account : Account \cup {None}, key : Key \cup {None}, pos : Nat, is : {"unused", "row", "gone"}]

Idle == [pc |-> "idle", account |-> None, keys |-> {}, rank |-> [p \in {} |-> 0], pos |-> 0]

Init ==
  /\ live = Account
  /\ photo = [p \in Photo |-> Unused]
  /\ objects = [k \in Key |-> {}]
  /\ late = [k \in Key |-> {}]
  /\ call = [c \in Handler |-> Idle]
  /\ spoilt = {} /\ raced = {} /\ mingled = {} /\ together = {}

RowsOf(x)  == {p \in Photo : photo[p].is = "row" /\ photo[p].account = x}
RowsFor(k) == {p \in Photo : photo[p].is = "row" /\ photo[p].key = k}

Goto(c, pc) == call' = [call EXCEPT ![c].pc = pc]
Finish(c)   == call' = [call EXCEPT ![c] = Idle]

\* Handlers besides c that have to do with a key, or with an account's rows.
Holding(c, k) == {d \in Handler \ {c} : k \in call[d].keys}
Working(c, x) == {d \in Handler \ {c} : call[d].account = x}

NoteKeys(c, ks) == raced' = raced \cup {k \in ks : Holding(c, k) # {}}
NoteAccount(c, x, renumbers) ==
  mingled' = IF Working(c, x) # {} THEN mingled \cup {x}
             ELSE IF renumbers THEN mingled \ {x} ELSE mingled

-----------------------------------------------------------------------------
(* POST /photos                                                            *)

\* The guard, the first count, the pipeline: an upload that is not refused.
BeginUpload(c, x, k) ==
  /\ call[c] = Idle
  /\ x \in live
  /\ Cardinality(RowsOf(x)) < MaxPhotos
  /\ call' = [call EXCEPT ![c] = [Idle EXCEPT !.pc = "put", !.account = x, !.keys = {k}]]
  /\ NoteKeys(c, {k}) /\ NoteAccount(c, x, FALSE)
  /\ UNCHANGED <<live, photo, objects, late, spoilt, together>>

\* Mutation: an upload that fails leaves its objects to somebody else.
FailUploadAtOnce(c) == Finish(c)

\* dropOrphans comes first.
FailUpload(c) == Goto(c, "orphans")

PutObjects(c) ==
  /\ call[c].pc = "put"
  /\ objects' = [k \in Key |-> IF k \in call[c].keys THEN Variant ELSE objects[k]]
  /\ Goto(c, "check")
  /\ UNCHANGED <<live, photo, late, spoilt, Overlaps>>

\* One put fails: Promise.all rejects at once, and the others go on.
PutFails(c) ==
  /\ call[c].pc = "put"
  /\ \E lost \in SUBSET Variant \ {{}} : \E done \in SUBSET (Variant \ lost) :
       LET slow == (Variant \ lost) \ done
       IN  /\ objects' = [k \in Key |-> objects[k] \cup IF k \in call[c].keys THEN done ELSE {}]
           /\ late' = [k \in Key |-> late[k] \cup IF k \in call[c].keys THEN slow ELSE {}]
           /\ spoilt' = IF slow = {} THEN spoilt ELSE spoilt \cup call[c].keys
  /\ FailUpload(c)
  /\ UNCHANGED <<live, photo, Overlaps>>

LatePut(k, v) ==
  /\ v \in late[k]
  /\ late' = [late EXCEPT ![k] = @ \ {v}]
  /\ objects' = [objects EXCEPT ![k] = @ \cup {v}]
  /\ UNCHANGED <<live, photo, call, spoilt, Overlaps>>

\* The HAVING of insertPhoto.
Fits(x) == Cardinality(RowsOf(x)) < MaxPhotos /\ x \in live

LastPosition(rows) == CHOOSE n \in {photo[p].pos : p \in rows} : \A p \in rows : photo[p].pos <= n
NextPosition(rows) == IF rows = {} THEN 0 ELSE LastPosition(rows) + 1

\* insertPhoto decides on its statement's snapshot ...
CheckInsert(c) ==
  /\ call[c].pc = "check"
  /\ \/ /\ Fits(call[c].account)
        /\ call' = [call EXCEPT ![c].pc = "insert",
                                ![c].pos = NextPosition(RowsOf(call[c].account))]
        /\ together' = IF \E d \in Working(c, call[c].account) : call[d].pc = "insert"
                       THEN together \cup {call[c].account} ELSE together
     \/ /\ ~Fits(call[c].account)
        /\ FailUpload(c)
        /\ UNCHANGED together
  /\ UNCHANGED <<live, photo, objects, late, spoilt, raced, mingled>>

\* ... and its row, which may have waited for an erasure's lock on the account.
InsertRow(c) ==
  /\ call[c].pc = "insert"
  /\ \E p \in Photo, k \in call[c].keys :
       /\ photo[p] = Unused /\ \A q \in Photo : q < p => photo[q] # Unused
       /\ photo' = [photo EXCEPT ![p] =
            [account |-> call[c].account, key |-> k, pos |-> call[c].pos, is |-> "row"]]
  /\ Finish(c)
  /\ UNCHANGED <<live, objects, late, spoilt, Overlaps>>

\* insertPhoto fails (a lost connection): the failure path again.
InsertFails(c) ==
  /\ call[c].pc = "check"
  /\ FailUpload(c)
  /\ UNCHANGED <<live, photo, objects, late, spoilt, Overlaps>>

-----------------------------------------------------------------------------
(* DELETE /photos/{id} and PUT /photos/order                               *)

DeleteRow(c, p) ==
  /\ call[c] = Idle
  /\ photo[p].is = "row" /\ photo[p].account \in live
  /\ call' = [call EXCEPT ![c] =
       [Idle EXCEPT !.pc = "compact", !.account = photo[p].account, !.keys = {photo[p].key}]]
  /\ photo' = [photo EXCEPT ![p] = Gone]
  /\ NoteKeys(c, {photo[p].key}) /\ NoteAccount(c, photo[p].account, TRUE)
  /\ UNCHANGED <<live, objects, late, spoilt, together>>

\* ORDER BY position, created_at
Before(p, q) == photo[p].pos < photo[q].pos \/ (photo[p].pos = photo[q].pos /\ p < q)

\* Mutation: the first position is the place of the row before it.
RankFromBelow(rows) == [p \in rows |-> Cardinality({q \in rows : Before(q, p)}) - 1]

\* Mutation: row_number() as it is.
RankFromOne(rows) == [p \in rows |-> Cardinality({q \in rows : Before(q, p)}) + 1]

Rank(rows) == [p \in rows |-> Cardinality({q \in rows : Before(q, p)})]

\* compactPositions: row_number() over the statement's snapshot.
RankRows(c) ==
  /\ call[c].pc = "compact"
  /\ call' = [call EXCEPT ![c].pc = "renumber", ![c].rank = Rank(RowsOf(call[c].account))]
  /\ UNCHANGED <<live, photo, objects, late, spoilt, Overlaps>>

\* reorderPhotos: the order names every photo of the list exactly once.
BeginReorder(c, x) ==
  /\ call[c] = Idle
  /\ x \in live
  /\ LET rows == RowsOf(x)
     IN  \E order \in [rows -> 0 .. Cardinality(rows) - 1] :
           /\ \A p, q \in rows : order[p] = order[q] => p = q
           /\ call' = [call EXCEPT ![c] =
                [Idle EXCEPT !.pc = "renumber", !.account = x, !.rank = order]]
  /\ NoteAccount(c, x, TRUE)
  /\ UNCHANGED <<live, photo, objects, late, spoilt, raced, together>>

\* The UPDATE of either statement: the account's rows that are still there.
WritePositions(c) ==
  /\ call[c].pc = "renumber"
  /\ photo' = [p \in Photo |->
       IF p \in DOMAIN call[c].rank /\ p \in RowsOf(call[c].account)
       THEN [photo[p] EXCEPT !.pos = call[c].rank[p]] ELSE photo[p]]
  /\ IF call[c].keys = {} THEN Finish(c) ELSE Goto(c, "orphans")
  /\ UNCHANGED <<live, objects, late, spoilt, Overlaps>>

-----------------------------------------------------------------------------
(* The erasure's part, and the objects nobody refers to                    *)

eraseAccount(c, x) ==
  /\ call[c] = Idle
  /\ x \in live
  /\ LET keys == {photo[p].key : p \in RowsOf(x)}
     IN  /\ call' = [call EXCEPT ![c] =
              IF keys = {} THEN Idle
              ELSE [Idle EXCEPT !.pc = "orphans", !.account = x, !.keys = keys]]
         /\ NoteKeys(c, keys)
  /\ live' = live \ {x}
  /\ photo' = [p \in Photo |-> IF p \in RowsOf(x) THEN Gone ELSE photo[p]]
  /\ NoteAccount(c, x, FALSE)
  /\ UNCHANGED <<objects, late, spoilt, together>>

\* Mutation: only the account's own rows keep the objects.
OrphanedOfAccount(c) == {k \in call[c].keys : RowsFor(k) \cap RowsOf(call[c].account) = {}}

\* countRowsForKey (an upload's failure path, a deletion) and orphanedKeys.
Orphaned(c) == {k \in call[c].keys : RowsFor(k) = {}}

FindOrphans(c) ==
  /\ call[c].pc = "orphans"
  /\ call' = [call EXCEPT ![c] =
       IF Orphaned(c) = {} THEN Idle ELSE [@ EXCEPT !.pc = "delete", !.keys = Orphaned(c)]]
  /\ UNCHANGED <<live, photo, objects, late, spoilt, Overlaps>>

DeleteObjects(c) ==
  /\ call[c].pc = "delete"
  /\ objects' = [k \in Key |-> IF k \in call[c].keys THEN {} ELSE objects[k]]
  /\ Finish(c)
  /\ UNCHANGED <<live, photo, late, spoilt, Overlaps>>

\* DeleteObjects answers with the objects it could not delete.
DeleteFails(c) ==
  /\ call[c].pc = "delete"
  /\ \E left \in SUBSET Variant \ {{}} :
       objects' = [k \in Key |-> IF k \in call[c].keys THEN objects[k] \cap left ELSE objects[k]]
  /\ spoilt' = spoilt \cup call[c].keys
  /\ Finish(c)
  /\ UNCHANGED <<live, photo, late, Overlaps>>

\* The process dies, or a statement fails: nothing is tried again.
Crash(c) ==
  /\ call[c] # Idle
  /\ spoilt' = spoilt \cup call[c].keys
  /\ mingled' = mingled \cup {call[c].account}
  /\ Finish(c)
  /\ UNCHANGED <<live, photo, objects, late, raced, together>>

-----------------------------------------------------------------------------
Next ==
  \/ \E c \in Handler :
       \/ \E x \in Account : \/ \E k \in Key : BeginUpload(c, x, k)
                             \/ BeginReorder(c, x)
                             \/ eraseAccount(c, x)
       \/ \E p \in Photo : DeleteRow(c, p)
       \/ PutObjects(c) \/ PutFails(c) \/ CheckInsert(c) \/ InsertRow(c) \/ InsertFails(c)
       \/ RankRows(c) \/ WritePositions(c)
       \/ FindOrphans(c) \/ DeleteObjects(c) \/ DeleteFails(c) \/ Crash(c)
  \/ \E k \in Key, v \in Variant : LatePut(k, v)

Spec == Init /\ [][Next]_vars

-----------------------------------------------------------------------------
(* Every variable has its type; a handler past its first step has an       *)
(* account, and one that may store or delete objects has keys.             *)
TypeOK ==
  /\ live \subseteq Account
  /\ photo \in [Photo -> PhotoRows]
  /\ objects \in [Key -> SUBSET Variant] /\ late \in [Key -> SUBSET Variant]
  /\ spoilt \subseteq Key /\ raced \subseteq Key /\ mingled \subseteq Account
  /\ together \subseteq Account
  /\ \A c \in Handler :
       /\ call[c].pc \in {"idle", "put", "check", "insert", "compact", "renumber", "orphans", "delete"}
       /\ call[c].pos \in Nat /\ call[c].keys \subseteq Key
       /\ call[c].account \in Account \cup {None}
       /\ call[c].pc # "idle" => call[c].account # None
       /\ call[c].pc \notin {"idle", "renumber"} => call[c].keys # {}
       /\ call[c].pc \in {"put", "check", "insert"} => \E k \in Key : call[c].keys = {k}
  /\ \A p \in Photo : photo[p].is = "row" => photo[p].account # None /\ photo[p].key # None

\* A picture nobody can reach is still a picture kept (photos.ts, the failure
\* path of an upload): objects without a row are somebody's business still,
\* unless a process died or a store call failed.
NothingKeptWithoutARow ==
  \A k \in Key \ spoilt :
    objects[k] # {} => RowsFor(k) # {} \/ \E c \in Handler : k \in call[c].keys

\* A row's objects are all there, however often its content was uploaded and
\* deleted before, as long as no two requests had to do with it at once: the
\* check and the deletion are two calls (erasure.ts, deleteOrphanedObjects).
RowsKeepTheirObjects ==
  \A k \in Key \ raced : RowsFor(k) # {} => objects[k] = Variant

\* insertPhoto checks the cap on a snapshot: only inserts at the same instant
\* pass it together, and by no more than there are of them.
CapPassedOnlyTogether ==
  \A x \in Account :
    /\ x \notin together => Cardinality(RowsOf(x)) <= MaxPhotos
    /\ Cardinality(RowsOf(x)) < MaxPhotos + Cardinality(Handler)

\* Positions are 0..n-1 whenever nobody is at work on the account, and the
\* next reorder or deletion that is alone puts right what a race left.
PositionsAreDense ==
  \A x \in Account \ mingled :
    (\A c \in Handler : call[c].account # x) =>
      {photo[p].pos : p \in RowsOf(x)} = {n \in 0 .. MaxRows : n < Cardinality(RowsOf(x))}

\* An album keeps its size and its order: both of the above.
AlbumInOrder == CapPassedOnlyTogether /\ PositionsAreDense

\* For TLC: accounts, contents, variants and handlers are interchangeable.
Symmetry ==
  Permutations(Account) \cup Permutations(Key) \cup Permutations(Variant) \cup Permutations(Handler)
=============================================================================
