---------------------------- MODULE PhotosProofs ----------------------------
(***************************************************************************)
(* Theorems about Photos, for any accounts, contents, variants, handlers   *)
(* and caps.  Each property has an inductive invariant of its own:         *)
(* Attended for what is kept, Whole for the objects of a row, Counted for  *)
(* the cap, Numbered for the order; all of them rest on Typed.             *)
(***************************************************************************)
EXTENDS Photos, TLAPS, FiniteSetTheorems, WellFoundedInduction

Pcs   == {"idle", "put", "check", "insert", "compact", "renumber", "orphans", "delete"}
Ranks == UNION {[D -> Nat] : D \in SUBSET Photo}
Calls == [pc : Pcs, account : Account \cup {None}, keys : SUBSET Key, rank : Ranks, pos : Nat]

Typed ==
  /\ TypeOK
  /\ call \in [Handler -> Calls]
  /\ \A c \in Handler : call[c].pc = "idle" => call[c] = Idle

-----------------------------------------------------------------------------
(* Numbers                                                                 *)

\* Every set of numbers has a least one, and every finite set a greatest.
LEMMA Least ==
  ASSUME NEW T \in SUBSET Nat, T # {}
  PROVE  \E x \in T : \A y \in T : x <= y
<1> DEFINE R == {ss \in Nat \X Nat : ss[1] < ss[2]}
<1>1. IsWellFoundedOn(R, Nat)
  BY NatLessThanWellFounded DEF OpToRel
<1>2. \E x \in T : \A y \in T : <<y, x>> \notin R
  <2> HIDE DEF R
  <2> QED BY <1>1, WFMin
<1>3. \A x, y \in Nat : <<y, x>> \notin R => x <= y
  OBVIOUS
<1> HIDE DEF R
<1> QED BY <1>2, <1>3

\* A proper part of a finite set has fewer elements.
LEMMA Fewer ==
  ASSUME NEW S, IsFiniteSet(S), NEW T \in SUBSET S, NEW x \in S, x \notin T
  PROVE  /\ IsFiniteSet(T) /\ Cardinality(T) \in Nat /\ Cardinality(S) \in Nat
         /\ Cardinality(T) < Cardinality(S)
<1>1. /\ IsFiniteSet(T) /\ Cardinality(T) <= Cardinality(S)
      /\ Cardinality(S) = Cardinality(T) => S = T
  BY FS_Subset
<1>2. Cardinality(T) \in Nat /\ Cardinality(S) \in Nat
  BY <1>1, FS_CardinalityType
<1> QED BY <1>1, <1>2

LEMMA Greatest ==
  ASSUME NEW R, IsFiniteSet(R), R # {}, NEW f \in [R -> Nat]
  PROVE  \E p \in R : \A q \in R : f[q] <= f[p]
<1> DEFINE Above(p) == {q \in R : f[q] > f[p]}
           T == {Cardinality(Above(p)) : p \in R}
<1>1. \A p \in R : Cardinality(Above(p)) \in Nat
  <2> SUFFICES ASSUME NEW p \in R PROVE Cardinality(Above(p)) \in Nat
    OBVIOUS
  <2>1. Above(p) \in SUBSET R
    OBVIOUS
  <2> QED BY <2>1, FS_Subset, FS_CardinalityType
<1>2. T \in SUBSET Nat /\ T # {}
  BY <1>1
<1>3. PICK p \in R : \A q \in R : Cardinality(Above(p)) <= Cardinality(Above(q))
  <2>1. PICK x \in T : \A y \in T : x <= y
    <3> HIDE DEF T
    <3> QED BY <1>2, Least
  <2>2. PICK p \in R : x = Cardinality(Above(p))
    OBVIOUS
  <2>3. \A q \in R : Cardinality(Above(q)) \in T
    OBVIOUS
  <2> HIDE DEF T, Above
  <2> QED BY <2>1, <2>2, <2>3
<1>4. ASSUME NEW q \in R, f[q] > f[p] PROVE FALSE
  <2>1. Above(q) \in SUBSET Above(p) /\ q \in Above(p) /\ q \notin Above(q)
    BY <1>4
  <2>2. IsFiniteSet(Above(p))
    BY FS_Subset
  <2>3. Cardinality(Above(q)) < Cardinality(Above(p))
    <3> HIDE DEF Above
    <3> QED BY <2>1, <2>2, Fewer
  <2> HIDE DEF Above
  <2> QED BY <1>1, <1>3, <1>4, <2>3
<1> QED BY <1>4

LEMMA RowsFinite ==
  ASSUME Typed, NEW x
  PROVE  /\ RowsOf(x) \in SUBSET Photo /\ IsFiniteSet(RowsOf(x))
         /\ Cardinality(RowsOf(x)) \in Nat /\ Cardinality(RowsOf(x)) <= MaxRows
         /\ \A p \in RowsOf(x) : photo[p].pos \in Nat
<1>1. IsFiniteSet(Photo) /\ Cardinality(Photo) = MaxRows
  BY PhotosAssumption, FS_Interval DEF Photo
<1>2. RowsOf(x) \in SUBSET Photo
  BY DEF RowsOf
<1>3. IsFiniteSet(RowsOf(x)) /\ Cardinality(RowsOf(x)) <= MaxRows
  BY <1>1, <1>2, FS_Subset
<1>4. \A p \in RowsOf(x) : photo[p].pos \in Nat
  BY DEF Typed, TypeOK, RowsOf, PhotoRows
<1> QED BY <1>2, <1>3, <1>4, FS_CardinalityType

\* The places of n rows, 0 .. n - 1.
Places(n) == {i \in 0 .. MaxRows : i < n}

\* row_number() - 1 of the account's rows is a numbering without gaps.
LEMMA RankIsDense ==
  ASSUME Typed, NEW x
  PROVE  /\ Rank(RowsOf(x)) \in [RowsOf(x) -> Nat]
         /\ {Rank(RowsOf(x))[p] : p \in RowsOf(x)} = Places(Cardinality(RowsOf(x)))
<1> DEFINE R == RowsOf(x)
           B(p) == {q \in R : Before(q, p)}
           f == Rank(R)
           n == Cardinality(R)
           T == 0 .. n - 1
<1>1. /\ R \in SUBSET Photo /\ IsFiniteSet(R) /\ n \in Nat /\ n <= MaxRows
      /\ \A p \in R : p \in Nat /\ photo[p].pos \in Nat
  BY RowsFinite DEF Photo
<1>2. f = [p \in R |-> Cardinality(B(p))]
  BY DEF Rank
<1>3. \A p, q \in R : /\ ~Before(p, p)
                      /\ p = q \/ Before(p, q) \/ Before(q, p)
  BY <1>1 DEF Before
<1>4. \A p, q, r \in R : Before(p, q) /\ Before(q, r) => Before(p, r)
  BY <1>1 DEF Before
<1> HIDE DEF R, f, n
<1>5. ASSUME NEW p \in R PROVE Cardinality(B(p)) \in T
  <2>1. B(p) \in SUBSET R /\ p \notin B(p)
    BY <1>3
  <2>2. Cardinality(B(p)) \in Nat /\ Cardinality(B(p)) < n
    <3> HIDE DEF B
    <3> QED BY <1>1, <2>1, Fewer DEF n
  <2> QED BY <1>1, <2>2
<1>6. ASSUME NEW p \in R, NEW q \in R, Before(p, q) PROVE Cardinality(B(p)) # Cardinality(B(q))
  <2>1. B(p) \in SUBSET B(q) /\ p \in B(q) /\ p \notin B(p)
    BY <1>3, <1>4, <1>6
  <2>2. IsFiniteSet(B(q))
    BY <1>1, FS_Subset
  <2>3. /\ Cardinality(B(p)) \in Nat /\ Cardinality(B(q)) \in Nat
        /\ Cardinality(B(p)) < Cardinality(B(q))
    <3> HIDE DEF B
    <3> QED BY <2>1, <2>2, Fewer
  <2> QED BY <2>3
<1>7. f \in Injection(R, T)
  BY <1>2, <1>3, <1>5, <1>6 DEF Injection, IsInjective
<1>8. IsFiniteSet(T) /\ Cardinality(T) = n
  <2>1. n - 1 \in Int /\ 0 \in Int
    BY <1>1
  <2>2. /\ IsFiniteSet(0 .. n - 1)
        /\ Cardinality(0 .. n - 1) = IF 0 > n - 1 THEN 0 ELSE (n - 1) - 0 + 1
    BY <2>1, FS_Interval
  <2> QED BY <1>1, <2>2
<1>9. f \in Surjection(R, T)
  <2> HIDE DEF T
  <2> QED BY <1>7, <1>8, FS_Injection DEF n
<1>10. {f[p] : p \in R} = T
  <2> HIDE DEF T
  <2> QED BY <1>9 DEF Surjection
<1>11. T = Places(n)
  BY <1>1, PhotosAssumption DEF Places
<1>12. f \in [R -> Nat]
  BY <1>1, <1>2, <1>5
<1> QED BY <1>10, <1>11, <1>12 DEF R, f, n

\* What insertPhoto gives the next row: a number, and the next one when the
\* account's are without gaps.
LEMMA NextIsNumber ==
  ASSUME Typed, NEW x
  PROVE  /\ NextPosition(RowsOf(x)) \in Nat
         /\ {photo[p].pos : p \in RowsOf(x)} = Places(Cardinality(RowsOf(x)))
              => NextPosition(RowsOf(x)) = Cardinality(RowsOf(x))
<1> DEFINE R == RowsOf(x)
           n == Cardinality(R)
           P == {photo[p].pos : p \in R}
<1>1. IsFiniteSet(R) /\ n \in Nat /\ n <= MaxRows /\ \A p \in R : photo[p].pos \in Nat
  BY RowsFinite
<1>2. R = {} <=> n = 0
  BY <1>1, FS_EmptySet
<1> HIDE DEF R
<1>3. CASE R = {}
  BY <1>2, <1>3 DEF NextPosition, R
<1>4. CASE R # {}
  <2> DEFINE f == [p \in R |-> photo[p].pos]
  <2>1. f \in [R -> Nat]
    BY <1>1
  <2>2. PICK p \in R : \A q \in R : f[q] <= f[p]
    <3> HIDE DEF f
    <3> QED BY <1>1, <1>4, <2>1, Greatest
  <2>3. LastPosition(R) \in P /\ \A q \in R : photo[q].pos <= LastPosition(R)
    BY <2>2 DEF LastPosition
  <2>4. LastPosition(R) \in Nat
    BY <1>1, <2>3
  <2>5. NextPosition(R) = LastPosition(R) + 1
    BY <1>4 DEF NextPosition
  <2>6. ASSUME P = Places(n) PROVE LastPosition(R) = n - 1
    <3>1. n - 1 \in Places(n)
      BY <1>1, <1>2, <1>4, PhotosAssumption DEF Places
    <3>2. n - 1 <= LastPosition(R)
      BY <2>3, <2>6, <3>1
    <3>3. LastPosition(R) < n
      BY <2>3, <2>6 DEF Places
    <3> QED BY <1>1, <2>4, <3>2, <3>3
  <2> QED BY <1>1, <2>4, <2>5, <2>6 DEF R
<1> QED BY <1>3, <1>4

-----------------------------------------------------------------------------
(* What each action makes of its handler                                   *)

LEMMA IdleIs ==
  /\ Idle \in Calls /\ Idle.pc = "idle" /\ Idle.account = None /\ Idle.keys = {}
  /\ None \notin Account /\ \A p \in Photo : p \in Nat
<1>1. [p \in {} |-> 0] \in Ranks
  BY DEF Ranks
<1> QED BY <1>1, PhotosAssumption DEF Idle, Calls, Pcs, Photo

\* The handler that takes the step, and the others, which do not move.
Becomes(c, pc, x, ks) ==
  /\ call' \in [Handler -> Calls] /\ \A d \in Handler \ {c} : call'[d] = call[d]
  /\ call'[c].pc = pc /\ call'[c].account = x /\ call'[c].keys = ks

Ends(c) ==
  /\ call' \in [Handler -> Calls] /\ \A d \in Handler \ {c} : call'[d] = call[d]
  /\ call'[c] = Idle

LEMMA FinishEnds ==
  ASSUME Typed, NEW c \in Handler, Finish(c)
  PROVE  Ends(c)
BY IdleIs DEF Typed, Finish, Ends

LEMMA GotoBecomes ==
  ASSUME Typed, NEW c \in Handler, NEW pc \in Pcs, Goto(c, pc)
  PROVE  /\ Becomes(c, pc, call[c].account, call[c].keys)
         /\ call'[c].pos = call[c].pos /\ call'[c].rank = call[c].rank
<1> DEFINE r == [call[c] EXCEPT !.pc = pc]
<1>1. /\ r \in Calls /\ r.pc = pc /\ r.account = call[c].account /\ r.keys = call[c].keys
      /\ r.pos = call[c].pos /\ r.rank = call[c].rank
  BY DEF Typed, Calls
<1>2. call' = [call EXCEPT ![c] = r]
  BY DEF Goto
<1> HIDE DEF r
<1> QED BY <1>1, <1>2 DEF Typed, Becomes

\* A call that begins, with nothing numbered yet.
LEMMA BeginBecomes ==
  ASSUME Typed, NEW c \in Handler, NEW pc \in Pcs, NEW x \in Account \cup {None}, NEW ks \in SUBSET Key,
         call' = [call EXCEPT ![c] = [Idle EXCEPT !.pc = pc, !.account = x, !.keys = ks]]
  PROVE  Becomes(c, pc, x, ks)
<1> DEFINE r == [Idle EXCEPT !.pc = pc, !.account = x, !.keys = ks]
<1>1. Idle \in Calls
  BY IdleIs
<1>2. r \in Calls /\ r.pc = pc /\ r.account = x /\ r.keys = ks
  BY <1>1 DEF Calls
<1>3. call' = [call EXCEPT ![c] = r]
  OBVIOUS
<1> HIDE DEF r
<1> QED BY <1>2, <1>3 DEF Typed, Becomes

LEMMA UploadBecomes ==
  ASSUME Typed, NEW c \in Handler, NEW x \in Account, NEW k \in Key, BeginUpload(c, x, k)
  PROVE  Becomes(c, "put", x, {k})
BY BeginBecomes DEF BeginUpload, Pcs

LEMMA DeleteBecomes ==
  ASSUME Typed, NEW c \in Handler, NEW p \in Photo, DeleteRow(c, p)
  PROVE  /\ photo[p].account \in Account /\ photo[p].key \in Key
         /\ Becomes(c, "compact", photo[p].account, {photo[p].key})
<1>1. photo[p].account \in Account /\ photo[p].key \in Key
  BY DEF DeleteRow, Typed, TypeOK, PhotoRows
<1> QED BY <1>1, BeginBecomes DEF DeleteRow, Pcs

LEMMA RankBecomes ==
  ASSUME Typed, NEW c \in Handler, RankRows(c)
  PROVE  /\ Becomes(c, "renumber", call[c].account, call[c].keys)
         /\ call'[c].rank = Rank(RowsOf(call[c].account))
<1> DEFINE f == Rank(RowsOf(call[c].account))
           r == [call[c] EXCEPT !.pc = "renumber", !.rank = f]
<1>1. f \in [RowsOf(call[c].account) -> Nat] /\ RowsOf(call[c].account) \in SUBSET Photo
  BY RankIsDense, RowsFinite
<1> HIDE DEF f
<1>2. f \in Ranks
  BY <1>1 DEF Ranks
<1>3. /\ r \in Calls /\ r.pc = "renumber" /\ r.account = call[c].account /\ r.keys = call[c].keys
      /\ r.rank = f
  BY <1>2 DEF Typed, Calls, Pcs
<1>4. call' = [call EXCEPT ![c] = r]
  BY DEF RankRows, Typed, f
<1> HIDE DEF r
<1> QED BY <1>3, <1>4 DEF Typed, Becomes, f

LEMMA ReorderBecomes ==
  ASSUME Typed, NEW c \in Handler, NEW x \in Account, BeginReorder(c, x)
  PROVE  /\ Becomes(c, "renumber", x, {})
         /\ call'[c].rank \in [RowsOf(x) -> 0 .. Cardinality(RowsOf(x)) - 1]
         /\ \A p, q \in RowsOf(x) : call'[c].rank[p] = call'[c].rank[q] => p = q
<1> DEFINE R == RowsOf(x)
           n == Cardinality(R)
<1>1. R \in SUBSET Photo /\ n \in Nat
  BY RowsFinite
<1>2. PICK f \in [R -> 0 .. n - 1] :
        /\ \A p, q \in R : f[p] = f[q] => p = q
        /\ call' = [call EXCEPT ![c] = [Idle EXCEPT !.pc = "renumber", !.account = x, !.rank = f]]
  BY DEF BeginReorder
<1> HIDE DEF R, n
<1>3. f \in Ranks
  <2>1. f \in [R -> Nat]
    BY <1>1
  <2> QED BY <1>1, <2>1 DEF Ranks
<1> DEFINE r == [Idle EXCEPT !.pc = "renumber", !.account = x, !.rank = f]
<1>4. Idle \in Calls /\ Idle.keys = {}
  BY IdleIs
<1>5. r \in Calls /\ r.pc = "renumber" /\ r.account = x /\ r.keys = {} /\ r.rank = f
  BY <1>3, <1>4 DEF Calls, Pcs
<1> HIDE DEF r
<1> QED BY <1>2, <1>5 DEF Typed, Becomes, R, n, r

\* An insert is decided, or the upload fails.
LEMMA CheckBecomes ==
  ASSUME Typed, NEW c \in Handler, CheckInsert(c)
  PROVE  \/ /\ Fits(call[c].account)
            /\ Becomes(c, "insert", call[c].account, call[c].keys)
            /\ call'[c].pos = NextPosition(RowsOf(call[c].account))
         \/ Becomes(c, "orphans", call[c].account, call[c].keys) /\ UNCHANGED together
<1>1. CASE Fits(call[c].account)
  <2> DEFINE n == NextPosition(RowsOf(call[c].account))
             r == [call[c] EXCEPT !.pc = "insert", !.pos = n]
  <2>1. n \in Nat
    BY NextIsNumber
  <2>2. call' = [call EXCEPT ![c] = r]
    BY <1>1 DEF CheckInsert, Typed
  <2> HIDE DEF n
  <2>3. /\ r \in Calls /\ r.pc = "insert" /\ r.account = call[c].account /\ r.keys = call[c].keys
        /\ r.pos = n
    BY <2>1 DEF Typed, Calls, Pcs
  <2> HIDE DEF r
  <2> QED BY <1>1, <2>2, <2>3 DEF Typed, Becomes, n
<1>2. CASE ~Fits(call[c].account)
  BY <1>2, GotoBecomes DEF CheckInsert, FailUpload, Pcs
<1> QED BY <1>1, <1>2

KeysOf(x) == {photo[p].key : p \in RowsOf(x)}

LEMMA EraseBecomes ==
  ASSUME Typed, NEW c \in Handler, NEW x \in Account, eraseAccount(c, x)
  PROVE  /\ KeysOf(x) \in SUBSET Key
         /\ \/ KeysOf(x) = {} /\ Ends(c)
            \/ KeysOf(x) # {} /\ Becomes(c, "orphans", x, KeysOf(x))
<1>1. KeysOf(x) \in SUBSET Key
  BY DEF KeysOf, RowsOf, Typed, TypeOK, PhotoRows
<1>2. CASE KeysOf(x) = {}
  BY <1>1, <1>2, FinishEnds DEF eraseAccount, KeysOf, Finish
<1>3. CASE KeysOf(x) # {}
  <2>1. call' = [call EXCEPT ![c] = [Idle EXCEPT !.pc = "orphans", !.account = x, !.keys = KeysOf(x)]]
    BY <1>3 DEF eraseAccount, KeysOf
  <2> QED BY <1>1, <1>3, <2>1, BeginBecomes DEF Pcs
<1> QED BY <1>1, <1>2, <1>3

LEMMA FindBecomes ==
  ASSUME Typed, NEW c \in Handler, FindOrphans(c)
  PROVE  /\ Orphaned(c) \in SUBSET call[c].keys
         /\ \/ Orphaned(c) = {} /\ Ends(c)
            \/ Orphaned(c) # {} /\ Becomes(c, "delete", call[c].account, Orphaned(c))
<1>1. Orphaned(c) \in SUBSET call[c].keys
  BY DEF Orphaned
<1>2. CASE Orphaned(c) = {}
  BY <1>1, <1>2, FinishEnds DEF FindOrphans, Finish
<1>3. CASE Orphaned(c) # {}
  <2> DEFINE r == [call[c] EXCEPT !.pc = "delete", !.keys = Orphaned(c)]
  <2>1. call' = [call EXCEPT ![c] = r]
    BY <1>3 DEF FindOrphans, Typed
  <2>2. r \in Calls /\ r.pc = "delete" /\ r.account = call[c].account /\ r.keys = Orphaned(c)
    BY <1>1 DEF Typed, Calls, Pcs
  <2> HIDE DEF r
  <2> QED BY <1>1, <1>3, <2>1, <2>2 DEF Typed, Becomes
<1> QED BY <1>1, <1>2, <1>3

LEMMA WriteBecomes ==
  ASSUME Typed, NEW c \in Handler, WritePositions(c)
  PROVE  \/ call[c].keys = {} /\ Ends(c)
         \/ call[c].keys # {} /\ Becomes(c, "orphans", call[c].account, call[c].keys)
BY FinishEnds, GotoBecomes DEF WritePositions, Pcs

-----------------------------------------------------------------------------
(* Types                                                                   *)

\* What the type invariant asks of one call, and of the rest.
CallTyped(r) ==
  /\ r.account \in Account \cup {None} /\ r.keys \subseteq Key
  /\ r.pc # "idle" => r.account # None
  /\ r.pc \notin {"idle", "renumber"} => r.keys # {}
  /\ r.pc \in {"put", "check", "insert"} => \E k \in Key : r.keys = {k}
  /\ r.pc = "idle" => r = Idle

RowsTyped ==
  /\ live \subseteq Account
  /\ photo \in [Photo -> PhotoRows]
  /\ objects \in [Key -> SUBSET Variant] /\ late \in [Key -> SUBSET Variant]
  /\ spoilt \subseteq Key /\ raced \subseteq Key /\ mingled \subseteq Account
  /\ together \subseteq Account
  /\ \A p \in Photo : photo[p].is = "row" => photo[p].account # None /\ photo[p].key # None

LEMMA TypedParts ==
  Typed <=> /\ RowsTyped /\ call \in [Handler -> Calls]
            /\ \A c \in Handler : CallTyped(call[c])
BY DEF Typed, TypeOK, RowsTyped, CallTyped, Calls, Pcs

\* A handler takes the step, the rows keep their types.
LEMMA TypedStep ==
  ASSUME Typed, NEW c \in Handler, RowsTyped',
         call' \in [Handler -> Calls], \A d \in Handler \ {c} : call'[d] = call[d],
         CallTyped(call[c])'
  PROVE  Typed'
<1>1. \A d \in Handler : CallTyped(call[d])'
  BY TypedParts DEF CallTyped
<1> QED BY <1>1, TypedParts DEF Typed, TypeOK, RowsTyped, CallTyped, Calls, Pcs

LEMMA TypedEnd ==
  ASSUME Typed, NEW c \in Handler, RowsTyped', Ends(c)
  PROVE  Typed'
<1>1. CallTyped(call[c])'
  BY IdleIs DEF Ends, CallTyped
<1> QED BY <1>1, TypedStep DEF Ends

LEMMA TypedMove ==
  ASSUME Typed, NEW c \in Handler, RowsTyped',
         NEW pc, NEW x \in Account, NEW ks \in SUBSET Key, Becomes(c, pc, x, ks),
         pc # "idle", pc # "renumber" => ks # {},
         pc \in {"put", "check", "insert"} => \E k \in Key : ks = {k}
  PROVE  Typed'
<1>1. CallTyped(call[c])'
  BY IdleIs DEF Becomes, CallTyped
<1> QED BY <1>1, TypedStep DEF Becomes

\* What a handler at work is known to have.
LEMMA AtWork ==
  ASSUME Typed, NEW c \in Handler, call[c].pc # "idle"
  PROVE  /\ call[c].account \in Account /\ call[c].keys \in SUBSET Key
         /\ call[c].pc # "renumber" => call[c].keys # {}
         /\ call[c].pc \in {"put", "check", "insert"} => \E k \in Key : call[c].keys = {k}
         /\ call[c].pos \in Nat
BY DEF Typed, TypeOK

LEMMA TypedInit == Init => Typed
<1> SUFFICES ASSUME Init PROVE Typed
  OBVIOUS
<1>1. RowsTyped
  BY DEF Init, RowsTyped, Unused, PhotoRows
<1>2. \A c \in Handler : CallTyped(call[c])
  BY IdleIs DEF Init, CallTyped
<1> QED BY <1>1, <1>2, IdleIs, TypedParts DEF Init

LEMMA TypedKept == ASSUME Typed, [Next]_vars PROVE Typed'
<1> USE DEF NoteKeys, NoteAccount
<1>0. RowsTyped /\ \A c \in Handler : CallTyped(call[c])
  BY TypedParts
<1>1. CASE UNCHANGED vars
  BY <1>1 DEF vars, Overlaps, Typed, TypeOK
<1>2. ASSUME NEW k \in Key, NEW v \in Variant, LatePut(k, v) PROVE Typed'
  BY <1>2 DEF LatePut, Overlaps, Typed, TypeOK
<1>3. ASSUME NEW c \in Handler, NEW x \in Account, NEW k \in Key, BeginUpload(c, x, k) PROVE Typed'
  <2>1. RowsTyped'
    BY <1>0, <1>3 DEF BeginUpload, RowsTyped
  <2>2. Becomes(c, "put", x, {k}) /\ {k} \in SUBSET Key
    BY <1>3, UploadBecomes
  <2> QED BY <2>1, <2>2, TypedMove
<1>4. ASSUME NEW c \in Handler, NEW x \in Account, BeginReorder(c, x) PROVE Typed'
  <2>1. RowsTyped'
    BY <1>0, <1>4 DEF BeginReorder, RowsTyped
  <2>2. Becomes(c, "renumber", x, {}) /\ {} \in SUBSET Key
    BY <1>4, ReorderBecomes
  <2> QED BY <2>1, <2>2, TypedMove
<1>5. ASSUME NEW c \in Handler, NEW x \in Account, eraseAccount(c, x) PROVE Typed'
  <2>1. Gone \in PhotoRows /\ Gone.is = "gone"
    BY DEF Gone, Unused, PhotoRows
  <2>2. photo' \in [Photo -> PhotoRows] /\ \A p \in Photo : photo'[p] = photo[p] \/ photo'[p] = Gone
    BY <1>0, <1>5, <2>1 DEF eraseAccount, RowsTyped
  <2>3. raced' \subseteq Key
    BY <1>0, <1>5, EraseBecomes DEF eraseAccount, RowsTyped, KeysOf
  <2>4. RowsTyped'
    BY <1>0, <1>5, <2>1, <2>2, <2>3 DEF eraseAccount, RowsTyped
  <2> QED BY <1>5, <2>4, EraseBecomes, TypedEnd, TypedMove
<1>6. ASSUME NEW c \in Handler, NEW p \in Photo, DeleteRow(c, p) PROVE Typed'
  <2>1. Gone \in PhotoRows /\ Gone.is = "gone"
    BY DEF Gone, Unused, PhotoRows
  <2>2. photo[p].account \in Account /\ photo[p].key \in Key
    BY <1>6, DeleteBecomes
  <2>3. RowsTyped'
    BY <1>0, <1>6, <2>1, <2>2 DEF DeleteRow, RowsTyped
  <2> QED BY <1>6, <2>2, <2>3, DeleteBecomes, TypedMove
<1>7. ASSUME NEW c \in Handler, PutObjects(c) PROVE Typed'
  <2>1. Becomes(c, "check", call[c].account, call[c].keys)
    BY <1>7, GotoBecomes DEF PutObjects, Pcs
  <2>2. RowsTyped'
    BY <1>0, <1>7 DEF PutObjects, RowsTyped, Overlaps
  <2> QED BY <1>7, <2>1, <2>2, AtWork, TypedMove DEF PutObjects
<1>8. ASSUME NEW c \in Handler, PutFails(c) PROVE Typed'
  <2>1. Becomes(c, "orphans", call[c].account, call[c].keys)
    BY <1>8, GotoBecomes DEF PutFails, FailUpload, Pcs
  <2>2. call[c].pc = "put" /\ call[c].keys \in SUBSET Key /\ call[c].account \in Account /\ call[c].keys # {}
    BY <1>8, AtWork DEF PutFails
  <2>3. RowsTyped'
    BY <1>0, <1>8, <2>2 DEF PutFails, RowsTyped, Overlaps
  <2> QED BY <2>1, <2>2, <2>3, TypedMove
<1>9. ASSUME NEW c \in Handler, CheckInsert(c) PROVE Typed'
  <2>1. /\ call[c].account \in Account /\ call[c].keys \in SUBSET Key
        /\ \E k \in Key : call[c].keys = {k}
    BY <1>9, AtWork DEF CheckInsert
  <2>2. RowsTyped'
    BY <1>0, <1>9, <2>1 DEF CheckInsert, RowsTyped
  <2> QED BY <1>9, <2>1, <2>2, CheckBecomes, TypedMove
<1>10. ASSUME NEW c \in Handler, InsertRow(c) PROVE Typed'
  <2>1. call[c].account \in Account /\ call[c].keys \in SUBSET Key /\ call[c].pos \in Nat
    BY <1>10, AtWork DEF InsertRow
  <2>2. PICK p \in Photo, k \in call[c].keys :
          photo' = [photo EXCEPT ![p] =
            [account |-> call[c].account, key |-> k, pos |-> call[c].pos, is |-> "row"]]
    BY <1>10 DEF InsertRow
  <2>3. [account |-> call[c].account, key |-> k, pos |-> call[c].pos, is |-> "row"] \in PhotoRows
    BY <2>1 DEF PhotoRows
  <2>4. photo' \in [Photo -> PhotoRows]
    BY <1>0, <2>2, <2>3 DEF RowsTyped
  <2>5. \A q \in Photo : photo'[q].is = "row" => photo'[q].account # None /\ photo'[q].key # None
    BY <1>0, <2>1, <2>2, PhotosAssumption DEF RowsTyped
  <2>6. RowsTyped'
    BY <1>0, <1>10, <2>4, <2>5 DEF InsertRow, RowsTyped, Overlaps
  <2> QED BY <1>10, <2>6, FinishEnds, TypedEnd DEF InsertRow
<1>11. ASSUME NEW c \in Handler, InsertFails(c) PROVE Typed'
  <2>1. Becomes(c, "orphans", call[c].account, call[c].keys)
    BY <1>11, GotoBecomes DEF InsertFails, FailUpload, Pcs
  <2>2. RowsTyped'
    BY <1>0, <1>11 DEF InsertFails, RowsTyped, Overlaps
  <2> QED BY <1>11, <2>1, <2>2, AtWork, TypedMove DEF InsertFails
<1>12. ASSUME NEW c \in Handler, RankRows(c) PROVE Typed'
  <2>1. RowsTyped'
    BY <1>0, <1>12 DEF RankRows, RowsTyped, Overlaps
  <2> QED BY <1>12, <2>1, RankBecomes, AtWork, TypedMove DEF RankRows
<1>13. ASSUME NEW c \in Handler, WritePositions(c) PROVE Typed'
  <2>1. \A p \in DOMAIN call[c].rank : call[c].rank[p] \in Nat
    BY DEF Typed, Calls, Ranks
  <2>2. \A p \in Photo : \A n \in Nat :
          /\ [photo[p] EXCEPT !.pos = n] \in PhotoRows
          /\ [photo[p] EXCEPT !.pos = n].is = photo[p].is
          /\ [photo[p] EXCEPT !.pos = n].account = photo[p].account
          /\ [photo[p] EXCEPT !.pos = n].key = photo[p].key
    BY <1>0 DEF RowsTyped, PhotoRows
  <2>3. photo' \in [Photo -> PhotoRows]
    BY <1>0, <1>13, <2>1, <2>2 DEF WritePositions, RowsTyped
  <2>4. \A p \in Photo : /\ photo'[p].is = photo[p].is
                         /\ photo'[p].account = photo[p].account /\ photo'[p].key = photo[p].key
    BY <1>13, <2>1, <2>2 DEF WritePositions
  <2>5. RowsTyped'
    BY <1>0, <1>13, <2>3, <2>4 DEF WritePositions, RowsTyped, Overlaps
  <2> QED BY <1>13, <2>5, WriteBecomes, AtWork, TypedEnd, TypedMove DEF WritePositions
<1>14. ASSUME NEW c \in Handler, FindOrphans(c) PROVE Typed'
  <2>1. RowsTyped'
    BY <1>0, <1>14 DEF FindOrphans, RowsTyped, Overlaps
  <2> QED BY <1>14, <2>1, FindBecomes, AtWork, TypedEnd, TypedMove DEF FindOrphans
<1>15. ASSUME NEW c \in Handler, DeleteObjects(c) \/ DeleteFails(c) PROVE Typed'
  <2>1. RowsTyped'
    <3>1. call[c].keys \in SUBSET Key
      BY <1>15, AtWork DEF DeleteObjects, DeleteFails
    <3>2. objects' \in [Key -> SUBSET Variant]
      BY <1>0, <1>15 DEF DeleteObjects, DeleteFails, RowsTyped
    <3> QED BY <1>0, <1>15, <3>1, <3>2 DEF DeleteObjects, DeleteFails, RowsTyped, Overlaps
  <2> QED BY <1>15, <2>1, FinishEnds, TypedEnd DEF DeleteObjects, DeleteFails
<1>16. ASSUME NEW c \in Handler, Crash(c) PROVE Typed'
  <2>1. call[c].account \in Account /\ call[c].keys \in SUBSET Key
    BY <1>16, AtWork DEF Crash, Typed
  <2>2. RowsTyped'
    BY <1>0, <1>16, <2>1 DEF Crash, RowsTyped
  <2> QED BY <1>16, <2>2, FinishEnds, TypedEnd DEF Crash
<1> QED BY <1>1, <1>2, <1>3, <1>4, <1>5, <1>6, <1>7, <1>8, <1>9, <1>10, <1>11, <1>12, <1>13,
           <1>14, <1>15, <1>16 DEF Next

-----------------------------------------------------------------------------
(* What is kept: NothingKeptWithoutARow                                    *)

\* Of a content that no failure spoilt, no put is late, and its objects have a
\* row or a handler that has to do with them.
Attended ==
  /\ \A k \in Key \ spoilt : late[k] = {}
  /\ NothingKeptWithoutARow

\* Handler c has left no object of this content alone: what nobody else attends to
\* has a row, is still its own, or is gone.
Attends(c, k) ==
  objects'[k] # {} =>
    \/ RowsFor(k)' # {}
    \/ k \in call'[c].keys
    \/ objects[k] # {} /\ RowsFor(k) = {} /\ k \notin call[c].keys

LEMMA AttendedStep ==
  ASSUME Attended, NEW c \in Handler, \A d \in Handler \ {c} : call'[d] = call[d],
         spoilt \subseteq spoilt',
         \A k \in Key \ spoilt' : late'[k] = {} /\ Attends(c, k)
  PROVE  Attended'
BY DEF Attended, NothingKeptWithoutARow, Attends

\* A step that neither ends an object's row nor makes an object.
LEMMA AttendedQuietly ==
  ASSUME Attended, NEW c \in Handler, \A d \in Handler \ {c} : call'[d] = call[d],
         spoilt' = spoilt, late' = late, objects' = objects,
         \A k \in Key : RowsFor(k)' = RowsFor(k),
         \A k \in Key : k \in call[c].keys => k \in call'[c].keys \/ RowsFor(k) # {}
  PROVE  Attended'
BY AttendedStep DEF Attended, Attends

\* Positions are no part of what a row refers to.
LEMMA WriteRefers ==
  ASSUME Typed, NEW c \in Handler, WritePositions(c)
  PROVE  /\ photo' \in [Photo -> PhotoRows]
         /\ \A p \in Photo : /\ photo'[p].is = photo[p].is
                             /\ photo'[p].account = photo[p].account
                             /\ photo'[p].key = photo[p].key
         /\ \A k : RowsFor(k)' = RowsFor(k)
         /\ \A x : RowsOf(x)' = RowsOf(x)
<1>1. \A p \in DOMAIN call[c].rank : call[c].rank[p] \in Nat
  BY DEF Typed, Calls, Ranks
<1>2. \A p \in Photo : \A n \in Nat :
        /\ [photo[p] EXCEPT !.pos = n] \in PhotoRows
        /\ [photo[p] EXCEPT !.pos = n].is = photo[p].is
        /\ [photo[p] EXCEPT !.pos = n].account = photo[p].account
        /\ [photo[p] EXCEPT !.pos = n].key = photo[p].key
  BY DEF Typed, TypeOK, PhotoRows
<1>3. photo' \in [Photo -> PhotoRows]
  BY <1>1, <1>2 DEF WritePositions, Typed, TypeOK
<1>4. \A p \in Photo : /\ photo'[p].is = photo[p].is
                       /\ photo'[p].account = photo[p].account /\ photo'[p].key = photo[p].key
  BY <1>1, <1>2 DEF WritePositions
<1> QED BY <1>3, <1>4 DEF RowsFor, RowsOf

LEMMA AttendedKept == ASSUME Typed, Attended, [Next]_vars PROVE Attended'
<1>i. \A c \in Handler : call[c] = Idle => call[c].keys = {}
  BY IdleIs
<1>1. CASE UNCHANGED vars
  BY <1>1 DEF vars, Overlaps, Attended, NothingKeptWithoutARow, RowsFor
<1>2. ASSUME NEW k \in Key, NEW v \in Variant, LatePut(k, v) PROVE Attended'
  <2>1. k \in spoilt /\ spoilt' = spoilt /\ call' = call /\ photo' = photo
    BY <1>2 DEF LatePut, Attended
  <2>2. \A l \in Key \ {k} : late'[l] = late[l] /\ objects'[l] = objects[l]
    BY <1>2 DEF LatePut, Typed, TypeOK
  <2> QED BY <2>1, <2>2 DEF Attended, NothingKeptWithoutARow, RowsFor
<1>3. ASSUME NEW c \in Handler, NEW x \in Account, NEW k \in Key, BeginUpload(c, x, k) PROVE Attended'
  <2>1. /\ call[c].keys = {} /\ UNCHANGED <<spoilt, late, objects, photo>>
    BY <1>i, <1>3 DEF BeginUpload
  <2> QED BY <1>3, <2>1, UploadBecomes, AttendedQuietly DEF Becomes, RowsFor
<1>4. ASSUME NEW c \in Handler, NEW x \in Account, BeginReorder(c, x) PROVE Attended'
  <2>1. /\ call[c].keys = {} /\ UNCHANGED <<spoilt, late, objects, photo>>
    BY <1>i, <1>4 DEF BeginReorder
  <2> QED BY <1>4, <2>1, ReorderBecomes, AttendedQuietly DEF Becomes, RowsFor
<1>5. ASSUME NEW c \in Handler, NEW x \in Account, eraseAccount(c, x) PROVE Attended'
  <2>1. call[c].keys = {} /\ UNCHANGED <<spoilt, late, objects>>
    BY <1>i, <1>5 DEF eraseAccount
  <2>2. /\ \A d \in Handler \ {c} : call'[d] = call[d]
        /\ \A k \in KeysOf(x) : k \in call'[c].keys
    BY <1>5, EraseBecomes DEF Becomes, Ends
  <2>3. \A p \in Photo \ RowsOf(x) : photo'[p] = photo[p]
    BY <1>5 DEF eraseAccount
  <2>4. ASSUME NEW k \in Key, k \notin KeysOf(x), RowsFor(k) # {} PROVE RowsFor(k)' # {}
    BY <2>3, <2>4 DEF KeysOf, RowsFor
  <2>5. \A k \in Key \ spoilt' : late'[k] = {} /\ Attends(c, k)
    BY <2>1, <2>2, <2>4 DEF Attended, Attends
  <2> QED BY <2>1, <2>2, <2>5, AttendedStep
<1>6. ASSUME NEW c \in Handler, NEW p \in Photo, DeleteRow(c, p) PROVE Attended'
  <2>1. call[c].keys = {} /\ UNCHANGED <<spoilt, late, objects>>
    BY <1>i, <1>6 DEF DeleteRow
  <2>2. /\ \A d \in Handler \ {c} : call'[d] = call[d]
        /\ photo[p].key \in call'[c].keys
    BY <1>6, DeleteBecomes DEF Becomes
  <2>3. \A q \in Photo \ {p} : photo'[q] = photo[q]
    BY <1>6 DEF DeleteRow, Typed, TypeOK
  <2>4. ASSUME NEW k \in Key, k # photo[p].key, RowsFor(k) # {} PROVE RowsFor(k)' # {}
    BY <2>3, <2>4 DEF RowsFor
  <2>5. \A k \in Key \ spoilt' : late'[k] = {} /\ Attends(c, k)
    BY <2>1, <2>2, <2>4 DEF Attended, Attends
  <2> QED BY <2>1, <2>2, <2>5, AttendedStep
<1>7. ASSUME NEW c \in Handler, PutObjects(c) PROVE Attended'
  <2>1. Becomes(c, "check", call[c].account, call[c].keys)
    BY <1>7, GotoBecomes DEF PutObjects, Pcs
  <2>2. UNCHANGED <<photo, late, spoilt>> /\ \A k \in Key : k \notin call[c].keys => objects'[k] = objects[k]
    BY <1>7 DEF PutObjects
  <2>3. \A k \in Key \ spoilt' : late'[k] = {} /\ Attends(c, k)
    BY <2>1, <2>2 DEF Becomes, Attended, Attends, RowsFor
  <2> QED BY <2>1, <2>2, <2>3, AttendedStep DEF Becomes
<1>8. ASSUME NEW c \in Handler, PutFails(c) PROVE Attended'
  <2>1. Becomes(c, "orphans", call[c].account, call[c].keys)
    BY <1>8, GotoBecomes DEF PutFails, FailUpload, Pcs
  <2>2. PICK slow \in SUBSET Variant :
          /\ \A k \in Key : k \notin call[c].keys => objects'[k] = objects[k] /\ late'[k] = late[k]
          /\ \A k \in Key : k \in call[c].keys => late'[k] = late[k] \cup slow
          /\ spoilt' = IF slow = {} THEN spoilt ELSE spoilt \cup call[c].keys
          /\ photo' = photo
    <3>1. PICK lost \in SUBSET Variant \ {{}} : \E done \in SUBSET (Variant \ lost) :
            /\ objects' = [k \in Key |-> objects[k] \cup IF k \in call[c].keys THEN done ELSE {}]
            /\ late' = [k \in Key |-> late[k] \cup
                 IF k \in call[c].keys THEN (Variant \ lost) \ done ELSE {}]
            /\ spoilt' = IF (Variant \ lost) \ done = {} THEN spoilt ELSE spoilt \cup call[c].keys
      BY <1>8 DEF PutFails
    <3>2. PICK done \in SUBSET (Variant \ lost) :
            /\ objects' = [k \in Key |-> objects[k] \cup IF k \in call[c].keys THEN done ELSE {}]
            /\ late' = [k \in Key |-> late[k] \cup
                 IF k \in call[c].keys THEN (Variant \ lost) \ done ELSE {}]
            /\ spoilt' = IF (Variant \ lost) \ done = {} THEN spoilt ELSE spoilt \cup call[c].keys
      BY <3>1
    <3> DEFINE slow == (Variant \ lost) \ done
    <3>3. slow \in SUBSET Variant
      OBVIOUS
    <3>4. \A k \in Key : k \notin call[c].keys => objects'[k] = objects[k] /\ late'[k] = late[k]
      BY <3>2
    <3>5. /\ \A k \in Key : k \in call[c].keys => late'[k] = late[k] \cup slow
          /\ spoilt' = IF slow = {} THEN spoilt ELSE spoilt \cup call[c].keys
      BY <3>2
    <3>6. photo' = photo
      BY <1>8 DEF PutFails
    <3> HIDE DEF slow
    <3> QED BY <3>3, <3>4, <3>5, <3>6
  <2>3. \A k \in Key \ spoilt' : late'[k] = {} /\ Attends(c, k)
    BY <2>1, <2>2 DEF Becomes, Attended, Attends, RowsFor
  <2> QED BY <2>1, <2>2, <2>3, AttendedStep DEF Becomes
<1>9. ASSUME NEW c \in Handler, CheckInsert(c) PROVE Attended'
  BY <1>9, CheckBecomes, AttendedQuietly DEF CheckInsert, Becomes, RowsFor
<1>10. ASSUME NEW c \in Handler, InsertRow(c) PROVE Attended'
  <2>1. Ends(c) /\ UNCHANGED <<objects, late, spoilt>>
    BY <1>10, FinishEnds DEF InsertRow
  <2>2. PICK l \in Key : call[c].keys = {l}
    BY <1>10, AtWork DEF InsertRow
  <2>3. PICK p \in Photo :
          /\ photo[p] = Unused /\ photo'[p].is = "row" /\ photo'[p].key = l
          /\ \A q \in Photo \ {p} : photo'[q] = photo[q]
    BY <1>10, <2>2 DEF InsertRow, Typed, TypeOK
  <2>4. photo[p].is # "row"
    BY <2>3 DEF Unused
  <2>5. RowsFor(l)' # {} /\ \A k \in Key \ {l} : RowsFor(k)' = RowsFor(k)
    BY <2>3, <2>4 DEF RowsFor
  <2>6. \A k \in Key \ spoilt' : late'[k] = {} /\ Attends(c, k)
    BY <2>1, <2>2, <2>5 DEF Attended, Attends
  <2> QED BY <2>1, <2>6, AttendedStep DEF Ends
<1>11. ASSUME NEW c \in Handler, InsertFails(c) PROVE Attended'
  <2>1. Becomes(c, "orphans", call[c].account, call[c].keys)
    BY <1>11, GotoBecomes DEF InsertFails, FailUpload, Pcs
  <2> QED BY <1>11, <2>1, AttendedQuietly DEF InsertFails, Becomes, RowsFor
<1>12. ASSUME NEW c \in Handler, RankRows(c) PROVE Attended'
  BY <1>12, RankBecomes, AttendedQuietly DEF RankRows, Becomes, RowsFor
<1>13. ASSUME NEW c \in Handler, WritePositions(c) PROVE Attended'
  <2>1. UNCHANGED <<spoilt, late, objects>> /\ \A k : RowsFor(k)' = RowsFor(k)
    BY <1>13, WriteRefers DEF WritePositions
  <2> QED BY <1>13, <2>1, WriteBecomes, AttendedQuietly DEF Becomes, Ends
<1>14. ASSUME NEW c \in Handler, FindOrphans(c) PROVE Attended'
  <2>1. UNCHANGED <<spoilt, late, objects, photo>>
    BY <1>14 DEF FindOrphans
  <2>2. \A k \in Key : k \in call[c].keys => k \in Orphaned(c) \/ RowsFor(k) # {}
    BY DEF Orphaned
  <2> QED BY <1>14, <2>1, <2>2, FindBecomes, AttendedQuietly DEF Becomes, Ends, RowsFor
<1>15. ASSUME NEW c \in Handler, DeleteObjects(c) PROVE Attended'
  <2>1. Ends(c) /\ UNCHANGED <<photo, late, spoilt>>
    BY <1>15, FinishEnds DEF DeleteObjects
  <2>2. \A k \in Key : objects'[k] = IF k \in call[c].keys THEN {} ELSE objects[k]
    BY <1>15 DEF DeleteObjects
  <2>3. \A k \in Key \ spoilt' : late'[k] = {} /\ Attends(c, k)
    BY <2>1, <2>2 DEF Attended, Attends, RowsFor
  <2> QED BY <2>1, <2>3, AttendedStep DEF Ends
<1>16. ASSUME NEW c \in Handler, DeleteFails(c) PROVE Attended'
  <2>1. Ends(c) /\ UNCHANGED <<photo, late>> /\ spoilt' = spoilt \cup call[c].keys
    BY <1>16, FinishEnds DEF DeleteFails
  <2>2. \A k \in Key : k \notin call[c].keys => objects'[k] = objects[k]
    BY <1>16 DEF DeleteFails
  <2>3. \A k \in Key \ spoilt' : late'[k] = {} /\ Attends(c, k)
    BY <2>1, <2>2 DEF Attended, Attends, RowsFor
  <2> QED BY <2>1, <2>3, AttendedStep DEF Ends
<1>17. ASSUME NEW c \in Handler, Crash(c) PROVE Attended'
  <2>1. Ends(c) /\ UNCHANGED <<photo, late, objects>> /\ spoilt' = spoilt \cup call[c].keys
    BY <1>17, FinishEnds DEF Crash
  <2>2. \A k \in Key \ spoilt' : late'[k] = {} /\ Attends(c, k)
    BY <2>1 DEF Attended, Attends, RowsFor
  <2> QED BY <2>1, <2>2, AttendedStep DEF Ends
<1> QED BY <1>1, <1>2, <1>3, <1>4, <1>5, <1>6, <1>7, <1>8, <1>9, <1>10, <1>11, <1>12, <1>13,
           <1>14, <1>15, <1>16, <1>17 DEF Next

-----------------------------------------------------------------------------
(* The objects of a row: RowsKeepTheirObjects                              *)

\* Two handlers with one content are noted.
HeldOnce ==
  \A c, d \in Handler, k \in Key :
    c # d /\ k \in call[c].keys /\ k \in call[d].keys => k \in raced

\* An upload past its puts has put everything, and whoever is about to delete
\* found no row.
ObjectsFit(k) ==
  /\ \A c \in Handler : k \in call[c].keys =>
       /\ call[c].pc \in {"check", "insert"} => objects[k] = Variant
       /\ call[c].pc = "delete" => RowsFor(k) = {}
  /\ RowsFor(k) # {} => objects[k] = Variant

Whole == HeldOnce /\ \A k \in Key \ raced : ObjectsFit(k)

LEMMA HeldOnceStep ==
  ASSUME HeldOnce, NEW c \in Handler, \A d \in Handler \ {c} : call'[d] = call[d],
         raced \subseteq raced',
         \A k \in Key \ raced' : k \in call'[c].keys => k \in call[c].keys \/ Holding(c, k) = {}
  PROVE  HeldOnce'
<1>1. \A k \in Key, d \in Handler \ {c} : k \in call[d].keys => d \in Holding(c, k)
  BY DEF Holding
<1> QED BY <1>1 DEF HeldOnce

\* A step that deletes no object and adds no row of a content.
LEMMA FitStep ==
  ASSUME NEW k, ObjectsFit(k), NEW c \in Handler, \A d \in Handler \ {c} : call'[d] = call[d],
         objects[k] = Variant => objects'[k] = Variant,
         RowsFor(k)' \subseteq RowsFor(k),
         k \in call'[c].keys =>
           /\ call'[c].pc \in {"check", "insert"} => objects'[k] = Variant
           /\ call'[c].pc = "delete" => RowsFor(k)' = {}
  PROVE  ObjectsFit(k)'
BY DEF ObjectsFit

\* The only handler of a content is done.
LEMMA FitAlone ==
  ASSUME HeldOnce, NEW k \in Key \ raced, NEW c \in Handler, k \in call[c].keys, Ends(c),
         RowsFor(k)' # {} => objects'[k] = Variant
  PROVE  ObjectsFit(k)'
BY IdleIs DEF HeldOnce, Ends, ObjectsFit

LEMMA WholeStep ==
  ASSUME Whole, NEW c \in Handler, \A d \in Handler \ {c} : call'[d] = call[d],
         raced \subseteq raced',
         \A k \in Key \ raced' : k \in call'[c].keys => k \in call[c].keys \/ Holding(c, k) = {},
         \A k \in Key \ raced' : ObjectsFit(k) => ObjectsFit(k)'
  PROVE  Whole'
<1>1. HeldOnce'
  BY HeldOnceStep DEF Whole
<1>2. \A k \in Key \ raced' : ObjectsFit(k)'
  BY DEF Whole
<1> QED BY <1>1, <1>2 DEF Whole

\* A handler goes on, and neither rows nor objects change.
LEMMA WholeMove ==
  ASSUME Whole, NEW c \in Handler, NEW pc, NEW x, NEW ks, Becomes(c, pc, x, ks),
         UNCHANGED <<photo, objects, raced>>, ks \subseteq call[c].keys,
         pc = "check" => FALSE,
         pc = "insert" => call[c].pc = "check",
         pc = "delete" => \A k \in ks : RowsFor(k) = {}
  PROVE  Whole'
<1>1. ASSUME NEW k \in Key \ raced, ObjectsFit(k) PROVE ObjectsFit(k)'
  BY <1>1, FitStep DEF Becomes, RowsFor, ObjectsFit
<1> QED BY <1>1, WholeStep DEF Becomes

LEMMA WholeKept == ASSUME Typed, Whole, [Next]_vars PROVE Whole'
<1>i. \A c \in Handler : call[c] = Idle => call[c].keys = {}
  BY IdleIs
<1>1. CASE UNCHANGED vars
  BY <1>1 DEF vars, Overlaps, Whole, HeldOnce, ObjectsFit, RowsFor
<1>2. ASSUME NEW k \in Key, NEW v \in Variant, LatePut(k, v) PROVE Whole'
  <2>1. UNCHANGED <<call, photo, raced>>
    BY <1>2 DEF LatePut, Overlaps
  <2>2. \A l \in Key : objects[l] = Variant => objects'[l] = Variant
    BY <1>2 DEF LatePut, Typed, TypeOK
  <2> QED BY <2>1, <2>2 DEF Whole, HeldOnce, ObjectsFit, RowsFor
<1>3. ASSUME NEW c \in Handler, NEW x \in Account, NEW k \in Key, BeginUpload(c, x, k) PROVE Whole'
  <2>1. Becomes(c, "put", x, {k}) /\ UNCHANGED <<photo, objects>>
    BY <1>3, UploadBecomes DEF BeginUpload
  <2>2. raced \subseteq raced' /\ (k \notin raced' => Holding(c, k) = {})
    BY <1>3 DEF BeginUpload, NoteKeys
  <2>3. ASSUME NEW l \in Key \ raced', ObjectsFit(l) PROVE ObjectsFit(l)'
    BY <2>1, <2>3, FitStep DEF Becomes, RowsFor
  <2> QED BY <2>1, <2>2, <2>3, WholeStep DEF Becomes
<1>4. ASSUME NEW c \in Handler, NEW x \in Account, BeginReorder(c, x) PROVE Whole'
  <2>1. Becomes(c, "renumber", x, {}) /\ UNCHANGED <<photo, objects, raced>>
    BY <1>4, ReorderBecomes DEF BeginReorder
  <2> QED BY <2>1, WholeMove
<1>5. ASSUME NEW c \in Handler, NEW x \in Account, eraseAccount(c, x) PROVE Whole'
  <2>1. /\ UNCHANGED objects /\ \A d \in Handler \ {c} : call'[d] = call[d]
        /\ call'[c].keys \subseteq KeysOf(x) /\ call'[c].pc \in {"idle", "orphans"}
    BY <1>5, EraseBecomes, IdleIs DEF eraseAccount, Becomes, Ends
  <2>2. raced \subseteq raced' /\ \A k \in KeysOf(x) \ raced' : Holding(c, k) = {}
    BY <1>5 DEF eraseAccount, NoteKeys, KeysOf
  <2>3. \A k : RowsFor(k)' \subseteq RowsFor(k)
    <3>1. Gone.is = "gone"
      BY DEF Gone, Unused
    <3>2. \A p \in Photo : photo'[p] = photo[p] \/ photo'[p] = Gone
      BY <1>5 DEF eraseAccount
    <3> QED BY <3>1, <3>2 DEF RowsFor
  <2>4. ASSUME NEW k \in Key \ raced', ObjectsFit(k) PROVE ObjectsFit(k)'
    BY <2>1, <2>3, <2>4, FitStep
  <2> QED BY <2>1, <2>2, <2>4, WholeStep
<1>6. ASSUME NEW c \in Handler, NEW p \in Photo, DeleteRow(c, p) PROVE Whole'
  <2>1. Becomes(c, "compact", photo[p].account, {photo[p].key}) /\ UNCHANGED objects
    BY <1>6, DeleteBecomes DEF DeleteRow
  <2>2. raced \subseteq raced' /\ (photo[p].key \notin raced' => Holding(c, photo[p].key) = {})
    BY <1>6, DeleteBecomes DEF DeleteRow, NoteKeys
  <2>3. \A k : RowsFor(k)' \subseteq RowsFor(k)
    <3>1. Gone.is = "gone"
      BY DEF Gone, Unused
    <3>2. \A q \in Photo : photo'[q] = photo[q] \/ photo'[q] = Gone
      BY <1>6 DEF DeleteRow, Typed, TypeOK
    <3> QED BY <3>1, <3>2 DEF RowsFor
  <2>4. ASSUME NEW k \in Key \ raced', ObjectsFit(k) PROVE ObjectsFit(k)'
    BY <2>1, <2>3, <2>4, FitStep DEF Becomes
  <2> QED BY <2>1, <2>2, <2>4, WholeStep DEF Becomes
<1>7. ASSUME NEW c \in Handler, PutObjects(c) PROVE Whole'
  <2>1. Becomes(c, "check", call[c].account, call[c].keys) /\ UNCHANGED <<photo, raced>>
    BY <1>7, GotoBecomes DEF PutObjects, Pcs, Overlaps
  <2>2. \A k \in Key : objects'[k] = IF k \in call[c].keys THEN Variant ELSE objects[k]
    BY <1>7 DEF PutObjects
  <2>3. ASSUME NEW k \in Key \ raced', ObjectsFit(k) PROVE ObjectsFit(k)'
    BY <2>1, <2>2, <2>3, FitStep DEF Becomes, RowsFor
  <2> QED BY <2>1, <2>3, WholeStep DEF Becomes
<1>8. ASSUME NEW c \in Handler, PutFails(c) PROVE Whole'
  <2>1. Becomes(c, "orphans", call[c].account, call[c].keys) /\ UNCHANGED <<photo, raced>>
    BY <1>8, GotoBecomes DEF PutFails, FailUpload, Pcs, Overlaps
  <2>2. \A k \in Key : objects[k] = Variant => objects'[k] = Variant
    BY <1>8 DEF PutFails
  <2>3. ASSUME NEW k \in Key \ raced', ObjectsFit(k) PROVE ObjectsFit(k)'
    BY <2>1, <2>2, <2>3, FitStep DEF Becomes, RowsFor
  <2> QED BY <2>1, <2>3, WholeStep DEF Becomes
<1>9. ASSUME NEW c \in Handler, CheckInsert(c) PROVE Whole'
  <2>1. call[c].pc = "check" /\ UNCHANGED <<photo, objects, raced>>
    BY <1>9 DEF CheckInsert
  <2> QED BY <1>9, <2>1, CheckBecomes, WholeMove
<1>10. ASSUME NEW c \in Handler, InsertRow(c) PROVE Whole'
  <2>1. Ends(c) /\ UNCHANGED <<objects, raced>> /\ call[c].pc = "insert"
    BY <1>10, FinishEnds DEF InsertRow, Overlaps
  <2>2. PICK l \in Key : call[c].keys = {l}
    BY <2>1, AtWork
  <2>3. PICK p \in Photo : /\ photo'[p].key = l /\ \A q \in Photo \ {p} : photo'[q] = photo[q]
    BY <1>10, <2>2 DEF InsertRow, Typed, TypeOK
  <2>4. \A k \in Key \ {l} : RowsFor(k)' \subseteq RowsFor(k)
    BY <2>3 DEF RowsFor
  <2>5. ASSUME NEW k \in Key \ raced', ObjectsFit(k) PROVE ObjectsFit(k)'
    <3>1. CASE k = l
      BY <2>1, <2>2, <2>5, <3>1, FitAlone DEF ObjectsFit, Whole
    <3>2. CASE k # l
      BY <2>1, <2>2, <2>4, <2>5, <3>2, IdleIs, FitStep DEF Ends
    <3> QED BY <3>1, <3>2
  <2> QED BY <2>1, <2>5, IdleIs, WholeStep DEF Ends
<1>11. ASSUME NEW c \in Handler, InsertFails(c) PROVE Whole'
  <2>1. Becomes(c, "orphans", call[c].account, call[c].keys) /\ UNCHANGED <<photo, objects, raced>>
    BY <1>11, GotoBecomes DEF InsertFails, FailUpload, Pcs, Overlaps
  <2> QED BY <2>1, WholeMove
<1>12. ASSUME NEW c \in Handler, RankRows(c) PROVE Whole'
  <2>1. UNCHANGED <<photo, objects, raced>>
    BY <1>12 DEF RankRows, Overlaps
  <2> QED BY <1>12, <2>1, RankBecomes, WholeMove
\* The steps that may leave a handler idle, with no content at all.
<1>13. ASSUME NEW c \in Handler, Ends(c), UNCHANGED <<objects, raced>>,
              \A k : RowsFor(k)' = RowsFor(k)
       PROVE  Whole'
  <2>1. call'[c].keys = {} /\ \A d \in Handler \ {c} : call'[d] = call[d]
    BY <1>13, IdleIs DEF Ends
  <2>2. ASSUME NEW k \in Key \ raced', ObjectsFit(k) PROVE ObjectsFit(k)'
    BY <1>13, <2>1, <2>2, FitStep
  <2> QED BY <1>13, <2>1, <2>2, WholeStep
<1>14. ASSUME NEW c \in Handler, WritePositions(c) PROVE Whole'
  <2>1. UNCHANGED <<objects, raced>> /\ \A k : RowsFor(k)' = RowsFor(k)
    BY <1>14, WriteRefers DEF WritePositions, Overlaps
  <2>2. CASE Becomes(c, "orphans", call[c].account, call[c].keys)
    <3>1. ASSUME NEW k \in Key \ raced', ObjectsFit(k) PROVE ObjectsFit(k)'
      BY <2>1, <2>2, <3>1, FitStep DEF Becomes
    <3> QED BY <2>1, <2>2, <3>1, WholeStep DEF Becomes
  <2> QED BY <1>13, <1>14, <2>1, <2>2, WriteBecomes
<1>15. ASSUME NEW c \in Handler, FindOrphans(c) PROVE Whole'
  <2>1. UNCHANGED <<photo, objects, raced>> /\ \A k : RowsFor(k)' = RowsFor(k)
    BY <1>15 DEF FindOrphans, Overlaps, RowsFor
  <2>2. \A k \in Orphaned(c) : RowsFor(k) = {}
    BY DEF Orphaned
  <2> QED BY <1>13, <1>15, <2>1, <2>2, FindBecomes, WholeMove
<1>16. ASSUME NEW c \in Handler, DeleteObjects(c) \/ DeleteFails(c) PROVE Whole'
  <2>1. Ends(c) /\ UNCHANGED <<photo, raced>> /\ call[c].pc = "delete"
    BY <1>16, FinishEnds DEF DeleteObjects, DeleteFails, Overlaps
  <2>2. \A k \in Key : k \notin call[c].keys => objects'[k] = objects[k]
    BY <1>16 DEF DeleteObjects, DeleteFails
  <2>3. ASSUME NEW k \in Key \ raced', ObjectsFit(k) PROVE ObjectsFit(k)'
    <3>1. CASE k \in call[c].keys
      BY <2>1, <2>3, <3>1, FitAlone DEF ObjectsFit, Whole, RowsFor
    <3>2. CASE k \notin call[c].keys
      BY <2>1, <2>2, <2>3, <3>2, IdleIs, FitStep DEF Ends, RowsFor
    <3> QED BY <3>1, <3>2
  <2> QED BY <2>1, <2>3, IdleIs, WholeStep DEF Ends
<1>17. ASSUME NEW c \in Handler, Crash(c) PROVE Whole'
  <2>1. Ends(c) /\ UNCHANGED <<photo, objects, raced>> /\ \A k : RowsFor(k)' = RowsFor(k)
    BY <1>17, FinishEnds DEF Crash, RowsFor
  <2> QED BY <1>13, <2>1
<1> QED BY <1>1, <1>2, <1>3, <1>4, <1>5, <1>6, <1>7, <1>8, <1>9, <1>10, <1>11, <1>12,
           <1>14, <1>15, <1>16, <1>17 DEF Next

-----------------------------------------------------------------------------
(* The cap: CapPassedOnlyTogether                                          *)

Pending(x) == {c \in Handler : call[c].pc = "insert" /\ call[c].account = x}

\* Whoever is about to insert found room; alone, it finds it still.
CountedAt(x) ==
  /\ Cardinality(RowsOf(x)) + Cardinality(Pending(x)) < MaxPhotos + Cardinality(Handler)
  /\ x \notin together =>
       /\ Cardinality(RowsOf(x)) <= MaxPhotos
       /\ \A c \in Pending(x) : Cardinality(RowsOf(x)) < MaxPhotos /\ Pending(x) = {c}

Counted == \A x \in Account : CountedAt(x)

LEMMA PendingFinite ==
  ASSUME NEW x
  PROVE  /\ IsFiniteSet(Pending(x)) /\ Cardinality(Pending(x)) \in Nat
         /\ Cardinality(Handler) \in Nat /\ Cardinality(Pending(x)) <= Cardinality(Handler)
<1>1. Pending(x) \in SUBSET Handler /\ IsFiniteSet(Handler)
  BY PhotosAssumption DEF Pending
<1> QED BY <1>1, FS_Subset, FS_CardinalityType

LEMMA CountedQuietly ==
  ASSUME Typed, Counted, NEW c \in Handler, \A d \in Handler \ {c} : call'[d] = call[d],
         call'[c].pc # "insert", \A x : RowsOf(x)' \subseteq RowsOf(x), together' = together
  PROVE  Counted'
<1> SUFFICES ASSUME NEW x \in Account PROVE CountedAt(x)'
  BY DEF Counted
<1>1. CountedAt(x)
  BY DEF Counted
<1>2. Pending(x)' \in SUBSET Pending(x) /\ RowsOf(x)' \in SUBSET RowsOf(x)
  BY DEF Pending
<1>3. Cardinality(Pending(x)') <= Cardinality(Pending(x)) /\ IsFiniteSet(Pending(x)')
  BY <1>2, PendingFinite, FS_Subset
<1>4. Cardinality(RowsOf(x)') <= Cardinality(RowsOf(x)) /\ IsFiniteSet(RowsOf(x)')
  BY <1>2, RowsFinite, FS_Subset
<1>5. /\ Cardinality(Pending(x)') \in Nat /\ Cardinality(RowsOf(x)') \in Nat
      /\ Cardinality(Pending(x)) \in Nat /\ Cardinality(RowsOf(x)) \in Nat
      /\ MaxPhotos \in Nat /\ Cardinality(Handler) \in Nat
  BY <1>3, <1>4, PendingFinite, RowsFinite, FS_CardinalityType, PhotosAssumption
<1>6. \A d \in Pending(x)' : d \in Pending(x) /\ (Pending(x) = {d} => Pending(x)' = {d})
  BY <1>2
<1>7. Cardinality(RowsOf(x)') + Cardinality(Pending(x)') < MaxPhotos + Cardinality(Handler)
  BY <1>1, <1>3, <1>4, <1>5 DEF CountedAt
<1>8. ASSUME x \notin together
      PROVE  /\ Cardinality(RowsOf(x)') <= MaxPhotos
             /\ \A d \in Pending(x)' : Cardinality(RowsOf(x)') < MaxPhotos /\ Pending(x)' = {d}
  <2>1. Cardinality(RowsOf(x)') <= MaxPhotos
    BY <1>1, <1>4, <1>5, <1>8 DEF CountedAt
  <2>2. ASSUME NEW d \in Pending(x)' PROVE Cardinality(RowsOf(x)') < MaxPhotos /\ Pending(x)' = {d}
    <3>1. d \in Pending(x) /\ Cardinality(RowsOf(x)) < MaxPhotos /\ Pending(x) = {d}
      BY <1>1, <1>6, <1>8, <2>2 DEF CountedAt
    <3> QED BY <1>4, <1>5, <1>6, <2>2, <3>1
  <2> QED BY <2>1, <2>2
<1> QED BY <1>7, <1>8 DEF CountedAt

LEMMA RowsShrink ==
  ASSUME Typed, NEW c \in Handler,
         \/ \E x \in Account : eraseAccount(c, x)
         \/ \E p \in Photo : DeleteRow(c, p)
  PROVE  \A x : RowsOf(x)' \subseteq RowsOf(x)
<1>1. Gone.is = "gone"
  BY DEF Gone, Unused
<1>2. \A p \in Photo : photo'[p] = photo[p] \/ photo'[p] = Gone
  BY DEF eraseAccount, DeleteRow, Typed, TypeOK
<1> QED BY <1>1, <1>2 DEF RowsOf

\* A row of the handler's account, where there was none.
LEMMA InsertAdds ==
  ASSUME Typed, NEW c \in Handler, InsertRow(c)
  PROVE  \E p \in Photo :
           /\ \A q \in Photo \ {p} : photo'[q] = photo[q]
           /\ photo'[p].pos = call[c].pos
           /\ \A x : p \notin RowsOf(x)
           /\ \A x : x = call[c].account => RowsOf(x)' = RowsOf(x) \cup {p}
           /\ \A x : x # call[c].account => RowsOf(x)' = RowsOf(x)
<1>1. PICK p \in Photo :
        /\ photo[p] = Unused /\ photo'[p].is = "row" /\ photo'[p].account = call[c].account
        /\ photo'[p].pos = call[c].pos
        /\ \A q \in Photo \ {p} : photo'[q] = photo[q]
  BY DEF InsertRow, Typed, TypeOK
<1>2. photo[p].is # "row"
  BY <1>1 DEF Unused
<1>3. ASSUME NEW x, x = call[c].account
      PROVE  RowsOf(x)' = RowsOf(x) \cup {p}
  <2>1. p \in RowsOf(x)' /\ p \notin RowsOf(x)
    BY <1>1, <1>2, <1>3 DEF RowsOf
  <2>2. ASSUME NEW q \in Photo \ {p} PROVE q \in RowsOf(x)' <=> q \in RowsOf(x)
    BY <1>1 DEF RowsOf
  <2>3. RowsOf(x) \subseteq Photo /\ RowsOf(x)' \subseteq Photo
    BY DEF RowsOf
  <2> QED BY <2>1, <2>2, <2>3
<1>4. ASSUME NEW x, x # call[c].account PROVE RowsOf(x)' = RowsOf(x)
  <2>1. photo'[p].account # x
    BY <1>1, <1>4
  <2>2. \A q \in Photo : photo'[q].is = "row" /\ photo'[q].account = x
                             <=> photo[q].is = "row" /\ photo[q].account = x
    BY <1>1, <1>2, <2>1
  <2> QED BY <2>2 DEF RowsOf
<1>5. \A x : p \notin RowsOf(x)
  BY <1>2 DEF RowsOf
<1> QED BY <1>1, <1>3, <1>4, <1>5

LEMMA CountedCheck ==
  ASSUME Typed, Counted, NEW c \in Handler, CheckInsert(c), Fits(call[c].account),
         Becomes(c, "insert", call[c].account, call[c].keys)
  PROVE  Counted'
<1> SUFFICES ASSUME NEW x \in Account PROVE CountedAt(x)'
  BY DEF Counted
<1>1. CountedAt(x) /\ RowsOf(x)' = RowsOf(x) /\ together \subseteq together'
  BY DEF Counted, CheckInsert, RowsOf
<1>2. CASE x # call[c].account
  <2>1. Pending(x)' = Pending(x) /\ (x \in together' <=> x \in together)
    BY <1>2 DEF Becomes, Pending, CheckInsert
  <2> QED BY <1>1, <2>1 DEF CountedAt
<1>3. CASE x = call[c].account
  <2>1. /\ Cardinality(RowsOf(x)) < MaxPhotos /\ Cardinality(RowsOf(x)) \in Nat /\ MaxPhotos \in Nat
    BY <1>3, RowsFinite, PhotosAssumption DEF Fits
  <2>2. Pending(x)' \in SUBSET Handler /\ IsFiniteSet(Handler)
    BY PhotosAssumption DEF Pending
  <2>3. /\ Cardinality(Pending(x)') <= Cardinality(Handler)
        /\ Cardinality(Pending(x)') \in Nat /\ Cardinality(Handler) \in Nat
    BY <2>2, FS_Subset, FS_CardinalityType
  <2>4. Cardinality(RowsOf(x)') + Cardinality(Pending(x)') < MaxPhotos + Cardinality(Handler)
    BY <1>1, <2>1, <2>3
  <2>5. ASSUME x \notin together' PROVE Pending(x)' = {c}
    <3>1. \A d \in Handler \ {c} : ~(call[d].account = x /\ call[d].pc = "insert")
      BY <1>3, <2>5 DEF CheckInsert, Working
    <3> QED BY <1>3, <3>1 DEF Becomes, Pending
  <2> QED BY <1>1, <2>1, <2>4, <2>5 DEF CountedAt
<1> QED BY <1>2, <1>3

LEMMA CountedInsert ==
  ASSUME Typed, Counted, NEW c \in Handler, InsertRow(c)
  PROVE  Counted'
<1> SUFFICES ASSUME NEW x \in Account PROVE CountedAt(x)'
  BY DEF Counted
<1>1. CountedAt(x) /\ together' = together /\ Ends(c) /\ call[c].pc = "insert"
  BY FinishEnds DEF Counted, InsertRow, Overlaps
<1>2. PICK p \in Photo :
        /\ \A y : p \notin RowsOf(y)
        /\ \A y : y = call[c].account => RowsOf(y)' = RowsOf(y) \cup {p}
        /\ \A y : y # call[c].account => RowsOf(y)' = RowsOf(y)
  BY InsertAdds
<1>3. CASE x # call[c].account
  <2>1. Pending(x)' = Pending(x)
    BY <1>1, <1>3, IdleIs DEF Ends, Pending
  <2> QED BY <1>1, <1>2, <1>3, <2>1 DEF CountedAt
<1>4. CASE x = call[c].account
  <2>1. Cardinality(RowsOf(x)') = Cardinality(RowsOf(x)) + 1
    <3>1. RowsOf(x)' = RowsOf(x) \cup {p} /\ p \notin RowsOf(x)
      BY <1>2, <1>4
    <3>2. IsFiniteSet(RowsOf(x))
      BY RowsFinite
    <3>3. Cardinality(RowsOf(x) \cup {p}) = Cardinality(RowsOf(x)) + 1
      BY <3>1, <3>2, FS_AddElement
    <3> QED BY <3>1, <3>3
  <2>2. c \in Pending(x) /\ Pending(x)' = Pending(x) \ {c}
    BY <1>1, <1>4, IdleIs DEF Ends, Pending
  <2>3. Cardinality(Pending(x)') = Cardinality(Pending(x)) - 1
    BY <2>2, PendingFinite, FS_RemoveElement
  <2>4. /\ Cardinality(Pending(x)) \in Nat /\ Cardinality(RowsOf(x)) \in Nat
        /\ MaxPhotos \in Nat /\ Cardinality(Handler) \in Nat
    BY PendingFinite, RowsFinite, PhotosAssumption
  <2>5. Cardinality(RowsOf(x)') + Cardinality(Pending(x)') < MaxPhotos + Cardinality(Handler)
    BY <1>1, <2>1, <2>3, <2>4 DEF CountedAt
  <2>6. ASSUME x \notin together PROVE Pending(x)' = {} /\ Cardinality(RowsOf(x)') <= MaxPhotos
    BY <1>1, <2>1, <2>2, <2>4, <2>6 DEF CountedAt
  <2> QED BY <1>1, <2>5, <2>6 DEF CountedAt
<1> QED BY <1>3, <1>4

LEMMA CountedKept == ASSUME Typed, Counted, [Next]_vars PROVE Counted'
<1>i. Idle.pc # "insert"
  BY IdleIs
<1>1. CASE UNCHANGED vars
  BY <1>1 DEF vars, Overlaps, Counted, CountedAt, RowsOf, Pending
<1>2. ASSUME NEW k \in Key, NEW v \in Variant, LatePut(k, v) PROVE Counted'
  BY <1>2 DEF LatePut, Overlaps, Counted, CountedAt, RowsOf, Pending
<1>3. ASSUME NEW c \in Handler, NEW x \in Account, NEW k \in Key, BeginUpload(c, x, k) PROVE Counted'
  <2>1. together' = together /\ \A y : RowsOf(y)' = RowsOf(y)
    BY <1>3 DEF BeginUpload, RowsOf
  <2> QED BY <1>3, <2>1, UploadBecomes, CountedQuietly DEF Becomes
<1>4. ASSUME NEW c \in Handler, NEW x \in Account, BeginReorder(c, x) PROVE Counted'
  <2>1. together' = together /\ \A y : RowsOf(y)' = RowsOf(y)
    BY <1>4 DEF BeginReorder, RowsOf
  <2> QED BY <1>4, <2>1, ReorderBecomes, CountedQuietly DEF Becomes
<1>5. ASSUME NEW c \in Handler, NEW x \in Account, eraseAccount(c, x) PROVE Counted'
  <2>1. together' = together /\ \A y : RowsOf(y)' \subseteq RowsOf(y)
    BY <1>5, RowsShrink DEF eraseAccount
  <2> QED BY <1>i, <1>5, <2>1, EraseBecomes, CountedQuietly DEF Becomes, Ends
<1>6. ASSUME NEW c \in Handler, NEW p \in Photo, DeleteRow(c, p) PROVE Counted'
  <2>1. together' = together /\ \A y : RowsOf(y)' \subseteq RowsOf(y)
    BY <1>6, RowsShrink DEF DeleteRow
  <2> QED BY <1>6, <2>1, DeleteBecomes, CountedQuietly DEF Becomes
<1>7. ASSUME NEW c \in Handler, CheckInsert(c) PROVE Counted'
  <2>1. \A y : RowsOf(y)' = RowsOf(y)
    BY <1>7 DEF CheckInsert, RowsOf
  <2>2. CASE Becomes(c, "orphans", call[c].account, call[c].keys) /\ UNCHANGED together
    BY <2>1, <2>2, CountedQuietly DEF Becomes
  <2> QED BY <1>7, <2>2, CheckBecomes, CountedCheck
<1>8. ASSUME NEW c \in Handler, RankRows(c) PROVE Counted'
  <2>1. together' = together /\ \A y : RowsOf(y)' = RowsOf(y)
    BY <1>8 DEF RankRows, RowsOf, Overlaps
  <2> QED BY <1>8, <2>1, RankBecomes, CountedQuietly DEF Becomes
<1>9. ASSUME NEW c \in Handler, WritePositions(c) PROVE Counted'
  <2>1. together' = together /\ \A y : RowsOf(y)' = RowsOf(y)
    BY <1>9, WriteRefers DEF WritePositions, Overlaps
  <2> QED BY <1>i, <1>9, <2>1, WriteBecomes, CountedQuietly DEF Becomes, Ends
<1>10. ASSUME NEW c \in Handler, FindOrphans(c) PROVE Counted'
  <2>1. together' = together /\ \A y : RowsOf(y)' = RowsOf(y)
    BY <1>10 DEF FindOrphans, RowsOf, Overlaps
  <2> QED BY <1>i, <1>10, <2>1, FindBecomes, CountedQuietly DEF Becomes, Ends
<1>11. ASSUME NEW c \in Handler, PutObjects(c) \/ PutFails(c) \/ InsertFails(c) PROVE Counted'
  <2>1. together' = together /\ \A y : RowsOf(y)' = RowsOf(y)
    BY <1>11 DEF PutObjects, PutFails, InsertFails, RowsOf, Overlaps
  <2>2. PICK pc \in {"check", "orphans"} : Goto(c, pc)
    BY <1>11 DEF PutObjects, PutFails, InsertFails, FailUpload
  <2>3. Becomes(c, pc, call[c].account, call[c].keys)
    BY <2>2, GotoBecomes DEF Pcs
  <2> QED BY <2>1, <2>2, <2>3, CountedQuietly DEF Becomes
<1>12. ASSUME NEW c \in Handler, DeleteObjects(c) \/ DeleteFails(c) \/ Crash(c) PROVE Counted'
  <2>1. together' = together /\ Ends(c) /\ \A y : RowsOf(y)' = RowsOf(y)
    BY <1>12, FinishEnds DEF DeleteObjects, DeleteFails, Crash, RowsOf, Overlaps
  <2> QED BY <1>i, <2>1, CountedQuietly DEF Ends
<1> QED BY <1>1, <1>2, <1>3, <1>4, <1>5, <1>6, <1>7, <1>8, <1>9, <1>10, <1>11, <1>12, CountedInsert DEF Next

-----------------------------------------------------------------------------
(* The order: PositionsAreDense                                            *)

Dense(x) == {photo[p].pos : p \in RowsOf(x)} = Places(Cardinality(RowsOf(x)))
At(x)    == {c \in Handler : call[c].account = x}

\* The one handler at work on an account: until it renumbers the rows it finds
\* them without gaps, a new row's place is the next, and the numbers it is about
\* to write are those of the rows there are.
InOrder(c, x) ==
  /\ call[c].pc \notin {"compact", "renumber"} => Dense(x)
  /\ call[c].pc = "insert" => call[c].pos = Cardinality(RowsOf(x))
  /\ call[c].pc = "renumber" =>
       /\ call[c].rank \in [RowsOf(x) -> Nat]
       /\ {call[c].rank[p] : p \in RowsOf(x)} = Places(Cardinality(RowsOf(x)))

NumberedAt(x) ==
  /\ At(x) = {} => Dense(x)
  /\ \A c \in At(x) : At(x) = {c} /\ InOrder(c, x)

Numbered == \A x \in Account \ mingled : NumberedAt(x)

\* A step that leaves an account's rows, and where they stand, as they are.
SameRows(x) == RowsOf(x)' = RowsOf(x) /\ \A p \in RowsOf(x) : photo'[p].pos = photo[p].pos

LEMMA SameDense ==
  ASSUME NEW x, SameRows(x) PROVE Dense(x)' <=> Dense(x)
BY DEF SameRows, Dense, Places

LEMMA NumberedElsewhere ==
  ASSUME NEW c \in Handler, NEW x, NumberedAt(x), SameRows(x),
         \A d \in Handler \ {c} : call'[d] = call[d], call[c].account # x, call'[c].account # x
  PROVE  NumberedAt(x)'
<1>1. At(x)' = At(x) /\ \A d \in At(x) : call'[d] = call[d]
  BY DEF At
<1>2. Dense(x)' <=> Dense(x)
  BY SameDense
<1>3. \A d \in At(x) : InOrder(d, x) => InOrder(d, x)'
  BY <1>1, <1>2 DEF InOrder, SameRows, Places
<1> QED BY <1>1, <1>2, <1>3 DEF NumberedAt

\* A handler's next step on its account, which it may leave.
LEMMA NumberedStep ==
  ASSUME Typed, Numbered, NEW c \in Handler, \A d \in Handler \ {c} : call'[d] = call[d],
         mingled' = mingled,
         \/ call'[c].account = call[c].account
         \/ call'[c].account = None /\ call'[c].pc = "idle",
         \A x \in Account : x # call[c].account => SameRows(x),
         \A x \in Account : x = call[c].account /\ InOrder(c, x) => InOrder(c, x)'
  PROVE  Numbered'
<1> SUFFICES ASSUME NEW x \in Account, x \notin mingled PROVE NumberedAt(x)'
  BY DEF Numbered
<1>1. NumberedAt(x) /\ x # None
  BY IdleIs DEF Numbered
<1>2. CASE x # call[c].account
  BY <1>1, <1>2, NumberedElsewhere
<1>3. CASE x = call[c].account
  <2>1. At(x) = {c} /\ InOrder(c, x)
    BY <1>1, <1>3 DEF NumberedAt, At
  <2>2. At(x)' \subseteq {c} /\ InOrder(c, x)'
    BY <1>1, <1>3, <2>1 DEF At
  <2>3. At(x)' = {} => Dense(x)'
    BY <1>3, <2>2 DEF At, InOrder
  <2> QED BY <2>2, <2>3 DEF NumberedAt
<1> QED BY <1>2, <1>3

\* A handler that begins on an account: alone, or the account is mingled.
LEMMA NumberedBegin ==
  ASSUME Typed, Numbered, NEW c \in Handler, NEW x \in Account, NEW b \in BOOLEAN,
         call[c] = Idle, NoteAccount(c, x, b), \A d \in Handler \ {c} : call'[d] = call[d],
         \/ call'[c].account = x
         \/ call'[c].account = None /\ call'[c].pc = "idle",
         \A y \in Account : y # x => SameRows(y),
         b \/ Dense(x) => InOrder(c, x)'
  PROVE  Numbered'
<1> SUFFICES ASSUME NEW y \in Account, y \notin mingled' PROVE NumberedAt(y)'
  BY DEF Numbered
<1>1. call[c].account = None /\ y # None
  BY IdleIs
<1>2. CASE y # x
  <2>1. NumberedAt(y)
    BY <1>2 DEF Numbered, NoteAccount
  <2> QED BY <1>1, <1>2, <2>1, NumberedElsewhere
<1>3. CASE y = x
  <2>1. Working(c, x) = {} /\ (b \/ x \notin mingled)
    BY <1>3 DEF NoteAccount
  <2>2. At(x) = {}
    BY <1>1, <1>3, <2>1 DEF At, Working
  <2>3. b \/ Dense(x)
    BY <2>1, <2>2 DEF Numbered, NumberedAt
  <2>4. At(x)' \subseteq {c} /\ InOrder(c, x)'
    BY <2>2, <2>3 DEF At
  <2>5. At(x)' = {} => Dense(x)'
    BY <1>1, <1>3, <2>4 DEF At, InOrder
  <2> QED BY <1>3, <2>4, <2>5 DEF NumberedAt
<1> QED BY <1>2, <1>3

\* A permutation of n rows onto 0 .. n - 1 leaves no gap.
LEMMA OrderIsDense ==
  ASSUME Typed, NEW x, NEW f \in [RowsOf(x) -> 0 .. Cardinality(RowsOf(x)) - 1],
         \A p, q \in RowsOf(x) : f[p] = f[q] => p = q
  PROVE  f \in [RowsOf(x) -> Nat] /\ {f[p] : p \in RowsOf(x)} = Places(Cardinality(RowsOf(x)))
<1> DEFINE R == RowsOf(x)
           n == Cardinality(R)
           T == 0 .. n - 1
<1>1. IsFiniteSet(R) /\ n \in Nat /\ n <= MaxRows
  BY RowsFinite
<1>2. f \in Injection(R, T)
  BY DEF Injection, IsInjective
<1>3. IsFiniteSet(T) /\ Cardinality(T) = n
  <2>1. n - 1 \in Int /\ 0 \in Int
    BY <1>1
  <2>2. /\ IsFiniteSet(0 .. n - 1)
        /\ Cardinality(0 .. n - 1) = IF 0 > n - 1 THEN 0 ELSE (n - 1) - 0 + 1
    BY <2>1, FS_Interval
  <2> QED BY <1>1, <2>2
<1>4. f \in Surjection(R, T)
  <2> HIDE DEF T, R
  <2> QED BY <1>1, <1>2, <1>3, FS_Injection DEF n
<1>5. {f[p] : p \in R} = T
  <2>1. f \in [R -> T] /\ \A t \in T : \E p \in R : f[p] = t
    BY <1>4 DEF Surjection
  <2> QED BY <2>1
<1>6. T = Places(n)
  BY <1>1, PhotosAssumption DEF Places
<1>7. f \in [R -> Nat]
  BY <1>1
<1> QED BY <1>5, <1>6, <1>7

\* One more row, at the next place.
LEMMA InsertIsDense ==
  ASSUME Typed, NEW c \in Handler, NEW x, x = call[c].account, InsertRow(c),
         Dense(x), call[c].pos = Cardinality(RowsOf(x))
  PROVE  Dense(x)'
<1> DEFINE n == Cardinality(RowsOf(x))
<1>1. PICK p \in Photo :
        /\ \A q \in Photo \ {p} : photo'[q] = photo[q]
        /\ photo'[p].pos = n
        /\ p \notin RowsOf(x) /\ RowsOf(x)' = RowsOf(x) \cup {p}
  BY InsertAdds
<1>2. IsFiniteSet(RowsOf(x)) /\ n \in Nat /\ n <= MaxRows /\ RowsOf(x) \in SUBSET Photo
  BY RowsFinite
<1>3. Cardinality(RowsOf(x)') = n + 1
  <2>1. Cardinality(RowsOf(x) \cup {p}) = n + 1
    BY <1>1, <1>2, FS_AddElement
  <2> QED BY <1>1, <2>1
<1>4. {photo'[q].pos : q \in RowsOf(x)'} = {photo[q].pos : q \in RowsOf(x)} \cup {n}
  BY <1>1, <1>2
<1>5. Places(n) \cup {n} = Places(n + 1)
  BY <1>2, PhotosAssumption DEF Places
<1> QED BY <1>3, <1>4, <1>5 DEF Dense, Places

LEMMA WriteIsDense ==
  ASSUME Typed, NEW c \in Handler, NEW x, x = call[c].account, WritePositions(c),
         call[c].rank \in [RowsOf(x) -> Nat],
         {call[c].rank[p] : p \in RowsOf(x)} = Places(Cardinality(RowsOf(x)))
  PROVE  Dense(x)'
<1>1. RowsOf(x)' = RowsOf(x) /\ RowsOf(x) \in SUBSET Photo
  BY WriteRefers, RowsFinite
<1>2. \A p \in RowsOf(x) : photo'[p].pos = call[c].rank[p]
  BY <1>1 DEF WritePositions, Typed, TypeOK, PhotoRows
<1>3. {photo'[p].pos : p \in RowsOf(x)} = {call[c].rank[p] : p \in RowsOf(x)}
  BY <1>2
<1> QED BY <1>1, <1>3 DEF Dense, Places

LEMMA ErasedIsDense ==
  ASSUME Typed, NEW x \in Account, RowsOf(x)' = {} PROVE Dense(x)'
<1>1. Cardinality(RowsOf(x)') = 0
  BY FS_EmptySet
<1>2. Places(0) = {}
  BY PhotosAssumption DEF Places
<1> QED BY <1>1, <1>2 DEF Dense, Places

LEMMA SameWhenUnwritten ==
  ASSUME photo' = photo PROVE \A x : SameRows(x) /\ (Dense(x)' <=> Dense(x))
<1>1. \A x : SameRows(x)
  BY DEF SameRows, RowsOf
<1> QED BY <1>1, SameDense

\* A step from one of the places where the rows are without gaps to another.
LEMMA NumberedQuietly ==
  ASSUME Typed, Numbered, NEW c \in Handler, photo' = photo, mingled' = mingled,
         call[c].pc \notin {"compact", "renumber"},
         \/ Ends(c)
         \/ \E pc \in {"check", "orphans", "delete"} : \E ks : Becomes(c, pc, call[c].account, ks)
  PROVE  Numbered'
<1>1. call'[c].pc \notin {"insert", "compact", "renumber"}
  BY IdleIs DEF Ends, Becomes
<1>2. ASSUME NEW x \in Account, InOrder(c, x) PROVE InOrder(c, x)'
  BY <1>1, <1>2, SameWhenUnwritten DEF InOrder
<1>3. /\ \A d \in Handler \ {c} : call'[d] = call[d]
      /\ \/ call'[c].account = call[c].account
         \/ call'[c].account = None /\ call'[c].pc = "idle"
  BY IdleIs DEF Ends, Becomes
<1> QED BY <1>2, <1>3, SameWhenUnwritten, NumberedStep

LEMMA NumberedKept == ASSUME Typed, Numbered, [Next]_vars PROVE Numbered'
<1>i. /\ Idle.pc = "idle" /\ Idle.account = None
      /\ \A x : SameRows(x) <=> /\ RowsOf(x)' = RowsOf(x)
                                /\ \A p \in RowsOf(x) : photo'[p].pos = photo[p].pos
  BY IdleIs DEF SameRows
<1>0. ASSUME UNCHANGED <<photo, call, mingled>> PROVE Numbered'
  <2> SUFFICES ASSUME NEW x \in Account, x \notin mingled PROVE NumberedAt(x)'
    BY <1>0 DEF Numbered
  <2>1. NumberedAt(x) /\ At(x)' = At(x) /\ (Dense(x)' <=> Dense(x)) /\ RowsOf(x)' = RowsOf(x)
    BY <1>0, SameWhenUnwritten DEF Numbered, At, SameRows
  <2>2. \A c \in At(x) : InOrder(c, x) => InOrder(c, x)'
    BY <1>0, <2>1 DEF InOrder, Places
  <2> QED BY <2>1, <2>2 DEF NumberedAt
<1>1. CASE UNCHANGED vars
  BY <1>0, <1>1 DEF vars, Overlaps
<1>2. ASSUME NEW k \in Key, NEW v \in Variant, LatePut(k, v) PROVE Numbered'
  BY <1>0, <1>2 DEF LatePut, Overlaps
<1>3. ASSUME NEW c \in Handler, NEW x \in Account, NEW k \in Key, BeginUpload(c, x, k) PROVE Numbered'
  <2>1. Becomes(c, "put", x, {k}) /\ photo' = photo /\ call[c] = Idle /\ NoteAccount(c, x, FALSE)
    BY <1>3, UploadBecomes DEF BeginUpload
  <2>2. Dense(x) => InOrder(c, x)'
    BY <2>1, SameWhenUnwritten DEF Becomes, InOrder
  <2> QED BY <2>1, <2>2, SameWhenUnwritten, NumberedBegin DEF Becomes
<1>4. ASSUME NEW c \in Handler, NEW x \in Account, BeginReorder(c, x) PROVE Numbered'
  <2>1. Becomes(c, "renumber", x, {}) /\ photo' = photo /\ call[c] = Idle /\ NoteAccount(c, x, TRUE)
    BY <1>4, ReorderBecomes DEF BeginReorder
  <2>2. /\ call'[c].rank \in [RowsOf(x) -> Nat]
        /\ {call'[c].rank[p] : p \in RowsOf(x)} = Places(Cardinality(RowsOf(x)))
    <3>1. /\ call'[c].rank \in [RowsOf(x) -> 0 .. Cardinality(RowsOf(x)) - 1]
          /\ \A p, q \in RowsOf(x) : call'[c].rank[p] = call'[c].rank[q] => p = q
      BY <1>4, ReorderBecomes
    <3> QED BY <3>1, OrderIsDense
  <2>3. InOrder(c, x)'
    BY <2>1, <2>2, SameWhenUnwritten DEF Becomes, InOrder, SameRows, Places
  <2> QED BY <2>1, <2>3, SameWhenUnwritten, NumberedBegin DEF Becomes
<1>5. ASSUME NEW c \in Handler, NEW x \in Account, eraseAccount(c, x) PROVE Numbered'
  <2>1. call[c] = Idle /\ NoteAccount(c, x, FALSE)
    BY <1>5 DEF eraseAccount
  <2>2. \/ Ends(c)
        \/ \E ks : Becomes(c, "orphans", x, ks)
    BY <1>5, EraseBecomes
  <2>3. RowsOf(x)' = {}
    BY <1>5 DEF eraseAccount, RowsOf, Gone, Unused
  <2>4. ASSUME NEW y \in Account, y # x PROVE SameRows(y)
    <3>1. \A p \in Photo : p \in RowsOf(x) => photo[p].account = x /\ photo'[p].is = "gone"
      BY <1>5 DEF eraseAccount, RowsOf, Gone, Unused
    <3>2. \A p \in Photo : p \notin RowsOf(x) => photo'[p] = photo[p]
      BY <1>5 DEF eraseAccount
    <3> QED BY <2>4, <3>1, <3>2 DEF SameRows, RowsOf
  <2>5. InOrder(c, x)'
    BY <1>i, <2>2, <2>3, ErasedIsDense DEF Ends, Becomes, InOrder
  <2>6. /\ \A d \in Handler \ {c} : call'[d] = call[d]
        /\ call'[c].account = x \/ (call'[c].account = None /\ call'[c].pc = "idle")
    BY <1>i, <2>2 DEF Ends, Becomes
  <2> QED BY <2>1, <2>4, <2>5, <2>6, NumberedBegin
<1>6. ASSUME NEW c \in Handler, NEW p \in Photo, DeleteRow(c, p) PROVE Numbered'
  <2> DEFINE x == photo[p].account
  <2>1. /\ x \in Account /\ Becomes(c, "compact", x, {photo[p].key})
        /\ call[c] = Idle /\ NoteAccount(c, x, TRUE)
    BY <1>6, DeleteBecomes DEF DeleteRow
  <2>2. ASSUME NEW y \in Account, y # x PROVE SameRows(y)
    <3>1. photo[p].account # y /\ photo'[p].is = "gone"
      BY <1>6, <2>2 DEF DeleteRow, Typed, TypeOK, Gone, Unused
    <3>2. \A q \in Photo \ {p} : photo'[q] = photo[q]
      BY <1>6 DEF DeleteRow, Typed, TypeOK
    <3> QED BY <3>1, <3>2 DEF SameRows, RowsOf
  <2>3. PICK y \in Account : y = x
    BY <2>1
  <2>4. InOrder(c, y)'
    BY <2>1 DEF Becomes, InOrder
  <2> QED BY <2>1, <2>2, <2>3, <2>4, NumberedBegin DEF Becomes
<1>7. ASSUME NEW c \in Handler,
             PutObjects(c) \/ PutFails(c) \/ InsertFails(c) \/ DeleteObjects(c) \/ DeleteFails(c)
      PROVE  Numbered'
  <2>1. photo' = photo /\ mingled' = mingled /\ call[c].pc \notin {"compact", "renumber"}
    BY <1>7 DEF PutObjects, PutFails, InsertFails, DeleteObjects, DeleteFails, Overlaps
  <2>2. Ends(c) \/ \E pc \in {"check", "orphans"} : Goto(c, pc)
    BY <1>7, FinishEnds DEF PutObjects, PutFails, InsertFails, DeleteObjects, DeleteFails, FailUpload
  <2>3. \/ Ends(c)
        \/ \E pc \in {"check", "orphans"} : Becomes(c, pc, call[c].account, call[c].keys)
    BY <2>2, GotoBecomes DEF Pcs
  <2> QED BY <2>1, <2>3, NumberedQuietly
<1>8. ASSUME NEW c \in Handler, CheckInsert(c) PROVE Numbered'
  <2>1. photo' = photo /\ mingled' = mingled /\ call[c].pc = "check"
    BY <1>8 DEF CheckInsert
  <2>2. CASE Becomes(c, "orphans", call[c].account, call[c].keys)
    BY <2>1, <2>2, NumberedQuietly
  <2>3. CASE /\ Becomes(c, "insert", call[c].account, call[c].keys)
             /\ call'[c].pos = NextPosition(RowsOf(call[c].account))
    <3>1. ASSUME NEW x \in Account, x = call[c].account, InOrder(c, x) PROVE InOrder(c, x)'
      <4>1. Dense(x) /\ NextPosition(RowsOf(x)) = Cardinality(RowsOf(x))
        BY <2>1, <3>1, NextIsNumber DEF InOrder, Dense
      <4>2. call'[c].pos = Cardinality(RowsOf(x)) /\ call'[c].pc = "insert"
        BY <2>3, <3>1, <4>1 DEF Becomes
      <4> QED BY <2>1, <4>1, <4>2, SameWhenUnwritten DEF InOrder, SameRows
    <3> QED BY <2>1, <2>3, <3>1, SameWhenUnwritten, NumberedStep DEF Becomes
  <2> QED BY <1>8, <2>2, <2>3, CheckBecomes
<1>9. ASSUME NEW c \in Handler, InsertRow(c) PROVE Numbered'
  <2>1. Ends(c) /\ mingled' = mingled /\ call[c].pc = "insert"
    BY <1>9, FinishEnds DEF InsertRow, Overlaps
  <2>2. ASSUME NEW x \in Account, x = call[c].account, InOrder(c, x) PROVE InOrder(c, x)'
    BY <1>i, <1>9, <2>1, <2>2, InsertIsDense DEF InOrder, Ends
  <2>3. ASSUME NEW x \in Account, x # call[c].account PROVE SameRows(x)
    <3>1. PICK p \in Photo : /\ \A q \in Photo \ {p} : photo'[q] = photo[q]
                             /\ p \notin RowsOf(x) /\ RowsOf(x)' = RowsOf(x)
      BY <1>9, <2>3, InsertAdds
    <3>2. RowsOf(x) \in SUBSET Photo
      BY RowsFinite
    <3> QED BY <3>1, <3>2 DEF SameRows
  <2> QED BY <1>i, <2>1, <2>2, <2>3, NumberedStep DEF Ends
<1>10. ASSUME NEW c \in Handler, RankRows(c) PROVE Numbered'
  <2>1. /\ Becomes(c, "renumber", call[c].account, call[c].keys)
        /\ call'[c].rank = Rank(RowsOf(call[c].account)) /\ photo' = photo /\ mingled' = mingled
    BY <1>10, RankBecomes DEF RankRows, Overlaps
  <2>2. ASSUME NEW x \in Account, x = call[c].account PROVE InOrder(c, x)'
    <3>1. /\ call'[c].rank \in [RowsOf(x) -> Nat]
          /\ {call'[c].rank[p] : p \in RowsOf(x)} = Places(Cardinality(RowsOf(x)))
      BY <2>1, <2>2, RankIsDense
    <3> QED BY <2>1, <3>1, SameWhenUnwritten DEF Becomes, InOrder, SameRows, Places
  <2> QED BY <2>1, <2>2, SameWhenUnwritten, NumberedStep DEF Becomes
<1>11. ASSUME NEW c \in Handler, WritePositions(c) PROVE Numbered'
  <2>1. mingled' = mingled /\ call[c].pc = "renumber"
    BY <1>11 DEF WritePositions, Overlaps
  <2>2. /\ \A d \in Handler \ {c} : call'[d] = call[d]
        /\ call'[c].pc \notin {"insert", "compact", "renumber"}
        /\ \/ call'[c].account = call[c].account
           \/ call'[c].account = None /\ call'[c].pc = "idle"
    BY <1>i, <1>11, WriteBecomes DEF Ends, Becomes
  <2>3. ASSUME NEW x \in Account, x = call[c].account, InOrder(c, x) PROVE InOrder(c, x)'
    BY <1>11, <2>1, <2>2, <2>3, WriteIsDense DEF InOrder
  <2>4. ASSUME NEW x \in Account, x # call[c].account PROVE SameRows(x)
    <3>1. RowsOf(x)' = RowsOf(x)
      BY <1>11, WriteRefers
    <3>2. \A p \in RowsOf(x) : photo'[p].pos = photo[p].pos
      BY <1>11, <2>4 DEF WritePositions, RowsOf
    <3> QED BY <3>1, <3>2 DEF SameRows
  <2> QED BY <2>1, <2>2, <2>3, <2>4, NumberedStep
<1>12. ASSUME NEW c \in Handler, FindOrphans(c) PROVE Numbered'
  <2>1. photo' = photo /\ mingled' = mingled /\ call[c].pc = "orphans"
    BY <1>12 DEF FindOrphans, Overlaps
  <2> QED BY <1>12, <2>1, FindBecomes, NumberedQuietly
\* The account of a handler that dies is the next one's to put right.
<1>13. ASSUME NEW c \in Handler, Crash(c) PROVE Numbered'
  <2>1. Ends(c) /\ photo' = photo /\ mingled' = mingled \cup {call[c].account}
    BY <1>13, FinishEnds DEF Crash
  <2>2. ASSUME NEW x \in Account, x \notin mingled' PROVE NumberedAt(x)'
    <3>1. NumberedAt(x) /\ call[c].account # x /\ call'[c].account # x
      BY <1>i, <2>1, <2>2, IdleIs DEF Numbered, Ends
    <3> QED BY <2>1, <3>1, SameWhenUnwritten, NumberedElsewhere DEF Ends
  <2> QED BY <2>2 DEF Numbered
<1> QED BY <1>1, <1>2, <1>3, <1>4, <1>5, <1>6, <1>7, <1>8, <1>9, <1>10, <1>11, <1>12, <1>13 DEF Next

-----------------------------------------------------------------------------
(* The theorems                                                            *)

LEMMA InitHolds == Init => Attended /\ Whole /\ Counted /\ Numbered
<1> SUFFICES ASSUME Init PROVE Attended /\ Whole /\ Counted /\ Numbered
  OBVIOUS
<1>1. /\ \A x : RowsOf(x) = {} /\ \A k : RowsFor(k) = {}
      /\ \A c \in Handler : call[c] = Idle /\ call[c].keys = {} /\ call[c].pc = "idle"
                            /\ call[c].account = None
  BY IdleIs DEF Init, RowsOf, RowsFor, Unused
<1>2. Attended
  BY DEF Init, Attended, NothingKeptWithoutARow
<1>3. Whole
  BY <1>1 DEF Whole, HeldOnce, ObjectsFit
<1>4. Counted
  <2> SUFFICES ASSUME NEW x \in Account PROVE CountedAt(x)
    BY DEF Counted
  <2>1. RowsOf(x) = {} /\ Pending(x) = {}
    BY <1>1 DEF Pending
  <2>2. Cardinality({}) = 0
    BY FS_EmptySet
  <2>3. Cardinality(Handler) \in Nat /\ Cardinality(Handler) # 0 /\ MaxPhotos \in Nat
    BY PhotosAssumption, FS_EmptySet, FS_CardinalityType
  <2>4. 0 + 0 < MaxPhotos + Cardinality(Handler) /\ 0 <= MaxPhotos
    BY <2>3
  <2> QED BY <2>1, <2>2, <2>4 DEF CountedAt
<1>5. Numbered
  <2> SUFFICES ASSUME NEW x \in Account PROVE Dense(x) /\ At(x) = {}
    BY DEF Numbered, NumberedAt
  <2>1. Cardinality(RowsOf(x)) = 0 /\ Places(0) = {}
    BY <1>1, FS_EmptySet, PhotosAssumption DEF Places
  <2> QED BY <1>1, <2>1, IdleIs DEF Dense, At
<1> QED BY <1>2, <1>3, <1>4, <1>5

\* The variables stay in their types, and a handler past its first step has an
\* account, and keys where it may store or delete objects.
THEOREM PhotosTypeOK == Spec => []TypeOK
<1>1. Typed => TypeOK
  BY DEF Typed
<1> QED BY <1>1, TypedInit, TypedKept, PTL DEF Spec

\* Objects without a row are still some handler's to delete, unless a process
\* died or a store call failed (uploadPhoto's failure path, deletePhoto,
\* deleteOrphanedObjects).
THEOREM PhotosNothingKeptWithoutARow == Spec => []NothingKeptWithoutARow
<1>1. Attended => NothingKeptWithoutARow
  BY DEF Attended
<1> QED BY <1>1, InitHolds, TypedInit, TypedKept, AttendedKept, PTL DEF Spec

\* All objects of a row are in the store, for every content that no two
\* requests had to do with at once.
THEOREM PhotosRowsKeepTheirObjects == Spec => []RowsKeepTheirObjects
<1>1. Whole => RowsKeepTheirObjects
  BY DEF Whole, ObjectsFit, RowsKeepTheirObjects
<1> QED BY <1>1, InitHolds, TypedInit, TypedKept, WholeKept, PTL DEF Spec

\* The cap on an account's photos is passed only by inserts at the same instant
\* (insertPhoto's HAVING), by fewer than there are handlers; and positions are
\* 0 .. n - 1 whenever nobody is at work on an account, but for what two
\* writers at once or a crash left, until the next one alone renumbers.
THEOREM PhotosAlbumInOrder == Spec => []AlbumInOrder
<1>1. Typed /\ Counted => CapPassedOnlyTogether
  <2> SUFFICES ASSUME Typed, Counted, NEW x \in Account
               PROVE  /\ x \notin together => Cardinality(RowsOf(x)) <= MaxPhotos
                      /\ Cardinality(RowsOf(x)) < MaxPhotos + Cardinality(Handler)
    BY DEF CapPassedOnlyTogether
  <2>1. CountedAt(x)
    BY DEF Counted
  <2>2. /\ Cardinality(RowsOf(x)) \in Nat /\ Cardinality(Pending(x)) \in Nat
        /\ Cardinality(Handler) \in Nat /\ MaxPhotos \in Nat
    BY RowsFinite, PendingFinite, PhotosAssumption
  <2> QED BY <2>1, <2>2 DEF CountedAt
<1>2. Numbered => PositionsAreDense
  BY DEF Numbered, NumberedAt, PositionsAreDense, Dense, At, Places
<1>3. Typed /\ Counted /\ Numbered => AlbumInOrder
  BY <1>1, <1>2 DEF AlbumInOrder
<1> QED BY <1>3, InitHolds, TypedInit, TypedKept, CountedKept, NumberedKept, PTL DEF Spec
=============================================================================
