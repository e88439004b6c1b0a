---------------------------- MODULE ServiceProofs ----------------------------
(***************************************************************************)
(* Theorems about Service and its eleven parts, for any number of          *)
(* handlers, people, phones, keys and texts, and any limits: each part has *)
(* its invariant, in the order of Service; those of the three tools are in *)
(* ToolsProofs.  A behaviour of Service is one of one part, so the         *)
(* invariant of Service is that of each part while it is the one.          *)
(***************************************************************************)
EXTENDS ToolsProofs

-----------------------------------------------------------------------------
(* Consents.  The invariant adds to the types what the share lock of a     *)
(* tracked event holds: the row it has read is the mapping row, until it   *)
(* commits.                                                                *)

\* A request that has read the mapping row holds its share lock.
EventsHoldTheRow ==
  \A c \in Handler : call[c].pc = "event" => live /\ subject # None /\ call[c].row = subject

\* The consents of the days from t on, and the cap for every such window.
Window(t) == {i \in DOMAIN consent : consent[i].at \in t .. t + DAY - 1}

Capped == \A t \in Nat : Cardinality(Window(t)) <= CONSENT_CHURN_PER_DAY

Inv == TypeOK /\ MappingFollowsConsent /\ EventsHoldTheRow

-----------------------------------------------------------------------------
(* Calls *)

LEMMA CallTypes ==
  /\ \A r \in Calls : r.pc = "give" => r.version \in 1 .. MaxVersion /\ r.at \in 0 .. MaxTime
  /\ \A r \in Calls : r.pc = "event" => r.row \in SubjectRows
  /\ Idle \in Calls /\ Idle.pc = "idle"
BY DEF Calls, Idle

LEMMA InitInv == Init => Inv
<1> SUFFICES ASSUME Init PROVE Inv
  OBVIOUS
<1>1. TypeOK
  BY ConsentsAssumption, CallTypes DEF Init, TypeOK
<1>2. MappingFollowsConsent
  BY DEF Init, MappingFollowsConsent
<1>3. EventsHoldTheRow
  BY CallTypes DEF Init, EventsHoldTheRow
<1> QED BY <1>1, <1>2, <1>3 DEF Inv

\* A handler that becomes anything but an event's writer disturbs nobody.
LEMMA BecomeKeeps ==
  ASSUME TypeOK, EventsHoldTheRow, NEW c \in Handler, NEW r \in Calls, Become(c, r),
         r.pc = "give" => r.at <= now',
         r.pc = "event" => live' /\ subject' # None /\ r.row = subject',
         now' \in Nat, now <= now',
         \/ UNCHANGED <<live, subject>>
         \/ subject = None
         \/ MappingFree
  PROVE  /\ EventsHoldTheRow'
         /\ call' \in [Handler -> Calls]
         /\ \A d \in Handler : call'[d].pc = "give" => call'[d].at <= now'
<1>1. call' \in [Handler -> Calls] /\ call'[c] = r /\ \A d \in Handler \ {c} : call'[d] = call[d]
  BY DEF TypeOK, Become
<1>2. ASSUME NEW d \in Handler, call'[d].pc = "event"
      PROVE  live' /\ subject' # None /\ call'[d].row = subject'
  BY <1>1, <1>2 DEF EventsHoldTheRow, MappingFree, Shared
<1>3. ASSUME NEW d \in Handler, call'[d].pc = "give" PROVE call'[d].at <= now'
  <2>1. CASE d = c
    BY <1>1, <1>3, <2>1
  <2>2. CASE d # c
    <3>1. call[d].at \in 0 .. MaxTime /\ call[d].at <= now
      BY <1>1, <1>3, <2>2, CallTypes DEF TypeOK
    <3>2. now \in Nat /\ now' >= now
      BY DEF TypeOK
    <3> QED BY <1>1, <2>2, <3>1, <3>2
  <2> QED BY <2>1, <2>2
<1> QED BY <1>1, <1>2, <1>3 DEF EventsHoldTheRow

-----------------------------------------------------------------------------
(* The actions that write the mapping row *)

\* A consent appended names the wording the mapping row moves to.
LEMMA AppendedIsLast ==
  ASSUME NEW Row, NEW s \in Seq(Row), NEW e \in Row
  PROVE  /\ Append(s, e) \in Seq(Row) /\ Last(Append(s, e)) = e
         /\ DOMAIN Append(s, e) = DOMAIN s \cup {Len(s) + 1}
         /\ \A i \in DOMAIN s : Append(s, e)[i] = s[i] /\ i # Len(s) + 1
         /\ Append(s, e)[Len(s) + 1] = e
BY DEF Last

\* enrolSubject leaves a row of the wording, and its pseudonym drawn.
LEMMA EnrolledTypes ==
  ASSUME TypeOK, NEW v \in 1 .. MaxVersion, NEW e \in Enrolled(v)
  PROVE  e \in SubjectRows /\ e # None /\ e.version = v
BY ConsentsAssumption DEF TypeOK, Enrolled, SubjectRows

LEMMA RecordConsentKeeps ==
  ASSUME Inv, NEW c \in Handler, RecordConsent(c)
  PROVE  Inv'
<1> DEFINE v == call[c].version
           t == call[c].at
           row == [version |-> v, at |-> t, withdrawn |-> FALSE]
<1>t. TypeOK /\ MappingFollowsConsent /\ EventsHoldTheRow
  BY DEF Inv
<1>1. /\ v \in 1 .. MaxVersion /\ t \in 0 .. MaxTime /\ t <= now
      /\ live /\ now \in Nat /\ UNCHANGED <<now, current, live>> /\ Become(c, Idle)
  BY <1>t, CallTypes DEF RecordConsent, TypeOK
<1>2. row \in ConsentRows
  BY <1>1 DEF ConsentRows
<1> HIDE DEF v, t, row
<1>3. CASE UNCHANGED <<consent, subject, spent, events>>
  <2>1. /\ EventsHoldTheRow' /\ call' \in [Handler -> Calls]
        /\ \A d \in Handler : call'[d].pc = "give" => call'[d].at <= now'
    BY <1>t, <1>1, <1>3, CallTypes, BecomeKeeps
  <2>2. TypeOK'
    BY <1>t, <1>1, <1>3, <2>1 DEF TypeOK
  <2>3. MappingFollowsConsent'
    BY <1>t, <1>1, <1>3 DEF MappingFollowsConsent
  <2> QED BY <2>1, <2>2, <2>3 DEF Inv
<1>4. CASE /\ subject = None \/ MappingFree
           /\ consent' = Append(consent, row)
           /\ subject' \in Enrolled(v)
           /\ spent' = spent \cup {subject'.id}
           /\ \/ Len(events) < MaxEvents /\ events' = Append(events, subject')
              \/ UNCHANGED events
  <2>1. /\ EventsHoldTheRow' /\ call' \in [Handler -> Calls]
        /\ \A d \in Handler : call'[d].pc = "give" => call'[d].at <= now'
    BY <1>t, <1>1, <1>4, CallTypes, BecomeKeeps
  <2>2. subject' \in SubjectRows /\ subject' # None /\ subject'.version = v
    BY <1>t, <1>1, <1>4, EnrolledTypes
  <2>3. /\ consent' \in Seq(ConsentRows) /\ Last(consent') = row
        /\ DOMAIN consent' = DOMAIN consent \cup {Len(consent) + 1}
        /\ \A i \in DOMAIN consent : consent'[i] = consent[i] /\ i # Len(consent) + 1
        /\ consent'[Len(consent) + 1] = row
    BY <1>t, <1>2, <1>4, AppendedIsLast DEF TypeOK
  <2>4. events' \in Seq(SubjectRows)
    BY <1>t, <1>4, <2>2, AppendedIsLast DEF TypeOK
  <2>5. \A i \in DOMAIN consent' : consent'[i].at <= now'
    BY <1>t, <1>1, <2>3 DEF TypeOK, row
  <2>6. spent' \subseteq Pseudonym /\ subject'.id \in spent'
    BY <1>t, <1>4, <2>2 DEF TypeOK, SubjectRows
  <2>7. TypeOK'
    BY <1>t, <1>1, <2>1, <2>2, <2>3, <2>4, <2>5, <2>6 DEF TypeOK
  <2>8. MappingFollowsConsent'
    BY <1>1, <2>2, <2>3 DEF MappingFollowsConsent, row
  <2> QED BY <2>1, <2>7, <2>8 DEF Inv
<1> QED BY <1>1, <1>3, <1>4 DEF RecordConsent, v, t, row

LEMMA WithdrawKeeps ==
  ASSUME Inv, Withdraw
  PROVE  Inv'
<1>t. /\ TypeOK /\ MappingFollowsConsent /\ EventsHoldTheRow
      /\ MappingFree /\ subject' = None /\ consent' = Withdrawn
      /\ UNCHANGED <<now, current, live, spent, events, call>>
  BY DEF Inv, Withdraw
<1>1. /\ consent' \in Seq(ConsentRows) /\ DOMAIN consent' = DOMAIN consent
      /\ \A i \in DOMAIN consent : consent'[i].at = consent[i].at /\ consent'[i].withdrawn
  <2>1. /\ DOMAIN consent' = DOMAIN consent
        /\ \A i \in DOMAIN consent : consent'[i] = [consent[i] EXCEPT !.withdrawn = TRUE]
    BY <1>t DEF Withdrawn
  <2>2. \A i \in DOMAIN consent : consent[i] \in ConsentRows
    BY <1>t DEF TypeOK
  <2>3. \A i \in DOMAIN consent :
           consent'[i] \in ConsentRows /\ consent'[i].at = consent[i].at /\ consent'[i].withdrawn
    BY <2>1, <2>2 DEF ConsentRows
  <2>4. /\ Len(consent) \in Nat /\ DOMAIN consent = 1 .. Len(consent)
        /\ consent' = [i \in 1 .. Len(consent) |-> consent'[i]]
    BY <1>t, <2>1 DEF TypeOK, Withdrawn
  <2>5. consent' \in Seq(ConsentRows)
    <3>1. \A i \in 1 .. Len(consent) : consent'[i] \in ConsentRows
      BY <2>3, <2>4
    <3> QED BY <2>4, <3>1
  <2> QED BY <2>1, <2>3, <2>5
<1>2. TypeOK'
  BY <1>t, <1>1 DEF TypeOK
<1>3. MappingFollowsConsent'
  BY <1>t, <1>1 DEF MappingFollowsConsent
<1>4. EventsHoldTheRow'
  BY <1>t DEF EventsHoldTheRow, MappingFree, Shared
<1> QED BY <1>2, <1>3, <1>4 DEF Inv

LEMMA EraseKeeps ==
  ASSUME Inv, Erase
  PROVE  Inv'
<1>t. /\ TypeOK /\ MappingFollowsConsent /\ EventsHoldTheRow
      /\ MappingFree /\ ~live' /\ live' = FALSE /\ subject' = None
      /\ UNCHANGED <<now, current, consent, spent, events, call>>
  BY DEF Inv, Erase
<1>1. TypeOK'
  BY <1>t DEF TypeOK
<1>2. MappingFollowsConsent'
  BY <1>t DEF MappingFollowsConsent
<1>3. EventsHoldTheRow'
  BY <1>t DEF EventsHoldTheRow, MappingFree, Shared
<1> QED BY <1>1, <1>2, <1>3 DEF Inv

-----------------------------------------------------------------------------
(* The other actions *)

LEMMA HandlersKeep ==
  ASSUME Inv, NEW c \in Handler,
         BeginConsent(c) \/ NoAccount(c) \/ BeginEvent(c) \/ WriteEvent(c)
  PROVE  Inv'
<1>t. TypeOK /\ MappingFollowsConsent /\ EventsHoldTheRow
      /\ now \in Nat /\ now \in 0 .. MaxTime /\ current \in 1 .. MaxVersion
  BY DEF Inv, TypeOK
<1> DEFINE Kept == UNCHANGED <<now, current, live, consent, subject, spent>>
<1>1. ASSUME NEW r \in Calls, Become(c, r), Kept, r.pc = "give" => r.at <= now,
             r.pc = "event" => live /\ subject # None /\ r.row = subject,
             events' \in Seq(SubjectRows)
      PROVE  Inv'
  <2>1. /\ EventsHoldTheRow' /\ call' \in [Handler -> Calls]
        /\ \A d \in Handler : call'[d].pc = "give" => call'[d].at <= now'
    BY <1>t, <1>1, BecomeKeeps
  <2>2. TypeOK'
    BY <1>t, <1>1, <2>1 DEF TypeOK
  <2>3. MappingFollowsConsent'
    BY <1>t, <1>1 DEF MappingFollowsConsent
  <2> QED BY <2>1, <2>2, <2>3 DEF Inv
<1>2. CASE BeginConsent(c)
  <2> DEFINE r == [pc |-> "give", version |-> current, at |-> now]
  <2>1. r \in Calls /\ r.pc = "give" /\ r.at = now
    BY <1>t DEF Calls
  <2>2. Become(c, r) /\ Kept /\ events' \in Seq(SubjectRows)
    BY <1>t, <1>2 DEF BeginConsent, TypeOK
  <2> QED BY <1>1, <1>t, <2>1, <2>2
<1>3. CASE NoAccount(c)
  <2>1. Become(c, Idle) /\ Kept /\ events' \in Seq(SubjectRows)
    BY <1>t, <1>3 DEF NoAccount, TypeOK
  <2> QED BY <1>1, <2>1, CallTypes
<1>4. CASE BeginEvent(c)
  <2> DEFINE r == [pc |-> "event", row |-> subject]
  <2>1. subject \in SubjectRows /\ live /\ subject # None
    BY <1>t, <1>4 DEF BeginEvent, TypeOK
  <2>2. r \in Calls /\ r.pc = "event" /\ r.row = subject
    BY <2>1 DEF Calls
  <2>3. Become(c, r) /\ Kept /\ events' \in Seq(SubjectRows)
    BY <1>t, <1>4 DEF BeginEvent, TypeOK
  <2> QED BY <1>1, <2>1, <2>2, <2>3
<1>5. CASE WriteEvent(c)
  <2>1. call[c].row \in SubjectRows
    BY <1>t, <1>5, CallTypes DEF WriteEvent, TypeOK
  <2>2. Become(c, Idle) /\ Kept
    BY <1>t, <1>5 DEF WriteEvent
  <2>3. events' \in Seq(SubjectRows)
    BY <1>t, <1>5, <2>1, AppendedIsLast, SMTT(30) DEF WriteEvent, TypeOK
  <2> QED BY <1>1, <2>2, <2>3, CallTypes
<1> QED BY <1>2, <1>3, <1>4, <1>5

LEMMA ClockKeeps ==
  ASSUME Inv, NewWording \/ Tick
  PROVE  Inv'
<1>t. /\ TypeOK /\ MappingFollowsConsent /\ EventsHoldTheRow
      /\ UNCHANGED <<live, consent, subject, spent, events, call>>
  BY DEF Inv, NewWording, Tick
<1>1. /\ now \in 0 .. MaxTime /\ now' \in 0 .. MaxTime /\ now <= now'
      /\ current' \in 1 .. MaxVersion
  BY <1>t, ConsentsAssumption DEF TypeOK, NewWording, Tick
<1>2. \A i \in DOMAIN consent : consent[i].at <= now'
  <2> TAKE i \in DOMAIN consent
  <2>1. consent[i] \in ConsentRows /\ consent[i].at <= now
    BY <1>t DEF TypeOK
  <2>2. consent[i].at \in 0 .. MaxTime
    BY <2>1 DEF ConsentRows
  <2> QED BY <1>1, <2>1, <2>2
<1>3. \A c \in Handler : call[c].pc = "give" => call[c].at <= now'
  <2> SUFFICES ASSUME NEW c \in Handler, call[c].pc = "give" PROVE call[c].at <= now'
    OBVIOUS
  <2>1. call[c].at \in 0 .. MaxTime /\ call[c].at <= now
    BY <1>t, CallTypes DEF TypeOK
  <2> QED BY <1>1, <2>1
<1>4. TypeOK'
  BY <1>t, <1>1, <1>2, <1>3 DEF TypeOK
<1>5. MappingFollowsConsent' /\ EventsHoldTheRow'
  BY <1>t DEF MappingFollowsConsent, EventsHoldTheRow
<1> QED BY <1>4, <1>5 DEF Inv

LEMMA NextKeeps == Inv /\ [Next]_vars => Inv'
<1> SUFFICES ASSUME Inv, [Next]_vars PROVE Inv'
  OBVIOUS
<1>1. ASSUME NEW c \in Handler, RecordConsent(c) PROVE Inv'
  BY <1>1, RecordConsentKeeps
<1>2. ASSUME NEW c \in Handler, BeginConsent(c) \/ NoAccount(c) \/ BeginEvent(c) \/ WriteEvent(c)
      PROVE  Inv'
  BY <1>2, HandlersKeep
<1>3. CASE Withdraw
  BY <1>3, WithdrawKeeps
<1>4. CASE Erase
  BY <1>4, EraseKeeps
<1>5. CASE NewWording \/ Tick
  BY <1>5, ClockKeeps
<1>6. CASE UNCHANGED vars
  BY <1>6 DEF vars, Inv, TypeOK, MappingFollowsConsent, EventsHoldTheRow
<1> QED BY <1>1, <1>2, <1>3, <1>4, <1>5, <1>6 DEF Next

-----------------------------------------------------------------------------
(* Theorems *)

\* The rows, the pseudonyms and the requests keep their types.
THEOREM ConsentsTypeOK == Spec => []TypeOK
<1>1. Spec => []Inv
  BY InitInv, NextKeeps, PTL DEF Spec
<1>2. Inv => TypeOK
  BY DEF Inv
<1> QED BY <1>1, <1>2, PTL

\* The research mapping exists exactly while a consent does, under the wording
\* accepted last, however giving, withdrawing and erasing interleave.
THEOREM ConsentsMappingFollowsConsent == Spec => []MappingFollowsConsent
<1>1. Spec => []Inv
  BY InitInv, NextKeeps, PTL DEF Spec
<1>2. Inv => MappingFollowsConsent
  BY DEF Inv
<1> QED BY <1>1, <1>2, PTL

\* An event is only ever written while the consent stands, under the pseudonym
\* and the wording in force at its commit: the share lock holds them.
THEOREM ConsentsNoEventAfterConsent == Spec => NoEventAfterConsent
<1>1. Spec => []Inv
  BY InitInv, NextKeeps, PTL DEF Spec
<1>2. ASSUME Inv, Inv', [Next]_vars
      PROVE  [events' # events => Last(events') = subject' /\ live]_vars
  <2> SUFFICES ASSUME Next, events' # events PROVE Last(events') = subject' /\ live
    BY <1>2
  <2>1. PICK c \in Handler : RecordConsent(c) \/ WriteEvent(c)
    BY DEF Next, BeginConsent, NoAccount, BeginEvent, Withdraw, Erase, NewWording, Tick
  <2>2. CASE RecordConsent(c)
    <3>1. events' = Append(events, subject') /\ live /\ subject' \in Enrolled(call[c].version)
      BY <2>2 DEF RecordConsent
    <3>2. subject' \in SubjectRows
      <4>1. call[c].version \in 1 .. MaxVersion
        BY <1>2, <2>2, CallTypes DEF RecordConsent, Inv, TypeOK
      <4> QED BY <1>2, <3>1, <4>1, EnrolledTypes DEF Inv
    <3> QED BY <1>2, <3>1, <3>2, AppendedIsLast DEF Inv, TypeOK
  <2>3. CASE WriteEvent(c)
    <3>1. events' = Append(events, subject) /\ live /\ subject' = subject /\ subject \in SubjectRows
      BY <1>2, <2>3 DEF WriteEvent, Inv, EventsHoldTheRow, TypeOK
    <3> QED BY <1>2, <3>1, AppendedIsLast DEF Inv, TypeOK
  <2> QED BY <2>1, <2>2, <2>3
<1> QED BY <1>1, <1>2, PTL DEF Spec, NoEventAfterConsent

-----------------------------------------------------------------------------
(* The cap                                                                 *)

LEMMA WindowsAreFinite ==
  ASSUME TypeOK, NEW t
  PROVE  IsFiniteSet(Window(t)) /\ IsFiniteSet(Recent(t))
<1>1. IsFiniteSet(1 .. Len(consent)) /\ DOMAIN consent = 1 .. Len(consent)
  BY FS_Interval DEF TypeOK
<1> QED BY <1>1, FS_Subset DEF Window, Recent

\* Of two rows of one window the older is recent for the newer, and the newest
\* was counted with it: a window the new row falls into held fewer than the cap.
LEMMA RecordKeepsTheCap ==
  ASSUME Inv, Capped, NEW c \in Handler, RecordConsent(c)
  PROVE  Capped'
<1> SUFFICES ASSUME NEW u \in Nat PROVE Cardinality(Window(u)') <= CONSENT_CHURN_PER_DAY
  BY DEF Capped
<1>t. TypeOK /\ Cardinality(Window(u)) <= CONSENT_CHURN_PER_DAY
  BY DEF Inv, Capped
<1>1. CASE UNCHANGED consent
  BY <1>t, <1>1 DEF Window
<1>2. CASE consent' # consent
  <2> DEFINE at == call[c].at
             row == [version |-> call[c].version, at |-> at, withdrawn |-> FALSE]
             n == Len(consent) + 1
  <2>1. at \in Nat /\ row \in ConsentRows
    BY <1>t, ConsentsAssumption, CallTypes DEF RecordConsent, TypeOK, ConsentRows
  <2>2. consent' = Append(consent, row) /\ ~(Cardinality(Recent(at)) >= CONSENT_CHURN_PER_DAY)
    BY <1>2 DEF RecordConsent
  <2>3. /\ DOMAIN consent' = DOMAIN consent \cup {n} /\ consent'[n].at = at
        /\ \A i \in DOMAIN consent : consent'[i] = consent[i]
    BY <1>t, <2>1, <2>2, AppendedIsLast DEF TypeOK
  <2> HIDE DEF at, row, n
  <2>4. CASE at \in u .. u + DAY - 1
    <3>1. \A i \in Window(u) : i \in DOMAIN consent /\ consent[i].at \in u .. u + DAY - 1
      BY DEF Window
    <3>2. Window(u) \subseteq Recent(at)
      BY <2>1, <2>4, <3>1, ConsentsAssumption DEF Recent
    <3>3. Cardinality(Window(u)) <= Cardinality(Recent(at))
      BY <1>t, <3>2, WindowsAreFinite, FS_Subset
    <3>4. Cardinality(Window(u)) \in Nat /\ Cardinality(Recent(at)) \in Nat
      BY <1>t, WindowsAreFinite, FS_CardinalityType
    <3>5. Window(u)' \subseteq Window(u) \cup {n}
      BY <2>3 DEF Window
    <3>6. /\ IsFiniteSet(Window(u) \cup {n})
          /\ Cardinality(Window(u) \cup {n}) <= Cardinality(Window(u)) + 1
      <4>1. IsFiniteSet(Window(u))
        BY <1>t, WindowsAreFinite
      <4>2. Cardinality(Window(u) \cup {n}) =
              IF n \in Window(u) THEN Cardinality(Window(u)) ELSE Cardinality(Window(u)) + 1
        BY <4>1, FS_AddElement
      <4>3. IsFiniteSet(Window(u) \cup {n})
        BY <4>1, FS_AddElement, Zenon
      <4> HIDE DEF Window
      <4>4. Cardinality(Window(u) \cup {n}) <= Cardinality(Window(u)) + 1
        BY <3>4, <4>2
      <4> QED BY <4>3, <4>4
    <3>7. Cardinality(Window(u)') <= Cardinality(Window(u) \cup {n})
      BY <3>5, <3>6, FS_Subset
    <3>8. Cardinality(Window(u)') \in Nat /\ Cardinality(Window(u) \cup {n}) \in Nat
      BY <3>5, <3>6, FS_Subset, FS_CardinalityType
    <3> QED BY <2>2, <3>3, <3>4, <3>6, <3>7, <3>8, ConsentsAssumption
  <2>5. CASE at \notin u .. u + DAY - 1
    <3>1. Window(u)' = Window(u)
      BY <2>3, <2>5 DEF Window
    <3> QED BY <1>t, <3>1
  <2> QED BY <2>4, <2>5
<1> QED BY <1>1, <1>2

LEMMA NextKeepsTheCap == Inv /\ Capped /\ [Next]_vars => Capped'
<1> SUFFICES ASSUME Inv, Capped, [Next]_vars PROVE Capped'
  OBVIOUS
<1>1. ASSUME NEW c \in Handler, RecordConsent(c) PROVE Capped'
  BY <1>1, RecordKeepsTheCap
<1>2. CASE Withdraw
  <2>1. /\ DOMAIN consent' = DOMAIN consent
        /\ \A i \in DOMAIN consent : consent'[i] = [consent[i] EXCEPT !.withdrawn = TRUE]
    BY <1>2 DEF Withdraw, Withdrawn
  <2>2. \A i \in DOMAIN consent : consent[i] \in ConsentRows
    BY DEF Inv, TypeOK
  <2>3. \A i \in DOMAIN consent : consent'[i].at = consent[i].at
    BY <2>1, <2>2 DEF ConsentRows
  <2>4. \A t \in Nat : Window(t)' = Window(t)
    BY <2>1, <2>3 DEF Window
  <2> QED BY <2>4 DEF Capped
<1>3. CASE UNCHANGED consent
  <2>1. \A t \in Nat : Window(t)' = Window(t)
    BY <1>3 DEF Window
  <2> QED BY <2>1 DEF Capped
<1> QED BY <1>1, <1>2, <1>3 DEF Next, vars, BeginConsent, NoAccount, BeginEvent, WriteEvent,
                              Erase, NewWording, Tick

LEMMA NothingConsented == Init => Capped
<1> SUFFICES ASSUME Init, NEW t \in Nat PROVE Cardinality(Window(t)) <= CONSENT_CHURN_PER_DAY
  BY DEF Capped
<1>1. Window(t) = {}
  BY DEF Init, Window
<1> QED BY <1>1, FS_EmptySet, ConsentsAssumption

LEMMA CappedSays == Inv /\ Capped => ChurnIsCapped
<1> SUFFICES ASSUME Inv, Capped, NEW t \in 0 .. now
             PROVE  Cardinality(Window(t)) <= CONSENT_CHURN_PER_DAY
  BY DEF ChurnIsCapped, Window
<1> QED BY DEF Capped, Inv, TypeOK

\* No day holds more consents than the cap, though the clock of each was read
\* before its transaction waited for the lock: rows given later count, too.
THEOREM ConsentsChurnIsCapped == Spec => []ChurnIsCapped
<1>1. Spec => [](Inv /\ Capped)
  BY InitInv, NothingConsented, NextKeeps, NextKeepsTheCap, PTL DEF Spec
<1> QED BY <1>1, CappedSays, PTL

-----------------------------------------------------------------------------
(* Onboarding: what a status read has found is still so when it decides    *)

Statuses ==
  {O!Idle} \cup [pc : {"lost"}]
    \cup [pc : {"status"}, state : {"registered", "active"}, found : SUBSET (O!Declarations \cup O!Consents),
          left : SUBSET {"preferences", "pond", "consents"}]
    \cup [pc : {"answered"}, state : {"registered", "active"}, complete : BOOLEAN]

Agreed == {k \in O!Consents : \E row \in v3 : row.kind = k}

\* What is declared is taken back by an erasure only, and nobody's agreement ever; who
\* lost an activation met an account that is no longer registered.
StatusKnown(r) ==
  /\ r.pc = "status" => /\ O!Live => r.found \cap O!Declarations \subseteq v2
                        /\ r.found \cap O!Consents \subseteq Agreed
  /\ r.pc = "lost" => v1 # "registered"
  /\ r.pc = "answered" /\ r.complete /\ r.state = "registered" => ~O!Live

OnboardingInv ==
  /\ v1 \in {"registered", "active", "deleted"} /\ v2 \subseteq O!Declarations
  /\ v5 \in [Handler -> Statuses]
  /\ \A c \in Handler : StatusKnown(v5[c])
  /\ O!ActiveOnlyOnboarded

LEMMA StatusShapes ==
  /\ O!Idle \in Statuses /\ O!Idle.pc = "idle"
  /\ \A r \in Statuses :
       /\ r.pc = "status" => /\ r.state \in {"registered", "active"} /\ r.left \subseteq {"preferences", "pond", "consents"}
                             /\ r.found \subseteq O!Declarations \cup O!Consents
       /\ r.pc = "answered" => r.state \in {"registered", "active"} /\ r.complete \in BOOLEAN
BY DEF Statuses, O!Idle

LEMMA OnboardingInit == O!Init => OnboardingInv
<1> SUFFICES ASSUME O!Init PROVE OnboardingInv
  OBVIOUS
<1>1. v1 = "registered" /\ v2 = {} /\ v5 = [c \in Handler |-> O!Idle]
  BY DEF O!Init
<1> QED BY <1>1, StatusShapes DEF OnboardingInv, StatusKnown, O!ActiveOnlyOnboarded

\* A handler becomes what is known to be so, and nothing else moves.
LEMMA StatusBecomes ==
  ASSUME OnboardingInv, NEW c \in Handler, NEW r \in Statuses, StatusKnown(r), O!Become(c, r),
         UNCHANGED <<v1, v2, v3, v4>>
  PROVE  OnboardingInv'
<1>1. v5' = [v5 EXCEPT ![c] = r]
  BY DEF O!Become
<1>2. v5' \in [Handler -> Statuses] /\ \A d \in Handler : v5'[d] = r \/ v5'[d] = v5[d]
  BY <1>1 DEF OnboardingInv
<1>3. \A d \in Handler : StatusKnown(v5'[d])
  BY <1>2 DEF OnboardingInv
<1>4. \A d \in Handler : StatusKnown(v5[d])'
  BY <1>3 DEF StatusKnown, Agreed, O!Live
<1> QED BY <1>2, <1>4 DEF OnboardingInv, O!ActiveOnlyOnboarded

LEMMA StatusKeeps ==
  ASSUME OnboardingInv, NEW c \in Handler,
         O!BeginStatus(c) \/ O!ReadPart(c) \/ O!FinishStatus(c) \/ O!ReadStored(c) \/ O!Answered(c)
  PROVE  OnboardingInv'
<1>t. v5[c] \in Statuses /\ StatusKnown(v5[c]) /\ v2 \subseteq O!Declarations
  BY DEF OnboardingInv
<1>1. CASE O!BeginStatus(c)
  <2> DEFINE r == [pc |-> "status", state |-> v1, found |-> v2 \cap {"gender"},
                   left |-> {"preferences", "pond", "consents"}]
  <2>1. O!Become(c, r) /\ UNCHANGED <<v1, v2, v3, v4>> /\ O!Live
    BY <1>1 DEF O!BeginStatus
  <2>2. r \in Statuses
    BY <1>t, <2>1 DEF Statuses, OnboardingInv, O!Live
  <2>3. StatusKnown(r)
    BY <1>t DEF StatusKnown, O!Declarations, O!Consents
  <2> HIDE DEF r
  <2> QED BY <2>1, <2>2, <2>3, StatusBecomes
<1>2. CASE O!ReadPart(c)
  <2>1. PICK q \in v5[c].left :
          O!Become(c, [v5[c] EXCEPT !.left = @ \ {q},
                       !.found = @ \cup IF q = "consents" THEN O!accepted ELSE v2 \cap {q}])
    BY <1>2 DEF O!ReadPart
  <2> DEFINE more == IF q = "consents" THEN O!accepted ELSE v2 \cap {q}
             r == [v5[c] EXCEPT !.left = @ \ {q}, !.found = @ \cup more]
  <2>2. v5[c].pc = "status" /\ UNCHANGED <<v1, v2, v3, v4>> /\ O!Become(c, r)
    BY <1>2, <2>1 DEF O!ReadPart
  <2>3. /\ more \subseteq O!Declarations \cup O!Consents
        /\ more \cap O!Declarations \subseteq v2 /\ more \cap O!Consents \subseteq Agreed
    BY <1>t DEF O!accepted, O!Consents, O!Declarations, Agreed
  <2> HIDE DEF more
  <2> DEFINE Reading == [pc : {"status"}, state : {"registered", "active"},
                         found : SUBSET (O!Declarations \cup O!Consents),
                         left : SUBSET {"preferences", "pond", "consents"}]
  <2>a. v5[c] \in Reading
    BY <1>t, <2>2 DEF Statuses, O!Idle
  <2>b. r \in Reading /\ r.pc = "status" /\ r.found = v5[c].found \cup more
    BY <2>a, <2>3
  <2>4. r \in Statuses /\ r.pc = "status" /\ r.found = v5[c].found \cup more
    BY <2>b DEF Statuses
  <2> HIDE DEF r
  <2>5. StatusKnown(r)
    BY <1>t, <2>2, <2>3, <2>4 DEF StatusKnown
  <2> QED BY <2>2, <2>4, <2>5, StatusBecomes
<1>3. CASE O!FinishStatus(c)
  <2> DEFINE complete == O!missingSteps(v5[c].found) = {}
             tries == complete /\ v5[c].state = "registered"
  <2>1. v5[c].pc = "status" /\ UNCHANGED <<v2, v3, v4>>
    BY <1>3 DEF O!FinishStatus
  <2>2. v5[c].state \in {"registered", "active"} /\ complete \in BOOLEAN
    BY <1>t, <2>1, StatusShapes
  <2>3. CASE tries /\ O!Activates
    <3> DEFINE r == [pc |-> "answered", state |-> "active", complete |-> TRUE]
    <3>1. v1 = "registered" /\ v1' = "active" /\ v5' = [v5 EXCEPT ![c] = r]
      BY <1>3, <2>3 DEF O!FinishStatus, O!Activates, O!Become
    <3>2. v2 = O!Declarations /\ \A k \in O!Consents : \E row \in v3 : row.kind = k
      BY <1>t, <2>1, <2>3, <3>1 DEF StatusKnown, O!missingSteps, O!Live, Agreed
    <3>3. r \in Statuses /\ r.pc = "answered" /\ r.state = "active"
      BY DEF Statuses
    <3> HIDE DEF r
    <3>4. v5' \in [Handler -> Statuses] /\ \A d \in Handler : v5'[d] = r \/ v5'[d] = v5[d]
      BY <3>1, <3>3 DEF OnboardingInv
    <3>5. \A d \in Handler : StatusKnown(v5[d])'
      BY <2>1, <3>1, <3>3, <3>4 DEF OnboardingInv, StatusKnown, Agreed, O!Live
    <3>6. O!ActiveOnlyOnboarded'
      BY <2>1, <3>1, <3>2 DEF O!ActiveOnlyOnboarded
    <3> QED BY <2>1, <3>1, <3>4, <3>5, <3>6 DEF OnboardingInv
  <2>4. CASE ~(tries /\ O!Activates)
    <3> DEFINE r == IF tries THEN [pc |-> "lost"]
                    ELSE [pc |-> "answered", state |-> v5[c].state, complete |-> complete]
    <3>1. O!Become(c, r) /\ UNCHANGED v1
      BY <1>3, <2>4 DEF O!FinishStatus
    <3>2. r \in Statuses
      BY <2>2 DEF Statuses
    <3>3. StatusKnown(r)
      BY <2>4 DEF StatusKnown, O!Activates
    <3> HIDE DEF r
    <3> QED BY <2>1, <3>1, <3>2, <3>3, StatusBecomes
  <2> QED BY <2>3, <2>4
<1>4. CASE O!ReadStored(c)
  <2> DEFINE r == [pc |-> "answered", state |-> O!Stored, complete |-> TRUE]
  <2>1. v5[c].pc = "lost" /\ O!Become(c, r) /\ UNCHANGED <<v1, v2, v3, v4>>
    BY <1>4 DEF O!ReadStored
  <2>2. r \in Statuses
    BY DEF Statuses, O!Stored, O!Live, OnboardingInv
  <2>3. StatusKnown(r)
    BY <1>t, <2>1 DEF StatusKnown, O!Stored
  <2> HIDE DEF r
  <2> QED BY <2>1, <2>2, <2>3, StatusBecomes
<1>5. CASE O!Answered(c)
  <2>1. O!Become(c, O!Idle) /\ UNCHANGED <<v1, v2, v3, v4>>
    BY <1>5 DEF O!Answered
  <2> QED BY <2>1, StatusShapes, StatusBecomes DEF StatusKnown
<1> QED BY <1>1, <1>2, <1>3, <1>4, <1>5

LEMMA OnboardingKeeps == OnboardingInv /\ O!Next => OnboardingInv'
<1> SUFFICES ASSUME OnboardingInv, O!Next PROVE OnboardingInv'
  OBVIOUS
<1>1. ASSUME NEW step \in O!Declarations, O!Declare(step) PROVE OnboardingInv'
  BY <1>1 DEF O!Declare, O!Live, OnboardingInv, StatusKnown, Agreed, O!ActiveOnlyOnboarded
<1>2. ASSUME NEW k \in O!Consents, O!GiveConsent(k) PROVE OnboardingInv'
  BY <1>2 DEF O!GiveConsent, O!Live, OnboardingInv, StatusKnown, Agreed, O!ActiveOnlyOnboarded
<1>3. ASSUME NEW k \in O!Consents, O!NewWording(k) PROVE OnboardingInv'
  <2>1. UNCHANGED <<v1, v2, v3>> /\ v5' = [c \in Handler |-> O!Idle]
    BY <1>3 DEF O!NewWording
  <2> QED BY <2>1, StatusShapes DEF OnboardingInv, StatusKnown, O!ActiveOnlyOnboarded
<1>4. CASE O!Erase
  <2>1. v1' = "deleted" /\ v2' = {} /\ UNCHANGED <<v3, v5>>
    BY <1>4 DEF O!Erase
  <2>2. \A c \in Handler : StatusKnown(v5[c])'
    BY <2>1 DEF OnboardingInv, StatusKnown, Agreed, O!Live
  <2> QED BY <2>1, <2>2 DEF OnboardingInv, O!ActiveOnlyOnboarded
<1> QED BY <1>1, <1>2, <1>3, <1>4, StatusKeeps DEF O!Next

LEMMA OnboardingSays == OnboardingInv => O!ActiveOnlyOnboarded /\ O!CompleteIsActive
BY DEF OnboardingInv, StatusKnown, O!CompleteIsActive

LEMMA OnboardingTypesInit == O!Init => O!TypeOK
BY ConsentsAssumption, StatusShapes DEF O!Init, O!TypeOK

LEMMA OnboardingTypesKeep ==
  ASSUME OnboardingInv, O!TypeOK, O!Next, OnboardingInv'
  PROVE  O!TypeOK'
<1>1. /\ v1' \in {"registered", "active", "deleted"} /\ v2' \subseteq O!Declarations
      /\ \A c \in Handler : v5'[c].pc \in {"idle", "status", "lost", "answered"}
  BY StatusShapes DEF OnboardingInv, Statuses
<1>2. /\ v3' \subseteq [kind : O!Consents, version : 1 .. MaxVersion]
      /\ v4' \in [O!Consents -> 1 .. MaxVersion]
  <2>1. CASE UNCHANGED <<v3, v4>>
    BY <2>1 DEF O!TypeOK
  <2>2. ASSUME NEW k \in O!Consents, O!GiveConsent(k) \/ O!NewWording(k)
        PROVE  /\ v3' \subseteq [kind : O!Consents, version : 1 .. MaxVersion]
               /\ v4' \in [O!Consents -> 1 .. MaxVersion]
    <3>1. v4[k] \in 1 .. MaxVersion /\ MaxVersion \in Nat
      BY ConsentsAssumption DEF O!TypeOK
    <3>2. v4[k] < MaxVersion => v4[k] + 1 \in 1 .. MaxVersion
      BY <3>1
    <3> QED BY <2>2, <3>1, <3>2 DEF O!TypeOK, O!GiveConsent, O!NewWording
  <2> QED BY <2>1, <2>2
       DEF O!Next, O!BeginStatus, O!ReadPart, O!FinishStatus, O!ReadStored, O!Answered, O!Declare, O!Erase
<1> QED BY <1>1, <1>2 DEF O!TypeOK

-----------------------------------------------------------------------------
(* Staff.  A code names the person whose callback drew it for ever, so     *)
(* whatever an exchange has read of an attempt stays true of the code; and  *)
(* an attempt that has a session, or an exchange past consumeCode, is used  *)
(* and so has no second one.                                               *)

LEMMA StaffGiven == S!StaffAssumption
BY ServiceAssumption

StaffAttemptRows ==
  [is : {"unused", "row"}, expiresAt : Nat, code : Code \cup {None}, codeExpiresAt : Nat,
   used : BOOLEAN, identity : Identity \cup {None}]

StaffSessionRows ==
  [is : {"unused", "row", "gone"}, identity : Identity \cup {None}, code : Code \cup {None},
   attempt : AdminAttempt \cup {None}, expiresAt : Nat, revoked : BOOLEAN, epoch : Nat]

StaffCalls ==
  [pc : {"idle", "allow", "attach", "expire", "consume", "role", "insert", "act"},
   attempt : AdminAttempt \cup {None}, identity : Identity \cup {None}, code : Code \cup {None},
   session : AdminSession \cup {None}, at : Nat, epoch : Nat]

StaffTyped ==
  /\ v1 \in 0 .. StaffTime /\ v8 \in 0 .. MaxGrants
  /\ v2 \in [Identity -> S!Roles \cup {None}]
  /\ v3 \in [AdminAttempt -> StaffAttemptRows]
  /\ v4 \in [Code -> Identity \cup {None}]
  /\ v5 \in [AdminSession -> StaffSessionRows]
  /\ v6 \in [Handler -> StaffCalls]
  /\ v7 \in Identity \cup {None} /\ v9 \subseteq AdminSession
  /\ v10 \in [Identity -> Nat]

\* An attempt with a code is of the person the code was drawn for.
StaffAttemptKnown(row) ==
  /\ row.used => row.is = "row"
  /\ row.code # None => /\ row.is = "row" /\ row.identity \in Identity
                        /\ v4[row.code] = row.identity

\* Past the spending of a code.
StaffSpending == {"role", "insert"}
StaffExchanging == {"consume"} \cup StaffSpending

\* What a handler has read is there, and its code still the person's.
StaffCallKnown(r) ==
  /\ r.pc # "idle" => r.identity \in Identity
  /\ r.pc = "act" => r.session \in AdminSession
  /\ r.pc \notin {"idle", "act"} => r.attempt \in AdminAttempt /\ v3[r.attempt].is = "row"
  /\ r.pc \in StaffExchanging => r.code \in Code /\ v4[r.code] = r.identity
  /\ r.pc \in StaffSpending => v3[r.attempt].used

StaffSessionKnown(row) ==
  row.is = "row" =>
    /\ row.identity \in Identity /\ row.code \in Code /\ v4[row.code] = row.identity
    /\ row.attempt \in AdminAttempt /\ v3[row.attempt].used

StaffKnown ==
  /\ \A a \in AdminAttempt : StaffAttemptKnown(v3[a])
  /\ \A c \in Handler : StaffCallKnown(v6[c])
  /\ \A s \in AdminSession : StaffSessionKnown(v5[s])

\* An attempt has one session or one exchange past consumeCode, not both.
StaffOneEach ==
  /\ \A c, d \in Handler :
       c # d /\ v6[c].pc \in StaffSpending /\ v6[d].pc \in StaffSpending => v6[c].attempt # v6[d].attempt
  /\ \A c \in Handler, s \in AdminSession :
       v6[c].pc \in StaffSpending /\ v5[s].is = "row" => v5[s].attempt # v6[c].attempt
  /\ \A s, t \in AdminSession :
       s # t /\ v5[s].is = "row" /\ v5[t].is = "row" => v5[s].attempt # v5[t].attempt

StaffInv == StaffTyped /\ StaffKnown /\ StaffOneEach /\ S!RevocationEndsSessions

-----------------------------------------------------------------------------
(* What has been read stays true                                           *)

\* Rows of attempts are never taken back, nor the spending of one, nor whose a
\* drawn code is: so what a handler has read of them, and what a session says
\* of its login, stays true.
StaffAttemptsAdvance ==
  /\ \A a \in AdminAttempt : /\ v3[a].is = "row" => v3'[a].is = "row"
                             /\ v3[a].used => v3'[a].used
  /\ \A k \in Code : v4[k] # None => v4'[k] = v4[k]

LEMMA StaffFactsStay ==
  ASSUME S!StaffAssumption, StaffAttemptsAdvance
  PROVE  /\ \A r \in StaffCalls : StaffCallKnown(r) => StaffCallKnown(r)'
         /\ \A row \in StaffSessionRows : StaffSessionKnown(row) => StaffSessionKnown(row)'
<1>1. ASSUME NEW r \in StaffCalls, StaffCallKnown(r) PROVE StaffCallKnown(r)'
  BY <1>1 DEF S!StaffAssumption, StaffAttemptsAdvance, StaffCallKnown, StaffExchanging, StaffSpending
<1>2. ASSUME NEW row \in StaffSessionRows, StaffSessionKnown(row) PROVE StaffSessionKnown(row)'
  BY <1>2 DEF S!StaffAssumption, StaffAttemptsAdvance, StaffSessionKnown
<1> QED BY <1>1, <1>2

\* A handler that has ended has read nothing.
LEMMA StaffIdleCall ==
  ASSUME S!StaffAssumption
  PROVE  S!Idle \in StaffCalls /\ S!Idle.pc = "idle" /\ StaffCallKnown(S!Idle) /\ StaffCallKnown(S!Idle)'
BY DEF S!Idle, StaffCalls, StaffCallKnown, StaffExchanging, StaffSpending

-----------------------------------------------------------------------------
(* The shapes of a step                                                    *)

\* A handler goes on, the rows of the attempts at most advance: spending is
\* begun only by a handler whose attempt was not yet used.
LEMMA StaffHandlerMoves ==
  ASSUME S!StaffAssumption, StaffInv, StaffAttemptsAdvance,
         NEW c \in Handler, NEW r \in StaffCalls,
         v6' = [v6 EXCEPT ![c] = r], StaffCallKnown(r)',
         \/ r.pc \notin StaffSpending
         \/ v6[c].pc \in StaffSpending /\ r.attempt = v6[c].attempt
         \/ ~v3[r.attempt].used,
         v3' \in [AdminAttempt -> StaffAttemptRows],
         \A a \in AdminAttempt : StaffAttemptKnown(v3[a])',
         v4' \in [Code -> Identity \cup {None}],
         UNCHANGED <<v1, v2, v5, v7, v8, v9, v10>>
  PROVE  StaffInv'
<1>1. StaffTyped /\ StaffKnown /\ StaffOneEach /\ S!RevocationEndsSessions
  BY DEF StaffInv
<1>2. /\ v6' \in [Handler -> StaffCalls] /\ v6'[c] = r
      /\ \A d \in Handler \ {c} : v6'[d] = v6[d]
  BY <1>1 DEF StaffTyped
<1>3. StaffTyped'
  BY <1>1, <1>2 DEF StaffTyped
<1>4. StaffKnown'
  <2>1. ASSUME NEW d \in Handler PROVE StaffCallKnown(v6[d])'
    <3>1. CASE d = c
      BY <1>2, <3>1 DEF StaffCallKnown, StaffExchanging, StaffSpending
    <3>2. CASE d # c
      <4>1. v6[d] \in StaffCalls /\ StaffCallKnown(v6[d]) /\ v6'[d] = v6[d]
        BY <1>1, <1>2, <3>2 DEF StaffTyped, StaffKnown
      <4>2. \A x \in StaffCalls : StaffCallKnown(x) => StaffCallKnown(x)'
        BY StaffFactsStay
      <4> QED BY <4>1, <4>2 DEF StaffCallKnown, StaffExchanging, StaffSpending
    <3> QED BY <3>1, <3>2
  <2>2. ASSUME NEW s \in AdminSession PROVE StaffSessionKnown(v5[s])'
    <3>1. v5[s] \in StaffSessionRows /\ StaffSessionKnown(v5[s]) /\ v5'[s] = v5[s]
      BY <1>1 DEF StaffTyped, StaffKnown
    <3> QED BY <3>1, StaffFactsStay DEF StaffSessionKnown
  <2> QED BY <2>1, <2>2 DEF StaffKnown
<1>5. StaffOneEach'
  <2>1. ASSUME NEW d \in Handler, v6[d].pc \in StaffSpending PROVE v3[v6[d].attempt].used
    BY <1>1, <2>1 DEF StaffKnown, StaffCallKnown, StaffSpending
  <2>2. ASSUME NEW s \in AdminSession, v5[s].is = "row" PROVE v3[v5[s].attempt].used
    BY <1>1, <2>2 DEF StaffKnown, StaffSessionKnown
  <2>3. ASSUME NEW d \in Handler, d # c, v6'[d].pc \in StaffSpending, r.pc \in StaffSpending
        PROVE  v6'[d].attempt # r.attempt
    BY <1>1, <1>2, <2>1, <2>3 DEF StaffOneEach
  <2>4. ASSUME NEW s \in AdminSession, v5[s].is = "row", r.pc \in StaffSpending
        PROVE  v5[s].attempt # r.attempt
    BY <1>1, <2>2, <2>4 DEF StaffOneEach
  <2> QED BY <1>1, <1>2, <2>3, <2>4 DEF StaffOneEach
<1>6. S!RevocationEndsSessions'
  BY <1>1 DEF S!RevocationEndsSessions
<1> QED BY <1>3, <1>4, <1>5, <1>6 DEF StaffInv

\* A handler that only reads.
LEMMA StaffHandlerReads ==
  ASSUME S!StaffAssumption, StaffInv,
         NEW c \in Handler, NEW r \in StaffCalls,
         v6' = [v6 EXCEPT ![c] = r], StaffCallKnown(r),
         r.pc \in StaffSpending => v6[c].pc \in StaffSpending /\ r.attempt = v6[c].attempt,
         UNCHANGED <<v1, v2, v3, v4, v5, v7, v8, v9, v10>>
  PROVE  StaffInv'
<1>1. StaffAttemptsAdvance
  BY DEF StaffAttemptsAdvance
<1>2. StaffCallKnown(r)'
  BY <1>1, StaffFactsStay
<1>3. /\ v3' \in [AdminAttempt -> StaffAttemptRows] /\ v4' \in [Code -> Identity \cup {None}]
      /\ \A a \in AdminAttempt : StaffAttemptKnown(v3[a])'
  BY DEF StaffInv, StaffTyped, StaffKnown, StaffAttemptKnown
<1> QED BY <1>1, <1>2, <1>3, StaffHandlerMoves

-----------------------------------------------------------------------------
(* One action at a time: the login                                         *)

LEMMA StaffInitInv == S!StaffAssumption /\ S!Init => StaffInv
<1> SUFFICES ASSUME S!StaffAssumption, S!Init PROVE StaffInv
  OBVIOUS
<1>1. StaffTyped
  BY StaffIdleCall DEF S!StaffAssumption, S!Init, StaffTyped, S!NoAttempt, StaffAttemptRows, S!NoSession, StaffSessionRows
<1>2. StaffKnown
  BY StaffIdleCall DEF S!Init, StaffKnown, StaffAttemptKnown, S!NoAttempt, StaffSessionKnown, S!NoSession
<1>3. StaffOneEach
  BY StaffIdleCall DEF S!Init, StaffOneEach, StaffSpending, S!NoSession
<1>4. S!RevocationEndsSessions
  BY DEF S!Init, S!RevocationEndsSessions, S!NoSession
<1> QED BY <1>1, <1>2, <1>3, <1>4 DEF StaffInv

\* What the rows of a step that calls nobody new owe to the invariant.
LEMMA StaffRestStays ==
  ASSUME StaffInv, UNCHANGED <<v3, v4, v5, v6>>
  PROVE  StaffKnown' /\ StaffOneEach'
BY DEF StaffInv, StaffKnown, StaffAttemptKnown, StaffCallKnown, StaffSessionKnown, StaffOneEach

LEMMA StaffTickKeeps == ASSUME S!StaffAssumption, StaffInv, S!Tick PROVE StaffInv'
<1>1. StaffKnown' /\ StaffOneEach'
  BY StaffRestStays DEF S!Tick
<1>2. StaffTyped' /\ S!RevocationEndsSessions'
  BY DEF S!StaffAssumption, S!Tick, StaffInv, StaffTyped, S!RevocationEndsSessions
<1> QED BY <1>1, <1>2 DEF StaffInv

LEMMA StaffStartKeeps ==
  ASSUME S!StaffAssumption, StaffInv, NEW a \in AdminAttempt, S!startAdminLogin(a)
  PROVE  StaffInv'
<1>1. StaffTyped /\ StaffKnown /\ StaffOneEach /\ S!RevocationEndsSessions
  BY DEF StaffInv
<1> DEFINE row == [S!NoAttempt EXCEPT !.is = "row", !.expiresAt = v1 + AttemptTTL]
<1>2. row \in StaffAttemptRows /\ row.is = "row" /\ ~row.used /\ row.code = None
  <2>1. v1 + AttemptTTL \in Nat
    BY <1>1 DEF S!StaffAssumption, StaffTyped
  <2>2. S!NoAttempt \in StaffAttemptRows
    BY DEF S!NoAttempt, StaffAttemptRows
  <2>3. ~S!NoAttempt.used /\ S!NoAttempt.code = None
    BY DEF S!NoAttempt
  <2> QED BY <2>1, <2>2, <2>3 DEF StaffAttemptRows
<1>3. v3[a].is = "unused" /\ v3' = [v3 EXCEPT ![a] = row]
  BY DEF S!startAdminLogin
<1> HIDE DEF row
<1>4. /\ v3' \in [AdminAttempt -> StaffAttemptRows] /\ v3'[a] = row
      /\ \A b \in AdminAttempt \ {a} : v3'[b] = v3[b]
  BY <1>1, <1>2, <1>3 DEF StaffTyped
<1>5. ~v3[a].used
  BY <1>1, <1>3 DEF StaffKnown, StaffAttemptKnown
<1>6. StaffAttemptsAdvance
  BY <1>2, <1>4, <1>5 DEF StaffAttemptsAdvance, S!startAdminLogin
<1>7. StaffTyped' /\ S!RevocationEndsSessions'
  BY <1>1, <1>4 DEF S!startAdminLogin, StaffTyped, S!RevocationEndsSessions
<1>8. StaffKnown'
  <2>1. ASSUME NEW b \in AdminAttempt PROVE StaffAttemptKnown(v3[b])'
    BY <1>1, <1>2, <1>4, <2>1 DEF S!startAdminLogin, StaffKnown, StaffAttemptKnown
  <2>2. ASSUME NEW d \in Handler PROVE StaffCallKnown(v6[d])'
    <3>1. v6[d] \in StaffCalls /\ StaffCallKnown(v6[d]) /\ v6'[d] = v6[d]
      BY <1>1 DEF S!startAdminLogin, StaffTyped, StaffKnown
    <3> QED BY <1>6, <3>1, StaffFactsStay DEF StaffCallKnown, StaffExchanging, StaffSpending
  <2>3. ASSUME NEW s \in AdminSession PROVE StaffSessionKnown(v5[s])'
    <3>1. v5[s] \in StaffSessionRows /\ StaffSessionKnown(v5[s]) /\ v5'[s] = v5[s]
      BY <1>1 DEF S!startAdminLogin, StaffTyped, StaffKnown
    <3> QED BY <1>6, <3>1, StaffFactsStay DEF StaffSessionKnown
  <2> QED BY <2>1, <2>2, <2>3 DEF StaffKnown
<1>9. StaffOneEach'
  BY <1>1 DEF S!startAdminLogin, StaffOneEach
<1> QED BY <1>7, <1>8, <1>9 DEF StaffInv

LEMMA StaffCallbackReadsKeep ==
  ASSUME S!StaffAssumption, StaffInv, NEW c \in Handler,
         \/ \E a \in AdminAttempt, i \in Identity : S!BeginCallback(c, a, i)
         \/ S!AllowStaff(c)
         \/ S!BankDenies(c)
  PROVE  StaffInv'
<1>1. /\ StaffTyped /\ StaffKnown /\ v6[c] \in StaffCalls /\ StaffCallKnown(v6[c]) /\ v1 \in Nat
      /\ S!StaffAssumption
  BY DEF StaffInv, StaffTyped, StaffKnown, S!StaffAssumption
<1>2. ASSUME NEW a \in AdminAttempt, NEW i \in Identity, S!BeginCallback(c, a, i) PROVE StaffInv'
  <2> DEFINE r == [S!Idle EXCEPT !.pc = "allow", !.attempt = a, !.identity = i, !.at = v1]
  <2>1. r \in StaffCalls /\ r.pc = "allow" /\ StaffCallKnown(r)
    BY <1>1, <1>2 DEF S!BeginCallback, S!Completable, S!Idle, StaffCalls, StaffCallKnown, StaffExchanging, StaffSpending
  <2>2. v6' = [v6 EXCEPT ![c] = r]
    BY <1>2 DEF S!BeginCallback
  <2> HIDE DEF r
  <2> QED BY <1>2, <2>1, <2>2, StaffHandlerReads DEF S!BeginCallback, StaffSpending
<1>3. ASSUME S!AllowStaff(c) \/ S!BankDenies(c) PROVE StaffInv'
  <2>1. PICK pc \in {"attach", "expire"} : v6' = [v6 EXCEPT ![c].pc = pc]
    BY <1>3 DEF S!AllowStaff, S!BankDenies, S!Goto
  <2> DEFINE r == [v6[c] EXCEPT !.pc = pc]
  <2>2. v6[c].pc = "allow"
    BY <1>3 DEF S!AllowStaff, S!BankDenies
  <2>3. r \in StaffCalls /\ r.pc = pc /\ StaffCallKnown(r)
    BY <1>1, <2>2 DEF StaffCalls, StaffCallKnown, StaffExchanging, StaffSpending
  <2>4. v6' = [v6 EXCEPT ![c] = r]
    BY <2>1
  <2> HIDE DEF r
  <2> QED BY <1>3, <2>3, <2>4, StaffHandlerReads DEF S!AllowStaff, S!BankDenies, StaffSpending
<1> QED BY <1>2, <1>3

LEMMA StaffExpireKeeps ==
  ASSUME S!StaffAssumption, StaffInv, NEW c \in Handler, S!expireAuthRequest(c)
  PROVE  StaffInv'
<1>1. StaffTyped /\ StaffKnown /\ v6[c] \in StaffCalls /\ StaffCallKnown(v6[c]) /\ v6[c].at \in Nat
  BY DEF StaffInv, StaffTyped, StaffKnown, StaffCalls
<1> DEFINE a == v6[c].attempt
           row == [v3[a] EXCEPT !.expiresAt = v6[c].at]
<1>2. a \in AdminAttempt /\ v3' = [v3 EXCEPT ![a] = row]
  BY <1>1 DEF S!expireAuthRequest, StaffCallKnown
<1>3. /\ row \in StaffAttemptRows
      /\ row.is = v3[a].is /\ row.used = v3[a].used
      /\ row.code = v3[a].code /\ row.identity = v3[a].identity
  BY <1>1, <1>2 DEF StaffTyped, StaffAttemptRows
<1> HIDE DEF a, row
<1>4. /\ v3' \in [AdminAttempt -> StaffAttemptRows] /\ v3'[a] = row
      /\ \A b \in AdminAttempt \ {a} : v3'[b] = v3[b]
  BY <1>1, <1>2, <1>3 DEF StaffTyped
<1>5. StaffAttemptsAdvance
  BY <1>3, <1>4 DEF StaffAttemptsAdvance, S!expireAuthRequest
<1>6. \A b \in AdminAttempt : StaffAttemptKnown(v3[b])'
  BY <1>1, <1>3, <1>4 DEF S!expireAuthRequest, StaffKnown, StaffAttemptKnown
<1>7. v4' \in [Code -> Identity \cup {None}]
  BY <1>1 DEF S!expireAuthRequest, StaffTyped
<1> QED BY <1>4, <1>5, <1>6, <1>7, StaffIdleCall, StaffHandlerMoves DEF S!expireAuthRequest, S!Finish, StaffSpending

LEMMA StaffAttachKeeps ==
  ASSUME S!StaffAssumption, StaffInv, NEW c \in Handler, S!attachAdminCode(c)
  PROVE  StaffInv'
<1>1. /\ StaffTyped /\ StaffKnown /\ v6[c] \in StaffCalls /\ StaffCallKnown(v6[c])
      /\ v6[c].at \in Nat /\ CodeTTL \in Nat /\ None \notin Identity \cup Code
  BY DEF S!StaffAssumption, StaffInv, StaffTyped, StaffKnown, StaffCalls
<1> DEFINE a == v6[c].attempt
           i == v6[c].identity
<1>2. a \in AdminAttempt /\ v3[a].is = "row" /\ i \in Identity
  BY <1>1 DEF S!attachAdminCode, StaffCallKnown
<1>3. PICK k \in Code :
        /\ v4[k] = None /\ v4' = [v4 EXCEPT ![k] = i]
        /\ v3' = [v3 EXCEPT ![a].code = k,
                         ![a].codeExpiresAt = v6[c].at + CodeTTL, ![a].identity = i]
  BY DEF S!attachAdminCode
<1> DEFINE row == [v3[a] EXCEPT !.code = k, !.codeExpiresAt = v6[c].at + CodeTTL,
                                     !.identity = i]
<1>4. /\ row \in StaffAttemptRows /\ row.is = "row" /\ row.used = v3[a].used
      /\ row.code = k /\ row.identity = i
  <2>1. v3[a] \in StaffAttemptRows /\ v6[c].at + CodeTTL \in Nat
    BY <1>1, <1>2 DEF StaffTyped
  <2> HIDE DEF a, i
  <2> QED BY <1>2, <2>1 DEF StaffAttemptRows
<1>5. v3' = [v3 EXCEPT ![a] = row]
  BY <1>1, <1>2, <1>3 DEF StaffTyped
<1> HIDE DEF a, i, row
<1>6. /\ v3' \in [AdminAttempt -> StaffAttemptRows] /\ v3'[a] = row
      /\ \A b \in AdminAttempt \ {a} : v3'[b] = v3[b]
  BY <1>1, <1>2, <1>4, <1>5 DEF StaffTyped
<1>7. /\ v4' \in [Code -> Identity \cup {None}] /\ v4'[k] = i
      /\ \A l \in Code \ {k} : v4'[l] = v4[l]
  BY <1>1, <1>2, <1>3 DEF StaffTyped
<1>8. StaffAttemptsAdvance
  BY <1>2, <1>3, <1>4, <1>6, <1>7 DEF StaffAttemptsAdvance
<1>9. ASSUME NEW b \in AdminAttempt PROVE StaffAttemptKnown(v3[b])'
  <2>1. CASE b = a
    BY <1>2, <1>4, <1>6, <1>7, <2>1 DEF StaffAttemptKnown
  <2>2. CASE b # a
    <3>1. StaffAttemptKnown(v3[b]) /\ v3'[b] = v3[b] /\ v3[b] \in StaffAttemptRows
      BY <1>1, <1>6, <2>2 DEF StaffKnown, StaffTyped
    <3> QED BY <1>1, <1>3, <1>7, <3>1 DEF StaffAttemptKnown, StaffAttemptRows
  <2> QED BY <2>1, <2>2
<1> QED BY <1>6, <1>7, <1>8, <1>9, StaffIdleCall, StaffHandlerMoves DEF S!attachAdminCode, S!Finish, StaffSpending

-----------------------------------------------------------------------------
(* The exchange                                                            *)

LEMMA StaffFindKeeps ==
  ASSUME S!StaffAssumption, StaffInv, NEW c \in Handler, NEW k \in Code, S!FindCode(c, k)
  PROVE  StaffInv'
<1>1. StaffTyped /\ StaffKnown /\ v1 \in Nat /\ None \notin Code
  BY DEF S!StaffAssumption, StaffInv, StaffTyped, StaffKnown
<1>2. PICK a \in AdminAttempt :
        /\ v3[a].code = k
        /\ v6' = [v6 EXCEPT ![c] = [S!Idle EXCEPT !.pc = "consume", !.attempt = a,
                      !.identity = v3[a].identity, !.code = k, !.at = v1]]
  BY DEF S!FindCode
<1> DEFINE r == [S!Idle EXCEPT !.pc = "consume", !.attempt = a,
                   !.identity = v3[a].identity, !.code = k, !.at = v1]
<1>3. v3[a].is = "row" /\ v3[a].identity \in Identity /\ v4[k] = v3[a].identity
  BY <1>1, <1>2 DEF StaffKnown, StaffAttemptKnown
<1>4. S!Idle \in StaffCalls
  BY StaffIdleCall
<1>5. /\ r \in StaffCalls /\ r.pc = "consume" /\ r.attempt = a
      /\ r.identity = v3[a].identity /\ r.code = k
  BY <1>1, <1>3, <1>4 DEF StaffCalls
<1>6. v6' = [v6 EXCEPT ![c] = r]
  BY <1>2
<1> HIDE DEF r
<1>7. StaffCallKnown(r)
  BY <1>3, <1>5 DEF StaffCallKnown, StaffExchanging, StaffSpending
<1> QED BY <1>5, <1>6, <1>7, StaffHandlerReads DEF S!FindCode, StaffSpending

LEMMA StaffConsumeKeeps ==
  ASSUME S!StaffAssumption, StaffInv, NEW c \in Handler, S!consumeCode(c)
  PROVE  StaffInv'
<1>1. StaffTyped /\ StaffKnown /\ v6[c] \in StaffCalls /\ StaffCallKnown(v6[c])
  BY DEF StaffInv, StaffTyped, StaffKnown
<1> DEFINE a == v6[c].attempt
<1>2. a \in AdminAttempt /\ v3[a].is = "row" /\ v3[a] \in StaffAttemptRows
  BY <1>1 DEF S!consumeCode, StaffCallKnown, StaffTyped
<1>3. CASE S!Consumable(a)
  <2> DEFINE row == [v3[a] EXCEPT !.used = TRUE]
             next == [v6[c] EXCEPT !.pc = "role"]
  <2>1. /\ v3' = [v3 EXCEPT ![a] = row] /\ v6' = [v6 EXCEPT ![c] = next]
        /\ ~v3[a].used
    BY <1>3 DEF S!consumeCode, S!Goto, S!Consumable
  <2>2. /\ row \in StaffAttemptRows /\ row.is = "row" /\ row.used
        /\ row.code = v3[a].code /\ row.identity = v3[a].identity
    BY <1>2 DEF StaffAttemptRows
  <2>3. /\ next \in StaffCalls /\ next.pc = "role" /\ next.attempt = a
        /\ next.identity = v6[c].identity /\ next.code = v6[c].code
    BY <1>1 DEF StaffCalls
  <2>4. v6[c].pc = "consume"
    BY DEF S!consumeCode
  <2> HIDE DEF a, row, next
  <2>r. PICK r \in StaffCalls : r = next
    BY <2>3
  <2>5. /\ v3' \in [AdminAttempt -> StaffAttemptRows] /\ v3'[a] = row
        /\ \A b \in AdminAttempt \ {a} : v3'[b] = v3[b]
    BY <1>1, <1>2, <2>1, <2>2 DEF StaffTyped
  <2>6. StaffAttemptsAdvance
    BY <2>2, <2>5 DEF StaffAttemptsAdvance, S!consumeCode
  <2>7. \A b \in AdminAttempt : StaffAttemptKnown(v3[b])'
    BY <1>1, <1>2, <2>2, <2>5 DEF S!consumeCode, StaffKnown, StaffAttemptKnown
  <2>8. v4' = v4 /\ v4' \in [Code -> Identity \cup {None}]
    BY <1>1 DEF S!consumeCode, StaffTyped
  <2>9. StaffCallKnown(r)'
    BY <1>1, <1>2, <2>2, <2>3, <2>4, <2>5, <2>8, <2>r DEF StaffCallKnown, StaffExchanging, StaffSpending
  <2> QED BY <2>1, <2>3, <2>5, <2>6, <2>7, <2>8, <2>9, <2>r, StaffHandlerMoves DEF S!consumeCode
<1>4. CASE ~S!Consumable(a)
  BY <1>4, StaffIdleCall, StaffHandlerReads DEF S!consumeCode, S!Finish, StaffSpending
<1> QED BY <1>3, <1>4

LEMMA StaffRereadKeeps ==
  ASSUME S!StaffAssumption, StaffInv, NEW c \in Handler, S!RereadRole(c)
  PROVE  StaffInv'
<1>1. CASE v2[v6[c].identity] = None
  BY <1>1, StaffIdleCall, StaffHandlerReads DEF S!RereadRole, S!Finish, StaffSpending
<1>2. CASE v2[v6[c].identity] # None
  <2>1. v6[c] \in StaffCalls /\ StaffCallKnown(v6[c]) /\ v6[c].pc = "role"
    BY DEF S!RereadRole, StaffInv, StaffTyped, StaffKnown
  <2>2. v10[v6[c].identity] \in Nat
    BY <2>1 DEF StaffCallKnown, StaffInv, StaffTyped
  <2> DEFINE r == [v6[c] EXCEPT !.pc = "insert", !.epoch = v10[v6[c].identity]]
  <2>3. v6' = [v6 EXCEPT ![c] = r]
    BY <1>2, <2>1 DEF S!RereadRole, StaffInv, StaffTyped
  <2>4. /\ r \in StaffCalls /\ r.pc = "insert" /\ r.attempt = v6[c].attempt
        /\ r.identity = v6[c].identity /\ r.code = v6[c].code
    BY <2>1, <2>2 DEF StaffCalls
  <2> HIDE DEF r
  <2>5. StaffCallKnown(r)
    BY <2>1, <2>4 DEF StaffCallKnown, StaffExchanging, StaffSpending
  <2> QED BY <2>1, <2>3, <2>4, <2>5, StaffHandlerReads DEF S!RereadRole, StaffSpending
<1> QED BY <1>1, <1>2

LEMMA StaffInsertKeeps ==
  ASSUME S!StaffAssumption, StaffInv, NEW c \in Handler, S!insertAdminSession(c)
  PROVE  StaffInv'
<1>1. /\ StaffTyped /\ StaffKnown /\ StaffOneEach /\ S!RevocationEndsSessions
      /\ v6[c] \in StaffCalls /\ StaffCallKnown(v6[c]) /\ v6[c].pc = "insert"
  BY DEF S!insertAdminSession, StaffInv, StaffTyped, StaffKnown
<1> DEFINE row == [is |-> "row", identity |-> S!SignedIn(c), code |-> v6[c].code,
                   attempt |-> v6[c].attempt, expiresAt |-> v6[c].at + SessionTTL,
                   revoked |-> FALSE, epoch |-> v6[c].epoch]
<1>2. PICK s \in AdminSession :
        /\ v5[s].is = "unused" /\ v5' = [v5 EXCEPT ![s] = row]
        /\ v9' = IF \/ v10[v6[c].identity] # v6[c].epoch
                    \/ v7 = v6[c].identity
                      THEN v9 \cup {s} ELSE v9
  BY DEF S!insertAdminSession
<1>3. /\ v6[c].identity \in Identity /\ v6[c].code \in Code /\ v6[c].attempt \in AdminAttempt
      /\ v4[v6[c].code] = v6[c].identity /\ v3[v6[c].attempt].used
      /\ v6[c].at + SessionTTL \in Nat /\ v6[c].epoch \in Nat
  BY <1>1 DEF S!StaffAssumption, StaffCallKnown, StaffExchanging, StaffSpending, StaffCalls
<1>4. /\ row \in StaffSessionRows /\ row.is = "row" /\ row.identity = v6[c].identity
      /\ row.code = v6[c].code /\ row.attempt = v6[c].attempt
      /\ row.epoch = v6[c].epoch
  BY <1>3 DEF StaffSessionRows, S!SignedIn
<1> HIDE DEF row
<1>5. /\ v5' \in [AdminSession -> StaffSessionRows] /\ v5'[s] = row
      /\ \A t \in AdminSession \ {s} : v5'[t] = v5[t]
  BY <1>1, <1>2, <1>4 DEF StaffTyped
<1>6. /\ v6' \in [Handler -> StaffCalls] /\ v6'[c] = S!Idle
      /\ \A d \in Handler \ {c} : v6'[d] = v6[d]
  BY <1>1, StaffIdleCall DEF S!insertAdminSession, S!Finish, StaffTyped
<1>7. UNCHANGED <<v1, v2, v3, v4, v7, v8, v10>>
  BY DEF S!insertAdminSession
<1>8. StaffTyped'
  BY <1>1, <1>2, <1>5, <1>6, <1>7 DEF StaffTyped
<1>9. StaffKnown'
  <2>1. \A a \in AdminAttempt : StaffAttemptKnown(v3[a])'
    BY <1>1, <1>7 DEF StaffKnown, StaffAttemptKnown
  <2>2. \A d \in Handler : StaffCallKnown(v6[d])'
    BY <1>1, <1>6, <1>7, StaffIdleCall DEF StaffKnown, StaffCallKnown, StaffExchanging, StaffSpending
  <2>3. \A t \in AdminSession : StaffSessionKnown(v5[t])'
    BY <1>1, <1>3, <1>4, <1>5, <1>7 DEF StaffKnown, StaffSessionKnown
  <2> QED BY <2>1, <2>2, <2>3 DEF StaffKnown
<1>10. StaffOneEach'
  BY <1>1, <1>4, <1>5, <1>6, StaffIdleCall DEF StaffOneEach, StaffSpending
<1>11. S!RevocationEndsSessions'
  <2>1. ASSUME NEW t \in AdminSession \ v9', v5'[t].is = "row", ~v5'[t].revoked,
               v7 # v5'[t].identity
        PROVE  v5'[t].epoch = v10[v5'[t].identity]
    <3>1. CASE t = s
      BY <1>2, <1>4, <1>5, <2>1, <3>1
    <3>2. CASE t # s
      BY <1>1, <1>2, <1>5, <2>1, <3>2 DEF S!RevocationEndsSessions
    <3> QED BY <3>1, <3>2
  <2> QED BY <1>7, <2>1 DEF S!RevocationEndsSessions
<1> QED BY <1>8, <1>9, <1>10, <1>11 DEF StaffInv

-----------------------------------------------------------------------------
(* Requests, the sweep, and the maintainer's command                       *)

LEMMA StaffRequestKeeps ==
  ASSUME S!StaffAssumption, StaffInv, NEW c \in Handler, NEW s \in AdminSession, S!requireAdmin(c, s)
  PROVE  StaffInv'
<1> DEFINE r == [S!Idle EXCEPT !.pc = "act", !.identity = v5[s].identity, !.session = s]
<1>1. v5[s].identity \in Identity
  BY DEF S!requireAdmin, S!Live, StaffInv, StaffKnown, StaffSessionKnown
<1>2. S!Idle \in StaffCalls
  BY StaffIdleCall
<1>3. r \in StaffCalls /\ r.pc = "act" /\ r.identity \in Identity /\ r.session = s
  BY <1>1, <1>2 DEF StaffCalls
<1>4. v6' = [v6 EXCEPT ![c] = r]
  BY DEF S!requireAdmin
<1> HIDE DEF r
<1>5. StaffCallKnown(r)
  BY <1>3 DEF StaffCallKnown, StaffExchanging, StaffSpending
<1> QED BY <1>3, <1>4, <1>5, StaffHandlerReads DEF S!requireAdmin, StaffSpending

LEMMA StaffEndKeeps ==
  ASSUME S!StaffAssumption, StaffInv, NEW c \in Handler, S!Act(c) \/ S!Crash(c)
  PROVE  StaffInv'
BY StaffIdleCall, StaffHandlerReads DEF S!Act, S!Crash, S!Finish, StaffSpending

\* Sessions are only ended: each row stays what it is but for the revoked mark,
\* or goes.
StaffSessionsEnd ==
  \A s \in AdminSession :
    v5'[s].is = "row" =>
      /\ v5[s].revoked => v5'[s].revoked
      /\ v5'[s] = [v5[s] EXCEPT !.revoked = v5'[s].revoked]

LEMMA StaffEndedSessionsKeep ==
  ASSUME S!StaffAssumption, StaffInv, StaffSessionsEnd, v5' \in [AdminSession -> StaffSessionRows],
         v6' = v6 \/ (\E c \in Handler : S!Finish(c)),
         UNCHANGED <<v1, v2, v3, v4, v8, v9, v10>>
  PROVE  /\ StaffKnown' /\ StaffOneEach'
         /\ v7' \in Identity \cup {None} => StaffTyped'
         /\ v7' = v7 => S!RevocationEndsSessions'
<1>1. StaffTyped /\ StaffKnown /\ StaffOneEach /\ S!RevocationEndsSessions
  BY DEF StaffInv
<1>2. /\ v6' \in [Handler -> StaffCalls]
      /\ \A d \in Handler : v6'[d] = v6[d] \/ v6'[d] = S!Idle
  BY <1>1, StaffIdleCall DEF S!Finish, StaffTyped
<1>3. \A s \in AdminSession : v5'[s].is = "row" =>
        /\ v5[s].is = "row" /\ v5'[s].identity = v5[s].identity
        /\ v5'[s].code = v5[s].code /\ v5'[s].attempt = v5[s].attempt
        /\ v5'[s].epoch = v5[s].epoch
        /\ v5[s].revoked => v5'[s].revoked
  BY <1>1 DEF StaffSessionsEnd, StaffTyped, StaffSessionRows
<1>4. StaffKnown'
  <2>1. \A a \in AdminAttempt : StaffAttemptKnown(v3[a])'
    BY <1>1 DEF StaffKnown, StaffAttemptKnown
  <2>2. \A d \in Handler : StaffCallKnown(v6[d])'
    BY <1>1, <1>2, StaffIdleCall DEF StaffKnown, StaffCallKnown, StaffExchanging, StaffSpending
  <2>3. \A s \in AdminSession : StaffSessionKnown(v5[s])'
    BY <1>1, <1>3 DEF StaffKnown, StaffSessionKnown
  <2> QED BY <2>1, <2>2, <2>3 DEF StaffKnown
<1>5. StaffOneEach'
  BY <1>1, <1>2, <1>3, StaffIdleCall DEF StaffOneEach, StaffSpending
<1>6. v7' \in Identity \cup {None} => StaffTyped'
  BY <1>1, <1>2 DEF StaffTyped
<1>7. v7' = v7 => S!RevocationEndsSessions'
  BY <1>1, <1>3 DEF S!RevocationEndsSessions
<1> QED BY <1>4, <1>5, <1>6, <1>7

LEMMA StaffEndSessionKeeps ==
  ASSUME S!StaffAssumption, StaffInv, NEW c \in Handler, S!endAdminSession(c)
  PROVE  StaffInv'
<1>1. StaffTyped /\ StaffKnown /\ v7' = v7
  BY DEF S!endAdminSession, StaffInv
<1> DEFINE s == v6[c].session
           row == [v5[s] EXCEPT !.revoked = v5[s].revoked \/ v5[s].is = "row"]
<1>2. s \in AdminSession /\ v5' = [v5 EXCEPT ![s] = row] /\ v5[s] \in StaffSessionRows
  BY <1>1 DEF S!endAdminSession, StaffKnown, StaffCallKnown, StaffTyped
<1>3. /\ row \in StaffSessionRows
      /\ v5[s].revoked => row.revoked
      /\ row = [v5[s] EXCEPT !.revoked = row.revoked]
  BY <1>2 DEF StaffSessionRows
<1> HIDE DEF s, row
<1>4. v5' \in [AdminSession -> StaffSessionRows] /\ StaffSessionsEnd
  BY <1>1, <1>2, <1>3 DEF StaffTyped, StaffSessionsEnd, StaffSessionRows
<1> QED BY <1>1, <1>4, StaffEndedSessionsKeep DEF S!endAdminSession, StaffInv, StaffTyped

LEMMA StaffSweepKeeps ==
  ASSUME S!StaffAssumption, StaffInv, S!sweepAdminSessions
  PROVE  StaffInv'
<1>1. StaffTyped /\ v7' = v7
  BY DEF S!sweepAdminSessions, StaffInv
<1> DEFINE gone == [S!NoSession EXCEPT !.is = "gone"]
<1>2. gone \in StaffSessionRows /\ gone.is = "gone"
  BY DEF S!NoSession, StaffSessionRows
<1>3. \A s \in AdminSession : v5'[s] = v5[s] \/ v5'[s] = gone
  BY DEF S!sweepAdminSessions
<1>4. v5' \in [AdminSession -> StaffSessionRows]
  BY <1>1, <1>2 DEF S!sweepAdminSessions, StaffTyped
<1> HIDE DEF gone
<1>5. StaffSessionsEnd
  BY <1>1, <1>2, <1>3 DEF StaffSessionsEnd, StaffTyped, StaffSessionRows
<1> QED BY <1>1, <1>4, <1>5, StaffEndedSessionsKeep DEF S!sweepAdminSessions, StaffInv, StaffTyped

LEMMA StaffGrantKeeps ==
  ASSUME S!StaffAssumption, StaffInv, NEW i \in Identity, NEW r \in S!Roles, S!grant(i, r)
  PROVE  StaffInv'
<1>1. StaffKnown' /\ StaffOneEach'
  BY StaffRestStays DEF S!grant
<1>2. StaffTyped' /\ S!RevocationEndsSessions'
  BY DEF S!StaffAssumption, S!grant, StaffInv, StaffTyped, S!RevocationEndsSessions
<1> QED BY <1>1, <1>2 DEF StaffInv

\* The sessions of the person are not looked at until the second statement.
LEMMA StaffRevokeKeeps ==
  ASSUME S!StaffAssumption, StaffInv, NEW i \in Identity, S!revoke(i)
  PROVE  StaffInv'
<1>1. StaffKnown' /\ StaffOneEach'
  BY StaffRestStays DEF S!revoke
<1>2. StaffTyped'
  BY DEF S!revoke, StaffInv, StaffTyped
<1>3. v7 = None /\ v7' = i /\ \A j \in Identity \ {i} : v10'[j] = v10[j]
  BY DEF S!revoke, StaffInv, StaffTyped
<1>4. \A s \in AdminSession : v5[s].is = "row" => v5[s].identity \in Identity
  BY DEF StaffInv, StaffKnown, StaffSessionKnown
<1>5. S!RevocationEndsSessions'
  BY <1>3, <1>4 DEF S!StaffAssumption, S!revoke, StaffInv, S!RevocationEndsSessions
<1> QED BY <1>1, <1>2, <1>5 DEF StaffInv

LEMMA StaffRevokeSessionsKeeps ==
  ASSUME S!StaffAssumption, StaffInv, S!RevokeSessions
  PROVE  StaffInv'
<1>1. StaffTyped /\ StaffKnown /\ S!RevocationEndsSessions /\ v7' = None
  BY DEF S!RevokeSessions, StaffInv
<1>2. \A s \in AdminSession :
        \/ v5'[s] = v5[s] /\ (v5[s].is = "row" => v5[s].identity # v7)
        \/ v5'[s] = [v5[s] EXCEPT !.revoked = TRUE]
  BY DEF S!RevokeSessions, S!EndedByRevocation
<1>3. \A row \in StaffSessionRows :
        /\ [row EXCEPT !.revoked = TRUE] \in StaffSessionRows
        /\ [row EXCEPT !.revoked = TRUE].revoked /\ [row EXCEPT !.revoked = TRUE].is = row.is
        /\ row = [row EXCEPT !.revoked = row.revoked]
  BY DEF StaffSessionRows
<1>4. v5' \in [AdminSession -> StaffSessionRows]
  BY <1>1, <1>2, <1>3 DEF S!RevokeSessions, StaffTyped
<1>5. StaffSessionsEnd
  <2>1. ASSUME NEW s \in AdminSession, v5'[s].is = "row"
        PROVE  /\ v5[s].revoked => v5'[s].revoked
               /\ v5'[s] = [v5[s] EXCEPT !.revoked = v5'[s].revoked]
    <3>1. v5[s] \in StaffSessionRows
      BY <1>1 DEF StaffTyped
    <3>2. CASE v5'[s] = v5[s]
      BY <1>3, <3>1, <3>2
    <3>3. CASE v5'[s] = [v5[s] EXCEPT !.revoked = TRUE]
      BY <1>3, <3>1, <3>3
    <3> QED BY <1>2, <3>2, <3>3
  <2> QED BY <2>1 DEF StaffSessionsEnd
<1>6. StaffKnown' /\ StaffOneEach' /\ StaffTyped'
  BY <1>1, <1>4, <1>5, StaffEndedSessionsKeep DEF S!RevokeSessions
<1>7. S!RevocationEndsSessions'
  <2>1. ASSUME NEW s \in AdminSession \ v9, v5'[s].is = "row", ~v5'[s].revoked
        PROVE  v5'[s].epoch = v10[v5'[s].identity]
    <3>1. v5[s] \in StaffSessionRows
      BY <1>1 DEF StaffTyped
    <3>2. v5'[s] = v5[s] /\ v5[s].identity # v7
      BY <1>2, <1>3, <2>1, <3>1
    <3> QED BY <1>1, <2>1, <3>2 DEF S!RevocationEndsSessions
  <2> QED BY <2>1 DEF S!RevokeSessions, S!RevocationEndsSessions
<1> QED BY <1>6, <1>7 DEF StaffInv

LEMMA StaffRevokeDiesKeeps ==
  ASSUME S!StaffAssumption, StaffInv, S!RevokeDies
  PROVE  StaffInv'
<1>1. StaffKnown' /\ StaffOneEach'
  BY StaffRestStays DEF S!RevokeDies
<1>2. StaffTyped' /\ S!RevocationEndsSessions'
  BY DEF S!RevokeDies, StaffInv, StaffTyped, S!RevocationEndsSessions
<1> QED BY <1>1, <1>2 DEF StaffInv

-----------------------------------------------------------------------------
(* The invariant, and what follows                                         *)

LEMMA StaffKept == ASSUME S!StaffAssumption, StaffInv, [S!Next]_(S!vars) PROVE StaffInv'
<1>1. CASE UNCHANGED S!vars
  <2>1. StaffKnown' /\ StaffOneEach'
    BY <1>1, StaffRestStays DEF S!vars
  <2>2. StaffTyped' /\ S!RevocationEndsSessions'
    BY <1>1 DEF S!vars, StaffInv, StaffTyped, S!RevocationEndsSessions
  <2> QED BY <2>1, <2>2 DEF StaffInv
<1>2. CASE S!Tick \/ S!sweepAdminSessions \/ S!RevokeSessions \/ S!RevokeDies
  BY <1>2, StaffTickKeeps, StaffSweepKeeps, StaffRevokeSessionsKeeps, StaffRevokeDiesKeeps
<1>3. CASE \E a \in AdminAttempt : S!startAdminLogin(a)
  BY <1>3, StaffStartKeeps
<1>4. CASE \E i \in Identity : S!revoke(i) \/ \E r \in S!Roles : S!grant(i, r)
  BY <1>4, StaffGrantKeeps, StaffRevokeKeeps
<1>5. ASSUME NEW c \in Handler,
             \/ \E a \in AdminAttempt, i \in Identity : S!BeginCallback(c, a, i)
             \/ S!AllowStaff(c) \/ S!BankDenies(c) \/ S!expireAuthRequest(c) \/ S!attachAdminCode(c)
      PROVE  StaffInv'
  BY <1>5, StaffCallbackReadsKeep, StaffExpireKeeps, StaffAttachKeeps
<1>6. ASSUME NEW c \in Handler,
             \/ \E k \in Code : S!FindCode(c, k)
             \/ S!consumeCode(c) \/ S!RereadRole(c) \/ S!insertAdminSession(c)
      PROVE  StaffInv'
  BY <1>6, StaffFindKeeps, StaffConsumeKeeps, StaffRereadKeeps, StaffInsertKeeps
<1>7. ASSUME NEW c \in Handler,
             \/ \E s \in AdminSession : S!requireAdmin(c, s)
             \/ S!Act(c) \/ S!endAdminSession(c) \/ S!Crash(c)
      PROVE  StaffInv'
  BY <1>7, StaffRequestKeeps, StaffEndKeeps, StaffEndSessionKeeps
<1> QED BY <1>1, <1>2, <1>3, <1>4, <1>5, <1>6, <1>7 DEF S!Next

LEMMA StaffSays == StaffInv => S!OneStaffSessionPerLogin /\ S!RevocationEndsSessions
BY DEF StaffInv, StaffKnown, StaffSessionKnown, StaffOneEach, S!OneStaffSessionPerLogin

LEMMA StaffInit == S!Init => StaffInv
BY StaffGiven, StaffInitInv

LEMMA StaffKeeps == StaffInv /\ S!Next => StaffInv'
BY StaffGiven, StaffKept

LEMMA StaffTypes == StaffInv => S!TypeOK
BY DEF StaffInv, StaffTyped, StaffKnown, StaffAttemptKnown, StaffCallKnown, StaffSessionKnown, S!TypeOK, StaffCalls

-----------------------------------------------------------------------------
(* The bank.  A key that was signed with a minute after its publication, or *)
(* the first, is with the library once it asks; what a token names is its   *)
(* own login's, whatever the bank left out or said of another.              *)

Tokens ==
  [hetu : Handler \cup {None}, nonce : Handler, acr : AcrLevels \cup {None}, encrypted : BOOLEAN,
   key : BankKey, mistaken : BOOLEAN]

Answers == {"identified", "no key", "unexpected nonce", "not encrypted", "no identity code", "no acr",
            "unexpected acr"}

Logins ==
  [at : {"none", "sent"}] \cup [at : {"answered"}, token : Tokens]
    \cup [at : Answers, mistaken : BOOLEAN, is : Handler \cup {None}, acr : AcrLevels \cup {None}]

\* The key was published a minute ago, or before everything.
Settled(k) == v5[k] # None /\ (k = I!FIRST \/ v5[k] + 1 <= v1)

\* The library has what was published before it asked.
HeldKnown ==
  /\ v5[I!FIRST] # None /\ I!FIRST \in v7.keys /\ v7.at \in Nat /\ v7.at <= v1
  /\ \A k \in BankKey : v5[k] # None => v5[k] \in Nat /\ v5[k] <= v1 /\ (v5[k] < v7.at => k \in v7.keys)

\* What the bank makes of a login when it makes no mistake.
Unmistaken(t, a) ==
  t.hetu = a /\ t.nonce = a /\ t.acr = "asked" /\ (v2 = "telia" => t.encrypted)

TokenKnown(t, a) ==
  /\ t.hetu \in {t.nonce, None}
  /\ ~t.mistaken => Unmistaken(t, a)
  /\ ~v9 => Settled(t.key)

LoginKnown(l, a) ==
  /\ l.at = "answered" => TokenKnown(l.token, a)
  /\ l.at = "identified" => l.is = a /\ (v4 # {} => l.acr \in v4)
  /\ l.at \in Answers /\ ~l.mistaken /\ ~v9 /\ ~(v2 = "mock" /\ v3) => l.at = "identified"

BankInv ==
  /\ v1 \in Nat /\ v2 \in {"telia", "mock"} /\ v3 \in BOOLEAN /\ v4 \in {{}, {"asked"}}
  /\ v6 \in BankKey /\ v5[v6] # None /\ v8 \in [Handler -> Logins] /\ v9 \in BOOLEAN
  /\ DOMAIN v5 = BankKey
  /\ HeldKnown
  /\ ~v9 => Settled(v6)
  /\ \A a \in Handler : LoginKnown(v8[a], a)

LEMMA FirstKey == I!FIRST \in BankKey
BY ServiceAssumption DEF I!FIRST, I!BankAssumption

LEMMA BankConstants ==
  /\ None \notin Handler /\ None \notin AcrLevels /\ None \notin Nat /\ "asked" \in AcrLevels
BY ServiceAssumption DEF I!BankAssumption

LEMMA LoginShapes ==
  \A l \in Logins :
    /\ l.at = "answered" => l \in [at : {"answered"}, token : Tokens]
    /\ l.at \in Answers <=> "mistaken" \in DOMAIN l
    /\ l.at \in Answers => l.mistaken \in BOOLEAN
BY DEF Logins, Answers

LEMMA BankInit == I!Init => BankInv
<1> SUFFICES ASSUME I!Init PROVE BankInv
  OBVIOUS
<1>1. /\ v1 = 0 /\ v2 \in {"telia", "mock"} /\ v3 \in BOOLEAN /\ v4 \in {{}, {"asked"}}
      /\ v5 = [k \in BankKey |-> IF k = I!FIRST THEN 0 ELSE None] /\ v6 = I!FIRST
      /\ v7 = [keys |-> {I!FIRST}, at |-> 0] /\ v9 = FALSE
      /\ v8 = [a \in Handler |-> [at |-> "none"]]
  BY DEF I!Init
<1>2. HeldKnown
  BY <1>1, FirstKey, BankConstants DEF HeldKnown
<1>3. v8 \in [Handler -> Logins] /\ \A a \in Handler : v8[a].at = "none"
  BY <1>1 DEF Logins
<1>4. \A a \in Handler : LoginKnown(v8[a], a)
  BY <1>3 DEF LoginKnown, Answers
<1>5. DOMAIN v5 = BankKey /\ v5[v6] = 0 /\ v6 \in BankKey /\ v6 = I!FIRST
  BY <1>1, FirstKey
<1>6. v5[v6] # None /\ Settled(v6)
  BY <1>5, BankConstants DEF Settled
<1> QED BY <1>1, <1>2, <1>3, <1>4, <1>5, <1>6 DEF BankInv

\* Time, a key published and another signed with.
LEMMA BankMoves ==
  ASSUME BankInv, I!Tick \/ \E k \in BankKey : I!Publish(k) \/ I!SignWith(k)
  PROVE  BankInv'
<1>1. UNCHANGED <<v2, v3, v4, v7, v8>>
  BY DEF I!Tick, I!Publish, I!SignWith
<1>2. CASE I!Tick
  <2>1. v1' = v1 + 1 /\ UNCHANGED <<v5, v6, v9>>
    BY <1>2 DEF I!Tick
  <2>2. \A k \in BankKey : Settled(k) => Settled(k)'
    BY <2>1 DEF Settled, BankInv, HeldKnown
  <2>3. HeldKnown'
    BY <1>1, <2>1 DEF BankInv, HeldKnown
  <2>4. \A a \in Handler : LoginKnown(v8[a], a)'
    BY <1>1, <2>1, <2>2, LoginShapes DEF BankInv, LoginKnown, TokenKnown, Unmistaken, Tokens
  <2> QED BY <1>1, <2>1, <2>2, <2>3, <2>4 DEF BankInv
<1>3. ASSUME NEW k \in BankKey, I!Publish(k) PROVE BankInv'
  <2>1. v5[k] = None /\ v5' = [v5 EXCEPT ![k] = v1] /\ UNCHANGED <<v1, v6, v9>>
    BY <1>3 DEF I!Publish
  <2>2. v5'[k] = v1 /\ \A j \in BankKey : j # k => v5'[j] = v5[j]
    BY <2>1 DEF BankInv
  <2>3. \A j \in BankKey : Settled(j) => Settled(j)'
    BY <2>1, <2>2 DEF Settled, BankInv
  <2>4. HeldKnown'
    <3> QED BY FirstKey, <1>1, <2>1, <2>2 DEF BankInv, HeldKnown
  <2>5. \A a \in Handler : LoginKnown(v8[a], a)'
    BY <1>1, <2>1, <2>3, LoginShapes DEF BankInv, LoginKnown, TokenKnown, Unmistaken, Tokens
  <2> QED BY <1>1, <2>1, <2>2, <2>3, <2>4, <2>5, BankConstants DEF BankInv
<1>4. ASSUME NEW k \in BankKey, I!SignWith(k) PROVE BankInv'
  <2>1. /\ v5[k] # None /\ v6' = k /\ v9' = (v9 \/ v1 < v5[k] + 1) /\ UNCHANGED <<v1, v5>>
    BY <1>4 DEF I!SignWith
  <2>2. v9 => v9'
    BY <2>1
  <2>3. ~v9' => Settled(k)'
    <3>1. v5[k] \in Nat /\ v1 \in Nat
      BY <2>1 DEF BankInv, HeldKnown
    <3>2. ~(v1 < v5[k] + 1) => v5[k] + 1 <= v1
      BY <3>1
    <3>3. v5'[k] # None /\ v1' = v1 /\ v5'[k] = v5[k]
      BY <2>1
    <3> QED BY <2>1, <3>2, <3>3 DEF Settled
  <2>4. \A j \in BankKey : Settled(j) => Settled(j)'
    BY <2>1 DEF Settled
  <2>5. HeldKnown'
    BY <1>1, <2>1 DEF BankInv, HeldKnown
  <2>6. \A a \in Handler : LoginKnown(v8[a], a)'
    BY <1>1, <2>1, <2>2, <2>4, LoginShapes DEF BankInv, LoginKnown, TokenKnown, Unmistaken, Tokens
  <2>7. v9' \in BOOLEAN
    BY <2>1
  <2> QED BY <1>1, <2>1, <2>3, <2>5, <2>6, <2>7 DEF BankInv
<1> QED BY <1>2, <1>3, <1>4

\* One login becomes another record, of which what is to be known is known.
LEMMA LoginBecomes ==
  ASSUME BankInv, NEW a \in Handler, NEW l \in Logins, v8' = [v8 EXCEPT ![a] = l], LoginKnown(l, a),
         UNCHANGED <<v1, v2, v3, v4, v5, v6, v9>>, HeldKnown'
  PROVE  BankInv'
<1>1. v8' \in [Handler -> Logins] /\ v8'[a] = l /\ \A b \in Handler : b # a => v8'[b] = v8[b]
  BY DEF BankInv
<1>2. \A b \in Handler : LoginKnown(v8'[b], b)
  BY <1>1 DEF BankInv
<1>3. \A b \in Handler : LoginKnown(v8[b], b)'
  BY <1>2 DEF LoginKnown, TokenKnown, Unmistaken, Settled
<1>4. ~v9' => Settled(v6)'
  BY DEF BankInv, Settled
<1> QED BY <1>1, <1>3, <1>4 DEF BankInv

LEMMA IdentifyKeeps ==
  ASSUME BankInv, NEW a \in Handler, NEW t \in {I!Token(a)} \cup I!Mistakes(I!Token(a)), I!Identify(a, t)
  PROVE  BankInv'
<1> DEFINE l == [at |-> "answered", token |-> t]
           right == I!Token(a)
<1>1. v8' = [v8 EXCEPT ![a] = l] /\ UNCHANGED <<v1, v2, v3, v4, v5, v6, v7, v9>>
  BY DEF I!Identify
<1>2. /\ right \in Tokens /\ right.hetu = a /\ right.nonce = a /\ right.acr = "asked"
      /\ right.encrypted = (v2 = "telia") /\ right.key = v6 /\ right.mistaken = FALSE
  BY BankConstants DEF I!Token, Tokens, BankInv
<1> HIDE DEF right
<1> DEFINE Said == /\ t \in Tokens /\ t.key = v6 /\ t.hetu \in {t.nonce, None}
                   /\ ~t.mistaken => t.hetu = a /\ t.nonce = a /\ t.acr = "asked" /\ (v2 = "telia" => t.encrypted)
<1>3. Said
  <2>1. CASE t = right
    BY <1>2, <2>1
  <2>2. CASE t = [right EXCEPT !.hetu = None, !.mistaken = TRUE]
    BY <1>2, <2>2 DEF Tokens
  <2>3. CASE t = [right EXCEPT !.acr = None, !.mistaken = TRUE]
    BY <1>2, <2>3 DEF Tokens
  <2>4. CASE t = [right EXCEPT !.encrypted = FALSE, !.mistaken = v2 = "telia"]
    BY <1>2, <2>4 DEF Tokens
  <2>5. ASSUME NEW lvl \in AcrLevels, t = [right EXCEPT !.acr = lvl, !.mistaken = TRUE]
        PROVE  Said
    BY <1>2, <2>5 DEF Tokens
  <2>6. ASSUME NEW b \in Handler, t = [right EXCEPT !.hetu = b, !.nonce = b, !.mistaken = TRUE]
        PROVE  Said
    BY <1>2, <2>6 DEF Tokens
  <2>7. t \in {right} \cup I!Mistakes(right)
    BY DEF right
  <2> QED BY <2>1, <2>2, <2>3, <2>4, <2>5, <2>6, <2>7 DEF I!Mistakes
<1> HIDE DEF Said
<1>4. l \in Logins /\ l.at = "answered" /\ l.token = t
  <2>1. t \in Tokens
    BY <1>3 DEF Said
  <2> QED BY <2>1 DEF Logins
<1>5. LoginKnown(l, a)
  BY <1>3, <1>4 DEF Said, LoginKnown, TokenKnown, Unmistaken, Answers, BankInv
<1>6. HeldKnown'
  BY <1>1 DEF BankInv, HeldKnown
<1> HIDE DEF l
<1> QED BY <1>1, <1>4, <1>5, <1>6, LoginBecomes

\* The library asks for the keys when it must, and then has a key that is settled.
LEMMA KeysAreFound ==
  ASSUME BankInv, NEW k \in BankKey
  PROVE  /\ I!FIRST \in I!KeysFor(k).keys /\ I!KeysFor(k).at \in Nat /\ I!KeysFor(k).at <= v1
         /\ \A j \in BankKey : v5[j] # None /\ v5[j] < I!KeysFor(k).at => j \in I!KeysFor(k).keys
         /\ Settled(k) => k \in I!KeysFor(k).keys
<1>1. /\ v1 \in Nat /\ v7.at \in Nat /\ v7.at <= v1 /\ I!FIRST \in v7.keys /\ I!FIRST \in BankKey
      /\ \A j \in BankKey : v5[j] # None => v5[j] \in Nat /\ v5[j] <= v1 /\ (v5[j] < v7.at => j \in v7.keys)
  BY FirstKey DEF BankInv, HeldKnown
<1>2. CASE v1 >= v7.at + 5 \/ (k \notin v7.keys /\ v1 >= v7.at + 1)
  <2>1. I!KeysFor(k).keys = I!PublishedKeys /\ I!KeysFor(k).at = v1
    BY <1>2 DEF I!KeysFor
  <2>2. v5[I!FIRST] # None
    BY DEF BankInv, HeldKnown
  <2> QED BY <1>1, <2>1, <2>2 DEF I!PublishedKeys, Settled
<1>3. CASE ~(v1 >= v7.at + 5 \/ (k \notin v7.keys /\ v1 >= v7.at + 1))
  <2>1. I!KeysFor(k) = v7
    BY <1>3 DEF I!KeysFor
  <2>2. k \notin v7.keys => v1 < v7.at + 1
    <3>1. k \notin v7.keys => ~(v1 >= v7.at + 1)
      BY <1>3
    <3> QED BY <1>1, <3>1
  <2>3. Settled(k) => k \in v7.keys
    BY <1>1, <2>2 DEF Settled
  <2> QED BY <1>1, <2>1, <2>3
<1> QED BY <1>2, <1>3

LEMMA CompleteKeeps ==
  ASSUME BankInv, NEW a \in Handler, I!completeLogin(a)
  PROVE  BankInv'
<1> DEFINE t == v8[a].token
           found == I!KeysFor(t.key)
           answer == IF t.key \notin found.keys THEN "no key"
                     ELSE IF t.nonce # a THEN "unexpected nonce"
                     ELSE IF v3 /\ ~t.encrypted THEN "not encrypted"
                     ELSE I!identityFromClaims(t)
           l == [at |-> answer, mistaken |-> t.mistaken,
                 is |-> IF answer = "identified" THEN t.hetu ELSE None,
                 acr |-> IF answer = "identified" THEN t.acr ELSE None]
<1>1. /\ v8[a].at = "answered" /\ v7' = found /\ v8' = [v8 EXCEPT ![a] = l]
      /\ UNCHANGED <<v1, v2, v3, v4, v5, v6, v9>>
  BY DEF I!completeLogin
<1>2. t \in Tokens /\ TokenKnown(t, a)
  BY <1>1, LoginShapes DEF BankInv, LoginKnown
<1>3. t.key \in BankKey
  BY <1>2 DEF Tokens
<1>4. /\ I!FIRST \in found.keys /\ found.at \in Nat /\ found.at <= v1
      /\ \A j \in BankKey : v5[j] # None /\ v5[j] < found.at => j \in found.keys
      /\ Settled(t.key) => t.key \in found.keys
  BY <1>3, KeysAreFound
<1>5. HeldKnown'
  BY <1>1, <1>4 DEF BankInv, HeldKnown
<1> HIDE DEF t, found
<1>6. answer = "identified" => /\ t.hetu = a /\ t.acr # None /\ (v4 # {} => t.acr \in v4)
  BY <1>2 DEF TokenKnown, I!identityFromClaims
<1>7. ~t.mistaken /\ ~v9 /\ ~(v2 = "mock" /\ v3) => answer = "identified"
  <2> SUFFICES ASSUME ~t.mistaken, ~v9, ~(v2 = "mock" /\ v3) PROVE answer = "identified"
    OBVIOUS
  <2>1. t.key \in found.keys /\ t.nonce = a /\ t.hetu = a /\ t.acr = "asked" /\ (v2 = "telia" => t.encrypted)
    BY <1>2, <1>4 DEF TokenKnown, Unmistaken
  <2>2. I!identityFromClaims(t) = "identified"
    BY <2>1, BankConstants DEF I!identityFromClaims, BankInv
  <2> QED BY <2>1, <2>2 DEF BankInv
<1>8. answer \in Answers
  BY DEF Answers, I!identityFromClaims
<1> HIDE DEF answer
<1>9. l \in Logins /\ l.at = answer /\ l.mistaken = t.mistaken
      /\ (answer = "identified" => l.is = t.hetu /\ l.acr = t.acr)
  BY <1>2, <1>8 DEF Logins, Tokens
<1> HIDE DEF l
<1>10. LoginKnown(l, a)
  BY <1>6, <1>7, <1>8, <1>9 DEF LoginKnown, Answers
<1> QED BY <1>1, <1>5, <1>9, <1>10, LoginBecomes

LEMMA BankKeeps == BankInv /\ I!Next => BankInv'
<1> SUFFICES ASSUME BankInv, I!Next PROVE BankInv'
  OBVIOUS
<1>1. ASSUME NEW a \in Handler, I!startLogin(a) PROVE BankInv'
  <2> DEFINE l == [at |-> "sent"]
  <2>1. v8' = [v8 EXCEPT ![a] = l] /\ UNCHANGED <<v1, v2, v3, v4, v5, v6, v7, v9>>
    BY <1>1 DEF I!startLogin
  <2>2. l \in Logins /\ LoginKnown(l, a)
    BY DEF Logins, LoginKnown, Answers
  <2>3. HeldKnown'
    BY <2>1 DEF BankInv, HeldKnown
  <2> HIDE DEF l
  <2> QED BY <2>1, <2>2, <2>3, LoginBecomes
<1> QED BY <1>1, BankMoves, IdentifyKeeps, CompleteKeeps DEF I!Next

LEMMA BankSays == BankInv => I!LoginsAreTheirs /\ I!NoLoginFailsForUs
<1> SUFFICES ASSUME BankInv PROVE I!LoginsAreTheirs /\ I!NoLoginFailsForUs
  OBVIOUS
<1>1. \A a \in Handler : v8[a] \in Logins /\ LoginKnown(v8[a], a)
  BY DEF BankInv
<1>2. I!LoginsAreTheirs
  BY <1>1 DEF LoginKnown, I!LoginsAreTheirs
<1>3. I!NoLoginFailsForUs
  BY <1>1, LoginShapes DEF LoginKnown, I!NoLoginFailsForUs, Answers
<1> QED BY <1>2, <1>3

LEMMA BankTypesInit == I!Init => I!TypeOK
<1> SUFFICES ASSUME I!Init PROVE I!TypeOK
  OBVIOUS
<1>1. /\ v1 = 0 /\ v5 = [k \in BankKey |-> IF k = I!FIRST THEN 0 ELSE None]
      /\ v7 = [keys |-> {I!FIRST}, at |-> 0] /\ v8 = [a \in Handler |-> [at |-> "none"]] /\ v10 = 0
  BY DEF I!Init
<1>2. I!FIRST \in I!PublishedKeys
  BY <1>1, FirstKey, BankConstants DEF I!PublishedKeys
<1>3. 0 \in 0 .. BankTime /\ 0 \in 0 .. MaxFaults
  BY ServiceAssumption DEF I!BankAssumption
<1>4. v7.keys \subseteq I!PublishedKeys /\ v7.at <= v1
  BY <1>1, <1>2
<1> QED BY <1>1, <1>3, <1>4 DEF I!TypeOK

LEMMA BankTypesKeep ==
  ASSUME BankInv, I!TypeOK, I!Next, BankInv'
  PROVE  I!TypeOK'
<1>1. /\ \A a \in Handler : v8'[a] \in Logins
      /\ \A l \in Logins : l.at \in {"none", "sent", "answered", "identified", "no key",
                 "unexpected nonce", "not encrypted", "no identity code", "no acr", "unexpected acr"}
  BY DEF BankInv, Logins, Answers
<1>2. v1 \in Nat /\ v7.at \in Nat /\ BankTime \in Nat /\ MaxFaults \in Nat
  BY ServiceAssumption DEF BankInv, HeldKnown, I!BankAssumption
<1>3. /\ v1' \in 0 .. BankTime /\ v10' \in 0 .. MaxFaults
      /\ v7'.keys \subseteq I!PublishedKeys'
  <2>1. CASE I!Tick
    <3>1. v1' = v1 + 1 /\ v1 < BankTime /\ UNCHANGED <<v5, v7, v10>>
      BY <2>1 DEF I!Tick
    <3>2. v1 \in 0 .. BankTime /\ v10 \in 0 .. MaxFaults /\ v7.keys \subseteq I!PublishedKeys
      BY DEF I!TypeOK
    <3>3. v1' \in 0 .. BankTime
      BY <1>2, <3>1, <3>2
    <3> QED BY <3>1, <3>2, <3>3 DEF I!PublishedKeys
  <2>2. ASSUME NEW k \in BankKey, I!Publish(k) \/ I!SignWith(k)
        PROVE  /\ v1' \in 0 .. BankTime /\ v10' \in 0 .. MaxFaults
               /\ v7'.keys \subseteq I!PublishedKeys'
    <3>1. v1 # None
      BY <1>2, BankConstants
    <3>2. I!PublishedKeys \subseteq I!PublishedKeys'
      BY <2>2, <3>1 DEF I!Publish, I!SignWith, I!PublishedKeys, BankInv
    <3> QED BY <2>2, <3>2 DEF I!Publish, I!SignWith, I!TypeOK
  <2>3. ASSUME NEW a \in Handler, I!startLogin(a)
        PROVE  /\ v1' \in 0 .. BankTime /\ v10' \in 0 .. MaxFaults
               /\ v7'.keys \subseteq I!PublishedKeys'
    BY <2>3 DEF I!startLogin, I!TypeOK, I!PublishedKeys
  <2>4. ASSUME NEW a \in Handler, I!completeLogin(a)
        PROVE  /\ v1' \in 0 .. BankTime /\ v10' \in 0 .. MaxFaults
               /\ v7'.keys \subseteq I!PublishedKeys'
    <3>1. UNCHANGED <<v1, v5, v10>> /\ v7' = I!KeysFor(v8[a].token.key)
      BY <2>4 DEF I!completeLogin
    <3>2. v7' = v7 \/ v7' = [keys |-> I!PublishedKeys, at |-> v1]
      BY <3>1 DEF I!KeysFor
    <3>3. I!PublishedKeys' = I!PublishedKeys
      BY <3>1 DEF I!PublishedKeys
    <3>4. v7'.keys \subseteq I!PublishedKeys
      <4>1. v7.keys \subseteq I!PublishedKeys
        BY DEF I!TypeOK
      <4> QED BY <3>2, <4>1
    <3> QED BY <3>1, <3>3, <3>4 DEF I!TypeOK
  <2>5. ASSUME NEW a \in Handler, NEW t, I!Identify(a, t)
        PROVE  /\ v1' \in 0 .. BankTime /\ v10' \in 0 .. MaxFaults
               /\ v7'.keys \subseteq I!PublishedKeys'
    <3>1. v10' \in 0 .. MaxFaults
      <4>1. v10' = v10 \/ v10' = v10 + 1
        <5>1. v10' = v10 + (IF t.mistaken THEN 1 ELSE 0) /\ v10 \in 0 .. MaxFaults
          BY <2>5 DEF I!Identify, I!TypeOK
        <5> QED BY <5>1
      <4>2. v10' <= MaxFaults /\ v10 \in 0 .. MaxFaults
        BY <2>5 DEF I!Identify, I!TypeOK
      <4> QED BY <1>2, <4>1, <4>2
    <3> QED BY <2>5, <3>1 DEF I!Identify, I!TypeOK, I!PublishedKeys
  <2> QED BY <2>1, <2>2, <2>3, <2>4, <2>5 DEF I!Next
<1>4. v7'.at <= v1'
  BY DEF BankInv, HeldKnown
<1> QED BY <1>1, <1>3, <1>4 DEF I!TypeOK

-----------------------------------------------------------------------------
(* The exposure budget                                                     *)

LEMMA BudgetCounts == \A set : B!Cardinality(set) = Cardinality(set) /\ (B!IsFiniteSet(set) <=> IsFiniteSet(set))
BY Zenon DEF B!Cardinality, Cardinality, B!IsFiniteSet, IsFiniteSet

BudgetFetchCalls == [pc : {"fetch", "write"}, lock : Variant, at : Nat]
BudgetCardCalls  == [pc : {"card", "write"}, lock : {"cards"}, subject : Subject,
                     photos : SUBSET Photo, at : Nat]

BudgetTyped ==
  /\ v1 \in 1 .. BudgetDays
  /\ v2 \in [Photo -> {"pending", "approved", "gone"}]
  /\ v3 \in Seq([variant : Variant, at : Nat])
  /\ v4 \in [Photo -> Nat \cup {None}]
  /\ v5 \subseteq [subject : Subject, day : Nat]
  /\ v6 \in [Handler -> {B!Idle} \cup BudgetFetchCalls \cup BudgetCardCalls]

\* Nothing bears the date of a day to come.
BudgetDated ==
  /\ \A i \in DOMAIN v3 : v3[i].at \in 1 .. v1
  /\ \A p \in Photo : v4[p] # None => v4[p] \in 1 .. v1
  /\ \A r \in v5 : r.day \in 1 .. v1
  /\ \A c \in Handler : v6[c] # B!Idle => v6[c].at \in 1 .. v1

\* An advisory lock has one holder.
BudgetOneHolder ==
  \A c, d \in Handler :
    c # d /\ v6[c].pc = "write" /\ v6[d].pc = "write" => v6[c].lock # v6[d].lock

BudgetHasCard(c) == v6[c] \in BudgetCardCalls

\* Some photo of the card is gone: its insert will fail.
BudgetFails(c) == \E p \in v6[c].photos : v2[p] = "gone"

\* What is on a card was approved when the card was listed; what was shown is approved.
BudgetPhotosFit ==
  /\ \A p \in Photo : v4[p] # None => v2[p] = "approved"
  /\ \A c \in Handler : BudgetHasCard(c) =>
       /\ v6[c].photos # {}
       /\ \A p \in v6[c].photos : OwnerOf[p] = v6[c].subject /\ v2[p] # "pending"

\* Two cards of one subject were listed one after the other: but for photos that
\* are gone, the earlier is within the later.
BudgetWithin(c, d) == \A p \in v6[c].photos : v2[p] = "gone" \/ p \in v6[d].photos

BudgetChained ==
  \A c, d \in Handler :
    BudgetHasCard(c) /\ BudgetHasCard(d) /\ v6[c].subject = v6[d].subject => BudgetWithin(c, d) \/ BudgetWithin(d, c)

\* A photo of the subject that a card has not came on another card, which had
\* the photos of this one too.
BudgetShownTogether ==
  \A c \in Handler, q \in Photo :
    BudgetHasCard(c) /\ OwnerOf[q] = v6[c].subject /\ v4[q] # None /\ q \notin v6[c].photos =>
      \A p \in v6[c].photos : v2[p] = "gone" \/ (v4[p] # None /\ v4[p] >= v4[q])

\* Room: what a holder counted still leaves it some.
BudgetRoomForFetches ==
  \A c \in Handler :
    v6[c].pc = "write" /\ v6[c] \in BudgetFetchCalls =>
      Cardinality(B!Fetches(v6[c].lock, v6[c].at)) < FetchLimit

BudgetRoomForCards ==
  \A c \in Handler :
    v6[c].pc = "write" /\ BudgetHasCard(c) =>
      \/ Cardinality(B!ShownSince(v6[c].at)) < CardLimit
      \/ v6[c].subject \in B!ShownSince(v6[c].at)
      \/ BudgetFails(c)

\* Whoever was charged to a day is on a card dated that day or later.
BudgetChargedAreShown == \A r \in v5 : r.subject \in B!ShownSince(r.day)

BudgetFetchesOf(v, d) == {i \in DOMAIN v3 : v3[i].variant = v /\ v3[i].at = d}
BudgetChargedOn(d)    == {r \in v5 : r.day = d}

BudgetBudgeted ==
  \A d \in Nat :
    /\ \A v \in Variant : Cardinality(BudgetFetchesOf(v, d)) <= FetchLimit
    /\ Cardinality(BudgetChargedOn(d)) <= CardLimit

BudgetInv ==
  /\ BudgetTyped /\ BudgetDated /\ BudgetOneHolder
  /\ BudgetPhotosFit /\ BudgetChained /\ BudgetShownTogether
  /\ BudgetRoomForFetches /\ BudgetRoomForCards /\ BudgetChargedAreShown /\ BudgetBudgeted

-----------------------------------------------------------------------------
(* Calls, and the counted sets                                             *)

LEMMA BudgetCallShapes ==
  /\ B!Idle.pc = "idle" /\ B!Idle \notin BudgetFetchCalls /\ B!Idle \notin BudgetCardCalls
  /\ \A r \in BudgetFetchCalls : r # B!Idle /\ r.pc \in {"fetch", "write"} /\ r.lock \in Variant /\ r.at \in Nat
  /\ \A r \in BudgetCardCalls : /\ r # B!Idle /\ r.pc \in {"card", "write"} /\ r.lock = "cards"
                                /\ r.subject \in Subject /\ r.photos \subseteq Photo /\ r.at \in Nat
BY DEF B!Idle, BudgetFetchCalls, BudgetCardCalls

\* A call with a lock of a variant is a fetch's, one with the cards' a card's.
LEMMA BudgetCallKinds ==
  ASSUME B!BudgetAssumption, BudgetTyped, NEW c \in Handler
  PROVE  /\ v6[c] \in {B!Idle} \cup BudgetFetchCalls \cup BudgetCardCalls
         /\ v6[c].pc = "fetch" => v6[c] \in BudgetFetchCalls
         /\ v6[c].pc = "card" => v6[c] \in BudgetCardCalls
         /\ v6[c].pc = "write" /\ v6[c].lock \in Variant => v6[c] \in BudgetFetchCalls
         /\ v6[c].pc = "write" /\ v6[c].lock = "cards" => v6[c] \in BudgetCardCalls
         /\ v6[c].pc = "idle" <=> v6[c] = B!Idle
BY BudgetCallShapes DEF B!BudgetAssumption, BudgetTyped

LEMMA BudgetFetchesFinite ==
  ASSUME BudgetTyped
  PROVE  \A v, d : /\ IsFiniteSet(B!Fetches(v, d)) /\ Cardinality(B!Fetches(v, d)) \in Nat
                   /\ IsFiniteSet(BudgetFetchesOf(v, d)) /\ Cardinality(BudgetFetchesOf(v, d)) \in Nat
<1>1. IsFiniteSet(DOMAIN v3)
  <2>1. Len(v3) \in Nat /\ DOMAIN v3 = 1 .. Len(v3)
    BY DEF BudgetTyped
  <2> QED BY <2>1, FS_Interval
<1>2. \A v, d : B!Fetches(v, d) \in SUBSET DOMAIN v3 /\ BudgetFetchesOf(v, d) \in SUBSET DOMAIN v3
  BY DEF B!Fetches, BudgetFetchesOf
<1> QED BY <1>1, <1>2, FS_Subset, FS_CardinalityType

LEMMA BudgetFetchesOfWithin ==
  ASSUME BudgetTyped, NEW v, NEW d \in Nat
  PROVE  Cardinality(BudgetFetchesOf(v, d)) <= Cardinality(B!Fetches(v, d))
<1>1. BudgetFetchesOf(v, d) \in SUBSET B!Fetches(v, d)
  BY DEF BudgetTyped, BudgetFetchesOf, B!Fetches
<1> QED BY <1>1, BudgetFetchesFinite, FS_Subset

LEMMA BudgetShownFinite ==
  ASSUME B!BudgetAssumption
  PROVE  \A d : IsFiniteSet(B!ShownSince(d)) /\ Cardinality(B!ShownSince(d)) \in Nat
<1> SUFFICES ASSUME NEW d PROVE IsFiniteSet(B!ShownSince(d))
  BY FS_CardinalityType
<1> DEFINE Those == {q \in Photo : v4[q] # None /\ v4[q] >= d}
           f == [p \in Those |-> OwnerOf[p]]
<1>1. IsFiniteSet(Those)
  BY FS_Subset, BudgetCounts DEF B!BudgetAssumption
<1>2. f \in Surjection(Those, B!ShownSince(d))
  BY DEF B!ShownSince, Surjection
<1> QED BY <1>1, <1>2, FS_Surjection

\* A day's charges are no more than the subjects shown since.
LEMMA BudgetChargedBound ==
  ASSUME B!BudgetAssumption, BudgetTyped, BudgetChargedAreShown, NEW d \in Nat
  PROVE  /\ IsFiniteSet(BudgetChargedOn(d)) /\ Cardinality(BudgetChargedOn(d)) \in Nat
         /\ Cardinality(BudgetChargedOn(d)) <= Cardinality(B!ShownSince(d))
<1> DEFINE f == [r \in BudgetChargedOn(d) |-> r.subject]
<1>1. \A r \in BudgetChargedOn(d) : r \in [subject : Subject, day : Nat] /\ r.day = d /\ r.subject \in B!ShownSince(d)
  BY DEF BudgetTyped, BudgetChargedAreShown, BudgetChargedOn
<1>2. \A r, q \in BudgetChargedOn(d) : r.subject = q.subject => r = q
  BY <1>1
<1>3. f \in Injection(BudgetChargedOn(d), B!ShownSince(d))
  BY <1>1, <1>2 DEF Injection, IsInjective
<1>4. IsFiniteSet(B!ShownSince(d))
  BY BudgetShownFinite
<1> HIDE DEF f
<1> QED BY <1>3, <1>4, FS_Injection, FS_CardinalityType

-----------------------------------------------------------------------------
LEMMA BudgetInitInv == B!BudgetAssumption /\ B!Init => BudgetInv
<1> SUFFICES ASSUME B!BudgetAssumption, B!Init PROVE BudgetInv
  OBVIOUS
<1>1. \A c \in Handler : v6[c] = B!Idle /\ v6[c].pc = "idle" /\ ~BudgetHasCard(c)
  BY BudgetCallShapes DEF B!Init, BudgetHasCard
<1>2. BudgetTyped
  BY BudgetCallShapes DEF B!BudgetAssumption, B!Init, BudgetTyped
<1>3. BudgetDated
  BY <1>1 DEF B!Init, BudgetDated
<1>4. BudgetOneHolder /\ BudgetRoomForFetches /\ BudgetRoomForCards
  BY <1>1 DEF BudgetOneHolder, BudgetRoomForFetches, BudgetRoomForCards
<1>5. BudgetPhotosFit /\ BudgetChained /\ BudgetShownTogether
  BY <1>1 DEF B!Init, BudgetPhotosFit, BudgetChained, BudgetShownTogether
<1>6. BudgetChargedAreShown
  BY DEF B!Init, BudgetChargedAreShown
<1>7. BudgetBudgeted
  <2>1. \A v, d : BudgetFetchesOf(v, d) = {} /\ BudgetChargedOn(d) = {}
    BY DEF B!Init, BudgetFetchesOf, BudgetChargedOn
  <2> QED BY <2>1, FS_EmptySet DEF B!BudgetAssumption, BudgetBudgeted
<1> QED BY <1>2, <1>3, <1>4, <1>5, <1>6, <1>7 DEF BudgetInv

-----------------------------------------------------------------------------
(* A request goes on, and nothing else                                     *)

BudgetRowsUnchanged == UNCHANGED <<v1, v2, v3, v4, v5>>

LEMMA BudgetCallMoves ==
  ASSUME B!BudgetAssumption, BudgetInv, BudgetRowsUnchanged,
         NEW c \in Handler, NEW r \in {B!Idle} \cup BudgetFetchCalls \cup BudgetCardCalls,
         v6' = [v6 EXCEPT ![c] = r],
         r # B!Idle => r.at \in 1 .. v1,
         r.pc = "write" => \A d \in Handler \ {c} : v6[d].pc = "write" => v6[d].lock # r.lock,
         r \in BudgetCardCalls =>
           \/ BudgetHasCard(c) /\ r.subject = v6[c].subject /\ r.photos = v6[c].photos
           \/ r.photos = B!Approved(r.subject) /\ r.photos # {},
         r \in BudgetFetchCalls /\ r.pc = "write" => Cardinality(B!Fetches(r.lock, r.at)) < FetchLimit,
         r \in BudgetCardCalls /\ r.pc = "write" =>
           \/ Cardinality(B!ShownSince(r.at)) < CardLimit
           \/ r.subject \in B!ShownSince(r.at)
  PROVE  BudgetInv'
<1>1. /\ BudgetTyped /\ BudgetDated /\ BudgetOneHolder /\ BudgetPhotosFit /\ BudgetChained /\ BudgetShownTogether
      /\ BudgetRoomForFetches /\ BudgetRoomForCards /\ BudgetChargedAreShown /\ BudgetBudgeted
  BY DEF BudgetInv
<1>2. /\ v6' \in [Handler -> {B!Idle} \cup BudgetFetchCalls \cup BudgetCardCalls]
      /\ v6'[c] = r /\ \A d \in Handler \ {c} : v6'[d] = v6[d]
  BY <1>1 DEF BudgetTyped
<1>3. /\ v1' = v1 /\ v2' = v2 /\ v3' = v3 /\ v4' = v4 /\ v5' = v5
  BY DEF BudgetRowsUnchanged
<1>4. BudgetTyped'
  BY <1>1, <1>2, <1>3 DEF BudgetTyped
<1>5. BudgetDated'
  BY <1>1, <1>2, <1>3 DEF BudgetDated
<1>6. BudgetOneHolder'
  BY <1>1, <1>2 DEF BudgetOneHolder
<1>7. BudgetPhotosFit'
  <2>1. ASSUME NEW d \in Handler, BudgetHasCard(d)'
        PROVE  /\ v6'[d].photos # {}
               /\ \A p \in v6'[d].photos : OwnerOf[p] = v6'[d].subject /\ v2[p] # "pending"
    <3>1. CASE d # c
      BY <1>1, <1>2, <2>1, <3>1 DEF BudgetPhotosFit, BudgetHasCard
    <3>2. CASE d = c
      BY <1>1, <1>2, <2>1, <3>2 DEF BudgetPhotosFit, BudgetHasCard, B!Approved
    <3> QED BY <3>1, <3>2
  <2> QED BY <1>1, <1>3, <2>1 DEF BudgetPhotosFit
\* A card listed now has every photo that is approved.
<1>8. \A s : \A p \in Photo : OwnerOf[p] = s /\ v2[p] = "approved" => p \in B!Approved(s)
  BY DEF B!Approved
<1>9. ASSUME NEW d \in Handler, BudgetHasCard(d), NEW p \in v6[d].photos
      PROVE  /\ p \in Photo /\ OwnerOf[p] = v6[d].subject
             /\ v2[p] = "gone" \/ p \in B!Approved(v6[d].subject)
  BY <1>1, <1>8, <1>9, BudgetCallShapes DEF BudgetPhotosFit, BudgetHasCard, BudgetTyped
<1>10. BudgetChained'
  <2>1. ASSUME NEW d \in Handler, d # c, BudgetHasCard(d), r \in BudgetCardCalls, v6[d].subject = r.subject
        PROVE  \/ \A p \in r.photos : v2[p] = "gone" \/ p \in v6[d].photos
               \/ \A p \in v6[d].photos : v2[p] = "gone" \/ p \in r.photos
    <3>1. CASE BudgetHasCard(c) /\ r.subject = v6[c].subject /\ r.photos = v6[c].photos
      BY <1>1, <2>1, <3>1 DEF BudgetChained, BudgetWithin
    <3>2. CASE r.photos = B!Approved(r.subject)
      BY <1>9, <2>1, <3>2
    <3> QED BY <2>1, <3>1, <3>2
  <2> QED BY <1>1, <1>2, <1>3, <2>1 DEF BudgetChained, BudgetWithin, BudgetHasCard
<1>11. BudgetShownTogether'
  <2>1. ASSUME NEW q \in Photo, r \in BudgetCardCalls, OwnerOf[q] = r.subject, v4[q] # None,
               q \notin r.photos, NEW p \in r.photos
        PROVE  v2[p] = "gone" \/ (v4[p] # None /\ v4[p] >= v4[q])
    <3>1. CASE BudgetHasCard(c) /\ r.subject = v6[c].subject /\ r.photos = v6[c].photos
      BY <1>1, <2>1, <3>1 DEF BudgetShownTogether
    <3>2. CASE r.photos = B!Approved(r.subject)
      BY <1>1, <1>8, <2>1, <3>2 DEF BudgetPhotosFit
    <3> QED BY <2>1, <3>1, <3>2
  <2> QED BY <1>1, <1>2, <1>3, <2>1 DEF BudgetShownTogether, BudgetHasCard
<1>12. BudgetRoomForFetches'
  BY <1>1, <1>2, <1>3 DEF BudgetRoomForFetches, B!Fetches
<1>13. BudgetRoomForCards'
  BY <1>1, <1>2, <1>3 DEF BudgetRoomForCards, BudgetHasCard, BudgetFails, B!ShownSince
<1>14. BudgetChargedAreShown' /\ BudgetBudgeted'
  BY <1>1, <1>3 DEF BudgetChargedAreShown, BudgetBudgeted, B!ShownSince, BudgetFetchesOf, BudgetChargedOn
<1> QED BY <1>4, <1>5, <1>6, <1>7, <1>10, <1>11, <1>12, <1>13, <1>14 DEF BudgetInv

-----------------------------------------------------------------------------
(* The requests                                                            *)

LEMMA BudgetStopKeeps ==
  ASSUME B!BudgetAssumption, BudgetInv, BudgetRowsUnchanged, NEW c \in Handler, B!Become(c, B!Idle)
  PROVE  BudgetInv'
BY BudgetCallMoves, BudgetCallShapes DEF B!Become

LEMMA BudgetBeginFetchKeeps ==
  ASSUME B!BudgetAssumption, BudgetInv, NEW c \in Handler, NEW p \in Photo, NEW v \in Variant,
         B!BeginFetch(c, p, v)
  PROVE  BudgetInv'
<1> DEFINE r == [pc |-> "fetch", lock |-> v, at |-> v1]
<1>1. v1 \in Nat /\ v1 \in 1 .. v1
  BY DEF B!BudgetAssumption, BudgetInv, BudgetTyped
<1>2. r \in BudgetFetchCalls /\ r.pc = "fetch" /\ r.at \in 1 .. v1
  BY <1>1 DEF BudgetFetchCalls
<1>3. v6' = [v6 EXCEPT ![c] = r] /\ BudgetRowsUnchanged
  BY DEF B!BeginFetch, B!Become, BudgetRowsUnchanged
<1>4. r \notin BudgetCardCalls
  BY <1>2, BudgetCallShapes DEF B!BudgetAssumption
<1> HIDE DEF r
<1> QED BY <1>2, <1>3, <1>4, BudgetCallMoves

LEMMA BudgetCountFetchesKeeps ==
  ASSUME B!BudgetAssumption, BudgetInv, NEW c \in Handler, B!CountFetches(c)
  PROVE  BudgetInv'
<1>1. BudgetTyped /\ BudgetDated /\ v6[c].pc = "fetch" /\ BudgetRowsUnchanged
  BY DEF BudgetInv, B!CountFetches, BudgetRowsUnchanged
<1>2. v6[c] \in BudgetFetchCalls
  BY <1>1, BudgetCallKinds
<1>3. CASE Cardinality(B!Fetches(v6[c].lock, v6[c].at)) < FetchLimit
  <2> DEFINE r == [v6[c] EXCEPT !.pc = "write"]
  <2>1. r \in BudgetFetchCalls /\ r.pc = "write" /\ r.lock = v6[c].lock /\ r.at = v6[c].at
    BY <1>2 DEF BudgetFetchCalls
  <2>2. v6' = [v6 EXCEPT ![c] = r]
    BY <1>3, BudgetCounts DEF B!CountFetches, B!Become
  <2>3. \A d \in Handler : v6[d].pc = "write" => v6[d].lock # r.lock
    BY <2>1 DEF B!CountFetches, B!Unlocked, B!Holds
  <2>4. r \notin BudgetCardCalls /\ r.at \in 1 .. v1
    BY <1>1, <1>2, <2>1, BudgetCallShapes DEF B!BudgetAssumption, BudgetDated
  <2> HIDE DEF r
  <2> QED BY <1>1, <1>3, <2>1, <2>2, <2>3, <2>4, BudgetCallMoves
<1>4. CASE ~(Cardinality(B!Fetches(v6[c].lock, v6[c].at)) < FetchLimit)
  BY <1>1, <1>4, BudgetStopKeeps, BudgetCounts DEF B!CountFetches
<1> QED BY <1>3, <1>4

LEMMA BudgetBeginCardKeeps ==
  ASSUME B!BudgetAssumption, BudgetInv, NEW c \in Handler, NEW s \in Subject, B!BeginCard(c, s)
  PROVE  BudgetInv'
<1> DEFINE r == [pc |-> "card", lock |-> "cards", subject |-> s, photos |-> B!Approved(s), at |-> v1]
<1>1. v1 \in Nat /\ v1 \in 1 .. v1 /\ B!Approved(s) \in SUBSET Photo
  BY DEF B!BudgetAssumption, BudgetInv, BudgetTyped, B!Approved
<1>2. /\ r \in BudgetCardCalls /\ r.pc = "card" /\ r.at \in 1 .. v1
      /\ r.subject = s /\ r.photos = B!Approved(s)
  BY <1>1 DEF BudgetCardCalls
<1>3. v6' = [v6 EXCEPT ![c] = r] /\ BudgetRowsUnchanged /\ B!Approved(s) # {}
  BY DEF B!BeginCard, B!Become, BudgetRowsUnchanged
<1>4. r \notin BudgetFetchCalls
  BY <1>2, BudgetCallShapes DEF B!BudgetAssumption
<1> HIDE DEF r
<1> QED BY <1>2, <1>3, <1>4, BudgetCallMoves

LEMMA BudgetCountCardsKeeps ==
  ASSUME B!BudgetAssumption, BudgetInv, NEW c \in Handler, B!CountCards(c)
  PROVE  BudgetInv'
<1>1. BudgetTyped /\ BudgetDated /\ v6[c].pc = "card" /\ BudgetRowsUnchanged
  BY DEF BudgetInv, B!CountCards, BudgetRowsUnchanged
<1>2. v6[c] \in BudgetCardCalls
  BY <1>1, BudgetCallKinds
<1>3. CASE \/ Cardinality(B!ShownSince(v6[c].at)) < CardLimit
           \/ v6[c].subject \in B!ShownSince(v6[c].at)
  <2> DEFINE r == [v6[c] EXCEPT !.pc = "write"]
  <2>1. /\ r \in BudgetCardCalls /\ r.pc = "write" /\ r.lock = "cards" /\ r.at = v6[c].at
        /\ r.subject = v6[c].subject /\ r.photos = v6[c].photos
    BY <1>2 DEF BudgetCardCalls
  <2>2. v6' = [v6 EXCEPT ![c] = r]
    BY <1>3, BudgetCounts DEF B!CountCards, B!Become
  <2>3. \A d \in Handler : v6[d].pc = "write" => v6[d].lock # r.lock
    BY <2>1 DEF B!CountCards, B!Unlocked, B!Holds
  <2>4. r \notin BudgetFetchCalls /\ r.at \in 1 .. v1
    BY <1>1, <1>2, <2>1, BudgetCallShapes DEF B!BudgetAssumption, BudgetDated
  <2> HIDE DEF r
  <2> QED BY <1>1, <1>2, <1>3, <2>1, <2>2, <2>3, <2>4, BudgetCallMoves DEF BudgetHasCard
<1>4. CASE ~(\/ Cardinality(B!ShownSince(v6[c].at)) < CardLimit
             \/ v6[c].subject \in B!ShownSince(v6[c].at))
  BY <1>1, <1>4, BudgetStopKeeps, BudgetCounts DEF B!CountCards
<1> QED BY <1>3, <1>4

\* A request that ends takes its lock and its card out of the invariant.
LEMMA BudgetEndedCall ==
  ASSUME B!BudgetAssumption, BudgetInv, NEW c \in Handler, B!Become(c, B!Idle)
  PROVE  /\ v6' \in [Handler -> {B!Idle} \cup BudgetFetchCalls \cup BudgetCardCalls]
         /\ v6'[c] = B!Idle /\ \A d \in Handler \ {c} : v6'[d] = v6[d]
         /\ BudgetOneHolder'
         /\ \A d \in Handler : BudgetHasCard(d)' => d # c /\ BudgetHasCard(d)
         /\ v6'[c].pc # "write"
BY BudgetCallShapes DEF BudgetInv, BudgetTyped, B!Become, BudgetOneHolder, BudgetHasCard

\* What a fetch adds to the sets that are counted.
LEMMA BudgetFetchAdded ==
  ASSUME BudgetTyped, NEW e \in [variant : Variant, at : Nat], v3' = Append(v3, e)
  PROVE  \E n \in Nat :
           /\ DOMAIN v3' = DOMAIN v3 \cup {n} /\ n \notin DOMAIN v3 /\ v3'[n] = e
           /\ \A i \in DOMAIN v3 : v3'[i] = v3[i]
<1>1. Len(v3) \in Nat /\ DOMAIN v3 = 1 .. Len(v3)
  BY DEF BudgetTyped
<1>2. /\ DOMAIN v3' = 1 .. Len(v3) + 1 /\ v3'[Len(v3) + 1] = e
      /\ \A i \in 1 .. Len(v3) : v3'[i] = v3[i]
  BY <1>1 DEF BudgetTyped
<1> QED BY <1>1, <1>2

LEMMA BudgetWriteFetchKeeps ==
  ASSUME B!BudgetAssumption, BudgetInv, NEW c \in Handler, B!WriteFetch(c)
  PROVE  BudgetInv'
<1>1. /\ BudgetTyped /\ BudgetDated /\ BudgetOneHolder /\ BudgetPhotosFit /\ BudgetChained /\ BudgetShownTogether
      /\ BudgetRoomForFetches /\ BudgetRoomForCards /\ BudgetChargedAreShown /\ BudgetBudgeted
  BY DEF BudgetInv
<1>2. /\ v1' = v1 /\ v2' = v2 /\ v4' = v4 /\ v5' = v5 /\ B!Become(c, B!Idle)
      /\ v6[c].pc = "write" /\ v6[c].lock \in Variant
  BY DEF B!WriteFetch
<1>3. v6[c] \in BudgetFetchCalls /\ v6[c].at \in 1 .. v1 /\ v6[c].at \in Nat
  BY <1>1, <1>2, BudgetCallKinds, BudgetCallShapes DEF BudgetDated
<1> PICK v \in Variant, t \in Nat : v = v6[c].lock /\ t = v6[c].at
  BY <1>2, <1>3
<1> DEFINE e == [variant |-> v, at |-> t]
<1>4. v3' = Append(v3, e) /\ e \in [variant : Variant, at : Nat]
  BY DEF B!WriteFetch
<1>5. PICK n \in Nat :
           /\ DOMAIN v3' = DOMAIN v3 \cup {n} /\ n \notin DOMAIN v3
           /\ v3'[n].variant = v /\ v3'[n].at = t
           /\ \A i \in DOMAIN v3 : v3'[i] = v3[i]
  BY <1>1, <1>4, BudgetFetchAdded
<1>6. /\ v6' \in [Handler -> {B!Idle} \cup BudgetFetchCalls \cup BudgetCardCalls]
      /\ v6'[c] = B!Idle /\ \A d \in Handler \ {c} : v6'[d] = v6[d]
      /\ BudgetOneHolder' /\ v6'[c].pc # "write"
      /\ \A d \in Handler : BudgetHasCard(d)' => d # c /\ BudgetHasCard(d)
  BY <1>2, BudgetEndedCall
<1>7. BudgetTyped'
  BY <1>1, <1>2, <1>4, <1>6 DEF BudgetTyped
<1>8. BudgetDated'
  BY <1>1, <1>2, <1>3, <1>5, <1>6 DEF BudgetDated
<1>9. BudgetPhotosFit' /\ BudgetChained' /\ BudgetShownTogether' /\ BudgetRoomForCards'
  <2>1. BudgetPhotosFit'
    BY <1>1, <1>2, <1>6 DEF BudgetPhotosFit
  <2>2. BudgetChained'
    BY <1>1, <1>2, <1>6 DEF BudgetChained, BudgetWithin
  <2>3. BudgetShownTogether'
    BY <1>1, <1>2, <1>6 DEF BudgetShownTogether
  <2>4. BudgetRoomForCards'
    BY <1>1, <1>2, <1>6 DEF BudgetRoomForCards, BudgetFails, B!ShownSince
  <2> QED BY <2>1, <2>2, <2>3, <2>4
<1>10. BudgetRoomForFetches'
  <2>1. \A u, a : u # v => B!Fetches(u, a)' = B!Fetches(u, a)
    BY <1>5 DEF B!Fetches
  <2>2. ASSUME NEW d \in Handler, v6'[d].pc = "write", v6'[d] \in BudgetFetchCalls
        PROVE  \E u, a : u = v6'[d].lock /\ a = v6'[d].at /\ Cardinality(B!Fetches(u, a)') < FetchLimit
    <3>1. d # c /\ v6'[d] = v6[d] /\ v6[d].lock # v
      BY <1>1, <1>2, <1>6, <2>2 DEF BudgetOneHolder
    <3>2. Cardinality(B!Fetches(v6[d].lock, v6[d].at)) < FetchLimit
      BY <1>1, <2>2, <3>1 DEF BudgetRoomForFetches
    <3> QED BY <2>1, <3>1, <3>2
  <2> QED BY <2>2 DEF BudgetRoomForFetches, B!Fetches
<1>11. BudgetBudgeted'
  <2>1. ASSUME NEW u \in Variant, NEW d \in Nat
        PROVE  Cardinality(BudgetFetchesOf(u, d)') <= FetchLimit
    <3>1. CASE u = v /\ d = t
      <4>1. BudgetFetchesOf(u, d)' = BudgetFetchesOf(u, d) \cup {n} /\ n \notin BudgetFetchesOf(u, d)
        BY <1>5, <3>1 DEF BudgetFetchesOf
      <4>2. Cardinality(BudgetFetchesOf(u, d)') = Cardinality(BudgetFetchesOf(u, d)) + 1
        BY <1>1, <4>1, BudgetFetchesFinite, FS_AddElement
      <4>3. Cardinality(BudgetFetchesOf(u, d)) <= Cardinality(B!Fetches(u, d))
        BY <1>1, BudgetFetchesOfWithin
      <4>4. Cardinality(B!Fetches(u, d)) < FetchLimit
        BY <1>1, <1>2, <1>3, <3>1 DEF BudgetRoomForFetches
      <4>5. FetchLimit \in Nat
        BY DEF B!BudgetAssumption
      <4>6. Cardinality(BudgetFetchesOf(u, d)) \in Nat /\ Cardinality(B!Fetches(u, d)) \in Nat
        BY <1>1, BudgetFetchesFinite
      <4> QED BY <4>2, <4>3, <4>4, <4>5, <4>6
    <3>2. CASE ~(u = v /\ d = t)
      <4>1. BudgetFetchesOf(u, d)' = BudgetFetchesOf(u, d)
        BY <1>5, <3>2 DEF BudgetFetchesOf
      <4> QED BY <1>1, <4>1 DEF BudgetBudgeted
    <3> QED BY <3>1, <3>2
  <2>2. \A d \in Nat : Cardinality(BudgetChargedOn(d)') <= CardLimit
    BY <1>1, <1>2 DEF BudgetBudgeted, BudgetChargedOn
  <2> QED BY <2>1, <2>2 DEF BudgetBudgeted, BudgetFetchesOf, BudgetChargedOn
<1>12. BudgetChargedAreShown'
  BY <1>1, <1>2 DEF BudgetChargedAreShown, B!ShownSince
<1> QED BY <1>6, <1>7, <1>8, <1>9, <1>10, <1>11, <1>12 DEF BudgetInv

-----------------------------------------------------------------------------
(* A card is written                                                       *)

\* The dates of the card's photos are the request's or later, the others stay.
LEMMA BudgetRedating ==
  ASSUME B!BudgetAssumption, BudgetTyped, NEW Those \in SUBSET Photo, NEW t \in Nat,
         v4' = [p \in Photo |-> IF p \in Those THEN B!Redated(p, t) ELSE v4[p]]
  PROVE  /\ v4' \in [Photo -> Nat \cup {None}]
         /\ \A p \in Those : /\ v4'[p] \in Nat /\ v4'[p] >= t
                             /\ v4'[p] = t \/ (v4[p] # None /\ v4'[p] = v4[p])
         /\ \A p \in Photo \ Those : v4'[p] = v4[p]
         /\ \A p \in Photo : v4[p] # None => v4'[p] # None /\ v4'[p] >= v4[p]
BY DEF B!BudgetAssumption, BudgetTyped, B!Redated

LEMMA BudgetWriteCardKeeps ==
  ASSUME B!BudgetAssumption, BudgetInv, NEW c \in Handler, B!WriteCard(c)
  PROVE  BudgetInv'
<1>1. /\ BudgetTyped /\ BudgetDated /\ BudgetOneHolder /\ BudgetPhotosFit /\ BudgetChained /\ BudgetShownTogether
      /\ BudgetRoomForFetches /\ BudgetRoomForCards /\ BudgetChargedAreShown /\ BudgetBudgeted
  BY DEF BudgetInv
<1>2. /\ v1' = v1 /\ v2' = v2 /\ v3' = v3 /\ B!Become(c, B!Idle)
      /\ v6[c].pc = "write" /\ v6[c].lock = "cards"
  BY DEF B!WriteCard
<1>3. CASE BudgetFails(c)
  <2>1. BudgetRowsUnchanged
    BY <1>2, <1>3 DEF B!WriteCard, BudgetFails, BudgetRowsUnchanged
  <2> QED BY <1>2, <2>1, BudgetStopKeeps
<1>4. CASE ~BudgetFails(c)
  <2>1. BudgetHasCard(c)
    BY <1>1, <1>2, BudgetCallKinds DEF BudgetHasCard
  <2>2. /\ v6[c].subject \in Subject /\ v6[c].photos \in SUBSET Photo
        /\ v6[c].at \in Nat /\ v6[c].at \in 1 .. v1
    BY <1>1, <2>1, BudgetCallShapes DEF BudgetHasCard, BudgetDated
  <2> PICK s \in Subject, Those \in SUBSET Photo, t \in Nat :
        s = v6[c].subject /\ Those = v6[c].photos /\ t = v6[c].at
    BY <2>2
  <2>3. /\ Those # {} /\ t \in 1 .. v1
        /\ \A p \in Those : OwnerOf[p] = s /\ v2[p] = "approved"
    <3>1. \A p \in Those : v2[p] \in {"pending", "approved", "gone"}
      BY <1>1 DEF BudgetTyped
    <3> QED BY <1>1, <1>4, <2>1, <2>2, <3>1 DEF BudgetPhotosFit, BudgetFails
  <2>4. /\ v4' = [p \in Photo |-> IF p \in Those THEN B!Redated(p, t) ELSE v4[p]]
        /\ v5' = IF s \in B!ShownSince(t) THEN v5
                      ELSE v5 \cup {[subject |-> s, day |-> t]}
    BY <1>4 DEF B!WriteCard, BudgetFails
  <2>5. /\ v4' \in [Photo -> Nat \cup {None}]
        /\ \A p \in Those : /\ v4'[p] \in Nat /\ v4'[p] >= t
                            /\ v4'[p] = t \/ (v4[p] # None /\ v4'[p] = v4[p])
        /\ \A p \in Photo \ Those : v4'[p] = v4[p]
        /\ \A p \in Photo : v4[p] # None => v4'[p] # None /\ v4'[p] >= v4[p]
    BY <1>1, <2>4, BudgetRedating
  <2>6. /\ v6' \in [Handler -> {B!Idle} \cup BudgetFetchCalls \cup BudgetCardCalls]
        /\ v6'[c] = B!Idle /\ \A d \in Handler \ {c} : v6'[d] = v6[d]
        /\ BudgetOneHolder' /\ v6'[c].pc # "write"
        /\ \A d \in Handler : BudgetHasCard(d)' => d # c /\ BudgetHasCard(d)
    BY <1>2, BudgetEndedCall
  <2>7. None \notin Nat
    BY DEF B!BudgetAssumption
  <2>8. BudgetTyped'
    <3>1. v5' \subseteq [subject : Subject, day : Nat]
      BY <1>1, <2>4 DEF BudgetTyped
    <3> QED BY <1>1, <1>2, <2>5, <2>6, <3>1 DEF BudgetTyped
  <2>9. BudgetDated'
    <3>1. \A p \in Photo : v4'[p] # None => v4'[p] \in 1 .. v1
      BY <1>1, <2>3, <2>5 DEF BudgetDated
    <3>2. \A r \in v5' : r.day \in 1 .. v1
      BY <1>1, <2>3, <2>4 DEF BudgetDated
    <3> QED BY <1>1, <1>2, <2>6, <3>1, <3>2 DEF BudgetDated
  <2>10. BudgetPhotosFit'
    BY <1>1, <1>2, <2>3, <2>5, <2>6 DEF BudgetPhotosFit
  <2>11. BudgetChained'
    BY <1>1, <1>2, <2>6 DEF BudgetChained, BudgetWithin
  <2>12. BudgetShownTogether'
    <3>1. ASSUME NEW d \in Handler, BudgetHasCard(d), NEW q \in Photo, OwnerOf[q] = v6[d].subject,
                 v4'[q] # None, q \notin v6[d].photos, NEW p \in v6[d].photos,
                 v2[p] # "gone"
          PROVE  v4'[p] # None /\ v4'[p] >= v4'[q]
      <4>1. p \in Photo /\ v6[d].photos \subseteq Photo
        BY <3>1, BudgetCallShapes DEF BudgetHasCard
      <4>2. ASSUME v4[q] # None
            PROVE  v4[p] # None /\ v4[p] \in Nat /\ v4[q] \in Nat /\ v4[p] >= v4[q]
        BY <1>1, <3>1, <4>1, <4>2 DEF BudgetShownTogether, BudgetTyped
      <4>3. CASE q \notin Those
        BY <1>1, <2>5, <3>1, <4>1, <4>2, <4>3 DEF BudgetTyped
      <4>4. CASE q \in Those
        <5>1. v6[d].subject = s /\ ~BudgetWithin(c, d)
          BY <2>3, <3>1, <4>4 DEF BudgetWithin
        <5>2. p \in Those
          BY <1>1, <2>1, <3>1, <5>1 DEF BudgetChained, BudgetWithin
        <5>3. v4'[p] \in Nat /\ v4'[p] >= t /\ v4'[p] # None
          BY <2>5, <2>7, <5>2
        <5>4. CASE v4'[q] = t
          BY <5>3, <5>4
        <5>5. CASE v4[q] # None /\ v4'[q] = v4[q]
          <6>1. v4[p] \in Nat /\ v4[q] \in Nat /\ v4[p] >= v4[q] /\ v4'[p] >= v4[p]
            BY <2>5, <4>1, <4>2, <5>5
          <6> QED BY <5>3, <5>5, <6>1
        <5> QED BY <2>5, <4>4, <5>4, <5>5
      <4> QED BY <4>3, <4>4
    <3> QED BY <1>2, <2>6, <3>1 DEF BudgetShownTogether
  <2>13. BudgetRoomForFetches'
    BY <1>1, <1>2, <2>6 DEF BudgetRoomForFetches, B!Fetches
  <2>14. BudgetRoomForCards'
    <3>1. \A d \in Handler : BudgetHasCard(d) => v6[d].lock = "cards"
      BY BudgetCallShapes DEF BudgetHasCard
    <3> QED BY <1>1, <1>2, <2>6, <3>1 DEF BudgetRoomForCards, BudgetOneHolder
  <2>15. BudgetChargedAreShown'
    <3>1. ASSUME NEW r \in v5 PROVE r.subject \in B!ShownSince(r.day)'
      BY <1>1, <2>5, <3>1 DEF BudgetChargedAreShown, B!ShownSince, BudgetTyped
    <3>2. s \in B!ShownSince(t)'
      <4>1. PICK p \in Those : p \in Photo
        BY <2>3
      <4> QED BY <2>3, <2>5, <2>7, <4>1 DEF B!ShownSince
    <3>3. \A r \in v5' : r \in v5 \/ (r.subject = s /\ r.day = t)
      BY <2>4
    <3> QED BY <3>1, <3>2, <3>3 DEF BudgetChargedAreShown, B!ShownSince
  <2>16. BudgetBudgeted'
    <3>1. ASSUME NEW d \in Nat PROVE Cardinality(BudgetChargedOn(d)') <= CardLimit
      <4>1. CASE d # t \/ s \in B!ShownSince(t)
        <5>1. BudgetChargedOn(d)' = BudgetChargedOn(d)
          BY <2>4, <4>1 DEF BudgetChargedOn
        <5> QED BY <1>1, <5>1 DEF BudgetBudgeted
      <4>2. CASE d = t /\ s \notin B!ShownSince(t)
        <5> DEFINE r == [subject |-> s, day |-> t]
        <5>1. BudgetChargedOn(d)' = BudgetChargedOn(d) \cup {r}
          BY <2>4, <4>2 DEF BudgetChargedOn
        <5>2. Cardinality(B!ShownSince(t)) < CardLimit
          BY <1>1, <1>2, <1>4, <2>1, <4>2 DEF BudgetRoomForCards
        <5>3. /\ IsFiniteSet(BudgetChargedOn(d)) /\ Cardinality(BudgetChargedOn(d)) \in Nat
              /\ Cardinality(BudgetChargedOn(d)) <= Cardinality(B!ShownSince(t))
          BY <1>1, <4>2, BudgetChargedBound
        <5>4. /\ Cardinality(B!ShownSince(t)) \in Nat /\ CardLimit \in Nat
          BY BudgetShownFinite DEF B!BudgetAssumption
        <5> HIDE DEF r
        <5>5. Cardinality(BudgetChargedOn(d)') <= Cardinality(BudgetChargedOn(d)) + 1
          <6>1. /\ IsFiniteSet(BudgetChargedOn(d) \cup {r})
                /\ Cardinality(BudgetChargedOn(d) \cup {r}) =
                     (IF r \in BudgetChargedOn(d) THEN Cardinality(BudgetChargedOn(d)) ELSE Cardinality(BudgetChargedOn(d)) + 1)
            BY <5>3, FS_AddElement
          <6>2. \/ Cardinality(BudgetChargedOn(d) \cup {r}) = Cardinality(BudgetChargedOn(d))
                \/ Cardinality(BudgetChargedOn(d) \cup {r}) = Cardinality(BudgetChargedOn(d)) + 1
            BY <6>1
          <6> QED BY <5>1, <5>3, <6>2
        <5>6. Cardinality(BudgetChargedOn(d)') \in Nat
          BY <5>1, <5>3, FS_AddElement, FS_CardinalityType
        <5> QED BY <5>2, <5>3, <5>4, <5>5, <5>6
      <4> QED BY <4>1, <4>2
    <3>2. \A v, d : BudgetFetchesOf(v, d)' = BudgetFetchesOf(v, d)
      BY <1>2 DEF BudgetFetchesOf
    <3> QED BY <1>1, <3>1, <3>2 DEF BudgetBudgeted, BudgetChargedOn
  <2> QED BY <2>6, <2>8, <2>9, <2>10, <2>11, <2>12, <2>13, <2>14, <2>15, <2>16 DEF BudgetInv
<1> QED BY <1>3, <1>4

-----------------------------------------------------------------------------
(* Others' photos, and the day                                             *)

LEMMA BudgetApproveKeeps ==
  ASSUME B!BudgetAssumption, BudgetInv, NEW x \in Photo, B!Approve(x)
  PROVE  BudgetInv'
<1>1. /\ BudgetTyped /\ BudgetDated /\ BudgetOneHolder /\ BudgetPhotosFit /\ BudgetChained /\ BudgetShownTogether
      /\ BudgetRoomForFetches /\ BudgetRoomForCards /\ BudgetChargedAreShown /\ BudgetBudgeted
  BY DEF BudgetInv
<1>2. /\ v2' \in [Photo -> {"pending", "approved", "gone"}]
      /\ \A p \in Photo : /\ v2'[p] = "gone" <=> v2[p] = "gone"
                          /\ v2[p] = "approved" => v2'[p] = "approved"
                          /\ v2[p] # "pending" => v2'[p] # "pending"
      /\ UNCHANGED <<v1, v3, v4, v5, v6>>
  BY <1>1 DEF B!Approve, BudgetTyped
<1>3. \A c \in Handler : BudgetHasCard(c) => v6[c].photos \subseteq Photo
  BY BudgetCallShapes DEF BudgetHasCard
<1>4. BudgetTyped' /\ BudgetDated' /\ BudgetOneHolder'
  BY <1>1, <1>2 DEF BudgetTyped, BudgetDated, BudgetOneHolder
<1>5. BudgetPhotosFit'
  BY <1>1, <1>2, <1>3 DEF BudgetPhotosFit, BudgetHasCard
<1>6. BudgetChained'
  BY <1>1, <1>2, <1>3 DEF BudgetChained, BudgetWithin, BudgetHasCard
<1>7. BudgetShownTogether'
  BY <1>1, <1>2, <1>3 DEF BudgetShownTogether, BudgetHasCard
<1>8. BudgetRoomForFetches' /\ BudgetChargedAreShown' /\ BudgetBudgeted'
  BY <1>1, <1>2 DEF BudgetRoomForFetches, B!Fetches, BudgetChargedAreShown, B!ShownSince, BudgetBudgeted, BudgetFetchesOf, BudgetChargedOn
<1>9. BudgetRoomForCards'
  BY <1>1, <1>2, <1>3 DEF BudgetRoomForCards, BudgetHasCard, BudgetFails, B!ShownSince
<1> QED BY <1>4, <1>5, <1>6, <1>7, <1>8, <1>9 DEF BudgetInv

LEMMA BudgetDeleteKeeps ==
  ASSUME B!BudgetAssumption, BudgetInv, NEW x \in Photo, B!DeletePhoto(x)
  PROVE  BudgetInv'
<1>1. /\ BudgetTyped /\ BudgetDated /\ BudgetOneHolder /\ BudgetPhotosFit /\ BudgetChained /\ BudgetShownTogether
      /\ BudgetRoomForFetches /\ BudgetRoomForCards /\ BudgetChargedAreShown /\ BudgetBudgeted
  BY DEF BudgetInv
<1>2. /\ v2' \in [Photo -> {"pending", "approved", "gone"}] /\ v2'[x] = "gone"
      /\ \A p \in Photo \ {x} : v2'[p] = v2[p]
      /\ v4' \in [Photo -> Nat \cup {None}] /\ v4'[x] = None
      /\ \A p \in Photo \ {x} : v4'[p] = v4[p]
      /\ v5' = {r \in v5 : r.subject # OwnerOf[x]}
      /\ UNCHANGED <<v1, v3, v6>>
  BY <1>1 DEF B!DeletePhoto, BudgetTyped
<1>3. \A c \in Handler : BudgetHasCard(c) => v6[c].photos \subseteq Photo
  BY BudgetCallShapes DEF BudgetHasCard
<1>4. \A c \in Handler : BudgetHasCard(c)' <=> BudgetHasCard(c)
  BY <1>2 DEF BudgetHasCard
<1>5. BudgetTyped' /\ BudgetDated' /\ BudgetOneHolder'
  BY <1>1, <1>2 DEF BudgetTyped, BudgetDated, BudgetOneHolder
<1>6. BudgetPhotosFit'
  BY <1>1, <1>2, <1>3, <1>4 DEF BudgetPhotosFit
<1>7. BudgetChained'
  BY <1>1, <1>2, <1>3, <1>4 DEF BudgetChained, BudgetWithin
<1>8. BudgetShownTogether'
  BY <1>1, <1>2, <1>3, <1>4 DEF BudgetShownTogether
<1>9. BudgetRoomForFetches'
  BY <1>1, <1>2 DEF BudgetRoomForFetches, B!Fetches
\* Only the photo's owner can fall out of what was shown since a day.
<1>10. ASSUME NEW d PROVE /\ B!ShownSince(d)' \subseteq B!ShownSince(d)
                          /\ B!ShownSince(d) \subseteq B!ShownSince(d)' \cup {OwnerOf[x]}
  BY <1>2 DEF B!ShownSince
<1>11. BudgetChargedAreShown'
  <2>1. ASSUME NEW r \in v5' PROVE r.subject \in B!ShownSince(r.day)'
    BY <1>1, <1>2, <1>10, <2>1 DEF BudgetChargedAreShown
  <2> QED BY <2>1 DEF BudgetChargedAreShown, B!ShownSince
<1>12. BudgetRoomForCards'
  <2>1. ASSUME NEW c \in Handler, v6[c].pc = "write", BudgetHasCard(c), NEW t, t = v6[c].at
        PROVE  \/ Cardinality(B!ShownSince(t)') < CardLimit
               \/ v6[c].subject \in B!ShownSince(t)'
               \/ BudgetFails(c)'
    <3>1. CASE Cardinality(B!ShownSince(t)) < CardLimit
      <4>1. Cardinality(B!ShownSince(t)') <= Cardinality(B!ShownSince(t)) /\ IsFiniteSet(B!ShownSince(t)')
        BY <1>10, BudgetShownFinite, FS_Subset
      <4>2. Cardinality(B!ShownSince(t)') \in Nat /\ Cardinality(B!ShownSince(t)) \in Nat /\ CardLimit \in Nat
        BY <4>1, BudgetShownFinite, FS_CardinalityType DEF B!BudgetAssumption
      <4> QED BY <3>1, <4>1, <4>2
    <3>2. CASE BudgetFails(c)
      <4>1. v6' = v6 /\ \A p \in Photo : v2[p] = "gone" => v2'[p] = "gone"
        BY <1>2
      <4> QED BY <1>3, <2>1, <3>2, <4>1 DEF BudgetFails
    <3>3. CASE v6[c].subject \in B!ShownSince(t) /\ ~BudgetFails(c)
      <4>1. PICK q \in Photo : OwnerOf[q] = v6[c].subject /\ v4[q] # None /\ v4[q] >= t
        BY <3>3 DEF B!ShownSince
      <4>2. CASE q # x
        BY <1>2, <4>1, <4>2 DEF B!ShownSince
      <4>3. CASE q = x /\ x \in v6[c].photos
        BY <1>2, <4>3 DEF BudgetFails
      <4>4. CASE q = x /\ x \notin v6[c].photos
        <5>1. PICK p \in v6[c].photos : p \in Photo
          BY <1>1, <1>3, <2>1 DEF BudgetPhotosFit
        <5>2. p # x /\ OwnerOf[p] = v6[c].subject /\ v2[p] # "gone"
          BY <1>1, <2>1, <3>3, <4>4, <5>1 DEF BudgetPhotosFit, BudgetFails
        <5>3. v4[p] # None /\ v4[p] >= v4[q]
          BY <1>1, <2>1, <4>1, <4>4, <5>1, <5>2 DEF BudgetShownTogether
        <5>4. v4[p] \in Nat /\ v4[q] \in Nat /\ t \in Nat
          BY <1>1, <2>1, <4>1, <5>1, <5>3, BudgetCallShapes DEF BudgetTyped, BudgetHasCard
        <5>5. v4'[p] # None /\ v4'[p] >= t
          BY <1>2, <4>1, <5>1, <5>2, <5>3, <5>4
        <5> QED BY <5>1, <5>2, <5>5 DEF B!ShownSince
      <4> QED BY <4>2, <4>3, <4>4
    <3> QED BY <1>1, <2>1, <3>1, <3>2, <3>3 DEF BudgetRoomForCards
  <2> QED BY <1>2, <1>4, <2>1 DEF BudgetRoomForCards, B!ShownSince, BudgetFails
<1>13. BudgetBudgeted'
  <2>1. ASSUME NEW d \in Nat PROVE Cardinality(BudgetChargedOn(d)') <= CardLimit
    <3>1. BudgetChargedOn(d)' \in SUBSET BudgetChargedOn(d)
      BY <1>2 DEF BudgetChargedOn
    <3>2. IsFiniteSet(BudgetChargedOn(d)) /\ Cardinality(BudgetChargedOn(d)) \in Nat /\ Cardinality(BudgetChargedOn(d)) <= CardLimit
      BY <1>1, BudgetChargedBound DEF BudgetBudgeted
    <3>3. IsFiniteSet(BudgetChargedOn(d)') /\ Cardinality(BudgetChargedOn(d)') <= Cardinality(BudgetChargedOn(d))
      BY <3>1, <3>2, FS_Subset
    <3>4. Cardinality(BudgetChargedOn(d)') \in Nat /\ CardLimit \in Nat
      BY <3>3, FS_CardinalityType DEF B!BudgetAssumption
    <3> QED BY <3>2, <3>3, <3>4
  <2>2. \A v, d : BudgetFetchesOf(v, d)' = BudgetFetchesOf(v, d)
    BY <1>2 DEF BudgetFetchesOf
  <2> QED BY <1>1, <2>1, <2>2 DEF BudgetBudgeted, BudgetChargedOn
<1> QED BY <1>5, <1>6, <1>7, <1>8, <1>9, <1>11, <1>12, <1>13 DEF BudgetInv

LEMMA BudgetRowsStay ==
  ASSUME BudgetInv, UNCHANGED <<v2, v3, v4, v5, v6>>
  PROVE  /\ BudgetOneHolder' /\ BudgetPhotosFit' /\ BudgetChained' /\ BudgetShownTogether'
         /\ BudgetRoomForFetches' /\ BudgetRoomForCards' /\ BudgetChargedAreShown' /\ BudgetBudgeted'
<1>1. BudgetOneHolder' /\ BudgetPhotosFit' /\ BudgetChained' /\ BudgetShownTogether'
  BY DEF BudgetInv, BudgetOneHolder, BudgetPhotosFit, BudgetChained, BudgetWithin, BudgetShownTogether, BudgetHasCard
<1>2. BudgetRoomForFetches' /\ BudgetRoomForCards'
  BY DEF BudgetInv, BudgetRoomForFetches, BudgetRoomForCards, BudgetHasCard, BudgetFails, B!Fetches, B!ShownSince
<1>3. BudgetChargedAreShown' /\ BudgetBudgeted'
  BY DEF BudgetInv, BudgetChargedAreShown, BudgetBudgeted, B!ShownSince, BudgetFetchesOf, BudgetChargedOn
<1> QED BY <1>1, <1>2, <1>3

LEMMA BudgetMidnightKeeps ==
  ASSUME B!BudgetAssumption, BudgetInv, B!Midnight
  PROVE  BudgetInv'
<1>1. BudgetTyped /\ BudgetDated /\ UNCHANGED <<v2, v3, v4, v5, v6>>
  BY DEF BudgetInv, B!Midnight
<1>2. BudgetTyped'
  BY <1>1 DEF B!BudgetAssumption, B!Midnight, BudgetTyped
<1>3. v1 \in Nat /\ v1' = v1 + 1
  BY <1>1 DEF B!BudgetAssumption, B!Midnight, BudgetTyped
<1>4. \A n \in 1 .. v1 : n \in 1 .. v1'
  BY <1>3
<1>5. BudgetDated'
  BY <1>1, <1>4 DEF BudgetDated
<1> QED BY <1>1, <1>2, <1>5, BudgetRowsStay DEF BudgetInv

-----------------------------------------------------------------------------
(* The invariant, and what follows                                         *)

LEMMA BudgetKept == ASSUME B!BudgetAssumption, BudgetInv, [B!Next]_(B!vars) PROVE BudgetInv'
<1>1. CASE UNCHANGED B!vars
  <2>1. BudgetTyped' /\ BudgetDated'
    BY <1>1 DEF B!vars, BudgetInv, BudgetTyped, BudgetDated
  <2> QED BY <1>1, <2>1, BudgetRowsStay DEF B!vars, BudgetInv
<1>2. ASSUME NEW c \in Handler,
             \/ B!CountFetches(c) \/ B!WriteFetch(c) \/ B!CountCards(c) \/ B!WriteCard(c)
             \/ \E p \in Photo, v \in Variant : B!BeginFetch(c, p, v)
             \/ \E s \in Subject : B!BeginCard(c, s)
      PROVE  BudgetInv'
  BY <1>2, BudgetCountFetchesKeeps, BudgetWriteFetchKeeps, BudgetCountCardsKeeps, BudgetWriteCardKeeps,
     BudgetBeginFetchKeeps, BudgetBeginCardKeeps
<1>3. ASSUME NEW p \in Photo, B!DeletePhoto(p) \/ B!Approve(p) PROVE BudgetInv'
  BY <1>3, BudgetDeleteKeeps, BudgetApproveKeeps
<1> QED BY <1>1, <1>2, <1>3, BudgetMidnightKeeps DEF B!Next

LEMMA BudgetTypes == ASSUME BudgetInv PROVE B!TypeOK
<1>1. BudgetTyped /\ BudgetDated /\ B!BudgetAssumption
  BY ServiceAssumption DEF BudgetInv
<1>2. \A i \in DOMAIN v3 : v3[i].variant \in Variant /\ v3[i].at \in 1 .. v1
  <2> DEFINE Rows == [variant : Variant, at : Nat]
  <2>1. ASSUME NEW i \in DOMAIN v3 PROVE v3[i] \in Rows
    <3>1. v3 \in Seq(Rows)
      BY <1>1 DEF BudgetTyped
    <3> HIDE DEF Rows
    <3> QED BY <2>1, <3>1
  <2> QED BY <1>1, <2>1 DEF BudgetDated
<1>3. v5 \subseteq [subject : Subject, day : 1 .. v1] /\ v4 \in [Photo -> 1 .. v1 \cup {None}]
  BY <1>1 DEF BudgetTyped, BudgetDated
<1>4. \A c \in Handler : v6[c].pc \in {"idle", "fetch", "card", "write"}
  BY <1>1, BudgetCallKinds, BudgetCallShapes
<1> QED BY <1>1, <1>2, <1>3, <1>4 DEF BudgetTyped, B!TypeOK

LEMMA BudgetGiven == B!BudgetAssumption
BY ServiceAssumption

LEMMA BudgetInit == B!Init => BudgetInv
BY BudgetGiven, BudgetInitInv

LEMMA BudgetKeeps == ASSUME BudgetInv, [B!Next]_(B!vars) PROVE BudgetInv'
BY BudgetGiven, BudgetKept

LEMMA BudgetSays == ASSUME BudgetInv PROVE B!WithinBudgets
<1>1. \A d \in 1 .. v1 : d \in Nat
  BY BudgetGiven DEF B!BudgetAssumption, BudgetInv, BudgetTyped
<1> QED BY <1>1, BudgetCounts DEF BudgetInv, BudgetBudgeted, BudgetFetchesOf, BudgetChargedOn, B!WithinBudgets

-----------------------------------------------------------------------------
(* The rate limiter: one address                                           *)

Buckets  == [count : 1 .. LIMIT + 1, resetAt : Nat]
Warnings == [until : Nat, of : Nat]

Live(b, t) == b # None /\ b.resetAt > t

\* Of the requests let through at the times s: those of the window that ends at e,
\* those of the minute before it, and those of the minute up to t.
OfWindow(s, e)  == {i \in DOMAIN s : s[i] + WINDOW >= e}
Earlier(s, e)   == {i \in DOMAIN s : s[i] + WINDOW < e /\ s[i] + WINDOW + WINDOW > e}
OfMinute(s, t)  == {i \in DOMAIN s : s[i] + WINDOW > t}

\* A live bucket has counted its window, and the minute before it was within the
\* limit; without one the last minute is.
Fits(s, b, t) ==
  /\ s \in Seq(Nat) /\ b \in Buckets \cup {None} /\ t \in Nat
  /\ \A i \in DOMAIN s : s[i] <= t
  /\ b # None => b.resetAt \in WINDOW .. t + WINDOW /\ \A i \in DOMAIN s : s[i] < b.resetAt
  /\ Live(b, t) => /\ Cardinality(OfWindow(s, b.resetAt)) <= b.count
                   /\ Cardinality(OfWindow(s, b.resetAt)) <= LIMIT
                   /\ Cardinality(Earlier(s, b.resetAt)) <= LIMIT
  /\ ~Live(b, t) => /\ \A i \in DOMAIN s : s[i] < t
                    /\ Cardinality(OfMinute(s, t)) <= LIMIT

LEMMA LimiterConstants ==
  /\ LIMIT \in Nat /\ MANY \in Nat /\ LimiterTime \in Nat
  /\ WINDOW \in Nat /\ WINDOW > 0 /\ SECOND \in Nat /\ SECOND > 0
  /\ None \notin Buckets /\ None \notin Warnings
<1>1. V!LimiterAssumption
  BY ServiceAssumption
<1> QED BY <1>1 DEF V!LimiterAssumption, Buckets, Warnings

\* Counting what a condition picks of a sequence.
LEMMA Counted ==
  ASSUME NEW s \in Seq(Nat), NEW Some \in SUBSET DOMAIN s, NEW Fewer \in SUBSET Some
  PROVE  /\ IsFiniteSet(Some) /\ Cardinality(Some) \in Nat
         /\ Cardinality(Fewer) \in Nat /\ Cardinality(Fewer) <= Cardinality(Some)
<1>1. IsFiniteSet(DOMAIN s)
  BY FS_Interval
<1>2. IsFiniteSet(Some) /\ IsFiniteSet(Fewer)
  BY <1>1, FS_Subset
<1> QED BY <1>2, FS_Subset, FS_CardinalityType

LEMMA OneMore ==
  ASSUME NEW s \in Seq(Nat), NEW Some \in SUBSET DOMAIN s, NEW Fewer, NEW n, Fewer \subseteq Some \cup {n}
  PROVE  IsFiniteSet(Fewer) /\ Cardinality(Fewer) \in Nat /\ Cardinality(Fewer) <= Cardinality(Some) + 1
<1>1. IsFiniteSet(Some) /\ Cardinality(Some) \in Nat
  BY Counted
<1>2. /\ IsFiniteSet(Some \cup {n})
      /\ Cardinality(Some \cup {n}) = IF n \in Some THEN Cardinality(Some) ELSE Cardinality(Some) + 1
  BY <1>1, FS_AddElement
<1>3. IsFiniteSet(Fewer) /\ Cardinality(Fewer) <= Cardinality(Some \cup {n}) /\ Cardinality(Fewer) \in Nat
  BY <1>2, FS_Subset, FS_CardinalityType
<1> QED BY <1>1, <1>2, <1>3

LEMMA Appended ==
  ASSUME NEW s \in Seq(Nat), NEW t \in Nat
  PROVE  /\ Append(s, t) \in Seq(Nat) /\ Append(s, t)[Len(s) + 1] = t
         /\ DOMAIN Append(s, t) = DOMAIN s \cup {Len(s) + 1}
         /\ \A i \in DOMAIN s : Append(s, t)[i] = s[i] /\ s[i] \in Nat /\ i # Len(s) + 1
OBVIOUS

\* A tick.
LEMMA FitsLater ==
  ASSUME NEW s, NEW b, NEW t, Fits(s, b, t)
  PROVE  Fits(s, b, t + 1)
<1>1. /\ s \in Seq(Nat) /\ b \in Buckets \cup {None} /\ t \in Nat
      /\ \A i \in DOMAIN s : s[i] \in Nat /\ s[i] < t + 1
      /\ b # None => b.resetAt \in Nat
  BY LimiterConstants DEF Fits, Buckets
<1>2. OfMinute(s, t + 1) \subseteq OfMinute(s, t) /\ OfMinute(s, t) \subseteq DOMAIN s
  BY <1>1, LimiterConstants DEF OfMinute
<1>3. Cardinality(OfMinute(s, t + 1)) <= Cardinality(OfMinute(s, t)) /\ Cardinality(OfMinute(s, t)) \in Nat
  BY <1>1, <1>2, Counted
<1>4. ASSUME Live(b, t), ~Live(b, t + 1) PROVE Cardinality(OfMinute(s, t + 1)) <= LIMIT
  <2>1. b.resetAt = t + 1
    BY <1>1, <1>4 DEF Live
  <2>2. OfMinute(s, t + 1) \subseteq OfWindow(s, b.resetAt) /\ OfWindow(s, b.resetAt) \subseteq DOMAIN s
    BY <1>1, <2>1, LimiterConstants DEF OfMinute, OfWindow
  <2>3. /\ Cardinality(OfMinute(s, t + 1)) <= Cardinality(OfWindow(s, b.resetAt))
        /\ Cardinality(OfMinute(s, t + 1)) \in Nat /\ Cardinality(OfWindow(s, b.resetAt)) \in Nat
    BY <1>1, <2>2, Counted
  <2>4. Cardinality(OfWindow(s, b.resetAt)) <= LIMIT
    BY <1>4 DEF Fits
  <2> QED BY <2>3, <2>4, LimiterConstants
<1>5. ASSUME ~Live(b, t + 1) PROVE Cardinality(OfMinute(s, t + 1)) <= LIMIT
  <2>1. CASE Live(b, t)
    BY <1>4, <1>5, <2>1
  <2>2. CASE ~Live(b, t)
    <3>1. Cardinality(OfMinute(s, t)) <= LIMIT
      BY <2>2 DEF Fits
    <3>2. Cardinality(OfMinute(s, t + 1)) \in Nat
      BY <1>1, <1>2, Counted
    <3> QED BY <1>3, <3>1, <3>2, LimiterConstants
  <2> QED BY <2>1, <2>2
<1>6. Live(b, t + 1) => Live(b, t)
  BY <1>1 DEF Live
<1>7. b # None => b.resetAt \in WINDOW .. t + 1 + WINDOW /\ \A i \in DOMAIN s : s[i] < b.resetAt
  BY <1>1, LimiterConstants DEF Fits
<1>8. \A i \in DOMAIN s : s[i] <= t + 1
  BY <1>1
<1>9. Live(b, t + 1) => /\ Cardinality(OfWindow(s, b.resetAt)) <= b.count
                        /\ Cardinality(OfWindow(s, b.resetAt)) <= LIMIT
                        /\ Cardinality(Earlier(s, b.resetAt)) <= LIMIT
  BY <1>6 DEF Fits
<1>10. t + 1 \in Nat
  BY <1>1
<1> QED BY <1>1, <1>5, <1>7, <1>8, <1>9, <1>10 DEF Fits

\* A bucket that has expired may be swept.
LEMMA FitsSwept ==
  ASSUME NEW s, NEW b, NEW t, Fits(s, b, t), ~Live(b, t)
  PROVE  Fits(s, None, t)
BY DEF Fits, Live

\* The first request after a window.
LEMMA FitsFresh ==
  ASSUME NEW s, NEW b, NEW t, Fits(s, b, t), ~Live(b, t),
         NEW f, f = [count |-> 1, resetAt |-> t + WINDOW]
  PROVE  /\ LIMIT >= 1 => Fits(Append(s, t), f, t)
         /\ ~(LIMIT >= 1) => Fits(s, f, t)
<1>1. /\ s \in Seq(Nat) /\ t \in Nat
      /\ \A i \in DOMAIN s : s[i] \in Nat /\ s[i] < t
      /\ Cardinality(OfMinute(s, t)) <= LIMIT
  BY DEF Fits
<1>2. /\ f \in Buckets /\ f # None /\ f.count = 1 /\ f.resetAt = t + WINDOW
      /\ f.resetAt \in WINDOW .. t + WINDOW /\ Live(f, t)
  BY <1>1, LimiterConstants DEF Buckets, Live
<1>e. Cardinality({}) = 0 /\ {} \subseteq DOMAIN s
  BY FS_EmptySet
<1>3. CASE LIMIT >= 1
  <2> DEFINE r == Append(s, t)
  <2>1. /\ r \in Seq(Nat) /\ r[Len(s) + 1] = t
        /\ DOMAIN r = DOMAIN s \cup {Len(s) + 1}
        /\ \A i \in DOMAIN s : r[i] = s[i] /\ s[i] \in Nat /\ i # Len(s) + 1
    BY <1>1, Appended
  <2> HIDE DEF r
  <2>2. OfWindow(r, t + WINDOW) \subseteq {} \cup {Len(s) + 1}
    BY <1>1, <2>1, LimiterConstants DEF OfWindow
  <2>3. Cardinality(OfWindow(r, t + WINDOW)) \in Nat /\ Cardinality(OfWindow(r, t + WINDOW)) <= 1
    <3>1. Cardinality(OfWindow(r, t + WINDOW)) \in Nat /\ Cardinality(OfWindow(r, t + WINDOW)) <= Cardinality({}) + 1
      BY <1>1, <1>e, <2>2, OneMore
    <3> QED BY <1>e, <3>1
  <2>4. Earlier(r, t + WINDOW) \subseteq OfMinute(s, t) /\ OfMinute(s, t) \subseteq DOMAIN s
    BY <1>1, <2>1, LimiterConstants DEF Earlier, OfMinute
  <2>5. /\ Cardinality(Earlier(r, t + WINDOW)) <= Cardinality(OfMinute(s, t))
        /\ Cardinality(Earlier(r, t + WINDOW)) \in Nat /\ Cardinality(OfMinute(s, t)) \in Nat
    BY <1>1, <2>4, Counted
  <2>6. Cardinality(OfWindow(r, t + WINDOW)) <= LIMIT /\ Cardinality(Earlier(r, t + WINDOW)) <= LIMIT
    BY <1>1, <1>3, <2>3, <2>5, LimiterConstants
  <2>7. \A i \in DOMAIN r : r[i] <= t /\ r[i] < t + WINDOW
    BY <1>1, <2>1, LimiterConstants
  <2>8. Fits(r, f, t)
    BY <1>1, <1>2, <2>1, <2>3, <2>6, <2>7 DEF Fits
  <2> QED BY <1>3, <2>8 DEF r
<1>4. CASE ~(LIMIT >= 1)
  <2>1. OfWindow(s, t + WINDOW) = {}
    BY <1>1, LimiterConstants DEF OfWindow
  <2>2. Earlier(s, t + WINDOW) \subseteq OfMinute(s, t) /\ OfMinute(s, t) \subseteq DOMAIN s
    BY <1>1, LimiterConstants DEF Earlier, OfMinute
  <2>3. /\ Cardinality(Earlier(s, t + WINDOW)) <= Cardinality(OfMinute(s, t))
        /\ Cardinality(Earlier(s, t + WINDOW)) \in Nat /\ Cardinality(OfMinute(s, t)) \in Nat
    BY <1>1, <2>2, Counted
  <2>4. /\ Cardinality(OfWindow(s, t + WINDOW)) <= 1 /\ Cardinality(OfWindow(s, t + WINDOW)) <= LIMIT
        /\ Cardinality(Earlier(s, t + WINDOW)) <= LIMIT
    <3>1. Cardinality(OfWindow(s, t + WINDOW)) = 0
      BY <1>e, <2>1
    <3>2. Cardinality(Earlier(s, t + WINDOW)) <= LIMIT
      BY <1>1, <2>3, LimiterConstants
    <3> QED BY <3>1, <3>2, LimiterConstants
  <2>5. \A i \in DOMAIN s : s[i] <= t /\ s[i] < t + WINDOW
    BY <1>1, LimiterConstants
  <2>6. Fits(s, f, t)
    BY <1>1, <1>2, <2>4, <2>5 DEF Fits
  <2> QED BY <1>4, <2>6
<1> QED BY <1>3, <1>4

\* One more request in a window: let through, or refused.
LEMMA FitsAgain ==
  ASSUME NEW s, NEW b, NEW t, Fits(s, b, t), Live(b, t), b.count + 1 <= LIMIT + 1,
         NEW f, f = [count |-> b.count + 1, resetAt |-> b.resetAt]
  PROVE  /\ f.count <= LIMIT => Fits(Append(s, t), f, t)
         /\ Fits(s, f, t)
<1> DEFINE e == b.resetAt
<1>1. /\ s \in Seq(Nat) /\ t \in Nat /\ b \in Buckets /\ b.count \in Nat /\ e \in Nat /\ b # None
      /\ e > t /\ e \in WINDOW .. t + WINDOW
      /\ \A i \in DOMAIN s : s[i] \in Nat /\ s[i] <= t /\ s[i] < e
      /\ Cardinality(OfWindow(s, e)) <= b.count
      /\ Cardinality(OfWindow(s, e)) <= LIMIT /\ Cardinality(Earlier(s, e)) <= LIMIT
  BY LimiterConstants DEF Fits, Live, Buckets
<1> HIDE DEF e
<1>2. /\ f \in Buckets /\ f # None /\ f.count = b.count + 1 /\ f.resetAt = e /\ Live(f, t)
  BY <1>1, LimiterConstants DEF Buckets, Live, e
<1>3. OfWindow(s, e) \subseteq DOMAIN s /\ Earlier(s, e) \subseteq DOMAIN s
  BY DEF OfWindow, Earlier
<1>4. Cardinality(OfWindow(s, e)) \in Nat /\ Cardinality(Earlier(s, e)) \in Nat
  BY <1>1, <1>3, Counted
<1>5. Fits(s, f, t)
  <2>1. Cardinality(OfWindow(s, e)) <= f.count
    BY <1>1, <1>2, <1>4
  <2> QED BY <1>1, <1>2, <2>1 DEF Fits
<1>6. ASSUME f.count <= LIMIT PROVE Fits(Append(s, t), f, t)
  <2> DEFINE r == Append(s, t)
  <2>1. /\ r \in Seq(Nat) /\ r[Len(s) + 1] = t
        /\ DOMAIN r = DOMAIN s \cup {Len(s) + 1}
        /\ \A i \in DOMAIN s : r[i] = s[i] /\ s[i] \in Nat /\ i # Len(s) + 1
    BY <1>1, Appended
  <2> HIDE DEF r
  <2>2. OfWindow(r, e) \subseteq OfWindow(s, e) \cup {Len(s) + 1}
    BY <2>1 DEF OfWindow
  <2>3. Cardinality(OfWindow(r, e)) \in Nat /\ Cardinality(OfWindow(r, e)) <= Cardinality(OfWindow(s, e)) + 1
    BY <1>1, <1>3, <2>2, OneMore
  <2>4. Earlier(r, e) \subseteq Earlier(s, e)
    BY <1>1, <2>1, LimiterConstants DEF Earlier
  <2>5. Cardinality(Earlier(r, e)) \in Nat /\ Cardinality(Earlier(r, e)) <= Cardinality(Earlier(s, e))
    BY <1>1, <1>3, <2>4, Counted
  <2>6. /\ Cardinality(OfWindow(r, e)) <= f.count /\ Cardinality(OfWindow(r, e)) <= LIMIT
        /\ Cardinality(Earlier(r, e)) <= LIMIT
    <3>1. Cardinality(OfWindow(r, e)) <= b.count + 1
      BY <1>1, <1>4, <2>3
    <3>2. f.count = b.count + 1 /\ b.count \in Nat
      BY <1>1, <1>2
    <3>3. Cardinality(OfWindow(r, e)) <= LIMIT
      BY <1>6, <2>3, <3>1, <3>2, LimiterConstants
    <3>4. Cardinality(Earlier(r, e)) <= LIMIT
      BY <1>1, <1>4, <2>5, LimiterConstants
    <3> QED BY <3>1, <3>2, <3>3, <3>4
  <2>7. \A i \in DOMAIN r : r[i] <= t /\ r[i] < e
    BY <1>1, <2>1
  <2> QED BY <1>1, <1>2, <2>1, <2>6, <2>7 DEF Fits, r
<1> QED BY <1>5, <1>6

\* What an address was let through in the last minute.
LEMMA FitsTheLimit ==
  ASSUME NEW s, NEW b, NEW t, Fits(s, b, t)
  PROVE  Cardinality(OfMinute(s, t)) <= 2 * LIMIT
<1>1. s \in Seq(Nat) /\ t \in Nat /\ \A i \in DOMAIN s : s[i] \in Nat
  BY DEF Fits
<1>m. OfMinute(s, t) \subseteq DOMAIN s
  BY DEF OfMinute
<1>2. Cardinality(OfMinute(s, t)) \in Nat
  BY <1>1, <1>m, Counted
<1>3. CASE ~Live(b, t)
  <2>1. Cardinality(OfMinute(s, t)) <= LIMIT
    BY <1>3 DEF Fits
  <2> QED BY <1>2, <2>1, LimiterConstants
<1>4. CASE Live(b, t)
  <2> DEFINE e == b.resetAt
             w == OfWindow(s, e)
             p == Earlier(s, e)
  <2>1. /\ e \in Nat /\ e <= t + WINDOW
        /\ Cardinality(w) <= LIMIT /\ Cardinality(p) <= LIMIT
    BY <1>4, LimiterConstants DEF Fits, Live, Buckets
  <2>2. w \subseteq DOMAIN s /\ p \subseteq DOMAIN s
    BY DEF OfWindow, Earlier
  <2>3. OfMinute(s, t) \subseteq w \cup p
    BY <1>1, <2>1, LimiterConstants DEF OfMinute, OfWindow, Earlier
  <2> HIDE DEF w, p, e
  <2>4. IsFiniteSet(w) /\ IsFiniteSet(p) /\ Cardinality(w) \in Nat /\ Cardinality(p) \in Nat
    BY <1>1, <2>2, Counted
  <2>5. w \cap p \subseteq w /\ Cardinality(w \cap p) \in Nat
    BY <1>1, <2>2, Counted
  <2>6. IsFiniteSet(w \cup p) /\ Cardinality(w \cup p) = Cardinality(w) + Cardinality(p) - Cardinality(w \cap p)
    BY <2>4, FS_Union
  <2>7. Cardinality(OfMinute(s, t)) <= Cardinality(w \cup p)
    BY <2>3, <2>6, FS_Subset
  <2> QED BY <1>2, <2>1, <2>4, <2>5, <2>6, <2>7, LimiterConstants
<1> QED BY <1>3, <1>4

-----------------------------------------------------------------------------
(* The rate limiter: its actions                                           *)

LimiterInv ==
  /\ v1 \in Nat /\ v2 \in {"none", "traefik", "cloudfront"}
  /\ v3 \in [V!Address -> Buckets \cup {None}]
  /\ v4 \in [V!Address -> Seq(Nat)]
  /\ v5 \in [V!Address -> Warnings \cup {None}]
  /\ \A a \in V!Address : Fits(v4[a], v3[a], v1)
  /\ \A a \in V!Address : v5[a] # None => v5[a].until >= v5[a].of

\* The seconds to wait are rounded up.
LEMMA RoundedUp ==
  ASSUME NEW x \in Nat, NEW y \in Nat \ {0}
  PROVE  /\ (x + y - 1) \div y \in Nat
         /\ y * ((x + y - 1) \div y) \in Nat /\ y * ((x + y - 1) \div y) >= x
<1> DEFINE q == (x + y - 1) \div y
<1>1. x + y - 1 \in Nat
  OBVIOUS
<1>2. q \in Nat
  BY <1>1
<1>3. x + y - 1 < y * q + y
  BY <1>1
<1>4. y * q \in Nat
  BY <1>2
<1> HIDE DEF q
<1>5. y * q >= x
  BY <1>3, <1>4
<1> QED BY <1>2, <1>4, <1>5 DEF q

LEMMA WaitsLongEnough ==
  ASSUME NEW b \in Buckets, v1 \in Nat, b.resetAt > v1
  PROVE  V!retryAfter(b) \in Nat /\ v1 + V!retryAfter(b) >= b.resetAt
<1> DEFINE x == b.resetAt - v1
           q == (x + SECOND - 1) \div SECOND
<1>1. b.resetAt \in Nat /\ x \in Nat /\ x >= 1
  BY DEF Buckets
<1>2. q \in Nat /\ SECOND * q \in Nat /\ SECOND * q >= x
  BY <1>1, LimiterConstants, RoundedUp
<1>3. V!retryAfter(b) = SECOND * (IF q < 1 THEN 1 ELSE q)
  BY DEF V!retryAfter
<1>4. q # 0
  BY <1>1, <1>2, LimiterConstants
<1> HIDE DEF x, q
<1>5. V!retryAfter(b) = SECOND * q
  BY <1>2, <1>3, <1>4
<1> QED BY <1>1, <1>2, <1>5 DEF x

LEMMA LimiterInit == V!Init => LimiterInv
<1> SUFFICES ASSUME V!Init PROVE LimiterInv
  OBVIOUS
<1>1. /\ v1 = 0 /\ v2 \in {"none", "traefik", "cloudfront"}
      /\ v3 = [a \in V!Address |-> None] /\ v4 = [a \in V!Address |-> <<>>]
      /\ v5 = [a \in V!Address |-> None]
  BY DEF V!Init
<1>2. Fits(<<>>, None, 0)
  <2>1. <<>> \in Seq(Nat) /\ DOMAIN <<>> = {}
    OBVIOUS
  <2>2. OfMinute(<<>>, 0) = {}
    BY <2>1 DEF OfMinute
  <2>3. Cardinality(OfMinute(<<>>, 0)) = 0
    BY <2>2, FS_EmptySet
  <2> QED BY <2>1, <2>3, LimiterConstants DEF Fits, Live
<1>3. \A a \in V!Address : v3[a] = None /\ v4[a] = <<>> /\ v5[a] = None
  BY <1>1
<1>4. v4 \in [V!Address -> Seq(Nat)]
  BY <1>1
<1> HIDE DEF V!Address
<1> QED BY <1>1, <1>2, <1>3, <1>4 DEF LimiterInv

\* What a sweep leaves of an address: its bucket, or nothing of one that expired.
LEMMA Swept ==
  ASSUME LimiterInv
  PROVE  /\ V!Sweep \in [V!Address -> Buckets \cup {None}]
         /\ \A a \in V!Address :
              /\ Fits(v4[a], V!Sweep[a], v1)
              /\ V!Expired(V!Sweep[a]) <=> V!Sweep[a] # None /\ ~Live(V!Sweep[a], v1)
<1>1. \A a \in V!Address : V!Sweep[a] \in {v3[a], None} /\ (V!Sweep[a] # v3[a] => ~Live(v3[a], v1))
  BY DEF V!Sweep, V!Expired, LimiterInv, Live, Buckets
<1>2. V!Sweep \in [V!Address -> Buckets \cup {None}]
  BY <1>1 DEF V!Sweep, LimiterInv
<1>3. ASSUME NEW a \in V!Address PROVE Fits(v4[a], V!Sweep[a], v1)
  BY <1>1, FitsSwept DEF LimiterInv
<1>4. ASSUME NEW a \in V!Address
      PROVE  V!Expired(V!Sweep[a]) <=> V!Sweep[a] # None /\ ~Live(V!Sweep[a], v1)
  <2>1. V!Sweep[a] \in Buckets \cup {None} /\ v1 \in Nat
    BY <1>2 DEF LimiterInv
  <2> HIDE DEF V!Sweep
  <2> QED BY <2>1 DEF V!Expired, Live, Buckets
<1> QED BY <1>2, <1>3, <1>4

\* Whoever the proxy says it is, or nobody in particular.
LEMMA OwnAddress ==
  ASSUME LimiterInv, NEW c \in Handler, NEW r \in V!RequestsOf(c)
  PROVE  V!clientAddress(r) \in {c, "unknown"}
<1>1. /\ r.viewer \in {c, None} /\ r.socket \in {c, None}
      /\ r.hops \in {Append(own, c) : own \in {<<>>} \cup {<<d>> : d \in Handler}} \cup {<<>>}
  BY DEF V!RequestsOf
<1>2. ASSUME NEW own \in Seq(Handler), r.hops = Append(own, c) PROVE V!Last(r.hops) = c
  <2>1. Len(r.hops) = Len(own) + 1 /\ r.hops[Len(own) + 1] = c
    BY <1>2
  <2> QED BY <2>1 DEF V!Last
<1>3. r.hops = <<>> \/ V!Last(r.hops) = c
  <2>1. \A d \in Handler : <<d>> \in Seq(Handler)
    OBVIOUS
  <2>2. <<>> \in Seq(Handler)
    OBVIOUS
  <2> QED BY <1>1, <1>2, <2>1, <2>2
<1>4. v2 \in {"none", "traefik", "cloudfront"}
  BY DEF LimiterInv
<1> QED BY <1>1, <1>3, <1>4 DEF V!clientAddress

LEMMA RateLimitKeeps ==
  ASSUME LimiterInv, NEW c \in Handler, V!rateLimit(c)
  PROVE  LimiterInv'
<1>1. PICK key \in {V!clientAddress(r) : r \in V!RequestsOf(c)} :
        LET found == V!Sweep[key]
            fresh == found = None \/ V!Expired(found)
            bucket == [count |-> (IF fresh THEN 0 ELSE found.count) + 1,
                       resetAt |-> IF fresh THEN v1 + WINDOW ELSE found.resetAt]
        IN /\ bucket.count <= LIMIT + 1
           /\ v3' = [V!Sweep EXCEPT ![key] = bucket]
           /\ IF bucket.count > LIMIT
              THEN /\ v5' = [v5 EXCEPT ![key] = [until |-> v1 + V!retryAfter(bucket), of |-> bucket.resetAt]]
                   /\ UNCHANGED v4
              ELSE /\ v4' = [v4 EXCEPT ![key] = Append(@, v1)]
                   /\ v5' = [v5 EXCEPT ![key] = None]
           /\ UNCHANGED <<v1, v2>>
  BY DEF V!rateLimit
<1>2. key \in V!Address
  BY OwnAddress DEF V!Address
<1> DEFINE found == V!Sweep[key]
           fresh == ~Live(found, v1)
           bucket == [count |-> (IF fresh THEN 0 ELSE found.count) + 1,
                      resetAt |-> IF fresh THEN v1 + WINDOW ELSE found.resetAt]
<1>3. /\ v1 \in Nat /\ found \in Buckets \cup {None} /\ Fits(v4[key], found, v1)
      /\ fresh <=> found = None \/ V!Expired(found)
      /\ v4[key] \in Seq(Nat)
  BY <1>2, Swept DEF LimiterInv, Live
<1>4. /\ bucket.count <= LIMIT + 1
      /\ v3' = [V!Sweep EXCEPT ![key] = bucket]
      /\ bucket.count > LIMIT =>
           /\ v5' = [v5 EXCEPT ![key] = [until |-> v1 + V!retryAfter(bucket), of |-> bucket.resetAt]]
           /\ UNCHANGED v4
      /\ ~(bucket.count > LIMIT) =>
           /\ v4' = [v4 EXCEPT ![key] = Append(@, v1)]
           /\ v5' = [v5 EXCEPT ![key] = None]
      /\ UNCHANGED <<v1, v2>>
  BY <1>1, <1>3
<1>5. /\ bucket \in Buckets /\ bucket.resetAt > v1
      /\ bucket.count > LIMIT => Fits(v4[key], bucket, v1)
      /\ ~(bucket.count > LIMIT) => Fits(Append(v4[key], v1), bucket, v1)
  <2>1. CASE fresh
    <3>1. bucket = [count |-> 1, resetAt |-> v1 + WINDOW]
      BY <2>1
    <3>2. bucket.count = 1 /\ bucket.resetAt = v1 + WINDOW
      BY <3>1
    <3> HIDE DEF bucket, found
    <3>3. /\ LIMIT >= 1 => Fits(Append(v4[key], v1), bucket, v1)
          /\ ~(LIMIT >= 1) => Fits(v4[key], bucket, v1)
      BY <1>3, <2>1, <3>1, FitsFresh
    <3>4. bucket \in Buckets
      BY <1>3, <3>1, LimiterConstants DEF Buckets
    <3> QED BY <1>3, <3>2, <3>3, <3>4, LimiterConstants
  <2>2. CASE ~fresh
    <3>1. /\ bucket = [count |-> found.count + 1, resetAt |-> found.resetAt]
          /\ Live(found, v1) /\ found \in Buckets
      BY <1>3, <2>2 DEF Live
    <3>2. bucket.count = found.count + 1 /\ bucket.resetAt = found.resetAt /\ found.resetAt > v1
      BY <3>1 DEF Live
    <3> HIDE DEF bucket, found
    <3>3. /\ bucket.count <= LIMIT => Fits(Append(v4[key], v1), bucket, v1)
          /\ Fits(v4[key], bucket, v1)
      BY <1>3, <1>4, <3>1, <3>2, FitsAgain
    <3>4. bucket \in Buckets
      BY <1>3, <1>4, <3>1, <3>2, LimiterConstants DEF Buckets
    <3> QED BY <1>3, <3>2, <3>3, <3>4, LimiterConstants DEF Buckets
  <2> QED BY <2>1, <2>2
<1> HIDE DEF found, fresh, bucket
<1>6. /\ v3' \in [V!Address -> Buckets \cup {None}] /\ v3'[key] = bucket
      /\ \A a \in V!Address \ {key} : v3'[a] = V!Sweep[a]
  BY <1>2, <1>4, <1>5, Swept
<1>7. CASE bucket.count > LIMIT
  <2>1. /\ V!retryAfter(bucket) \in Nat /\ v1 + V!retryAfter(bucket) >= bucket.resetAt
        /\ bucket.resetAt \in Nat
    BY <1>3, <1>5, WaitsLongEnough DEF Buckets
  <2> DEFINE w == [until |-> v1 + V!retryAfter(bucket), of |-> bucket.resetAt]
  <2>2. w \in Warnings /\ w.until >= w.of
    BY <1>3, <2>1 DEF Warnings
  <2>3. v5' = [v5 EXCEPT ![key] = w] /\ v4' = v4
    BY <1>4, <1>7
  <2> HIDE DEF w
  <2>4. /\ v5' \in [V!Address -> Warnings \cup {None}]
        /\ \A a \in V!Address : v5'[a] # None => v5'[a].until >= v5'[a].of
    BY <1>2, <2>2, <2>3 DEF LimiterInv
  <2>5. \A a \in V!Address : Fits(v4'[a], v3'[a], v1)
    BY <1>5, <1>6, <1>7, <2>3, Swept
  <2> QED BY <1>4, <1>6, <2>3, <2>4, <2>5 DEF LimiterInv
<1>8. CASE ~(bucket.count > LIMIT)
  <2>1. v4' = [v4 EXCEPT ![key] = Append(@, v1)] /\ v5' = [v5 EXCEPT ![key] = None]
    BY <1>4, <1>8
  <2>2. Append(v4[key], v1) \in Seq(Nat)
    BY <1>3
  <2>3. /\ v4' \in [V!Address -> Seq(Nat)] /\ v4'[key] = Append(v4[key], v1)
        /\ \A a \in V!Address \ {key} : v4'[a] = v4[a]
    BY <1>2, <2>1, <2>2 DEF LimiterInv
  <2>4. /\ v5' \in [V!Address -> Warnings \cup {None}]
        /\ \A a \in V!Address : v5'[a] # None => v5'[a].until >= v5'[a].of
    BY <1>2, <2>1 DEF LimiterInv
  <2>5. \A a \in V!Address : Fits(v4'[a], v3'[a], v1)
    BY <1>5, <1>6, <1>8, <2>3, Swept
  <2> QED BY <1>4, <1>6, <2>3, <2>4, <2>5 DEF LimiterInv
<1> QED BY <1>7, <1>8

LEMMA LimiterKeeps == LimiterInv /\ V!Next => LimiterInv'
<1> SUFFICES ASSUME LimiterInv, V!Next PROVE LimiterInv'
  OBVIOUS
<1>1. CASE V!Tick
  <2>1. v1' = v1 + 1 /\ UNCHANGED <<v2, v3, v4, v5>>
    BY <1>1 DEF V!Tick
  <2>2. \A a \in V!Address : Fits(v4[a], v3[a], v1 + 1)
    BY FitsLater DEF LimiterInv
  <2> QED BY <2>1, <2>2 DEF LimiterInv
<1>2. CASE \E c \in Handler : V!rateLimit(c)
  BY <1>2, RateLimitKeeps
<1> QED BY <1>1, <1>2 DEF V!Next

LEMMA LimiterSays == LimiterInv => V!AdmitsTheLimit /\ V!WaitIsEnough /\ V!CountedAsThemselves
<1> SUFFICES ASSUME LimiterInv PROVE V!AdmitsTheLimit /\ V!WaitIsEnough /\ V!CountedAsThemselves
  OBVIOUS
<1>1. V!AdmitsTheLimit
  <2> SUFFICES ASSUME NEW a \in V!Address PROVE V!Cardinality(V!LastMinute(a)) <= 2 * LIMIT
    BY DEF V!AdmitsTheLimit
  <2>1. V!LastMinute(a) = OfMinute(v4[a], v1)
    BY DEF V!LastMinute, OfMinute
  <2>2. Cardinality(OfMinute(v4[a], v1)) <= 2 * LIMIT
    BY FitsTheLimit DEF LimiterInv
  <2>3. V!Cardinality(OfMinute(v4[a], v1)) = Cardinality(OfMinute(v4[a], v1))
    BY Zenon DEF V!Cardinality, Cardinality
  <2> QED BY <2>1, <2>2, <2>3
<1>2. V!WaitIsEnough
  <2> SUFFICES ASSUME NEW a \in V!Address, v5[a] # None, v1 >= v5[a].until, v3[a] # None,
                      v3[a].resetAt = v5[a].of
               PROVE  V!Expired(v3[a])
    BY DEF V!WaitIsEnough
  <2>1. v5[a].until >= v5[a].of /\ v5[a] \in Warnings /\ v1 \in Nat
    BY DEF LimiterInv
  <2> QED BY <2>1 DEF V!Expired, Warnings
<1>3. V!CountedAsThemselves
  BY OwnAddress DEF V!CountedAsThemselves
<1> QED BY <1>1, <1>2, <1>3

LEMMA LimiterTypesInit == V!Init => V!TypeOK
BY LimiterConstants DEF V!Init, V!TypeOK

LEMMA LimiterTypesKeep ==
  ASSUME LimiterInv, V!TypeOK, V!Next, LimiterInv'
  PROVE  V!TypeOK'
<1>1. v1' \in 0 .. LimiterTime
  <2>1. CASE V!Tick
    BY <2>1, LimiterConstants DEF V!Tick, V!TypeOK
  <2>2. CASE v1' = v1
    BY <2>2 DEF V!TypeOK
  <2> QED BY <2>1, <2>2 DEF V!Next, V!rateLimit
<1>2. ASSUME NEW a \in V!Address, v3'[a] # None
      PROVE  v3'[a].count \in 1 .. LIMIT + 1 /\ v3'[a].resetAt \in WINDOW .. LimiterTime + WINDOW
  <2>1. v3'[a] \in Buckets /\ Fits(v4'[a], v3'[a], v1')
    BY <1>2 DEF LimiterInv
  <2>2. v3'[a].count \in 1 .. LIMIT + 1 /\ v3'[a].resetAt \in WINDOW .. v1' + WINDOW
    BY <1>2, <2>1 DEF Buckets, Fits
  <2> QED BY <1>1, <2>2, LimiterConstants
<1> QED BY <1>1, <1>2 DEF V!TypeOK

-----------------------------------------------------------------------------
(* The waitlist                                                            *)

PondRows  == [verified : Int, cell : [Cell -> Int]]
Standings == [row : PondRows \cup {None}, at : Nat]
Counts    == {W!Idle} \cup [pc : {"asked"}, day : Nat]
               \cup [pc : {"counting"}, day : Nat, next : Standings]

\* Since figures were read, the people are no further from them than people moved.
Near(f) ==
  f.row # None => /\ v2.verified - f.row.verified <= v8 - f.at
                  /\ f.row.verified - v2.verified <= v8 - f.at

\* What figures may be replaced by.
Follows(next, f) ==
  /\ next.row # None /\ next.at >= f.at /\ next.at <= v8
  /\ \/ next = f
     \/ f.row = None
     \/ f.row.verified < WAITLIST_K_MIN
     \/ next.at >= f.at + WAITLIST_K_MIN

Counting(c) == v6[c].pc = "counting"

WaitlistTyped ==
  /\ v1 \in Nat /\ v2 \in PondRows /\ v3 \in Nat /\ v8 \in Nat
  /\ v4 \in Standings /\ v7 \in Standings
  /\ v5 \in Nat \cup {None} /\ v9 \subseteq Nat /\ v10 \in BOOLEAN
  /\ v6 \in [Handler -> Counts]

\* The lock has one holder, whose figures follow those that stand, of a day that is
\* not the day they were taken.
OneCounts ==
  /\ \A c, d \in Handler : Counting(c) /\ Counting(d) => c = d
  /\ \A c \in Handler : Counting(c) => /\ Follows(v6[c].next, v4) /\ Near(v6[c].next)
                                       /\ v6[c].day # v5

\* The figures last said stand, or were replaced a step of people later.
SaidStands ==
  v7.row # None => /\ v7.row.verified >= WAITLIST_K_MIN
                   /\ v4 = v7 \/ (v4.row # None /\ v4.at >= v7.at + WAITLIST_K_MIN)

\* As long as nobody was overtaken the last day counted is the latest.
LastDay ==
  v10 \/ v9 = {} \/ (v5 \in v9 /\ \A d \in v9 : d <= v5)

WaitlistInv ==
  WaitlistTyped /\ v4.at <= v8 /\ Near(v4) /\ OneCounts /\ SaidStands /\ LastDay

LEMMA CountShapes ==
  /\ W!Idle \in Counts /\ W!Idle.pc = "idle"
  /\ \A r \in Counts : /\ r.pc = "counting" => r.day \in Nat /\ r.next \in Standings
                       /\ r.pc = "asked" => r.day \in Nat
                       /\ r.pc \in {"idle", "asked", "counting"}
BY DEF Counts, W!Idle

LEMMA KMin == WAITLIST_K_MIN \in Nat /\ MaxPeople \in Nat /\ MaxK \in Nat /\ None \notin PondRows
BY ServiceAssumption DEF W!WaitlistAssumption, PondRows

\* What may be said of figures at all.
LEMMA Said ==
  ASSUME NEW f \in Standings, NEW t \in Nat, W!publishCounts(f.row, t) # None
  PROVE  f.row # None /\ f.row \in PondRows /\ f.row.verified >= WAITLIST_K_MIN
<1>1. f.row # None /\ ~(t < WAITLIST_K_MIN) /\ ~(f.row.verified < t)
  BY DEF W!publishCounts
<1>2. f.row \in PondRows /\ f.row.verified \in Int
  BY <1>1 DEF Standings, PondRows
<1> QED BY <1>1, <1>2, KMin

LEMMA WaitlistInit == W!Init => WaitlistInv
<1> SUFFICES ASSUME W!Init PROVE WaitlistInv
  OBVIOUS
<1>1. /\ v1 = 1 /\ v3 = WAITLIST_K_MIN /\ v4 = [row |-> None, at |-> 0] /\ v7 = v4 /\ v5 = None
      /\ v6 = [c \in Handler |-> W!Idle] /\ v8 = 0 /\ v9 = {} /\ v10 = FALSE
  BY DEF W!Init
<1>2. v2 \in PondRows
  BY KMin DEF W!Init, PondRows
<1>3. v4 \in Standings
  BY <1>1 DEF Standings
<1>4. WaitlistTyped
  BY <1>1, <1>2, <1>3, KMin, CountShapes DEF WaitlistTyped
<1>5. \A c \in Handler : ~Counting(c)
  BY <1>1, CountShapes DEF Counting
<1> QED BY <1>1, <1>4, <1>5 DEF WaitlistInv, Near, OneCounts, SaidStands, LastDay

\* A process goes on.
LEMMA BecomesKeeps ==
  ASSUME WaitlistInv, NEW c \in Handler, NEW r \in Counts, v6' = [v6 EXCEPT ![c] = r],
         UNCHANGED <<v1, v2, v3, v4, v5, v7, v8, v9, v10>>,
         r.pc = "counting" => /\ \A d \in Handler : ~Counting(d)
                              /\ Follows(r.next, v4) /\ Near(r.next) /\ r.day # v5
  PROVE  WaitlistInv'
<1>1. /\ v6' \in [Handler -> Counts] /\ v6'[c] = r
      /\ \A d \in Handler \ {c} : v6'[d] = v6[d]
  BY DEF WaitlistInv, WaitlistTyped
<1>2. WaitlistTyped'
  BY <1>1 DEF WaitlistInv, WaitlistTyped
<1>3. OneCounts'
  <2>1. ASSUME NEW d \in Handler, Counting(d)'
        PROVE  Follows(v6'[d].next, v4) /\ Near(v6'[d].next) /\ v6'[d].day # v5
    BY <1>1, <2>1 DEF WaitlistInv, OneCounts, Counting
  <2>2. ASSUME NEW d \in Handler, NEW e \in Handler, Counting(d)', Counting(e)' PROVE d = e
    BY <1>1, <2>2 DEF WaitlistInv, OneCounts, Counting
  <2> QED BY <2>1, <2>2 DEF OneCounts, Near, Follows, Counting
<1>4. (v4.at <= v8)' /\ Near(v4)' /\ SaidStands' /\ LastDay'
  BY DEF WaitlistInv, Near, SaidStands, LastDay
<1> QED BY <1>2, <1>3, <1>4 DEF WaitlistInv

LEMMA ReadPondKeeps ==
  ASSUME WaitlistInv, NEW c \in Handler, W!ReadPond(c)
  PROVE  WaitlistInv'
<1> DEFINE row == W!moveFigures(v4.row, v2, W!waitlistK)
           next == IF row = v4.row THEN v4 ELSE [row |-> row, at |-> v8]
           r == [pc |-> "counting", day |-> v6[c].day, next |-> next]
<1>1. /\ v6[c].pc = "asked" /\ \A d \in Handler : ~Counting(d)
      /\ v6' = [v6 EXCEPT ![c] = IF v5 = v6[c].day THEN W!Idle ELSE r]
      /\ UNCHANGED <<v1, v2, v3, v4, v5, v7, v8, v9, v10>>
  BY DEF W!ReadPond, W!LockFree, W!CountedAlready, Counting
<1>2. v6[c].day \in Nat
  BY <1>1, CountShapes DEF WaitlistInv, WaitlistTyped
<1>3. CASE v5 = v6[c].day
  BY <1>1, <1>3, CountShapes, BecomesKeeps
<1>4. CASE v5 # v6[c].day
  <2>1. /\ v2 \in PondRows /\ v2.verified \in Int /\ v3 \in Nat /\ v8 \in Nat
        /\ v4 \in Standings /\ v4.at \in Nat /\ v4.at <= v8 /\ Near(v4)
        /\ v4.row # None => v4.row \in PondRows /\ v4.row.verified \in Int
    BY DEF WaitlistInv, WaitlistTyped, Standings, PondRows
  <2>2. /\ next \in Standings /\ Follows(next, v4) /\ Near(next)
    <3>1. CASE row = v4.row
      <4>1. next = v4
        BY <3>1
      <4>2. v4.row # None
        BY <2>1, <3>1, KMin DEF W!moveFigures
      <4> HIDE DEF next
      <4> QED BY <2>1, <4>1, <4>2 DEF Follows
    <3>2. CASE row # v4.row
      <4>1. /\ row = v2 /\ next = [row |-> v2, at |-> v8]
            /\ v4.row = None \/ v4.row.verified < WAITLIST_K_MIN
                 \/ W!Apart(v2.verified, v4.row.verified) >= W!Higher(W!waitlistK, WAITLIST_K_MIN)
        BY <3>2 DEF W!moveFigures
      <4> HIDE DEF next, row
      <4>2. next \in Standings /\ next.row = v2 /\ next.at = v8
        BY <2>1, <4>1 DEF Standings
      <4>3. Near(next)
        BY <2>1, <4>2 DEF Near
      <4>4. W!waitlistK \in Nat /\ W!Higher(W!waitlistK, WAITLIST_K_MIN) >= WAITLIST_K_MIN
              /\ W!Higher(W!waitlistK, WAITLIST_K_MIN) \in Nat
        BY <2>1, KMin DEF W!waitlistK, W!Higher
      <4>5. v4.row = None \/ v4.row.verified < WAITLIST_K_MIN \/ v8 >= v4.at + WAITLIST_K_MIN
        <5> SUFFICES ASSUME v4.row # None,
                            W!Apart(v2.verified, v4.row.verified) >= W!Higher(W!waitlistK, WAITLIST_K_MIN)
                     PROVE  v8 >= v4.at + WAITLIST_K_MIN
          BY <4>1
        <5>1. W!Apart(v2.verified, v4.row.verified) <= v8 - v4.at
          BY <2>1 DEF W!Apart, Near
        <5>2. W!Apart(v2.verified, v4.row.verified) \in Int
          BY <2>1 DEF W!Apart
        <5> QED BY <2>1, <4>4, <5>1, <5>2, KMin
      <4> QED BY <2>1, <4>2, <4>3, <4>5, KMin DEF Follows
    <3> QED BY <3>1, <3>2
  <2> HIDE DEF next, row
  <2>3. r \in Counts /\ r.pc = "counting" /\ r.next = next /\ r.day = v6[c].day
    BY <1>2, <2>2 DEF Counts
  <2> HIDE DEF r
  <2> QED BY <1>1, <1>4, <2>2, <2>3, BecomesKeeps
<1> QED BY <1>3, <1>4

LEMMA WriteFiguresKeeps ==
  ASSUME WaitlistInv, NEW c \in Handler, W!WriteFigures(c)
  PROVE  /\ WaitlistInv'
         /\ W!SaidInStep
         /\ v10' \/ v6[c].day \notin v9
<1> DEFINE next == v6[c].next
           d == v6[c].day
<1>1. /\ Counting(c) /\ v4' = next /\ v5' = d /\ v9' = v9 \cup {d}
      /\ v10' = (v10 \/ \E e \in v9 : e > d)
      /\ v7' = W!Says(next, W!waitlistK)
      /\ v6' = [v6 EXCEPT ![c] = W!Idle]
      /\ UNCHANGED <<v1, v2, v3, v8>>
  BY DEF W!WriteFigures, Counting
<1>2. /\ v2 \in PondRows /\ v3 \in Nat /\ v8 \in Nat /\ v9 \subseteq Nat
      /\ v4 \in Standings /\ v4.at \in Nat /\ v7 \in Standings /\ v7.at \in Nat
      /\ next \in Standings /\ next.at \in Nat /\ d \in Nat /\ d # v5
      /\ Follows(next, v4) /\ Near(next) /\ next.row # None
      /\ \A e \in Handler : Counting(e) => e = c
  BY <1>1, CountShapes DEF WaitlistInv, WaitlistTyped, Standings, OneCounts, Counting, Follows
<1> HIDE DEF next, d
<1>3. /\ v6' \in [Handler -> Counts] /\ \A e \in Handler : ~Counting(e)'
  BY <1>1, <1>2, CountShapes DEF WaitlistInv, WaitlistTyped, Counting
<1>4. /\ v7' \in {v7, next}
      /\ v7' = next => next.row.verified >= WAITLIST_K_MIN \/ v7 = next
  <2>1. W!waitlistK \in Nat
    BY <1>2, KMin DEF W!waitlistK, W!Higher
  <2> QED BY <1>1, <1>2, <2>1, Said DEF W!Says
<1>5. WaitlistTyped'
  BY <1>1, <1>2, <1>3, <1>4 DEF WaitlistInv, WaitlistTyped
<1>6. v7.row # None /\ next # v7 => next.at >= v7.at + WAITLIST_K_MIN
  <2> SUFFICES ASSUME v7.row # None, next # v7 PROVE next.at >= v7.at + WAITLIST_K_MIN
    OBVIOUS
  <2>1. /\ v7.row.verified >= WAITLIST_K_MIN /\ v7.row \in PondRows
        /\ v4 = v7 \/ (v4.row # None /\ v4.at >= v7.at + WAITLIST_K_MIN)
    BY <1>2 DEF WaitlistInv, SaidStands, Standings
  <2>2. CASE v4 = v7
    BY <1>2, <2>1, <2>2, KMin DEF Follows, PondRows
  <2>3. CASE v4.at >= v7.at + WAITLIST_K_MIN
    BY <1>2, <2>3, KMin DEF Follows
  <2> QED BY <2>1, <2>2, <2>3
<1>7. SaidStands'
  BY <1>1, <1>2, <1>4, <1>6 DEF SaidStands, WaitlistInv
<1>8. W!SaidInStep
  BY <1>1, <1>4, <1>6 DEF W!SaidInStep
<1>9. v10' \/ v9' = {} \/ (v5' \in v9' /\ \A e \in v9' : e <= v5')
  <2>1. CASE \E e \in v9 : e > d
    BY <1>1, <2>1
  <2>2. CASE ~\E e \in v9 : e > d
    <3>1. \A e \in v9 : e <= d
      BY <1>2, <2>2
    <3>2. v5' \in v9' /\ \A e \in v9' : e <= v5'
      BY <1>1, <1>2, <3>1
    <3> QED BY <3>2
  <2> QED BY <2>1, <2>2
<1>10. v10' \/ d \notin v9
  <2> SUFFICES ASSUME ~v10', d \in v9 PROVE FALSE
    OBVIOUS
  <2>1. ~v10 /\ \A e \in v9 : ~(e > d)
    BY <1>1
  <2>2. v5 \in v9 /\ d <= v5
    BY <2>1 DEF WaitlistInv, LastDay
  <2> QED BY <1>2, <2>1, <2>2
<1>11. (v4.at <= v8)' /\ Near(v4)'
  BY <1>1, <1>2 DEF Near, Follows
<1> QED BY <1>3, <1>5, <1>7, <1>8, <1>9, <1>10, <1>11 DEF WaitlistInv, OneCounts, LastDay, d

LEMMA PersonMovesKeeps ==
  ASSUME WaitlistInv, W!PersonMoves
  PROVE  WaitlistInv'
<1>1. /\ v8' = v8 + 1
      /\ UNCHANGED <<v1, v3, v4, v5, v6, v7, v9, v10>>
  BY DEF W!PersonMoves
<1>2. v2 \in PondRows /\ v8 \in Nat /\ v4 \in Standings
  BY DEF WaitlistInv, WaitlistTyped
<1>3. v2' \in PondRows /\ v2'.verified - v2.verified \in {1, -1}
  <2>n. v2.verified \in Int /\ v2.cell \in [Cell -> Int]
    BY <1>2 DEF PondRows
  <2>1. CASE W!Comes
    <3>1. v2' = [v2 EXCEPT !.verified = v2.verified + 1]
      BY <2>1 DEF W!Comes
    <3> QED BY <1>2, <2>n, <3>1 DEF PondRows
  <2>2. CASE W!Goes
    <3>1. CASE v2' = [v2 EXCEPT !.verified = v2.verified - 1]
      BY <1>2, <2>n, <3>1 DEF PondRows
    <3>2. ASSUME NEW g \in Cell, v2' = [v2 EXCEPT !.verified = @ - 1, !.cell[g] = @ - 1]
          PROVE  v2' \in PondRows /\ v2'.verified - v2.verified \in {1, -1}
      <4>1. v2' = [verified |-> v2.verified - 1, cell |-> [v2.cell EXCEPT ![g] = v2.cell[g] - 1]]
        BY <1>2, <3>2 DEF PondRows
      <4>2. [v2.cell EXCEPT ![g] = v2.cell[g] - 1] \in [Cell -> Int]
        BY <2>n
      <4> QED BY <2>n, <4>1, <4>2 DEF PondRows
    <3> QED BY <2>2, <3>1, <3>2 DEF W!Goes
  <2> QED BY <2>1, <2>2 DEF W!PersonMoves
<1>4. ASSUME NEW f \in Standings, Near(f) PROVE Near(f)'
  <2>1. f.at \in Nat /\ (f.row # None => f.row.verified \in Int)
        /\ v2.verified \in Int /\ v2'.verified \in Int
    BY <1>2, <1>3 DEF Standings, PondRows
  <2> QED BY <1>1, <1>2, <1>3, <1>4, <2>1 DEF Near
<1>5. ASSUME NEW f \in Standings, NEW g \in Standings, Follows(g, f) PROVE Follows(g, f)'
  <2>1. g.at \in Nat
    BY DEF Standings
  <2> QED BY <1>1, <1>2, <1>5, <2>1 DEF Follows
<1>6. WaitlistTyped'
  BY <1>1, <1>2, <1>3 DEF WaitlistInv, WaitlistTyped
<1>7. OneCounts'
  <2>1. ASSUME NEW c \in Handler, Counting(c)
        PROVE  Follows(v6[c].next, v4)' /\ Near(v6[c].next)' /\ v6[c].day # v5
    <3>1. v6[c].next \in Standings
      BY <2>1, CountShapes DEF WaitlistInv, WaitlistTyped, Counting
    <3>2. Follows(v6[c].next, v4) /\ Near(v6[c].next) /\ v6[c].day # v5
      BY <2>1 DEF WaitlistInv, OneCounts
    <3> QED BY <1>1, <1>2, <1>4, <1>5, <3>1, <3>2 DEF Follows, Near
  <2>2. \A c \in Handler : Counting(c)' <=> Counting(c)
    BY <1>1 DEF Counting
  <2> QED BY <1>1, <2>1, <2>2 DEF WaitlistInv, OneCounts, Follows, Near
<1>8. Near(v4)'
  BY <1>1, <1>2, <1>4 DEF WaitlistInv, Near
<1>9. (v4.at <= v8)' /\ SaidStands' /\ LastDay'
  <2>1. v4.at \in Nat /\ v4.at <= v8
    BY <1>2 DEF WaitlistInv, Standings
  <2> QED BY <1>1, <1>2, <2>1 DEF WaitlistInv, SaidStands, LastDay
<1> QED BY <1>6, <1>7, <1>8, <1>9 DEF WaitlistInv

LEMMA PersonAnswersKeeps ==
  ASSUME WaitlistInv, W!PersonAnswers
  PROVE  WaitlistInv'
<1>1. UNCHANGED <<v1, v3, v4, v5, v6, v7, v8, v9, v10>>
  BY DEF W!PersonAnswers
<1>2. v2' \in PondRows /\ v2'.verified = v2.verified
  BY DEF W!PersonAnswers, WaitlistInv, WaitlistTyped, PondRows
<1> QED BY <1>1, <1>2 DEF WaitlistInv, WaitlistTyped, OneCounts, Counting, Follows, Near, SaidStands, LastDay

LEMMA ConfigureKeeps ==
  ASSUME WaitlistInv, NEW n \in 1 .. MaxK, W!Configure(n)
  PROVE  WaitlistInv' /\ W!SaidInStep
<1>1. /\ v3' = n /\ v7' = W!Says(v4, W!Higher(WAITLIST_K_MIN, n))
      /\ UNCHANGED <<v1, v2, v4, v5, v6, v8, v9, v10>>
  BY DEF W!Configure
<1>2. n \in Nat /\ W!Higher(WAITLIST_K_MIN, n) \in Nat /\ v4 \in Standings /\ v7 \in Standings
  BY KMin DEF W!Higher, WaitlistInv, WaitlistTyped
<1>3. v7' = v7 \/ (v7' = v4 /\ v4.row # None /\ v4.row.verified >= WAITLIST_K_MIN)
  BY <1>1, <1>2, Said DEF W!Says
<1>4. WaitlistTyped'
  BY <1>1, <1>2, <1>3 DEF WaitlistInv, WaitlistTyped
<1>5. SaidStands' /\ W!SaidInStep
  BY <1>1, <1>3 DEF WaitlistInv, SaidStands, W!SaidInStep
<1>6. (v4.at <= v8)' /\ Near(v4)' /\ OneCounts' /\ LastDay'
  BY <1>1 DEF WaitlistInv, Near, OneCounts, Counting, Follows, LastDay
<1> QED BY <1>4, <1>5, <1>6 DEF WaitlistInv

LEMMA WaitlistKeeps ==
  ASSUME WaitlistInv, W!Next
  PROVE  WaitlistInv' /\ W!SaidInStep /\ W!CountsANewDay
<1> DEFINE Quiet == \A c \in Handler : Counting(c) => v6'[c] = v6[c]
<1>q. Quiet => W!CountsANewDay
  BY CountShapes DEF W!CountsANewDay, Counting
<1>1. ASSUME NEW c \in Handler, W!BeginCount(c) PROVE WaitlistInv' /\ v7' = v7 /\ Quiet
  <2> DEFINE r == [pc |-> "asked", day |-> v1]
  <2>1. v1 \in Nat /\ v6 \in [Handler -> Counts] /\ v6[c] = W!Idle
    BY <1>1 DEF WaitlistInv, WaitlistTyped, W!BeginCount
  <2>2. r \in Counts /\ r.pc = "asked"
    BY <2>1 DEF Counts
  <2>3. v6' = [v6 EXCEPT ![c] = r] /\ UNCHANGED <<v1, v2, v3, v4, v5, v7, v8, v9, v10>>
    BY <1>1 DEF W!BeginCount
  <2> HIDE DEF r
  <2>4. Quiet
    BY <2>1, <2>3, CountShapes DEF Counting
  <2> QED BY <2>2, <2>3, <2>4, BecomesKeeps
<1>2. ASSUME NEW c \in Handler, W!ReadPond(c) PROVE WaitlistInv' /\ v7' = v7 /\ Quiet
  <2>1. v7' = v7 /\ \A d \in Handler : ~Counting(d)
    BY <1>2 DEF W!ReadPond, W!LockFree, Counting
  <2> QED BY <1>2, <2>1, ReadPondKeeps
<1>3. ASSUME NEW c \in Handler, W!WriteFigures(c) PROVE WaitlistInv' /\ W!SaidInStep /\ W!CountsANewDay
  <2>1. WaitlistInv' /\ W!SaidInStep /\ (v10' \/ v6[c].day \notin v9)
    BY <1>3, WriteFiguresKeeps
  <2>2. v6' = [v6 EXCEPT ![c] = W!Idle] /\ v6 \in [Handler -> Counts]
    BY <1>3 DEF W!WriteFigures, WaitlistInv, WaitlistTyped
  <2>3. W!CountsANewDay
    <3> SUFFICES ASSUME NEW d \in Handler, v6[d].pc = "counting", v6'[d] = W!Idle
                 PROVE  v10' \/ v6[d].day \notin v9
      BY DEF W!CountsANewDay
    <3>1. d = c
      BY <2>2, CountShapes
    <3> QED BY <2>1, <3>1
  <2> QED BY <2>1, <2>3
<1>4. CASE W!PersonMoves
  <2>1. v7' = v7 /\ Quiet
    BY <1>4 DEF W!PersonMoves
  <2> QED BY <1>4, <1>q, <2>1, PersonMovesKeeps DEF W!SaidInStep
<1>5. CASE W!PersonAnswers
  <2>1. v7' = v7 /\ Quiet
    BY <1>5 DEF W!PersonAnswers
  <2> QED BY <1>5, <1>q, <2>1, PersonAnswersKeeps DEF W!SaidInStep
<1>6. ASSUME NEW n \in 1 .. MaxK, W!Configure(n) PROVE WaitlistInv' /\ W!SaidInStep /\ W!CountsANewDay
  <2>1. Quiet
    BY <1>6 DEF W!Configure
  <2> QED BY <1>6, <1>q, <2>1, ConfigureKeeps
<1>7. CASE W!Midnight
  <2>1. v1' = v1 + 1 /\ UNCHANGED <<v2, v3, v4, v5, v6, v7, v8, v9, v10>>
    BY <1>7 DEF W!Midnight
  <2>2. WaitlistInv'
    BY <2>1 DEF WaitlistInv, WaitlistTyped, OneCounts, Counting, Follows, Near, SaidStands, LastDay
  <2>3. Quiet
    BY <2>1
  <2> QED BY <1>q, <2>1, <2>2, <2>3 DEF W!SaidInStep
<1>8. CASE \E c \in Handler : W!BeginCount(c) \/ W!ReadPond(c) \/ W!WriteFigures(c)
  BY <1>8, <1>1, <1>2, <1>3, <1>q DEF W!SaidInStep
<1> QED BY <1>4, <1>5, <1>6, <1>7, <1>8 DEF W!Next

LEMMA WaitlistRests ==
  ASSUME WaitlistInv, UNCHANGED <<v6, v7>>
  PROVE  W!SaidInStep /\ W!CountsANewDay
BY CountShapes DEF W!SaidInStep, W!CountsANewDay

-----------------------------------------------------------------------------
(* The card of the gate                                                    *)

Reads == [mine : Nat, quietly : BOOLEAN, is : {"sent", "answered", "lost"}, says : Nat \cup {None}]
Cards == [is : {"gone", "loading", "failed"}] \cup [is : {"ready"}, gate : Nat]

\* Reads are told apart by their number, and none is of a number to come.
Numbered ==
  /\ \A r \in v11 : r.mine <= v10
  /\ \A r, q \in v11 : r.mine = q.mine => r = q

\* What the API has answered is of a night that has counted.
SaidBefore ==
  /\ \A r \in v11 : r.is = "answered" => r.says \in Nat /\ r.says <= v8
  /\ v9.is = "ready" => v9.gate <= v8

\* While the card stands, the read that will speak asks quietly and knows no older night.
SpeaksOfNoOlder ==
  v9.is = "ready" =>
    \A r \in v11 : r.mine = v10 => r.quietly /\ (r.is = "answered" => r.says >= v9.gate)

HomeInv ==
  /\ v8 \in Nat /\ v9 \in Cards /\ v10 \in Nat /\ v11 \subseteq Reads
  /\ Numbered /\ SaidBefore /\ SpeaksOfNoOlder

LEMMA HomeInit == H!Init => HomeInv
BY DEF H!Init, HomeInv, Cards, Numbered, SaidBefore, SpeaksOfNoOlder

\* The card and what is asked for it are left alone.
LEMMA GateStays ==
  ASSUME HomeInv, UNCHANGED <<v8, v9, v10, v11>>
  PROVE  HomeInv' /\ H!NeverGoesBack
<1>1. HomeInv'
  BY DEF HomeInv, Numbered, SaidBefore, SpeaksOfNoOlder
<1>2. v9.is = "ready" => v9.gate \in Nat
  BY DEF HomeInv, Cards
<1> QED BY <1>1, <1>2 DEF H!NeverGoesBack

\* A new read: of a card that is asked for, or that stands and is asked for quietly.
LEMMA ReadKeeps ==
  ASSUME HomeInv, NEW quietly \in BOOLEAN, H!read(quietly), v9' \in Cards,
         v9'.is = "ready" => v9' = v9 /\ quietly
  PROVE  HomeInv'
<1> DEFINE new == [mine |-> v10 + 1, quietly |-> quietly, is |-> "sent", says |-> None]
<1>1. v10' = v10 + 1 /\ v11' = v11 \cup {new} /\ v8' = v8
  BY DEF H!read
<1>2. /\ v8 \in Nat /\ v10 \in Nat /\ v11 \subseteq Reads
      /\ \A r \in v11 : r.mine \in Nat /\ r.mine <= v10
  BY DEF HomeInv, Numbered, Reads
<1>3. new \in Reads /\ new.mine = v10 + 1 /\ new.quietly = quietly /\ new.is = "sent"
  BY <1>2 DEF Reads
<1> HIDE DEF new
<1>4. Numbered'
  <2>1. \A r \in v11' : r.mine <= v10'
    BY <1>1, <1>2, <1>3
  <2>2. \A r, q \in v11' : r.mine = q.mine => r = q
    BY <1>1, <1>2, <1>3 DEF HomeInv, Numbered
  <2> QED BY <2>1, <2>2 DEF Numbered
<1>5. SaidBefore'
  BY <1>1, <1>3 DEF HomeInv, SaidBefore
<1>6. SpeaksOfNoOlder'
  <2> SUFFICES ASSUME v9'.is = "ready", NEW r \in v11', r.mine = v10'
               PROVE  r.quietly /\ (r.is = "answered" => r.says >= v9'.gate)
    BY DEF SpeaksOfNoOlder
  <2>1. r = new /\ quietly
    BY <1>1, <1>2
  <2> QED BY <1>3, <2>1, Zenon
<1> QED BY <1>1, <1>2, <1>3, <1>4, <1>5, <1>6 DEF HomeInv

\* An answer, or its loss, takes the place of the read.
LEMMA ReplacedKeeps ==
  ASSUME HomeInv, NEW r \in v11, NEW q \in Reads, v11' = (v11 \ {r}) \cup {q},
         UNCHANGED <<v8, v9, v10>>, q.mine = r.mine, q.quietly = r.quietly,
         q.is = "answered" => q.says = v8
  PROVE  HomeInv'
<1>1. /\ v8 \in Nat /\ v10 \in Nat /\ v11 \subseteq Reads
      /\ v9.is = "ready" => v9.gate \in Nat /\ v9.gate <= v8
  BY DEF HomeInv, Cards, SaidBefore
<1>2. Numbered'
  BY DEF HomeInv, Numbered
<1>3. SaidBefore'
  BY <1>1 DEF HomeInv, SaidBefore
<1>4. SpeaksOfNoOlder'
  BY <1>1 DEF HomeInv, SpeaksOfNoOlder
<1> QED BY <1>1, <1>2, <1>3, <1>4 DEF HomeInv

LEMMA GateAnsweredKeeps ==
  ASSUME HomeInv, NEW r \in v11, H!GateAnswered(r)
  PROVE  HomeInv' /\ H!NeverGoesBack
<1>1. /\ v11' = v11 \ {r} /\ r.is # "sent" /\ UNCHANGED <<v8, v10>>
      /\ v9' = IF r.mine # v10 THEN v9
               ELSE IF r.is = "answered" THEN [is |-> "ready", gate |-> r.says]
               ELSE IF r.quietly /\ v9.is = "ready" THEN v9
               ELSE [is |-> "failed"]
  BY Zenon DEF H!GateAnswered, H!current
<1>2. /\ v8 \in Nat /\ v10 \in Nat /\ v9 \in Cards /\ r \in Reads /\ v11 \subseteq Reads
      /\ v9.is = "ready" => v9.gate \in Nat /\ v9.gate <= v8
      /\ r.is \in {"answered", "lost"}
  BY <1>1 DEF HomeInv, Cards, SaidBefore, Reads
<1>3. Numbered'
  BY <1>1 DEF HomeInv, Numbered
<1>4. CASE v9' = v9
  <2>1. HomeInv'
    BY <1>1, <1>2, <1>3, <1>4 DEF HomeInv, SaidBefore, SpeaksOfNoOlder
  <2> QED BY <1>2, <1>4, <2>1 DEF H!NeverGoesBack
<1>5. CASE r.mine = v10 /\ r.is = "answered"
  <2>1. v9' = [is |-> "ready", gate |-> r.says]
    BY <1>1, <1>5
  <2>2. r.says \in Nat /\ r.says <= v8
    BY <1>5 DEF HomeInv, SaidBefore
  <2>3. v9' \in Cards /\ v9'.is = "ready" /\ v9'.gate = r.says
    BY <2>1, <2>2 DEF Cards
  <2>4. \A q \in v11' : q.mine # v10
    BY <1>1, <1>5 DEF HomeInv, Numbered
  <2>5. HomeInv'
    BY <1>1, <1>2, <1>3, <2>2, <2>3, <2>4 DEF HomeInv, SaidBefore, SpeaksOfNoOlder
  <2>6. v9.is = "ready" => r.says >= v9.gate
    BY <1>5 DEF HomeInv, SpeaksOfNoOlder
  <2> QED BY <2>3, <2>5, <2>6 DEF H!NeverGoesBack
<1>6. CASE r.mine = v10 /\ r.is = "lost" /\ v9.is # "ready"
  <2>1. v9' = [is |-> "failed"]
    BY <1>1, <1>6
  <2>2. v9' \in Cards /\ v9'.is # "ready"
    BY <2>1 DEF Cards
  <2>3. HomeInv'
    BY <1>1, <1>2, <1>3, <2>2 DEF HomeInv, SaidBefore, SpeaksOfNoOlder
  <2> QED BY <1>6, <2>3 DEF H!NeverGoesBack
<1>7. CASE r.mine = v10 /\ r.is = "lost" /\ v9.is = "ready"
  <2>1. r.quietly
    BY <1>7 DEF HomeInv, SpeaksOfNoOlder
  <2>2. v9' = v9
    BY <1>1, <1>7, <2>1
  <2> QED BY <1>4, <2>2
<1>8. r.mine # v10 => v9' = v9
  BY <1>1
<1> QED BY <1>2, <1>4, <1>5, <1>6, <1>7, <1>8

LEMMA HomeKeeps ==
  ASSUME HomeInv, H!Next
  PROVE  HomeInv' /\ H!NeverGoesBack
<1>t. /\ v8 \in Nat /\ v9 \in Cards /\ v10 \in Nat /\ v11 \subseteq Reads
      /\ v9.is = "ready" => v9.gate \in Nat
  BY DEF HomeInv, Cards
<1>1. CASE H!SignOut
  <2>1. v8' = v8 /\ v9' = [is |-> "gone"] /\ v10' = 0 /\ v11' = {}
    BY <1>1 DEF H!SignOut
  <2>2. HomeInv'
    BY <1>t, <2>1 DEF HomeInv, Cards, Numbered, SaidBefore, SpeaksOfNoOlder
  <2> QED BY <2>1, <2>2 DEF H!NeverGoesBack
<1>2. CASE H!CardComes
  <2>1. v9.is = "gone" /\ v9' = [is |-> "loading"] /\ H!read(TRUE)
    BY <1>2 DEF H!CardComes
  <2>2. v9' \in Cards /\ v9'.is # "ready"
    BY <2>1 DEF Cards
  <2> QED BY <2>1, <2>2, ReadKeeps DEF H!NeverGoesBack
<1>3. CASE H!ToTheFront
  <2>1. v9' = v9 /\ H!read(TRUE)
    BY <1>3 DEF H!ToTheFront
  <2>2. HomeInv'
    BY <1>t, <2>1, ReadKeeps
  <2> QED BY <1>t, <2>1, <2>2 DEF H!NeverGoesBack
<1>4. CASE H!retry
  <2>1. v9.is = "failed" /\ v9' = [is |-> "loading"] /\ H!read(FALSE)
    BY <1>4 DEF H!retry
  <2>2. v9' \in Cards /\ v9'.is # "ready"
    BY <2>1 DEF Cards
  <2> QED BY <2>1, <2>2, ReadKeeps DEF H!NeverGoesBack
<1>5. CASE H!Night
  <2>1. v8' = v8 + 1 /\ UNCHANGED <<v9, v10, v11>>
    BY <1>5 DEF H!Night, H!gate
  <2>2. SaidBefore'
    BY <1>t, <2>1 DEF HomeInv, SaidBefore
  <2> QED BY <1>t, <2>1, <2>2 DEF HomeInv, Numbered, SpeaksOfNoOlder, H!NeverGoesBack
<1>6. ASSUME NEW r \in v11, H!ServeGate(r) \/ H!LoseGate(r) PROVE HomeInv' /\ H!NeverGoesBack
  <2>1. r \in Reads /\ UNCHANGED <<v8, v9, v10>>
    BY <1>6, <1>t DEF H!ServeGate, H!LoseGate
  <2>2. PICK q \in Reads : /\ v11' = (v11 \ {r}) \cup {q} /\ q.mine = r.mine /\ q.quietly = r.quietly
                           /\ q.is = "answered" => q.says = v8
    <3>1. CASE H!ServeGate(r)
      <4> DEFINE q == [r EXCEPT !.is = "answered", !.says = v8]
      <4>1. q \in Reads /\ q.mine = r.mine /\ q.quietly = r.quietly /\ q.says = v8
        BY <1>t, <2>1 DEF Reads
      <4>2. v11' = (v11 \ {r}) \cup {q}
        BY <3>1 DEF H!ServeGate
      <4> QED BY <4>1, <4>2
    <3>2. CASE H!LoseGate(r)
      <4> DEFINE q == [r EXCEPT !.is = "lost"]
      <4>1. q \in Reads /\ q.mine = r.mine /\ q.quietly = r.quietly /\ q.is = "lost"
        BY <2>1 DEF Reads
      <4>2. v11' = (v11 \ {r}) \cup {q}
        BY <3>2 DEF H!LoseGate
      <4> QED BY <4>1, <4>2
    <3> QED BY <1>6, <3>1, <3>2
  <2>3. HomeInv'
    BY <2>1, <2>2, ReplacedKeeps
  <2> QED BY <1>t, <2>1, <2>3 DEF H!NeverGoesBack
<1>7. ASSUME NEW r \in v11, H!GateAnswered(r) PROVE HomeInv' /\ H!NeverGoesBack
  BY <1>7, GateAnsweredKeeps
<1>8. CASE \/ H!ServeFetch \/ H!LoseFetch \/ H!Fetched \/ H!ServeSet \/ H!LoseSet \/ H!SetReturns \/ H!NewWording
           \/ \E a \in Account : H!SignIn(a) \/ H!ChangeElsewhere(a)
           \/ \E on \in BOOLEAN : H!set(on)
  <2>1. UNCHANGED <<v8, v9, v10, v11>>
    BY <1>8 DEF H!ServeFetch, H!LoseFetch, H!Fetched, H!ServeSet, H!LoseSet, H!SetReturns, H!NewWording,
                H!SignIn, H!ChangeElsewhere, H!set, H!gate
  <2> QED BY <2>1, GateStays
<1> QED BY <1>1, <1>2, <1>3, <1>4, <1>5, <1>6, <1>7, <1>8 DEF H!Next

-----------------------------------------------------------------------------
(* The switch of the research consent, on the same screen                  *)

\* The switch's answer is about to be shown to the one who is signed in.
OnItsWay == v6 # None /\ v6.is = "answered" /\ v6.of = v1

\* What the API has answered is still so, and the switch shows it or is about to, unless
\* what it shows may be of before a change.
SwitchKnown ==
  /\ v5 # None => v5.of = v1
  /\ ~v7 => /\ v6 # None /\ v6.is = "answered" => v6.says = H!Says(v6.of, v2)
            /\ v5 # None /\ v5.is = "answered" => v5.says = H!Says(v1, v2) \/ OnItsWay
            /\ v1 # None /\ v5 = None /\ v4 # "unavailable" => v4 = H!Says(v1, v2) \/ OnItsWay

SwitchTyped ==
  /\ v1 \in Account \cup {None} /\ v2 \in SUBSET Account /\ v3 \in {"bundled", "newer"}
  /\ v4 \in H!Shown \cup {"loading", "unavailable"}
  /\ v5 \in H!Fetches \cup {None} /\ v6 \in H!Writes \cup {None} /\ v7 \in BOOLEAN
  /\ v5 # None /\ v5.is = "answered" => v5.says \in H!Shown
  /\ v6 # None /\ v6.is = "answered" => v6.says \in H!Shown

SwitchInv == SwitchTyped /\ SwitchKnown

LEMMA SwitchConstants ==
  /\ None \notin Account /\ None \notin H!Fetches /\ None \notin H!Writes /\ MaxAsked \in Nat
  /\ \A a, s : H!Says(a, s) \in H!Shown
BY ServiceAssumption DEF H!HomeAssumption, H!Says, H!Shown

\* What an answer makes of a request.
LEMMA SwitchRequests ==
  /\ \A a \in Account : LET f == [of |-> a, is |-> "sent", says |-> None] IN
       f \in H!Fetches /\ f.of = a /\ f.is = "sent"
  /\ \A a \in Account, b \in BOOLEAN : LET w == [of |-> a, on |-> b, is |-> "sent", says |-> None] IN
       w \in H!Writes /\ w.of = a /\ w.is = "sent"
  /\ \A f \in H!Fetches : LET g == [f EXCEPT !.is = "lost"] IN
       g \in H!Fetches /\ g.of = f.of /\ g.is = "lost"
  /\ \A w \in H!Writes : LET x == [w EXCEPT !.is = "refused"] IN
       x \in H!Writes /\ x.of = w.of /\ x.is = "refused"
  /\ \A f \in H!Fetches : f.of \in Account
  /\ \A w \in H!Writes : w.of \in Account
BY DEF H!Fetches, H!Writes

LEMMA SwitchInit == H!Init => SwitchInv
BY SwitchConstants DEF H!Init, SwitchInv, SwitchTyped, SwitchKnown

\* Nothing of the switch moves, or somebody signs in or out.
LEMMA SwitchRests ==
  ASSUME SwitchInv, UNCHANGED <<v1, v2, v3, v4, v5, v6, v7>>
  PROVE  SwitchInv'
BY DEF SwitchInv, SwitchTyped, SwitchKnown, OnItsWay, H!Says

LEMMA SignInKeeps ==
  ASSUME SwitchInv, NEW a \in Account, H!SignIn(a)
  PROVE  SwitchInv'
<1> DEFINE f == [of |-> a, is |-> "sent", says |-> None]
<1>1. /\ v1' = a /\ v5' = f /\ v7' = (v7 /\ v6 # None) /\ UNCHANGED <<v2, v3, v4, v6>>
  BY DEF H!SignIn, H!consents
<1>2. f \in H!Fetches /\ f.of = a /\ f.is = "sent"
  BY SwitchRequests
<1> HIDE DEF f
<1>3. SwitchTyped'
  BY <1>1, <1>2 DEF SwitchInv, SwitchTyped
<1>4. v5' # None /\ v5'.of = v1' /\ v5'.is # "answered"
  BY <1>1, <1>2, SwitchConstants
<1>5. ~v7' /\ v6' # None /\ v6'.is = "answered" => v6'.says = H!Says(v6.of, v2)'
  BY <1>1 DEF SwitchInv, SwitchKnown, H!Says
<1> QED BY <1>3, <1>4, <1>5 DEF SwitchInv, SwitchKnown, H!Says

LEMMA SignOutKeeps ==
  ASSUME SwitchInv, H!SignOut
  PROVE  SwitchInv'
<1>1. v1' = None /\ v5' = None /\ UNCHANGED <<v2, v3, v4, v6, v7>>
  BY DEF H!SignOut, H!consents
<1> QED BY <1>1 DEF SwitchInv, SwitchTyped, SwitchKnown, H!Says

\* The consents are read.
LEMMA FetchKeeps ==
  ASSUME SwitchInv, H!ServeFetch \/ H!LoseFetch \/ H!Fetched
  PROVE  SwitchInv'
<1>1. /\ v5 # None /\ v5 \in H!Fetches /\ v5.of = v1 /\ v5.of \in Account
      /\ UNCHANGED <<v1, v2, v3, v6, v7>>
  BY SwitchRequests DEF SwitchInv, SwitchTyped, SwitchKnown, H!ServeFetch, H!LoseFetch, H!Fetched, H!consents
<1>2. OnItsWay' <=> OnItsWay
  BY <1>1 DEF OnItsWay
<1>3. \A a : H!Says(a, v2)' = H!Says(a, v2)
  BY <1>1 DEF H!Says
<1>4. CASE H!ServeFetch
  <2> DEFINE s == H!Says(v5.of, v2)
             g == [v5 EXCEPT !.is = "answered", !.says = s]
  <2>1. v5' = g /\ v4' = v4
    BY <1>4 DEF H!ServeFetch
  <2>0. s \in H!Shown
    BY SwitchConstants
  <2> HIDE DEF s
  <2>2. g \in H!Fetches /\ g.of = v5.of /\ g.is = "answered" /\ g.says = s /\ g.says \in H!Shown
    BY <1>1, <2>0 DEF H!Fetches
  <2> HIDE DEF g
  <2>3. SwitchTyped'
    BY <1>1, <2>1, <2>2 DEF SwitchInv, SwitchTyped
  <2>4. v5' # None /\ v5'.of = v1' /\ v5'.says = H!Says(v1, v2)'
    BY <1>1, <1>3, <2>1, <2>2, SwitchConstants DEF s
  <2>5. ~v7' /\ v6' # None /\ v6'.is = "answered" => v6'.says = H!Says(v6.of, v2)'
    BY <1>1, <1>3 DEF SwitchInv, SwitchKnown
  <2> QED BY <2>3, <2>4, <2>5 DEF SwitchInv, SwitchKnown
<1>5. CASE H!LoseFetch
  <2> DEFINE g == [v5 EXCEPT !.is = "lost"]
  <2>1. v5' = g /\ v4' = v4
    BY <1>5 DEF H!LoseFetch
  <2>2. g \in H!Fetches /\ g.of = v5.of /\ g.is = "lost"
    BY <1>1, SwitchRequests
  <2> HIDE DEF g
  <2>3. SwitchTyped'
    BY <1>1, <2>1, <2>2 DEF SwitchInv, SwitchTyped
  <2>4. v5' # None /\ v5'.of = v1' /\ v5'.is # "answered"
    BY <1>1, <2>1, <2>2, SwitchConstants
  <2>5. ~v7' /\ v6' # None /\ v6'.is = "answered" => v6'.says = H!Says(v6.of, v2)'
    BY <1>1, <1>3 DEF SwitchInv, SwitchKnown
  <2> QED BY <2>3, <2>4, <2>5 DEF SwitchInv, SwitchKnown
<1>6. CASE H!Fetched
  <2>1. v5' = None /\ v4' = IF v5.is = "answered" THEN v5.says ELSE "unavailable"
    BY <1>6 DEF H!Fetched
  <2>2. SwitchTyped'
    BY <1>1, <2>1 DEF SwitchInv, SwitchTyped
  <2>3. ~v7' /\ v6' # None /\ v6'.is = "answered" => v6'.says = H!Says(v6.of, v2)'
    BY <1>1, <1>3 DEF SwitchInv, SwitchKnown
  <2>4. ~v7' /\ v4' # "unavailable" => v4' = H!Says(v1, v2)' \/ OnItsWay'
    BY <1>1, <1>2, <1>3, <2>1 DEF SwitchInv, SwitchKnown
  <2> QED BY <2>1, <2>2, <2>3, <2>4 DEF SwitchInv, SwitchKnown
<1> QED BY <1>4, <1>5, <1>6

\* The switch is tapped, and its change comes back or does not.
LEMMA SetKeeps ==
  ASSUME SwitchInv, NEW on \in BOOLEAN, H!set(on)
  PROVE  SwitchInv'
<1> DEFINE w == [of |-> v1, on |-> on, is |-> "sent", says |-> None]
<1>1. /\ v1 # None /\ v6 = None /\ v6' = w /\ v7' = (v7 \/ v5 # None) /\ UNCHANGED <<v1, v2, v3, v4, v5>>
  BY DEF H!set, H!consents
<1>2. v1 \in Account
  BY <1>1 DEF SwitchInv, SwitchTyped
<1>3. w \in H!Writes /\ w.of = v1 /\ w.is = "sent"
  BY <1>2, SwitchRequests
<1> HIDE DEF w
<1>4. SwitchTyped'
  BY <1>1, <1>3 DEF SwitchInv, SwitchTyped
<1>5. v6' # None /\ v6'.is # "answered"
  BY <1>1, <1>3, SwitchConstants
<1>6. ~v7' => v5' = None /\ (v4' # "unavailable" => v4' = H!Says(v1, v2)')
  BY <1>1 DEF SwitchInv, SwitchKnown, OnItsWay, H!Says
<1>7. v5' # None => v5'.of = v1'
  BY <1>1 DEF SwitchInv, SwitchKnown
<1> QED BY <1>4, <1>5, <1>6, <1>7 DEF SwitchInv, SwitchKnown

LEMMA ServeSetKeeps ==
  ASSUME SwitchInv, H!ServeSet
  PROVE  SwitchInv'
<1>1. v6 # None /\ v6 \in H!Writes /\ v6.is = "sent" /\ UNCHANGED <<v1, v3, v4, v5, v7>>
  BY DEF SwitchInv, SwitchTyped, H!ServeSet
<1>2. /\ v2' = IF ~H!Takes(v6) THEN v2 ELSE IF v6.on THEN v2 \cup {v6.of} ELSE v2 \ {v6.of}
      /\ v6' = [v6 EXCEPT !.is = IF H!Takes(v6) THEN "answered" ELSE "refused", !.says = H!Says(v6.of, v2')]
  BY DEF H!ServeSet
<1>3. v6.of \in Account /\ v2' \in SUBSET Account
  <2>1. v6.of \in Account /\ v2 \in SUBSET Account
    BY <1>1, SwitchRequests DEF SwitchInv, SwitchTyped
  <2> QED BY <1>2, <2>1
<1>4. H!Says(v6.of, v2') \in H!Shown /\ \A a : H!Says(a, v2)' = H!Says(a, v2')
  BY <1>1, SwitchConstants DEF H!Says
<1> DEFINE i == IF H!Takes(v6) THEN "answered" ELSE "refused"
           s == H!Says(v6.of, v2')
<1>5. i \in {"answered", "refused"} /\ s \in H!Shown
  BY <1>4
<1>6. v6' = [v6 EXCEPT !.is = i, !.says = s]
  BY <1>2
<1> HIDE DEF i, s
<1>7. v6' \in H!Writes /\ v6'.of = v6.of /\ v6'.is = i /\ v6'.says = s
  BY <1>1, <1>5, <1>6 DEF H!Writes
<1>8. SwitchTyped'
  BY <1>1, <1>3, <1>5, <1>7 DEF SwitchInv, SwitchTyped
<1>9. v6'.says = H!Says(v6.of, v2)'
  BY <1>4, <1>7 DEF s
<1>10. v5' # None => v5'.of = v1'
  BY <1>1 DEF SwitchInv, SwitchKnown
<1>11. CASE H!Takes(v6)
  <2>1. OnItsWay'
    BY <1>1, <1>7, <1>11, SwitchConstants DEF OnItsWay, H!Takes, i
  <2> QED BY <1>8, <1>9, <1>10, <2>1 DEF SwitchInv, SwitchKnown
<1>12. CASE ~H!Takes(v6)
  <2>1. v2' = v2 /\ v6'.is = "refused" /\ ~OnItsWay
    BY <1>1, <1>2, <1>7, <1>12 DEF i, OnItsWay
  <2>2. H!Says(v1, v2)' = H!Says(v1, v2)
    BY <1>1, <2>1 DEF H!Says
  <2> QED BY <1>1, <1>8, <1>10, <2>1, <2>2 DEF SwitchInv, SwitchKnown
<1> QED BY <1>11, <1>12

LEMMA LoseSetKeeps ==
  ASSUME SwitchInv, H!LoseSet
  PROVE  SwitchInv'
<1>1. v6 # None /\ v6 \in H!Writes /\ v7' = TRUE /\ UNCHANGED <<v1, v2, v3, v4, v5>>
  BY DEF SwitchInv, SwitchTyped, H!LoseSet, H!consents
<1> DEFINE x == [v6 EXCEPT !.is = "refused"]
<1>2. v6' = x
  BY DEF H!LoseSet
<1>3. x \in H!Writes /\ x.is = "refused"
  BY <1>1, SwitchRequests
<1> HIDE DEF x
<1>4. SwitchTyped'
  BY <1>1, <1>2, <1>3 DEF SwitchInv, SwitchTyped
<1> QED BY <1>1, <1>4 DEF SwitchInv, SwitchKnown

LEMMA SetReturnsKeeps ==
  ASSUME SwitchInv, H!SetReturns
  PROVE  SwitchInv'
<1>1. /\ v6 # None /\ v6' = None /\ v7' = (v7 \/ v6.of # v1 \/ v5 # None)
      /\ UNCHANGED <<v1, v2, v3, v5>>
      /\ v4' = IF v6.is = "answered" THEN v6.says ELSE v4
  BY DEF H!SetReturns, H!Shows, H!consents
<1>2. SwitchTyped'
  BY <1>1 DEF SwitchInv, SwitchTyped
<1>3. v5' # None => v5'.of = v1'
  BY <1>1 DEF SwitchInv, SwitchKnown
<1>4. ASSUME ~v7', v1' # None, v4' # "unavailable" PROVE v4' = H!Says(v1, v2)'
  <2>1. ~v7 /\ v6.of = v1 /\ v5 = None /\ H!Says(v1, v2)' = H!Says(v1, v2)
    BY <1>1, <1>4 DEF SwitchInv, SwitchTyped, H!Says
  <2> QED BY <1>1, <1>4, <2>1 DEF SwitchInv, SwitchKnown, OnItsWay
<1>5. ~v7' => v5' = None
  BY <1>1
<1> QED BY <1>1, <1>2, <1>3, <1>4, <1>5 DEF SwitchInv, SwitchKnown

\* Elsewhere the consent or its wording changes.
LEMMA ElsewhereKeeps ==
  ASSUME SwitchInv, H!NewWording \/ \E a \in Account : H!ChangeElsewhere(a)
  PROVE  SwitchInv'
<1>1. /\ v7' = TRUE /\ UNCHANGED <<v1, v4, v5, v6>> /\ v3' \in {"bundled", "newer"} /\ v2' \in SUBSET Account
  BY DEF SwitchInv, SwitchTyped, H!NewWording, H!ChangeElsewhere
<1>2. SwitchTyped'
  BY <1>1 DEF SwitchInv, SwitchTyped
<1> QED BY <1>1, <1>2 DEF SwitchInv, SwitchKnown

LEMMA SwitchKeeps == ASSUME SwitchInv, H!Next PROVE SwitchInv'
<1>1. \/ UNCHANGED <<v1, v2, v3, v4, v5, v6, v7>>
      \/ H!SignOut \/ (\E a \in Account : H!SignIn(a))
      \/ H!ServeFetch \/ H!LoseFetch \/ H!Fetched
      \/ (\E on \in BOOLEAN : H!set(on)) \/ H!ServeSet \/ H!LoseSet \/ H!SetReturns
      \/ H!NewWording \/ (\E a \in Account : H!ChangeElsewhere(a))
  BY Zenon DEF H!Next, H!CardComes, H!ToTheFront, H!retry, H!read, H!Night, H!ServeGate, H!LoseGate, H!GateAnswered,
         H!consents, H!research
<1> QED BY <1>1, SwitchRests, SignOutKeeps, SignInKeeps, FetchKeeps, SetKeeps, ServeSetKeeps, LoseSetKeeps,
           SetReturnsKeeps, ElsewhereKeeps

LEMMA SwitchSays == SwitchInv => H!SwitchIsTrue
BY DEF SwitchInv, SwitchKnown, OnItsWay, H!SwitchIsTrue

LEMMA HomeTypesInit == H!Init => H!TypeOK
<1> SUFFICES ASSUME H!Init PROVE H!TypeOK
  OBVIOUS
<1>1. v9 = [is |-> "gone"] /\ v10 = 0 /\ v11 = {} /\ SwitchTyped
  BY SwitchInit DEF H!Init, SwitchInv
<1>2. v10 \in 0 .. MaxAsked
  BY <1>1, SwitchConstants
<1> QED BY <1>1, <1>2 DEF SwitchTyped, H!TypeOK

\* Reads are counted from one.
LEMMA HomeTypesKeep ==
  ASSUME HomeInv, H!TypeOK, H!Next, HomeInv', SwitchInv'
  PROVE  H!TypeOK'
<1>1. v9'.is \in {"gone", "loading", "failed", "ready"} /\ \A r \in v11' : r.mine <= v10' /\ r.mine \in Nat
  BY DEF HomeInv, Cards, Reads, Numbered
<1>2. v10 \in 0 .. MaxAsked /\ MaxAsked \in Nat /\ \A r \in v11 : r.mine \in 1 .. v10
  BY SwitchConstants DEF H!TypeOK
<1>3. v10' \in 0 .. MaxAsked
  <2>1. v10' = v10 \/ v10' = 0 \/ (v10 < MaxAsked /\ v10' = v10 + 1)
    BY Zenon DEF H!Next, H!SignIn, H!SignOut, H!CardComes, H!ToTheFront, H!retry, H!read, H!Night,
           H!ServeGate, H!LoseGate, H!GateAnswered, H!ServeFetch, H!LoseFetch, H!Fetched, H!set, H!ServeSet,
           H!LoseSet, H!SetReturns, H!ChangeElsewhere, H!NewWording, H!gate
  <2> QED BY <1>2, <2>1
<1>4. \A r \in v11' : r.mine # 0
  <2>1. CASE v11' \subseteq v11
    BY <1>2, <2>1
  <2>2. ASSUME NEW q \in BOOLEAN, H!read(q) PROVE \A r \in v11' : r.mine # 0
    BY <1>2, <2>2 DEF H!read
  <2>3. ASSUME NEW r \in v11, H!ServeGate(r) \/ H!LoseGate(r) PROVE \A q \in v11' : q.mine # 0
    <3>1. r \in Reads
      BY DEF HomeInv
    <3>2. PICK x \in {[r EXCEPT !.is = "answered", !.says = v8], [r EXCEPT !.is = "lost"]} : v11' = (v11 \ {r}) \cup {x}
      BY <2>3 DEF H!ServeGate, H!LoseGate
    <3>3. x.mine = r.mine
      BY <3>1, <3>2 DEF Reads
    <3>4. r.mine # 0 /\ \A q \in v11 : q.mine # 0
      BY <1>2
    <3> QED BY <3>2, <3>3, <3>4
  <2>4. \/ v11' \subseteq v11 \/ (\E q \in BOOLEAN : H!read(q))
        \/ \E r \in v11 : H!ServeGate(r) \/ H!LoseGate(r)
    BY Zenon DEF H!Next, H!SignIn, H!SignOut, H!CardComes, H!ToTheFront, H!retry, H!Night,
           H!GateAnswered, H!ServeFetch, H!LoseFetch, H!Fetched, H!set, H!ServeSet,
           H!LoseSet, H!SetReturns, H!ChangeElsewhere, H!NewWording, H!gate
  <2> QED BY <2>1, <2>2, <2>3, <2>4
<1>5. v10' \in Nat /\ \A r \in v11' : r.mine \in 1 .. v10'
  BY <1>1, <1>3, <1>4, SwitchConstants
<1> QED BY <1>1, <1>3, <1>5 DEF SwitchInv, SwitchTyped, H!TypeOK

-----------------------------------------------------------------------------
(* The parts together                                                      *)

ServiceInv ==
  /\ Inv /\ Capped
  /\ part = "onboarding"   => OnboardingInv
  /\ part = "staff"        => StaffInv
  /\ part = "bank"         => BankInv
  /\ part = "budget"       => BudgetInv
  /\ part = "limiter"      => LimiterInv
  /\ part = "waitlist"     => WaitlistInv
  /\ part = "home"         => HomeInv
  /\ part = "translations" => TranslationsInv
  /\ part = "personas"     => PersonasInv
  /\ part = "population"   => PopulationInv

LEMMA ServiceInit == InitService => ServiceInv
<1> SUFFICES ASSUME InitService PROVE ServiceInv
  OBVIOUS
<1>1. /\ Init
      /\ part = "onboarding"   => O!Init
      /\ part = "staff"        => S!Init
      /\ part = "bank"         => I!Init
      /\ part = "budget"       => B!Init
      /\ part = "limiter"      => V!Init
      /\ part = "waitlist"     => W!Init
      /\ part = "home"         => H!Init
      /\ part = "translations" => T!Init
      /\ part = "personas"     => R!Init
      /\ part = "population"   => U!Init
  BY Zenon DEF InitService
<1> QED BY <1>1, InitInv, NothingConsented, OnboardingInit, StaffInit, BankInit, BudgetInit,
           LimiterInit, WaitlistInit, HomeInit, TranslationsInit, PersonasInit, PopulationInit
        DEF ServiceInv

\* A step is one of the part's, and leaves alone what is not the part's; or nothing moves.
LEMMA StepOfPart ==
  ASSUME [NextService]_<<part, vars, slots>>
  PROVE  /\ part' = part /\ [Next]_vars
         /\ \/ /\ part = "onboarding"   => O!Next
               /\ part = "staff"        => S!Next
               /\ part = "bank"         => I!Next
               /\ part = "budget"       => B!Next
               /\ part = "limiter"      => V!Next
               /\ part = "waitlist"     => W!Next
               /\ part = "home"         => H!Next
               /\ part = "translations" => T!Next
               /\ part = "personas"     => R!Next
               /\ part = "population"   => U!Next
            \/ UNCHANGED <<v1, v2, v3, v4, v5, v6, v7, v8, v9, v10, v11, v12>>
<1>1. CASE NextService
  BY <1>1 DEF NextService
<1>2. CASE UNCHANGED <<part, vars, slots>>
  <2>1. UNCHANGED <<part, vars>> /\ UNCHANGED <<v1, v2, v3, v4, v5, v6, v7, v8, v9, v10, v11, v12>>
    BY <1>2 DEF slots, Rest6, Rest7, Rest11
  <2> QED BY <2>1
<1> QED BY <1>1, <1>2

\* Where nothing moves, each invariant stays.
LEMMA PartsRest ==
  ASSUME UNCHANGED <<v1, v2, v3, v4, v5, v6, v7, v8, v9, v10, v11, v12>>
  PROVE  /\ OnboardingInv => OnboardingInv'
         /\ StaffInv => StaffInv'
         /\ BankInv => BankInv'
         /\ BudgetInv => BudgetInv'
         /\ LimiterInv => LimiterInv'
         /\ WaitlistInv => WaitlistInv'
         /\ HomeInv => HomeInv'
         /\ TranslationsInv => TranslationsInv'
         /\ PersonasInv => PersonasInv'
         /\ PopulationInv => PopulationInv'
<1>1. OnboardingInv => OnboardingInv'
  BY DEF OnboardingInv, StatusKnown, Agreed, O!Live, O!ActiveOnlyOnboarded
<1>2. StaffInv => StaffInv'
  BY StaffGiven, StaffKept DEF S!vars
<1>3. BankInv => BankInv'
  BY DEF BankInv, HeldKnown, LoginKnown, TokenKnown, Unmistaken, Settled
<1>4. BudgetInv => BudgetInv'
  BY BudgetKeeps DEF B!vars
<1>5. LimiterInv => LimiterInv'
  BY DEF LimiterInv
<1>6. WaitlistInv => WaitlistInv'
  BY DEF WaitlistInv, WaitlistTyped, OneCounts, Counting, Follows, Near, SaidStands, LastDay
<1>7. HomeInv => HomeInv'
  BY GateStays
<1>8. TranslationsInv => TranslationsInv'
  BY DEF TranslationsInv, HashKnown
<1>9. PersonasInv => PersonasInv'
  <2> SUFFICES ASSUME PersonasInv PROVE PersonasInv'
    OBVIOUS
  <2>1. PersonasTyped'
    BY DEF PersonasInv, PersonasTyped
  <2> QED BY <2>1, EverybodyLocked, NobodysRows DEF PersonasInv
<1>10. PopulationInv => PopulationInv'
  BY DEF PopulationInv, PopulationTyped, ToldOfNone, GatesFollow, CounterFollows, At, Somebody, Deployable,
         U!CountedToday
<1> QED BY <1>1, <1>2, <1>3, <1>4, <1>5, <1>6, <1>7, <1>8, <1>9, <1>10

LEMMA ServiceKeeps ==
  ServiceInv /\ [NextService]_<<part, vars, slots>> => ServiceInv'
<1> SUFFICES ASSUME ServiceInv, [NextService]_<<part, vars, slots>> PROVE ServiceInv'
  OBVIOUS
<1>1. part' = part /\ Inv' /\ Capped'
  BY StepOfPart, NextKeeps, NextKeepsTheCap DEF ServiceInv
<1>2. CASE UNCHANGED <<v1, v2, v3, v4, v5, v6, v7, v8, v9, v10, v11, v12>>
  BY <1>1, <1>2, PartsRest DEF ServiceInv
<1>3. CASE ~UNCHANGED <<v1, v2, v3, v4, v5, v6, v7, v8, v9, v10, v11, v12>>
  <2>1. /\ part = "onboarding"   => O!Next
        /\ part = "staff"        => S!Next
        /\ part = "bank"         => I!Next
        /\ part = "budget"       => B!Next
        /\ part = "limiter"      => V!Next
        /\ part = "waitlist"     => W!Next
        /\ part = "home"         => H!Next
        /\ part = "translations" => T!Next
        /\ part = "personas"     => R!Next
        /\ part = "population"   => U!Next
    BY <1>3, StepOfPart
  <2>2. part = "budget" => BudgetInv'
    BY <2>1, BudgetKeeps DEF ServiceInv
  <2>3. part = "home" => HomeInv'
    BY <2>1, HomeKeeps DEF ServiceInv
  <2>4. part = "waitlist" => WaitlistInv'
    BY <2>1, WaitlistKeeps DEF ServiceInv
  <2> QED BY <1>1, <2>1, <2>2, <2>3, <2>4, OnboardingKeeps, StaffKeeps, BankKeeps, LimiterKeeps,
             TranslationsKeep, PersonasKeep, PopulationKeeps DEF ServiceInv
<1> QED BY <1>2, <1>3

-----------------------------------------------------------------------------
(* The types of the parts, and the switch of home                          *)

Typings == TypesOK /\ (part = "home" => SwitchInv)

LEMMA TypingsInit == InitService => Typings
<1> SUFFICES ASSUME InitService PROVE Typings
  OBVIOUS
<1>1. /\ Init
      /\ part = "onboarding"   => O!Init
      /\ part = "staff"        => S!Init
      /\ part = "bank"         => I!Init
      /\ part = "budget"       => B!Init
      /\ part = "limiter"      => V!Init
      /\ part = "home"         => H!Init
      /\ part = "translations" => T!Init
      /\ part = "personas"     => R!Init
      /\ part = "population"   => U!Init
  BY Zenon DEF InitService
<1>2. TypeOK /\ (part = "staff" => S!TypeOK) /\ (part = "budget" => B!TypeOK)
  BY <1>1, InitInv, StaffInit, StaffTypes, BudgetInit, BudgetTypes DEF Inv
<1> QED BY <1>1, <1>2, OnboardingTypesInit, BankTypesInit, LimiterTypesInit, HomeTypesInit, SwitchInit,
           TranslationsTypesInit, PersonasTypesInit, PopulationTypesInit
        DEF TypesOK, Typings

\* Where nothing moves, each type stays.
LEMMA TypesRest ==
  ASSUME UNCHANGED <<v1, v2, v3, v4, v5, v6, v7, v8, v9, v10, v11, v12>>
  PROVE  /\ O!TypeOK => O!TypeOK'
         /\ I!TypeOK => I!TypeOK'
         /\ V!TypeOK => V!TypeOK'
         /\ H!TypeOK => H!TypeOK'
         /\ T!TypeOK => T!TypeOK'
         /\ R!TypeOK => R!TypeOK'
         /\ U!TypeOK => U!TypeOK'
         /\ SwitchInv => SwitchInv'
<1>1. O!TypeOK => O!TypeOK'
  BY DEF O!TypeOK
<1>2. I!TypeOK => I!TypeOK'
  BY DEF I!TypeOK, I!PublishedKeys
<1>3. V!TypeOK => V!TypeOK'
  BY DEF V!TypeOK
<1>4. H!TypeOK => H!TypeOK'
  BY DEF H!TypeOK
<1>5. T!TypeOK => T!TypeOK'
  BY DEF T!TypeOK
<1>6. R!TypeOK => R!TypeOK'
  BY DEF R!TypeOK
<1>7. U!TypeOK => U!TypeOK'
  BY DEF U!TypeOK
<1> QED BY <1>1, <1>2, <1>3, <1>4, <1>5, <1>6, <1>7, SwitchRests

LEMMA TypingsKeep ==
  ASSUME ServiceInv, ServiceInv', Typings, [NextService]_<<part, vars, slots>>
  PROVE  Typings'
<1>1. part' = part /\ TypeOK'
  BY StepOfPart DEF ServiceInv, Inv
<1>2. (part = "staff" => S!TypeOK') /\ (part = "budget" => B!TypeOK')
  <2>1. StaffInv' => S!TypeOK'
    BY StaffTypes, PTL
  <2>2. BudgetInv' => B!TypeOK'
    BY BudgetTypes, PTL
  <2> QED BY <1>1, <2>1, <2>2 DEF ServiceInv
<1>3. CASE UNCHANGED <<v1, v2, v3, v4, v5, v6, v7, v8, v9, v10, v11, v12>>
  BY <1>1, <1>2, <1>3, TypesRest DEF Typings, TypesOK
<1>4. CASE ~UNCHANGED <<v1, v2, v3, v4, v5, v6, v7, v8, v9, v10, v11, v12>>
  <2>1. /\ part = "onboarding"   => O!Next
        /\ part = "bank"         => I!Next
        /\ part = "limiter"      => V!Next
        /\ part = "home"         => H!Next
        /\ part = "translations" => T!Next
        /\ part = "personas"     => R!Next
        /\ part = "population"   => U!Next
    BY <1>4, StepOfPart
  <2>2. part = "onboarding" => O!TypeOK'
    BY <1>1, <2>1, OnboardingTypesKeep DEF ServiceInv, Typings, TypesOK
  <2>3. part = "bank" => I!TypeOK'
    BY <1>1, <2>1, BankTypesKeep DEF ServiceInv, Typings, TypesOK
  <2>4. part = "limiter" => V!TypeOK'
    BY <1>1, <2>1, LimiterTypesKeep DEF ServiceInv, Typings, TypesOK
  <2>5. part = "home" => SwitchInv' /\ H!TypeOK'
    <3>1. part = "home" => SwitchInv'
      BY <2>1, SwitchKeeps DEF Typings
    <3> QED BY <1>1, <2>1, <3>1, HomeTypesKeep DEF ServiceInv, Typings, TypesOK
  <2>6. part = "translations" => T!TypeOK'
    BY <1>1, <2>1, TranslationsTypesKeep DEF ServiceInv, Typings, TypesOK
  <2>7. part = "personas" => R!TypeOK'
    BY <1>1, <2>1, PersonasTypesKeep DEF ServiceInv, Typings, TypesOK
  <2>8. part = "population" => U!TypeOK'
    BY <1>1, <2>1, PopulationTypesKeep DEF ServiceInv, Typings, TypesOK
  <2> QED BY <1>1, <1>2, <2>2, <2>3, <2>4, <2>5, <2>6, <2>7, <2>8 DEF Typings, TypesOK
<1> QED BY <1>3, <1>4

-----------------------------------------------------------------------------
(* Theorems                                                                *)

\* The variables of each part stay in their types, and the bounds within their bounds,
\* for any handlers, people and limits.
THEOREM ServiceTypes == SpecService => []TypesOK
<1>1. ServiceInv /\ Typings /\ [NextService]_<<part, vars, slots>> => ServiceInv' /\ Typings'
  BY ServiceKeeps, TypingsKeep
<1>2. Typings => TypesOK
  BY DEF Typings
<1> QED BY <1>1, <1>2, ServiceInit, TypingsInit, PTL DEF SpecService

\* An account is active only when everything of the onboarding is there, and what a
\* status answers of it is so; staff have one session a login and none past a
\* revocation; and a login is the person's who named themselves at the bank, and fails
\* for no fault of ours: whatever handlers, crashes, revocations and key rotations
\* come between a read and its use.
THEOREM ServiceWhoIsLetIn == SpecService => []WhoIsLetIn
<1>1. ServiceInv => WhoIsLetIn
  BY OnboardingSays, StaffSays, BankSays DEF ServiceInv, WhoIsLetIn
<1> QED BY <1>1, ServiceInit, ServiceKeeps, PTL DEF SpecService

\* No day goes over the viewer's budgets, no minute over twice an address's limit, no
\* day over its cap of consents, whatever requests, sweeps, deletions and midnights
\* come between a count and what it allows; and who waits as told is let through.
THEOREM ServiceWithinBudgets == SpecService => []WithinBudgets
<1>1. ServiceInv => WithinBudgets
  BY CappedSays, BudgetSays, LimiterSays DEF ServiceInv, WithinBudgets
<1> QED BY <1>1, ServiceInit, ServiceKeeps, PTL DEF SpecService

\* A Finnish day is counted once, unless the clocks of two counts were read on either
\* side of midnight, and what is said of the pond moves by no fewer people than the
\* floor, whatever k was; the switch of the research consent shows what is stored once
\* everything is answered; and the card of the gate goes back no night and to nothing.
THEOREM ServiceToldCarefully == SpecService => ToldCarefully
<1>1. ASSUME ServiceInv, [NextService]_<<part, vars, slots>>
      PROVE  [/\ part = "waitlist" => W!SaidInStep /\ W!CountsANewDay
              /\ part = "home" => H!NeverGoesBack]_<<part, vars, slots>>
  <2>1. CASE UNCHANGED <<v1, v2, v3, v4, v5, v6, v7, v8, v9, v10, v11, v12>>
    BY <1>1, <2>1, WaitlistRests, GateStays DEF ServiceInv
  <2>2. CASE ~UNCHANGED <<v1, v2, v3, v4, v5, v6, v7, v8, v9, v10, v11, v12>>
    <3>1. (part = "waitlist" => W!Next) /\ (part = "home" => H!Next)
      BY <1>1, <2>2, StepOfPart
    <3> QED BY <1>1, <3>1, WaitlistKeeps, HomeKeeps DEF ServiceInv
  <2> QED BY <2>1, <2>2
<1>2. ServiceInv /\ Typings /\ [NextService]_<<part, vars, slots>> => ServiceInv' /\ Typings'
  BY ServiceKeeps, TypingsKeep
<1>3. Typings => (part = "home" => H!SwitchIsTrue)
  BY SwitchSays DEF Typings
<1> QED BY <1>1, <1>2, <1>3, ServiceInit, TypingsInit, PTL DEF SpecService, ToldCarefully

\* A text that counts as reviewed is one that was approved, no import writes over a newer
\* one, and an approval shows; a reset of the demo takes its people whole, with their
\* objects, or not at all, whoever uploads, leaves or becomes staff meanwhile; and the
\* demo's population is never in a deployed database, is counted anew whichever
\* commands and counts overlap, and its clean-up takes nobody who logged in.
THEOREM ServiceWorkIsSpared == SpecService => WorkIsSpared
<1>1. ServiceInv => ToolsKeepTheirWord
  BY TranslationsSay, PersonasSay, PopulationSays DEF ServiceInv, ToolsKeepTheirWord
<1>2. ASSUME ServiceInv, ServiceInv', [NextService]_<<part, vars, slots>>
      PROVE  [/\ part = "translations" => T!OverwritesNothingNewer /\ T!ApprovalsShow
              /\ part = "population" => U!PeopleAreSpared]_<<part, vars, slots>>
  <2>1. part = "translations" => T!OverwritesNothingNewer /\ T!ApprovalsShow
    BY <1>2, StepOfPart, NothingIsOverwritten DEF ServiceInv
  <2>2. part = "population" => U!PeopleAreSpared
    <3>1. CASE UNCHANGED <<v1, v2, v3, v4, v5, v6, v7, v8, v9, v10, v11, v12>>
      BY <3>1 DEF U!PeopleAreSpared
    <3>2. CASE ~UNCHANGED <<v1, v2, v3, v4, v5, v6, v7, v8, v9, v10, v11, v12>>
      BY <1>2, <3>2, StepOfPart, PeopleSpared DEF ServiceInv
    <3> QED BY <3>1, <3>2
  <2> QED BY <2>1, <2>2
<1> QED BY <1>1, <1>2, ServiceInit, ServiceKeeps, PTL DEF SpecService, WorkIsSpared
=============================================================================
