------------------------------ MODULE Consents ------------------------------
(***************************************************************************)
(* The research consent of one account (apps/api/src/identity/             *)
(* onboarding.ts, research/): the mapping row lives as long as the         *)
(* consent, and events are written by requests of their own.  Onboarding   *)
(* has the two other kinds.                                                *)
(*                                                                         *)
(* Every writer of consents and of the mapping takes the account's row     *)
(* lock first and keeps it, so its transaction is one step.  An event's    *)
(* transaction takes only a share lock on the mapping row, and is two.     *)
(***************************************************************************)
EXTENDS Naturals, FiniteSets, SequencesExt

CONSTANTS Handler, None,
          Pseudonym,              \* research_id values
          CONSENT_CHURN_PER_DAY,
          DAY,                    \* a day in ticks of now
          MaxTime, MaxVersion,    \* bounds: clock, wordings
          MaxEvents               \* bound: events written

ASSUME ConsentsAssumption ==
  /\ MaxTime \in Nat /\ MaxVersion \in Nat \ {0} /\ DAY \in Nat
  /\ CONSENT_CHURN_PER_DAY \in Nat \ {0}
  /\ None \notin [id : Pseudonym, version : 1 .. MaxVersion]

VARIABLES
  now,
  current,   \* CURRENT_CONSENT_VERSIONS.research, as deployed
  live,      \* account.state is not deleted
  consent,   \* consent rows of the kind research, oldest first
  subject,   \* research_subject row
  spent,     \* pseudonyms ever drawn
  events,    \* events rows, oldest first
  call

vars == <<now, current, live, consent, subject, spent, events, call>>

Idle == [pc |-> "idle"]

Init ==
  /\ now = 0 /\ current = 1
  /\ live = TRUE /\ consent = <<>> /\ subject = None /\ spent = {} /\ events = <<>>
  /\ call = [c \in Handler |-> Idle]

\* Whether a row is the active consent for the wording v.
HasActive(v) == \E i \in DOMAIN consent : consent[i].version = v /\ ~consent[i].withdrawn

Become(c, state) == call' = [call EXCEPT ![c] = state]

-----------------------------------------------------------------------------
(* giveConsent and withdrawResearchConsent                                 *)

\* The request names the current wording; the clock is read before the transaction.
BeginConsent(c) ==
  /\ call[c] = Idle
  /\ Become(c, [pc |-> "give", version |-> current, at |-> now])
  /\ UNCHANGED <<now, current, live, consent, subject, spent, events>>

\* Consents given in the day before t, or later.
Recent(t) == {i \in DOMAIN consent : consent[i].at + DAY > t}

\* Mutation: a mapping row that is there already is left as it is.
EnrolledOnce(version) ==
  IF subject = None THEN {[id |-> r, version |-> version] : r \in Pseudonym \ spent}
  ELSE {subject}

\* enrolSubject: an existing row keeps its pseudonym and moves to the wording.
Enrolled(version) ==
  IF subject = None
  THEN {[id |-> r, version |-> version] : r \in Pseudonym \ spent}
  ELSE {[subject EXCEPT !.version = version]}

\* A share lock on the mapping row: FOR SHARE OF s in snapshotRows.
Shared == \E c \in Handler : call[c].pc = "event"

\* Mutation: the mapping row is written without the row's lock being free.
MappingUnguarded == TRUE

\* Nobody writes the mapping row under a share lock.
MappingFree == ~Shared

\* recordConsent, enrolSubject and the opt-in event, one transaction under the
\* account's lock.  The event goes into a savepoint, and may fail alone.
RecordConsent(c) ==
  /\ call[c].pc = "give" /\ live
  /\ LET v == call[c].version  t == call[c].at
     IN  IF Cardinality(Recent(t)) >= CONSENT_CHURN_PER_DAY \/ HasActive(v)
         THEN UNCHANGED <<consent, subject, spent, events>>
         ELSE /\ subject = None \/ MappingFree
              /\ consent' = Append(consent, [version |-> v, at |-> t, withdrawn |-> FALSE])
              /\ subject' \in Enrolled(v)
              /\ spent' = spent \cup {subject'.id}
              /\ \/ Len(events) < MaxEvents /\ events' = Append(events, subject')
                 \/ UNCHANGED events
  /\ Become(c, Idle)
  /\ UNCHANGED <<now, current, live>>

NoAccount(c) ==
  /\ call[c].pc = "give" /\ ~live
  /\ Become(c, Idle)
  /\ UNCHANGED <<now, current, live, consent, subject, spent, events>>

\* withdrawConsent: every active row of the kind, whatever its wording.
Withdrawn == [i \in DOMAIN consent |-> [consent[i] EXCEPT !.withdrawn = TRUE]]

Withdraw ==
  /\ live /\ MappingFree
  /\ \E i \in DOMAIN consent : ~consent[i].withdrawn
  /\ consent' = Withdrawn
  /\ subject' = None
  /\ UNCHANGED <<now, current, live, spent, events, call>>

-----------------------------------------------------------------------------
(* track, outside the transaction of what it tells of: saveProfile         *)

\* snapshotRows: the mapping row under a share lock; without it, no event.
BeginEvent(c) ==
  /\ call[c] = Idle /\ live /\ subject # None
  /\ Become(c, [pc |-> "event", row |-> subject])
  /\ UNCHANGED <<now, current, live, consent, subject, spent, events>>

\* insertEvent and the commit, or a failure that only drops the event.
WriteEvent(c) ==
  /\ call[c].pc = "event"
  /\ \/ Len(events) < MaxEvents /\ events' = Append(events, call[c].row)
     \/ UNCHANGED events
  /\ Become(c, Idle)
  /\ UNCHANGED <<now, current, live, consent, subject, spent>>

-----------------------------------------------------------------------------
\* eraseAccount, as far as these rows go: the consents stay as proof.
Erase ==
  /\ live /\ MappingFree
  /\ live' = FALSE /\ subject' = None
  /\ UNCHANGED <<now, current, consent, spent, events, call>>

\* A deploy with a newer wording; the old process finishes what it has begun.
NewWording ==
  /\ current < MaxVersion
  /\ current' = current + 1
  /\ UNCHANGED <<now, live, consent, subject, spent, events, call>>

Tick ==
  /\ now < MaxTime
  /\ now' = now + 1
  /\ UNCHANGED <<current, live, consent, subject, spent, events, call>>

Next ==
  \/ \E c \in Handler :
       \/ BeginConsent(c) \/ RecordConsent(c) \/ NoAccount(c) \/ BeginEvent(c) \/ WriteEvent(c)
  \/ Withdraw \/ Erase \/ NewWording \/ Tick

Spec == Init /\ [][Next]_vars

-----------------------------------------------------------------------------
ConsentRows == [version : 1 .. MaxVersion, at : 0 .. MaxTime, withdrawn : BOOLEAN]
SubjectRows == [id : Pseudonym, version : 1 .. MaxVersion]
Calls ==
  {Idle} \cup [pc : {"give"}, version : 1 .. MaxVersion, at : 0 .. MaxTime]
    \cup [pc : {"event"}, row : SubjectRows]

TypeOK ==
  /\ now \in 0 .. MaxTime /\ current \in 1 .. MaxVersion /\ live \in BOOLEAN
  /\ consent \in Seq(ConsentRows) /\ \A i \in DOMAIN consent : consent[i].at <= now
  /\ subject \in SubjectRows \cup {None} /\ spent \subseteq Pseudonym
  /\ subject # None => subject.id \in spent
  /\ events \in Seq(SubjectRows)
  /\ call \in [Handler -> Calls]
  /\ \A c \in Handler : call[c].pc = "give" => call[c].at <= now

\* The mapping lives exactly as long as the consent (onboarding.ts: "The
\* research_id mapping lives exactly as long as the consent"), whatever wordings
\* were accepted one after the other, and names the one accepted last.
MappingFollowsConsent ==
  /\ (subject # None) <=> (live /\ \E i \in DOMAIN consent : ~consent[i].withdrawn)
  /\ subject # None => subject.version = Last(consent).version

\* The rows are kept for good, so no day takes more of them than the cap,
\* though each request reads its clock before it waits for the lock.
ChurnIsCapped ==
  \A t \in 0 .. now :
    Cardinality({i \in DOMAIN consent : consent[i].at \in t .. t + DAY - 1}) <= CONSENT_CHURN_PER_DAY

\* No event lands after the consent ended, and none under a wording or a
\* pseudonym but those in force as it commits (snapshotRows: "no event lands
\* after the consent ended").
NoEventAfterConsent ==
  [][events' # events => Last(events') = subject' /\ live]_vars
=============================================================================
