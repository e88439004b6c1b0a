---------------------------- MODULE ScreensProofs ----------------------------
(***************************************************************************)
(* A theorem about Screens, for any number of sessions, photos, requests,  *)
(* prompts, accounts, ponds, languages and logins: each screen has its     *)
(* invariant.  A behaviour of Screens is one of one screen, so its         *)
(* invariant is that of each screen while it is the one.                   *)
(***************************************************************************)
EXTENDS Screens, Integers, FiniteSets, Sequences, TLAPS, FiniteSetTheorems, WellFoundedInduction

-----------------------------------------------------------------------------
(* Device.  The store is read for what it will be once its calls under way *)
(* are through: that is the pair the app works with, and unless something  *)
(* excuses it, the pair of a session that goes on is the API's live one or *)
(* is about to be replaced by it.                                          *)

\* What SecureStore holds in the end.
DeviceKept == IF x4 = <<>> THEN x3 ELSE x4[Len(x4)]

DeviceTypes ==
  /\ x1 \in [PhoneSession -> [n : 0 .. MaxPairs, ended : BOOLEAN]]
  /\ x2 \in D!Pairs \cup {Blank} /\ x3 \in D!Pairs \cup {Blank}
  /\ x4 \in Seq(D!Pairs \cup {Blank})
  /\ x5 \in Seq([is : {"sent", "answered"}, of : D!Pairs, pair : D!Pairs \cup {Blank}])
  /\ Len(x5) <= 1
  /\ x6 \in {"loading", "signed-in", "signed-out"} /\ x8 \in PhoneSession \cup {Blank}
  /\ x9 \in {"no", "asked", "answered"} /\ x10 \in PhoneSession \cup {Blank, Left}
  /\ x11 \in 0 .. PhoneTrouble /\ x12 \in BOOLEAN

\* A session nobody has signed in to has not ended, and an answer is for the pair it was asked with.
DeviceFresh ==
  /\ \A s \in PhoneSession : x1[s].n = 0 => ~x1[s].ended
  /\ x8 # Blank => x1[x8].n = 0
  /\ x5 # <<>> /\ x5[1].pair # Blank => x5[1].is = "answered" /\ x5[1].pair.session = x5[1].of.session

\* The app works with what is kept, once it has read it.
DeviceReads ==
  IF x6 = "loading" THEN x2 = Blank /\ x4 = <<>> /\ x5 = <<>> /\ x8 = Blank /\ x9 = "no"
  ELSE x2 = DeviceKept

\* The pair of a session that goes on is the live one, or the live one is on its way.
DeviceLive(p) ==
  p # Blank /\ ~x1[p.session].ended =>
    IF x5 # <<>> /\ x5[1].is = "answered"
    THEN x5[1].pair = [session |-> p.session, n |-> x1[p.session].n]
    ELSE p.n = x1[p.session].n

DeviceUnexcused ==
  /\ x5 # <<>> => x5[1].of = x2
  /\ DeviceLive(DeviceKept)
  /\ x10 \in PhoneSession =>
       DeviceKept # Blank /\ DeviceKept.session = x10 /\ ~x1[x10].ended /\ x9 # "asked"
  /\ x10 = Left => DeviceKept = Blank

DeviceInv == DeviceTypes /\ DeviceFresh /\ DeviceReads /\ (~x12 => DeviceUnexcused)

DeviceFlights == [is : {"sent", "answered"}, of : D!Pairs, pair : D!Pairs \cup {Blank}]

LEMMA DeviceOneFlight ==
  ASSUME DeviceTypes, NEW i \in DOMAIN x5
  PROVE  /\ i = 1 /\ x5 # <<>> /\ x5[1] \in DeviceFlights
         /\ D!Others(x5, i) = <<>>
         /\ \A f \in DeviceFlights : [x5 EXCEPT ![i] = f] \in Seq(DeviceFlights)
              /\ Len([x5 EXCEPT ![i] = f]) = 1 /\ [x5 EXCEPT ![i] = f][1] = f
<1>1. x5 \in Seq(DeviceFlights) /\ Len(x5) <= 1
  BY DEF DeviceTypes, DeviceFlights
<1>2. i = 1 /\ Len(x5) = 1 /\ x5 # <<>> /\ x5[1] \in DeviceFlights
  <2>1. i \in 1 .. Len(x5) /\ Len(x5) \in Nat
    BY <1>1
  <2>2. Len(x5) <= 1
    BY <1>1
  <2>3. i = 1 /\ Len(x5) = 1
    <3>1. \A n \in Nat : \A j \in 1 .. n : n <= 1 => j = 1 /\ n = 1
      OBVIOUS
    <3> QED BY <2>1, <2>2, <3>1
  <2> QED BY <1>1, <2>3
<1>3. D!Others(x5, i) = <<>>
  BY <1>1, <1>2 DEF D!Others
<1>4. ASSUME NEW f \in DeviceFlights
      PROVE  /\ [x5 EXCEPT ![i] = f] \in Seq(DeviceFlights)
             /\ Len([x5 EXCEPT ![i] = f]) = 1 /\ [x5 EXCEPT ![i] = f][1] = f
  BY <1>1, <1>2
<1> QED BY <1>2, <1>3, <1>4

\* What persist does to what is kept, and a call that returns does not.
LEMMA DevicePersists ==
  ASSUME DeviceTypes, NEW p \in D!Pairs \cup {Blank}, D!persist(p)
  PROVE  /\ x2' = p /\ x4' \in Seq(D!Pairs \cup {Blank}) /\ x4' # <<>>
         /\ DeviceKept' = p
<1>1. x4' = Append(x4, p) /\ x2' = p /\ x4 \in Seq(D!Pairs \cup {Blank})
  BY DEF D!persist, DeviceTypes
<1>2. x4' \in Seq(D!Pairs \cup {Blank}) /\ Len(x4') = Len(x4) + 1 /\ x4'[Len(x4) + 1] = p
  BY <1>1
<1> QED BY <1>1, <1>2 DEF DeviceKept

LEMMA DeviceWrites ==
  ASSUME DeviceTypes, x4 # <<>>, x3' = Head(x4), x4' = Tail(x4)
  PROVE  /\ x3' \in D!Pairs \cup {Blank} /\ x4' \in Seq(D!Pairs \cup {Blank})
         /\ DeviceKept' = DeviceKept
<1>1. x4 \in Seq(D!Pairs \cup {Blank})
  BY DEF DeviceTypes
<1>2. x3' \in D!Pairs \cup {Blank} /\ x4' \in Seq(D!Pairs \cup {Blank}) /\ Len(x4') = Len(x4) - 1
  BY <1>1
<1>3. Len(x4) \in Nat \ {0} /\ x3' = x4[1]
  BY <1>1
<1>4. DeviceKept = x4[Len(x4)]
  BY DEF DeviceKept
<1>5. CASE Len(x4) = 1
  <2>1. x4' = <<>>
    BY <1>2, <1>5
  <2> QED BY <1>2, <1>3, <1>4, <1>5, <2>1 DEF DeviceKept
<1>6. CASE Len(x4) > 1
  <2>1. x4'[Len(x4')] = x4[Len(x4)] /\ x4' # <<>>
    BY <1>1, <1>2, <1>3, <1>6
  <2> QED BY <1>2, <1>4, <2>1 DEF DeviceKept
<1> QED BY <1>2, <1>3, <1>5, <1>6

LEMMA DeviceKeptType == ASSUME DeviceTypes PROVE DeviceKept \in D!Pairs \cup {Blank}
BY DEF DeviceTypes, DeviceKept

LEMMA DeviceInitInv == D!DeviceAssumption /\ D!Init => DeviceInv
<1> SUFFICES ASSUME D!DeviceAssumption, D!Init PROVE DeviceInv
  OBVIOUS
<1>1. DeviceTypes
  <2>1. /\ x2 = Blank /\ x3 = Blank /\ x4 = <<>> /\ x5 = <<>> /\ x6 = "loading" /\ x8 = Blank
        /\ x9 = "no" /\ x10 = Blank /\ x11 = 0 /\ x12 = FALSE
        /\ x1 = [t \in PhoneSession |-> [n |-> 0, ended |-> FALSE]]
    BY Zenon DEF D!Init
  <2>2. x1 \in [PhoneSession -> [n : 0 .. MaxPairs, ended : BOOLEAN]] /\ 0 \in 0 .. PhoneTrouble
    BY <2>1 DEF D!DeviceAssumption
  <2>3. x4 \in Seq(D!Pairs \cup {Blank}) /\ x5 \in Seq(DeviceFlights) /\ Len(x5) <= 1
    BY <2>1
  <2> QED BY <2>1, <2>2, <2>3 DEF DeviceTypes, DeviceFlights
<1>2. DeviceFresh /\ DeviceReads /\ DeviceUnexcused
  BY DEF D!DeviceAssumption, D!Init, DeviceFresh, DeviceReads, DeviceUnexcused, DeviceKept, DeviceLive
<1> QED BY <1>1, <1>2 DEF DeviceInv

LEMMA DevicePromises ==
  ASSUME DeviceInv, D!DeviceAssumption PROVE D!TypeOK /\ D!StaysSignedIn /\ D!StaysSignedOut
<1>1. D!TypeOK
  <2>1. /\ \A i \in DOMAIN x4 : x4[i] \in D!Pairs \cup {Blank}
        /\ \A i \in DOMAIN x5 : x5[i].of \in D!Pairs /\ x5[i].pair \in D!Pairs \cup {Blank}
    <3>1. DeviceTypes
      BY DEF DeviceInv
    <3>2. \A i \in DOMAIN x4 : x4[i] \in D!Pairs \cup {Blank}
      BY <3>1 DEF DeviceTypes
    <3>3. \A i \in DOMAIN x5 : x5[i] \in DeviceFlights
      <4>1. x5 \in Seq(DeviceFlights)
        BY <3>1 DEF DeviceTypes, DeviceFlights
      <4> QED BY <4>1
    <3> QED BY <3>2, <3>3 DEF DeviceFlights
  <2> QED BY <2>1 DEF DeviceInv, DeviceTypes, D!TypeOK
<1>2. D!StaysSignedIn
  BY DEF DeviceInv, DeviceTypes, DeviceReads, DeviceUnexcused, D!StaysSignedIn
<1>3. D!StaysSignedOut
  BY DEF DeviceInv, DeviceReads, DeviceUnexcused, DeviceKept, D!StaysSignedOut, D!DeviceAssumption
<1> QED BY <1>1, <1>2, <1>3

LEMMA DeviceNextInv == D!DeviceAssumption /\ DeviceInv /\ [D!Next]_(D!vars) => DeviceInv'
<1> SUFFICES ASSUME D!DeviceAssumption, DeviceInv, [D!Next]_(D!vars) PROVE DeviceInv'
  OBVIOUS
<1> USE DEF DeviceInv
<1>k. DeviceKept \in D!Pairs \cup {Blank}
  BY DeviceKeptType
<1>1. CASE D!StoreWritten
  <2>1. /\ x3' \in D!Pairs \cup {Blank} /\ x4' \in Seq(D!Pairs \cup {Blank})
        /\ DeviceKept' = DeviceKept /\ x4 # <<>>
    BY <1>1, DeviceWrites DEF D!StoreWritten
  <2>2. DeviceTypes'
    BY <1>1, <2>1 DEF DeviceTypes, D!StoreWritten, D!fromStored
  <2>3. DeviceFresh'
    BY <1>1 DEF DeviceFresh, D!StoreWritten
  <2>4. DeviceReads'
    BY <1>1, <2>1 DEF DeviceReads, D!StoreWritten, D!fromStored
  <2>5. ~x12 => DeviceUnexcused'
    BY <1>1, <2>1 DEF DeviceUnexcused, DeviceLive, D!StoreWritten
  <2> QED BY <1>1, <2>2, <2>3, <2>4, <2>5 DEF D!StoreWritten
<1>2. CASE D!loadSession
  <2>1. DeviceTypes' /\ DeviceFresh'
    BY <1>2 DEF DeviceTypes, DeviceFresh, D!loadSession, D!fromStored
  <2>2. DeviceKept' = DeviceKept /\ x5 = <<>> /\ DeviceReads'
    BY <1>2 DEF DeviceReads, DeviceKept, D!loadSession, D!fromStored
  <2>3. ~x12 => DeviceUnexcused'
    BY <1>2, <2>2 DEF DeviceUnexcused, DeviceLive, D!loadSession
  <2> QED BY <1>2, <2>1, <2>2, <2>3 DEF D!loadSession
<1>3. CASE D!refreshSession
  <2>1. /\ x5 = <<>> /\ x2 \in D!Pairs /\ x2 # Blank
        /\ x5' = <<[is |-> "sent", of |-> x2, pair |-> Blank]>>
    BY <1>3 DEF DeviceTypes, D!refreshSession, D!NoFlight
  <2>2. x5' \in Seq(DeviceFlights) /\ Len(x5') = 1 /\ x5'[1] = [is |-> "sent", of |-> x2, pair |-> Blank]
    BY <2>1 DEF DeviceFlights
  <2>3. DeviceTypes'
    BY <1>3, <2>2 DEF DeviceTypes, DeviceFlights, D!refreshSession
  <2>4. DeviceFresh' /\ DeviceReads' /\ DeviceKept' = DeviceKept
    BY <1>3, <2>1, <2>2 DEF DeviceFresh, DeviceReads, DeviceKept, D!refreshSession
  <2>5. ~x12 => DeviceUnexcused'
    BY <1>3, <2>1, <2>2, <2>4 DEF DeviceUnexcused, DeviceLive, D!refreshSession
  <2> QED BY <1>3, <2>3, <2>4, <2>5 DEF D!refreshSession
<1>4. ASSUME NEW i \in DOMAIN x5, D!ServeRefresh(i) PROVE DeviceInv'
  <2> DEFINE p == x5[1].of
             s == p.session
  <2>1. /\ i = 1 /\ x5 # <<>> /\ x5[1] \in DeviceFlights
        /\ \A f \in DeviceFlights : [x5 EXCEPT ![i] = f] \in Seq(DeviceFlights)
              /\ Len([x5 EXCEPT ![i] = f]) = 1 /\ [x5 EXCEPT ![i] = f][1] = f
    BY <1>4, DeviceOneFlight
  <2>2. p \in D!Pairs /\ s \in PhoneSession /\ p.n \in 1 .. MaxPairs /\ x1[s] \in [n : 0 .. MaxPairs, ended : BOOLEAN]
    BY <2>1 DEF DeviceFlights, DeviceTypes, D!Pairs
  <2>3. /\ x5[1].is = "sent" /\ x5[1].pair = Blank
        /\ x2' = x2 /\ x3' = x3 /\ x4' = x4 /\ x6' = x6 /\ x7' = x7 /\ x8' = x8 /\ x9' = x9
        /\ x10' = x10 /\ x11' = x11 /\ x12' = x12 /\ DeviceKept' = DeviceKept
    BY <1>4, <2>1 DEF D!ServeRefresh, DeviceKept, DeviceFresh
  <2>4. DeviceTypes /\ DeviceFresh /\ DeviceReads /\ (~x12 => DeviceUnexcused)
    OBVIOUS
  <2>5. CASE ~x1[s].ended /\ p.n = x1[s].n
    <3> DEFINE f == [is |-> "answered", of |-> p, pair |-> [session |-> s, n |-> p.n + 1]]
    <3>1. /\ p.n < MaxPairs /\ x1' = [x1 EXCEPT ![s].n = @ + 1]
          /\ x5' = [x5 EXCEPT ![i] = f]
      BY <1>4, <2>1, <2>5 DEF D!ServeRefresh
    <3>2. f \in DeviceFlights /\ f.is = "answered" /\ f.of = p /\ f.pair = [session |-> s, n |-> p.n + 1]
          /\ f.pair # Blank
      BY <2>2, <3>1 DEF DeviceFlights, D!Pairs, D!DeviceAssumption
    <3>3. x5' \in Seq(DeviceFlights) /\ Len(x5') = 1 /\ x5'[1] = f /\ x5' # <<>>
      BY <2>1, <3>1, <3>2
    <3>4. /\ x1' \in [PhoneSession -> [n : 0 .. MaxPairs, ended : BOOLEAN]]
          /\ x1'[s].n = p.n + 1 /\ \A t \in PhoneSession : x1'[t].ended = x1[t].ended
          /\ \A t \in PhoneSession : t # s => x1'[t] = x1[t]
      <4>1. x1 \in [PhoneSession -> [n : 0 .. MaxPairs, ended : BOOLEAN]] /\ p.n + 1 \in 0 .. MaxPairs
        BY <2>2, <2>4, <3>1 DEF DeviceTypes, D!DeviceAssumption
      <4>2. x1[s].n = p.n /\ s \in PhoneSession
        BY <2>2, <2>5
      <4> HIDE DEF s, p
      <4> QED BY <3>1, <4>1, <4>2
    <3> HIDE DEF f, p, s
    <3>5. DeviceTypes'
      BY <2>3, <2>4, <3>3, <3>4 DEF DeviceTypes, DeviceFlights
    <3>6. DeviceFresh'
      <4>1. \A t \in PhoneSession : x1'[t].n = 0 => ~x1'[t].ended /\ x1[t].n = 0
        BY <2>2, <2>4, <2>5, <3>4 DEF DeviceFresh
      <4>2. x8 # Blank => x1'[x8].n = 0
        <5>1. x8 # Blank => x8 \in PhoneSession /\ x1[x8].n = 0
          BY <2>4 DEF DeviceFresh, DeviceTypes
        <5>2. x1[s].n # 0
          BY <2>2, <2>5
        <5> QED BY <3>4, <5>1, <5>2
      <4>3. x5'[1].is = "answered" /\ x5'[1].pair.session = x5'[1].of.session
        BY <3>2, <3>3 DEF s
      <4> QED BY <2>3, <4>1, <4>2, <4>3 DEF DeviceFresh
    <3>7. DeviceReads'
      BY <2>1, <2>3, <2>4, <3>3 DEF DeviceReads
    <3>8. ASSUME ~x12 PROVE DeviceUnexcused'
      <4>1. x2 = p /\ DeviceKept = p
        BY <2>1, <2>4, <3>8 DEF DeviceUnexcused, DeviceReads, p
      <4>2. DeviceLive(DeviceKept)'
        BY <2>2, <2>3, <3>2, <3>3, <3>4, <4>1 DEF DeviceLive, s
      <4> QED BY <2>3, <2>4, <3>2, <3>3, <3>4, <3>8, <4>1, <4>2 DEF DeviceUnexcused
    <3> QED BY <2>3, <3>5, <3>6, <3>7, <3>8
  <2>6. CASE ~(~x1[s].ended /\ p.n = x1[s].n)
    <3> DEFINE f == [x5[1] EXCEPT !.is = "answered"]
    <3>1. /\ x1' = [x1 EXCEPT ![s].ended = @ \/ p.n + 1 = x1[s].n]
          /\ x5' = [x5 EXCEPT ![i] = f]
      BY <1>4, <2>1, <2>6 DEF D!ServeRefresh
    <3>2. f \in DeviceFlights /\ f.is = "answered" /\ f.of = p /\ f.pair = Blank
      BY <2>1, <2>3 DEF DeviceFlights
    <3>3. x5' \in Seq(DeviceFlights) /\ Len(x5') = 1 /\ x5'[1] = f /\ x5' # <<>>
      BY <2>1, <3>1, <3>2
    <3>4. x1' \in [PhoneSession -> [n : 0 .. MaxPairs, ended : BOOLEAN]]
      BY <2>2, <2>4, <3>1 DEF DeviceTypes
    <3>5. /\ \A t \in PhoneSession : x1'[t].n = x1[t].n /\ (x1[t].ended => x1'[t].ended)
          /\ \A t \in PhoneSession : t # s => x1'[t] = x1[t]
          /\ x1[s].n = 0 => x1'[s].ended = x1[s].ended
      <4> HIDE DEF f, p, s
      <4>1. x1 \in [PhoneSession -> [n : 0 .. MaxPairs, ended : BOOLEAN]] /\ s \in PhoneSession /\ p.n \in Nat
        BY <2>2, <2>4 DEF DeviceTypes
      <4>2. (x1[s].ended \/ p.n + 1 = x1[s].n) \in BOOLEAN
        BY Zenon
      <4> PICK ended \in BOOLEAN : ended = (x1[s].ended \/ p.n + 1 = x1[s].n)
        BY <4>2
      <4>3. x1' = [x1 EXCEPT ![s].ended = ended]
        BY <3>1
      <4>4. x1[s].n = 0 => ended = x1[s].ended
        <5>1. \A n \in Nat : n + 1 # 0
          OBVIOUS
        <5> QED BY <4>1, <5>1
      <4> QED BY <4>1, <4>3, <4>4
    <3> HIDE DEF f, p, s
    <3>6. DeviceTypes'
      BY <2>3, <2>4, <3>3, <3>4 DEF DeviceTypes, DeviceFlights
    <3>7. DeviceFresh'
      BY <2>2, <2>3, <2>4, <3>2, <3>3, <3>5 DEF DeviceFresh, DeviceTypes
    <3>8. DeviceReads'
      BY <2>1, <2>3, <2>4, <3>3 DEF DeviceReads
    <3>9. ASSUME ~x12 PROVE DeviceUnexcused'
      <4>1. x2 = p /\ DeviceKept = p
        BY <2>1, <2>4, <3>9 DEF DeviceUnexcused, DeviceReads, p
      <4>2. x1[s].ended /\ x1'[s].ended
        <5>1. p # Blank
          BY <2>2 DEF D!DeviceAssumption, D!Pairs
        <5> QED BY <2>2, <2>3, <2>4, <2>6, <3>5, <3>9, <4>1, <5>1 DEF DeviceUnexcused, DeviceLive, s
      <4>3. DeviceLive(DeviceKept)'
        BY <2>3, <4>1, <4>2 DEF DeviceLive, s
      <4>4. x10 \in PhoneSession => x10 # s
        BY <2>4, <3>9, <4>2 DEF DeviceUnexcused
      <4> QED BY <2>3, <2>4, <3>2, <3>3, <3>5, <3>9, <4>1, <4>3, <4>4 DEF DeviceUnexcused
    <3> QED BY <2>3, <3>6, <3>7, <3>8, <3>9
  <2> QED BY <2>5, <2>6
<1>5. ASSUME NEW i \in DOMAIN x5, D!RefreshReturns(i) PROVE DeviceInv'
  <2>1. i = 1 /\ x5 # <<>> /\ x5[1] \in DeviceFlights /\ D!Others(x5, i) = <<>>
    BY <1>5, DeviceOneFlight
  <2>2. D!persist(x5[1].pair) /\ x5[1].pair \in D!Pairs \cup {Blank}
    BY <1>5, <2>1 DEF D!RefreshReturns, D!clearSession, DeviceFlights
  <2>3. /\ x2' = x5[1].pair /\ x4' \in Seq(D!Pairs \cup {Blank}) /\ DeviceKept' = x5[1].pair
    BY <2>2, DevicePersists
  <2>4. /\ x5[1].is = "answered" /\ x5' = <<>> /\ x1' = x1 /\ x3' = x3 /\ x6' = x6 /\ x7' = x7
        /\ x8' = x8 /\ x9' = x9 /\ x10' = x10 /\ x11' = x11 /\ x12' = x12
    BY <1>5, <2>1 DEF D!RefreshReturns
  <2>5. DeviceTypes /\ DeviceFresh /\ DeviceReads /\ (~x12 => DeviceUnexcused)
    OBVIOUS
  <2>6. DeviceTypes'
    BY <2>2, <2>3, <2>4, <2>5 DEF DeviceTypes
  <2>7. DeviceFresh' /\ DeviceReads'
    BY <2>1, <2>3, <2>4, <2>5 DEF DeviceFresh, DeviceReads
  <2>8. ASSUME ~x12 PROVE DeviceUnexcused'
    <3>1. x5[1].of = DeviceKept /\ DeviceKept # Blank /\ DeviceLive(DeviceKept)
      <4>1. x5[1].of \in D!Pairs
        BY <2>1 DEF DeviceFlights
      <4> QED BY <2>1, <2>5, <2>8, <4>1 DEF DeviceUnexcused, DeviceReads, D!DeviceAssumption, D!Pairs
    <3>2. x5[1].pair # Blank => x5[1].pair.session = DeviceKept.session
      BY <2>1, <2>5, <3>1 DEF DeviceFresh
    <3>3. ~x1[DeviceKept.session].ended =>
             x5[1].pair = [session |-> DeviceKept.session, n |-> x1[DeviceKept.session].n]
      BY <2>1, <2>4, <3>1 DEF DeviceLive
    <3>4. DeviceLive(DeviceKept)'
      BY <2>3, <2>4, <3>2, <3>3 DEF DeviceLive
    <3>5. x10 \in PhoneSession => x5[1].pair # Blank
      <4>1. SUFFICES ASSUME x10 \in PhoneSession PROVE x5[1].pair # Blank
        OBVIOUS
      <4>2. /\ DeviceKept.session = x10 /\ ~x1[x10].ended
            /\ DeviceKept \in D!Pairs /\ x1[x10].n \in 0 .. MaxPairs
        BY <1>k, <2>5, <2>8, <3>1, <4>1 DEF DeviceUnexcused, DeviceTypes
      <4>3. x5[1].pair = [session |-> x10, n |-> x1[x10].n]
        BY <3>3, <4>2
      <4>4. [session |-> x10, n |-> x1[x10].n] # Blank
        BY <4>1, <4>2 DEF D!DeviceAssumption
      <4> QED BY <4>3, <4>4
    <3>6. x10 # Left
      BY <2>5, <2>8, <3>1 DEF DeviceUnexcused
    <3> QED BY <2>3, <2>4, <2>5, <2>8, <3>2, <3>4, <3>5, <3>6 DEF DeviceUnexcused
  <2> QED BY <2>4, <2>6, <2>7, <2>8
<1>6. ASSUME NEW i \in DOMAIN x5, D!RefreshFails(i) PROVE DeviceInv'
  <2>1. i = 1 /\ x5 # <<>> /\ x5[1] \in DeviceFlights /\ D!Others(x5, i) = <<>>
    BY <1>6, DeviceOneFlight
  <2>2. /\ x5' = <<>> /\ x11' = x11 + 1 /\ x11 < PhoneTrouble /\ x12' = (x12 \/ x5[1].pair # Blank)
        /\ UNCHANGED <<x1, x2, x3, x4, x6, x7, x8, x9, x10>> /\ DeviceKept' = DeviceKept
    BY <1>6, <2>1 DEF D!RefreshFails, DeviceKept
  <2>3. DeviceTypes'
    BY <2>2 DEF DeviceTypes, D!DeviceAssumption
  <2>4. DeviceFresh' /\ DeviceReads'
    BY <2>1, <2>2 DEF DeviceFresh, DeviceReads
  <2>5. ASSUME ~x12' PROVE DeviceUnexcused'
    <3>1. ~x12 /\ x5[1].pair = Blank /\ DeviceUnexcused /\ DeviceTypes
      BY <2>2, <2>5
    <3>2. DeviceLive(DeviceKept)'
      <4>1. SUFFICES ASSUME DeviceKept # Blank, ~x1[DeviceKept.session].ended
                     PROVE  DeviceKept.n = x1[DeviceKept.session].n
        BY <2>2 DEF DeviceLive
      <4>2. [session |-> DeviceKept.session, n |-> x1[DeviceKept.session].n] # Blank
        BY <1>k, <3>1, <4>1 DEF DeviceTypes, D!Pairs, D!DeviceAssumption
      <4> QED BY <2>1, <3>1, <4>1, <4>2 DEF DeviceUnexcused, DeviceLive
    <3> QED BY <2>2, <3>1, <3>2 DEF DeviceUnexcused
  <2> QED BY <2>3, <2>4, <2>5
<1>7. CASE D!OpenBank
  <2>1. UNCHANGED <<x1, x2, x3, x4, x5, x6, x8, x9, x10, x11, x12>>
    BY <1>7 DEF D!OpenBank
  <2> QED BY <2>1 DEF DeviceTypes, DeviceFresh, DeviceReads, DeviceUnexcused, DeviceKept, DeviceLive
<1>8. CASE \E s \in PhoneSession : D!OpenLink(s)
  <2>1. PICK s \in PhoneSession : D!OpenLink(s)
    BY <1>8
  <2>2. /\ UNCHANGED <<x1, x2, x3, x4, x5, x6, x9, x10, x11, x12>>
        /\ x6 # "loading" /\ x1[s].n = 0 /\ x8' \in {s, Blank}
    BY <2>1 DEF D!OpenLink
  <2> QED BY <2>2 DEF DeviceTypes, DeviceFresh, DeviceReads, DeviceUnexcused, DeviceKept, DeviceLive
<1>9. CASE D!signIn
  <2> DEFINE p == [session |-> x8, n |-> 1]
  <2>1. /\ x8 \in PhoneSession /\ x8 # Blank /\ x1[x8].n = 0 /\ ~x1[x8].ended /\ x6 # "loading"
        /\ p \in D!Pairs /\ p # Blank /\ x1[x8] \in [n : 0 .. MaxPairs, ended : BOOLEAN]
    BY <1>9 DEF D!signIn, DeviceTypes, DeviceFresh, DeviceReads, D!Pairs, D!DeviceAssumption
  <2>2. /\ x2' = p /\ x4' \in Seq(D!Pairs \cup {Blank}) /\ x4' # <<>> /\ DeviceKept' = p
    BY <1>9, <2>1, DevicePersists DEF D!signIn
  <2>3. /\ x1' = [x1 EXCEPT ![x8].n = 1] /\ x10' = x8 /\ x8' = Blank
        /\ x12' = (x12 \/ x5 # <<>> \/ x4 # <<>> \/ x9 = "asked")
        /\ UNCHANGED <<x3, x5, x6, x7, x9, x11>>
    BY <1>9 DEF D!signIn, D!Busy
  <2>4. /\ x1' \in [PhoneSession -> [n : 0 .. MaxPairs, ended : BOOLEAN]]
        /\ x1'[x8].n = 1 /\ ~x1'[x8].ended
        /\ \A t \in PhoneSession : x1'[t].ended = x1[t].ended /\ (t # x8 => x1'[t] = x1[t])
    <3>1. x1 \in [PhoneSession -> [n : 0 .. MaxPairs, ended : BOOLEAN]] /\ 1 \in 0 .. MaxPairs
      BY DEF DeviceInv, DeviceTypes, D!DeviceAssumption
    <3> HIDE DEF p
    <3> QED BY <2>1, <2>3, <3>1
  <2>5. DeviceTypes'
    BY <2>1, <2>2, <2>3, <2>4 DEF DeviceTypes
  <2>6. DeviceFresh' /\ DeviceReads'
    BY <2>1, <2>2, <2>3, <2>4 DEF DeviceFresh, DeviceReads
  <2>7. ~x12' => DeviceUnexcused'
    BY <2>1, <2>2, <2>3, <2>4 DEF DeviceUnexcused, DeviceLive, D!DeviceAssumption
  <2> QED BY <2>5, <2>6, <2>7
<1>10. CASE D!SignInFails
  <2>1. x8' = Blank /\ UNCHANGED <<x1, x2, x3, x4, x5, x6, x9, x10, x11, x12>>
    BY <1>10 DEF D!SignInFails
  <2> QED BY <2>1 DEF DeviceTypes, DeviceFresh, DeviceReads, DeviceUnexcused, DeviceKept, DeviceLive
<1>11. CASE D!Leave
  <2>1. /\ x6 = "signed-in" /\ x9' = "asked" /\ x10' = Blank
        /\ UNCHANGED <<x1, x2, x3, x4, x5, x6, x8, x11, x12>>
    BY <1>11 DEF D!Leave
  <2> QED BY <2>1 DEF DeviceTypes, DeviceFresh, DeviceReads, DeviceUnexcused, DeviceKept, DeviceLive, D!DeviceAssumption
<1>12. CASE D!LeaveServed
  <2>1. /\ x9 = "asked" /\ x9' = "answered" /\ x2 # Blank /\ x2 \in D!Pairs
        /\ x2.session \in PhoneSession /\ x2.n = x1[x2.session].n /\ x2.n # 0
        /\ x1' = [x1 EXCEPT ![x2.session].ended = TRUE]
        /\ UNCHANGED <<x2, x3, x4, x5, x6, x8, x10, x11, x12>> /\ DeviceKept' = DeviceKept
    BY <1>12 DEF D!LeaveServed, DeviceTypes, D!Pairs, DeviceKept
  <2>2. /\ x1' \in [PhoneSession -> [n : 0 .. MaxPairs, ended : BOOLEAN]]
        /\ x1'[x2.session].ended
        /\ \A t \in PhoneSession : x1'[t].n = x1[t].n /\ (t # x2.session => x1'[t] = x1[t])
    BY <2>1 DEF DeviceTypes
  <2>3. DeviceTypes' /\ DeviceReads'
    BY <2>1, <2>2 DEF DeviceTypes, DeviceReads
  <2>4. DeviceFresh'
    BY <2>1, <2>2 DEF DeviceFresh, DeviceTypes
  <2>5. ~x12' => DeviceUnexcused'
    BY <2>1, <2>2 DEF DeviceUnexcused, DeviceLive, DeviceReads
  <2> QED BY <2>3, <2>4, <2>5
<1>13. CASE D!LeaveUnserved
  <2>1. /\ x9 # "no" /\ x9' \in {"no", "answered"}
        /\ UNCHANGED <<x1, x2, x3, x4, x5, x6, x8, x11, x12>> /\ DeviceKept' = DeviceKept
        /\ x10' = x10 \/ (x10' = Blank /\ x10' # Left)
             \/ (x10' = x2.session /\ x2 # Blank /\ ~x1[x2.session].ended)
    BY <1>13 DEF D!LeaveUnserved, DeviceKept, D!DeviceAssumption
  <2>2. x2 = DeviceKept
    BY <2>1 DEF DeviceReads
  <2>3. x2 # Blank => x2.session \in PhoneSession
    BY DEF DeviceTypes, D!Pairs
  <2>4. DeviceTypes' /\ DeviceReads' /\ DeviceFresh'
    BY <2>1, <2>3 DEF DeviceTypes, DeviceReads, DeviceFresh
  <2>5. ~x12' => DeviceUnexcused'
    BY <2>1, <2>2, <2>3 DEF DeviceUnexcused, DeviceLive, D!DeviceAssumption
  <2> QED BY <2>4, <2>5
<1>14. CASE D!FinishLeaving
  <2>1. /\ x2' = Blank /\ x4' \in Seq(D!Pairs \cup {Blank}) /\ x4' # <<>> /\ DeviceKept' = Blank
    BY <1>14, DevicePersists DEF D!FinishLeaving, D!ClearLocally, D!clearSession
  <2>2. /\ x9 = "answered" /\ x9' = "no" /\ x10' = Left
        /\ x12' = (x12 \/ x5 # <<>> \/ x4 # <<>> \/ x9 = "asked")
        /\ UNCHANGED <<x1, x3, x5, x6, x7, x8, x11>>
    BY <1>14 DEF D!FinishLeaving, D!Busy
  <2>3. DeviceTypes'
    BY <2>1, <2>2 DEF DeviceTypes
  <2>4. DeviceFresh' /\ DeviceReads'
    BY <2>1, <2>2 DEF DeviceFresh, DeviceReads
  <2>5. ~x12' => DeviceUnexcused'
    BY <2>1, <2>2 DEF DeviceUnexcused, DeviceLive, D!DeviceAssumption
  <2> QED BY <2>3, <2>4, <2>5
<1>15. CASE \E s \in PhoneSession : D!EndElsewhere(s)
  <2>1. PICK s \in PhoneSession : D!EndElsewhere(s)
    BY <1>15
  <2>2. /\ x1[s].n > 0 /\ x1' = [x1 EXCEPT ![s].ended = TRUE]
        /\ x10' = IF x10 = s THEN Blank ELSE x10
        /\ UNCHANGED <<x2, x3, x4, x5, x6, x8, x9, x11, x12>> /\ DeviceKept' = DeviceKept
    BY <2>1 DEF D!EndElsewhere, DeviceKept
  <2>3. /\ x1' \in [PhoneSession -> [n : 0 .. MaxPairs, ended : BOOLEAN]]
        /\ x1'[s].ended
        /\ \A t \in PhoneSession : x1'[t].n = x1[t].n /\ (t # s => x1'[t] = x1[t])
    BY <2>2 DEF DeviceTypes
  <2>4. DeviceTypes' /\ DeviceReads'
    BY <2>2, <2>3 DEF DeviceTypes, DeviceReads
  <2>5. DeviceFresh'
    BY <2>2, <2>3 DEF DeviceFresh, DeviceTypes
  <2>6. ~x12' => DeviceUnexcused'
    <3>1. DeviceLive(DeviceKept) => DeviceLive(DeviceKept)'
      BY <1>k, <2>2, <2>3 DEF DeviceLive, D!Pairs
    <3> QED BY <2>2, <2>3, <3>1 DEF DeviceUnexcused, D!DeviceAssumption
  <2> QED BY <2>4, <2>5, <2>6
<1>16. CASE D!Restart
  <2>1. /\ x11 < PhoneTrouble /\ x11' = x11 + 1 /\ x6' = "loading" /\ x2' = Blank /\ x4' = <<>>
        /\ x5' = <<>> /\ x8' = Blank /\ x9' = "no"
        /\ x12' = (x12 \/ x4 # <<>> \/ \E i \in DOMAIN x5 : x5[i].pair # Blank)
        /\ UNCHANGED <<x1, x3, x7, x10>>
    BY <1>16 DEF D!Restart
  <2>2. DeviceTypes'
    BY <2>1 DEF DeviceTypes, D!DeviceAssumption
  <2>3. DeviceFresh' /\ DeviceReads'
    BY <2>1 DEF DeviceFresh, DeviceReads
  <2>4. ASSUME ~x12' PROVE DeviceUnexcused'
    <3>1. ~x12 /\ x4 = <<>> /\ DeviceUnexcused /\ DeviceKept' = DeviceKept
          /\ (x5 # <<>> => x5[1].pair = Blank)
      <4>1. x5 # <<>> => 1 \in DOMAIN x5
        BY DEF DeviceTypes
      <4> QED BY <2>1, <2>4, <4>1 DEF DeviceKept
    <3>2. DeviceLive(DeviceKept)'
      <4>1. SUFFICES ASSUME DeviceKept # Blank, ~x1[DeviceKept.session].ended
                     PROVE  DeviceKept.n = x1[DeviceKept.session].n
        BY <2>1, <3>1 DEF DeviceLive
      <4>2. [session |-> DeviceKept.session, n |-> x1[DeviceKept.session].n] # Blank
        BY <1>k, <4>1 DEF DeviceTypes, D!Pairs, D!DeviceAssumption
      <4> QED BY <3>1, <4>1, <4>2 DEF DeviceUnexcused, DeviceLive
    <3> QED BY <2>1, <3>1, <3>2 DEF DeviceUnexcused
  <2> QED BY <2>2, <2>3, <2>4
<1>17. CASE UNCHANGED D!vars
  BY <1>17 DEF D!vars, DeviceTypes, DeviceFresh, DeviceReads, DeviceUnexcused, DeviceKept, DeviceLive
<1> QED
  BY <1>1, <1>2, <1>3, <1>4, <1>5, <1>6, <1>7, <1>8, <1>9, <1>10, <1>11, <1>12, <1>13, <1>14,
     <1>15, <1>16, <1>17 DEF D!Next

-----------------------------------------------------------------------------
(* Album.  An answer that the list has not outlived is the list, one       *)
(* request of the screen at most changes it, and a screen that is ready,   *)
(* knows of every change and waits for no list shows the photos there are, *)
(* but for the one that an answer on its way adds or takes away.           *)

AlbumCalls ==
  [op : {"list", "add", "remove", "order"}, arg : Nat \cup Seq(Nat) \cup {Blank},
   is : {"sent", "answered", "refused", "lost"}, answer : Nat \cup Seq(Nat) \cup {Blank},
   again : BOOLEAN, stored : BOOLEAN, mine : BOOLEAN, clean : BOOLEAN]

AlbumTypes ==
  /\ x1 \in Seq(Nat) /\ x2 \in Seq(Nat) \cup {Blank}
  /\ x3 \in {"loading", "ready", "error"} /\ (x3 = "ready" => x2 # Blank)
  /\ x4 \in {"idle", "picking", "uploading", "removing", "reordering"}
  /\ x5 \in Nat \cup {Blank} /\ x7 \in Nat /\ x8 = FALSE /\ x10 \in BOOLEAN

AlbumNumbers == \A k \in DOMAIN x1 : x1[k] < x7

\* What is known of a request, of a list and the number that comes next.
AlbumCall(c, album, next) ==
  /\ c \in AlbumCalls
  /\ c.is = "sent" => c.clean /\ ~c.stored
  /\ c.op = "remove" => c.arg \in Nat
  /\ c.op = "order" => c.arg \in Seq(Nat)
  /\ c.is = "answered" /\ c.op \in {"list", "order"} =>
       c.answer \in Seq(Nat) /\ (c.clean => c.answer = album)
  /\ c.is = "answered" /\ c.op = "add" =>
       c.answer \in Nat /\ (c.clean => \E k \in DOMAIN album : album[k] = c.answer)
  /\ c.is = "answered" /\ c.op = "remove" => c.arg < next /\ \A k \in DOMAIN album : album[k] # c.arg

AlbumAsked == x6 \in Seq(AlbumCalls) /\ \A i \in DOMAIN x6 : AlbumCall(x6[i], x1, x7)

AlbumChanger(c) == c.mine /\ c.op # "list"

AlbumOne ==
  /\ \A i, j \in DOMAIN x6 : AlbumChanger(x6[i]) /\ AlbumChanger(x6[j]) => i = j
  /\ x4 \in {"idle", "picking"} => \A i \in DOMAIN x6 : ~AlbumChanger(x6[i])
  /\ x5 # Blank => x4 = "idle"
  /\ x5 # Blank \/ x4 # "idle" => x2 # Blank

\* The screen waits for a list.
AlbumList(c) == c.mine /\ c.op \in {"list", "order"}

\* What the answers on their way still do to the list that is shown.
AlbumComesTo(album, calls, shown) ==
  /\ (\A i \in DOMAIN calls : ~(AlbumChanger(calls[i]) /\ calls[i].is = "answered")) => shown = album
  /\ \A i \in DOMAIN calls : AlbumChanger(calls[i]) /\ calls[i].is = "answered" =>
       /\ calls[i].op = "add" /\ calls[i].clean =>
            album = Append(shown, calls[i].answer) \/ \E k \in DOMAIN shown : shown[k] = calls[i].answer
       /\ calls[i].op = "remove" => A!Without(shown, calls[i].arg) = album

AlbumShown ==
  x3 = "ready" /\ ~x10 /\ (\A i \in DOMAIN x6 : ~AlbumList(x6[i])) => AlbumComesTo(x1, x6, x2)

AlbumInv == AlbumTypes /\ AlbumNumbers /\ AlbumAsked /\ AlbumOne /\ AlbumShown

\* Of the numbers of a finite set, each has its own count of those up to it.
LEMMA AlbumRanks ==
  ASSUME NEW kept, IsFiniteSet(kept), kept \subseteq Nat
  PROVE  /\ Cardinality(kept) \in Nat
         /\ \A k \in 1 .. Cardinality(kept) : \E i \in kept : A!Upto(kept, i) = k
<1> DEFINE m == Cardinality(kept)
           below(i) == {j \in kept : j <= i}
           rank == [i \in kept |-> Cardinality(below(i))]
<1>1. m \in Nat
  BY FS_CardinalityType
<1>2. \A i \in kept : A!Upto(kept, i) = Cardinality(below(i))
  BY Zenon DEF A!Upto, A!Cardinality, Cardinality
<1>3. \A i \in kept : /\ IsFiniteSet(below(i)) /\ Cardinality(below(i)) \in Nat
                      /\ Cardinality(below(i)) <= m
  <2> TAKE i \in kept
  <2>1. below(i) \in SUBSET kept
    OBVIOUS
  <2> HIDE DEF below, m
  <2>2. IsFiniteSet(below(i)) /\ Cardinality(below(i)) <= Cardinality(kept)
    BY <2>1, FS_Subset
  <2> QED BY <2>2, FS_CardinalityType DEF m
<1>4. \A i \in kept : Cardinality(below(i)) # 0
  <2> TAKE i \in kept
  <2>1. i \in below(i)
    OBVIOUS
  <2> HIDE DEF below
  <2> QED BY <1>3, <2>1, FS_EmptySet
<1>5. ASSUME NEW i \in kept, NEW j \in kept, i < j PROVE Cardinality(below(i)) # Cardinality(below(j))
  <2>2. i \in Nat /\ j \in Nat /\ j <= j /\ ~(j <= i) /\ \A x \in kept : x <= i => x <= j
    BY <1>5
  <2>1. below(i) \in SUBSET below(j) /\ j \in below(j) /\ j \notin below(i)
    BY <2>2
  <2> HIDE DEF below
  <2> QED BY <1>3, <2>1, FS_Subset
<1>6. ASSUME NEW i \in kept, NEW j \in kept, i # j PROVE Cardinality(below(i)) # Cardinality(below(j))
  <2>1. i < j \/ j < i
    BY <1>6
  <2> HIDE DEF below
  <2> QED BY <1>5, <2>1
<1> HIDE DEF below, m
<1>7. rank \in Injection(kept, 1 .. m)
  <2>1. rank \in [kept -> 1 .. m]
    BY <1>1, <1>3, <1>4
  <2> QED BY <1>6, <2>1 DEF Injection, IsInjective
<1>8. IsFiniteSet(1 .. m) /\ Cardinality(1 .. m) = m
  BY <1>1, FS_Interval
<1>9. rank \in Surjection(kept, 1 .. m)
  <2> HIDE DEF rank
  <2> QED BY <1>7, <1>8, FS_Injection DEF m
<1>10. \A k \in 1 .. m : \E i \in kept : rank[i] = k
  BY <1>9 DEF Surjection
<1> QED BY <1>1, <1>2, <1>10 DEF m

\* The photos but one are photos of the list, none of them that one, and all where it is none.
LEMMA AlbumWithout ==
  ASSUME NEW photos \in Seq(Nat), NEW p
  PROVE  /\ A!Without(photos, p) \in Seq(Nat)
         /\ \A k \in DOMAIN A!Without(photos, p) :
              A!Without(photos, p)[k] # p
              /\ \E i \in DOMAIN photos : photos[i] = A!Without(photos, p)[k]
         /\ (\A i \in DOMAIN photos : photos[i] # p) => A!Without(photos, p) = photos
<1> DEFINE kept == A!Kept(photos, p)
           m == Cardinality(kept)
           at(k) == CHOOSE i \in kept : A!Upto(kept, i) = k
<1>1. kept = {i \in 1 .. Len(photos) : photos[i] # p} /\ Len(photos) \in Nat /\ DOMAIN photos = 1 .. Len(photos)
  BY DEF A!Kept
<1>2. A!Without(photos, p) = [k \in 1 .. m |-> photos[at(k)]]
  <2>1. A!Cardinality(kept) = m
    BY Zenon DEF A!Cardinality, Cardinality
  <2> HIDE DEF kept
  <2> QED BY <2>1 DEF A!Without, kept
<1> HIDE DEF kept
<1>3. IsFiniteSet(1 .. Len(photos)) /\ Cardinality(1 .. Len(photos)) = Len(photos) /\ kept \in SUBSET (1 .. Len(photos))
  <2>1. kept \in SUBSET (1 .. Len(photos))
    BY <1>1
  <2>2. \A n \in Nat : IsFiniteSet(1 .. n) /\ Cardinality(1 .. n) = n
    BY FS_Interval
  <2> QED BY <1>1, <2>1, <2>2
<1>4. IsFiniteSet(kept) /\ kept \subseteq Nat
  <2>1. IsFiniteSet(kept)
    BY <1>3, FS_Subset
  <2>2. \A i \in 1 .. Len(photos) : i \in Nat
    OBVIOUS
  <2> QED BY <1>3, <2>1, <2>2
<1>5. m \in Nat /\ \A k \in 1 .. m : \E i \in kept : A!Upto(kept, i) = k
  BY <1>4, AlbumRanks
<1>6. \A k \in 1 .. m : at(k) \in kept /\ A!Upto(kept, at(k)) = k
  BY <1>5
<1>7. \A k \in 1 .. m : at(k) \in DOMAIN photos /\ photos[at(k)] # p /\ photos[at(k)] \in Nat
  <2> HIDE DEF at, m
  <2> QED BY <1>1, <1>6
<1>8. A!Without(photos, p) \in Seq(Nat) /\ DOMAIN A!Without(photos, p) = 1 .. m
  <2> HIDE DEF at, m
  <2>1. [k \in 1 .. m |-> photos[at(k)]] \in [1 .. m -> Nat]
    BY <1>7
  <2>2. [1 .. m -> Nat] \subseteq Seq(Nat)
    BY <1>5
  <2> QED BY <1>2, <2>1, <2>2
<1>9. ASSUME \A i \in DOMAIN photos : photos[i] # p PROVE A!Without(photos, p) = photos
  <2>1. kept = 1 .. Len(photos)
    BY <1>1, <1>9
  <2>2. m = Len(photos)
    BY <1>3, <2>1
  <2>3. ASSUME NEW k \in 1 .. m PROVE at(k) = k
    <3>1. \A i \in kept : A!Upto(kept, i) = i
      <4> TAKE i \in kept
      <4>1. {j \in kept : j <= i} = 1 .. i /\ i \in Nat /\ i >= 1
        BY <1>1, <2>1
      <4>2. Cardinality(1 .. i) = i
        BY <4>1, FS_Interval
      <4>3. A!Upto(kept, i) = Cardinality({j \in kept : j <= i})
        BY Zenon DEF A!Upto, A!Cardinality, Cardinality
      <4> QED BY <4>1, <4>2, <4>3
    <3> HIDE DEF at, m
    <3> QED BY <1>6, <2>3, <3>1
  <2> HIDE DEF at, m
  <2>4. [k \in 1 .. m |-> photos[at(k)]] = [k \in 1 .. Len(photos) |-> photos[k]]
    BY <2>2, <2>3
  <2>5. photos = [k \in 1 .. Len(photos) |-> photos[k]]
    BY <1>1
  <2> QED BY <1>2, <2>4, <2>5
<1>10. ASSUME NEW k \in 1 .. m PROVE A!Without(photos, p)[k] = photos[at(k)]
  BY <1>2
<1> HIDE DEF at, m
<1> QED BY <1>7, <1>8, <1>9, <1>10

\* A request that is settled leaves the others.
LEMMA AlbumSettled ==
  ASSUME NEW values, NEW q \in Seq(values), NEW i \in DOMAIN q
  PROVE  /\ A!RemoveAt(q, i) \in Seq(values)
         /\ \A k \in DOMAIN A!RemoveAt(q, i) :
              LET j == IF k < i THEN k ELSE k + 1
              IN  j \in DOMAIN q /\ j # i /\ A!RemoveAt(q, i)[k] = q[j]
         /\ \A j \in DOMAIN q : j # i => \E k \in DOMAIN A!RemoveAt(q, i) : A!RemoveAt(q, i)[k] = q[j]
<1> DEFINE before == SubSeq(q, 1, i - 1)
           after == SubSeq(q, i + 1, Len(q))
           n == Len(q)
           r == A!RemoveAt(q, i)
<1>1. i \in 1 .. n /\ n \in Nat /\ DOMAIN q = 1 .. n /\ n - 1 \in Nat /\ i - 1 \in Nat /\ n - i \in Nat
  OBVIOUS
<1>2. /\ before \in Seq(values) /\ Len(before) = i - 1
      /\ \A k \in 1 .. i - 1 : before[k] = q[k]
  BY <1>1
<1>3. /\ after \in Seq(values) /\ Len(after) = n - i
      /\ \A k \in 1 .. n - i : after[k] = q[i + k]
  <2>1. after \in Seq(values) /\ Len(after) = n - i
    BY <1>1
  <2>2. \A k \in 1 .. n - i : after[k] = q[i + 1 + k - 1]
    BY <1>1
  <2>3. \A k \in 1 .. n - i : i + 1 + k - 1 = i + k
    <3> HIDE DEF n
    <3> QED BY <1>1
  <2> QED BY <2>1, <2>2, <2>3
<1>4. r = before \o after
  BY DEF A!RemoveAt
<1> HIDE DEF before, after, r
<1>5. r \in Seq(values) /\ Len(r) = n - 1
  <2>1. r \in Seq(values) /\ Len(r) = Len(before) + Len(after)
    <3>1. \A s, t \in Seq(values) : s \o t \in Seq(values) /\ Len(s \o t) = Len(s) + Len(t)
      OBVIOUS
    <3> QED BY <1>2, <1>3, <1>4, <3>1, Zenon
  <2>2. n \in Nat /\ i \in Nat
    BY <1>1
  <2> HIDE DEF n
  <2>3. (i - 1) + (n - i) = n - 1
    BY <2>2
  <2> QED BY <1>2, <1>3, <2>1, <2>3 DEF n
<1>6. \A k \in 1 .. n - 1 : r[k] = IF k <= i - 1 THEN before[k] ELSE after[k - (i - 1)]
  BY <1>1, <1>2, <1>3, <1>4
<1>7. DOMAIN r = 1 .. n - 1
  BY <1>1, <1>5
<1> HIDE DEF n
<1>8. ASSUME NEW k \in 1 .. n - 1
      PROVE  LET j == IF k < i THEN k ELSE k + 1 IN j \in 1 .. n /\ j # i /\ r[k] = q[j]
  <2>1. CASE k < i
    <3>1. k \in 1 .. i - 1 /\ k <= i - 1 /\ k \in 1 .. n /\ k # i
      BY <1>1, <2>1
    <3>2. r[k] = before[k]
      BY <1>6, <3>1
    <3> QED BY <1>2, <2>1, <3>1, <3>2
  <2>2. CASE ~(k < i)
    <3>1. k - (i - 1) \in 1 .. n - i /\ ~(k <= i - 1) /\ i + (k - (i - 1)) = k + 1 /\ k + 1 \in 1 .. n /\ k + 1 # i
      BY <1>1, <2>2
    <3>2. r[k] = after[k - (i - 1)]
      BY <1>6, <3>1
    <3> QED BY <1>3, <2>2, <3>1, <3>2
  <2> QED BY <2>1, <2>2
<1>9. ASSUME NEW j \in 1 .. n, j # i PROVE \E k \in 1 .. n - 1 : r[k] = q[j]
  <2>1. CASE j < i
    <3>1. j \in 1 .. n - 1
      BY <1>1, <2>1
    <3> QED BY <1>8, <2>1, <3>1
  <2>2. CASE ~(j < i)
    <3>1. j - 1 \in 1 .. n - 1 /\ ~(j - 1 < i) /\ j - 1 + 1 = j
      BY <1>1, <1>9, <2>2
    <3> QED BY <1>8, <3>1
  <2> QED BY <2>1, <2>2
<1> QED BY <1>1, <1>5, <1>7, <1>8, <1>9 DEF r

\* A list as it is answers every request that has been served.
LEMMA AlbumListed ==
  ASSUME NEW album \in Seq(Nat), NEW calls, NEW next, \A i \in DOMAIN calls : AlbumCall(calls[i], album, next)
  PROVE  AlbumComesTo(album, calls, album)
<1> SUFFICES ASSUME NEW i \in DOMAIN calls, calls[i].is = "answered"
             PROVE  /\ calls[i].op = "add" /\ calls[i].clean => \E k \in DOMAIN album : album[k] = calls[i].answer
                    /\ calls[i].op = "remove" => A!Without(album, calls[i].arg) = album
  BY DEF AlbumComesTo
<1>1. calls[i].op = "remove" => \A k \in DOMAIN album : album[k] # calls[i].arg
  BY DEF AlbumCall
<1>2. calls[i].op = "remove" => A!Without(album, calls[i].arg) = album
  BY <1>1, AlbumWithout
<1> QED BY <1>2 DEF AlbumCall

\* An answer given before the list changed is known to be of an older one.
AlbumAged(c) == [c EXCEPT !.clean = @ /\ c.is # "answered"]

\* A later list: of an earlier one's photos, and of the one that came next.
AlbumLater(album, next, later, after) ==
  /\ next \in Nat /\ after \in Nat /\ next <= after
  /\ \A k \in DOMAIN later : later[k] = next \/ \E m \in DOMAIN album : later[k] = album[m]

LEMMA AlbumOlder ==
  ASSUME NEW album, NEW next, NEW c, NEW later, NEW after,
         AlbumCall(c, album, next), AlbumLater(album, next, later, after)
  PROVE  /\ AlbumCall(AlbumAged(c), later, after)
         /\ AlbumAged(c).op = c.op /\ AlbumAged(c).mine = c.mine /\ AlbumAged(c).is = c.is
         /\ AlbumAged(c).arg = c.arg /\ (c.is # "answered" => AlbumAged(c).clean = c.clean)
<1>l. /\ next \in Nat /\ after \in Nat /\ next <= after
      /\ \A k \in DOMAIN later : later[k] = next \/ \E m \in DOMAIN album : later[k] = album[m]
  BY DEF AlbumLater
<1> DEFINE clean == c.clean /\ c.is # "answered"
<1>1. c \in AlbumCalls
  BY DEF AlbumCall
<1>2. clean \in BOOLEAN
  BY Zenon
<1>3. c.clean \in BOOLEAN /\ (c.is = "answered" => ~clean) /\ (c.is # "answered" => (clean <=> c.clean))
  BY <1>1 DEF AlbumCalls
<1>4. AlbumAged(c) = [c EXCEPT !.clean = clean]
  BY DEF AlbumAged
<1> HIDE DEF clean
<1>5. /\ AlbumAged(c) \in AlbumCalls /\ AlbumAged(c).clean = clean /\ AlbumAged(c).op = c.op
      /\ AlbumAged(c).mine = c.mine /\ AlbumAged(c).is = c.is /\ AlbumAged(c).arg = c.arg
      /\ AlbumAged(c).answer = c.answer /\ AlbumAged(c).stored = c.stored
  BY <1>1, <1>2, <1>4 DEF AlbumCalls
<1> HIDE DEF AlbumAged
<1>6. c.is = "answered" /\ c.op = "remove" => c.arg < after /\ \A k \in DOMAIN later : later[k] # c.arg
  <2> SUFFICES ASSUME c.is = "answered", c.op = "remove"
               PROVE  c.arg < after /\ \A k \in DOMAIN later : later[k] # c.arg
    OBVIOUS
  <2>1. c.arg \in Nat /\ c.arg < next /\ \A k \in DOMAIN album : album[k] # c.arg
    BY DEF AlbumCall
  <2> QED BY <1>l, <2>1
<1>7. AlbumCall(AlbumAged(c), later, after)
  <2>1. AlbumAged(c).is = "answered" => ~AlbumAged(c).clean
    BY <1>3, <1>5
  <2>2. AlbumAged(c).is = "sent" => AlbumAged(c).clean /\ ~AlbumAged(c).stored
    BY <1>3, <1>5 DEF AlbumCall
  <2> QED BY <1>5, <1>6, <2>1, <2>2 DEF AlbumCall
<1> QED BY <1>2, <1>3, <1>5, <1>7

\* A function from a sequence's places is one of its length.
LEMMA AlbumSame ==
  ASSUME NEW values, NEW q, NEW n \in Nat, q \in [1 .. n -> values] PROVE q \in Seq(values) /\ DOMAIN q = 1 .. n
OBVIOUS

\* An answer that is given, lost or refused changes nothing that is shown.
LEMMA AlbumAnswers ==
  ASSUME AlbumInv, NEW i \in DOMAIN x6, NEW c, x6' = [x6 EXCEPT ![i] = c],
         UNCHANGED <<x1, x2, x3, x4, x5, x7, x8>>, x10' \in BOOLEAN, x10 => x10',
         AlbumCall(c, x1, x7), c.op = x6[i].op, c.mine = x6[i].mine,
         c.op \in {"add", "remove"} /\ ~x10' => x6[i].is # "answered" /\ c.is # "answered"
  PROVE  AlbumInv'
<1>0. AlbumTypes /\ AlbumNumbers /\ AlbumAsked /\ AlbumOne /\ AlbumShown
  BY DEF AlbumInv
<1>1. c \in AlbumCalls
  BY DEF AlbumCall
<1>2. x6' \in Seq(AlbumCalls) /\ DOMAIN x6' = DOMAIN x6
  BY <1>0, <1>1 DEF AlbumAsked
<1>3. x6'[i] = c /\ \A j \in DOMAIN x6 : j # i => x6'[j] = x6[j]
  OBVIOUS
<1>4. \A j \in DOMAIN x6 : x6'[j].op = x6[j].op /\ x6'[j].mine = x6[j].mine
  BY <1>3
<1>5. AlbumTypes' /\ AlbumNumbers'
  BY <1>0 DEF AlbumTypes, AlbumNumbers
<1>6. AlbumAsked'
  BY <1>0, <1>2, <1>3 DEF AlbumAsked
<1>7. AlbumOne'
  BY <1>0, <1>2, <1>4 DEF AlbumOne, AlbumChanger
<1>8. AlbumShown'
  <2> SUFFICES ASSUME x3 = "ready", ~x10', \A j \in DOMAIN x6 : ~AlbumList(x6'[j])
               PROVE  AlbumComesTo(x1, x6', x2)
    BY <1>2 DEF AlbumShown
  <2>1. \A j \in DOMAIN x6 : ~AlbumList(x6[j])
    BY <1>4 DEF AlbumList
  <2>2. AlbumComesTo(x1, x6, x2)
    BY <1>0, <2>1 DEF AlbumShown
  <2>3. AlbumChanger(c) => c.is # "answered" /\ x6[i].is # "answered"
    <3>1. AlbumChanger(c) => c.op \in {"add", "remove"}
      BY <1>1, <1>3 DEF AlbumChanger, AlbumList, AlbumCalls
    <3> QED BY <3>1
  <2>4. AlbumChanger(x6[i]) <=> AlbumChanger(c)
    BY DEF AlbumChanger
  <2>5. ASSUME \A j \in DOMAIN x6 : ~(AlbumChanger(x6'[j]) /\ x6'[j].is = "answered") PROVE x2 = x1
    <3>1. \A j \in DOMAIN x6 : ~(AlbumChanger(x6[j]) /\ x6[j].is = "answered")
      BY <1>3, <2>3, <2>4, <2>5
    <3> QED BY <2>2, <3>1 DEF AlbumComesTo
  <2>6. \A j \in DOMAIN x6 : AlbumChanger(x6'[j]) /\ x6'[j].is = "answered" => x6'[j] = x6[j]
    BY <1>3, <2>3
  <2> QED BY <1>2, <2>2, <2>5, <2>6 DEF AlbumComesTo
<1> QED BY <1>5, <1>6, <1>7, <1>8 DEF AlbumInv

LEMMA AlbumAllOlder ==
  ASSUME NEW album, NEW next, NEW calls, NEW later, NEW after,
         \A j \in DOMAIN calls : AlbumCall(calls[j], album, next), AlbumLater(album, next, later, after)
  PROVE  \A j \in DOMAIN calls :
           /\ AlbumCall(AlbumAged(calls[j]), later, after)
           /\ AlbumAged(calls[j]).op = calls[j].op /\ AlbumAged(calls[j]).mine = calls[j].mine
BY AlbumOlder

\* A request that changes the list.
AlbumChanged(i, c) ==
  /\ x6[i].is = "sent" /\ x6' = [j \in DOMAIN x6 |-> IF j = i THEN c ELSE AlbumAged(x6[j])]
  /\ UNCHANGED <<x2, x3, x4, x5, x8>> /\ x10' = (x10 \/ ~x6[i].mine)
  /\ x7' \in Nat /\ x7 <= x7' /\ x1' \in Seq(Nat)
  /\ \A k \in DOMAIN x1' : x1'[k] < x7'
  /\ \A k \in DOMAIN x1' : x1'[k] = x7 \/ \E m \in DOMAIN x1 : x1'[k] = x1[m]
  /\ AlbumCall(c, x1', x7') /\ c.op = x6[i].op /\ c.mine = x6[i].mine /\ c.op # "list" /\ c.is = "answered"
  /\ c.op = "add" => x1' = Append(x1, c.answer)
  /\ c.op = "remove" => x1' = A!Without(x1, c.arg)

LEMMA AlbumChanges ==
  ASSUME AlbumInv, NEW i \in DOMAIN x6, NEW c, AlbumChanged(i, c)
  PROVE  AlbumInv'
<1>0. AlbumTypes /\ AlbumNumbers /\ AlbumAsked /\ AlbumOne /\ AlbumShown
  BY DEF AlbumInv
<1>c. /\ AlbumCall(c, x1', x7') /\ c.op = x6[i].op /\ c.mine = x6[i].mine
      /\ c.op # "list" /\ c.is = "answered" /\ x6[i].is = "sent"
      /\ c.op = "add" => x1' = Append(x1, c.answer)
      /\ c.op = "remove" => x1' = A!Without(x1, c.arg)
  BY DEF AlbumChanged
<1>u. UNCHANGED <<x2, x3, x4, x5, x8>> /\ x10' = (x10 \/ ~x6[i].mine)
  BY DEF AlbumChanged
<1>1. c \in AlbumCalls
  BY <1>c DEF AlbumCall
<1>2. \A j \in DOMAIN x6 : /\ AlbumCall(AlbumAged(x6[j]), x1', x7')
                           /\ AlbumAged(x6[j]).op = x6[j].op /\ AlbumAged(x6[j]).mine = x6[j].mine
  <2>1. /\ x7 \in Nat /\ x7' \in Nat /\ x7 <= x7' /\ \A j \in DOMAIN x6 : AlbumCall(x6[j], x1, x7)
        /\ \A k \in DOMAIN x1' : x1'[k] = x7 \/ \E m \in DOMAIN x1 : x1'[k] = x1[m]
    BY <1>0 DEF AlbumAsked, AlbumTypes, AlbumChanged
  <2> PICK old, next, calls, new, after :
             old = x1 /\ next = x7 /\ calls = x6 /\ new = x1' /\ after = x7'
    OBVIOUS
  <2>2. AlbumLater(old, next, new, after) /\ \A j \in DOMAIN calls : AlbumCall(calls[j], old, next)
    BY <2>1 DEF AlbumLater
  <2>3. \A j \in DOMAIN calls :
           /\ AlbumCall(AlbumAged(calls[j]), new, after)
           /\ AlbumAged(calls[j]).op = calls[j].op /\ AlbumAged(calls[j]).mine = calls[j].mine
    BY <2>2, AlbumAllOlder
  <2> QED BY <2>3
<1>3. /\ DOMAIN x6' = DOMAIN x6 /\ x6'[i] = c
      /\ \A j \in DOMAIN x6 : j # i => x6'[j] = AlbumAged(x6[j])
  BY DEF AlbumChanged
<1>4. \A j \in DOMAIN x6 : /\ AlbumCall(x6'[j], x1', x7') /\ x6'[j] \in AlbumCalls
                           /\ x6'[j].op = x6[j].op /\ x6'[j].mine = x6[j].mine
  <2>1. \A j \in DOMAIN x6 : AlbumCall(x6'[j], x1', x7') /\ x6'[j].op = x6[j].op /\ x6'[j].mine = x6[j].mine
    BY <1>2, <1>3, <1>c
  <2> QED BY <2>1 DEF AlbumCall
<1>5. x6' \in Seq(AlbumCalls)
  <2>1. DOMAIN x6 = 1 .. Len(x6) /\ Len(x6) \in Nat
    BY <1>0 DEF AlbumAsked
  <2>2. x6' \in [1 .. Len(x6) -> AlbumCalls]
    <3>1. x6' = [j \in 1 .. Len(x6) |-> x6'[j]]
      BY <1>3, <2>1 DEF AlbumChanged
    <3>2. \A j \in 1 .. Len(x6) : x6'[j] \in AlbumCalls
      BY <1>4, <2>1
    <3> QED BY <3>1, <3>2
  <2> QED BY <2>1, <2>2, AlbumSame
<1>6. AlbumTypes' /\ AlbumNumbers'
  <2>1. x10' \in BOOLEAN
    BY <1>u, Zenon
  <2>2. x7' \in Nat /\ x1' \in Seq(Nat) /\ \A k \in DOMAIN x1' : x1'[k] < x7'
    BY DEF AlbumChanged
  <2> QED BY <1>0, <1>u, <2>1, <2>2 DEF AlbumTypes, AlbumNumbers
<1>7. AlbumAsked'
  BY <1>3, <1>4, <1>5 DEF AlbumAsked
<1>8. AlbumOne'
  BY <1>0, <1>3, <1>4, <1>u DEF AlbumOne, AlbumChanger
<1>9. AlbumShown'
  <2> SUFFICES ASSUME x3 = "ready", ~x10', \A j \in DOMAIN x6 : ~AlbumList(x6'[j])
               PROVE  AlbumComesTo(x1', x6', x2)
    BY <1>3, <1>u DEF AlbumShown
  <2>1. \A j \in DOMAIN x6 : ~AlbumList(x6[j])
    BY <1>4 DEF AlbumList
  <2>2. ~x10 /\ AlbumChanger(x6[i]) /\ AlbumChanger(c) /\ c.op \in {"add", "remove"}
    BY <1>1, <1>3, <1>c, <1>u DEF AlbumChanger, AlbumList, AlbumCalls
  <2>3. \A j \in DOMAIN x6 : j # i => ~AlbumChanger(x6[j]) /\ ~AlbumChanger(x6'[j])
    BY <1>0, <1>4, <2>2 DEF AlbumOne, AlbumChanger
  <2>4. x2 = x1
    <3>1. AlbumComesTo(x1, x6, x2)
      BY <1>0, <2>1, <2>2 DEF AlbumShown
    <3>2. \A j \in DOMAIN x6 : ~(AlbumChanger(x6[j]) /\ x6[j].is = "answered")
      BY <1>c, <2>3
    <3> QED BY <3>1, <3>2 DEF AlbumComesTo
  <2>6. \A j \in DOMAIN x6 : AlbumChanger(x6'[j]) => j = i /\ x6'[j] = c
    BY <1>3, <2>3
  <2>7. c.op = "add" => x1' = Append(x2, c.answer)
    BY <1>c, <2>4
  <2>8. c.op = "remove" => x1' = A!Without(x2, c.arg)
    BY <1>c, <2>4
  <2>9. AlbumChanger(x6'[i]) /\ x6'[i].is = "answered"
    BY <1>3, <1>c, <2>2
  <2>10. ASSUME NEW j \in DOMAIN x6', AlbumChanger(x6'[j])
         PROVE  /\ x6'[j].op = "add" => x1' = Append(x2, x6'[j].answer)
                /\ x6'[j].op = "remove" => A!Without(x2, x6'[j].arg) = x1'
    BY <1>3, <2>6, <2>7, <2>8, <2>10
  <2> QED BY <1>3, <2>9, <2>10 DEF AlbumComesTo
<1> QED BY <1>6, <1>7, <1>8, <1>9 DEF AlbumInv

\* One more request, at the end.
LEMMA AlbumAppended ==
  ASSUME NEW values, NEW q \in Seq(values), NEW v \in values
  PROVE  /\ Append(q, v) \in Seq(values) /\ DOMAIN Append(q, v) = 1 .. Len(q) + 1 /\ Len(q) + 1 \notin DOMAIN q
         /\ Append(q, v)[Len(q) + 1] = v
         /\ \A j \in DOMAIN q : j \in DOMAIN Append(q, v) /\ Append(q, v)[j] = q[j]
         /\ \A j \in DOMAIN Append(q, v) : j \in DOMAIN q \/ j = Len(q) + 1
<1>1. Append(q, v) \in Seq(values) /\ Len(Append(q, v)) = Len(q) + 1 /\ Len(q) \in Nat
  OBVIOUS
<1>2. DOMAIN Append(q, v) = 1 .. Len(q) + 1 /\ DOMAIN q = 1 .. Len(q)
  BY <1>1
<1>3. \A n \in Nat : n + 1 \notin 1 .. n /\ (\A j \in 1 .. n : j \in 1 .. n + 1)
                     /\ \A j \in 1 .. n + 1 : j \in 1 .. n \/ j = n + 1
  OBVIOUS
<1>4. Append(q, v)[Len(q) + 1] = v /\ \A j \in 1 .. Len(q) : Append(q, v)[j] = q[j]
  OBVIOUS
<1> QED BY <1>1, <1>2, <1>3, <1>4

\* A request of the screen, when it is made.
LEMMA AlbumRequest ==
  ASSUME NEW op \in {"list", "add", "remove", "order"}, NEW arg \in Nat \cup Seq(Nat) \cup {Blank},
         op = "remove" => arg \in Nat, op = "order" => arg \in Seq(Nat), NEW album, NEW next
  PROVE  /\ AlbumCall(A!Request(op, arg), album, next) /\ A!Request(op, arg) \in AlbumCalls
         /\ A!Request(op, arg).is = "sent" /\ A!Request(op, arg).op = op /\ A!Request(op, arg).mine
<1> DEFINE c == A!Request(op, arg)
<1>1. /\ c.op = op /\ c.arg = arg /\ c.is = "sent" /\ c.mine = TRUE /\ c.clean = TRUE /\ c.stored = FALSE
      /\ c \in AlbumCalls
  BY DEF A!Request, AlbumCalls
<1> HIDE DEF c
<1>2. AlbumCall(c, album, next)
  BY <1>1 DEF AlbumCall
<1> QED BY <1>1, <1>2 DEF c

AlbumAsking(c) ==
  /\ c \in AlbumCalls /\ AlbumCall(c, x1, x7) /\ c.is = "sent" /\ AlbumChanger(c)
  /\ x6' = Append(x6, c) /\ x4 \in {"idle", "picking"} /\ x4' \in {"uploading", "removing", "reordering"}
  /\ x2 # Blank /\ x2' \in Seq(Nat) /\ (x2' = x2 \/ c.op = "order")
  /\ x5' = Blank /\ UNCHANGED <<x1, x3, x7, x8, x10>>

LEMMA AlbumAsks ==
  ASSUME Blank \notin Seq(Nat), AlbumInv, NEW c, AlbumAsking(c) PROVE AlbumInv'
<1>0. AlbumTypes /\ AlbumNumbers /\ AlbumAsked /\ AlbumOne /\ AlbumShown
  BY DEF AlbumInv
<1>c. /\ c \in AlbumCalls /\ AlbumCall(c, x1, x7) /\ c.is = "sent" /\ AlbumChanger(c)
      /\ x6' = Append(x6, c) /\ x4 \in {"idle", "picking"} /\ x4' \in {"uploading", "removing", "reordering"}
      /\ x2 # Blank /\ x2' \in Seq(Nat) /\ (x2' = x2 \/ c.op = "order")
      /\ x5' = Blank /\ UNCHANGED <<x1, x3, x7, x8, x10>>
  BY DEF AlbumAsking
<1>1. x6 \in Seq(AlbumCalls)
  BY <1>0 DEF AlbumAsked
<1> DEFINE n == Len(x6) + 1
<1>2. /\ x6' \in Seq(AlbumCalls) /\ n \in DOMAIN x6' /\ n \notin DOMAIN x6 /\ x6'[n] = c
      /\ \A j \in DOMAIN x6 : j \in DOMAIN x6' /\ x6'[j] = x6[j]
      /\ \A j \in DOMAIN x6' : j \in DOMAIN x6 \/ j = n
  <2>1. n \in 1 .. n
    BY <1>1
  <2> QED BY <1>1, <1>c, <2>1, AlbumAppended
<1> HIDE DEF n
<1>3. \A j \in DOMAIN x6 : ~AlbumChanger(x6[j])
  BY <1>0, <1>c DEF AlbumOne
<1>4. AlbumTypes' /\ AlbumNumbers'
  BY <1>0, <1>c DEF AlbumTypes, AlbumNumbers
<1>5. AlbumAsked'
  BY <1>0, <1>2, <1>c DEF AlbumAsked
<1>6. AlbumOne'
  <2>1. \A j \in DOMAIN x6' : AlbumChanger(x6'[j]) => j = n
    BY <1>2, <1>3
  <2> QED BY <1>c, <2>1 DEF AlbumOne
<1>7. AlbumShown'
  <2> SUFFICES ASSUME x3 = "ready", ~x10, \A j \in DOMAIN x6' : ~AlbumList(x6'[j])
               PROVE  AlbumComesTo(x1, x6', x2')
    BY <1>c DEF AlbumShown
  <2>1. \A j \in DOMAIN x6 : ~AlbumList(x6[j])
    BY <1>2
  <2>2. AlbumComesTo(x1, x6, x2)
    BY <1>0, <2>1 DEF AlbumShown
  <2>3. x2 = x1
    BY <1>3, <2>2 DEF AlbumComesTo
  <2>4. x2' = x2
    BY <1>2, <1>c DEF AlbumList, AlbumChanger
  <2>5. \A j \in DOMAIN x6' : ~(AlbumChanger(x6'[j]) /\ x6'[j].is = "answered")
    BY <1>2, <1>3, <1>c
  <2> QED BY <2>3, <2>4, <2>5 DEF AlbumComesTo
<1> QED BY <1>4, <1>5, <1>6, <1>7 DEF AlbumInv

\* A request that comes back to the screen, or to one that is gone.
AlbumReturned(i) ==
  /\ x6' = A!RemoveAt(x6, i) /\ UNCHANGED <<x1, x5, x7, x8>>
  /\ x2' \in Seq(Nat) \cup {Blank} /\ (x2 # Blank => x2' # Blank)
  /\ x3' \in {"ready", "error", x3} /\ (x3' = "ready" => x2' # Blank) /\ x10' \in BOOLEAN
  /\ \/ x4' = x4 /\ ~AlbumChanger(x6[i])
     \/ x4' = "idle" /\ AlbumChanger(x6[i])

LEMMA AlbumReturns ==
  ASSUME AlbumInv, NEW i \in DOMAIN x6, AlbumReturned(i)
  PROVE  /\ AlbumTypes' /\ AlbumNumbers' /\ AlbumAsked' /\ AlbumOne'
         /\ \A k \in DOMAIN x6' : \E j \in DOMAIN x6 : j # i /\ x6'[k] = x6[j]
         /\ \A j \in DOMAIN x6 : j # i => \E k \in DOMAIN x6' : x6'[k] = x6[j]
<1>0. AlbumTypes /\ AlbumNumbers /\ AlbumAsked /\ AlbumOne /\ AlbumShown
  BY DEF AlbumInv
<1>c. /\ x6' = A!RemoveAt(x6, i) /\ UNCHANGED <<x1, x5, x7, x8>>
      /\ x2' \in Seq(Nat) \cup {Blank} /\ (x2 # Blank => x2' # Blank)
      /\ x3' \in {"ready", "error", x3} /\ (x3' = "ready" => x2' # Blank) /\ x10' \in BOOLEAN
      /\ \/ x4' = x4 /\ ~AlbumChanger(x6[i])
         \/ x4' = "idle" /\ AlbumChanger(x6[i])
  BY DEF AlbumReturned
<1>1. x6 \in Seq(AlbumCalls)
  BY <1>0 DEF AlbumAsked
<1> DEFINE was(k) == IF k < i THEN k ELSE k + 1
<1>2. /\ x6' \in Seq(AlbumCalls)
      /\ \A k \in DOMAIN x6' : was(k) \in DOMAIN x6 /\ was(k) # i /\ x6'[k] = x6[was(k)]
      /\ \A j \in DOMAIN x6 : j # i => \E k \in DOMAIN x6' : x6'[k] = x6[j]
  BY <1>1, <1>c, AlbumSettled
<1>3. \A k, m \in DOMAIN x6' : was(k) = was(m) => k = m
  <2>1. DOMAIN x6 = 1 .. Len(x6) /\ Len(x6) \in Nat /\ DOMAIN x6' = 1 .. Len(x6') /\ Len(x6') \in Nat
    BY <1>1, <1>2
  <2>2. i \in Nat /\ \A k \in DOMAIN x6' : k \in Nat
    BY <2>1
  <2>3. \A a, k, m \in Nat :
          (IF k < a THEN k ELSE k + 1) = (IF m < a THEN m ELSE m + 1) => k = m
    OBVIOUS
  <2> QED BY <2>2, <2>3
<1> HIDE DEF was
<1>4. AlbumTypes' /\ AlbumNumbers'
  BY <1>0, <1>c DEF AlbumTypes, AlbumNumbers
<1>5. AlbumAsked'
  BY <1>0, <1>2, <1>c DEF AlbumAsked
<1>6. AlbumOne'
  <2>1. \A k, m \in DOMAIN x6' : AlbumChanger(x6'[k]) /\ AlbumChanger(x6'[m]) => k = m
    BY <1>0, <1>2, <1>3 DEF AlbumOne
  <2>2. x4' \in {"idle", "picking"} => \A k \in DOMAIN x6' : ~AlbumChanger(x6'[k])
    BY <1>0, <1>2, <1>c DEF AlbumOne
  <2>3. x5' # Blank => x4' = "idle"
    BY <1>0, <1>c DEF AlbumOne
  <2>4. x5' # Blank \/ x4' # "idle" => x2' # Blank
    BY <1>0, <1>c DEF AlbumOne
  <2> QED BY <2>1, <2>2, <2>3, <2>4 DEF AlbumOne, AlbumChanger
<1> QED BY <1>2, <1>4, <1>5, <1>6

LEMMA AlbumListedNow ==
  ASSUME AlbumTypes', AlbumAsked', x2' = x1' PROVE AlbumComesTo(x1', x6', x2')
<1> PICK album, calls, next : album = x1' /\ calls = x6' /\ next = x7'
  OBVIOUS
<1>1. album \in Seq(Nat) /\ \A i \in DOMAIN calls : AlbumCall(calls[i], album, next)
  BY DEF AlbumTypes, AlbumAsked
<1>2. AlbumComesTo(album, calls, album)
  BY <1>1, AlbumListed
<1> QED BY <1>2

\* A list of the API's is shown, or none could be had.
LEMMA AlbumShows ==
  ASSUME Blank \notin Seq(Nat), AlbumInv, NEW i \in DOMAIN x6,
         A!reloadReturns(i) \/ (A!OrderReturns(i) /\ x6[i].is = "answered")
  PROVE  AlbumInv'
<1>0. AlbumTypes /\ AlbumNumbers /\ AlbumAsked /\ AlbumOne /\ AlbumShown
  BY DEF AlbumInv
<1>1. AlbumCall(x6[i], x1, x7) /\ x6[i].clean \in BOOLEAN
  BY <1>0 DEF AlbumAsked, AlbumCall, AlbumCalls
<1>2. /\ x6' = A!RemoveAt(x6, i) /\ UNCHANGED <<x1, x5, x7, x8>> /\ x6[i].mine
      /\ \/ /\ x6[i].op = "list" /\ x6[i].is = "answered" /\ x4' = x4 /\ x3' = "ready"
            /\ x2' = x6[i].answer /\ x10' = ~x6[i].clean
         \/ x6[i].op = "list" /\ x4' = x4 /\ x3' = "error" /\ UNCHANGED <<x2, x10>>
         \/ /\ x6[i].op = "order" /\ x6[i].is = "answered" /\ x4' = "idle" /\ x3' = x3
            /\ x2' = x6[i].answer /\ x10' = ~x6[i].clean
  BY DEF A!reloadReturns, A!OrderReturns, A!ShowList, A!Settle
<1>3. x2' = x6[i].answer /\ x6[i].is = "answered" /\ x6[i].op \in {"list", "order"} =>
        x2' \in Seq(Nat) /\ (x6[i].clean => x2' = x1)
  BY <1>1 DEF AlbumCall
<1>4. x10' \in BOOLEAN
  BY <1>0, <1>2, Zenon DEF AlbumTypes
<1>5. AlbumReturned(i)
  BY <1>0, <1>1, <1>2, <1>3, <1>4 DEF AlbumReturned, AlbumTypes, AlbumChanger
<1>6. AlbumTypes' /\ AlbumNumbers' /\ AlbumAsked' /\ AlbumOne'
  BY <1>5, AlbumReturns
<1>7. x3' = "ready" /\ ~x10' => x2' = x1'
  BY <1>2, <1>3
<1> QED BY <1>6, <1>7, AlbumListedNow DEF AlbumInv, AlbumShown

\* What another answer than a list's tells the screen.
LEMMA AlbumUploaded ==
  ASSUME Blank \notin Seq(Nat), AlbumInv, NEW i \in DOMAIN x6, A!UploadReturns(i) PROVE AlbumInv'
<1>0. AlbumTypes /\ AlbumNumbers /\ AlbumAsked /\ AlbumOne /\ AlbumShown
  BY DEF AlbumInv
<1>1. AlbumCall(x6[i], x1, x7) /\ x6[i].clean \in BOOLEAN
  BY <1>0 DEF AlbumAsked, AlbumCall, AlbumCalls
<1>2. /\ x6' = A!RemoveAt(x6, i) /\ UNCHANGED <<x1, x5, x7, x8>> /\ x6[i].mine /\ x6[i].op = "add"
      /\ x4' = "idle" /\ x3' = x3
      /\ IF x6[i].is = "answered" /\ x2 # Blank
         THEN /\ x2' = Append(x2, x6[i].answer)
              /\ x10' = (x10 \/ ~x6[i].clean \/ A!Contains(x2, x6[i].answer))
         ELSE UNCHANGED <<x2, x10>>
  BY DEF A!UploadReturns, A!Settle
<1>3. x10' \in BOOLEAN
  BY <1>0, <1>2, Zenon DEF AlbumTypes
<1>4. x2' \in Seq(Nat) \cup {Blank} /\ (x2 # Blank => x2' # Blank)
  <2>1. CASE x6[i].is = "answered" /\ x2 # Blank
    <3>1. x6[i].answer \in Nat /\ x2 \in Seq(Nat)
      BY <1>0, <1>1, <1>2, <2>1 DEF AlbumCall, AlbumTypes
    <3>2. Append(x2, x6[i].answer) \in Seq(Nat)
      BY <3>1
    <3> QED BY <1>2, <2>1, <3>2
  <2>2. CASE ~(x6[i].is = "answered" /\ x2 # Blank)
    BY <1>0, <1>2, <2>2 DEF AlbumTypes
  <2> QED BY <2>1, <2>2
<1>5. AlbumReturned(i)
  BY <1>0, <1>2, <1>3, <1>4 DEF AlbumReturned, AlbumTypes, AlbumChanger
<1>6. AlbumTypes' /\ AlbumNumbers' /\ AlbumAsked' /\ AlbumOne'
      /\ \A j \in DOMAIN x6 : j # i => \E k \in DOMAIN x6' : x6'[k] = x6[j]
  BY <1>5, AlbumReturns
<1>7. ASSUME x3' = "ready", ~x10', \A k \in DOMAIN x6' : ~AlbumList(x6'[k]) PROVE x2' = x1'
  <2>1. \A j \in DOMAIN x6 : ~AlbumList(x6[j])
    BY <1>2, <1>6, <1>7 DEF AlbumList
  <2>2. ~x10 /\ x2 # Blank /\ x2 \in Seq(Nat)
    BY <1>0, <1>2, <1>7 DEF AlbumTypes
  <2>3. AlbumComesTo(x1, x6, x2)
    BY <1>0, <1>2, <1>7, <2>1, <2>2 DEF AlbumShown
  <2>4. AlbumChanger(x6[i]) /\ \A j \in DOMAIN x6 : AlbumChanger(x6[j]) => j = i
    BY <1>0, <1>2 DEF AlbumOne, AlbumChanger
  <2>5. CASE x6[i].is = "answered"
    <3>1. x2' = Append(x2, x6[i].answer) /\ x6[i].clean /\ ~A!Contains(x2, x6[i].answer)
      BY <1>2, <1>7, <2>2, <2>5
    <3>2. ~(\E k \in DOMAIN x2 : x2[k] = x6[i].answer)
      <4>1. DOMAIN x2 = 1 .. Len(x2)
        BY <2>2
      <4> QED BY <3>1, <4>1 DEF A!Contains
    <3> QED BY <1>2, <2>3, <2>4, <2>5, <3>1, <3>2 DEF AlbumComesTo
  <2>6. CASE x6[i].is # "answered"
    BY <1>2, <2>3, <2>4, <2>6 DEF AlbumComesTo
  <2> QED BY <2>5, <2>6
<1>8. AlbumShown'
  <2>1. x2' = x1' => AlbumComesTo(x1', x6', x2')
    BY <1>6, AlbumListedNow
  <2> QED BY <1>7, <2>1 DEF AlbumShown
<1> QED BY <1>6, <1>8 DEF AlbumInv

LEMMA AlbumRemoved ==
  ASSUME Blank \notin Seq(Nat), AlbumInv, NEW i \in DOMAIN x6, A!RemovalReturns(i) PROVE AlbumInv'
<1>0. AlbumTypes /\ AlbumNumbers /\ AlbumAsked /\ AlbumOne /\ AlbumShown
  BY DEF AlbumInv
<1>2. /\ x6' = A!RemoveAt(x6, i) /\ UNCHANGED <<x1, x5, x7, x8>> /\ x6[i].mine /\ x6[i].op = "remove"
      /\ x4' = "idle" /\ x3' = x3 /\ x10' = x10
      /\ x2' = IF x6[i].is = "answered" THEN A!Without(x2, x6[i].arg) ELSE x2
  BY DEF A!RemovalReturns, A!Settle
<1>3. AlbumChanger(x6[i]) /\ \A j \in DOMAIN x6 : AlbumChanger(x6[j]) => j = i
  BY <1>0, <1>2 DEF AlbumOne, AlbumChanger
<1>4. x2 # Blank /\ x2 \in Seq(Nat)
  BY <1>0, <1>3 DEF AlbumOne, AlbumTypes
<1>5. x2' \in Seq(Nat)
  BY <1>2, <1>4, AlbumWithout
<1>6. AlbumReturned(i)
  BY <1>0, <1>2, <1>3, <1>5 DEF AlbumReturned, AlbumTypes
<1>7. AlbumTypes' /\ AlbumNumbers' /\ AlbumAsked' /\ AlbumOne'
      /\ \A j \in DOMAIN x6 : j # i => \E k \in DOMAIN x6' : x6'[k] = x6[j]
  BY <1>6, AlbumReturns
<1>8. ASSUME x3' = "ready", ~x10', \A k \in DOMAIN x6' : ~AlbumList(x6'[k]) PROVE x2' = x1'
  <2>1. \A j \in DOMAIN x6 : ~AlbumList(x6[j])
    BY <1>2, <1>7, <1>8 DEF AlbumList
  <2>2. AlbumComesTo(x1, x6, x2)
    BY <1>0, <1>2, <1>8, <2>1 DEF AlbumShown
  <2> QED BY <1>2, <1>3, <2>2 DEF AlbumComesTo
<1>9. AlbumShown'
  <2>1. x2' = x1' => AlbumComesTo(x1', x6', x2')
    BY <1>7, AlbumListedNow
  <2> QED BY <1>8, <2>1 DEF AlbumShown
<1> QED BY <1>7, <1>9 DEF AlbumInv

LEMMA AlbumDropped ==
  ASSUME AlbumInv, NEW i \in DOMAIN x6, A!Dropped(i) PROVE AlbumInv'
<1>0. AlbumTypes /\ AlbumNumbers /\ AlbumAsked /\ AlbumOne /\ AlbumShown
  BY DEF AlbumInv
<1>1. x6' = A!RemoveAt(x6, i) /\ UNCHANGED <<x1, x2, x3, x4, x5, x7, x8, x10>> /\ ~x6[i].mine
  BY DEF A!Dropped, A!Settle
<1>2. AlbumReturned(i)
  BY <1>0, <1>1 DEF AlbumReturned, AlbumTypes, AlbumChanger
<1>3. /\ AlbumTypes' /\ AlbumNumbers' /\ AlbumAsked' /\ AlbumOne'
      /\ \A k \in DOMAIN x6' : \E j \in DOMAIN x6 : j # i /\ x6'[k] = x6[j]
      /\ \A j \in DOMAIN x6 : j # i => \E k \in DOMAIN x6' : x6'[k] = x6[j]
  BY <1>2, AlbumReturns
<1>4. ASSUME x3 = "ready", ~x10, \A k \in DOMAIN x6' : ~AlbumList(x6'[k])
      PROVE  AlbumComesTo(x1, x6', x2)
  <2>1. \A j \in DOMAIN x6 : ~AlbumList(x6[j])
    BY <1>1, <1>3, <1>4 DEF AlbumList
  <2>2. AlbumComesTo(x1, x6, x2)
    BY <1>0, <1>4, <2>1 DEF AlbumShown
  <2>3. ~AlbumChanger(x6[i])
    BY <1>1 DEF AlbumChanger
  <2> QED BY <1>3, <2>2, <2>3 DEF AlbumComesTo
<1>5. AlbumShown'
  BY <1>1, <1>4 DEF AlbumShown
<1> QED BY <1>3, <1>5 DEF AlbumInv

\* A refused order asks for the list.
LEMMA AlbumReloads ==
  ASSUME Blank \notin Seq(Nat), AlbumInv, NEW i \in DOMAIN x6,
         A!OrderReturns(i), x6[i].is # "answered"
  PROVE  AlbumInv'
<1>0. AlbumTypes /\ AlbumNumbers /\ AlbumAsked /\ AlbumOne /\ AlbumShown
  BY DEF AlbumInv
<1> DEFINE q == A!RemoveAt(x6, i)
           c == A!Request("list", Blank)
           n == Len(q) + 1
<1>1. /\ x6' = Append(q, c) /\ UNCHANGED <<x1, x2, x3, x5, x7, x8, x10>> /\ x4' = "idle"
      /\ x6[i].mine /\ x6[i].op = "order"
  BY DEF A!OrderReturns, A!Reloads
<1>2. AlbumCall(c, x1, x7) /\ c \in AlbumCalls /\ c.op = "list" /\ c.mine
  BY AlbumRequest
<1>3. x6 \in Seq(AlbumCalls)
  BY <1>0 DEF AlbumAsked
<1>4. q \in Seq(AlbumCalls) /\ \A k \in DOMAIN q : \E j \in DOMAIN x6 : j # i /\ q[k] = x6[j]
  BY <1>3, AlbumSettled
<1> HIDE DEF q, c
<1>5. /\ x6' \in Seq(AlbumCalls) /\ n \in DOMAIN x6' /\ x6'[n] = c
      /\ \A j \in DOMAIN q : j \in DOMAIN x6' /\ x6'[j] = q[j]
      /\ \A j \in DOMAIN x6' : j \in DOMAIN q \/ j = n
  <2>1. n \in 1 .. n
    BY <1>4
  <2> QED BY <1>1, <1>2, <1>4, <2>1, AlbumAppended
<1> HIDE DEF n
<1>6. AlbumChanger(x6[i]) /\ \A j \in DOMAIN x6 : AlbumChanger(x6[j]) => j = i
  BY <1>0, <1>1 DEF AlbumOne, AlbumChanger
<1>7. \A j \in DOMAIN x6' : x6'[j] = c \/ \E k \in DOMAIN x6 : k # i /\ x6'[j] = x6[k]
  BY <1>4, <1>5
<1>8. AlbumTypes' /\ AlbumNumbers'
  BY <1>0, <1>1 DEF AlbumTypes, AlbumNumbers
<1>9. AlbumAsked'
  BY <1>0, <1>1, <1>2, <1>5, <1>7 DEF AlbumAsked
<1>10. AlbumOne'
  <2>1. \A j \in DOMAIN x6' : ~AlbumChanger(x6'[j])
    BY <1>2, <1>6, <1>7 DEF AlbumChanger
  <2>2. x5 = Blank
    BY <1>0, <1>6 DEF AlbumOne
  <2> QED BY <1>1, <2>1, <2>2 DEF AlbumOne
<1>11. AlbumShown'
  BY <1>2, <1>5 DEF AlbumShown, AlbumList
<1> QED BY <1>8, <1>9, <1>10, <1>11 DEF AlbumInv

\* The person comes back to a new screen.
LEMMA AlbumReopens ==
  ASSUME AlbumInv, A!Reopen PROVE AlbumInv'
<1>0. AlbumTypes /\ AlbumNumbers /\ AlbumAsked /\ AlbumOne /\ AlbumShown
  BY DEF AlbumInv
<1> DEFINE q == [j \in DOMAIN x6 |-> [x6[j] EXCEPT !.mine = FALSE]]
           c == A!Request("list", Blank)
           n == Len(q) + 1
<1>1. /\ x6' = Append(q, c) /\ UNCHANGED <<x1, x7, x8, x10>>
      /\ x2' = Blank /\ x3' = "loading" /\ x4' = "idle" /\ x5' = Blank
  BY DEF A!Reopen
<1>2. AlbumCall(c, x1, x7) /\ c \in AlbumCalls /\ c.op = "list" /\ c.mine
  BY AlbumRequest
<1>3. ASSUME NEW j \in DOMAIN x6 PROVE q[j] \in AlbumCalls /\ AlbumCall(q[j], x1, x7) /\ ~q[j].mine
  <2> PICK was : was = x6[j]
    OBVIOUS
  <2> DEFINE left == [was EXCEPT !.mine = FALSE]
  <2>1. AlbumCall(was, x1, x7) /\ was \in AlbumCalls
    BY <1>0 DEF AlbumAsked, AlbumCall
  <2>2. /\ left \in AlbumCalls /\ left.mine = FALSE /\ left.op = was.op /\ left.arg = was.arg /\ left.is = was.is
        /\ left.answer = was.answer /\ left.stored = was.stored /\ left.clean = was.clean
    BY <2>1 DEF AlbumCalls
  <2>3. q[j] = left
    OBVIOUS
  <2> HIDE DEF left, q
  <2>4. AlbumCall(left, x1, x7)
    BY <2>1, <2>2 DEF AlbumCall
  <2> QED BY <2>2, <2>3, <2>4
<1>4. q \in Seq(AlbumCalls) /\ DOMAIN q = DOMAIN x6
  <2>1. DOMAIN x6 = 1 .. Len(x6) /\ Len(x6) \in Nat
    BY <1>0 DEF AlbumAsked
  <2>2. q = [j \in 1 .. Len(x6) |-> q[j]]
    BY <2>1
  <2> HIDE DEF q
  <2>3. q \in [1 .. Len(x6) -> AlbumCalls]
    BY <1>3, <2>1, <2>2
  <2> QED BY <2>1, <2>3, AlbumSame
<1> HIDE DEF q, c
<1>5. /\ x6' \in Seq(AlbumCalls) /\ n \in DOMAIN x6' /\ x6'[n] = c
      /\ \A j \in DOMAIN q : j \in DOMAIN x6' /\ x6'[j] = q[j]
      /\ \A j \in DOMAIN x6' : j \in DOMAIN q \/ j = n
  <2>1. n \in 1 .. n
    BY <1>4
  <2> QED BY <1>1, <1>2, <1>4, <2>1, AlbumAppended
<1> HIDE DEF n
<1>6. \A j \in DOMAIN x6' : AlbumCall(x6'[j], x1, x7) /\ ~AlbumChanger(x6'[j])
  BY <1>2, <1>3, <1>4, <1>5 DEF AlbumChanger
<1>7. AlbumTypes' /\ AlbumNumbers'
  BY <1>0, <1>1 DEF AlbumTypes, AlbumNumbers
<1>8. AlbumAsked'
  BY <1>1, <1>5, <1>6 DEF AlbumAsked
<1>9. AlbumOne' /\ AlbumShown'
  BY <1>1, <1>6 DEF AlbumOne, AlbumShown
<1> QED BY <1>7, <1>8, <1>9 DEF AlbumInv

\* Another device takes a photo away, and the screen hears nothing of it.
LEMMA AlbumElsewhere ==
  ASSUME AlbumInv, A!ChangeElsewhere PROVE AlbumInv'
<1>0. AlbumTypes /\ AlbumNumbers /\ AlbumAsked /\ AlbumOne /\ AlbumShown
  BY DEF AlbumInv
<1>1. /\ x1 # <<>> /\ x1' = Tail(x1) /\ x10' = TRUE /\ UNCHANGED <<x2, x3, x4, x5, x7, x8>>
      /\ x6' = [j \in DOMAIN x6 |-> AlbumAged(x6[j])]
  BY DEF A!ChangeElsewhere, A!Screen, A!Outdated, AlbumAged
<1>2. x1' \in Seq(Nat) /\ \A k \in DOMAIN x1' : \E m \in DOMAIN x1 : x1'[k] = x1[m]
  <2>1. x1 \in Seq(Nat)
    BY <1>0 DEF AlbumTypes
  <2>2. \A q \in Seq(Nat) : q # <<>> =>
          Tail(q) \in Seq(Nat) /\ \A k \in DOMAIN Tail(q) : k + 1 \in DOMAIN q /\ Tail(q)[k] = q[k + 1]
    OBVIOUS
  <2> QED BY <1>1, <2>1, <2>2
<1>3. \A j \in DOMAIN x6 : /\ AlbumCall(AlbumAged(x6[j]), x1', x7)
                           /\ AlbumAged(x6[j]).op = x6[j].op /\ AlbumAged(x6[j]).mine = x6[j].mine
  <2>1. x7 \in Nat /\ x7 <= x7 /\ \A j \in DOMAIN x6 : AlbumCall(x6[j], x1, x7)
    BY <1>0 DEF AlbumAsked, AlbumTypes
  <2> PICK old, next, calls, new : old = x1 /\ next = x7 /\ calls = x6 /\ new = x1'
    OBVIOUS
  <2>2. AlbumLater(old, next, new, next) /\ \A j \in DOMAIN calls : AlbumCall(calls[j], old, next)
    BY <1>2, <2>1 DEF AlbumLater
  <2>3. \A j \in DOMAIN calls :
           /\ AlbumCall(AlbumAged(calls[j]), new, next)
           /\ AlbumAged(calls[j]).op = calls[j].op /\ AlbumAged(calls[j]).mine = calls[j].mine
    BY <2>2, AlbumAllOlder
  <2> QED BY <2>3
<1>4. DOMAIN x6' = DOMAIN x6 /\ \A j \in DOMAIN x6 : x6'[j] = AlbumAged(x6[j])
  BY <1>1
<1>5. \A j \in DOMAIN x6 : /\ AlbumCall(x6'[j], x1', x7) /\ x6'[j] \in AlbumCalls
                           /\ x6'[j].op = x6[j].op /\ x6'[j].mine = x6[j].mine
  <2>1. \A j \in DOMAIN x6 : AlbumCall(x6'[j], x1', x7) /\ x6'[j].op = x6[j].op /\ x6'[j].mine = x6[j].mine
    BY <1>3, <1>4
  <2> QED BY <2>1 DEF AlbumCall
<1>6. x6' \in Seq(AlbumCalls)
  <2>1. DOMAIN x6 = 1 .. Len(x6) /\ Len(x6) \in Nat
    BY <1>0 DEF AlbumAsked
  <2>2. x6' \in [1 .. Len(x6) -> AlbumCalls]
    <3>1. x6' = [j \in 1 .. Len(x6) |-> x6'[j]]
      BY <1>1, <1>4, <2>1
    <3>2. \A j \in 1 .. Len(x6) : x6'[j] \in AlbumCalls
      BY <1>5, <2>1
    <3> QED BY <3>1, <3>2
  <2> QED BY <2>1, <2>2, AlbumSame
<1>7. AlbumTypes' /\ AlbumNumbers'
  BY <1>0, <1>1, <1>2 DEF AlbumTypes, AlbumNumbers
<1>8. AlbumAsked'
  BY <1>1, <1>4, <1>5, <1>6 DEF AlbumAsked
<1>9. AlbumOne'
  BY <1>0, <1>1, <1>4, <1>5 DEF AlbumOne, AlbumChanger
<1>10. AlbumShown'
  BY <1>1 DEF AlbumShown
<1> QED BY <1>7, <1>8, <1>9, <1>10 DEF AlbumInv

\* The API answers with the list, or refuses; an answer is lost; an upload is sent again.
LEMMA AlbumServesList ==
  ASSUME AlbumInv, NEW i \in DOMAIN x6, A!ServeList(i) PROVE AlbumInv'
<1>0. AlbumTypes /\ AlbumNumbers /\ AlbumAsked /\ AlbumOne /\ AlbumShown
  BY DEF AlbumInv
<1> DEFINE c == [x6[i] EXCEPT !.is = "answered", !.answer = x1]
<1>1. /\ x6[i].op = "list" /\ x6[i].is = "sent" /\ x6' = [x6 EXCEPT ![i] = c]
      /\ UNCHANGED <<x1, x2, x3, x4, x5, x7, x8, x10>>
  BY DEF A!ServeList, A!Answered, A!Screen
<1>2. AlbumCall(x6[i], x1, x7) /\ x6[i] \in AlbumCalls /\ x1 \in Seq(Nat)
  BY <1>0 DEF AlbumAsked, AlbumCall, AlbumTypes
<1>3. /\ c \in AlbumCalls /\ c.op = x6[i].op /\ c.mine = x6[i].mine /\ c.is = "answered" /\ c.answer = x1
  BY <1>2 DEF AlbumCalls
<1> HIDE DEF c
<1>4. AlbumCall(c, x1, x7)
  BY <1>1, <1>2, <1>3 DEF AlbumCall
<1>5. x10' \in BOOLEAN /\ (x10 => x10')
  BY <1>0, <1>1, Zenon DEF AlbumTypes
<1> QED BY <1>1, <1>3, <1>4, <1>5, AlbumAnswers

LEMMA AlbumRefuses ==
  ASSUME AlbumInv, NEW i \in DOMAIN x6, A!Refuse(i), x6[i].is = "sent" PROVE AlbumInv'
<1>0. AlbumTypes /\ AlbumNumbers /\ AlbumAsked /\ AlbumOne /\ AlbumShown
  BY DEF AlbumInv
<1> DEFINE c == [x6[i] EXCEPT !.is = "refused"]
<1>1. /\ x6' = [x6 EXCEPT ![i] = c]
      /\ UNCHANGED <<x1, x2, x3, x4, x5, x7, x8, x10>>
  BY DEF A!Refuse, A!Screen
<1>2. AlbumCall(x6[i], x1, x7) /\ x6[i] \in AlbumCalls
  BY <1>0 DEF AlbumAsked, AlbumCall
<1>3. /\ c \in AlbumCalls /\ c.op = x6[i].op /\ c.mine = x6[i].mine /\ c.is = "refused" /\ c.arg = x6[i].arg
  BY <1>2 DEF AlbumCalls
<1> HIDE DEF c
<1>4. AlbumCall(c, x1, x7)
  BY <1>2, <1>3 DEF AlbumCall
<1>5. x10' \in BOOLEAN /\ (x10 => x10')
  BY <1>0, <1>1, Zenon DEF AlbumTypes
<1> QED BY <1>1, <1>3, <1>4, <1>5, AlbumAnswers

LEMMA AlbumLoses ==
  ASSUME AlbumInv, NEW i \in DOMAIN x6, A!LoseAnswer(i) PROVE AlbumInv'
<1>0. AlbumTypes /\ AlbumNumbers /\ AlbumAsked /\ AlbumOne /\ AlbumShown
  BY DEF AlbumInv
<1> DEFINE c == [x6[i] EXCEPT !.is = "lost"]
<1>1. /\ x6' = [x6 EXCEPT ![i] = c] /\ UNCHANGED <<x1, x2, x3, x4, x5, x7, x8>>
      /\ x10' = (x10 \/ (x6[i].op \in {"add", "remove"} /\ x6[i].is = "answered"))
  BY DEF A!LoseAnswer, A!Screen
<1>2. AlbumCall(x6[i], x1, x7) /\ x6[i] \in AlbumCalls
  BY <1>0 DEF AlbumAsked, AlbumCall
<1>3. /\ c \in AlbumCalls /\ c.op = x6[i].op /\ c.mine = x6[i].mine /\ c.is = "lost" /\ c.arg = x6[i].arg
  BY <1>2 DEF AlbumCalls
<1> HIDE DEF c
<1>4. AlbumCall(c, x1, x7)
  BY <1>2, <1>3 DEF AlbumCall
<1>5. x10' \in BOOLEAN /\ (x10 => x10')
  BY <1>0, <1>1, Zenon DEF AlbumTypes
<1>6. c.op \in {"add", "remove"} /\ ~x10' => x6[i].is # "answered" /\ c.is # "answered"
  BY <1>1, <1>3
<1> QED BY <1>1, <1>3, <1>4, <1>5, <1>6, AlbumAnswers

LEMMA AlbumRetries ==
  ASSUME AlbumInv, NEW i \in DOMAIN x6, A!UploadRetried(i) PROVE AlbumInv'
<1>0. AlbumTypes /\ AlbumNumbers /\ AlbumAsked /\ AlbumOne /\ AlbumShown
  BY DEF AlbumInv
<1> DEFINE c == [x6[i] EXCEPT !.is = "sent", !.again = TRUE]
<1>1. /\ x6[i].is = "sent" /\ x6' = [x6 EXCEPT ![i] = c]
      /\ UNCHANGED <<x1, x2, x3, x4, x5, x7, x8, x10>>
  BY DEF A!UploadRetried, A!SendsAgain, A!Screen
<1>2. AlbumCall(x6[i], x1, x7) /\ x6[i] \in AlbumCalls
  BY <1>0 DEF AlbumAsked, AlbumCall
<1>3. /\ c \in AlbumCalls /\ c.op = x6[i].op /\ c.mine = x6[i].mine /\ c.is = "sent" /\ c.arg = x6[i].arg
      /\ c.clean = x6[i].clean /\ c.stored = x6[i].stored
  BY <1>2 DEF AlbumCalls
<1> HIDE DEF c
<1>4. AlbumCall(c, x1, x7)
  BY <1>1, <1>2, <1>3 DEF AlbumCall
<1>5. x10' \in BOOLEAN /\ (x10 => x10')
  BY <1>0, <1>1, Zenon DEF AlbumTypes
<1> QED BY <1>1, <1>3, <1>4, <1>5, AlbumAnswers

\* A request that is served and changes the list.
AlbumServed(c, answer) == [AlbumAged(c) EXCEPT !.is = "answered", !.answer = answer, !.stored = TRUE]

LEMMA AlbumServes ==
  ASSUME NEW c \in AlbumCalls, NEW answer \in Nat \cup Seq(Nat)
  PROVE  /\ AlbumServed(c, answer) \in AlbumCalls /\ AlbumServed(c, answer).is = "answered"
         /\ AlbumServed(c, answer).op = c.op /\ AlbumServed(c, answer).mine = c.mine
         /\ AlbumServed(c, answer).arg = c.arg /\ AlbumServed(c, answer).answer = answer
<1> DEFINE clean == c.clean /\ c.is # "answered"
<1>1. clean \in BOOLEAN
  BY Zenon
<1>2. AlbumAged(c) = [c EXCEPT !.clean = clean]
  BY DEF AlbumAged
<1> HIDE DEF clean
<1>3. /\ AlbumAged(c) \in AlbumCalls /\ AlbumAged(c).op = c.op
      /\ AlbumAged(c).mine = c.mine /\ AlbumAged(c).arg = c.arg
  BY <1>1, <1>2 DEF AlbumCalls
<1> PICK aged : aged = AlbumAged(c)
  OBVIOUS
<1>4. AlbumServed(c, answer) = [aged EXCEPT !.is = "answered", !.answer = answer, !.stored = TRUE]
  BY DEF AlbumServed
<1>5. aged \in AlbumCalls /\ aged.op = c.op /\ aged.mine = c.mine /\ aged.arg = c.arg
  BY <1>3
<1>6. AlbumServed(c, answer) \in AlbumCalls
  <2>1. [aged EXCEPT !.is = "answered"] \in AlbumCalls
    BY <1>5 DEF AlbumCalls
  <2>2. \A d \in AlbumCalls : [d EXCEPT !.answer = answer] \in AlbumCalls
    BY DEF AlbumCalls
  <2>3. \A d \in AlbumCalls : [d EXCEPT !.stored = TRUE] \in AlbumCalls
    BY DEF AlbumCalls
  <2> QED BY <1>4, <2>1, <2>2, <2>3
<1>7. AlbumServed(c, answer).is = "answered" /\ AlbumServed(c, answer).answer = answer
  BY <1>4, <1>5 DEF AlbumCalls
<1>8. /\ AlbumServed(c, answer).op = aged.op /\ AlbumServed(c, answer).mine = aged.mine
      /\ AlbumServed(c, answer).arg = aged.arg
  BY <1>4, <1>5 DEF AlbumCalls
<1> QED BY <1>5, <1>6, <1>7, <1>8

LEMMA AlbumChange ==
  ASSUME NEW i \in DOMAIN x6, NEW new, NEW answer, A!Change(i, new, answer)
  PROVE  /\ x6' = [j \in DOMAIN x6 |-> IF j = i THEN AlbumServed(x6[i], answer) ELSE AlbumAged(x6[j])]
         /\ x1' = new /\ x10' = (x10 \/ ~x6[i].mine) /\ UNCHANGED <<x2, x3, x4, x5>>
<1> DEFINE q == A!Outdated(x6)
<1>1. q = [j \in DOMAIN x6 |-> AlbumAged(x6[j])]
  BY DEF A!Outdated, AlbumAged
<1>2. /\ x6' = [q EXCEPT ![i].is = "answered", ![i].answer = answer, ![i].stored = TRUE]
      /\ x1' = new /\ x10' = (x10 \/ ~x6[i].mine) /\ UNCHANGED <<x2, x3, x4, x5>>
  BY DEF A!Change, A!Screen
<1> HIDE DEF q
<1>3. x6' = [j \in DOMAIN x6 |->
              IF j = i THEN [q[i] EXCEPT !.is = "answered", !.answer = answer, !.stored = TRUE] ELSE q[j]]
  BY <1>1, <1>2
<1>4. q[i] = AlbumAged(x6[i]) /\ \A j \in DOMAIN x6 : q[j] = AlbumAged(x6[j])
  BY <1>1
<1>5. [q[i] EXCEPT !.is = "answered", !.answer = answer, !.stored = TRUE] = AlbumServed(x6[i], answer)
  BY <1>4 DEF AlbumServed
<1>6. x6' = [j \in DOMAIN x6 |-> IF j = i THEN AlbumServed(x6[i], answer) ELSE q[j]]
  BY <1>3, <1>5
<1>7. x6' = [j \in DOMAIN x6 |-> IF j = i THEN AlbumServed(x6[i], answer) ELSE AlbumAged(x6[j])]
  BY <1>4, <1>6
<1> QED BY <1>2, <1>7

LEMMA AlbumServesUpload ==
  ASSUME AlbumInv, NEW i \in DOMAIN x6, A!ServeUpload(i) PROVE AlbumInv'
<1>0. AlbumTypes /\ AlbumNumbers /\ AlbumAsked /\ AlbumOne /\ AlbumShown
  BY DEF AlbumInv
<1>1. x6[i].op = "add" /\ x6[i].is = "sent" /\ x1 \in Seq(Nat) /\ x7 \in Nat
  BY <1>0 DEF A!ServeUpload, AlbumTypes
<1>2. CASE Len(x1) < MaxPhotos
  <2> DEFINE c == AlbumServed(x6[i], x7)
  <2>1. A!Change(i, Append(x1, x7), x7) /\ x7' = x7 + 1 /\ x8' = (x8 \/ x6[i].stored)
    BY <1>2 DEF A!ServeUpload
  <2>2. /\ x6' = [j \in DOMAIN x6 |-> IF j = i THEN c ELSE AlbumAged(x6[j])]
        /\ x1' = Append(x1, x7) /\ x10' = (x10 \/ ~x6[i].mine) /\ UNCHANGED <<x2, x3, x4, x5>>
    BY <2>1, AlbumChange
  <2>3. AlbumCall(x6[i], x1, x7) /\ x6[i] \in AlbumCalls
    BY <1>0 DEF AlbumAsked, AlbumCall
  <2>4. /\ c \in AlbumCalls /\ c.is = "answered" /\ c.op = x6[i].op /\ c.mine = x6[i].mine /\ c.answer = x7
    <3>1. x7 \in Nat \cup Seq(Nat) /\ x6[i] \in AlbumCalls
      BY <1>1, <2>3
    <3> QED BY <3>1, AlbumServes
  <2> HIDE DEF c
  <2>5. x8' = x8
    <3>1. ~x6[i].stored /\ x8 = FALSE
      BY <1>0, <1>1, <2>3 DEF AlbumCall, AlbumTypes
    <3> QED BY <2>1, <3>1
  <2>6. /\ x1' \in Seq(Nat) /\ Len(x1) + 1 \in DOMAIN x1' /\ x1'[Len(x1) + 1] = x7
        /\ \A k \in DOMAIN x1' : x1'[k] = x7 \/ \E m \in DOMAIN x1 : x1'[k] = x1[m]
    <3>1. Len(x1) + 1 \in 1 .. Len(x1) + 1
      BY <1>1
    <3> QED BY <1>1, <2>2, <3>1, AlbumAppended
  <2>7. \A k \in DOMAIN x1' : x1'[k] < x7'
    <3>1. \A n \in Nat : n < n + 1 /\ \A m \in Nat : m < n => m < n + 1
      OBVIOUS
    <3>2. \A m \in DOMAIN x1 : x1[m] \in Nat /\ x1[m] < x7
      BY <1>0, <1>1 DEF AlbumNumbers
    <3> QED BY <1>1, <2>1, <2>6, <3>1, <3>2
  <2>8. x7' \in Nat /\ x7 <= x7'
    BY <1>1, <2>1
  <2>9. AlbumCall(c, x1', x7')
    BY <1>1, <2>4, <2>6 DEF AlbumCall
  <2>10. AlbumChanged(i, c)
    BY <1>1, <2>2, <2>4, <2>5, <2>6, <2>7, <2>8, <2>9 DEF AlbumChanged
  <2> QED BY <2>10, AlbumChanges
<1>3. CASE ~(Len(x1) < MaxPhotos)
  BY <1>1, <1>3, AlbumRefuses DEF A!ServeUpload
<1> QED BY <1>2, <1>3

LEMMA AlbumServesRemoval ==
  ASSUME AlbumInv, NEW i \in DOMAIN x6, A!ServeRemoval(i) PROVE AlbumInv'
<1>0. AlbumTypes /\ AlbumNumbers /\ AlbumAsked /\ AlbumOne /\ AlbumShown
  BY DEF AlbumInv
<1> PICK p : p = x6[i].arg
  OBVIOUS
<1>1. x6[i].op = "remove" /\ x6[i].is = "sent" /\ x1 \in Seq(Nat) /\ x7 \in Nat
  BY <1>0 DEF A!ServeRemoval, AlbumTypes
<1>2. CASE A!Contains(x1, p)
  <2> DEFINE c == AlbumServed(x6[i], p)
  <2>1. A!Change(i, A!Without(x1, p), p) /\ UNCHANGED <<x7, x8>>
    BY <1>2 DEF A!ServeRemoval
  <2>2. /\ x6' = [j \in DOMAIN x6 |-> IF j = i THEN c ELSE AlbumAged(x6[j])]
        /\ x1' = A!Without(x1, p) /\ x10' = (x10 \/ ~x6[i].mine) /\ UNCHANGED <<x2, x3, x4, x5>>
    BY <2>1, AlbumChange
  <2>3. AlbumCall(x6[i], x1, x7) /\ x6[i] \in AlbumCalls /\ p \in Nat
    BY <1>0, <1>1 DEF AlbumAsked, AlbumCall
  <2>4. /\ c \in AlbumCalls /\ c.is = "answered" /\ c.op = x6[i].op /\ c.mine = x6[i].mine /\ c.arg = p
    BY <2>3, AlbumServes
  <2> HIDE DEF c
  <2>5. /\ x1' \in Seq(Nat)
        /\ \A k \in DOMAIN x1' : x1'[k] # p /\ \E m \in DOMAIN x1 : x1[m] = x1'[k]
    BY <1>1, <2>2, AlbumWithout
  <2>6. p < x7
    <3>1. DOMAIN x1 = 1 .. Len(x1)
      BY <1>1
    <3>2. \E k \in DOMAIN x1 : x1[k] = p
      BY <1>2, <3>1 DEF A!Contains
    <3> QED BY <1>0, <3>2 DEF AlbumNumbers
  <2>7. \A k \in DOMAIN x1' : x1'[k] < x7'
    BY <1>0, <2>1, <2>5 DEF AlbumNumbers
  <2>8. x7' \in Nat /\ x7 <= x7'
    BY <1>1, <2>1
  <2>9. AlbumCall(c, x1', x7')
    <3>1. c.is # "sent" /\ c.op # "order" /\ c.op # "list" /\ c.op # "add" /\ c.arg \in Nat
      BY <1>1, <2>3, <2>4
    <3>2. c.arg < x7' /\ \A k \in DOMAIN x1' : x1'[k] # c.arg
      BY <2>1, <2>4, <2>5, <2>6
    <3> QED BY <2>4, <3>1, <3>2 DEF AlbumCall
  <2>10. \A k \in DOMAIN x1' : x1'[k] = x7 \/ \E m \in DOMAIN x1 : x1'[k] = x1[m]
    BY <2>5
  <2>11. AlbumChanged(i, c)
    BY <1>1, <2>1, <2>2, <2>4, <2>5, <2>7, <2>8, <2>9, <2>10 DEF AlbumChanged
  <2> QED BY <2>11, AlbumChanges
<1>3. CASE ~A!Contains(x1, p)
  BY <1>1, <1>3, AlbumRefuses DEF A!ServeRemoval
<1> QED BY <1>2, <1>3

LEMMA AlbumServesOrder ==
  ASSUME AlbumInv, NEW i \in DOMAIN x6, A!ServeOrder(i) PROVE AlbumInv'
<1>0. AlbumTypes /\ AlbumNumbers /\ AlbumAsked /\ AlbumOne /\ AlbumShown
  BY DEF AlbumInv
<1> PICK order : order = x6[i].arg
  OBVIOUS
<1>1. x6[i].op = "order" /\ x6[i].is = "sent" /\ x1 \in Seq(Nat) /\ x7 \in Nat
  BY <1>0 DEF A!ServeOrder, AlbumTypes
<1>2. CASE A!ToSet(order) = A!ToSet(x1) /\ Len(order) = Len(x1)
  <2> DEFINE c == AlbumServed(x6[i], order)
  <2>1. A!Change(i, order, order) /\ UNCHANGED <<x7, x8>>
    BY <1>2 DEF A!ServeOrder
  <2>2. /\ x6' = [j \in DOMAIN x6 |-> IF j = i THEN c ELSE AlbumAged(x6[j])]
        /\ x1' = order /\ x10' = (x10 \/ ~x6[i].mine) /\ UNCHANGED <<x2, x3, x4, x5>>
    BY <2>1, AlbumChange
  <2>3. AlbumCall(x6[i], x1, x7) /\ x6[i] \in AlbumCalls /\ order \in Seq(Nat)
    BY <1>0, <1>1 DEF AlbumAsked, AlbumCall
  <2>4. /\ c \in AlbumCalls /\ c.is = "answered" /\ c.op = x6[i].op /\ c.mine = x6[i].mine
        /\ c.answer = order /\ c.arg = order
    <3>1. order \in Nat \cup Seq(Nat) /\ x6[i] \in AlbumCalls
      BY <2>3
    <3> QED BY <3>1, AlbumServes
  <2> HIDE DEF c
  <2>5. x1' \in Seq(Nat) /\ \A k \in DOMAIN x1' : \E m \in DOMAIN x1 : x1'[k] = x1[m]
    <3>1. \A k \in DOMAIN order : order[k] \in A!ToSet(order)
      BY DEF A!ToSet
    <3>2. \A v \in A!ToSet(x1) : \E m \in DOMAIN x1 : v = x1[m]
      BY DEF A!ToSet
    <3> QED BY <1>2, <2>2, <2>3, <3>1, <3>2
  <2>7. \A k \in DOMAIN x1' : x1'[k] < x7'
    BY <1>0, <2>1, <2>5 DEF AlbumNumbers
  <2>8. x7' \in Nat /\ x7 <= x7'
    BY <1>1, <2>1
  <2>9. AlbumCall(c, x1', x7')
    BY <1>1, <2>2, <2>3, <2>4 DEF AlbumCall
  <2>10. \A k \in DOMAIN x1' : x1'[k] = x7 \/ \E m \in DOMAIN x1 : x1'[k] = x1[m]
    BY <2>5
  <2>11. AlbumChanged(i, c)
    BY <1>1, <2>1, <2>2, <2>4, <2>5, <2>7, <2>8, <2>9, <2>10 DEF AlbumChanged
  <2> QED BY <2>11, AlbumChanges
<1>3. CASE ~(A!ToSet(order) = A!ToSet(x1) /\ Len(order) = Len(x1))
  BY <1>1, <1>3, AlbumRefuses DEF A!ServeOrder
<1> QED BY <1>2, <1>3

\* The picker and the dialog send nothing.
LEMMA AlbumTaps ==
  ASSUME Blank \notin Seq(Nat), AlbumInv, UNCHANGED <<x1, x2, x3, x6, x7, x8, x10>>,
         \/ \E p : A!OpenDialog(p)
         \/ A!CloseDialog \/ A!Add \/ A!PickingEnds
  PROVE  AlbumInv'
<1>0. AlbumTypes /\ AlbumNumbers /\ AlbumAsked /\ AlbumOne /\ AlbumShown
  BY DEF AlbumInv
<1>1. /\ x4 \in {"idle", "picking"} /\ x4' \in {"idle", "picking"} /\ x2 # Blank
      /\ x5' \in Nat \cup {Blank} /\ (x5' # Blank => x4' = "idle")
  <2>1. ASSUME NEW p, A!OpenDialog(p) PROVE x5' \in Nat /\ x4 = "idle" /\ x4' = "idle" /\ x2 # Blank
    <3>1. x2 # Blank /\ x2 \in Seq(Nat) /\ A!Contains(x2, p) /\ x5' = p /\ x4 = "idle" /\ x4' = "idle"
      BY <1>0, <2>1 DEF A!OpenDialog, A!CanTap, AlbumTypes
    <3> QED BY <3>1 DEF A!Contains
  <2>2. CASE A!CloseDialog
    BY <1>0, <2>2 DEF A!CloseDialog, AlbumOne
  <2>3. CASE A!Add
    BY <1>0, <2>3 DEF A!Add, A!CanTap, AlbumTypes
  <2>4. CASE A!PickingEnds
    BY <1>0, <2>4 DEF A!PickingEnds, AlbumOne, AlbumTypes
  <2> QED BY <2>1, <2>2, <2>3, <2>4
<1>2. AlbumTypes' /\ AlbumNumbers'
  BY <1>0, <1>1 DEF AlbumTypes, AlbumNumbers
<1>3. AlbumAsked' /\ AlbumShown'
  BY <1>0 DEF AlbumAsked, AlbumShown
<1>4. AlbumOne'
  BY <1>0, <1>1 DEF AlbumOne
<1> QED BY <1>2, <1>3, <1>4 DEF AlbumInv

\* An upload, a removal and an order are the one request that changes the list.
LEMMA AlbumUploads ==
  ASSUME Blank \notin Seq(Nat), AlbumInv, A!Upload \/ A!remove PROVE AlbumInv'
<1>0. AlbumTypes /\ AlbumOne
  BY DEF AlbumInv
<1>1. CASE A!Upload
  <2> DEFINE c == A!Request("add", Blank)
  <2>1. /\ x4 = "picking" /\ x6' = Append(x6, c) /\ x4' = "uploading"
        /\ UNCHANGED <<x1, x2, x3, x5, x7, x8, x10>>
    BY <1>1 DEF A!Upload, A!Ask
  <2>2. AlbumCall(c, x1, x7) /\ c \in AlbumCalls /\ c.is = "sent" /\ c.op = "add" /\ c.mine
    BY AlbumRequest
  <2> HIDE DEF c
  <2>3. x2 # Blank /\ x2 \in Seq(Nat) /\ x5 = Blank
    BY <1>0, <2>1 DEF AlbumOne, AlbumTypes
  <2>4. AlbumAsking(c)
    BY <2>1, <2>2, <2>3 DEF AlbumAsking, AlbumChanger
  <2> QED BY <2>4, AlbumAsks
<1>2. CASE A!remove
  <2> PICK p : p = x5
    OBVIOUS
  <2> DEFINE c == A!Request("remove", p)
  <2>1. /\ x5 # Blank /\ x6' = Append(x6, c) /\ x4' = "removing" /\ x5' = Blank
        /\ UNCHANGED <<x1, x2, x3, x7, x8, x10>>
    BY <1>2 DEF A!remove, A!Ask
  <2>2. p \in Nat
    BY <1>0, <2>1 DEF AlbumTypes
  <2>3. AlbumCall(c, x1, x7) /\ c \in AlbumCalls /\ c.is = "sent" /\ c.op = "remove" /\ c.mine
    BY <2>2, AlbumRequest
  <2> HIDE DEF c
  <2>4. x2 # Blank /\ x2 \in Seq(Nat) /\ x4 = "idle"
    BY <1>0, <2>1 DEF AlbumOne, AlbumTypes
  <2>5. AlbumAsking(c)
    BY <2>1, <2>3, <2>4 DEF AlbumAsking, AlbumChanger
  <2> QED BY <2>5, AlbumAsks
<1> QED BY <1>1, <1>2

LEMMA AlbumReorders ==
  ASSUME Blank \notin Seq(Nat), AlbumInv, NEW photos \in Seq(Nat), x2 # Blank, A!reorder(photos) PROVE AlbumInv'
<1> DEFINE c == A!Request("order", photos)
<1>1. /\ x4 = "idle" /\ x5 = Blank /\ x6' = Append(x6, c) /\ x4' = "reordering" /\ x2' = photos
      /\ UNCHANGED <<x1, x3, x5, x7, x8, x10>>
  BY DEF A!reorder, A!Ask, A!CanTap
<1>2. AlbumCall(c, x1, x7) /\ c \in AlbumCalls /\ c.is = "sent" /\ c.op = "order" /\ c.mine
  BY AlbumRequest
<1> HIDE DEF c
<1>3. AlbumAsking(c)
  BY <1>1, <1>2 DEF AlbumAsking, AlbumChanger
<1> QED BY <1>3, AlbumAsks

LEMMA AlbumMoves ==
  ASSUME Blank \notin Seq(Nat), AlbumInv, NEW from \in Nat, A!move(from) \/ A!makeMain(from) PROVE AlbumInv'
<1>1. x2 # Blank /\ x2 \in Seq(Nat) /\ from \in 2 .. Len(x2) /\ Len(x2) \in Nat
  BY DEF A!move, A!makeMain, AlbumInv, AlbumTypes
<1>2. from \in 1 .. Len(x2) /\ from - 1 \in 1 .. Len(x2) /\ DOMAIN x2 = 1 .. Len(x2)
  BY <1>1
<1>3. x2[from] \in Nat /\ x2[from - 1] \in Nat
  BY <1>1, <1>2
<1>4. CASE A!move(from)
  <2> DEFINE photos == A!Swapped(x2, from - 1, from)
  <2>1. photos \in [1 .. Len(x2) -> Nat]
    <3>1. x2 \in [1 .. Len(x2) -> Nat]
      BY <1>1
    <3>2. photos = [x2 EXCEPT ![from - 1] = x2[from], ![from] = x2[from - 1]]
      BY DEF A!Swapped
    <3> HIDE DEF photos
    <3> QED BY <1>2, <1>3, <3>1, <3>2
  <2>2. A!reorder(photos)
    BY <1>4 DEF A!move
  <2> HIDE DEF photos
  <2>3. photos \in Seq(Nat)
    BY <1>1, <2>1, AlbumSame
  <2> QED BY <1>1, <2>2, <2>3, AlbumReorders
<1>5. CASE A!makeMain(from)
  <2> DEFINE rest == A!RemoveAt(x2, from)
             photos == <<x2[from]>> \o rest
  <2>1. A!reorder(photos)
    BY <1>5 DEF A!makeMain
  <2>2. rest \in Seq(Nat)
    BY <1>1, <1>2, AlbumSettled
  <2> HIDE DEF rest
  <2>3. photos \in Seq(Nat)
    <3>1. \A n \in Nat, s \in Seq(Nat) : <<n>> \o s \in Seq(Nat)
      OBVIOUS
    <3> QED BY <1>3, <2>2, <3>1
  <2> HIDE DEF photos
  <2> QED BY <1>1, <2>1, <2>3, AlbumReorders
<1> QED BY <1>4, <1>5

LEMMA AlbumInitInv == A!AlbumAssumption /\ A!Init => AlbumInv
<1> SUFFICES ASSUME A!AlbumAssumption, A!Init PROVE AlbumInv
  OBVIOUS
<1> DEFINE c == A!Request("list", Blank)
<1>1. /\ x1 = <<>> /\ x2 = Blank /\ x3 = "loading" /\ x4 = "idle" /\ x5 = Blank
      /\ x6 = <<c>> /\ x7 = 1 /\ x8 = FALSE /\ x10 = FALSE
  BY DEF A!Init
<1>2. AlbumCall(c, x1, x7) /\ c \in AlbumCalls /\ c.op = "list" /\ c.mine
  BY AlbumRequest
<1> HIDE DEF c
<1>3. x6 \in Seq(AlbumCalls) /\ \A i \in DOMAIN x6 : x6[i] = c
  BY <1>1, <1>2
<1>4. AlbumTypes /\ AlbumNumbers
  <2>1. x1 \in Seq(Nat) /\ \A k \in DOMAIN x1 : FALSE
    BY <1>1
  <2> QED BY <1>1, <2>1 DEF AlbumTypes, AlbumNumbers
<1>5. AlbumAsked
  BY <1>2, <1>3 DEF AlbumAsked
<1>6. AlbumOne /\ AlbumShown
  BY <1>1, <1>2, <1>3 DEF AlbumOne, AlbumChanger, AlbumShown
<1> QED BY <1>4, <1>5, <1>6 DEF AlbumInv

LEMMA AlbumPromises ==
  ASSUME A!AlbumAssumption, AlbumInv PROVE A!TypeOK /\ A!ScreenIsTrue /\ A!OneTapOnePhoto
<1>1. A!TypeOK
  <2>1. \A i \in DOMAIN x6 : x6[i].op \in {"list", "add", "remove", "order"}
    <3>1. x6 \in Seq(AlbumCalls)
      BY DEF AlbumInv, AlbumAsked
    <3>2. \A i \in DOMAIN x6 : x6[i] \in AlbumCalls
      BY <3>1
    <3> QED BY <3>2 DEF AlbumCalls
  <2> QED BY <2>1 DEF AlbumInv, AlbumTypes, A!TypeOK
<1>2. A!ScreenIsTrue
  <2> SUFFICES ASSUME x6 = <<>>, x3 = "ready", ~x10 PROVE x2 = x1
    BY DEF A!ScreenIsTrue
  <2>1. \A i \in DOMAIN x6 : FALSE
    OBVIOUS
  <2>2. AlbumComesTo(x1, x6, x2)
    BY <2>1 DEF AlbumInv, AlbumShown
  <2> QED BY <2>1, <2>2 DEF AlbumComesTo
<1>3. A!OneTapOnePhoto
  BY DEF AlbumInv, AlbumTypes, A!OneTapOnePhoto
<1> QED BY <1>1, <1>2, <1>3

LEMMA AlbumNextInv == A!AlbumAssumption /\ AlbumInv /\ [A!Next]_(A!vars) => AlbumInv'
<1> SUFFICES ASSUME A!AlbumAssumption, AlbumInv, [A!Next]_(A!vars) PROVE AlbumInv'
  OBVIOUS
<1>0. Blank \notin Seq(Nat)
  BY DEF A!AlbumAssumption
<1>1. ASSUME NEW i \in DOMAIN x6,
             \/ A!ServeList(i) \/ A!ServeUpload(i) \/ A!ServeRemoval(i) \/ A!ServeOrder(i)
             \/ A!LoseAnswer(i) \/ A!UploadRetried(i) \/ A!Dropped(i)
      PROVE  AlbumInv'
  BY <1>1, AlbumServesList, AlbumServesUpload, AlbumServesRemoval, AlbumServesOrder, AlbumLoses,
     AlbumRetries, AlbumDropped
<1>2. ASSUME NEW i \in DOMAIN x6,
             A!reloadReturns(i) \/ A!UploadReturns(i) \/ A!RemovalReturns(i) \/ A!OrderReturns(i)
      PROVE  AlbumInv'
  BY <1>0, <1>2, AlbumShows, AlbumUploaded, AlbumRemoved, AlbumReloads
<1>3. ASSUME NEW p, A!OpenDialog(p) PROVE AlbumInv'
  <2>1. UNCHANGED <<x1, x2, x3, x6, x7, x8, x10>>
    BY <1>3 DEF A!OpenDialog
  <2> QED BY <1>0, <1>3, <2>1, AlbumTaps
<1>4. ASSUME NEW from \in 1 .. MaxPhotos, A!move(from) \/ A!makeMain(from) PROVE AlbumInv'
  <2>1. from \in Nat
    BY <1>4 DEF A!move, A!makeMain
  <2> QED BY <1>0, <1>4, <2>1, AlbumMoves
<1>5. ASSUME A!Add \/ A!PickingEnds \/ A!CloseDialog PROVE AlbumInv'
  <2>1. UNCHANGED <<x1, x2, x3, x6, x7, x8, x10>>
    BY <1>5 DEF A!Add, A!PickingEnds, A!CloseDialog
  <2> QED BY <1>0, <1>5, <2>1, AlbumTaps
<1>6. ASSUME A!Upload \/ A!remove \/ A!ChangeElsewhere \/ A!Reopen PROVE AlbumInv'
  BY <1>0, <1>6, AlbumUploads, AlbumElsewhere, AlbumReopens
<1>7. CASE UNCHANGED A!vars
  <2>1. UNCHANGED <<x1, x2, x3, x4, x5, x6, x7, x8, x10>>
    BY <1>7 DEF A!vars
  <2> QED BY <2>1 DEF AlbumInv, AlbumTypes, AlbumNumbers, AlbumAsked, AlbumOne, AlbumShown
<1>8. CASE A!Next
  BY <1>1, <1>2, <1>3, <1>4, <1>5, <1>6, <1>8, Zenon DEF A!Next
<1> QED BY <1>7, <1>8

-----------------------------------------------------------------------------
(* Profile.  A draft that was typed in after its save is the one on the    *)
(* screen, and a save that is stored or answered, unless something changed *)
(* behind the screen, is the row.                                          *)

ProfileCalls == [op : {"load", "save"}, is : {"sent", "stored", "refused", "answered"},
                 document : P!ProfileUpdate \cup {Blank}, complete : BOOLEAN,
                 submitted : P!ProfileUpdate \cup {Blank}]

ProfileTypes == P!TypeOK /\ x9 \in {Blank} \cup ProfileCalls

ProfileTyped ==
  /\ P!KeystrokesAreKept
  /\ x9 # Blank /\ x9.op = "load" => x5 = "loading" /\ x10 = Blank
  /\ x9 # Blank /\ x9.op = "save" =>
       /\ x5 = "ready" /\ x9.document # Blank
       /\ x10 = Blank /\ x9.submitted # Blank => x6 = x9.submitted

ProfileStored ==
  /\ P!SavedIsStored
  /\ x9 # Blank \/ x5 # "ready" => x8 # "saved"
  /\ x9 # Blank /\ x9.op = "save" /\ ~x11 =>
       /\ x9.is \in {"stored", "answered"} => x2 = x9.document
       /\ x9.is = "answered" => x9.complete = P!Complete(x2, x3)

ProfileInv == ProfileTypes /\ ProfileTyped /\ ProfileStored /\ P!NoProfileOfTombstone

LEMMA ProfileValues ==
  ASSUME P!ProfileAssumption
  PROVE  /\ Blank \notin P!ProfileUpdate /\ P!EMPTY_PROFILE \in P!ProfileUpdate
         /\ [P!EMPTY_PROFILE EXCEPT !.name = "ok"] \in P!ProfileUpdate
<1>1. <<>> \in UNION {[S -> {"", "text"}] : S \in SUBSET Prompt}
  <2>1. <<>> \in [{} -> {"", "text"}] /\ {} \in SUBSET Prompt
    OBVIOUS
  <2> QED BY <2>1
<1>2. P!EMPTY_PROFILE \in P!ProfileUpdate
  BY <1>1 DEF P!EMPTY_PROFILE, P!ProfileUpdate
<1>3. [P!EMPTY_PROFILE EXCEPT !.name = "ok"] \in P!ProfileUpdate
  BY <1>2 DEF P!ProfileUpdate
<1> QED BY <1>2, <1>3 DEF P!ProfileAssumption

\* What a save sends is a profile.
LEMMA ProfileSent == ASSUME NEW d \in P!ProfileUpdate PROVE P!Sent(d) \in P!ProfileUpdate
<1> DEFINE kept == {p \in DOMAIN d.prompts : d.prompts[p] # ""}
           answers == P!Restrict(d.prompts, kept)
<1>1. PICK S \in SUBSET Prompt : d.prompts \in [S -> {"", "text"}]
  BY DEF P!ProfileUpdate
<1>2. answers \in [kept -> {"", "text"}] /\ kept \in SUBSET Prompt
  BY <1>1 DEF P!Restrict
<1>3. answers \in UNION {[T -> {"", "text"}] : T \in SUBSET Prompt}
  BY <1>2
<1>4. P!Sent(d) = [d EXCEPT !.prompts = answers]
  BY DEF P!Sent
<1> HIDE DEF answers
<1> QED BY <1>3, <1>4 DEF P!ProfileUpdate

LEMMA ProfileVerdict == ASSUME NEW d, NEW others PROVE P!Complete(d, others) \in BOOLEAN
BY Zenon DEF P!Complete

LEMMA ProfileInitInv == P!ProfileAssumption /\ P!Init => ProfileInv
<1> SUFFICES ASSUME P!ProfileAssumption, P!Init PROVE ProfileInv
  OBVIOUS
<1>1. /\ x1 = "live" /\ x2 = Blank /\ x3 \in BOOLEAN /\ x4 = Blank /\ x5 = "loading"
      /\ x6 = P!EMPTY_PROFILE /\ x7 = Blank /\ x8 = "none" /\ x10 = Blank /\ x11 = FALSE
      /\ x9 = [op |-> "load", is |-> "sent", document |-> Blank, complete |-> FALSE, submitted |-> Blank]
  BY DEF P!Init, P!Request
<1>2. ProfileTypes
  <2>1. x9 \in ProfileCalls
    BY <1>1 DEF ProfileCalls
  <2> QED BY <1>1, <2>1, ProfileValues DEF ProfileTypes, P!TypeOK
<1>3. ProfileTyped
  BY <1>1 DEF ProfileTyped, P!KeystrokesAreKept
<1>4. ProfileStored
  BY <1>1 DEF ProfileStored, P!SavedIsStored
<1> QED BY <1>1, <1>2, <1>3, <1>4 DEF ProfileInv, P!NoProfileOfTombstone

LEMMA ProfilePromises ==
  ASSUME P!ProfileAssumption, ProfileInv
  PROVE  P!TypeOK /\ P!KeystrokesAreKept /\ P!SavedIsStored /\ P!NoProfileOfTombstone
BY DEF ProfileInv, ProfileTypes, ProfileTyped, ProfileStored

\* A screen that loads, whatever it showed, has the invariant.
LEMMA ProfileLoads ==
  ASSUME ProfileInv, P!Load, x4' \in P!ProfileUpdate \cup {Blank},
         x6' \in P!ProfileUpdate, x7' \in BOOLEAN \cup {Blank}, x8' \in {"none", "error"}
  PROVE  ProfileInv'
<1>1. /\ x5' = "loading" /\ x10' = Blank /\ UNCHANGED <<x1, x2, x3, x11>>
      /\ x9' = [op |-> "load", is |-> "sent", document |-> Blank, complete |-> FALSE, submitted |-> x10]
  BY DEF P!Load, P!Request
<1>2. ProfileTypes'
  <2>1. x9' \in ProfileCalls
    BY <1>1 DEF ProfileInv, ProfileTypes, P!TypeOK, ProfileCalls
  <2> QED BY <1>1, <2>1 DEF ProfileInv, ProfileTypes, P!TypeOK
<1>3. ProfileTyped'
  BY <1>1 DEF ProfileTyped, P!KeystrokesAreKept
<1>4. ProfileStored'
  BY <1>1 DEF ProfileStored, P!SavedIsStored
<1> QED BY <1>1, <1>2, <1>3, <1>4 DEF ProfileInv, P!NoProfileOfTombstone

\* What happens behind the screen leaves what it shows, and its call.
LEMMA ProfileBehind ==
  ASSUME ProfileInv, x11', UNCHANGED <<x5, x6, x7, x8, x9, x10>>, x11' \in BOOLEAN,
         x1' \in {x1, "deleted"}, x3' \in BOOLEAN, {x2', x4'} \subseteq P!ProfileUpdate \cup {Blank},
         x1' = "deleted" => x2' = Blank
  PROVE  ProfileInv'
<1>1. ProfileTypes'
  BY DEF ProfileInv, ProfileTypes, P!TypeOK
<1>2. ProfileTyped'
  BY DEF ProfileInv, ProfileTyped, P!KeystrokesAreKept
<1>3. ProfileStored'
  BY DEF ProfileInv, ProfileStored, P!SavedIsStored
<1> QED BY <1>1, <1>2, <1>3 DEF ProfileInv, P!NoProfileOfTombstone

LEMMA ProfileNextInv == P!ProfileAssumption /\ ProfileInv /\ [P!Next]_(P!vars) => ProfileInv'
<1> SUFFICES ASSUME P!ProfileAssumption, ProfileInv, [P!Next]_(P!vars) PROVE ProfileInv'
  OBVIOUS
<1>0. /\ ProfileTypes /\ ProfileTyped /\ ProfileStored /\ P!NoProfileOfTombstone
      /\ x9 # Blank => x9 \in ProfileCalls
      /\ x10 # Blank => x6 = x10
  BY DEF ProfileInv, ProfileTypes, ProfileTyped, P!KeystrokesAreKept
<1>1. CASE P!Upsert
  <2>1. /\ x9 # Blank /\ x9.op = "save" /\ x9.is = "sent"
        /\ \/ P!Writes(x9.document) /\ x2' = x9.document /\ x9' = [x9 EXCEPT !.is = "stored"]
           \/ x2' = x2 /\ x9' = [x9 EXCEPT !.is = "refused"]
        /\ UNCHANGED <<x1, x3, x4, x5, x6, x7, x8, x10, x11>>
    BY <1>1 DEF P!Upsert, P!screen, P!edited
  <2>2. /\ x9' \in ProfileCalls /\ x9'.op = "save" /\ x9'.submitted = x9.submitted
        /\ x9'.document = x9.document /\ x9'.is \in {"stored", "refused"} /\ (x9'.is = "stored" => x2' = x9'.document)
    BY <1>0, <2>1 DEF ProfileCalls
  <2>3. x2' \in P!ProfileUpdate \cup {Blank} /\ (x1 = "deleted" => x2' = Blank)
    BY <1>0, <2>1 DEF ProfileTypes, P!TypeOK, ProfileCalls, P!Writes, P!NoProfileOfTombstone
  <2>4. ProfileTypes'
    BY <1>0, <2>1, <2>2, <2>3 DEF ProfileTypes, P!TypeOK
  <2>5. ProfileTyped'
    BY <1>0, <2>1, <2>2 DEF ProfileTyped, P!KeystrokesAreKept
  <2>6. ProfileStored'
    BY <1>0, <2>1, <2>2 DEF ProfileStored, P!SavedIsStored
  <2> QED BY <2>1, <2>3, <2>4, <2>5, <2>6 DEF ProfileInv, P!NoProfileOfTombstone
<1>2. CASE P!FindProfile
  <2>1. /\ x9 # Blank /\ x9.op = "load" /\ x11' = FALSE
        /\ \E how \in {"stored", "refused"} : x9' = [x9 EXCEPT !.is = how, !.document = x2]
        /\ UNCHANGED <<x1, x2, x3, x4, x5, x6, x7, x8, x10>>
    BY <1>2 DEF P!FindProfile, P!screen, P!server
  <2>2. x9' \in ProfileCalls /\ x9'.op = "load"
    BY <1>0, <2>1 DEF ProfileTypes, P!TypeOK, ProfileCalls
  <2>3. ProfileTypes'
    BY <1>0, <2>1, <2>2 DEF ProfileTypes, P!TypeOK
  <2>4. ProfileTyped'
    BY <1>0, <2>1, <2>2 DEF ProfileTyped, P!KeystrokesAreKept
  <2>5. ProfileStored'
    BY <1>0, <2>1, <2>2 DEF ProfileStored, P!SavedIsStored
  <2> QED BY <1>0, <2>1, <2>3, <2>4, <2>5 DEF ProfileInv, P!NoProfileOfTombstone
<1>3. CASE P!CompletenessOf
  <2> DEFINE verdict == P!Complete(x9.document, x3)
  <2>1. /\ x9 # Blank /\ x9.is = "stored" /\ x9' = [x9 EXCEPT !.is = "answered", !.complete = verdict]
        /\ UNCHANGED <<x1, x2, x3, x4, x5, x6, x7, x8, x10, x11>>
    BY <1>3 DEF P!CompletenessOf, P!screen, P!server, P!edited
  <2>2. verdict \in BOOLEAN
    BY ProfileVerdict
  <2> HIDE DEF verdict
  <2>3. /\ x9' \in ProfileCalls /\ x9'.op = x9.op /\ x9'.submitted = x9.submitted
        /\ x9'.is = "answered" /\ x9'.document = x9.document /\ x9'.complete = verdict
    BY <1>0, <2>1, <2>2 DEF ProfileCalls
  <2>4. ProfileTypes'
    BY <1>0, <2>1, <2>3 DEF ProfileTypes, P!TypeOK
  <2>5. ProfileTyped'
    BY <1>0, <2>1, <2>3 DEF ProfileTyped, P!KeystrokesAreKept
  <2>6. ProfileStored'
    <3>1. x9.op = "save" /\ ~x11 => x2 = x9.document /\ verdict = P!Complete(x2, x3)
      BY <1>0, <2>1 DEF ProfileStored, verdict
    <3>2. P!Complete(x2, x3)' = P!Complete(x2, x3)
      BY <2>1 DEF P!Complete
    <3> QED BY <1>0, <2>1, <2>3, <3>1, <3>2 DEF ProfileStored, P!SavedIsStored
  <2> QED BY <1>0, <2>1, <2>4, <2>5, <2>6 DEF ProfileInv, P!NoProfileOfTombstone
<1>4. CASE P!LoseAnswer
  <2>1. /\ x9 # Blank /\ x9' = [x9 EXCEPT !.is = "refused"] /\ x11' = TRUE
        /\ x4' \in {x9.document, x4}
        /\ UNCHANGED <<x1, x2, x3, x5, x6, x7, x8, x10>>
    BY <1>4 DEF P!LoseAnswer, P!screen
  <2>2. x9' \in ProfileCalls /\ x9'.op = x9.op /\ x9'.submitted = x9.submitted /\ x9'.document = x9.document
        /\ x9'.is = "refused"
    BY <1>0, <2>1 DEF ProfileCalls
  <2>3. ProfileTypes'
    BY <1>0, <2>1, <2>2 DEF ProfileTypes, P!TypeOK, ProfileCalls
  <2>4. ProfileTyped'
    BY <1>0, <2>1, <2>2 DEF ProfileTyped, P!KeystrokesAreKept
  <2>5. ProfileStored'
    BY <1>0, <2>1, <2>2 DEF ProfileStored, P!SavedIsStored
  <2> QED BY <1>0, <2>1, <2>3, <2>4, <2>5 DEF ProfileInv, P!NoProfileOfTombstone
<1>5. ASSUME NEW d \in P!ProfileUpdate \cup {Blank}, P!SaveElsewhere(d) PROVE ProfileInv'
  <2>1. /\ x4' \in {Blank, x4} /\ x2' \in {d, x2} /\ (x2' # x2 => P!Writes(d)) /\ x11' = TRUE
        /\ UNCHANGED <<x1, x3, x5, x6, x7, x8, x9, x10>>
    BY <1>5 DEF P!SaveElsewhere, P!screen
  <2>2. /\ {x2', x4'} \subseteq P!ProfileUpdate \cup {Blank} /\ x3' \in BOOLEAN /\ x1' \in {x1, "deleted"}
        /\ (x1' = "deleted" => x2' = Blank) /\ x11' /\ x11' \in BOOLEAN
    BY <1>0, <2>1 DEF ProfileTypes, P!TypeOK, P!NoProfileOfTombstone, P!Writes
  <2> QED BY <2>1, <2>2, ProfileBehind
<1>6. CASE P!RestChanges \/ P!Erase
  <2>1. /\ x1' \in {x1, "deleted"} /\ x3' \in {x3, ~x3} /\ x2' \in {x2, Blank} /\ x4' = x4 /\ x11' = TRUE
        /\ (x1' # x1 => x2' = Blank) /\ UNCHANGED <<x5, x6, x7, x8, x9, x10>>
    BY <1>6 DEF P!RestChanges, P!Erase, P!screen
  <2>2. /\ {x2', x4'} \subseteq P!ProfileUpdate \cup {Blank} /\ x3' \in BOOLEAN
        /\ (x1' = "deleted" => x2' = Blank) /\ x11' /\ x11' \in BOOLEAN
    BY <1>0, <2>1 DEF ProfileTypes, P!TypeOK, P!NoProfileOfTombstone
  <2> QED BY <2>1, <2>2, ProfileBehind
<1>7. ASSUME NEW d \in P!ProfileUpdate, P!update(d) PROVE ProfileInv'
  <2>1. /\ x5 = "ready" /\ x6' = d /\ x10' = d /\ x8' = "none" /\ d # Blank
        /\ UNCHANGED <<x1, x2, x3, x4, x5, x7, x9, x11>>
    BY <1>7, ProfileValues DEF P!update, P!server
  <2>2. ProfileTypes'
    BY <1>0, <2>1 DEF ProfileTypes, P!TypeOK
  <2>3. ProfileTyped'
    BY <1>0, <2>1 DEF ProfileTyped, P!KeystrokesAreKept
  <2>4. ProfileStored'
    BY <1>0, <2>1 DEF ProfileStored, P!SavedIsStored, P!Complete
  <2> QED BY <1>0, <2>1, <2>2, <2>3, <2>4 DEF ProfileInv, P!NoProfileOfTombstone
<1>8. CASE P!save
  <2> DEFINE sent == P!Sent(x6)
  <2>1. /\ x5 = "ready" /\ x8' = "none" /\ x10' = Blank /\ x11' = (x4 # Blank)
        /\ x9' = [op |-> "save", is |-> "sent", document |-> sent, complete |-> FALSE, submitted |-> x10]
        /\ UNCHANGED <<x1, x2, x3, x4, x5, x6, x7>>
    BY <1>8 DEF P!save, P!Request, P!server
  <2>2. sent \in P!ProfileUpdate /\ sent # Blank
    <3>1. sent \in P!ProfileUpdate
      BY <1>0, ProfileSent DEF ProfileTypes, P!TypeOK
    <3> QED BY <3>1, ProfileValues
  <2> HIDE DEF sent
  <2>3. x9' \in ProfileCalls /\ x11' \in BOOLEAN
    BY <1>0, <2>1, <2>2 DEF ProfileTypes, P!TypeOK, ProfileCalls
  <2>4. ProfileTypes'
    BY <1>0, <2>1, <2>3 DEF ProfileTypes, P!TypeOK
  <2>5. ProfileTyped'
    BY <1>0, <2>1, <2>2 DEF ProfileTyped, P!KeystrokesAreKept
  <2>6. ProfileStored'
    BY <2>1 DEF ProfileStored, P!SavedIsStored
  <2> QED BY <1>0, <2>1, <2>4, <2>5, <2>6 DEF ProfileInv, P!NoProfileOfTombstone
<1>9. CASE P!Saved
  <2>1. /\ x9 # Blank /\ x9.op = "save" /\ x9.is = "answered"
        /\ x6' = (IF x10 = Blank THEN x9.document ELSE x6)
        /\ x7' = x9.complete /\ x8' = "saved" /\ x9' = Blank
        /\ UNCHANGED <<x1, x2, x3, x4, x5, x10, x11>>
    BY <1>9 DEF P!Saved, P!ReplacesDraft, P!server, P!edited
  <2>2. x9.document # Blank
    BY <1>0, <2>1 DEF ProfileTyped
  <2>3. ProfileTypes'
    BY <1>0, <2>1, <2>2 DEF ProfileTypes, P!TypeOK, ProfileCalls
  <2>4. ProfileTyped'
    BY <1>0, <2>1 DEF P!KeystrokesAreKept, ProfileTyped
  <2>5. ProfileStored'
    <3>1. x5 = "ready" /\ (~x11 => x2 = x9.document /\ x9.complete = P!Complete(x2, x3))
      BY <1>0, <2>1 DEF ProfileTyped, ProfileStored
    <3>2. P!Complete(x2, x3)' = P!Complete(x2, x3)
      BY <2>1 DEF P!Complete
    <3> QED BY <2>1, <3>1, <3>2 DEF ProfileStored, P!SavedIsStored
  <2> QED BY <1>0, <2>1, <2>3, <2>4, <2>5 DEF ProfileInv, P!NoProfileOfTombstone
<1>10. CASE P!NotSaved
  <2>1. /\ x9 # Blank /\ x9.op = "save" /\ x8' = "error" /\ x9' = Blank
        /\ x10' = (IF x10 = Blank THEN x9.submitted ELSE x10)
        /\ UNCHANGED <<x1, x2, x3, x4, x5, x6, x7, x11>>
    BY <1>10 DEF P!NotSaved, P!server
  <2>2. ProfileTypes'
    BY <1>0, <2>1 DEF ProfileTypes, P!TypeOK, ProfileCalls
  <2>3. ProfileTyped'
    BY <1>0, <2>1 DEF ProfileTyped, P!KeystrokesAreKept
  <2>4. ProfileStored'
    BY <2>1 DEF ProfileStored, P!SavedIsStored
  <2> QED BY <1>0, <2>1, <2>2, <2>3, <2>4 DEF ProfileInv, P!NoProfileOfTombstone
<1>11. CASE P!Loaded
  <2>1. /\ x9 # Blank /\ x9.op = "load" /\ x9' = Blank
        /\ \/ x5' = "error" /\ UNCHANGED <<x6, x7>>
           \/ /\ x5' = "ready" /\ x7' = x9.complete
              /\ x6' = IF x9.document = Blank THEN P!EMPTY_PROFILE ELSE x9.document
        /\ UNCHANGED <<x1, x2, x3, x4, x8, x10, x11>>
    BY <1>11 DEF P!Loaded, P!server, P!edited
  <2>2. x10 = Blank /\ x8 # "saved"
    BY <1>0, <2>1 DEF ProfileTyped, ProfileStored
  <2>3. ProfileTypes'
    BY <1>0, <2>1, ProfileValues DEF ProfileTypes, P!TypeOK, ProfileCalls
  <2>4. ProfileTyped'
    BY <2>1, <2>2 DEF ProfileTyped, P!KeystrokesAreKept
  <2>5. ProfileStored'
    BY <2>1, <2>2 DEF ProfileStored, P!SavedIsStored
  <2> QED BY <1>0, <2>1, <2>3, <2>4, <2>5 DEF ProfileInv, P!NoProfileOfTombstone
<1>12. CASE P!Retry
  <2>1. x5 = "error" /\ P!Load /\ UNCHANGED <<x4, x6, x7, x8>>
    BY <1>12 DEF P!Retry
  <2>2. /\ x4' \in P!ProfileUpdate \cup {Blank} /\ x6' \in P!ProfileUpdate /\ x7' \in BOOLEAN \cup {Blank}
        /\ x8' \in {"none", "error"}
    BY <1>0, <2>1 DEF ProfileTypes, P!TypeOK, ProfileStored
  <2> QED BY <2>1, <2>2, ProfileLoads
<1>13. CASE P!Reopen
  <2>1. /\ P!Load /\ x6' = P!EMPTY_PROFILE /\ x7' = Blank /\ x8' = "none"
        /\ \/ x9 # Blank /\ x4' = x9.document
           \/ x4' = x4
    BY <1>13 DEF P!Reopen
  <2>2. /\ x4' \in P!ProfileUpdate \cup {Blank} /\ x6' \in P!ProfileUpdate
    BY <1>0, <2>1, ProfileValues DEF ProfileTypes, P!TypeOK, ProfileCalls
  <2> QED BY <2>1, <2>2, ProfileLoads
<1>14. CASE UNCHANGED P!vars
  <2>1. UNCHANGED <<x1, x2, x3, x4, x5, x6, x7, x8, x9, x10, x11>>
    BY <1>14 DEF P!vars, P!server, P!screen, P!edited
  <2>2. P!Complete(x2, x3)' = P!Complete(x2, x3)
    BY <2>1 DEF P!Complete
  <2>3. ProfileTypes' /\ ProfileTyped'
    BY <1>0, <2>1 DEF ProfileTypes, P!TypeOK, ProfileTyped, P!KeystrokesAreKept
  <2>4. ProfileStored'
    BY <1>0, <2>1, <2>2 DEF ProfileStored, P!SavedIsStored
  <2> QED BY <1>0, <2>1, <2>3, <2>4 DEF ProfileInv, P!NoProfileOfTombstone
<1>15. x4 \in P!ProfileUpdate \cup {Blank} /\ [P!EMPTY_PROFILE EXCEPT !.name = "ok"] \in P!ProfileUpdate
  BY <1>0, ProfileValues DEF ProfileTypes, P!TypeOK
<1> QED
  BY <1>1, <1>2, <1>3, <1>4, <1>5, <1>6, <1>7, <1>8, <1>9, <1>10, <1>11, <1>12, <1>13, <1>14, <1>15 DEF P!Next

-----------------------------------------------------------------------------
(* Questions.  What the phone believes of an account was true when it was  *)
(* answered, and consents and the account's activation are never taken     *)
(* back; an answer on its way belongs to an account that gave both.        *)

QuestionsRows ==
  [agreed : SUBSET [kind : Q!Kinds, version : 1 .. Wordings],
   declared : SUBSET {"gender", "preferences"},
   pond : Pond \cup {Blank}, research : BOOLEAN, active : BOOLEAN]

QuestionsConsents == [op : {"terms", "privacy", "research"}, version : 1 .. Wordings]
QuestionsWrites == QuestionsConsents \cup [op : {"gender", "preferences"}] \cup [op : {"pond"}, pond : Pond]

\* A button writes one answer, or two consents.
QuestionsLeft == {<<w>> : w \in QuestionsWrites} \cup {<<v, w>> : v \in QuestionsConsents, w \in QuestionsConsents}

QuestionsSteps == [of : PhoneAccount, left : QuestionsLeft, live : BOOLEAN]

QuestionsReads ==
  [op : {"gate", "load", "step"}, of : PhoneAccount, is : {"sent", "answered", "lost"}, live : BOOLEAN,
   status : {Blank} \cup [is : {"ready"}, missing : SUBSET (Q!Kinds \cup {"gender", "preferences", "pond"}),
                          active : BOOLEAN, version : 1 .. Wordings, research : BOOLEAN]]

QuestionsTypes ==
  /\ x1 \in 1 .. Wordings /\ x2 \in 1 .. Wordings
  /\ x3 \in [PhoneAccount -> QuestionsRows]
  /\ x4 \in PhoneAccount \cup {Blank} /\ x5 \in {"home", "questions"}
  /\ x6 \in {"signed-out", "checking", "complete", "incomplete", "unknown"}
  /\ x7 \subseteq QuestionsReads /\ x8 \subseteq QuestionsSteps

QuestionsBoth(a) == \A k \in Q!Kinds : \E c \in x3[a].agreed : c.kind = k

\* What a status says of an account is so.
QuestionsHonest(status, a) ==
  /\ status.missing \cap Q!Kinds = {} => QuestionsBoth(a)
  /\ status.active => x3[a].active

QuestionsAgreed ==
  /\ Q!NothingBeforeConsent
  /\ \A s \in x8 : Head(s.left).op \in {"gender", "preferences", "pond"} => QuestionsBoth(s.of)
  /\ \A r \in x7 : r.is = "answered" => QuestionsHonest(r.status, r.of)
  /\ x5 = "questions" /\ x9.is = "ready" /\ x9.missing \cap Q!Kinds = {} => QuestionsBoth(x4)

QuestionsTheirs ==
  /\ Q!GateIsTheirs
  /\ x5 = "questions" => x4 # Blank
  /\ \A r \in x7 : r.live => r.of = x4

\* While the last tap counts, every pond on its way is that one.
QuestionsTapped ==
  x14 # Blank =>
    /\ x4 # Blank
    /\ \A s \in x8 : Head(s.left).op = "pond" => s.of = x4 /\ Head(s.left).pond = x14
    /\ (\A s \in x8 : Head(s.left).op # "pond") => x3[x4].pond = x14

QuestionsInv == QuestionsTypes /\ QuestionsAgreed /\ QuestionsTheirs /\ QuestionsTapped

LEMMA QuestionsInitInv == Q!QuestionsAssumption /\ Q!Init => QuestionsInv
<1> SUFFICES ASSUME Q!QuestionsAssumption, Q!Init PROVE QuestionsInv
  OBVIOUS
<1> DEFINE first == CHOOSE p \in Pond : TRUE
           old == [agreed |-> [kind : Q!Kinds, version : {1}], declared |-> {"gender", "preferences"},
                   pond |-> first, research |-> TRUE, active |-> TRUE]
           young == [agreed |-> {}, declared |-> {}, pond |-> Blank, research |-> FALSE, active |-> FALSE]
<1>1. /\ x1 = 1 /\ x2 = 1 /\ x4 = Blank /\ x5 = "home" /\ x6 = "signed-out" /\ x7 = {} /\ x8 = {}
      /\ x14 = Blank /\ x3 = [a \in PhoneAccount |-> IF a \in Finished THEN old ELSE young]
  BY DEF Q!Init
<1>2. 1 \in 1 .. Wordings /\ first \in Pond /\ Blank \notin PhoneAccount
  <2>1. first \in Pond
    BY DEF Q!QuestionsAssumption
  <2> QED BY <2>1 DEF Q!QuestionsAssumption
<1>3. old \in QuestionsRows /\ young \in QuestionsRows
  <2>1. [kind : Q!Kinds, version : {1}] \in SUBSET [kind : Q!Kinds, version : 1 .. Wordings]
    BY <1>2
  <2> HIDE DEF first
  <2> QED BY <1>2, <2>1 DEF QuestionsRows
<1>4. \A k \in Q!Kinds : \E c \in old.agreed : c.kind = k
  <2>1. \A k \in Q!Kinds : [kind |-> k, version |-> 1] \in old.agreed
    OBVIOUS
  <2> QED BY <2>1
<1>5. young.declared = {} /\ young.pond = Blank
  OBVIOUS
<1> HIDE DEF old, young
<1>6. QuestionsTypes
  <2>1. x3 \in [PhoneAccount -> QuestionsRows]
    BY <1>1, <1>3
  <2> QED BY <1>1, <1>2, <2>1 DEF QuestionsTypes
<1>7. Q!NothingBeforeConsent
  BY <1>1, <1>4, <1>5 DEF Q!NothingBeforeConsent
<1> QED BY <1>1, <1>6, <1>7 DEF QuestionsInv, QuestionsAgreed, QuestionsTheirs, QuestionsTapped, Q!GateIsTheirs

LEMMA QuestionsPromises ==
  ASSUME Q!QuestionsAssumption, QuestionsInv
  PROVE  Q!TypeOK /\ Q!NothingBeforeConsent /\ Q!GateIsTheirs /\ Q!LastPondStands
<1>1. Q!TypeOK
  BY DEF QuestionsInv, QuestionsTypes, QuestionsReads, QuestionsRows, Q!TypeOK
<1>2. Q!LastPondStands
  BY DEF QuestionsInv, QuestionsTapped, Q!LastPondStands
<1> QED BY <1>1, <1>2 DEF QuestionsInv, QuestionsAgreed, QuestionsTheirs

\* A request of the phone is one, and what nobody waits for is not waited for.
LEMMA QuestionsAsk ==
  ASSUME NEW op \in {"gate", "load", "step"}, x4 # Blank, QuestionsTypes
  PROVE  Q!Read(op) \in QuestionsReads /\ Q!Read(op).is = "sent" /\ Q!Read(op).of = x4
BY DEF QuestionsTypes, QuestionsReads, Q!Read

LEMMA QuestionsLeftAlone ==
  ASSUME NEW set, NEW y \in Q!Unmounted(set)
  PROVE  /\ set \subseteq QuestionsReads =>
              y \in QuestionsReads /\ ~y.live
              /\ \E r \in set : y.is = r.is /\ y.of = r.of /\ y.status = r.status
         /\ set \subseteq QuestionsSteps =>
              y \in QuestionsSteps /\ \E s \in set : y.of = s.of /\ y.left = s.left
<1>1. PICK x \in set : y = [x EXCEPT !.live = FALSE]
  BY DEF Q!Unmounted
<1>2. ASSUME set \subseteq QuestionsReads
      PROVE  y \in QuestionsReads /\ ~y.live /\ y.is = x.is /\ y.of = x.of /\ y.status = x.status
  BY <1>1, <1>2 DEF QuestionsReads
<1>3. ASSUME set \subseteq QuestionsSteps PROVE y \in QuestionsSteps /\ y.of = x.of /\ y.left = x.left
  BY <1>1, <1>3 DEF QuestionsSteps
<1> QED BY <1>2, <1>3

\* The screens move, answers are taken or lost, and the API keeps what it has.
LEMMA QuestionsMoves ==
  ASSUME QuestionsInv, UNCHANGED <<x3, x4, x14>>, x1' \in 1 .. Wordings, x2' = x2,
         x5' \in {"home", "questions"}, x6' \in {"checking", "complete", "incomplete", "unknown", x6},
         x8' = x8 \/ x8' = Q!Unmounted(x8),
         \A r \in x7' : /\ r \in QuestionsReads /\ (r.live => r.of = x4)
                        /\ r.is = "answered" =>
                             \E q \in x7 : q.is = "answered" /\ q.of = r.of /\ q.status = r.status,
         x6' # x6 => x4 # Blank,
         x6' = "complete" /\ x6' # x6 => x3[x4].active,
         x5' = "questions" =>
           x4 # Blank /\ (x9'.is = "ready" /\ x9'.missing \cap Q!Kinds = {} => QuestionsBoth(x4))
  PROVE  QuestionsInv'
<1>0. QuestionsTypes /\ QuestionsAgreed /\ QuestionsTheirs /\ QuestionsTapped
  BY DEF QuestionsInv
<1>1. \A y \in x8' : y \in QuestionsSteps /\ \E s \in x8 : y.of = s.of /\ y.left = s.left
  BY <1>0, QuestionsLeftAlone DEF QuestionsTypes
<1>2. \A s \in x8 : \E y \in x8' : y.of = s.of /\ y.left = s.left
  <2>1. CASE x8' = x8
    BY <2>1
  <2>2. CASE x8' = Q!Unmounted(x8)
    <3> TAKE s \in x8
    <3> DEFINE y == [s EXCEPT !.live = FALSE]
    <3>1. y \in x8'
      BY <2>2 DEF Q!Unmounted
    <3>2. y.of = s.of /\ y.left = s.left
      BY <1>0 DEF QuestionsTypes, QuestionsSteps
    <3> QED BY <3>1, <3>2
  <2> QED BY <2>1, <2>2
<1>3. QuestionsTypes'
  <2>1. x7' \subseteq QuestionsReads /\ x8' \subseteq QuestionsSteps
    BY <1>1
  <2> QED BY <1>0, <2>1 DEF QuestionsTypes
<1>4. QuestionsAgreed'
  <2>1. Q!NothingBeforeConsent'
    BY <1>0 DEF QuestionsAgreed, Q!NothingBeforeConsent
  <2>2. \A s \in x8' : Head(s.left).op \in {"gender", "preferences", "pond"} => QuestionsBoth(s.of)
    BY <1>0, <1>1 DEF QuestionsAgreed
  <2>3. \A r \in x7' : r.is = "answered" => QuestionsHonest(r.status, r.of)
    BY <1>0 DEF QuestionsAgreed
  <2> QED BY <2>1, <2>2, <2>3 DEF QuestionsAgreed, QuestionsBoth, QuestionsHonest
<1>5. QuestionsTheirs'
  <2>1. Q!GateIsTheirs'
    BY <1>0 DEF QuestionsTheirs, Q!GateIsTheirs
  <2> QED BY <2>1 DEF QuestionsTheirs
<1>6. QuestionsTapped'
  BY <1>0, <1>1, <1>2 DEF QuestionsTapped
<1> QED BY <1>3, <1>4, <1>5, <1>6 DEF QuestionsInv

\* A button that writes on its way to the account on the phone.
LEMMA QuestionsSends ==
  ASSUME QuestionsInv, x4 # Blank, NEW left \in QuestionsLeft, Q!step(left),
         Head(left).op \in {"gender", "preferences", "pond"} => QuestionsBoth(x4),
         \/ x14' = x14 /\ Head(left).op # "pond"
         \/ x14' = Blank
         \/ x8 = {} /\ Head(left).op = "pond" /\ x14' = Head(left).pond
  PROVE  QuestionsInv'
<1>0. QuestionsTypes /\ QuestionsAgreed /\ QuestionsTheirs /\ QuestionsTapped
  BY DEF QuestionsInv
<1> DEFINE new == [of |-> x4, left |-> left, live |-> TRUE]
<1>1. /\ x8' = x8 \cup {new} /\ UNCHANGED <<x1, x2, x3, x4, x5, x6, x7, x9>>
  BY DEF Q!step, Q!api
<1>2. new \in QuestionsSteps /\ new.of = x4 /\ new.left = left
  BY <1>0 DEF QuestionsTypes, QuestionsSteps
<1> HIDE DEF new
<1>3. QuestionsTypes'
  BY <1>0, <1>1, <1>2 DEF QuestionsTypes
<1>4. QuestionsAgreed'
  <2>1. Q!NothingBeforeConsent'
    BY <1>0, <1>1 DEF QuestionsAgreed, Q!NothingBeforeConsent
  <2>2. \A s \in x8' : Head(s.left).op \in {"gender", "preferences", "pond"} => QuestionsBoth(s.of)
    BY <1>0, <1>1, <1>2 DEF QuestionsAgreed
  <2>3. \A r \in x7' : r.is = "answered" => QuestionsHonest(r.status, r.of)
    BY <1>0, <1>1 DEF QuestionsAgreed
  <2>4. x5' = "questions" /\ x9'.is = "ready" /\ x9'.missing \cap Q!Kinds = {} => QuestionsBoth(x4)
    BY <1>0, <1>1 DEF QuestionsAgreed
  <2> QED BY <1>1, <2>1, <2>2, <2>3, <2>4 DEF QuestionsAgreed, QuestionsBoth, QuestionsHonest
<1>5. QuestionsTheirs'
  BY <1>0, <1>1 DEF QuestionsTheirs, Q!GateIsTheirs
<1>6. QuestionsTapped'
  BY <1>0, <1>1, <1>2 DEF QuestionsTapped
<1> QED BY <1>3, <1>4, <1>5, <1>6 DEF QuestionsInv

\* What is written of an account adds to it.
LEMMA QuestionsAdds ==
  ASSUME NEW row \in QuestionsRows, NEW w \in QuestionsWrites
  PROVE  /\ Q!Written(row, w) \in QuestionsRows
         /\ row.agreed \subseteq Q!Written(row, w).agreed
         /\ Q!Written(row, w).active = row.active
         /\ Q!Written(row, w).pond = (IF w.op = "pond" THEN w.pond ELSE row.pond)
         /\ w.op \notin {"gender", "preferences"} => Q!Written(row, w).declared = row.declared
<1>1. CASE w \in QuestionsConsents /\ w.op \in Q!Kinds
  <2> DEFINE agreed == row.agreed \cup {[kind |-> w.op, version |-> w.version]}
  <2>1. Q!Written(row, w) = [row EXCEPT !.agreed = agreed]
    <3>1. w.op \in Q!Kinds
      BY <1>1
    <3>2. Q!Written(row, w) =
            [row EXCEPT !.agreed = row.agreed \cup {[kind |-> w.op, version |-> w.version]}]
      BY <3>1, Zenon DEF Q!Written, Q!Kinds
    <3> QED BY <3>2, Zenon
  <2>2. agreed \in SUBSET [kind : Q!Kinds, version : 1 .. Wordings] /\ row.agreed \subseteq agreed
    BY <1>1 DEF QuestionsRows, QuestionsConsents
  <2> HIDE DEF agreed
  <2>3. [row EXCEPT !.agreed = agreed] \in QuestionsRows
        /\ [row EXCEPT !.agreed = agreed].agreed = agreed
        /\ [row EXCEPT !.agreed = agreed].active = row.active
        /\ [row EXCEPT !.agreed = agreed].pond = row.pond
        /\ [row EXCEPT !.agreed = agreed].declared = row.declared
    BY <2>2 DEF QuestionsRows
  <2>4. w.op # "pond"
    BY <1>1 DEF QuestionsConsents
  <2> QED BY <2>1, <2>2, <2>3, <2>4
<1>2. CASE w \in QuestionsConsents /\ w.op = "research"
  <2>1. Q!Written(row, w) = [row EXCEPT !.research = TRUE]
    BY <1>2 DEF Q!Written, Q!Kinds
  <2> QED BY <1>2, <2>1 DEF QuestionsRows
<1>3. CASE w \in [op : {"pond"}, pond : Pond]
  <2>1. Q!Written(row, w) = [row EXCEPT !.pond = w.pond]
    BY <1>3 DEF Q!Written, Q!Kinds
  <2> QED BY <1>3, <2>1 DEF QuestionsRows
<1>4. CASE w \in [op : {"gender", "preferences"}]
  <2> DEFINE declared == row.declared \cup {w.op}
  <2>1. Q!Written(row, w) = [row EXCEPT !.declared = declared]
    BY <1>4 DEF Q!Written, Q!Kinds
  <2>2. declared \in SUBSET {"gender", "preferences"}
    BY <1>4 DEF QuestionsRows
  <2> HIDE DEF declared
  <2> QED BY <1>4, <2>1, <2>2 DEF QuestionsRows
<1> QED BY <1>1, <1>2, <1>3, <1>4 DEF QuestionsWrites, QuestionsConsents, Q!Kinds

\* An account's row that gains, whoever it is, leaves what was true of them so.
LEMMA QuestionsGrows ==
  ASSUME QuestionsInv, NEW a \in PhoneAccount, NEW row \in QuestionsRows,
         x3' = [x3 EXCEPT ![a] = row], x3[a].agreed \subseteq row.agreed, x3[a].active => row.active,
         row.declared # {} \/ row.pond # Blank => QuestionsBoth(a)
  PROVE  /\ x3' \in [PhoneAccount -> QuestionsRows] /\ Q!NothingBeforeConsent'
         /\ \A b \in PhoneAccount :
              /\ QuestionsBoth(b) => QuestionsBoth(b)'
              /\ x3[b].active => x3'[b].active
              /\ \A status : QuestionsHonest(status, b) => QuestionsHonest(status, b)'
<1>1. x3 \in [PhoneAccount -> QuestionsRows] /\ Q!NothingBeforeConsent
  BY DEF QuestionsInv, QuestionsTypes, QuestionsAgreed
<1>2. /\ x3' \in [PhoneAccount -> QuestionsRows] /\ x3'[a] = row
      /\ \A b \in PhoneAccount : b # a => x3'[b] = x3[b]
  BY <1>1
<1>3. \A b \in PhoneAccount : /\ x3[b].agreed \subseteq x3'[b].agreed 
                              /\ x3[b].active => x3'[b].active
  BY <1>2
<1>4. \A b \in PhoneAccount : QuestionsBoth(b) => QuestionsBoth(b)'
  BY <1>3 DEF QuestionsBoth
<1>5. Q!NothingBeforeConsent'
  <2>1. \A b \in PhoneAccount : x3'[b].declared # {} \/ x3'[b].pond # Blank => QuestionsBoth(b)
    BY <1>1, <1>2 DEF Q!NothingBeforeConsent, QuestionsBoth
  <2> QED BY <1>4, <2>1 DEF Q!NothingBeforeConsent, QuestionsBoth
<1> QED BY <1>2, <1>3, <1>4, <1>5 DEF QuestionsHonest

LEMMA QuestionsServed ==
  ASSUME Q!QuestionsAssumption, QuestionsInv, NEW r \in x7, Q!ServeRead(r)
  PROVE  QuestionsInv'
<1>0. QuestionsTypes /\ QuestionsAgreed /\ QuestionsTheirs /\ QuestionsTapped
  BY DEF QuestionsInv
<1> DEFINE left == Q!missing(r.of)
           active == x3[r.of].active \/ left = {}
           status == [is |-> "ready", missing |-> left, active |-> active, version |-> x1,
                      research |-> x3[r.of].research]
           row == [x3[r.of] EXCEPT !.active = active]
           answer == [r EXCEPT !.is = "answered", !.status = status]
<1>1. /\ x3' = [x3 EXCEPT ![r.of] = row] /\ x7' = (x7 \ {r}) \cup {answer}
      /\ UNCHANGED <<x1, x2, x4, x5, x6, x8, x9, x14>>
  BY DEF Q!ServeRead, Q!screen
<1>2. r \in QuestionsReads /\ r.of \in PhoneAccount /\ x3[r.of] \in QuestionsRows /\ x1 \in 1 .. Wordings
  BY <1>0 DEF QuestionsTypes, QuestionsReads
<1>3. active \in BOOLEAN /\ (x3[r.of].active => active)
  BY Zenon
<1>4. left \in SUBSET (Q!Kinds \cup {"gender", "preferences", "pond"})
  BY DEF Q!missing
<1>5. left \cap Q!Kinds = {} => QuestionsBoth(r.of)
  <2> SUFFICES ASSUME left \cap Q!Kinds = {}, NEW k \in Q!Kinds PROVE \E c \in x3[r.of].agreed : c.kind = k
    BY DEF QuestionsBoth
  <2>1. k \notin left
    OBVIOUS
  <2>2. [kind |-> k, version |-> x1] \in x3[r.of].agreed
    BY <2>1 DEF Q!missing
  <2> QED BY <2>2
<1> HIDE DEF left, active
<1>6. /\ row \in QuestionsRows /\ row.agreed = x3[r.of].agreed /\ row.active = active
      /\ row.declared = x3[r.of].declared /\ row.pond = x3[r.of].pond
  BY <1>2, <1>3 DEF QuestionsRows
<1>7. /\ status.missing = left /\ status.active = active
      /\ status \in [is : {"ready"}, missing : SUBSET (Q!Kinds \cup {"gender", "preferences", "pond"}),
                     active : BOOLEAN, version : 1 .. Wordings, research : BOOLEAN]
  BY <1>2, <1>3, <1>4 DEF QuestionsRows
<1> HIDE DEF row, status
<1>8. /\ answer \in QuestionsReads /\ answer.of = r.of /\ answer.live = r.live /\ answer.status = status
  BY <1>2, <1>7 DEF QuestionsReads
<1> HIDE DEF answer
<1>p. PICK found, sent : found = status /\ sent = answer
  OBVIOUS
<1>9. row.declared # {} \/ row.pond # Blank => QuestionsBoth(r.of)
  BY <1>0, <1>2, <1>6 DEF QuestionsAgreed, Q!NothingBeforeConsent, QuestionsBoth
<1>10. /\ x3' \in [PhoneAccount -> QuestionsRows] /\ Q!NothingBeforeConsent'
       /\ \A b \in PhoneAccount :
            /\ QuestionsBoth(b) => QuestionsBoth(b)'
            /\ x3[b].active => x3'[b].active
            /\ \A s : QuestionsHonest(s, b) => QuestionsHonest(s, b)'
  BY <1>1, <1>2, <1>3, <1>6, <1>9, QuestionsGrows
<1>11. QuestionsTypes'
  BY <1>0, <1>1, <1>8, <1>10 DEF QuestionsTypes
<1>12. QuestionsAgreed'
  <2>1. \A s \in x8 : s.of \in PhoneAccount
    BY <1>0 DEF QuestionsTypes, QuestionsSteps
  <2>2. \A s \in x8' : Head(s.left).op \in {"gender", "preferences", "pond"} => QuestionsBoth(s.of)'
    BY <1>0, <1>1, <1>10, <2>1 DEF QuestionsAgreed
  <2>3. QuestionsHonest(found, r.of)'
    <3>1. x3'[r.of].active = active
      BY <1>0, <1>1, <1>2, <1>6 DEF QuestionsTypes
    <3>2. found.missing \cap Q!Kinds = {} => QuestionsBoth(r.of)'
      BY <1>2, <1>5, <1>7, <1>10, <1>p
    <3>3. found.active => x3'[r.of].active
      BY <1>7, <1>p, <3>1
    <3> QED BY <3>2, <3>3 DEF QuestionsHonest
  <2>4. \A q \in x7 : q.of \in PhoneAccount
    BY <1>0 DEF QuestionsTypes, QuestionsReads
  <2>5. ASSUME NEW q \in x7', q.is = "answered" PROVE QuestionsHonest(q.status, q.of)'
    <3>1. CASE q = sent
      <4>1. q.status = found /\ q.of = r.of
        BY <1>8, <1>p, <3>1
      <4> QED BY <2>3, <4>1
    <3>2. CASE q \in x7
      BY <1>0, <1>10, <2>4, <2>5, <3>2 DEF QuestionsAgreed
    <3> QED BY <1>1, <1>p, <2>5, <3>1, <3>2
  <2>6. x5' = "questions" /\ x9'.is = "ready" /\ x9'.missing \cap Q!Kinds = {} => QuestionsBoth(x4)'
    BY <1>0, <1>1, <1>10 DEF QuestionsAgreed, QuestionsTheirs, QuestionsTypes
  <2> QED BY <1>10, <2>2, <2>5, <2>6, <1>1 DEF QuestionsAgreed, QuestionsBoth
<1>13. QuestionsTheirs'
  <2>1. Q!GateIsTheirs'
    BY <1>0, <1>1, <1>10 DEF QuestionsTheirs, Q!GateIsTheirs, QuestionsTypes
  <2> QED BY <1>0, <1>1, <1>8, <2>1 DEF QuestionsTheirs
<1>14. QuestionsTapped'
  <2>1. \A b \in PhoneAccount : x3'[b].pond = x3[b].pond
    BY <1>0, <1>1, <1>2, <1>6 DEF QuestionsTypes
  <2> QED BY <1>0, <1>1, <2>1 DEF QuestionsTapped, QuestionsTypes
<1> QED BY <1>11, <1>12, <1>13, <1>14 DEF QuestionsInv

\* What a step has left to write, its first taken.
LEMMA QuestionsTail ==
  ASSUME NEW left \in QuestionsLeft
  PROVE  /\ Head(left) \in QuestionsWrites
         /\ Len(left) > 1 => Tail(left) \in QuestionsLeft /\ Head(Tail(left)) \in QuestionsConsents
                             /\ Head(left) \in QuestionsConsents
<1>1. CASE \E w \in QuestionsWrites : left = <<w>>
  <2> PICK w \in QuestionsWrites : left = <<w>>
    BY <1>1
  <2>1. Head(left) = w /\ Len(left) = 1
    OBVIOUS
  <2> QED BY <2>1
<1>2. CASE \E v \in QuestionsConsents, w \in QuestionsConsents : left = <<v, w>>
  <2> PICK v \in QuestionsConsents, w \in QuestionsConsents : left = <<v, w>>
    BY <1>2
  <2>1. Head(left) = v /\ Tail(left) = <<w>> /\ Head(<<w>>) = w
    OBVIOUS
  <2> QED BY <2>1 DEF QuestionsLeft, QuestionsWrites
<1> QED BY <1>1, <1>2 DEF QuestionsLeft

\* A step that is written, or of which one request is, and what then is under way.
LEMMA QuestionsWritten ==
  ASSUME Q!QuestionsAssumption, QuestionsInv, NEW s \in x8,
         x3' = [x3 EXCEPT ![s.of] = Q!Written(x3[s.of], Head(s.left))],
         UNCHANGED <<x1, x2, x4, x5, x6, x9>>,
         \/ x8' = x8 \ {s} /\ UNCHANGED x7
         \/ s.of = x4 /\ x8' = x8 \ {s} /\ x7' = x7 \cup {[Q!Read("step") EXCEPT !.live = s.live]}
         \/ s.of = x4 /\ Len(s.left) > 1 /\ x7' = x7
            /\ x8' = (x8 \ {s}) \cup {[s EXCEPT !.left = Tail(s.left)]},
         x14' = Blank \/ (x14' = x14 /\ s.of = x4)
  PROVE  QuestionsInv'
<1>0. QuestionsTypes /\ QuestionsAgreed /\ QuestionsTheirs /\ QuestionsTapped
  BY DEF QuestionsInv
<1> DEFINE w == Head(s.left)
           row == Q!Written(x3[s.of], w)
<1>1. s \in QuestionsSteps /\ s.of \in PhoneAccount /\ s.left \in QuestionsLeft /\ x3[s.of] \in QuestionsRows
  BY <1>0 DEF QuestionsTypes, QuestionsSteps
<1>2. /\ w \in QuestionsWrites
      /\ Len(s.left) > 1 => Tail(s.left) \in QuestionsLeft /\ Head(Tail(s.left)) \in QuestionsConsents
                            /\ w \in QuestionsConsents
  BY <1>1, QuestionsTail
<1>3. x3' = [x3 EXCEPT ![s.of] = row]
  OBVIOUS
<1>4. /\ row \in QuestionsRows /\ x3[s.of].agreed \subseteq row.agreed /\ row.active = x3[s.of].active
      /\ row.pond = (IF w.op = "pond" THEN w.pond ELSE x3[s.of].pond)
      /\ w.op \notin {"gender", "preferences"} => row.declared = x3[s.of].declared
  BY <1>1, <1>2, QuestionsAdds
<1>5. w.op \in {"gender", "preferences", "pond"} => QuestionsBoth(s.of)
  BY <1>0 DEF QuestionsAgreed
<1> HIDE DEF w, row
<1>6. row.declared # {} \/ row.pond # Blank => QuestionsBoth(s.of)
  <2>1. x3[s.of].declared # {} \/ x3[s.of].pond # Blank => QuestionsBoth(s.of)
    BY <1>0, <1>1 DEF QuestionsAgreed, Q!NothingBeforeConsent, QuestionsBoth
  <2> QED BY <1>4, <1>5, <2>1
<1>7. /\ x3' \in [PhoneAccount -> QuestionsRows] /\ Q!NothingBeforeConsent'
      /\ \A b \in PhoneAccount :
           /\ QuestionsBoth(b) => QuestionsBoth(b)'
           /\ x3[b].active => x3'[b].active
           /\ \A status : QuestionsHonest(status, b) => QuestionsHonest(status, b)'
  <2>p. PICK a, new : a = s.of /\ new = row
    OBVIOUS
  <2>1. /\ a \in PhoneAccount /\ new \in QuestionsRows /\ x3' = [x3 EXCEPT ![a] = new]
        /\ x3[a].agreed \subseteq new.agreed /\ (x3[a].active => new.active)
    BY <1>1, <1>3, <1>4, <2>p
  <2>2. new.declared # {} \/ new.pond # Blank => QuestionsBoth(a)
    BY <1>6, <2>p
  <2> QED BY <2>1, <2>2, QuestionsGrows
<1>8. \A r \in x7' : /\ r \in QuestionsReads
                     /\ r.is = "answered" => r \in x7
                     /\ r.live => r.of = x4
  <2>1. ASSUME s.of = x4
        PROVE  LET new == [Q!Read("step") EXCEPT !.live = s.live]
               IN  new \in QuestionsReads /\ new.is = "sent" /\ new.of = x4
    BY <1>1, <2>1 DEF Q!Read, QuestionsReads, QuestionsSteps
  <2>2. \A r \in x7 : r \in QuestionsReads /\ (r.live => r.of = x4)
    BY <1>0 DEF QuestionsTypes, QuestionsTheirs
  <2> QED BY <2>1, <2>2
<1>9. \A t \in x8' : /\ t \in QuestionsSteps
                     /\ \/ t \in x8 /\ t # s
                        \/ t.of = s.of /\ Head(t.left).op \in {"terms", "privacy", "research"}
  <2>1. ASSUME Len(s.left) > 1
        PROVE  LET t == [s EXCEPT !.left = Tail(s.left)]
               IN  t \in QuestionsSteps /\ t.of = s.of /\ t.left = Tail(s.left)
    BY <1>1, <1>2, <2>1 DEF QuestionsSteps
  <2>2. \A t \in x8 : t \in QuestionsSteps
    BY <1>0 DEF QuestionsTypes
  <2>3. \A v \in QuestionsConsents : v.op \in {"terms", "privacy", "research"}
    BY DEF QuestionsConsents
  <2> SUFFICES ASSUME NEW t \in x8'
               PROVE  /\ t \in QuestionsSteps
                      /\ \/ t \in x8 /\ t # s
                         \/ t.of = s.of /\ Head(t.left).op \in {"terms", "privacy", "research"}
    BY Zenon
  <2>4. CASE t \in x8 /\ t # s
    BY <2>2, <2>4
  <2>5. CASE Len(s.left) > 1 /\ t = [s EXCEPT !.left = Tail(s.left)]
    <3>1. t \in QuestionsSteps /\ t.of = s.of /\ t.left = Tail(s.left)
      BY <2>1, <2>5, Zenon
    <3>2. Head(Tail(s.left)) \in QuestionsConsents
      BY <1>2, <2>5
    <3> QED BY <2>3, <3>1, <3>2
  <2> QED BY <2>4, <2>5
<1>10. QuestionsTypes'
  BY <1>0, <1>7, <1>8, <1>9 DEF QuestionsTypes
<1>11. QuestionsAgreed'
  <2>1. \A t \in x8' : Head(t.left).op \in {"gender", "preferences", "pond"} => QuestionsBoth(t.of)'
    BY <1>0, <1>7, <1>9 DEF QuestionsAgreed, QuestionsSteps
  <2>2. \A r \in x7' : r.is = "answered" => QuestionsHonest(r.status, r.of)'
    BY <1>0, <1>7, <1>8 DEF QuestionsAgreed, QuestionsReads
  <2>3. x5' = "questions" /\ x9'.is = "ready" /\ x9'.missing \cap Q!Kinds = {} => QuestionsBoth(x4)'
    BY <1>0, <1>7 DEF QuestionsAgreed, QuestionsTheirs, QuestionsTypes
  <2> QED BY <1>7, <2>1, <2>2, <2>3 DEF QuestionsAgreed, QuestionsBoth
<1>12. QuestionsTheirs'
  <2>1. Q!GateIsTheirs'
    BY <1>0, <1>7 DEF QuestionsTheirs, Q!GateIsTheirs, QuestionsTypes
  <2> QED BY <1>0, <1>8, <2>1 DEF QuestionsTheirs
<1>13. QuestionsTapped'
  <2> SUFFICES ASSUME x14' # Blank PROVE QuestionsTapped'
    BY DEF QuestionsTapped
  <2>1. x14' = x14 /\ s.of = x4 /\ x4 # Blank /\ x4' = x4
    BY <1>0 DEF QuestionsTapped
  <2>2. \A t \in x8' : Head(t.left).op = "pond" => t.of = x4 /\ Head(t.left).pond = x14
    BY <1>0, <1>9, <2>1 DEF QuestionsTapped
  <2>3. x3'[x4].pond = row.pond
    BY <1>0, <1>1, <1>3, <2>1 DEF QuestionsTypes
  <2>4. w.op = "pond" => row.pond = x14
    BY <1>0, <1>4, <2>1 DEF QuestionsTapped, w
  <2>5. ASSUME w.op # "pond", \A t \in x8' : Head(t.left).op # "pond" PROVE row.pond = x14
    <3>1. \A t \in x8 : t = s \/ t \in x8'
      OBVIOUS
    <3>2. \A t \in x8 : Head(t.left).op # "pond"
      BY <2>5, <3>1 DEF w
    <3> QED BY <1>0, <1>4, <2>1, <2>5, <3>2 DEF QuestionsTapped
  <2> QED BY <2>1, <2>2, <2>3, <2>4, <2>5 DEF QuestionsTapped
<1> QED BY <1>10, <1>11, <1>12, <1>13 DEF QuestionsInv

\* The buttons, on a screen that shows what it was answered.
LEMMA QuestionsButtons ==
  ASSUME Q!QuestionsAssumption, QuestionsInv,
         \/ Q!AcceptBoth \/ Q!Declare \/ Q!SavePreferences \/ Q!SayYes
         \/ \E p \in Pond : Q!ChoosePond(p)
  PROVE  QuestionsInv'
<1>0. QuestionsTypes /\ QuestionsAgreed /\ QuestionsTheirs
  BY DEF QuestionsInv
<1>1. ASSUME NEW question, Q!Asks(question)
      PROVE  /\ x4 # Blank /\ (question # "consents" => QuestionsBoth(x4))
  <2>1. x5 = "questions" /\ x9.is = "ready"
    BY <1>1 DEF Q!Asks, Q!Shown
  <2>2. question # "consents" => x9.missing \cap Q!Kinds = {}
    BY <1>1 DEF Q!Asks, Q!nextStep
  <2> QED BY <1>0, <2>1, <2>2 DEF QuestionsAgreed, QuestionsTheirs
<1>2. \A op \in {"terms", "privacy", "research"} :
        Q!Consent(op) \in QuestionsConsents /\ Q!Consent(op).op = op
  BY <1>0 DEF Q!Consent, QuestionsConsents, QuestionsTypes
<1>3. \A op \in {"gender", "preferences"} : [op |-> op] \in QuestionsWrites
  BY DEF QuestionsWrites
<1>4. CASE Q!AcceptBoth
  <2> DEFINE left == <<Q!Consent("terms"), Q!Consent("privacy")>>
  <2>1. left \in QuestionsLeft /\ Head(left).op = "terms"
    BY <1>2 DEF QuestionsLeft
  <2>2. x4 # Blank /\ Q!step(left) /\ x14' = x14
    BY <1>1, <1>4 DEF Q!AcceptBoth
  <2> HIDE DEF left
  <2> QED BY <2>1, <2>2, QuestionsSends
<1>5. CASE Q!Declare
  <2> DEFINE left == <<[op |-> "gender"]>>
  <2>1. left \in QuestionsLeft /\ Head(left).op = "gender"
    BY <1>3 DEF QuestionsLeft
  <2>2. x4 # Blank /\ Q!step(left) /\ x14' = x14 /\ QuestionsBoth(x4)
    BY <1>1, <1>5 DEF Q!Declare
  <2> HIDE DEF left
  <2> QED BY <2>1, <2>2, QuestionsSends
<1>6. CASE Q!SavePreferences
  <2> DEFINE left == <<[op |-> "preferences"]>>
  <2>1. left \in QuestionsLeft /\ Head(left).op = "preferences"
    BY <1>3 DEF QuestionsLeft
  <2>2. x4 # Blank /\ Q!step(left) /\ x14' = x14 /\ QuestionsBoth(x4)
    BY <1>1, <1>6 DEF Q!SavePreferences
  <2> HIDE DEF left
  <2> QED BY <2>1, <2>2, QuestionsSends
<1>7. CASE Q!SayYes
  <2> DEFINE left == <<Q!Consent("research")>>
  <2>1. left \in QuestionsLeft /\ Head(left).op = "research"
    BY <1>2 DEF QuestionsLeft, QuestionsWrites
  <2>2. x4 # Blank /\ Q!step(left) /\ x14' = x14
    BY <1>1, <1>7 DEF Q!SayYes
  <2> HIDE DEF left
  <2> QED BY <2>1, <2>2, QuestionsSends
<1>8. ASSUME NEW p \in Pond, Q!ChoosePond(p) PROVE QuestionsInv'
  <2> DEFINE left == <<[op |-> "pond", pond |-> p]>>
  <2>1. left \in QuestionsLeft /\ Head(left).op = "pond" /\ Head(left).pond = p
    BY DEF QuestionsLeft, QuestionsWrites
  <2>2. x4 # Blank /\ Q!step(left) /\ x14' = (IF x8 = {} THEN p ELSE Blank) /\ QuestionsBoth(x4)
    BY <1>1, <1>8 DEF Q!ChoosePond
  <2> HIDE DEF left
  <2> QED BY <2>1, <2>2, QuestionsSends
<1> QED BY <1>4, <1>5, <1>6, <1>7, <1>8

\* What is under way once everyone has left, and what replaces it.
LEMMA QuestionsLeaves ==
  ASSUME QuestionsInv, x4 # Blank, NEW others \in SUBSET x7, NEW op \in {"gate", "load", "step"},
         x7' = Q!Unmounted(others) \cup {Q!Read(op)}
  PROVE  \A r \in x7' : /\ r \in QuestionsReads /\ (r.live => r.of = x4)
                        /\ r.is = "answered" =>
                             \E q \in x7 : q.is = "answered" /\ q.of = r.of /\ q.status = r.status
<1>1. QuestionsTypes /\ x7 \subseteq QuestionsReads
  BY DEF QuestionsInv, QuestionsTypes
<1>2. /\ Q!Read(op) \in QuestionsReads /\ Q!Read(op).is = "sent" /\ Q!Read(op).of = x4
  BY <1>1, QuestionsAsk
<1>3. \A r \in Q!Unmounted(others) :
        r \in QuestionsReads /\ ~r.live /\ \E q \in others : r.is = q.is /\ r.of = q.of /\ r.status = q.status
  BY <1>1, QuestionsLeftAlone
<1> QED BY <1>2, <1>3

\* The screens.
LEMMA QuestionsAnswers ==
  ASSUME Q!QuestionsAssumption, QuestionsInv,
         \/ \E r \in x7 : Q!GateAnswered(r) \/ Q!ScreenAnswered(r)
         \/ Q!GateRetry \/ Q!NotNow
  PROVE  QuestionsInv'
<1>0. QuestionsTypes /\ QuestionsAgreed /\ QuestionsTheirs
  BY DEF QuestionsInv
<1>1. \A r \in x7 : /\ r \in QuestionsReads /\ (r.live => r.of = x4 /\ x4 # Blank)
                    /\ r.is = "answered" => QuestionsHonest(r.status, r.of)
  <2>1. Blank \notin PhoneAccount
    BY DEF Q!QuestionsAssumption
  <2> QED BY <1>0, <2>1 DEF QuestionsTypes, QuestionsAgreed, QuestionsTheirs, QuestionsReads
<1>2. x5 = "questions" =>
        x4 # Blank /\ (x9.is = "ready" /\ x9.missing \cap Q!Kinds = {} => QuestionsBoth(x4))
  BY <1>0 DEF QuestionsAgreed, QuestionsTheirs
<1>3. x1' = x1 => x1' \in 1 .. Wordings
  BY <1>0 DEF QuestionsTypes
<1>4. ASSUME NEW others \in SUBSET x7, Q!GoHome(others), x4 # Blank, UNCHANGED <<x1, x2, x3, x4, x14>>
      PROVE  QuestionsInv'
  <2>1. /\ x5' = "home" /\ x6' = "checking" /\ x8' = Q!Unmounted(x8)
        /\ x7' = Q!Unmounted(others) \cup {Q!Read("gate")}
    BY <1>4 DEF Q!GoHome
  <2>2. \A r \in x7' : /\ r \in QuestionsReads /\ (r.live => r.of = x4)
                       /\ r.is = "answered" =>
                            \E q \in x7 : q.is = "answered" /\ q.of = r.of /\ q.status = r.status
    BY <1>4, <2>1, QuestionsLeaves
  <2> QED BY <1>3, <1>4, <2>1, <2>2, QuestionsMoves
<1>5. ASSUME NEW status, NEW offered, NEW r, Q!Show(status, offered, r), UNCHANGED <<x1, x2, x3, x4, x14>>, x4 # Blank,
             status.is = "ready" /\ status.missing \cap Q!Kinds = {} => QuestionsBoth(x4), x5 = "questions"
      PROVE  QuestionsInv'
  <2>1. CASE Q!GoHome(x7 \ {r})
    BY <1>4, <1>5, <2>1
  <2>2. CASE x7' = x7 \ {r} /\ UNCHANGED <<x5, x6, x8>> /\ x9' = status
    BY <1>1, <1>3, <1>5, <2>2, QuestionsMoves
  <2> QED BY <1>5, <2>1, <2>2 DEF Q!Show
<1>6. ASSUME NEW r \in x7, Q!GateAnswered(r) PROVE QuestionsInv'
  <2>1. r.live /\ r.of = x4 /\ x4 # Blank /\ UNCHANGED <<x1, x2, x3, x4, x14>>
    BY <1>1, <1>6 DEF Q!GateAnswered, Q!Taken, Q!api
  <2>2. CASE Q!GoToQuestions(x7 \ {r})
    <3>1. /\ x5' = "questions" /\ x6' = "incomplete" /\ x8' = Q!Unmounted(x8) /\ x9' = [is |-> "loading"]
          /\ x7' = Q!Unmounted(x7 \ {r}) \cup {Q!Read("load")}
      BY <2>2 DEF Q!GoToQuestions
    <3>2. \A q \in x7' : /\ q \in QuestionsReads /\ (q.live => q.of = x4)
                         /\ q.is = "answered" =>
                              \E p \in x7 : p.is = "answered" /\ p.of = q.of /\ p.status = q.status
      BY <2>1, <3>1, QuestionsLeaves
    <3>3. x9'.is # "ready"
      BY <3>1
    <3> QED BY <1>3, <2>1, <3>1, <3>2, <3>3, QuestionsMoves
  <2>3. CASE ~Q!GoToQuestions(x7 \ {r})
    <3>1. /\ x7' = x7 \ {r} /\ UNCHANGED <<x5, x8, x9>>
          /\ x6' \in {"unknown", "complete"}
          /\ x6' = "complete" => r.is = "answered" /\ r.status.active
      <4>1. r.is # "sent" /\ r.is \in {"sent", "answered", "lost"}
        BY <1>1, <1>6 DEF Q!GateAnswered, QuestionsReads
      <4> QED BY <1>6, <2>3, <4>1 DEF Q!GateAnswered, Q!screen
    <3>2. x6' = "complete" => x3[x4].active
      BY <1>1, <2>1, <3>1 DEF QuestionsHonest
    <3>3. \A q \in x7' : /\ q \in QuestionsReads /\ (q.live => q.of = x4)
                         /\ q.is = "answered" =>
                              \E p \in x7 : p.is = "answered" /\ p.of = q.of /\ p.status = q.status
      BY <1>1, <3>1
    <3>4. x5' \in {"home", "questions"}
      BY <1>0, <3>1 DEF QuestionsTypes
    <3> QED BY <1>2, <1>3, <2>1, <3>1, <3>2, <3>3, <3>4, QuestionsMoves
  <2> QED BY <2>2, <2>3
<1>7. ASSUME NEW r \in x7, Q!ScreenAnswered(r) PROVE QuestionsInv'
  <2>1. r.live /\ r.of = x4 /\ x4 # Blank /\ UNCHANGED <<x1, x2, x3, x4, x14>> /\ r.is \in {"answered", "lost"}
    BY <1>1, <1>7 DEF Q!ScreenAnswered, Q!api, QuestionsReads
  <2>2. CASE r.is = "lost"
    <3>1. x9' = [is |-> "error"] /\ x7' = x7 \ {r} /\ UNCHANGED <<x5, x6, x8>>
      BY <1>7, <2>2 DEF Q!ScreenAnswered
    <3>2. x9'.is # "ready"
      BY <3>1
    <3>3. x5' \in {"home", "questions"}
      BY <1>0, <3>1 DEF QuestionsTypes
    <3> QED BY <1>1, <1>3, <2>1, <3>1, <3>2, <3>3, QuestionsMoves
  <2>3. CASE r.is = "answered"
    <3>1. Q!Show(r.status, x10, r)
      BY <1>7, <2>3 DEF Q!ScreenAnswered
    <3>2. r.status.missing \cap Q!Kinds = {} => QuestionsBoth(x4)
      BY <1>1, <2>1, <2>3 DEF QuestionsHonest
    <3>3. CASE x5 = "questions"
      BY <1>5, <2>1, <3>1, <3>2, <3>3
    <3>4. CASE x5 # "questions" /\ Q!GoHome(x7 \ {r})
      BY <1>4, <2>1, <3>4
    <3>5. CASE x5 # "questions" /\ x7' = x7 \ {r} /\ UNCHANGED <<x5, x6, x8>>
      <4>1. x5' \in {"home", "questions"}
        BY <1>0, <3>5 DEF QuestionsTypes
      <4> QED BY <1>1, <1>3, <2>1, <3>5, <4>1, QuestionsMoves
    <3> QED BY <3>1, <3>3, <3>4, <3>5 DEF Q!Show
  <2> QED BY <2>1, <2>2, <2>3
<1>8. CASE Q!GateRetry
  <2>1. x6 = "unknown" /\ Q!GoHome(x7) /\ UNCHANGED <<x1, x2, x3, x4, x14>>
    BY <1>8 DEF Q!GateRetry, Q!api
  <2>2. x4 # Blank
    BY <1>0, <2>1 DEF QuestionsTheirs, Q!GateIsTheirs
  <2> QED BY <1>4, <2>1, <2>2
<1>9. CASE Q!NotNow
  <2>1. /\ x5 = "questions" /\ Q!Show(x9, TRUE, Blank) /\ UNCHANGED <<x1, x2, x3, x4, x14>>
    BY <1>9 DEF Q!NotNow, Q!Asks, Q!Shown, Q!api
  <2> QED BY <1>2, <1>5, <2>1
<1> QED BY <1>6, <1>7, <1>8, <1>9

LEMMA QuestionsNextInv == Q!QuestionsAssumption /\ QuestionsInv /\ [Q!Next]_(Q!vars) => QuestionsInv'
<1> SUFFICES ASSUME Q!QuestionsAssumption, QuestionsInv, [Q!Next]_(Q!vars) PROVE QuestionsInv'
  OBVIOUS
<1>0. QuestionsTypes /\ QuestionsAgreed /\ QuestionsTheirs /\ QuestionsTapped
  BY DEF QuestionsInv
<1>t. /\ Blank \notin PhoneAccount /\ x1 \in 1 .. Wordings /\ x5 \in {"home", "questions"}
      /\ x7 \subseteq QuestionsReads
  BY <1>0 DEF QuestionsTypes, Q!QuestionsAssumption
<1>w. x5 = "questions" =>
        x4 # Blank /\ (x9.is = "ready" /\ x9.missing \cap Q!Kinds = {} => QuestionsBoth(x4))
  BY <1>0 DEF QuestionsAgreed, QuestionsTheirs
<1>r. \A r \in x7 : r \in QuestionsReads /\ (r.live => r.of = x4)
  BY <1>0 DEF QuestionsTypes, QuestionsTheirs
<1>1. ASSUME NEW r \in x7, Q!LoseRead(r) PROVE QuestionsInv'
  <2> DEFINE lost == [r EXCEPT !.is = "lost"]
  <2>1. x7' = (x7 \ {r}) \cup {lost} /\ UNCHANGED <<x1, x2, x3, x4, x5, x6, x8, x9, x14>>
    BY <1>1 DEF Q!LoseRead, Q!api, Q!screen
  <2>2. lost \in QuestionsReads /\ lost.is = "lost" /\ lost.live = r.live /\ lost.of = r.of
    BY <1>r DEF QuestionsReads
  <2> HIDE DEF lost
  <2>3. \A q \in x7' : /\ q \in QuestionsReads /\ (q.live => q.of = x4)
                       /\ q.is = "answered" =>
                            \E p \in x7 : p.is = "answered" /\ p.of = q.of /\ p.status = q.status
    BY <1>r, <2>1, <2>2
  <2> QED BY <1>t, <1>w, <2>1, <2>3, QuestionsMoves
<1>2. ASSUME NEW r \in x7, Q!Dropped(r) PROVE QuestionsInv'
  <2>1. x7' = x7 \ {r} /\ UNCHANGED <<x1, x2, x3, x4, x5, x6, x8, x9, x14>>
    BY <1>2 DEF Q!Dropped, Q!api, Q!screen
  <2>2. \A q \in x7' : /\ q \in QuestionsReads /\ (q.live => q.of = x4)
                       /\ q.is = "answered" =>
                            \E p \in x7 : p.is = "answered" /\ p.of = q.of /\ p.status = q.status
    BY <1>r, <2>1
  <2> QED BY <1>t, <1>w, <2>1, <2>2, QuestionsMoves
<1>3. CASE Q!ScreenRetry
  <2>1. x5 = "questions" /\ x7' = x7 \cup {Q!Read("load")} /\ UNCHANGED <<x1, x2, x3, x4, x5, x6, x8, x9, x14>>
    BY <1>3 DEF Q!ScreenRetry, Q!api, Q!screen
  <2>2. /\ Q!Read("load") \in QuestionsReads /\ Q!Read("load").is = "sent" /\ Q!Read("load").of = x4
    BY <1>0, <1>w, <2>1, QuestionsAsk
  <2>3. \A q \in x7' : /\ q \in QuestionsReads /\ (q.live => q.of = x4)
                       /\ q.is = "answered" =>
                            \E p \in x7 : p.is = "answered" /\ p.of = q.of /\ p.status = q.status
    BY <1>r, <2>1, <2>2
  <2> QED BY <1>t, <1>w, <2>1, <2>3, QuestionsMoves
<1>4. CASE Q!ChooseSeeks \/ Q!NewWording \/ UNCHANGED Q!vars
  <2>1. x1' \in 1 .. Wordings /\ UNCHANGED <<x2, x3, x4, x5, x6, x7, x8, x9, x14>>
    <3>1. CASE Q!ChooseSeeks \/ UNCHANGED Q!vars
      BY <1>t, <3>1 DEF Q!ChooseSeeks, Q!vars, Q!api, Q!screen
    <3>2. CASE Q!NewWording
      <4>1. /\ x1 < Wordings /\ x1' = x1 + 1 /\ UNCHANGED <<x2, x3, x4, x5, x6, x7, x8, x9, x14>>
        BY <3>2 DEF Q!NewWording, Q!screen
      <4>2. x1 + 1 \in 1 .. Wordings
        BY <1>t, <4>1 DEF Q!QuestionsAssumption
      <4> QED BY <4>1, <4>2
    <3> QED BY <1>4, <3>1, <3>2
  <2> QED BY <1>t, <1>r, <1>w, <2>1, QuestionsMoves
<1>5. ASSUME NEW s \in x8, Q!StepGoesOn(s) PROVE QuestionsInv'
  <2>1. /\ s.of = x4 /\ x3' = [x3 EXCEPT ![s.of] = Q!Written(x3[s.of], Head(s.left))]
        /\ UNCHANGED <<x1, x2, x4, x5, x6, x9, x14>>
        /\ \/ x8' = x8 \ {s} /\ x7' = x7 \cup {[Q!Read("step") EXCEPT !.live = s.live]}
           \/ Len(s.left) > 1 /\ x7' = x7 /\ x8' = (x8 \ {s}) \cup {[s EXCEPT !.left = Tail(s.left)]}
    BY <1>5 DEF Q!StepGoesOn, Q!Takes
  <2> QED BY <2>1, QuestionsWritten
<1>6. ASSUME NEW s \in x8, Q!StepFails(s) PROVE QuestionsInv'
  <2>1. /\ x8' = x8 \ {s} /\ x14' = Blank /\ UNCHANGED <<x1, x2, x4, x5, x6, x7, x9>>
        /\ \/ x3' = x3
           \/ x3' = [x3 EXCEPT ![s.of] = Q!Written(x3[s.of], Head(s.left))]
    BY <1>6 DEF Q!StepFails
  <2>2. CASE x3' = x3
    <3>1. QuestionsTypes'
      BY <1>0, <2>1, <2>2 DEF QuestionsTypes
    <3>2. QuestionsAgreed'
      BY <1>0, <2>1, <2>2 DEF QuestionsAgreed, Q!NothingBeforeConsent, QuestionsBoth, QuestionsHonest
    <3>3. QuestionsTheirs' /\ QuestionsTapped'
      BY <1>0, <2>1, <2>2 DEF QuestionsTheirs, Q!GateIsTheirs, QuestionsTapped
    <3> QED BY <3>1, <3>2, <3>3 DEF QuestionsInv
  <2>3. CASE x3' = [x3 EXCEPT ![s.of] = Q!Written(x3[s.of], Head(s.left))]
    <3>1. /\ UNCHANGED <<x1, x2, x4, x5, x6, x9>> /\ x8' = x8 \ {s} /\ UNCHANGED x7 /\ x14' = Blank
          /\ x3' = [x3 EXCEPT ![s.of] = Q!Written(x3[s.of], Head(s.left))]
      BY <2>1, <2>3
    <3> QED BY <3>1, QuestionsWritten
  <2> QED BY <2>1, <2>2, <2>3
<1>7. ASSUME NEW a \in PhoneAccount, Q!SignIn(a) PROVE QuestionsInv'
  <2> DEFINE new == [Q!Read("gate") EXCEPT !.of = a]
  <2>1. /\ x4 = Blank /\ x4' = a /\ x6' = "checking" /\ x7' = x7 \cup {new}
        /\ UNCHANGED <<x1, x2, x3, x5, x8, x9, x14>>
    BY <1>7 DEF Q!SignIn, Q!api, Q!screen
  <2>2. new \in QuestionsReads /\ new.is = "sent" /\ new.of = a
    BY DEF Q!Read, QuestionsReads
  <2> HIDE DEF new
  <2>3. \A r \in x7 : ~r.live
    BY <1>r, <1>t, <2>1 DEF QuestionsReads
  <2>4. x5 = "home" /\ x14 = Blank
    BY <1>0, <1>t, <2>1 DEF QuestionsTheirs, QuestionsTapped
  <2>5. QuestionsTypes'
    BY <1>0, <2>1, <2>2 DEF QuestionsTypes
  <2>6. QuestionsAgreed'
    BY <1>0, <2>1, <2>2, <2>4 DEF QuestionsAgreed, Q!NothingBeforeConsent, QuestionsBoth, QuestionsHonest
  <2>7. QuestionsTheirs' /\ QuestionsTapped'
    BY <1>0, <1>t, <2>1, <2>2, <2>3, <2>4 DEF QuestionsTheirs, Q!GateIsTheirs, QuestionsTapped
  <2> QED BY <2>5, <2>6, <2>7 DEF QuestionsInv
<1>8. CASE Q!SignOut
  <2>1. /\ x5 = "home" /\ x4' = Blank /\ x6' = "signed-out" /\ x7' = Q!Unmounted(x7) /\ x14' = Blank
        /\ UNCHANGED <<x1, x2, x3, x5, x8, x9>>
    BY <1>8 DEF Q!SignOut, Q!api, Q!screen
  <2>2. \A y \in x7' : /\ y \in QuestionsReads /\ ~y.live
                       /\ \E r \in x7 : y.is = r.is /\ y.of = r.of /\ y.status = r.status
    BY <1>t, <2>1, QuestionsLeftAlone
  <2>3. QuestionsTypes'
    BY <1>0, <2>1, <2>2 DEF QuestionsTypes
  <2>4. QuestionsAgreed'
    BY <1>0, <2>1, <2>2 DEF QuestionsAgreed, Q!NothingBeforeConsent, QuestionsBoth, QuestionsHonest
  <2>5. QuestionsTheirs' /\ QuestionsTapped'
    BY <1>0, <1>t, <2>1, <2>2 DEF QuestionsTheirs, Q!GateIsTheirs, QuestionsTapped
  <2> QED BY <2>3, <2>4, <2>5 DEF QuestionsInv
<1>9. CASE Q!UpdateApp
  <2>1. /\ x2 < Wordings /\ x2' = x2 + 1 /\ x5' = "home" /\ x8' = {} /\ x14' = Blank
        /\ x7' = (IF x4 = Blank THEN {} ELSE {Q!Read("gate")})
        /\ x6' = (IF x4 = Blank THEN "signed-out" ELSE "checking")
        /\ UNCHANGED <<x1, x3, x4, x9>>
    BY <1>9 DEF Q!UpdateApp, Q!api
  <2>2. x2' \in 1 .. Wordings
    BY <1>0, <2>1 DEF QuestionsTypes, Q!QuestionsAssumption
  <2>3. \A r \in x7' : r \in QuestionsReads /\ r.is = "sent" /\ r.of = x4
    BY <1>0, <2>1, QuestionsAsk
  <2>4. QuestionsTypes'
    BY <1>0, <2>1, <2>2, <2>3 DEF QuestionsTypes
  <2>5. QuestionsAgreed'
    BY <1>0, <2>1, <2>3 DEF QuestionsAgreed, Q!NothingBeforeConsent, QuestionsBoth, QuestionsHonest
  <2>6. QuestionsTheirs' /\ QuestionsTapped'
    BY <1>0, <2>1, <2>3 DEF QuestionsTheirs, Q!GateIsTheirs, QuestionsTapped
  <2> QED BY <2>4, <2>5, <2>6 DEF QuestionsInv
<1> QED BY <1>1, <1>2, <1>3, <1>4, <1>5, <1>6, <1>7, <1>8, <1>9,
           QuestionsServed, QuestionsButtons, QuestionsAnswers DEF Q!Next

-----------------------------------------------------------------------------
(* Settings.  A choice is kept from the tap until it is in the store, and  *)
(* a start of the app reads what the last choice has left there, unless    *)
(* one was written out of order, or not at all.                            *)

SettingsLanguages == {"system", M!PSEUDO_LOCALE} \cup M!Range(LOCALES)

SettingsStored == {Blank, M!PSEUDO_LOCALE} \cup M!Range(LOCALES)
SettingsReads(values) == [at : {"asked", "answered", "done"}, value : values]

SettingsTypes ==
  /\ x1 \in {"production", "staging", "dev"} /\ x2 \in [languages : Phones, contrast : BOOLEAN]
  /\ x3 \in SettingsStored
  /\ x5 \in SettingsReads(SettingsStored)
  /\ x6 \in Seq(SettingsStored)
  /\ x8 \in [read : SettingsReads(BOOLEAN \cup {Blank}), system : BOOLEAN, chosen : BOOLEAN \cup {Blank}]
  /\ x9 \in {Blank} \cup [language : SettingsLanguages, run : BOOLEAN]
  /\ x10 \subseteq {"late read", "late contrast", "unordered", "failed"}
  /\ x11 \in 0 .. SettingsMoves

\* What is shown is offered, and so is what was chosen.
SettingsOffered ==
  /\ x4 \in {"system"} \cup M!OFFERED_LOCALES
  /\ x9 # Blank => x9.language \in {"system"} \cup M!OFFERED_LOCALES

SettingsWritten(language) == IF language = "system" THEN Blank ELSE language

SettingsChosen ==
  x9 # Blank =>
    /\ x5.at = "done" /\ "late read" \notin x10 /\ "failed" \notin x10 => x4 = x9.language
    /\ "unordered" \notin x10 /\ "failed" \notin x10 =>
         \/ x6 = <<>> /\ x3 = SettingsWritten(x9.language)
         \/ Len(x6) = 1 /\ x6[1] = SettingsWritten(x9.language)
    /\ ~x9.run =>
         /\ x6 = <<>> /\ "unordered" \notin x10 /\ "late read" \notin x10
         /\ x3 = SettingsWritten(x9.language)
         /\ x5.at # "done" => x4 = "system"
         /\ x5.at = "answered" /\ "failed" \notin x10 => x5.value = x3

SettingsFollow ==
  /\ x8.read = M!Done /\ "late contrast" \notin x10 => x8.system = x2.contrast
  /\ x8.read.at = "answered" => x8.read.value \in BOOLEAN
  /\ x7.native = x7.preference

SettingsInv == SettingsTypes /\ SettingsOffered /\ SettingsChosen /\ SettingsFollow

\* A set of numbers has a least one.
LEMMA ScreensLeast ==
  ASSUME NEW ns, ns \subseteq Nat, ns # {}
  PROVE  \E m \in ns : \A n \in ns : m <= n
<1> DEFINE less == OpToRel(<, Nat)
<1>1. IsWellFoundedOn(less, Nat)
  BY NatLessThanWellFounded
<1>2. less = {ss \in Nat \X Nat : ss[1] < ss[2]}
  BY DEF OpToRel
<1> HIDE DEF less
<1>3. \E m \in ns : \A n \in ns : <<n, m>> \notin less
  BY <1>1, WFMin
<1>4. PICK m \in ns : \A n \in ns : <<n, m>> \notin less
  BY <1>3
<1>5. ASSUME NEW n \in ns PROVE m <= n
  <2>1. n \in Nat /\ m \in Nat /\ <<n, m>> \in Nat \X Nat /\ <<n, m>>[1] = n /\ <<n, m>>[2] = m
    OBVIOUS
  <2>2. ~(n < m)
    BY <1>2, <1>4, <2>1
  <2> QED BY <2>1, <2>2
<1> QED BY <1>5

\* Whatever the phone prefers, the language it comes to is served.
LEMMA SettingsResolves ==
  ASSUME M!SettingsAssumption, NEW allowed \in Seq(STRING), allowed # <<>>, NEW preferences \in Seq(STRING)
  PROVE  M!resolveLocale(preferences, allowed) \in M!Range(allowed)
<1> DEFINE known == {i \in DOMAIN preferences : preferences[i] \in M!Range(allowed)}
<1>1. CASE known # {}
  <2>1. known \subseteq Nat
    OBVIOUS
  <2>2. PICK m \in known : \A n \in known : m <= n
    BY <1>1, <2>1, ScreensLeast
  <2> DEFINE first == CHOOSE i \in known : \A j \in known : i <= j
  <2>3. first \in known
    BY <2>2
  <2>4. M!resolveLocale(preferences, allowed) = preferences[first]
    BY <1>1 DEF M!resolveLocale
  <2> QED BY <2>3, <2>4
<1>2. CASE known = {}
  <2>1. Head(allowed) \in M!Range(allowed)
    <3>1. 1 \in DOMAIN allowed /\ Head(allowed) = allowed[1]
      OBVIOUS
    <3> QED BY <3>1 DEF M!Range
  <2> QED BY <1>2, <2>1 DEF M!resolveLocale
<1> QED BY <1>1, <1>2

\* What is offered is among the languages, and is none of the marks.
LEMMA SettingsServed ==
  ASSUME M!SettingsAssumption
  PROVE  /\ M!SERVED_LOCALES \in Seq(STRING) /\ M!SERVED_LOCALES # <<>>
         /\ M!Range(M!SERVED_LOCALES) \subseteq M!OFFERED_LOCALES
         /\ M!OFFERED_LOCALES \subseteq {M!PSEUDO_LOCALE} \cup M!Range(LOCALES)
         /\ Blank \notin M!OFFERED_LOCALES /\ Blank # "system"
         /\ \A l \in {"system"} \cup M!OFFERED_LOCALES :
              l \in SettingsLanguages /\ SettingsWritten(l) \in SettingsStored
<1>1. M!SERVED_LOCALES \in Seq(STRING) /\ M!SERVED_LOCALES # <<>>
  BY DEF M!SettingsAssumption, M!SERVED_LOCALES
<1>2. M!Range(M!SERVED_LOCALES) \subseteq M!OFFERED_LOCALES
  BY DEF M!OFFERED_LOCALES
<1>3. M!OFFERED_LOCALES \subseteq {M!PSEUDO_LOCALE} \cup M!Range(LOCALES)
  BY DEF M!SettingsAssumption, M!OFFERED_LOCALES, M!SERVED_LOCALES
<1>5. Blank \notin M!OFFERED_LOCALES /\ Blank # "system"
  BY <1>3 DEF M!SettingsAssumption
<1>6. \A l \in {"system"} \cup M!OFFERED_LOCALES :
        l \in SettingsLanguages /\ SettingsWritten(l) \in SettingsStored
  BY <1>3 DEF SettingsLanguages, SettingsWritten, SettingsStored
<1> QED BY <1>1, <1>2, <1>3, <1>5, <1>6

\* A write that is through, or fails, is out of the queue.
LEMMA SettingsOneLess ==
  ASSUME NEW values, NEW q \in Seq(values), NEW i \in DOMAIN q
  PROVE  /\ q[i] \in values /\ M!Others(q, i) \in Seq(values) /\ q # <<>>
         /\ Len(q) = 1 => M!Others(q, i) = <<>> /\ q[i] = q[1]
<1>1. i \in 1 .. Len(q) /\ Len(q) \in Nat
  OBVIOUS
<1>2. SubSeq(q, 1, i - 1) \in Seq(values) /\ SubSeq(q, i + 1, Len(q)) \in Seq(values)
  BY <1>1
<1>3. M!Others(q, i) \in Seq(values)
  BY <1>2 DEF M!Others
<1>4. ASSUME Len(q) = 1 PROVE M!Others(q, i) = <<>> /\ q[i] = q[1]
  <2>1. i = 1
    BY <1>1, <1>4
  <2> QED BY <1>4, <2>1 DEF M!Others
<1> QED BY <1>1, <1>3, <1>4

LEMMA SettingsOneMore ==
  ASSUME NEW values, NEW q \in Seq(values), NEW v \in values
  PROVE  Append(q, v) \in Seq(values) /\ (q = <<>> => Len(Append(q, v)) = 1 /\ Append(q, v)[1] = v)
OBVIOUS

LEMMA SettingsInitInv == M!SettingsAssumption /\ M!Init => SettingsInv
<1> SUFFICES ASSUME M!SettingsAssumption, M!Init PROVE SettingsInv
  OBVIOUS
<1>1. /\ x1 \in {"production", "staging", "dev"} /\ x2 \in [languages : Phones, contrast : BOOLEAN]
      /\ x3 \in {Blank} \cup M!Range(LOCALES) /\ x4 = "system" /\ x5 = [at |-> "asked", value |-> Blank]
      /\ x6 = <<>> /\ x7 = [preference |-> "system", native |-> "system"]
      /\ x8 = [read |-> [at |-> "asked", value |-> Blank], system |-> FALSE, chosen |-> Blank]
      /\ x9 = Blank /\ x10 = {} /\ x11 = 0
  BY DEF M!Init, M!Asked, M!Read
<1>2. SettingsTypes
  <2>1. x5 \in SettingsReads(SettingsStored)
    BY <1>1 DEF SettingsReads, SettingsStored
  <2>2. x8 \in [read : SettingsReads(BOOLEAN \cup {Blank}), system : BOOLEAN, chosen : BOOLEAN \cup {Blank}]
    BY <1>1 DEF SettingsReads
  <2>3. x6 \in Seq(SettingsStored) /\ x11 \in 0 .. SettingsMoves
    BY <1>1 DEF M!SettingsAssumption
  <2> QED BY <1>1, <2>1, <2>2, <2>3 DEF SettingsTypes, SettingsStored
<1>3. SettingsOffered /\ SettingsChosen
  BY <1>1 DEF SettingsOffered, SettingsChosen
<1>4. SettingsFollow
  BY <1>1 DEF SettingsFollow, M!Done, M!Read
<1> QED BY <1>2, <1>3, <1>4 DEF SettingsInv

LEMMA SettingsPromises ==
  ASSUME M!SettingsAssumption, SettingsInv
  PROVE  M!TypeOK /\ M!OnlyServedIsShown /\ M!ChoiceStands /\ M!FollowsThePhone
<1>0. SettingsTypes /\ SettingsOffered /\ SettingsChosen /\ SettingsFollow
  BY DEF SettingsInv
<1>1. M!TypeOK
  <2>1. x4 \in SettingsLanguages
    BY <1>0, SettingsServed DEF SettingsOffered
  <2> QED BY <1>0, <2>1 DEF SettingsTypes, SettingsStored, SettingsLanguages, M!TypeOK
<1>2. M!OnlyServedIsShown
  <2>1. CASE x4 = "system"
    <3>1. x2.languages \in Seq(STRING)
      BY <1>0 DEF SettingsTypes, M!SettingsAssumption
    <3>2. M!deviceLocale \in M!Range(M!SERVED_LOCALES)
      BY <3>1, SettingsServed, SettingsResolves DEF M!deviceLocale
    <3> QED BY <2>1, <3>2, SettingsServed DEF M!OnlyServedIsShown, M!effective
  <2>2. CASE x4 # "system"
    BY <1>0, <2>2 DEF SettingsOffered, M!OnlyServedIsShown, M!effective
  <2> QED BY <2>1, <2>2
<1>3. M!ChoiceStands
  <2> SUFFICES ASSUME x9 # Blank
               PROVE  /\ x5 = M!Done /\ x10 \cap {"late read", "failed"} = {} => x4 = x9.language
                      /\ x6 = <<>> /\ x10 \cap {"unordered", "failed"} = {} =>
                           x3 = IF x9.language = "system" THEN Blank ELSE x9.language
    BY DEF M!ChoiceStands
  <2>1. x5 = M!Done => x5.at = "done"
    BY DEF M!Done, M!Read
  <2>2. Len(<<>>) = 0
    OBVIOUS
  <2>3. ASSUME x10 \cap {"late read", "failed"} = {} PROVE "late read" \notin x10 /\ "failed" \notin x10
    BY <2>3
  <2>4. ASSUME x10 \cap {"unordered", "failed"} = {} PROVE "unordered" \notin x10 /\ "failed" \notin x10
    BY <2>4
  <2>5. /\ x5.at = "done" /\ "late read" \notin x10 /\ "failed" \notin x10 => x4 = x9.language
        /\ "unordered" \notin x10 /\ "failed" \notin x10 =>
              \/ x6 = <<>> /\ x3 = SettingsWritten(x9.language)
              \/ Len(x6) = 1 /\ x6[1] = SettingsWritten(x9.language)
    BY <1>0 DEF SettingsChosen
  <2>6. ASSUME x5 = M!Done, x10 \cap {"late read", "failed"} = {} PROVE x4 = x9.language
    BY <2>1, <2>3, <2>5, <2>6
  <2>7. ASSUME x6 = <<>>, x10 \cap {"unordered", "failed"} = {} PROVE x3 = SettingsWritten(x9.language)
    <3>1. Len(x6) # 1
      BY <2>2, <2>7
    <3>2. "unordered" \notin x10 /\ "failed" \notin x10
      BY <2>4, <2>7
    <3> QED BY <2>5, <3>1, <3>2
  <2> QED BY <2>6, <2>7 DEF SettingsWritten
<1>4. M!FollowsThePhone
  BY <1>0 DEF SettingsFollow, M!FollowsThePhone, M!highContrast
<1> QED BY <1>1, <1>2, <1>3, <1>4

LEMMA SettingsNextInv == M!SettingsAssumption /\ SettingsInv /\ [M!Next]_(M!vars) => SettingsInv'
<1> SUFFICES ASSUME M!SettingsAssumption, SettingsInv, [M!Next]_(M!vars) PROVE SettingsInv'
  OBVIOUS
<1>0. SettingsTypes /\ SettingsOffered /\ SettingsChosen /\ SettingsFollow
  BY DEF SettingsInv
<1>m. ASSUME M!Moves PROVE x11' \in 0 .. SettingsMoves
  <2>1. x11 \in 0 .. SettingsMoves /\ SettingsMoves \in Nat
    BY <1>0 DEF SettingsTypes, M!SettingsAssumption
  <2>2. x11 < SettingsMoves /\ x11' = x11 + 1
    BY <1>m DEF M!Moves
  <2> QED BY <2>1, <2>2
<1>o. x1' = x1 => M!OFFERED_LOCALES' = M!OFFERED_LOCALES
  BY DEF M!OFFERED_LOCALES, M!SERVED_LOCALES
<1>q. x6 \in Seq(SettingsStored)
  BY <1>0 DEF SettingsTypes
<1>1. CASE M!ReadStore
  <2>1. /\ x5.at = "asked" /\ x5' = [at |-> "answered", value |-> x3]
        /\ UNCHANGED <<x1, x2, x3, x4, x6, x7, x8, x9, x10, x11>>
    BY <1>1 DEF M!ReadStore, M!Asked, M!Read
  <2>2. x5' \in SettingsReads(SettingsStored)
    BY <1>0, <2>1 DEF SettingsTypes, SettingsReads
  <2>3. SettingsTypes'
    BY <1>0, <2>1, <2>2 DEF SettingsTypes
  <2>5. SettingsOffered'
    BY <1>0, <1>o, <2>1, <2>2 DEF SettingsOffered
  <2>6. SettingsFollow'
    BY <1>0, <2>1, <2>2 DEF SettingsFollow, M!Done, M!Read
  <2>4. SettingsChosen'
    BY <1>0, <2>1 DEF SettingsChosen
  <2> QED BY <2>3, <2>4, <2>5, <2>6 DEF SettingsInv
<1>2. CASE M!FailRead
  <2>1. /\ x5.at = "asked" /\ x5' = [at |-> "answered", value |-> Blank] /\ x10' = x10 \cup {"failed"}
        /\ UNCHANGED <<x1, x2, x3, x4, x6, x7, x8, x9>> /\ x11' \in 0 .. SettingsMoves
    BY <1>2, <1>m DEF M!FailRead, M!Asked, M!Read
  <2>2. x5' \in SettingsReads(SettingsStored)
    BY <2>1 DEF SettingsStored, SettingsReads
  <2>3. SettingsTypes'
    BY <1>0, <2>1, <2>2 DEF SettingsTypes
  <2>4. SettingsChosen'
    BY <1>0, <2>1 DEF SettingsChosen
  <2>5. SettingsOffered'
    BY <1>0, <1>o, <2>1 DEF SettingsOffered
  <2>6. SettingsFollow'
    BY <1>0, <2>1 DEF SettingsFollow, M!Done, M!Read
  <2> QED BY <2>3, <2>4, <2>5, <2>6 DEF SettingsInv
<1>3. CASE M!ShowStored
  <2>1. /\ x5.at = "answered" /\ x5' = [at |-> "done", value |-> Blank]
        /\ x4' = (IF x5.value \in M!OFFERED_LOCALES THEN x5.value ELSE x4)
        /\ x10' = IF x9 # Blank /\ x9.run /\ x4' # x9.language THEN x10 \cup {"late read"} ELSE x10
        /\ UNCHANGED <<x1, x2, x3, x6, x7, x8, x9, x11>>
    BY <1>3 DEF M!ShowStored, M!Done, M!Read, M!isOffered
  <2>2. SettingsTypes'
    <3>1. x5' \in SettingsReads(SettingsStored)
      BY <2>1 DEF SettingsStored, SettingsReads
    <3> QED BY <1>0, <2>1, <3>1 DEF SettingsTypes
  <2>3. SettingsOffered'
    BY <1>0, <1>o, <2>1 DEF SettingsOffered
  <2>4. SettingsChosen'
    <3> SUFFICES ASSUME x9 # Blank PROVE SettingsChosen'
      BY <2>1 DEF SettingsChosen
    <3>1. CASE x9.run
      BY <1>0, <2>1, <3>1 DEF SettingsChosen
    <3>2. CASE ~x9.run
      <4>1. "failed" \notin x10 => x4' = x9.language
        <5>1. SUFFICES ASSUME "failed" \notin x10 PROVE x4' = x9.language
          OBVIOUS
        <5>2. x5.value = SettingsWritten(x9.language) /\ x4 = "system"
          BY <1>0, <2>1, <3>2, <5>1 DEF SettingsChosen
        <5>3. x9.language \in {"system"} \cup M!OFFERED_LOCALES
          BY <1>0 DEF SettingsOffered
        <5> QED BY <2>1, <5>2, <5>3, SettingsServed DEF SettingsWritten
      <4>2. x10' = x10
        BY <2>1, <3>2
      <4> QED BY <1>0, <2>1, <3>2, <4>1, <4>2 DEF SettingsChosen
    <3> QED BY <3>1, <3>2
  <2>5. SettingsFollow'
    BY <1>0, <2>1 DEF SettingsFollow, M!Done, M!Read
  <2> QED BY <2>2, <2>3, <2>4, <2>5 DEF SettingsInv
<1>4. ASSUME NEW lang \in {"system"} \cup M!OFFERED_LOCALES, M!setLanguage(lang) PROVE SettingsInv'
  <2>1. /\ x4' = lang /\ x9' = [language |-> lang, run |-> TRUE]
        /\ x6' = Append(x6, SettingsWritten(lang))
        /\ x10' = IF x6 # <<>> THEN x10 \cup {"unordered"} ELSE x10
        /\ x11' \in 0 .. SettingsMoves
        /\ UNCHANGED <<x1, x2, x3, x5, x7, x8>>
    BY <1>4, <1>m DEF M!setLanguage, SettingsWritten
  <2>2. lang \in SettingsLanguages /\ SettingsWritten(lang) \in SettingsStored
    BY SettingsServed
  <2>3. x6' \in Seq(SettingsStored) /\ (x6 = <<>> => Len(x6') = 1 /\ x6'[1] = SettingsWritten(lang))
    BY <1>q, <2>1, <2>2, SettingsOneMore
  <2>4. SettingsTypes'
    BY <1>0, <2>1, <2>2, <2>3 DEF SettingsTypes
  <2>5. SettingsOffered'
    BY <1>0, <1>o, <2>1 DEF SettingsOffered
  <2>6. SettingsChosen'
    BY <2>1, <2>3 DEF SettingsChosen
  <2>7. SettingsFollow'
    BY <1>0, <2>1 DEF SettingsFollow, M!Done, M!Read
  <2> QED BY <2>4, <2>5, <2>6, <2>7 DEF SettingsInv
<1>5. ASSUME NEW i \in DOMAIN x6, M!writePreference(i) PROVE SettingsInv'
  <2>1. /\ x3' = x6[i] /\ x6' = M!Others(x6, i)
        /\ UNCHANGED <<x1, x2, x4, x5, x7, x8, x9, x10, x11>>
    BY <1>5 DEF M!writePreference
  <2>2. x3' \in SettingsStored /\ x6' \in Seq(SettingsStored)
        /\ (Len(x6) = 1 => x6' = <<>> /\ x3' = x6[1]) /\ x6 # <<>>
    BY <1>q, <2>1, SettingsOneLess
  <2>3. SettingsTypes'
    BY <1>0, <2>1, <2>2 DEF SettingsTypes
  <2>5. SettingsOffered'
    BY <1>0, <1>o, <2>1, <2>2 DEF SettingsOffered
  <2>6. SettingsFollow'
    BY <1>0, <2>1, <2>2 DEF SettingsFollow, M!Done, M!Read
  <2>4. SettingsChosen'
    BY <1>0, <2>1, <2>2 DEF SettingsChosen
  <2> QED BY <2>3, <2>4, <2>5, <2>6 DEF SettingsInv
<1>6. ASSUME NEW i \in DOMAIN x6, M!FailWrite(i) PROVE SettingsInv'
  <2>1. /\ x6' = M!Others(x6, i) /\ x10' = x10 \cup {"failed"} /\ x11' \in 0 .. SettingsMoves
        /\ UNCHANGED <<x1, x2, x3, x4, x5, x7, x8, x9>>
    BY <1>6, <1>m DEF M!FailWrite
  <2>2. x6' \in Seq(SettingsStored) /\ x6 # <<>>
    BY <1>q, <2>1, SettingsOneLess
  <2>3. SettingsTypes'
    BY <1>0, <2>1, <2>2 DEF SettingsTypes
  <2>5. SettingsOffered'
    BY <1>0, <1>o, <2>1, <2>2 DEF SettingsOffered
  <2>6. SettingsFollow'
    BY <1>0, <2>1, <2>2 DEF SettingsFollow, M!Done, M!Read
  <2>4. SettingsChosen'
    BY <1>0, <2>1, <2>2 DEF SettingsChosen
  <2> QED BY <2>3, <2>4, <2>5, <2>6 DEF SettingsInv
<1>7. ASSUME NEW scheme \in {"system", "light", "dark"}, M!setScheme(scheme) PROVE SettingsInv'
  <2>1. /\ x7' = [preference |-> scheme, native |-> scheme] /\ x11' \in 0 .. SettingsMoves
        /\ UNCHANGED <<x1, x2, x3, x4, x5, x6, x8, x9, x10>>
    BY <1>7, <1>m DEF M!setScheme
  <2>2. SettingsTypes'
    BY <1>0, <2>1 DEF SettingsTypes
  <2>3. SettingsOffered'
    BY <1>0, <1>o, <2>1 DEF SettingsOffered
  <2>4. SettingsFollow'
    BY <1>0, <2>1 DEF SettingsFollow, M!Done, M!Read
  <2>5. SettingsChosen'
    BY <1>0, <2>1 DEF SettingsChosen
  <2> QED BY <2>2, <2>3, <2>4, <2>5 DEF SettingsInv
<1>8. ASSUME x8' \in [read : SettingsReads(BOOLEAN \cup {Blank}), system : BOOLEAN, chosen : BOOLEAN \cup {Blank}],
             x2' \in [languages : Phones, contrast : BOOLEAN],
             x8'.read = M!Done /\ "late contrast" \notin x10' => x8'.system = x2'.contrast,
             x8'.read.at = "answered" => x8'.read.value \in BOOLEAN,
             x10' \in {x10, x10 \cup {"late contrast"}}, x11' \in 0 .. SettingsMoves,
             UNCHANGED <<x1, x3, x4, x5, x6, x7, x9>>
      PROVE  SettingsInv'
  <2>1. SettingsTypes' /\ SettingsOffered'
    BY <1>0, <1>o, <1>8 DEF SettingsTypes, SettingsOffered
  <2>2. SettingsChosen'
    <3>1. \A mark \in {"late read", "unordered", "failed"} : mark \in x10' <=> mark \in x10
      BY <1>8
    <3>2. UNCHANGED <<x3, x4, x5, x6, x9>>
      BY <1>8
    <3> HIDE <1>8
    <3> QED BY <1>0, <3>1, <3>2 DEF SettingsChosen
  <2>3. SettingsFollow'
    BY <1>0, <1>8 DEF SettingsFollow, M!Done, M!Read
  <2> QED BY <2>1, <2>2, <2>3 DEF SettingsInv
<1>t. /\ x8 \in [read : SettingsReads(BOOLEAN \cup {Blank}), system : BOOLEAN, chosen : BOOLEAN \cup {Blank}]
      /\ x2 \in [languages : Phones, contrast : BOOLEAN] /\ x11 \in 0 .. SettingsMoves
      /\ x8.read = M!Done /\ "late contrast" \notin x10 => x8.system = x2.contrast
      /\ x8.read.at = "answered" => x8.read.value \in BOOLEAN
  BY <1>0 DEF SettingsTypes, SettingsFollow
<1>9. CASE M!ReadContrast
  <2>1. /\ x8' = [x8 EXCEPT !.read = M!Read("answered", x2.contrast)]
        /\ UNCHANGED <<x1, x2, x3, x4, x5, x6, x7, x9, x10, x11>>
    BY <1>9 DEF M!ReadContrast
  <2>2. M!Read("answered", x2.contrast) \in SettingsReads(BOOLEAN \cup {Blank})
        /\ M!Read("answered", x2.contrast) # M!Done
        /\ M!Read("answered", x2.contrast).value \in BOOLEAN
    BY <1>t DEF M!Read, M!Done, SettingsReads
  <2> DEFINE read == M!Read("answered", x2.contrast)
  <2>3. x8' = [x8 EXCEPT !.read = read]
    BY <2>1
  <2>4. read \in SettingsReads(BOOLEAN \cup {Blank}) /\ read # M!Done /\ read.value \in BOOLEAN
    BY <2>2
  <2> HIDE DEF read
  <2>5. /\ x8' \in [read : SettingsReads(BOOLEAN \cup {Blank}), system : BOOLEAN, chosen : BOOLEAN \cup {Blank}]
        /\ x8'.read = read
    BY <1>t, <2>3, <2>4
  <2> QED BY <1>8, <1>t, <2>1, <2>4, <2>5
<1>10. CASE M!ShowContrast
  <2>1. /\ x8.read.at = "answered"
        /\ x8' = [x8 EXCEPT !.read = M!Done, !.system = x8.read.value]
        /\ x10' = IF x8'.system # x2.contrast THEN x10 \cup {"late contrast"} ELSE x10
        /\ UNCHANGED <<x1, x2, x3, x4, x5, x6, x7, x9, x11>>
    BY <1>10 DEF M!ShowContrast
  <2>2. M!Done \in SettingsReads(BOOLEAN \cup {Blank}) /\ M!Done.at # "answered" /\ x8.read.value \in BOOLEAN
    BY <1>t, <2>1 DEF M!Read, M!Done, SettingsReads
  <2>3. /\ x8' \in [read : SettingsReads(BOOLEAN \cup {Blank}), system : BOOLEAN, chosen : BOOLEAN \cup {Blank}]
        /\ x8'.read = M!Done
    BY <1>t, <2>1, <2>2
  <2>4. "late contrast" \notin x10' => x8'.system = x2.contrast
    BY <2>1
  <2>5. x10' \in {x10, x10 \cup {"late contrast"}}
    BY <2>1
  <2> QED BY <1>8, <1>t, <2>1, <2>2, <2>3, <2>4, <2>5
<1>11. CASE M!PhoneContrast
  <2>1. /\ x2' = [x2 EXCEPT !.contrast = ~@] /\ x8' = [x8 EXCEPT !.system = x2'.contrast]
        /\ x11' \in 0 .. SettingsMoves /\ UNCHANGED <<x1, x3, x4, x5, x6, x7, x9, x10>>
    BY <1>11, <1>m DEF M!PhoneContrast
  <2> QED BY <1>8, <1>t, <2>1
<1>12. CASE M!PhoneLanguages
  <2>1. /\ x2' \in {[x2 EXCEPT !.languages = l] : l \in Phones \ {x2.languages}}
        /\ x11' \in 0 .. SettingsMoves /\ UNCHANGED <<x1, x3, x4, x5, x6, x7, x8, x9, x10>>
    BY <1>12, <1>m DEF M!PhoneLanguages
  <2> QED BY <1>8, <1>t, <2>1
<1>13. CASE M!setHighContrast(~M!highContrast)
  <2>1. /\ x8' = [x8 EXCEPT !.chosen = ~M!highContrast]
        /\ x11' \in 0 .. SettingsMoves /\ UNCHANGED <<x1, x2, x3, x4, x5, x6, x7, x9, x10>>
    BY <1>13, <1>m DEF M!setHighContrast
  <2> QED BY <1>8, <1>t, <2>1
<1>14. CASE M!Restart
  <2>1. /\ x4' = "system" /\ x5' = [at |-> "asked", value |-> Blank] /\ x6' = <<>>
        /\ x7' = [preference |-> "system", native |-> "system"]
        /\ x8' = [read |-> [at |-> "asked", value |-> Blank], system |-> FALSE, chosen |-> Blank]
        /\ x1' \in {x1, "production"} /\ x10' = {} /\ UNCHANGED <<x2, x3>> /\ x11' \in 0 .. SettingsMoves
        /\ x9' = IF x6 # <<>> \/ x10 # {} \/ x9 = Blank \/ x1' # x1 THEN Blank ELSE [x9 EXCEPT !.run = FALSE]
    BY <1>14, <1>m DEF M!Restart, M!Start, M!Asked, M!Read
  <2>2. x9' = Blank \/ /\ x6 = <<>> /\ x10 = {} /\ x9 # Blank /\ x1' = x1 
                       /\ x9' = [language |-> x9.language, run |-> FALSE] /\ x9.language \in SettingsLanguages
    BY <1>0, <2>1 DEF SettingsTypes
  <2>3. SettingsTypes'
    <3>1. x5' \in SettingsReads(SettingsStored)
      BY <2>1 DEF SettingsReads, SettingsStored
    <3>2. x8' \in [read : SettingsReads(BOOLEAN \cup {Blank}), system : BOOLEAN, chosen : BOOLEAN \cup {Blank}]
      BY <2>1 DEF SettingsReads
    <3>3. x9' \in {Blank} \cup [language : SettingsLanguages, run : BOOLEAN]
      <4>1. ASSUME NEW l \in SettingsLanguages
            PROVE  [language |-> l, run |-> FALSE] \in [language : SettingsLanguages, run : BOOLEAN]
        OBVIOUS
      <4> QED BY <2>2, <4>1
    <3>4. x6' \in Seq(SettingsStored)
      BY <2>1
    <3> QED BY <1>0, <2>1, <3>1, <3>2, <3>3, <3>4 DEF SettingsTypes
  <2>4. SettingsOffered'
    BY <1>0, <1>o, <2>1, <2>2 DEF SettingsOffered
  <2>5. SettingsChosen'
    <3> SUFFICES ASSUME x9' # Blank PROVE SettingsChosen'
      BY DEF SettingsChosen
    <3>1. x6 = <<>> /\ x10 = {} /\ x9 # Blank /\ x9'.language = x9.language /\ x9'.run = FALSE
      BY <2>2
    <3>2. x3 = SettingsWritten(x9.language)
      <4>1. Len(x6) # 1
        BY <3>1
      <4>2. "unordered" \notin x10 /\ "failed" \notin x10
        BY <3>1
      <4> QED BY <1>0, <3>1, <4>1, <4>2 DEF SettingsChosen
    <3>3. x3' = SettingsWritten(x9'.language)
      BY <2>1, <3>1, <3>2 DEF SettingsWritten
    <3>4. x4' = "system" /\ x5'.at = "asked" /\ x6' = <<>> /\ x10' = {}
      BY <2>1
    <3> HIDE <2>1, <2>2
    <3> QED BY <3>1, <3>3, <3>4 DEF SettingsChosen, SettingsWritten
  <2>6. SettingsFollow'
    BY <2>1 DEF SettingsFollow, M!Done, M!Read
  <2> QED BY <2>3, <2>4, <2>5, <2>6 DEF SettingsInv
<1>15. CASE UNCHANGED M!vars
  <2>1. UNCHANGED <<x1, x2, x3, x4, x5, x6, x7, x8, x9, x10, x11>>
    BY <1>15 DEF M!vars
  <2>2. SettingsTypes'
    BY <1>0, <2>1 DEF SettingsTypes
  <2>3. SettingsOffered'
    BY <1>0, <1>o, <2>1 DEF SettingsOffered
  <2>4. SettingsFollow'
    BY <1>0, <2>1 DEF SettingsFollow, M!Done, M!Read
  <2>5. SettingsChosen'
    BY <1>0, <2>1 DEF SettingsChosen
  <2> QED BY <2>2, <2>3, <2>4, <2>5 DEF SettingsInv
<1>16. CASE M!DevSettings
  BY <1>4, <1>7, <1>13, <1>16 DEF M!DevSettings
<1> QED
  BY <1>1, <1>2, <1>3, <1>5, <1>6, <1>9, <1>10, <1>11, <1>12, <1>14, <1>15, <1>16 DEF M!Next

-----------------------------------------------------------------------------
(* Panel.  A code is on its way only for a panel that has no session to    *)
(* show, and a check, unless a sign-out crossed it, is of the session that *)
(* is shown and stored.                                                    *)

PanelCalls == [op : {"exchange", "whoami", "logout"}, session : L!SessionIds,
               is : {"sent", "answered", "refused"}]

PanelTypes ==
  /\ x1 \in BOOLEAN /\ x2 \in {"shown", "bank"} /\ x3 \in L!SessionIds \cup {Blank}
  /\ x4.status \in {"loading", "signed-out", "signed-in"}
  /\ x4.status = "signed-in" => x4.session \in L!SessionIds
  /\ x5 \subseteq PanelCalls
  /\ x6 \in [L!SessionIds -> {"none", "live", "over", "expired"}]
  /\ x7 \in 0 .. MaxLogins /\ x8 \in [L!SessionIds -> 0 .. 1]
  /\ x9 \in BOOLEAN /\ x10 \in BOOLEAN

PanelCodes == \A s \in L!SessionIds : s > x7 => x8[s] = 0

\* Whoever is signed out, or waits for a code, has nothing stored that a reload would show.
PanelOut ==
  /\ x4.status = "signed-out" => L!readStored(x3) = Blank
  /\ x2 = "bank" => x4.status = "signed-out" /\ x5 = {}
  /\ \A c \in x5 : c.op = "exchange" =>
       L!readStored(x3) = Blank /\ x4.status # "signed-in" /\ x5 = {c}
  /\ x9 => x4 = L!SignedOut("admin_not_allowed") /\ x5 = {}

PanelIn ==
  /\ \A c, d \in x5 : c.op = "whoami" /\ d.op = "whoami" => c = d
  /\ ~x10 =>
       /\ x4.status = "signed-in" => x3 = x4.session
       /\ \A c \in x5 : c.op = "whoami" => x4.status = "signed-in" /\ x3 = c.session
       /\ \A c, d \in x5 : c.op = "whoami" => d.op # "logout"

PanelInv == PanelTypes /\ PanelCodes /\ PanelOut /\ PanelIn

LEMMA PanelFragments ==
  ASSUME L!PanelAssumption
  PROVE  /\ L!Nothing \notin L!SessionIds /\ L!Refusal \notin L!SessionIds /\ L!Nothing # L!Refusal
         /\ Blank \notin L!SessionIds /\ L!SessionIds \subseteq Nat
BY DEF L!PanelAssumption, L!Nothing, L!Refusal, L!SessionIds

LEMMA PanelInitInv == L!PanelAssumption /\ L!Init => PanelInv
<1> SUFFICES ASSUME L!PanelAssumption, L!Init PROVE PanelInv
  OBVIOUS
<1>1. PanelTypes
  <2>1. /\ x6 \in [L!SessionIds -> {"none", "live", "over", "expired"}]
        /\ x8 \in [L!SessionIds -> 0 .. 1] /\ x7 \in 0 .. MaxLogins
    BY DEF L!PanelAssumption, L!Init
  <2>2. x4.status = "signed-out"
    BY DEF L!Init, L!SignedOut
  <2> QED BY <2>1, <2>2 DEF L!Init, PanelTypes
<1>2. PanelCodes /\ PanelOut /\ PanelIn
  BY DEF L!Init, L!SignedOut, L!readStored, PanelCodes, PanelOut, PanelIn
<1> QED BY <1>1, <1>2 DEF PanelInv

LEMMA PanelPromises ==
  ASSUME PanelInv, L!PanelAssumption
  PROVE  L!TypeOK /\ L!CodesAreSentOnce /\ L!ShownIsStored /\ L!RefusalStaysShown
<1>1. L!TypeOK
  BY DEF PanelInv, PanelTypes, PanelCalls, L!TypeOK
<1>2. L!CodesAreSentOnce
  BY DEF PanelInv, PanelTypes, L!CodesAreSentOnce
<1>3. L!ShownIsStored
  BY DEF PanelInv, PanelOut, PanelIn, L!ShownIsStored
<1>4. L!RefusalStaysShown
  BY DEF PanelInv, PanelOut, L!RefusalStaysShown
<1> QED BY <1>1, <1>2, <1>3, <1>4

\* What one run of the effect comes to, and both.
LEMMA PanelRuns ==
  ASSUME L!PanelAssumption, PanelTypes, NEW fragment, L!Load(fragment)
  PROVE  /\ x3' = IF fragment = L!Refusal THEN Blank ELSE x3
         /\ fragment = L!Refusal => x4' = L!SignedOut("admin_not_allowed") /\ x5' = {}
         /\ fragment \in L!SessionIds /\ L!readStored(x3) = Blank =>
              x4'.status \in {"loading", "signed-out"} /\ x5' = {L!Call("exchange", fragment)}
         /\ fragment = L!Nothing /\ L!readStored(x3) = Blank => x4' = L!SignedOut("none") /\ x5' = {}
         /\ fragment = L!Nothing /\ L!readStored(x3) # Blank =>
              x4' = L!SignedIn(x3) /\ x5' = {L!Call("whoami", x3)}
<1> DEFINE first == L!Run(L!Fresh, fragment)
           both == IF x1 THEN L!Run(first, L!Nothing) ELSE first
<1>1. x3' = both.stored /\ x4' = both.state /\ x5' = both.calls
  BY DEF L!Load, L!Consumed
<1>2. /\ L!Nothing \notin L!SessionIds /\ L!Refusal \notin L!SessionIds /\ L!Nothing # L!Refusal
  BY PanelFragments
<1>3. CASE fragment = L!Refusal
  <2>1. first = [stored |-> Blank, state |-> L!SignedOut("admin_not_allowed"), calls |-> {}]
    BY <1>3 DEF L!Run, L!Fresh
  <2>2. both = first
    <3>1. L!Run(first, L!Nothing) = first
      <4> PICK one : one = first
        OBVIOUS
      <4>1. /\ one = [stored |-> Blank, state |-> L!SignedOut("admin_not_allowed"), calls |-> {}]
            /\ one.stored = Blank /\ one.state.status = "signed-out"
        BY <2>1 DEF L!SignedOut
      <4>2. L!readStored(one.stored) = Blank /\ L!SignsOutIfLoading(one) = one.state
        BY <4>1 DEF L!readStored, L!SignsOutIfLoading
      <4>3. L!Run(one, L!Nothing) = [one EXCEPT !.state = one.state]
        BY <1>2, <4>2 DEF L!Run
      <4>4. [one EXCEPT !.state = one.state] = one
        BY <4>1
      <4> HIDE DEF first
      <4> QED BY <4>3, <4>4
    <3> HIDE DEF first
    <3> QED BY <3>1
  <2> QED BY <1>1, <1>2, <1>3, <2>1, <2>2
<1>4. CASE fragment \in L!SessionIds
  <2>1. first = [stored |-> x3, state |-> [status |-> "loading"], calls |-> {L!Call("exchange", fragment)}]
    BY <1>2, <1>4 DEF L!Run, L!Fresh
  <2>2. both.stored = x3
    BY <1>2, <2>1 DEF L!Run
  <2>3. L!readStored(x3) = Blank =>
          both.state.status \in {"loading", "signed-out"} /\ both.calls = {L!Call("exchange", fragment)}
    <3> SUFFICES ASSUME L!readStored(x3) = Blank
                 PROVE  both.state.status \in {"loading", "signed-out"} /\ both.calls = {L!Call("exchange", fragment)}
      OBVIOUS
    <3> HIDE DEF first
    <3>1. CASE x1
      <4>1. L!Run(first, L!Nothing) = [first EXCEPT !.state = L!SignedOut("none")]
        BY <1>2, <2>1 DEF L!Run, L!SignsOutIfLoading
      <4> QED BY <2>1, <3>1, <4>1 DEF L!SignedOut
    <3>2. CASE ~x1
      BY <2>1, <3>2
    <3> QED BY <3>1, <3>2
  <2> QED BY <1>1, <1>2, <1>4, <2>2, <2>3
<1>5. CASE fragment = L!Nothing /\ L!readStored(x3) = Blank
  <2>1. first = [stored |-> x3, state |-> L!SignedOut("none"), calls |-> {}]
    BY <1>2, <1>5 DEF L!Run, L!Fresh, L!SignsOutIfLoading
  <2>2. both = first
    BY <1>2, <1>5, <2>1 DEF L!Run, L!SignsOutIfLoading, L!SignedOut
  <2> QED BY <1>1, <1>2, <1>5, <2>1, <2>2
<1>6. CASE fragment = L!Nothing /\ L!readStored(x3) # Blank
  <2>1. first = [stored |-> x3, state |-> L!SignedIn(x3), calls |-> {L!Call("whoami", x3)}]
    BY <1>2, <1>6 DEF L!Run, L!Fresh
  <2>2. both = first
    BY <1>2, <1>6, <2>1 DEF L!Run
  <2> QED BY <1>1, <1>2, <1>6, <2>1, <2>2
<1>7. CASE fragment # L!Refusal /\ fragment \notin L!SessionIds /\ fragment # L!Nothing
  <2>1. first.stored = x3
    BY <1>7 DEF L!Run, L!Fresh
  <2>2. both.stored = x3
    BY <1>2, <2>1 DEF L!Run, L!Fresh
  <2> QED BY <1>1, <1>7, <2>2
<1> QED BY <1>3, <1>4, <1>5, <1>6, <1>7

\* A page that loads has the invariant, whatever the one before had.
LEMMA PanelLoads ==
  ASSUME L!PanelAssumption, PanelInv, NEW fragment \in {L!Nothing, L!Refusal} \cup L!SessionIds,
         L!Load(fragment), x7' \in 0 .. MaxLogins, x7' >= x7,
         fragment \in L!SessionIds => fragment > x7 /\ fragment <= x7' /\ L!readStored(x3) = Blank
  PROVE  PanelInv'
<1>1. /\ L!Nothing \notin L!SessionIds /\ L!Refusal \notin L!SessionIds /\ L!Nothing # L!Refusal
      /\ Blank \notin L!SessionIds /\ L!SessionIds \subseteq Nat
  BY PanelFragments
<1>2. PanelTypes /\ PanelCodes
  BY DEF PanelInv
<1>3. /\ x2' = "shown" /\ x9' = (fragment = L!Refusal) /\ x10' = FALSE /\ x1' = x1 /\ x6' = x6
      /\ x8' = [s \in L!SessionIds |-> x8[s] + IF s = fragment THEN 1 ELSE 0]
  <2>1. x8' = [s \in L!SessionIds |-> x8[s] +
                 IF s = fragment THEN IF x1 /\ L!Nothing = s THEN 2 ELSE 1 ELSE 0]
    BY DEF L!Load, L!Consumed
  <2>2. \A s \in L!SessionIds : L!Nothing # s
    BY <1>1
  <2>3. x8' = [s \in L!SessionIds |-> x8[s] + IF s = fragment THEN 1 ELSE 0]
    BY <2>1, <2>2
  <2> QED BY <2>3 DEF L!Load
<1>4. x8' \in [L!SessionIds -> 0 .. 1] /\ PanelCodes'
  <2>1. \A s \in L!SessionIds : x8[s] \in 0 .. 1 /\ (s = fragment => x8[s] = 0) /\ (s > x7' => s > x7 /\ s # fragment)
    BY <1>1, <1>2 DEF PanelTypes, PanelCodes
  <2>2. \A s \in L!SessionIds : x8'[s] \in 0 .. 1 /\ (s > x7' => x8'[s] = 0)
    BY <1>2, <1>3, <2>1 DEF PanelCodes
  <2> QED BY <1>3, <2>2 DEF PanelCodes
<1>5. /\ x3' = IF fragment = L!Refusal THEN Blank ELSE x3
      /\ fragment = L!Refusal => x4' = L!SignedOut("admin_not_allowed") /\ x5' = {}
      /\ fragment \in L!SessionIds =>
           x4'.status \in {"loading", "signed-out"} /\ x5' = {L!Call("exchange", fragment)}
      /\ fragment = L!Nothing /\ L!readStored(x3) = Blank => x4' = L!SignedOut("none") /\ x5' = {}
      /\ fragment = L!Nothing /\ L!readStored(x3) # Blank =>
           x4' = L!SignedIn(x3) /\ x5' = {L!Call("whoami", x3)}
  BY <1>2, PanelRuns
<1>6. L!readStored(x3)' = L!readStored(x3')
  BY <1>3 DEF L!readStored
<1>7. /\ x3 \in L!SessionIds \cup {Blank} /\ (L!readStored(x3) # Blank => x3 \in L!SessionIds)
      /\ \A op \in {"exchange", "whoami"} : \A s \in L!SessionIds : L!Call(op, s) \in PanelCalls
  BY <1>2 DEF PanelTypes, L!readStored, L!Call, PanelCalls
<1>8. CASE fragment = L!Refusal
  <2>1. x4'.status = "signed-out" /\ x4' = L!SignedOut("admin_not_allowed") /\ x5' = {} /\ x3' = Blank
    BY <1>5, <1>8 DEF L!SignedOut
  <2>2. PanelTypes'
    BY <1>2, <1>3, <1>4, <2>1 DEF PanelTypes
  <2>3. PanelOut' /\ PanelIn'
    BY <1>3, <2>1 DEF PanelOut, PanelIn, L!readStored
  <2> QED BY <1>4, <2>2, <2>3 DEF PanelInv
<1>9. CASE fragment \in L!SessionIds
  <2>1. L!Call("exchange", fragment).op = "exchange"
    BY DEF L!Call
  <2>2. PanelTypes'
    BY <1>1, <1>2, <1>3, <1>4, <1>5, <1>7, <1>9 DEF PanelTypes
  <2>3. PanelOut' /\ PanelIn'
    BY <1>1, <1>3, <1>5, <1>9, <2>1 DEF PanelOut, PanelIn, L!readStored
  <2> QED BY <1>4, <2>2, <2>3 DEF PanelInv
<1>10. CASE fragment = L!Nothing /\ L!readStored(x3) = Blank
  <2>1. x4'.status = "signed-out" /\ x5' = {} /\ x3' = x3 /\ ~x9'
    <3>1. fragment # L!Refusal
      BY <1>1, <1>10
    <3>2. x4' = L!SignedOut("none") /\ x5' = {} /\ x3' = x3
      BY <1>5, <1>10, <3>1
    <3> QED BY <1>3, <3>1, <3>2 DEF L!SignedOut
  <2>2. PanelTypes'
    BY <1>2, <1>3, <1>4, <1>7, <2>1 DEF PanelTypes
  <2>3. PanelOut' /\ PanelIn'
    BY <1>3, <1>6, <1>10, <2>1 DEF PanelOut, PanelIn
  <2> QED BY <1>4, <2>2, <2>3 DEF PanelInv
<1>11. CASE fragment = L!Nothing /\ L!readStored(x3) # Blank
  <2>1. L!Call("whoami", x3).op = "whoami" /\ L!Call("whoami", x3).session = x3
    BY DEF L!Call
  <2>2. x4'.status = "signed-in" /\ x4'.session = x3
    BY <1>5, <1>11 DEF L!SignedIn
  <2>3. PanelTypes'
    BY <1>1, <1>2, <1>3, <1>4, <1>5, <1>7, <1>11, <2>2 DEF PanelTypes
  <2>4. PanelOut' /\ PanelIn'
    BY <1>1, <1>3, <1>5, <1>11, <2>1, <2>2 DEF PanelOut, PanelIn
  <2> QED BY <1>4, <2>3, <2>4 DEF PanelInv
<1> QED BY <1>8, <1>9, <1>10, <1>11

LEMMA PanelNextInv == L!PanelAssumption /\ PanelInv /\ [L!Next]_(L!vars) => PanelInv'
<1> SUFFICES ASSUME L!PanelAssumption, PanelInv, [L!Next]_(L!vars) PROVE PanelInv'
  OBVIOUS
<1>0. PanelTypes /\ PanelCodes /\ PanelOut /\ PanelIn
  BY DEF PanelInv
<1>f. /\ Blank \notin L!SessionIds /\ L!SessionIds \subseteq Nat /\ L!SessionIds = 1 .. MaxLogins
  BY PanelFragments DEF L!SessionIds
<1>1. CASE L!Reload
  <2>1. L!Load(L!Nothing) /\ x7' = x7
    BY <1>1 DEF L!Reload
  <2>2. x7' \in 0 .. MaxLogins /\ x7' >= x7
    BY <1>0, <2>1 DEF PanelTypes
  <2> QED BY <2>1, <2>2, PanelFragments, PanelLoads
<1>2. CASE L!ComesBack
  <2>1. x2 = "bank" /\ L!readStored(x3) = Blank
    BY <1>0, <1>2 DEF L!ComesBack, PanelOut
  <2>2. CASE x7 < MaxLogins /\ x7' = x7 + 1 /\ L!Load(x7 + 1)
    <3>1. x7 + 1 \in L!SessionIds /\ x7' \in 0 .. MaxLogins /\ x7' >= x7 /\ x7 + 1 > x7 /\ x7 + 1 <= x7'
      BY <1>0, <1>f, <2>2 DEF PanelTypes, L!PanelAssumption
    <3> QED BY <2>1, <2>2, <3>1, PanelLoads
  <2>3. ASSUME NEW fragment \in {L!Refusal, L!Nothing}, x7' = x7, L!Load(fragment) PROVE PanelInv'
    <3>1. x7' \in 0 .. MaxLogins /\ x7' >= x7
      BY <1>0, <2>3 DEF PanelTypes
    <3> QED BY <2>3, <3>1, PanelFragments, PanelLoads
  <2> QED BY <1>2, <2>2, <2>3 DEF L!ComesBack
<1>3. CASE L!signIn
  <2>1. /\ x4.status = "signed-out" /\ x2' = "bank" /\ x5' = {}
        /\ UNCHANGED <<x1, x3, x4, x6, x7, x8, x9, x10>>
    BY <1>3 DEF L!signIn
  <2> QED BY <1>0, <2>1 DEF PanelInv, PanelTypes, PanelCodes, PanelOut, PanelIn, L!readStored
<1>4. CASE L!signOut
  <2> DEFINE call == L!Call("logout", x4.session)
  <2>1. /\ x2 = "shown" /\ x4.status = "signed-in" /\ x5' = x5 \cup {call}
        /\ x10' = (x10 \/ \E c \in x5 : c.op = "whoami")
        /\ UNCHANGED <<x1, x2, x3, x4, x6, x7, x8, x9>>
    BY <1>4 DEF L!signOut
  <2>2. call \in PanelCalls /\ call.op = "logout"
    BY <1>0, <2>1 DEF L!Call, PanelTypes, PanelCalls
  <2> HIDE DEF call
  <2>3. \A c \in x5 : c.op # "exchange"
    BY <1>0, <2>1 DEF PanelOut
  <2>4. ~x9
    BY <1>0, <2>1 DEF PanelOut, L!SignedOut
  <2>5. PanelTypes' /\ PanelCodes'
    BY <1>0, <2>1, <2>2 DEF PanelTypes, PanelCodes
  <2>6. PanelOut' /\ PanelIn'
    BY <1>0, <2>1, <2>2, <2>3, <2>4 DEF PanelOut, PanelIn
  <2> QED BY <2>5, <2>6 DEF PanelInv
<1>5. ASSUME NEW s \in L!SessionIds, L!SessionEnds(s) PROVE PanelInv'
  <2>1. /\ x6' \in {[x6 EXCEPT ![s] = how] : how \in {"over", "expired"}} /\ x6[s] \in {"none", "live"}
        /\ UNCHANGED <<x1, x2, x3, x4, x5, x7, x8, x9, x10>>
    BY <1>5 DEF L!SessionEnds
  <2>2. x6' \in [L!SessionIds -> {"none", "live", "over", "expired"}]
        /\ \A t \in L!SessionIds : x6[t] = "expired" => x6'[t] = "expired"
    BY <1>0, <2>1 DEF PanelTypes
  <2>3. L!readStored(x3) = Blank => L!readStored(x3)' = Blank
    BY <1>0, <2>1, <2>2 DEF L!readStored, PanelTypes
  <2> QED BY <1>0, <2>1, <2>2, <2>3 DEF PanelInv, PanelTypes, PanelCodes, PanelOut, PanelIn
<1>6. ASSUME NEW c \in x5, L!Serve(c) PROVE PanelInv'
  <2>1. PICK is \in {"answered", "refused"} : x5' = (x5 \ {c}) \cup {[c EXCEPT !.is = is]}
    BY <1>6 DEF L!Serve
  <2> DEFINE served == [c EXCEPT !.is = is]
  <2>2. /\ x5' = (x5 \ {c}) \cup {served} /\ served \in PanelCalls
        /\ served.op = c.op /\ served.session = c.session
    BY <1>0, <2>1 DEF PanelTypes, PanelCalls
  <2> HIDE DEF served
  <2>3. /\ UNCHANGED <<x1, x2, x3, x4, x7, x8, x9, x10>>
        /\ \/ x6' = x6 
           \/ x6[c.session] \in {"none", "live"} /\ \E how \in {"live", "over"} : x6' = [x6 EXCEPT ![c.session] = how]
    BY <1>6 DEF L!Serve
  <2>4. c.session \in L!SessionIds
    BY <1>0 DEF PanelTypes, PanelCalls
  <2>5. x6' \in [L!SessionIds -> {"none", "live", "over", "expired"}]
        /\ \A t \in L!SessionIds : x6[t] = "expired" => x6'[t] = "expired"
    BY <1>0, <2>3, <2>4 DEF PanelTypes
  <2>6. L!readStored(x3) = Blank => L!readStored(x3)' = Blank
    BY <1>0, <2>3, <2>5 DEF L!readStored, PanelTypes
  <2>7. PanelTypes' /\ PanelCodes'
    BY <1>0, <2>2, <2>3, <2>5 DEF PanelTypes, PanelCodes
  <2>8. PanelOut'
    BY <1>0, <2>2, <2>3, <2>6 DEF PanelOut
  <2>9. PanelIn'
    BY <1>0, <2>2, <2>3 DEF PanelIn
  <2> QED BY <2>7, <2>8, <2>9 DEF PanelInv
<1>7. ASSUME NEW c \in x5, L!ExchangeReturns(c) PROVE PanelInv'
  <2>1. /\ c.op = "exchange" /\ x5' = x5 \ {c} /\ UNCHANGED <<x1, x2, x6, x7, x8, x9, x10>>
        /\ \/ x3' = c.session /\ x4' = L!SignedIn(c.session)
           \/ x3' = x3 /\ x4' = L!SignedOut("generic")
    BY <1>7 DEF L!ExchangeReturns, L!Settle
  <2>2. /\ x5' = {} /\ ~x9 /\ x2 # "bank" /\ L!readStored(x3) = Blank /\ c.session \in L!SessionIds
    BY <1>0, <2>1 DEF PanelOut, PanelTypes, PanelCalls
  <2>3. L!readStored(x3)' = L!readStored(x3')
    BY <2>1 DEF L!readStored
  <2> QED BY <1>0, <2>1, <2>2, <2>3 DEF PanelInv, PanelTypes, PanelCodes, PanelOut, PanelIn, L!SignedIn, L!SignedOut
<1>8. ASSUME NEW c \in x5, L!WhoamiReturns(c) PROVE PanelInv'
  <2>1. /\ c.op = "whoami" /\ x5' = x5 \ {c} /\ UNCHANGED <<x1, x2, x6, x7, x8, x9, x10>>
        /\ \/ x3' = x3 /\ x4' = L!SignedIn(c.session)
           \/ x3' = Blank /\ x4' = L!SignedOut("none")
    BY <1>8 DEF L!WhoamiReturns, L!Settle, L!DropsStored
  <2>2. /\ ~x9 /\ x2 # "bank" /\ c.session \in L!SessionIds /\ (\A d \in x5' : d.op \notin {"exchange", "whoami"})
    BY <1>0, <2>1 DEF PanelOut, PanelIn, PanelTypes, PanelCalls
  <2>3. L!readStored(x3)' = L!readStored(x3') /\ L!readStored(Blank) = Blank
    BY <2>1 DEF L!readStored
  <2>4. ~x10 => x3 = c.session
    BY <1>0, <2>1 DEF PanelIn
  <2>5. PanelTypes' /\ PanelCodes'
    BY <1>0, <2>1, <2>2 DEF PanelTypes, PanelCodes, L!SignedIn, L!SignedOut
  <2>6. PanelOut' /\ PanelIn'
    BY <2>1, <2>2, <2>3, <2>4 DEF PanelOut, PanelIn, L!SignedIn, L!SignedOut
  <2> QED BY <2>5, <2>6 DEF PanelInv
<1>9. ASSUME NEW c \in x5, L!Lost(c) PROVE PanelInv'
  <2>1. /\ x5' = x5 \ {c} /\ UNCHANGED <<x1, x2, x3, x4, x6, x7, x8, x9, x10>>
    BY <1>9 DEF L!Lost
  <2>2. L!readStored(x3)' = L!readStored(x3)
    BY <2>1 DEF L!readStored
  <2> QED BY <1>0, <2>1, <2>2 DEF PanelInv, PanelTypes, PanelCodes, PanelOut, PanelIn
<1>10. ASSUME NEW c \in x5, L!SignOutReturns(c) PROVE PanelInv'
  <2>1. /\ c.op = "logout" /\ x5' = x5 \ {c} /\ UNCHANGED <<x1, x2, x6, x7, x8, x9, x10>>
        /\ x3' = Blank /\ x4' = L!SignedOut("none")
    BY <1>10 DEF L!SignOutReturns, L!Settle
  <2>2. /\ ~x9 /\ x2 # "bank" /\ (\A d \in x5' : d.op # "exchange")
        /\ (~x10 => \A d \in x5' : d.op # "whoami")
    BY <1>0, <2>1 DEF PanelOut, PanelIn
  <2>3. L!readStored(x3)' = Blank
    BY <2>1 DEF L!readStored
  <2>4. PanelTypes' /\ PanelCodes'
    BY <1>0, <2>1 DEF PanelTypes, PanelCodes, L!SignedOut
  <2>5. PanelOut' /\ PanelIn'
    BY <1>0, <2>1, <2>2, <2>3 DEF PanelOut, PanelIn, L!SignedOut
  <2> QED BY <2>4, <2>5 DEF PanelInv
<1>11. CASE UNCHANGED L!vars
  BY <1>0, <1>11 DEF L!vars, PanelInv, PanelTypes, PanelCodes, PanelOut, PanelIn, L!readStored
<1> QED
  BY <1>1, <1>2, <1>3, <1>4, <1>5, <1>6, <1>7, <1>8, <1>9, <1>10, <1>11 DEF L!Next

-----------------------------------------------------------------------------
(* Desk.  A decision under way belongs to one mount of its row.  As long   *)
(* as nothing is off, a list on its way is of the queue's oldest, and the  *)
(* count is that of the queue and of the decisions that were taken but are *)
(* not shown yet, when all of those are of rows still mounted; the rows    *)
(* that are not decided are the oldest of both.                            *)

DeskVerdicts == [by : {"me", "another"}, decision : {"approved", "rejected"}]
DeskRows ==
  [is : {"idle", "rejecting", "saving", "failed", "approved", "rejected"}, mount : Nat]
DeskLoads ==
  [number : Nat, items : (SUBSET Queued) \cup {Blank}, total : (0 .. Cardinality(Queued)) \cup {Blank}]
DeskDecisions ==
  [photo : Queued, decision : {"approved", "rejected"}, mount : Nat, is : {"sent", "taken", "refused"}]

DeskTypes ==
  /\ x1 \subseteq Queued /\ x2 \in [Queued -> DeskVerdicts \cup {Blank}]
  /\ x3 \in {"loading", "error", "ready"} /\ x4 \subseteq Queued /\ x5 \in 0 .. Cardinality(Queued)
  /\ x6 \in [Queued -> DeskRows] /\ x7 \subseteq DeskLoads /\ x8 \in Nat
  /\ x9 \subseteq DeskDecisions /\ x10 \in BOOLEAN /\ x11 \in Nat

DeskMine(decision) == [by |-> "me", decision |-> decision]

\* Nothing in the queue is decided, and what says that it is was decided here.
DeskVerdictsStand ==
  /\ \A p \in x1 : x2[p] = Blank
  /\ \A p \in Queued : x6[p].is \in {"approved", "rejected"} => x2[p] = DeskMine(x6[p].is)
  /\ \A d \in x9 : d.is = "taken" => x2[d.photo] = DeskMine(d.decision)

\* The row that a decision was made on is still there.
DeskCurrent(d) == x6[d.photo].mount = d.mount

DeskMounts ==
  /\ \A p \in Queued : p \notin x4 => x6[p].is = "idle"
  /\ \A d \in x9 : d.mount <= x6[d.photo].mount
  /\ \A d \in x9 : DeskCurrent(d) => d.photo \in x4 /\ x6[d.photo].is = "saving"
  /\ \A d, e \in x9 : d.photo = e.photo /\ DeskCurrent(d) /\ DeskCurrent(e) => d = e

DeskOpen == {p \in x4 : x6[p].is \notin {"approved", "rejected"}}
DeskTaken == {d \in x9 : d.is = "taken"}
DeskTakenPhotos == {d.photo : d \in DeskTaken}

\* What is listed of a queue, and counted.
DeskListed(queue) ==
  /\ x5 = Cardinality(queue)
  /\ DeskOpen \subseteq queue /\ \A p \in DeskOpen, q \in queue \ DeskOpen : p < q
  /\ Cardinality(x4) < QueueLimit => DeskOpen = queue

DeskCounts ==
  /\ \A l \in x7 : /\ l.items # Blank => l.items = K!listQueue(x1)
                   /\ l.total # Blank => l.total = Cardinality(x1)
  /\ x7 # {} => \A d \in DeskTaken : ~DeskCurrent(d)
  /\ x3 = "ready" /\ (\A d \in DeskTaken : DeskCurrent(d)) =>
       DeskListed(x1 \cup DeskTakenPhotos)

DeskInv == DeskTypes /\ DeskVerdictsStand /\ DeskMounts /\ (~x10 => DeskCounts)

LEMMA DeskUnmounts ==
  ASSUME DeskTypes, NEW gone \in SUBSET Queued, x6' = K!Unmounted(gone)
  PROVE  /\ x6' \in [Queued -> DeskRows]
         /\ \A p \in gone : x6'[p].is = "idle" /\ x6'[p].mount = x6[p].mount + 1
         /\ \A p \in Queued \ gone : x6'[p] = x6[p]
<1>1. \A p \in Queued : x6[p] \in DeskRows /\ x6[p].mount \in Nat
  BY DEF DeskTypes, DeskRows
<1>2. x6' = [p \in Queued |-> IF p \in gone THEN [is |-> "idle", mount |-> x6[p].mount + 1] ELSE x6[p]]
  BY DEF K!Unmounted
<1>3. /\ \A p \in gone : x6'[p] = [is |-> "idle", mount |-> x6[p].mount + 1]
      /\ \A p \in Queued \ gone : x6'[p] = x6[p]
  BY <1>2
<1>4. \A p \in gone : /\ [is |-> "idle", mount |-> x6[p].mount + 1] \in DeskRows
                     /\ x6'[p].is = "idle" /\ x6'[p].mount = x6[p].mount + 1
  <2>1. ASSUME NEW p \in gone
        PROVE  /\ [is |-> "idle", mount |-> x6[p].mount + 1] \in DeskRows
               /\ x6'[p].is = "idle" /\ x6'[p].mount = x6[p].mount + 1
    <3>1. x6[p].mount + 1 \in Nat
      BY <1>1
    <3>2. x6'[p] = [is |-> "idle", mount |-> x6[p].mount + 1]
      BY <1>3
    <3> QED BY <3>1, <3>2 DEF DeskRows
  <2> QED BY <2>1
<1>5. \A p \in Queued : x6'[p] \in DeskRows
  BY <1>1, <1>3, <1>4
<1>6. x6' \in [Queued -> DeskRows]
  BY <1>2, <1>5
<1> QED BY <1>3, <1>4, <1>6

LEMMA DeskRowSet ==
  ASSUME DeskTypes, NEW p \in Queued,
         NEW is \in {"idle", "rejecting", "saving", "failed", "approved", "rejected"},
         x6' = [x6 EXCEPT ![p].is = is]
  PROVE  /\ x6' \in [Queued -> DeskRows]
         /\ x6'[p].is = is /\ \A q \in Queued : x6'[q].mount = x6[q].mount
         /\ \A q \in Queued \ {p} : x6'[q] = x6[q]
BY DEF DeskTypes, DeskRows

\* What a count is of: the queue, and it fits.
LEMMA DeskFinite ==
  ASSUME K!DeskAssumption, DeskTypes
  PROVE  /\ IsFiniteSet(x1) /\ Cardinality(x1) \in 0 .. Cardinality(Queued)
         /\ IsFiniteSet(x4) /\ IsFiniteSet(DeskOpen) /\ \A s : K!Cardinality(s) = Cardinality(s)
<1>1. IsFiniteSet(Queued)
  BY Zenon DEF K!DeskAssumption, K!IsFiniteSet, IsFiniteSet
<1>2. x1 \subseteq Queued /\ x4 \subseteq Queued /\ DeskOpen \subseteq Queued
  BY DEF DeskTypes, DeskOpen
<1>3. IsFiniteSet(x1) /\ IsFiniteSet(x4) /\ IsFiniteSet(DeskOpen)
  BY <1>1, <1>2, FS_Subset
<1>4. /\ Cardinality(x1) <= Cardinality(Queued) /\ Cardinality(x1) \in Nat
      /\ Cardinality(Queued) \in Nat
  BY <1>1, <1>2, FS_Subset, FS_CardinalityType
<1>5. \A s : K!Cardinality(s) = Cardinality(s)
  BY Zenon DEF K!Cardinality, Cardinality
<1> QED BY <1>3, <1>4, <1>5

\* The oldest are the queue's, older than the rest, and all of it where they are few.
LEMMA DeskOldest ==
  ASSUME K!DeskAssumption, NEW photos \in SUBSET Queued
  PROVE  LET listed == K!listQueue(photos) IN
         /\ listed \subseteq photos /\ \A p \in listed, q \in photos \ listed : p < q
         /\ Cardinality(listed) < QueueLimit => listed = photos
<1> DEFINE listed == K!listQueue(photos)
           upTo(n) == {q \in photos : q <= n}
<1>1. Queued \subseteq Nat /\ QueueLimit \in Nat \ {0} /\ photos \subseteq Nat
  BY DEF K!DeskAssumption
<1>2. IsFiniteSet(photos)
  <2>1. IsFiniteSet(Queued)
    BY Zenon DEF K!DeskAssumption, K!IsFiniteSet, IsFiniteSet
  <2> QED BY <2>1, FS_Subset
<1>3. listed = {p \in photos : Cardinality(upTo(p)) <= QueueLimit}
  <2>1. \A s : K!Cardinality(s) = Cardinality(s)
    BY Zenon DEF K!Cardinality, Cardinality
  <2>2. listed = {p \in photos : K!Cardinality(upTo(p)) <= QueueLimit}
    BY DEF K!listQueue
  <2> QED BY <2>1, <2>2, Zenon
<1> HIDE DEF listed
<1>4. listed \subseteq photos
  BY <1>3
<1>5. \A n : n \in photos => /\ upTo(n) \subseteq photos /\ IsFiniteSet(upTo(n))
                            /\ Cardinality(upTo(n)) \in Nat
  BY <1>2, FS_Subset, FS_CardinalityType
<1>6. ASSUME NEW p \in listed, NEW q \in photos \ listed PROVE p < q
  <2>1. p \in Nat /\ q \in Nat /\ p \in photos /\ q \in photos
    BY <1>1, <1>4
  <2>2. SUFFICES ASSUME q <= p PROVE FALSE
    BY <2>1
  <2>3. upTo(q) \subseteq upTo(p)
    <3>1. \A n \in photos : n <= q => n <= p
      BY <1>1, <2>1, <2>2
    <3> QED BY <3>1, Zenon
  <2> HIDE DEF upTo
  <2>4. Cardinality(upTo(q)) <= Cardinality(upTo(p))
    BY <1>5, <2>1, <2>3, FS_Subset
  <2>5. Cardinality(upTo(p)) <= QueueLimit /\ ~(Cardinality(upTo(q)) <= QueueLimit)
    BY <1>3, <2>1
  <2>6. Cardinality(upTo(p)) \in Nat /\ Cardinality(upTo(q)) \in Nat
    BY <1>5, <2>1
  <2> QED BY <1>1, <2>4, <2>5, <2>6
<1>7. ASSUME Cardinality(listed) < QueueLimit, listed # photos PROVE FALSE
  <2>1. photos \ listed \subseteq Nat /\ photos \ listed # {}
    BY <1>1, <1>4, <1>7
  <2>2. PICK m \in photos \ listed : \A n \in photos \ listed : m <= n
    BY <2>1, ScreensLeast
  <2>3. upTo(m) = listed \cup {m}
    <3>1. m \in Nat /\ m \in photos
      BY <2>1
    <3>2. \A q \in listed : q \in Nat /\ q \in photos /\ q <= m
      BY <1>1, <1>4, <1>6, <3>1
    <3>3. \A q \in photos : q \notin listed /\ q <= m => q = m
      BY <1>1, <2>2, <3>1
    <3>4. m <= m
      BY <3>1
    <3> QED BY <3>1, <3>2, <3>3, <3>4, Zenon
  <2>4. IsFiniteSet(listed) /\ m \notin listed /\ Cardinality(listed) \in Nat
    BY <1>2, <1>4, FS_Subset, FS_CardinalityType
  <2> HIDE DEF upTo
  <2>5. Cardinality(upTo(m)) = Cardinality(listed) + 1
    BY <2>3, <2>4, FS_AddElement
  <2>6. ~(Cardinality(upTo(m)) <= QueueLimit)
    BY <1>3, <2>2
  <2> QED BY <1>1, <1>7, <2>4, <2>5, <2>6
<1> QED BY <1>4, <1>6, <1>7 DEF listed

LEMMA DeskInitInv == K!DeskAssumption /\ K!Init => DeskInv
<1> SUFFICES ASSUME K!DeskAssumption, K!Init PROVE DeskInv
  OBVIOUS
<1>1. DeskTypes
  <2>0. x1 \subseteq Queued
    BY DEF K!Init, K!DeskAssumption
  <2>1. Cardinality(Queued) \in Nat
    <3>1. IsFiniteSet(Queued)
      BY Zenon DEF K!DeskAssumption, K!IsFiniteSet, IsFiniteSet
    <3> QED BY <3>1, FS_CardinalityType
  <2>2. 0 \in 0 .. Cardinality(Queued)
    BY <2>1
  <2>3. x2 \in [Queued -> DeskVerdicts \cup {Blank}] /\ x6 \in [Queued -> DeskRows]
    BY DEF K!Init, DeskRows
  <2>4. x7 \subseteq DeskLoads
    BY DEF K!Init, K!Asked, DeskLoads
  <2> QED BY <2>0, <2>2, <2>3, <2>4 DEF K!Init, DeskTypes
<1>2. DeskVerdictsStand
  BY <1>1 DEF K!Init, DeskVerdictsStand, DeskTypes
<1>3. DeskMounts
  BY DEF K!Init, DeskMounts
<1>4. DeskCounts
  BY DEF K!Init, K!Asked, DeskCounts, DeskTaken
<1> QED BY <1>1, <1>2, <1>3, <1>4 DEF DeskInv

LEMMA DeskPromises ==
  ASSUME K!DeskAssumption, DeskInv PROVE K!TypeOK /\ K!DecidedIsMine /\ K!CountIsWaiting
<1>1. \A s : K!Cardinality(s) = Cardinality(s)
  BY Zenon DEF K!Cardinality, Cardinality
<1>2. K!TypeOK
  BY <1>1 DEF DeskInv, DeskTypes, DeskRows, K!TypeOK
<1>3. K!DecidedIsMine
  BY DEF DeskInv, DeskTypes, DeskVerdictsStand, DeskMine, K!DecidedIsMine
<1>4. K!CountIsWaiting
  <2> SUFFICES ASSUME x3 = "ready", x7 = {}, x9 = {}, ~x10
               PROVE  DeskListed(x1)
    BY <1>1 DEF K!CountIsWaiting, DeskListed, DeskOpen
  <2>1. DeskTakenPhotos = {} /\ DeskTaken = {}
    BY DEF DeskTakenPhotos, DeskTaken
  <2> QED BY <2>1 DEF DeskInv, DeskCounts
<1> QED BY <1>2, <1>3, <1>4

\* What neither the list nor what is decided hears of.
LEMMA DeskCountsStay ==
  ASSUME DeskCounts, x1' = x1, x3' = x3, x4' = x4, x5' = x5, x7' \subseteq x7,
         DeskOpen' = DeskOpen, DeskTaken' = DeskTaken,
         \A d \in DeskTaken : DeskCurrent(d)' <=> DeskCurrent(d)
  PROVE  DeskCounts'
<1>1. DeskTakenPhotos' = DeskTakenPhotos
  BY DEF DeskTakenPhotos
<1> QED BY <1>1 DEF DeskCounts, DeskListed

LEMMA DeskNextInv == K!DeskAssumption /\ DeskInv /\ [K!Next]_(K!vars) => DeskInv'
<1> SUFFICES ASSUME K!DeskAssumption, DeskInv, [K!Next]_(K!vars) PROVE DeskInv'
  OBVIOUS
<1>0. DeskTypes /\ DeskVerdictsStand /\ DeskMounts /\ (~x10 => DeskCounts)
  BY DEF DeskInv
<1>1. CASE K!load
  <2>1. /\ x8' = x8 + 1 /\ x3' = "loading" /\ x4' = {} /\ x7' = x7 \cup {K!Asked(x8 + 1)}
        /\ x10' = (x10 /\ (x7 # {} \/ x9 # {}))
        /\ UNCHANGED <<x1, x2, x5, x9, x11>>
    BY <1>1 DEF K!load
  <2>2. /\ x6' \in [Queued -> DeskRows]
        /\ \A p \in x4 : x6'[p].is = "idle" /\ x6'[p].mount = x6[p].mount + 1
        /\ \A p \in Queued \ x4 : x6'[p] = x6[p]
    <3>1. x4 \in SUBSET Queued /\ x6' = K!Unmounted(x4)
      BY <1>0, <1>1 DEF K!load, DeskTypes
    <3> QED BY <1>0, <3>1, DeskUnmounts
  <2>3. DeskTypes'
    BY <1>0, <2>1, <2>2 DEF DeskTypes, DeskLoads, K!Asked
  <2>4. DeskVerdictsStand'
    BY <1>0, <2>1, <2>2 DEF DeskVerdictsStand
  <2>5. \A d \in x9 : ~DeskCurrent(d)'
    BY <1>0, <2>1, <2>2 DEF DeskMounts, DeskCurrent, DeskTypes, DeskDecisions, DeskRows
  <2>6. DeskMounts'
    <3>1. \A d \in x9 : d.mount <= x6'[d.photo].mount
      BY <1>0, <2>2 DEF DeskMounts, DeskTypes, DeskDecisions, DeskRows
    <3>2. \A p \in Queued : x6'[p].is = "idle"
      BY <1>0, <2>2 DEF DeskMounts
    <3> QED BY <2>1, <2>5, <3>1, <3>2 DEF DeskMounts
  <2>7. ASSUME ~x10' PROVE DeskCounts'
    <3>1. \A l \in x7 : /\ l.items # Blank => l.items = K!listQueue(x1)
                        /\ l.total # Blank => l.total = Cardinality(x1)
      BY <1>0, <2>1, <2>7 DEF DeskCounts
    <3>2. K!Asked(x8 + 1).items = Blank /\ K!Asked(x8 + 1).total = Blank
      BY DEF K!Asked
    <3>3. \A d \in DeskTaken' : ~DeskCurrent(d)'
      BY <2>1, <2>5 DEF DeskTaken
    <3> QED BY <2>1, <3>1, <3>2, <3>3 DEF DeskCounts
  <2> QED BY <2>3, <2>4, <2>6, <2>7 DEF DeskInv
<1>2. ASSUME NEW l \in x7, K!Serve(l) PROVE DeskInv'
  <2>1. UNCHANGED <<x1, x2, x3, x4, x5, x6, x8, x9, x10, x11>>
    BY <1>2 DEF K!Serve, K!list
  <2>2. /\ x7' \subseteq DeskLoads /\ x7 # {}
        /\ \A m \in x7' : m \in x7
             \/ m = [l EXCEPT !.items = K!listQueue(x1)] \/ m = [l EXCEPT !.total = Cardinality(x1)]
    <3>1. l \in DeskLoads /\ x1 \subseteq Queued /\ Cardinality(x1) \in 0 .. Cardinality(Queued)
          /\ K!Cardinality(x1) = Cardinality(x1) /\ x7 \subseteq DeskLoads
          /\ K!listQueue(x1) \subseteq x1
      BY <1>0, DeskFinite, DeskOldest DEF DeskTypes
    <3>2. /\ [l EXCEPT !.items = K!listQueue(x1)] \in DeskLoads
          /\ [l EXCEPT !.total = Cardinality(x1)] \in DeskLoads
      BY <3>1 DEF DeskLoads
    <3>3. x7' \subseteq x7 \cup {[l EXCEPT !.items = K!listQueue(x1)], [l EXCEPT !.total = Cardinality(x1)]}
      BY <1>2, <3>1 DEF K!Serve
    <3> QED BY <3>1, <3>2, <3>3
  <2>3. DeskTypes' /\ DeskVerdictsStand' /\ DeskMounts'
    BY <1>0, <2>1, <2>2 DEF DeskTypes, DeskVerdictsStand, DeskMounts, DeskCurrent
  <2>4. ASSUME ~x10' PROVE DeskCounts'
    <3>1. DeskCounts
      BY <1>0, <2>1, <2>4
    <3>2. \A m \in x7' : /\ m.items # Blank => m.items = K!listQueue(x1)
                         /\ m.total # Blank => m.total = Cardinality(x1)
      <4>1. \A m \in x7 : /\ m.items # Blank => m.items = K!listQueue(x1)
                          /\ m.total # Blank => m.total = Cardinality(x1)
        BY <3>1 DEF DeskCounts
      <4>2. l \in DeskLoads
        BY <1>0 DEF DeskTypes
      <4> QED BY <2>2, <4>1, <4>2 DEF DeskLoads
    <3>3. DeskOpen' = DeskOpen /\ DeskTaken' = DeskTaken /\ DeskTakenPhotos' = DeskTakenPhotos
          /\ \A d \in DeskTaken : DeskCurrent(d)' <=> DeskCurrent(d)
      BY <2>1 DEF DeskOpen, DeskTaken, DeskTakenPhotos, DeskCurrent
    <3>4. K!listQueue(x1)' = K!listQueue(x1)
      BY <2>1 DEF K!listQueue
    <3> QED BY <2>1, <2>2, <3>1, <3>2, <3>3, <3>4 DEF DeskCounts, DeskListed
  <2> QED BY <2>3, <2>4 DEF DeskInv
<1>3. ASSUME NEW l \in x7, K!Loaded(l) PROVE DeskInv'
  <2>1. /\ l.items # Blank /\ l.total # Blank /\ x7' = x7 \ {l}
        /\ x3' = "ready" /\ x4' = l.items /\ x5' = l.total
        /\ UNCHANGED <<x1, x2, x8, x9, x10, x11>>
    BY <1>3 DEF K!Loaded
  <2>2. l.items \in SUBSET Queued /\ l.total \in 0 .. Cardinality(Queued)
    BY <1>0, <2>1 DEF DeskTypes, DeskLoads
  <2>3. /\ x6' \in [Queued -> DeskRows]
        /\ \A p \in x4 \ l.items : x6'[p].is = "idle" /\ x6'[p].mount = x6[p].mount + 1
        /\ \A p \in Queued \ (x4 \ l.items) : x6'[p] = x6[p]
    <3>1. x4 \ l.items \in SUBSET Queued /\ x6' = K!Unmounted(x4 \ l.items)
      BY <1>0, <1>3 DEF K!Loaded, DeskTypes
    <3> QED BY <1>0, <3>1, DeskUnmounts
  <2>4. DeskTypes'
    BY <1>0, <2>1, <2>2, <2>3 DEF DeskTypes
  <2>5. DeskVerdictsStand'
    BY <1>0, <2>1, <2>3 DEF DeskVerdictsStand
  <2>6. \A d \in x9 : d.photo \in Queued /\ d.mount <= x6'[d.photo].mount
                      /\ (DeskCurrent(d)' => DeskCurrent(d) /\ x6'[d.photo] = x6[d.photo]
                                             /\ (d.photo \in x4 => d.photo \in x4'))
    BY <1>0, <2>1, <2>3 DEF DeskMounts, DeskCurrent, DeskTypes, DeskDecisions, DeskRows
  <2>7. DeskMounts'
    <3>1. \A p \in Queued : p \notin x4' => x6'[p].is = "idle"
      BY <1>0, <2>1, <2>3 DEF DeskMounts
    <3> QED BY <1>0, <2>1, <2>6, <3>1 DEF DeskMounts
  <2>8. ASSUME ~x10' PROVE DeskCounts'
    <3>1. DeskCounts /\ l.items = K!listQueue(x1) /\ l.total = Cardinality(x1)
      BY <1>0, <2>1, <2>8 DEF DeskCounts
    <3>2. \A d \in DeskTaken : ~DeskCurrent(d)
      BY <3>1 DEF DeskCounts
    <3>3. DeskTaken' = DeskTaken /\ \A d \in DeskTaken : ~DeskCurrent(d)'
      BY <2>1, <2>6, <3>2 DEF DeskTaken
    <3>4. DeskOpen' = l.items
      <4>1. l.items \subseteq x1
        BY <1>0, <3>1, DeskOldest DEF DeskTypes
      <4>2. \A p \in x1 : p \in Queued /\ x6'[p].is \notin {"approved", "rejected"}
        <5>1. \A p \in x1 : p \in Queued /\ x2'[p] = Blank
          BY <1>0, <2>1 DEF DeskVerdictsStand, DeskTypes
        <5>2. \A c \in {"approved", "rejected"} : DeskMine(c) # Blank
          BY DEF DeskMine, K!DeskAssumption
        <5> QED BY <2>5, <5>1, <5>2 DEF DeskVerdictsStand
      <4> QED BY <2>1, <4>1, <4>2 DEF DeskOpen
    <3>5. (\A d \in DeskTaken' : DeskCurrent(d)') => DeskTakenPhotos' = {}
      BY <3>3 DEF DeskTakenPhotos
    <3>6. /\ l.items \subseteq x1 /\ \A p \in l.items, q \in x1 \ l.items : p < q
          /\ Cardinality(l.items) < QueueLimit => l.items = x1
      BY <1>0, <3>1, DeskOldest DEF DeskTypes
    <3>7. ASSUME DeskTakenPhotos' = {} PROVE DeskListed(x1 \cup DeskTakenPhotos)'
      BY <2>1, <3>1, <3>4, <3>6, <3>7 DEF DeskListed
    <3>8. K!listQueue(x1)' = K!listQueue(x1)
      BY <2>1 DEF K!listQueue
    <3> QED BY <2>1, <3>1, <3>3, <3>5, <3>7, <3>8 DEF DeskCounts
  <2> QED BY <2>4, <2>5, <2>7, <2>8 DEF DeskInv
<1>4. ASSUME NEW l \in x7, K!LoadFails(l) PROVE DeskInv'
  <2>1. /\ x7' = x7 \ {l} /\ x3' = "error" /\ x4' = {} /\ x11' = x11 + 1
        /\ UNCHANGED <<x1, x2, x5, x8, x9, x10>>
    BY <1>4 DEF K!LoadFails, K!Trouble
  <2>2. /\ x6' \in [Queued -> DeskRows]
        /\ \A p \in x4 : x6'[p].is = "idle" /\ x6'[p].mount = x6[p].mount + 1
        /\ \A p \in Queued \ x4 : x6'[p] = x6[p]
    <3>1. x4 \in SUBSET Queued /\ x6' = K!Unmounted(x4)
      BY <1>0, <1>4 DEF K!LoadFails, DeskTypes
    <3> QED BY <1>0, <3>1, DeskUnmounts
  <2>3. DeskTypes'
    BY <1>0, <2>1, <2>2 DEF DeskTypes
  <2>4. DeskVerdictsStand'
    BY <1>0, <2>1, <2>2 DEF DeskVerdictsStand
  <2>5. \A d \in x9 : ~DeskCurrent(d)'
    BY <1>0, <2>1, <2>2 DEF DeskMounts, DeskCurrent, DeskTypes, DeskDecisions, DeskRows
  <2>6. DeskMounts'
    <3>1. \A d \in x9 : d.mount <= x6'[d.photo].mount
      BY <1>0, <2>2 DEF DeskMounts, DeskTypes, DeskDecisions, DeskRows
    <3>2. \A p \in Queued : x6'[p].is = "idle"
      BY <1>0, <2>2 DEF DeskMounts
    <3> QED BY <2>1, <2>5, <3>1, <3>2 DEF DeskMounts
  <2>7. ~x10' => DeskCounts'
    BY <1>0, <2>1, <2>5 DEF DeskCounts, DeskTaken
  <2> QED BY <2>3, <2>4, <2>6, <2>7 DEF DeskInv
<1>5. ASSUME NEW p \in Queued, NEW is \in {"idle", "rejecting"}, x4' = x4,
             p \in x4, x6[p].is \in {"idle", "failed", "rejecting"}, x6' = [x6 EXCEPT ![p].is = is],
             UNCHANGED <<x1, x2, x3, x5, x7, x8, x9, x10, x11>>
      PROVE  DeskInv'
  <2>1. /\ x6' \in [Queued -> DeskRows]
        /\ x6'[p].is = is /\ \A q \in Queued : x6'[q].mount = x6[q].mount
        /\ \A q \in Queued \ {p} : x6'[q] = x6[q]
    BY <1>0, <1>5, DeskRowSet
  <2>2. \A d \in x9 : d.photo \in Queued /\ (DeskCurrent(d)' <=> DeskCurrent(d))
                      /\ (DeskCurrent(d) => d.photo # p)
    BY <1>0, <1>5, <2>1 DEF DeskMounts, DeskCurrent, DeskTypes, DeskDecisions
  <2>3. DeskTypes'
    BY <1>0, <1>5, <2>1 DEF DeskTypes
  <2>4. DeskVerdictsStand'
    BY <1>0, <1>5, <2>1 DEF DeskVerdictsStand
  <2>5. DeskMounts'
    BY <1>0, <1>5, <2>1, <2>2 DEF DeskMounts
  <2>6. ASSUME ~x10' PROVE DeskCounts'
    <3>1. DeskOpen' = DeskOpen
      BY <1>0, <1>5, <2>1 DEF DeskOpen, DeskTypes
    <3>2. DeskTaken' = DeskTaken /\ \A d \in DeskTaken : DeskCurrent(d)' <=> DeskCurrent(d)
      BY <1>5, <2>2 DEF DeskTaken
    <3> QED BY <1>0, <1>5, <2>6, <3>1, <3>2, DeskCountsStay
  <2> QED BY <2>3, <2>4, <2>5, <2>6 DEF DeskInv
<1>6. ASSUME NEW p \in Queued, K!reject(p) \/ K!cancel(p) PROVE DeskInv'
  <2>1. PICK is \in {"idle", "rejecting"} :
           /\ p \in x4 /\ x6[p].is \in {"idle", "failed", "rejecting"}
           /\ x6' = [x6 EXCEPT ![p].is = is] /\ x4' = x4
           /\ UNCHANGED <<x1, x2, x3, x5, x7, x8, x9, x10, x11>>
    BY <1>6 DEF K!reject, K!cancel, K!Shows, K!list
  <2> QED BY <1>5, <2>1
<1>7. ASSUME NEW p \in Queued, NEW decision \in {"approved", "rejected"}, K!decide(p, decision)
      PROVE  DeskInv'
  <2> DEFINE made == [photo |-> p, decision |-> decision, mount |-> x6[p].mount, is |-> "sent"]
  <2>1. /\ x3 = "ready" /\ p \in x4 /\ x6[p].is \in {"idle", "failed", "rejecting"}
        /\ x6' = [x6 EXCEPT ![p].is = "saving"] /\ x9' = x9 \cup {made}
        /\ UNCHANGED <<x1, x2, x3, x4, x5, x7, x8, x10, x11>>
    BY <1>7 DEF K!decide, K!Shows, K!list
  <2>2. /\ x6' \in [Queued -> DeskRows]
        /\ x6'[p].is = "saving" /\ \A q \in Queued : x6'[q].mount = x6[q].mount
        /\ \A q \in Queued \ {p} : x6'[q] = x6[q]
    BY <1>0, <2>1, DeskRowSet
  <2>3. \A d \in x9 : d.photo \in Queued /\ (DeskCurrent(d)' <=> DeskCurrent(d))
                      /\ (DeskCurrent(d) => d.photo # p)
    BY <1>0, <2>1, <2>2 DEF DeskMounts, DeskCurrent, DeskTypes, DeskDecisions
  <2>4. made \in DeskDecisions /\ made.photo = p /\ made.is = "sent" /\ made.mount = x6[p].mount
        /\ x6[p].mount \in Nat
    BY <1>0 DEF DeskDecisions, DeskTypes, DeskRows
  <2> HIDE DEF made
  <2>5. DeskTypes'
    BY <1>0, <2>1, <2>2, <2>4 DEF DeskTypes
  <2>6. DeskVerdictsStand'
    BY <1>0, <2>1, <2>2, <2>4 DEF DeskVerdictsStand
  <2>7. DeskMounts'
    BY <1>0, <2>1, <2>2, <2>3, <2>4 DEF DeskMounts
  <2>8. ASSUME ~x10' PROVE DeskCounts'
    <3>1. DeskOpen' = DeskOpen
      BY <1>0, <2>1, <2>2 DEF DeskOpen, DeskTypes
    <3>2. DeskTaken' = DeskTaken /\ \A d \in DeskTaken : DeskCurrent(d)' <=> DeskCurrent(d)
      BY <2>1, <2>3, <2>4 DEF DeskTaken
    <3> QED BY <1>0, <2>1, <2>8, <3>1, <3>2, DeskCountsStay
  <2> QED BY <2>5, <2>6, <2>7, <2>8 DEF DeskInv
<1>8. ASSUME NEW d \in x9, K!ServeDecision(d) PROVE DeskInv'
  <2> DEFINE taken == d.photo \in x1
             served == [d EXCEPT !.is = IF taken THEN "taken" ELSE "refused"]
  <2>1. /\ d.is = "sent" /\ x9' = (x9 \ {d}) \cup {served}
        /\ UNCHANGED <<x3, x4, x5, x6, x7, x8, x11>>
    BY <1>8 DEF K!ServeDecision, K!list
  <2>2. d \in DeskDecisions /\ d.photo \in Queued
    BY <1>0 DEF DeskTypes, DeskDecisions
  <2>3. /\ served \in DeskDecisions /\ served.photo = d.photo /\ served.mount = d.mount
        /\ served.decision = d.decision /\ served.is = IF taken THEN "taken" ELSE "refused"
    BY <2>2 DEF DeskDecisions
  <2>4. /\ \A c : DeskCurrent(c)' <=> DeskCurrent(c)
        /\ DeskCurrent(served) <=> DeskCurrent(d)
    BY <2>1, <2>3 DEF DeskCurrent
  <2> HIDE DEF served
  <2>5. DeskMounts'
    BY <1>0, <2>1, <2>3, <2>4 DEF DeskMounts
  <2>6. CASE ~taken
    <3>1. UNCHANGED <<x1, x2, x10>>
      BY <1>8, <2>6 DEF K!ServeDecision
    <3>2. DeskTypes' /\ DeskVerdictsStand'
      BY <1>0, <2>1, <2>3, <2>6, <3>1 DEF DeskTypes, DeskVerdictsStand
    <3>3. ASSUME ~x10' PROVE DeskCounts'
      <4>1. DeskOpen' = DeskOpen /\ DeskTaken' = DeskTaken
        BY <2>1, <2>3, <2>6 DEF DeskOpen, DeskTaken
      <4> QED BY <1>0, <2>1, <2>4, <3>1, <3>3, <4>1, DeskCountsStay
    <3> QED BY <2>5, <3>2, <3>3 DEF DeskInv
  <2>7. CASE taken
    <3>1. /\ x1' = x1 \ {d.photo} /\ x2' = [x2 EXCEPT ![d.photo] = DeskMine(d.decision)]
          /\ x10' = (x10 \/ x7 # {})
      BY <1>8, <2>7 DEF K!ServeDecision, DeskMine
    <3>2. x2[d.photo] = Blank
      BY <1>0, <2>7 DEF DeskVerdictsStand
    <3>3. \A c \in {"approved", "rejected"} : DeskMine(c) # Blank /\ DeskMine(c) \in DeskVerdicts
      BY DEF DeskMine, DeskVerdicts, K!DeskAssumption
    <3>4. /\ x2' \in [Queued -> DeskVerdicts \cup {Blank}] /\ x2'[d.photo] = DeskMine(d.decision)
          /\ \A p \in Queued \ {d.photo} : x2'[p] = x2[p]
      BY <1>0, <2>2, <3>1, <3>3 DEF DeskTypes, DeskDecisions
    <3>5. DeskTypes'
      BY <1>0, <2>1, <2>3, <3>1, <3>4 DEF DeskTypes
    <3>6. DeskVerdictsStand'
      <4>1. \A p \in x1' : x2'[p] = Blank
        BY <1>0, <3>1, <3>4 DEF DeskVerdictsStand, DeskTypes
      <4>2. \A p \in Queued : x6[p].is \in {"approved", "rejected"} => x2'[p] = DeskMine(x6[p].is)
        BY <1>0, <3>2, <3>3, <3>4 DEF DeskVerdictsStand
      <4>3. \A c \in x9' : c.is = "taken" => x2'[c.photo] = DeskMine(c.decision)
        <5>1. \A c \in x9 : c.is = "taken" => c.photo \in Queued /\ c.photo # d.photo
          BY <1>0, <3>2, <3>3 DEF DeskVerdictsStand, DeskTypes, DeskDecisions
        <5> QED BY <1>0, <2>1, <2>3, <3>4, <5>1 DEF DeskVerdictsStand
      <4> QED BY <2>1, <4>1, <4>2, <4>3 DEF DeskVerdictsStand
    <3>7. ASSUME ~x10' PROVE DeskCounts'
      <4>1. DeskCounts /\ x7 = {} /\ x7' = {}
        BY <1>0, <2>1, <3>1, <3>7
      <4>2. DeskTaken' = DeskTaken \cup {served}
        BY <2>1, <2>3, <2>7 DEF DeskTaken
      <4>3. DeskTakenPhotos' = DeskTakenPhotos \cup {d.photo}
        BY <2>3, <4>2 DEF DeskTakenPhotos
      <4>4. x1 \cup DeskTakenPhotos = x1' \cup DeskTakenPhotos'
        BY <2>7, <3>1, <4>3
      <4>5. (\A c \in DeskTaken' : DeskCurrent(c)') => \A c \in DeskTaken : DeskCurrent(c)
        BY <2>4, <4>2
      <4>6. DeskOpen' = DeskOpen
        BY <2>1 DEF DeskOpen
      <4> QED BY <2>1, <4>1, <4>4, <4>5, <4>6 DEF DeskCounts, DeskListed
    <3> QED BY <2>5, <3>5, <3>6, <3>7 DEF DeskInv
  <2> QED BY <2>6, <2>7
<1>9. ASSUME NEW d \in x9, K!DecisionReturns(d) PROVE DeskInv'
  <2>1. /\ d.is # "sent" /\ x9' = x9 \ {d}
        /\ x5' = IF d.is = "taken" /\ x3 = "ready" /\ x5 > 0 THEN x5 - 1 ELSE x5
        /\ x10' = (x10 \/ x7 # {} \/ ~DeskCurrent(d))
        /\ UNCHANGED <<x1, x2, x3, x4, x7, x8, x11>>
    BY <1>9 DEF K!DecisionReturns, K!Counts, DeskCurrent
  <2>2. d \in DeskDecisions /\ d.photo \in Queued /\ d.decision \in {"approved", "rejected"}
        /\ d.is \in {"taken", "refused"}
    BY <1>0, <2>1 DEF DeskTypes, DeskDecisions
  <2>3. x5' \in 0 .. Cardinality(Queued)
    <3>1. x5 \in 0 .. Cardinality(Queued)
      BY <1>0 DEF DeskTypes
    <3>2. Cardinality(Queued) \in Nat
      <4>1. IsFiniteSet(Queued)
        BY Zenon DEF K!DeskAssumption, K!IsFiniteSet, IsFiniteSet
      <4> QED BY <4>1, FS_CardinalityType
    <3> QED BY <2>1, <3>1, <3>2
  <2>4. CASE ~DeskCurrent(d)
    <3>1. x6' = x6 /\ x10'
      BY <1>9, <2>1, <2>4 DEF K!DecisionReturns, K!RowShows, DeskCurrent
    <3>2. DeskTypes' /\ DeskVerdictsStand' /\ DeskMounts'
      BY <1>0, <2>1, <2>3, <3>1 DEF DeskTypes, DeskVerdictsStand, DeskMounts, DeskCurrent
    <3> QED BY <3>1, <3>2 DEF DeskInv
  <2>5. CASE DeskCurrent(d)
    <3> DEFINE is == IF d.is = "taken" THEN d.decision ELSE "failed"
    <3>1. x6' = [x6 EXCEPT ![d.photo].is = is]
      BY <1>9, <2>5 DEF K!DecisionReturns, K!RowShows, K!ShownAfter, DeskCurrent
    <3>2. is \in {"idle", "rejecting", "saving", "failed", "approved", "rejected"}
      BY <2>2
    <3> HIDE DEF is
    <3>3. /\ x6' \in [Queued -> DeskRows]
          /\ x6'[d.photo].is = is /\ \A q \in Queued : x6'[q].mount = x6[q].mount
          /\ \A q \in Queued \ {d.photo} : x6'[q] = x6[q]
      BY <1>0, <2>2, <3>1, <3>2, DeskRowSet
    <3>4. d.photo \in x4 /\ x6[d.photo].is = "saving"
      BY <1>0, <2>5 DEF DeskMounts
    <3>5. \A c \in x9' : c \in x9 /\ c.photo \in Queued /\ (DeskCurrent(c)' <=> DeskCurrent(c))
                        /\ (DeskCurrent(c) => c.photo # d.photo)
      BY <1>0, <2>1, <2>5, <3>3 DEF DeskMounts, DeskCurrent, DeskTypes, DeskDecisions
    <3>6. DeskTypes'
      BY <1>0, <2>1, <2>3, <3>3 DEF DeskTypes
    <3>7. DeskVerdictsStand'
      BY <1>0, <2>1, <2>2, <3>3 DEF DeskVerdictsStand, is
    <3>8. DeskMounts'
      BY <1>0, <2>1, <3>3, <3>4, <3>5 DEF DeskMounts
    <3>9. ASSUME ~x10' PROVE DeskCounts'
      <4>1. DeskCounts /\ x7 = {} /\ x7' = {}
        BY <1>0, <2>1, <3>9
      <4>2. DeskTaken' = DeskTaken \ {d}
        BY <2>1 DEF DeskTaken
      <4>3. SUFFICES ASSUME x3 = "ready", \A c \in DeskTaken' : DeskCurrent(c)'
                     PROVE  DeskListed(x1 \cup DeskTakenPhotos)'
        BY <2>1, <4>1 DEF DeskCounts
      <4>4. \A c \in DeskTaken : DeskCurrent(c)
        BY <2>1, <2>5, <3>5, <4>2, <4>3 DEF DeskTaken
      <4>5. DeskListed(x1 \cup DeskTakenPhotos)
        BY <4>1, <4>3, <4>4 DEF DeskCounts
      <4>6. CASE d.is # "taken"
        <5>1. DeskTaken' = DeskTaken /\ DeskTakenPhotos' = DeskTakenPhotos
          BY <4>2, <4>6 DEF DeskTaken, DeskTakenPhotos
        <5>2. DeskOpen' = DeskOpen
          BY <1>0, <2>1, <3>3, <3>4, <4>6 DEF DeskOpen, DeskTypes, is
        <5> QED BY <2>1, <4>5, <4>6, <5>1, <5>2 DEF DeskListed
      <4>7. CASE d.is = "taken"
        <5>1. d.photo \notin x1
          <6>1. x2[d.photo] = DeskMine(d.decision) /\ DeskMine(d.decision) # Blank
            BY <1>0, <2>2, <4>7 DEF DeskVerdictsStand, DeskMine, K!DeskAssumption
          <6> QED BY <1>0, <6>1 DEF DeskVerdictsStand
        <5>2. DeskTakenPhotos' = DeskTakenPhotos \ {d.photo}
          <6>1. \A c \in DeskTaken' : c.photo # d.photo
            BY <3>5, <4>2, <4>4, <2>1 DEF DeskTaken
          <6> QED BY <4>2, <6>1 DEF DeskTakenPhotos
        <5>3. DeskOpen' = DeskOpen \ {d.photo} /\ d.photo \in DeskOpen
          BY <1>0, <2>1, <2>2, <3>3, <3>4, <4>7 DEF DeskOpen, DeskTypes, is
        <5> DEFINE queue == x1 \cup DeskTakenPhotos
        <5>4. x1' \cup DeskTakenPhotos' = queue \ {d.photo} /\ d.photo \in queue
          BY <2>1, <4>5, <5>1, <5>2, <5>3 DEF DeskListed
        <5>5. IsFiniteSet(queue)
          <6>1. queue \subseteq Queued
            BY <1>0 DEF DeskTypes, DeskTakenPhotos, DeskTaken, DeskDecisions
          <6>2. IsFiniteSet(Queued)
            BY Zenon DEF K!DeskAssumption, K!IsFiniteSet, IsFiniteSet
          <6> QED BY <6>1, <6>2, FS_Subset
        <5>6. Cardinality(queue \ {d.photo}) = Cardinality(queue) - 1
              /\ Cardinality(queue) \in Nat /\ Cardinality(queue \ {d.photo}) \in Nat
          BY <5>4, <5>5, FS_RemoveElement, FS_CardinalityType
        <5>7. x5' = x5 - 1 /\ x5 = Cardinality(queue)
          BY <2>1, <4>3, <4>5, <4>7, <5>6 DEF DeskListed
        <5> HIDE DEF queue
        <5>8. /\ DeskOpen \subseteq queue /\ \A p \in DeskOpen, q \in queue \ DeskOpen : p < q
              /\ Cardinality(x4) < QueueLimit => DeskOpen = queue
          BY <4>5 DEF DeskListed, queue
        <5> QED BY <2>1, <5>3, <5>4, <5>6, <5>7, <5>8 DEF DeskListed
      <4> QED BY <4>6, <4>7
    <3> QED BY <3>6, <3>7, <3>8, <3>9 DEF DeskInv
  <2> QED BY <2>4, <2>5
<1>10. ASSUME NEW d \in x9, K!DecisionLost(d) PROVE DeskInv'
  <2>1. /\ x9' = x9 \ {d} /\ x10' = TRUE /\ x11' = x11 + 1
        /\ UNCHANGED <<x1, x2, x3, x4, x5, x6, x7, x8>>
    BY <1>10 DEF K!DecisionLost, K!Trouble, K!list
  <2> QED BY <1>0, <2>1 DEF DeskInv, DeskTypes, DeskVerdictsStand, DeskMounts, DeskCurrent
<1>11. ASSUME NEW p \in Queued, K!ChangesElsewhere(p) PROVE DeskInv'
  <2>1. /\ x10' = TRUE /\ x11' = x11 + 1 /\ UNCHANGED <<x3, x4, x5, x6, x7, x8, x9>>
    BY <1>11 DEF K!ChangesElsewhere, K!Trouble, K!list
  <2>2. DeskMounts'
    BY <1>0, <2>1 DEF DeskMounts, DeskCurrent
  <2>3. DeskTypes' /\ DeskVerdictsStand'
    <3>1. CASE p \in x1 /\ x1' = x1 \ {p} /\ x2' = [x2 EXCEPT ![p] = [by |-> "another", decision |-> "rejected"]]
      <4>1. x2[p] = Blank /\ \A c \in {"approved", "rejected"} : DeskMine(c) # Blank
        BY <1>0, <3>1 DEF DeskVerdictsStand, DeskMine, K!DeskAssumption
      <4>2. x2' \in [Queued -> DeskVerdicts \cup {Blank}] /\ \A q \in Queued \ {p} : x2'[q] = x2[q]
        BY <1>0, <3>1 DEF DeskTypes, DeskVerdicts
      <4>3. DeskTypes'
        BY <1>0, <2>1, <3>1, <4>2 DEF DeskTypes
      <4>4. DeskVerdictsStand'
        BY <1>0, <2>1, <3>1, <4>1, <4>2 DEF DeskVerdictsStand, DeskTypes, DeskDecisions
      <4> QED BY <4>3, <4>4
    <3>2. CASE x2[p] = Blank /\ x1' = x1 \cup {p} /\ x2' = x2
      BY <1>0, <2>1, <3>2 DEF DeskTypes, DeskVerdictsStand
    <3> QED BY <1>11, <3>1, <3>2 DEF K!ChangesElsewhere
  <2> QED BY <2>1, <2>2, <2>3 DEF DeskInv
<1>12. CASE UNCHANGED K!vars
  BY <1>0, <1>12 DEF K!vars, K!list, DeskInv, DeskTypes, DeskVerdictsStand, DeskMounts, DeskCurrent,
                     DeskCounts, DeskListed, K!listQueue, DeskOpen, DeskTaken, DeskTakenPhotos
<1> QED
  BY <1>1, <1>2, <1>3, <1>4, <1>6, <1>7, <1>8, <1>9, <1>10, <1>11, <1>12 DEF K!Next

-----------------------------------------------------------------------------
(* The screens side by side                                                *)

ScreensInv ==
  /\ screen = "device"    => DeviceInv
  /\ screen = "album"     => AlbumInv
  /\ screen = "profile"   => ProfileInv
  /\ screen = "questions" => QuestionsInv
  /\ screen = "settings"  => SettingsInv
  /\ screen = "panel"     => PanelInv
  /\ screen = "desk"      => DeskInv

LEMMA ScreensInit == InitScreens => ScreensInv
<1> SUFFICES ASSUME InitScreens PROVE ScreensInv
  OBVIOUS
<1>1. /\ screen = "device"    => D!Init
      /\ screen = "album"     => A!Init
      /\ screen = "profile"   => P!Init
      /\ screen = "questions" => Q!Init
      /\ screen = "settings"  => M!Init
      /\ screen = "panel"     => L!Init
      /\ screen = "desk"      => K!Init
  BY DEF InitScreens
<1> QED BY <1>1, ScreensAssumption, DeviceInitInv, AlbumInitInv, ProfileInitInv, QuestionsInitInv,
           SettingsInitInv, PanelInitInv, DeskInitInv DEF ScreensInv, ScreensAssumption

\* A step is one of the screen's, or nothing moves.
LEMMA StepOfScreen ==
  ASSUME [NextScreens]_<<screen, fields>>
  PROVE  /\ screen' = screen
         /\ screen = "device"    => [D!Next]_(D!vars)
         /\ screen = "album"     => [A!Next]_(A!vars)
         /\ screen = "profile"   => [P!Next]_(P!vars)
         /\ screen = "questions" => [Q!Next]_(Q!vars)
         /\ screen = "settings"  => [M!Next]_(M!vars)
         /\ screen = "panel"     => [L!Next]_(L!vars)
         /\ screen = "desk"      => [K!Next]_(K!vars)
<1>1. CASE NextScreens
  BY <1>1 DEF NextScreens
<1>2. CASE UNCHANGED <<screen, fields>>
  <2>1. screen' = screen
        /\ UNCHANGED <<x1, x2, x3, x4, x5, x6, x7, x8, x9, x10, x11, x12, x13, x14, x15>>
    BY <1>2 DEF fields, Over10, Over11, Over12, Over13
  <2>2. UNCHANGED D!vars
    BY <2>1 DEF D!vars
  <2>3. UNCHANGED A!vars
    BY <2>1 DEF A!vars
  <2>4. UNCHANGED P!vars
    BY <2>1 DEF P!vars, P!server, P!screen, P!edited
  <2>5. UNCHANGED Q!vars
    BY <2>1 DEF Q!vars, Q!api, Q!screen
  <2>6. UNCHANGED M!vars
    BY <2>1 DEF M!vars
  <2>7. UNCHANGED L!vars
    BY <2>1 DEF L!vars
  <2>8. UNCHANGED K!vars
    BY <2>1 DEF K!vars, K!list
  <2> QED BY <2>1, <2>2, <2>3, <2>4, <2>5, <2>6, <2>7, <2>8
<1> QED BY <1>1, <1>2

LEMMA ScreensKeep == ScreensInv /\ [NextScreens]_<<screen, fields>> => ScreensInv'
<1> SUFFICES ASSUME ScreensInv, [NextScreens]_<<screen, fields>> PROVE ScreensInv'
  OBVIOUS
<1>1. screen' = screen
  BY StepOfScreen
<1>2. screen = "device" => DeviceInv'
  BY StepOfScreen, ScreensAssumption, DeviceNextInv DEF ScreensInv, ScreensAssumption
<1>3. screen = "album" => AlbumInv'
  BY StepOfScreen, ScreensAssumption, AlbumNextInv DEF ScreensInv, ScreensAssumption
<1>4. screen = "profile" => ProfileInv'
  BY StepOfScreen, ScreensAssumption, ProfileNextInv DEF ScreensInv, ScreensAssumption
<1>5. screen = "questions" => QuestionsInv'
  BY StepOfScreen, ScreensAssumption, QuestionsNextInv DEF ScreensInv, ScreensAssumption
<1>6. screen = "settings" => SettingsInv'
  BY StepOfScreen, ScreensAssumption, SettingsNextInv DEF ScreensInv, ScreensAssumption
<1>7. screen = "panel" => PanelInv'
  BY StepOfScreen, ScreensAssumption, PanelNextInv DEF ScreensInv, ScreensAssumption
<1>8. screen = "desk" => DeskInv'
  BY StepOfScreen, ScreensAssumption, DeskNextInv DEF ScreensInv, ScreensAssumption
<1> QED BY <1>1, <1>2, <1>3, <1>4, <1>5, <1>6, <1>7, <1>8 DEF ScreensInv

\* Whichever answers are late, lost or of an older list, and however often the person
\* taps, leaves and comes back: the phone stays signed in, and out, as its owner left it;
\* the photos, the profile, the questions, the language and the theme on the screen are
\* what the API keeps and what was chosen; the panel shows the session it has stored,
\* and the staff's queue the decisions that stand.
THEOREM ScreensKeepTheirWordAlways == SpecScreens => []ScreensKeepTheirWord
<1>1. ScreensInv => ScreensKeepTheirWord
  <2> SUFFICES ASSUME ScreensInv PROVE ScreensKeepTheirWord
    OBVIOUS
  <2>0. /\ D!DeviceAssumption /\ A!AlbumAssumption /\ P!ProfileAssumption /\ Q!QuestionsAssumption
        /\ M!SettingsAssumption /\ L!PanelAssumption /\ K!DeskAssumption
    BY ScreensAssumption DEF ScreensAssumption
  <2>1. screen = "device" => D!TypeOK /\ D!StaysSignedIn /\ D!StaysSignedOut
    BY <2>0, DevicePromises DEF ScreensInv
  <2>2. screen = "album" => A!TypeOK /\ A!ScreenIsTrue /\ A!OneTapOnePhoto
    BY <2>0, AlbumPromises DEF ScreensInv
  <2>3. screen = "profile" =>
          P!TypeOK /\ P!KeystrokesAreKept /\ P!SavedIsStored /\ P!NoProfileOfTombstone
    BY <2>0, ProfilePromises DEF ScreensInv
  <2>4. screen = "questions" =>
          Q!TypeOK /\ Q!NothingBeforeConsent /\ Q!GateIsTheirs /\ Q!LastPondStands
    BY <2>0, QuestionsPromises DEF ScreensInv
  <2>5. screen = "settings" =>
          M!TypeOK /\ M!OnlyServedIsShown /\ M!ChoiceStands /\ M!FollowsThePhone
    BY <2>0, SettingsPromises DEF ScreensInv
  <2>6. screen = "panel" =>
          L!TypeOK /\ L!CodesAreSentOnce /\ L!ShownIsStored /\ L!RefusalStaysShown
    BY <2>0, PanelPromises DEF ScreensInv
  <2>7. screen = "desk" => K!TypeOK /\ K!DecidedIsMine /\ K!CountIsWaiting
    BY <2>0, DeskPromises DEF ScreensInv
  <2> QED BY <2>1, <2>2, <2>3, <2>4, <2>5, <2>6, <2>7 DEF ScreensKeepTheirWord
<1> QED BY <1>1, ScreensInit, ScreensKeep, PTL DEF SpecScreens
=============================================================================
