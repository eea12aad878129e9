--------------------------- MODULE AccountsProofs ---------------------------
(***************************************************************************)
(* What holds of Accounts for any devices, names, fields and bounds.       *)
(*                                                                         *)
(*   1. facts about the data operators of Collection                       *)
(*   2. the type invariant                                                 *)
(*   3. DenseIds: the ids on the server have no gap                        *)
(*   4. IncompleteHeals: a record of the server lacks a child only while   *)
(*      some device still has that child's write to send, or when a        *)
(*      process died with writes of that record                            *)
(*   5. UncontestedSurvive, ReadsOwnAccount: an account whose id no other  *)
(*      sign-up took is what its device reads                              *)
(*   6. OverlayIsReplay: what a device is shown is what the server will    *)
(*      hold once the device's writes are applied                          *)
(*                                                                         *)
(* By itself IncompleteHeals is not inductive: the step that applies the   *)
(* write of a whole record wipes every child, so the children's writes     *)
(* must be known to follow it in the same queue; and the step that applies *)
(* a child's write must be known to find the record there already.  Nor    *)
(* are UncontestedSurvive and ReadsOwnAccount: what is read now says       *)
(* nothing of what is read when a write is acknowledged or sent again, so  *)
(* each child must be known to have its value in the last write to it, or  *)
(* on the server, or in the view that is open; and a device must be known  *)
(* to write only to ids of its own accounts, or another's write could      *)
(* still come.                                                             *)
(***************************************************************************)
EXTENDS Accounts, CollectionProofs

Data == UNION {[S -> Record] : S \in {T \in SUBSET Nat : IsFiniteSet(T)}}
Event == [cb : Callbacks, snap : Data]

-----------------------------------------------------------------------------
(* 1. Data. *)

(* A non-empty set of natural numbers has a least element.                 *)
LEMMA MinExists ==
  ASSUME NEW S \in SUBSET Nat, S # {}
  PROVE  \E n \in S : \A m \in S : n <= m
<1>1. PICK x \in S : \A y \in S : ~ (<<y, x>> \in OpToRel(<, Nat))
  BY NatLessThanWellFounded, WFMin
<1>2. \A y \in S : ~ (y < x)
  BY <1>1 DEF OpToRel
<1> QED BY <1>2

(* A bounded non-empty set of natural numbers has its Max as an element.   *)
LEMMA MaxOfBounded ==
  ASSUME NEW S \in SUBSET Nat, S # {}, NEW b \in Nat, \A n \in S : n <= b
  PROVE  Max(S) \in S /\ \A n \in S : n <= Max(S)
<1> DEFINE U == {u \in Nat : \A n \in S : n <= u}
<1>1. PICK u \in U : \A v \in U : u <= v
  <2>1. b \in U /\ U \in SUBSET Nat OBVIOUS
  <2> HIDE DEF U
  <2> QED BY <2>1, MinExists
<1>2. u \in S
  <2>1. SUFFICES ASSUME u \notin S PROVE FALSE OBVIOUS
  <2>2. PICK n \in S : n <= u BY <1>1
  <2>3. n # u /\ u - 1 \in Nat BY <2>1, <2>2
  <2>4. \A m \in S : m <= u - 1 BY <2>1, <1>1
  <2> QED BY <2>3, <2>4, <1>1
<1>3. \A n \in S : u >= n BY <1>1
<1> QED BY <1>2, <1>3 DEF Max

(* Data is a finite map from ids to records.                               *)
LEMMA DataIsData ==
  ASSUME NEW D
  PROVE  /\ D \in Data => IsData(D)
         /\ D \in Data => D = [k \in DOMAIN D |-> D[k]]
BY DEF Data, IsData

(* A function from finitely many ids to records is data.                   *)
LEMMA DataIntro ==
  ASSUME NEW S \in SUBSET Nat, IsFiniteSet(S), NEW f \in [S -> Record]
  PROVE  f \in Data
BY DEF Data

(* The empty collection is data.                                           *)
LEMMA NoRecordsData == NoRecords \in Data
<1>1. NoRecords \in [{} -> Record] BY DEF NoRecords
<1> QED BY <1>1, FS_EmptySet, DataIntro

(* The record setValue(id) leaves, with no child, is a record.             *)
LEMMA BlankRecord == Blank \in Record
BY DEF Blank, Record, Value

(* What is read at any key of the data is a record.                        *)
LEMMA RecordAtType ==
  ASSUME NEW D \in Data, NEW k
  PROVE  RecordAt(D, k) \in Record
BY BlankRecord, DataIsData DEF RecordAt, IsData

(* Signing up and logging in remove no record.                             *)
LEMMA NoRemoval ==
  ASSUME NEW w \in Write
  PROVE  w.field # Gone
BY CollectionAssumption DEF Write, Leaf, Gone

(* Applying a write gives data, with the write's key added.                *)
LEMMA ApplyType ==
  ASSUME NEW D \in Data, NEW w \in Write
  PROVE  /\ Apply(D, w) \in Data
         /\ DOMAIN Apply(D, w) = DOMAIN D \cup {w.key}
<1> DEFINE S == DOMAIN D \cup {w.key}
<1>1. S \in SUBSET Nat /\ IsFiniteSet(S)
  BY DataIsData, FS_AddElement DEF IsData, Write
<1>2. \A k \in S : Apply(D, w)[k] \in Record
  BY NoRemoval, DataIsData, RecordAtType, BlankRecord DEF Apply, IsData, Write, Record
<1>3. DOMAIN Apply(D, w) = S /\ Apply(D, w) \in [S -> Record]
  BY <1>2, NoRemoval DEF Apply
<1> QED BY <1>1, <1>3, DataIntro

(* The keys of finitely many writes are finitely many ids.                 *)
LEMMA KeysType ==
  ASSUME NEW ws \in Seq(Write)
  PROVE  KeysOf(ws) \subseteq Nat /\ IsFiniteSet(KeysOf(ws))
<1>1. Len(ws) \in Nat /\ DOMAIN ws = 1..Len(ws)
  OBVIOUS
<1>2. \A i \in DOMAIN ws : ws[i].key \in Nat
  <2>1. \A i \in DOMAIN ws : ws[i] \in Write OBVIOUS
  <2> QED BY <2>1 DEF Write
<1>3. IsFiniteSet(DOMAIN ws)
  BY <1>1, FS_Interval
<1> DEFINE key == [i \in DOMAIN ws |-> ws[i].key]
<1>4. KeysOf(ws) = {key[i] : i \in DOMAIN ws}
  BY DEF KeysOf
<1>5. key \in Surjection(DOMAIN ws, KeysOf(ws))
  BY <1>4 DEF Surjection
<1>6. IsFiniteSet(KeysOf(ws))
  <2> HIDE DEF key
  <2> QED BY <1>3, <1>5, FS_Surjection
<1> QED BY <1>2, <1>6 DEF KeysOf

(* What a device is shown of a child is a value.                           *)
LEMMA ShownType ==
  ASSUME NEW D \in Data, NEW ws \in Seq(Write), NEW k, NEW f \in Fields
  PROVE  Shown(D, ws, k, f) \in Value
<1>1. CASE Deciding(ws, k, f) = {}
  BY <1>1, RecordAtType DEF Shown, Record
<1>2. CASE Deciding(ws, k, f) # {}
  <2>1. /\ Deciding(ws, k, f) \in SUBSET Nat
        /\ Len(ws) \in Nat
        /\ \A n \in Deciding(ws, k, f) : n <= Len(ws)
    BY DEF Deciding
  <2>2. Max(Deciding(ws, k, f)) \in DOMAIN ws
    BY <1>2, <2>1, MaxOfBounded DEF Deciding
  <2>3. ws[Max(Deciding(ws, k, f))] \in Write
    BY <2>2
  <2> QED BY <1>2, <2>3 DEF Shown, Write, Value
<1> QED BY <1>1, <1>2

(* What a device reads is data: the server's keys and those of its         *)
(* writes.                                                                 *)
LEMMA OverlayType ==
  ASSUME NEW D \in Data, NEW ws \in Seq(Write)
  PROVE  /\ Overlay(D, ws) \in Data
         /\ DOMAIN Overlay(D, ws) = DOMAIN D \cup KeysOf(ws)
<1> DEFINE S == DOMAIN D \cup KeysOf(ws)
<1>1. S \in SUBSET Nat /\ IsFiniteSet(S)
  BY DataIsData, KeysType, FS_Union DEF IsData
<1>2. {k \in S : ~ RemovedBy(ws, k)} = S
  <2>1. \A i \in DOMAIN ws : ws[i] \in Write OBVIOUS
  <2> QED BY <2>1, NoRemoval DEF RemovedBy
<1>3. DOMAIN Overlay(D, ws) = S /\ Overlay(D, ws) \in [S -> Record]
  BY <1>2, ShownType DEF Overlay, Record
<1> QED BY <1>1, <1>3, DataIntro

(* A sequence all of whose elements are in B is a sequence of B; Tail and  *)
(* Front of a sequence are sequences of its elements.                      *)
LEMMA SeqIntro ==
  ASSUME NEW A, NEW B, NEW s \in Seq(A), \A i \in 1..Len(s) : s[i] \in B
  PROVE  s \in Seq(B)
<1>1. Len(s) \in Nat /\ s = [i \in 1..Len(s) |-> s[i]] OBVIOUS
<1>2. [i \in 1..Len(s) |-> s[i]] \in [1..Len(s) -> B] OBVIOUS
<1>3. [1..Len(s) -> B] \subseteq Seq(B) BY <1>1
<1> QED BY <1>1, <1>2, <1>3

(* The tail of a sequence: type, length, elements.                         *)
LEMMA TailFacts ==
  ASSUME NEW A, NEW s \in Seq(A), s # << >>
  PROVE  /\ Tail(s) \in Seq(A)
         /\ Len(Tail(s)) = Len(s) - 1
         /\ Head(s) \in A /\ Head(s) = s[1] /\ 1 \in DOMAIN s
         /\ \A i \in DOMAIN Tail(s) : i + 1 \in DOMAIN s /\ Tail(s)[i] = s[i + 1]
OBVIOUS

(* The front of a sequence: type, length, elements.                        *)
LEMMA FrontFacts ==
  ASSUME NEW A, NEW s \in Seq(A)
  PROVE  /\ Front(s) \in Seq(A)
         /\ \A i \in DOMAIN Front(s) : i \in DOMAIN s /\ Front(s)[i] = s[i]
         /\ s # << >> => Last(s) \in A /\ Last(s) = s[Len(s)] /\ Len(s) \in DOMAIN s
<1>1. Len(s) \in Nat OBVIOUS
<1>2. CASE Len(s) = 0
  <2>1. s = << >> BY <1>2
  <2>2. Front(s) = << >> BY <1>2 DEF Front
  <2> QED BY <2>1, <2>2
<1>3. CASE Len(s) > 0
  <2>1. 1 \in 1..(Len(s) + 1) /\ Len(s) - 1 \in 0..Len(s) BY <1>1, <1>3
  <2>2. SubSeq(s, 1, Len(s) - 1) = [i \in 1..(Len(s) - 1) |-> s[i]]
    BY <1>1, <1>3
  <2>3. Front(s) \in Seq(A) /\ DOMAIN Front(s) = 1..(Len(s) - 1)
    BY <2>2, <1>1, <1>3 DEF Front
  <2>4. \A i \in DOMAIN Front(s) : i \in DOMAIN s /\ Front(s)[i] = s[i]
    BY <2>2, <2>3, <1>1, <1>3 DEF Front
  <2>5. Last(s) \in A /\ Last(s) = s[Len(s)] /\ Len(s) \in DOMAIN s
    BY <1>1, <1>3 DEF Last
  <2> QED BY <2>3, <2>4, <2>5
<1> QED BY <1>1, <1>2, <1>3

(* A sequence with one more element: type, length, elements.               *)
LEMMA AppendFacts ==
  ASSUME NEW A, NEW s \in Seq(A), NEW x \in A
  PROVE  /\ Append(s, x) \in Seq(A)
         /\ Len(Append(s, x)) = Len(s) + 1
         /\ \A i \in DOMAIN Append(s, x) :
              \/ i \in DOMAIN s /\ Append(s, x)[i] = s[i]
              \/ i = Len(s) + 1 /\ Append(s, x)[i] = x
OBVIOUS

(* A sequence with one element replaced keeps type and length.             *)
LEMMA ExceptFacts ==
  ASSUME NEW A, NEW s \in Seq(A), NEW i, NEW x \in A
  PROVE  [s EXCEPT ![i] = x] \in Seq(A) /\ Len([s EXCEPT ![i] = x]) = Len(s)
<1>1. Len(s) \in Nat /\ s \in [1..Len(s) -> A] OBVIOUS
<1>2. [s EXCEPT ![i] = x] \in [1..Len(s) -> A] BY <1>1
<1>3. [1..Len(s) -> A] \subseteq Seq(A) BY <1>1
<1>4. DOMAIN [s EXCEPT ![i] = x] = 1..Len(s) BY <1>1
<1> QED BY <1>1, <1>2, <1>3, <1>4

(* The writes of addUserToFirebase are writes.                             *)
LEMMA NewAccountType ==
  ASSUME NEW id \in Nat, NEW u \in Names, NEW p \in Passwords
  PROVE  NewAccountWrites(id, u, p) \in Seq(Write)
<1>1. Len(FieldOrder) \in Nat /\ DOMAIN FieldOrder = 1..Len(FieldOrder)
      /\ \A i \in 1..Len(FieldOrder) : FieldOrder[i] \in Fields
  BY AccountsAssumption
<1>2. \A f \in Fields : FieldValue(f, u, p) \in Value
  BY DEF FieldValue, Value
<1> DEFINE n == Len(FieldOrder) + 1
           W(i) == IF i = 1 THEN [key |-> id, field |-> Leaf, value |-> Missing]
                   ELSE [key |-> id, field |-> FieldOrder[i - 1],
                         value |-> FieldValue(FieldOrder[i - 1], u, p)]
<1>3. \A i \in 1..n : W(i) \in Write
  <2> SUFFICES ASSUME NEW i \in 1..n PROVE W(i) \in Write OBVIOUS
  <2>1. CASE i = 1 BY <2>1 DEF Write, Value
  <2>2. CASE i # 1
    <3>1. i - 1 \in 1..Len(FieldOrder) BY <2>2, <1>1
    <3> QED BY <2>2, <3>1, <1>1, <1>2 DEF Write
  <2> QED BY <2>1, <2>2
<1>4. NewAccountWrites(id, u, p) = [i \in 1..n |-> W(i)]
  BY DEF NewAccountWrites
<1> HIDE DEF W
<1>5. [i \in 1..n |-> W(i)] \in [1..n -> Write]
  BY <1>3
<1> QED BY <1>1, <1>4, <1>5

-----------------------------------------------------------------------------
(* 2. Types. *)

(* TypeOK, with every variable a function and every sequence of events a   *)
(* sequence of one set.                                                    *)
SdkType ==
  /\ db \in Data
  /\ puts \in [Devices -> Seq(Write)]
  /\ applied \in [Devices -> Nat]
  /\ \A d \in Devices : applied[d] <= Len(puts[d])
  /\ waiting \in [Devices -> Seq(Callbacks)]
  /\ events \in [Devices -> Seq(Event)]
  /\ cache \in [Devices -> Data]
  /\ drops \in 0..MaxDrops

AppType ==
  /\ nav \in [Devices -> Seq(Nat)]
  /\ forms \in [Devices -> Seq(Credentials)]
  /\ alert \in [Devices -> Alerts]
  /\ taps \in [Devices -> 0..MaxTaps]
  /\ kills \in 0..MaxKills
  /\ accounts \subseteq [device : Devices, id : Nat, username : Names, password : Passwords]
  /\ announced \subseteq [device : Devices, cred : Credentials]
  /\ torn \subseteq Nat

(* Callbacks and the navigation stack name SignupVCs that exist.           *)
Screened(cb, n) == cb.op # "login" => cb.vc \in 1..n
ReadsScreened(s, n) == \A i \in DOMAIN s : Screened(s[i], n)
EventsScreened(s, n) == \A i \in DOMAIN s : Screened(s[i].cb, n)

ScreensExist ==
  \A d \in Devices :
    /\ Len(forms[d]) <= MaxScreens
    /\ \A i \in DOMAIN nav[d] : nav[d][i] <= Len(forms[d])
    /\ ReadsScreened(waiting[d], Len(forms[d]))
    /\ EventsScreened(events[d], Len(forms[d]))

TypeInv == SdkType /\ AppType /\ ScreensExist

(* The invariant that is proved gives the one that TLC checks.             *)
LEMMA TypeInvImpliesTypeOK == TypeInv => TypeOK
<1> SUFFICES ASSUME TypeInv PROVE TypeOK OBVIOUS
<1> USE DEF TypeInv, SdkType, AppType, ScreensExist, ReadsScreened, EventsScreened, Screened
<1>1. IsData(db) BY DataIsData
<1>2. ASSUME NEW d \in Devices
      PROVE  /\ puts[d] \in Seq(Write)
             /\ applied[d] \in 0..Len(puts[d])
             /\ IsData(cache[d])
             /\ \A i \in DOMAIN waiting[d] : IsCallback(d, waiting[d][i])
             /\ \A i \in DOMAIN events[d] : IsCallback(d, events[d][i].cb) /\ IsData(events[d][i].snap)
             /\ nav[d] \in Seq(0..Len(forms[d]))
             /\ forms[d] \in Seq(Credentials) /\ Len(forms[d]) <= MaxScreens
             /\ alert[d] \in Alerts
             /\ taps[d] \in 0..MaxTaps
  <2>1. \A i \in DOMAIN waiting[d] : waiting[d][i] \in Callbacks BY <1>2
  <2>2. \A i \in DOMAIN events[d] : events[d][i] \in Event BY <1>2
  <2>3. nav[d] \in Seq(0..Len(forms[d]))
    <3>1. nav[d] \in Seq(Nat) /\ Len(forms[d]) \in Nat BY <1>2
    <3>2. \A i \in 1..Len(nav[d]) : nav[d][i] \in 0..Len(forms[d]) BY <1>2, <3>1
    <3> QED BY <3>1, <3>2, SeqIntro
  <2>4. \A i \in DOMAIN waiting[d] : IsCallback(d, waiting[d][i])
    BY <1>2, <2>1 DEF IsCallback
  <2>5. \A i \in DOMAIN events[d] : IsCallback(d, events[d][i].cb) /\ IsData(events[d][i].snap)
    BY <1>2, <2>2, DataIsData DEF IsCallback, Event
  <2>6. puts[d] \in Seq(Write) /\ applied[d] \in 0..Len(puts[d]) BY <1>2
  <2>7. IsData(cache[d]) BY <1>2, DataIsData
  <2> QED BY <1>2, <2>3, <2>4, <2>5, <2>6, <2>7
<1> QED BY <1>1, <1>2 DEF TypeOK

(* The SDK's queues of one device after a read is started.                 *)
QueuesType(d) ==
  /\ waiting'[d] \in Seq(Callbacks) /\ ReadsScreened(waiting'[d], Len(forms[d]))
  /\ events'[d] \in Seq(Event) /\ EventsScreened(events'[d], Len(forms[d]))
  /\ cache'[d] \in Data

OthersKept(d) ==
  /\ waiting' = [waiting EXCEPT ![d] = waiting'[d]]
  /\ events' = [events EXCEPT ![d] = events'[d]]
  /\ cache' = [cache EXCEPT ![d] = cache'[d]]

(* Starting a read keeps the types of the queues.                          *)
LEMMA ObserveType ==
  ASSUME TypeInv, NEW d \in Devices, NEW evs \in Seq(Event), NEW cb \in Callbacks,
         EventsScreened(evs, Len(forms[d])), Screened(cb, Len(forms[d])),
         Observe(d, evs, cb)
  PROVE  QueuesType(d) /\ OthersKept(d)
<1> USE DEF TypeInv, SdkType
<1>0. /\ waiting[d] \in Seq(Callbacks) /\ ReadsScreened(waiting[d], Len(forms[d]))
      /\ cache[d] \in Data /\ puts[d] \in Seq(Write)
  BY DEF ScreensExist
<1>1. CASE evs # << >>
  <2> DEFINE e == [cb |-> cb, snap |-> Overlay(cache[d], puts[d])]
  <2>1. e \in Event
    BY <1>0, OverlayType DEF Event
  <2>2. events' = [events EXCEPT ![d] = Append(evs, e)] /\ waiting' = waiting /\ cache' = cache
    BY <1>1 DEF Observe
  <2>3. e.cb = cb OBVIOUS
  <2> HIDE DEF e
  <2>4. Append(evs, e) \in Seq(Event) /\ EventsScreened(Append(evs, e), Len(forms[d]))
    BY <2>1, <2>3, AppendFacts DEF EventsScreened
  <2>5. events'[d] = Append(evs, e) BY <2>2
  <2> QED BY <1>0, <2>2, <2>4, <2>5 DEF QueuesType, OthersKept
<1>2. CASE evs = << >>
  <2>1. /\ events' = [events EXCEPT ![d] = evs]
        /\ waiting' = [waiting EXCEPT ![d] = Append(waiting[d], cb)]
        /\ cache' = [cache EXCEPT ![d] = NoRecords]
    BY <1>2 DEF Observe
  <2>2. Append(waiting[d], cb) \in Seq(Callbacks)
        /\ ReadsScreened(Append(waiting[d], cb), Len(forms[d]))
    BY <1>0, AppendFacts DEF ReadsScreened
  <2>3. events'[d] = evs /\ waiting'[d] = Append(waiting[d], cb) /\ cache'[d] = NoRecords
    BY <2>1
  <2> QED BY <2>1, <2>2, <2>3, NoRecordsData DEF QueuesType, OthersKept
<1> QED BY <1>1, <1>2

(* Handling an event keeps the types of the queues.                        *)
LEMMA ConsumeType ==
  ASSUME TypeInv, NEW d \in Devices, events[d] # << >>, Consume(d), UNCHANGED waiting
  PROVE  QueuesType(d) /\ OthersKept(d)
<1> USE DEF TypeInv, SdkType
<1>1. events[d] \in Seq(Event) /\ EventsScreened(events[d], Len(forms[d]))
  BY DEF ScreensExist
<1>2. Tail(events[d]) \in Seq(Event) /\ EventsScreened(Tail(events[d]), Len(forms[d]))
  BY <1>1, TailFacts DEF EventsScreened
<1>3. events'[d] = Tail(events[d]) /\ cache'[d] \in {NoRecords, cache[d]}
  BY DEF Consume
<1>4. OthersKept(d)
  BY DEF Consume, OthersKept
<1> QED BY <1>2, <1>3, <1>4, NoRecordsData DEF QueuesType, ScreensExist

(* The callback at the head of the queue and the snapshot it is given.     *)
LEMMA HeadType ==
  ASSUME TypeInv, NEW d \in Devices, events[d] # << >>
  PROVE  /\ Head(events[d]).cb \in Callbacks
         /\ Head(events[d]).snap \in Data
         /\ Screened(Head(events[d]).cb, Len(forms[d]))
         /\ Tail(events[d]) \in Seq(Event)
         /\ EventsScreened(Tail(events[d]), Len(forms[d]))
<1> USE DEF TypeInv, SdkType
<1>1. events[d] \in Seq(Event) /\ EventsScreened(events[d], Len(forms[d]))
  BY DEF ScreensExist
<1>2. Tail(events[d]) \in Seq(Event) /\ EventsScreened(Tail(events[d]), Len(forms[d]))
  BY <1>1, TailFacts DEF EventsScreened
<1>3. Head(events[d]) \in Event /\ Screened(Head(events[d]).cb, Len(forms[d]))
  BY <1>1, TailFacts DEF EventsScreened
<1> QED BY <1>2, <1>3 DEF Event

(* Which callback each outcome belongs to.                                 *)
LEMMA OutcomeOps ==
  ASSUME TypeInv, NEW d \in Devices
  PROVE  /\ HeadIs(d, "free") => Head(events[d]).cb \in CheckCb
         /\ HeadIs(d, "add") => Head(events[d]).cb \in AddCb
<1>1. ASSUME events[d] # << >>, Outcome(d, Head(events[d])) = "free"
      PROVE  Head(events[d]).cb \in CheckCb
  <2>1. Head(events[d]).cb \in Callbacks BY <1>1, HeadType
  <2>2. LoginOutcome(Head(events[d]).snap, Head(events[d]).cb.username, Head(events[d]).cb.password) # "free"
    BY DEF LoginOutcome
  <2>3. Head(events[d]).cb.op = "check" BY <1>1, <2>2 DEF Outcome
  <2> QED BY <2>1, <2>3 DEF Callbacks, CheckCb, AddCb, LoginCb
<1>2. ASSUME events[d] # << >>, Outcome(d, Head(events[d])) = "add"
      PROVE  Head(events[d]).cb \in AddCb
  <2>1. Head(events[d]).cb \in Callbacks BY <1>2, HeadType
  <2>2. LoginOutcome(Head(events[d]).snap, Head(events[d]).cb.username, Head(events[d]).cb.password) # "add"
    BY Zenon DEF LoginOutcome
  <2>3. CheckOutcome(Head(events[d]).snap, forms[d][Head(events[d]).cb.vc].username) # "add"
    BY DEF CheckOutcome
  <2>4. Head(events[d]).cb.op # "check" /\ Head(events[d]).cb.op # "login"
    BY <1>2, <2>2, <2>3 DEF Outcome
  <2> QED BY <2>1, <2>4 DEF Callbacks, CheckCb, AddCb, LoginCb
<1> QED BY <1>1, <1>2 DEF HeadIs

(* A step of one device's queues that keeps their types keeps the types    *)
(* of the queues of all devices.                                           *)
LEMMA QueueStep ==
  ASSUME TypeInv, NEW d \in Devices, QueuesType(d), OthersKept(d)
  PROVE  /\ waiting' \in [Devices -> Seq(Callbacks)]
         /\ events' \in [Devices -> Seq(Event)]
         /\ cache' \in [Devices -> Data]
         /\ \A e \in Devices : /\ ReadsScreened(waiting'[e], Len(forms[e]))
                               /\ EventsScreened(events'[e], Len(forms[e]))
<1> USE DEF TypeInv, SdkType
<1>1. /\ waiting' \in [Devices -> Seq(Callbacks)]
      /\ events' \in [Devices -> Seq(Event)]
      /\ cache' \in [Devices -> Data]
  BY DEF QueuesType, OthersKept
<1>2. ASSUME NEW e \in Devices
      PROVE  /\ ReadsScreened(waiting'[e], Len(forms[e]))
             /\ EventsScreened(events'[e], Len(forms[e]))
  <2>1. CASE e = d BY <2>1 DEF QueuesType
  <2>2. CASE e # d
    <3>1. waiting'[e] = waiting[e] /\ events'[e] = events[e]
      BY <2>2 DEF OthersKept
    <3> QED BY <3>1 DEF ScreensExist
  <2> QED BY <2>1, <2>2
<1> QED BY <1>1, <1>2

(* The SDK's own steps keep the types.                                     *)
LEMMA SdkStepType ==
  ASSUME TypeInv, NEW d \in Devices, SdkStep(d)
  PROVE  TypeInv'
<1> USE DEF TypeInv
<1>0. UNCHANGED appVars /\ AppType'
  BY DEF SdkStep, appVars, AppType
<1>1. CASE DataArrives(d)
  <2> DEFINE ev(i) == [cb |-> waiting[d][i], snap |-> Overlay(db, puts[d])]
  <2>1. /\ waiting[d] \in Seq(Callbacks) /\ ReadsScreened(waiting[d], Len(forms[d]))
        /\ db \in Data /\ puts[d] \in Seq(Write)
    BY DEF SdkType, ScreensExist
  <2>2. \A i \in DOMAIN waiting[d] : waiting[d][i] \in Callbacks BY <2>1
  <2>3. \A i \in DOMAIN waiting[d] : ev(i) \in Event /\ Screened(ev(i).cb, Len(forms[d]))
    BY <2>1, <2>2, OverlayType DEF Event, ReadsScreened
  <2>4. /\ events' = [events EXCEPT ![d] = [i \in DOMAIN waiting[d] |-> ev(i)]]
        /\ waiting' = [waiting EXCEPT ![d] = << >>]
        /\ cache' = [cache EXCEPT ![d] = db]
        /\ UNCHANGED <<db, puts, applied, drops>>
    BY <1>1 DEF DataArrives
  <2> HIDE DEF ev
  <2>5. Len(waiting[d]) \in Nat /\ DOMAIN waiting[d] = 1..Len(waiting[d]) BY <2>1
  <2>6. [i \in DOMAIN waiting[d] |-> ev(i)] \in Seq(Event)
    BY <2>3, <2>5
  <2>7. EventsScreened([i \in DOMAIN waiting[d] |-> ev(i)], Len(forms[d]))
    BY <2>3 DEF EventsScreened
  <2>8. events'[d] = [i \in DOMAIN waiting[d] |-> ev(i)] /\ waiting'[d] = << >> /\ cache'[d] = db
    BY <2>4 DEF SdkType
  <2>9. << >> \in Seq(Callbacks) /\ ReadsScreened(<< >>, Len(forms[d]))
    BY DEF ReadsScreened
  <2>10. QueuesType(d) /\ OthersKept(d)
    BY <2>1, <2>4, <2>6, <2>7, <2>8, <2>9 DEF QueuesType, OthersKept
  <2>11. SdkType' BY <2>4, <2>10, QueueStep DEF SdkType
  <2>12. ScreensExist' BY <1>0, <2>10, QueueStep DEF ScreensExist, appVars
  <2> QED BY <1>0, <2>11, <2>12
<1>2. CASE Push(d)
  BY <1>0, <1>2 DEF Push, SdkType, ScreensExist, appVars
<1>3. CASE ServerApply(d)
  <2>1. /\ applied[d] \in Nat /\ applied[d] < Len(puts[d]) /\ puts[d] \in Seq(Write)
        /\ db' = Apply(db, puts[d][applied[d] + 1])
        /\ applied' = [applied EXCEPT ![d] = applied[d] + 1]
        /\ UNCHANGED <<puts, waiting, events, cache, drops>>
    BY <1>3 DEF ServerApply, SdkType
  <2>2. puts[d][applied[d] + 1] \in Write BY <2>1
  <2>3. db' \in Data BY <2>1, <2>2, ApplyType DEF SdkType
  <2>4. SdkType' BY <2>1, <2>3 DEF SdkType
  <2> QED BY <1>0, <2>1, <2>4 DEF ScreensExist, appVars
<1>4. CASE AckPut(d)
  <2>1. /\ applied[d] \in Nat /\ applied[d] > 0 /\ applied[d] <= Len(puts[d]) /\ puts[d] \in Seq(Write)
        /\ puts' = [puts EXCEPT ![d] = Tail(puts[d])]
        /\ applied' = [applied EXCEPT ![d] = applied[d] - 1]
        /\ cache' = [cache EXCEPT ![d] = IF events[d] # << >> THEN db ELSE cache[d]]
        /\ UNCHANGED <<db, waiting, events, drops>>
    BY <1>4 DEF AckPut, SdkType
  <2>2. Tail(puts[d]) \in Seq(Write) /\ Len(Tail(puts[d])) = Len(puts[d]) - 1
    <3>1. puts[d] # << >> BY <2>1
    <3> QED BY <2>1, <3>1, TailFacts
  <2>3. SdkType' BY <2>1, <2>2 DEF SdkType
  <2> QED BY <1>0, <2>1, <2>3 DEF ScreensExist, appVars
<1>5. CASE Disconnect(d)
  <2>1. SdkType'
    BY <1>5, AccountsAssumption DEF Disconnect, SdkType
  <2> QED BY <1>0, <1>5, <2>1 DEF ScreensExist, appVars, Disconnect
<1> QED BY <1>1, <1>2, <1>3, <1>4, <1>5 DEF SdkStep, CollectionNext

(* The reads that taps and callbacks start: what is observed, and with     *)
(* which events still queued.                                              *)
LEMMA StartedRead ==
  ASSUME TypeInv, NEW d \in Devices, CreateAccount(d) \/ Login(d) \/ UsernameFree(d)
  PROVE  \E cb \in Callbacks : \E evs \in Seq(Event) :
           /\ evs = events[d] \/ (events[d] # << >> /\ evs = Tail(events[d]))
           /\ EventsScreened(evs, Len(forms[d])) /\ Screened(cb, Len(forms[d]))
           /\ Observe(d, evs, cb)
<1>0. /\ nav[d] \in Seq(Nat) /\ forms[d] \in Seq(Credentials)
      /\ events[d] \in Seq(Event) /\ EventsScreened(events[d], Len(forms[d]))
      /\ Len(forms[d]) \in Nat /\ Len(forms[d]) <= MaxScreens
      /\ \A i \in DOMAIN nav[d] : nav[d][i] <= Len(forms[d])
  BY DEF TypeInv, AppType, SdkType, ScreensExist
<1>1. CASE CreateAccount(d)
  <2>1. Last(nav[d]) \in 1..Len(forms[d])
    <3>1. nav[d] # << >> /\ Last(nav[d]) # 0 BY <1>1 DEF CreateAccount, OnSignup, Home
    <3>2. Last(nav[d]) \in Nat /\ Last(nav[d]) = nav[d][Len(nav[d])] /\ Len(nav[d]) \in DOMAIN nav[d]
      BY <1>0, <3>1, FrontFacts
    <3>3. Last(nav[d]) <= Len(forms[d]) BY <1>0, <3>2
    <3> QED BY <1>0, <3>1, <3>2, <3>3
  <2> DEFINE cb == [op |-> "check", vc |-> Last(nav[d])]
  <2>2. cb \in Callbacks /\ Screened(cb, Len(forms[d]))
    BY <2>1, <1>0, AccountsAssumption DEF Callbacks, CheckCb, Screened
  <2>3. Observe(d, events[d], cb) BY <1>1 DEF CreateAccount
  <2> HIDE DEF cb
  <2> QED BY <1>0, <2>2, <2>3
<1>2. CASE Login(d)
  <2>1. PICK c \in Credentials : Observe(d, events[d],
           [op |-> "login", username |-> c.username, password |-> c.password])
    BY <1>2 DEF Login
  <2> DEFINE cb == [op |-> "login", username |-> c.username, password |-> c.password]
  <2>2. cb \in Callbacks /\ Screened(cb, Len(forms[d]))
    BY DEF Callbacks, LoginCb, Screened, Credentials
  <2>3. Observe(d, events[d], cb) BY <2>1
  <2> HIDE DEF cb
  <2> QED BY <1>0, <2>2, <2>3
<1>3. CASE UsernameFree(d)
  <2> DEFINE vc == Head(events[d]).cb.vc
             cb == [op |-> "add", vc |-> vc, username |-> forms[d][vc].username]
  <2>1. events[d] # << >> /\ Head(events[d]).cb \in CheckCb
    BY <1>3, OutcomeOps DEF UsernameFree, HeadIs
  <2>2. vc \in 1..Len(forms[d]) /\ vc \in 1..MaxScreens
    BY <2>1, HeadType DEF Screened, CheckCb
  <2>3. forms[d][vc] \in Credentials BY <1>0, <2>2
  <2>4. cb \in Callbacks /\ Screened(cb, Len(forms[d]))
    <3>1. forms[d][vc].username \in Names BY <2>3 DEF Credentials
    <3> HIDE DEF vc
    <3>2. cb \in AddCb /\ cb.vc = vc BY <2>2, <3>1 DEF AddCb
    <3> QED BY <2>2, <3>2 DEF Callbacks, Screened
  <2>5. Observe(d, Tail(events[d]), cb) BY <1>3 DEF UsernameFree
  <2>6. Tail(events[d]) \in Seq(Event) /\ EventsScreened(Tail(events[d]), Len(forms[d]))
    BY <2>1, HeadType
  <2> HIDE DEF cb, vc
  <2> QED BY <2>1, <2>4, <2>5, <2>6
<1> QED BY <1>1, <1>2, <1>3

(* The reads of CreateAccount, Login and UsernameFree keep the types.      *)
LEMMA StartedReadType ==
  ASSUME TypeInv, NEW d \in Devices, CreateAccount(d) \/ Login(d) \/ UsernameFree(d)
  PROVE  QueuesType(d) /\ OthersKept(d)
BY StartedRead, ObserveType

(* A process that ends leaves empty queues and no controllers.             *)
LEMMA RestartType ==
  ASSUME TypeInv, NEW d \in Devices, Kill(d) \/ Trap(d)
  PROVE  TypeInv'
<1> USE DEF TypeInv
<1>1. Restart(d) /\ kills' \in 0..MaxKills
  BY AccountsAssumption DEF Kill, Trap, AppType
<1>2. CloseClient(d) /\ UNCHANGED <<db, drops, taps, accounts>>
  BY <1>1 DEF Restart
<1>3. << >> \in Seq(Write) /\ << >> \in Seq(Callbacks) /\ << >> \in Seq(Event)
      /\ Len(<< >>) = 0
  OBVIOUS
<1>4. SdkType'
  BY <1>2, <1>3, NoRecordsData DEF CloseClient, SdkType
<1>5. torn' \subseteq Nat
  <2>1. puts[d] \in Seq(Write) BY DEF SdkType
  <2> QED BY <1>1, <2>1, KeysType DEF Restart, AppType
<1>6. AppType'
  BY <1>1, <1>2, <1>5 DEF Restart, AppType, Alerts
<1>7. ScreensExist'
  <2> SUFFICES ASSUME NEW e \in Devices
               PROVE  /\ Len(forms'[e]) <= MaxScreens
                      /\ \A i \in DOMAIN nav'[e] : nav'[e][i] <= Len(forms'[e])
                      /\ ReadsScreened(waiting'[e], Len(forms'[e]))
                      /\ EventsScreened(events'[e], Len(forms'[e]))
    BY DEF ScreensExist
  <2>1. CASE e = d
    <3>1. forms'[e] = << >> /\ nav'[e] = << >> /\ waiting'[e] = << >> /\ events'[e] = << >>
      BY <2>1, <1>1, <1>2 DEF Restart, CloseClient, SdkType, AppType
    <3> QED BY <3>1, <1>3, AccountsAssumption DEF ReadsScreened, EventsScreened
  <2>2. CASE e # d
    <3>1. /\ forms'[e] = forms[e] /\ nav'[e] = nav[e]
          /\ waiting'[e] = waiting[e] /\ events'[e] = events[e]
      BY <2>2, <1>1, <1>2 DEF Restart, CloseClient, SdkType, AppType
    <3> QED BY <3>1 DEF ScreensExist
  <2> QED BY <2>1, <2>2
<1> QED BY <1>4, <1>6, <1>7

(* So do the users' steps ...                                              *)
LEMMA UserStepType ==
  ASSUME TypeInv, NEW d \in Devices, UserStep(d)
  PROVE  TypeInv'
<1> USE DEF TypeInv
<1>0. /\ nav[d] \in Seq(Nat) /\ forms[d] \in Seq(Credentials)
      /\ Len(forms[d]) \in Nat /\ Len(forms[d]) <= MaxScreens
      /\ events[d] \in Seq(Event) /\ EventsScreened(events[d], Len(forms[d]))
      /\ \A i \in DOMAIN nav[d] : nav[d][i] <= Len(forms[d])
  BY DEF AppType, SdkType, ScreensExist
<1>f. /\ Front(nav[d]) \in Seq(Nat)
      /\ \A i \in DOMAIN Front(nav[d]) : Front(nav[d])[i] <= Len(forms[d])
  BY <1>0, FrontFacts
<1>k. UNCHANGED collectionVars => SdkType'
  BY DEF SdkType, collectionVars
<1>1. CASE OpenSignup(d)
  <2>1. PICK c \in Credentials : forms' = [forms EXCEPT ![d] = Append(forms[d], c)]
    BY <1>1 DEF OpenSignup
  <2>2. /\ nav' = [nav EXCEPT ![d] = Append(nav[d], Len(forms[d]) + 1)]
        /\ Len(forms[d]) < MaxScreens
        /\ UNCHANGED <<collectionVars, alert, taps, kills, accounts, announced, torn>>
    BY <1>1 DEF OpenSignup
  <2>3. Append(forms[d], c) \in Seq(Credentials) /\ Len(Append(forms[d], c)) = Len(forms[d]) + 1
    BY <1>0, AppendFacts
  <2>4. /\ Append(nav[d], Len(forms[d]) + 1) \in Seq(Nat)
        /\ \A i \in DOMAIN Append(nav[d], Len(forms[d]) + 1) :
              Append(nav[d], Len(forms[d]) + 1)[i] <= Len(forms[d]) + 1
    <3>1. Len(forms[d]) + 1 \in Nat BY <1>0
    <3>2. \A i \in DOMAIN nav[d] : nav[d][i] \in Nat BY <1>0
    <3>3. \A i \in DOMAIN nav[d] : nav[d][i] <= Len(forms[d]) + 1 BY <1>0, <3>2
    <3>4. nav[d] \in Seq(Nat) BY <1>0
    <3> QED BY <3>1, <3>3, <3>4, AppendFacts
  <2>5. AppType' BY <2>1, <2>2, <2>3, <2>4 DEF AppType
  <2>6. ScreensExist'
    <3> SUFFICES ASSUME NEW e \in Devices
                 PROVE  /\ Len(forms'[e]) <= MaxScreens
                        /\ \A i \in DOMAIN nav'[e] : nav'[e][i] <= Len(forms'[e])
                        /\ ReadsScreened(waiting'[e], Len(forms'[e]))
                        /\ EventsScreened(events'[e], Len(forms'[e]))
      BY DEF ScreensExist
    <3>1. waiting' = waiting /\ events' = events BY <2>2 DEF collectionVars
    <3>2. CASE e = d
      <4>1. forms'[e] = Append(forms[d], c) /\ nav'[e] = Append(nav[d], Len(forms[d]) + 1)
        BY <3>2, <2>1, <2>2 DEF AppType
      <4>2. Len(forms'[e]) = Len(forms[d]) + 1 /\ Len(forms'[e]) <= MaxScreens
        BY <4>1, <2>3, <2>2, <1>0, AccountsAssumption
      <4>3. ReadsScreened(waiting[d], Len(forms[d])) /\ EventsScreened(events[d], Len(forms[d]))
        BY DEF ScreensExist
      <4>4. ReadsScreened(waiting[d], Len(forms[d]) + 1) /\ EventsScreened(events[d], Len(forms[d]) + 1)
        BY <4>3, <1>0 DEF ReadsScreened, EventsScreened, Screened
      <4> QED BY <3>1, <3>2, <4>1, <4>2, <4>4, <2>4
    <3>3. CASE e # d
      <4>1. forms'[e] = forms[e] /\ nav'[e] = nav[e] BY <3>3, <2>1, <2>2 DEF AppType
      <4> QED BY <3>1, <4>1 DEF ScreensExist
    <3> QED BY <3>2, <3>3
  <2> QED BY <1>k, <2>2, <2>5, <2>6
<1>2. CASE Retype(d)
  <2>1. PICK c \in Credentials : forms' = [forms EXCEPT ![d][Last(nav[d])] = c]
    BY <1>2 DEF Retype
  <2>2. UNCHANGED <<collectionVars, nav, alert, taps, kills, accounts, announced, torn>>
    BY <1>2 DEF Retype
  <2>3. /\ forms' \in [Devices -> Seq(Credentials)]
        /\ \A e \in Devices : Len(forms'[e]) = Len(forms[e])
    <3> DEFINE z == forms[d]
               i == Last(nav[d])
               s == [z EXCEPT ![i] = c]
    <3>0. z \in Seq(Credentials) BY <1>0
    <3> HIDE DEF z, i
    <3>1. s \in Seq(Credentials) /\ Len(s) = Len(z) BY <3>0, ExceptFacts
    <3>2. forms' = [forms EXCEPT ![d] = s] /\ Len(s) = Len(forms[d]) BY <2>1, <3>1 DEF z, i
    <3> HIDE DEF s
    <3> QED BY <3>1, <3>2 DEF AppType
  <2>4. AppType' BY <2>2, <2>3 DEF AppType
  <2>5. ScreensExist' BY <2>2, <2>3 DEF ScreensExist, collectionVars
  <2> QED BY <1>k, <2>2, <2>4, <2>5
<1>3. CASE Back(d) \/ LogOut(d)
  <2>1. /\ nav' = [nav EXCEPT ![d] = Front(nav[d])]
        /\ UNCHANGED <<collectionVars, forms, alert, taps, kills, accounts, announced, torn>>
    BY <1>3 DEF Back, LogOut
  <2>2. AppType' BY <1>f, <2>1 DEF AppType
  <2>3. ScreensExist' BY <1>f, <2>1 DEF ScreensExist, collectionVars, AppType
  <2> QED BY <1>k, <2>1, <2>2, <2>3
<1>4. CASE CreateAccount(d) \/ Login(d)
  <2>1. QueuesType(d) /\ OthersKept(d) BY <1>4, StartedReadType
  <2>2. /\ UNCHANGED <<db, puts, applied, drops, nav, forms, alert, kills, accounts, announced, torn>>
        /\ taps' = [taps EXCEPT ![d] = taps[d] + 1] /\ taps[d] < MaxTaps
    BY <1>4 DEF CreateAccount, Login
  <2>3. SdkType' BY <2>1, <2>2, QueueStep DEF SdkType
  <2>4. AppType' BY <2>2, AccountsAssumption DEF AppType
  <2>5. ScreensExist' BY <2>1, <2>2, QueueStep DEF ScreensExist
  <2> QED BY <2>3, <2>4, <2>5
<1>5. CASE Dismiss(d)
  <2>1. /\ nav' = [nav EXCEPT ![d] = IF alert[d] = "success" THEN Front(nav[d]) ELSE nav[d]]
        /\ alert' = [alert EXCEPT ![d] = "none"]
        /\ UNCHANGED <<collectionVars, forms, taps, kills, accounts, announced, torn>>
    BY <1>5 DEF Dismiss
  <2>2. AppType' BY <1>f, <2>1 DEF AppType, Alerts
  <2>3. ScreensExist' BY <1>f, <2>1 DEF ScreensExist, collectionVars, AppType
  <2> QED BY <1>k, <2>1, <2>2, <2>3
<1>6. CASE Kill(d)
  BY <1>6, RestartType
<1> QED BY <1>1, <1>2, <1>3, <1>4, <1>5, <1>6 DEF UserStep

(* ... and the callbacks.                                                  *)
LEMMA CallbackType ==
  ASSUME TypeInv, NEW d \in Devices, Callback(d)
  PROVE  TypeInv'
<1> USE DEF TypeInv
<1>0. forms[d] \in Seq(Credentials) /\ Len(forms[d]) \in Nat /\ Len(forms[d]) <= MaxScreens
  BY DEF AppType, ScreensExist
<1>1. CASE UsernameTaken(d) \/ LoginRejected(d)
  <2>1. /\ events[d] # << >> /\ Consume(d)
        /\ \E on : \E kind \in Alerts : Present(d, on, kind)
        /\ UNCHANGED <<db, puts, applied, waiting, drops, nav, forms, taps, kills, accounts, announced, torn>>
    <3>1. CASE UsernameTaken(d)
      BY <3>1 DEF UsernameTaken, HeadIs, Alerts
    <3>2. CASE LoginRejected(d)
      BY <3>2 DEF LoginRejected, HeadIs, Alerts, OnLogin
    <3> QED BY <1>1, <3>1, <3>2
  <2>2. QueuesType(d) /\ OthersKept(d) BY <2>1, ConsumeType
  <2>3. SdkType' BY <2>1, <2>2, QueueStep DEF SdkType
  <2>4. AppType' BY <2>1 DEF AppType, Present
  <2>5. ScreensExist' BY <2>1, <2>2, QueueStep DEF ScreensExist
  <2> QED BY <2>3, <2>4, <2>5
<1>2. CASE UsernameFree(d)
  <2> DEFINE c == forms[d][Head(events[d]).cb.vc]
  <2>1. c \in Credentials
    <3>1. events[d] # << >> /\ Head(events[d]).cb \in CheckCb
      BY <1>2, OutcomeOps DEF UsernameFree, HeadIs
    <3>2. Head(events[d]).cb.vc \in 1..Len(forms[d]) BY <3>1, HeadType DEF Screened, CheckCb
    <3> QED BY <1>0, <3>2
  <2>2. /\ \E on : Present(d, on, "success")
        /\ announced' \in {announced, announced \cup {[device |-> d, cred |-> c]}}
        /\ UNCHANGED <<db, puts, applied, drops, nav, forms, taps, kills, accounts, torn>>
    BY <1>2 DEF UsernameFree
  <2> HIDE DEF c
  <2>3. QueuesType(d) /\ OthersKept(d) BY <1>2, StartedReadType
  <2>4. SdkType' BY <2>2, <2>3, QueueStep DEF SdkType
  <2>5. AppType'
    <3>1. alert' \in [Devices -> Alerts] BY <2>2 DEF AppType, Present, Alerts
    <3>2. announced' \subseteq [device : Devices, cred : Credentials] BY <2>1, <2>2 DEF AppType
    <3> QED BY <2>2, <3>1, <3>2 DEF AppType
  <2>6. ScreensExist' BY <2>2, <2>3, QueueStep DEF ScreensExist
  <2> QED BY <2>4, <2>5, <2>6
<1>3. CASE AddUser(d)
  <2> DEFINE cb == Head(events[d]).cb
             id == NewId(Head(events[d]).snap)
             p == forms[d][cb.vc].password
             W == NewAccountWrites(id, cb.username, p)
  <2>1. events[d] # << >> /\ cb \in AddCb
    BY <1>3, OutcomeOps DEF AddUser, HeadIs
  <2>2. cb.vc \in 1..Len(forms[d]) /\ cb.username \in Names
    BY <2>1, HeadType DEF Screened, AddCb
  <2>3. p \in Passwords
    <3>1. forms[d][cb.vc] \in Credentials BY <1>0, <2>2
    <3> QED BY <3>1 DEF Credentials
  <2>4. id \in Nat
    <3>1. IsFiniteSet(DOMAIN Head(events[d]).snap) BY <2>1, HeadType, DataIsData DEF IsData
    <3> QED BY <3>1, FS_CardinalityType DEF NewId
  <2>5. /\ puts' = [puts EXCEPT ![d] = puts[d] \o W]
        /\ accounts' = accounts \cup {[device |-> d, id |-> id, username |-> cb.username, password |-> p]}
        /\ Consume(d)
        /\ UNCHANGED <<db, applied, waiting, drops, nav, forms, alert, taps, kills, announced, torn>>
    BY <1>3, Zenon DEF AddUser
  <2>6. W \in Seq(Write) BY <2>2, <2>3, <2>4, NewAccountType, Zenon
  <2>7. QueuesType(d) /\ OthersKept(d) BY <2>1, <2>5, ConsumeType, Zenon
  <2>8. accounts' \subseteq [device : Devices, id : Nat, username : Names, password : Passwords]
    <3>1. accounts \subseteq [device : Devices, id : Nat, username : Names, password : Passwords]
      BY DEF TypeInv, AppType
    <3> HIDE DEF W, p, id, cb
    <3>2. [device |-> d, id |-> id, username |-> cb.username, password |-> p]
            \in [device : Devices, id : Nat, username : Names, password : Passwords]
      BY <2>2, <2>3, <2>4
    <3>3. accounts' = accounts \cup {[device |-> d, id |-> id, username |-> cb.username, password |-> p]}
      BY <2>5
    <3> QED BY <3>1, <3>2, <3>3, Zenon
  <2> HIDE DEF W, p, id, cb
  <2>9. puts[d] \o W \in Seq(Write) /\ Len(puts[d]) <= Len(puts[d] \o W)
    BY <2>6 DEF SdkType
  <2>10. /\ puts' \in [Devices -> Seq(Write)]
         /\ \A e \in Devices : applied[e] <= Len(puts'[e])
    <3>1. applied[d] \in Nat /\ Len(puts[d]) \in Nat /\ Len(puts[d] \o W) \in Nat
      BY <2>9 DEF SdkType
    <3>2. applied[d] <= Len(puts[d] \o W) BY <2>9, <3>1 DEF SdkType
    <3> QED BY <2>5, <2>9, <3>2 DEF SdkType
  <2>11. SdkType' BY <2>5, <2>7, <2>10, QueueStep DEF SdkType
  <2>12. AppType' BY <2>5, <2>8 DEF AppType
  <2>13. ScreensExist' BY <2>5, <2>7, QueueStep DEF ScreensExist
  <2> QED BY <2>11, <2>12, <2>13
<1>4. CASE LoginMatches(d)
  <2>1. /\ events[d] # << >> /\ Consume(d)
        /\ nav' = [nav EXCEPT ![d] = Append(nav[d], Home)]
        /\ UNCHANGED <<db, puts, applied, waiting, drops, forms, alert, taps, kills, accounts, announced, torn>>
    BY <1>4 DEF LoginMatches, HeadIs
  <2>2. nav[d] \in Seq(Nat) /\ \A i \in DOMAIN nav[d] : nav[d][i] <= Len(forms[d])
    BY DEF AppType, ScreensExist
  <2>3. /\ Append(nav[d], Home) \in Seq(Nat)
        /\ \A i \in DOMAIN Append(nav[d], Home) : Append(nav[d], Home)[i] <= Len(forms[d])
    BY <1>0, <2>2, AppendFacts DEF Home
  <2>4. QueuesType(d) /\ OthersKept(d) BY <2>1, ConsumeType
  <2>5. SdkType' BY <2>1, <2>4, QueueStep DEF SdkType
  <2>6. AppType' BY <2>1, <2>3 DEF AppType
  <2>7. ScreensExist' BY <2>1, <2>3, <2>4, QueueStep DEF ScreensExist, AppType
  <2> QED BY <2>5, <2>6, <2>7
<1>5. CASE Trap(d)
  BY <1>5, RestartType
<1> QED BY <1>1, <1>2, <1>3, <1>4, <1>5 DEF Callback

(* The initial states have the types.                                      *)
LEMMA InitType == Init => TypeInv
<1> SUFFICES ASSUME Init PROVE TypeInv OBVIOUS
<1>1. << >> \in Seq(Write) /\ << >> \in Seq(Callbacks) /\ << >> \in Seq(Event)
      /\ << >> \in Seq(Nat) /\ << >> \in Seq(Credentials) /\ Len(<< >>) = 0
  OBVIOUS
<1>2. SdkType
  BY <1>1, NoRecordsData, AccountsAssumption DEF Init, CollectionInit, ClientsInit, SdkType
<1>3. AppType
  BY <1>1, AccountsAssumption DEF Init, AppType, Alerts
<1>4. ScreensExist
  BY <1>1, AccountsAssumption DEF Init, CollectionInit, ClientsInit, ScreensExist, ReadsScreened, EventsScreened
<1> QED BY <1>2, <1>3, <1>4 DEF TypeInv

(* Every step keeps the types.                                             *)
LEMMA NextType == TypeInv /\ [Next]_vars => TypeInv'
<1> SUFFICES ASSUME TypeInv, [Next]_vars PROVE TypeInv' OBVIOUS
<1>1. CASE Next
  <2>1. PICK d \in Devices : SdkStep(d) \/ Callback(d) \/ UserStep(d) BY <1>1 DEF Next
  <2> QED BY <2>1, SdkStepType, CallbackType, UserStepType
<1>2. CASE UNCHANGED vars
  BY <1>2 DEF vars, collectionVars, appVars, TypeInv, SdkType, AppType, ScreensExist
<1> QED BY <1>1, <1>2

(* Every variable keeps its type, and callbacks name SignupVCs that exist. *)
THEOREM TypeInvariant == Spec => []TypeInv
<1>1. Init => TypeInv BY InitType
<1>2. TypeInv /\ [Next]_vars => TypeInv' BY NextType
<1> QED BY <1>1, <1>2, PTL DEF Spec

(* Every variable keeps its type, and every pending callback of a SignupVC *)
(* has the SignupVC whose text fields it reads, for any devices, names,    *)
(* fields and bounds.                                                      *)
THEOREM TypeCorrect == Spec => []TypeOK
<1>1. TypeInv => TypeOK BY TypeInvImpliesTypeOK
<1> QED BY <1>1, TypeInvariant, PTL

-----------------------------------------------------------------------------
(* 3. The ids have no gap. *)

(* What DenseIds needs to be inductive: a device only sends a write for an *)
(* id after writes for, or the server having, every smaller id, and what   *)
(* it counts is never more than what it and the server have.               *)
Known(d) == DOMAIN db \cup KeysOf(puts[d])
SentStepwise(d) ==
  \A i \in 1..Len(puts[d]) : \A k \in 0..puts[d][i].key :
     k \in DOMAIN db \/ \E h \in 1..i : puts[d][h].key = k
AppliedStored(d) == \A h \in 1..applied[d] : puts[d][h].key \in DOMAIN db
SnapsWithin(s, keys) == \A i \in DOMAIN s : DOMAIN s[i].snap \subseteq keys

DenseInv ==
  /\ DenseIds
  /\ \A d \in Devices : /\ SentStepwise(d)
                        /\ AppliedStored(d)
                        /\ DOMAIN cache[d] \subseteq DOMAIN db
                        /\ SnapsWithin(events[d], Known(d))

(* Counting some of the ids of a gapless set gives no number above its     *)
(* first free id.                                                          *)
LEMMA CountBelowGap ==
  ASSUME NEW L \in SUBSET Nat, Dense(L), NEW D \in SUBSET L, IsFiniteSet(D)
  PROVE  Cardinality(D) \in Nat /\ \A j \in 0..(Cardinality(D) - 1) : j \in L
<1>1. Cardinality(D) \in Nat BY FS_CardinalityType
<1>2. ASSUME NEW j \in 0..(Cardinality(D) - 1), j \notin L
      PROVE  FALSE
  <2>1. j \in Nat /\ j < Cardinality(D) BY <1>1
  <2>2. \A k \in L : k < j
    <3> SUFFICES ASSUME NEW k \in L, k >= j PROVE FALSE BY <2>1
    <3>1. k \in Nat /\ j \in 0..k BY <2>1
    <3> QED BY <3>1, <1>2 DEF Dense
  <2>3. D \in SUBSET (0..(j - 1)) BY <2>1, <2>2
  <2>4. IsFiniteSet(0..(j - 1)) /\ Cardinality(0..(j - 1)) = j
    <3>1. 0 \in Int /\ j - 1 \in Int BY <2>1
    <3>2. IsFiniteSet(0..(j - 1)) /\ Cardinality(0..(j - 1)) = IF 0 > j - 1 THEN 0 ELSE j - 1 - 0 + 1
      BY <3>1, FS_Interval
    <3> QED BY <3>2, <2>1
  <2>5. Cardinality(D) <= j BY <2>3, <2>4, FS_Subset
  <2> QED BY <1>1, <2>1, <2>5
<1> QED BY <1>1, <1>2

(* The ids a device may find in a snapshot have no gap.                    *)
LEMMA KnownDense ==
  ASSUME TypeInv, DenseInv, NEW d \in Devices
  PROVE  Known(d) \subseteq Nat /\ Dense(Known(d))
<1>1. puts[d] \in Seq(Write) /\ db \in Data BY DEF TypeInv, SdkType
<1>2. Known(d) \subseteq Nat
  BY <1>1, KeysType, DataIsData DEF Known, IsData
<1>3. ASSUME NEW k \in Known(d), NEW j \in 0..k PROVE j \in Known(d)
  <2>1. CASE k \in DOMAIN db BY <2>1 DEF Known, DenseInv, DenseIds, Dense
  <2>2. CASE k \in KeysOf(puts[d])
    <3>1. PICK i \in 1..Len(puts[d]) : puts[d][i].key = k
      BY <2>2, <1>1 DEF KeysOf
    <3>2. j \in DOMAIN db \/ \E h \in 1..i : puts[d][h].key = j
      BY <3>1 DEF DenseInv, SentStepwise
    <3>3. \A h \in 1..i : h \in DOMAIN puts[d] BY <1>1
    <3> QED BY <3>2, <3>3 DEF Known, KeysOf
  <2> QED BY <2>1, <2>2 DEF Known
<1> QED BY <1>2, <1>3 DEF Dense

(* A step that only moves events keeps DenseInv.                           *)
LEMMA QueueDense ==
  ASSUME TypeInv, DenseInv, NEW d \in Devices, OthersKept(d), UNCHANGED <<db, puts, applied>>,
         DOMAIN cache'[d] \subseteq DOMAIN db, SnapsWithin(events'[d], Known(d))
  PROVE  DenseInv'
<1>1. /\ DenseIds' /\ \A e \in Devices : SentStepwise(e)' /\ AppliedStored(e)'
      /\ \A e \in Devices : Known(e)' = Known(e)
  <2>1. db' = db /\ puts' = puts /\ applied' = applied OBVIOUS
  <2>2. DenseIds' BY <2>1 DEF DenseInv, DenseIds
  <2>3. \A e \in Devices : SentStepwise(e)' BY <2>1 DEF DenseInv, SentStepwise
  <2>4. \A e \in Devices : AppliedStored(e)' BY <2>1 DEF DenseInv, AppliedStored
  <2>5. \A e \in Devices : Known(e)' = Known(e) BY <2>1 DEF Known
  <2> QED BY <2>2, <2>3, <2>4, <2>5
<1>2. ASSUME NEW e \in Devices
      PROVE  DOMAIN cache'[e] \subseteq DOMAIN db' /\ SnapsWithin(events'[e], Known(e)')
  <2>1. CASE e = d BY <2>1, <1>1
  <2>2. CASE e # d
    <3>1. cache'[e] = cache[e] /\ events'[e] = events[e]
      BY <2>2 DEF OthersKept, TypeInv, SdkType
    <3> QED BY <3>1, <1>1 DEF DenseInv
  <2> QED BY <2>1, <2>2
<1> QED BY <1>1, <1>2 DEF DenseInv

(* Starting a read keeps DenseInv.                                         *)
LEMMA ObserveDense ==
  ASSUME TypeInv, DenseInv, NEW d \in Devices, NEW evs \in Seq(Event), NEW cb \in Callbacks,
         EventsScreened(evs, Len(forms[d])), Screened(cb, Len(forms[d])),
         SnapsWithin(evs, Known(d)), Observe(d, evs, cb), UNCHANGED <<db, puts, applied>>
  PROVE  DenseInv'
<1>1. OthersKept(d) BY ObserveType
<1>2. DOMAIN cache'[d] \subseteq DOMAIN db
  BY DEF Observe, TypeInv, SdkType, DenseInv, NoRecords
<1>3. SnapsWithin(events'[d], Known(d))
  <2>1. CASE evs = << >> BY <2>1 DEF Observe, TypeInv, SdkType
  <2>2. CASE evs # << >>
    <3> DEFINE e == [cb |-> cb, snap |-> Overlay(cache[d], puts[d])]
    <3>1. puts[d] \in Seq(Write) /\ cache[d] \in Data BY DEF TypeInv, SdkType
    <3>2. e \in Event /\ DOMAIN e.snap \subseteq Known(d)
      BY <3>1, OverlayType DEF Event, Known, DenseInv
    <3>3. events'[d] = Append(evs, e) BY <2>2 DEF Observe, TypeInv, SdkType
    <3> HIDE DEF e
    <3> QED BY <3>2, <3>3, AppendFacts DEF SnapsWithin
  <2> QED BY <2>1, <2>2
<1> QED BY <1>1, <1>2, <1>3, QueueDense

(* The events left after the first still read known ids only.              *)
LEMMA TailWithin ==
  ASSUME TypeInv, DenseInv, NEW d \in Devices, events[d] # << >>
  PROVE  /\ SnapsWithin(Tail(events[d]), Known(d))
         /\ DOMAIN Head(events[d]).snap \subseteq Known(d)
<1>1. events[d] \in Seq(Event) BY DEF TypeInv, SdkType
<1> QED BY <1>1, TailFacts DEF DenseInv, SnapsWithin

(* Handling an event keeps DenseInv.                                       *)
LEMMA ConsumeDense ==
  ASSUME TypeInv, DenseInv, NEW d \in Devices, events[d] # << >>, Consume(d),
         UNCHANGED <<db, puts, applied, waiting>>
  PROVE  DenseInv'
<1>1. OthersKept(d) BY ConsumeType
<1>2. DOMAIN cache'[d] \subseteq DOMAIN db
  BY DEF Consume, TypeInv, SdkType, DenseInv, NoRecords
<1>3. events'[d] = Tail(events[d]) BY DEF Consume, TypeInv, SdkType
<1> QED BY <1>1, <1>2, <1>3, TailWithin, QueueDense

(* The SDK's steps.                                                        *)
LEMMA SdkStepDense ==
  ASSUME TypeInv, DenseInv, NEW d \in Devices, SdkStep(d)
  PROVE  DenseInv'
<1>0. /\ puts[d] \in Seq(Write) /\ Len(puts[d]) \in Nat /\ db \in Data
      /\ applied[d] \in Nat /\ applied[d] <= Len(puts[d])
      /\ SentStepwise(d) /\ AppliedStored(d)
  BY DEF TypeInv, SdkType, DenseInv
<1>1. CASE DataArrives(d)
  <2> DEFINE S == [i \in DOMAIN waiting[d] |->
                    [cb |-> waiting[d][i], snap |-> Overlay(db, puts[d])]]
  <2>1. /\ events' = [events EXCEPT ![d] = S]
        /\ waiting' = [waiting EXCEPT ![d] = << >>]
        /\ cache' = [cache EXCEPT ![d] = db]
        /\ UNCHANGED <<db, puts, applied>>
    BY <1>1 DEF DataArrives
  <2>2. SnapsWithin(S, Known(d)) BY <1>0, OverlayType DEF SnapsWithin, Known
  <2> HIDE DEF S
  <2>3. events'[d] = S /\ cache'[d] = db /\ OthersKept(d)
    BY <2>1 DEF TypeInv, SdkType, OthersKept
  <2> QED BY <2>1, <2>2, <2>3, QueueDense
<1>2. CASE Push(d)
  <2>1. OthersKept(d) /\ cache'[d] = db /\ events' = events /\ UNCHANGED <<db, puts, applied>>
    BY <1>2 DEF Push, OthersKept, TypeInv, SdkType
  <2> QED BY <2>1, QueueDense DEF DenseInv
<1>3. CASE ServerApply(d)
  <2> DEFINE w == puts[d][applied[d] + 1]
  <2>1. /\ applied[d] < Len(puts[d]) /\ db' = Apply(db, w)
        /\ applied' = [applied EXCEPT ![d] = applied[d] + 1]
        /\ puts' = puts /\ events' = events /\ cache' = cache
    BY <1>3 DEF ServerApply
  <2>2. w \in Write /\ w.key \in Nat
    <3>1. applied[d] + 1 \in 1..Len(puts[d]) BY <1>0, <2>1
    <3>2. w \in Write BY <1>0, <3>1
    <3> HIDE DEF w
    <3> QED BY <3>2 DEF Write
  <2>3. DOMAIN db' = DOMAIN db \cup {w.key} BY <1>0, <2>1, <2>2, ApplyType
  <2>4. DenseIds'
    <3>1. \A k \in 0..w.key : k \in DOMAIN db \cup {w.key}
      <4>1. applied[d] + 1 \in 1..Len(puts[d]) BY <1>0, <2>1
      <4>2. \A k \in 0..w.key : k \in DOMAIN db \/ \E h \in 1..(applied[d] + 1) : puts[d][h].key = k
        BY <1>0, <4>1 DEF SentStepwise
      <4>3. \A h \in 1..(applied[d] + 1) : h \in 1..applied[d] \/ h = applied[d] + 1 BY <1>0
      <4> QED BY <1>0, <4>2, <4>3 DEF AppliedStored
    <3> HIDE DEF w
    <3>2. Dense(DOMAIN db) BY DEF DenseInv, DenseIds
    <3>3. Dense(DOMAIN db \cup {w.key}) BY <3>1, <3>2 DEF Dense
    <3> QED BY <2>3, <3>3 DEF DenseIds
  <2>5. ASSUME NEW e \in Devices
        PROVE  /\ SentStepwise(e)' /\ DOMAIN cache'[e] \subseteq DOMAIN db'
               /\ SnapsWithin(events'[e], Known(e)')
    <3> HIDE DEF w
    <3>1. SentStepwise(e)' BY <2>1, <2>3 DEF DenseInv, SentStepwise
    <3>2. DOMAIN cache'[e] \subseteq DOMAIN db' BY <2>1, <2>3 DEF DenseInv
    <3>3. Known(e) \subseteq Known(e)' BY <2>1, <2>3 DEF Known
    <3>4. SnapsWithin(events'[e], Known(e)') BY <2>1, <3>3 DEF DenseInv, SnapsWithin
    <3> QED BY <3>1, <3>2, <3>4
  <2>6. ASSUME NEW e \in Devices PROVE AppliedStored(e)'
    <3>1. CASE e = d
      <4>1. applied'[e] = applied[d] + 1 BY <3>1, <2>1 DEF TypeInv, SdkType
      <4>2. \A h \in 1..(applied[d] + 1) : h \in 1..applied[d] \/ h = applied[d] + 1 BY <1>0
      <4>3. \A h \in 1..(applied[d] + 1) : puts[d][h].key \in DOMAIN db \cup {w.key}
        BY <1>0, <4>2 DEF AppliedStored
      <4> HIDE DEF w
      <4> QED BY <2>1, <2>3, <3>1, <4>1, <4>3 DEF AppliedStored
    <3>2. CASE e # d
      <4>1. applied'[e] = applied[e] BY <3>2, <2>1 DEF TypeInv, SdkType
      <4> HIDE DEF w
      <4> QED BY <2>1, <2>3, <4>1 DEF AppliedStored, DenseInv
    <3> QED BY <3>1, <3>2
  <2> QED BY <2>4, <2>5, <2>6 DEF DenseInv
<1>4. CASE AckPut(d)
  <2> DEFINE t == Tail(puts[d])
  <2>1. /\ applied[d] > 0
        /\ puts' = [puts EXCEPT ![d] = t]
        /\ applied' = [applied EXCEPT ![d] = applied[d] - 1]
        /\ cache' = [cache EXCEPT ![d] = IF events[d] # << >> THEN db ELSE cache[d]]
        /\ db' = db /\ events' = events
    BY <1>4 DEF AckPut
  <2>2. puts[d] # << >> BY <1>0, <2>1
  <2>3. /\ t \in Seq(Write) /\ Len(t) = Len(puts[d]) - 1 /\ Len(t) \in Nat
        /\ \A i \in 1..Len(t) : i + 1 \in 1..Len(puts[d]) /\ t[i] = puts[d][i + 1]
    BY <1>0, <2>2, TailFacts
  <2>4. puts[d][1].key \in DOMAIN db
    <3>1. 1 \in 1..applied[d] BY <1>0, <2>1
    <3> QED BY <1>0, <3>1 DEF AppliedStored
  <2> HIDE DEF t
  <2>5. \A i \in 1..Len(t) : \A k \in 0..t[i].key :
           k \in DOMAIN db \/ \E h \in 1..i : t[h].key = k
    <3> SUFFICES ASSUME NEW i \in 1..Len(t), NEW k \in 0..t[i].key, k \notin DOMAIN db
                 PROVE  \E h \in 1..i : t[h].key = k
      OBVIOUS
    <3>1. PICK h \in 1..(i + 1) : puts[d][h].key = k
      BY <1>0, <2>3 DEF SentStepwise
    <3>2. h # 1 BY <3>1, <2>4
    <3>3. h - 1 \in 1..i /\ h - 1 \in 1..Len(t) /\ (h - 1) + 1 = h BY <3>2, <2>3
    <3> QED BY <3>1, <3>3, <2>3
  <2>6. \A h \in 1..(applied[d] - 1) : t[h].key \in DOMAIN db
    <3> SUFFICES ASSUME NEW h \in 1..(applied[d] - 1) PROVE t[h].key \in DOMAIN db OBVIOUS
    <3>1. h \in 1..Len(t) /\ h + 1 \in 1..applied[d] BY <1>0, <2>3
    <3> QED BY <1>0, <2>3, <3>1 DEF AppliedStored
  <2>7. Known(d) \subseteq DOMAIN db \cup KeysOf(t)
    <3> SUFFICES ASSUME NEW i \in DOMAIN puts[d], puts[d][i].key \notin DOMAIN db
                 PROVE  puts[d][i].key \in KeysOf(t)
      BY DEF Known, KeysOf
    <3>1. i # 1 /\ i \in 1..Len(puts[d]) BY <1>0, <2>4
    <3>2. i - 1 \in 1..Len(t) /\ (i - 1) + 1 = i
      <4>1. Len(t) = Len(puts[d]) - 1 /\ Len(t) \in Nat BY <2>3
      <4> HIDE <2>3
      <4> QED BY <3>1, <4>1
    <3>3. t[i - 1] = puts[d][(i - 1) + 1] BY <2>3, <3>2, Zenon
    <3>4. t[i - 1] = puts[d][i] BY <3>2, <3>3, Zenon
    <3>5. i - 1 \in DOMAIN t BY <2>3, <3>2
    <3> QED BY <3>4, <3>5 DEF KeysOf
  <2>8. ASSUME NEW e \in Devices
        PROVE  /\ SentStepwise(e)' /\ AppliedStored(e)'
               /\ DOMAIN cache'[e] \subseteq DOMAIN db'
               /\ SnapsWithin(events'[e], Known(e)')
    <3>1. CASE e = d
      <4>1. puts'[e] = t /\ applied'[e] = applied[d] - 1 /\ cache'[e] \in {db, cache[d]}
        BY <3>1, <2>1 DEF TypeInv, SdkType
      <4>2. SentStepwise(e)' /\ AppliedStored(e)'
        BY <2>1, <2>5, <2>6, <4>1 DEF SentStepwise, AppliedStored
      <4>3. Known(d) \subseteq Known(e)' BY <2>1, <2>7, <4>1 DEF Known
      <4>4. SnapsWithin(events'[e], Known(e)')
        BY <2>1, <3>1, <4>3 DEF DenseInv, SnapsWithin
      <4> QED BY <2>1, <3>1, <4>1, <4>2, <4>4 DEF DenseInv
    <3>2. CASE e # d
      <4>1. puts'[e] = puts[e] /\ applied'[e] = applied[e] /\ cache'[e] = cache[e]
        BY <3>2, <2>1 DEF TypeInv, SdkType
      <4>2. Known(e)' = Known(e) BY <2>1, <4>1 DEF Known
      <4>3. SentStepwise(e)' /\ AppliedStored(e)'
        BY <2>1, <4>1 DEF SentStepwise, AppliedStored, DenseInv
      <4> QED BY <2>1, <4>1, <4>2, <4>3 DEF DenseInv
    <3> QED BY <3>1, <3>2
  <2> QED BY <2>1, <2>8 DEF DenseInv, DenseIds
<1>5. CASE Disconnect(d)
  <2>1. /\ applied' = [applied EXCEPT ![d] = 0]
        /\ db' = db /\ puts' = puts /\ events' = events /\ cache' = cache
    BY <1>5 DEF Disconnect
  <2>2. ASSUME NEW e \in Devices
        PROVE  SentStepwise(e)' /\ AppliedStored(e)' /\ Known(e)' = Known(e)
    <3>1. applied'[e] \in {0, applied[e]} /\ applied[e] \in Nat
      BY <2>1 DEF TypeInv, SdkType
    <3>2. \A h \in 1..applied'[e] : h \in 1..applied[e] BY <3>1
    <3>3. AppliedStored(e)' BY <2>1, <3>2 DEF AppliedStored, DenseInv
    <3>4. SentStepwise(e)' BY <2>1 DEF SentStepwise, DenseInv
    <3>5. Known(e)' = Known(e) BY <2>1 DEF Known
    <3> QED BY <3>3, <3>4, <3>5
  <2> QED BY <2>1, <2>2 DEF DenseInv, DenseIds
<1> QED BY <1>1, <1>2, <1>3, <1>4, <1>5 DEF SdkStep, CollectionNext

(* addUserToFirebase: the count leaves no gap below the new id.            *)
LEMMA AddUserDense ==
  ASSUME TypeInv, DenseInv, NEW d \in Devices, AddUser(d)
  PROVE  DenseInv'
<1> DEFINE cb == Head(events[d]).cb
           id == NewId(Head(events[d]).snap)
           p == forms[d][cb.vc].password
           W == NewAccountWrites(id, cb.username, p)
<1>1. events[d] # << >>
  <2>1. HeadIs(d, "add") BY Zenon DEF AddUser
  <2> QED BY <2>1 DEF HeadIs
<1>2. /\ puts' = [puts EXCEPT ![d] = puts[d] \o W]
      /\ Consume(d)
      /\ UNCHANGED <<db, applied, waiting>>
  BY DEF AddUser
<1>3. id \in Nat /\ \A j \in 0..(id - 1) : j \in Known(d)
  <2>1. DOMAIN Head(events[d]).snap \subseteq Known(d) BY <1>1, TailWithin
  <2>2. IsFiniteSet(DOMAIN Head(events[d]).snap) BY <1>1, HeadType, DataIsData DEF IsData
  <2>3. Known(d) \in SUBSET Nat /\ Dense(Known(d)) BY KnownDense
  <2> QED BY <2>1, <2>2, <2>3, CountBelowGap DEF NewId
<1>4. /\ Len(W) \in Nat /\ W = [i \in 1..Len(W) |-> W[i]]
      /\ \A i \in 1..Len(W) : W[i].key = id
  BY AccountsAssumption, SMTT(30) DEF NewAccountWrites
<1> DEFINE n == Len(puts[d])
<1>5. puts[d] \in Seq(Write) /\ n \in Nat /\ applied[d] \in Nat /\ applied[d] <= n
      /\ SentStepwise(d) /\ AppliedStored(d)
  BY DEF TypeInv, SdkType, DenseInv
<1> DEFINE q == puts[d] \o W
<1> HIDE DEF W, id, p, cb
<1>6. /\ Len(q) = n + Len(W) /\ DOMAIN q = 1..Len(q) /\ Len(q) \in Nat
      /\ \A i \in 1..n : q[i] = puts[d][i]
      /\ \A i \in (n + 1)..Len(q) : q[i].key = id
  <2>1. W \in Seq({W[i] : i \in 1..Len(W)}) BY <1>4
  <2>2. Len(q) = n + Len(W) /\ DOMAIN q = 1..Len(q) BY <1>5, <2>1
  <2>3. \A i \in 1..n : q[i] = puts[d][i] BY <1>5, <2>1
  <2>4. \A i \in (n + 1)..Len(q) : q[i] = W[i - n] /\ i - n \in 1..Len(W) BY <1>4, <1>5, <2>1, <2>2
  <2> QED BY <1>4, <1>5, <2>2, <2>3, <2>4
<1> HIDE DEF q
<1>7. \A i \in 1..Len(q) : \A k \in 0..q[i].key :
         k \in DOMAIN db \/ \E h \in 1..i : q[h].key = k
  <2> SUFFICES ASSUME NEW i \in 1..Len(q), NEW k \in 0..q[i].key, k \notin DOMAIN db
               PROVE  \E h \in 1..i : q[h].key = k
    OBVIOUS
  <2>1. CASE i \in 1..n
    <3>1. PICK h \in 1..i : puts[d][h].key = k
      BY <2>1, <1>5, <1>6 DEF SentStepwise
    <3>2. h \in 1..n BY <2>1, <1>5
    <3> QED BY <3>1, <3>2, <1>6
  <2>2. CASE i \in (n + 1)..Len(q)
    <3>1. q[i].key = id /\ k \in 0..id BY <2>2, <1>6
    <3>2. CASE k = id BY <3>1, <3>2, <1>6
    <3>3. CASE k # id
      <4>1. k \in 0..(id - 1) BY <3>1, <3>3, <1>3
      <4>2. k \in KeysOf(puts[d]) BY <4>1, <1>3 DEF Known
      <4>3. PICK h \in 1..n : puts[d][h].key = k BY <4>2, <1>5 DEF KeysOf
      <4>4. h \in 1..i BY <2>2, <1>5
      <4> QED BY <4>3, <4>4, <1>6
    <3> QED BY <3>2, <3>3
  <2> QED BY <2>1, <2>2, <1>5, <1>6
<1>8. \A h \in 1..applied[d] : q[h].key \in DOMAIN db
  <2>1. \A h \in 1..applied[d] : h \in 1..n BY <1>5
  <2> QED BY <2>1, <1>5, <1>6 DEF AppliedStored
<1>9. KeysOf(puts[d]) \subseteq KeysOf(q)
  <2>1. \A i \in DOMAIN puts[d] : i \in 1..n /\ i \in DOMAIN q BY <1>5, <1>6
  <2> QED BY <2>1, <1>6 DEF KeysOf
<1>10. events'[d] = Tail(events[d]) /\ DOMAIN cache'[d] \subseteq DOMAIN db /\ OthersKept(d)
  <2>1. OthersKept(d) BY <1>1, <1>2, ConsumeType
  <2>2. events'[d] = Tail(events[d]) /\ cache'[d] \in {NoRecords, cache[d]}
    BY <1>2 DEF Consume, TypeInv, SdkType
  <2> QED BY <2>1, <2>2 DEF DenseInv, NoRecords
<1>11. ASSUME NEW e \in Devices
       PROVE  /\ SentStepwise(e)' /\ AppliedStored(e)'
              /\ DOMAIN cache'[e] \subseteq DOMAIN db'
              /\ SnapsWithin(events'[e], Known(e)')
  <2>1. CASE e = d
    <3>1. puts'[e] = q BY <2>1, <1>2 DEF q, TypeInv, SdkType
    <3>2. SentStepwise(e)' /\ AppliedStored(e)'
      <4>1. db' = db /\ applied'[e] = applied[d] BY <1>2, <2>1
      <4>2. SentStepwise(e)' BY <1>7, <3>1, <4>1 DEF SentStepwise
      <4>3. AppliedStored(e)' BY <1>8, <3>1, <4>1 DEF AppliedStored
      <4> QED BY <4>2, <4>3
    <3>3. Known(d) \subseteq Known(e)' BY <1>2, <1>9, <3>1 DEF Known
    <3>4. SnapsWithin(Tail(events[d]), Known(d)) BY <1>1, TailWithin
    <3>5. SnapsWithin(events'[e], Known(e)') BY <1>10, <2>1, <3>3, <3>4 DEF SnapsWithin
    <3> QED BY <1>2, <1>10, <2>1, <3>2, <3>5
  <2>2. CASE e # d
    <3>1. puts'[e] = puts[e] /\ cache'[e] = cache[e] /\ events'[e] = events[e]
      BY <2>2, <1>2, <1>10 DEF OthersKept, TypeInv, SdkType
    <3>2. SentStepwise(e)' /\ AppliedStored(e)' /\ Known(e)' = Known(e)
      <4>1. db' = db /\ applied' = applied BY <1>2
      <4>2. SentStepwise(e)' BY <3>1, <4>1 DEF SentStepwise, DenseInv
      <4>3. AppliedStored(e)' BY <3>1, <4>1 DEF AppliedStored, DenseInv
      <4>4. Known(e)' = Known(e) BY <3>1, <4>1 DEF Known
      <4> QED BY <4>2, <4>3, <4>4
    <3> QED BY <1>2, <3>1, <3>2 DEF DenseInv
  <2> QED BY <2>1, <2>2
<1> QED BY <1>2, <1>11 DEF DenseInv, DenseIds

(* The end of a process keeps DenseInv.                                    *)
LEMMA RestartDense ==
  ASSUME TypeInv, DenseInv, NEW d \in Devices, Restart(d)
  PROVE  DenseInv'
<1>1. CloseClient(d) /\ db' = db BY DEF Restart
<1>2. ASSUME NEW e \in Devices
      PROVE  /\ SentStepwise(e)' /\ AppliedStored(e)'
             /\ DOMAIN cache'[e] \subseteq DOMAIN db'
             /\ SnapsWithin(events'[e], Known(e)')
  <2>1. CASE e = d
    <3>1. puts'[e] = << >> /\ events'[e] = << >> /\ applied'[e] = 0 /\ cache'[e] = NoRecords
      BY <1>1, <2>1 DEF CloseClient, TypeInv, SdkType
    <3> QED BY <3>1 DEF SentStepwise, AppliedStored, SnapsWithin, NoRecords
  <2>2. CASE e # d
    <3>1. puts'[e] = puts[e] /\ events'[e] = events[e] /\ applied'[e] = applied[e] /\ cache'[e] = cache[e]
      BY <1>1, <2>2 DEF CloseClient, TypeInv, SdkType
    <3>2. SentStepwise(e)' BY <1>1, <3>1 DEF SentStepwise, DenseInv
    <3>3. AppliedStored(e)' BY <1>1, <3>1 DEF AppliedStored, DenseInv
    <3>4. Known(e)' = Known(e) BY <1>1, <3>1 DEF Known
    <3> QED BY <1>1, <3>1, <3>2, <3>3, <3>4 DEF DenseInv
  <2> QED BY <2>1, <2>2
<1> QED BY <1>1, <1>2 DEF DenseInv, DenseIds

(* Every step keeps DenseInv.                                              *)
LEMMA NextDense == TypeInv /\ DenseInv /\ [Next]_vars => DenseInv'
<1> SUFFICES ASSUME TypeInv, DenseInv, [Next]_vars PROVE DenseInv' OBVIOUS
<1>1. CASE UNCHANGED collectionVars
  <2>1. db' = db /\ puts' = puts /\ applied' = applied /\ events' = events /\ cache' = cache
    BY <1>1 DEF collectionVars
  <2>2. ASSUME NEW d \in Devices
        PROVE  SentStepwise(d)' /\ AppliedStored(d)' /\ Known(d)' = Known(d)
    <3>1. SentStepwise(d)' BY <2>1 DEF SentStepwise, DenseInv
    <3>2. AppliedStored(d)' BY <2>1 DEF AppliedStored, DenseInv
    <3>3. Known(d)' = Known(d) BY <2>1 DEF Known
    <3> QED BY <3>1, <3>2, <3>3
  <2> QED BY <2>1, <2>2 DEF DenseInv, DenseIds
<1>2. ASSUME NEW d \in Devices, CreateAccount(d) \/ Login(d) \/ UsernameFree(d) PROVE DenseInv'
  <2>1. PICK cb \in Callbacks, evs \in Seq(Event) :
           /\ evs = events[d] \/ (events[d] # << >> /\ evs = Tail(events[d]))
           /\ EventsScreened(evs, Len(forms[d])) /\ Screened(cb, Len(forms[d]))
           /\ Observe(d, evs, cb)
    BY <1>2, StartedRead
  <2>2. UNCHANGED <<db, puts, applied>> BY <1>2 DEF CreateAccount, Login, UsernameFree
  <2>3. SnapsWithin(evs, Known(d)) BY <2>1, TailWithin DEF DenseInv
  <2> QED BY <2>1, <2>2, <2>3, ObserveDense
<1>3. ASSUME NEW d \in Devices, UsernameTaken(d) \/ LoginMatches(d) \/ LoginRejected(d) PROVE DenseInv'
  <2>1. events[d] # << >> /\ Consume(d) /\ UNCHANGED <<db, puts, applied, waiting>>
    BY <1>3 DEF UsernameTaken, LoginMatches, LoginRejected, HeadIs
  <2> QED BY <2>1, ConsumeDense
<1>4. ASSUME NEW d \in Devices, Kill(d) \/ Trap(d) PROVE DenseInv'
  BY <1>4, RestartDense DEF Kill, Trap
<1>5. ASSUME NEW d \in Devices, OpenSignup(d) \/ Retype(d) \/ Back(d) \/ Dismiss(d) \/ LogOut(d)
      PROVE  DenseInv'
  BY <1>1, <1>5 DEF OpenSignup, Retype, Back, Dismiss, LogOut
<1> QED
  BY <1>1, <1>2, <1>3, <1>4, <1>5, SdkStepDense, AddUserDense
  DEF Next, Callback, UserStep, vars

(* The initial states satisfy DenseInv.                                    *)
LEMMA InitDense == Init => DenseInv
BY DEF Init, CollectionInit, ClientsInit, DenseInv, DenseIds, Dense, SentStepwise, AppliedStored,
       SnapsWithin, NoRecords

(* DenseInv is inductive relative to the types.                            *)
THEOREM DenseInvariant == Spec => [](TypeInv /\ DenseInv)
<1>1. Init => TypeInv /\ DenseInv BY InitType, InitDense
<1>2. (TypeInv /\ DenseInv) /\ [Next]_vars => (TypeInv /\ DenseInv)' BY NextType, NextDense
<1> QED BY <1>1, <1>2, PTL DEF Spec

(* The ids on the server are 0, ..., n - 1 in every reachable state, for   *)
(* any number of devices, whatever is lost, resent or allocated twice.     *)
THEOREM IdsAreDense == Spec => []DenseIds
<1>1. DenseInv => DenseIds BY DEF DenseInv
<1> QED BY <1>1, DenseInvariant, PTL

-----------------------------------------------------------------------------
(* 4. Incomplete records heal. *)

FieldsFollow(d) ==
  \A i \in 1..Len(puts[d]) : puts[d][i].field = Leaf =>
    \A f \in Fields : \E j \in (i + 1)..Len(puts[d]) :
       puts[d][j].key = puts[d][i].key /\ puts[d][j].field = f
RecordFirst(d) ==
  \A i \in 1..Len(puts[d]) :
    \/ puts[d][i].key \in DOMAIN db
    \/ \E h \in 1..i : puts[d][h].key = puts[d][i].key /\ puts[d][h].field = Leaf
FieldsHaveValues(d) ==
  \A i \in 1..Len(puts[d]) : puts[d][i].field # Leaf => puts[d][i].value # Missing
Coming(d, k, f) ==
  \E i \in (applied[d] + 1)..Len(puts[d]) : puts[d][i].key = k /\ puts[d][i].field = f
Healing ==
  \A k \in DOMAIN db \ torn : \A f \in Fields :
     db[k][f] = Missing => \E d \in Devices : Coming(d, k, f)

HealInv ==
  /\ \A d \in Devices : FieldsFollow(d) /\ RecordFirst(d) /\ FieldsHaveValues(d)
  /\ Healing

(* The last conjunct of HealInv gives the invariant that TLC checks.       *)
LEMMA HealingIsIncompleteHeals ==
  ASSUME TypeInv, Healing
  PROVE  IncompleteHeals
<1>1. ASSUME NEW k \in DOMAIN db \ torn, NEW f \in Fields, db[k][f] = Missing
      PROVE  \E d \in Devices : \E i \in DOMAIN puts[d] :
               i > applied[d] /\ puts[d][i].key = k /\ puts[d][i].field = f
  <2>1. PICK d \in Devices : Coming(d, k, f) BY <1>1 DEF Healing
  <2>2. PICK i \in (applied[d] + 1)..Len(puts[d]) : puts[d][i].key = k /\ puts[d][i].field = f
    BY <2>1 DEF Coming
  <2>3. puts[d] \in Seq(Write) /\ applied[d] \in Nat BY DEF TypeInv, SdkType
  <2>4. i \in DOMAIN puts[d] /\ i > applied[d] BY <2>2, <2>3
  <2> QED BY <2>2, <2>4
<1> QED BY <1>1 DEF IncompleteHeals

(* A step that leaves the data and the write queues alone.                 *)
LEMMA SameWritesHeal ==
  ASSUME HealInv, UNCHANGED <<db, puts, applied, torn>>
  PROVE  HealInv'
<1>1. db' = db /\ puts' = puts /\ applied' = applied /\ torn' = torn OBVIOUS
<1>2. ASSUME NEW d \in Devices
      PROVE  FieldsFollow(d)' /\ RecordFirst(d)' /\ FieldsHaveValues(d)'
  <2>1. FieldsFollow(d)' BY <1>1 DEF HealInv, FieldsFollow
  <2>2. RecordFirst(d)' BY <1>1 DEF HealInv, RecordFirst
  <2>3. FieldsHaveValues(d)' BY <1>1 DEF HealInv, FieldsHaveValues
  <2> QED BY <2>1, <2>2, <2>3
<1>3. Healing' BY <1>1 DEF HealInv, Healing, Coming
<1> QED BY <1>2, <1>3 DEF HealInv

(* The server applies a write: what was coming is there, or still coming.  *)
LEMMA ServerApplyHeals ==
  ASSUME TypeInv, DenseInv, HealInv, NEW d \in Devices, ServerApply(d), UNCHANGED torn
  PROVE  HealInv'
<1> DEFINE n == applied[d] + 1
           w == puts[d][n]
<1>1. /\ db' = Apply(db, w) /\ applied[d] < Len(puts[d])
      /\ applied' = [applied EXCEPT ![d] = n]
      /\ puts' = puts /\ torn' = torn
  BY DEF ServerApply
<1>2. /\ puts[d] \in Seq(Write) /\ Len(puts[d]) \in Nat /\ applied[d] \in Nat /\ db \in Data
      /\ n \in 1..Len(puts[d])
  BY <1>1 DEF TypeInv, SdkType
<1>3. w \in Write
  <2>1. \A i \in 1..Len(puts[d]) : puts[d][i] \in Write BY <1>2
  <2> QED BY <1>2, <2>1
<1>4. DOMAIN db' = DOMAIN db \cup {w.key} BY <1>1, <1>2, <1>3, ApplyType
<1>5. FieldsFollow(d) /\ RecordFirst(d) /\ FieldsHaveValues(d) /\ AppliedStored(d)
  BY DEF HealInv, DenseInv
<1>6. applied'[d] = n /\ \A e \in Devices : e # d => applied'[e] = applied[e]
  BY <1>1 DEF TypeInv, SdkType
<1>7. ASSUME NEW e \in Devices
      PROVE  FieldsFollow(e)' /\ RecordFirst(e)' /\ FieldsHaveValues(e)'
  <2> HIDE DEF w, n
  <2>1. FieldsFollow(e)' BY <1>1 DEF HealInv, FieldsFollow
  <2>2. RecordFirst(e)' BY <1>1, <1>4 DEF HealInv, RecordFirst
  <2>3. FieldsHaveValues(e)' BY <1>1 DEF HealInv, FieldsHaveValues
  <2> QED BY <2>1, <2>2, <2>3
(* Applying n only makes write n stop coming.                              *)
<1>8. ASSUME NEW e \in Devices, NEW k, NEW f, Coming(e, k, f), ~ (w.key = k /\ w.field = f)
      PROVE  Coming(e, k, f)'
  <2>1. PICK i \in (applied[e] + 1)..Len(puts[e]) : puts[e][i].key = k /\ puts[e][i].field = f
    BY <1>8 DEF Coming
  <2>2. CASE e # d
    BY <2>1, <2>2, <1>1, <1>6 DEF Coming
  <2>3. CASE e = d
    <3>1. i # n BY <2>1, <2>3, <1>8
    <3>2. i \in (n + 1)..Len(puts[d]) BY <2>1, <2>3, <3>1, <1>2
    <3> HIDE DEF n, w
    <3> QED BY <2>1, <2>3, <3>2, <1>1, <1>6 DEF Coming
  <2> QED BY <2>2, <2>3
<1>9. Healing'
  <2> SUFFICES ASSUME NEW k \in DOMAIN db' \ torn', NEW f \in Fields, db'[k][f] = Missing
               PROVE  \E e \in Devices : Coming(e, k, f)'
    BY DEF Healing
  <2>1. CASE k # w.key
    <3>1. k \in DOMAIN db \ torn /\ db'[k] = db[k]
      <4>1. k \in DOMAIN Apply(db, w) /\ k \notin torn BY <1>1, <1>4
      <4>2. DOMAIN Apply(db, w) = DOMAIN db \cup {w.key} BY <1>2, <1>3, ApplyType
      <4> QED BY <4>1, <4>2, <2>1, <1>1, <1>4 DEF Apply
    <3>2. PICK e \in Devices : Coming(e, k, f) BY <3>1 DEF HealInv, Healing
    <3> QED BY <2>1, <3>2, <1>8
  <2>2. CASE k = w.key /\ w.field = Leaf
    <3>1. PICK j \in (n + 1)..Len(puts[d]) : puts[d][j].key = k /\ puts[d][j].field = f
      BY <2>2, <1>2, <1>5 DEF FieldsFollow
    <3> HIDE DEF n, w
    <3>2. Coming(d, k, f)' BY <3>1, <1>1, <1>6 DEF Coming
    <3> QED BY <3>2
  <2>3. CASE k = w.key /\ w.field # Leaf
    <3>1. k \in DOMAIN db
      <4>1. CASE \E h \in 1..n : puts[d][h].key = k /\ puts[d][h].field = Leaf
        <5>1. PICK h \in 1..n : puts[d][h].key = k /\ puts[d][h].field = Leaf BY <4>1
        <5>2. h # n BY <5>1, <2>3
        <5>3. h \in 1..applied[d] BY <5>1, <5>2, <1>2
        <5> QED BY <5>1, <5>3, <1>5 DEF AppliedStored
      <4>2. CASE w.key \in DOMAIN db BY <4>2, <2>3
      <4> QED BY <4>1, <4>2, <2>3, <1>2, <1>5 DEF RecordFirst
    <3>2. db'[k] = [db[k] EXCEPT ![w.field] = w.value]
      <4> HIDE DEF w
      <4> QED BY <2>3, <3>1, <1>1 DEF Apply, RecordAt
    <3>3. db[k] \in Record BY <3>1, <1>2, DataIsData DEF IsData
    <3>4. f # w.field
      <4>1. w.value # Missing BY <2>3, <1>2, <1>5 DEF FieldsHaveValues
      <4> HIDE DEF w
      <4> QED BY <4>1, <3>2, <3>3 DEF Record
    <3>5. db[k][f] = Missing
      <4> HIDE DEF w
      <4> QED BY <3>2, <3>3, <3>4 DEF Record
    <3>6. PICK e \in Devices : Coming(e, k, f)
      BY <3>1, <3>5, <1>1 DEF HealInv, Healing
    <3> QED BY <3>4, <3>6, <1>8
  <2> QED BY <2>1, <2>2, <2>3
<1> QED BY <1>7, <1>9 DEF HealInv

(* An acknowledged write leaves the queue with its value on the server.    *)
LEMMA AckPutHeals ==
  ASSUME TypeInv, DenseInv, HealInv, NEW d \in Devices, AckPut(d), UNCHANGED torn
  PROVE  HealInv'
<1> DEFINE t == Tail(puts[d])
<1>1. /\ applied[d] > 0 /\ db' = db /\ torn' = torn
      /\ puts' = [puts EXCEPT ![d] = t]
      /\ applied' = [applied EXCEPT ![d] = applied[d] - 1]
  BY DEF AckPut
<1>2. /\ puts[d] \in Seq(Write) /\ Len(puts[d]) \in Nat /\ applied[d] \in Nat
      /\ applied[d] <= Len(puts[d])
  BY DEF TypeInv, SdkType
<1>3. /\ Len(t) = Len(puts[d]) - 1 /\ Len(t) \in Nat
      /\ \A i \in 1..Len(t) : i + 1 \in 1..Len(puts[d]) /\ t[i] = puts[d][i + 1]
      /\ \A i \in 2..Len(puts[d]) : i - 1 \in 1..Len(t) /\ t[i - 1] = puts[d][i]
  <2>1. puts[d] # << >> BY <1>1, <1>2
  <2> QED BY <1>2, <2>1, TailFacts
<1> HIDE DEF t
<1>4. FieldsFollow(d) /\ RecordFirst(d) /\ FieldsHaveValues(d) /\ AppliedStored(d)
  BY DEF HealInv, DenseInv
<1>5. puts[d][1].key \in DOMAIN db
  <2>1. 1 \in 1..applied[d] BY <1>1, <1>2
  <2> QED BY <2>1, <1>4 DEF AppliedStored
<1>6. /\ puts'[d] = t /\ applied'[d] = applied[d] - 1
      /\ \A e \in Devices : e # d => puts'[e] = puts[e] /\ applied'[e] = applied[e]
  BY <1>1 DEF TypeInv, SdkType
<1>7. FieldsFollow(d)'
  <2> SUFFICES ASSUME NEW i \in 1..Len(t), t[i].field = Leaf, NEW f \in Fields
               PROVE  \E j \in (i + 1)..Len(t) : t[j].key = t[i].key /\ t[j].field = f
    BY <1>6 DEF FieldsFollow
  <2>1. PICK j \in (i + 2)..Len(puts[d]) : puts[d][j].key = t[i].key /\ puts[d][j].field = f
    BY <1>3, <1>4 DEF FieldsFollow
  <2>2. j \in 2..Len(puts[d]) /\ j - 1 \in (i + 1)..Len(t) BY <2>1, <1>3
  <2> QED BY <2>1, <2>2, <1>3
<1>8. RecordFirst(d)'
  <2> SUFFICES ASSUME NEW i \in 1..Len(t), t[i].key \notin DOMAIN db
               PROVE  \E h \in 1..i : t[h].key = t[i].key /\ t[h].field = Leaf
    BY <1>1, <1>6 DEF RecordFirst
  <2>1. PICK h \in 1..(i + 1) : puts[d][h].key = t[i].key /\ puts[d][h].field = Leaf
    BY <1>3, <1>4 DEF RecordFirst
  <2>2. h # 1 BY <2>1, <1>5
  <2>3. h \in 2..Len(puts[d]) /\ h - 1 \in 1..i BY <2>1, <2>2, <1>3
  <2> QED BY <2>1, <2>3, <1>3
<1>9. FieldsHaveValues(d)'
  <2> SUFFICES ASSUME NEW i \in 1..Len(t), t[i].field # Leaf PROVE t[i].value # Missing
    BY <1>6 DEF FieldsHaveValues
  <2>1. i + 1 \in 1..Len(puts[d]) /\ t[i] = puts[d][i + 1] BY <1>3
  <2> QED BY <2>1, <1>4 DEF FieldsHaveValues
<1>10. ASSUME NEW e \in Devices, NEW k, NEW f, Coming(e, k, f) PROVE Coming(e, k, f)'
  <2>1. PICK i \in (applied[e] + 1)..Len(puts[e]) : puts[e][i].key = k /\ puts[e][i].field = f
    BY <1>10 DEF Coming
  <2>2. CASE e # d BY <2>1, <2>2, <1>6 DEF Coming
  <2>3. CASE e = d
    <3>1. i \in 2..Len(puts[d]) /\ i - 1 \in applied[d]..Len(t) BY <2>1, <2>3, <1>1, <1>2, <1>3
    <3>2. t[i - 1].key = k /\ t[i - 1].field = f BY <2>1, <2>3, <3>1, <1>3
    <3>3. i - 1 \in ((applied[d] - 1) + 1)..Len(t) BY <3>1, <1>2
    <3> QED BY <2>3, <3>2, <3>3, <1>6 DEF Coming
  <2> QED BY <2>2, <2>3
<1>11. Healing' BY <1>1, <1>10 DEF Healing, HealInv
<1>12. ASSUME NEW e \in Devices, e # d PROVE FieldsFollow(e)' /\ RecordFirst(e)' /\ FieldsHaveValues(e)'
  BY <1>1, <1>6, <1>12 DEF HealInv, FieldsFollow, RecordFirst, FieldsHaveValues
<1> QED BY <1>7, <1>8, <1>9, <1>11, <1>12 DEF HealInv

(* A lost connection only moves writes back to be sent again.              *)
LEMMA DisconnectHeals ==
  ASSUME TypeInv, HealInv, NEW d \in Devices, Disconnect(d), UNCHANGED torn
  PROVE  HealInv'
<1>1. /\ applied' = [applied EXCEPT ![d] = 0]
      /\ db' = db /\ puts' = puts /\ torn' = torn
  BY DEF Disconnect
<1>2. ASSUME NEW e \in Devices
      PROVE  FieldsFollow(e)' /\ RecordFirst(e)' /\ FieldsHaveValues(e)'
  <2>1. FieldsFollow(e)' BY <1>1 DEF HealInv, FieldsFollow
  <2>2. RecordFirst(e)' BY <1>1 DEF HealInv, RecordFirst
  <2>3. FieldsHaveValues(e)' BY <1>1 DEF HealInv, FieldsHaveValues
  <2> QED BY <2>1, <2>2, <2>3
<1>3. ASSUME NEW e \in Devices, NEW k, NEW f, Coming(e, k, f) PROVE Coming(e, k, f)'
  <2>1. PICK i \in (applied[e] + 1)..Len(puts[e]) : puts[e][i].key = k /\ puts[e][i].field = f
    BY <1>3 DEF Coming
  <2>2. applied[e] \in Nat /\ applied'[e] \in {0, applied[e]} BY <1>1 DEF TypeInv, SdkType
  <2>3. i \in (applied'[e] + 1)..Len(puts[e]) BY <2>1, <2>2
  <2> QED BY <2>1, <2>3, <1>1 DEF Coming
<1>4. Healing' BY <1>1, <1>3 DEF Healing, HealInv
<1> QED BY <1>2, <1>4 DEF HealInv

IsBlock(W, id, m) ==
  /\ m \in Nat /\ m >= 1 /\ W \in Seq(Write) /\ Len(W) = m
  /\ \A i \in 1..m : W[i].key = id
  /\ W[1].field = Leaf
  /\ \A i \in 2..m : W[i].field # Leaf /\ W[i].value # Missing
  /\ \A f \in Fields : \E j \in 2..m : W[j].field = f

(* The writes of addUserToFirebase: the record, then every child of it.    *)
LEMMA NewAccountBlock ==
  ASSUME NEW id \in Nat, NEW u \in Names, NEW p \in Passwords,
         NEW W, W = NewAccountWrites(id, u, p), NEW m, m = Len(FieldOrder) + 1
  PROVE  IsBlock(W, id, m)
<1>1. Len(FieldOrder) \in Nat /\ DOMAIN FieldOrder = 1..Len(FieldOrder)
      /\ \A i \in 1..Len(FieldOrder) : FieldOrder[i] \in Fields
  BY AccountsAssumption
<1>2. W \in Seq(Write) BY NewAccountType
<1>3. Len(W) = m BY <1>1 DEF NewAccountWrites
<1>4. \A i \in 1..m : W[i].key = id BY DEF NewAccountWrites
<1>5. W[1].field = Leaf BY <1>1 DEF NewAccountWrites
<1>6. \A i \in 2..m : /\ i - 1 \in 1..Len(FieldOrder)
                      /\ W[i].field = FieldOrder[i - 1]
                      /\ W[i].value = FieldValue(FieldOrder[i - 1], u, p)
  BY <1>1 DEF NewAccountWrites
<1>7. \A f : FieldValue(f, u, p) # Missing BY AccountsAssumption DEF FieldValue
<1>8. \A i \in 2..m : W[i].field # Leaf /\ W[i].value # Missing
  BY <1>1, <1>6, <1>7, CollectionAssumption
<1>9. ASSUME NEW f \in Fields PROVE \E j \in 2..m : W[j].field = f
  <2>1. PICK i \in 1..Len(FieldOrder) : FieldOrder[i] = f BY <1>1, AccountsAssumption
  <2>2. i + 1 \in 2..m /\ W[i + 1].field = f BY <2>1, <1>1, <1>6
  <2> QED BY <2>2
<1> QED BY <1>1, <1>2, <1>3, <1>4, <1>5, <1>8, <1>9 DEF IsBlock

(* The new writes go to the end of the queue, the record before its        *)
(* children, so whatever was coming still is.                              *)
LEMMA AddUserHeals ==
  ASSUME TypeInv, HealInv, NEW d \in Devices, AddUser(d)
  PROVE  HealInv'
<1> DEFINE cb == Head(events[d]).cb
           id == NewId(Head(events[d]).snap)
           p == forms[d][cb.vc].password
           W == NewAccountWrites(id, cb.username, p)
           m == Len(FieldOrder) + 1
           n == Len(puts[d])
           q == puts[d] \o W
<1>1. /\ puts' = [puts EXCEPT ![d] = q]
      /\ db' = db /\ applied' = applied /\ torn' = torn
  BY Zenon DEF AddUser
<1>2. events[d] # << >> /\ cb \in AddCb BY OutcomeOps DEF AddUser, HeadIs
<1>3. id \in Nat
  <2>1. IsFiniteSet(DOMAIN Head(events[d]).snap) BY <1>2, HeadType, DataIsData DEF IsData
  <2> QED BY <2>1, FS_CardinalityType DEF NewId
<1>4. cb.username \in Names /\ p \in Passwords
  <2>1. cb.vc \in 1..Len(forms[d]) /\ cb.username \in Names
    BY <1>2, HeadType DEF Screened, AddCb
  <2>2. forms[d] \in Seq(Credentials) BY DEF TypeInv, AppType
  <2>3. forms[d][cb.vc] \in Credentials BY <2>1, <2>2
  <2> QED BY <2>1, <2>3 DEF Credentials
<1>5. /\ m \in Nat /\ m >= 1 /\ W \in Seq(Write) /\ Len(W) = m
      /\ \A i \in 1..m : W[i].key = id
      /\ W[1].field = Leaf
      /\ \A i \in 2..m : W[i].field # Leaf /\ W[i].value # Missing
      /\ \A f \in Fields : \E j \in 2..m : W[j].field = f
  <2>1. W = NewAccountWrites(id, cb.username, p) /\ m = Len(FieldOrder) + 1 OBVIOUS
  <2> HIDE DEF id, p, cb, W, m
  <2>2. IsBlock(W, id, m) BY <1>3, <1>4, <2>1, NewAccountBlock
  <2> QED BY <2>2 DEF IsBlock
<1>6. puts[d] \in Seq(Write) /\ n \in Nat /\ applied[d] \in Nat BY DEF TypeInv, SdkType
<1> HIDE DEF W, id, p, cb, m
<1>7. /\ Len(q) = n + m
      /\ \A i \in 1..n : q[i] = puts[d][i]
      /\ \A j \in 1..m : n + j \in 1..(n + m) /\ q[n + j] = W[j]
  <2>1. Len(q) = n + m BY <1>5, <1>6
  <2>2. \A i \in 1..n : q[i] = puts[d][i] BY <1>5, <1>6
  <2>3. \A j \in 1..m : n + j \in 1..(n + m) /\ q[n + j] = W[j] BY <1>5, <1>6
  <2> QED BY <2>1, <2>2, <2>3
<1> HIDE DEF q
<1>8. \A i \in 1..(n + m) : i \in 1..n \/ \E j \in 1..m : i = n + j
  <2> SUFFICES ASSUME NEW i \in 1..(n + m), i \notin 1..n PROVE \E j \in 1..m : i = n + j
    OBVIOUS
  <2>1. i - n \in 1..m /\ i = n + (i - n) BY <1>5, <1>6
  <2> QED BY <2>1
<1>9. FieldsFollow(d) /\ RecordFirst(d) /\ FieldsHaveValues(d) BY DEF HealInv
<1>10. /\ puts'[d] = q
       /\ \A e \in Devices : e # d => puts'[e] = puts[e]
  BY <1>1 DEF TypeInv, SdkType
<1> HIDE DEF n
<1>11. FieldsFollow(d)'
  <2> SUFFICES ASSUME NEW i \in 1..(n + m), q[i].field = Leaf, NEW f \in Fields
               PROVE  \E j \in (i + 1)..(n + m) : q[j].key = q[i].key /\ q[j].field = f
    BY <1>7, <1>10 DEF FieldsFollow
  <2>1. CASE i \in 1..n
    <3>1. PICK j \in (i + 1)..n : puts[d][j].key = puts[d][i].key /\ puts[d][j].field = f
      BY <2>1, <1>7, <1>9 DEF FieldsFollow, n
    <3>2. j \in 1..n /\ j \in (i + 1)..(n + m) BY <3>1, <2>1, <1>5, <1>6
    <3> QED BY <3>1, <3>2, <2>1, <1>7
  <2>2. CASE i \notin 1..n
    <3>1. PICK h \in 1..m : i = n + h BY <2>2, <1>8
    <3>2. h = 1 BY <3>1, <1>5, <1>7
    <3>3. PICK j \in 2..m : W[j].field = f BY <1>5
    <3>4. j \in 1..m /\ n + j \in (i + 1)..(n + m) BY <3>1, <3>2, <1>5, <1>6
    <3>5. q[n + j].field = f /\ q[n + j].key = id /\ q[i].key = id BY <3>1, <3>3, <3>4, <1>5, <1>7
    <3> QED BY <3>4, <3>5
  <2> QED BY <2>1, <2>2
<1>12. RecordFirst(d)'
  <2> SUFFICES ASSUME NEW i \in 1..(n + m), q[i].key \notin DOMAIN db
               PROVE  \E h \in 1..i : q[h].key = q[i].key /\ q[h].field = Leaf
    <3>1. db' = db /\ puts'[d] = q /\ Len(q) = n + m BY <1>1, <1>7, <1>10
    <3> QED BY <3>1, Zenon DEF RecordFirst
  <2>1. CASE i \in 1..n
    <3>1. PICK h \in 1..i : puts[d][h].key = puts[d][i].key /\ puts[d][h].field = Leaf
      BY <2>1, <1>7, <1>9 DEF RecordFirst, n
    <3>2. h \in 1..n BY <3>1, <2>1, <1>6
    <3> QED BY <3>1, <3>2, <2>1, <1>7
  <2>2. CASE i \notin 1..n
    <3>1. PICK h \in 1..m : i = n + h BY <2>2, <1>8
    <3>2. 1 \in 1..m /\ n + 1 \in 1..i BY <3>1, <1>5, <1>6
    <3>3. q[n + 1].key = id /\ q[n + 1].field = Leaf /\ q[i].key = id BY <3>1, <3>2, <1>5, <1>7
    <3> QED BY <3>2, <3>3
  <2> QED BY <2>1, <2>2
<1>13. FieldsHaveValues(d)'
  <2> SUFFICES ASSUME NEW i \in 1..(n + m), q[i].field # Leaf PROVE q[i].value # Missing
    BY <1>7, <1>10 DEF FieldsHaveValues
  <2>1. CASE i \in 1..n BY <2>1, <1>7, <1>9 DEF FieldsHaveValues, n
  <2>2. CASE i \notin 1..n
    <3>1. PICK h \in 1..m : i = n + h BY <2>2, <1>8
    <3>2. h # 1 BY <3>1, <1>5, <1>7
    <3>3. h \in 2..m BY <3>1, <3>2, <1>5
    <3> QED BY <3>1, <3>3, <1>5, <1>7
  <2> QED BY <2>1, <2>2
<1>14. ASSUME NEW e \in Devices, NEW k, NEW f, Coming(e, k, f) PROVE Coming(e, k, f)'
  <2>1. PICK i \in (applied[e] + 1)..Len(puts[e]) : puts[e][i].key = k /\ puts[e][i].field = f
    BY <1>14 DEF Coming
  <2>2. CASE e # d BY <2>1, <2>2, <1>1, <1>10 DEF Coming
  <2>3. CASE e = d
    <3>1. i \in 1..n /\ i \in (applied[d] + 1)..(n + m) BY <2>1, <2>3, <1>5, <1>6 DEF n
    <3> QED BY <3>1, <2>1, <2>3, <1>1, <1>7, <1>10 DEF Coming
  <2> QED BY <2>2, <2>3
<1>15. Healing' BY <1>1, <1>14 DEF Healing, HealInv
<1>16. ASSUME NEW e \in Devices, e # d PROVE FieldsFollow(e)' /\ RecordFirst(e)' /\ FieldsHaveValues(e)'
  BY <1>1, <1>10, <1>16 DEF HealInv, FieldsFollow, RecordFirst, FieldsHaveValues
<1> QED BY <1>11, <1>12, <1>13, <1>15, <1>16 DEF HealInv

(* The writes that die with a process are those of records counted as torn.*)
LEMMA RestartHeals ==
  ASSUME TypeInv, HealInv, NEW d \in Devices, Restart(d)
  PROVE  HealInv'
<1>1. /\ db' = db /\ torn' = torn \cup KeysOf(puts[d])
      /\ puts' = [puts EXCEPT ![d] = << >>]
      /\ applied' = [applied EXCEPT ![d] = 0]
  BY DEF Restart, CloseClient
<1>2. /\ puts'[d] = << >>
      /\ \A e \in Devices : e # d => puts'[e] = puts[e] /\ applied'[e] = applied[e]
  BY <1>1 DEF TypeInv, SdkType
<1>3. FieldsFollow(d)' /\ RecordFirst(d)' /\ FieldsHaveValues(d)'
  BY <1>2 DEF FieldsFollow, RecordFirst, FieldsHaveValues
<1>4. ASSUME NEW e \in Devices, e # d PROVE FieldsFollow(e)' /\ RecordFirst(e)' /\ FieldsHaveValues(e)'
  BY <1>1, <1>2, <1>4 DEF HealInv, FieldsFollow, RecordFirst, FieldsHaveValues
<1>5. Healing'
  <2> SUFFICES ASSUME NEW k \in DOMAIN db \ torn', NEW f \in Fields, db[k][f] = Missing
               PROVE  \E e \in Devices : Coming(e, k, f)'
    BY <1>1 DEF Healing
  <2>1. k \notin torn /\ k \notin KeysOf(puts[d]) BY <1>1
  <2>2. PICK e \in Devices : Coming(e, k, f) BY <2>1 DEF HealInv, Healing
  <2>3. PICK i \in (applied[e] + 1)..Len(puts[e]) : puts[e][i].key = k /\ puts[e][i].field = f
    BY <2>2 DEF Coming
  <2>4. e # d
    <3>1. puts[e] \in Seq(Write) /\ applied[e] \in Nat BY DEF TypeInv, SdkType
    <3>2. i \in DOMAIN puts[e] BY <2>3, <3>1
    <3> QED BY <3>2, <2>1, <2>3 DEF KeysOf
  <2>5. Coming(e, k, f)' BY <2>3, <2>4, <1>2 DEF Coming
  <2> QED BY <2>5
<1> QED BY <1>3, <1>4, <1>5 DEF HealInv

(* Every step keeps HealInv.                                               *)
LEMMA NextHeals == TypeInv /\ DenseInv /\ HealInv /\ [Next]_vars => HealInv'
<1> SUFFICES ASSUME TypeInv, DenseInv, HealInv, [Next]_vars PROVE HealInv' OBVIOUS
<1>1. CASE UNCHANGED vars BY <1>1, SameWritesHeal DEF vars, collectionVars, appVars
<1>2. ASSUME NEW d \in Devices, SdkStep(d) PROVE HealInv'
  <2>1. UNCHANGED torn BY <1>2 DEF SdkStep, appVars
  <2>2. CASE DataArrives(d) \/ Push(d)
    BY <2>1, <2>2, SameWritesHeal DEF DataArrives, Push
  <2> QED BY <1>2, <2>1, <2>2, ServerApplyHeals, AckPutHeals, DisconnectHeals
          DEF SdkStep, CollectionNext
<1>3. ASSUME NEW d \in Devices, Callback(d) PROVE HealInv'
  <2>1. CASE UsernameTaken(d) \/ UsernameFree(d) \/ LoginMatches(d) \/ LoginRejected(d)
    BY <2>1, SameWritesHeal DEF UsernameTaken, UsernameFree, LoginMatches, LoginRejected
  <2> QED BY <1>3, <2>1, AddUserHeals, RestartHeals DEF Callback, Trap
<1>4. ASSUME NEW d \in Devices, UserStep(d) PROVE HealInv'
  <2>1. CASE CreateAccount(d) \/ Login(d)
    BY <2>1, SameWritesHeal DEF CreateAccount, Login
  <2>2. CASE OpenSignup(d) \/ Retype(d) \/ Back(d) \/ Dismiss(d) \/ LogOut(d)
    BY <2>2, SameWritesHeal DEF OpenSignup, Retype, Back, Dismiss, LogOut, collectionVars
  <2> QED BY <1>4, <2>1, <2>2, RestartHeals DEF UserStep, Kill
<1> QED BY <1>1, <1>2, <1>3, <1>4 DEF Next

(* The initial states satisfy HealInv.                                     *)
LEMMA InitHeals == Init => HealInv
BY DEF Init, CollectionInit, ClientsInit, HealInv, FieldsFollow, RecordFirst, FieldsHaveValues, Healing, NoRecords

(* The three invariants together are inductive.                            *)
THEOREM HealInvariant == Spec => [](TypeInv /\ DenseInv /\ HealInv)
<1>1. Init => TypeInv /\ DenseInv /\ HealInv BY InitType, InitDense, InitHeals
<1>2. (TypeInv /\ DenseInv /\ HealInv) /\ [Next]_vars => (TypeInv /\ DenseInv /\ HealInv)'
  BY NextType, NextDense, NextHeals
<1> QED BY <1>1, <1>2, PTL DEF Spec

(* In every reachable state, for any number of devices and children, a     *)
(* record that lacks a child (addUserToFirebase sends the record and each  *)
(* child as writes of their own) gets that child's write from a device     *)
(* that still holds it, or some of its writes died with a process.         *)
THEOREM IncompleteRecordsHeal == Spec => []IncompleteHeals
<1>1. TypeInv /\ DenseInv /\ HealInv => IncompleteHeals
  BY HealingIsIncompleteHeals DEF HealInv
<1> QED BY <1>1, HealInvariant, PTL

-----------------------------------------------------------------------------
(* 5. Accounts that no other sign-up took stay whole. *)

(* Child f of record k settles on v for device x: by its last unacknow-    *)
(* ledged write; on the server, once that write is applied; in the view    *)
(* kept open by its reads, once that write is acknowledged.                *)
KeptAt(x, k, f, v) ==
  /\ Ends(puts[x], k, Of(f), f, v)
  /\ Clear(puts[x], applied[x], k, Of(f)) => k \in DOMAIN db /\ db[k][f] = v
  /\ events[x] # << >> /\ Clear(puts[x], 0, k, Of(f)) => k \in DOMAIN cache[x] /\ cache[x][k][f] = v

KeptAccount(a) == \A f \in Fields : KeptAt(a.device, a.id, f, FieldValue(f, a.username, a.password))

(* A device sends writes of the accounts it submitted and of no other.     *)
Owned == \A x \in Devices : \A i \in 1..Len(puts[x]) :
           \E a \in accounts : a.device = x /\ a.id = puts[x][i].key

KeptInv ==
  /\ Owned
  /\ \A a \in accounts : a.id \in torn \/ Contested(a.id) \/ KeptAccount(a)

(* Reads change what a view shows only to what the server has.             *)
LEMMA ReadKept ==
  ASSUME TypeInv, KeptInv, UNCHANGED <<db, puts, applied, accounts, torn>>,
         \A x \in Devices : events'[x] # << >> =>
            cache'[x] = db \/ (events[x] # << >> /\ cache'[x] = cache[x])
  PROVE  KeptInv'
<1>1. db' = db /\ puts' = puts /\ applied' = applied /\ accounts' = accounts /\ torn' = torn OBVIOUS
<1>2. Owned' BY <1>1 DEF KeptInv, Owned
<1> SUFFICES ASSUME NEW a \in accounts, a.id \notin torn, ~ Contested(a.id), NEW f \in Fields
             PROVE  KeptAt(a.device, a.id, f, FieldValue(f, a.username, a.password))'
  BY <1>1, <1>2 DEF KeptInv, KeptAccount, Contested
<1> DEFINE x == a.device
           k == a.id
           v == FieldValue(f, a.username, a.password)
<1>3. KeptAt(x, k, f, v) BY DEF KeptInv, KeptAccount
<1>4. x \in Devices BY DEF TypeInv, AppType
<1> HIDE DEF x, k, v
<1>5. applied[x] \in Nat BY <1>4 DEF TypeInv, SdkType
<1>6. Clear(puts[x], 0, k, Of(f)) => Clear(puts[x], applied[x], k, Of(f)) BY <1>5, ResendKeeps
<1>7. /\ Ends(puts'[x], k, Of(f), f, v)
      /\ Clear(puts'[x], applied'[x], k, Of(f)) => k \in DOMAIN db' /\ db'[k][f] = v
  BY <1>1, <1>3 DEF KeptAt
<1>8. ASSUME events'[x] # << >>, Clear(puts'[x], 0, k, Of(f))
      PROVE  k \in DOMAIN cache'[x] /\ cache'[x][k][f] = v
  <2>1. CASE cache'[x] = db BY <1>1, <1>3, <1>6, <1>8, <2>1 DEF KeptAt
  <2>2. CASE events[x] # << >> /\ cache'[x] = cache[x] BY <1>1, <1>3, <1>8, <2>2 DEF KeptAt
  <2> QED BY <1>4, <1>8, <2>1, <2>2
<1>9. KeptAt(x, k, f, v)' = (/\ Ends(puts'[x], k, Of(f), f, v)
                             /\ Clear(puts'[x], applied'[x], k, Of(f)) => k \in DOMAIN db' /\ db'[k][f] = v
                             /\ events'[x] # << >> /\ Clear(puts'[x], 0, k, Of(f))
                                  => k \in DOMAIN cache'[x] /\ cache'[x][k][f] = v)
  BY DEF KeptAt, x, k, v
<1> QED BY <1>7, <1>8, <1>9 DEF x, k, v

(* What a write leaves of a child: another record's and another child's    *)
(* stay, its own child has its value.                                      *)
LEMMA ApplyChild ==
  ASSUME NEW D \in Data, NEW w \in Write, NEW k, NEW f \in Fields
  PROVE  /\ w.key # k /\ k \in DOMAIN D => k \in DOMAIN Apply(D, w) /\ Apply(D, w)[k] = D[k]
         /\ w.key = k => k \in DOMAIN Apply(D, w)
         /\ w.key = k /\ w.field = f => Apply(D, w)[k][f] = w.value
         /\ w.key = k /\ w.field \notin Of(f) /\ k \in DOMAIN D => Apply(D, w)[k][f] = D[k][f]
<1>1. w.field # Gone BY NoRemoval
<1>2. DOMAIN Apply(D, w) = DOMAIN D \cup {w.key} BY ApplyType
<1>3. w.key # k /\ k \in DOMAIN D => Apply(D, w)[k] = D[k] BY <1>1 DEF Apply
<1>4. w.key = k /\ w.field # Leaf => Apply(D, w)[k] = [RecordAt(D, k) EXCEPT ![w.field] = w.value]
  BY <1>1 DEF Apply
<1>5. DOMAIN RecordAt(D, k) = Fields BY RecordAtType DEF Record
<1>6. f # Leaf BY CollectionAssumption DEF Leaf
<1>7. w.key = k /\ w.field = f => Apply(D, w)[k][f] = w.value BY <1>4, <1>5, <1>6
<1>8. ASSUME w.key = k, w.field \notin Of(f), k \in DOMAIN D PROVE Apply(D, w)[k][f] = D[k][f]
  <2>1. w.field # Leaf /\ w.field # f BY <1>8 DEF Of
  <2>2. RecordAt(D, k) = D[k] BY <1>8 DEF RecordAt
  <2> QED BY <1>4, <1>5, <1>8, <2>1, <2>2
<1> QED BY <1>2, <1>3, <1>7, <1>8

(* The server applies a device's next write: to the record of one of its   *)
(* own accounts.                                                           *)
LEMMA ServerApplyKept ==
  ASSUME TypeInv, KeptInv, NEW d \in Devices, ServerApply(d), UNCHANGED <<accounts, torn>>
  PROVE  KeptInv'
<1> DEFINE n == applied[d]
           w == puts[d][n + 1]
<1>1. /\ db' = Apply(db, w) /\ applied[d] < Len(puts[d])
      /\ applied' = [applied EXCEPT ![d] = n + 1]
      /\ puts' = puts /\ events' = events /\ cache' = cache /\ accounts' = accounts /\ torn' = torn
  BY DEF ServerApply
<1>2. /\ puts[d] \in Seq(Write) /\ Len(puts[d]) \in Nat /\ n \in Nat /\ n + 1 \in Nat /\ db \in Data
      /\ n + 1 \in 1..Len(puts[d])
  BY <1>1 DEF TypeInv, SdkType
<1>3. w \in Write BY <1>2
<1>4. applied'[d] = n + 1 /\ \A e \in Devices : e # d => applied'[e] = applied[e]
  BY <1>1 DEF TypeInv, SdkType
<1>5. PICK b \in accounts : b.device = d /\ b.id = w.key BY <1>2 DEF KeptInv, Owned
<1> HIDE DEF w, n
<1>6. Owned' BY <1>1 DEF KeptInv, Owned
<1> SUFFICES ASSUME NEW a \in accounts, a.id \notin torn, ~ Contested(a.id), NEW f \in Fields
             PROVE  KeptAt(a.device, a.id, f, FieldValue(f, a.username, a.password))'
  BY <1>1, <1>6 DEF KeptInv, KeptAccount, Contested
<1>7. a.id = w.key => a = b BY <1>5 DEF Contested
<1> DEFINE x == a.device
           k == a.id
           v == FieldValue(f, a.username, a.password)
<1>8. KeptAt(x, k, f, v) BY DEF KeptInv, KeptAccount
<1>9. x \in Devices /\ (k = w.key => x = d) BY <1>5, <1>7 DEF TypeInv, AppType
<1> HIDE DEF x, k, v
<1>10. ASSUME Clear(puts[x], applied'[x], k, Of(f)) PROVE k \in DOMAIN db' /\ db'[k][f] = v
  <2>1. x = d => w = puts[x][n + 1] BY DEF w
  <2>2. ASSUME ~ (x = d /\ Hit(puts[x], n + 1, k, Of(f))) PROVE k \in DOMAIN db /\ db[k][f] = v
    <3>1. CASE x = d
      <4>1. Clear(puts[d], n + 1, k, Of(f)) /\ ~ Hit(puts[d], n + 1, k, Of(f))
        BY <1>4, <1>10, <2>2, <3>1
      <4>2. Len(puts[d]) \in Nat /\ n \in Nat BY <1>2
      <4>3. Clear(puts[d], n, k, Of(f)) BY <4>1, <4>2, ClearNext
      <4> QED BY <4>3, <3>1, <1>8 DEF KeptAt, n
    <3>2. CASE x # d BY <1>4, <1>8, <1>9, <1>10, <3>2 DEF KeptAt
    <3> QED BY <3>1, <3>2
  <2>3. CASE w.key # k
    <3>1. k \in DOMAIN db /\ db[k][f] = v BY <2>1, <2>2, <2>3 DEF Hit
    <3> QED BY <1>1, <1>2, <1>3, <2>3, <3>1, ApplyChild
  <2>4. CASE w.key = k /\ w.field \in Of(f)
    <3>1. x = d /\ Hit(puts[d], n + 1, k, Of(f)) BY <1>9, <2>1, <2>4 DEF Hit
    <3>2. \A j \in ((n + 1) + 1)..Len(puts[d]) : ~ Hit(puts[d], j, k, Of(f))
      BY <1>4, <1>10, <3>1 DEF Clear
    <3>3. w.field = f /\ w.value = v BY <1>2, <1>8, <2>1, <3>1, <3>2 DEF KeptAt, Ends
    <3> QED BY <1>1, <1>2, <1>3, <2>4, <3>3, ApplyChild
  <2>5. CASE w.key = k /\ w.field \notin Of(f)
    <3>1. k \in DOMAIN db /\ db[k][f] = v BY <2>1, <2>2, <2>5 DEF Hit
    <3> QED BY <1>1, <1>2, <1>3, <2>5, <3>1, ApplyChild
  <2> QED BY <2>3, <2>4, <2>5
<1>11. KeptAt(x, k, f, v)' = (/\ Ends(puts'[x], k, Of(f), f, v)
                              /\ Clear(puts'[x], applied'[x], k, Of(f)) => k \in DOMAIN db' /\ db'[k][f] = v
                              /\ events'[x] # << >> /\ Clear(puts'[x], 0, k, Of(f))
                                   => k \in DOMAIN cache'[x] /\ cache'[x][k][f] = v)
  BY DEF KeptAt, x, k, v
<1>12. KeptAt(x, k, f, v)' BY <1>1, <1>8, <1>10, <1>11 DEF KeptAt
<1> QED BY <1>12 DEF x, k, v

(* An acknowledged write leaves the queue; a view that is open has it.     *)
LEMMA AckPutKept ==
  ASSUME TypeInv, KeptInv, NEW d \in Devices, AckPut(d), UNCHANGED <<accounts, torn>>
  PROVE  KeptInv'
<1> DEFINE t == Tail(puts[d])
           n == applied[d]
<1>1. /\ n > 0 /\ db' = db /\ events' = events /\ accounts' = accounts /\ torn' = torn
      /\ puts' = [puts EXCEPT ![d] = t]
      /\ applied' = [applied EXCEPT ![d] = n - 1]
      /\ cache' = [cache EXCEPT ![d] = IF events[d] # << >> THEN db ELSE cache[d]]
  BY DEF AckPut
<1>2. puts[d] \in Seq(Write) /\ Len(puts[d]) \in Nat /\ n \in Nat /\ n <= Len(puts[d])
  BY DEF TypeInv, SdkType
<1>3. /\ Len(t) \in Nat
      /\ \A i \in 1..Len(t) : i + 1 \in 1..Len(puts[d]) /\ t[i] = puts[d][i + 1]
  <2>1. puts[d] # << >> BY <1>1, <1>2
  <2> QED BY <1>2, <2>1, TailFacts
<1>4. \A k, F : /\ Clear(t, n - 1, k, F) <=> Clear(puts[d], n, k, F)
                /\ \A f, v : Ends(puts[d], k, F, f, v) => Ends(t, k, F, f, v)
  <2> SUFFICES ASSUME NEW k, NEW F
               PROVE  /\ Clear(t, n - 1, k, F) <=> Clear(puts[d], n, k, F)
                      /\ \A f, v : Ends(puts[d], k, F, f, v) => Ends(t, k, F, f, v)
    OBVIOUS
  <2>1. puts[d] \in Seq(Write) /\ n \in Nat /\ 0 < n /\ n <= Len(puts[d]) BY <1>1, <1>2
  <2> QED BY <2>1, AckKeeps
<1> HIDE DEF t, n
<1>5. /\ puts'[d] = t /\ applied'[d] = n - 1 /\ (events[d] # << >> => cache'[d] = db)
      /\ \A e \in Devices : e # d => puts'[e] = puts[e] /\ applied'[e] = applied[e] /\ cache'[e] = cache[e]
  BY <1>1 DEF TypeInv, SdkType
<1>6. Owned'
  <2> SUFFICES ASSUME NEW e \in Devices, NEW i \in 1..Len(puts'[e])
               PROVE  \E a \in accounts : a.device = e /\ a.id = puts'[e][i].key
    BY <1>1 DEF Owned
  <2>1. CASE e = d BY <2>1, <1>3, <1>5 DEF KeptInv, Owned
  <2>2. CASE e # d BY <2>2, <1>5 DEF KeptInv, Owned
  <2> QED BY <2>1, <2>2
<1> SUFFICES ASSUME NEW a \in accounts, a.id \notin torn, ~ Contested(a.id), NEW f \in Fields
             PROVE  KeptAt(a.device, a.id, f, FieldValue(f, a.username, a.password))'
  BY <1>1, <1>6 DEF KeptInv, KeptAccount, Contested
<1> DEFINE x == a.device
           k == a.id
           v == FieldValue(f, a.username, a.password)
<1>7. KeptAt(x, k, f, v) BY DEF KeptInv, KeptAccount
<1>8. x \in Devices BY DEF TypeInv, AppType
<1> HIDE DEF x, k, v
<1>9. KeptAt(x, k, f, v)' = (/\ Ends(puts'[x], k, Of(f), f, v)
                             /\ Clear(puts'[x], applied'[x], k, Of(f)) => k \in DOMAIN db' /\ db'[k][f] = v
                             /\ events'[x] # << >> /\ Clear(puts'[x], 0, k, Of(f))
                                  => k \in DOMAIN cache'[x] /\ cache'[x][k][f] = v)
  BY DEF KeptAt, x, k, v
<1>10. ASSUME x # d PROVE KeptAt(x, k, f, v)'
  BY <1>1, <1>5, <1>7, <1>8, <1>9, <1>10 DEF KeptAt
<1>11. ASSUME x = d PROVE KeptAt(x, k, f, v)'
  <2>1. Ends(t, k, Of(f), f, v) BY <1>4, <1>7, <1>11 DEF KeptAt
  <2>2. Clear(t, n - 1, k, Of(f)) => k \in DOMAIN db /\ db[k][f] = v
    BY <1>4, <1>7, <1>11 DEF KeptAt, n
  <2>3. Clear(t, 0, k, Of(f)) => Clear(t, n - 1, k, Of(f))
    <3>1. n - 1 \in Nat BY <1>1, <1>2 DEF n
    <3>2. PICK m \in Nat : m = n - 1 BY <3>1
    <3>3. Clear(t, 0, k, Of(f)) => Clear(t, m, k, Of(f)) BY ResendKeeps
    <3> QED BY <3>2, <3>3
  <2> QED BY <1>1, <1>5, <1>9, <1>11, <2>1, <2>2, <2>3
<1>12. KeptAt(x, k, f, v)' BY <1>10, <1>11
<1> QED BY <1>12 DEF x, k, v

(* Writes sent again settle what they settled before.                      *)
LEMMA DisconnectKept ==
  ASSUME TypeInv, KeptInv, NEW d \in Devices, Disconnect(d), UNCHANGED <<accounts, torn>>
  PROVE  KeptInv'
<1>1. /\ applied' = [applied EXCEPT ![d] = 0]
      /\ db' = db /\ puts' = puts /\ events' = events /\ cache' = cache /\ accounts' = accounts /\ torn' = torn
  BY DEF Disconnect
<1>2. Owned' BY <1>1 DEF KeptInv, Owned
<1> SUFFICES ASSUME NEW a \in accounts, a.id \notin torn, ~ Contested(a.id), NEW f \in Fields
             PROVE  KeptAt(a.device, a.id, f, FieldValue(f, a.username, a.password))'
  BY <1>1, <1>2 DEF KeptInv, KeptAccount, Contested
<1> DEFINE x == a.device
           k == a.id
           v == FieldValue(f, a.username, a.password)
<1>3. KeptAt(x, k, f, v) BY DEF KeptInv, KeptAccount
<1>4. x \in Devices BY DEF TypeInv, AppType
<1> HIDE DEF x, k, v
<1>5. applied[x] \in Nat /\ applied'[x] \in {0, applied[x]} BY <1>1, <1>4 DEF TypeInv, SdkType
<1>6. Clear(puts[x], 0, k, Of(f)) => Clear(puts[x], applied[x], k, Of(f)) BY <1>5, ResendKeeps
<1>7. KeptAt(x, k, f, v)' = (/\ Ends(puts'[x], k, Of(f), f, v)
                             /\ Clear(puts'[x], applied'[x], k, Of(f)) => k \in DOMAIN db' /\ db'[k][f] = v
                             /\ events'[x] # << >> /\ Clear(puts'[x], 0, k, Of(f))
                                  => k \in DOMAIN cache'[x] /\ cache'[x][k][f] = v)
  BY DEF KeptAt, x, k, v
<1>8. KeptAt(x, k, f, v)' BY <1>1, <1>3, <1>5, <1>6, <1>7 DEF KeptAt
<1> QED BY <1>8 DEF x, k, v

(* With an event handled, a view that stays open shows what it showed.     *)
LEMMA ConsumeKeepsView ==
  ASSUME TypeInv, NEW d \in Devices, events[d] # << >>, Consume(d)
  PROVE  \A e \in Devices : events'[e] # << >> => events[e] # << >> /\ cache'[e] = cache[e]
<1>1. events[d] \in Seq(Event) /\ events \in [Devices -> Seq(Event)] /\ cache \in [Devices -> Data]
  BY DEF TypeInv, SdkType
<1>2. /\ events' = [events EXCEPT ![d] = Tail(events[d])]
      /\ cache' = [cache EXCEPT ![d] = IF Len(events[d]) = 1 THEN NoRecords ELSE cache[d]]
  BY DEF Consume
<1>3. Len(events[d]) = 1 => Tail(events[d]) = << >>
  <2>1. Tail(events[d]) \in Seq(Event) /\ Len(Tail(events[d])) = Len(events[d]) - 1 BY <1>1, TailFacts
  <2>2. PICK t \in Seq(Event) : t = Tail(events[d]) BY <2>1
  <2>3. Len(t) = 0 => t = << >> OBVIOUS
  <2> QED BY <2>1, <2>2, <2>3
<1> QED BY <1>1, <1>2, <1>3

(* The writes of addUserToFirebase end with every child of the account.    *)
LEMMA AccountEnds ==
  ASSUME NEW ws \in Seq(Write), NEW n \in Nat, n <= Len(ws),
         NEW id \in Nat, NEW u \in Names, NEW p \in Passwords, NEW f \in Fields
  PROVE  LET q == ws \o NewAccountWrites(id, u, p)
         IN  ~ Clear(q, n, id, Of(f)) /\ Ends(q, id, Of(f), f, FieldValue(f, u, p))
<1> DEFINE t == NewAccountWrites(id, u, p)
           q == ws \o t
           m == Len(FieldOrder) + 1
<1>1. /\ Len(FieldOrder) \in Nat /\ DOMAIN FieldOrder = 1..Len(FieldOrder)
      /\ \A i \in 1..Len(FieldOrder) : FieldOrder[i] \in Fields
  BY AccountsAssumption
<1>2. t \in Seq(Write) BY NewAccountType
<1>3. Len(t) = m /\ m \in Nat BY <1>1 DEF NewAccountWrites
<1>4. \A i \in 1..m : t[i].key = id BY DEF NewAccountWrites
<1>5. \A i \in 2..m : /\ i - 1 \in 1..Len(FieldOrder)
                      /\ t[i].field = FieldOrder[i - 1]
                      /\ t[i].value = FieldValue(FieldOrder[i - 1], u, p)
  BY <1>1 DEF NewAccountWrites
<1>6. PICK j \in 2..m : t[j].field = f
  <2>1. PICK i \in 1..Len(FieldOrder) : FieldOrder[i] = f BY <1>1, AccountsAssumption
  <2>2. i + 1 \in 2..m /\ t[i + 1].field = f BY <2>1, <1>1, <1>5
  <2> QED BY <2>2
<1> HIDE DEF t
<1>7. /\ Grows(ws, q) /\ Len(q) = Len(ws) + Len(t)
      /\ \A i \in (Len(ws) + 1)..(Len(ws) + Len(t)) : i - Len(ws) \in 1..Len(t) /\ q[i] = t[i - Len(ws)]
      /\ \A i \in 1..Len(t) : Len(ws) + i \in (Len(ws) + 1)..(Len(ws) + Len(t)) /\ q[Len(ws) + i] = t[i]
  <2>1. ws \in Seq(Write) /\ t \in Seq(Write) BY <1>2
  <2> QED BY <2>1, GrowsFacts
<1> HIDE DEF q
<1>8. PICK h : h = Len(ws) + j OBVIOUS
<1>9. j \in 1..Len(t) /\ h \in (Len(ws) + 1)..Len(q) /\ q[h] = t[j] BY <1>3, <1>6, <1>7, <1>8
<1>10. Hit(q, h, id, Of(f)) BY <1>3, <1>4, <1>6, <1>9 DEF Hit, Of
<1>11. ASSUME NEW i \in h..Len(q), Hit(q, i, id, Of(f))
       PROVE  q[i].field = f /\ q[i].value = FieldValue(f, u, p)
  <2>1. Len(ws) \in Nat /\ Len(t) \in Nat BY <1>2
  <2>2. i \in (Len(ws) + 1)..(Len(ws) + Len(t)) BY <1>7, <1>9, <2>1
  <2>3. PICK g : g = i - Len(ws) OBVIOUS
  <2>4. g \in 2..m /\ q[i] = t[g] BY <1>3, <1>6, <1>7, <1>8, <2>1, <2>2, <2>3
  <2>5. /\ FieldOrder[g - 1] \in Fields
        /\ q[i].field = FieldOrder[g - 1] /\ q[i].value = FieldValue(FieldOrder[g - 1], u, p)
    BY <1>1, <1>5, <2>4
  <2>6. Gone \notin Fields /\ Leaf \notin Fields BY CollectionAssumption DEF Gone, Leaf
  <2>7. q[i].field = f BY <1>11, <2>5, <2>6 DEF Hit, Of
  <2> QED BY <2>5, <2>7
<1> HIDE DEF m
<1>12. ~ Clear(q, n, id, Of(f)) /\ Ends(q, id, Of(f), f, FieldValue(f, u, p))
  BY <1>7, <1>9, <1>10, <1>11, GrowEnds
<1> QED BY <1>12 DEF q, t

(* addUserToFirebase: the new account is whole; an older one of the same   *)
(* id is contested from now on.                                            *)
LEMMA AddUserKept ==
  ASSUME TypeInv, KeptInv, NEW d \in Devices, AddUser(d)
  PROVE  KeptInv'
<1> DEFINE cb == Head(events[d]).cb
           id == NewId(Head(events[d]).snap)
           p == forms[d][cb.vc].password
           W == NewAccountWrites(id, cb.username, p)
           q == puts[d] \o W
           new == [device |-> d, id |-> id, username |-> cb.username, password |-> p]
<1>1. /\ puts' = [puts EXCEPT ![d] = q]
      /\ accounts' = accounts \cup {new}
      /\ db' = db /\ applied' = applied /\ torn' = torn /\ waiting' = waiting /\ Consume(d)
  BY Zenon DEF AddUser
<1>2. events[d] # << >> /\ cb \in AddCb BY OutcomeOps DEF AddUser, HeadIs
<1>3. id \in Nat
  <2>1. IsFiniteSet(DOMAIN Head(events[d]).snap) BY <1>2, HeadType, DataIsData DEF IsData
  <2> QED BY <2>1, FS_CardinalityType DEF NewId
<1>4. cb.username \in Names /\ p \in Passwords
  <2>1. cb.vc \in 1..Len(forms[d]) /\ cb.username \in Names
    BY <1>2, HeadType DEF Screened, AddCb
  <2>2. forms[d] \in Seq(Credentials) BY DEF TypeInv, AppType
  <2>3. forms[d][cb.vc] \in Credentials BY <2>1, <2>2
  <2> QED BY <2>1, <2>3 DEF Credentials
<1>5. puts[d] \in Seq(Write) /\ applied[d] \in Nat /\ applied[d] <= Len(puts[d]) /\ Len(puts[d]) \in Nat
  BY DEF TypeInv, SdkType
<1>6. new.device = d /\ new.id = id /\ new.username = cb.username /\ new.password = p OBVIOUS
<1> HIDE DEF new, id, p, cb
<1>7. \A f \in Fields : /\ ~ Clear(q, applied[d], id, Of(f)) /\ ~ Clear(q, 0, id, Of(f))
                        /\ Ends(q, id, Of(f), f, FieldValue(f, cb.username, p))
  <2> SUFFICES ASSUME NEW f \in Fields
               PROVE  /\ ~ Clear(q, applied[d], id, Of(f)) /\ ~ Clear(q, 0, id, Of(f))
                      /\ Ends(q, id, Of(f), f, FieldValue(f, cb.username, p))
    OBVIOUS
  <2>1. 0 \in Nat /\ 0 <= Len(puts[d]) BY <1>5
  <2> QED BY <1>3, <1>4, <1>5, <2>1, AccountEnds
<1>8. Grows(puts[d], q) /\ \A i \in (Len(puts[d]) + 1)..Len(q) : q[i].key = id
  <2>1. W \in Seq(Write) BY <1>3, <1>4, NewAccountType
  <2>2. \A i \in 1..Len(W) : W[i].key = id
    <3>1. Len(FieldOrder) \in Nat BY AccountsAssumption
    <3> QED BY <3>1 DEF NewAccountWrites
  <2> HIDE DEF W
  <2>3. puts[d] \in Seq(Write) /\ W \in Seq(Write) BY <1>5, <2>1
  <2>4. /\ Grows(puts[d], q) /\ Len(q) = Len(puts[d]) + Len(W)
        /\ \A i \in (Len(puts[d]) + 1)..(Len(puts[d]) + Len(W)) :
             i - Len(puts[d]) \in 1..Len(W) /\ q[i] = W[i - Len(puts[d])]
    BY <2>3, GrowsFacts
  <2> HIDE DEF q
  <2> QED BY <2>2, <2>4
<1> HIDE DEF W, q
<1>9. /\ puts'[d] = q /\ \A e \in Devices : e # d => puts'[e] = puts[e]
      /\ \A e \in Devices : events'[e] # << >> => events[e] # << >> /\ cache'[e] = cache[e]
  <2>1. puts'[d] = q /\ \A e \in Devices : e # d => puts'[e] = puts[e] BY <1>1 DEF TypeInv, SdkType
  <2>2. \A e \in Devices : events'[e] # << >> => events[e] # << >> /\ cache'[e] = cache[e]
    BY <1>1, <1>2, ConsumeKeepsView
  <2> QED BY <2>1, <2>2
<1>10. Owned'
  <2> SUFFICES ASSUME NEW e \in Devices, NEW i \in 1..Len(puts'[e])
               PROVE  \E a \in accounts' : a.device = e /\ a.id = puts'[e][i].key
    BY DEF Owned
  <2>1. CASE e # d
    <3>1. PICK a \in accounts : a.device = e /\ a.id = puts[e][i].key BY <2>1, <1>9 DEF KeptInv, Owned
    <3> QED BY <3>1, <2>1, <1>1, <1>9
  <2>2. CASE e = d /\ i \in 1..Len(puts[d])
    <3>1. PICK a \in accounts : a.device = d /\ a.id = puts[d][i].key BY <2>2 DEF KeptInv, Owned
    <3>2. q[i] = puts[d][i] BY <2>2, <1>8 DEF Grows
    <3> QED BY <3>1, <3>2, <2>2, <1>1, <1>9
  <2>3. CASE e = d /\ i \notin 1..Len(puts[d])
    <3>1. i \in (Len(puts[d]) + 1)..Len(q) BY <2>3, <1>5, <1>9
    <3> QED BY <3>1, <2>3, <1>1, <1>6, <1>8, <1>9
  <2> QED BY <2>1, <2>2, <2>3
<1> SUFFICES ASSUME NEW a \in accounts', a.id \notin torn, ~ Contested(a.id)', NEW f \in Fields
             PROVE  KeptAt(a.device, a.id, f, FieldValue(f, a.username, a.password))'
  BY <1>1, <1>10 DEF KeptInv, KeptAccount
<1> DEFINE x == a.device
           k == a.id
           v == FieldValue(f, a.username, a.password)
<1>11. KeptAt(x, k, f, v)' = (/\ Ends(puts'[x], k, Of(f), f, v)
                              /\ Clear(puts'[x], applied'[x], k, Of(f)) => k \in DOMAIN db' /\ db'[k][f] = v
                              /\ events'[x] # << >> /\ Clear(puts'[x], 0, k, Of(f))
                                   => k \in DOMAIN cache'[x] /\ cache'[x][k][f] = v)
  BY DEF KeptAt
<1>12. ASSUME a = new PROVE KeptAt(x, k, f, v)'
  <2>1. x = d /\ k = id /\ v = FieldValue(f, cb.username, p) BY <1>6, <1>12
  <2> HIDE DEF x, k, v
  <2> QED BY <1>1, <1>7, <1>9, <1>11, <2>1
<1>13. ASSUME a # new PROVE KeptAt(x, k, f, v)'
  <2>1. a \in accounts /\ ~ Contested(a.id) BY <1>1, <1>13 DEF Contested
  <2>2. k # id BY <1>1, <1>6, <1>13, <2>1 DEF Contested
  <2>3. KeptAt(x, k, f, v) BY <2>1 DEF KeptInv, KeptAccount
  <2>4. x \in Devices BY <2>1 DEF TypeInv, AppType
  <2> HIDE DEF x, k, v
  <2>5. CASE x # d BY <1>1, <1>9, <1>11, <2>3, <2>4, <2>5 DEF KeptAt
  <2>6. CASE x = d
    <3>1. \A i \in (Len(puts[d]) + 1)..Len(q) : ~ Hit(q, i, k, Of(f)) BY <1>8, <2>2 DEF Hit
    <3>2. /\ Clear(q, applied[d], k, Of(f)) <=> Clear(puts[d], applied[d], k, Of(f))
          /\ \A g, y : Ends(puts[d], k, Of(f), g, y) => Ends(q, k, Of(f), g, y)
      BY <1>5, <1>8, <3>1, GrowKeeps
    <3>3. Clear(q, 0, k, Of(f)) <=> Clear(puts[d], 0, k, Of(f))
      <4>1. 0 \in Nat OBVIOUS
      <4> QED BY <4>1, <1>8, <3>1, GrowKeeps
    <3> QED BY <1>1, <1>9, <1>11, <2>3, <2>6, <3>2, <3>3 DEF KeptAt
  <2> QED BY <2>5, <2>6
<1> QED BY <1>12, <1>13

(* The writes that die with a process are those of torn accounts.          *)
LEMMA RestartKept ==
  ASSUME TypeInv, KeptInv, NEW d \in Devices, Restart(d)
  PROVE  KeptInv'
<1>1. /\ db' = db /\ accounts' = accounts /\ torn' = torn \cup KeysOf(puts[d]) /\ CloseClient(d)
  BY DEF Restart
<1>2. /\ puts'[d] = << >> /\ events'[d] = << >> /\ applied'[d] = 0
      /\ \A e \in Devices : e # d => /\ puts'[e] = puts[e] /\ applied'[e] = applied[e]
                                     /\ events'[e] = events[e] /\ cache'[e] = cache[e]
  BY <1>1 DEF CloseClient, TypeInv, SdkType
<1>3. Owned'
  <2> SUFFICES ASSUME NEW e \in Devices, NEW i \in 1..Len(puts'[e])
               PROVE  \E a \in accounts : a.device = e /\ a.id = puts'[e][i].key
    BY <1>1 DEF Owned
  <2>1. e # d
    <3>1. Len(<< >>) = 0 OBVIOUS
    <3> QED BY <1>2, <3>1
  <2> QED BY <2>1, <1>2 DEF KeptInv, Owned
<1> SUFFICES ASSUME NEW a \in accounts, a.id \notin torn', ~ Contested(a.id), NEW f \in Fields
             PROVE  KeptAt(a.device, a.id, f, FieldValue(f, a.username, a.password))'
  BY <1>1, <1>3 DEF KeptInv, KeptAccount, Contested
<1> DEFINE x == a.device
           k == a.id
           v == FieldValue(f, a.username, a.password)
<1>4. KeptAt(x, k, f, v) BY <1>1 DEF KeptInv, KeptAccount
<1>5. x \in Devices /\ k \notin KeysOf(puts[d]) BY <1>1 DEF TypeInv, AppType
<1> HIDE DEF x, k, v
<1>6. KeptAt(x, k, f, v)' = (/\ Ends(puts'[x], k, Of(f), f, v)
                             /\ Clear(puts'[x], applied'[x], k, Of(f)) => k \in DOMAIN db' /\ db'[k][f] = v
                             /\ events'[x] # << >> /\ Clear(puts'[x], 0, k, Of(f))
                                  => k \in DOMAIN cache'[x] /\ cache'[x][k][f] = v)
  BY DEF KeptAt, x, k, v
<1>7. ASSUME x # d PROVE KeptAt(x, k, f, v)' BY <1>1, <1>2, <1>4, <1>5, <1>6, <1>7 DEF KeptAt
<1>8. ASSUME x = d PROVE KeptAt(x, k, f, v)'
  <2>1. Len(puts[d]) \in Nat /\ DOMAIN puts[d] = 1..Len(puts[d]) /\ applied[d] \in Nat
    BY DEF TypeInv, SdkType
  <2>2. \A i \in 1..Len(puts[d]) : puts[d][i].key # k BY <1>5, <2>1 DEF KeysOf
  <2>3. \A i \in (applied[d] + 1)..Len(puts[d]) : i \in 1..Len(puts[d]) BY <2>1
  <2>4. Clear(puts[d], applied[d], k, Of(f)) BY <2>2, <2>3 DEF Clear, Hit
  <2>5. k \in DOMAIN db /\ db[k][f] = v BY <1>4, <1>8, <2>4 DEF KeptAt
  <2>6. Ends(<< >>, k, Of(f), f, v) BY EmptyQueue
  <2> QED BY <1>1, <1>2, <1>6, <1>8, <2>5, <2>6
<1>9. KeptAt(x, k, f, v)' BY <1>7, <1>8
<1> QED BY <1>9 DEF x, k, v

(* Every step keeps KeptInv.                                               *)
LEMMA NextKept == TypeInv /\ KeptInv /\ [Next]_vars => KeptInv'
<1> SUFFICES ASSUME TypeInv, KeptInv, [Next]_vars PROVE KeptInv' OBVIOUS
<1>1. CASE UNCHANGED collectionVars /\ UNCHANGED <<accounts, torn>>
  BY <1>1, ReadKept DEF collectionVars
<1>2. ASSUME NEW d \in Devices, SdkStep(d) PROVE KeptInv'
  <2>1. UNCHANGED <<accounts, torn>> BY <1>2 DEF SdkStep, appVars
  <2>2. CASE DataArrives(d)
    <3>1. UNCHANGED <<db, puts, applied>> BY <2>2 DEF DataArrives
    <3>2. \A x \in Devices : x # d => events'[x] = events[x] /\ cache'[x] = cache[x]
      BY <2>2 DEF DataArrives, TypeInv, SdkType
    <3>3. cache'[d] = db BY <2>2 DEF DataArrives, TypeInv, SdkType
    <3>4. \A x \in Devices : events'[x] # << >> =>
            cache'[x] = db \/ (events[x] # << >> /\ cache'[x] = cache[x])
      BY <3>2, <3>3
    <3> QED BY <2>1, <3>1, <3>4, ReadKept
  <2>3. CASE Push(d)
    <3>1. UNCHANGED <<db, puts, applied, events>> BY <2>3 DEF Push
    <3>2. \A x \in Devices : cache'[x] \in {db, cache[x]} BY <2>3 DEF Push, TypeInv, SdkType
    <3> QED BY <2>1, <3>1, <3>2, ReadKept
  <2> QED BY <1>2, <2>1, <2>2, <2>3, ServerApplyKept, AckPutKept, DisconnectKept
          DEF SdkStep, CollectionNext
<1>3. ASSUME NEW d \in Devices, UsernameTaken(d) \/ LoginMatches(d) \/ LoginRejected(d) PROVE KeptInv'
  <2>1. Consume(d) /\ UNCHANGED <<db, puts, applied, accounts, torn>>
    BY <1>3 DEF UsernameTaken, LoginMatches, LoginRejected
  <2>2. events[d] # << >> BY <1>3 DEF UsernameTaken, LoginMatches, LoginRejected, HeadIs
  <2> QED BY <2>1, <2>2, ConsumeKeepsView, ReadKept
<1>4. ASSUME NEW d \in Devices, CreateAccount(d) \/ Login(d) \/ UsernameFree(d) PROVE KeptInv'
  <2>1. PICK cb \in Callbacks, evs \in Seq(Event) :
           /\ evs = events[d] \/ (events[d] # << >> /\ evs = Tail(events[d]))
           /\ Observe(d, evs, cb)
    BY <1>4, StartedRead
  <2>2. UNCHANGED <<db, puts, applied, accounts, torn>> BY <1>4 DEF CreateAccount, Login, UsernameFree
  <2>3. \A x \in Devices : events'[x] # << >> => events[x] # << >> /\ cache'[x] = cache[x]
    <3>1. CASE evs = << >>
      <4>1. /\ events' = [events EXCEPT ![d] = << >>] /\ cache' = [cache EXCEPT ![d] = NoRecords]
        BY <2>1, <3>1 DEF Observe
      <4> QED BY <4>1 DEF TypeInv, SdkType
    <3>2. CASE evs # << >>
      <4>1. events[d] # << >> BY <2>1, <3>2
      <4>2. cache' = cache /\ \E e : events' = [events EXCEPT ![d] = e] BY <2>1, <3>2 DEF Observe
      <4> QED BY <4>1, <4>2 DEF TypeInv, SdkType
    <3> QED BY <3>1, <3>2
  <2> QED BY <2>2, <2>3, ReadKept
<1>5. ASSUME NEW d \in Devices, OpenSignup(d) \/ Retype(d) \/ Back(d) \/ Dismiss(d) \/ LogOut(d)
      PROVE  KeptInv'
  BY <1>1, <1>5 DEF OpenSignup, Retype, Back, Dismiss, LogOut
<1>6. ASSUME NEW d \in Devices, Kill(d) \/ Trap(d) PROVE KeptInv'
  BY <1>6, RestartKept DEF Kill, Trap
<1>7. CASE UNCHANGED vars BY <1>1, <1>7 DEF vars, appVars
<1> QED BY <1>2, <1>3, <1>4, <1>5, <1>6, <1>7, AddUserKept DEF Next, Callback, UserStep

(* No account exists at first.                                             *)
LEMMA InitKept == Init => KeptInv
<1>1. Len(<< >>) = 0 OBVIOUS
<1> QED BY <1>1 DEF Init, CollectionInit, ClientsInit, KeptInv, Owned

(* KeptInv holds throughout.                                               *)
LEMMA KeptInvariant == Spec => [](TypeInv /\ KeptInv)
<1>1. Init => TypeInv /\ KeptInv BY InitType, InitKept
<1>2. (TypeInv /\ KeptInv) /\ [Next]_vars => (TypeInv /\ KeptInv)' BY NextType, NextKept
<1> QED BY <1>1, <1>2, PTL DEF Spec

(* Data that a device's queue goes on top of shows its accounts whole.     *)
LEMMA OwnRecordShown ==
  ASSUME TypeInv, NEW a \in accounts, NEW D, NEW r, r = NewRecord(a.username, a.password),
         \A f \in Fields : LET v == FieldValue(f, a.username, a.password)
                           IN  /\ Ends(puts[a.device], a.id, Of(f), f, v)
                               /\ Clear(puts[a.device], 0, a.id, Of(f)) => a.id \in DOMAIN D /\ D[a.id][f] = v
  PROVE  /\ a.id \in DOMAIN D \cup KeysOf(puts[a.device])
         /\ a.id \in DOMAIN Overlay(D, puts[a.device]) /\ Overlay(D, puts[a.device])[a.id] = r
<1> DEFINE ws == puts[a.device]
           k == a.id
<1>1. ws \in Seq(Write) /\ Len(ws) \in Nat /\ DOMAIN ws = 1..Len(ws) BY DEF TypeInv, SdkType, AppType
<1>2. \A i \in 1..Len(ws) : ws[i].field # Gone
  <2>1. \A i \in 1..Len(ws) : ws[i] \in Write BY <1>1
  <2> QED BY <2>1, NoRemoval
<1>3. r = [f \in Fields |-> r[f]] /\ \A f \in Fields : r[f] = FieldValue(f, a.username, a.password)
  BY DEF NewRecord
<1>4. \A f \in Fields : /\ Ends(ws, k, Of(f), f, r[f])
                        /\ Clear(ws, 0, k, Of(f)) => k \in DOMAIN D /\ D[k][f] = r[f]
  BY <1>3
<1> HIDE DEF ws, k
<1>5. Settles(D, ws, k, r) BY <1>1, <1>2, <1>3, <1>4 DEF Settles
<1>6. Fields # {} BY AccountsAssumption
<1> QED BY <1>5, <1>6, ReadWhole DEF ws, k

(* An account whose id no other sign-up took and none of whose writes died *)
(* with a process is what its device shows over the server's data          *)
(* (addUserToFirebase; the SDK's resending of unacknowledged writes).      *)
THEOREM AccountsSurvive == Spec => []UncontestedSurvive
<1>1. TypeInv /\ KeptInv => UncontestedSurvive
  <2> SUFFICES ASSUME TypeInv, KeptInv, NEW a \in accounts, a.id \notin torn, ~ Contested(a.id)
               PROVE  /\ a.id \in DOMAIN db \cup KeysOf(puts[a.device])
                      /\ Overlay(db, puts[a.device])[a.id] = NewRecord(a.username, a.password)
    BY DEF UncontestedSurvive
  <2>1. \A f \in Fields : KeptAt(a.device, a.id, f, FieldValue(f, a.username, a.password))
    BY DEF KeptInv, KeptAccount
  <2>2. applied[a.device] \in Nat BY DEF TypeInv, SdkType, AppType
  <2>3. \A f \in Fields : LET v == FieldValue(f, a.username, a.password)
                          IN  /\ Ends(puts[a.device], a.id, Of(f), f, v)
                              /\ Clear(puts[a.device], 0, a.id, Of(f)) => a.id \in DOMAIN db /\ db[a.id][f] = v
    BY <2>1, <2>2, ResendKeeps DEF KeptAt
  <2>4. PICK r : r = NewRecord(a.username, a.password) OBVIOUS
  <2> QED BY <2>3, <2>4, OwnRecordShown
<1> QED BY <1>1, KeptInvariant, PTL

(* Such an account is also what a read that its device starts is given,    *)
(* from the server or from the view that other reads keep open             *)
(* (observeSingleEvent in LoginVC, SignupVC).                              *)
THEOREM ReadsOwn == Spec => []ReadsOwnAccount
<1>1. TypeInv /\ KeptInv => ReadsOwnAccount
  <2> SUFFICES ASSUME TypeInv, KeptInv, NEW a \in accounts, a.id \notin torn, ~ Contested(a.id)
               PROVE  /\ a.id \in DOMAIN GivenNow(a.device)
                      /\ GivenNow(a.device)[a.id] = NewRecord(a.username, a.password)
    BY DEF ReadsOwnAccount
  <2>1. \A f \in Fields : KeptAt(a.device, a.id, f, FieldValue(f, a.username, a.password))
    BY DEF KeptInv, KeptAccount
  <2>2. applied[a.device] \in Nat BY DEF TypeInv, SdkType, AppType
  <2>3. PICK D : D = IF events[a.device] # << >> THEN cache[a.device] ELSE db OBVIOUS
  <2>4. \A f \in Fields : LET v == FieldValue(f, a.username, a.password)
                          IN  /\ Ends(puts[a.device], a.id, Of(f), f, v)
                              /\ Clear(puts[a.device], 0, a.id, Of(f)) => a.id \in DOMAIN D /\ D[a.id][f] = v
    <3>1. CASE events[a.device] # << >> BY <2>1, <2>3, <3>1 DEF KeptAt
    <3>2. CASE events[a.device] = << >> BY <2>1, <2>2, <2>3, <3>2, ResendKeeps DEF KeptAt
    <3> QED BY <3>1, <3>2
  <2>5. PICK r : r = NewRecord(a.username, a.password) OBVIOUS
  <2>6. GivenNow(a.device) = Overlay(D, puts[a.device]) BY <2>3 DEF GivenNow
  <2> QED BY <2>4, <2>5, <2>6, OwnRecordShown
<1> QED BY <1>1, KeptInvariant, PTL

-----------------------------------------------------------------------------
(* 6. What a device is shown is what the server will hold. *)

(* The view with the pending writes on top (FSyncPoint's event cache) is   *)
(* the data after a replay of the queue, one write after the other, also   *)
(* over writes that are already applied.                                   *)
THEOREM ShownIsReplay == Spec => []OverlayIsReplay
<1>1. TypeInv => OverlayIsReplay
  <2> SUFFICES ASSUME TypeInv, NEW d \in Devices
               PROVE  Overlay(db, puts[d]) = FoldLeft(Apply, db, puts[d])
    BY DEF OverlayIsReplay
  <2>1. puts[d] \in Seq(Write) /\ db \in Data BY DEF TypeInv, SdkType
  <2>2. PICK n \in Nat : n = Len(puts[d]) BY <2>1
  <2>3. puts[d] = [i \in 1..n |-> puts[d][i]] BY <2>1, <2>2
  <2>4. \A i \in 1..n : puts[d][i].field \in Fields \cup {Leaf, Gone}
    <3>1. \A i \in 1..n : puts[d][i] \in Write BY <2>1, <2>2
    <3> QED BY <3>1 DEF Write
  <2>5. FullRecords(db)
    <3>1. db = [k \in DOMAIN db |-> db[k]] /\ \A k \in DOMAIN db : db[k] \in Record
      BY <2>1, DataIsData DEF IsData
    <3>2. \A k \in DOMAIN db : db[k] = [f \in Fields |-> db[k][f]] BY <3>1 DEF Record
    <3> QED BY <3>1, <3>2 DEF FullRecords
  <2> QED BY <2>3, <2>4, <2>5, ReplayShown
<1> QED BY <1>1, TypeInvariant, PTL
=============================================================================
