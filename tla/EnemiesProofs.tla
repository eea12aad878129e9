---------------------------- MODULE EnemiesProofs ----------------------------
(***************************************************************************)
(* What holds of Enemies for any devices, children, places and bounds.     *)
(*                                                                         *)
(*   1. the data, the queues and what is read                              *)
(*   2. types                                                              *)
(*   3. which device can write what: a record's children are written by    *)
(*      the device that spawned it, removals by those that defeated it     *)
(*   4. defeated enemies stay away                                         *)
(*   5. the others are kept whole                                          *)
(***************************************************************************)
EXTENDS Enemies, CollectionProofs

Values == Places \cup {Stat, Missing}
DataSet == UNION {[S -> Record] : S \in SUBSET Ids}
Event == [cb : Callbacks, snap : DataSet]

(* The reads of d whose callbacks are to come, in their order: with a view *)
(* they have their events, without one they wait.                          *)
Pending(d) == IF events[d] # << >> THEN [i \in DOMAIN events[d] |-> events[d][i].cb] ELSE waiting[d]

SdkType ==
  /\ db \in DataSet
  /\ puts \in [Devices -> Seq(Write)]
  /\ applied \in [Devices -> Nat]
  /\ \A d \in Devices : applied[d] <= Len(puts[d])
  /\ waiting \in [Devices -> Seq(Callbacks)]
  /\ events \in [Devices -> Seq(Event)]
  /\ \A d \in Devices : events[d] # << >> => waiting[d] = << >>
  /\ cache \in [Devices -> DataSet]
  /\ drops \in 0..MaxDrops

(* What counts each device's steps never exceeds the device's bound.       *)
UpTo(bound) == {n \in [Devices -> Nat] : \A d \in Devices : n[d] <= bound[d]}

AppType ==
  /\ screen \in [Devices -> {"login", "map", "tab", "battle"}]
  /\ place \in [Devices -> UserPlaces \cup {Missing}]
  /\ shown \in [Devices -> SUBSET Ids]
  /\ callout \in [Devices -> Ids \cup {Missing}]
  /\ ticks \in UpTo(MaxTicks) /\ visits \in UpTo(MaxVisits)
  /\ kills \in 0..MaxKills
  /\ spawned \subseteq [id : Ids, place : Places] /\ IsFiniteSet(spawned)
  /\ stored \subseteq Ids /\ ghosts \subseteq Ids /\ torn \subseteq Ids
  /\ defeats \subseteq [device : Devices, id : Ids]

(* A device that does not know where its user is only counts.              *)
PlacedAt(d) == place[d] = Missing => \A i \in DOMAIN Pending(d) : Pending(d)[i] = CountCb
Placed == \A d \in Devices : PlacedAt(d)

TypeInv == SdkType /\ AppType /\ Placed

(* Every enemy has its own identifier, made of its device and its turn.    *)
Numbered ==
  /\ \A s \in spawned : s.id[2] <= Cardinality(SpawnsOf(s.id[1]))
  /\ \A s, t \in spawned : s.id = t.id => s = t

(* The enemies that d is still to write: spawned by it, each once.         *)
AddsApart(p) ==
  \A i, j \in DOMAIN p : p[i].op = "add" /\ p[j].op = "add" /\ p[i].id = p[j].id => i = j
AddsAt(d) ==
  /\ \A i \in DOMAIN Pending(d) : Pending(d)[i].op = "add" =>
       /\ Pending(d)[i].id[1] = d /\ Pending(d)[i].id \notin stored
       /\ [id |-> Pending(d)[i].id, place |-> Pending(d)[i].place] \in spawned
  /\ AddsApart(Pending(d))
Adds == \A d \in Devices : AddsAt(d)

SourcesAt(d) ==
  \A i \in DOMAIN puts[d] : LET w == puts[d][i] IN
    /\ w.field # Gone => w.key[1] = d /\ w.key \in stored
    /\ w.field = Gone => [device |-> d, id |-> w.key] \in defeats
Sources ==
  /\ \A d \in Devices : SourcesAt(d)
  /\ DOMAIN db \subseteq stored
  /\ \A k \in stored : \E s \in spawned : s.id = k
  /\ ghosts \subseteq DefeatedIds

Base == TypeInv /\ Numbered /\ Adds /\ Sources

(* The removal by d of k is the last that d has to say of k, nobody else   *)
(* writes k, and once the removal is applied it has come to stay.          *)
AwayFrom(d, k) ==
  /\ k \in stored
  /\ \A e \in Devices \ {d} : \A i \in DOMAIN puts[e] : puts[e][i].key = k => puts[e][i].field = Gone
  /\ Ends(puts[d], k, AnyField, Gone, Missing)
  /\ Clear(puts[d], applied[d], k, AnyField) => k \notin DOMAIN db
  /\ events[d] # << >> /\ Clear(puts[d], 0, k, AnyField) => k \notin DOMAIN cache[d]
Away == \A x \in defeats : x.id \in torn \cup ghosts \/ AwayFrom(x.device, x.id)

(* The writes of device o to k leave its child f with value v, unless      *)
(* another device has removed k.                                           *)
WholeAt(o, k, f, v) ==
  /\ Ends(puts[o], k, Of(f), f, v)
  /\ Clear(puts[o], applied[o], k, Of(f)) =>
       \/ k \in DOMAIN db /\ db[k][f] = v
       \/ k \notin DOMAIN db /\ k \in DefeatedIds
Whole(s, f) == WholeAt(s.id[1], s.id, f, FieldValue(f, s.place))
Exempt(k) == k \in torn \cup ghosts \/ [device |-> k[1], id |-> k] \in defeats
Kept == \A s \in spawned : s.id \notin stored \/ Exempt(s.id) \/ \A f \in Fields : Whole(s, f)

-----------------------------------------------------------------------------
(* 1. Data, queues, reads. *)

(* Collections of records, as TLC checks them.                             *)
LEMMA DataFacts ==
  /\ \A D \in DataSet : D \in [DOMAIN D -> Record] /\ DOMAIN D \subseteq Ids /\ IsData(D)
  /\ \A S \in SUBSET Ids : \A D \in [S -> Record] : D \in DataSet
  /\ NoRecords \in DataSet
<1>1. \A S \in SUBSET Ids : \A D \in [S -> Record] : D \in DataSet BY DEF DataSet
<1>2. \A D \in DataSet : D \in [DOMAIN D -> Record] /\ DOMAIN D \subseteq Ids
  <2> SUFFICES ASSUME NEW D \in DataSet PROVE D \in [DOMAIN D -> Record] /\ DOMAIN D \subseteq Ids
    OBVIOUS
  <2>1. PICK S \in SUBSET Ids : D \in [S -> Record] BY DEF DataSet
  <2> QED BY <2>1
<1>3. \A D \in DataSet : IsData(D) BY <1>2 DEF IsData
<1>4. NoRecords \in [{} -> Record] BY DEF NoRecords
<1>5. NoRecords \in DataSet BY <1>1, <1>4
<1> QED BY <1>1, <1>2, <1>3, <1>5

(* The server applies a write to a record.                                 *)
LEMMA ApplyFacts ==
  ASSUME NEW D \in DataSet, NEW w \in Write
  PROVE  /\ Apply(D, w) \in DataSet
         /\ w.field = Gone => DOMAIN Apply(D, w) = DOMAIN D \ {w.key}
         /\ w.field # Gone => DOMAIN Apply(D, w) = DOMAIN D \cup {w.key}
         /\ \A k \in DOMAIN D : k # w.key => Apply(D, w)[k] = D[k]
         /\ \A f \in Fields :
              /\ w.field = f => Apply(D, w)[w.key][f] = w.value
              /\ w.field \in Fields \ {f} /\ w.key \in DOMAIN D =>
                   Apply(D, w)[w.key][f] = D[w.key][f]
<1>1. D \in [DOMAIN D -> Record] /\ DOMAIN D \subseteq Ids BY DataFacts
<1>2. w.key \in Ids /\ w.field \in AnyField /\ w.value \in Values BY DEF Write, AnyField, Values
<1>3. Blank \in Record BY DEF Blank, Record
<1>4. RecordAt(D, w.key) \in Record BY <1>1, <1>3 DEF RecordAt
<1>5. Gone # Leaf /\ Gone \notin Fields /\ Leaf \notin Fields
  BY CollectionAssumption DEF Gone, Leaf
<1>6. CASE w.field = Gone
  <2>1. Apply(D, w) = [k \in DOMAIN D \ {w.key} |-> D[k]] BY <1>6 DEF Apply
  <2>2. Apply(D, w) \in [DOMAIN D \ {w.key} -> Record] /\ DOMAIN D \ {w.key} \in SUBSET Ids
    BY <1>1, <2>1
  <2>3. Apply(D, w) \in DataSet BY <2>2, DataFacts
  <2> QED BY <1>1, <1>5, <1>6, <2>1, <2>3
<1>7. CASE w.field # Gone
  <2> DEFINE r == IF w.field = Leaf THEN Blank ELSE [RecordAt(D, w.key) EXCEPT ![w.field] = w.value]
  <2>1. Apply(D, w) = [k \in DOMAIN D \cup {w.key} |-> IF k # w.key THEN D[k] ELSE r]
    BY <1>7 DEF Apply
  <2>2. r \in Record BY <1>2, <1>3, <1>4, <1>7 DEF Record, Values, AnyField
  <2>3. \A f \in Fields : /\ w.field = f => r[f] = w.value
                          /\ w.field \in Fields \ {f} /\ w.key \in DOMAIN D => r[f] = D[w.key][f]
    BY <1>1, <1>4, <1>5, <1>7 DEF Record, RecordAt
  <2> HIDE DEF r
  <2>4. Apply(D, w) \in [DOMAIN D \cup {w.key} -> Record] /\ DOMAIN D \cup {w.key} \in SUBSET Ids
    BY <1>1, <1>2, <2>1, <2>2
  <2>5. Apply(D, w) \in DataSet BY <2>4, DataFacts
  <2> QED BY <1>7, <2>1, <2>3, <2>5
<1> QED BY <1>6, <1>7

(* The writes of a queue.                                                  *)
LEMMA QueueFacts ==
  ASSUME NEW ws \in Seq(Write)
  PROVE  /\ Len(ws) \in Nat /\ DOMAIN ws = 1..Len(ws)
         /\ \A i \in 1..Len(ws) : /\ ws[i] \in Write /\ ws[i].key \in Ids
                                  /\ ws[i].field \in AnyField /\ ws[i].value \in Values
<1>1. Len(ws) \in Nat /\ DOMAIN ws = 1..Len(ws) /\ \A i \in 1..Len(ws) : ws[i] \in Write
  OBVIOUS
<1>2. \A w \in Write : w.key \in Ids /\ w.field \in AnyField /\ w.value \in Values
  BY DEF Write, AnyField, Values
<1> QED BY <1>1, <1>2

(* What is shown of a child is a value.                                    *)
LEMMA ShownType ==
  ASSUME NEW ws \in Seq(Write), NEW D \in DataSet, NEW k \in Ids, NEW f \in Fields
  PROVE  Shown(D, ws, k, f) \in Values
<1>1. /\ Len(ws) \in Nat /\ DOMAIN ws = 1..Len(ws)
      /\ \A i \in 1..Len(ws) : ws[i].value \in Values
  BY QueueFacts
<1>2. RecordAt(D, k)[f] \in Values
  <2>1. D \in [DOMAIN D -> Record] BY DataFacts
  <2> QED BY <2>1 DEF RecordAt, Record, Blank, Values
<1>3. \/ Shown(D, ws, k, f) = RecordAt(D, k)[f]
      \/ Shown(D, ws, k, f) = Missing \/ \E i \in 1..Len(ws) : Shown(D, ws, k, f) = ws[i].value
  BY <1>1, ShownSettled
<1> QED BY <1>1, <1>2, <1>3 DEF Values

(* What a device reads.                                                    *)
LEMMA OverlayFacts ==
  ASSUME NEW ws \in Seq(Write), NEW D \in DataSet
  PROVE  /\ Overlay(D, ws) \in DataSet
         /\ DOMAIN Overlay(D, ws) = {k \in DOMAIN D \cup KeysOf(ws) : ~ RemovedBy(ws, k)}
         /\ \A k \in DOMAIN Overlay(D, ws) : Overlay(D, ws)[k] = [f \in Fields |-> Shown(D, ws, k, f)]
<1> DEFINE K == {k \in DOMAIN D \cup KeysOf(ws) : ~ RemovedBy(ws, k)}
<1>1. Overlay(D, ws) = [k \in K |-> [f \in Fields |-> Shown(D, ws, k, f)]] BY DEF Overlay
<1>2. K \in SUBSET Ids
  <2>1. \A i \in DOMAIN ws : ws[i].key \in Ids BY QueueFacts
  <2>2. DOMAIN D \subseteq Ids BY DataFacts
  <2> QED BY <2>1, <2>2 DEF KeysOf
<1>3. \A k \in K : [f \in Fields |-> Shown(D, ws, k, f)] \in Record
  <2> SUFFICES ASSUME NEW k \in Ids PROVE [f \in Fields |-> Shown(D, ws, k, f)] \in Record
    BY <1>2
  <2>1. \A f \in Fields : Shown(D, ws, k, f) \in Values BY ShownType
  <2> QED BY <2>1 DEF Record, Values
<1> HIDE DEF K
<1>4. Overlay(D, ws) \in [K -> Record] BY <1>1, <1>3
<1>5. Overlay(D, ws) \in DataSet BY <1>2, <1>4, DataFacts
<1> QED BY <1>1, <1>5 DEF K

(* A record whose last write removes it, if it has one, is not read; one   *)
(* that no write removes is read whole.                                    *)
LEMMA ReadGone ==
  ASSUME NEW ws \in Seq(Write), NEW D \in DataSet, NEW k,
         Ends(ws, k, AnyField, Gone, Missing), Clear(ws, 0, k, AnyField) => k \notin DOMAIN D
  PROVE  k \notin DOMAIN Overlay(D, ws)
<1>1. Len(ws) \in Nat /\ DOMAIN ws = 1..Len(ws) /\ \A i \in 1..Len(ws) : ws[i].field \in AnyField
  BY QueueFacts
<1>2. DOMAIN Overlay(D, ws) = {x \in DOMAIN D \cup KeysOf(ws) : ~ RemovedBy(ws, x)} BY OverlayFacts
<1>3. CASE Clear(ws, 0, k, AnyField)
  <2>1. \A i \in 1..Len(ws) : ws[i].key # k BY <1>1, <1>3 DEF Clear, Hit
  <2>2. k \notin KeysOf(ws) BY <1>1, <2>1 DEF KeysOf
  <2> QED BY <1>2, <1>3, <2>2
<1>4. CASE ~ Clear(ws, 0, k, AnyField)
  <2>1. PICK i \in (0 + 1)..Len(ws) :
           /\ ws[i].key = k /\ ws[i].field = Gone
           /\ \A j \in (i + 1)..Len(ws) : ~ Hit(ws, j, k, AnyField)
    BY <1>1, <1>4, EndsPending
  <2>2. i \in DOMAIN ws BY <1>1, <2>1
  <2>3. \A j \in DOMAIN ws : j > i => j \in (i + 1)..Len(ws) BY <1>1, <2>2
  <2>4. \A j \in DOMAIN ws : j > i => ws[j].key # k BY <1>1, <2>1, <2>3 DEF Hit
  <2>5. RemovedBy(ws, k) BY <2>1, <2>2, <2>4 DEF RemovedBy
  <2> QED BY <1>2, <2>5
<1> QED BY <1>3, <1>4

-----------------------------------------------------------------------------
(* 2. Types. *)

(* The first element and the others.                                       *)
LEMMA TailFacts ==
  ASSUME NEW A, NEW s \in Seq(A), s # << >>
  PROVE  /\ Tail(s) \in Seq(A) /\ Len(Tail(s)) = Len(s) - 1
         /\ Head(s) \in A /\ Head(s) = s[1] /\ 1 \in DOMAIN s
         /\ DOMAIN s = 1..Len(s) /\ DOMAIN Tail(s) = 1..(Len(s) - 1)
         /\ \A i \in DOMAIN Tail(s) : i \in Nat /\ i + 1 \in DOMAIN s /\ Tail(s)[i] = s[i + 1]
OBVIOUS

(* An element more.                                                        *)
LEMMA AppendFacts ==
  ASSUME NEW A, NEW s \in Seq(A), NEW x \in A
  PROVE  /\ Append(s, x) \in Seq(A) /\ Append(s, x) # << >>
         /\ DOMAIN s = 1..Len(s) /\ DOMAIN Append(s, x) = 1..(Len(s) + 1) /\ Len(s) \in Nat
         /\ Append(s, x)[Len(s) + 1] = x
         /\ \A i \in 1..Len(s) : Append(s, x)[i] = s[i]
OBVIOUS

(* Sequence q is what remains of p after its first n elements, with x      *)
(* perhaps at position m.                                                  *)
Moves(p, q, n, m, x) ==
  \A i \in DOMAIN q : \/ i \in Nat /\ i + n \in DOMAIN p /\ q[i] = p[i + n]
                      \/ i = m /\ q[i] = x

(* What starting a read changes, evs being the queued events of d, without *)
(* the first if that has just been handled.                                *)
ReadStarted(d, cb) ==
  /\ waiting' = [waiting EXCEPT ![d] = waiting'[d]]
  /\ events' = [events EXCEPT ![d] = events'[d]]
  /\ cache' = [cache EXCEPT ![d] = cache'[d]]
  /\ waiting'[d] \in Seq(Callbacks) /\ events'[d] \in Seq(Event)
  /\ cache'[d] \in {cache[d], NoRecords}
  /\ events'[d] # << >> => events[d] # << >> /\ waiting'[d] = << >> /\ cache'[d] = cache[d]

(* A read that is started: what is pending is what was, less the callback  *)
(* at the head if that has just run, and the new callback.                 *)
LEMMA ObserveFacts ==
  ASSUME TypeInv, NEW d \in Devices, NEW cb \in Callbacks, NEW n \in {0, 1}, NEW evs,
         n = 0 => evs = events[d], n = 1 => events[d] # << >> /\ evs = Tail(events[d]),
         Observe(d, evs, cb)
  PROVE  /\ ReadStarted(d, cb)
         /\ \E m \in Nat : Moves(Pending(d), Pending(d)', n, m, cb)
<1>0. /\ waiting \in [Devices -> Seq(Callbacks)] /\ events \in [Devices -> Seq(Event)]
      /\ cache \in [Devices -> DataSet] /\ puts \in [Devices -> Seq(Write)]
      /\ events[d] # << >> => waiting[d] = << >>
  BY DEF TypeInv, SdkType
<1>1. /\ evs \in Seq(Event)
      /\ evs # << >> => events[d] # << >>
      /\ \A i \in DOMAIN evs : i \in Nat /\ i + n \in DOMAIN events[d] /\ evs[i] = events[d][i + n]
  <2>1. CASE n = 0
    <3>1. evs \in Seq(Event) /\ evs = events[d] BY <1>0, <2>1
    <3>2. \A i \in DOMAIN evs : i \in Nat /\ i + 0 = i BY <3>1
    <3> QED BY <2>1, <3>1, <3>2
  <2>2. CASE n = 1
    <3>1. events[d] \in Seq(Event) /\ events[d] # << >> /\ evs = Tail(events[d]) BY <1>0, <2>2
    <3>2. /\ Tail(events[d]) \in Seq(Event)
          /\ \A i \in DOMAIN Tail(events[d]) : /\ i \in Nat /\ i + 1 \in DOMAIN events[d]
                                               /\ Tail(events[d])[i] = events[d][i + 1]
      BY <3>1, TailFacts
    <3> QED BY <2>2, <3>1, <3>2
  <2> QED BY <2>1, <2>2
<1>2. CASE evs # << >>
  <2> DEFINE e == [cb |-> cb, snap |-> Overlay(cache[d], puts[d])]
  <2>1. e \in Event BY <1>0, OverlayFacts DEF Event
  <2>2. /\ events' = [events EXCEPT ![d] = Append(evs, e)] /\ waiting' = waiting /\ cache' = cache
    BY <1>2 DEF Observe
  <2>3. e.cb = cb OBVIOUS
  <2> HIDE DEF e
  <2>4. /\ Append(evs, e) \in Seq(Event) /\ Append(evs, e) # << >>
        /\ DOMAIN Append(evs, e) = 1..(Len(evs) + 1) /\ DOMAIN evs = 1..Len(evs) /\ Len(evs) \in Nat
        /\ Append(evs, e)[Len(evs) + 1] = e /\ \A i \in 1..Len(evs) : Append(evs, e)[i] = evs[i]
    <3>1. evs \in Seq(Event) BY <1>1
    <3> QED BY <2>1, <3>1, AppendFacts
  <2>5. events'[d] = Append(evs, e) BY <1>0, <2>2
  <2>6. ReadStarted(d, cb) BY <1>0, <1>1, <1>2, <2>2, <2>4, <2>5 DEF ReadStarted
  <2>7. Pending(d)' = [i \in DOMAIN Append(evs, e) |-> Append(evs, e)[i].cb]
    BY <2>4, <2>5 DEF Pending
  <2>8. Pending(d) = [i \in DOMAIN events[d] |-> events[d][i].cb] BY <1>1, <1>2 DEF Pending
  <2>9. ASSUME NEW i \in DOMAIN Pending(d)'
        PROVE  \/ i \in Nat /\ i + n \in DOMAIN Pending(d) /\ Pending(d)'[i] = Pending(d)[i + n]
               \/ i = Len(evs) + 1 /\ Pending(d)'[i] = cb
    <3>1. i \in 1..(Len(evs) + 1) /\ Pending(d)'[i] = Append(evs, e)[i].cb BY <2>4, <2>7
    <3>2. i \in 1..Len(evs) \/ i = Len(evs) + 1 BY <2>4, <3>1
    <3>3. CASE i = Len(evs) + 1 BY <2>3, <2>4, <3>1, <3>3
    <3>4. CASE i \in 1..Len(evs)
      <4>1. i \in DOMAIN evs /\ Append(evs, e)[i] = evs[i] BY <2>4, <3>4
      <4>2. i + n \in DOMAIN events[d] /\ evs[i] = events[d][i + n] /\ i \in Nat BY <1>1, <4>1
      <4> QED BY <2>8, <3>1, <4>1, <4>2
    <3> QED BY <3>2, <3>3, <3>4
  <2>10. Moves(Pending(d), Pending(d)', n, Len(evs) + 1, cb) BY <2>9 DEF Moves
  <2> QED BY <2>4, <2>6, <2>10
<1>3. CASE evs = << >>
  <2>1. /\ events' = [events EXCEPT ![d] = << >>]
        /\ waiting' = [waiting EXCEPT ![d] = Append(waiting[d], cb)]
        /\ cache' = [cache EXCEPT ![d] = NoRecords]
    BY <1>3 DEF Observe
  <2>2. /\ Append(waiting[d], cb) \in Seq(Callbacks)
        /\ DOMAIN Append(waiting[d], cb) = 1..(Len(waiting[d]) + 1)
        /\ DOMAIN waiting[d] = 1..Len(waiting[d]) /\ Len(waiting[d]) \in Nat
        /\ Append(waiting[d], cb)[Len(waiting[d]) + 1] = cb
        /\ \A i \in 1..Len(waiting[d]) : Append(waiting[d], cb)[i] = waiting[d][i]
    BY <1>0, AppendFacts
  <2>3. /\ events'[d] = << >> /\ waiting'[d] = Append(waiting[d], cb) /\ cache'[d] = NoRecords
    BY <1>0, <2>1
  <2>4. ReadStarted(d, cb) BY <1>0, <2>1, <2>2, <2>3 DEF ReadStarted
  <2>5. Pending(d)' = Append(waiting[d], cb) BY <2>3 DEF Pending
  <2>6. CASE events[d] = << >>
    <3>1. n = 0 /\ Pending(d) = waiting[d] BY <2>6 DEF Pending
    <3>2. ASSUME NEW i \in DOMAIN Pending(d)'
          PROVE  \/ i \in Nat /\ i + n \in DOMAIN Pending(d) /\ Pending(d)'[i] = Pending(d)[i + n]
                 \/ i = Len(waiting[d]) + 1 /\ Pending(d)'[i] = cb
      <4>1. i \in 1..(Len(waiting[d]) + 1) BY <2>2, <2>5
      <4>2. i \in Nat /\ i + n = i /\ (i \in 1..Len(waiting[d]) \/ i = Len(waiting[d]) + 1)
        BY <2>2, <3>1, <4>1
      <4> QED BY <2>2, <2>5, <3>1, <4>2
    <3>3. Moves(Pending(d), Pending(d)', n, Len(waiting[d]) + 1, cb) BY <3>2 DEF Moves
    <3> QED BY <2>2, <2>4, <3>3
  <2>7. CASE events[d] # << >>
    <3>1. waiting[d] = << >> /\ Len(waiting[d]) = 0 BY <1>0, <2>7
    <3>2. \A i \in DOMAIN Pending(d)' : i = 1 /\ Pending(d)'[i] = cb BY <2>2, <2>5, <3>1
    <3>3. Moves(Pending(d), Pending(d)', n, 1, cb) BY <3>2 DEF Moves
    <3> QED BY <2>4, <3>3
  <2> QED BY <2>6, <2>7
<1> QED BY <1>2, <1>3

(* Handling the first event.                                               *)
LEMMA ConsumeFacts ==
  ASSUME TypeInv, NEW d \in Devices, events[d] # << >>, Consume(d), waiting' = waiting
  PROVE  /\ events' \in [Devices -> Seq(Event)] /\ cache' \in [Devices -> DataSet]
         /\ events' = [events EXCEPT ![d] = events'[d]]
         /\ cache' = [cache EXCEPT ![d] = cache'[d]]
         /\ cache'[d] \in {cache[d], NoRecords}
         /\ events'[d] # << >> => cache'[d] = cache[d]
         /\ \A x : Moves(Pending(d), Pending(d)', 1, 0, x)
<1>0. /\ events \in [Devices -> Seq(Event)] /\ cache \in [Devices -> DataSet]
      /\ events[d] \in Seq(Event) /\ waiting[d] = << >>
  BY DEF TypeInv, SdkType
<1>1. /\ events' = [events EXCEPT ![d] = Tail(events[d])]
      /\ cache' = [cache EXCEPT ![d] = IF Len(events[d]) = 1 THEN NoRecords ELSE cache[d]]
  BY DEF Consume
<1>2. /\ Tail(events[d]) \in Seq(Event) /\ Len(Tail(events[d])) = Len(events[d]) - 1
      /\ \A i \in DOMAIN Tail(events[d]) : /\ i \in Nat /\ i + 1 \in DOMAIN events[d]
                                           /\ Tail(events[d])[i] = events[d][i + 1]
  BY <1>0, TailFacts
<1>3. Tail(events[d]) # << >> => Len(events[d]) # 1
  <2>1. \A t \in Seq(Event) : Len(t) = 0 => t = << >> OBVIOUS
  <2>2. Len(events[d]) = 1 => Len(Tail(events[d])) = 0 BY <1>2
  <2>3. Len(events[d]) = 1 => Tail(events[d]) = << >> BY <1>2, <2>1, <2>2
  <2> QED BY <2>3
<1>4. events'[d] = Tail(events[d]) /\ cache'[d] = IF Len(events[d]) = 1 THEN NoRecords ELSE cache[d]
  BY <1>0, <1>1
<1>5. NoRecords \in DataSet BY DataFacts
<1>6. /\ events' \in [Devices -> Seq(Event)] /\ cache' \in [Devices -> DataSet]
      /\ events' = [events EXCEPT ![d] = events'[d]]
      /\ cache' = [cache EXCEPT ![d] = cache'[d]]
  BY <1>0, <1>1, <1>2, <1>4, <1>5
<1>7. \A i \in DOMAIN Pending(d)' :
        i \in Nat /\ i + 1 \in DOMAIN Pending(d) /\ Pending(d)'[i] = Pending(d)[i + 1]
  <2>1. Pending(d) = [i \in DOMAIN events[d] |-> events[d][i].cb] BY DEF Pending
  <2>2. CASE Tail(events[d]) = << >>
    <3>1. Pending(d)' = << >> BY <1>0, <1>4, <2>2 DEF Pending
    <3>2. DOMAIN Pending(d)' = {} BY <3>1
    <3> QED BY <3>2
  <2>3. CASE Tail(events[d]) # << >>
    <3>1. Pending(d)' = [i \in DOMAIN Tail(events[d]) |-> Tail(events[d])[i].cb]
      BY <1>4, <2>3 DEF Pending
    <3> QED BY <1>2, <2>1, <3>1
  <2> QED BY <2>2, <2>3
<1>8. \A x : Moves(Pending(d), Pending(d)', 1, 0, x) BY <1>7 DEF Moves
<1> QED BY <1>3, <1>4, <1>6, <1>8

(* Steps that start no read and handle none.                               *)
LEMMA SamePending ==
  ASSUME NEW e, events'[e] = events[e], waiting'[e] = waiting[e]
  PROVE  Pending(e)' = Pending(e)
BY DEF Pending

(* When the data arrives the waiting reads get their events.               *)
LEMMA ArrivalFacts ==
  ASSUME TypeInv, NEW d \in Devices, DataArrives(d)
  PROVE  /\ events' \in [Devices -> Seq(Event)] /\ waiting'[d] = << >>
         /\ waiting' = [waiting EXCEPT ![d] = << >>]
         /\ events' = [events EXCEPT ![d] = events'[d]]
         /\ cache' = [cache EXCEPT ![d] = db]
         /\ UNCHANGED <<db, puts, applied, drops>>
         /\ \A x : Moves(Pending(d), Pending(d)', 0, 0, x)
<1> DEFINE ev(i) == [cb |-> waiting[d][i], snap |-> Overlay(db, puts[d])]
<1>0. /\ waiting \in [Devices -> Seq(Callbacks)] /\ events \in [Devices -> Seq(Event)]
      /\ waiting[d] \in Seq(Callbacks) /\ db \in DataSet /\ puts[d] \in Seq(Write)
      /\ events[d] = << >> /\ waiting[d] # << >>
  BY DEF TypeInv, SdkType, DataArrives
<1>1. /\ Len(waiting[d]) \in Nat /\ DOMAIN waiting[d] = 1..Len(waiting[d])
      /\ 1 \in DOMAIN waiting[d]
      /\ \A i \in DOMAIN waiting[d] : waiting[d][i] \in Callbacks
  BY <1>0
<1>2. Overlay(db, puts[d]) \in DataSet BY <1>0, OverlayFacts
<1>3. \A i \in DOMAIN waiting[d] : ev(i) \in Event /\ ev(i).cb = waiting[d][i] BY <1>1, <1>2 DEF Event
<1>4. /\ events' = [events EXCEPT ![d] = [i \in DOMAIN waiting[d] |-> ev(i)]]
      /\ waiting' = [waiting EXCEPT ![d] = << >>]
      /\ cache' = [cache EXCEPT ![d] = db]
      /\ UNCHANGED <<db, puts, applied, drops>>
  BY DEF DataArrives
<1> HIDE DEF ev
<1>5. [i \in DOMAIN waiting[d] |-> ev(i)] \in Seq(Event) BY <1>1, <1>3
<1>6. /\ events'[d] = [i \in DOMAIN waiting[d] |-> ev(i)] /\ waiting'[d] = << >>
      /\ events' \in [Devices -> Seq(Event)] /\ events' = [events EXCEPT ![d] = events'[d]]
  BY <1>0, <1>4, <1>5
<1>7. DOMAIN events'[d] = DOMAIN waiting[d] BY <1>6
<1>8. events'[d] # << >>
  <2>1. 1 \in DOMAIN events'[d] BY <1>1, <1>7
  <2> QED BY <2>1
<1>9. Pending(d)' = [i \in DOMAIN events'[d] |-> events'[d][i].cb] /\ Pending(d) = waiting[d]
  BY <1>0, <1>8 DEF Pending
<1>10. \A i \in DOMAIN Pending(d)' :
         i \in Nat /\ i + 0 \in DOMAIN Pending(d) /\ Pending(d)'[i] = Pending(d)[i + 0]
  <2> SUFFICES ASSUME NEW i \in DOMAIN waiting[d]
               PROVE  i \in Nat /\ i + 0 = i /\ Pending(d)'[i] = Pending(d)[i]
    BY <1>7, <1>9
  <2>1. events'[d][i] = ev(i) BY <1>6
  <2> QED BY <1>1, <1>3, <1>7, <1>9, <2>1
<1>11. \A x : Moves(Pending(d), Pending(d)', 0, 0, x) BY <1>10 DEF Moves
<1> QED BY <1>4, <1>6, <1>11

(* The steps that only start and handle reads, perhaps spawning an enemy.  *)
NewId(d) == <<d, Cardinality(SpawnsOf(d)) + 1>>
Spawns(d, p) ==
  /\ Cardinality(spawned) < MaxSpawns /\ p \in Places
  /\ spawned' = spawned \cup {[id |-> NewId(d), place |-> p]}
Asks(d, cb) ==
  \/ /\ spawned' = spawned /\ cb \in {CountCb, FindCb}
     /\ place'[d] = Missing => place[d] = Missing /\ cb = CountCb
  \/ /\ place[d] # Missing /\ place' = place
     /\ \E p \in Places : Spawns(d, p) /\ cb = AddCb(NewId(d), p)
OnlyReads(d) ==
  /\ UNCHANGED <<db, puts, applied, drops, stored, defeats, ghosts, torn>>
  /\ \A e \in Devices \ {d} : /\ events'[e] = events[e] /\ waiting'[e] = waiting[e]
                              /\ cache'[e] = cache[e] /\ place'[e] = place[e]
  /\ events' \in [Devices -> Seq(Event)] /\ waiting' \in [Devices -> Seq(Callbacks)]
  /\ cache' \in [Devices -> DataSet]
  /\ events'[d] # << >> => events[d] # << >> /\ waiting'[d] = << >> /\ cache'[d] = cache[d]
  /\ \E n \in {0, 1}, m \in Nat, cb \in Callbacks :
       Moves(Pending(d), Pending(d)', n, m, cb) /\ Asks(d, cb)

(* The identifier of a new enemy.                                          *)
LEMMA NewIdFacts ==
  ASSUME TypeInv, NEW d \in Devices, Cardinality(spawned) < MaxSpawns
  PROVE  /\ NewId(d) \in Ids /\ NewId(d)[1] = d /\ NewId(d)[2] = Cardinality(SpawnsOf(d)) + 1
         /\ IsFiniteSet(SpawnsOf(d)) /\ Cardinality(SpawnsOf(d)) \in Nat
<1>1. IsFiniteSet(spawned) /\ SpawnsOf(d) \subseteq spawned BY DEF TypeInv, AppType, SpawnsOf
<1>2. /\ IsFiniteSet(SpawnsOf(d)) /\ Cardinality(SpawnsOf(d)) <= Cardinality(spawned)
      /\ Cardinality(SpawnsOf(d)) \in Nat /\ Cardinality(spawned) \in Nat
  BY <1>1, FS_Subset, FS_CardinalityType
<1>3. Cardinality(SpawnsOf(d)) + 1 \in 1..MaxSpawns BY <1>2, EnemiesAssumption
<1> QED BY <1>2, <1>3 DEF NewId, Ids

(* Calls that the callbacks are made for.                                  *)
LEMMA CallbackKinds ==
  /\ CountCb \in Callbacks /\ FindCb \in Callbacks
  /\ CountCb.op # "add" /\ FindCb.op # "add"
  /\ \A id \in Ids, p \in Places : /\ AddCb(id, p) \in Callbacks /\ AddCb(id, p).op = "add"
                                   /\ AddCb(id, p).id = id /\ AddCb(id, p).place = p
  /\ \A cb \in Callbacks : cb.op = "add" => \E id \in Ids, p \in Places : cb = AddCb(id, p)
<1>1. CountCb \in Callbacks /\ FindCb \in Callbacks BY DEF Callbacks
<1>2. CountCb.op # "add" /\ FindCb.op # "add" BY DEF CountCb, FindCb
<1>3. \A id \in Ids, p \in Places : AddCb(id, p) \in Callbacks BY DEF Callbacks
<1>4. \A id, p : AddCb(id, p).op = "add" /\ AddCb(id, p).id = id /\ AddCb(id, p).place = p
  BY DEF AddCb
<1>5. ASSUME NEW cb \in Callbacks, cb.op = "add" PROVE \E id \in Ids, p \in Places : cb = AddCb(id, p)
  <2>1. cb # CountCb /\ cb # FindCb BY <1>2, <1>5
  <2> QED BY <2>1 DEF Callbacks
<1> QED BY <1>1, <1>2, <1>3, <1>4, <1>5

(* Starting a read.                                                        *)
LEMMA ObserveReads ==
  ASSUME TypeInv, NEW d \in Devices, NEW cb \in Callbacks, NEW n \in {0, 1}, NEW evs,
         n = 0 => evs = events[d], n = 1 => events[d] # << >> /\ evs = Tail(events[d]),
         Observe(d, evs, cb), Asks(d, cb),
         \A e \in Devices \ {d} : place'[e] = place[e],
         UNCHANGED <<db, puts, applied, drops, stored, defeats, ghosts, torn>>
  PROVE  OnlyReads(d)
<1>1. ReadStarted(d, cb) BY ObserveFacts
<1>2. PICK m \in Nat : Moves(Pending(d), Pending(d)', n, m, cb) BY ObserveFacts
<1>3. /\ waiting \in [Devices -> Seq(Callbacks)] /\ events \in [Devices -> Seq(Event)]
      /\ cache \in [Devices -> DataSet] /\ NoRecords \in DataSet
  BY DataFacts DEF TypeInv, SdkType
<1>4. /\ events' \in [Devices -> Seq(Event)] /\ waiting' \in [Devices -> Seq(Callbacks)]
      /\ cache' \in [Devices -> DataSet]
      /\ \A e \in Devices \ {d} : /\ events'[e] = events[e] /\ waiting'[e] = waiting[e]
                                  /\ cache'[e] = cache[e]
      /\ events'[d] # << >> => events[d] # << >> /\ waiting'[d] = << >> /\ cache'[d] = cache[d]
  <2>1. cache'[d] \in DataSet BY <1>1, <1>3 DEF ReadStarted
  <2> QED BY <1>1, <1>3, <2>1 DEF ReadStarted
<1> QED BY <1>2, <1>4 DEF OnlyReads

(* Handling one.                                                           *)
LEMMA ConsumeReads ==
  ASSUME TypeInv, NEW d \in Devices, events[d] # << >>, Consume(d), waiting' = waiting,
         place' = place, spawned' = spawned,
         UNCHANGED <<db, puts, applied, drops, stored, defeats, ghosts, torn>>
  PROVE  OnlyReads(d)
<1>1. /\ events' \in [Devices -> Seq(Event)] /\ cache' \in [Devices -> DataSet]
      /\ events' = [events EXCEPT ![d] = events'[d]]
      /\ cache' = [cache EXCEPT ![d] = cache'[d]]
      /\ events'[d] # << >> => cache'[d] = cache[d]
  BY ConsumeFacts
<1>2. Moves(Pending(d), Pending(d)', 1, 0, CountCb) BY ConsumeFacts
<1>3. Asks(d, CountCb) BY DEF Asks
<1>4. /\ waiting \in [Devices -> Seq(Callbacks)] /\ events \in [Devices -> Seq(Event)]
      /\ cache \in [Devices -> DataSet] /\ waiting[d] = << >>
  BY DEF TypeInv, SdkType
<1>5. \A e \in Devices \ {d} : events'[e] = events[e] /\ cache'[e] = cache[e]
  BY <1>1, <1>4
<1> QED BY <1>1, <1>2, <1>3, <1>4, <1>5, CallbackKinds DEF OnlyReads

(* Neither.                                                                *)
LEMMA NoReads ==
  ASSUME TypeInv, NEW d \in Devices, UNCHANGED <<waiting, events, cache, spawned>>,
         place'[d] = Missing => place[d] = Missing,
         \A e \in Devices \ {d} : place'[e] = place[e],
         UNCHANGED <<db, puts, applied, drops, stored, defeats, ghosts, torn>>
  PROVE  OnlyReads(d)
<1>1. /\ waiting \in [Devices -> Seq(Callbacks)] /\ events \in [Devices -> Seq(Event)]
      /\ cache \in [Devices -> DataSet]
      /\ waiting[d] \in Seq(Callbacks) /\ events[d] \in Seq(Event)
      /\ events[d] # << >> => waiting[d] = << >>
  BY DEF TypeInv, SdkType
<1>2. \A i \in DOMAIN Pending(d) : i \in Nat /\ i + 0 = i
  <2>1. CASE events[d] # << >>
    <3>1. DOMAIN Pending(d) = DOMAIN events[d] BY <2>1 DEF Pending
    <3> QED BY <1>1, <3>1
  <2>2. CASE events[d] = << >>
    <3>1. DOMAIN Pending(d) = DOMAIN waiting[d] BY <2>2 DEF Pending
    <3> QED BY <1>1, <3>1
  <2> QED BY <2>1, <2>2
<1>3. Pending(d)' = Pending(d) BY SamePending
<1>4. Moves(Pending(d), Pending(d)', 0, 0, CountCb) BY <1>2, <1>3 DEF Moves
<1>5. Asks(d, CountCb) BY DEF Asks
<1> QED BY <1>1, <1>4, <1>5, CallbackKinds DEF OnlyReads

(* What only reads keeps the types of the SDK's variables.                 *)
LEMMA OnlyReadsType ==
  ASSUME TypeInv, NEW d \in Devices, OnlyReads(d), AppType'
  PROVE  TypeInv'
<1>1. SdkType'
  <2>1. \A e \in Devices : events'[e] # << >> => waiting'[e] = << >>
    BY DEF TypeInv, SdkType, OnlyReads
  <2> QED BY <2>1 DEF TypeInv, SdkType, OnlyReads
<1>2. ASSUME NEW e \in Devices, place'[e] = Missing, NEW i \in DOMAIN Pending(e)'
      PROVE  Pending(e)'[i] = CountCb
  <2>1. PlacedAt(e) BY DEF TypeInv, Placed
  <2>2. CASE e # d
    <3>1. Pending(e)' = Pending(e) /\ place'[e] = place[e] BY <2>2, SamePending DEF OnlyReads
    <3> QED BY <1>2, <2>1, <3>1 DEF PlacedAt
  <2>3. CASE e = d
    <3>1. PICK n \in {0, 1}, m \in Nat, cb \in Callbacks :
            Moves(Pending(d), Pending(d)', n, m, cb) /\ Asks(d, cb)
      BY DEF OnlyReads
    <3>2. place[d] = Missing /\ cb = CountCb BY <1>2, <2>3, <3>1 DEF Asks
    <3>3. \/ i + n \in DOMAIN Pending(d) /\ Pending(d)'[i] = Pending(d)[i + n]
          \/ Pending(d)'[i] = cb
      BY <1>2, <2>3, <3>1 DEF Moves
    <3> QED BY <2>1, <2>3, <3>2, <3>3 DEF PlacedAt
  <2> QED BY <2>2, <2>3
<1>3. Placed' BY <1>2 DEF Placed, PlacedAt
<1> QED BY <1>1, <1>3 DEF TypeInv

(* The steps of the screen that only read.                                 *)
ReadsStep(d) ==
  \/ Enter(d) \/ UpdateLocation(d) \/ Center(d) \/ Select(d) \/ Deselect(d) \/ LeaveMap(d)
  \/ ReturnToMap(d) \/ AddEnemy(d) \/ CountedSpawn(d) \/ CountedOnly(d) \/ Found(d) \/ Tick(d)

(* Showing the map again.                                                  *)
LEMMA SetUpReads ==
  ASSUME TypeInv, NEW d \in Devices, SetUpAnnotations(d, events[d]), place'[d] # Missing,
         \A e \in Devices \ {d} : place'[e] = place[e], spawned' = spawned,
         UNCHANGED <<db, puts, applied, drops, stored, defeats, ghosts, torn>>
  PROVE  OnlyReads(d) /\ shown' \in [Devices -> SUBSET Ids]
<1>1. Observe(d, events[d], FindCb) /\ shown' = [shown EXCEPT ![d] = {}]
  BY DEF SetUpAnnotations
<1>2. Asks(d, FindCb) BY DEF Asks
<1>3. OnlyReads(d) BY <1>1, <1>2, CallbackKinds, ObserveReads
<1> QED BY <1>1, <1>3 DEF TypeInv, AppType

(* Spawning an enemy.                                                      *)
LEMMA SpawnReads ==
  ASSUME TypeInv, NEW d \in Devices, NEW n \in {0, 1}, NEW evs,
         n = 0 => evs = events[d], n = 1 => events[d] # << >> /\ evs = Tail(events[d]),
         place[d] # Missing, SpawnEnemy(d, evs), UNCHANGED ticks
  PROVE  OnlyReads(d) /\ AppType'
<1>1. PICK p \in Places :
        /\ Observe(d, evs, AddCb(NewId(d), p))
        /\ shown' = [shown EXCEPT ![d] = @ \cup {NewId(d)}]
        /\ spawned' = spawned \cup {[id |-> NewId(d), place |-> p]}
  BY DEF SpawnEnemy, NewId
<1>2. /\ Cardinality(spawned) < MaxSpawns
      /\ UNCHANGED <<db, puts, applied, drops, screen, place, callout, visits, kills,
                     stored, defeats, ghosts, torn>>
  BY DEF SpawnEnemy
<1>3. NewId(d) \in Ids BY <1>2, NewIdFacts
<1>4. AddCb(NewId(d), p) \in Callbacks BY <1>3, CallbackKinds
<1>5. Asks(d, AddCb(NewId(d), p)) BY <1>1, <1>2 DEF Asks, Spawns
<1>6. OnlyReads(d) BY <1>1, <1>2, <1>4, <1>5, ObserveReads
<1>7. spawned' \subseteq [id : Ids, place : Places] /\ IsFiniteSet(spawned')
  <2>1. spawned \subseteq [id : Ids, place : Places] /\ IsFiniteSet(spawned) BY DEF TypeInv, AppType
  <2>2. IsFiniteSet(spawned') BY <1>1, <2>1, FS_AddElement
  <2>3. [id |-> NewId(d), place |-> p] \in [id : Ids, place : Places] BY <1>3
  <2> QED BY <1>1, <2>1, <2>2, <2>3
<1>8. shown' \in [Devices -> SUBSET Ids] BY <1>1, <1>3 DEF TypeInv, AppType
<1> QED BY <1>2, <1>6, <1>7, <1>8 DEF TypeInv, AppType

(* A count below its bound may go up.                                      *)
LEMMA CountsUp ==
  ASSUME NEW bound \in [Devices -> Nat], NEW n \in UpTo(bound), NEW d \in Devices, n[d] < bound[d]
  PROVE  [n EXCEPT ![d] = @ + 1] \in UpTo(bound)
<1> DEFINE m == [n EXCEPT ![d] = @ + 1]
<1>1. n \in [Devices -> Nat] /\ \A e \in Devices : n[e] <= bound[e] BY DEF UpTo
<1>2. m \in [Devices -> Nat] BY <1>1
<1>3. ASSUME NEW e \in Devices PROVE m[e] <= bound[e]
  <2>1. n[e] \in Nat /\ bound[e] \in Nat /\ n[e] <= bound[e] BY <1>1
  <2>2. m[e] = IF e = d THEN n[d] + 1 ELSE n[e] BY <1>1
  <2> QED BY <2>1, <2>2
<1> QED BY <1>2, <1>3 DEF UpTo

(* The steps that only start or end reads change nothing but the screens.  *)
LEMMA ReadsStepFacts ==
  ASSUME TypeInv, NEW d \in Devices, ReadsStep(d)
  PROVE  OnlyReads(d) /\ AppType'
<1> USE DEF history, boundVars, mapVars, appVars, collectionVars
<1>0. /\ AppType /\ place[d] \in UserPlaces \cup {Missing}
      /\ Missing \notin UserPlaces
  BY EnemiesAssumption DEF TypeInv, AppType
<1>1. CASE Enter(d)
  <2>1. OnlyReads(d) BY <1>1, NoReads DEF Enter
  <2> QED BY <1>0, <1>1, <2>1 DEF Enter, AppType
<1>2. CASE Select(d)
  <2>1. OnlyReads(d) BY <1>2, NoReads DEF Select
  <2>2. shown[d] \subseteq Ids BY <1>0 DEF AppType
  <2>3. callout' \in [Devices -> Ids \cup {Missing}] BY <1>0, <1>2, <2>2 DEF Select, AppType
  <2> QED BY <1>0, <1>2, <2>1, <2>3 DEF Select, AppType
<1>3. CASE Deselect(d)
  <2>1. OnlyReads(d) BY <1>3, NoReads DEF Deselect
  <2> QED BY <1>0, <1>3, <2>1 DEF Deselect, AppType
<1>4. CASE LeaveMap(d)
  <2>1. OnlyReads(d) BY <1>4, NoReads DEF LeaveMap
  <2>2. visits' \in UpTo(MaxVisits)
    BY <1>0, <1>4, EnemiesAssumption, CountsUp DEF LeaveMap, AppType
  <2>3. screen' \in [Devices -> {"login", "map", "tab", "battle"}]
    BY <1>0, <1>4 DEF LeaveMap, AppType
  <2> QED BY <1>0, <1>4, <2>1, <2>2, <2>3 DEF LeaveMap, AppType
<1>5. CASE UpdateLocation(d)
  <2>1. PICK p \in UserPlaces \ {place[d]} : place' = [place EXCEPT ![d] = p]
    BY <1>5 DEF UpdateLocation
  <2>2. /\ place'[d] = p /\ p # Missing /\ place' \in [Devices -> UserPlaces \cup {Missing}]
        /\ \A e \in Devices \ {d} : place'[e] = place[e]
    BY <1>0, <2>1 DEF AppType
  <2>3. CASE place[d] = Missing
    <3>1. SetUpAnnotations(d, events[d]) BY <1>5, <2>3 DEF UpdateLocation
    <3>2. OnlyReads(d) /\ shown' \in [Devices -> SUBSET Ids]
      BY <1>5, <2>2, <3>1, SetUpReads DEF UpdateLocation
    <3> QED BY <1>0, <1>5, <2>2, <3>2 DEF UpdateLocation, AppType
  <2>4. CASE place[d] # Missing
    <3>1. UNCHANGED <<db, puts, applied, drops, waiting, events, cache, shown, screen, callout,
                      boundVars, history>>
      BY <1>5, <2>4 DEF UpdateLocation
    <3>2. OnlyReads(d) BY <2>2, <3>1, NoReads DEF history
    <3> QED BY <1>0, <2>2, <3>1, <3>2 DEF AppType
  <2> QED BY <2>3, <2>4
<1>6. CASE Center(d)
  <2>1. OnlyReads(d) /\ shown' \in [Devices -> SUBSET Ids] BY <1>6, SetUpReads DEF Center
  <2>2. visits' \in UpTo(MaxVisits)
    BY <1>0, <1>6, EnemiesAssumption, CountsUp DEF Center, AppType
  <2> QED BY <1>0, <1>6, <2>1, <2>2 DEF Center, AppType
<1>7. CASE ReturnToMap(d)
  <2>1. OnlyReads(d) /\ shown' \in [Devices -> SUBSET Ids]
    <3>1. CASE place[d] # Missing BY <1>7, <3>1, SetUpReads DEF ReturnToMap
    <3>2. CASE place[d] = Missing
      <4>1. shown' = shown BY <1>7, <3>2 DEF ReturnToMap
      <4>2. OnlyReads(d) BY <1>7, <3>2, NoReads DEF ReturnToMap
      <4> QED BY <1>0, <4>1, <4>2 DEF AppType
    <3> QED BY <3>1, <3>2
  <2> QED BY <1>0, <1>7, <2>1 DEF ReturnToMap, AppType
<1>8. CASE AddEnemy(d)
  <2>1. place[d] # Missing /\ SpawnEnemy(d, events[d]) /\ UNCHANGED ticks BY <1>8 DEF AddEnemy
  <2> QED BY <2>1, SpawnReads
<1>9. CASE CountedSpawn(d)
  <2>1. /\ place[d] # Missing /\ SpawnEnemy(d, Tail(events[d])) /\ UNCHANGED ticks
        /\ events[d] # << >>
    BY <1>9 DEF CountedSpawn, HeadIs
  <2> DEFINE n == 1
             evs == Tail(events[d])
  <2>2. n \in {0, 1} /\ (n = 0 => evs = events[d]) /\ (n = 1 => events[d] # << >> /\ evs = Tail(events[d]))
    BY <2>1
  <2>3. SpawnEnemy(d, evs) BY <2>1
  <2> HIDE DEF n, evs
  <2> QED BY <2>1, <2>2, <2>3, SpawnReads
<1>10. CASE CountedOnly(d)
  <2>1. OnlyReads(d) BY <1>10, ConsumeReads DEF CountedOnly, HeadIs
  <2> QED BY <1>0, <1>10, <2>1 DEF CountedOnly, AppType
<1>11. CASE Found(d)
  <2>1. OnlyReads(d) BY <1>11, ConsumeReads DEF Found, HeadIs
  <2>2. Head(events[d]).snap \in DataSet
    <3>1. events[d] \in Seq(Event) /\ events[d] # << >> BY <1>11 DEF TypeInv, SdkType, Found, HeadIs
    <3>2. Head(events[d]) \in Event BY <3>1, TailFacts
    <3> QED BY <3>2 DEF Event
  <2>3. Within(Head(events[d]).snap, place[d], ViewRadius) \subseteq Ids
    BY <2>2, DataFacts DEF Within
  <2>4. shown' \in [Devices -> SUBSET Ids] BY <1>0, <1>11, <2>3 DEF Found, AppType
  <2> QED BY <1>0, <1>11, <2>1, <2>4 DEF Found, AppType
<1>12. CASE Tick(d)
  <2>1. Observe(d, events[d], CountCb) /\ place' = place /\ spawned' = spawned
    BY <1>12 DEF Tick
  <2>2. Asks(d, CountCb) BY <2>1 DEF Asks
  <2>3. OnlyReads(d) BY <1>12, <2>1, <2>2, CallbackKinds, ObserveReads DEF Tick
  <2>4. ticks' \in UpTo(MaxTicks)
    BY <1>0, <1>12, EnemiesAssumption, CountsUp DEF Tick, AppType
  <2> QED BY <1>0, <1>12, <2>3, <2>4 DEF Tick, AppType
<1> QED BY <1>1, <1>2, <1>3, <1>4, <1>5, <1>6, <1>7, <1>8, <1>9, <1>10, <1>11, <1>12 DEF ReadsStep

(* The SDK's own steps leave the reads to come as they are.                *)
LEMMA SdkStepFacts ==
  ASSUME TypeInv, NEW d \in Devices, SdkStep(d)
  PROVE  /\ SdkType' /\ AppType' /\ UNCHANGED <<place, spawned, stored, defeats, ghosts, torn>>
         /\ \A e \in Devices : \A i \in DOMAIN Pending(e)' :
              i \in DOMAIN Pending(e) /\ Pending(e)'[i] = Pending(e)[i]
<1>0. /\ AppType' /\ SdkType
      /\ UNCHANGED <<place, spawned, stored, defeats, ghosts, torn>>
  BY DEF TypeInv, AppType, SdkStep, appVars, mapVars, boundVars, history
<1>1. CASE DataArrives(d)
  <2>1. /\ events' \in [Devices -> Seq(Event)] /\ waiting'[d] = << >>
        /\ waiting' = [waiting EXCEPT ![d] = << >>]
        /\ events' = [events EXCEPT ![d] = events'[d]]
        /\ cache' = [cache EXCEPT ![d] = db]
        /\ UNCHANGED <<db, puts, applied, drops>>
    BY <1>1, ArrivalFacts
  <2>2. Moves(Pending(d), Pending(d)', 0, 0, CountCb) /\ Moves(Pending(d), Pending(d)', 0, 0, FindCb)
    BY <1>1, ArrivalFacts
  <2>3. \A i \in DOMAIN Pending(d)' : i \in DOMAIN Pending(d) /\ Pending(d)'[i] = Pending(d)[i]
    <3>1. CountCb # FindCb BY DEF CountCb, FindCb
    <3>2. \A i \in Nat : i + 0 = i OBVIOUS
    <3> QED BY <2>2, <3>1, <3>2 DEF Moves
  <2>4. \A e \in Devices : e # d => events'[e] = events[e] /\ waiting'[e] = waiting[e]
    BY <1>0, <2>1 DEF SdkType
  <2>5. \A e \in Devices : e # d => Pending(e)' = Pending(e) BY <2>4, SamePending
  <2>6. SdkType'
    <3>1. waiting' \in [Devices -> Seq(Callbacks)] BY <1>0, <2>1 DEF SdkType
    <3>2. \A e \in Devices : events'[e] # << >> => waiting'[e] = << >> BY <1>0, <2>1, <2>4 DEF SdkType
    <3> QED BY <1>0, <2>1, <3>1, <3>2 DEF SdkType
  <2> QED BY <1>0, <2>3, <2>5, <2>6
<1>2. CASE ~ DataArrives(d)
  <2>1. Push(d) \/ ServerApply(d) \/ AckPut(d) \/ Disconnect(d)
    BY <1>2 DEF SdkStep, CollectionNext
  <2>2. UNCHANGED <<waiting, events>> BY <2>1 DEF Push, ServerApply, AckPut, Disconnect
  <2>3. \A e \in Devices : Pending(e)' = Pending(e) BY <2>2, SamePending
  <2>4. CASE Push(d) BY <1>0, <2>3, <2>4 DEF Push, SdkType
  <2>5. CASE ServerApply(d)
    <3>1. /\ applied[d] \in Nat /\ applied[d] < Len(puts[d]) /\ puts[d] \in Seq(Write) /\ db \in DataSet
          /\ db' = Apply(db, puts[d][applied[d] + 1])
          /\ applied' = [applied EXCEPT ![d] = applied[d] + 1]
          /\ UNCHANGED <<puts, waiting, events, cache, drops>>
      BY <1>0, <2>5 DEF ServerApply, SdkType
    <3>2. puts[d][applied[d] + 1] \in Write BY <3>1
    <3>3. db' \in DataSet BY <3>1, <3>2, ApplyFacts
    <3>4. SdkType' BY <1>0, <3>1, <3>3 DEF SdkType
    <3> QED BY <1>0, <2>3, <3>4
  <2>6. CASE AckPut(d)
    <3>1. /\ applied[d] \in Nat /\ applied[d] > 0 /\ applied[d] <= Len(puts[d])
          /\ puts[d] \in Seq(Write) /\ db \in DataSet
          /\ puts' = [puts EXCEPT ![d] = Tail(puts[d])]
          /\ applied' = [applied EXCEPT ![d] = applied[d] - 1]
          /\ cache' = [cache EXCEPT ![d] = IF events[d] # << >> THEN db ELSE cache[d]]
          /\ UNCHANGED <<db, waiting, events, drops>>
      BY <1>0, <2>6 DEF AckPut, SdkType
    <3>2. Tail(puts[d]) \in Seq(Write) /\ Len(Tail(puts[d])) = Len(puts[d]) - 1
      <4>1. puts[d] # << >> BY <3>1
      <4> QED BY <3>1, <4>1, TailFacts
    <3>3. SdkType' BY <1>0, <3>1, <3>2 DEF SdkType
    <3> QED BY <1>0, <2>3, <3>3
  <2>7. CASE Disconnect(d)
    <3>1. drops' \in 0..MaxDrops BY <1>0, <2>7, EnemiesAssumption DEF Disconnect, SdkType
    <3>2. applied' = [applied EXCEPT ![d] = 0] /\ UNCHANGED <<db, puts, waiting, events, cache>>
      BY <2>7 DEF Disconnect
    <3>3. \A e \in Devices : applied'[e] <= Len(puts[e])
      <4>1. \A e \in Devices : Len(puts[e]) \in Nat BY <1>0 DEF SdkType
      <4> QED BY <1>0, <3>2, <4>1 DEF SdkType
    <3>4. SdkType' BY <1>0, <3>1, <3>2, <3>3 DEF SdkType
    <3> QED BY <1>0, <2>3, <3>4
  <2> QED BY <1>0, <2>1, <2>3, <2>4, <2>5, <2>6, <2>7
<1> QED BY <1>1, <1>2

(* The creation of an enemy: its writes in their order.                    *)
LEMMA NewWritesFacts ==
  ASSUME NEW id \in Ids, NEW p \in Places
  PROVE  /\ NewEnemyWrites(id, p) \in Seq(Write)
         /\ Len(NewEnemyWrites(id, p)) = Len(FieldOrder) + 1 /\ Len(FieldOrder) \in Nat
         /\ \A i \in 1..(Len(FieldOrder) + 1) : NewEnemyWrites(id, p)[i].key = id
         /\ NewEnemyWrites(id, p)[1].field = Leaf
         /\ \A i \in 2..(Len(FieldOrder) + 1) :
              /\ i - 1 \in 1..Len(FieldOrder) /\ FieldOrder[i - 1] \in Fields
              /\ NewEnemyWrites(id, p)[i].field = FieldOrder[i - 1]
              /\ NewEnemyWrites(id, p)[i].value = FieldValue(FieldOrder[i - 1], p)
<1> DEFINE m == Len(FieldOrder) + 1
           w(i) == IF i = 1 THEN [key |-> id, field |-> Leaf, value |-> Missing]
                   ELSE [key |-> id, field |-> FieldOrder[i - 1],
                         value |-> FieldValue(FieldOrder[i - 1], p)]
<1>1. FieldOrder \in Seq(Fields) /\ Len(FieldOrder) \in Nat /\ m \in Nat BY EnemiesAssumption
<1>2. \A i \in 2..m : i - 1 \in 1..Len(FieldOrder) /\ FieldOrder[i - 1] \in Fields /\ i # 1
  BY <1>1
<1>3. \A f \in Fields : FieldValue(f, p) \in Places \cup {Stat, Missing} BY DEF FieldValue
<1>4. ASSUME NEW i \in 1..m PROVE w(i) \in Write
  <2>1. CASE i = 1 BY <2>1 DEF Write
  <2>2. CASE i # 1
    <3>1. i \in 2..m BY <1>1, <2>2
    <3>2. FieldOrder[i - 1] \in Fields BY <1>2, <3>1
    <3>3. FieldValue(FieldOrder[i - 1], p) \in Places \cup {Stat, Missing} BY <1>3, <3>2
    <3> QED BY <2>2, <3>2, <3>3 DEF Write
  <2> QED BY <2>1, <2>2
<1>5. NewEnemyWrites(id, p) = [i \in 1..m |-> w(i)] BY DEF NewEnemyWrites
<1>6. \A i \in 1..m : w(i).key = id OBVIOUS
<1>7. w(1).field = Leaf OBVIOUS
<1>8. \A i \in 2..m : w(i).field = FieldOrder[i - 1] /\ w(i).value = FieldValue(FieldOrder[i - 1], p)
  BY <1>2
<1> HIDE DEF m, w
<1>9. [i \in 1..m |-> w(i)] \in Seq(Write) /\ Len([i \in 1..m |-> w(i)]) = m BY <1>1, <1>4
<1>10. \A i \in 2..m : i \in 1..m BY <1>1
<1>11. 1 \in 1..m BY <1>1 DEF m
<1> QED BY <1>1, <1>2, <1>5, <1>6, <1>7, <1>8, <1>9, <1>10, <1>11 DEF m

(* A record is stored: the callback that does it, and what it writes.      *)
LEMMA StoreFacts ==
  ASSUME TypeInv, NEW d \in Devices, StoreEnemy(d)
  PROVE  \E id \in Ids, p \in Places :
           /\ 1 \in DOMAIN Pending(d) /\ Pending(d)[1] = AddCb(id, p)
           /\ puts' = [puts EXCEPT ![d] = puts[d] \o NewEnemyWrites(id, p)]
           /\ stored' = stored \cup {id}
           /\ Consume(d) /\ events[d] # << >>
           /\ UNCHANGED <<db, applied, waiting, drops, mapVars, boundVars, spawned, defeats, ghosts, torn>>
<1>1. /\ events[d] # << >> /\ Head(events[d]).cb.op = "add" /\ events[d] \in Seq(Event)
  BY DEF StoreEnemy, HeadIs, TypeInv, SdkType
<1>2. Head(events[d]) \in Event /\ Head(events[d]) = events[d][1] /\ 1 \in DOMAIN events[d]
  BY <1>1, TailFacts
<1>3. Head(events[d]).cb \in Callbacks BY <1>2 DEF Event
<1>4. PICK id \in Ids, p \in Places : Head(events[d]).cb = AddCb(id, p)
  BY <1>1, <1>3, CallbackKinds
<1>5. 1 \in DOMAIN Pending(d) /\ Pending(d)[1] = AddCb(id, p) BY <1>1, <1>2, <1>4 DEF Pending
<1>6. AddCb(id, p).id = id /\ AddCb(id, p).place = p BY DEF AddCb
<1>7. puts' = [puts EXCEPT ![d] = puts[d] \o NewEnemyWrites(id, p)] /\ stored' = stored \cup {id}
  BY <1>4, <1>6 DEF StoreEnemy
<1> QED BY <1>1, <1>5, <1>7 DEF StoreEnemy

(* Handling an event and adding writes.                                    *)
LEMMA ConsumeType ==
  ASSUME TypeInv, NEW d \in Devices, events[d] # << >>, Consume(d),
         UNCHANGED <<db, applied, waiting, drops, place>>,
         puts' \in [Devices -> Seq(Write)],
         \A e \in Devices : Len(puts'[e]) >= Len(puts[e])
  PROVE  SdkType' /\ Placed'
<1>0. SdkType BY DEF TypeInv
<1>1. /\ events' \in [Devices -> Seq(Event)] /\ cache' \in [Devices -> DataSet]
      /\ events' = [events EXCEPT ![d] = events'[d]]
  BY ConsumeFacts
<1>2. Moves(Pending(d), Pending(d)', 1, 0, CountCb) BY ConsumeFacts
<1>3. \A e \in Devices : applied[e] <= Len(puts'[e])
  <2>1. \A e \in Devices : /\ applied[e] <= Len(puts[e]) /\ Len(puts[e]) \in Nat
                           /\ Len(puts'[e]) \in Nat /\ applied[e] \in Nat
    BY <1>0 DEF SdkType
  <2> QED BY <2>1
<1>4. \A e \in Devices : e # d => events'[e] = events[e] BY <1>0, <1>1 DEF SdkType
<1>5. \A e \in Devices : events'[e] # << >> => waiting'[e] = << >> BY <1>0, <1>4 DEF SdkType
<1>6. SdkType' BY <1>0, <1>1, <1>3, <1>5 DEF SdkType
<1>7. ASSUME NEW e \in Devices, place'[e] = Missing, NEW i \in DOMAIN Pending(e)'
      PROVE  Pending(e)'[i] = CountCb
  <2>1. PlacedAt(e) /\ place[e] = Missing BY <1>7 DEF TypeInv, Placed
  <2>2. CASE e # d
    <3>1. Pending(e)' = Pending(e) BY <1>4, <2>2, SamePending
    <3> QED BY <1>7, <2>1, <3>1 DEF PlacedAt
  <2>3. CASE e = d
    <3>1. \/ i + 1 \in DOMAIN Pending(d) /\ Pending(d)'[i] = Pending(d)[i + 1]
          \/ Pending(d)'[i] = CountCb
      BY <1>2, <1>7, <2>3 DEF Moves
    <3> QED BY <2>1, <2>3, <3>1 DEF PlacedAt
  <2> QED BY <2>2, <2>3
<1>8. Placed' BY <1>7 DEF Placed, PlacedAt
<1> QED BY <1>6, <1>8

(* The callback of findMaxEnemyID writes the new enemy: types.             *)
LEMMA StoreType ==
  ASSUME TypeInv, NEW d \in Devices, StoreEnemy(d)
  PROVE  TypeInv'
<1>1. PICK id \in Ids, p \in Places :
        /\ puts' = [puts EXCEPT ![d] = puts[d] \o NewEnemyWrites(id, p)]
        /\ stored' = stored \cup {id}
        /\ Consume(d) /\ events[d] # << >>
        /\ UNCHANGED <<db, applied, waiting, drops, mapVars, boundVars, spawned, defeats, ghosts, torn>>
  BY StoreFacts
<1>2. puts \in [Devices -> Seq(Write)] /\ puts[d] \in Seq(Write) BY DEF TypeInv, SdkType
<1>3. NewEnemyWrites(id, p) \in Seq(Write) BY NewWritesFacts
<1>4. /\ puts[d] \o NewEnemyWrites(id, p) \in Seq(Write)
      /\ Len(puts[d] \o NewEnemyWrites(id, p)) = Len(puts[d]) + Len(NewEnemyWrites(id, p))
      /\ Len(puts[d]) \in Nat /\ Len(NewEnemyWrites(id, p)) \in Nat
  BY <1>2, <1>3, GrowsFacts
<1>5. puts' \in [Devices -> Seq(Write)] /\ puts'[d] = puts[d] \o NewEnemyWrites(id, p)
      /\ \A e \in Devices : e # d => puts'[e] = puts[e]
  BY <1>1, <1>2, <1>4
<1>6. \A e \in Devices : Len(puts'[e]) >= Len(puts[e])
  <2>1. \A e \in Devices : Len(puts[e]) \in Nat BY <1>2
  <2> QED BY <1>4, <1>5, <2>1
<1>7. SdkType' /\ Placed' BY <1>1, <1>5, <1>6, ConsumeType DEF mapVars
<1>8. AppType' BY <1>1 DEF TypeInv, AppType, mapVars, boundVars
<1> QED BY <1>7, <1>8 DEF TypeInv

(* A defeat: the removal goes to the end of the queue.                     *)
LEMMA DefeatFacts ==
  ASSUME TypeInv, NEW d \in Devices, Defeat(d)
  PROVE  /\ callout[d] \in Ids
         /\ puts' = [puts EXCEPT ![d] = Append(puts[d], Removal(callout[d]))]
         /\ Removal(callout[d]) \in Write
         /\ puts' \in [Devices -> Seq(Write)]
         /\ defeats' = defeats \cup {[device |-> d, id |-> callout[d]]}
         /\ ghosts' = IF AddOutstanding(d, callout[d]) THEN ghosts \cup {callout[d]} ELSE ghosts
         /\ UNCHANGED <<db, applied, waiting, events, cache, drops, screen, place, shown,
                        boundVars, spawned, stored, torn>>
<1>1. callout[d] \in Ids BY DEF TypeInv, AppType, Defeat
<1>2. Removal(callout[d]) \in Write BY <1>1 DEF Removal, Write
<1>3. puts' = [puts EXCEPT ![d] = Append(puts[d], Removal(callout[d]))] BY DEF Defeat
<1>4. puts' \in [Devices -> Seq(Write)] BY <1>2, <1>3 DEF TypeInv, SdkType
<1> QED BY <1>1, <1>2, <1>3, <1>4 DEF Defeat

(* defeatEnemy removes the record: types.                                  *)
LEMMA DefeatType ==
  ASSUME TypeInv, NEW d \in Devices, Defeat(d)
  PROVE  TypeInv'
<1>1. /\ callout[d] \in Ids
      /\ puts' = [puts EXCEPT ![d] = Append(puts[d], Removal(callout[d]))]
      /\ Removal(callout[d]) \in Write
      /\ puts' \in [Devices -> Seq(Write)]
      /\ defeats' = defeats \cup {[device |-> d, id |-> callout[d]]}
      /\ ghosts' = IF AddOutstanding(d, callout[d]) THEN ghosts \cup {callout[d]} ELSE ghosts
      /\ UNCHANGED <<db, applied, waiting, events, cache, drops, screen, place, shown,
                     boundVars, spawned, stored, torn>>
  BY DefeatFacts
<1>2. \A e \in Devices : applied[e] <= Len(puts'[e])
  <2>1. \A e \in Devices : applied[e] \in Nat /\ applied[e] <= Len(puts[e]) /\ Len(puts[e]) \in Nat
    BY DEF TypeInv, SdkType
  <2>2. puts[d] \in Seq(Write) /\ puts'[d] = Append(puts[d], Removal(callout[d]))
    BY <1>1 DEF TypeInv, SdkType
  <2>3. Len(puts'[d]) = Len(puts[d]) + 1 BY <2>2
  <2>4. \A e \in Devices : e # d => puts'[e] = puts[e] BY <1>1 DEF TypeInv, SdkType
  <2> QED BY <2>1, <2>3, <2>4
<1>3. SdkType' BY <1>1, <1>2 DEF TypeInv, SdkType
<1>4. callout' = [callout EXCEPT ![d] = Missing] BY DEF Defeat
<1>5. AppType'
  <2>1. defeats' \subseteq [device : Devices, id : Ids] /\ ghosts' \subseteq Ids
    BY <1>1 DEF TypeInv, AppType
  <2>2. callout' \in [Devices -> Ids \cup {Missing}] BY <1>4 DEF TypeInv, AppType
  <2> QED BY <1>1, <2>1, <2>2 DEF TypeInv, AppType, boundVars
<1>6. Placed'
  <2>1. \A e : Pending(e)' = Pending(e) BY <1>1 DEF Pending
  <2> QED BY <1>1, <2>1 DEF TypeInv, Placed, PlacedAt
<1> QED BY <1>3, <1>5, <1>6 DEF TypeInv

(* The process of d ends.                                                  *)
LEMMA RestartFacts ==
  ASSUME TypeInv, NEW d \in Devices, Restart(d)
  PROVE  /\ puts' = [puts EXCEPT ![d] = << >>] /\ applied' = [applied EXCEPT ![d] = 0]
         /\ puts'[d] = << >> /\ applied'[d] = 0 /\ waiting'[d] = << >> /\ events'[d] = << >>
         /\ \A e \in Devices : e # d =>
              /\ puts'[e] = puts[e] /\ applied'[e] = applied[e]
              /\ waiting'[e] = waiting[e] /\ events'[e] = events[e] /\ cache'[e] = cache[e]
         /\ torn' = torn \cup KeysOf(puts[d]) \cup {s.id : s \in {t \in SpawnsOf(d) : t.id \notin stored}}
         /\ UNCHANGED <<db, drops, spawned, stored, defeats, ghosts>>
         /\ Pending(d)' = << >>
         /\ SdkType' /\ Placed'
<1> USE DEF TypeInv, SdkType
<1>1. /\ puts' = [puts EXCEPT ![d] = << >>] /\ applied' = [applied EXCEPT ![d] = 0]
      /\ waiting' = [waiting EXCEPT ![d] = << >>] /\ events' = [events EXCEPT ![d] = << >>]
      /\ cache' = [cache EXCEPT ![d] = NoRecords]
      /\ place' = [place EXCEPT ![d] = Missing]
      /\ torn' = torn \cup KeysOf(puts[d]) \cup {s.id : s \in {t \in SpawnsOf(d) : t.id \notin stored}}
      /\ UNCHANGED <<db, drops, spawned, stored, defeats, ghosts>>
  BY DEF Restart, CloseClient
<1>2. /\ puts'[d] = << >> /\ applied'[d] = 0 /\ waiting'[d] = << >> /\ events'[d] = << >>
      /\ \A e \in Devices : e # d =>
              /\ puts'[e] = puts[e] /\ applied'[e] = applied[e]
              /\ waiting'[e] = waiting[e] /\ events'[e] = events[e] /\ cache'[e] = cache[e]
  BY <1>1
<1>3. \A e \in Devices : e # d => place'[e] = place[e] BY <1>1 DEF AppType
<1>4. NoRecords \in DataSet BY DataFacts
<1>5. SdkType'
  <2>1. puts' \in [Devices -> Seq(Write)] /\ waiting' \in [Devices -> Seq(Callbacks)]
        /\ events' \in [Devices -> Seq(Event)] /\ cache' \in [Devices -> DataSet]
        /\ applied' \in [Devices -> Nat]
    BY <1>1, <1>4
  <2>2. \A e \in Devices : applied'[e] <= Len(puts'[e])
    <3> SUFFICES ASSUME NEW e \in Devices PROVE applied'[e] <= Len(puts'[e]) OBVIOUS
    <3>1. CASE e = d
      <4>1. Len(<< >>) = 0 OBVIOUS
      <4>2. applied'[e] = 0 /\ puts'[e] = << >> BY <1>2, <3>1
      <4> QED BY <4>1, <4>2
    <3>2. CASE e # d
      <4>1. applied[e] <= Len(puts[e]) /\ applied'[e] = applied[e] /\ puts'[e] = puts[e]
        BY <1>2, <3>2
      <4> QED BY <4>1
    <3> QED BY <3>1, <3>2
  <2>3. \A e \in Devices : events'[e] # << >> => waiting'[e] = << >> BY <1>2
  <2> QED BY <1>1, <2>1, <2>2, <2>3
<1>6. Pending(d)' = << >> BY <1>2 DEF Pending
<1>7. Placed'
  <2>1. DOMAIN Pending(d)' = {} BY <1>6
  <2>2. \A e \in Devices : e # d => Pending(e)' = Pending(e) BY <1>2, SamePending
  <2> QED BY <1>3, <2>1, <2>2, ZenonT(30) DEF Placed, PlacedAt
<1> QED BY <1>1, <1>2, <1>5, <1>6, <1>7

(* The end of a process: types; the enemies it had not written are torn.   *)
LEMMA RestartType ==
  ASSUME TypeInv, NEW d \in Devices, Restart(d), kills' \in 0..MaxKills
  PROVE  TypeInv'
<1>1. SdkType' /\ Placed' BY RestartFacts
<1>2. torn' \subseteq Ids
  <2>1. torn' = torn \cup KeysOf(puts[d]) \cup {s.id : s \in {t \in SpawnsOf(d) : t.id \notin stored}}
    BY RestartFacts
  <2>2. puts[d] \in Seq(Write) BY DEF TypeInv, SdkType
  <2>3. KeysOf(puts[d]) \subseteq Ids BY <2>2, QueueFacts DEF KeysOf
  <2>4. \A t \in SpawnsOf(d) : t.id \in Ids BY DEF SpawnsOf, TypeInv, AppType
  <2> QED BY <2>1, <2>3, <2>4 DEF TypeInv, AppType
<1>3. AppType' BY <1>2 DEF TypeInv, AppType, Restart
<1> QED BY <1>1, <1>3 DEF TypeInv

(* Every step is one of five kinds.                                        *)
LEMMA NextKinds ==
  ASSUME TypeInv, Next
  PROVE  \E d \in Devices :
           \/ SdkStep(d) \/ StoreEnemy(d) \/ Defeat(d)
           \/ OnlyReads(d) /\ AppType'
           \/ Restart(d) /\ kills' \in 0..MaxKills
<1>1. PICK d \in Devices : SdkStep(d) \/ Callback(d) \/ UserStep(d) \/ Tick(d) BY DEF Next
<1>2. kills \in 0..MaxKills /\ MaxKills \in Nat BY EnemiesAssumption DEF TypeInv, AppType
<1>3. CASE SdkStep(d) BY <1>3
<1>4. CASE ReadsStep(d) BY <1>4, ReadsStepFacts
<1>5. CASE StoreEnemy(d) BY <1>5
<1>6. CASE Defeat(d) BY <1>6
<1>7. CASE CenterTrap(d) \/ LocationTrap(d) \/ RecordTrap(d)
  BY <1>2, <1>7 DEF CenterTrap, LocationTrap, RecordTrap, Trap
<1>8. CASE Kill(d) BY <1>2, <1>8 DEF Kill
<1> QED BY <1>1, <1>3, <1>4, <1>5, <1>6, <1>7, <1>8 DEF Callback, UserStep, ReadsStep

(* Every step keeps the types.                                             *)
LEMMA NextType == TypeInv /\ [Next]_vars => TypeInv'
<1> SUFFICES ASSUME TypeInv, [Next]_vars PROVE TypeInv' OBVIOUS
<1>1. CASE Next
  <2>1. PICK d \in Devices :
          \/ SdkStep(d) \/ StoreEnemy(d) \/ Defeat(d)
          \/ OnlyReads(d) /\ AppType'
          \/ Restart(d) /\ kills' \in 0..MaxKills
    BY <1>1, NextKinds
  <2>2. CASE SdkStep(d)
    <3>1. /\ SdkType' /\ AppType' /\ UNCHANGED <<place, spawned, stored, defeats, ghosts, torn>>
          /\ \A e \in Devices : \A i \in DOMAIN Pending(e)' :
               i \in DOMAIN Pending(e) /\ Pending(e)'[i] = Pending(e)[i]
      BY <2>2, SdkStepFacts
    <3>2. Placed' BY <3>1 DEF TypeInv, Placed, PlacedAt
    <3> QED BY <3>1, <3>2 DEF TypeInv
  <2>3. CASE OnlyReads(d) /\ AppType' BY <2>3, OnlyReadsType
  <2>4. CASE StoreEnemy(d) BY <2>4, StoreType
  <2>5. CASE Defeat(d) BY <2>5, DefeatType
  <2>6. CASE Restart(d) /\ kills' \in 0..MaxKills BY <2>6, RestartType
  <2> QED BY <2>1, <2>2, <2>3, <2>4, <2>5, <2>6
<1>2. CASE UNCHANGED vars
  <2>1. \A e : Pending(e)' = Pending(e) BY <1>2 DEF vars, collectionVars, Pending
  <2> QED BY <1>2, <2>1 DEF vars, collectionVars, appVars, mapVars, boundVars, history,
                            TypeInv, SdkType, AppType, Placed, PlacedAt
<1> QED BY <1>1, <1>2

(* The initial states have the types.                                      *)
LEMMA InitType == Init => TypeInv
<1> SUFFICES ASSUME Init PROVE TypeInv OBVIOUS
<1> USE DEF Init, CollectionInit, ClientsInit
<1>1. SdkType
  <2>1. NoRecords \in DataSet BY DataFacts
  <2>2. 0 \in 0..MaxDrops BY EnemiesAssumption
  <2>3. \A A : << >> \in Seq(A) /\ Len(<< >>) = 0 OBVIOUS
  <2> QED BY <2>1, <2>2, <2>3 DEF SdkType
<1>2. AppType
  <2>1. [d \in Devices |-> 0] \in UpTo(MaxTicks) /\ [d \in Devices |-> 0] \in UpTo(MaxVisits)
    BY EnemiesAssumption DEF UpTo
  <2>2. IsFiniteSet({}) BY FS_EmptySet
  <2>3. 0 \in 0..MaxKills BY EnemiesAssumption
  <2> QED BY <2>1, <2>2, <2>3 DEF AppType
<1>3. Placed
  <2>1. \A d \in Devices : Pending(d) = << >> BY DEF Pending
  <2>2. DOMAIN << >> = {} OBVIOUS
  <2> QED BY <2>1, <2>2 DEF Placed, PlacedAt
<1> QED BY <1>1, <1>2, <1>3 DEF TypeInv

(* The types imply the ones that TLC checks.                               *)
LEMMA TypeInvImpliesTypeOK == TypeInv => TypeOK
<1> SUFFICES ASSUME TypeInv PROVE TypeOK OBVIOUS
<1> USE DEF TypeInv, SdkType, AppType
<1>1. IsData(db) BY DataFacts
<1>2. ASSUME NEW d \in Devices
      PROVE  /\ applied[d] \in 0..Len(puts[d]) /\ IsData(cache[d])
             /\ \A i \in DOMAIN events[d] :
                  /\ events[d][i].cb \in Callbacks /\ IsData(events[d][i].snap)
             /\ place[d] = Missing => /\ \A i \in DOMAIN waiting[d] : waiting[d][i] = CountCb
                                      /\ \A i \in DOMAIN events[d] : events[d][i].cb = CountCb
  <2>1. \A i \in DOMAIN events[d] : events[d][i] \in Event OBVIOUS
  <2>2. \A i \in DOMAIN events[d] :
          /\ events[d][i].cb \in Callbacks /\ IsData(events[d][i].snap)
    BY <2>1, DataFacts DEF Event
  <2>3. applied[d] \in 0..Len(puts[d]) BY <1>2
  <2>4. IsData(cache[d]) BY DataFacts
  <2>5. ASSUME place[d] = Missing
        PROVE  /\ \A i \in DOMAIN waiting[d] : waiting[d][i] = CountCb
               /\ \A i \in DOMAIN events[d] : events[d][i].cb = CountCb
    <3>1. \A i \in DOMAIN Pending(d) : Pending(d)[i] = CountCb BY <2>5 DEF Placed, PlacedAt
    <3>2. CASE events[d] = << >>
      <4>1. Pending(d) = waiting[d] BY <3>2 DEF Pending
      <4>2. DOMAIN events[d] = {} BY <3>2
      <4> QED BY <3>1, <4>1, <4>2
    <3>3. CASE events[d] # << >>
      <4>1. Pending(d) = [i \in DOMAIN events[d] |-> events[d][i].cb] BY <3>3 DEF Pending
      <4>2. waiting[d] = << >> BY <3>3
      <4>3. DOMAIN waiting[d] = {} BY <4>2
      <4> QED BY <3>1, <4>1, <4>3
    <3> QED BY <3>2, <3>3
  <2> QED BY <2>2, <2>3, <2>4, <2>5
<1>3. ASSUME NEW d \in Devices
      PROVE  ticks[d] \in 0..MaxTicks[d] /\ visits[d] \in 0..MaxVisits[d]
  <2>1. MaxTicks \in [Devices -> Nat] /\ MaxVisits \in [Devices -> Nat] BY EnemiesAssumption
  <2>2. ticks \in [Devices -> Nat] /\ ticks[d] <= MaxTicks[d] BY DEF UpTo
  <2>3. visits \in [Devices -> Nat] /\ visits[d] <= MaxVisits[d] BY DEF UpTo
  <2> QED BY <2>1, <2>2, <2>3
<1> QED BY <1>1, <1>2, <1>3 DEF TypeOK

(* Types of every variable, for any number of devices and enemies.         *)
THEOREM TypeInvariant == Spec => []TypeInv
<1> QED BY InitType, NextType, PTL DEF Spec

(* The types TLC checks hold of every behaviour: in particular a device    *)
(* that reads the enemies for its map has a location (centerMap and        *)
(* findEnemiesAroundUser force userLocation).                              *)
THEOREM TypesHold == Spec => []TypeOK
<1> QED BY TypeInvariant, TypeInvImpliesTypeOK, PTL

-----------------------------------------------------------------------------
(* 3. Who writes what. *)

(* A new enemy's identifier is new.                                        *)
LEMMA NewIdIsNew ==
  ASSUME TypeInv, Numbered, NEW d \in Devices, Cardinality(spawned) < MaxSpawns
  PROVE  \A s \in spawned : s.id # NewId(d)
<1> SUFFICES ASSUME NEW s \in spawned, s.id = NewId(d) PROVE FALSE OBVIOUS
<1>1. /\ NewId(d)[1] = d /\ NewId(d)[2] = Cardinality(SpawnsOf(d)) + 1
      /\ Cardinality(SpawnsOf(d)) \in Nat
  BY NewIdFacts
<1>2. s.id[2] <= Cardinality(SpawnsOf(s.id[1])) BY DEF Numbered
<1>3. Cardinality(SpawnsOf(d)) + 1 <= Cardinality(SpawnsOf(d)) BY <1>1, <1>2
<1> QED BY <1>1, <1>3

(* The numbering of enemies survives a new enemy.                          *)
LEMMA SpawnNumbers ==
  ASSUME TypeInv, Numbered, NEW d \in Devices, NEW p, Spawns(d, p)
  PROVE  Numbered'
<1> DEFINE new == [id |-> NewId(d), place |-> p]
<1>1. Cardinality(spawned) < MaxSpawns /\ spawned' = spawned \cup {new} BY DEF Spawns
<1>2. /\ NewId(d)[1] = d /\ NewId(d)[2] = Cardinality(SpawnsOf(d)) + 1
      /\ IsFiniteSet(SpawnsOf(d)) /\ Cardinality(SpawnsOf(d)) \in Nat
  BY <1>1, NewIdFacts
<1>3. \A s \in spawned : s.id # NewId(d) BY <1>1, NewIdIsNew
<1>4. new.id = NewId(d) OBVIOUS
<1> HIDE DEF new
<1>5. SpawnsOf(d)' = SpawnsOf(d) \cup {new} BY <1>1, <1>2, <1>4 DEF SpawnsOf
<1>6. new \notin SpawnsOf(d) BY <1>3, <1>4 DEF SpawnsOf
<1>7. Cardinality(SpawnsOf(d)') = Cardinality(SpawnsOf(d)) + 1
  BY <1>2, <1>5, <1>6, FS_AddElement
<1>8. \A e : e # d => SpawnsOf(e)' = SpawnsOf(e) BY <1>1, <1>2, <1>4 DEF SpawnsOf
<1>9. ASSUME NEW s \in spawned PROVE s.id[2] <= Cardinality(SpawnsOf(s.id[1])')
  <2>1. s.id[2] <= Cardinality(SpawnsOf(s.id[1])) /\ s.id[2] \in Nat
    <3>1. s.id \in Ids BY DEF TypeInv, AppType
    <3> QED BY <3>1 DEF Numbered, Ids
  <2>2. CASE s.id[1] = d BY <1>2, <1>7, <2>1, <2>2
  <2>3. CASE s.id[1] # d BY <1>8, <2>1, <2>3
  <2> QED BY <2>2, <2>3
<1>10. new.id[1] = d /\ new.id[2] <= Cardinality(SpawnsOf(d)') BY <1>2, <1>4, <1>7
<1>11. \A s, t \in spawned' : s.id = t.id => s = t BY <1>1, <1>3, <1>4 DEF Numbered
<1>12. ASSUME NEW s \in spawned' PROVE s.id[2] <= Cardinality(SpawnsOf(s.id[1])')
  <2>1. CASE s \in spawned BY <1>9, <2>1
  <2>2. CASE s = new
    <3>1. s.id[1] = d BY <1>10, <2>2
    <3>2. Cardinality(SpawnsOf(s.id[1])') = Cardinality(SpawnsOf(d)') BY <3>1
    <3> QED BY <1>10, <2>2, <3>2
  <2> QED BY <1>1, <2>1, <2>2
<1> QED BY <1>11, <1>12 DEF Numbered

(* ... and every step that makes none.                                     *)
LEMMA NumberedKept ==
  ASSUME Numbered, spawned' = spawned
  PROVE  Numbered'
<1>1. \A d : SpawnsOf(d)' = SpawnsOf(d) BY DEF SpawnsOf
<1> QED BY <1>1 DEF Numbered

(* Fewer reads, the same enemies.                                          *)
LEMMA AddsMove ==
  ASSUME NEW e \in Devices, AddsAt(e), NEW n \in Nat, NEW m, NEW x, x.op # "add",
         Moves(Pending(e), Pending(e)', n, m, x), spawned \subseteq spawned',
         \A i \in DOMAIN Pending(e)' : Pending(e)'[i].op = "add" => Pending(e)'[i].id \notin stored'
  PROVE  AddsAt(e)'
<1>1. ASSUME NEW i \in DOMAIN Pending(e)', Pending(e)'[i].op = "add"
      PROVE  i \in Nat /\ i + n \in DOMAIN Pending(e) /\ Pending(e)'[i] = Pending(e)[i + n]
  BY <1>1 DEF Moves
<1>2. AddsApart(Pending(e)')
  <2> SUFFICES ASSUME NEW i \in DOMAIN Pending(e)', NEW j \in DOMAIN Pending(e)',
                      Pending(e)'[i].op = "add", Pending(e)'[j].op = "add",
                      Pending(e)'[i].id = Pending(e)'[j].id
               PROVE  i = j
    BY DEF AddsApart
  <2>1. i \in Nat /\ i + n \in DOMAIN Pending(e) /\ Pending(e)'[i] = Pending(e)[i + n] BY <1>1
  <2>2. j \in Nat /\ j + n \in DOMAIN Pending(e) /\ Pending(e)'[j] = Pending(e)[j + n] BY <1>1
  <2>3. i + n = j + n BY <2>1, <2>2 DEF AddsAt, AddsApart
  <2> QED BY <2>1, <2>2, <2>3
<1>3. \A i \in DOMAIN Pending(e)' : Pending(e)'[i].op = "add" =>
        /\ Pending(e)'[i].id[1] = e /\ Pending(e)'[i].id \notin stored'
        /\ [id |-> Pending(e)'[i].id, place |-> Pending(e)'[i].place] \in spawned'
  BY <1>1 DEF AddsAt
<1> QED BY <1>2, <1>3 DEF AddsAt

(* With no new write and no more to be written, the enemies to be written  *)
(* stay apart.                                                             *)
LEMMA AddsKept ==
  ASSUME NEW e \in Devices, AddsAt(e), stored' = stored, spawned \subseteq spawned',
         \A i \in DOMAIN Pending(e)' : i \in DOMAIN Pending(e) /\ Pending(e)'[i] = Pending(e)[i]
  PROVE  AddsAt(e)'
BY DEF AddsAt, AddsApart

(* What only reads keeps the enemies to be written apart.                  *)
LEMMA OnlyReadsAdds ==
  ASSUME Base, NEW d \in Devices, OnlyReads(d)
  PROVE  Numbered' /\ Adds'
<1>0. TypeInv /\ Numbered /\ Sources /\ \A e \in Devices : AddsAt(e) BY DEF Base, Adds
<1>1. PICK n \in {0, 1}, m \in Nat, cb \in Callbacks :
        Moves(Pending(d), Pending(d)', n, m, cb) /\ Asks(d, cb)
  BY DEF OnlyReads
<1>2. stored' = stored BY DEF OnlyReads
<1>3. ASSUME NEW e \in Devices, e # d, spawned \subseteq spawned' PROVE AddsAt(e)'
  <2>1. Pending(e)' = Pending(e) BY <1>3, SamePending DEF OnlyReads
  <2> QED BY <1>0, <1>2, <1>3, <2>1, AddsKept
<1>4. CASE spawned' = spawned /\ cb \in {CountCb, FindCb}
  <2>1. Numbered' BY <1>0, <1>4, NumberedKept
  <2>2. cb.op # "add" BY <1>4, CallbackKinds
  <2>3. ASSUME NEW i \in DOMAIN Pending(d)', Pending(d)'[i].op = "add"
        PROVE  Pending(d)'[i].id \notin stored'
    <3>1. i + n \in DOMAIN Pending(d) /\ Pending(d)'[i] = Pending(d)[i + n]
      BY <1>1, <2>2, <2>3 DEF Moves
    <3>2. AddsAt(d) BY <1>0
    <3>3. Pending(d)[i + n].op = "add" BY <2>3, <3>1
    <3>4. Pending(d)[i + n].id \notin stored BY <3>1, <3>2, <3>3 DEF AddsAt
    <3> QED BY <1>2, <3>1, <3>4
  <2>4. n \in Nat /\ spawned \subseteq spawned' BY <1>4
  <2>5. Moves(Pending(d), Pending(d)', n, m, cb) BY <1>1
  <2>6. AddsAt(d)' BY <1>0, <2>2, <2>3, <2>4, <2>5, AddsMove
  <2> QED BY <1>3, <2>1, <2>4, <2>6 DEF Adds
<1>5. CASE \E p \in Places : Spawns(d, p) /\ cb = AddCb(NewId(d), p)
  <2>1. PICK p \in Places : Spawns(d, p) /\ cb = AddCb(NewId(d), p) BY <1>5
  <2>2. /\ Cardinality(spawned) < MaxSpawns
        /\ spawned' = spawned \cup {[id |-> NewId(d), place |-> p]}
    BY <2>1 DEF Spawns
  <2>3. Numbered' BY <1>0, <2>1, SpawnNumbers
  <2>4. \A s \in spawned : s.id # NewId(d) BY <1>0, <2>2, NewIdIsNew
  <2>5. NewId(d) \notin stored BY <1>0, <2>4 DEF Sources
  <2>6. cb.op = "add" /\ cb.id = NewId(d) /\ cb.place = p /\ NewId(d)[1] = d
    BY <1>0, <2>1, <2>2, NewIdFacts DEF AddCb
  <2>7. ASSUME NEW i \in DOMAIN Pending(d)', Pending(d)'[i].op = "add"
        PROVE  \/ /\ i \in Nat /\ i + n \in DOMAIN Pending(d) /\ Pending(d)'[i] = Pending(d)[i + n]
                  /\ Pending(d)'[i].id # NewId(d)
               \/ i = m /\ Pending(d)'[i] = cb
    <3>1. CASE i = m /\ Pending(d)'[i] = cb BY <3>1
    <3>2. CASE i \in Nat /\ i + n \in DOMAIN Pending(d) /\ Pending(d)'[i] = Pending(d)[i + n]
      <4>1. [id |-> Pending(d)'[i].id, place |-> Pending(d)'[i].place] \in spawned
        BY <1>0, <2>7, <3>2 DEF AddsAt
      <4> QED BY <2>4, <3>2, <4>1
    <3> QED BY <1>1, <2>7, <3>1, <3>2 DEF Moves
  <2>8. AddsApart(Pending(d)')
    <3> SUFFICES ASSUME NEW i \in DOMAIN Pending(d)', NEW j \in DOMAIN Pending(d)',
                        Pending(d)'[i].op = "add", Pending(d)'[j].op = "add",
                        Pending(d)'[i].id = Pending(d)'[j].id
                 PROVE  i = j
      BY DEF AddsApart
    <3>1. CASE i = m /\ Pending(d)'[i] = cb BY <2>6, <2>7, <3>1
    <3>2. CASE ~ (i = m /\ Pending(d)'[i] = cb)
      <4>1. i \in Nat /\ i + n \in DOMAIN Pending(d) /\ Pending(d)'[i] = Pending(d)[i + n]
            /\ Pending(d)'[i].id # NewId(d)
        BY <2>7, <3>2
      <4>2. j \in Nat /\ j + n \in DOMAIN Pending(d) /\ Pending(d)'[j] = Pending(d)[j + n]
        BY <2>6, <2>7, <4>1
      <4>3. i + n = j + n BY <1>0, <4>1, <4>2 DEF AddsAt, AddsApart
      <4> QED BY <4>1, <4>2, <4>3
    <3> QED BY <3>1, <3>2
  <2>9. ASSUME NEW i \in DOMAIN Pending(d)', Pending(d)'[i].op = "add"
        PROVE  /\ Pending(d)'[i].id[1] = d /\ Pending(d)'[i].id \notin stored'
               /\ [id |-> Pending(d)'[i].id, place |-> Pending(d)'[i].place] \in spawned'
    <3>1. CASE Pending(d)'[i] = cb BY <1>2, <2>2, <2>5, <2>6, <3>1
    <3>2. CASE i + n \in DOMAIN Pending(d) /\ Pending(d)'[i] = Pending(d)[i + n]
      BY <1>0, <1>2, <2>2, <2>9, <3>2 DEF AddsAt
    <3> QED BY <2>7, <2>9, <3>1, <3>2
  <2>10. AddsAt(d)' BY <2>8, <2>9 DEF AddsAt
  <2> QED BY <1>3, <2>2, <2>3, <2>10 DEF Adds
<1> QED BY <1>1, <1>4, <1>5 DEF Asks

(* The enemy a callback stores was spawned by its device, is not stored    *)
(* yet, and no other callback stores it.                                   *)
LEMMA StoredNow ==
  ASSUME Base, NEW d \in Devices, NEW id \in Ids, NEW p \in Places,
         1 \in DOMAIN Pending(d), Pending(d)[1] = AddCb(id, p)
  PROVE  id \notin stored /\ id[1] = d /\ [id |-> id, place |-> p] \in spawned
<1>1. AddsAt(d) BY DEF Base, Adds
<1>2. Pending(d)[1].op = "add" /\ Pending(d)[1].id = id /\ Pending(d)[1].place = p BY DEF AddCb
<1> QED BY <1>1, <1>2 DEF AddsAt

(* An enemy once written is no longer one to be written.                   *)
LEMMA StoreAdds ==
  ASSUME Base, NEW d \in Devices, StoreEnemy(d)
  PROVE  Numbered' /\ Adds'
<1>0. TypeInv /\ Numbered /\ \A e \in Devices : AddsAt(e) BY DEF Base, Adds
<1>1. PICK id \in Ids, p \in Places :
        /\ 1 \in DOMAIN Pending(d) /\ Pending(d)[1] = AddCb(id, p)
        /\ stored' = stored \cup {id}
        /\ Consume(d) /\ events[d] # << >>
        /\ UNCHANGED <<db, applied, waiting, drops, mapVars, boundVars, spawned, defeats, ghosts, torn>>
  BY <1>0, StoreFacts
<1>2. /\ events' = [events EXCEPT ![d] = events'[d]]
      /\ Moves(Pending(d), Pending(d)', 1, 0, CountCb)
  BY <1>0, <1>1, ConsumeFacts
<1>3. id[1] = d BY <1>1, StoredNow
<1>4. Pending(d)[1].op = "add" /\ Pending(d)[1].id = id BY <1>1 DEF AddCb
<1>5. CountCb.op # "add" BY CallbackKinds
<1>6. ASSUME NEW e \in Devices PROVE AddsAt(e)'
  <2>1. CASE e = d
    <3>1. ASSUME NEW i \in DOMAIN Pending(d)', Pending(d)'[i].op = "add"
          PROVE  Pending(d)'[i].id \notin stored'
      <4>2. i \in Nat /\ i + 1 \in DOMAIN Pending(d) /\ Pending(d)'[i] = Pending(d)[i + 1]
        BY <1>2, <1>5, <3>1 DEF Moves
      <4>3. i # 0
        <5>1. \A j \in DOMAIN events'[d] : j # 0
          <6>1. events'[d] \in Seq(Event) BY <1>0, <1>1, ConsumeFacts
          <6> QED BY <6>1
        <5>2. waiting'[d] = << >> BY <1>0, <1>1 DEF TypeInv, SdkType
        <5>3. DOMAIN waiting'[d] = {} BY <5>2
        <5>4. DOMAIN Pending(d)' \subseteq DOMAIN events'[d] \cup DOMAIN waiting'[d] BY DEF Pending
        <5> QED BY <3>1, <5>1, <5>3, <5>4
      <4>4. i + 1 # 1 BY <4>2, <4>3
      <4>5. Pending(d)[i + 1].id # id BY <1>0, <1>1, <1>4, <3>1, <4>2, <4>4 DEF AddsAt, AddsApart
      <4>6. Pending(d)[i + 1].id \notin stored BY <1>0, <3>1, <4>2 DEF AddsAt
      <4> QED BY <1>1, <4>2, <4>5, <4>6
    <3>2. 1 \in Nat /\ spawned \subseteq spawned' BY <1>1
    <3>3. AddsAt(d)' BY <1>0, <1>2, <1>5, <3>1, <3>2, AddsMove
    <3> QED BY <2>1, <3>3
  <2>2. CASE e # d
    <3>1. events'[e] = events[e] /\ waiting'[e] = waiting[e]
      BY <1>0, <1>1, <1>2, <2>2 DEF TypeInv, SdkType
    <3>2. Pending(e)' = Pending(e) BY <3>1, SamePending
    <3>3. \A i \in DOMAIN Pending(e) : Pending(e)[i].op = "add" => Pending(e)[i].id # id
      BY <1>0, <1>3, <2>2 DEF AddsAt
    <3> QED BY <1>0, <1>1, <3>2, <3>3 DEF AddsAt
  <2> QED BY <2>1, <2>2
<1>7. Numbered' BY <1>0, <1>1, NumberedKept
<1> QED BY <1>6, <1>7 DEF Adds

(* Sources.                                                                *)
LEMMA SourcesKept ==
  ASSUME NEW e \in Devices, SourcesAt(e), puts'[e] = puts[e], stored \subseteq stored', defeats \subseteq defeats'
  PROVE  SourcesAt(e)'
BY DEF SourcesAt

(* The SDK and the server make up no key and no write.                     *)
LEMMA SdkSources ==
  ASSUME Base, NEW d \in Devices, SdkStep(d)
  PROVE  Sources'
<1>0. /\ TypeInv /\ Sources /\ SdkType
      /\ UNCHANGED <<place, spawned, stored, defeats, ghosts, torn>>
  BY SdkStepFacts DEF Base, TypeInv
<1>1. DataArrives(d) \/ Push(d) \/ ServerApply(d) \/ AckPut(d) \/ Disconnect(d)
  BY DEF SdkStep, CollectionNext
<1>2. \A e \in Devices : SourcesAt(e)'
  <2> SUFFICES ASSUME NEW e \in Devices PROVE SourcesAt(e)' OBVIOUS
  <2>1. SourcesAt(e) BY <1>0 DEF Sources
  <2>2. CASE puts'[e] = puts[e] BY <1>0, <2>1, <2>2, SourcesKept
  <2>3. CASE puts'[e] # puts[e]
    <3>1. AckPut(d) /\ e = d
      <4>1. puts' # puts BY <2>3
      <4>2. AckPut(d) BY <1>1, <4>1 DEF DataArrives, Push, ServerApply, Disconnect
      <4>3. puts' = [puts EXCEPT ![d] = Tail(puts[d])] BY <4>2 DEF AckPut
      <4> QED BY <1>0, <2>3, <4>2, <4>3 DEF SdkType
    <3>2. puts'[d] = Tail(puts[d]) /\ puts[d] \in Seq(Write) /\ puts[d] # << >>
      <4>1. /\ puts' = [puts EXCEPT ![d] = Tail(puts[d])] /\ applied[d] > 0
            /\ applied[d] <= Len(puts[d]) /\ puts[d] \in Seq(Write) /\ applied[d] \in Nat
        BY <1>0, <3>1 DEF AckPut, SdkType
      <4>2. puts[d] # << >> BY <4>1
      <4> QED BY <1>0, <4>1, <4>2 DEF SdkType
    <3>3. \A i \in DOMAIN Tail(puts[d]) : i + 1 \in DOMAIN puts[d] /\ Tail(puts[d])[i] = puts[d][i + 1]
      BY <3>2, TailFacts
    <3>4. \A i \in DOMAIN puts'[d] : i + 1 \in DOMAIN puts[d] /\ puts'[d][i] = puts[d][i + 1]
      BY <3>2, <3>3
    <3>5. SourcesAt(d) /\ stored' = stored /\ defeats' = defeats BY <1>0, <2>1, <3>1
    <3>6. ASSUME NEW i \in DOMAIN puts'[d]
          PROVE  /\ puts'[d][i].field # Gone => puts'[d][i].key[1] = d /\ puts'[d][i].key \in stored
                 /\ puts'[d][i].field = Gone => [device |-> d, id |-> puts'[d][i].key] \in defeats
      <4>1. i + 1 \in DOMAIN puts[d] /\ puts'[d][i] = puts[d][i + 1] BY <3>4
      <4> DEFINE w == puts[d][i + 1]
      <4>2. /\ w.field # Gone => w.key[1] = d /\ w.key \in stored
            /\ w.field = Gone => [device |-> d, id |-> w.key] \in defeats
        BY <3>5, <4>1 DEF SourcesAt
      <4>3. puts'[d][i] = w BY <4>1
      <4> HIDE DEF w
      <4> QED BY <4>2, <4>3
    <3> QED BY <3>1, <3>5, <3>6 DEF SourcesAt
  <2> QED BY <2>2, <2>3
<1>3. DOMAIN db' \subseteq stored
  <2>1. CASE db' = db BY <1>0, <2>1 DEF Sources
  <2>2. CASE ServerApply(d)
    <3> DEFINE w == puts[d][applied[d] + 1]
    <3>1. /\ db' = Apply(db, w) /\ db \in DataSet /\ applied[d] + 1 \in DOMAIN puts[d]
          /\ w \in Write
      BY <1>0, <2>2 DEF ServerApply, SdkType
    <3>2. w.field # Gone => w.key \in stored BY <1>0, <3>1 DEF Sources, SourcesAt
    <3> HIDE DEF w
    <3>3. \/ DOMAIN db' \subseteq DOMAIN db
          \/ w.field # Gone /\ DOMAIN db' = DOMAIN db \cup {w.key}
      <4>1. db \in DataSet /\ w \in Write BY <3>1
      <4>2. /\ w.field = Gone => DOMAIN Apply(db, w) = DOMAIN db \ {w.key}
            /\ w.field # Gone => DOMAIN Apply(db, w) = DOMAIN db \cup {w.key}
        BY <4>1, ApplyFacts
      <4> QED BY <3>1, <4>2
    <3>4. DOMAIN db \subseteq stored BY <1>0 DEF Sources
    <3> QED BY <3>2, <3>3, <3>4
  <2> QED BY <1>1, <2>1, <2>2 DEF DataArrives, Push, AckPut, Disconnect
<1> QED BY <1>0, <1>2, <1>3 DEF Sources, DefeatedIds

(* Every step keeps Base.                                                  *)
LEMMA NextBase == Base /\ [Next]_vars => Base'
<1> SUFFICES ASSUME Base, [Next]_vars PROVE Base' OBVIOUS
<1>0. TypeInv /\ Numbered /\ Adds /\ Sources /\ TypeInv' BY NextType DEF Base
<1>1. CASE UNCHANGED vars
  <2>1. \A e : Pending(e)' = Pending(e) BY <1>1 DEF vars, collectionVars, Pending
  <2>2. UNCHANGED <<db, puts, spawned, stored, defeats, ghosts>>
    BY <1>1 DEF vars, collectionVars, appVars, history
  <2>3. Numbered' BY <1>0, <2>2, NumberedKept
  <2>4. Adds' BY <1>0, <2>1, <2>2 DEF Adds, AddsAt, AddsApart
  <2>5. Sources' BY <1>0, <2>2 DEF Sources, SourcesAt, DefeatedIds
  <2> QED BY <1>0, <2>3, <2>4, <2>5 DEF Base
<1>2. CASE Next
  <2>1. PICK d \in Devices :
          \/ SdkStep(d) \/ StoreEnemy(d) \/ Defeat(d)
          \/ OnlyReads(d) /\ AppType'
          \/ Restart(d) /\ kills' \in 0..MaxKills
    BY <1>0, <1>2, NextKinds
  <2>2. CASE SdkStep(d)
    <3>1. /\ UNCHANGED <<place, spawned, stored, defeats, ghosts, torn>>
          /\ \A e \in Devices : \A i \in DOMAIN Pending(e)' :
               i \in DOMAIN Pending(e) /\ Pending(e)'[i] = Pending(e)[i]
      BY <1>0, <2>2, SdkStepFacts
    <3>2. Numbered' BY <1>0, <3>1, NumberedKept
    <3>3. Adds' BY <1>0, <3>1, AddsKept DEF Adds
    <3>4. Sources' BY <2>2, SdkSources
    <3> QED BY <1>0, <3>2, <3>3, <3>4 DEF Base
  <2>3. CASE OnlyReads(d)
    <3>1. Numbered' /\ Adds' BY <2>3, OnlyReadsAdds
    <3>2. UNCHANGED <<db, puts, stored, defeats, ghosts>> BY <2>3 DEF OnlyReads
    <3>3. spawned \subseteq spawned' BY <2>3 DEF OnlyReads, Asks, Spawns
    <3>4. Sources' BY <1>0, <3>2, <3>3 DEF Sources, SourcesAt, DefeatedIds
    <3> QED BY <1>0, <3>1, <3>4 DEF Base
  <2>4. CASE StoreEnemy(d)
    <3>1. Numbered' /\ Adds' BY <2>4, StoreAdds
    <3>2. PICK id \in Ids, p \in Places :
            /\ 1 \in DOMAIN Pending(d) /\ Pending(d)[1] = AddCb(id, p)
            /\ puts' = [puts EXCEPT ![d] = puts[d] \o NewEnemyWrites(id, p)]
            /\ stored' = stored \cup {id}
            /\ UNCHANGED <<db, applied, waiting, drops, mapVars, boundVars, spawned, defeats, ghosts, torn>>
      BY <1>0, <2>4, StoreFacts
    <3>3. id[1] = d /\ [id |-> id, place |-> p] \in spawned BY <3>2, StoredNow
    <3>4. /\ NewEnemyWrites(id, p) \in Seq(Write)
          /\ Len(NewEnemyWrites(id, p)) = Len(FieldOrder) + 1
          /\ \A i \in 1..(Len(FieldOrder) + 1) : NewEnemyWrites(id, p)[i].key = id
          /\ NewEnemyWrites(id, p)[1].field = Leaf
      BY NewWritesFacts
    <3>5. \A i \in 1..Len(NewEnemyWrites(id, p)) :
            NewEnemyWrites(id, p)[i].key = id /\ NewEnemyWrites(id, p)[i].field # Gone
      <4>1. /\ Len(FieldOrder) \in Nat
            /\ \A i \in 2..(Len(FieldOrder) + 1) :
                 FieldOrder[i - 1] \in Fields /\ NewEnemyWrites(id, p)[i].field = FieldOrder[i - 1]
        BY NewWritesFacts
      <4>2. Gone \notin Fields /\ Gone # Leaf BY CollectionAssumption DEF Gone, Leaf
      <4>3. \A i \in 1..(Len(FieldOrder) + 1) : i = 1 \/ i \in 2..(Len(FieldOrder) + 1) BY <4>1
      <4> QED BY <3>4, <4>1, <4>2, <4>3
    <3>6. puts[d] \in Seq(Write) /\ puts \in [Devices -> Seq(Write)] BY <1>0 DEF TypeInv, SdkType
    <3>7. \A e \in Devices : SourcesAt(e)'
      <4> SUFFICES ASSUME NEW e \in Devices PROVE SourcesAt(e)' OBVIOUS
      <4>1. SourcesAt(e) BY <1>0 DEF Sources
      <4>2. CASE e # d
        <5>1. puts'[e] = puts[e] BY <3>2, <3>6, <4>2
        <5>2. stored \subseteq stored' /\ defeats \subseteq defeats' BY <3>2
        <5> QED BY <4>1, <5>1, <5>2, SourcesKept
      <4>3. CASE e = d
        <5> DEFINE q == puts[d] \o NewEnemyWrites(id, p)
        <5>1. puts'[d] = q BY <3>2, <3>6
        <5>2. /\ Grows(puts[d], q) /\ q \in Seq(Write)
              /\ Len(q) = Len(puts[d]) + Len(NewEnemyWrites(id, p))
              /\ \A i \in (Len(puts[d]) + 1)..(Len(puts[d]) + Len(NewEnemyWrites(id, p))) :
                   /\ i - Len(puts[d]) \in 1..Len(NewEnemyWrites(id, p))
                   /\ q[i] = NewEnemyWrites(id, p)[i - Len(puts[d])]
          <6>1. puts[d] \in Seq(Write) /\ NewEnemyWrites(id, p) \in Seq(Write) BY <3>4, <3>6
          <6> QED BY <6>1, GrowsFacts
        <5> HIDE DEF q
        <5>3. DOMAIN q = 1..Len(q) /\ DOMAIN puts[d] = 1..Len(puts[d]) /\ Len(puts[d]) \in Nat
          BY <3>6, <5>2
        <5>4. \A i \in DOMAIN q :
                \/ i \in DOMAIN puts[d] /\ q[i] = puts[d][i]
                \/ q[i].key = id /\ q[i].field # Gone
          <6> SUFFICES ASSUME NEW i \in DOMAIN q
                       PROVE  \/ i \in DOMAIN puts[d] /\ q[i] = puts[d][i]
                              \/ q[i].key = id /\ q[i].field # Gone
            OBVIOUS
          <6>1. i \in 1..Len(puts[d]) \/ i \in (Len(puts[d]) + 1)..Len(q) BY <5>3
          <6>2. CASE i \in 1..Len(puts[d]) BY <5>2, <5>3, <6>2 DEF Grows
          <6>3. CASE i \in (Len(puts[d]) + 1)..Len(q)
            <7>1. /\ i - Len(puts[d]) \in 1..Len(NewEnemyWrites(id, p))
                  /\ q[i] = NewEnemyWrites(id, p)[i - Len(puts[d])]
              BY <5>2, <6>3
            <7> QED BY <3>5, <7>1
          <6> QED BY <6>1, <6>2, <6>3
        <5> QED BY <3>2, <3>3, <4>1, <4>3, <5>1, <5>4 DEF SourcesAt
      <4> QED BY <4>2, <4>3
    <3>8. \A k \in stored' : \E s \in spawned' : s.id = k
      <4>1. [id |-> id, place |-> p].id = id OBVIOUS
      <4> QED BY <1>0, <3>2, <3>3, <4>1 DEF Sources
    <3>9. Sources' BY <1>0, <3>2, <3>7, <3>8 DEF Sources, DefeatedIds
    <3> QED BY <1>0, <3>1, <3>9 DEF Base
  <2>5. CASE Defeat(d)
    <3>1. /\ callout[d] \in Ids
          /\ puts' = [puts EXCEPT ![d] = Append(puts[d], Removal(callout[d]))]
          /\ Removal(callout[d]) \in Write
          /\ defeats' = defeats \cup {[device |-> d, id |-> callout[d]]}
          /\ ghosts' = IF AddOutstanding(d, callout[d]) THEN ghosts \cup {callout[d]} ELSE ghosts
          /\ UNCHANGED <<db, applied, waiting, events, cache, drops, screen, place, shown,
                         boundVars, spawned, stored, torn>>
      BY <1>0, <2>5, DefeatFacts
    <3>2. \A e : Pending(e)' = Pending(e) BY <3>1 DEF Pending
    <3>3. Adds' BY <1>0, <3>1, <3>2 DEF Adds, AddsAt, AddsApart
    <3>4. Numbered' BY <1>0, <3>1, NumberedKept
    <3>5. puts[d] \in Seq(Write) /\ puts \in [Devices -> Seq(Write)] BY <1>0 DEF TypeInv, SdkType
    <3>6. \A e \in Devices : SourcesAt(e)'
      <4> SUFFICES ASSUME NEW e \in Devices PROVE SourcesAt(e)' OBVIOUS
      <4>1. SourcesAt(e) BY <1>0 DEF Sources
      <4>2. CASE e # d
        <5>1. puts'[e] = puts[e] BY <3>1, <3>5, <4>2
        <5>2. stored \subseteq stored' /\ defeats \subseteq defeats' BY <3>1
        <5> QED BY <4>1, <5>1, <5>2, SourcesKept
      <4>3. CASE e = d
        <5>1. puts'[d] = Append(puts[d], Removal(callout[d])) BY <3>1, <3>5
        <5>2. Removal(callout[d]).key = callout[d] /\ Removal(callout[d]).field = Gone BY DEF Removal
        <5>3. \A i \in DOMAIN puts'[d] :
                \/ i \in DOMAIN puts[d] /\ puts'[d][i] = puts[d][i]
                \/ puts'[d][i] = Removal(callout[d])
          <6> HIDE DEF Removal
          <6> QED BY <3>1, <3>5, <5>1
        <5> QED BY <3>1, <4>1, <4>3, <5>2, <5>3 DEF SourcesAt
      <4> QED BY <4>2, <4>3
    <3>7. ghosts' \subseteq DefeatedIds'
      <4>1. DefeatedIds \subseteq DefeatedIds' BY <3>1 DEF DefeatedIds
      <4>2. callout[d] \in DefeatedIds'
        <5>1. [device |-> d, id |-> callout[d]] \in defeats' BY <3>1
        <5>2. [device |-> d, id |-> callout[d]].id = callout[d] OBVIOUS
        <5> QED BY <5>1, <5>2 DEF DefeatedIds
      <4> QED BY <1>0, <3>1, <4>1, <4>2 DEF Sources
    <3>8. Sources' BY <1>0, <3>1, <3>6, <3>7 DEF Sources
    <3> QED BY <1>0, <3>3, <3>4, <3>8 DEF Base
  <2>6. CASE Restart(d)
    <3>1. /\ puts'[d] = << >> /\ Pending(d)' = << >>
          /\ \A e \in Devices : e # d => /\ puts'[e] = puts[e]
                                         /\ waiting'[e] = waiting[e] /\ events'[e] = events[e]
          /\ UNCHANGED <<db, drops, spawned, stored, defeats, ghosts>>
      BY <1>0, <2>6, RestartFacts
    <3>2. DOMAIN Pending(d)' = {} /\ DOMAIN puts'[d] = {} BY <3>1
    <3>3. \A e \in Devices : e # d => Pending(e)' = Pending(e) BY <3>1, SamePending
    <3>4. Adds' BY <1>0, <3>1, <3>2, <3>3 DEF Adds, AddsAt, AddsApart
    <3>5. Numbered' BY <1>0, <3>1, NumberedKept
    <3>6. Sources' BY <1>0, <3>1, <3>2 DEF Sources, SourcesAt, DefeatedIds
    <3> QED BY <1>0, <3>4, <3>5, <3>6 DEF Base
  <2> QED BY <2>1, <2>2, <2>3, <2>4, <2>5, <2>6
<1> QED BY <1>1, <1>2

(* The initial states satisfy Base.                                        *)
LEMMA InitBase == Init => Base
<1> SUFFICES ASSUME Init PROVE Base OBVIOUS
<1>1. TypeInv BY InitType
<1>2. \A d \in Devices : Pending(d) = << >> BY DEF Init, CollectionInit, ClientsInit, Pending
<1>3. DOMAIN << >> = {} OBVIOUS
<1>4. Adds BY <1>2, <1>3 DEF Adds, AddsAt, AddsApart
<1>5. Sources BY <1>3 DEF Init, CollectionInit, ClientsInit, NoRecords, Sources, SourcesAt
<1>6. Numbered BY DEF Init, Numbered
<1> QED BY <1>1, <1>4, <1>5, <1>6 DEF Base

(* Every enemy has one identifier, one creation and one device that writes *)
(* its children; only the devices that defeated it write its removal       *)
(* (addEnemyToFirebase, removeEnemyFromFirebase).                          *)
THEOREM BaseInvariant == Spec => []Base
<1> QED BY InitBase, NextBase, PTL DEF Spec

-----------------------------------------------------------------------------
(* 4. Defeated enemies stay away. *)

(* Without writes to k there is nothing to show of them.                   *)
LEMMA NoWrites ==
  ASSUME NEW ws \in Seq(Write), NEW k
  PROVE  /\ \A n \in Nat : (\A i \in 1..Len(ws) : ws[i].key # k) => Clear(ws, n, k, AnyField)
         /\ Clear(ws, 0, k, AnyField) => \A i \in 1..Len(ws) : ws[i].key # k
         /\ \A i \in 1..Len(ws) : Hit(ws, i, k, AnyField) <=> ws[i].key = k
<1>1. Len(ws) \in Nat /\ \A i \in 1..Len(ws) : ws[i].field \in AnyField BY QueueFacts
<1>2. \A i \in 1..Len(ws) : Hit(ws, i, k, AnyField) <=> ws[i].key = k BY <1>1 DEF Hit
<1>3. \A n \in Nat : \A i \in (n + 1)..Len(ws) : i \in 1..Len(ws) BY <1>1
<1> QED BY <1>2, <1>3 DEF Clear

(* The server's data and the queues stay; a view is as it was, or new.     *)
LEMMA SameAway ==
  ASSUME TypeInv, NEW d \in Devices, NEW k, AwayFrom(d, k), UNCHANGED <<db, puts, applied, stored>>,
         events'[d] # << >> => \/ events[d] # << >> /\ cache'[d] = cache[d]
                               \/ cache'[d] = db
  PROVE  AwayFrom(d, k)'
<1>1. applied[d] \in Nat BY DEF TypeInv, SdkType
<1>2. Clear(puts[d], 0, k, AnyField) => k \notin DOMAIN db BY <1>1, ResendKeeps DEF AwayFrom
<1> QED BY <1>2 DEF AwayFrom

(* The server applies a write of device e.                                 *)
LEMMA ApplyEffect ==
  ASSUME TypeInv, NEW e \in Devices, ServerApply(e)
  PROVE  \E w \in Write :
           /\ applied[e] \in Nat /\ applied[e] + 1 \in 1..Len(puts[e]) /\ puts[e] \in Seq(Write)
           /\ w = puts[e][applied[e] + 1]
           /\ applied' = [applied EXCEPT ![e] = applied[e] + 1] /\ applied \in [Devices -> Nat]
           /\ UNCHANGED <<puts, waiting, events, cache>>
           /\ w.field = Gone => DOMAIN db' = DOMAIN db \ {w.key}
           /\ w.field # Gone => DOMAIN db' = DOMAIN db \cup {w.key}
           /\ \A k \in DOMAIN db : k # w.key => db'[k] = db[k]
           /\ \A f \in Fields :
                /\ w.field = f => db'[w.key][f] = w.value
                /\ w.field \in Fields \ {f} /\ w.key \in DOMAIN db => db'[w.key][f] = db[w.key][f]
<1> DEFINE w == puts[e][applied[e] + 1]
<1>1. /\ applied[e] \in Nat /\ applied[e] < Len(puts[e]) /\ puts[e] \in Seq(Write)
      /\ db \in DataSet /\ db' = Apply(db, w) /\ applied' = [applied EXCEPT ![e] = applied[e] + 1]
      /\ applied \in [Devices -> Nat]
      /\ UNCHANGED <<puts, waiting, events, cache>>
  BY DEF ServerApply, TypeInv, SdkType
<1>2. applied[e] + 1 \in 1..Len(puts[e]) /\ w \in Write BY <1>1
<1> HIDE DEF w
<1>3. db \in DataSet /\ w \in Write BY <1>1, <1>2
<1>4. /\ w.field = Gone => DOMAIN Apply(db, w) = DOMAIN db \ {w.key}
      /\ w.field # Gone => DOMAIN Apply(db, w) = DOMAIN db \cup {w.key}
      /\ \A k \in DOMAIN db : k # w.key => Apply(db, w)[k] = db[k]
      /\ \A f \in Fields :
           /\ w.field = f => Apply(db, w)[w.key][f] = w.value
           /\ w.field \in Fields \ {f} /\ w.key \in DOMAIN db =>
                Apply(db, w)[w.key][f] = db[w.key][f]
  BY <1>3, ApplyFacts
<1> QED BY <1>1, <1>2, <1>4 DEF w

(* The server applies a write: a removed record is not brought back.       *)
LEMMA ApplyAway ==
  ASSUME TypeInv, NEW d \in Devices, NEW k, AwayFrom(d, k), NEW e \in Devices, ServerApply(e),
         stored' = stored
  PROVE  AwayFrom(d, k)'
<1>1. PICK w \in Write :
        /\ applied[e] \in Nat /\ applied[e] + 1 \in 1..Len(puts[e]) /\ puts[e] \in Seq(Write)
        /\ w = puts[e][applied[e] + 1]
        /\ applied' = [applied EXCEPT ![e] = applied[e] + 1] /\ applied \in [Devices -> Nat]
        /\ UNCHANGED <<puts, waiting, events, cache>>
        /\ w.field = Gone => DOMAIN db' = DOMAIN db \ {w.key}
        /\ w.field # Gone => DOMAIN db' = DOMAIN db \cup {w.key}
  BY ApplyEffect
<1>2. w.key # k => (k \in DOMAIN db' <=> k \in DOMAIN db) BY <1>1
<1>3. w.key = k /\ w.field = Gone => k \notin DOMAIN db' BY <1>1
<1>4. Clear(puts[d], applied'[d], k, AnyField) => k \notin DOMAIN db'
  <2> SUFFICES ASSUME Clear(puts[d], applied'[d], k, AnyField) PROVE k \notin DOMAIN db' OBVIOUS
  <2>0. \A i \in 1..Len(puts[d]) : Hit(puts[d], i, k, AnyField) <=> puts[d][i].key = k
    <3>1. puts[d] \in Seq(Write) BY DEF TypeInv, SdkType
    <3> QED BY <3>1, NoWrites
  <2>1. CASE e = d
    <3>0. applied[d] + 1 \in 1..Len(puts[d]) /\ puts[d][applied[d] + 1] = w BY <1>1, <2>1
    <3>1. applied'[d] = applied[d] + 1 /\ Len(puts[d]) \in Nat BY <1>1, <2>1
    <3>2. CASE w.key = k
      <4>1. Hit(puts[d], applied[d] + 1, k, AnyField) BY <2>0, <3>0, <3>2
      <4>2. \A j \in ((applied[d] + 1) + 1)..Len(puts[d]) : ~ Hit(puts[d], j, k, AnyField)
        BY <3>1 DEF Clear
      <4>3. Ends(puts[d], k, AnyField, Gone, Missing) BY DEF AwayFrom
      <4>4. w.field = Gone BY <1>1, <2>1, <4>1, <4>2, <4>3 DEF Ends
      <4> QED BY <1>3, <3>2, <4>4
    <3>3. CASE w.key # k
      <4>1. ~ Hit(puts[d], applied[d] + 1, k, AnyField) BY <2>0, <3>0, <3>3
      <4>2. Clear(puts[d], applied[d] + 1, k, AnyField) BY <3>1
      <4>3. applied[d] \in Nat BY <1>1
      <4>4. Clear(puts[d], applied[d], k, AnyField) BY <3>1, <4>1, <4>2, <4>3, ClearNext
      <4> QED BY <1>2, <3>3, <4>4 DEF AwayFrom
    <3> QED BY <3>2, <3>3
  <2>2. CASE e # d
    <3>1. Clear(puts[d], applied[d], k, AnyField) BY <1>1, <2>2
    <3>2. k \notin DOMAIN db BY <3>1 DEF AwayFrom
    <3>3. w.key = k => w.field = Gone
      <4>1. applied[e] + 1 \in DOMAIN puts[e] BY <1>1
      <4> QED BY <1>1, <2>2, <4>1 DEF AwayFrom
    <3> QED BY <1>2, <1>3, <3>2, <3>3
  <2> QED BY <2>1, <2>2
<1> QED BY <1>1, <1>4 DEF AwayFrom

(* An acknowledgement reaches device e.                                    *)
LEMMA AckEffect ==
  ASSUME TypeInv, NEW e \in Devices, AckPut(e)
  PROVE  /\ puts'[e] = Tail(puts[e]) /\ applied'[e] = applied[e] - 1
         /\ puts[e] \in Seq(Write) /\ puts[e] # << >>
         /\ applied[e] \in Nat /\ 0 < applied[e] /\ applied[e] <= Len(puts[e]) /\ applied[e] - 1 \in Nat
         /\ \A d \in Devices : d # e => puts'[d] = puts[d] /\ applied'[d] = applied[d] /\ cache'[d] = cache[d]
         /\ events[e] # << >> => cache'[e] = db
         /\ UNCHANGED <<db, waiting, events>>
<1>1. /\ applied[e] \in Nat /\ applied[e] > 0 /\ applied[e] <= Len(puts[e])
      /\ puts[e] \in Seq(Write)
      /\ puts' = [puts EXCEPT ![e] = Tail(puts[e])]
      /\ applied' = [applied EXCEPT ![e] = applied[e] - 1]
      /\ cache' = [cache EXCEPT ![e] = IF events[e] # << >> THEN db ELSE cache[e]]
      /\ UNCHANGED <<db, waiting, events, drops>>
  BY DEF AckPut, TypeInv, SdkType
<1>2. puts[e] # << >> BY <1>1
<1> QED BY <1>1, <1>2 DEF TypeInv, SdkType

(* An acknowledged removal has been applied, with nothing after it.        *)
LEMMA AckAway ==
  ASSUME TypeInv, NEW d \in Devices, NEW k, AwayFrom(d, k), NEW e \in Devices, AckPut(e),
         stored' = stored
  PROVE  AwayFrom(d, k)'
<1>1. /\ puts'[e] = Tail(puts[e]) /\ applied'[e] = applied[e] - 1
      /\ puts[e] \in Seq(Write) /\ puts[e] # << >>
      /\ applied[e] \in Nat /\ 0 < applied[e] /\ applied[e] <= Len(puts[e]) /\ applied[e] - 1 \in Nat
      /\ \A c \in Devices : c # e => puts'[c] = puts[c] /\ applied'[c] = applied[c] /\ cache'[c] = cache[c]
      /\ events[e] # << >> => cache'[e] = db
      /\ UNCHANGED <<db, waiting, events>>
  BY AckEffect
<1>2. \A i \in DOMAIN puts'[e] : i + 1 \in DOMAIN puts[e] /\ puts'[e][i] = puts[e][i + 1]
  BY <1>1, TailFacts
<1>3. \A c \in Devices \ {d} : \A i \in DOMAIN puts'[c] : puts'[c][i].key = k => puts'[c][i].field = Gone
  <2> SUFFICES ASSUME NEW c \in Devices \ {d}, NEW i \in DOMAIN puts'[c], puts'[c][i].key = k
               PROVE  puts'[c][i].field = Gone
    OBVIOUS
  <2>1. CASE c = e
    <3>1. i + 1 \in DOMAIN puts[e] /\ puts'[e][i] = puts[e][i + 1] BY <1>2, <2>1
    <3>2. puts[e][i + 1].key = k => puts[e][i + 1].field = Gone BY <2>1, <3>1 DEF AwayFrom
    <3> QED BY <2>1, <3>1, <3>2
  <2>2. CASE c # e BY <1>1, <2>2 DEF AwayFrom
  <2> QED BY <2>1, <2>2
<1>4. CASE e = d
  <2>1. /\ Clear(puts'[d], applied'[d], k, AnyField) <=> Clear(puts[d], applied[d], k, AnyField)
        /\ \A f, v : Ends(puts[d], k, AnyField, f, v) => Ends(puts'[d], k, AnyField, f, v)
    BY <1>1, <1>4, AckKeeps
  <2>2. Clear(puts'[d], 0, k, AnyField) => Clear(puts'[d], applied'[d], k, AnyField)
    BY <1>1, <1>4, ResendKeeps
  <2>3. events[d] # << >> => cache'[d] = db BY <1>1, <1>4
  <2> QED BY <1>1, <1>3, <2>1, <2>2, <2>3 DEF AwayFrom
<1>5. CASE e # d
  <2>1. puts'[d] = puts[d] /\ applied'[d] = applied[d] /\ cache'[d] = cache[d] BY <1>1, <1>5
  <2> QED BY <1>1, <1>3, <2>1 DEF AwayFrom
<1> QED BY <1>4, <1>5

(* The SDK's steps.                                                        *)
LEMMA SdkAway ==
  ASSUME TypeInv, NEW d \in Devices, NEW k, AwayFrom(d, k), NEW e \in Devices, SdkStep(e)
  PROVE  AwayFrom(d, k)'
<1>0. stored' = stored BY SdkStepFacts
<1>1. CASE ServerApply(e) BY <1>0, <1>1, ApplyAway
<1>2. CASE AckPut(e) BY <1>0, <1>2, AckAway
<1>3. CASE DataArrives(e)
  <2>1. UNCHANGED <<db, puts, applied>> /\ cache' = [cache EXCEPT ![e] = db]
        /\ events' = [events EXCEPT ![e] = events'[e]]
    BY <1>3, ArrivalFacts
  <2>2. \/ events'[d] = events[d] /\ cache'[d] = cache[d]
        \/ cache'[d] = db
    BY <2>1 DEF TypeInv, SdkType
  <2> QED BY <1>0, <2>1, <2>2, SameAway
<1>4. CASE Push(e)
  <2>1. UNCHANGED <<db, puts, applied, events>> /\ cache' = [cache EXCEPT ![e] = db]
    BY <1>4 DEF Push
  <2>2. cache'[d] = cache[d] \/ cache'[d] = db BY <2>1 DEF TypeInv, SdkType
  <2> QED BY <1>0, <2>1, <2>2, SameAway
<1>5. CASE Disconnect(e)
  <2>1. applied' = [applied EXCEPT ![e] = 0] /\ UNCHANGED <<db, puts, waiting, events, cache>>
    BY <1>5 DEF Disconnect
  <2>2. applied \in [Devices -> Nat] BY DEF TypeInv, SdkType
  <2>3. Clear(puts[d], applied'[d], k, AnyField) => Clear(puts[d], applied[d], k, AnyField)
    BY <2>1, <2>2, ResendKeeps
  <2> QED BY <1>0, <2>1, <2>3 DEF AwayFrom
<1> QED BY <1>1, <1>2, <1>3, <1>4, <1>5 DEF SdkStep, CollectionNext

(* More writes, of device e: to other records, or removals of k.           *)
LEMMA GrowAway ==
  ASSUME TypeInv, NEW d \in Devices, NEW k, AwayFrom(d, k), NEW e \in Devices,
         Grows(puts[e], puts'[e]), puts'[e] \in Seq(Write),
         \A i \in (Len(puts[e]) + 1)..Len(puts'[e]) :
           puts'[e][i].key = k => puts'[e][i].field = Gone /\ puts'[e][i].value = Missing,
         \A c \in Devices : c # e => puts'[c] = puts[c],
         UNCHANGED <<db, applied>>, stored \subseteq stored',
         events'[d] # << >> => events[d] # << >> /\ cache'[d] = cache[d]
  PROVE  AwayFrom(d, k)'
<1>0. /\ puts[e] \in Seq(Write) /\ applied[d] \in Nat /\ applied[d] <= Len(puts[d])
      /\ Len(puts[e]) \in Nat /\ DOMAIN puts[e] = 1..Len(puts[e])
  BY DEF TypeInv, SdkType
<1>1. Len(puts'[e]) \in Nat /\ DOMAIN puts'[e] = 1..Len(puts'[e])
      /\ \A i \in 1..Len(puts[e]) : puts'[e][i] = puts[e][i]
  BY DEF Grows
<1>2. \A i \in DOMAIN puts'[e] :
        \/ i \in DOMAIN puts[e] /\ puts'[e][i] = puts[e][i]
        \/ i \in (Len(puts[e]) + 1)..Len(puts'[e])
  BY <1>0, <1>1
<1>3. \A c \in Devices \ {d} : \A i \in DOMAIN puts'[c] : puts'[c][i].key = k => puts'[c][i].field = Gone
  <2> SUFFICES ASSUME NEW c \in Devices \ {d}, NEW i \in DOMAIN puts'[c], puts'[c][i].key = k
               PROVE  puts'[c][i].field = Gone
    OBVIOUS
  <2>1. CASE c = e BY <1>2, <2>1 DEF AwayFrom
  <2>2. CASE c # e BY <2>2 DEF AwayFrom
  <2> QED BY <2>1, <2>2
<1>4. CASE e # d BY <1>3, <1>4 DEF AwayFrom
<1>5. CASE e = d
  <2>0. \A i \in 1..Len(puts'[d]) : Hit(puts'[d], i, k, AnyField) <=> puts'[d][i].key = k
    BY <1>5, NoWrites
  <2>1. CASE \A i \in (Len(puts[d]) + 1)..Len(puts'[d]) : puts'[d][i].key # k
    <3>1. \A i \in (Len(puts[d]) + 1)..Len(puts'[d]) : ~ Hit(puts'[d], i, k, AnyField)
      BY <2>1 DEF Hit
    <3>2. \A n \in Nat : Clear(puts'[d], n, k, AnyField) <=> Clear(puts[d], n, k, AnyField)
      BY <1>5, <3>1, GrowKeeps
    <3>3. \A f, v : Ends(puts[d], k, AnyField, f, v) => Ends(puts'[d], k, AnyField, f, v)
      <4>1. Grows(puts[d], puts'[d]) /\ 0 \in Nat BY <1>5
      <4> QED BY <3>1, <4>1, GrowKeeps
    <3> QED BY <1>0, <1>3, <3>2, <3>3 DEF AwayFrom
  <2>2. CASE \E i \in (Len(puts[d]) + 1)..Len(puts'[d]) : puts'[d][i].key = k
    <3>1. PICK h \in (Len(puts[d]) + 1)..Len(puts'[d]) : puts'[d][h].key = k BY <2>2
    <3>2. h \in 1..Len(puts'[d]) BY <1>0, <1>5
    <3>3. Hit(puts'[d], h, k, AnyField) BY <2>0, <3>1, <3>2
    <3>4. \A i \in h..Len(puts'[d]) :
            Hit(puts'[d], i, k, AnyField) => puts'[d][i].field = Gone /\ puts'[d][i].value = Missing
      <4>1. \A i \in h..Len(puts'[d]) : i \in (Len(puts[d]) + 1)..Len(puts'[d]) BY <1>0, <1>5
      <4> QED BY <1>5, <4>1 DEF Hit
    <3>5. Grows(puts[d], puts'[d]) BY <1>5
    <3>6. ASSUME NEW n \in Nat, n <= Len(puts[d])
          PROVE  ~ Clear(puts'[d], n, k, AnyField) /\ Ends(puts'[d], k, AnyField, Gone, Missing)
      BY <3>3, <3>4, <3>5, <3>6, GrowEnds
    <3>7. 0 \in Nat /\ 0 <= Len(puts[d]) BY <1>0, <1>5
    <3> QED BY <1>0, <1>3, <3>6, <3>7 DEF AwayFrom
  <2> QED BY <2>1, <2>2
<1> QED BY <1>4, <1>5

(* Once away an enemy's record stays away, whatever becomes of the         *)
(* histories that only grow.                                               *)
LEMMA StillAway ==
  ASSUME Away, defeats' = defeats, torn \subseteq torn', ghosts \subseteq ghosts',
         \A x \in defeats : x.id \notin torn' /\ AwayFrom(x.device, x.id) => AwayFrom(x.device, x.id)'
  PROVE  Away'
<1> SUFFICES ASSUME NEW x \in defeats PROVE x.id \in torn' \cup ghosts' \/ AwayFrom(x.device, x.id)'
  BY DEF Away
<1>1. x.id \in torn \cup ghosts \/ AwayFrom(x.device, x.id) BY DEF Away
<1> QED BY <1>1

(* A callback stores a new enemy: the writes are of no defeated one.       *)
LEMMA StoreAway ==
  ASSUME Base, NEW d \in Devices, NEW k, AwayFrom(d, k), NEW e \in Devices, StoreEnemy(e)
  PROVE  AwayFrom(d, k)'
<1>0. TypeInv BY DEF Base
<1>1. PICK id \in Ids, p \in Places :
        /\ 1 \in DOMAIN Pending(e) /\ Pending(e)[1] = AddCb(id, p)
        /\ puts' = [puts EXCEPT ![e] = puts[e] \o NewEnemyWrites(id, p)]
        /\ stored' = stored \cup {id}
        /\ Consume(e) /\ events[e] # << >>
        /\ UNCHANGED <<db, applied, waiting, drops, mapVars, boundVars, spawned, defeats, ghosts, torn>>
  BY <1>0, StoreFacts
<1>2. id # k
  <2>1. id \notin stored BY <1>1, StoredNow
  <2> QED BY <2>1 DEF AwayFrom
<1>3. puts \in [Devices -> Seq(Write)] /\ puts[e] \in Seq(Write) BY <1>0 DEF TypeInv, SdkType
<1>4. /\ NewEnemyWrites(id, p) \in Seq(Write)
      /\ Len(NewEnemyWrites(id, p)) = Len(FieldOrder) + 1
      /\ \A i \in 1..(Len(FieldOrder) + 1) : NewEnemyWrites(id, p)[i].key = id
  BY NewWritesFacts
<1> DEFINE q == puts[e] \o NewEnemyWrites(id, p)
<1>5. /\ Grows(puts[e], q) /\ q \in Seq(Write)
      /\ Len(q) = Len(puts[e]) + Len(NewEnemyWrites(id, p))
      /\ \A i \in (Len(puts[e]) + 1)..(Len(puts[e]) + Len(NewEnemyWrites(id, p))) :
           /\ i - Len(puts[e]) \in 1..Len(NewEnemyWrites(id, p))
           /\ q[i] = NewEnemyWrites(id, p)[i - Len(puts[e])]
  <2>1. puts[e] \in Seq(Write) /\ NewEnemyWrites(id, p) \in Seq(Write) BY <1>3, <1>4
  <2> QED BY <2>1, GrowsFacts
<1>6. puts'[e] = q /\ \A c \in Devices : c # e => puts'[c] = puts[c] BY <1>1, <1>3
<1> HIDE DEF q
<1>7. \A i \in (Len(puts[e]) + 1)..Len(puts'[e]) : puts'[e][i].key # k
  <2> SUFFICES ASSUME NEW i \in (Len(puts[e]) + 1)..Len(puts'[e]) PROVE puts'[e][i].key # k OBVIOUS
  <2>1. /\ i - Len(puts[e]) \in 1..Len(NewEnemyWrites(id, p))
        /\ q[i] = NewEnemyWrites(id, p)[i - Len(puts[e])]
    BY <1>5, <1>6
  <2>2. q[i].key = id BY <1>4, <2>1
  <2> QED BY <1>2, <1>6, <2>2
<1>8. /\ events' = [events EXCEPT ![e] = events'[e]]
      /\ cache' = [cache EXCEPT ![e] = cache'[e]]
      /\ events'[e] # << >> => cache'[e] = cache[e]
  BY <1>0, <1>1, ConsumeFacts
<1>9. events'[d] # << >> => events[d] # << >> /\ cache'[d] = cache[d]
  BY <1>0, <1>1, <1>8 DEF TypeInv, SdkType
<1>10. Grows(puts[e], puts'[e]) /\ puts'[e] \in Seq(Write) /\ UNCHANGED <<db, applied>>
       /\ stored \subseteq stored'
  BY <1>1, <1>5, <1>6
<1> QED BY <1>0, <1>6, <1>7, <1>9, <1>10, GrowAway

(* A defeat's removal is the last that its device says of the record; of   *)
(* another record it says nothing.                                         *)
LEMMA DefeatAway ==
  ASSUME Base, NEW e \in Devices, Defeat(e)
  PROVE  /\ \A d \in Devices : \A k : AwayFrom(d, k) => AwayFrom(d, k)'
         /\ \A c : c = callout[e] /\ c \notin ghosts' => AwayFrom(e, c)'
<1> SUFFICES ASSUME NEW c, c = callout[e]
             PROVE  /\ \A d \in Devices : \A k : AwayFrom(d, k) => AwayFrom(d, k)'
                    /\ c \notin ghosts' => AwayFrom(e, c)'
  OBVIOUS
<1> DEFINE q == Append(puts[e], Removal(c))
<1>0. TypeInv BY DEF Base
<1>1. /\ puts' = [puts EXCEPT ![e] = q] /\ Removal(c) \in Write
      /\ ghosts' = IF AddOutstanding(e, c) THEN ghosts \cup {c} ELSE ghosts
      /\ UNCHANGED <<db, applied, waiting, events, cache, stored>>
  BY <1>0, DefeatFacts
<1>2. puts \in [Devices -> Seq(Write)] /\ puts[e] \in Seq(Write)
      /\ applied[e] \in Nat /\ applied[e] <= Len(puts[e])
  BY <1>0 DEF TypeInv, SdkType
<1>3. Grows(puts[e], q) BY <1>1, <1>2, GrowsFacts
<1>4. q \in Seq(Write) /\ Len(q) = Len(puts[e]) + 1 /\ Len(puts[e]) \in Nat
      /\ q[Len(puts[e]) + 1] = Removal(c)
  BY <1>1, <1>2
<1>5. Removal(c).key = c /\ Removal(c).field = Gone /\ Removal(c).value = Missing BY DEF Removal
<1> HIDE DEF q
<1>6. puts'[e] = q /\ \A x \in Devices : x # e => puts'[x] = puts[x] BY <1>1, <1>2
<1>7. \A i \in (Len(puts[e]) + 1)..Len(q) : i = Len(puts[e]) + 1 BY <1>4
<1>8. \A i \in (Len(puts[e]) + 1)..Len(q) : q[i].key = c /\ q[i].field = Gone /\ q[i].value = Missing
  BY <1>4, <1>5, <1>7
<1>9. ASSUME NEW d \in Devices, NEW k, AwayFrom(d, k) PROVE AwayFrom(d, k)'
  <2>1. Grows(puts[e], puts'[e]) /\ puts'[e] \in Seq(Write) BY <1>3, <1>4, <1>6
  <2>2. \A i \in (Len(puts[e]) + 1)..Len(puts'[e]) :
          puts'[e][i].key = k => puts'[e][i].field = Gone /\ puts'[e][i].value = Missing
    BY <1>6, <1>8
  <2>3. UNCHANGED <<db, applied>> /\ stored \subseteq stored' BY <1>1
  <2>4. events'[d] # << >> => events[d] # << >> /\ cache'[d] = cache[d] BY <1>1
  <2> QED BY <1>0, <1>6, <1>9, <2>1, <2>2, <2>3, <2>4, GrowAway
<1>10. ASSUME c \notin ghosts' PROVE AwayFrom(e, c)'
  <2>1. ~ AddOutstanding(e, c) BY <1>1, <1>10
  <2>2. /\ c \in stored'
        /\ \A x \in Devices \ {e} : \A i \in DOMAIN puts'[x] : puts'[x][i].key = c => puts'[x][i].field = Gone
    BY <1>1, <1>6, <2>1 DEF AddOutstanding
  <2>3. PICK h \in (Len(puts[e]) + 1)..Len(q) : h = Len(puts[e]) + 1 BY <1>4
  <2>4. Hit(q, h, c, AnyField) BY <1>8, <2>3 DEF Hit, AnyField
  <2>5. \A i \in h..Len(q) : Hit(q, i, c, AnyField) => q[i].field = Gone /\ q[i].value = Missing
    BY <1>8, <2>3
  <2>6. ASSUME NEW n \in Nat, n <= Len(puts[e])
        PROVE  ~ Clear(q, n, c, AnyField) /\ Ends(q, c, AnyField, Gone, Missing)
    BY <1>3, <2>4, <2>5, <2>6, GrowEnds
  <2>7. /\ ~ Clear(q, applied[e], c, AnyField) /\ ~ Clear(q, 0, c, AnyField)
        /\ Ends(q, c, AnyField, Gone, Missing)
    <3>1. 0 \in Nat /\ 0 <= Len(puts[e]) BY <1>4
    <3> QED BY <1>2, <2>6, <3>1
  <2>8. applied'[e] = applied[e] BY <1>1
  <2> QED BY <1>6, <2>2, <2>7, <2>8 DEF AwayFrom
<1> QED BY <1>9, <1>10

(* The end of a process: it takes the writes it has not sent, and those    *)
(* records are torn.                                                       *)
LEMMA RestartAway ==
  ASSUME TypeInv, NEW d \in Devices, NEW k, AwayFrom(d, k), NEW e \in Devices, Restart(e), k \notin torn'
  PROVE  AwayFrom(d, k)'
<1>1. /\ puts'[e] = << >> /\ applied'[e] = 0 /\ events'[e] = << >>
      /\ \A c \in Devices : c # e =>
           /\ puts'[c] = puts[c] /\ applied'[c] = applied[c]
           /\ events'[c] = events[c] /\ cache'[c] = cache[c]
      /\ torn' = torn \cup KeysOf(puts[e]) \cup {s.id : s \in {t \in SpawnsOf(e) : t.id \notin stored}}
      /\ UNCHANGED <<db, stored>>
  BY RestartFacts
<1>2. DOMAIN puts'[e] = {} BY <1>1
<1>3. \A c \in Devices \ {d} : \A i \in DOMAIN puts'[c] : puts'[c][i].key = k => puts'[c][i].field = Gone
  BY <1>1, <1>2 DEF AwayFrom
<1>4. CASE e # d BY <1>1, <1>3, <1>4 DEF AwayFrom
<1>5. CASE e = d
  <2>1. puts[d] \in Seq(Write) /\ applied[d] \in Nat BY DEF TypeInv, SdkType
  <2>2. \A i \in 1..Len(puts[d]) : puts[d][i].key # k BY <1>1, <1>5, <2>1 DEF KeysOf
  <2>3. Clear(puts[d], applied[d], k, AnyField) BY <2>1, <2>2, NoWrites
  <2>4. k \notin DOMAIN db BY <2>3 DEF AwayFrom
  <2>5. /\ \A f, v : Ends(puts'[d], k, AnyField, f, v)
        /\ \A n \in Nat : Clear(puts'[d], n, k, AnyField)
    BY <1>1, <1>5, EmptyQueue
  <2> QED BY <1>1, <1>3, <1>5, <2>4, <2>5 DEF AwayFrom
<1> QED BY <1>4, <1>5

(* Every step keeps Away.                                                  *)
LEMMA NextAway == Base /\ Away /\ [Next]_vars => Away'
<1> SUFFICES ASSUME Base, Away, [Next]_vars PROVE Away' OBVIOUS
<1>0. TypeInv /\ \A x \in defeats : x.device \in Devices BY DEF Base, TypeInv, AppType
<1>1. CASE UNCHANGED vars
  <2>1. UNCHANGED <<db, puts, applied, events, cache, stored, defeats, torn, ghosts>>
    BY <1>1 DEF vars, collectionVars, appVars, history
  <2>2. ASSUME NEW x \in defeats, AwayFrom(x.device, x.id) PROVE AwayFrom(x.device, x.id)'
    <3>1. events'[x.device] # << >> => events[x.device] # << >> /\ cache'[x.device] = cache[x.device]
      BY <2>1
    <3>2. UNCHANGED <<db, puts, applied, stored>> BY <2>1
    <3> QED BY <1>0, <2>2, <3>1, <3>2, SameAway
  <2> QED BY <2>1, <2>2, StillAway
<1>2. CASE Next
  <2>1. PICK d \in Devices :
          \/ SdkStep(d) \/ StoreEnemy(d) \/ Defeat(d)
          \/ OnlyReads(d) /\ AppType'
          \/ Restart(d) /\ kills' \in 0..MaxKills
    BY <1>0, <1>2, NextKinds
  <2>2. CASE SdkStep(d)
    <3>1. UNCHANGED <<defeats, torn, ghosts>> BY <1>0, <2>2, SdkStepFacts
    <3>2. \A x \in defeats : AwayFrom(x.device, x.id) => AwayFrom(x.device, x.id)'
      BY <1>0, <2>2, SdkAway
    <3> QED BY <3>1, <3>2, StillAway
  <2>3. CASE OnlyReads(d)
    <3>1. /\ UNCHANGED <<db, puts, applied, stored, defeats, torn, ghosts>>
          /\ \A e \in Devices : events'[e] # << >> => events[e] # << >> /\ cache'[e] = cache[e]
      BY <2>3 DEF OnlyReads
    <3>2. ASSUME NEW x \in defeats, AwayFrom(x.device, x.id) PROVE AwayFrom(x.device, x.id)'
      <4>1. events'[x.device] # << >> => events[x.device] # << >> /\ cache'[x.device] = cache[x.device]
        BY <1>0, <3>1
      <4>2. UNCHANGED <<db, puts, applied, stored>> BY <3>1
      <4> QED BY <1>0, <3>2, <4>1, <4>2, SameAway
    <3> QED BY <3>1, <3>2, StillAway
  <2>4. CASE StoreEnemy(d)
    <3>1. UNCHANGED <<defeats, torn, ghosts>> BY <2>4 DEF StoreEnemy
    <3>2. \A x \in defeats : AwayFrom(x.device, x.id) => AwayFrom(x.device, x.id)'
      BY <1>0, <2>4, StoreAway
    <3> QED BY <3>1, <3>2, StillAway
  <2>5. CASE Defeat(d)
    <3>1. /\ \A x \in defeats : AwayFrom(x.device, x.id) => AwayFrom(x.device, x.id)'
          /\ \A c : c = callout[d] /\ c \notin ghosts' => AwayFrom(d, c)'
      BY <1>0, <2>5, DefeatAway
    <3>2. /\ defeats' = defeats \cup {[device |-> d, id |-> callout[d]]}
          /\ torn' = torn /\ ghosts \subseteq ghosts'
      BY <2>5 DEF Defeat
    <3>3. ASSUME NEW x \in defeats' PROVE x.id \in torn' \cup ghosts' \/ AwayFrom(x.device, x.id)'
      <4>1. CASE x \in defeats
        <5>1. x.id \in torn \cup ghosts \/ AwayFrom(x.device, x.id) BY <4>1 DEF Away
        <5> QED BY <3>1, <3>2, <4>1, <5>1
      <4>2. CASE x = [device |-> d, id |-> callout[d]]
        <5>1. x.device = d /\ x.id = callout[d] BY <4>2
        <5>2. x.id \notin ghosts' => AwayFrom(d, x.id)' BY <3>1, <5>1
        <5> QED BY <5>1, <5>2
      <4> QED BY <3>2, <4>1, <4>2
    <3> QED BY <3>3 DEF Away
  <2>6. CASE Restart(d)
    <3>1. UNCHANGED <<defeats, ghosts>> /\ torn \subseteq torn' BY <2>6 DEF Restart
    <3>2. \A x \in defeats : x.id \notin torn' /\ AwayFrom(x.device, x.id) => AwayFrom(x.device, x.id)'
      BY <1>0, <2>6, RestartAway
    <3> QED BY <3>1, <3>2, StillAway
  <2> QED BY <2>1, <2>2, <2>3, <2>4, <2>5, <2>6
<1> QED BY <1>1, <1>2

(* Base and Away hold throughout.                                          *)
LEMMA AwayInvariant == Spec => [](Base /\ Away)
<1>1. Init => Base /\ Away BY InitBase DEF Init, Away
<1>2. (Base /\ Away) /\ [Next]_vars => (Base /\ Away)' BY NextBase, NextAway
<1> QED BY <1>1, <1>2, PTL DEF Spec

(* A record that is away is not in what its device reads.                  *)
LEMMA AwayIsUnread ==
  ASSUME TypeInv, NEW d \in Devices, NEW k, AwayFrom(d, k)
  PROVE  k \notin DOMAIN GivenNow(d)
<1>1. puts[d] \in Seq(Write) /\ applied[d] \in Nat /\ db \in DataSet /\ cache[d] \in DataSet
  BY DEF TypeInv, SdkType
<1>2. Ends(puts[d], k, AnyField, Gone, Missing) BY DEF AwayFrom
<1>3. CASE events[d] # << >>
  <2>1. Clear(puts[d], 0, k, AnyField) => k \notin DOMAIN cache[d] BY <1>3 DEF AwayFrom
  <2>2. k \notin DOMAIN Overlay(cache[d], puts[d]) BY <1>1, <1>2, <2>1, ReadGone
  <2> QED BY <1>3, <2>2 DEF GivenNow
<1>4. CASE events[d] = << >>
  <2>1. Clear(puts[d], 0, k, AnyField) => k \notin DOMAIN db BY <1>1, ResendKeeps DEF AwayFrom
  <2>2. k \notin DOMAIN Overlay(db, puts[d]) BY <1>1, <1>2, <2>1, ReadGone
  <2> QED BY <1>4, <2>2 DEF GivenNow
<1> QED BY <1>3, <1>4

(* A device never reads an enemy again that it has defeated, unless the    *)
(* removal overtook the creation or died with the process                  *)
(* (removeEnemyFromFirebase against addEnemyToFirebase's writes).          *)
THEOREM DefeatedGoAway == Spec => []DefeatedStayAway
<1>1. Base /\ Away => DefeatedStayAway
  <2> SUFFICES ASSUME Base, Away, NEW x \in defeats
               PROVE  x.id \in torn \cup ghosts \/ x.id \notin DOMAIN GivenNow(x.device)
    BY DEF DefeatedStayAway
  <2>1. TypeInv /\ x.device \in Devices BY DEF Base, TypeInv, AppType
  <2>2. x.id \in torn \cup ghosts \/ AwayFrom(x.device, x.id) BY DEF Away
  <2> QED BY <2>1, <2>2, AwayIsUnread
<1> QED BY <1>1, AwayInvariant, PTL

-----------------------------------------------------------------------------
(* 5. The others are kept whole. *)

(* Only o writes the children of k, the others remove it; once it is       *)
(* defeated o has nothing to write of it.                                  *)
Own(o, k) ==
  /\ \A i \in 1..Len(puts[o]) : puts[o][i].key = k => puts[o][i].field # Gone /\ k \notin DefeatedIds
  /\ \A e \in Devices \ {o} : \A i \in 1..Len(puts[e]) :
       puts[e][i].key = k => puts[e][i].field = Gone /\ k \in DefeatedIds

(* An enemy nobody has defeated has one writer, the device that made it.   *)
LEMMA OwnFacts ==
  ASSUME Base, Away, NEW s \in spawned, ~ Exempt(s.id)
  PROVE  s.id[1] \in Devices /\ s.id \in Ids /\ Own(s.id[1], s.id)
<1> DEFINE k == s.id
           o == s.id[1]
<1>0. TypeInv /\ Sources BY DEF Base
<1>1. k \in Ids /\ o \in Devices BY <1>0 DEF TypeInv, AppType, Ids
<1>2. k \notin torn \cup ghosts /\ [device |-> o, id |-> k] \notin defeats BY DEF Exempt
<1> HIDE DEF k, o
<1>3. \A e \in Devices : DOMAIN puts[e] = 1..Len(puts[e]) BY <1>0 DEF TypeInv, SdkType
<1>4. ASSUME NEW e \in Devices, NEW i \in 1..Len(puts[e]), puts[e][i].key = k
      PROVE  /\ puts[e][i].field # Gone => k[1] = e
             /\ puts[e][i].field = Gone => [device |-> e, id |-> k] \in defeats
  <2>1. SourcesAt(e) /\ i \in DOMAIN puts[e] BY <1>0, <1>3 DEF Sources
  <2>2. /\ puts[e][i].field # Gone => puts[e][i].key[1] = e
        /\ puts[e][i].field = Gone => [device |-> e, id |-> puts[e][i].key] \in defeats
    BY <2>1 DEF SourcesAt
  <2> QED BY <1>4, <2>2
<1>5. \A e : [device |-> e, id |-> k] \in defeats => k \in DefeatedIds
  <2>1. \A e : [device |-> e, id |-> k].id = k OBVIOUS
  <2> QED BY <2>1 DEF DefeatedIds
<1>6. ASSUME k \in DefeatedIds, NEW i \in 1..Len(puts[o]), puts[o][i].key = k PROVE FALSE
  <2>1. PICK x \in defeats : x.id = k BY <1>6 DEF DefeatedIds
  <2>2. x.device \in Devices /\ x = [device |-> x.device, id |-> x.id]
    BY <1>0 DEF TypeInv, AppType
  <2>3. x.device # o BY <1>2, <2>1, <2>2
  <2>4. AwayFrom(x.device, k) BY <1>2, <2>1 DEF Away
  <2>5. i \in DOMAIN puts[o] BY <1>1, <1>3, <1>6
  <2>6. puts[o][i].field = Gone BY <1>1, <1>6, <2>3, <2>4, <2>5 DEF AwayFrom
  <2> QED BY <1>1, <1>2, <1>4, <1>6, <2>6
<1>7. k[1] = o BY DEF k, o
<1>8. Own(o, k) BY <1>1, <1>2, <1>4, <1>5, <1>6, <1>7 DEF Own
<1> QED BY <1>1, <1>8 DEF k, o

(* What leaves the server and o's queue alone keeps k.                     *)
LEMMA SameWhole ==
  ASSUME NEW o, NEW k, NEW f, NEW v, WholeAt(o, k, f, v), db' = db,
         puts'[o] = puts[o], applied'[o] = applied[o], defeats \subseteq defeats'
  PROVE  WholeAt(o, k, f, v)'
<1>1. DefeatedIds \subseteq DefeatedIds' BY DEF DefeatedIds
<1> QED BY <1>1 DEF WholeAt

(* The server applies a write.                                             *)
LEMMA ApplyWhole ==
  ASSUME TypeInv, NEW o \in Devices, NEW k, Own(o, k), NEW f \in Fields, NEW v, WholeAt(o, k, f, v),
         NEW e \in Devices, ServerApply(e), defeats' = defeats
  PROVE  WholeAt(o, k, f, v)'
<1>1. PICK w \in Write :
        /\ applied[e] \in Nat /\ applied[e] + 1 \in 1..Len(puts[e]) /\ puts[e] \in Seq(Write)
        /\ w = puts[e][applied[e] + 1]
        /\ applied' = [applied EXCEPT ![e] = applied[e] + 1] /\ applied \in [Devices -> Nat]
        /\ UNCHANGED <<puts, waiting, events, cache>>
        /\ w.field = Gone => DOMAIN db' = DOMAIN db \ {w.key}
        /\ w.field # Gone => DOMAIN db' = DOMAIN db \cup {w.key}
        /\ \A x \in DOMAIN db : x # w.key => db'[x] = db[x]
        /\ \A g \in Fields :
             /\ w.field = g => db'[w.key][g] = w.value
             /\ w.field \in Fields \ {g} /\ w.key \in DOMAIN db => db'[w.key][g] = db[w.key][g]
  BY ApplyEffect
<1>2. DefeatedIds' = DefeatedIds BY DEF DefeatedIds
<1>3. Gone \notin Fields BY CollectionAssumption DEF Gone
<1> DEFINE Is  == \/ k \in DOMAIN db /\ db[k][f] = v
                  \/ k \notin DOMAIN db /\ k \in DefeatedIds
           Is2 == \/ k \in DOMAIN db' /\ db'[k][f] = v
                  \/ k \notin DOMAIN db' /\ k \in DefeatedIds
<1>4. w.key # k /\ Is => Is2 BY <1>1
<1>5. Clear(puts[o], applied[o], k, Of(f)) => Is BY DEF WholeAt
<1>6. ASSUME Clear(puts[o], applied'[o], k, Of(f)) PROVE Is2
  <2>1. CASE e # o
    <3>1. Is BY <1>1, <1>5, <1>6, <2>1
    <3>2. CASE w.key = k
      <4>1. w.field = Gone /\ k \in DefeatedIds BY <1>1, <2>1, <3>2 DEF Own
      <4> QED BY <1>1, <3>2, <4>1
    <3> QED BY <1>4, <3>1, <3>2
  <2>2. CASE e = o
    <3>1. /\ applied'[o] = applied[o] + 1 /\ Len(puts[o]) \in Nat /\ applied[o] \in Nat
          /\ applied[o] + 1 \in 1..Len(puts[o]) /\ puts[o][applied[o] + 1] = w
      BY <1>1, <2>2
    <3>2. Clear(puts[o], applied[o] + 1, k, Of(f)) BY <1>6, <3>1
    <3>3. CASE Hit(puts[o], applied[o] + 1, k, Of(f))
      <4>1. \A j \in ((applied[o] + 1) + 1)..Len(puts[o]) : ~ Hit(puts[o], j, k, Of(f))
        BY <3>2 DEF Clear
      <4>2. Ends(puts[o], k, Of(f), f, v) BY DEF WholeAt
      <4>3. w.field = f /\ w.value = v BY <3>1, <3>3, <4>1, <4>2 DEF Ends
      <4>4. w.key = k BY <3>1, <3>3 DEF Hit
      <4> QED BY <1>1, <1>3, <4>3, <4>4
    <3>4. CASE ~ Hit(puts[o], applied[o] + 1, k, Of(f))
      <4>1. Clear(puts[o], applied[o], k, Of(f)) BY <3>1, <3>2, <3>4, ClearNext
      <4>2. Is BY <1>5, <4>1
      <4>3. CASE w.key = k
        <5>1. w.field # Gone /\ k \notin DefeatedIds BY <3>1, <4>3 DEF Own
        <5>2. w.field \notin Of(f) BY <3>1, <3>4, <4>3 DEF Hit
        <5>3. w.field \in Fields \ {f} BY <5>1, <5>2 DEF Of, Write
        <5>4. k \in DOMAIN db /\ db[k][f] = v BY <4>2, <5>1
        <5>5. db'[k][f] = db[k][f] BY <1>1, <4>3, <5>3, <5>4
        <5>6. k \in DOMAIN db' BY <1>1, <4>3, <5>1
        <5> QED BY <5>4, <5>5, <5>6
      <4> QED BY <1>4, <4>2, <4>3
    <3> QED BY <3>3, <3>4
  <2> QED BY <2>1, <2>2
<1>7. Ends(puts'[o], k, Of(f), f, v) BY <1>1 DEF WholeAt
<1>8. puts' = puts BY <1>1
<1> QED BY <1>2, <1>6, <1>7, <1>8 DEF WholeAt

(* The SDK's steps.                                                        *)
LEMMA SdkWhole ==
  ASSUME TypeInv, NEW o \in Devices, NEW k, Own(o, k), NEW f \in Fields, NEW v, WholeAt(o, k, f, v),
         NEW e \in Devices, SdkStep(e)
  PROVE  WholeAt(o, k, f, v)'
<1>0. defeats' = defeats /\ DefeatedIds' = DefeatedIds
  <2>1. defeats' = defeats BY SdkStepFacts
  <2> QED BY <2>1 DEF DefeatedIds
<1>1. CASE ServerApply(e) BY <1>0, <1>1, ApplyWhole
<1>2. CASE AckPut(e)
  <2>1. /\ puts'[e] = Tail(puts[e]) /\ applied'[e] = applied[e] - 1
        /\ puts[e] \in Seq(Write)
        /\ applied[e] \in Nat /\ 0 < applied[e] /\ applied[e] <= Len(puts[e])
        /\ \A d \in Devices : d # e => puts'[d] = puts[d] /\ applied'[d] = applied[d]
        /\ db' = db
    BY <1>2, AckEffect
  <2>2. CASE e # o BY <1>0, <2>1, <2>2, SameWhole
  <2>3. CASE e = o
    <3>1. /\ Clear(puts'[o], applied'[o], k, Of(f)) <=> Clear(puts[o], applied[o], k, Of(f))
          /\ \A g, u : Ends(puts[o], k, Of(f), g, u) => Ends(puts'[o], k, Of(f), g, u)
      BY <2>1, <2>3, AckKeeps
    <3> QED BY <1>0, <2>1, <3>1 DEF WholeAt
  <2> QED BY <2>2, <2>3
<1>3. CASE Disconnect(e)
  <2>1. applied' = [applied EXCEPT ![e] = 0] /\ UNCHANGED <<db, puts>> BY <1>3 DEF Disconnect
  <2>2. applied \in [Devices -> Nat] BY DEF TypeInv, SdkType
  <2>3. Clear(puts[o], applied'[o], k, Of(f)) => Clear(puts[o], applied[o], k, Of(f))
    BY <2>1, <2>2, ResendKeeps
  <2> QED BY <1>0, <2>1, <2>3 DEF WholeAt
<1>4. CASE DataArrives(e) \/ Push(e)
  <2>1. UNCHANGED <<db, puts, applied>> BY <1>4 DEF DataArrives, Push
  <2> QED BY <1>0, <2>1, SameWhole
<1> QED BY <1>1, <1>2, <1>3, <1>4 DEF SdkStep, CollectionNext

(* More writes of o, to other records.                                     *)
LEMMA GrowWhole ==
  ASSUME TypeInv, NEW o \in Devices, NEW k, NEW f, NEW v, WholeAt(o, k, f, v),
         Grows(puts[o], puts'[o]), \A i \in (Len(puts[o]) + 1)..Len(puts'[o]) : puts'[o][i].key # k,
         UNCHANGED <<db, applied>>, defeats \subseteq defeats'
  PROVE  WholeAt(o, k, f, v)'
<1>1. applied[o] \in Nat BY DEF TypeInv, SdkType
<1>2. \A i \in (Len(puts[o]) + 1)..Len(puts'[o]) : ~ Hit(puts'[o], i, k, Of(f)) BY DEF Hit
<1>3. /\ Clear(puts'[o], applied[o], k, Of(f)) <=> Clear(puts[o], applied[o], k, Of(f))
      /\ \A g, u : Ends(puts[o], k, Of(f), g, u) => Ends(puts'[o], k, Of(f), g, u)
  BY <1>1, <1>2, GrowKeeps
<1>4. DefeatedIds \subseteq DefeatedIds' BY DEF DefeatedIds
<1> QED BY <1>3, <1>4 DEF WholeAt

(* The creation of an enemy ends with a value for every child.             *)
LEMMA CreationEnds ==
  ASSUME NEW ws \in Seq(Write), NEW n \in Nat, n <= Len(ws), NEW id \in Ids, NEW p \in Places, NEW f \in Fields
  PROVE  LET q == ws \o NewEnemyWrites(id, p)
         IN  ~ Clear(q, n, id, Of(f)) /\ Ends(q, id, Of(f), f, FieldValue(f, p))
<1> DEFINE t == NewEnemyWrites(id, p)
           q == ws \o t
<1>1. /\ t \in Seq(Write) /\ Len(t) = Len(FieldOrder) + 1 /\ Len(FieldOrder) \in Nat
      /\ \A i \in 1..(Len(FieldOrder) + 1) : t[i].key = id
      /\ \A i \in 2..(Len(FieldOrder) + 1) :
           /\ i - 1 \in 1..Len(FieldOrder) /\ FieldOrder[i - 1] \in Fields
           /\ t[i].field = FieldOrder[i - 1] /\ t[i].value = FieldValue(FieldOrder[i - 1], p)
  BY NewWritesFacts
<1> HIDE DEF t
<1>2. /\ Grows(ws, q) /\ Len(q) = Len(ws) + Len(t)
      /\ \A i \in (Len(ws) + 1)..(Len(ws) + Len(t)) : i - Len(ws) \in 1..Len(t) /\ q[i] = t[i - Len(ws)]
      /\ \A j \in 1..Len(t) : Len(ws) + j \in (Len(ws) + 1)..(Len(ws) + Len(t)) /\ q[Len(ws) + j] = t[j]
  <2>1. ws \in Seq(Write) /\ t \in Seq(Write) BY <1>1
  <2> QED BY <2>1, GrowsFacts
<1> HIDE DEF q
<1>3. PICK j \in 1..Len(FieldOrder) : FieldOrder[j] = f
  <2>1. DOMAIN FieldOrder = 1..Len(FieldOrder) BY EnemiesAssumption
  <2> QED BY <2>1, EnemiesAssumption
<1>4. j + 1 \in 2..(Len(FieldOrder) + 1) /\ j + 1 \in 1..Len(t) /\ (j + 1) - 1 = j BY <1>1
<1> DEFINE h == Len(ws) + (j + 1)
<1>5. h \in (Len(ws) + 1)..Len(q) /\ q[h] = t[j + 1] BY <1>2, <1>4
<1>6. t[j + 1].key = id /\ t[j + 1].field = f BY <1>1, <1>3, <1>4
<1>7. Hit(q, h, id, Of(f)) BY <1>5, <1>6 DEF Hit, Of
<1>8. ASSUME NEW i \in h..Len(q), Hit(q, i, id, Of(f))
      PROVE  q[i].field = f /\ q[i].value = FieldValue(f, p)
  <2>1. Len(ws) \in Nat /\ Len(t) \in Nat BY <1>1
  <2>2. i \in (Len(ws) + 1)..(Len(ws) + Len(t)) BY <1>2, <2>1
  <2>3. i - Len(ws) \in 1..Len(t) /\ q[i] = t[i - Len(ws)] BY <1>2, <2>2
  <2>4. i - Len(ws) \in 2..(Len(FieldOrder) + 1) BY <1>1, <2>1, <2>3
  <2>5. /\ FieldOrder[(i - Len(ws)) - 1] \in Fields
        /\ q[i].field = FieldOrder[(i - Len(ws)) - 1]
        /\ q[i].value = FieldValue(FieldOrder[(i - Len(ws)) - 1], p)
    BY <1>1, <2>3, <2>4
  <2>6. q[i].field \in Of(f) BY <1>8 DEF Hit
  <2>7. Gone \notin Fields /\ Leaf \notin Fields BY CollectionAssumption DEF Gone, Leaf
  <2>8. q[i].field = f BY <2>5, <2>6, <2>7 DEF Of
  <2> QED BY <2>5, <2>8
<1> HIDE DEF h
<1>9. ~ Clear(q, n, id, Of(f)) /\ Ends(q, id, Of(f), f, FieldValue(f, p))
  BY <1>2, <1>5, <1>7, <1>8, GrowEnds
<1> QED BY <1>9 DEF q, t

(* A callback stores an enemy: from then on it is whole, the others as     *)
(* they were.                                                              *)
LEMMA StoreWhole ==
  ASSUME Base, NEW e \in Devices, StoreEnemy(e), NEW s \in spawned, s.id[1] \in Devices, NEW f \in Fields,
         s.id \in stored', s.id \in stored => Whole(s, f)
  PROVE  Whole(s, f)'
<1>0. TypeInv /\ Numbered BY DEF Base
<1> DEFINE o == s.id[1]
<1>1. PICK id \in Ids, p \in Places :
        /\ 1 \in DOMAIN Pending(e) /\ Pending(e)[1] = AddCb(id, p)
        /\ puts' = [puts EXCEPT ![e] = puts[e] \o NewEnemyWrites(id, p)]
        /\ stored' = stored \cup {id}
        /\ Consume(e) /\ events[e] # << >>
        /\ UNCHANGED <<db, applied, waiting, drops, mapVars, boundVars, spawned, defeats, ghosts, torn>>
  BY <1>0, StoreFacts
<1>2. id \notin stored /\ id[1] = e /\ [id |-> id, place |-> p] \in spawned BY <1>1, StoredNow
<1>3. /\ puts \in [Devices -> Seq(Write)] /\ puts[e] \in Seq(Write)
      /\ applied[e] \in Nat /\ applied[e] <= Len(puts[e])
  BY <1>0 DEF TypeInv, SdkType
<1>4. /\ puts'[e] = puts[e] \o NewEnemyWrites(id, p)
      /\ \A c \in Devices : c # e => puts'[c] = puts[c]
      /\ UNCHANGED <<db, applied>> /\ defeats \subseteq defeats'
  BY <1>1, <1>3
<1>5. CASE s.id # id
  <2>1. WholeAt(o, s.id, f, FieldValue(f, s.place)) BY <1>1, <1>5 DEF Whole
  <2>2. CASE o # e
    <3>1. puts'[o] = puts[o] /\ applied'[o] = applied[o] BY <1>4, <2>2
    <3>2. WholeAt(o, s.id, f, FieldValue(f, s.place))' BY <1>4, <2>1, <3>1, SameWhole
    <3> QED BY <3>2 DEF Whole
  <2>3. CASE o = e
    <3>1. /\ NewEnemyWrites(id, p) \in Seq(Write)
          /\ Len(NewEnemyWrites(id, p)) = Len(FieldOrder) + 1
          /\ \A i \in 1..(Len(FieldOrder) + 1) : NewEnemyWrites(id, p)[i].key = id
      BY NewWritesFacts
    <3> DEFINE q == puts[e] \o NewEnemyWrites(id, p)
    <3>2. /\ Grows(puts[e], q) /\ Len(q) = Len(puts[e]) + Len(NewEnemyWrites(id, p))
          /\ \A i \in (Len(puts[e]) + 1)..(Len(puts[e]) + Len(NewEnemyWrites(id, p))) :
               /\ i - Len(puts[e]) \in 1..Len(NewEnemyWrites(id, p))
               /\ q[i] = NewEnemyWrites(id, p)[i - Len(puts[e])]
      <4>1. puts[e] \in Seq(Write) /\ NewEnemyWrites(id, p) \in Seq(Write) BY <1>3, <3>1
      <4> QED BY <4>1, GrowsFacts
    <3>3. puts'[o] = q /\ puts[o] = puts[e] BY <1>4, <2>3
    <3> HIDE DEF q, o
    <3>4. \A i \in (Len(puts[o]) + 1)..Len(q) : q[i].key = id
      <4> SUFFICES ASSUME NEW i \in (Len(puts[o]) + 1)..Len(q) PROVE q[i].key = id OBVIOUS
      <4>1. /\ i - Len(puts[e]) \in 1..Len(NewEnemyWrites(id, p))
            /\ q[i] = NewEnemyWrites(id, p)[i - Len(puts[e])]
        BY <3>2, <3>3
      <4> QED BY <3>1, <4>1
    <3>5. /\ Grows(puts[o], puts'[o])
          /\ \A i \in (Len(puts[o]) + 1)..Len(puts'[o]) : puts'[o][i].key # s.id
      BY <1>5, <3>2, <3>3, <3>4
    <3>6. o \in Devices BY <2>3
    <3>7. WholeAt(o, s.id, f, FieldValue(f, s.place))' BY <1>0, <1>4, <2>1, <3>5, <3>6, GrowWhole
    <3> QED BY <3>7 DEF Whole, o
  <2> QED BY <2>2, <2>3
<1>6. CASE s.id = id
  <2>1. s = [id |-> id, place |-> p]
    <3>1. [id |-> id, place |-> p].id = id OBVIOUS
    <3> QED BY <1>0, <1>2, <1>6, <3>1 DEF Numbered
  <2>2. o = e /\ s.place = p BY <1>2, <1>6, <2>1
  <2>3. /\ ~ Clear(puts'[e], applied[e], id, Of(f))
        /\ Ends(puts'[e], id, Of(f), f, FieldValue(f, p))
    BY <1>3, <1>4, CreationEnds
  <2>4. applied'[e] = applied[e] BY <1>4
  <2>5. WholeAt(e, id, f, FieldValue(f, p))' BY <2>3, <2>4 DEF WholeAt
  <2> QED BY <1>6, <2>2, <2>5 DEF Whole
<1> QED BY <1>5, <1>6

(* A defeat by another device than o, or of another enemy.                 *)
LEMMA DefeatWhole ==
  ASSUME TypeInv, NEW e \in Devices, Defeat(e), NEW o \in Devices, NEW k, NEW f \in Fields, NEW v,
         WholeAt(o, k, f, v), [device |-> o, id |-> k] \notin defeats'
  PROVE  WholeAt(o, k, f, v)'
<1>1. /\ puts' = [puts EXCEPT ![e] = Append(puts[e], Removal(callout[e]))]
      /\ Removal(callout[e]) \in Write
      /\ defeats' = defeats \cup {[device |-> e, id |-> callout[e]]}
      /\ UNCHANGED <<db, applied>>
  BY DefeatFacts
<1>2. puts \in [Devices -> Seq(Write)] /\ puts[e] \in Seq(Write) BY DEF TypeInv, SdkType
<1>3. CASE o # e
  <2>1. puts'[o] = puts[o] /\ applied'[o] = applied[o] BY <1>1, <1>2, <1>3
  <2> QED BY <1>1, <2>1, SameWhole
<1>4. CASE o = e
  <2>1. callout[e] # k BY <1>1, <1>4
  <2>2. Removal(callout[e]).key = callout[e] BY DEF Removal
  <2> DEFINE q == Append(puts[e], Removal(callout[e]))
  <2>3. puts'[o] = q /\ puts[o] = puts[e] BY <1>1, <1>2, <1>4
  <2>4. Grows(puts[e], q) BY <1>1, <1>2, GrowsFacts
  <2>5. \A i \in (Len(puts[e]) + 1)..Len(q) : q[i] = Removal(callout[e])
    <3> HIDE DEF Removal
    <3> QED BY <1>1, <1>2
  <2> HIDE DEF q
  <2>6. Grows(puts[o], puts'[o]) /\ \A i \in (Len(puts[o]) + 1)..Len(puts'[o]) : puts'[o][i].key # k
    BY <2>1, <2>2, <2>3, <2>4, <2>5
  <2> QED BY <1>1, <2>6, GrowWhole
<1> QED BY <1>3, <1>4

(* The end of a process.                                                   *)
LEMMA RestartWhole ==
  ASSUME TypeInv, NEW e \in Devices, Restart(e), NEW o \in Devices, NEW k, NEW f \in Fields, NEW v,
         WholeAt(o, k, f, v), k \notin torn'
  PROVE  WholeAt(o, k, f, v)'
<1>1. /\ puts'[e] = << >>
      /\ \A c \in Devices : c # e => puts'[c] = puts[c] /\ applied'[c] = applied[c]
      /\ torn' = torn \cup KeysOf(puts[e]) \cup {s.id : s \in {t \in SpawnsOf(e) : t.id \notin stored}}
      /\ UNCHANGED <<db, defeats>>
  BY RestartFacts
<1>2. CASE e # o BY <1>1, <1>2, SameWhole
<1>3. CASE e = o
  <2>1. puts[o] \in Seq(Write) /\ applied[o] \in Nat BY DEF TypeInv, SdkType
  <2>2. \A i \in 1..Len(puts[o]) : puts[o][i].key # k BY <1>1, <1>3, <2>1 DEF KeysOf
  <2>3. Clear(puts[o], applied[o], k, Of(f))
    <3>1. \A i \in (applied[o] + 1)..Len(puts[o]) : i \in 1..Len(puts[o]) BY <2>1
    <3> QED BY <2>2, <3>1 DEF Clear, Hit
  <2>4. Ends(puts'[o], k, Of(f), f, v) BY <1>1, <1>3, EmptyQueue
  <2>5. DefeatedIds' = DefeatedIds BY <1>1 DEF DefeatedIds
  <2> QED BY <1>1, <2>3, <2>4, <2>5 DEF WholeAt
<1> QED BY <1>2, <1>3

(* Every step keeps Kept.                                                  *)
LEMMA NextKept == Base /\ Away /\ Kept /\ [Next]_vars => Kept'
<1> SUFFICES ASSUME Base, Away, Kept, [Next]_vars PROVE Kept' OBVIOUS
<1>0. TypeInv /\ Numbered /\ Sources BY DEF Base
<1>1. ASSUME NEW s \in spawned, ~ Exempt(s.id), s.id \in stored
      PROVE  /\ \A f \in Fields : WholeAt(s.id[1], s.id, f, FieldValue(f, s.place))
             /\ s.id[1] \in Devices /\ Own(s.id[1], s.id)
  BY <1>1, OwnFacts DEF Kept, Whole
<1>2. CASE UNCHANGED vars
  <2>1. UNCHANGED <<db, puts, applied, stored, spawned, defeats, torn, ghosts>>
    BY <1>2 DEF vars, collectionVars, appVars, history
  <2> SUFFICES ASSUME NEW s \in spawned, s.id \in stored, ~ Exempt(s.id)', NEW f \in Fields
               PROVE  Whole(s, f)'
    BY <2>1 DEF Kept
  <2>2. ~ Exempt(s.id) BY <2>1 DEF Exempt
  <2>3. WholeAt(s.id[1], s.id, f, FieldValue(f, s.place)) BY <1>1, <2>2
  <2>4. WholeAt(s.id[1], s.id, f, FieldValue(f, s.place))' BY <2>1, <2>3, SameWhole
  <2> QED BY <2>4 DEF Whole
<1>3. CASE Next
  <2>1. PICK d \in Devices :
          \/ SdkStep(d) \/ StoreEnemy(d) \/ Defeat(d)
          \/ OnlyReads(d) /\ AppType'
          \/ Restart(d) /\ kills' \in 0..MaxKills
    BY <1>0, <1>3, NextKinds
  <2>2. CASE SdkStep(d)
    <3>1. UNCHANGED <<spawned, stored, defeats, torn, ghosts>> BY <1>0, <2>2, SdkStepFacts
    <3> SUFFICES ASSUME NEW s \in spawned, s.id \in stored, ~ Exempt(s.id)', NEW f \in Fields
                 PROVE  Whole(s, f)'
      BY <3>1 DEF Kept
    <3>2. ~ Exempt(s.id) BY <3>1 DEF Exempt
    <3>3. /\ WholeAt(s.id[1], s.id, f, FieldValue(f, s.place))
          /\ s.id[1] \in Devices /\ Own(s.id[1], s.id)
      BY <1>1, <3>2
    <3>4. WholeAt(s.id[1], s.id, f, FieldValue(f, s.place))' BY <1>0, <2>2, <3>3, SdkWhole
    <3> QED BY <3>4 DEF Whole
  <2>3. CASE OnlyReads(d)
    <3>1. UNCHANGED <<db, puts, applied, stored, defeats, torn, ghosts>> BY <2>3 DEF OnlyReads
    <3>2. \A s \in spawned' : s \in spawned \/ s.id \notin stored
      <4>1. \/ spawned' = spawned
            \/ \E p : Spawns(d, p)
        BY <2>3 DEF OnlyReads, Asks
      <4>2. CASE \E p : Spawns(d, p)
        <5>1. PICK p : Spawns(d, p) BY <4>2
        <5>2. Cardinality(spawned) < MaxSpawns /\ spawned' = spawned \cup {[id |-> NewId(d), place |-> p]}
          BY <5>1 DEF Spawns
        <5>3. \A s \in spawned : s.id # NewId(d) BY <1>0, <5>2, NewIdIsNew
        <5>4. NewId(d) \notin stored BY <1>0, <5>3 DEF Sources
        <5>5. [id |-> NewId(d), place |-> p].id = NewId(d) OBVIOUS
        <5> QED BY <5>2, <5>4, <5>5
      <4> QED BY <4>1, <4>2
    <3> SUFFICES ASSUME NEW s \in spawned, s.id \in stored, ~ Exempt(s.id)', NEW f \in Fields
                 PROVE  Whole(s, f)'
      BY <3>1, <3>2 DEF Kept
    <3>3. ~ Exempt(s.id) BY <3>1 DEF Exempt
    <3>4. WholeAt(s.id[1], s.id, f, FieldValue(f, s.place)) BY <1>1, <3>3
    <3>5. WholeAt(s.id[1], s.id, f, FieldValue(f, s.place))' BY <3>1, <3>4, SameWhole
    <3> QED BY <3>5 DEF Whole
  <2>4. CASE StoreEnemy(d)
    <3>1. UNCHANGED <<spawned, defeats, torn, ghosts>> BY <2>4 DEF StoreEnemy
    <3> SUFFICES ASSUME NEW s \in spawned, s.id \in stored', ~ Exempt(s.id)', NEW f \in Fields
                 PROVE  Whole(s, f)'
      BY <3>1 DEF Kept
    <3>2. ~ Exempt(s.id) BY <3>1 DEF Exempt
    <3>3. s.id \in stored => Whole(s, f) BY <1>1, <3>2 DEF Whole
    <3>4. s.id[1] \in Devices BY <3>2, OwnFacts
    <3> QED BY <2>4, <3>3, <3>4, StoreWhole
  <2>5. CASE Defeat(d)
    <3>1. /\ UNCHANGED <<spawned, stored, torn>>
          /\ defeats \subseteq defeats' /\ ghosts \subseteq ghosts'
      BY <2>5 DEF Defeat
    <3> SUFFICES ASSUME NEW s \in spawned, s.id \in stored, ~ Exempt(s.id)', NEW f \in Fields
                 PROVE  Whole(s, f)'
      BY <3>1 DEF Kept
    <3>2. ~ Exempt(s.id) /\ [device |-> s.id[1], id |-> s.id] \notin defeats' BY <3>1 DEF Exempt
    <3>3. WholeAt(s.id[1], s.id, f, FieldValue(f, s.place)) /\ s.id[1] \in Devices BY <1>1, <3>2
    <3>4. WholeAt(s.id[1], s.id, f, FieldValue(f, s.place))' BY <1>0, <2>5, <3>2, <3>3, DefeatWhole
    <3> QED BY <3>4 DEF Whole
  <2>6. CASE Restart(d)
    <3>1. UNCHANGED <<spawned, stored, defeats, ghosts>> /\ torn \subseteq torn' BY <2>6 DEF Restart
    <3> SUFFICES ASSUME NEW s \in spawned, s.id \in stored, ~ Exempt(s.id)', NEW f \in Fields
                 PROVE  Whole(s, f)'
      BY <3>1 DEF Kept
    <3>2. ~ Exempt(s.id) /\ s.id \notin torn' BY <3>1 DEF Exempt
    <3>3. WholeAt(s.id[1], s.id, f, FieldValue(f, s.place)) /\ s.id[1] \in Devices BY <1>1, <3>2
    <3>4. WholeAt(s.id[1], s.id, f, FieldValue(f, s.place))' BY <1>0, <2>6, <3>2, <3>3, RestartWhole
    <3> QED BY <3>4 DEF Whole
  <2> QED BY <2>1, <2>2, <2>3, <2>4, <2>5, <2>6
<1> QED BY <1>2, <1>3

(* The three parts of the invariant hold throughout.                       *)
LEMMA KeptInvariant == Spec => [](Base /\ Away /\ Kept)
<1>1. Init => Base /\ Away /\ Kept BY InitBase DEF Init, Away, Kept
<1>2. (Base /\ Away /\ Kept) /\ [Next]_vars => (Base /\ Away /\ Kept)'
  BY NextBase, NextAway, NextKept
<1> QED BY <1>1, <1>2, PTL DEF Spec

(* Every enemy nobody has defeated is read by its device as it was         *)
(* created, and is so on the server once that has all the writes           *)
(* (addEnemyToFirebase's six setValues, sent and sent again).              *)
THEOREM UndefeatedStay == Spec => []UndefeatedSurvive
<1>1. Base /\ Away /\ Kept => UndefeatedSurvive
  <2> SUFFICES ASSUME Base, Away, Kept, NEW s \in spawned, s.id \notin torn \cup DefeatedIds, s.id \in stored
               PROVE  LET mine == Overlay(db, puts[s.id[1]])
                      IN  s.id \in DOMAIN mine /\ mine[s.id] = NewRecord(s.place)
    BY DEF UndefeatedSurvive
  <2> DEFINE k == s.id
             o == s.id[1]
             r == NewRecord(s.place)
  <2>0. TypeInv /\ ghosts \subseteq DefeatedIds BY DEF Base, Sources
  <2>1. ~ Exempt(k)
    <3>1. [device |-> o, id |-> k].id = k OBVIOUS
    <3> QED BY <2>0, <3>1 DEF Exempt, DefeatedIds
  <2>2. o \in Devices /\ k \in Ids /\ Own(o, k) /\ \A f \in Fields : WholeAt(o, k, f, FieldValue(f, s.place))
    BY <2>1, OwnFacts DEF Kept, Whole
  <2>3. k \notin DefeatedIds OBVIOUS
  <2> HIDE DEF k, o
  <2>4. puts[o] \in Seq(Write) /\ applied[o] \in Nat /\ db \in DataSet BY <2>0, <2>2 DEF TypeInv, SdkType
  <2>5. r \in Record /\ \A f \in Fields : r[f] = FieldValue(f, s.place)
    <3>1. s.place \in Places BY <2>0 DEF TypeInv, AppType
    <3> QED BY <3>1 DEF NewRecord, FieldValue, Record
  <2> HIDE DEF r
  <2>6. \A i \in 1..Len(puts[o]) : puts[o][i].key = k => puts[o][i].field # Gone BY <2>2 DEF Own
  <2>7. \A f \in Fields : Ends(puts[o], k, Of(f), f, r[f]) BY <2>2, <2>5 DEF WholeAt
  <2>8. \A f \in Fields : Clear(puts[o], 0, k, Of(f)) => k \in DOMAIN db /\ db[k][f] = r[f]
    <3> SUFFICES ASSUME NEW f \in Fields, Clear(puts[o], 0, k, Of(f)) PROVE k \in DOMAIN db /\ db[k][f] = r[f]
      OBVIOUS
    <3>1. Clear(puts[o], applied[o], k, Of(f)) BY <2>4, ResendKeeps
    <3> QED BY <2>2, <2>3, <2>5, <3>1 DEF WholeAt
  <2>9. k \in DOMAIN Overlay(db, puts[o]) /\ Overlay(db, puts[o])[k] = r
    <3>1. Len(puts[o]) \in Nat BY <2>4
    <3>2. DOMAIN puts[o] = 1..Len(puts[o]) BY <2>4
    <3>3. r = [f \in Fields |-> r[f]] BY <2>5 DEF Record
    <3>4. Fields # {} BY EnemiesAssumption
    <3>5. Settles(db, puts[o], k, r) BY <2>6, <2>7, <2>8, <3>1, <3>2, <3>3 DEF Settles
    <3> QED BY <3>4, <3>5, ReadWhole
  <2> QED BY <2>9 DEF k, o, r
<1> QED BY <1>1, KeptInvariant, PTL

(* A record lacks a child on the server only while a device still has that *)
(* child's write, or the record's removal, to send; or for ever because a  *)
(* process died with some of the writes, or the removal overtook them      *)
(* (addEnemyToFirebase's six separate setValues).                          *)
THEOREM RecordsHeal == Spec => []IncompleteHeals
<1>1. Base /\ Away /\ Kept => IncompleteHeals
  <2> SUFFICES ASSUME Base, Away, Kept, NEW k \in DOMAIN db \ (torn \cup ghosts), NEW f \in Fields,
                      db[k][f] = Missing
               PROVE  \E d \in Devices : \E i \in DOMAIN puts[d] :
                        i > applied[d] /\ puts[d][i].key = k /\ puts[d][i].field \in {f, Gone}
    BY DEF IncompleteHeals
  <2>0. TypeInv /\ Sources BY DEF Base
  <2>1. k \in stored BY <2>0 DEF Sources
  <2>2. PICK s \in spawned : s.id = k BY <2>0, <2>1 DEF Sources
  <2> DEFINE o == k[1]
  <2>3. o \in Devices /\ s.place \in Places BY <2>0, <2>2 DEF TypeInv, AppType, Ids
  <2>4. puts[o] \in Seq(Write) /\ Len(puts[o]) \in Nat /\ DOMAIN puts[o] = 1..Len(puts[o]) /\ applied[o] \in Nat
    BY <2>0, <2>3 DEF TypeInv, SdkType
  <2>5. \A i \in (applied[o] + 1)..Len(puts[o]) : i \in DOMAIN puts[o] /\ i > applied[o] BY <2>4
  <2>6. CASE [device |-> o, id |-> k] \in defeats
    <3>1. AwayFrom(o, k)
      <4>1. [device |-> o, id |-> k].device = o /\ [device |-> o, id |-> k].id = k OBVIOUS
      <4> QED BY <2>6, <4>1 DEF Away
    <3>2. ~ Clear(puts[o], applied[o], k, AnyField) /\ Ends(puts[o], k, AnyField, Gone, Missing)
      BY <3>1 DEF AwayFrom
    <3>3. PICK i \in (applied[o] + 1)..Len(puts[o]) : puts[o][i].key = k /\ puts[o][i].field = Gone
      BY <2>4, <3>2, EndsPending
    <3> QED BY <2>3, <2>5, <3>3
  <2>7. CASE [device |-> o, id |-> k] \notin defeats
    <3>1. ~ Exempt(k) BY <2>7 DEF Exempt
    <3>2. WholeAt(o, k, f, FieldValue(f, s.place)) BY <2>1, <2>2, <3>1 DEF Kept, Whole
    <3>3. FieldValue(f, s.place) # Missing BY <2>3, EnemiesAssumption DEF FieldValue
    <3>4. /\ ~ Clear(puts[o], applied[o], k, Of(f))
          /\ Ends(puts[o], k, Of(f), f, FieldValue(f, s.place))
      BY <3>2, <3>3 DEF WholeAt
    <3>5. PICK i \in (applied[o] + 1)..Len(puts[o]) : puts[o][i].key = k /\ puts[o][i].field = f
      BY <2>4, <3>4, EndsPending
    <3> QED BY <2>3, <2>5, <3>5
  <2> QED BY <2>6, <2>7
<1> QED BY <1>1, KeptInvariant, PTL

=============================================================================
