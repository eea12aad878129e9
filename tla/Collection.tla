----------------------------- MODULE Collection -----------------------------
(***************************************************************************)
(* One collection of the Firebase Realtime Database ("users", "enemies")   *)
(* as the game's devices see it through the vendored FirebaseDatabase SDK: *)
(* the server's data, each device's queue of unacknowledged writes, and    *)
(* each device's single-event reads.                                       *)
(*                                                                         *)
(* A read (observeSingleEvent) that finds no complete view waits for the   *)
(* server's data.  When the data arrives every waiting read gets an event  *)
(* on the main queue; until the last of those events has been handled the  *)
(* view stays complete, and a new read is answered from it at once.  What  *)
(* a device reads is the server data it has, overlaid with its own         *)
(* unacknowledged writes.                                                  *)
(*                                                                         *)
(* The round trips "listen, data" and "server event, client receipt" are   *)
(* one step each: between the two halves the device handles no callback    *)
(* of this collection, so nothing it does depends on where they fall.      *)
(***************************************************************************)
EXTENDS SequencesExt

CONSTANTS Devices,    \* the installed copies of the app
          Fields,     \* the children a record can have
          Missing     \* the value of a child that is absent

Leaf == "leaf"        \* marks setValue(id) on the record itself
Gone == "gone"        \* marks removeValue() on the record itself

ASSUME CollectionAssumption == {Leaf, Gone} \cap Fields = {}

VARIABLES db,         \* the server: record key -> [Fields -> value or Missing]
          puts,       \* unacknowledged writes of a device, oldest first
          applied,    \* how many of them the server has applied
          waiting,    \* reads of a device waiting for the view's data
          events,     \* value events queued for the main thread
          cache,      \* server data held by the view while it is complete
          drops       \* connections lost so far (bounded by MaxDrops)

CONSTANT MaxDrops     \* bound: how many connections are lost in a behaviour

collectionVars == <<db, puts, applied, waiting, events, cache, drops>>

NoRecords == << >>
Blank == [f \in Fields |-> Missing]
RecordAt(data, k) == IF k \in DOMAIN data THEN data[k] ELSE Blank

(* What a write does to the data: removeValue takes the record away,       *)
(* setValue on the record replaces it and all its children, setValue on a  *)
(* child replaces that child and creates the record if need be.            *)
Apply(data, w) ==
  IF w.field = Gone THEN [k \in DOMAIN data \ {w.key} |-> data[k]]
  ELSE [k \in DOMAIN data \cup {w.key} |->
          IF k # w.key THEN data[k]
          ELSE IF w.field = Leaf THEN Blank
          ELSE [RecordAt(data, k) EXCEPT ![w.field] = w.value]]

(* The positions of the writes of ws that decide child f of record k.      *)
Deciding(ws, k, f) ==
  {i \in DOMAIN ws : ws[i].key = k /\ ws[i].field \in {Leaf, Gone, f}}

OldestShown(data, ws, k, f) ==     \* mutated: the oldest write decides
  IF Deciding(ws, k, f) = {} THEN RecordAt(data, k)[f]
  ELSE LET first == ws[Min(Deciding(ws, k, f))]
       IN  IF first.field \in {Leaf, Gone} THEN Missing ELSE first.value

Shown(data, ws, k, f) ==
  IF Deciding(ws, k, f) = {} THEN RecordAt(data, k)[f]
  ELSE LET last == ws[Max(Deciding(ws, k, f))]
       IN  IF last.field \in {Leaf, Gone} THEN Missing ELSE last.value

KeysOf(ws) == {ws[i].key : i \in DOMAIN ws}

(* The last write of ws that concerns record k removes it.                 *)
RemovedBy(ws, k) ==
  \E i \in DOMAIN ws : /\ ws[i].key = k /\ ws[i].field = Gone
                       /\ \A j \in DOMAIN ws : j > i => ws[j].key # k

(* The event cache: server data with the pending writes on top of it.      *)
Overlay(data, ws) ==
  [k \in {key \in DOMAIN data \cup KeysOf(ws) : ~ RemovedBy(ws, key)} |->
     [f \in Fields |-> Shown(data, ws, k, f)]]

-----------------------------------------------------------------------------
ClientsInit ==
  /\ puts = [d \in Devices |-> << >>]
  /\ applied = [d \in Devices |-> 0]
  /\ waiting = [d \in Devices |-> << >>]
  /\ events = [d \in Devices |-> << >>]
  /\ cache = [d \in Devices |-> NoRecords]
  /\ drops = 0

CollectionInit == db = NoRecords /\ ClientsInit

(* observeSingleEvent by device d, whose queued events are then evs: with  *)
(* a complete view the event is raised at once, else the read waits.       *)
Observe(d, evs, cb) ==
  IF evs # << >>
  THEN /\ events' = [events EXCEPT ![d] =
                       Append(evs, [cb |-> cb, snap |-> Overlay(cache[d], puts[d])])]
       /\ UNCHANGED <<waiting, cache>>
  ELSE /\ events' = [events EXCEPT ![d] = evs]
       /\ waiting' = [waiting EXCEPT ![d] = Append(@, cb)]
       /\ cache' = [cache EXCEPT ![d] = NoRecords]

(* The first event of d is handled: its observer is removed, and with the  *)
(* last observer the view and its cache go.                                *)
Consume(d) ==
  /\ events' = [events EXCEPT ![d] = Tail(@)]
  /\ cache' = [cache EXCEPT ![d] = IF Len(events[d]) = 1 THEN NoRecords ELSE @]

(* The app's process ends: nothing is persisted.                           *)
CloseClient(d) ==
  /\ puts' = [puts EXCEPT ![d] = << >>]
  /\ applied' = [applied EXCEPT ![d] = 0]
  /\ waiting' = [waiting EXCEPT ![d] = << >>]
  /\ events' = [events EXCEPT ![d] = << >>]
  /\ cache' = [cache EXCEPT ![d] = NoRecords]

-----------------------------------------------------------------------------
DataArrivesAfterAcks(d) ==         \* mutated: reads wait for the writes
  /\ waiting[d] # << >> /\ puts[d] = << >>
  /\ events' = [events EXCEPT ![d] =
                  [i \in DOMAIN waiting[d] |-> [cb |-> waiting[d][i], snap |-> db]]]
  /\ waiting' = [waiting EXCEPT ![d] = << >>]
  /\ cache' = [cache EXCEPT ![d] = db]
  /\ UNCHANGED <<db, puts, applied, drops>>

(* The server answers the listen of d: the view becomes complete.          *)
DataArrives(d) ==
  /\ waiting[d] # << >>
  /\ events' = [events EXCEPT ![d] =
                  [i \in DOMAIN waiting[d] |->
                     [cb |-> waiting[d][i], snap |-> Overlay(db, puts[d])]]]
  /\ waiting' = [waiting EXCEPT ![d] = << >>]
  /\ cache' = [cache EXCEPT ![d] = db]
  /\ UNCHANGED <<db, puts, applied, drops>>

(* The server pushes what changed since to a view that is still listening. *)
Push(d) ==
  /\ events[d] # << >>
  /\ cache[d] # db
  /\ cache' = [cache EXCEPT ![d] = db]
  /\ UNCHANGED <<db, puts, applied, waiting, events, drops>>

(* The server applies the next write d has sent on this connection.        *)
ServerApply(d) ==
  /\ applied[d] < Len(puts[d])
  /\ db' = Apply(db, puts[d][applied[d] + 1])
  /\ applied' = [applied EXCEPT ![d] = @ + 1]
  /\ UNCHANGED <<puts, waiting, events, cache, drops>>

AckPutAlone(d) ==                  \* mutated: the view is not brought up to date
  /\ applied[d] > 0
  /\ waiting[d] = << >>
  /\ puts' = [puts EXCEPT ![d] = Tail(@)]
  /\ applied' = [applied EXCEPT ![d] = @ - 1]
  /\ UNCHANGED <<db, waiting, events, cache, drops>>

(* The acknowledgement of the oldest write reaches d: the write leaves the *)
(* overlay.  Pushes sent before it arrive before it, so a complete view    *)
(* has the write; while a listen is unanswered acknowledgements are held.  *)
AckPut(d) ==
  /\ applied[d] > 0
  /\ waiting[d] = << >>
  /\ puts' = [puts EXCEPT ![d] = Tail(@)]
  /\ applied' = [applied EXCEPT ![d] = @ - 1]
  /\ cache' = [cache EXCEPT ![d] = IF events[d] # << >> THEN db ELSE @]
  /\ UNCHANGED <<db, waiting, events, drops>>

DisconnectForgetting(d) ==         \* mutated: nothing is sent again
  /\ drops < MaxDrops
  /\ applied[d] > 0
  /\ puts' = [puts EXCEPT ![d] = << >>]
  /\ applied' = [applied EXCEPT ![d] = 0]
  /\ drops' = drops + 1
  /\ UNCHANGED <<db, waiting, events, cache>>

DisconnectReversed(d) ==           \* mutated: sent again newest first
  /\ drops < MaxDrops
  /\ applied[d] > 0
  /\ puts' = [puts EXCEPT ![d] = Reverse(@)]
  /\ applied' = [applied EXCEPT ![d] = 0]
  /\ drops' = drops + 1
  /\ UNCHANGED <<db, waiting, events, cache>>

(* The connection is lost with acknowledgements outstanding; on the next   *)
(* one every unacknowledged write is sent again, in the order of its index.*)
Disconnect(d) ==
  /\ drops < MaxDrops
  /\ applied[d] > 0
  /\ applied' = [applied EXCEPT ![d] = 0]
  /\ drops' = drops + 1
  /\ UNCHANGED <<db, puts, waiting, events, cache>>

(* No read of d is in progress; nothing at all is in progress.             *)
Idle(d) == waiting[d] = << >> /\ events[d] = << >>
Quiescent == \A d \in Devices : Idle(d) /\ puts[d] = << >>

(* What a read that d starts now would be given.                           *)
GivenNow(d) == Overlay(IF events[d] # << >> THEN cache[d] ELSE db, puts[d])

CollectionNext(d) ==
  DataArrives(d) \/ Push(d) \/ ServerApply(d) \/ AckPut(d) \/ Disconnect(d)

(* The SDK reconnects for ever: requests are answered, writes go out and   *)
(* are acknowledged.                                                       *)
CollectionFairness(d) ==
  /\ WF_collectionVars(DataArrives(d))
  /\ WF_collectionVars(ServerApply(d))
  /\ WF_collectionVars(AckPut(d))
=============================================================================
