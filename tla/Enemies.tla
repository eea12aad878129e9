------------------------------ MODULE Enemies ------------------------------
(***************************************************************************)
(* The map (MapVC.swift) of several devices over the "enemies" collection: *)
(* the spawn timer, the annotations, and the removal of defeated enemies   *)
(* by the battle scene (GameScene.swift).                                  *)
(*                                                                         *)
(* Every 10 seconds a device counts the enemies near its user and may      *)
(* spawn one: the annotation is added at once, but the record is written   *)
(* only by the callback of another read.  A defeated enemy is removed with *)
(* one write.  The reads, the writes, the touches and the changes of       *)
(* screen are separate turns of the main loop.                             *)
(*                                                                         *)
(* The map's traffic with the other collection, "users" (writing the       *)
(* user's coordinates, reading the other players), is left out: it shares  *)
(* no data with this one.                                                  *)
(***************************************************************************)
EXTENDS Collection

CONSTANTS Places, Distance,   \* where users and enemies are; Distance[p, q] in metres
          UserPlaces,         \* bound: where users go
          LocationFields,     \* the children that say where an enemy is
          Stat,               \* the value of the other children
          FieldOrder,         \* the children in the order they are written
          Limit,              \* enemies near a user: 20 in the code
          MaxSpawns,          \* bound: enemies spawned altogether
          MaxTicks,           \* bound: firings of each device's timer
          MaxVisits,          \* bound: each device's Center taps, battles and tab changes
          MaxKills,           \* bound: times a user or the system ends an app
          Buttons             \* the devices whose users use the button that adds an enemy

ASSUME EnemiesAssumption ==
  /\ Distance \in [Places \X Places -> Nat] /\ UserPlaces \subseteq Places
  /\ LocationFields \subseteq Fields /\ LocationFields # {}
  /\ FieldOrder \in Seq(Fields)
  /\ \A f \in Fields : \E i \in DOMAIN FieldOrder : FieldOrder[i] = f
  /\ Missing \notin Places \cup {Stat} \cup (Devices \X Nat)
  /\ Limit > 0
  /\ {Limit, MaxSpawns, MaxKills, MaxDrops} \subseteq Nat
  /\ MaxTicks \in [Devices -> Nat] /\ MaxVisits \in [Devices -> Nat]
  /\ Buttons \subseteq Devices

VARIABLES screen,     \* what is on the screen: login, the map, another tab or a battle
          place,      \* userLocation
          shown,      \* the enemies with an annotation on the map
          callout,    \* the enemy in the callout, and in the battle started from it
          ticks, visits, kills,
          spawned,    \* history: every enemy created, with its place
          stored,     \* history: enemies whose writes addEnemyToFirebase has made
          defeats,    \* history: who has removed which enemy
          ghosts,     \* history: enemies removed while their creation was in progress
          torn        \* history: enemies some of whose writes died with a process

mapVars == <<screen, place, shown, callout>>
boundVars == <<ticks, visits, kills>>
history == <<spawned, stored, defeats, ghosts, torn>>
appVars == <<mapVars, boundVars, history>>
vars == <<collectionVars, appVars>>

Ids == Devices \X (1..MaxSpawns)
CountCb == [op |-> "count"]
FindCb == [op |-> "find"]
AddCb(id, p) == [op |-> "add", id |-> id, place |-> p]
Callbacks == {CountCb, FindCb} \cup {AddCb(id, p) : id \in Ids, p \in Places}

(* The radii of getNumberOfEnemiesAroundUser and findEnemiesAroundUser, and *)
(* half the diagonal of the square of getRandomCoordinateAroundUser.       *)
NearRadius == 100
ViewRadius == 150
SpawnRadius == 141

-----------------------------------------------------------------------------
(* The writes of addEnemyToFirebase and of removeEnemyFromFirebase.        *)
FieldValue(f, p) == IF f \in LocationFields THEN p ELSE Stat
NewRecord(p) == [f \in Fields |-> FieldValue(f, p)]

RecordLastWrites(id, p) ==         \* mutated: the record after its children
  [i \in 1..(Len(FieldOrder) + 1) |->
     IF i > Len(FieldOrder) THEN [key |-> id, field |-> Leaf, value |-> Missing]
     ELSE [key |-> id, field |-> FieldOrder[i], value |-> FieldValue(FieldOrder[i], p)]]

NewEnemyWrites(id, p) ==
  [i \in 1..(Len(FieldOrder) + 1) |->
     IF i = 1 THEN [key |-> id, field |-> Leaf, value |-> Missing]
     ELSE [key |-> id, field |-> FieldOrder[i - 1], value |-> FieldValue(FieldOrder[i - 1], p)]]

RemovalOfValue(id) ==              \* mutated: setValue instead of removeValue
  [key |-> id, field |-> Leaf, value |-> Missing]
Removal(id) == [key |-> id, field |-> Gone, value |-> Missing]

Lacks(r, fs) == \E f \in fs : r[f] = Missing
Within(data, p, radius) ==
  {k \in DOMAIN data : \A f \in LocationFields :
     data[k][f] # Missing /\ Distance[p, data[k][f]] <= radius}

(* What a callback that walks the records, casting the children fs of      *)
(* each and taking the distance to the user, finds.                        *)
WalkOutcome(d, snap, fs) ==
  IF \E k \in DOMAIN snap : Lacks(snap[k], fs) THEN "record"
  ELSE IF snap # NoRecords /\ place[d] = Missing THEN "location" ELSE "walked"

Outcome(d, e) ==
  CASE e.cb.op = "count" -> WalkOutcome(d, e.snap, LocationFields)
    [] e.cb.op = "find" -> WalkOutcome(d, e.snap, Fields)
    [] OTHER -> "add"

HeadIs(d, op, outcome) ==
  /\ events[d] # << >>
  /\ Head(events[d]).cb.op = op
  /\ Outcome(d, Head(events[d])) = outcome

-----------------------------------------------------------------------------
Init ==
  /\ CollectionInit
  /\ screen = [d \in Devices |-> "login"]
  /\ place = [d \in Devices |-> Missing]
  /\ shown = [d \in Devices |-> {}]
  /\ callout = [d \in Devices |-> Missing]
  /\ ticks = [d \in Devices |-> 0]
  /\ visits = [d \in Devices |-> 0]
  /\ kills = 0
  /\ spawned = {} /\ stored = {} /\ defeats = {} /\ ghosts = {} /\ torn = {}

(* Logging in shows the map: MapVC.viewDidLoad starts the timer,           *)
(* viewWillAppear finds no location yet.                                   *)
Enter(d) ==
  /\ screen[d] = "login"
  /\ screen' = [screen EXCEPT ![d] = "map"]
  /\ UNCHANGED <<collectionVars, place, shown, callout, boundVars, history>>

(* setUpAnnotations, with evs the events of d: the map is cleared and the  *)
(* enemies are read again.                                                 *)
SetUpAnnotations(d, evs) ==
  /\ shown' = [shown EXCEPT ![d] = {}]
  /\ Observe(d, evs, FindCb)

(* didUpdateLocations while the map is on the screen; the first location   *)
(* sets up the annotations.                                                *)
UpdateLocation(d) ==
  /\ screen[d] = "map"
  /\ \E p \in UserPlaces \ {place[d]} : place' = [place EXCEPT ![d] = p]
  /\ IF place[d] = Missing THEN SetUpAnnotations(d, events[d])
     ELSE UNCHANGED <<waiting, events, cache, shown>>
  /\ UNCHANGED <<db, puts, applied, drops, screen, callout, boundVars, history>>

(* The Center button.                                                      *)
Center(d) ==
  /\ screen[d] = "map" /\ place[d] # Missing
  /\ visits[d] < MaxVisits[d]
  /\ visits' = [visits EXCEPT ![d] = @ + 1]
  /\ SetUpAnnotations(d, events[d])
  /\ UNCHANGED <<db, puts, applied, drops, screen, place, callout, ticks, kills, history>>

(* Touching an enemy's annotation opens the callout, touching the map      *)
(* closes it.                                                              *)
Select(d) ==
  /\ screen[d] = "map"
  /\ \E id \in shown[d] \ {callout[d]} : callout' = [callout EXCEPT ![d] = id]
  /\ UNCHANGED <<collectionVars, screen, place, shown, boundVars, history>>

Deselect(d) ==
  /\ screen[d] = "map" /\ callout[d] # Missing
  /\ callout' = [callout EXCEPT ![d] = Missing]
  /\ UNCHANGED <<collectionVars, screen, place, shown, boundVars, history>>

(* The Battle button in the callout; another tab.                          *)
LeaveMap(d) ==
  /\ screen[d] = "map"
  /\ visits[d] < MaxVisits[d]
  /\ visits' = [visits EXCEPT ![d] = @ + 1]
  /\ \E s \in {"tab"} \cup (IF callout[d] # Missing THEN {"battle"} ELSE {}) :
       screen' = [screen EXCEPT ![d] = s]
  /\ UNCHANGED <<collectionVars, place, shown, callout, ticks, kills, history>>

ReturnUnlocated(d) ==              \* mutated: sets up without a location
  /\ screen[d] \in {"tab", "battle"}
  /\ screen' = [screen EXCEPT ![d] = "map"]
  /\ callout' = [callout EXCEPT ![d] = Missing]
  /\ SetUpAnnotations(d, events[d])
  /\ UNCHANGED <<db, puts, applied, drops, place, boundVars, history>>

(* Escape from a battle, or the map's tab: viewWillAppear.                 *)
ReturnToMap(d) ==
  /\ screen[d] \in {"tab", "battle"}
  /\ screen' = [screen EXCEPT ![d] = "map"]
  /\ callout' = [callout EXCEPT ![d] = Missing]
  /\ IF place[d] # Missing THEN SetUpAnnotations(d, events[d])
     ELSE UNCHANGED <<waiting, events, cache, shown>>
  /\ UNCHANGED <<db, puts, applied, drops, place, boundVars, history>>

(* Enemy id's record is still to be written, or its writes may still be    *)
(* sent (again) by another device than d.                                  *)
AddOutstanding(d, id) ==
  \/ id \notin stored
  \/ \E e \in Devices \ {d} : \E i \in DOMAIN puts[e] :
       puts[e][i].key = id /\ puts[e][i].field # Gone

(* The last attack of a battle: removeEnemyFromFirebase.  The scene stays  *)
(* on the screen until the user escapes.                                   *)
Defeat(d) ==
  /\ screen[d] = "battle" /\ callout[d] # Missing
  /\ puts' = [puts EXCEPT ![d] = Append(@, Removal(callout[d]))]
  /\ defeats' = defeats \cup {[device |-> d, id |-> callout[d]]}
  /\ ghosts' = IF AddOutstanding(d, callout[d]) THEN ghosts \cup {callout[d]} ELSE ghosts
  /\ callout' = [callout EXCEPT ![d] = Missing]
  /\ UNCHANGED <<db, applied, waiting, events, cache, drops, screen, place, shown,
                 boundVars, spawned, stored, torn>>

SpawnsOf(d) == {s \in spawned : s.id[1] = d}

(* spawnEnemy, with evs the events of d: a place in the square around the  *)
(* user, an annotation, and addEnemyToFirebase's read.                     *)
SpawnEnemy(d, evs) ==
  /\ Cardinality(spawned) < MaxSpawns
  /\ \E p \in {q \in Places : Distance[place[d], q] <= SpawnRadius} :
       LET id == <<d, Cardinality(SpawnsOf(d)) + 1>>
       IN  /\ Observe(d, evs, AddCb(id, p))
           /\ shown' = [shown EXCEPT ![d] = @ \cup {id}]
           /\ spawned' = spawned \cup {[id |-> id, place |-> p]}
  /\ UNCHANGED <<db, puts, applied, drops, screen, place, callout, visits, kills,
                 stored, defeats, ghosts, torn>>

(* addEnemyAction, the button that adds an enemy.                          *)
AddEnemy(d) ==
  /\ d \in Buttons
  /\ screen[d] = "map" /\ place[d] # Missing
  /\ SpawnEnemy(d, events[d])
  /\ UNCHANGED ticks

(* The timer fires, whatever is on the screen and however many of its reads *)
(* are still under way: it counts the enemies near.                        *)
Tick(d) ==
  /\ screen[d] # "login"
  /\ ticks[d] < MaxTicks[d]
  /\ ticks' = [ticks EXCEPT ![d] = @ + 1]
  /\ Observe(d, events[d], CountCb)
  /\ UNCHANGED <<db, puts, applied, drops, mapVars, visits, kills, history>>

(* The count's callback: with fewer than Limit enemies near there is a     *)
(* chance of Limit - count in 100 that one is spawned.                     *)
CountedSpawn(d) ==
  /\ HeadIs(d, "count", "walked")
  /\ place[d] # Missing
  /\ Cardinality(Within(Head(events[d]).snap, place[d], NearRadius)) < Limit
  /\ SpawnEnemy(d, Tail(events[d]))
  /\ UNCHANGED ticks

CountedOnly(d) ==
  /\ HeadIs(d, "count", "walked")
  /\ Consume(d)
  /\ UNCHANGED <<db, puts, applied, waiting, drops, appVars>>

(* findEnemiesAroundUser's callback: annotations for the enemies in view.  *)
Found(d) ==
  /\ HeadIs(d, "find", "walked")
  /\ shown' = [shown EXCEPT ![d] = @ \cup Within(Head(events[d]).snap, place[d], ViewRadius)]
  /\ Consume(d)
  /\ UNCHANGED <<db, puts, applied, waiting, drops, screen, place, callout, boundVars, history>>

(* addEnemyToFirebase's callback.                                          *)
StoreEnemy(d) ==
  /\ HeadIs(d, "add", "add")
  /\ LET cb == Head(events[d]).cb
     IN  /\ puts' = [puts EXCEPT ![d] = @ \o NewEnemyWrites(cb.id, cb.place)]
         /\ stored' = stored \cup {cb.id}
  /\ Consume(d)
  /\ UNCHANGED <<db, applied, waiting, drops, mapVars, boundVars,
                 spawned, defeats, ghosts, torn>>

(* The process ends; its reads and its writes are lost.                    *)
Restart(d) ==
  /\ CloseClient(d)
  /\ torn' = torn \cup KeysOf(puts[d]) \cup {s.id : s \in {t \in SpawnsOf(d) : t.id \notin stored}}
  /\ screen' = [screen EXCEPT ![d] = "login"]
  /\ place' = [place EXCEPT ![d] = Missing]
  /\ shown' = [shown EXCEPT ![d] = {}]
  /\ callout' = [callout EXCEPT ![d] = Missing]
  /\ UNCHANGED <<db, drops, ticks, visits, spawned, stored, defeats, ghosts>>

Kill(d) ==
  /\ screen[d] # "login"
  /\ kills < MaxKills
  /\ kills' = kills + 1
  /\ Restart(d)

Trap(d) == Restart(d) /\ UNCHANGED kills

(* userLocation! before the first location: Center ...                     *)
CenterTrap(d) == screen[d] = "map" /\ place[d] = Missing /\ Trap(d)

(* ... the count with an enemy to compare with, or one to spawn, and the   *)
(* button that adds one ...                                                *)
LocationTrap(d) ==
  /\ \/ HeadIs(d, "count", "location")
     \/ HeadIs(d, "count", "walked") /\ place[d] = Missing
     \/ d \in Buttons /\ screen[d] = "map" /\ place[d] = Missing
  /\ Trap(d)

(* ... and the forced casts of the children of every record.               *)
RecordTrap(d) ==
  /\ HeadIs(d, "count", "record") \/ HeadIs(d, "find", "record")
  /\ Trap(d)

-----------------------------------------------------------------------------
SdkStep(d) == CollectionNext(d) /\ UNCHANGED appVars

Callback(d) == \/ CountedSpawn(d) \/ CountedOnly(d) \/ Found(d) \/ StoreEnemy(d)
               \/ LocationTrap(d) /\ events[d] # << >>
               \/ RecordTrap(d)

UserStep(d) == \/ Enter(d) \/ UpdateLocation(d) \/ Center(d) \/ Select(d) \/ Deselect(d)
               \/ LeaveMap(d) \/ ReturnToMap(d) \/ Defeat(d) \/ AddEnemy(d)
               \/ CenterTrap(d) \/ LocationTrap(d) \/ Kill(d)

Next == \E d \in Devices : SdkStep(d) \/ Callback(d) \/ UserStep(d) \/ Tick(d)

(* Main-queue blocks run and the SDK keeps trying; users, the location     *)
(* service and the timer owe nothing.                                      *)
Fairness == \A d \in Devices : CollectionFairness(d) /\ WF_vars(Callback(d))

Spec == Init /\ [][Next]_vars
FairSpec == Spec /\ Fairness
-----------------------------------------------------------------------------
(* The properties. *)

Record == [Fields -> Places \cup {Stat, Missing}]
Write == [key : Ids, field : Fields \cup {Leaf, Gone}, value : Places \cup {Stat, Missing}]
IsData(data) == /\ DOMAIN data \subseteq Ids
                /\ \A k \in DOMAIN data : data[k] \in Record

(* Types of every variable; in particular a device that reads the enemies  *)
(* for its map has a location, which centerMap and findEnemiesAroundUser   *)
(* rely on.                                                                *)
TypeOK ==
  /\ IsData(db)
  /\ \A d \in Devices :
       /\ puts[d] \in Seq(Write)
       /\ applied[d] \in 0..Len(puts[d])
       /\ IsData(cache[d])
       /\ waiting[d] \in Seq(Callbacks)
       /\ \A i \in DOMAIN events[d] : events[d][i].cb \in Callbacks /\ IsData(events[d][i].snap)
       /\ place[d] = Missing => /\ \A i \in DOMAIN waiting[d] : waiting[d][i] = CountCb
                               /\ \A i \in DOMAIN events[d] : events[d][i].cb = CountCb
       /\ screen[d] \in {"login", "map", "tab", "battle"}
       /\ place[d] \in UserPlaces \cup {Missing}
       /\ shown[d] \subseteq Ids
       /\ callout[d] \in Ids \cup {Missing}
       /\ ticks[d] \in 0..MaxTicks[d] /\ visits[d] \in 0..MaxVisits[d]
  /\ kills \in 0..MaxKills /\ drops \in 0..MaxDrops
  /\ spawned \subseteq [id : Ids, place : Places]
  /\ stored \cup ghosts \cup torn \subseteq Ids
  /\ defeats \subseteq [device : Devices, id : Ids]

DefeatedIds == {x.id : x \in defeats}

(* An enemy's record is incomplete only while a device still has the       *)
(* missing child's write, or the record's removal, to send; or for ever    *)
(* because a process died with some of its writes, or because it was       *)
(* removed while another device might send them again (addEnemyToFirebase's*)
(* six separate setValues).                                                *)
IncompleteHeals ==
  \A k \in DOMAIN db \ (torn \cup ghosts) : \A f \in Fields :
    db[k][f] = Missing =>
      \E d \in Devices : \E i \in DOMAIN puts[d] :
         i > applied[d] /\ puts[d][i].key = k /\ puts[d][i].field \in {f, Gone}

(* A device never reads an enemy again that it has defeated, whatever is   *)
(* lost and sent again and whatever view answers, unless its removal       *)
(* overtook its creation or died with the process.                         *)
DefeatedStayAway ==
  \A x \in defeats : x.id \in torn \cup ghosts \/ x.id \notin DOMAIN GivenNow(x.device)

(* An enemy nobody has defeated is kept: its device reads it as it was     *)
(* created, and so does the server once it has all the writes.             *)
UndefeatedSurvive ==
  \A s \in spawned :
    \/ s.id \in torn \cup DefeatedIds \/ s.id \notin stored
    \/ LET mine == Overlay(db, puts[s.id[1]])
       IN  s.id \in DOMAIN mine /\ mine[s.id] = NewRecord(s.place)

(* "Can only have 20 enemies near a user." (MapVC.swift:85): what a device *)
(* reads has no more than Limit enemies near its user.  The code breaks it: *)
(* every device compares a count of its own with the limit, some time      *)
(* before the enemy it then spawns is stored.                              *)
NearLimit ==
  \A d \in Devices : place[d] # Missing =>
    Cardinality(Within(GivenNow(d), place[d], NearRadius)) <= Limit

(* Every enemy spawned is stored, or its process ends first, or somebody   *)
(* defeats it.                                                             *)
SpawnedIsStored ==
  \A id \in Ids : \A p \in Places :
    [id |-> id, place |-> p] \in spawned
      ~> \/ id \in torn \cup DefeatedIds
         \/ id \in DOMAIN db /\ db[id] = NewRecord(p)

(* Every defeated enemy is in the end gone from the server for good,       *)
(* unless its removal overtook its creation or died with the process.      *)
DefeatedIsGone ==
  \A id \in Ids : id \in DefeatedIds
    ~> (id \in torn \cup ghosts \/ [](id \in torn \cup ghosts \/ id \notin DOMAIN db))
=============================================================================
