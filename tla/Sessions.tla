------------------------------ MODULE Sessions ------------------------------
(***************************************************************************)
(* What a device does between logging in and logging out, over the "users" *)
(* collection: the TabBarVCs that logins push and log outs pop, each with  *)
(* its own User object (TabBarVC.swift, SettingsTableVC.swift), the        *)
(* experience that User.addExperience writes, the change of password       *)
(* (NewPasswordVC.swift), and the map's traffic with the collection: the   *)
(* user's coordinates and the other players' annotations (MapVC.swift).    *)
(*                                                                         *)
(* The accounts exist from the start: signing up is module Accounts, the   *)
(* map's enemies are module Enemies, a battle is module Battle.  A read of *)
(* one account's password is a read of the collection that looks at that   *)
(* child only.                                                             *)
(***************************************************************************)
EXTENDS Collection

CONSTANTS Ids,         \* the accounts
          Passwords, FirstPassword,
          Places,      \* where users are; different places are more than 20 m apart
          Unlocated,   \* the accounts that may never have had a location
          Played,      \* the accounts whose password a user of a device knows
          MaxTaps,     \* bound: logins, rewards, changes, locations and visits of the map
          MaxKills     \* bound: processes ended by the user or the system, and, before
                       \* one, connections lost

ASSUME SessionsAssumption ==
  /\ Fields = {"password", "totalExp", "latitude", "longitude"}
  /\ FirstPassword \in Passwords /\ Places # {}
  /\ Unlocated \subseteq Ids /\ Played \subseteq Ids
  /\ Missing \notin Passwords \cup Places
  /\ {MaxTaps, MaxKills, MaxDrops} \subseteq Nat

VARIABLES homes,       \* the TabBarVCs above the LoginVC, the visible one last
          taps, kills,
          earned,      \* history: account -> rewards earned for it
          usedBy,      \* history: account -> devices that have logged in to it
          chosen,      \* history: device -> account -> the password it last set, if any
          contested,   \* history: accounts rewarded while a second User of them existed
          lost         \* history: accounts some of whose writes died with a process

boundVars == <<taps, kills>>
history == <<earned, usedBy, chosen, contested, lost>>
appVars == <<homes, boundVars, history>>
vars == <<collectionVars, appVars>>

(* A TabBarVC: the login that pushed it, its User's account and total, its *)
(* map's userLocation, how many annotations the map has of each of the     *)
(* other accounts, and the NewPasswordVC over it: which one, and closed,   *)
(* open, or open under one of its two alerts.                              *)
NoOthers == [u \in Ids |-> 0]
NewHome(cb, total) ==
  [login |-> cb.login, id |-> cb.id, total |-> total, place |-> Missing,
   others |-> NoOthers, opened |-> 0, form |-> "closed"]

Top(d) == Last(homes[d])
TopForm(d) == IF homes[d] = << >> THEN "none" ELSE Top(d).form
SetTop(d, home) == homes' = [homes EXCEPT ![d][Len(homes[d])] = home]

LoginCb(n, u, p) == [op |-> "login", login |-> n, id |-> u, password |-> p]
ChangeCb(n, u, p) == [op |-> "change", form |-> n, id |-> u, password |-> p]
LocateCb(u, p) == [op |-> "locate", id |-> u, place |-> p]
PlayersCb(n, u) == [op |-> "players", login |-> n, id |-> u]
Write(u, f, v) == [key |-> u, field |-> f, value |-> v]

Account(place) == [password |-> FirstPassword, totalExp |-> 0,
                   latitude |-> place, longitude |-> place]

Init ==
  /\ \E unlocated \in SUBSET Unlocated :
       db = [u \in Ids |-> Account(IF u \in unlocated THEN Missing ELSE CHOOSE p \in Places : TRUE)]
  /\ ClientsInit
  /\ homes = [d \in Devices |-> << >>]
  /\ taps = 0 /\ kills = 0
  /\ earned = [u \in Ids |-> 0]
  /\ usedBy = [u \in Ids |-> {}]
  /\ chosen = [d \in Devices |-> [u \in Ids |-> Missing]]
  /\ contested = {} /\ lost = {}

(* The user does, or meets, one thing more.                                *)
Tap == taps < MaxTaps /\ taps' = taps + 1

-----------------------------------------------------------------------------
(* The Log in button, any number of times before the first answer.         *)
TapLogin(d) ==
  /\ homes[d] = << >>
  /\ Tap
  /\ \E u \in Played, p \in Passwords : Observe(d, events[d], LoginCb(taps + 1, u, p))
  /\ UNCHANGED <<db, puts, applied, drops, homes, kills, history>>

HeadIs(d, op) == events[d] # << >> /\ Head(events[d]).cb.op = op
HeadCb(d) == Head(events[d]).cb
HeadRecord(d) == Head(events[d]).snap[HeadCb(d).id]

LoggedInBlank(d) ==                \* mutated: the total is not taken from the record
  /\ HeadIs(d, "login")
  /\ HeadRecord(d).password = HeadCb(d).password
  /\ homes' = [homes EXCEPT ![d] = Append(@, NewHome(HeadCb(d), 0))]
  /\ usedBy' = [usedBy EXCEPT ![HeadCb(d).id] = @ \cup {d}]
  /\ Consume(d)
  /\ UNCHANGED <<db, puts, applied, waiting, drops, boundVars,
                 earned, chosen, contested, lost>>

(* loginIfValid's callback pushes a TabBarVC, whatever is on the screen by *)
(* then, with a User made of the record.                                   *)
LoggedIn(d) ==
  /\ HeadIs(d, "login")
  /\ HeadRecord(d).password = HeadCb(d).password
  /\ homes' = [homes EXCEPT ![d] = Append(@, NewHome(HeadCb(d), HeadRecord(d).totalExp))]
  /\ usedBy' = [usedBy EXCEPT ![HeadCb(d).id] = @ \cup {d}]
  /\ Consume(d)
  /\ UNCHANGED <<db, puts, applied, waiting, drops, boundVars,
                 earned, chosen, contested, lost>>

LoginRefused(d) ==
  /\ HeadIs(d, "login")
  /\ HeadRecord(d).password # HeadCb(d).password
  /\ Consume(d)
  /\ UNCHANGED <<db, puts, applied, waiting, drops, appVars>>

(* Log out, in the settings: the visible TabBarVC goes.                    *)
LogOut(d) ==
  /\ TopForm(d) = "closed"
  /\ homes' = [homes EXCEPT ![d] = Front(@)]
  /\ UNCHANGED <<collectionVars, boundVars, history>>

-----------------------------------------------------------------------------
(* Another User object of account u that d's reward does not reach: in     *)
(* another TabBarVC of d, or in the making from data already read.         *)
SecondUser(d, u) ==
  \/ \E i \in DOMAIN homes[d] : i < Len(homes[d]) /\ homes[d][i].id = u
  \/ \E i \in DOMAIN events[d] : events[d][i].cb.op = "login" /\ events[d][i].cb.id = u

AddExperienceTwice(d) ==           \* mutated: two for one enemy
  /\ TopForm(d) = "closed"
  /\ Tap
  /\ SetTop(d, [Top(d) EXCEPT !.total = @ + 2])
  /\ puts' = [puts EXCEPT ![d] = Append(@, Write(Top(d).id, "totalExp", Top(d).total + 2))]
  /\ earned' = [earned EXCEPT ![Top(d).id] = @ + 1]
  /\ contested' = IF SecondUser(d, Top(d).id) THEN contested \cup {Top(d).id} ELSE contested
  /\ UNCHANGED <<db, applied, waiting, events, cache, drops, kills,
                 usedBy, chosen, lost>>

(* A defeated enemy: addExperience raises the total of the visible User    *)
(* object and writes that total.                                           *)
AddExperience(d) ==
  /\ TopForm(d) = "closed"
  /\ Tap
  /\ SetTop(d, [Top(d) EXCEPT !.total = @ + 1])
  /\ puts' = [puts EXCEPT ![d] = Append(@, Write(Top(d).id, "totalExp", Top(d).total + 1))]
  /\ earned' = [earned EXCEPT ![Top(d).id] = @ + 1]
  /\ contested' = IF SecondUser(d, Top(d).id) THEN contested \cup {Top(d).id} ELSE contested
  /\ UNCHANGED <<db, applied, waiting, events, cache, drops, kills,
                 usedBy, chosen, lost>>

-----------------------------------------------------------------------------
(* NewPasswordVC comes and goes; a change asked of an earlier one bears     *)
(* another number, since it counts as a tap.                               *)
OpenForm(d) ==
  /\ TopForm(d) = "closed"
  /\ SetTop(d, [Top(d) EXCEPT !.form = "open", !.opened = taps])
  /\ UNCHANGED <<collectionVars, boundVars, history>>

Back(d) ==
  /\ TopForm(d) = "open"
  /\ SetTop(d, [Top(d) EXCEPT !.form = "closed", !.opened = 0])
  /\ UNCHANGED <<collectionVars, boundVars, history>>

(* changePasswordAction: the old password is taken from its field now.     *)
TapChange(d) ==
  /\ TopForm(d) = "open"
  /\ Tap
  /\ \E p \in Passwords : Observe(d, events[d], ChangeCb(Top(d).opened, Top(d).id, p))
  /\ UNCHANGED <<db, puts, applied, drops, homes, kills, history>>

(* An alert appears over the form that asked, if that is still there and   *)
(* shows no other.                                                         *)
Alert(d, kind) ==
  homes' = [homes EXCEPT ![d] =
    [i \in DOMAIN @ |-> IF @[i].form = "open" /\ @[i].opened = HeadCb(d).form
                        THEN [@[i] EXCEPT !.form = kind] ELSE @[i]]]

ChangedToOld(d) ==                 \* mutated: the field of the old password is written
  /\ HeadIs(d, "change")
  /\ HeadRecord(d).password = HeadCb(d).password
  /\ \E p \in Passwords :
       /\ puts' = [puts EXCEPT ![d] = Append(@, Write(HeadCb(d).id, "password", HeadCb(d).password))]
       /\ chosen' = [chosen EXCEPT ![d][HeadCb(d).id] = p]
  /\ Alert(d, "changed")
  /\ Consume(d)
  /\ UNCHANGED <<db, applied, waiting, drops, boundVars,
                 earned, usedBy, contested, lost>>

(* The callback: the old password is the one read; the new one is what its *)
(* field holds now, which the user may have retyped since the tap.         *)
Changed(d) ==
  /\ HeadIs(d, "change")
  /\ HeadRecord(d).password = HeadCb(d).password
  /\ \E p \in Passwords :
       /\ puts' = [puts EXCEPT ![d] = Append(@, Write(HeadCb(d).id, "password", p))]
       /\ chosen' = [chosen EXCEPT ![d][HeadCb(d).id] = p]
  /\ Alert(d, "changed")
  /\ Consume(d)
  /\ UNCHANGED <<db, applied, waiting, drops, boundVars,
                 earned, usedBy, contested, lost>>

ChangeRefused(d) ==
  /\ HeadIs(d, "change")
  /\ HeadRecord(d).password # HeadCb(d).password
  /\ Alert(d, "refused")
  /\ Consume(d)
  /\ UNCHANGED <<db, puts, applied, waiting, drops, boundVars, history>>

(* OK: after a change the form is popped.                                  *)
Dismiss(d) ==
  /\ TopForm(d) \in {"changed", "refused"}
  /\ SetTop(d, IF Top(d).form = "changed" THEN [Top(d) EXCEPT !.form = "closed", !.opened = 0]
               ELSE [Top(d) EXCEPT !.form = "open"])
  /\ UNCHANGED <<collectionVars, boundVars, history>>

-----------------------------------------------------------------------------
(* Reads started together: one after the other in the view's queue.        *)
ObserveAll(d, cbs) ==
  IF events[d] # << >>
  THEN /\ events' = [events EXCEPT ![d] = @ \o
                       [i \in DOMAIN cbs |-> [cb |-> cbs[i], snap |-> Overlay(cache[d], puts[d])]]]
       /\ UNCHANGED <<waiting, cache>>
  ELSE /\ waiting' = [waiting EXCEPT ![d] = @ \o cbs]
       /\ cache' = [cache EXCEPT ![d] = NoRecords]
       /\ UNCHANGED events

(* setUpAnnotations in the visible map: its annotations go, and come again *)
(* with the answer.                                                        *)
SetUpAnnotations(d, home, cbs) ==
  /\ SetTop(d, [home EXCEPT !.others = NoOthers])
  /\ ObserveAll(d, <<PlayersCb(home.login, home.id)>> \o cbs)

(* didUpdateLocations while the map is visible: the first location sets up *)
(* the annotations; every one is followed by a read.                       *)
UpdateLocation(d) ==
  /\ TopForm(d) = "closed"
  /\ Tap
  /\ \E p \in Places :
       LET home == [Top(d) EXCEPT !.place = p] IN
       IF Top(d).place = Missing
       THEN SetUpAnnotations(d, home, <<LocateCb(home.id, p)>>)
       ELSE SetTop(d, home) /\ ObserveAll(d, <<LocateCb(home.id, p)>>)
  /\ UNCHANGED <<db, puts, applied, drops, kills, history>>

(* Center, or the map shown again (before the first location Center traps: *)
(* module Enemies).                                                        *)
ShowMap(d) ==
  /\ TopForm(d) = "closed" /\ Top(d).place # Missing
  /\ Tap
  /\ SetUpAnnotations(d, Top(d), << >>)
  /\ UNCHANGED <<db, puts, applied, drops, kills, history>>

LocationRecord(u, p) ==            \* mutated: setValue on the record itself
  <<[key |-> u, field |-> Leaf, value |-> Missing], Write(u, "latitude", p), Write(u, "longitude", p)>>
StaleLongitude(u, p) ==            \* mutated: the longitude of another place
  <<Write(u, "latitude", p), Write(u, "longitude", CHOOSE q \in Places : q # p)>>
LocationWrites(u, p) == <<Write(u, "latitude", p), Write(u, "longitude", p)>>

(* The callback of the read that follows a location: two writes.           *)
StoreLocation(d) ==
  /\ HeadIs(d, "locate")
  /\ puts' = [puts EXCEPT ![d] = @ \o LocationWrites(HeadCb(d).id, HeadCb(d).place)]
  /\ Consume(d)
  /\ UNCHANGED <<db, applied, waiting, drops, appVars>>

(* findPlayersAroundUser: the other accounts, each cast by force ...       *)
OtherRecords(d) == {u \in DOMAIN Head(events[d]).snap : u # HeadCb(d).id}
CastsHold(d) == \A u \in OtherRecords(d) : \A f \in Fields : Head(events[d]).snap[u][f] # Missing

Near(r, p) == r.latitude = p /\ r.longitude = p

(* ... and those within 20 m of where the user is now get an annotation on *)
(* the map that asked.                                                     *)
FoundPlayers(d) ==
  /\ HeadIs(d, "players") /\ CastsHold(d)
  /\ LET snap == Head(events[d]).snap IN
     homes' = [homes EXCEPT ![d] =
       [i \in DOMAIN @ |->
          IF @[i].login # HeadCb(d).login THEN @[i]
          ELSE [@[i] EXCEPT !.others = [u \in Ids |->
                  homes[d][i].others[u] + IF u \in OtherRecords(d) /\ Near(snap[u], homes[d][i].place) THEN 1 ELSE 0]]]]
  /\ Consume(d)
  /\ UNCHANGED <<db, puts, applied, waiting, drops, boundVars, history>>

(* The process ends; its reads and its writes are lost.                    *)
Restart(d) ==
  /\ CloseClient(d)
  /\ lost' = lost \cup KeysOf(puts[d])
  /\ homes' = [homes EXCEPT ![d] = << >>]
  /\ UNCHANGED <<db, drops, taps, earned, usedBy, chosen, contested>>

Kill(d) == kills + drops < MaxKills /\ kills' = kills + 1 /\ Restart(d)

(* An account without coordinates.                                         *)
PlayersTrap(d) == HeadIs(d, "players") /\ ~ CastsHold(d) /\ Restart(d) /\ UNCHANGED kills

-----------------------------------------------------------------------------
SdkStep(d) == CollectionNext(d) /\ UNCHANGED appVars

Callback(d) == \/ LoggedIn(d) \/ LoginRefused(d) \/ Changed(d) \/ ChangeRefused(d)
               \/ StoreLocation(d) \/ FoundPlayers(d) \/ PlayersTrap(d)

UserStep(d) == \/ TapLogin(d) \/ LogOut(d) \/ AddExperience(d) \/ OpenForm(d) \/ Back(d)
               \/ TapChange(d) \/ Dismiss(d) \/ UpdateLocation(d) \/ ShowMap(d) \/ Kill(d)

Next == \E d \in Devices : SdkStep(d) \/ Callback(d) \/ UserStep(d)

Spec == Init /\ [][Next]_vars
-----------------------------------------------------------------------------
(* The properties. *)

Value == Passwords \cup Places \cup (0..MaxTaps) \cup {Missing}
Writes == [key : Ids, field : Fields, value : Value]
IsData(data) == \/ data = NoRecords
                \/ /\ DOMAIN data = Ids
                   /\ \A u \in Ids : /\ DOMAIN data[u] = Fields
                                     /\ data[u].password \in Passwords
                                     /\ data[u].totalExp \in 0..MaxTaps
                                     /\ {data[u].latitude, data[u].longitude} \subseteq Places \cup {Missing}

(* Types; in particular a record never loses a child, and the data a       *)
(* callback gets has every account.                                        *)
TypeOK ==
  /\ IsData(db) /\ DOMAIN db = Ids
  /\ \A d \in Devices :
       /\ \A i \in DOMAIN puts[d] : puts[d][i] \in Writes
       /\ applied[d] \in 0..Len(puts[d])
       /\ IsData(cache[d])
       /\ \A i \in DOMAIN events[d] : IsData(events[d][i].snap) /\ DOMAIN events[d][i].snap = Ids
       /\ \A i \in DOMAIN homes[d] :
            LET home == homes[d][i] IN
            /\ home.login \in 1..MaxTaps /\ home.id \in Ids /\ home.total \in 0..MaxTaps
            /\ home.place \in Places \cup {Missing}
            /\ home.opened \in 0..MaxTaps
            /\ home.form \in {"closed", "open", "changed", "refused"}
    /\ taps \in 0..MaxTaps /\ kills \in 0..MaxKills /\ drops \in 0..MaxDrops

(* u's rewards have all come from one device, none while a second User     *)
(* object of u existed, and no write of u has died with a process.         *)
Undisputed(u) == Cardinality(usedBy[u]) = 1 /\ u \notin contested \cup lost

(* What a device reads of an undisputed account is all its rewards,        *)
(* through log outs and logins that find writes still unacknowledged and   *)
(* through resending (User.swift:53 writes a total, not an increment).     *)
EarnedIsStored ==
  \A u \in Ids : Undisputed(u) =>
    \A d \in usedBy[u] : Overlay(db, puts[d])[u].totalExp = earned[u]

(* Rewards may be lost to another device or another TabBarVC of the same   *)
(* account, but no interleaving of their totals stores one nobody earned.  *)
NothingInvented ==
  \A u \in Ids : db[u].totalExp <= earned[u]

(* Once everything is sent and received, the password is one that a device *)
(* set last, or the first if none did, unless a process died with writes.  *)
PasswordIsChosen ==
  Quiescent => \A u \in Ids \ lost :
    LET set == {chosen[d][u] : d \in Devices} \ {Missing}
    IN  db[u].password \in IF set = {} THEN {FirstPassword} ELSE set

(* The two writes of a location: the coordinates of an account used by one *)
(* device are of one place, or the device has the longitude still to send. *)
LocationHeals ==
  \A u \in Ids \ lost : Cardinality(usedBy[u]) = 1 /\ db[u].latitude # db[u].longitude =>
    \E d \in usedBy[u] : \E i \in DOMAIN puts[d] :
      i > applied[d] /\ puts[d][i].key = u /\ puts[d][i].field = "longitude"

(* What a device reads of a password that it alone has ever changed, from  *)
(* the view or from the server, is its own last choice: that is what its   *)
(* next login and its next change are compared with, whatever writes are   *)
(* unacknowledged or sent again and however many changes were under way at *)
(* the same time.                                                          *)
OwnPasswordHolds ==
  \A d \in Devices : \A u \in Ids \ lost :
    chosen[d][u] # Missing /\ (\A e \in Devices \ {d} : chosen[e][u] = Missing)
      => GivenNow(d)[u].password = chosen[d][u]

=============================================================================
