------------------------------ MODULE Accounts ------------------------------
(***************************************************************************)
(* Signing up (SignupVC.swift) and logging in (LoginVC.swift) against the  *)
(* "users" collection, by several devices at once.                         *)
(*                                                                         *)
(* "Create account" takes two reads of the collection: the first looks for *)
(* the username, its callback starts the second and already shows the      *)
(* success alert; the second counts the records, takes the count as the    *)
(* new account's id and sends one setValue for the record and one for each *)
(* child.  Nothing makes the reads and the writes one transaction, and the *)
(* navigation bar's Back button stays usable while they are in progress.   *)
(***************************************************************************)
EXTENDS Collection

CONSTANTS Names, Passwords,   \* what users type
          Stat,               \* the starting health, power and experience
          FieldOrder,         \* the children in the order they are written
          MaxTaps,            \* bound: Login and Create taps per device
          MaxScreens,         \* bound: SignupVC instances per process
          MaxKills            \* bound: times a user or the system ends an app

ASSUME AccountsAssumption ==
  /\ FieldOrder \in Seq(Fields)
  /\ \A f \in Fields : \E i \in DOMAIN FieldOrder : FieldOrder[i] = f
  /\ {"username", "password"} \subseteq Fields
  /\ Missing \notin Names \cup Passwords \cup {Stat}
  /\ MaxTaps \in Nat /\ MaxScreens \in Nat /\ MaxKills \in Nat /\ MaxDrops \in Nat

VARIABLES nav,        \* view controllers above LoginVC: i is SignupVC i, Home a TabBarVC
          forms,      \* the text fields of every SignupVC of this process
          alert,      \* the alert on the screen
          taps, kills,
          accounts,   \* history: what addUserToFirebase submitted, and from where
          announced,  \* history: credentials a user has been told are created
          torn        \* history: ids some of whose writes died with a process

appVars == <<nav, forms, alert, taps, kills, accounts, announced, torn>>
vars == <<collectionVars, appVars>>

Home == 0
Alerts == {"none", "exists", "success", "invalid"}

Credentials == [username : Names, password : Passwords]
CheckCb == [op : {"check"}, vc : 1..MaxScreens]
AddCb   == [op : {"add"}, vc : 1..MaxScreens, username : Names]
LoginCb == [op : {"login"}, username : Names, password : Passwords]
Callbacks == CheckCb \cup AddCb \cup LoginCb

OnLogin(d)     == nav[d] = << >>
OnSignup(d)    == nav[d] # << >> /\ Last(nav[d]) # Home
OnHome(d)      == nav[d] # << >> /\ Last(nav[d]) = Home
CanTouch(d)    == alert[d] = "none"

(* present(alert) works from the controller on the screen when nothing is  *)
(* presented already; otherwise UIKit ignores it.                          *)
Present(d, onScreen, kind) ==
  alert' = [alert EXCEPT ![d] = IF onScreen /\ @ = "none" THEN kind ELSE @]

-----------------------------------------------------------------------------
(* The writes of addUserToFirebase.                                        *)
FieldValue(f, u, p) ==
  IF f = "username" THEN u ELSE IF f = "password" THEN p ELSE Stat

NewRecord(u, p) == [f \in Fields |-> FieldValue(f, u, p)]

RecordLastWrites(id, u, p) ==      \* mutated: the record after its children
  [i \in 1..(Len(FieldOrder) + 1) |->
     IF i > Len(FieldOrder) THEN [key |-> id, field |-> Leaf, value |-> Missing]
     ELSE [key |-> id, field |-> FieldOrder[i], value |-> FieldValue(FieldOrder[i], u, p)]]

NewAccountWrites(id, u, p) ==
  [i \in 1..(Len(FieldOrder) + 1) |->
     IF i = 1 THEN [key |-> id, field |-> Leaf, value |-> Missing]
     ELSE [key |-> id, field |-> FieldOrder[i - 1],
           value |-> FieldValue(FieldOrder[i - 1], u, p)]]

NewIdFromOne(snap) == Cardinality(DOMAIN snap) + 1            \* mutated
NewIdReused(snap) == Max({0, Cardinality(DOMAIN snap) - 1})   \* mutated

(* snapshot.childrenCount.                                                 *)
NewId(snap) == Cardinality(DOMAIN snap)

(* Walking the children in key order up to the first that decides: one     *)
(* whose forced cast fails, or one that matches.                           *)
CheckOutcome(snap, u) ==
  LET stops == {k \in DOMAIN snap : snap[k]["username"] \in {Missing, u}}
  IN  IF stops = {} THEN "free"
      ELSE IF snap[Min(stops)]["username"] = Missing THEN "trap" ELSE "exists"

Incomplete(r) == \E f \in Fields : r[f] = Missing

LoginOutcome(snap, u, p) ==
  LET stops == {k \in DOMAIN snap : \/ Incomplete(snap[k])
                                    \/ snap[k]["username"] = u /\ snap[k]["password"] = p}
  IN  IF stops = {} THEN "invalid"
      ELSE IF Incomplete(snap[Min(stops)]) THEN "trap" ELSE "home"

(* What the callback of event e of device d finds.                         *)
Outcome(d, e) ==
  CASE e.cb.op = "check" -> CheckOutcome(e.snap, forms[d][e.cb.vc].username)
    [] e.cb.op = "login" -> LoginOutcome(e.snap, e.cb.username, e.cb.password)
    [] OTHER -> "add"

HeadIs(d, outcome) == events[d] # << >> /\ Outcome(d, Head(events[d])) = outcome

-----------------------------------------------------------------------------
Init ==
  /\ CollectionInit
  /\ nav = [d \in Devices |-> << >>]
  /\ forms = [d \in Devices |-> << >>]
  /\ alert = [d \in Devices |-> "none"]
  /\ taps = [d \in Devices |-> 0]
  /\ kills = 0
  /\ accounts = {} /\ announced = {} /\ torn = {}

(* signupAction pushes a SignupVC; the user fills it in.                   *)
OpenSignup(d) ==
  /\ OnLogin(d) /\ CanTouch(d)
  /\ Len(forms[d]) < MaxScreens
  /\ \E c \in Credentials : forms' = [forms EXCEPT ![d] = Append(@, c)]
  /\ nav' = [nav EXCEPT ![d] = Append(@, Len(forms[d]) + 1)]
  /\ UNCHANGED <<collectionVars, alert, taps, kills, accounts, announced, torn>>

(* The text fields stay editable while a request is in progress.           *)
Retype(d) ==
  /\ OnSignup(d) /\ CanTouch(d)
  /\ \E c \in Credentials : /\ c # forms[d][Last(nav[d])]
                            /\ forms' = [forms EXCEPT ![d][Last(nav[d])] = c]
  /\ UNCHANGED <<collectionVars, nav, alert, taps, kills, accounts, announced, torn>>

(* The navigation bar's Back button.                                       *)
Back(d) ==
  /\ OnSignup(d) /\ CanTouch(d)
  /\ nav' = [nav EXCEPT ![d] = Front(@)]
  /\ UNCHANGED <<collectionVars, forms, alert, taps, kills, accounts, announced, torn>>

(* createAccountAction: checkIfUserExists reads the collection.            *)
CreateAccount(d) ==
  /\ OnSignup(d) /\ CanTouch(d)
  /\ taps[d] < MaxTaps
  /\ taps' = [taps EXCEPT ![d] = @ + 1]
  /\ Observe(d, events[d], [op |-> "check", vc |-> Last(nav[d])])
  /\ UNCHANGED <<db, puts, applied, drops, nav, forms, alert, kills, accounts, announced, torn>>

(* loginAction captures both texts; loginIfValid reads the collection.     *)
Login(d) ==
  /\ OnLogin(d) /\ CanTouch(d)
  /\ taps[d] < MaxTaps
  /\ taps' = [taps EXCEPT ![d] = @ + 1]
  /\ \E c \in Credentials :
       Observe(d, events[d], [op |-> "login", username |-> c.username, password |-> c.password])
  /\ UNCHANGED <<db, puts, applied, drops, nav, forms, alert, kills, accounts, announced, torn>>

(* The check's callback, the username being taken.                         *)
UsernameTaken(d) ==
  /\ HeadIs(d, "exists")
  /\ Consume(d)
  /\ LET vc == Head(events[d]).cb.vc
     IN  Present(d, nav[d] # << >> /\ Last(nav[d]) = vc, "exists")
  /\ UNCHANGED <<db, puts, applied, waiting, drops, nav, forms, taps, kills, accounts, announced, torn>>

(* The check's callback, the username being free: addUserToFirebase starts *)
(* the second read, goToLogin shows the success alert.                     *)
UsernameFree(d) ==
  /\ HeadIs(d, "free")
  /\ LET vc == Head(events[d]).cb.vc
         c  == forms[d][vc]
         onScreen == nav[d] # << >> /\ Last(nav[d]) = vc
     IN  /\ Observe(d, Tail(events[d]), [op |-> "add", vc |-> vc, username |-> c.username])
         /\ Present(d, onScreen, "success")
         /\ announced' = IF onScreen /\ alert[d] = "none"
                         THEN announced \cup {[device |-> d, cred |-> c]} ELSE announced
  /\ UNCHANGED <<db, puts, applied, drops, nav, forms, taps, kills, accounts, torn>>

(* The second read's callback: the number of records is the new id.        *)
AddUser(d) ==
  /\ HeadIs(d, "add")
  /\ LET cb == Head(events[d]).cb
         id == NewId(Head(events[d]).snap)
         p  == forms[d][cb.vc].password
     IN  /\ puts' = [puts EXCEPT ![d] = @ \o NewAccountWrites(id, cb.username, p)]
         /\ accounts' = accounts \cup
              {[device |-> d, id |-> id, username |-> cb.username, password |-> p]}
  /\ Consume(d)
  /\ UNCHANGED <<db, applied, waiting, drops, nav, forms, alert, taps, kills, announced, torn>>

(* loginIfValid's callback, the credentials matching: the TabBarSegue      *)
(* pushes a TabBarVC on whatever is on the screen.                         *)
LoginMatches(d) ==
  /\ HeadIs(d, "home")
  /\ Consume(d)
  /\ nav' = [nav EXCEPT ![d] = Append(@, Home)]
  /\ UNCHANGED <<db, puts, applied, waiting, drops, forms, alert, taps, kills, accounts, announced, torn>>

(* ... and no record matching.                                             *)
LoginRejected(d) ==
  /\ HeadIs(d, "invalid")
  /\ Consume(d)
  /\ Present(d, OnLogin(d), "invalid")
  /\ UNCHANGED <<db, puts, applied, waiting, drops, nav, forms, taps, kills, accounts, announced, torn>>

(* OK on an alert; after a successful sign-up it also pops a controller.   *)
Dismiss(d) ==
  /\ alert[d] # "none"
  /\ alert' = [alert EXCEPT ![d] = "none"]
  /\ nav' = [nav EXCEPT ![d] = IF alert[d] = "success" THEN Front(@) ELSE @]
  /\ UNCHANGED <<collectionVars, forms, taps, kills, accounts, announced, torn>>

(* SettingsTableVC: "log out" pops the TabBarVC.                           *)
LogOut(d) ==
  /\ OnHome(d) /\ CanTouch(d)
  /\ nav' = [nav EXCEPT ![d] = Front(@)]
  /\ UNCHANGED <<collectionVars, forms, alert, taps, kills, accounts, announced, torn>>

(* The process ends and is started again: LoginVC is the root.             *)
Restart(d) ==
  /\ CloseClient(d)
  /\ torn' = torn \cup KeysOf(puts[d])
  /\ announced' = IF Idle(d) /\ puts[d] = << >> THEN announced
                  ELSE {a \in announced : a.device # d}
  /\ nav' = [nav EXCEPT ![d] = << >>]
  /\ forms' = [forms EXCEPT ![d] = << >>]
  /\ alert' = [alert EXCEPT ![d] = "none"]
  /\ UNCHANGED <<db, drops, taps, accounts>>

Kill(d) ==
  /\ kills < MaxKills
  /\ kills' = kills + 1
  /\ Restart(d)

(* A forced cast (as! String, Double, Int) of an absent child fails.       *)
Trap(d) ==
  /\ HeadIs(d, "trap")
  /\ Restart(d)
  /\ UNCHANGED kills

SdkStep(d) == CollectionNext(d) /\ UNCHANGED appVars

Callback(d) == \/ UsernameTaken(d) \/ UsernameFree(d) \/ AddUser(d)
               \/ LoginMatches(d) \/ LoginRejected(d) \/ Trap(d)

UserStep(d) == \/ OpenSignup(d) \/ Retype(d) \/ Back(d) \/ CreateAccount(d)
               \/ Login(d) \/ Dismiss(d) \/ LogOut(d) \/ Kill(d)

Next == \E d \in Devices : SdkStep(d) \/ Callback(d) \/ UserStep(d)

(* Main-queue blocks run, and the SDK keeps trying; users owe nothing.     *)
Fairness == \A d \in Devices : CollectionFairness(d) /\ WF_vars(Callback(d))

Spec == Init /\ [][Next]_vars
FairSpec == Spec /\ Fairness
-----------------------------------------------------------------------------
(* The properties. *)

Value == Names \cup Passwords \cup {Stat, Missing}
Record == [Fields -> Value]
Write == [key : Nat, field : Fields \cup {Leaf}, value : Value]
IsData(data) == /\ DOMAIN data \subseteq Nat /\ IsFiniteSet(DOMAIN data)
                /\ \A k \in DOMAIN data : data[k] \in Record
IsCallback(d, cb) == cb \in Callbacks /\ (cb.op # "login" => cb.vc \in DOMAIN forms[d])

(* Types of every variable; in particular a pending callback's SignupVC    *)
(* exists, which the callbacks of createAccountAction rely on.             *)
TypeOK ==
  /\ IsData(db)
  /\ \A d \in Devices :
       /\ puts[d] \in Seq(Write)
       /\ applied[d] \in 0..Len(puts[d])
       /\ IsData(cache[d])
       /\ \A i \in DOMAIN waiting[d] : IsCallback(d, waiting[d][i])
       /\ \A i \in DOMAIN events[d] : IsCallback(d, events[d][i].cb) /\ IsData(events[d][i].snap)
       /\ nav[d] \in Seq(0..Len(forms[d]))
       /\ forms[d] \in Seq(Credentials) /\ Len(forms[d]) <= MaxScreens
       /\ alert[d] \in Alerts
       /\ taps[d] \in 0..MaxTaps
  /\ kills \in 0..MaxKills /\ drops \in 0..MaxDrops
  /\ accounts \subseteq [device : Devices, id : Nat, username : Names, password : Passwords]
  /\ announced \subseteq [device : Devices, cred : Credentials]
  /\ torn \subseteq Nat

Dense(ids) == \A k \in ids : 0..k \subseteq ids

(* The ids on the server are 0, 1, ..., n - 1 with no gap, whatever is     *)
(* lost, repeated or allocated twice: counting the records                 *)
(* (addUserToFirebase) finds a next id no smaller than any gap.            *)
DenseIds == Dense(DOMAIN db)

(* A record is incomplete only while a device still has the missing        *)
(* child's write to send, or for ever because a process died with some of  *)
(* the record's writes (addUserToFirebase's six separate setValues).       *)
IncompleteHeals ==
  \A k \in DOMAIN db \ torn : \A f \in Fields :
    db[k][f] = Missing =>
      \E d \in Devices : \E i \in DOMAIN puts[d] :
         i > applied[d] /\ puts[d][i].key = k /\ puts[d][i].field = f

Contested(id) == \E a, b \in accounts : a.id = id /\ b.id = id /\ a # b

(* An account whose id no other sign-up took keeps the username and the    *)
(* password it was created with: whatever is resent after a lost           *)
(* connection, what its device shows is the account.                       *)
UncontestedSurvive ==
  \A a \in accounts :
    \/ a.id \in torn \/ Contested(a.id)
    \/ /\ a.id \in DOMAIN db \cup KeysOf(puts[a.device])
       /\ Overlay(db, puts[a.device])[a.id] = NewRecord(a.username, a.password)

(* What the SDK shows a device (FSyncPoint's event cache) is what the      *)
(* server will hold once the device's own writes are all applied, in order *)
(* and over anything already applied.                                      *)
OverlayIsReplay ==
  \A d \in Devices : Overlay(db, puts[d]) = FoldLeft(Apply, db, puts[d])

Holds(data, c) == \E k \in DOMAIN data : /\ data[k]["username"] = c.username
                                        /\ data[k]["password"] = c.password

(* "You've successfully created your account! Please log in."              *)
(* (SignupVC.swift:43).  When nothing is in progress any more, every       *)
(* account somebody was told about is on the server, unless the process    *)
(* ended before its requests were done.                                    *)
SuccessMeansAccount ==
  Quiescent => \A a \in announced : Holds(db, a.cred)

(* Once addUserToFirebase has run, every read its device starts is given   *)
(* the whole account, with the writes sent, half sent, being resent or     *)
(* acknowledged, from the server or from a view kept open by other reads.  *)
ReadsOwnAccount ==
  \A a \in accounts :
    \/ a.id \in torn \/ Contested(a.id)
    \/ /\ a.id \in DOMAIN GivenNow(a.device)
       /\ GivenNow(a.device)[a.id] = NewRecord(a.username, a.password)

(* Every read the two screens start is answered or ends with its process.  *)
RequestsAnswered == \A d \in Devices : ~ Idle(d) ~> Idle(d)

(* Every account that was announced reaches the server, unless its process *)
(* ends first.                                                             *)
AnnouncedIsStored ==
  \A d \in Devices : \A c \in Credentials :
    LET a == [device |-> d, cred |-> c]
    IN  a \in announced ~> a \notin announced \/ Holds(db, c)
=============================================================================
