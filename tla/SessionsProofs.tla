--------------------------- MODULE SessionsProofs ---------------------------
(***************************************************************************)
(* What holds of Sessions for any devices, accounts, passwords, places and *)
(* bounds.                                                                 *)
(*                                                                         *)
(*   1. queues of writes: what a queue leaves in a child when it has been  *)
(*      sent, and what a device reads of the child meanwhile               *)
(*   2. types, with the bound of every total by what was earned            *)
(*   3. ownership: a device has writes, screens and reads only of accounts *)
(*      it has logged in to                                                *)
(*   4. totals, locations, passwords                                       *)
(***************************************************************************)
EXTENDS Sessions, FiniteSetTheorems, TLAPS

Forms == {"closed", "open", "changed", "refused"}
Spots == Places \cup {Missing}
AnyValue == Passwords \cup Spots \cup Nat

LoginCbs == [op : {"login"}, login : 1..MaxTaps, id : Ids, password : Passwords]
ChangeCbs == [op : {"change"}, form : 0..MaxTaps, id : Ids, password : Passwords]
LocateCbs == [op : {"locate"}, id : Ids, place : Places]
PlayersCbs == [op : {"players"}, login : 1..MaxTaps, id : Ids]
Callbacks == LoginCbs \cup ChangeCbs \cup LocateCbs \cup PlayersCbs

(* The values child f of account u may have when e is what was earned.     *)
Possible(e, u, f) ==
  IF f = "password" THEN Passwords
  ELSE IF f = "totalExp" THEN 0..e[u] ELSE Spots

WritesFor(e) == {w \in [key : Ids, field : Fields, value : AnyValue] :
                   w.value \in Possible(e, w.key, w.field)}
DataFor(e) == {D \in [Ids -> [Fields -> AnyValue]] :
                 \A u \in Ids : \A f \in Fields : D[u][f] \in Possible(e, u, f)}
EventsFor(e) == [cb : Callbacks, snap : DataFor(e)]
HomesFor(e) == {h \in [login : 1..MaxTaps, id : Ids, total : Nat, place : Spots,
                       others : [Ids -> Nat], opened : 0..MaxTaps, form : Forms] :
                  h.total <= e[h.id]}

SdkType ==
  /\ db \in DataFor(earned)
  /\ puts \in [Devices -> Seq(WritesFor(earned))]
  /\ applied \in [Devices -> Nat]
  /\ \A d \in Devices : applied[d] <= Len(puts[d])
  /\ waiting \in [Devices -> Seq(Callbacks)]
  /\ events \in [Devices -> Seq(EventsFor(earned))]
  /\ cache \in [Devices -> DataFor(earned) \cup {NoRecords}]
  /\ \A d \in Devices : events[d] # << >> => waiting[d] = << >> /\ cache[d] \in DataFor(earned)
  /\ drops \in 0..MaxDrops

AppType ==
  /\ homes \in [Devices -> Seq(HomesFor(earned))]
  /\ taps \in 0..MaxTaps /\ kills \in 0..MaxKills
  /\ earned \in [Ids -> Nat] /\ \A u \in Ids : earned[u] <= taps
  /\ usedBy \in [Ids -> SUBSET Devices] /\ \A u \in Ids : IsFiniteSet(usedBy[u])
  /\ chosen \in [Devices -> [Ids -> Passwords \cup {Missing}]]
  /\ contested \subseteq Ids /\ lost \subseteq Ids

TypeInv == SdkType /\ AppType

(* What device d holds of an account, it holds after a login to it.        *)
OwnedAt(d) ==
  /\ \A i \in DOMAIN puts[d] : d \in usedBy[puts[d][i].key]
  /\ \A i \in DOMAIN homes[d] : d \in usedBy[homes[d][i].id]
  /\ \A i \in DOMAIN waiting[d] : waiting[d][i].op # "login" => d \in usedBy[waiting[d][i].id]
  /\ \A i \in DOMAIN events[d] : events[d][i].cb.op # "login" => d \in usedBy[events[d][i].cb.id]
Owned == \A d \in Devices : OwnedAt(d)

Hit(ws, i, u, f) == ws[i].key = u /\ ws[i].field = f
(* The last write of ws to child f of u, if any, writes v.                 *)
Ends(ws, u, f, v) ==
  \A i \in 1..Len(ws) :
    Hit(ws, i, u, f) /\ (\A j \in (i + 1)..Len(ws) : ~ Hit(ws, j, u, f)) => ws[i].value = v
(* No write to child f of u comes after the first n writes of ws.          *)
Clear(ws, n, u, f) == \A i \in (n + 1)..Len(ws) : ~ Hit(ws, i, u, f)
(* Child f of u is v in data once what follows the first n writes of ws    *)
(* has been applied to it, and what the queue shows of it is v.            *)
Settled(ws, n, data, u, f, v) == Ends(ws, u, f, v) /\ (Clear(ws, n, u, f) => data[u][f] = v)

TotalSettled(d, u) ==
  /\ Settled(puts[d], applied[d], db, u, "totalExp", earned[u])
  /\ events[d] # << >> => Settled(puts[d], 0, cache[d], u, "totalExp", earned[u])
  /\ \A i \in DOMAIN events[d] : events[d][i].cb.op = "login" /\ events[d][i].cb.id = u =>
       events[d][i].snap[u].totalExp = earned[u]
  /\ \A i \in DOMAIN homes[d] : homes[d][i].id = u => homes[d][i].total = earned[u]
Totals ==
  \A d \in Devices : \A u \in Ids \ (contested \cup lost) :
    usedBy[u] \subseteq {d} => TotalSettled(d, u)

PlaceSettled(d, u) ==
  \E v \in Spots : /\ Settled(puts[d], applied[d], db, u, "latitude", v)
                   /\ Settled(puts[d], applied[d], db, u, "longitude", v)
LongitudeFollows(ws) ==
  \A i \in 1..Len(ws) : ws[i].field = "latitude" =>
    \E j \in (i + 1)..Len(ws) : Hit(ws, j, ws[i].key, "longitude")
Locations ==
  /\ \A d \in Devices : LongitudeFollows(puts[d])
  /\ \A d \in Devices : \A u \in Ids \ lost : usedBy[u] \subseteq {d} => PlaceSettled(d, u)

ChosenFor(u) == {chosen[d][u] : d \in Devices} \ {Missing}
OneOf(u) == IF ChosenFor(u) = {} THEN {FirstPassword} ELSE ChosenFor(u)
ComingPassword(u) == \E d \in Devices : ~ Clear(puts[d], applied[d], u, "password")
PasswordsChosen ==
  /\ \A d \in Devices : \A u \in Ids : Ends(puts[d], u, "password", chosen[d][u])
  /\ \A u \in Ids \ lost : ComingPassword(u) \/ db[u].password \in OneOf(u)

(* A password that device d alone has changed is settled, on the server    *)
(* and in what d's view has cached, for d's last choice.                   *)
ChoseAlone(d, u) == chosen[d][u] # Missing /\ \A e \in Devices \ {d} : chosen[e][u] = Missing
OwnPasswordSettled(d, u) ==
  /\ Settled(puts[d], applied[d], db, u, "password", chosen[d][u])
  /\ events[d] # << >> => Settled(puts[d], 0, cache[d], u, "password", chosen[d][u])
OwnPasswords ==
  \A d \in Devices : \A u \in Ids \ lost : ChoseAlone(d, u) => OwnPasswordSettled(d, u)

-----------------------------------------------------------------------------
(* 1. Queues of writes. *)

(* A bounded non-empty set of positions has its Max as an element.         *)
LEMMA MaxOfPositions ==
  ASSUME NEW n \in Nat, NEW S \in SUBSET (1..n), NEW m \in S, \A i \in S : i <= m
  PROVE  Max(S) = m
<1>1. \A i \in S : m >= i OBVIOUS
<1>2. \A x \in S : (\A i \in S : x >= i) => x = m
  <2> SUFFICES ASSUME NEW x \in S, \A i \in S : x >= i PROVE x = m OBVIOUS
  <2>1. x >= m /\ m >= x /\ x \in 1..n /\ m \in 1..n OBVIOUS
  <2> QED BY <2>1
<1> QED BY <1>1, <1>2 DEF Max

(* Among finitely many positions one with a property, there is a last one. *)
LEMMA LastHit ==
  ASSUME NEW ws, Len(ws) \in Nat, NEW u, NEW f, NEW i \in 1..Len(ws), Hit(ws, i, u, f)
  PROVE  \E j \in i..Len(ws) : Hit(ws, j, u, f) /\ \A k \in (j + 1)..Len(ws) : ~ Hit(ws, k, u, f)
<1> DEFINE T == {Len(ws) - j : j \in {x \in 1..Len(ws) : Hit(ws, x, u, f)}}
<1>1. T \in SUBSET Nat /\ T # {} OBVIOUS
<1>2. PICK t \in T : \A s \in T : ~ (<<s, t>> \in OpToRel(<, Nat))
  <2> HIDE DEF T
  <2> QED BY <1>1, NatLessThanWellFounded, WFMin
<1>3. \A s \in T : ~ (s < t)
  <2>1. t \in Nat /\ \A s \in T : s \in Nat BY <1>1
  <2> QED BY <1>2, <2>1 DEF OpToRel
<1>4. PICK j \in 1..Len(ws) : Hit(ws, j, u, f) /\ t = Len(ws) - j OBVIOUS
<1>5. \A k \in 1..Len(ws) : Hit(ws, k, u, f) => k <= j
  <2> SUFFICES ASSUME NEW k \in 1..Len(ws), Hit(ws, k, u, f) PROVE k <= j OBVIOUS
  <2>1. Len(ws) - k \in T OBVIOUS
  <2>2. ~ (Len(ws) - k < Len(ws) - j) BY <2>1, <1>3, <1>4
  <2> HIDE DEF T
  <2> QED BY <2>2
<1>6. i <= j BY <1>5
<1>7. \A k \in (j + 1)..Len(ws) : k \in 1..Len(ws) /\ ~ (k <= j) BY <1>4
<1> QED BY <1>4, <1>5, <1>6, <1>7

(* The queue shows of a child what the data has, if no write is to it.     *)
LEMMA ShownClear ==
  ASSUME NEW ws, Len(ws) \in Nat, DOMAIN ws = 1..Len(ws), NEW D, DOMAIN D = Ids,
         NEW u \in Ids, NEW f \in Fields, Clear(ws, 0, u, f), KeysOf(ws) \subseteq Ids,
         \A i \in 1..Len(ws) : ws[i].field \in Fields
  PROVE  Shown(D, ws, u, f) = D[u][f]
<1>1. Leaf \notin Fields /\ Gone \notin Fields BY CollectionAssumption
<1>2. Deciding(ws, u, f) = {i \in 1..Len(ws) : Hit(ws, i, u, f)}
  BY <1>1 DEF Deciding, Hit
<1> QED BY <1>2 DEF Shown, RecordAt, Clear

(* ... and else what the last write to it writes.                          *)
LEMMA ShownLast ==
  ASSUME NEW ws, Len(ws) \in Nat, DOMAIN ws = 1..Len(ws), NEW D,
         NEW u \in Ids, NEW f \in Fields,
         \A i \in 1..Len(ws) : ws[i].field \in Fields,
         NEW i \in 1..Len(ws), Hit(ws, i, u, f), \A j \in (i + 1)..Len(ws) : ~ Hit(ws, j, u, f)
  PROVE  Shown(D, ws, u, f) = ws[i].value
<1>1. Leaf \notin Fields /\ Gone \notin Fields BY CollectionAssumption
<1>2. Deciding(ws, u, f) = {x \in 1..Len(ws) : Hit(ws, x, u, f)}
  BY <1>1 DEF Deciding, Hit
<1>3. i \in Deciding(ws, u, f) /\ Deciding(ws, u, f) \in SUBSET (1..Len(ws)) BY <1>2
<1>4. \A j \in Deciding(ws, u, f) : j <= i
  <2> SUFFICES ASSUME NEW j \in 1..Len(ws), Hit(ws, j, u, f), ~ (j <= i) PROVE FALSE BY <1>2
  <2>1. j \in (i + 1)..Len(ws) OBVIOUS
  <2> QED BY <2>1
<1>5. Max(Deciding(ws, u, f)) = i BY <1>3, <1>4, MaxOfPositions
<1>6. ws[i].field \notin {Leaf, Gone} BY <1>1
<1> QED BY <1>3, <1>5, <1>6 DEF Shown

(* What a device reads: the data's accounts, each child as shown.          *)
LEMMA OverlayFields ==
  ASSUME NEW ws, DOMAIN ws = 1..Len(ws), NEW D, DOMAIN D = Ids, KeysOf(ws) \subseteq Ids,
         \A i \in 1..Len(ws) : ws[i].field \in Fields
  PROVE  Overlay(D, ws) = [u \in Ids |-> [f \in Fields |-> Shown(D, ws, u, f)]]
<1>1. {k \in DOMAIN D \cup KeysOf(ws) : ~ RemovedBy(ws, k)} = Ids
  BY CollectionAssumption DEF RemovedBy
<1> QED BY <1>1 DEF Overlay

(* Either no write is to a child, or there is a last write to it.          *)
LEMMA ClearOrLast ==
  ASSUME NEW ws, Len(ws) \in Nat, NEW u, NEW f, ~ Clear(ws, 0, u, f)
  PROVE  \E i \in 1..Len(ws) : Hit(ws, i, u, f) /\ \A j \in (i + 1)..Len(ws) : ~ Hit(ws, j, u, f)
<1>1. PICK h \in 1..Len(ws) : Hit(ws, h, u, f) BY DEF Clear
<1>2. PICK i \in h..Len(ws) : Hit(ws, i, u, f) /\ \A j \in (i + 1)..Len(ws) : ~ Hit(ws, j, u, f)
  BY <1>1, LastHit
<1>3. i \in 1..Len(ws) BY <1>1, <1>2
<1> QED BY <1>2, <1>3

(* A device reads the value its queue settles for.                         *)
LEMMA SettledShown ==
  ASSUME NEW ws, Len(ws) \in Nat, DOMAIN ws = 1..Len(ws), NEW D, DOMAIN D = Ids,
         KeysOf(ws) \subseteq Ids, \A i \in 1..Len(ws) : ws[i].field \in Fields,
         NEW u \in Ids, NEW f \in Fields, NEW v, Settled(ws, 0, D, u, f, v)
  PROVE  Overlay(D, ws)[u][f] = v
<1>1. Overlay(D, ws)[u][f] = Shown(D, ws, u, f) BY OverlayFields
<1>2. CASE Clear(ws, 0, u, f)
  <2>1. Shown(D, ws, u, f) = D[u][f] BY <1>2, ShownClear
  <2> QED BY <1>1, <1>2, <2>1 DEF Settled
<1>3. CASE ~ Clear(ws, 0, u, f)
  <2>1. PICK i \in 1..Len(ws) : Hit(ws, i, u, f) /\ \A j \in (i + 1)..Len(ws) : ~ Hit(ws, j, u, f)
    BY <1>3, ClearOrLast
  <2>2. Shown(D, ws, u, f) = ws[i].value BY <2>1, ShownLast
  <2> QED BY <1>1, <2>1, <2>2 DEF Settled, Ends
<1> QED BY <1>2, <1>3

(* Acknowledging the first of n applied writes.                            *)
LEMMA AckSettles ==
  ASSUME NEW S, NEW ws \in Seq(S), NEW n \in Nat, 0 < n, n <= Len(ws), NEW u, NEW f
  PROVE  /\ Clear(Tail(ws), n - 1, u, f) <=> Clear(ws, n, u, f)
         /\ \A v : Ends(ws, u, f, v) => Ends(Tail(ws), u, f, v)
<1> DEFINE t == Tail(ws)
<1>1. /\ Len(ws) \in Nat /\ Len(t) = Len(ws) - 1 /\ Len(t) \in Nat
      /\ \A i \in 1..Len(t) : i + 1 \in 2..Len(ws) /\ t[i] = ws[i + 1]
  <2>1. ws # << >> OBVIOUS
  <2> QED BY <2>1
<1> HIDE DEF t
<1>2. \A i \in 1..Len(t) : Hit(t, i, u, f) <=> Hit(ws, i + 1, u, f) BY <1>1 DEF Hit
<1>3. \A i \in 2..Len(ws) : i - 1 \in 1..Len(t) /\ (i - 1) + 1 = i BY <1>1
<1>4. Clear(ws, n, u, f) => Clear(t, n - 1, u, f)
  <2> SUFFICES ASSUME Clear(ws, n, u, f), NEW i \in ((n - 1) + 1)..Len(t) PROVE ~ Hit(t, i, u, f)
    BY DEF Clear
  <2>1. i \in 1..Len(t) /\ i + 1 \in (n + 1)..Len(ws) BY <1>1
  <2> QED BY <2>1, <1>2 DEF Clear
<1>5. Clear(t, n - 1, u, f) => Clear(ws, n, u, f)
  <2> SUFFICES ASSUME Clear(t, n - 1, u, f), NEW i \in (n + 1)..Len(ws) PROVE ~ Hit(ws, i, u, f)
    BY DEF Clear
  <2>1. i \in 2..Len(ws) /\ i - 1 \in ((n - 1) + 1)..Len(t) BY <1>1
  <2>2. ~ Hit(t, i - 1, u, f) BY <2>1 DEF Clear
  <2> QED BY <2>1, <2>2, <1>2, <1>3
<1>6. ASSUME NEW v, Ends(ws, u, f, v) PROVE Ends(t, u, f, v)
  <2> SUFFICES ASSUME NEW i \in 1..Len(t), Hit(t, i, u, f), \A j \in (i + 1)..Len(t) : ~ Hit(t, j, u, f)
               PROVE  t[i].value = v
    BY DEF Ends
  <2>1. i + 1 \in 1..Len(ws) /\ Hit(ws, i + 1, u, f) /\ t[i] = ws[i + 1] BY <1>1, <1>2
  <2>2. ASSUME NEW j \in (i + 2)..Len(ws) PROVE ~ Hit(ws, j, u, f)
    <3>1. j \in 2..Len(ws) /\ j - 1 \in (i + 1)..Len(t) BY <1>1
    <3> QED BY <3>1, <1>2, <1>3
  <2>3. (i + 1) + 1 = i + 2 OBVIOUS
  <2> QED BY <2>1, <2>2, <2>3, <1>6 DEF Ends
<1> QED BY <1>4, <1>5, <1>6 DEF t

(* Adding a write w to the queue.                                          *)
LEMMA AppendSettles ==
  ASSUME NEW S, NEW ws \in Seq(S), NEW w \in S, NEW n \in Nat, n <= Len(ws), NEW u, NEW f
  PROVE  /\ Clear(Append(ws, w), n, u, f) <=> Clear(ws, n, u, f) /\ ~ (w.key = u /\ w.field = f)
         /\ \A v : Ends(ws, u, f, v) /\ ~ (w.key = u /\ w.field = f) => Ends(Append(ws, w), u, f, v)
         /\ w.key = u /\ w.field = f => Ends(Append(ws, w), u, f, w.value)
<1> DEFINE q == Append(ws, w)
           m == Len(ws)
<1>1. /\ m \in Nat /\ Len(q) = m + 1 /\ q[m + 1] = w
      /\ \A i \in 1..m : q[i] = ws[i]
  OBVIOUS
<1> HIDE DEF q, m
<1>2. /\ \A i \in 1..m : Hit(q, i, u, f) <=> Hit(ws, i, u, f)
      /\ Hit(q, m + 1, u, f) <=> w.key = u /\ w.field = f
  BY <1>1 DEF Hit
<1>3. n <= m BY DEF m
<1>4. Clear(q, n, u, f) <=> Clear(ws, n, u, f) /\ ~ (w.key = u /\ w.field = f)
  <2>1. \A i \in (n + 1)..m : i \in 1..m /\ i \in (n + 1)..(m + 1) BY <1>1
  <2>2. m + 1 \in (n + 1)..(m + 1) BY <1>1, <1>3
  <2>3. \A i \in (n + 1)..(m + 1) : i = m + 1 \/ i \in (n + 1)..m BY <1>1
  <2> QED BY <1>1, <1>2, <2>1, <2>2, <2>3 DEF Clear, m
<1>5. ASSUME NEW v, Ends(ws, u, f, v), ~ (w.key = u /\ w.field = f) PROVE Ends(q, u, f, v)
  <2> SUFFICES ASSUME NEW i \in 1..Len(q), Hit(q, i, u, f), \A j \in (i + 1)..Len(q) : ~ Hit(q, j, u, f)
               PROVE  q[i].value = v
    BY DEF Ends
  <2>1. i \in 1..m BY <1>1, <1>2, <1>5
  <2>2. \A j \in (i + 1)..m : j \in 1..m /\ j \in (i + 1)..Len(q) BY <1>1, <2>1
  <2>3. Hit(ws, i, u, f) /\ \A j \in (i + 1)..m : ~ Hit(ws, j, u, f) BY <1>2, <2>1, <2>2
  <2> QED BY <1>1, <1>5, <2>1, <2>3 DEF Ends, m
<1>6. ASSUME w.key = u, w.field = f PROVE Ends(q, u, f, w.value)
  <2> SUFFICES ASSUME NEW i \in 1..Len(q), Hit(q, i, u, f), \A j \in (i + 1)..Len(q) : ~ Hit(q, j, u, f)
               PROVE  q[i].value = w.value
    BY DEF Ends
  <2>1. i = m + 1
    <3> SUFFICES ASSUME i # m + 1 PROVE FALSE OBVIOUS
    <3>1. m + 1 \in (i + 1)..Len(q) BY <1>1
    <3> QED BY <3>1, <1>2, <1>6
  <2> QED BY <2>1, <1>1
<1> QED BY <1>4, <1>5, <1>6 DEF q, m

(* Applying a write of some device to the data.                            *)
LEMMA ApplyChanges ==
  ASSUME NEW e, e \in [Ids -> Nat], NEW D \in DataFor(e), NEW w \in WritesFor(e)
  PROVE  /\ Apply(D, w) \in DataFor(e)
         /\ \A u \in Ids, f \in Fields :
              Apply(D, w)[u][f] = IF w.key = u /\ w.field = f THEN w.value ELSE D[u][f]
<1>1. /\ w.key \in Ids /\ w.field \in Fields /\ w.value \in AnyValue
      /\ w.value \in Possible(e, w.key, w.field)
  BY DEF WritesFor
<1>2. w.field # Leaf /\ w.field # Gone BY <1>1, CollectionAssumption
<1>3. D \in [Ids -> [Fields -> AnyValue]] /\ \A u \in Ids : \A f \in Fields : D[u][f] \in Possible(e, u, f)
  BY DEF DataFor
<1>4. DOMAIN D \cup {w.key} = Ids BY <1>1, <1>3
<1>5. Apply(D, w) = [k \in Ids |-> IF k # w.key THEN D[k] ELSE [D[k] EXCEPT ![w.field] = w.value]]
  BY <1>1, <1>2, <1>3, <1>4 DEF Apply, RecordAt
<1>6. Apply(D, w) \in [Ids -> [Fields -> AnyValue]] BY <1>1, <1>3, <1>5
<1>7. \A u \in Ids, f \in Fields :
        Apply(D, w)[u][f] = IF w.key = u /\ w.field = f THEN w.value ELSE D[u][f]
  BY <1>1, <1>3, <1>5
<1>8. \A u \in Ids, f \in Fields : Apply(D, w)[u][f] \in Possible(e, u, f)
  BY <1>1, <1>3, <1>7
<1> QED BY <1>6, <1>7, <1>8 DEF DataFor

(* The server applies the next write of a queue.                           *)
LEMMA ApplySettles ==
  ASSUME NEW e, e \in [Ids -> Nat], NEW D \in DataFor(e), NEW ws \in Seq(WritesFor(e)),
         NEW n \in Nat, n < Len(ws), NEW u \in Ids, NEW f \in Fields, NEW v,
         Settled(ws, n, D, u, f, v)
  PROVE  Settled(ws, n + 1, Apply(D, ws[n + 1]), u, f, v)
<1> DEFINE w == ws[n + 1]
<1>1. n + 1 \in 1..Len(ws) /\ w \in WritesFor(e) /\ Len(ws) \in Nat OBVIOUS
<1>2. Apply(D, w)[u][f] = IF Hit(ws, n + 1, u, f) THEN w.value ELSE D[u][f]
  <2>1. w \in WritesFor(e) BY <1>1
  <2>2. Hit(ws, n + 1, u, f) <=> w.key = u /\ w.field = f BY DEF Hit
  <2> HIDE DEF w
  <2>3. \A x \in Ids, g \in Fields :
          Apply(D, w)[x][g] = IF w.key = x /\ w.field = g THEN w.value ELSE D[x][g]
    BY <2>1, ApplyChanges
  <2> QED BY <2>2, <2>3
<1>3. ASSUME Clear(ws, n + 1, u, f) PROVE Apply(D, w)[u][f] = v
  <2>1. \A i \in (n + 2)..Len(ws) : ~ Hit(ws, i, u, f)
    BY <1>3 DEF Clear
  <2>2. CASE Hit(ws, n + 1, u, f)
    <3>1. \A j \in ((n + 1) + 1)..Len(ws) : ~ Hit(ws, j, u, f) BY <2>1
    <3>2. w.value = v BY <1>1, <2>2, <3>1 DEF Settled, Ends
    <3> QED BY <3>2, <2>2, <1>2
  <2>3. CASE ~ Hit(ws, n + 1, u, f)
    <3>1. \A i \in (n + 1)..Len(ws) : i = n + 1 \/ i \in (n + 2)..Len(ws) OBVIOUS
    <3>2. Clear(ws, n, u, f) BY <2>1, <2>3, <3>1 DEF Clear
    <3> QED BY <3>2, <2>3, <1>2 DEF Settled
  <2> QED BY <2>2, <2>3
<1> QED BY <1>3 DEF Settled

(* Fewer writes counted as applied.                                        *)
LEMMA ResendSettles ==
  ASSUME NEW ws, NEW n \in Nat, NEW D, NEW u, NEW f
  PROVE  /\ Clear(ws, 0, u, f) => Clear(ws, n, u, f)
         /\ \A v : Settled(ws, n, D, u, f, v) => Settled(ws, 0, D, u, f, v)
<1>1. Clear(ws, 0, u, f) => Clear(ws, n, u, f)
  <2> SUFFICES ASSUME Clear(ws, 0, u, f), NEW i \in (n + 1)..Len(ws) PROVE ~ Hit(ws, i, u, f)
    BY DEF Clear
  <2>1. i \in (0 + 1)..Len(ws) OBVIOUS
  <2> QED BY <2>1 DEF Clear
<1> QED BY <1>1 DEF Settled

(* A write to another child leaves what is settled; a write to the child   *)
(* settles it.                                                             *)
LEMMA AppendSettled ==
  ASSUME NEW S, NEW ws \in Seq(S), NEW w \in S, NEW n \in Nat, n <= Len(ws), NEW D, NEW u, NEW f
  PROVE  /\ \A v : Settled(ws, n, D, u, f, v) /\ ~ (w.key = u /\ w.field = f)
                 => Settled(Append(ws, w), n, D, u, f, v)
         /\ w.key = u /\ w.field = f => Settled(Append(ws, w), n, D, u, f, w.value)
<1>1. /\ Clear(Append(ws, w), n, u, f) <=> Clear(ws, n, u, f) /\ ~ (w.key = u /\ w.field = f)
      /\ \A v : Ends(ws, u, f, v) /\ ~ (w.key = u /\ w.field = f) => Ends(Append(ws, w), u, f, v)
      /\ w.key = u /\ w.field = f => Ends(Append(ws, w), u, f, w.value)
  BY AppendSettles
<1> QED BY <1>1 DEF Settled

-----------------------------------------------------------------------------
(* 2. Types. *)

(* A sequence all of whose elements are in B is a sequence of B.           *)
LEMMA SeqIntro ==
  ASSUME NEW A, NEW B, NEW s \in Seq(A), \A i \in 1..Len(s) : s[i] \in B
  PROVE  s \in Seq(B)
<1>1. Len(s) \in Nat /\ s = [i \in 1..Len(s) |-> s[i]] OBVIOUS
<1>2. [i \in 1..Len(s) |-> s[i]] \in [1..Len(s) -> B] OBVIOUS
<1>3. [1..Len(s) -> B] \subseteq Seq(B) BY <1>1
<1> QED BY <1>1, <1>2, <1>3

(* The elements of a concatenation.                                        *)
LEMMA ConcatFacts ==
  ASSUME NEW A, NEW s \in Seq(A), NEW t \in Seq(A)
  PROVE  /\ s \o t \in Seq(A) /\ Len(s \o t) = Len(s) + Len(t)
         /\ DOMAIN s = 1..Len(s) /\ DOMAIN (s \o t) = 1..(Len(s) + Len(t))
         /\ \A i \in 1..(Len(s) + Len(t)) :
              \/ i \in 1..Len(s) /\ (s \o t)[i] = s[i]
              \/ i - Len(s) \in 1..Len(t) /\ (s \o t)[i] = t[i - Len(s)]
OBVIOUS

(* The first element and the others.                                       *)
LEMMA TailFacts ==
  ASSUME NEW A, NEW s \in Seq(A), s # << >>
  PROVE  /\ Tail(s) \in Seq(A) /\ Len(Tail(s)) = Len(s) - 1
         /\ Head(s) \in A /\ Head(s) = s[1] /\ 1 \in DOMAIN s
         /\ DOMAIN s = 1..Len(s) /\ DOMAIN Tail(s) = 1..(Len(s) - 1)
         /\ \A i \in DOMAIN Tail(s) : i + 1 \in DOMAIN s /\ Tail(s)[i] = s[i + 1]
OBVIOUS

(* The last element and the others.                                        *)
LEMMA FrontFacts ==
  ASSUME NEW A, NEW s \in Seq(A), s # << >>
  PROVE  /\ Front(s) \in Seq(A) /\ DOMAIN Front(s) = 1..(Len(s) - 1)
         /\ \A i \in DOMAIN Front(s) : i \in DOMAIN s /\ Front(s)[i] = s[i]
         /\ Last(s) \in A /\ Last(s) = s[Len(s)] /\ Len(s) \in DOMAIN s /\ DOMAIN s = 1..Len(s)
<1>1. Len(s) \in Nat /\ Len(s) > 0 /\ DOMAIN s = 1..Len(s) OBVIOUS
<1>2. SubSeq(s, 1, Len(s) - 1) = [i \in 1..(Len(s) - 1) |-> s[i]]
  BY <1>1
<1>3. Front(s) \in Seq(A) /\ DOMAIN Front(s) = 1..(Len(s) - 1)
  BY <1>1, <1>2 DEF Front
<1>4. \A i \in DOMAIN Front(s) : i \in DOMAIN s /\ Front(s)[i] = s[i]
  BY <1>1, <1>2, <1>3 DEF Front
<1> QED BY <1>1, <1>3, <1>4 DEF Last

(* What was possible stays possible when more has been earned.             *)
LEMMA GrowTypes ==
  ASSUME NEW e, NEW g, e \in [Ids -> Nat], g \in [Ids -> Nat], \A u \in Ids : e[u] <= g[u]
  PROVE  /\ DataFor(e) \subseteq DataFor(g)
         /\ WritesFor(e) \subseteq WritesFor(g) /\ Seq(WritesFor(e)) \subseteq Seq(WritesFor(g))
         /\ EventsFor(e) \subseteq EventsFor(g) /\ Seq(EventsFor(e)) \subseteq Seq(EventsFor(g))
         /\ HomesFor(e) \subseteq HomesFor(g) /\ Seq(HomesFor(e)) \subseteq Seq(HomesFor(g))
<1>1. \A u \in Ids : \A f : Possible(e, u, f) \subseteq Possible(g, u, f)
  <2>1. \A u \in Ids : e[u] \in Nat /\ g[u] \in Nat OBVIOUS
  <2> QED BY <2>1 DEF Possible
<1>2. DataFor(e) \subseteq DataFor(g) BY <1>1 DEF DataFor
<1>3. WritesFor(e) \subseteq WritesFor(g) BY <1>1 DEF WritesFor
<1>4. EventsFor(e) \subseteq EventsFor(g) BY <1>2 DEF EventsFor
<1>5. HomesFor(e) \subseteq HomesFor(g) BY DEF HomesFor
<1>6. ASSUME NEW A, NEW B, A \subseteq B PROVE Seq(A) \subseteq Seq(B)
  <2> SUFFICES ASSUME NEW s \in Seq(A) PROVE s \in Seq(B) OBVIOUS
  <2>1. \A i \in 1..Len(s) : s[i] \in B BY <1>6
  <2> QED BY <2>1, SeqIntro
<1> QED BY <1>2, <1>3, <1>4, <1>5, <1>6

(* What a device reads has every account, and possible values.             *)
LEMMA OverlayType ==
  ASSUME NEW e, e \in [Ids -> Nat], NEW D \in DataFor(e), NEW ws \in Seq(WritesFor(e))
  PROVE  Overlay(D, ws) \in DataFor(e)
<1>1. D \in [Ids -> [Fields -> AnyValue]] /\ \A u \in Ids : \A f \in Fields : D[u][f] \in Possible(e, u, f)
  BY DEF DataFor
<1>2. /\ Len(ws) \in Nat /\ DOMAIN ws = 1..Len(ws) /\ DOMAIN D = Ids
      /\ \A i \in 1..Len(ws) : ws[i] \in WritesFor(e)
  BY <1>1
<1>3. \A i \in 1..Len(ws) : /\ ws[i].key \in Ids /\ ws[i].field \in Fields /\ ws[i].value \in AnyValue
                            /\ ws[i].value \in Possible(e, ws[i].key, ws[i].field)
  BY <1>2 DEF WritesFor
<1>4. \A i \in 1..Len(ws) : ws[i].field \in Fields BY <1>3
<1>5. KeysOf(ws) \subseteq Ids BY <1>2, <1>3 DEF KeysOf
<1>6. ASSUME NEW u \in Ids, NEW f \in Fields
      PROVE  Shown(D, ws, u, f) \in AnyValue /\ Shown(D, ws, u, f) \in Possible(e, u, f)
  <2>1. CASE Clear(ws, 0, u, f)
    <3>1. Shown(D, ws, u, f) = D[u][f] BY <1>2, <1>4, <1>5, <2>1, ShownClear
    <3> QED BY <3>1, <1>1
  <2>2. CASE ~ Clear(ws, 0, u, f)
    <3>1. PICK i \in 1..Len(ws) : Hit(ws, i, u, f) /\ \A j \in (i + 1)..Len(ws) : ~ Hit(ws, j, u, f)
      BY <1>2, <2>2, ClearOrLast
    <3>2. Shown(D, ws, u, f) = ws[i].value
      <4>1. Len(ws) \in Nat /\ DOMAIN ws = 1..Len(ws) BY <1>2
      <4>2. Hit(ws, i, u, f) /\ \A j \in (i + 1)..Len(ws) : ~ Hit(ws, j, u, f) BY <3>1
      <4> QED BY <4>1, <4>2, <1>4, ShownLast
    <3> QED BY <3>1, <3>2, <1>3 DEF Hit
  <2> QED BY <2>1, <2>2
<1>7. Overlay(D, ws) = [u \in Ids |-> [f \in Fields |-> Shown(D, ws, u, f)]]
  BY <1>2, <1>4, <1>5, OverlayFields
<1> QED BY <1>6, <1>7 DEF DataFor

(* The types imply the ones that TLC checks.                               *)
LEMMA TypeInvImpliesTypeOK == TypeInv => TypeOK
<1> SUFFICES ASSUME TypeInv PROVE TypeOK OBVIOUS
<1> USE DEF TypeInv, SdkType, AppType
<1>1. \A u \in Ids : earned[u] \in 0..MaxTaps /\ MaxTaps \in Nat BY SessionsAssumption
<1>2. ASSUME NEW D \in DataFor(earned) PROVE IsData(D) /\ DOMAIN D = Ids
  <2>1. D \in [Ids -> [Fields -> AnyValue]] /\ \A u \in Ids : \A f \in Fields : D[u][f] \in Possible(earned, u, f)
    BY DEF DataFor
  <2>2. ASSUME NEW u \in Ids
        PROVE  /\ DOMAIN D[u] = Fields
               /\ D[u].password \in Passwords
               /\ D[u].totalExp \in 0..MaxTaps
               /\ {D[u].latitude, D[u].longitude} \subseteq Places \cup {Missing}
    <3>1. {"password", "totalExp", "latitude", "longitude"} \subseteq Fields BY SessionsAssumption
    <3>2. D[u]["password"] \in Passwords BY <2>1, <3>1 DEF Possible
    <3>3. D[u]["totalExp"] \in 0..earned[u] BY <2>1, <3>1 DEF Possible
    <3>4. D[u]["latitude"] \in Spots /\ D[u]["longitude"] \in Spots BY <2>1, <3>1 DEF Possible
    <3> QED BY <2>1, <3>2, <3>3, <3>4, <1>1 DEF Spots
  <2> QED BY <2>1, <2>2 DEF IsData
<1>3. WritesFor(earned) \subseteq Writes
  <2> SUFFICES ASSUME NEW w \in WritesFor(earned) PROVE w \in Writes OBVIOUS
  <2>1. w \in [key : Ids, field : Fields, value : AnyValue] /\ w.value \in Possible(earned, w.key, w.field)
    BY DEF WritesFor
  <2>2. w.value \in Value
    BY <2>1, <1>1 DEF Possible, Value, Spots
  <2> QED BY <2>1, <2>2 DEF Writes
<1>4. ASSUME NEW h \in HomesFor(earned)
      PROVE  /\ h.login \in 1..MaxTaps /\ h.id \in Ids /\ h.total \in 0..MaxTaps
             /\ h.place \in Places \cup {Missing}
             /\ h.opened \in 0..MaxTaps
             /\ h.form \in {"closed", "open", "changed", "refused"}
  BY <1>1 DEF HomesFor, Forms, Spots
<1>5. ASSUME NEW d \in Devices
      PROVE  /\ \A i \in DOMAIN puts[d] : puts[d][i] \in Writes
             /\ applied[d] \in 0..Len(puts[d])
             /\ IsData(cache[d])
             /\ \A i \in DOMAIN events[d] : IsData(events[d][i].snap) /\ DOMAIN events[d][i].snap = Ids
             /\ \A i \in DOMAIN homes[d] : homes[d][i] \in HomesFor(earned)
  <2>1. \A i \in DOMAIN puts[d] : puts[d][i] \in Writes
    <3>1. \A i \in DOMAIN puts[d] : puts[d][i] \in WritesFor(earned) OBVIOUS
    <3> QED BY <3>1, <1>3
  <2>2. applied[d] \in 0..Len(puts[d]) OBVIOUS
  <2>3. IsData(cache[d])
    <3>1. CASE cache[d] = NoRecords BY <3>1 DEF IsData
    <3> QED BY <3>1, <1>2
  <2>4. \A i \in DOMAIN events[d] : IsData(events[d][i].snap) /\ DOMAIN events[d][i].snap = Ids
    <3>1. \A i \in DOMAIN events[d] : events[d][i] \in EventsFor(earned) OBVIOUS
    <3> QED BY <3>1, <1>2 DEF EventsFor
  <2>5. \A i \in DOMAIN homes[d] : homes[d][i] \in HomesFor(earned) OBVIOUS
  <2> QED BY <2>1, <2>2, <2>3, <2>4, <2>5
<1>6. IsData(db) /\ DOMAIN db = Ids BY <1>2
<1> QED BY <1>4, <1>5, <1>6 DEF TypeOK

(* Starting one read is starting a sequence of one.                        *)
LEMMA ObserveOne ==
  ASSUME TypeInv, NEW d \in Devices, NEW cb \in Callbacks, Observe(d, events[d], cb)
  PROVE  ObserveAll(d, <<cb>>)
<1>1. events \in [Devices -> Seq(EventsFor(earned))] /\ waiting \in [Devices -> Seq(Callbacks)]
  BY DEF TypeInv, SdkType
<1>2. CASE events[d] # << >>
  <2> DEFINE e == [cb |-> cb, snap |-> Overlay(cache[d], puts[d])]
  <2>1. events' = [events EXCEPT ![d] = Append(events[d], e)] /\ UNCHANGED <<waiting, cache>>
    BY <1>2 DEF Observe
  <2>2. e \in EventsFor(earned)
    <3>1. cache[d] \in DataFor(earned) /\ puts[d] \in Seq(WritesFor(earned)) /\ earned \in [Ids -> Nat]
      BY <1>2 DEF TypeInv, SdkType, AppType
    <3> QED BY <3>1, OverlayType DEF EventsFor
  <2>3. [i \in DOMAIN <<cb>> |-> [cb |-> <<cb>>[i], snap |-> Overlay(cache[d], puts[d])]] = <<e>>
    OBVIOUS
  <2> HIDE DEF e
  <2>4. Append(events[d], e) = events[d] \o <<e>> BY <1>1, <2>2
  <2> QED BY <1>2, <2>1, <2>3, <2>4 DEF ObserveAll
<1>3. CASE events[d] = << >>
  <2>1. /\ events' = [events EXCEPT ![d] = events[d]]
        /\ waiting' = [waiting EXCEPT ![d] = Append(waiting[d], cb)]
        /\ cache' = [cache EXCEPT ![d] = NoRecords]
    BY <1>3 DEF Observe
  <2>2. Append(waiting[d], cb) = waiting[d] \o <<cb>> /\ events' = events BY <1>1, <2>1
  <2> QED BY <1>3, <2>1, <2>2 DEF ObserveAll
<1> QED BY <1>2, <1>3

(* The events of reads answered from the view, in the order of the reads.  *)
Answered(es, d, cbs) ==
  /\ es \in Seq(EventsFor(earned)) /\ Len(es) = Len(cbs)
  /\ \A i \in 1..Len(cbs) : es[i].cb = cbs[i] /\ es[i].snap = Overlay(cache[d], puts[d])

(* Starting reads: with a complete view they are answered from it, else    *)
(* they wait.                                                              *)
LEMMA ReadsStarted ==
  ASSUME TypeInv, NEW d \in Devices, NEW cbs \in Seq(Callbacks), ObserveAll(d, cbs)
  PROVE  \/ /\ events[d] # << >> /\ waiting' = waiting /\ cache' = cache
            /\ \E es : Answered(es, d, cbs) /\ events' = [events EXCEPT ![d] = events[d] \o es]
         \/ /\ events[d] = << >> /\ events' = events
            /\ waiting' = [waiting EXCEPT ![d] = waiting[d] \o cbs]
            /\ cache' = [cache EXCEPT ![d] = NoRecords]
<1>1. CASE events[d] # << >>
  <2> DEFINE es == [i \in DOMAIN cbs |-> [cb |-> cbs[i], snap |-> Overlay(cache[d], puts[d])]]
  <2>1. Overlay(cache[d], puts[d]) \in DataFor(earned)
    <3>1. cache[d] \in DataFor(earned) /\ puts[d] \in Seq(WritesFor(earned)) /\ earned \in [Ids -> Nat]
      BY <1>1 DEF TypeInv, SdkType, AppType
    <3> QED BY <3>1, OverlayType
  <2>2. \A i \in DOMAIN cbs : es[i] \in EventsFor(earned) BY <2>1 DEF EventsFor
  <2>3. DOMAIN cbs = 1..Len(cbs) /\ Len(cbs) \in Nat OBVIOUS
  <2>4. es \in [1..Len(cbs) -> EventsFor(earned)] BY <2>2, <2>3
  <2>5. es \in Seq(EventsFor(earned)) /\ Len(es) = Len(cbs) BY <2>3, <2>4
  <2>6. Answered(es, d, cbs) BY <2>3, <2>5 DEF Answered
  <2>7. events' = [events EXCEPT ![d] = events[d] \o es] /\ waiting' = waiting /\ cache' = cache
    BY <1>1 DEF ObserveAll
  <2> HIDE DEF es
  <2> QED BY <1>1, <2>6, <2>7
<1>2. CASE events[d] = << >>
  BY <1>2 DEF ObserveAll
<1> QED BY <1>1, <1>2

(* The reads and the events there are after starting reads.                *)
LEMMA ReadsElements ==
  ASSUME TypeInv, NEW d \in Devices, NEW cbs \in Seq(Callbacks), ObserveAll(d, cbs)
  PROVE  /\ \A e \in Devices : e # d => waiting'[e] = waiting[e] /\ events'[e] = events[e] /\ cache'[e] = cache[e]
         /\ \A i \in DOMAIN waiting'[d] :
              \/ i \in DOMAIN waiting[d] /\ waiting'[d][i] = waiting[d][i]
              \/ \E j \in 1..Len(cbs) : i = Len(waiting[d]) + j /\ waiting'[d][i] = cbs[j]
         /\ \A i \in DOMAIN events'[d] :
              \/ i \in DOMAIN events[d] /\ events'[d][i] = events[d][i]
              \/ \E j \in 1..Len(cbs) :
                   /\ i = Len(events[d]) + j /\ events[d] # << >>
                   /\ events'[d][i].cb = cbs[j] /\ events'[d][i].snap = Overlay(cache[d], puts[d])
         /\ events'[d] # << >> => events[d] # << >> /\ cache'[d] = cache[d]
<1>0. /\ waiting \in [Devices -> Seq(Callbacks)] /\ events \in [Devices -> Seq(EventsFor(earned))]
      /\ cache \in [Devices -> DataFor(earned) \cup {NoRecords}]
  BY DEF TypeInv, SdkType
<1>1. CASE events[d] # << >>
  <2>1. PICK es : Answered(es, d, cbs) /\ events' = [events EXCEPT ![d] = events[d] \o es]
    BY <1>1, ReadsStarted
  <2>2. waiting' = waiting /\ cache' = cache BY <1>1, ReadsStarted
  <2>3. events[d] \in Seq(EventsFor(earned)) /\ events'[d] = events[d] \o es BY <1>0, <2>1
  <2>4. es \in Seq(EventsFor(earned)) /\ Len(es) = Len(cbs) BY <2>1 DEF Answered
  <2>5. \A i \in DOMAIN (events[d] \o es) :
          \/ i \in DOMAIN events[d] /\ (events[d] \o es)[i] = events[d][i]
          \/ i - Len(events[d]) \in 1..Len(es) /\ (events[d] \o es)[i] = es[i - Len(events[d])]
    BY <2>3, <2>4, ConcatFacts
  <2>6. \A i \in DOMAIN (events[d] \o es) : i \in Int /\ Len(events[d]) \in Nat
    BY <2>3, <2>4
  <2>7. \A j \in 1..Len(cbs) : es[j].cb = cbs[j] /\ es[j].snap = Overlay(cache[d], puts[d])
    BY <2>1 DEF Answered
  <2>8. ASSUME NEW i \in DOMAIN events'[d], ~ (i \in DOMAIN events[d] /\ events'[d][i] = events[d][i])
        PROVE  \E j \in 1..Len(cbs) :
                   /\ i = Len(events[d]) + j
                   /\ events'[d][i].cb = cbs[j] /\ events'[d][i].snap = Overlay(cache[d], puts[d])
    <3> DEFINE j == i - Len(events[d])
    <3>1. j \in 1..Len(cbs) /\ events'[d][i] = es[j] BY <2>3, <2>4, <2>5, <2>8
    <3>2. i = Len(events[d]) + j BY <2>3, <2>6
    <3> HIDE DEF j
    <3> QED BY <2>7, <3>1, <3>2
  <2> QED BY <1>0, <1>1, <2>1, <2>2, <2>8
<1>2. CASE events[d] = << >>
  <2>1. events' = events /\ waiting' = [waiting EXCEPT ![d] = waiting[d] \o cbs]
        /\ cache' = [cache EXCEPT ![d] = NoRecords]
    BY <1>2, ReadsStarted
  <2>2. waiting[d] \in Seq(Callbacks) /\ waiting'[d] = waiting[d] \o cbs BY <1>0, <2>1
  <2>3. ASSUME NEW i \in DOMAIN waiting'[d], ~ (i \in DOMAIN waiting[d] /\ waiting'[d][i] = waiting[d][i])
        PROVE  \E j \in 1..Len(cbs) : i = Len(waiting[d]) + j /\ waiting'[d][i] = cbs[j]
    <3> DEFINE j == i - Len(waiting[d])
    <3>1. j \in 1..Len(cbs) /\ waiting'[d][i] = cbs[j] /\ i \in Int /\ Len(waiting[d]) \in Nat
      BY <2>2, <2>3, ConcatFacts
    <3>2. i = Len(waiting[d]) + j BY <3>1
    <3> HIDE DEF j
    <3> QED BY <3>1, <3>2
  <2> QED BY <1>0, <1>2, <2>1, <2>3
<1> QED BY <1>1, <1>2

(* Starting reads keeps the types.                                         *)
LEMMA ReadsType ==
  ASSUME TypeInv, NEW d \in Devices, NEW cbs \in Seq(Callbacks), ObserveAll(d, cbs),
         UNCHANGED <<db, puts, applied, drops, earned>>
  PROVE  SdkType'
<1> USE DEF TypeInv, SdkType
<1>1. CASE events[d] # << >>
  <2>1. PICK es : Answered(es, d, cbs) /\ events' = [events EXCEPT ![d] = events[d] \o es]
    BY <1>1, ReadsStarted
  <2>2. waiting' = waiting /\ cache' = cache BY <1>1, ReadsStarted
  <2>3. events[d] \o es \in Seq(EventsFor(earned)) BY <2>1 DEF Answered
  <2> QED BY <1>1, <2>1, <2>2, <2>3
<1>2. CASE events[d] = << >>
  <2>1. /\ events' = events
        /\ waiting' = [waiting EXCEPT ![d] = waiting[d] \o cbs]
        /\ cache' = [cache EXCEPT ![d] = NoRecords]
    BY <1>2, ReadsStarted
  <2>2. waiting[d] \o cbs \in Seq(Callbacks) OBVIOUS
  <2> QED BY <1>2, <2>1, <2>2
<1> QED BY <1>1, <1>2

(* The callback at the head of the queue and what it is given.             *)
LEMMA HeadType ==
  ASSUME TypeInv, NEW d \in Devices, events[d] # << >>
  PROVE  /\ Head(events[d]) = events[d][1] /\ 1 \in DOMAIN events[d]
         /\ Head(events[d]).cb \in Callbacks /\ Head(events[d]).snap \in DataFor(earned)
         /\ Head(events[d]).cb.id \in Ids
<1>1. events[d] \in Seq(EventsFor(earned)) BY DEF TypeInv, SdkType
<1>2. Head(events[d]) = events[d][1] /\ 1 \in DOMAIN events[d] /\ Head(events[d]) \in EventsFor(earned)
  BY <1>1, TailFacts
<1>3. Head(events[d]).cb \in Callbacks /\ Head(events[d]).snap \in DataFor(earned)
  BY <1>2 DEF EventsFor
<1>4. Head(events[d]).cb.id \in Ids
  BY <1>3 DEF Callbacks, LoginCbs, ChangeCbs, LocateCbs, PlayersCbs
<1> QED BY <1>2, <1>3, <1>4

(* Which callback an operation's name stands for.                          *)
LEMMA CallbackKinds ==
  ASSUME NEW cb \in Callbacks
  PROVE  /\ cb.op = "login" => cb \in LoginCbs
         /\ cb.op = "change" => cb \in ChangeCbs
         /\ cb.op = "locate" => cb \in LocateCbs
         /\ cb.op = "players" => cb \in PlayersCbs
BY DEF Callbacks, LoginCbs, ChangeCbs, LocateCbs, PlayersCbs

(* Handling an event, with more writes perhaps, keeps the types.           *)
LEMMA ConsumeType ==
  ASSUME TypeInv, NEW d \in Devices, events[d] # << >>, Consume(d),
         UNCHANGED <<db, applied, waiting, drops, earned>>,
         puts' \in [Devices -> Seq(WritesFor(earned))],
         \A e \in Devices : Len(puts'[e]) >= Len(puts[e])
  PROVE  SdkType'
<1> USE DEF TypeInv, SdkType
<1>1. /\ events' = [events EXCEPT ![d] = Tail(events[d])]
      /\ cache' = [cache EXCEPT ![d] = IF Len(events[d]) = 1 THEN NoRecords ELSE cache[d]]
  BY DEF Consume
<1>2. Tail(events[d]) \in Seq(EventsFor(earned)) /\ Len(Tail(events[d])) = Len(events[d]) - 1
  BY TailFacts
<1>3. Tail(events[d]) # << >> => Len(events[d]) # 1
  <2>1. \A t \in Seq(EventsFor(earned)) : Len(t) = 0 => t = << >> OBVIOUS
  <2>2. Len(events[d]) = 1 => Len(Tail(events[d])) = 0 BY <1>2
  <2>3. Len(events[d]) = 1 => Tail(events[d]) = << >> BY <1>2, <2>1, <2>2
  <2> QED BY <2>3
<1>4. \A e \in Devices : applied[e] <= Len(puts'[e])
  <2>1. \A e \in Devices : /\ applied[e] <= Len(puts[e]) /\ Len(puts[e]) \in Nat
                           /\ Len(puts'[e]) \in Nat /\ applied[e] \in Nat
    OBVIOUS
  <2> QED BY <2>1
<1>5. \A e \in Devices : events'[e] # << >> => waiting'[e] = << >> /\ cache'[e] \in DataFor(earned)
  <2> SUFFICES ASSUME NEW e \in Devices, events'[e] # << >>
               PROVE  waiting[e] = << >> /\ cache'[e] \in DataFor(earned)
    OBVIOUS
  <2>1. CASE e = d BY <1>1, <1>3, <2>1
  <2>2. CASE e # d BY <1>1, <2>2
  <2> QED BY <2>1, <2>2
<1>6. /\ events' \in [Devices -> Seq(EventsFor(earned))]
      /\ cache' \in [Devices -> DataFor(earned) \cup {NoRecords}]
  BY <1>1, <1>2
<1> QED BY <1>4, <1>5, <1>6

(* The SDK's own steps keep the types.                                     *)
LEMMA SdkStepType ==
  ASSUME TypeInv, NEW d \in Devices, SdkStep(d)
  PROVE  TypeInv'
<1> USE DEF TypeInv
<1>0. UNCHANGED appVars /\ AppType' /\ earned' = earned /\ earned \in [Ids -> Nat]
  BY DEF SdkStep, appVars, boundVars, history, AppType
<1>1. CASE DataArrives(d)
  <2> DEFINE ev(i) == [cb |-> waiting[d][i], snap |-> Overlay(db, puts[d])]
  <2>1. waiting[d] \in Seq(Callbacks) /\ db \in DataFor(earned) /\ puts[d] \in Seq(WritesFor(earned))
    BY DEF SdkType
  <2>2. \A i \in DOMAIN waiting[d] : waiting[d][i] \in Callbacks BY <2>1
  <2>3. Overlay(db, puts[d]) \in DataFor(earned) BY <1>0, <2>1, OverlayType
  <2>4. \A i \in DOMAIN waiting[d] : ev(i) \in EventsFor(earned) BY <2>2, <2>3 DEF EventsFor
  <2>5. /\ events' = [events EXCEPT ![d] = [i \in DOMAIN waiting[d] |-> ev(i)]]
        /\ waiting' = [waiting EXCEPT ![d] = << >>]
        /\ cache' = [cache EXCEPT ![d] = db]
        /\ UNCHANGED <<db, puts, applied, drops>>
    BY <1>1 DEF DataArrives
  <2> HIDE DEF ev
  <2>6. Len(waiting[d]) \in Nat /\ DOMAIN waiting[d] = 1..Len(waiting[d]) BY <2>1
  <2>7. [i \in DOMAIN waiting[d] |-> ev(i)] \in Seq(EventsFor(earned)) BY <2>4, <2>6
  <2>8. SdkType' BY <1>0, <2>1, <2>5, <2>7 DEF SdkType
  <2> QED BY <1>0, <2>8
<1>2. CASE Push(d)
  BY <1>0, <1>2 DEF Push, SdkType
<1>3. CASE ServerApply(d)
  <2>1. /\ applied[d] \in Nat /\ applied[d] < Len(puts[d]) /\ puts[d] \in Seq(WritesFor(earned))
        /\ db' = Apply(db, puts[d][applied[d] + 1])
        /\ applied' = [applied EXCEPT ![d] = applied[d] + 1]
        /\ UNCHANGED <<puts, waiting, events, cache, drops>>
    BY <1>3 DEF ServerApply, SdkType
  <2>2. puts[d][applied[d] + 1] \in WritesFor(earned) BY <2>1
  <2>3. db' \in DataFor(earned) BY <1>0, <2>1, <2>2, ApplyChanges DEF SdkType
  <2>4. SdkType' BY <1>0, <2>1, <2>3 DEF SdkType
  <2> QED BY <1>0, <2>4
<1>4. CASE AckPut(d)
  <2>1. /\ applied[d] \in Nat /\ applied[d] > 0 /\ applied[d] <= Len(puts[d])
        /\ puts[d] \in Seq(WritesFor(earned))
        /\ puts' = [puts EXCEPT ![d] = Tail(puts[d])]
        /\ applied' = [applied EXCEPT ![d] = applied[d] - 1]
        /\ cache' = [cache EXCEPT ![d] = IF events[d] # << >> THEN db ELSE cache[d]]
        /\ UNCHANGED <<db, waiting, events, drops>>
    BY <1>4 DEF AckPut, SdkType
  <2>2. Tail(puts[d]) \in Seq(WritesFor(earned)) /\ Len(Tail(puts[d])) = Len(puts[d]) - 1
    <3>1. puts[d] # << >> BY <2>1
    <3> QED BY <2>1, <3>1, TailFacts
  <2>3. SdkType' BY <1>0, <2>1, <2>2 DEF SdkType
  <2> QED BY <1>0, <2>3
<1>5. CASE Disconnect(d)
  <2>1. drops' \in 0..MaxDrops BY <1>5, SessionsAssumption DEF Disconnect, SdkType
  <2>2. applied' = [applied EXCEPT ![d] = 0] /\ UNCHANGED <<db, puts, waiting, events, cache>>
    BY <1>5 DEF Disconnect
  <2>3. \A e \in Devices : applied'[e] <= Len(puts[e])
    <3>1. \A e \in Devices : Len(puts[e]) \in Nat BY DEF SdkType
    <3> QED BY <2>2, <3>1 DEF SdkType
  <2>4. SdkType' BY <1>0, <2>1, <2>2, <2>3 DEF SdkType
  <2> QED BY <1>0, <2>4
<1> QED BY <1>1, <1>2, <1>3, <1>4, <1>5 DEF SdkStep, CollectionNext

(* The visible TabBarVC.                                                   *)
LEMMA TopFacts ==
  ASSUME TypeInv, NEW d \in Devices, TopForm(d) # "none"
  PROVE  /\ homes[d] \in Seq(HomesFor(earned)) /\ homes[d] # << >>
         /\ Top(d) = homes[d][Len(homes[d])] /\ Len(homes[d]) \in DOMAIN homes[d]
         /\ DOMAIN homes[d] = 1..Len(homes[d]) /\ Len(homes[d]) \in Nat
         /\ Top(d) \in HomesFor(earned) /\ Top(d).id \in Ids
         /\ Top(d).form = TopForm(d)
<1>1. homes[d] \in Seq(HomesFor(earned)) BY DEF TypeInv, AppType
<1>2. homes[d] # << >> BY DEF TopForm
<1>3. Top(d) \in HomesFor(earned) /\ Top(d) = homes[d][Len(homes[d])] /\ Len(homes[d]) \in DOMAIN homes[d]
  BY <1>1, <1>2, FrontFacts DEF Top
<1> QED BY <1>1, <1>2, <1>3 DEF HomesFor, TopForm

(* Changing the visible TabBarVC changes no other.                         *)
LEMMA SetTopFacts ==
  ASSUME TypeInv, NEW d \in Devices, TopForm(d) # "none", NEW g, NEW h \in HomesFor(g),
         HomesFor(earned) \subseteq HomesFor(g), SetTop(d, h)
  PROVE  /\ homes' = [homes EXCEPT ![d] = homes'[d]] /\ homes'[d] \in Seq(HomesFor(g))
         /\ Len(homes'[d]) = Len(homes[d]) /\ DOMAIN homes'[d] = DOMAIN homes[d]
         /\ homes'[d][Len(homes[d])] = h
         /\ \A i \in DOMAIN homes[d] : i # Len(homes[d]) => homes'[d][i] = homes[d][i]
<1> DEFINE s == homes[d]
           n == Len(homes[d])
           t == [s EXCEPT ![n] = h]
<1>1. s \in Seq(HomesFor(earned)) /\ n \in DOMAIN s /\ DOMAIN s = 1..n /\ n \in Nat BY TopFacts
<1>2. homes' = [homes EXCEPT ![d] = t] /\ homes'[d] = t
  BY DEF SetTop, TypeInv, AppType
<1> HIDE DEF s
<1>3. /\ t \in [1..n -> HomesFor(g)] /\ DOMAIN t = 1..n
      /\ t[n] = h /\ \A i \in 1..n : i # n => t[i] = s[i]
  <2> HIDE DEF n
  <2> QED BY <1>1
<1>4. t \in Seq(HomesFor(g)) /\ Len(t) = n
  <2> HIDE DEF t, n
  <2> QED BY <1>1, <1>3
<1> HIDE DEF t, n
<1> QED BY <1>1, <1>2, <1>3, <1>4 DEF s, n

(* The shapes of steps that the invariants tell apart: what is edited in a *)
(* screen, and what reads are started.                                     *)
Alike(h, g) == h.login = g.login /\ h.id = g.id /\ h.total = g.total /\ h.others = g.others
HomesAlike(d) ==
  /\ homes' = [homes EXCEPT ![d] = homes'[d]]
  /\ homes'[d] \in Seq(HomesFor(earned)) /\ DOMAIN homes'[d] = DOMAIN homes[d]
  /\ \A i \in DOMAIN homes[d] : Alike(homes'[d][i], homes[d][i])

LoginShape(cbs) ==
  /\ Len(cbs) = 1 /\ cbs[1] \in LoginCbs /\ cbs[1].login = taps + 1
  /\ homes' = homes
AskShape(d, cbs) ==
  /\ HomesAlike(d)
  /\ \A i \in 1..Len(cbs) : cbs[i].op \in {"change", "locate"}
SetUpShape(d, cbs) ==
  /\ \E h \in HomesFor(earned) : /\ SetTop(d, h) /\ h.login = Top(d).login /\ h.id = Top(d).id
                                 /\ h.total = Top(d).total /\ h.others = NoOthers
  /\ Len(cbs) >= 1 /\ cbs[1].op = "players" /\ cbs[1].login = Top(d).login
  /\ \A i \in 2..Len(cbs) : cbs[i].op = "locate"
ReadShape(d, cbs) ==
  /\ cbs \in Seq(Callbacks) /\ ObserveAll(d, cbs)
  /\ taps < MaxTaps /\ taps' = taps + 1
  /\ UNCHANGED <<db, puts, applied, drops, kills, earned, usedBy, chosen, contested, lost>>
  /\ \/ LoginShape(cbs)
     \/ /\ TopForm(d) # "none" /\ \A i \in 1..Len(cbs) : cbs[i].id = Top(d).id
        /\ AskShape(d, cbs) \/ SetUpShape(d, cbs)

(* A visible TabBarVC with the same account and annotations.               *)
LEMMA SetTopAlike ==
  ASSUME TypeInv, NEW d \in Devices, TopForm(d) # "none", NEW h \in HomesFor(earned),
         Alike(h, Top(d)), SetTop(d, h)
  PROVE  HomesAlike(d)
<1>1. /\ homes' = [homes EXCEPT ![d] = homes'[d]] /\ homes'[d] \in Seq(HomesFor(earned))
      /\ DOMAIN homes'[d] = DOMAIN homes[d]
      /\ homes'[d][Len(homes[d])] = h
      /\ \A i \in DOMAIN homes[d] : i # Len(homes[d]) => homes'[d][i] = homes[d][i]
  BY SetTopFacts
<1>2. Top(d) = homes[d][Len(homes[d])] BY TopFacts
<1>3. \A i \in DOMAIN homes[d] : Alike(homes'[d][i], homes[d][i])
  BY <1>1, <1>2 DEF Alike
<1> QED BY <1>1, <1>3 DEF HomesAlike

(* Screens that do not change are alike.                                   *)
LEMMA SameAlike ==
  ASSUME TypeInv, NEW d \in Devices, homes' = homes
  PROVE  HomesAlike(d)
<1>1. homes' = [homes EXCEPT ![d] = homes'[d]] BY DEF TypeInv, AppType
<1>2. homes'[d] \in Seq(HomesFor(earned)) BY DEF TypeInv, AppType
<1> QED BY <1>1, <1>2 DEF HomesAlike, Alike

(* Every step of the user that asks for data has one of the read shapes.   *)
LEMMA ReadSteps ==
  ASSUME TypeInv, NEW d \in Devices, TapLogin(d) \/ TapChange(d) \/ UpdateLocation(d) \/ ShowMap(d)
  PROVE  \E cbs : ReadShape(d, cbs)
<1>0. taps \in 0..MaxTaps /\ MaxTaps \in Nat BY SessionsAssumption DEF TypeInv, AppType
<1>1. CASE TapLogin(d)
  <2>1. PICK u \in Played, p \in Passwords : Observe(d, events[d], LoginCb(taps + 1, u, p))
    BY <1>1 DEF TapLogin
  <2> DEFINE cb == LoginCb(taps + 1, u, p)
  <2>2. taps < MaxTaps /\ taps' = taps + 1 /\ UNCHANGED <<db, puts, applied, drops, homes, kills, history>>
    BY <1>1 DEF TapLogin, Tap
  <2>3. cb \in LoginCbs /\ cb.login = taps + 1
    BY <1>0, <2>2, SessionsAssumption DEF LoginCb, LoginCbs
  <2> HIDE DEF cb
  <2>4. cb \in Callbacks /\ <<cb>> \in Seq(Callbacks) /\ Len(<<cb>>) = 1 /\ <<cb>>[1] = cb
    BY <2>3 DEF Callbacks
  <2>5. ObserveAll(d, <<cb>>) BY <2>1, <2>4, ObserveOne DEF cb
  <2>6. ReadShape(d, <<cb>>) BY <2>2, <2>3, <2>4, <2>5 DEF ReadShape, LoginShape, history
  <2> QED BY <2>6
<1>2. CASE TapChange(d)
  <2>1. PICK p \in Passwords : Observe(d, events[d], ChangeCb(Top(d).opened, Top(d).id, p))
    BY <1>2 DEF TapChange
  <2> DEFINE cb == ChangeCb(Top(d).opened, Top(d).id, p)
  <2>2. /\ taps < MaxTaps /\ taps' = taps + 1 /\ TopForm(d) # "none"
        /\ UNCHANGED <<db, puts, applied, drops, homes, kills, history>>
    BY <1>2 DEF TapChange, Tap
  <2>3. cb \in ChangeCbs /\ cb.op = "change" /\ cb.id = Top(d).id
    BY <2>2, TopFacts DEF ChangeCb, ChangeCbs, HomesFor
  <2> HIDE DEF cb
  <2>4. cb \in Callbacks /\ <<cb>> \in Seq(Callbacks) /\ Len(<<cb>>) = 1 /\ <<cb>>[1] = cb
    BY <2>3 DEF Callbacks
  <2>5. ObserveAll(d, <<cb>>) BY <2>1, <2>4, ObserveOne DEF cb
  <2>6. HomesAlike(d) BY <2>2, SameAlike
  <2>7. ReadShape(d, <<cb>>) BY <2>2, <2>3, <2>4, <2>5, <2>6 DEF ReadShape, AskShape, history
  <2> QED BY <2>7
<1>3. ASSUME NEW home, home \in HomesFor(earned), home.login = Top(d).login, home.id = Top(d).id,
             home.total = Top(d).total, TopForm(d) = "closed", Tap,
             UNCHANGED <<db, puts, applied, drops, kills, earned, usedBy, chosen, contested, lost>>,
             NEW more \in Seq(LocateCbs), \A i \in 1..Len(more) : more[i].id = home.id,
             SetUpAnnotations(d, home, more)
      PROVE  \E cbs : ReadShape(d, cbs)
  <2> DEFINE cb == PlayersCb(home.login, home.id)
             cbs == <<cb>> \o more
             h == [home EXCEPT !.others = NoOthers]
  <2>1. cb \in PlayersCbs /\ cb.op = "players" /\ cb.login = Top(d).login /\ cb.id = Top(d).id
    BY <1>3 DEF PlayersCb, PlayersCbs, HomesFor
  <2>2. /\ h \in HomesFor(earned) /\ h.login = Top(d).login /\ h.id = Top(d).id
        /\ h.total = Top(d).total /\ h.others = NoOthers
    BY <1>3 DEF HomesFor, NoOthers
  <2>3. SetTop(d, h) /\ ObserveAll(d, cbs)
    BY <1>3, Zenon DEF SetUpAnnotations
  <2> HIDE DEF cb, h
  <2>4. <<cb>> \in Seq(Callbacks) /\ more \in Seq(Callbacks) /\ Len(<<cb>>) = 1 /\ <<cb>>[1] = cb
    <3>1. \A i \in 1..Len(more) : more[i] \in Callbacks BY DEF Callbacks
    <3> QED BY <2>1, <3>1, SeqIntro DEF Callbacks
  <2>5. /\ cbs \in Seq(Callbacks) /\ Len(cbs) = 1 + Len(more) /\ Len(more) \in Nat /\ cbs[1] = cb
        /\ \A i \in 2..Len(cbs) : cbs[i] \in LocateCbs /\ cbs[i].id = Top(d).id
    <3>1. /\ cbs \in Seq(Callbacks) /\ Len(cbs) = 1 + Len(more) /\ Len(more) \in Nat /\ cbs[1] = cb
      BY <2>4
    <3>2. \A i \in 2..Len(cbs) : i - 1 \in 1..Len(more) /\ cbs[i] = more[i - 1]
      BY <2>4
    <3> QED BY <1>3, <3>1, <3>2
  <2> HIDE DEF cbs
  <2>6. \A i \in 1..Len(cbs) : cbs[i].id = Top(d).id
    <3>1. \A i \in 1..Len(cbs) : i = 1 \/ i \in 2..Len(cbs) BY <2>5
    <3> QED BY <3>1, <2>1, <2>5
  <2>7. SetUpShape(d, cbs)
    <3>1. Len(cbs) >= 1 BY <2>5
    <3>2. \A i \in 2..Len(cbs) : cbs[i].op = "locate" BY <2>5 DEF LocateCbs
    <3> QED BY <2>1, <2>2, <2>3, <2>5, <3>1, <3>2 DEF SetUpShape
  <2>8. ReadShape(d, cbs) BY <1>3, <2>3, <2>5, <2>6, <2>7 DEF ReadShape, Tap
  <2> QED BY <2>8
<1>4. CASE UpdateLocation(d)
  <2>1. PICK p \in Places :
          LET home == [Top(d) EXCEPT !.place = p] IN
          IF Top(d).place = Missing
          THEN SetUpAnnotations(d, home, <<LocateCb(home.id, p)>>)
          ELSE SetTop(d, home) /\ ObserveAll(d, <<LocateCb(home.id, p)>>)
    BY <1>4 DEF UpdateLocation
  <2> DEFINE home == [Top(d) EXCEPT !.place = p]
             cb == LocateCb(home.id, p)
  <2>2. /\ TopForm(d) = "closed" /\ Tap
        /\ UNCHANGED <<db, puts, applied, drops, kills, earned, usedBy, chosen, contested, lost>>
    BY <1>4 DEF UpdateLocation, history
  <2>3. /\ home \in HomesFor(earned) /\ Alike(home, Top(d))
    BY <2>2, TopFacts DEF HomesFor, Spots, Alike
  <2>4. IF Top(d).place = Missing
        THEN SetUpAnnotations(d, home, <<cb>>)
        ELSE SetTop(d, home) /\ ObserveAll(d, <<cb>>)
    BY <2>1, Zenon
  <2>5. cb \in LocateCbs /\ cb.op = "locate" /\ cb.id = home.id
    BY <2>3 DEF LocateCb, LocateCbs, HomesFor
  <2> HIDE DEF cb, home
  <2>6. /\ <<cb>> \in Seq(LocateCbs) /\ <<cb>> \in Seq(Callbacks) /\ Len(<<cb>>) = 1
        /\ \A i \in 1..1 : <<cb>>[i] = cb
    BY <2>5 DEF Callbacks
  <2>7. CASE Top(d).place = Missing
    <3>1. \A i \in 1..Len(<<cb>>) : <<cb>>[i].id = home.id BY <2>5, <2>6
    <3>2. SetUpAnnotations(d, home, <<cb>>) BY <2>4, <2>7
    <3> QED BY <1>3, <2>2, <2>3, <2>6, <3>1, <3>2 DEF Alike
  <2>8. CASE Top(d).place # Missing
    <3>1. SetTop(d, home) /\ ObserveAll(d, <<cb>>) BY <2>4, <2>8
    <3>2. HomesAlike(d) BY <2>2, <2>3, <3>1, SetTopAlike
    <3>3. ReadShape(d, <<cb>>)
      BY <2>2, <2>3, <2>5, <2>6, <3>1, <3>2 DEF ReadShape, AskShape, Alike, Tap
    <3> QED BY <3>3
  <2> QED BY <2>7, <2>8
<1>5. CASE ShowMap(d)
  <2>1. /\ TopForm(d) = "closed" /\ Tap /\ SetUpAnnotations(d, Top(d), << >>)
        /\ UNCHANGED <<db, puts, applied, drops, kills, earned, usedBy, chosen, contested, lost>>
    BY <1>5 DEF ShowMap, history
  <2>2. Top(d) \in HomesFor(earned) BY <2>1, TopFacts
  <2>3. << >> \in Seq(LocateCbs) /\ \A i \in 1..Len(<< >>) : << >>[i].id = Top(d).id OBVIOUS
  <2> QED BY <1>3, <2>1, <2>2, <2>3
<1> QED BY <1>1, <1>2, <1>4, <1>5

(* The screens of one device change in shape only.                         *)
LEMMA AlikeType ==
  ASSUME TypeInv, NEW d \in Devices, HomesAlike(d)
  PROVE  homes' \in [Devices -> Seq(HomesFor(earned))]
BY DEF HomesAlike, TypeInv, AppType

(* An alert leaves the screens' accounts, totals and annotations.          *)
LEMMA AlertAlike ==
  ASSUME TypeInv, NEW d \in Devices, NEW kind \in {"changed", "refused"}, Alert(d, kind)
  PROVE  HomesAlike(d)
<1> DEFINE s == homes[d]
           new(i) == IF s[i].form = "open" /\ s[i].opened = HeadCb(d).form
                     THEN [s[i] EXCEPT !.form = kind] ELSE s[i]
           t == [i \in DOMAIN s |-> new(i)]
<1>1. s \in Seq(HomesFor(earned)) /\ DOMAIN s = 1..Len(s) /\ Len(s) \in Nat
  BY DEF TypeInv, AppType
<1>2. homes' = [homes EXCEPT ![d] = t] /\ homes'[d] = t
  BY Zenon DEF Alert, TypeInv, AppType
<1>3. \A i \in DOMAIN s : new(i) \in HomesFor(earned) /\ Alike(new(i), s[i])
  <2> SUFFICES ASSUME NEW i \in DOMAIN s PROVE new(i) \in HomesFor(earned) /\ Alike(new(i), s[i])
    OBVIOUS
  <2>1. s[i] \in HomesFor(earned) BY <1>1
  <2> HIDE DEF s
  <2> QED BY <2>1 DEF HomesFor, Forms, Alike
<1> HIDE DEF new
<1>4. t \in Seq(HomesFor(earned)) /\ DOMAIN t = DOMAIN s
  <2> HIDE DEF s
  <2> QED BY <1>1, <1>3
<1>5. \A i \in DOMAIN s : t[i] = new(i) OBVIOUS
<1> HIDE DEF t
<1> QED BY <1>2, <1>3, <1>4, <1>5 DEF HomesAlike

(* A step of the user that only edits a screen.                            *)
LEMMA EditSteps ==
  ASSUME TypeInv, NEW d \in Devices, OpenForm(d) \/ Back(d) \/ Dismiss(d)
  PROVE  HomesAlike(d) /\ UNCHANGED <<collectionVars, boundVars, history>>
<1>1. TopForm(d) # "none" BY DEF OpenForm, Back, Dismiss
<1>2. Top(d) \in HomesFor(earned) BY <1>1, TopFacts
<1>3. taps \in 0..MaxTaps /\ 0 \in 0..MaxTaps BY SessionsAssumption DEF TypeInv, AppType
<1>4. PICK h : /\ h \in HomesFor(earned) /\ Alike(h, Top(d)) /\ SetTop(d, h)
               /\ UNCHANGED <<collectionVars, boundVars, history>>
  <2>1. CASE OpenForm(d)
    <3> DEFINE h == [Top(d) EXCEPT !.form = "open", !.opened = taps]
    <3>1. h \in HomesFor(earned) /\ Alike(h, Top(d)) BY <1>2, <1>3 DEF HomesFor, Forms, Alike
    <3>2. SetTop(d, h) /\ UNCHANGED <<collectionVars, boundVars, history>> BY <2>1 DEF OpenForm
    <3> HIDE DEF h
    <3> QED BY <3>1, <3>2
  <2>2. CASE Back(d)
    <3> DEFINE h == [Top(d) EXCEPT !.form = "closed", !.opened = 0]
    <3>1. h \in HomesFor(earned) /\ Alike(h, Top(d)) BY <1>2, <1>3 DEF HomesFor, Forms, Alike
    <3>2. SetTop(d, h) /\ UNCHANGED <<collectionVars, boundVars, history>> BY <2>2 DEF Back
    <3> HIDE DEF h
    <3> QED BY <3>1, <3>2
  <2>3. CASE Dismiss(d)
    <3> DEFINE h == IF Top(d).form = "changed" THEN [Top(d) EXCEPT !.form = "closed", !.opened = 0]
                    ELSE [Top(d) EXCEPT !.form = "open"]
    <3>1. h \in HomesFor(earned) /\ Alike(h, Top(d)) BY <1>2, <1>3 DEF HomesFor, Forms, Alike
    <3>2. SetTop(d, h) /\ UNCHANGED <<collectionVars, boundVars, history>> BY <2>3 DEF Dismiss
    <3> HIDE DEF h
    <3> QED BY <3>1, <3>2
  <2> QED BY <2>1, <2>2, <2>3
<1> QED BY <1>1, <1>4, SetTopAlike

(* The account of a callback, and what a login or a change was told.       *)
LEMMA LoggedInFacts ==
  ASSUME TypeInv, NEW d \in Devices, LoggedIn(d)
  PROVE  LET cb == HeadCb(d)
             h == NewHome(cb, HeadRecord(d).totalExp)
         IN /\ events[d] # << >> /\ cb \in LoginCbs /\ cb.id \in Ids
            /\ h \in HomesFor(earned) /\ h.id = cb.id /\ h.login = cb.login /\ h.others = NoOthers
            /\ h.total = events[d][1].snap[cb.id].totalExp
            /\ homes' = [homes EXCEPT ![d] = Append(homes[d], h)]
            /\ Append(homes[d], h) \in Seq(HomesFor(earned))
<1> DEFINE cb == HeadCb(d)
           r == HeadRecord(d)
           h == NewHome(cb, r.totalExp)
<1>1. events[d] # << >> /\ cb.op = "login" BY DEF LoggedIn, HeadIs, HeadCb
<1>2. /\ cb \in LoginCbs /\ cb.id \in Ids /\ Head(events[d]).snap \in DataFor(earned)
      /\ Head(events[d]) = events[d][1]
  BY <1>1, HeadType, CallbackKinds DEF HeadCb
<1>3. r = events[d][1].snap[cb.id] /\ r["totalExp"] \in 0..earned[cb.id]
  <2>1. "totalExp" \in Fields BY SessionsAssumption
  <2>2. Head(events[d]).snap[cb.id]["totalExp"] \in Possible(earned, cb.id, "totalExp")
    BY <1>2, <2>1 DEF DataFor
  <2> QED BY <1>2, <2>2 DEF HeadRecord, Possible
<1>4. earned[cb.id] \in Nat /\ MaxTaps \in Nat BY <1>2, SessionsAssumption DEF TypeInv, AppType
<1> HIDE DEF r, cb
<1>5. h \in HomesFor(earned) /\ h.id = cb.id /\ h.login = cb.login /\ h.others = NoOthers
      /\ h.total = r.totalExp
  <2>1. cb.login \in 1..MaxTaps BY <1>2 DEF LoginCbs
  <2>2. NoOthers \in [Ids -> Nat] BY DEF NoOthers
  <2>3. r.totalExp \in Nat /\ r.totalExp <= earned[cb.id] BY <1>3, <1>4
  <2> QED BY <1>2, <1>4, <2>1, <2>2, <2>3 DEF NewHome, HomesFor, Spots, Forms
<1>6. homes' = [homes EXCEPT ![d] = Append(homes[d], h)] BY DEF LoggedIn, cb, r
<1>7. Append(homes[d], h) \in Seq(HomesFor(earned))
  <2>1. homes[d] \in Seq(HomesFor(earned)) BY DEF TypeInv, AppType
  <2> HIDE DEF h
  <2> QED BY <2>1, <1>5
<1> QED BY <1>1, <1>2, <1>3, <1>5, <1>6, <1>7 DEF cb, r

(* The write of a change of password.                                      *)
LEMMA ChangedFacts ==
  ASSUME TypeInv, NEW d \in Devices, Changed(d)
  PROVE  \E p \in Passwords, u \in Ids :
           LET w == Write(u, "password", p) IN
           /\ u = HeadCb(d).id /\ w \in WritesFor(earned)
           /\ puts' = [puts EXCEPT ![d] = Append(puts[d], w)]
           /\ chosen' = [chosen EXCEPT ![d][u] = p]
<1>1. events[d] # << >> BY DEF Changed, HeadIs
<1>2. HeadCb(d).id \in Ids BY <1>1, HeadType DEF HeadCb
<1>3. PICK p \in Passwords :
        /\ puts' = [puts EXCEPT ![d] = Append(puts[d], Write(HeadCb(d).id, "password", p))]
        /\ chosen' = [chosen EXCEPT ![d][HeadCb(d).id] = p]
  BY DEF Changed
<1>4. Write(HeadCb(d).id, "password", p) \in WritesFor(earned)
  BY <1>2, SessionsAssumption DEF Write, WritesFor, AnyValue, Possible
<1> QED BY <1>2, <1>3, <1>4

(* The writes of a location.                                               *)
LEMMA StoreLocationFacts ==
  ASSUME TypeInv, NEW d \in Devices, StoreLocation(d)
  PROVE  \E p \in Places, u \in Ids :
           LET w == Write(u, "latitude", p)
               x == Write(u, "longitude", p) IN
           /\ u = HeadCb(d).id /\ w \in WritesFor(earned) /\ x \in WritesFor(earned)
           /\ puts' = [puts EXCEPT ![d] = Append(Append(puts[d], w), x)]
<1> DEFINE u == HeadCb(d).id
           p == HeadCb(d).place
           w == Write(u, "latitude", p)
           x == Write(u, "longitude", p)
<1>1. events[d] # << >> /\ HeadCb(d).op = "locate" BY DEF StoreLocation, HeadIs, HeadCb
<1>2. HeadCb(d) \in LocateCbs BY <1>1, HeadType, CallbackKinds DEF HeadCb
<1>3. u \in Ids /\ p \in Places BY <1>2 DEF LocateCbs
<1>4. puts' = [puts EXCEPT ![d] = puts[d] \o <<w, x>>] BY DEF StoreLocation, LocationWrites
<1> HIDE DEF u, p
<1>5. w \in WritesFor(earned) /\ x \in WritesFor(earned)
  BY <1>3, SessionsAssumption DEF Write, WritesFor, AnyValue, Possible, Spots
<1>6. puts[d] \in Seq(WritesFor(earned)) BY DEF TypeInv, SdkType
<1> HIDE DEF w, x
<1>7. puts[d] \o <<w, x>> = Append(Append(puts[d], w), x)
  BY <1>5, <1>6
<1> QED BY <1>3, <1>4, <1>5, <1>7 DEF u, w, x

(* What an answer about the other players changes: annotations, by at most *)
(* one each, of the map that asked.                                        *)
LEMMA FoundPlayersFacts ==
  ASSUME TypeInv, NEW d \in Devices, FoundPlayers(d)
  PROVE  /\ events[d] # << >> /\ HeadCb(d).op = "players"
         /\ homes' = [homes EXCEPT ![d] = homes'[d]] /\ homes'[d] \in Seq(HomesFor(earned))
         /\ DOMAIN homes'[d] = DOMAIN homes[d]
         /\ \A i \in DOMAIN homes[d] :
              /\ homes'[d][i].login = homes[d][i].login /\ homes'[d][i].id = homes[d][i].id
              /\ homes'[d][i].total = homes[d][i].total
              /\ homes[d][i].login # HeadCb(d).login => homes'[d][i].others = homes[d][i].others
              /\ \A u \in Ids : homes'[d][i].others[u] <= homes[d][i].others[u] + 1
<1> DEFINE s == homes[d]
           snap == Head(events[d]).snap
           found(i, u) == IF u \in OtherRecords(d) /\ Near(snap[u], s[i].place) THEN 1 ELSE 0
           new(i) == IF s[i].login # HeadCb(d).login THEN s[i]
                     ELSE [s[i] EXCEPT !.others = [u \in Ids |-> s[i].others[u] + found(i, u)]]
           t == [i \in DOMAIN s |-> new(i)]
<1>1. s \in Seq(HomesFor(earned)) /\ DOMAIN s = 1..Len(s) /\ Len(s) \in Nat
  BY DEF TypeInv, AppType
<1>2. homes' = [homes EXCEPT ![d] = t] /\ homes'[d] = t
  BY Zenon DEF FoundPlayers, TypeInv, AppType
<1>3. \A i, u : found(i, u) \in {0, 1} BY Zenon
<1> HIDE DEF found
<1>4. \A i \in DOMAIN s :
        /\ new(i) \in HomesFor(earned)
        /\ new(i).login = s[i].login /\ new(i).id = s[i].id /\ new(i).total = s[i].total
        /\ s[i].login # HeadCb(d).login => new(i).others = s[i].others
        /\ \A u \in Ids : new(i).others[u] <= s[i].others[u] + 1
  <2> SUFFICES ASSUME NEW i \in DOMAIN s
               PROVE  /\ new(i) \in HomesFor(earned)
                      /\ new(i).login = s[i].login /\ new(i).id = s[i].id /\ new(i).total = s[i].total
                      /\ s[i].login # HeadCb(d).login => new(i).others = s[i].others
                      /\ \A u \in Ids : new(i).others[u] <= s[i].others[u] + 1
    OBVIOUS
  <2>1. s[i] \in HomesFor(earned) /\ s[i].others \in [Ids -> Nat]
    <3>1. s[i] \in HomesFor(earned) BY <1>1
    <3> HIDE DEF s
    <3> QED BY <3>1 DEF HomesFor
  <2> DEFINE o == [u \in Ids |-> s[i].others[u] + found(i, u)]
  <2>2. o \in [Ids -> Nat] /\ \A u \in Ids : o[u] <= s[i].others[u] + 1
    <3>1. \A u \in Ids : s[i].others[u] \in Nat /\ found(i, u) \in {0, 1} BY <1>3, <2>1
    <3> HIDE DEF s
    <3>2. \A u \in Ids : s[i].others[u] + found(i, u) \in Nat /\ s[i].others[u] + found(i, u) <= s[i].others[u] + 1
      BY <3>1
    <3> QED BY <3>2
  <2>3. new(i) = s[i] \/ (new(i) = [s[i] EXCEPT !.others = o] /\ s[i].login = HeadCb(d).login)
    BY Zenon
  <2> HIDE DEF s, o, new
  <2>4. CASE new(i) = s[i]
    <3>1. \A u \in Ids : s[i].others[u] <= s[i].others[u] + 1 BY <2>1
    <3> QED BY <2>1, <2>4, <3>1
  <2>5. CASE new(i) = [s[i] EXCEPT !.others = o] /\ s[i].login = HeadCb(d).login
    <3>1. new(i) \in HomesFor(earned) BY <2>1, <2>2, <2>5 DEF HomesFor
    <3>2. /\ new(i).login = s[i].login /\ new(i).id = s[i].id /\ new(i).total = s[i].total
          /\ new(i).others = o
      BY <2>1, <2>5 DEF HomesFor
    <3> QED BY <2>2, <2>5, <3>1, <3>2
  <2> QED BY <2>3, <2>4, <2>5
<1> HIDE DEF new
<1>5. t \in Seq(HomesFor(earned)) /\ DOMAIN t = DOMAIN s
  <2> HIDE DEF s
  <2> QED BY <1>1, <1>4
<1>6. \A i \in DOMAIN s : t[i] = new(i) OBVIOUS
<1>7. events[d] # << >> /\ HeadCb(d).op = "players" BY DEF FoundPlayers, HeadIs, HeadCb
<1> HIDE DEF t
<1> QED BY <1>2, <1>4, <1>5, <1>6, <1>7, ZenonT(30)

(* What a reward changes.                                                  *)
LEMMA AddExperienceFacts ==
  ASSUME TypeInv, NEW d \in Devices, AddExperience(d)
  PROVE  \E u \in Ids :
           LET h == homes'[d][Len(homes[d])]
               w == Write(u, "totalExp", Top(d).total + 1) IN
           /\ u = Top(d).id /\ TopForm(d) # "none" /\ Top(d).total \in Nat
           /\ taps' = taps + 1 /\ taps < MaxTaps
           /\ earned' = [earned EXCEPT ![u] = @ + 1] /\ earned' \in [Ids -> Nat]
           /\ \A x \in Ids : earned[x] <= earned'[x]
           /\ w \in WritesFor(earned') /\ puts' = [puts EXCEPT ![d] = Append(puts[d], w)]
           /\ homes' = [homes EXCEPT ![d] = homes'[d]] /\ homes'[d] \in Seq(HomesFor(earned'))
           /\ DOMAIN homes'[d] = DOMAIN homes[d] /\ Len(homes[d]) \in DOMAIN homes[d]
           /\ h.login = Top(d).login /\ h.id = u /\ h.total = Top(d).total + 1 /\ h.others = Top(d).others
           /\ \A i \in DOMAIN homes[d] : i # Len(homes[d]) => homes'[d][i] = homes[d][i]
<1> DEFINE u == Top(d).id
           h == [Top(d) EXCEPT !.total = @ + 1]
           w == Write(u, "totalExp", Top(d).total + 1)
<1>1. TopForm(d) # "none" BY DEF AddExperience
<1>2. Top(d) \in HomesFor(earned) /\ u \in Ids /\ Len(homes[d]) \in DOMAIN homes[d] BY <1>1, TopFacts
<1>3. earned \in [Ids -> Nat] BY DEF TypeInv, AppType
<1>4. earned' = [earned EXCEPT ![u] = @ + 1] BY DEF AddExperience
<1>5. /\ earned' \in [Ids -> Nat] /\ earned'[u] = earned[u] + 1
      /\ \A x \in Ids : earned[x] <= earned'[x]
  <2> HIDE DEF u
  <2>1. \A x \in Ids : earned[x] \in Nat BY <1>3
  <2> QED BY <1>2, <1>3, <1>4, <2>1
<1>6. /\ Top(d).total \in Nat /\ Top(d).total <= earned[u]
  BY <1>2 DEF HomesFor
<1>7. h \in HomesFor(earned') /\ h.login = Top(d).login /\ h.id = u /\ h.total = Top(d).total + 1
      /\ h.others = Top(d).others
  <2>1. Top(d).total + 1 <= earned'[u] /\ Top(d).total + 1 \in Nat BY <1>2, <1>3, <1>5, <1>6
  <2> QED BY <1>2, <2>1 DEF HomesFor
<1>8. w \in WritesFor(earned')
  <2>1. Top(d).total + 1 \in 0..earned'[u] BY <1>2, <1>3, <1>5, <1>6
  <2> HIDE DEF u
  <2> QED BY <1>2, <2>1, SessionsAssumption DEF Write, WritesFor, AnyValue, Possible
<1>9. HomesFor(earned) \subseteq HomesFor(earned') BY <1>3, <1>5, GrowTypes
<1>10. SetTop(d, h) /\ puts' = [puts EXCEPT ![d] = Append(puts[d], w)] /\ taps < MaxTaps /\ taps' = taps + 1
  BY DEF AddExperience, Tap
<1>11. /\ homes' = [homes EXCEPT ![d] = homes'[d]] /\ homes'[d] \in Seq(HomesFor(earned'))
       /\ DOMAIN homes'[d] = DOMAIN homes[d]
       /\ homes'[d][Len(homes[d])] = h
       /\ \A i \in DOMAIN homes[d] : i # Len(homes[d]) => homes'[d][i] = homes[d][i]
  <2> HIDE DEF h
  <2> QED BY <1>1, <1>7, <1>9, <1>10, SetTopFacts
<1> HIDE DEF h
<1> QED BY <1>1, <1>2, <1>4, <1>5, <1>6, <1>7, <1>8, <1>10, <1>11

(* The end of a process.                                                   *)
LEMMA RestartFacts ==
  ASSUME TypeInv, NEW d \in Devices, Kill(d) \/ PlayersTrap(d)
  PROVE  /\ puts' = [puts EXCEPT ![d] = << >>] /\ applied' = [applied EXCEPT ![d] = 0]
         /\ waiting' = [waiting EXCEPT ![d] = << >>] /\ events' = [events EXCEPT ![d] = << >>]
         /\ cache' = [cache EXCEPT ![d] = NoRecords] /\ homes' = [homes EXCEPT ![d] = << >>]
         /\ lost' = lost \cup KeysOf(puts[d]) /\ KeysOf(puts[d]) \subseteq Ids
         /\ kills' \in 0..MaxKills
         /\ UNCHANGED <<db, drops, taps, earned, usedBy, chosen, contested>>
<1>1. Restart(d) /\ kills' \in 0..MaxKills
  <2>1. kills \in 0..MaxKills /\ drops \in 0..MaxDrops /\ MaxKills \in Nat /\ MaxDrops \in Nat
    BY SessionsAssumption DEF TypeInv, AppType, SdkType
  <2>2. CASE Kill(d) BY <2>1, <2>2 DEF Kill
  <2>3. CASE PlayersTrap(d) BY <2>1, <2>3 DEF PlayersTrap
  <2> QED BY <2>2, <2>3
<1>2. KeysOf(puts[d]) \subseteq Ids
  <2>1. puts[d] \in Seq(WritesFor(earned)) BY DEF TypeInv, SdkType
  <2>2. \A i \in DOMAIN puts[d] : puts[d][i] \in WritesFor(earned) BY <2>1
  <2> QED BY <2>2 DEF KeysOf, WritesFor
<1> QED BY <1>1, <1>2 DEF Restart, CloseClient

(* Log out takes the last screen away.                                     *)
LEMMA LogOutFacts ==
  ASSUME TypeInv, NEW d \in Devices, LogOut(d)
  PROVE  /\ homes' = [homes EXCEPT ![d] = homes'[d]] /\ homes'[d] \in Seq(HomesFor(earned))
         /\ \A i \in DOMAIN homes'[d] : i \in DOMAIN homes[d] /\ homes'[d][i] = homes[d][i]
         /\ UNCHANGED <<collectionVars, boundVars, history>>
<1>1. TopForm(d) # "none" BY DEF LogOut
<1>2. homes[d] \in Seq(HomesFor(earned)) /\ homes[d] # << >> BY <1>1, TopFacts
<1>3. homes' = [homes EXCEPT ![d] = Front(homes[d])] /\ homes'[d] = Front(homes[d])
  BY DEF LogOut, TypeInv, AppType
<1>4. /\ Front(homes[d]) \in Seq(HomesFor(earned))
      /\ \A i \in DOMAIN Front(homes[d]) : i \in DOMAIN homes[d] /\ Front(homes[d])[i] = homes[d][i]
  BY <1>2, FrontFacts
<1> QED BY <1>3, <1>4 DEF LogOut

(* Callbacks that find no valid answer change an alert at most.            *)
LEMMA RefusedFacts ==
  ASSUME TypeInv, NEW d \in Devices, LoginRefused(d) \/ ChangeRefused(d)
  PROVE  /\ HomesAlike(d) /\ events[d] # << >> /\ Consume(d)
         /\ UNCHANGED <<db, puts, applied, waiting, drops, boundVars, history>>
<1>1. CASE LoginRefused(d)
  BY <1>1, SameAlike DEF LoginRefused, HeadIs, appVars
<1>2. CASE ChangeRefused(d)
  <2>1. Alert(d, "refused") BY <1>2 DEF ChangeRefused
  <2>2. HomesAlike(d) BY <2>1, AlertAlike
  <2> QED BY <1>2, <2>2 DEF ChangeRefused, HeadIs
<1> QED BY <1>1, <1>2

(* The answers' callbacks keep the types.                                  *)
LEMMA CallbackType ==
  ASSUME TypeInv, NEW d \in Devices, Callback(d), ~ PlayersTrap(d)
  PROVE  TypeInv'
<1>0. /\ AppType /\ earned \in [Ids -> Nat] /\ puts \in [Devices -> Seq(WritesFor(earned))]
      /\ \A e \in Devices : Len(puts[e]) \in Nat
  BY DEF TypeInv, AppType, SdkType
<1>1. CASE LoggedIn(d)
  <2>1. /\ HeadCb(d).id \in Ids /\ events[d] # << >>
        /\ \E h : /\ homes' = [homes EXCEPT ![d] = Append(homes[d], h)]
                  /\ Append(homes[d], h) \in Seq(HomesFor(earned))
    BY <1>1, LoggedInFacts
  <2>2. /\ usedBy' = [usedBy EXCEPT ![HeadCb(d).id] = usedBy[HeadCb(d).id] \cup {d}] /\ Consume(d)
        /\ UNCHANGED <<db, puts, applied, waiting, drops, taps, kills, earned, chosen, contested, lost>>
    BY <1>1 DEF LoggedIn, boundVars
  <2>3. SdkType' BY <1>0, <2>1, <2>2, ConsumeType
  <2>4. usedBy' \in [Ids -> SUBSET Devices] /\ \A u \in Ids : IsFiniteSet(usedBy'[u])
    <3>1. IsFiniteSet(usedBy[HeadCb(d).id] \cup {d}) BY <1>0, <2>1, FS_AddElement DEF AppType
    <3> QED BY <1>0, <2>1, <2>2, <3>1 DEF AppType
  <2>5. homes' \in [Devices -> Seq(HomesFor(earned))]
    <3>1. PICK h : /\ homes' = [homes EXCEPT ![d] = Append(homes[d], h)]
                   /\ Append(homes[d], h) \in Seq(HomesFor(earned))
      BY <2>1
    <3> QED BY <1>0, <3>1 DEF AppType
  <2>6. AppType' BY <1>0, <2>2, <2>4, <2>5 DEF AppType
  <2> QED BY <2>3, <2>6 DEF TypeInv
<1>2. CASE LoginRefused(d) \/ ChangeRefused(d)
  <2>1. /\ HomesAlike(d) /\ events[d] # << >> /\ Consume(d)
        /\ UNCHANGED <<db, puts, applied, waiting, drops, boundVars, history>>
    BY <1>2, RefusedFacts
  <2>2. SdkType' BY <1>0, <2>1, ConsumeType DEF history
  <2>3. homes' \in [Devices -> Seq(HomesFor(earned))] BY <2>1, AlikeType
  <2>4. AppType' BY <1>0, <2>1, <2>3 DEF AppType, boundVars, history
  <2> QED BY <2>2, <2>4 DEF TypeInv
<1>3. CASE Changed(d)
  <2>1. PICK p \in Passwords, u \in Ids :
           LET w == Write(u, "password", p) IN
           /\ u = HeadCb(d).id /\ w \in WritesFor(earned)
           /\ puts' = [puts EXCEPT ![d] = Append(puts[d], w)]
           /\ chosen' = [chosen EXCEPT ![d][u] = p]
    BY <1>3, ChangedFacts
  <2>2. /\ events[d] # << >> /\ Consume(d) /\ Alert(d, "changed")
        /\ UNCHANGED <<db, applied, waiting, drops, taps, kills, earned, usedBy, contested, lost>>
    BY <1>3 DEF Changed, HeadIs, boundVars
  <2>3. puts' \in [Devices -> Seq(WritesFor(earned))] /\ \A e \in Devices : Len(puts'[e]) >= Len(puts[e])
    <3>1. puts[d] \in Seq(WritesFor(earned)) BY <1>0
    <3>2. /\ Append(puts[d], Write(u, "password", p)) \in Seq(WritesFor(earned))
          /\ Len(Append(puts[d], Write(u, "password", p))) = Len(puts[d]) + 1
      BY <2>1, <3>1
    <3> QED BY <1>0, <2>1, <3>2
  <2>4. SdkType' BY <2>2, <2>3, ConsumeType
  <2>5. homes' \in [Devices -> Seq(HomesFor(earned))]
    BY <2>2, AlertAlike, AlikeType
  <2>6. chosen' \in [Devices -> [Ids -> Passwords \cup {Missing}]] BY <1>0, <2>1 DEF AppType
  <2>7. AppType' BY <1>0, <2>2, <2>5, <2>6 DEF AppType
  <2> QED BY <2>4, <2>7 DEF TypeInv
<1>4. CASE StoreLocation(d)
  <2>1. PICK p \in Places, u \in Ids :
           LET w == Write(u, "latitude", p)
               x == Write(u, "longitude", p) IN
           /\ u = HeadCb(d).id /\ w \in WritesFor(earned) /\ x \in WritesFor(earned)
           /\ puts' = [puts EXCEPT ![d] = Append(Append(puts[d], w), x)]
    BY <1>4, StoreLocationFacts
  <2>2. /\ events[d] # << >> /\ Consume(d) /\ UNCHANGED <<db, applied, waiting, drops, appVars>>
    BY <1>4 DEF StoreLocation, HeadIs
  <2>3. puts' \in [Devices -> Seq(WritesFor(earned))] /\ \A e \in Devices : Len(puts'[e]) >= Len(puts[e])
    <3> DEFINE w == Write(u, "latitude", p)
               x == Write(u, "longitude", p)
               q == Append(puts[d], w)
               r == Append(q, x)
    <3>1. puts[d] \in Seq(WritesFor(earned)) /\ w \in WritesFor(earned) /\ x \in WritesFor(earned)
          /\ puts' = [puts EXCEPT ![d] = r]
      BY <1>0, <2>1
    <3> HIDE DEF w, x
    <3>2. q \in Seq(WritesFor(earned)) /\ Len(q) = Len(puts[d]) + 1 BY <3>1
    <3> HIDE DEF q
    <3>3. r \in Seq(WritesFor(earned)) /\ Len(r) = Len(puts[d]) + 2 BY <1>0, <3>1, <3>2
    <3> HIDE DEF r
    <3> QED BY <1>0, <3>1, <3>3
  <2>4. UNCHANGED earned BY <2>2 DEF appVars, history
  <2>5. SdkType' BY <2>2, <2>3, <2>4, ConsumeType
  <2>6. AppType' BY <1>0, <2>2 DEF AppType, appVars, boundVars, history
  <2> QED BY <2>5, <2>6 DEF TypeInv
<1>5. CASE FoundPlayers(d)
  <2>1. /\ events[d] # << >> /\ homes' = [homes EXCEPT ![d] = homes'[d]] /\ homes'[d] \in Seq(HomesFor(earned))
    BY <1>5, FoundPlayersFacts
  <2>2. Consume(d) /\ UNCHANGED <<db, puts, applied, waiting, drops, boundVars, history>>
    BY <1>5, Zenon DEF FoundPlayers
  <2>3. SdkType' BY <1>0, <2>1, <2>2, ConsumeType DEF history
  <2>4. AppType' BY <1>0, <2>1, <2>2 DEF AppType, boundVars, history
  <2> QED BY <2>3, <2>4 DEF TypeInv
<1> QED BY <1>1, <1>2, <1>3, <1>4, <1>5 DEF Callback

(* So does the end of a process ...                                        *)
LEMMA RestartType ==
  ASSUME TypeInv, NEW d \in Devices, Kill(d) \/ PlayersTrap(d)
  PROVE  TypeInv'
<1>1. /\ puts' = [puts EXCEPT ![d] = << >>] /\ applied' = [applied EXCEPT ![d] = 0]
      /\ waiting' = [waiting EXCEPT ![d] = << >>] /\ events' = [events EXCEPT ![d] = << >>]
      /\ cache' = [cache EXCEPT ![d] = NoRecords] /\ homes' = [homes EXCEPT ![d] = << >>]
      /\ lost' = lost \cup KeysOf(puts[d]) /\ KeysOf(puts[d]) \subseteq Ids
      /\ kills' \in 0..MaxKills
      /\ UNCHANGED <<db, drops, taps, earned, usedBy, chosen, contested>>
  BY RestartFacts
<1>2. \A S : << >> \in Seq(S) OBVIOUS
<1>3. Len(<< >>) = 0 OBVIOUS
<1>4. SdkType' BY <1>1, <1>2, <1>3 DEF SdkType, TypeInv
<1>5. AppType' BY <1>1, <1>2 DEF AppType, TypeInv
<1> QED BY <1>4, <1>5 DEF TypeInv

(* ... and so do the users' steps.                                         *)
LEMMA UserStepType ==
  ASSUME TypeInv, NEW d \in Devices, UserStep(d)
  PROVE  TypeInv'
<1>0. SdkType /\ AppType /\ MaxTaps \in Nat BY SessionsAssumption DEF TypeInv
<1>1. CASE TapLogin(d) \/ TapChange(d) \/ UpdateLocation(d) \/ ShowMap(d)
  <2>1. PICK cbs : ReadShape(d, cbs) BY <1>1, ReadSteps
  <2>2. SdkType' BY <2>1, ReadsType DEF ReadShape
  <2>3. taps' \in 0..MaxTaps /\ \A u \in Ids : earned[u] <= taps'
    BY <1>0, <2>1 DEF ReadShape, AppType
  <2>4. homes' \in [Devices -> Seq(HomesFor(earned))]
    <3>1. CASE LoginShape(cbs) BY <1>0, <3>1 DEF LoginShape, AppType
    <3>2. CASE AskShape(d, cbs) BY <3>2, AlikeType DEF AskShape
    <3>3. CASE SetUpShape(d, cbs) /\ TopForm(d) # "none"
      <4>1. PICK h \in HomesFor(earned) : SetTop(d, h) BY <3>3 DEF SetUpShape
      <4>2. homes' = [homes EXCEPT ![d] = homes'[d]] /\ homes'[d] \in Seq(HomesFor(earned))
        BY <3>3, <4>1, SetTopFacts
      <4> QED BY <1>0, <4>2 DEF AppType
    <3> QED BY <2>1, <3>1, <3>2, <3>3 DEF ReadShape
  <2>5. AppType' BY <1>0, <2>1, <2>3, <2>4 DEF ReadShape, AppType
  <2> QED BY <2>2, <2>5 DEF TypeInv
<1>2. CASE LogOut(d)
  <2>1. /\ homes' = [homes EXCEPT ![d] = homes'[d]] /\ homes'[d] \in Seq(HomesFor(earned))
        /\ UNCHANGED <<collectionVars, boundVars, history>>
    BY <1>2, LogOutFacts
  <2>2. SdkType' BY <1>0, <2>1 DEF SdkType, collectionVars, history
  <2>3. AppType' BY <1>0, <2>1 DEF AppType, boundVars, history
  <2> QED BY <2>2, <2>3 DEF TypeInv
<1>3. CASE OpenForm(d) \/ Back(d) \/ Dismiss(d)
  <2>1. HomesAlike(d) /\ UNCHANGED <<collectionVars, boundVars, history>> BY <1>3, EditSteps
  <2>2. homes' \in [Devices -> Seq(HomesFor(earned))] BY <2>1, AlikeType
  <2>3. SdkType' BY <1>0, <2>1 DEF SdkType, collectionVars, history
  <2>4. AppType' BY <1>0, <2>1, <2>2 DEF AppType, boundVars, history
  <2> QED BY <2>3, <2>4 DEF TypeInv
<1>4. CASE AddExperience(d)
  <2>1. PICK u \in Ids :
           LET w == Write(u, "totalExp", Top(d).total + 1) IN
           /\ taps' = taps + 1 /\ taps < MaxTaps
           /\ earned' = [earned EXCEPT ![u] = @ + 1] /\ earned' \in [Ids -> Nat]
           /\ \A x \in Ids : earned[x] <= earned'[x]
           /\ w \in WritesFor(earned') /\ puts' = [puts EXCEPT ![d] = Append(puts[d], w)]
           /\ homes' = [homes EXCEPT ![d] = homes'[d]] /\ homes'[d] \in Seq(HomesFor(earned'))
           /\ u = Top(d).id
    BY <1>4, AddExperienceFacts
  <2> DEFINE w == Write(u, "totalExp", Top(d).total + 1)
  <2>2. /\ UNCHANGED <<db, applied, waiting, events, cache, drops, kills, usedBy, chosen, lost>>
        /\ contested' \subseteq contested \cup {u}
    BY <1>4, <2>1 DEF AddExperience
  <2>3. /\ DataFor(earned) \subseteq DataFor(earned')
        /\ Seq(WritesFor(earned)) \subseteq Seq(WritesFor(earned'))
        /\ Seq(EventsFor(earned)) \subseteq Seq(EventsFor(earned'))
        /\ Seq(HomesFor(earned)) \subseteq Seq(HomesFor(earned'))
    <3>1. earned \in [Ids -> Nat] BY <1>0 DEF AppType
    <3>2. earned' \in [Ids -> Nat] /\ \A x \in Ids : earned[x] <= earned'[x] BY <2>1
    <3> QED BY <3>1, <3>2, GrowTypes
  <2>4. w \in WritesFor(earned') /\ puts' = [puts EXCEPT ![d] = Append(puts[d], w)] BY <2>1
  <2> HIDE DEF w
  <2>5. /\ Append(puts[d], w) \in Seq(WritesFor(earned')) /\ Len(Append(puts[d], w)) = Len(puts[d]) + 1
        /\ Len(puts[d]) \in Nat
    <3>1. puts[d] \in Seq(WritesFor(earned')) BY <1>0, <2>3 DEF SdkType
    <3> QED BY <2>4, <3>1
  <2>6. puts' \in [Devices -> Seq(WritesFor(earned'))] /\ \A e \in Devices : applied[e] <= Len(puts'[e])
    <3>1. \A e \in Devices : puts[e] \in Seq(WritesFor(earned')) BY <1>0, <2>3 DEF SdkType
    <3>2. applied[d] \in Nat /\ applied[d] <= Len(puts[d]) BY <1>0 DEF SdkType
    <3>3. applied[d] <= Len(puts[d]) + 1 BY <2>5, <3>2
    <3> QED BY <1>0, <2>4, <2>5, <3>1, <3>3 DEF SdkType
  <2>7. SdkType'
    <3>1. events \in [Devices -> Seq(EventsFor(earned'))] BY <1>0, <2>3 DEF SdkType
    <3>2. /\ cache \in [Devices -> DataFor(earned') \cup {NoRecords}] /\ db \in DataFor(earned')
          /\ \A e \in Devices : events[e] # << >> => waiting[e] = << >> /\ cache[e] \in DataFor(earned')
      BY <1>0, <2>3 DEF SdkType
    <3> QED BY <1>0, <2>2, <2>6, <3>1, <3>2 DEF SdkType
  <2>8. taps' \in 0..MaxTaps /\ \A x \in Ids : earned'[x] <= taps'
    <3>1. taps \in Nat /\ \A x \in Ids : earned[x] \in Nat /\ earned[x] <= taps BY <1>0 DEF AppType
    <3>2. \A x \in Ids : earned'[x] \in {earned[x], earned[x] + 1} BY <1>0, <2>1 DEF AppType
    <3> QED BY <1>0, <2>1, <3>1, <3>2
  <2>9. homes' \in [Devices -> Seq(HomesFor(earned'))] BY <1>0, <2>1, <2>3 DEF AppType
  <2>10. AppType' BY <1>0, <2>1, <2>2, <2>8, <2>9 DEF AppType
  <2> QED BY <2>7, <2>10 DEF TypeInv
<1>5. CASE Kill(d) BY <1>5, RestartType
<1> QED BY <1>1, <1>2, <1>3, <1>4, <1>5 DEF UserStep

(* Every step keeps the types.                                             *)
LEMMA NextType == TypeInv /\ [Next]_vars => TypeInv'
<1> SUFFICES ASSUME TypeInv, [Next]_vars PROVE TypeInv' OBVIOUS
<1>1. CASE UNCHANGED vars
  BY <1>1 DEF vars, collectionVars, appVars, boundVars, history, TypeInv, SdkType, AppType
<1>2. CASE Next
  <2>1. PICK d \in Devices : SdkStep(d) \/ Callback(d) \/ UserStep(d) BY <1>2 DEF Next
  <2> QED BY <2>1, SdkStepType, CallbackType, RestartType, UserStepType
<1> QED BY <1>1, <1>2

(* The initial states are well typed.                                      *)
LEMMA InitType == Init => TypeInv
<1> SUFFICES ASSUME Init PROVE TypeInv OBVIOUS
<1>1. \A S : << >> \in Seq(S) OBVIOUS
<1>2. Len(<< >>) = 0 /\ 0 \in Nat OBVIOUS
<1>3. earned = [u \in Ids |-> 0] BY DEF Init
<1>4. db \in DataFor(earned)
  <2>1. PICK unlocated \in SUBSET Unlocated :
          db = [u \in Ids |-> Account(IF u \in unlocated THEN Missing ELSE CHOOSE p \in Places : TRUE)]
    BY DEF Init
  <2>2. (CHOOSE p \in Places : TRUE) \in Places BY SessionsAssumption
  <2>3. ASSUME NEW s \in Spots
        PROVE  /\ Account(s) \in [Fields -> AnyValue]
               /\ \A u \in Ids : \A f \in Fields : Account(s)[f] \in Possible(earned, u, f)
    BY <1>3, SessionsAssumption DEF Account, AnyValue, Possible, Spots
  <2>4. \A u \in Ids : (IF u \in unlocated THEN Missing ELSE CHOOSE p \in Places : TRUE) \in Spots
    BY <2>2 DEF Spots
  <2>5. \A u \in Ids : db[u] \in [Fields -> AnyValue] /\ \A f \in Fields : db[u][f] \in Possible(earned, u, f)
    BY <2>1, <2>3, <2>4
  <2>6. db = [u \in Ids |-> db[u]] BY <2>1
  <2> QED BY <2>5, <2>6 DEF DataFor
<1>5. SdkType
  BY <1>1, <1>2, <1>4, SessionsAssumption DEF Init, ClientsInit, SdkType
<1>6. AppType
  <2>1. \A u \in Ids : usedBy[u] = {} BY DEF Init
  <2> QED BY <1>1, <1>2, <1>3, <2>1, FS_EmptySet, SessionsAssumption DEF Init, AppType
<1> QED BY <1>5, <1>6 DEF TypeInv

(* In every reachable state all variables have their types; in particular  *)
(* every read finds every account with all its children, and no total is   *)
(* above what was earned for the account.                                  *)
THEOREM TypeInvariant == Spec => []TypeInv
BY InitType, NextType, PTL DEF Spec

(* The types as the runs check them.                                       *)
THEOREM TypesHold == Spec => []TypeOK
BY TypeInvariant, TypeInvImpliesTypeOK, PTL

(* Devices that overwrite each other's totals (addExperience writes a      *)
(* total, not an increment) may lose rewards, but the server never has a   *)
(* total that was not earned.                                              *)
THEOREM NothingIsInvented == Spec => []NothingInvented
<1>1. TypeInv => NothingInvented
  <2> SUFFICES ASSUME TypeInv, NEW u \in Ids PROVE db[u].totalExp <= earned[u] BY DEF NothingInvented
  <2>1. "totalExp" \in Fields BY SessionsAssumption
  <2>2. db[u]["totalExp"] \in Possible(earned, u, "totalExp") BY <2>1 DEF TypeInv, SdkType, DataFor
  <2>3. db[u]["totalExp"] \in 0..earned[u] BY <2>2 DEF Possible
  <2> QED BY <2>3
<1> QED BY <1>1, TypeInvariant, PTL

-----------------------------------------------------------------------------
(* 3. Ownership. *)

(* Every account named in a queue or by a screen is one of Ids.            *)
LEMMA NamedIds ==
  ASSUME TypeInv, NEW d \in Devices
  PROVE  /\ \A i \in DOMAIN puts[d] : puts[d][i].key \in Ids
         /\ \A i \in DOMAIN homes[d] : homes[d][i].id \in Ids
         /\ \A i \in DOMAIN waiting[d] : waiting[d][i].id \in Ids
         /\ \A i \in DOMAIN events[d] : events[d][i].cb.id \in Ids
<1>1. \A cb \in Callbacks : cb.id \in Ids
  BY DEF Callbacks, LoginCbs, ChangeCbs, LocateCbs, PlayersCbs
<1>2. \A i \in DOMAIN puts[d] : puts[d][i] \in WritesFor(earned) BY DEF TypeInv, SdkType
<1>3. \A i \in DOMAIN homes[d] : homes[d][i] \in HomesFor(earned) BY DEF TypeInv, AppType
<1>4. \A i \in DOMAIN waiting[d] : waiting[d][i] \in Callbacks BY DEF TypeInv, SdkType
<1>5. \A i \in DOMAIN events[d] : events[d][i] \in EventsFor(earned) BY DEF TypeInv, SdkType
<1> QED BY <1>1, <1>2, <1>3, <1>4, <1>5 DEF WritesFor, HomesFor, EventsFor

(* Accounts stay owned where nothing changes.                              *)
LEMMA OwnedKept ==
  ASSUME TypeInv, NEW d \in Devices, OwnedAt(d), \A u \in Ids : usedBy[u] \subseteq usedBy'[u],
         puts'[d] = puts[d], homes'[d] = homes[d], waiting'[d] = waiting[d], events'[d] = events[d]
  PROVE  OwnedAt(d)'
BY NamedIds DEF OwnedAt

(* The events left after the first are owned.                              *)
LEMMA TailOwned ==
  ASSUME TypeInv, NEW d \in Devices, OwnedAt(d), events[d] # << >>, Consume(d)
  PROVE  /\ \A i \in DOMAIN events'[d] : /\ i + 1 \in DOMAIN events[d]
                                         /\ events'[d][i] = events[d][i + 1]
         /\ \A i \in DOMAIN events'[d] : events'[d][i].cb.op # "login" => d \in usedBy[events'[d][i].cb.id]
         /\ \A e \in Devices : e # d => events'[e] = events[e]
         /\ HeadCb(d).op # "login" => d \in usedBy[HeadCb(d).id]
<1>1. events[d] \in Seq(EventsFor(earned)) BY DEF TypeInv, SdkType
<1>2. /\ events'[d] = Tail(events[d])
      /\ \A e \in Devices : e # d => events'[e] = events[e]
  BY DEF Consume, TypeInv, SdkType
<1>3. \A i \in DOMAIN Tail(events[d]) : i + 1 \in DOMAIN events[d] /\ Tail(events[d])[i] = events[d][i + 1]
  BY <1>1, TailFacts
<1>4. HeadCb(d) = events[d][1].cb /\ 1 \in DOMAIN events[d] BY HeadType DEF HeadCb
<1> QED BY <1>2, <1>3, <1>4 DEF OwnedAt

(* Every step keeps ownership.                                             *)
LEMMA NextOwned == TypeInv /\ Owned /\ [Next]_vars => Owned'
<1> SUFFICES ASSUME TypeInv, Owned, [Next]_vars PROVE Owned' OBVIOUS
<1>0. /\ puts \in [Devices -> Seq(WritesFor(earned))] /\ waiting \in [Devices -> Seq(Callbacks)]
      /\ events \in [Devices -> Seq(EventsFor(earned))] /\ homes \in [Devices -> Seq(HomesFor(earned))]
      /\ usedBy \in [Ids -> SUBSET Devices]
  BY DEF TypeInv, SdkType, AppType
<1>1. CASE UNCHANGED vars
  BY <1>1 DEF vars, collectionVars, appVars, history, Owned, OwnedAt
<1>2. ASSUME NEW d \in Devices, SdkStep(d) PROVE Owned'
  <2>0. homes' = homes /\ usedBy' = usedBy BY <1>2 DEF SdkStep, appVars, history
  <2>1. CASE Push(d) \/ ServerApply(d) \/ Disconnect(d)
    BY <2>0, <2>1 DEF Push, ServerApply, Disconnect, Owned, OwnedAt
  <2>2. CASE DataArrives(d)
    <3>1. /\ puts' = puts /\ waiting' = [waiting EXCEPT ![d] = << >>]
          /\ \A e \in Devices : e # d => events'[e] = events[e] /\ waiting'[e] = waiting[e]
          /\ DOMAIN events'[d] = DOMAIN waiting[d]
          /\ \A i \in DOMAIN waiting[d] : events'[d][i].cb = waiting[d][i]
      BY <1>0, <2>2 DEF DataArrives
    <3>2. \A e \in Devices : e # d => OwnedAt(e)' BY <2>0, <3>1, OwnedKept DEF Owned
    <3>3. OwnedAt(d)' BY <1>0, <2>0, <3>1 DEF Owned, OwnedAt
    <3> QED BY <3>2, <3>3 DEF Owned
  <2>3. CASE AckPut(d)
    <3>1. /\ puts' = [puts EXCEPT ![d] = Tail(puts[d])] /\ waiting' = waiting /\ events' = events
          /\ puts[d] # << >>
      BY <2>3 DEF AckPut, TypeInv, SdkType
    <3>2. \A i \in DOMAIN Tail(puts[d]) : i + 1 \in DOMAIN puts[d] /\ Tail(puts[d])[i] = puts[d][i + 1]
      BY <1>0, <3>1, TailFacts
    <3>3. \A e \in Devices : e # d => OwnedAt(e)' BY <1>0, <2>0, <3>1, OwnedKept DEF Owned
    <3>4. OwnedAt(d)' BY <1>0, <2>0, <3>1, <3>2 DEF Owned, OwnedAt
    <3> QED BY <3>3, <3>4 DEF Owned
  <2> QED BY <1>2, <2>1, <2>2, <2>3 DEF SdkStep, CollectionNext
<1>3. ASSUME NEW d \in Devices, Kill(d) \/ PlayersTrap(d) PROVE Owned'
  <2>1. /\ puts' = [puts EXCEPT ![d] = << >>] /\ waiting' = [waiting EXCEPT ![d] = << >>]
        /\ events' = [events EXCEPT ![d] = << >>] /\ homes' = [homes EXCEPT ![d] = << >>]
        /\ usedBy' = usedBy
    BY <1>3, RestartFacts
  <2>2. \A e \in Devices : e # d => OwnedAt(e)' BY <1>0, <2>1, OwnedKept DEF Owned
  <2>3. OwnedAt(d)' BY <1>0, <2>1 DEF OwnedAt
  <2> QED BY <2>2, <2>3 DEF Owned
<1>4. ASSUME NEW d \in Devices, Callback(d), ~ PlayersTrap(d) PROVE Owned'
  <2>0. /\ events[d] # << >> /\ Consume(d) /\ waiting' = waiting /\ OwnedAt(d)
    BY <1>4, Zenon DEF Callback, LoggedIn, LoginRefused, Changed, ChangeRefused, StoreLocation, FoundPlayers, HeadIs, Owned
  <2>1. /\ \A i \in DOMAIN events'[d] : events'[d][i].cb.op # "login" => d \in usedBy[events'[d][i].cb.id]
        /\ \A i \in DOMAIN events'[d] : i + 1 \in DOMAIN events[d] /\ events'[d][i] = events[d][i + 1]
        /\ \A e \in Devices : e # d => events'[e] = events[e]
        /\ HeadCb(d).op # "login" => d \in usedBy[HeadCb(d).id]
    BY <2>0, TailOwned
  <2>2. CASE LoggedIn(d)
    <3>1. PICK h : /\ homes' = [homes EXCEPT ![d] = Append(homes[d], h)] /\ h.id = HeadCb(d).id
                   /\ HeadCb(d).id \in Ids /\ Append(homes[d], h) \in Seq(HomesFor(earned))
      BY <2>2, LoggedInFacts
    <3>2. puts' = puts /\ usedBy' = [usedBy EXCEPT ![HeadCb(d).id] = usedBy[HeadCb(d).id] \cup {d}]
      BY <2>2 DEF LoggedIn
    <3>3. \A u \in Ids : usedBy[u] \subseteq usedBy'[u] BY <1>0, <3>2
    <3>4. \A e \in Devices : e # d => OwnedAt(e)' BY <1>0, <2>0, <2>1, <3>1, <3>2, <3>3, OwnedKept DEF Owned
    <3>5. \A i \in DOMAIN homes'[d] : \/ i \in DOMAIN homes[d] /\ homes'[d][i] = homes[d][i]
                                      \/ homes'[d][i] = h
      <4>1. homes[d] \in Seq(HomesFor(earned)) /\ homes'[d] = Append(homes[d], h) BY <1>0, <3>1
      <4> QED BY <4>1
    <3>6. d \in usedBy'[HeadCb(d).id] BY <1>0, <3>1, <3>2
    <3>7. \A i \in DOMAIN homes'[d] : d \in usedBy'[homes'[d][i].id]
      BY <2>0, <3>1, <3>3, <3>5, <3>6, NamedIds DEF OwnedAt
    <3>8. \A i \in DOMAIN events'[d] : events'[d][i].cb.op # "login" => d \in usedBy'[events'[d][i].cb.id]
      BY <2>1, <3>3, NamedIds
    <3>9. OwnedAt(d)' BY <2>0, <3>2, <3>3, <3>7, <3>8, NamedIds DEF OwnedAt
    <3> QED BY <3>4, <3>9 DEF Owned
  <2>3. CASE LoginRefused(d) \/ ChangeRefused(d) \/ FoundPlayers(d)
    <3>1. /\ homes' = [homes EXCEPT ![d] = homes'[d]] /\ DOMAIN homes'[d] = DOMAIN homes[d]
          /\ \A i \in DOMAIN homes[d] : homes'[d][i].id = homes[d][i].id
      BY <2>3, RefusedFacts, FoundPlayersFacts DEF HomesAlike, Alike
    <3>2. puts' = puts /\ usedBy' = usedBy
      BY <2>3, Zenon DEF LoginRefused, ChangeRefused, FoundPlayers, appVars, history
    <3>3. \A e \in Devices : e # d => OwnedAt(e)' BY <1>0, <2>0, <2>1, <3>1, <3>2, OwnedKept DEF Owned
    <3>4. OwnedAt(d)' BY <2>0, <2>1, <3>1, <3>2 DEF OwnedAt
    <3> QED BY <3>3, <3>4 DEF Owned
  <2>4. CASE Changed(d) \/ StoreLocation(d)
    <3>1. HeadCb(d).op # "login" BY <2>4 DEF Changed, StoreLocation, HeadIs, HeadCb
    <3>2. /\ \A e \in Devices : e # d => puts'[e] = puts[e]
          /\ \A i \in DOMAIN puts'[d] : \/ i \in DOMAIN puts[d] /\ puts'[d][i] = puts[d][i]
                                        \/ puts'[d][i].key = HeadCb(d).id
      <4>1. CASE Changed(d)
        <5>1. PICK w \in WritesFor(earned) : w.key = HeadCb(d).id /\ puts' = [puts EXCEPT ![d] = Append(puts[d], w)]
          BY <4>1, ChangedFacts DEF Write
        <5>2. puts[d] \in Seq(WritesFor(earned)) /\ puts'[d] = Append(puts[d], w) BY <1>0, <5>1
        <5> QED BY <1>0, <5>1, <5>2
      <4>2. CASE StoreLocation(d)
        <5>1. PICK w \in WritesFor(earned), x \in WritesFor(earned) :
                /\ w.key = HeadCb(d).id /\ x.key = HeadCb(d).id
                /\ puts' = [puts EXCEPT ![d] = Append(Append(puts[d], w), x)]
          BY <4>2, StoreLocationFacts DEF Write
        <5>2. puts[d] \in Seq(WritesFor(earned)) /\ puts'[d] = Append(Append(puts[d], w), x) BY <1>0, <5>1
        <5> QED BY <1>0, <5>1, <5>2
      <4> QED BY <2>4, <4>1, <4>2
    <3>3. usedBy' = usedBy BY <2>4 DEF Changed, StoreLocation, appVars, history
    <3>4. HomesAlike(d) BY <2>4, AlertAlike, SameAlike DEF Changed, StoreLocation, appVars
    <3>5. /\ homes' = [homes EXCEPT ![d] = homes'[d]] /\ DOMAIN homes'[d] = DOMAIN homes[d]
          /\ \A i \in DOMAIN homes[d] : homes'[d][i].id = homes[d][i].id
      BY <3>4 DEF HomesAlike, Alike
    <3>6. \A e \in Devices : e # d => OwnedAt(e)' BY <1>0, <2>0, <2>1, <3>2, <3>3, <3>5, OwnedKept DEF Owned
    <3>7. OwnedAt(d)' BY <2>0, <2>1, <3>1, <3>2, <3>3, <3>5 DEF OwnedAt
    <3> QED BY <3>6, <3>7 DEF Owned
  <2> QED BY <1>4, <2>2, <2>3, <2>4 DEF Callback
<1>5. ASSUME NEW d \in Devices, UserStep(d), ~ Kill(d) PROVE Owned'
  <2>1. CASE TapLogin(d) \/ TapChange(d) \/ UpdateLocation(d) \/ ShowMap(d)
    <3>1. PICK cbs : ReadShape(d, cbs) BY <2>1, ReadSteps
    <3>2. /\ cbs \in Seq(Callbacks) /\ ObserveAll(d, cbs) /\ puts' = puts /\ usedBy' = usedBy
      BY <3>1 DEF ReadShape
    <3>3. \A i \in 1..Len(cbs) : cbs[i].op # "login" => d \in usedBy[cbs[i].id]
      <4>1. CASE LoginShape(cbs) BY <4>1 DEF LoginShape, LoginCbs
      <4>2. CASE TopForm(d) # "none" /\ \A i \in 1..Len(cbs) : cbs[i].id = Top(d).id
        BY <4>2, TopFacts DEF Owned, OwnedAt
      <4> QED BY <3>1, <4>1, <4>2 DEF ReadShape
    <3>4. /\ homes' = [homes EXCEPT ![d] = homes'[d]] /\ DOMAIN homes'[d] = DOMAIN homes[d]
          /\ \A i \in DOMAIN homes[d] : homes'[d][i].id = homes[d][i].id
      <4>1. CASE LoginShape(cbs) BY <1>0, <4>1 DEF LoginShape
      <4>2. CASE AskShape(d, cbs) BY <4>2 DEF AskShape, HomesAlike, Alike
      <4>3. CASE SetUpShape(d, cbs) /\ TopForm(d) # "none"
        <5>1. PICK h \in HomesFor(earned) : SetTop(d, h) /\ h.id = Top(d).id BY <4>3 DEF SetUpShape
        <5>2. /\ homes' = [homes EXCEPT ![d] = homes'[d]]
              /\ DOMAIN homes'[d] = DOMAIN homes[d]
              /\ homes'[d][Len(homes[d])] = h
              /\ \A i \in DOMAIN homes[d] : i # Len(homes[d]) => homes'[d][i] = homes[d][i]
          BY <4>3, <5>1, SetTopFacts
        <5>3. Top(d) = homes[d][Len(homes[d])] BY <4>3, TopFacts
        <5> QED BY <5>1, <5>2, <5>3
      <4> QED BY <3>1, <4>1, <4>2, <4>3 DEF ReadShape
    <3>5. /\ \A e \in Devices : e # d => waiting'[e] = waiting[e] /\ events'[e] = events[e]
          /\ \A i \in DOMAIN waiting'[d] : \/ i \in DOMAIN waiting[d] /\ waiting'[d][i] = waiting[d][i]
                                           \/ \E j \in 1..Len(cbs) : waiting'[d][i] = cbs[j]
          /\ \A i \in DOMAIN events'[d] : \/ i \in DOMAIN events[d] /\ events'[d][i] = events[d][i]
                                          \/ \E j \in 1..Len(cbs) : events'[d][i].cb = cbs[j]
      <4>1. \A e \in Devices : e # d => waiting'[e] = waiting[e] /\ events'[e] = events[e]
        BY <3>2, ReadsElements
      <4>2. \A i \in DOMAIN waiting'[d] :
              \/ i \in DOMAIN waiting[d] /\ waiting'[d][i] = waiting[d][i]
              \/ \E j \in 1..Len(cbs) : i = Len(waiting[d]) + j /\ waiting'[d][i] = cbs[j]
        BY <3>2, ReadsElements
      <4>3. \A i \in DOMAIN events'[d] :
              \/ i \in DOMAIN events[d] /\ events'[d][i] = events[d][i]
              \/ \E j \in 1..Len(cbs) :
                   /\ i = Len(events[d]) + j /\ events[d] # << >>
                   /\ events'[d][i].cb = cbs[j] /\ events'[d][i].snap = Overlay(cache[d], puts[d])
        BY <3>2, ReadsElements
      <4> QED BY <4>1, <4>2, <4>3
    <3>6. \A e \in Devices : e # d => OwnedAt(e)' BY <1>0, <3>2, <3>4, <3>5, OwnedKept DEF Owned
    <3>7. OwnedAt(d)'
      <4>1. OwnedAt(d) BY DEF Owned
      <4>2. \A i \in DOMAIN waiting'[d] : waiting'[d][i].op # "login" => d \in usedBy[waiting'[d][i].id]
        BY <3>3, <3>5, <4>1 DEF OwnedAt
      <4>3. \A i \in DOMAIN events'[d] : events'[d][i].cb.op # "login" => d \in usedBy[events'[d][i].cb.id]
        BY <3>3, <3>5, <4>1 DEF OwnedAt
      <4> QED BY <3>2, <3>4, <4>1, <4>2, <4>3 DEF OwnedAt
    <3> QED BY <3>6, <3>7 DEF Owned
  <2>2. CASE LogOut(d)
    <3>1. /\ homes' = [homes EXCEPT ![d] = homes'[d]]
          /\ \A i \in DOMAIN homes'[d] : i \in DOMAIN homes[d] /\ homes'[d][i] = homes[d][i]
          /\ UNCHANGED <<collectionVars, boundVars, history>>
      BY <2>2, LogOutFacts
    <3>2. \A e \in Devices : e # d => OwnedAt(e)' BY <1>0, <3>1, OwnedKept DEF Owned, collectionVars, history
    <3>3. OwnedAt(d)' BY <3>1 DEF Owned, OwnedAt, collectionVars, history
    <3> QED BY <3>2, <3>3 DEF Owned
  <2>3. CASE OpenForm(d) \/ Back(d) \/ Dismiss(d)
    <3>1. HomesAlike(d) /\ UNCHANGED <<collectionVars, boundVars, history>> BY <2>3, EditSteps
    <3>2. \A e \in Devices : e # d => OwnedAt(e)'
      BY <1>0, <3>1, OwnedKept DEF Owned, collectionVars, history, HomesAlike
    <3>3. OwnedAt(d)' BY <3>1 DEF Owned, OwnedAt, collectionVars, history, HomesAlike, Alike
    <3> QED BY <3>2, <3>3 DEF Owned
  <2>4. CASE AddExperience(d)
    <3>1. PICK u \in Ids :
           LET h == homes'[d][Len(homes[d])]
               w == Write(u, "totalExp", Top(d).total + 1) IN
           /\ u = Top(d).id /\ TopForm(d) # "none"
           /\ w \in WritesFor(earned') /\ puts' = [puts EXCEPT ![d] = Append(puts[d], w)]
           /\ homes' = [homes EXCEPT ![d] = homes'[d]]
           /\ DOMAIN homes'[d] = DOMAIN homes[d] /\ h.id = u
           /\ \A i \in DOMAIN homes[d] : i # Len(homes[d]) => homes'[d][i] = homes[d][i]
      BY <2>4, AddExperienceFacts
    <3>2. UNCHANGED <<waiting, events, usedBy>> BY <2>4 DEF AddExperience
    <3>3. d \in usedBy[u] BY <3>1, TopFacts DEF Owned, OwnedAt
    <3>4. \A i \in DOMAIN puts'[d] : \/ i \in DOMAIN puts[d] /\ puts'[d][i] = puts[d][i]
                                     \/ puts'[d][i].key = u
      <4>1. puts[d] \in Seq(WritesFor(earned)) /\ puts'[d] = Append(puts[d], Write(u, "totalExp", Top(d).total + 1))
        BY <1>0, <3>1
      <4> QED BY <4>1 DEF Write
    <3>5. \A e \in Devices : e # d => OwnedAt(e)' BY <1>0, <3>1, <3>2, OwnedKept DEF Owned
    <3>6. OwnedAt(d)' BY <3>1, <3>2, <3>3, <3>4 DEF Owned, OwnedAt
    <3> QED BY <3>5, <3>6 DEF Owned
  <2> QED BY <1>5, <2>1, <2>2, <2>3, <2>4 DEF UserStep
<1> QED BY <1>1, <1>2, <1>3, <1>4, <1>5 DEF Next, Callback, UserStep

(* The three invariants so far.                                            *)
Base == TypeInv /\ Owned

-----------------------------------------------------------------------------
(* 4. Totals, locations, passwords. *)

(* Keys and children written are those of accounts.                        *)
LEMMA WritesNamed ==
  ASSUME TypeInv, NEW d \in Devices
  PROVE  /\ puts[d] \in Seq(WritesFor(earned)) /\ Len(puts[d]) \in Nat /\ DOMAIN puts[d] = 1..Len(puts[d])
         /\ applied[d] \in Nat /\ applied[d] <= Len(puts[d])
         /\ KeysOf(puts[d]) \subseteq Ids /\ \A i \in 1..Len(puts[d]) : puts[d][i].field \in Fields
<1>1. /\ puts[d] \in Seq(WritesFor(earned)) /\ Len(puts[d]) \in Nat /\ DOMAIN puts[d] = 1..Len(puts[d])
      /\ applied[d] \in Nat /\ applied[d] <= Len(puts[d])
  BY DEF TypeInv, SdkType
<1>2. \A i \in DOMAIN puts[d] : puts[d][i] \in WritesFor(earned) BY <1>1
<1> QED BY <1>1, <1>2 DEF KeysOf, WritesFor

(* A device that has never logged in to an account has no write of it.     *)
LEMMA OthersClear ==
  ASSUME Base, NEW e \in Devices, NEW u \in Ids, usedBy[u] \subseteq {e}, NEW f
  PROVE  \A x \in Devices \ {e} : Clear(puts[x], 0, u, f)
<1> SUFFICES ASSUME NEW x \in Devices \ {e}, NEW i \in (0 + 1)..Len(puts[x]), puts[x][i].key = u
             PROVE  FALSE
  BY DEF Clear, Hit
<1>1. i \in DOMAIN puts[x] BY WritesNamed DEF Base
<1>2. x \in usedBy[u] BY <1>1 DEF Base, Owned, OwnedAt
<1> QED BY <1>2

(* A child that only device e writes stays settled while the SDK works.    *)
LEMMA SdkSettles ==
  ASSUME Base, NEW d \in Devices, SdkStep(d), NEW e \in Devices, NEW u \in Ids, NEW f \in Fields,
         NEW v, \A x \in Devices \ {e} : Clear(puts[x], 0, u, f),
         Settled(puts[e], applied[e], db, u, f, v)
  PROVE  Settled(puts'[e], applied'[e], db', u, f, v)
<1> USE DEF Base
<1>0. /\ puts \in [Devices -> Seq(WritesFor(earned))] /\ applied \in [Devices -> Nat]
      /\ earned \in [Ids -> Nat] /\ db \in DataFor(earned)
      /\ \A x \in Devices : applied[x] <= Len(puts[x])
  BY DEF TypeInv, SdkType, AppType
<1>1. CASE DataArrives(d) \/ Push(d) BY <1>1 DEF DataArrives, Push
<1>2. CASE ServerApply(d)
  <2> DEFINE w == puts[d][applied[d] + 1]
  <2>1. /\ applied[d] < Len(puts[d]) /\ db' = Apply(db, w) /\ puts' = puts
        /\ applied' = [applied EXCEPT ![d] = applied[d] + 1]
    BY <1>2 DEF ServerApply
  <2>2. CASE e = d
    <3>1. Settled(puts[e], applied[e] + 1, Apply(db, puts[e][applied[e] + 1]), u, f, v)
      <4>1. puts[e] \in Seq(WritesFor(earned)) /\ applied[e] \in Nat /\ applied[e] < Len(puts[e])
        BY <1>0, <2>1, <2>2
      <4> QED BY <1>0, <4>1, ApplySettles
    <3>2. applied'[e] = applied[e] + 1 BY <1>0, <2>1, <2>2
    <3> QED BY <2>1, <2>2, <3>1, <3>2
  <2>3. CASE e # d
    <3>1. applied[d] + 1 \in DOMAIN puts[d] /\ w \in WritesFor(earned) BY <1>0, <2>1
    <3>2. ~ (w.key = u /\ w.field = f)
      <4>1. applied[d] + 1 \in (0 + 1)..Len(puts[d]) BY <1>0, <3>1
      <4> QED BY <2>3, <4>1 DEF Clear, Hit
    <3>3. db'[u][f] = db[u][f] BY <1>0, <2>1, <3>1, <3>2, ApplyChanges
    <3>4. applied'[e] = applied[e] /\ puts'[e] = puts[e] BY <1>0, <2>1, <2>3
    <3> QED BY <3>3, <3>4 DEF Settled
  <2> QED BY <2>2, <2>3
<1>3. CASE AckPut(d)
  <2>1. /\ applied[d] > 0 /\ puts' = [puts EXCEPT ![d] = Tail(puts[d])]
        /\ applied' = [applied EXCEPT ![d] = applied[d] - 1] /\ db' = db
    BY <1>3 DEF AckPut
  <2>2. CASE e = d
    <3>1. /\ Clear(Tail(puts[e]), applied[e] - 1, u, f) <=> Clear(puts[e], applied[e], u, f)
          /\ \A x : Ends(puts[e], u, f, x) => Ends(Tail(puts[e]), u, f, x)
      <4>1. puts[e] \in Seq(WritesFor(earned)) /\ applied[e] \in Nat /\ 0 < applied[e] /\ applied[e] <= Len(puts[e])
        BY <1>0, <2>1, <2>2
      <4> QED BY <4>1, AckSettles
    <3>2. puts'[e] = Tail(puts[e]) /\ applied'[e] = applied[e] - 1 BY <1>0, <2>1, <2>2
    <3> QED BY <2>1, <3>1, <3>2 DEF Settled
  <2>3. CASE e # d BY <1>0, <2>1, <2>3
  <2> QED BY <2>2, <2>3
<1>4. CASE Disconnect(d)
  <2>1. applied' = [applied EXCEPT ![d] = 0] /\ puts' = puts /\ db' = db BY <1>4 DEF Disconnect
  <2>2. applied'[e] \in {0, applied[e]} BY <1>0, <2>1
  <2>3. Settled(puts[e], 0, db, u, f, v) BY <1>0, ResendSettles
  <2> QED BY <2>1, <2>2, <2>3
<1> QED BY <1>1, <1>2, <1>3, <1>4 DEF SdkStep, CollectionNext

(* What a device reads of a settled child.                                 *)
LEMMA ChildShown ==
  ASSUME TypeInv, NEW d \in Devices, NEW D \in DataFor(earned), NEW u \in Ids, NEW f \in Fields, NEW v,
         Settled(puts[d], 0, D, u, f, v)
  PROVE  Overlay(D, puts[d])[u][f] = v
<1>1. DOMAIN D = Ids BY DEF DataFor
<1>2. /\ Len(puts[d]) \in Nat /\ DOMAIN puts[d] = 1..Len(puts[d])
      /\ KeysOf(puts[d]) \subseteq Ids /\ \A i \in 1..Len(puts[d]) : puts[d][i].field \in Fields
  BY WritesNamed
<1> QED BY <1>1, <1>2, SettledShown

(* What a device reads of a settled total.                                 *)
LEMMA TotalShown ==
  ASSUME TypeInv, NEW d \in Devices, NEW D \in DataFor(earned), NEW u \in Ids, NEW v,
         Settled(puts[d], 0, D, u, "totalExp", v)
  PROVE  Overlay(D, puts[d])[u].totalExp = v
<1>1. "totalExp" \in Fields BY SessionsAssumption
<1>2. Overlay(D, puts[d])[u]["totalExp"] = v BY <1>1, ChildShown
<1> QED BY <1>2

(* The SDK keeps totals settled, and answers reads with them.              *)
LEMMA SdkTotals ==
  ASSUME Base, NEW d \in Devices, SdkStep(d), NEW e \in Devices, NEW u \in Ids,
         usedBy[u] \subseteq {e}, TotalSettled(e, u)
  PROVE  TotalSettled(e, u)'
<1> USE DEF Base
<1>0. /\ puts \in [Devices -> Seq(WritesFor(earned))] /\ applied \in [Devices -> Nat]
      /\ events \in [Devices -> Seq(EventsFor(earned))] /\ waiting \in [Devices -> Seq(Callbacks)]
      /\ cache \in [Devices -> DataFor(earned) \cup {NoRecords}]
      /\ db \in DataFor(earned)
  BY DEF TypeInv, SdkType, AppType
<1>1. homes' = homes /\ earned' = earned BY DEF SdkStep, appVars, history
<1>2. Settled(puts'[e], applied'[e], db', u, "totalExp", earned'[u])
  <2>1. "totalExp" \in Fields BY SessionsAssumption
  <2>2. \A x \in Devices \ {e} : Clear(puts[x], 0, u, "totalExp") BY OthersClear
  <2> QED BY <1>1, <2>1, <2>2, SdkSettles DEF TotalSettled
<1>3. Settled(puts'[e], 0, db', u, "totalExp", earned'[u])
  <2>1. applied'[e] \in Nat BY SdkStepType DEF TypeInv, SdkType
  <2> QED BY <1>2, <2>1, ResendSettles
<1>4. \A i \in DOMAIN homes'[e] : homes'[e][i].id = u => homes'[e][i].total = earned'[u]
  BY <1>1 DEF TotalSettled
<1>5. CASE events'[e] = events[e] /\ (cache'[e] = db' \/ (cache'[e] = cache[e] /\ puts'[e] = puts[e]))
  <2>1. \A i \in DOMAIN events'[e] : events'[e][i].cb.op = "login" /\ events'[e][i].cb.id = u =>
          events'[e][i].snap[u].totalExp = earned'[u]
    BY <1>1, <1>5 DEF TotalSettled
  <2>2. events'[e] # << >> => Settled(puts'[e], 0, cache'[e], u, "totalExp", earned'[u])
    BY <1>1, <1>3, <1>5 DEF TotalSettled
  <2> QED BY <1>2, <1>4, <2>1, <2>2 DEF TotalSettled
<1>6. CASE DataArrives(d) /\ e = d
  <2>1. /\ puts' = puts /\ db' = db /\ cache'[e] = db
        /\ DOMAIN events'[e] = DOMAIN waiting[e]
        /\ \A i \in DOMAIN waiting[e] : events'[e][i].snap = Overlay(db, puts[e])
    BY <1>0, <1>6 DEF DataArrives
  <2>2. Overlay(db, puts[e])[u].totalExp = earned[u] BY <1>0, <1>1, <1>3, <2>1, TotalShown
  <2>3. \A i \in DOMAIN events'[e] : events'[e][i].cb.op = "login" /\ events'[e][i].cb.id = u =>
          events'[e][i].snap[u].totalExp = earned'[u]
    BY <1>1, <2>1, <2>2
  <2>4. Settled(puts'[e], 0, cache'[e], u, "totalExp", earned'[u]) BY <1>3, <2>1
  <2> QED BY <1>2, <1>4, <2>3, <2>4 DEF TotalSettled
<1>7. CASE DataArrives(d) /\ e # d
  BY <1>0, <1>5, <1>7 DEF DataArrives
<1>8. CASE Push(d)
  <2>1. /\ puts' = puts /\ db' = db /\ events' = events /\ cache' = [cache EXCEPT ![d] = db]
    BY <1>8 DEF Push
  <2>2. cache'[e] = db' \/ cache'[e] = cache[e] BY <1>0, <2>1
  <2> QED BY <1>5, <2>1, <2>2
<1>9. CASE ServerApply(d) \/ Disconnect(d)
  BY <1>5, <1>9 DEF ServerApply, Disconnect
<1>10. CASE AckPut(d)
  <2>1. /\ puts' = [puts EXCEPT ![d] = Tail(puts[d])] /\ events' = events /\ db' = db
        /\ cache' = [cache EXCEPT ![d] = IF events[d] # << >> THEN db ELSE cache[d]]
    BY <1>10 DEF AckPut
  <2>2. CASE e # d BY <1>0, <1>5, <2>1, <2>2
  <2>3. CASE e = d /\ events[d] # << >> BY <1>0, <1>5, <2>1, <2>3
  <2>4. CASE e = d /\ events[d] = << >>
    <3>1. events'[e] = << >> /\ DOMAIN events'[e] = {} BY <2>1, <2>4
    <3> QED BY <1>2, <1>4, <3>1 DEF TotalSettled
  <2> QED BY <2>2, <2>3, <2>4
<1> QED BY <1>6, <1>7, <1>8, <1>9, <1>10 DEF SdkStep, CollectionNext

(* At first nothing is held of any account.                                *)
LEMMA InitOwned == Init => Owned
BY DEF Init, ClientsInit, Owned, OwnedAt

(* In every reachable state the types hold, and a device has writes,       *)
(* screens and reads only of accounts it has logged in to (the segues pass *)
(* the id on).                                                             *)
THEOREM BaseInvariant == Spec => []Base
<1>1. Init => Base BY InitType, InitOwned DEF Base
<1>2. Base /\ [Next]_vars => Base' BY NextType, NextOwned DEF Base
<1> QED BY <1>1, <1>2, PTL DEF Spec

(* A callback or a user's step is of one device, and history only grows.   *)
LEMMA OthersAlone ==
  ASSUME TypeInv, NEW d \in Devices, Callback(d) \/ UserStep(d)
  PROVE  /\ \A e \in Devices : e # d =>
              /\ puts'[e] = puts[e] /\ applied'[e] = applied[e] /\ waiting'[e] = waiting[e]
              /\ events'[e] = events[e] /\ cache'[e] = cache[e] /\ homes'[e] = homes[e]
              /\ chosen'[e] = chosen[e]
         /\ db' = db
         /\ \A u \in Ids : usedBy[u] \subseteq usedBy'[u]
         /\ contested \subseteq contested' /\ lost \subseteq lost'
<1>0. /\ puts \in [Devices -> Seq(WritesFor(earned))] /\ applied \in [Devices -> Nat]
      /\ events \in [Devices -> Seq(EventsFor(earned))] /\ waiting \in [Devices -> Seq(Callbacks)]
      /\ cache \in [Devices -> DataFor(earned) \cup {NoRecords}]
      /\ homes \in [Devices -> Seq(HomesFor(earned))]
      /\ usedBy \in [Ids -> SUBSET Devices] /\ chosen \in [Devices -> [Ids -> Passwords \cup {Missing}]]
  BY DEF TypeInv, SdkType, AppType
<1>1. CASE Kill(d) \/ PlayersTrap(d) BY <1>0, <1>1, RestartFacts
<1>2. CASE LoggedIn(d)
  <2>1. HeadCb(d).id \in Ids BY <1>2, LoggedInFacts
  <2> QED BY <1>0, <1>2, <2>1 DEF LoggedIn, Consume
<1>3. CASE LoginRefused(d) \/ ChangeRefused(d) \/ Changed(d) \/ StoreLocation(d) \/ FoundPlayers(d)
  BY <1>0, <1>3 DEF LoginRefused, ChangeRefused, Changed, StoreLocation, FoundPlayers, Consume, Alert,
                    appVars, history
<1>4. CASE TapLogin(d) \/ TapChange(d) \/ UpdateLocation(d) \/ ShowMap(d)
  <2>1. PICK cbs : ReadShape(d, cbs) BY <1>4, ReadSteps
  <2>2. /\ cbs \in Seq(Callbacks) /\ ObserveAll(d, cbs)
        /\ UNCHANGED <<db, puts, applied, usedBy, chosen, contested, lost>>
    BY <2>1 DEF ReadShape
  <2>3. \A e \in Devices : e # d => waiting'[e] = waiting[e] /\ events'[e] = events[e] /\ cache'[e] = cache[e]
    BY <2>2, ReadsElements
  <2>4. \A e \in Devices : e # d => homes'[e] = homes[e]
    BY <1>0, <2>1 DEF ReadShape, LoginShape, AskShape, SetUpShape, HomesAlike, SetTop
  <2> QED BY <2>2, <2>3, <2>4
<1>5. CASE LogOut(d) \/ OpenForm(d) \/ Back(d) \/ Dismiss(d)
  BY <1>0, <1>5 DEF LogOut, OpenForm, Back, Dismiss, SetTop, collectionVars, history
<1>6. CASE AddExperience(d) BY <1>0, <1>6 DEF AddExperience, SetTop
<1> QED BY <1>1, <1>2, <1>3, <1>4, <1>5, <1>6 DEF Callback, UserStep

(* Only a reward to a User of the device changes what was earned.          *)
LEMMA EarnedKept ==
  ASSUME TypeInv, NEW d \in Devices, Callback(d) \/ UserStep(d), ~ AddExperience(d)
  PROVE  earned' = earned
<1>1. CASE Kill(d) \/ PlayersTrap(d) BY <1>1, RestartFacts
<1>2. CASE ~ Kill(d) /\ ~ PlayersTrap(d)
  BY <1>2 DEF Callback, UserStep, LoggedIn, LoginRefused, ChangeRefused, Changed, StoreLocation, FoundPlayers,
              TapLogin, TapChange, UpdateLocation, ShowMap, LogOut, OpenForm, Back, Dismiss, appVars, history
<1> QED BY <1>1, <1>2

(* The events left after the first, and the data behind them.              *)
LEMMA ConsumeFacts ==
  ASSUME TypeInv, NEW d \in Devices, events[d] # << >>, Consume(d)
  PROVE  /\ \A i \in DOMAIN events'[d] : i + 1 \in DOMAIN events[d] /\ events'[d][i] = events[d][i + 1]
         /\ events'[d] # << >> => cache'[d] = cache[d]
<1>1. events[d] \in Seq(EventsFor(earned)) BY DEF TypeInv, SdkType
<1>2. events'[d] = Tail(events[d])
  BY DEF Consume, TypeInv, SdkType
<1>3. \A i \in DOMAIN Tail(events[d]) : i + 1 \in DOMAIN events[d] /\ Tail(events[d])[i] = events[d][i + 1]
  BY <1>1, TailFacts
<1>4. cache'[d] = IF Len(events[d]) = 1 THEN NoRecords ELSE cache[d] BY DEF Consume, TypeInv, SdkType
<1>5. Len(events[d]) = 1 => Tail(events[d]) = << >>
  <2>1. Tail(events[d]) \in Seq(EventsFor(earned)) /\ Len(Tail(events[d])) = Len(events[d]) - 1
    BY <1>1, TailFacts
  <2>2. \A t \in Seq(EventsFor(earned)) : Len(t) = 0 => t = << >> OBVIOUS
  <2>3. Len(events[d]) = 1 => Len(Tail(events[d])) = 0 BY <2>1
  <2> QED BY <2>1, <2>2, <2>3
<1> QED BY <1>2, <1>3, <1>4, <1>5

(* A device's own steps, other than rewards, keep the totals settled.      *)
LEMMA OwnTotals ==
  ASSUME TypeInv, NEW d \in Devices, Callback(d) \/ UserStep(d), ~ AddExperience(d),
         NEW u \in Ids, u \notin lost', TotalSettled(d, u)
  PROVE  TotalSettled(d, u)'
<1>0. /\ puts \in [Devices -> Seq(WritesFor(earned))] /\ applied \in [Devices -> Nat]
      /\ events \in [Devices -> Seq(EventsFor(earned))] /\ homes \in [Devices -> Seq(HomesFor(earned))]
      /\ \A x \in Devices : applied[x] <= Len(puts[x])
  BY DEF TypeInv, SdkType, AppType
<1>1. earned' = earned /\ db' = db BY EarnedKept, OthersAlone
<1>2. CASE Kill(d) \/ PlayersTrap(d)
  <2>1. /\ puts'[d] = << >> /\ applied'[d] = 0 /\ events'[d] = << >> /\ homes'[d] = << >>
        /\ u \notin KeysOf(puts[d])
    BY <1>0, <1>2, RestartFacts
  <2>2. Clear(puts[d], applied[d], u, "totalExp")
    BY <1>0, <2>1 DEF Clear, Hit, KeysOf
  <2>3. db[u]["totalExp"] = earned[u] BY <2>2 DEF TotalSettled, Settled
  <2>4. Settled(puts'[d], applied'[d], db', u, "totalExp", earned'[u])
    BY <1>1, <2>1, <2>3 DEF Settled, Ends, Clear
  <2>5. DOMAIN events'[d] = {} /\ DOMAIN homes'[d] = {} BY <2>1
  <2> QED BY <2>1, <2>4, <2>5 DEF TotalSettled
<1>3. ASSUME events[d] # << >>, Consume(d)
      PROVE  /\ events'[d] # << >> => Settled(puts[d], 0, cache'[d], u, "totalExp", earned[u])
             /\ \A i \in DOMAIN events'[d] : events'[d][i].cb.op = "login" /\ events'[d][i].cb.id = u =>
                  events'[d][i].snap[u].totalExp = earned[u]
  BY <1>3, ConsumeFacts DEF TotalSettled
<1>4. CASE LoggedIn(d)
  <2>1. PICK h : /\ homes' = [homes EXCEPT ![d] = Append(homes[d], h)] /\ h.id = HeadCb(d).id
                 /\ h.total = events[d][1].snap[HeadCb(d).id].totalExp
                 /\ events[d] # << >>
    BY <1>4, LoggedInFacts
  <2>2. Consume(d) /\ puts' = puts /\ applied' = applied BY <1>4 DEF LoggedIn
  <2>3. HeadCb(d) = events[d][1].cb /\ 1 \in DOMAIN events[d] /\ HeadCb(d).op = "login"
    BY <1>4, <2>1, HeadType DEF HeadCb, LoggedIn, HeadIs
  <2>4. h.id = u => h.total = earned[u] BY <2>1, <2>3 DEF TotalSettled
  <2>5. \A i \in DOMAIN homes'[d] : (i \in DOMAIN homes[d] /\ homes'[d][i] = homes[d][i]) \/ homes'[d][i] = h
    <3>1. homes[d] \in Seq(HomesFor(earned)) /\ homes'[d] = Append(homes[d], h) BY <1>0, <2>1
    <3> QED BY <3>1
  <2>6. \A i \in DOMAIN homes'[d] : homes'[d][i].id = u => homes'[d][i].total = earned[u]
    BY <2>4, <2>5 DEF TotalSettled
  <2> QED BY <1>1, <1>3, <2>1, <2>2, <2>6 DEF TotalSettled
<1>5. CASE LoginRefused(d) \/ ChangeRefused(d) \/ FoundPlayers(d)
  <2>1. /\ DOMAIN homes'[d] = DOMAIN homes[d] /\ events[d] # << >>
        /\ \A i \in DOMAIN homes[d] : homes'[d][i].id = homes[d][i].id /\ homes'[d][i].total = homes[d][i].total
    BY <1>5, RefusedFacts, FoundPlayersFacts DEF HomesAlike, Alike
  <2>2. Consume(d) /\ puts' = puts /\ applied' = applied
    BY <1>5 DEF LoginRefused, ChangeRefused, FoundPlayers
  <2>3. \A i \in DOMAIN homes'[d] : homes'[d][i].id = u => homes'[d][i].total = earned[u]
    BY <2>1 DEF TotalSettled
  <2> QED BY <1>1, <1>3, <2>1, <2>2, <2>3 DEF TotalSettled
<1>6. CASE Changed(d) \/ StoreLocation(d)
  <2>1. HomesAlike(d) BY <1>6, AlertAlike, SameAlike DEF Changed, StoreLocation, appVars
  <2>2. \A i \in DOMAIN homes'[d] : homes'[d][i].id = u => homes'[d][i].total = earned[u]
    BY <2>1 DEF HomesAlike, Alike, TotalSettled
  <2>3. Consume(d) /\ applied' = applied /\ events[d] # << >> BY <1>6 DEF Changed, StoreLocation, HeadIs
  <2>4. \A n \in Nat : \A D : n <= Len(puts[d]) /\ Settled(puts[d], n, D, u, "totalExp", earned[u])
          => Settled(puts'[d], n, D, u, "totalExp", earned[u])
    <3> SUFFICES ASSUME NEW n \in Nat, NEW D, n <= Len(puts[d]), Settled(puts[d], n, D, u, "totalExp", earned[u])
                 PROVE  Settled(puts'[d], n, D, u, "totalExp", earned[u])
      OBVIOUS
    <3>1. puts[d] \in Seq(WritesFor(earned)) BY <1>0
    <3>2. CASE Changed(d)
      <4>1. PICK w \in WritesFor(earned) : w.field = "password" /\ puts' = [puts EXCEPT ![d] = Append(puts[d], w)]
        BY <3>2, ChangedFacts DEF Write
      <4>2. Settled(Append(puts[d], w), n, D, u, "totalExp", earned[u])
        BY <3>1, <4>1, AppendSettled
      <4> QED BY <1>0, <4>1, <4>2
    <3>3. CASE StoreLocation(d)
      <4>1. PICK w \in WritesFor(earned), x \in WritesFor(earned) :
              /\ w.field = "latitude" /\ x.field = "longitude"
              /\ puts' = [puts EXCEPT ![d] = Append(Append(puts[d], w), x)]
        BY <3>3, StoreLocationFacts DEF Write
      <4>2. Settled(Append(puts[d], w), n, D, u, "totalExp", earned[u])
        BY <3>1, <4>1, AppendSettled
      <4>3. Append(puts[d], w) \in Seq(WritesFor(earned)) /\ n <= Len(Append(puts[d], w)) BY <3>1
      <4>4. Settled(Append(Append(puts[d], w), x), n, D, u, "totalExp", earned[u])
        BY <4>1, <4>2, <4>3, AppendSettled
      <4> QED BY <1>0, <4>1, <4>4
    <3> QED BY <1>6, <3>2, <3>3
  <2>5. Settled(puts'[d], applied'[d], db', u, "totalExp", earned'[u])
    BY <1>0, <1>1, <2>3, <2>4 DEF TotalSettled
  <2>6. events'[d] # << >> => Settled(puts'[d], 0, cache'[d], u, "totalExp", earned'[u])
    <3>1. 0 \in Nat /\ 0 <= Len(puts[d]) BY <1>0
    <3> QED BY <1>1, <1>3, <2>3, <2>4, <3>1
  <2> QED BY <1>1, <1>3, <2>2, <2>3, <2>5, <2>6 DEF TotalSettled
<1>7. CASE TapLogin(d) \/ TapChange(d) \/ UpdateLocation(d) \/ ShowMap(d)
  <2>1. PICK cbs : ReadShape(d, cbs) BY <1>7, ReadSteps
  <2>2. /\ cbs \in Seq(Callbacks) /\ ObserveAll(d, cbs) /\ puts' = puts /\ applied' = applied
    BY <2>1 DEF ReadShape
  <2>3. \A i \in DOMAIN homes'[d] : homes'[d][i].id = u => homes'[d][i].total = earned[u]
    <3>1. CASE LoginShape(cbs) BY <3>1 DEF LoginShape, TotalSettled
    <3>2. CASE AskShape(d, cbs) BY <3>2 DEF AskShape, HomesAlike, Alike, TotalSettled
    <3>3. CASE SetUpShape(d, cbs) /\ TopForm(d) # "none"
      <4>1. PICK h \in HomesFor(earned) : SetTop(d, h) /\ h.id = Top(d).id /\ h.total = Top(d).total
        BY <3>3 DEF SetUpShape
      <4>2. /\ DOMAIN homes'[d] = DOMAIN homes[d]
            /\ homes'[d][Len(homes[d])] = h
            /\ \A i \in DOMAIN homes[d] : i # Len(homes[d]) => homes'[d][i] = homes[d][i]
        BY <3>3, <4>1, SetTopFacts
      <4>3. Top(d) = homes[d][Len(homes[d])] BY <3>3, TopFacts
      <4> QED BY <4>1, <4>2, <4>3 DEF TotalSettled
    <3> QED BY <2>1, <3>1, <3>2, <3>3 DEF ReadShape
  <2>4. events'[d] # << >> => events[d] # << >> /\ cache'[d] = cache[d]
    BY <2>2, ReadsElements
  <2>5. \A i \in DOMAIN events'[d] :
          \/ i \in DOMAIN events[d] /\ events'[d][i] = events[d][i]
          \/ events'[d] # << >> /\ events'[d][i].snap = Overlay(cache[d], puts[d])
    BY <2>2, ReadsElements
  <2>6. events'[d] # << >> => Overlay(cache[d], puts[d])[u].totalExp = earned[u]
    <3> SUFFICES ASSUME events'[d] # << >> PROVE Overlay(cache[d], puts[d])[u].totalExp = earned[u]
      OBVIOUS
    <3>1. events[d] # << >> BY <2>4
    <3>2. cache[d] \in DataFor(earned) BY <3>1 DEF TypeInv, SdkType
    <3>3. Settled(puts[d], 0, cache[d], u, "totalExp", earned[u]) BY <3>1 DEF TotalSettled
    <3> QED BY <3>2, <3>3, TotalShown
  <2>7. \A i \in DOMAIN events'[d] : events'[d][i].cb.op = "login" /\ events'[d][i].cb.id = u =>
          events'[d][i].snap[u].totalExp = earned[u]
    BY <2>5, <2>6 DEF TotalSettled
  <2>8. events'[d] # << >> => Settled(puts'[d], 0, cache'[d], u, "totalExp", earned'[u])
    BY <1>1, <2>2, <2>4 DEF TotalSettled
  <2>9. Settled(puts'[d], applied'[d], db', u, "totalExp", earned'[u])
    BY <1>1, <2>2 DEF TotalSettled
  <2> QED BY <1>1, <2>3, <2>7, <2>8, <2>9 DEF TotalSettled
<1>8. CASE LogOut(d) \/ OpenForm(d) \/ Back(d) \/ Dismiss(d)
  <2>1. /\ \A i \in DOMAIN homes'[d] : /\ i \in DOMAIN homes[d] /\ homes'[d][i].id = homes[d][i].id
                                       /\ homes'[d][i].total = homes[d][i].total
        /\ UNCHANGED <<collectionVars, history>>
    BY <1>8, LogOutFacts, EditSteps DEF HomesAlike, Alike
  <2> QED BY <2>1 DEF collectionVars, history, TotalSettled
<1> QED BY <1>2, <1>4, <1>5, <1>6, <1>7, <1>8 DEF Callback, UserStep

(* A reward to a User that is the only one of its account keeps the total  *)
(* settled: the new one.                                                   *)
LEMMA RewardTotals ==
  ASSUME TypeInv, NEW d \in Devices, AddExperience(d), NEW u \in Ids, u \notin contested', TotalSettled(d, u)
  PROVE  TotalSettled(d, u)'
<1>0. /\ puts \in [Devices -> Seq(WritesFor(earned))] /\ applied \in [Devices -> Nat]
      /\ \A x \in Devices : applied[x] <= Len(puts[x])
      /\ earned \in [Ids -> Nat]
  BY DEF TypeInv, SdkType, AppType
<1>1. PICK k \in Ids :
       LET h == homes'[d][Len(homes[d])]
           w == Write(k, "totalExp", Top(d).total + 1) IN
       /\ k = Top(d).id /\ TopForm(d) # "none"
       /\ earned' = [earned EXCEPT ![k] = @ + 1] /\ earned' \in [Ids -> Nat]
       /\ \A x \in Ids : earned[x] <= earned'[x]
       /\ w \in WritesFor(earned') /\ puts' = [puts EXCEPT ![d] = Append(puts[d], w)]
       /\ DOMAIN homes'[d] = DOMAIN homes[d] /\ h.id = k /\ h.total = Top(d).total + 1
       /\ \A i \in DOMAIN homes[d] : i # Len(homes[d]) => homes'[d][i] = homes[d][i]
  BY AddExperienceFacts
<1> DEFINE w == Write(k, "totalExp", Top(d).total + 1)
<1>2. /\ applied' = applied /\ db' = db /\ events' = events /\ cache' = cache
      /\ contested' = IF SecondUser(d, k) THEN contested \cup {k} ELSE contested
  BY <1>1 DEF AddExperience
<1>3. w.key = k /\ w.field = "totalExp" /\ w.value = Top(d).total + 1 BY DEF Write
<1>4. /\ Top(d) = homes[d][Len(homes[d])] /\ Len(homes[d]) \in DOMAIN homes[d]
      /\ DOMAIN homes[d] = 1..Len(homes[d]) /\ Len(homes[d]) \in Nat
  BY <1>1, TopFacts
<1>5. puts[d] \in Seq(WritesFor(earned')) /\ w \in WritesFor(earned') /\ puts'[d] = Append(puts[d], w)
  <2>1. earned' \in [Ids -> Nat] /\ \A x \in Ids : earned[x] <= earned'[x] BY <1>1
  <2>2. Seq(WritesFor(earned)) \subseteq Seq(WritesFor(earned')) BY <1>0, <2>1, GrowTypes
  <2> QED BY <1>0, <1>1, <2>2
<1> HIDE DEF w
<1>6. CASE u = k
  <2>1. ~ SecondUser(d, u) BY <1>2, <1>6
  <2>2. Top(d).total = earned[u] BY <1>1, <1>4, <1>6 DEF TotalSettled
  <2>3. earned'[u] = earned[u] + 1 /\ w.value = earned'[u] BY <1>0, <1>1, <1>3, <1>6, <2>2
  <2>4. \A n \in Nat : \A D : n <= Len(puts[d]) => Settled(puts'[d], n, D, u, "totalExp", earned'[u])
    BY <1>3, <1>5, <1>6, <2>3, AppendSettled
  <2>5. 0 \in Nat /\ 0 <= Len(puts[d]) /\ applied[d] \in Nat /\ applied[d] <= Len(puts[d]) BY <1>0
  <2>6. /\ Settled(puts'[d], applied'[d], db', u, "totalExp", earned'[u])
        /\ Settled(puts'[d], 0, cache'[d], u, "totalExp", earned'[u])
    BY <1>2, <2>4, <2>5
  <2>7. \A i \in DOMAIN events'[d] : ~ (events'[d][i].cb.op = "login" /\ events'[d][i].cb.id = u)
    BY <1>2, <2>1 DEF SecondUser
  <2>8. \A i \in DOMAIN homes[d] : i # Len(homes[d]) => homes[d][i].id # u
    BY <1>4, <2>1 DEF SecondUser
  <2>9. \A i \in DOMAIN homes'[d] : homes'[d][i].id = u => homes'[d][i].total = earned'[u]
    BY <1>1, <1>3, <2>3, <2>8
  <2> QED BY <2>6, <2>7, <2>9 DEF TotalSettled
<1>7. CASE u # k
  <2>1. earned'[u] = earned[u] BY <1>0, <1>1, <1>7
  <2>2. \A n \in Nat : \A D : n <= Len(puts[d]) /\ Settled(puts[d], n, D, u, "totalExp", earned[u])
          => Settled(puts'[d], n, D, u, "totalExp", earned[u])
    BY <1>3, <1>5, <1>7, AppendSettled
  <2>3. 0 \in Nat /\ 0 <= Len(puts[d]) /\ applied[d] \in Nat /\ applied[d] <= Len(puts[d]) BY <1>0
  <2>4. Settled(puts'[d], applied'[d], db', u, "totalExp", earned'[u])
    BY <1>2, <2>1, <2>2, <2>3 DEF TotalSettled
  <2>5. events'[d] # << >> => Settled(puts'[d], 0, cache'[d], u, "totalExp", earned'[u])
    BY <1>2, <2>1, <2>2, <2>3 DEF TotalSettled
  <2>6. \A i \in DOMAIN homes'[d] : homes'[d][i].id = u => homes'[d][i].total = earned'[u]
    BY <1>1, <1>7, <2>1 DEF TotalSettled
  <2> QED BY <1>2, <2>1, <2>4, <2>5, <2>6 DEF TotalSettled
<1> QED BY <1>6, <1>7

(* Every step keeps the totals of undisputed accounts settled.             *)
LEMMA NextTotals == Base /\ Totals /\ [Next]_vars => Totals'
<1> SUFFICES ASSUME Base, Totals, [Next]_vars PROVE Totals' OBVIOUS
<1>0. TypeInv /\ Owned BY DEF Base
<1>1. CASE UNCHANGED vars
  BY <1>1 DEF vars, collectionVars, appVars, history, Totals, TotalSettled
<1>2. ASSUME NEW d \in Devices, SdkStep(d) PROVE Totals'
  <2> SUFFICES ASSUME NEW e \in Devices, NEW u \in Ids, u \notin contested' \cup lost', usedBy'[u] \subseteq {e}
               PROVE  TotalSettled(e, u)'
    BY DEF Totals
  <2>1. usedBy' = usedBy /\ contested' = contested /\ lost' = lost BY <1>2 DEF SdkStep, appVars, history
  <2>2. TotalSettled(e, u) BY <2>1 DEF Totals
  <2> QED BY <1>2, <2>1, <2>2, SdkTotals
<1>3. ASSUME NEW d \in Devices, Callback(d) \/ UserStep(d) PROVE Totals'
  <2> SUFFICES ASSUME NEW e \in Devices, NEW u \in Ids, u \notin contested' \cup lost', usedBy'[u] \subseteq {e}
               PROVE  TotalSettled(e, u)'
    BY DEF Totals
  <2>1. usedBy[u] \subseteq {e} /\ u \notin contested \cup lost BY <1>0, <1>3, OthersAlone
  <2>2. TotalSettled(e, u) BY <2>1 DEF Totals
  <2>3. CASE e # d
    <3>1. /\ puts'[e] = puts[e] /\ applied'[e] = applied[e] /\ events'[e] = events[e]
          /\ cache'[e] = cache[e] /\ homes'[e] = homes[e] /\ db' = db
      BY <1>0, <1>3, <2>3, OthersAlone
    <3>2. earned'[u] = earned[u]
      <4>1. CASE ~ AddExperience(d) BY <1>0, <1>3, <4>1, EarnedKept
      <4>2. CASE AddExperience(d)
        <5>1. earned \in [Ids -> Nat] BY <1>0 DEF TypeInv, AppType
        <5>2. PICK k \in Ids : /\ k = Top(d).id /\ TopForm(d) # "none"
                               /\ earned' = [earned EXCEPT ![k] = @ + 1]
          BY <1>0, <4>2, AddExperienceFacts
        <5>3. Top(d) = homes[d][Len(homes[d])] /\ Len(homes[d]) \in DOMAIN homes[d]
          BY <1>0, <5>2, TopFacts
        <5>4. d \in usedBy[k] BY <1>0, <5>2, <5>3 DEF Owned, OwnedAt
        <5>5. k # u BY <2>1, <2>3, <5>4
        <5> QED BY <5>1, <5>2, <5>5
      <4> QED BY <4>1, <4>2
    <3> QED BY <2>2, <3>1, <3>2 DEF TotalSettled
  <2>4. CASE e = d /\ AddExperience(d) BY <1>0, <2>2, <2>4, RewardTotals
  <2>5. CASE e = d /\ ~ AddExperience(d) BY <1>0, <1>3, <2>2, <2>5, OwnTotals
  <2> QED BY <2>3, <2>4, <2>5
<1> QED BY <1>1, <1>2, <1>3 DEF Next

(* At first nothing is earned.                                             *)
LEMMA InitTotals == Init => Totals
<1> SUFFICES ASSUME Init PROVE Totals OBVIOUS
<1>1. \A u \in Ids : earned[u] = 0 /\ db[u]["totalExp"] = 0
  BY DEF Init, Account
<1> QED BY <1>1 DEF Init, ClientsInit, Totals, TotalSettled, Settled, Ends, Clear

(* What TLC checks follows: the device's own view of a settled total.      *)
LEMMA TotalsImplyStored == Base /\ Totals => EarnedIsStored
<1> SUFFICES ASSUME Base, Totals, NEW u \in Ids, Undisputed(u), NEW d \in usedBy[u]
             PROVE  Overlay(db, puts[d])[u].totalExp = earned[u]
  BY DEF EarnedIsStored
<1>0. TypeInv BY DEF Base
<1>1. IsFiniteSet(usedBy[u]) /\ usedBy[u] \subseteq Devices /\ d \in Devices BY <1>0 DEF TypeInv, AppType
<1>2. usedBy[u] \subseteq {d}
  <2>1. Cardinality(usedBy[u]) = 1 BY DEF Undisputed
  <2>2. PICK x : usedBy[u] = {x} BY <1>1, <2>1, FS_Singleton
  <2> QED BY <2>2
<1>3. TotalSettled(d, u) BY <1>1, <1>2 DEF Totals, Undisputed
<1>4. applied[d] \in Nat /\ db \in DataFor(earned) BY <1>0, <1>1 DEF TypeInv, SdkType
<1>5. Settled(puts[d], 0, db, u, "totalExp", earned[u])
  <2>1. Settled(puts[d], applied[d], db, u, "totalExp", earned[u]) BY <1>3 DEF TotalSettled
  <2> QED BY <1>4, <2>1, ResendSettles
<1> QED BY <1>0, <1>1, <1>4, <1>5, TotalShown

(* An account used by one device only, whose rewards were never given to   *)
(* one of two Users of it and none of whose writes died with a process:    *)
(* that device reads a total that is exactly what was earned, whatever the *)
(* log outs, logins, lost connections and resent writes, for any number of *)
(* devices and accounts (User.swift:53, LoginVC.swift's User from data).   *)
THEOREM EarnedStays == Spec => []EarnedIsStored
<1>1. Init => Totals BY InitTotals
<1>2. Base /\ Base' /\ Totals /\ [Next]_vars => Totals' BY NextTotals
<1>3. Spec => []Base BY BaseInvariant
<1>4. Base /\ Totals => EarnedIsStored BY TotalsImplyStored
<1> QED BY <1>1, <1>2, <1>3, <1>4, PTL DEF Spec

(* What a step of the device that ends no process adds to its queue.       *)
PutsShape(d) ==
  /\ applied' = applied /\ puts[d] \in Seq(WritesFor(earned'))
  /\ \/ puts'[d] = puts[d] /\ chosen' = chosen
     \/ \E w \in WritesFor(earned') :
          w.field = "totalExp" /\ puts'[d] = Append(puts[d], w) /\ chosen' = chosen
     \/ \E w \in WritesFor(earned') :
          /\ w.field = "password" /\ puts'[d] = Append(puts[d], w)
          /\ w.key \in Ids /\ w.value \in Passwords
          /\ chosen' = [chosen EXCEPT ![d][w.key] = w.value]
     \/ \E w, x \in WritesFor(earned') :
          /\ w.field = "latitude" /\ x.field = "longitude" /\ w.key = x.key /\ w.value = x.value
          /\ w.value \in Places
          /\ puts'[d] = Append(Append(puts[d], w), x) /\ chosen' = chosen

(* What each callback and each step of a user adds to the queue.           *)
LEMMA PutsShapes ==
  ASSUME TypeInv, NEW d \in Devices, Callback(d) \/ UserStep(d), ~ Kill(d), ~ PlayersTrap(d)
  PROVE  PutsShape(d)
<1>0. /\ puts \in [Devices -> Seq(WritesFor(earned))] /\ earned \in [Ids -> Nat]
  BY DEF TypeInv, SdkType, AppType
<1>1. CASE AddExperience(d)
  <2>1. PICK k \in Ids :
         LET w == Write(k, "totalExp", Top(d).total + 1) IN
         /\ earned' \in [Ids -> Nat] /\ \A x \in Ids : earned[x] <= earned'[x]
         /\ w \in WritesFor(earned') /\ puts' = [puts EXCEPT ![d] = Append(puts[d], w)]
    BY <1>1, AddExperienceFacts
  <2>2. earned' \in [Ids -> Nat] /\ \A x \in Ids : earned[x] <= earned'[x] BY <2>1
  <2>3. Seq(WritesFor(earned)) \subseteq Seq(WritesFor(earned')) BY <1>0, <2>2, GrowTypes
  <2>4. puts[d] \in Seq(WritesFor(earned')) BY <1>0, <2>3
  <2>5. \E w \in WritesFor(earned') : w.field = "totalExp" /\ puts'[d] = Append(puts[d], w)
    BY <1>0, <2>1 DEF Write
  <2> QED BY <1>1, <2>4, <2>5 DEF AddExperience, PutsShape
<1>2. CASE ~ AddExperience(d)
  <2>1. earned' = earned BY <1>2, EarnedKept
  <2>2. puts[d] \in Seq(WritesFor(earned')) BY <1>0, <2>1
  <2>3. CASE Changed(d)
    <3>1. PICK p \in Passwords, u \in Ids :
            LET w == Write(u, "password", p) IN
            /\ w \in WritesFor(earned)
            /\ puts' = [puts EXCEPT ![d] = Append(puts[d], w)]
            /\ chosen' = [chosen EXCEPT ![d][u] = p]
      BY <2>3, ChangedFacts
    <3> DEFINE w == Write(u, "password", p)
    <3>2. w.field = "password" /\ w.key = u /\ w.value = p BY DEF Write
    <3>3. w \in WritesFor(earned') /\ puts'[d] = Append(puts[d], w) /\ chosen' = [chosen EXCEPT ![d][u] = p]
      BY <1>0, <2>1, <3>1
    <3>4. applied' = applied BY <2>3 DEF Changed
    <3> HIDE DEF w
    <3> QED BY <2>2, <3>2, <3>3, <3>4 DEF PutsShape
  <2>4. CASE StoreLocation(d)
    <3>1. PICK p \in Places, u \in Ids :
            LET w == Write(u, "latitude", p)
                x == Write(u, "longitude", p) IN
            /\ w \in WritesFor(earned) /\ x \in WritesFor(earned)
            /\ puts' = [puts EXCEPT ![d] = Append(Append(puts[d], w), x)]
      BY <2>4, StoreLocationFacts
    <3> DEFINE w == Write(u, "latitude", p)
               x == Write(u, "longitude", p)
    <3>2. /\ w.field = "latitude" /\ w.key = u /\ w.value = p
          /\ x.field = "longitude" /\ x.key = u /\ x.value = p
      BY DEF Write
    <3>3. /\ w \in WritesFor(earned') /\ x \in WritesFor(earned')
          /\ puts'[d] = Append(Append(puts[d], w), x)
      BY <1>0, <2>1, <3>1
    <3>4. applied' = applied /\ chosen' = chosen BY <2>4 DEF StoreLocation, appVars, history
    <3> HIDE DEF w, x
    <3> QED BY <2>2, <3>2, <3>3, <3>4 DEF PutsShape
  <2>5. CASE TapLogin(d) \/ TapChange(d) \/ UpdateLocation(d) \/ ShowMap(d)
    <3>1. PICK cbs : ReadShape(d, cbs) BY <2>5, ReadSteps
    <3> QED BY <2>2, <3>1 DEF ReadShape, PutsShape
  <2>6. CASE \/ LoggedIn(d) \/ LoginRefused(d) \/ ChangeRefused(d) \/ FoundPlayers(d)
             \/ LogOut(d) \/ OpenForm(d) \/ Back(d) \/ Dismiss(d)
    BY <2>2, <2>6 DEF PutsShape, LoggedIn, LoginRefused, ChangeRefused, FoundPlayers, LogOut, OpenForm,
                      Back, Dismiss, appVars, history, collectionVars
  <2> QED BY <1>2, <2>3, <2>4, <2>5, <2>6 DEF Callback, UserStep
<1> QED BY <1>1, <1>2

(* A queue without its first write, and with one or two more.              *)
LEMMA LongitudesTail ==
  ASSUME NEW S, NEW ws \in Seq(S), ws # << >>, LongitudeFollows(ws)
  PROVE  LongitudeFollows(Tail(ws))
<1> DEFINE t == Tail(ws)
<1>1. /\ Len(ws) \in Nat /\ Len(t) = Len(ws) - 1 /\ Len(t) \in Nat
      /\ \A i \in 1..Len(t) : i + 1 \in 2..Len(ws) /\ t[i] = ws[i + 1]
  OBVIOUS
<1> HIDE DEF t
<1> SUFFICES ASSUME NEW i \in 1..Len(t), t[i].field = "latitude"
             PROVE  \E j \in (i + 1)..Len(t) : Hit(t, j, t[i].key, "longitude")
  BY DEF LongitudeFollows, t
<1>2. i + 1 \in 1..Len(ws) /\ ws[i + 1].field = "latitude" /\ t[i] = ws[i + 1] BY <1>1
<1>3. PICK j \in ((i + 1) + 1)..Len(ws) : Hit(ws, j, t[i].key, "longitude") BY <1>2 DEF LongitudeFollows
<1>4. j - 1 \in (i + 1)..Len(t) /\ j - 1 \in 1..Len(t) /\ (j - 1) + 1 = j BY <1>1, <1>2
<1>5. t[j - 1] = ws[j] BY <1>1, <1>4
<1> QED BY <1>3, <1>4, <1>5 DEF Hit

(* A longitude still follows every latitude when a whole location, or a    *)
(* write of something else, is added.                                      *)
LEMMA LongitudesAppend ==
  ASSUME NEW S, NEW ws \in Seq(S), LongitudeFollows(ws)
  PROVE  /\ \A w \in S : w.field # "latitude" => LongitudeFollows(Append(ws, w))
         /\ \A w, x \in S : w.field = "latitude" /\ x.field = "longitude" /\ w.key = x.key =>
              LongitudeFollows(Append(Append(ws, w), x))
<1> DEFINE n == Len(ws)
<1>1. n \in Nat OBVIOUS
<1>2. ASSUME NEW w \in S, w.field # "latitude" PROVE LongitudeFollows(Append(ws, w))
  <2> DEFINE q == Append(ws, w)
  <2>1. Len(q) = n + 1 /\ q[n + 1] = w /\ \A i \in 1..n : q[i] = ws[i] OBVIOUS
  <2> HIDE DEF q
  <2> SUFFICES ASSUME NEW i \in 1..(n + 1), q[i].field = "latitude"
               PROVE  \E j \in (i + 1)..(n + 1) : Hit(q, j, q[i].key, "longitude")
    BY <2>1 DEF LongitudeFollows, q
  <2>2. i \in 1..n BY <1>1, <1>2, <2>1
  <2>3. PICK j \in (i + 1)..n : Hit(ws, j, ws[i].key, "longitude") BY <2>1, <2>2 DEF LongitudeFollows
  <2>4. j \in 1..n /\ j \in (i + 1)..(n + 1) BY <1>1, <2>2, <2>3
  <2> QED BY <2>1, <2>2, <2>3, <2>4 DEF Hit
<1>3. ASSUME NEW w \in S, NEW x \in S, w.field = "latitude", x.field = "longitude", w.key = x.key
      PROVE  LongitudeFollows(Append(Append(ws, w), x))
  <2> DEFINE q == Append(Append(ws, w), x)
  <2>1. Len(q) = n + 2 /\ q[n + 1] = w /\ q[n + 2] = x /\ \A i \in 1..n : q[i] = ws[i] OBVIOUS
  <2> HIDE DEF q
  <2> SUFFICES ASSUME NEW i \in 1..(n + 2), q[i].field = "latitude"
               PROVE  \E j \in (i + 1)..(n + 2) : Hit(q, j, q[i].key, "longitude")
    BY <2>1 DEF LongitudeFollows, q
  <2>2. CASE i \in 1..n
    <3>1. PICK j \in (i + 1)..n : Hit(ws, j, ws[i].key, "longitude") BY <2>1, <2>2 DEF LongitudeFollows
    <3>2. j \in 1..n /\ j \in (i + 1)..(n + 2) BY <1>1, <2>2, <3>1
    <3> QED BY <2>1, <2>2, <3>1, <3>2 DEF Hit
  <2>3. CASE i \notin 1..n
    <3>1. i = n + 1 BY <1>1, <1>3, <2>1, <2>3
    <3>2. n + 2 \in (i + 1)..(n + 2) BY <1>1, <3>1
    <3> QED BY <1>3, <2>1, <3>1, <3>2 DEF Hit
  <2> QED BY <2>2, <2>3
<1> QED BY <1>2, <1>3

(* A device's own step keeps the two coordinates settled on one place.     *)
LEMMA OwnPlaces ==
  ASSUME TypeInv, NEW d \in Devices, PutsShape(d), db' = db, NEW u \in Ids, PlaceSettled(d, u)
  PROVE  PlaceSettled(d, u)'
<1> DEFINE S == WritesFor(earned')
           n == applied[d]
<1>0. n \in Nat /\ n <= Len(puts[d]) BY DEF TypeInv, SdkType
<1>1. /\ applied' = applied /\ puts[d] \in Seq(S) BY DEF PutsShape
<1>2. PICK v \in Spots : /\ Settled(puts[d], n, db, u, "latitude", v)
                         /\ Settled(puts[d], n, db, u, "longitude", v)
  BY DEF PlaceSettled
<1> HIDE DEF n, S
<1>3. CASE puts'[d] = puts[d] BY <1>1, <1>2, <1>3 DEF PlaceSettled, n
<1>4. ASSUME NEW w \in S, w.field \in {"totalExp", "password"}, puts'[d] = Append(puts[d], w)
      PROVE  PlaceSettled(d, u)'
  <2>1. Settled(Append(puts[d], w), n, db, u, "latitude", v) BY <1>0, <1>1, <1>2, <1>4, AppendSettled
  <2>2. Settled(Append(puts[d], w), n, db, u, "longitude", v) BY <1>0, <1>1, <1>2, <1>4, AppendSettled
  <2> QED BY <1>1, <1>4, <2>1, <2>2 DEF PlaceSettled, n
<1>5. ASSUME NEW w \in S, NEW x \in S, w.field = "latitude", x.field = "longitude", w.key = x.key,
             w.value = x.value, w.value \in Places, puts'[d] = Append(Append(puts[d], w), x)
      PROVE  PlaceSettled(d, u)'
  <2> DEFINE q == Append(puts[d], w)
  <2>1. q \in Seq(S) /\ n <= Len(q) BY <1>0, <1>1
  <2>2. CASE w.key = u
    <3>1. Settled(q, n, db, u, "latitude", w.value) BY <1>0, <1>1, <1>5, <2>2, AppendSettled
    <3> HIDE DEF q
    <3>2. Settled(Append(q, x), n, db, u, "latitude", w.value) BY <1>0, <1>5, <2>1, <3>1, AppendSettled
    <3>3. Settled(Append(q, x), n, db, u, "longitude", w.value) BY <1>0, <1>5, <2>1, <2>2, AppendSettled
    <3> QED BY <1>1, <1>5, <3>2, <3>3 DEF PlaceSettled, n, q, Spots
  <2>3. CASE w.key # u
    <3>1. Settled(q, n, db, u, "latitude", v) BY <1>0, <1>1, <1>2, <2>3, AppendSettled
    <3>2. Settled(q, n, db, u, "longitude", v) BY <1>0, <1>1, <1>2, <2>3, AppendSettled
    <3> HIDE DEF q
    <3>3. Settled(Append(q, x), n, db, u, "latitude", v) BY <1>0, <1>5, <2>1, <3>1, AppendSettled
    <3>4. Settled(Append(q, x), n, db, u, "longitude", v) BY <1>0, <1>5, <2>1, <2>3, <3>2, AppendSettled
    <3> QED BY <1>1, <1>5, <3>3, <3>4 DEF PlaceSettled, n, q
  <2> QED BY <2>2, <2>3
<1> QED BY <1>3, <1>4, <1>5 DEF PutsShape, S

(* A process that ends takes no write of an account that is not lost.      *)
LEMMA NothingPending ==
  ASSUME TypeInv, NEW d \in Devices, Kill(d) \/ PlayersTrap(d), NEW u \in Ids, u \notin lost', NEW f
  PROVE  Clear(puts[d], applied[d], u, f) /\ puts'[d] = << >> /\ applied'[d] = 0
<1>1. /\ puts \in [Devices -> Seq(WritesFor(earned))] /\ applied \in [Devices -> Nat]
  BY DEF TypeInv, SdkType
<1>2. puts'[d] = << >> /\ applied'[d] = 0 /\ u \notin KeysOf(puts[d]) BY <1>1, RestartFacts
<1> QED BY <1>1, <1>2 DEF Clear, Hit, KeysOf

(* Every step keeps the coordinates of an account settled on one place.    *)
LEMMA NextLocations == Base /\ Locations /\ [Next]_vars => Locations'
<1> SUFFICES ASSUME Base, Locations, [Next]_vars PROVE Locations' OBVIOUS
<1>0. /\ TypeInv /\ Owned
      /\ puts \in [Devices -> Seq(WritesFor(earned))] /\ applied \in [Devices -> Nat]
      /\ \A x \in Devices : applied[x] <= Len(puts[x])
  BY DEF Base, TypeInv, SdkType
<1>1. CASE UNCHANGED vars
  BY <1>1 DEF vars, collectionVars, appVars, history, Locations, PlaceSettled
<1>2. ASSUME NEW d \in Devices, SdkStep(d) PROVE Locations'
  <2>1. usedBy' = usedBy /\ lost' = lost BY <1>2 DEF SdkStep, appVars, history
  <2>2. ASSUME NEW e \in Devices PROVE LongitudeFollows(puts'[e])
    <3>1. LongitudeFollows(puts[e]) BY DEF Locations
    <3>2. puts'[e] = puts[e] \/ (puts[e] # << >> /\ puts'[e] = Tail(puts[e]))
      <4>1. CASE AckPut(d)
        <5>1. /\ applied[d] > 0 /\ puts' = [puts EXCEPT ![d] = Tail(puts[d])] BY <4>1 DEF AckPut
        <5>2. puts[d] # << >> BY <1>0, <5>1
        <5> QED BY <1>0, <5>1, <5>2
      <4>2. CASE ~ AckPut(d)
        BY <1>2, <4>2 DEF SdkStep, CollectionNext, DataArrives, Push, ServerApply, Disconnect
      <4> QED BY <4>1, <4>2
    <3>3. puts[e] \in Seq(WritesFor(earned)) BY <1>0
    <3> QED BY <3>1, <3>2, <3>3, LongitudesTail
  <2>3. ASSUME NEW e \in Devices, NEW u \in Ids \ lost', usedBy'[u] \subseteq {e} PROVE PlaceSettled(e, u)'
    <3>1. PICK v \in Spots : /\ Settled(puts[e], applied[e], db, u, "latitude", v)
                             /\ Settled(puts[e], applied[e], db, u, "longitude", v)
      BY <2>1, <2>3 DEF Locations, PlaceSettled
    <3>2. "latitude" \in Fields /\ "longitude" \in Fields BY SessionsAssumption
    <3>3. \A f : \A x \in Devices \ {e} : Clear(puts[x], 0, u, f) BY <2>1, <2>3, OthersClear
    <3>4. Settled(puts'[e], applied'[e], db', u, "latitude", v) BY <1>2, <2>3, <3>1, <3>2, <3>3, SdkSettles
    <3>5. Settled(puts'[e], applied'[e], db', u, "longitude", v) BY <1>2, <2>3, <3>1, <3>2, <3>3, SdkSettles
    <3> QED BY <3>4, <3>5 DEF PlaceSettled
  <2> QED BY <2>2, <2>3 DEF Locations
<1>3. ASSUME NEW d \in Devices, Callback(d) \/ UserStep(d) PROVE Locations'
  <2>1. /\ \A e \in Devices : e # d => puts'[e] = puts[e] /\ applied'[e] = applied[e]
        /\ db' = db /\ lost \subseteq lost' /\ \A u \in Ids : usedBy[u] \subseteq usedBy'[u]
    BY <1>0, <1>3, OthersAlone
  <2>2. ASSUME NEW e \in Devices PROVE LongitudeFollows(puts'[e])
    <3>1. LongitudeFollows(puts[e]) BY DEF Locations
    <3>2. CASE e # d BY <2>1, <3>1, <3>2
    <3>3. CASE e = d /\ (Kill(d) \/ PlayersTrap(d))
      <4>1. puts'[e] = << >> BY <1>0, <3>3, RestartFacts
      <4> QED BY <4>1 DEF LongitudeFollows
    <3>4. CASE e = d /\ ~ Kill(d) /\ ~ PlayersTrap(d)
      <4>1. PutsShape(d) BY <1>0, <1>3, <3>4, PutsShapes
      <4>2. puts[d] \in Seq(WritesFor(earned')) /\ LongitudeFollows(puts[d]) BY <3>1, <3>4, <4>1 DEF PutsShape
      <4>3. /\ \A w \in WritesFor(earned') : w.field # "latitude" => LongitudeFollows(Append(puts[d], w))
            /\ \A w, x \in WritesFor(earned') : w.field = "latitude" /\ x.field = "longitude" /\ w.key = x.key =>
                 LongitudeFollows(Append(Append(puts[d], w), x))
        BY <4>2, LongitudesAppend
      <4> QED BY <3>4, <4>1, <4>2, <4>3 DEF PutsShape
    <3> QED BY <3>2, <3>3, <3>4
  <2>3. ASSUME NEW e \in Devices, NEW u \in Ids \ lost', usedBy'[u] \subseteq {e} PROVE PlaceSettled(e, u)'
    <3>1. PlaceSettled(e, u) BY <2>1, <2>3 DEF Locations
    <3>2. CASE e # d BY <2>1, <3>1, <3>2 DEF PlaceSettled
    <3>3. CASE e = d /\ (Kill(d) \/ PlayersTrap(d))
      <4>1. \A f \in Fields : Clear(puts[d], applied[d], u, f) /\ puts'[d] = << >> /\ applied'[d] = 0
        BY <1>0, <2>3, <3>3, NothingPending
      <4>2. "latitude" \in Fields /\ "longitude" \in Fields BY SessionsAssumption
      <4> QED BY <2>1, <3>1, <3>3, <4>1, <4>2 DEF PlaceSettled, Settled, Ends, Clear
    <3>4. CASE e = d /\ ~ Kill(d) /\ ~ PlayersTrap(d)
      <4>1. PutsShape(d) BY <1>0, <1>3, <3>4, PutsShapes
      <4> QED BY <1>0, <2>1, <3>1, <3>4, <4>1, OwnPlaces
    <3> QED BY <3>2, <3>3, <3>4
  <2> QED BY <2>2, <2>3 DEF Locations
<1> QED BY <1>1, <1>2, <1>3 DEF Next

(* At first both coordinates of an account are of one place, or of none.   *)
LEMMA InitLocations == Init => Locations
<1> SUFFICES ASSUME Init PROVE Locations OBVIOUS
<1>1. puts = [d \in Devices |-> << >>] BY DEF Init, ClientsInit
<1>2. \A u \in Ids : db[u]["latitude"] = db[u]["longitude"] /\ db[u]["latitude"] \in Spots
  <2>1. PICK unlocated \in SUBSET Unlocated :
          db = [u \in Ids |-> Account(IF u \in unlocated THEN Missing ELSE CHOOSE p \in Places : TRUE)]
    BY DEF Init
  <2>2. (CHOOSE p \in Places : TRUE) \in Places BY SessionsAssumption
  <2> SUFFICES ASSUME NEW u \in Ids
               PROVE  db[u]["latitude"] = db[u]["longitude"] /\ db[u]["latitude"] \in Spots
    OBVIOUS
  <2>3. PICK q \in Spots : db[u] = Account(q) BY <2>1, <2>2 DEF Spots
  <2> QED BY <2>3 DEF Account
<1> QED BY <1>1, <1>2 DEF Locations, LongitudeFollows, PlaceSettled, Settled, Ends, Clear

(* What TLC checks: coordinates that differ are waiting for a longitude.   *)
LEMMA LocationsImplyHeals == Base /\ Locations => LocationHeals
<1> SUFFICES ASSUME Base, Locations, NEW u \in Ids \ lost, Cardinality(usedBy[u]) = 1,
                    db[u].latitude # db[u].longitude
             PROVE  \E d \in usedBy[u] : \E i \in DOMAIN puts[d] :
                      i > applied[d] /\ puts[d][i].key = u /\ puts[d][i].field = "longitude"
  BY DEF LocationHeals
<1>1. IsFiniteSet(usedBy[u]) /\ usedBy[u] \subseteq Devices BY DEF Base, TypeInv, AppType
<1>2. PICK d : usedBy[u] = {d} BY <1>1, FS_Singleton
<1>3. d \in Devices /\ PlaceSettled(d, u) /\ LongitudeFollows(puts[d]) BY <1>1, <1>2 DEF Locations
<1> DEFINE ws == puts[d]
           n == applied[d]
<1>4. /\ Len(ws) \in Nat /\ DOMAIN ws = 1..Len(ws) /\ n \in Nat /\ n <= Len(ws)
  BY <1>3, WritesNamed DEF Base
<1>5. ~ Clear(ws, n, u, "latitude") \/ ~ Clear(ws, n, u, "longitude")
  BY <1>3 DEF PlaceSettled, Settled
<1> HIDE DEF ws, n
<1>6. \E j \in (n + 1)..Len(ws) : Hit(ws, j, u, "longitude")
  <2>1. CASE ~ Clear(ws, n, u, "longitude") BY <2>1 DEF Clear
  <2>2. CASE ~ Clear(ws, n, u, "latitude")
    <3>1. PICK i \in (n + 1)..Len(ws) : Hit(ws, i, u, "latitude") BY <2>2 DEF Clear
    <3>2. i \in 1..Len(ws) BY <1>4, <3>1
    <3>3. PICK j \in (i + 1)..Len(ws) : Hit(ws, j, u, "longitude")
      BY <1>3, <3>1, <3>2 DEF LongitudeFollows, Hit, ws
    <3>4. j \in (n + 1)..Len(ws) BY <1>4, <3>1, <3>2, <3>3
    <3> QED BY <3>3, <3>4
  <2> QED BY <1>5, <2>1, <2>2
<1>7. PICK j \in (n + 1)..Len(ws) : Hit(ws, j, u, "longitude") BY <1>6
<1>8. j \in DOMAIN ws /\ j > n BY <1>4, <1>7
<1> QED BY <1>2, <1>7, <1>8 DEF Hit, ws, n

(* Coordinates of different places are never final: the device that wrote  *)
(* one half has the other in its queue, for any number of devices and      *)
(* locations (MapVC.swift writes latitude and longitude one by one).       *)
THEOREM LocationsHeal == Spec => []LocationHeals
<1>1. Init => Locations BY InitLocations
<1>2. Base /\ Locations /\ [Next]_vars => Locations' BY NextLocations
<1>3. Spec => []Base BY BaseInvariant
<1>4. Base /\ Locations => LocationHeals BY LocationsImplyHeals
<1> QED BY <1>1, <1>2, <1>3, <1>4, PTL DEF Spec

(* A write of a password sets the password of its device's choice, and     *)
(* while one is to come the account's password is not final.               *)
LEMMA PasswordApplied ==
  ASSUME Base, PasswordsChosen, NEW d \in Devices, ServerApply(d), NEW u \in Ids \ lost
  PROVE  \/ \E e \in Devices : ~ Clear(puts[e], applied'[e], u, "password")
         \/ db'[u].password \in OneOf(u)
<1> DEFINE w == puts[d][applied[d] + 1]
           n == applied[d]
<1>0. /\ puts \in [Devices -> Seq(WritesFor(earned))] /\ applied \in [Devices -> Nat]
      /\ earned \in [Ids -> Nat] /\ db \in DataFor(earned)
      /\ chosen \in [Devices -> [Ids -> Passwords \cup {Missing}]]
  BY DEF Base, TypeInv, SdkType, AppType
<1>1. /\ n < Len(puts[d]) /\ db' = Apply(db, w) /\ applied' = [applied EXCEPT ![d] = n + 1]
  BY DEF ServerApply
<1>2. n + 1 \in 1..Len(puts[d]) /\ w \in WritesFor(earned) /\ Len(puts[d]) \in Nat BY <1>0, <1>1
<1>3. "password" \in Fields BY SessionsAssumption
<1>4. db'[u].password = IF w.key = u /\ w.field = "password" THEN w.value ELSE db[u].password
  <2>1. Apply(db, w)[u]["password"] = IF w.key = u /\ w.field = "password" THEN w.value ELSE db[u]["password"]
    BY <1>0, <1>2, <1>3, ApplyChanges
  <2> QED BY <1>1, <2>1
<1>5. applied'[d] = n + 1 /\ \A e \in Devices : e # d => applied'[e] = applied[e] BY <1>0, <1>1
<1>6. CASE Clear(puts[d], n + 1, u, "password") /\ Hit(puts[d], n + 1, u, "password")
  <2>1. \A j \in ((n + 1) + 1)..Len(puts[d]) : ~ Hit(puts[d], j, u, "password") BY <1>6 DEF Clear
  <2>2. Ends(puts[d], u, "password", chosen[d][u]) BY DEF PasswordsChosen
  <2>3. w.value = chosen[d][u] BY <1>2, <1>6, <2>1, <2>2 DEF Ends
  <2>4. w.value \in Passwords
    BY <1>2, <1>6 DEF WritesFor, Possible, Hit
  <2>5. w.value \in ChosenFor(u) BY <2>3, <2>4, SessionsAssumption DEF ChosenFor
  <2>6. w.value \in OneOf(u) BY <2>5 DEF OneOf
  <2> QED BY <1>4, <1>6, <2>6 DEF Hit
<1>7. CASE Clear(puts[d], n + 1, u, "password") /\ ~ Hit(puts[d], n + 1, u, "password")
  <2>1. \A i \in (n + 1)..Len(puts[d]) : i = n + 1 \/ i \in ((n + 1) + 1)..Len(puts[d]) BY <1>0, <1>2
  <2>2. Clear(puts[d], n, u, "password") BY <1>7, <2>1 DEF Clear
  <2>3. db'[u].password = db[u].password BY <1>4, <1>7 DEF Hit
  <2>4. ComingPassword(u) \/ db[u].password \in OneOf(u) BY DEF PasswordsChosen
  <2> QED BY <1>5, <2>2, <2>3, <2>4 DEF ComingPassword
<1>8. CASE ~ Clear(puts[d], n + 1, u, "password") BY <1>5, <1>8
<1> QED BY <1>6, <1>7, <1>8

(* Every step keeps the passwords among those chosen last.                 *)
LEMMA NextPasswords == Base /\ PasswordsChosen /\ [Next]_vars => PasswordsChosen'
<1> SUFFICES ASSUME Base, PasswordsChosen, [Next]_vars PROVE PasswordsChosen' OBVIOUS
<1>0. /\ TypeInv
      /\ puts \in [Devices -> Seq(WritesFor(earned))] /\ applied \in [Devices -> Nat]
      /\ \A x \in Devices : applied[x] <= Len(puts[x])
      /\ chosen \in [Devices -> [Ids -> Passwords \cup {Missing}]]
  BY DEF Base, TypeInv, SdkType, AppType
<1>1. CASE UNCHANGED vars
  BY <1>1 DEF vars, collectionVars, appVars, history, PasswordsChosen, ComingPassword, OneOf, ChosenFor
<1>2. ASSUME NEW d \in Devices, SdkStep(d) PROVE PasswordsChosen'
  <2>0. chosen' = chosen /\ lost' = lost BY <1>2 DEF SdkStep, appVars, history
  <2>1. CASE DataArrives(d) \/ Push(d)
    <3>1. UNCHANGED <<db, puts, applied>> BY <2>1 DEF DataArrives, Push
    <3> QED BY <2>0, <3>1 DEF PasswordsChosen, ComingPassword, OneOf, ChosenFor
  <2>2. CASE ServerApply(d)
    <3>1. puts' = puts BY <2>2 DEF ServerApply
    <3>2. \A u \in Ids \ lost' : \/ \E e \in Devices : ~ Clear(puts[e], applied'[e], u, "password")
                                 \/ db'[u].password \in OneOf(u)
      BY <2>0, <2>2, PasswordApplied
    <3> QED BY <2>0, <3>1, <3>2, ZenonT(30) DEF PasswordsChosen, ComingPassword, OneOf, ChosenFor
  <2>3. CASE AckPut(d)
    <3>1. /\ applied[d] > 0 /\ puts' = [puts EXCEPT ![d] = Tail(puts[d])]
          /\ applied' = [applied EXCEPT ![d] = applied[d] - 1] /\ db' = db
      BY <2>3 DEF AckPut
    <3>2. \A u \in Ids : /\ Clear(Tail(puts[d]), applied[d] - 1, u, "password")
                              <=> Clear(puts[d], applied[d], u, "password")
                         /\ \A x : Ends(puts[d], u, "password", x) => Ends(Tail(puts[d]), u, "password", x)
      <4>1. puts[d] \in Seq(WritesFor(earned)) /\ applied[d] \in Nat /\ 0 < applied[d] /\ applied[d] <= Len(puts[d])
        BY <1>0, <3>1
      <4> QED BY <4>1, AckSettles
    <3>3. \A e \in Devices : \A u \in Ids :
            /\ Clear(puts'[e], applied'[e], u, "password") <=> Clear(puts[e], applied[e], u, "password")
            /\ Ends(puts'[e], u, "password", chosen[e][u])
      <4> SUFFICES ASSUME NEW e \in Devices, NEW u \in Ids
                   PROVE  /\ Clear(puts'[e], applied'[e], u, "password") <=> Clear(puts[e], applied[e], u, "password")
                          /\ Ends(puts'[e], u, "password", chosen[e][u])
        OBVIOUS
      <4>1. Ends(puts[e], u, "password", chosen[e][u]) BY DEF PasswordsChosen
      <4>2. CASE e = d
        <5>1. puts'[e] = Tail(puts[d]) /\ applied'[e] = applied[d] - 1 BY <1>0, <3>1, <4>2
        <5> QED BY <3>2, <4>1, <4>2, <5>1
      <4>3. CASE e # d
        <5>1. puts'[e] = puts[e] /\ applied'[e] = applied[e] BY <1>0, <3>1, <4>3
        <5> QED BY <4>1, <5>1
      <4> QED BY <4>2, <4>3
    <3> QED BY <2>0, <3>1, <3>3 DEF PasswordsChosen, ComingPassword, OneOf, ChosenFor
  <2>4. CASE Disconnect(d)
    <3>1. applied' = [applied EXCEPT ![d] = 0] /\ puts' = puts /\ db' = db BY <2>4 DEF Disconnect
    <3>2. \A e \in Devices : \A u \in Ids :
            ~ Clear(puts[e], applied[e], u, "password") => ~ Clear(puts'[e], applied'[e], u, "password")
      <4> SUFFICES ASSUME NEW e \in Devices, NEW u \in Ids, ~ Clear(puts[e], applied[e], u, "password")
                   PROVE  ~ Clear(puts'[e], applied'[e], u, "password")
        OBVIOUS
      <4>1. applied[e] \in Nat BY <1>0
      <4>2. ~ Clear(puts[e], 0, u, "password") BY <4>1, ResendSettles
      <4>3. applied'[e] \in {0, applied[e]} BY <1>0, <3>1
      <4> QED BY <3>1, <4>2, <4>3
    <3> QED BY <2>0, <3>1, <3>2 DEF PasswordsChosen, ComingPassword, OneOf, ChosenFor
  <2> QED BY <1>2, <2>1, <2>2, <2>3, <2>4 DEF SdkStep, CollectionNext
<1>3. ASSUME NEW d \in Devices, Callback(d) \/ UserStep(d) PROVE PasswordsChosen'
  <2>1. /\ \A e \in Devices : e # d => puts'[e] = puts[e] /\ applied'[e] = applied[e] /\ chosen'[e] = chosen[e]
        /\ db' = db /\ lost \subseteq lost'
    BY <1>0, <1>3, OthersAlone
  <2>2. CASE Kill(d) \/ PlayersTrap(d)
    <3>1. chosen' = chosen BY <1>0, <2>2, RestartFacts
    <3>2. \A u \in Ids \ lost' : Clear(puts[d], applied[d], u, "password")
      BY <1>0, <2>2, NothingPending
    <3>3. puts'[d] = << >> BY <1>0, <2>2, RestartFacts
    <3>4. \A e \in Devices : \A u \in Ids : Ends(puts'[e], u, "password", chosen'[e][u])
      BY <2>1, <3>1, <3>3 DEF PasswordsChosen, Ends
    <3>5. ASSUME NEW u \in Ids \ lost' PROVE ComingPassword(u)' \/ db'[u].password \in OneOf(u)'
      <4>1. ComingPassword(u) \/ db[u].password \in OneOf(u) BY <2>1 DEF PasswordsChosen
      <4>2. ComingPassword(u) => ComingPassword(u)'
        <5> SUFFICES ASSUME NEW e \in Devices, ~ Clear(puts[e], applied[e], u, "password")
                     PROVE  ~ Clear(puts'[e], applied'[e], u, "password")
          BY DEF ComingPassword
        <5>1. e # d BY <3>2
        <5> QED BY <2>1, <5>1
      <4> QED BY <2>1, <3>1, <4>1, <4>2 DEF OneOf, ChosenFor
    <3> QED BY <3>4, <3>5 DEF PasswordsChosen
  <2>3. CASE ~ Kill(d) /\ ~ PlayersTrap(d)
    <3>0. PutsShape(d) BY <1>0, <1>3, <2>3, PutsShapes
    <3>1. applied' = applied /\ puts[d] \in Seq(WritesFor(earned')) /\ applied[d] \in Nat /\ applied[d] <= Len(puts[d])
      BY <1>0, <3>0 DEF PutsShape
    <3> DEFINE S == WritesFor(earned')
               n == applied[d]
               ws == puts[d]
    <3>2. ASSUME chosen' = chosen,
                 \A u \in Ids : /\ Clear(puts'[d], n, u, "password") <=> Clear(ws, n, u, "password")
                                /\ \A x : Ends(ws, u, "password", x) => Ends(puts'[d], u, "password", x)
          PROVE  PasswordsChosen'
      <4>1. \A e \in Devices : \A u \in Ids : Ends(puts'[e], u, "password", chosen'[e][u])
        BY <2>1, <3>2 DEF PasswordsChosen
      <4>2. \A u \in Ids : ComingPassword(u) => ComingPassword(u)'
        BY <2>1, <3>1, <3>2 DEF ComingPassword
      <4>3. \A u \in Ids : OneOf(u)' = OneOf(u) BY <3>2 DEF OneOf, ChosenFor
      <4>4. \A u \in Ids \ lost' : ComingPassword(u)' \/ db'[u].password \in OneOf(u)'
        <5> SUFFICES ASSUME NEW u \in Ids \ lost' PROVE ComingPassword(u)' \/ db'[u].password \in OneOf(u)'
          OBVIOUS
        <5>1. ComingPassword(u) \/ db[u].password \in OneOf(u) BY <2>1 DEF PasswordsChosen
        <5> QED BY <2>1, <4>2, <4>3, <5>1
      <4> QED BY <4>1, <4>4 DEF PasswordsChosen
    <3> HIDE DEF S, n, ws
    <3>3. CASE puts'[d] = puts[d] /\ chosen' = chosen BY <3>2, <3>3 DEF ws
    <3>4. ASSUME NEW w \in S, w.field = "totalExp", puts'[d] = Append(ws, w), chosen' = chosen
          PROVE  PasswordsChosen'
      <4>1. \A u \in Ids : /\ Clear(Append(ws, w), n, u, "password") <=> Clear(ws, n, u, "password")
                           /\ \A x : Ends(ws, u, "password", x) => Ends(Append(ws, w), u, "password", x)
        <5>1. ws \in Seq(S) /\ n \in Nat /\ n <= Len(ws) BY <3>1 DEF ws, n, S
        <5> QED BY <3>4, <5>1, AppendSettles
      <4> QED BY <3>2, <3>4, <4>1
    <3>5. ASSUME NEW w \in S, NEW x \in S, w.field = "latitude", x.field = "longitude",
                 puts'[d] = Append(Append(ws, w), x), chosen' = chosen
          PROVE  PasswordsChosen'
      <4> DEFINE q == Append(ws, w)
      <4>0. ws \in Seq(S) /\ n \in Nat /\ n <= Len(ws) /\ q \in Seq(S) /\ n <= Len(q) BY <3>1 DEF ws, n, S
      <4>1. \A u \in Ids : /\ Clear(q, n, u, "password") <=> Clear(ws, n, u, "password")
                           /\ \A v : Ends(ws, u, "password", v) => Ends(q, u, "password", v)
        BY <3>5, <4>0, AppendSettles
      <4> HIDE DEF q
      <4>2. \A u \in Ids : /\ Clear(Append(q, x), n, u, "password") <=> Clear(q, n, u, "password")
                           /\ \A v : Ends(q, u, "password", v) => Ends(Append(q, x), u, "password", v)
        BY <3>5, <4>0, AppendSettles
      <4> QED BY <3>2, <3>5, <4>1, <4>2 DEF q
    <3>6. ASSUME NEW w \in S, w.field = "password", puts'[d] = Append(ws, w), w.key \in Ids, w.value \in Passwords,
                 chosen' = [chosen EXCEPT ![d][w.key] = w.value]
          PROVE  PasswordsChosen'
      <4>0. ws \in Seq(S) /\ n \in Nat /\ n <= Len(ws) BY <3>1 DEF ws, n, S
      <4>1. \A u \in Ids : /\ Clear(Append(ws, w), n, u, "password") <=> Clear(ws, n, u, "password") /\ w.key # u
                           /\ \A v : Ends(ws, u, "password", v) /\ w.key # u => Ends(Append(ws, w), u, "password", v)
                           /\ w.key = u => Ends(Append(ws, w), u, "password", w.value)
        BY <3>6, <4>0, AppendSettles
      <4>2. /\ \A e \in Devices : \A u \in Ids : ~ (e = d /\ u = w.key) => chosen'[e][u] = chosen[e][u]
            /\ chosen'[d][w.key] = w.value
        BY <1>0, <3>6
      <4>3. \A e \in Devices : \A u \in Ids : Ends(puts'[e], u, "password", chosen'[e][u])
        <5> SUFFICES ASSUME NEW e \in Devices, NEW u \in Ids PROVE Ends(puts'[e], u, "password", chosen'[e][u])
          OBVIOUS
        <5>1. Ends(puts[e], u, "password", chosen[e][u]) BY DEF PasswordsChosen
        <5>2. CASE e # d BY <2>1, <5>1, <5>2
        <5>3. CASE e = d /\ u # w.key BY <3>6, <4>1, <4>2, <5>1, <5>3 DEF ws
        <5>4. CASE e = d /\ u = w.key BY <3>6, <4>1, <4>2, <5>4, ZenonT(30)
        <5> QED BY <5>2, <5>3, <5>4
      <4>4. ASSUME NEW u \in Ids \ lost' PROVE ComingPassword(u)' \/ db'[u].password \in OneOf(u)'
        <5>1. CASE u = w.key
          <6>1. ~ Clear(puts'[d], applied'[d], u, "password") BY <3>1, <3>6, <4>1, <5>1 DEF n
          <6> QED BY <6>1 DEF ComingPassword
        <5>2. CASE u # w.key
          <6>1. ComingPassword(u) \/ db[u].password \in OneOf(u) BY <2>1 DEF PasswordsChosen
          <6>2. ComingPassword(u) => ComingPassword(u)'
            <7> SUFFICES ASSUME NEW e \in Devices, ~ Clear(puts[e], applied[e], u, "password")
                         PROVE  ~ Clear(puts'[e], applied'[e], u, "password")
              BY DEF ComingPassword
            <7>1. CASE e # d BY <2>1, <7>1
            <7>2. CASE e = d BY <3>1, <3>6, <4>1, <5>2, <7>2 DEF n, ws
            <7> QED BY <7>1, <7>2
          <6>3. ChosenFor(u)' = ChosenFor(u) BY <4>2, <5>2 DEF ChosenFor
          <6> QED BY <2>1, <6>1, <6>2, <6>3 DEF OneOf
        <5> QED BY <5>1, <5>2
      <4> QED BY <4>3, <4>4 DEF PasswordsChosen
    <3> QED BY <3>0, <3>3, <3>4, <3>5, <3>6 DEF PutsShape, S, ws
  <2> QED BY <2>2, <2>3
<1> QED BY <1>1, <1>2, <1>3 DEF Next

(* At first every password is the first one, and nobody chose another.     *)
LEMMA InitPasswords == Init => PasswordsChosen
<1> SUFFICES ASSUME Init PROVE PasswordsChosen OBVIOUS
<1>1. puts = [d \in Devices |-> << >>] /\ chosen = [d \in Devices |-> [u \in Ids |-> Missing]]
  BY DEF Init, ClientsInit
<1>2. \A u \in Ids : db[u].password = FirstPassword
  <2> SUFFICES ASSUME NEW u \in Ids PROVE db[u].password = FirstPassword OBVIOUS
  <2>1. PICK q : db[u] = Account(q) BY DEF Init
  <2> QED BY <2>1 DEF Account
<1>3. \A u \in Ids : ChosenFor(u) = {} BY <1>1 DEF ChosenFor
<1> QED BY <1>1, <1>2, <1>3 DEF PasswordsChosen, Ends, OneOf

(* With nothing in progress no password is still to come.                  *)
LEMMA PasswordsImplyChosen == Base /\ PasswordsChosen => PasswordIsChosen
<1> SUFFICES ASSUME Base, PasswordsChosen, Quiescent, NEW u \in Ids \ lost
             PROVE  db[u].password \in IF ChosenFor(u) = {} THEN {FirstPassword} ELSE ChosenFor(u)
  BY DEF PasswordIsChosen, ChosenFor
<1>1. \A d \in Devices : puts[d] = << >> BY DEF Quiescent
<1>2. applied \in [Devices -> Nat] BY DEF Base, TypeInv, SdkType
<1>3. ~ ComingPassword(u) BY <1>1, <1>2 DEF ComingPassword, Clear
<1> QED BY <1>3 DEF PasswordsChosen, OneOf

(* When everything sent has arrived, an account's password is one that a   *)
(* device set last, or the first: resending, whatever the connections lost *)
(* and the devices racing, never brings an older choice back to stay       *)
(* (NewPasswordVC.swift; no write of the account died with a process).     *)
THEOREM PasswordsStay == Spec => []PasswordIsChosen
<1>1. Init => PasswordsChosen BY InitPasswords
<1>2. Base /\ PasswordsChosen /\ [Next]_vars => PasswordsChosen' BY NextPasswords
<1>3. Spec => []Base BY BaseInvariant
<1>4. Base /\ PasswordsChosen => PasswordIsChosen BY PasswordsImplyChosen
<1> QED BY <1>1, <1>2, <1>3, <1>4, PTL DEF Spec

(* A device that has chosen no password of an account has none to write.   *)
LEMMA UnchosenClear ==
  ASSUME Base, PasswordsChosen, NEW d \in Devices, NEW u \in Ids, chosen[d][u] = Missing
  PROVE  Clear(puts[d], 0, u, "password")
<1> SUFFICES ASSUME ~ Clear(puts[d], 0, u, "password") PROVE FALSE OBVIOUS
<1>1. /\ puts[d] \in Seq(WritesFor(earned)) /\ Len(puts[d]) \in Nat /\ DOMAIN puts[d] = 1..Len(puts[d])
  BY WritesNamed DEF Base
<1>2. PICK i \in 1..Len(puts[d]) :
        /\ Hit(puts[d], i, u, "password")
        /\ \A j \in (i + 1)..Len(puts[d]) : ~ Hit(puts[d], j, u, "password")
  BY <1>1, ClearOrLast
<1>3. puts[d][i].value = Missing BY <1>2 DEF PasswordsChosen, Ends
<1>4. puts[d][i] \in WritesFor(earned) BY <1>1
<1>5. puts[d][i].value \in Passwords BY <1>2, <1>4 DEF WritesFor, Possible, Hit
<1> QED BY <1>3, <1>5, SessionsAssumption

(* The SDK keeps a child settled in what a view has cached, if it is on    *)
(* the server.                                                             *)
LEMMA SdkCaches ==
  ASSUME TypeInv, NEW d \in Devices, SdkStep(d), NEW e \in Devices, NEW u, NEW f, NEW v,
         Settled(puts'[e], 0, db', u, f, v),
         events[e] # << >> => Settled(puts[e], 0, cache[e], u, f, v)
  PROVE  events'[e] # << >> => Settled(puts'[e], 0, cache'[e], u, f, v)
<1>0. /\ puts \in [Devices -> Seq(WritesFor(earned))]
      /\ events \in [Devices -> Seq(EventsFor(earned))]
      /\ cache \in [Devices -> DataFor(earned) \cup {NoRecords}]
  BY DEF TypeInv, SdkType
<1>1. CASE cache'[e] = db' BY <1>1
<1>2. CASE events'[e] = events[e] /\ cache'[e] = cache[e] /\ puts'[e] = puts[e] BY <1>2
<1>3. CASE DataArrives(d)
  <2>1. CASE e = d BY <1>0, <1>1, <1>3, <2>1 DEF DataArrives
  <2>2. CASE e # d BY <1>0, <1>2, <1>3, <2>2 DEF DataArrives
  <2> QED BY <2>1, <2>2
<1>4. CASE Push(d) BY <1>0, <1>1, <1>2, <1>4 DEF Push
<1>5. CASE ServerApply(d) \/ Disconnect(d) BY <1>2, <1>5 DEF ServerApply, Disconnect
<1>6. CASE AckPut(d)
  <2>1. /\ puts' = [puts EXCEPT ![d] = Tail(puts[d])] /\ events' = events /\ db' = db
        /\ cache' = [cache EXCEPT ![d] = IF events[d] # << >> THEN db ELSE cache[d]]
    BY <1>6 DEF AckPut
  <2>2. CASE e # d BY <1>0, <1>2, <2>1, <2>2
  <2>3. CASE e = d /\ events[d] # << >> BY <1>0, <1>1, <2>1, <2>3
  <2>4. CASE e = d /\ events[d] = << >> BY <2>1, <2>4
  <2> QED BY <2>2, <2>3, <2>4
<1> QED BY <1>3, <1>4, <1>5, <1>6 DEF SdkStep, CollectionNext

(* The device's own steps leave the data its view has cached, or the view  *)
(* goes.                                                                   *)
LEMMA OwnCache ==
  ASSUME TypeInv, NEW d \in Devices, Callback(d) \/ UserStep(d), ~ Kill(d), ~ PlayersTrap(d)
  PROVE  events'[d] # << >> => events[d] # << >> /\ cache'[d] = cache[d]
<1>1. CASE LoggedIn(d) \/ LoginRefused(d) \/ Changed(d) \/ ChangeRefused(d) \/ StoreLocation(d) \/ FoundPlayers(d)
  <2>1. events[d] # << >> /\ Consume(d)
    BY <1>1 DEF LoggedIn, LoginRefused, Changed, ChangeRefused, StoreLocation, FoundPlayers, HeadIs
  <2> QED BY <2>1, ConsumeFacts
<1>2. CASE TapLogin(d) \/ TapChange(d) \/ UpdateLocation(d) \/ ShowMap(d)
  <2>1. PICK cbs : ReadShape(d, cbs) BY <1>2, ReadSteps
  <2>2. cbs \in Seq(Callbacks) /\ ObserveAll(d, cbs) BY <2>1 DEF ReadShape
  <2> QED BY <2>2, ReadsElements
<1>3. CASE LogOut(d) \/ OpenForm(d) \/ Back(d) \/ Dismiss(d) \/ AddExperience(d)
  BY <1>3 DEF LogOut, OpenForm, Back, Dismiss, AddExperience, collectionVars
<1> QED BY <1>1, <1>2, <1>3 DEF Callback, UserStep

(* What a step of the device adds to its queue settles its password for    *)
(* its last choice, if it was so before or nothing was chosen.             *)
LEMMA OwnChoice ==
  ASSUME TypeInv, NEW d \in Devices, PutsShape(d), NEW u \in Ids, chosen'[d][u] # Missing,
         NEW n \in Nat, n <= Len(puts[d]), NEW D,
         chosen[d][u] = Missing \/ Settled(puts[d], n, D, u, "password", chosen[d][u])
  PROVE  Settled(puts'[d], n, D, u, "password", chosen'[d][u])
<1> DEFINE S == WritesFor(earned')
           ws == puts[d]
<1>0. ws \in Seq(S) /\ chosen \in [Devices -> [Ids -> Passwords \cup {Missing}]]
  BY DEF PutsShape, TypeInv, AppType
<1> HIDE DEF S
<1>1. CASE puts'[d] = ws /\ chosen' = chosen BY <1>1
<1>2. ASSUME NEW w \in S, w.field = "totalExp", puts'[d] = Append(ws, w), chosen' = chosen
      PROVE  Settled(puts'[d], n, D, u, "password", chosen'[d][u])
  BY <1>0, <1>2, AppendSettled
<1>3. ASSUME NEW w \in S, w.field = "password", puts'[d] = Append(ws, w),
             chosen' = [chosen EXCEPT ![d][w.key] = w.value]
      PROVE  Settled(puts'[d], n, D, u, "password", chosen'[d][u])
  <2>1. CASE w.key = u
    <3>1. chosen'[d][u] = w.value BY <1>0, <1>3, <2>1
    <3> QED BY <1>0, <1>3, <2>1, <3>1, AppendSettled
  <2>2. CASE w.key # u
    <3>1. chosen'[d][u] = chosen[d][u] BY <1>0, <1>3, <2>2
    <3> QED BY <1>0, <1>3, <2>2, <3>1, AppendSettled
  <2> QED BY <2>1, <2>2
<1>4. ASSUME NEW w \in S, NEW x \in S, w.field = "latitude", x.field = "longitude",
             puts'[d] = Append(Append(ws, w), x), chosen' = chosen
      PROVE  Settled(puts'[d], n, D, u, "password", chosen'[d][u])
  <2> DEFINE q == Append(ws, w)
  <2>1. q \in Seq(S) /\ n <= Len(q) BY <1>0
  <2>2. Settled(q, n, D, u, "password", chosen[d][u]) BY <1>0, <1>4, AppendSettled
  <2> HIDE DEF q
  <2>3. Settled(Append(q, x), n, D, u, "password", chosen[d][u]) BY <1>4, <2>1, <2>2, AppendSettled
  <2> QED BY <1>4, <2>3 DEF q
<1> QED BY <1>1, <1>2, <1>3, <1>4 DEF PutsShape, S

(* Every step keeps the passwords changed by one device settled.           *)
LEMMA NextOwnPasswords == Base /\ PasswordsChosen /\ OwnPasswords /\ [Next]_vars => OwnPasswords'
<1> SUFFICES ASSUME Base, PasswordsChosen, OwnPasswords, [Next]_vars PROVE OwnPasswords' OBVIOUS
<1>0. /\ TypeInv
      /\ applied \in [Devices -> Nat] /\ \A x \in Devices : applied[x] <= Len(puts[x])
      /\ \A x \in Devices : Len(puts[x]) \in Nat
      /\ chosen \in [Devices -> [Ids -> Passwords \cup {Missing}]]
  BY WritesNamed DEF Base, TypeInv, SdkType, AppType
<1>1. CASE UNCHANGED vars
  BY <1>1 DEF vars, collectionVars, appVars, history, OwnPasswords, ChoseAlone, OwnPasswordSettled
<1>2. ASSUME NEW d \in Devices, SdkStep(d) PROVE OwnPasswords'
  <2> SUFFICES ASSUME NEW e \in Devices, NEW u \in Ids \ lost', ChoseAlone(e, u)'
               PROVE  OwnPasswordSettled(e, u)'
    BY DEF OwnPasswords
  <2>1. chosen' = chosen /\ lost' = lost BY <1>2 DEF SdkStep, appVars, history
  <2>2. OwnPasswordSettled(e, u) BY <2>1 DEF OwnPasswords, ChoseAlone
  <2>3. \A x \in Devices \ {e} : Clear(puts[x], 0, u, "password")
    BY <2>1, UnchosenClear DEF ChoseAlone
  <2>4. "password" \in Fields BY SessionsAssumption
  <2>5. Settled(puts'[e], applied'[e], db', u, "password", chosen[e][u])
    BY <1>2, <2>2, <2>3, <2>4, SdkSettles DEF OwnPasswordSettled
  <2>6. Settled(puts'[e], 0, db', u, "password", chosen[e][u])
    <3>1. applied'[e] \in Nat BY <1>0, <1>2, SdkStepType DEF TypeInv, SdkType
    <3> QED BY <2>5, <3>1, ResendSettles
  <2>7. events'[e] # << >> => Settled(puts'[e], 0, cache'[e], u, "password", chosen[e][u])
    BY <1>0, <1>2, <2>2, <2>6, SdkCaches DEF OwnPasswordSettled
  <2> QED BY <2>1, <2>5, <2>7 DEF OwnPasswordSettled
<1>3. ASSUME NEW d \in Devices, Callback(d) \/ UserStep(d) PROVE OwnPasswords'
  <2> SUFFICES ASSUME NEW e \in Devices, NEW u \in Ids \ lost', ChoseAlone(e, u)'
               PROVE  OwnPasswordSettled(e, u)'
    BY DEF OwnPasswords
  <2>1. /\ \A x \in Devices : x # d => /\ puts'[x] = puts[x] /\ applied'[x] = applied[x]
                                      /\ events'[x] = events[x] /\ cache'[x] = cache[x]
                                      /\ chosen'[x] = chosen[x]
        /\ db' = db /\ lost \subseteq lost'
    BY <1>0, <1>3, OthersAlone
  <2>2. \A x \in Devices : chosen'[x][u] = Missing => chosen[x][u] = Missing
    <3>1. CASE Kill(d) \/ PlayersTrap(d) BY <1>0, <3>1, RestartFacts
    <3>2. CASE ~ Kill(d) /\ ~ PlayersTrap(d)
      <4>1. PutsShape(d) BY <1>0, <1>3, <3>2, PutsShapes
      <4>2. \/ chosen' = chosen
            \/ \E k \in Ids, p \in Passwords : chosen' = [chosen EXCEPT ![d][k] = p]
        BY <4>1 DEF PutsShape
      <4> QED BY <1>0, <4>2, SessionsAssumption
    <3> QED BY <3>1, <3>2
  <2>3. chosen[e][u] = Missing \/ OwnPasswordSettled(e, u)
    BY <2>1, <2>2 DEF OwnPasswords, ChoseAlone
  <2>4. CASE e # d
    <3>1. chosen[e][u] # Missing BY <2>1, <2>4 DEF ChoseAlone
    <3> QED BY <2>1, <2>3, <2>4, <3>1 DEF OwnPasswordSettled
  <2>5. CASE e = d /\ (Kill(d) \/ PlayersTrap(d))
    <3>1. "password" \in Fields BY SessionsAssumption
    <3>2. Clear(puts[d], applied[d], u, "password") /\ puts'[d] = << >> /\ applied'[d] = 0
      BY <1>0, <2>5, <3>1, NothingPending
    <3>3. chosen' = chosen /\ events'[d] = << >>
      <4>1. events \in [Devices -> Seq(EventsFor(earned))] BY <1>0 DEF TypeInv, SdkType
      <4> QED BY <1>0, <2>5, <4>1, RestartFacts
    <3>4. OwnPasswordSettled(d, u) BY <2>3, <2>5, <3>3 DEF ChoseAlone
    <3>5. db[u]["password"] = chosen[d][u] BY <3>2, <3>4 DEF OwnPasswordSettled, Settled
    <3> QED BY <2>1, <2>5, <3>2, <3>3, <3>5 DEF OwnPasswordSettled, Settled, Ends, Clear
  <2>6. CASE e = d /\ ~ Kill(d) /\ ~ PlayersTrap(d)
    <3>1. PutsShape(d) /\ applied' = applied BY <1>0, <1>3, <2>6, PutsShapes DEF PutsShape
    <3>2. chosen'[d][u] # Missing BY <2>6 DEF ChoseAlone
    <3>3. Settled(puts'[d], applied[d], db, u, "password", chosen'[d][u])
      BY <1>0, <2>3, <2>6, <3>1, <3>2, OwnChoice DEF OwnPasswordSettled
    <3>4. ASSUME events'[d] # << >> PROVE Settled(puts'[d], 0, cache'[d], u, "password", chosen'[d][u])
      <4>1. events[d] # << >> /\ cache'[d] = cache[d] BY <1>0, <1>3, <2>6, <3>4, OwnCache
      <4>2. chosen[d][u] = Missing \/ Settled(puts[d], 0, cache[d], u, "password", chosen[d][u])
        BY <2>3, <2>6, <4>1 DEF OwnPasswordSettled
      <4>3. 0 \in Nat /\ 0 <= Len(puts[d]) BY <1>0
      <4>4. Settled(puts'[d], 0, cache[d], u, "password", chosen'[d][u])
        BY <1>0, <3>1, <3>2, <4>2, <4>3, OwnChoice
      <4> QED BY <4>1, <4>4
    <3> QED BY <2>1, <2>6, <3>1, <3>3, <3>4 DEF OwnPasswordSettled
  <2> QED BY <2>4, <2>5, <2>6
<1> QED BY <1>1, <1>2, <1>3 DEF Next

(* The device reads the password its queue and its data settle for.        *)
LEMMA OwnPasswordsRead == Base /\ OwnPasswords => OwnPasswordHolds
<1> SUFFICES ASSUME Base, OwnPasswords, NEW d \in Devices, NEW u \in Ids \ lost, ChoseAlone(d, u)
             PROVE  GivenNow(d)[u].password = chosen[d][u]
  BY DEF OwnPasswordHolds, ChoseAlone
<1>1. TypeInv /\ OwnPasswordSettled(d, u) BY DEF Base, OwnPasswords
<1>2. "password" \in Fields BY SessionsAssumption
<1>3. CASE events[d] # << >>
  <2>1. cache[d] \in DataFor(earned) BY <1>1, <1>3 DEF TypeInv, SdkType
  <2>2. Overlay(cache[d], puts[d])[u]["password"] = chosen[d][u]
    BY <1>1, <1>2, <1>3, <2>1, ChildShown DEF OwnPasswordSettled
  <2> QED BY <1>3, <2>2 DEF GivenNow
<1>4. CASE events[d] = << >>
  <2>1. db \in DataFor(earned) /\ applied[d] \in Nat BY <1>1 DEF TypeInv, SdkType
  <2>2. Settled(puts[d], 0, db, u, "password", chosen[d][u])
    BY <1>1, <2>1, ResendSettles DEF OwnPasswordSettled
  <2>3. Overlay(db, puts[d])[u]["password"] = chosen[d][u] BY <1>1, <1>2, <2>1, <2>2, ChildShown
  <2> QED BY <1>4, <2>3 DEF GivenNow
<1> QED BY <1>3, <1>4

(* A password that only one device has ever changed: what that device is   *)
(* given of it, and so what its next login or change is compared with, is  *)
(* its own last choice, for any number of devices, through views, log outs,*)
(* lost connections and changes under way at the same time, as long as no  *)
(* write of the account has died with a process (NewPasswordVC.swift:39).  *)
THEOREM OwnPasswordStays == Spec => []OwnPasswordHolds
<1>1. Init => OwnPasswords BY DEF Init, OwnPasswords, ChoseAlone
<1>2. Base /\ PasswordsChosen /\ OwnPasswords /\ [Next]_vars => OwnPasswords' BY NextOwnPasswords
<1>3. Init => PasswordsChosen BY InitPasswords
<1>4. Base /\ PasswordsChosen /\ [Next]_vars => PasswordsChosen' BY NextPasswords
<1>5. Spec => []Base BY BaseInvariant
<1>6. Base /\ OwnPasswords => OwnPasswordHolds BY OwnPasswordsRead
<1> QED BY <1>1, <1>2, <1>3, <1>4, <1>5, <1>6, PTL DEF Spec
=============================================================================
