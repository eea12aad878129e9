--------------------------- MODULE CollectionProofs ---------------------------
(***************************************************************************)
(* What Collection's queues of unacknowledged writes do to a record, for   *)
(* any devices, fields and values: the facts that the proofs about the     *)
(* modules over a collection rest on.                                      *)
(*                                                                         *)
(*   1. the last write to a record: pending writes, acknowledgements, new  *)
(*      writes, writes sent again                                          *)
(*   2. what the event cache shows of the record                           *)
(*   3. that is what a replay of the queue over the data gives             *)
(***************************************************************************)
EXTENDS Collection, FiniteSetTheorems, WellFoundedInduction, TLAPS

(* Write i of ws is to record k and one of the fields F.                   *)
Hit(ws, i, k, F) == ws[i].key = k /\ ws[i].field \in F
(* The last write of ws to record k and one of the fields F, if any, is of *)
(* field f and writes v.                                                   *)
Ends(ws, k, F, f, v) ==
  \A i \in 1..Len(ws) :
    Hit(ws, i, k, F) /\ (\A j \in (i + 1)..Len(ws) : ~ Hit(ws, j, k, F))
      => ws[i].field = f /\ ws[i].value = v
(* No write to record k and one of F comes after the first n of ws.        *)
Clear(ws, n, k, F) == \A i \in (n + 1)..Len(ws) : ~ Hit(ws, i, k, F)

AnyField == Fields \cup {Leaf, Gone}
Of(f) == {Leaf, Gone, f}           \* the fields that decide child f

-----------------------------------------------------------------------------
(* 1. The last write to a record. *)

(* A bounded non-empty set of positions has its Max as an element.         *)
LEMMA MaxOfPositions ==
  ASSUME NEW n \in Nat, NEW S \in SUBSET (1..n), NEW m \in S, \A i \in S : i <= m
  PROVE  Max(S) = m
<1>1. \A i \in S : m >= i OBVIOUS
<1>2. \A x \in S : (\A i \in S : x >= i) => x = m
  <2> SUFFICES ASSUME NEW x \in S, \A i \in S : x >= i PROVE x = m OBVIOUS
  <2>1. x >= m /\ m >= x /\ x \in 1..n /\ m \in 1..n OBVIOUS
  <2> QED BY <2>1
<1> QED BY <1>1, <1>2 DEF Max

(* Among the positions from i on that are hits there is a last one.        *)
LEMMA LastHit ==
  ASSUME NEW ws, Len(ws) \in Nat, NEW k, NEW F, NEW i \in 1..Len(ws), Hit(ws, i, k, F)
  PROVE  \E j \in i..Len(ws) : Hit(ws, j, k, F) /\ \A h \in (j + 1)..Len(ws) : ~ Hit(ws, h, k, F)
<1> DEFINE T == {Len(ws) - j : j \in {x \in 1..Len(ws) : Hit(ws, x, k, F)}}
<1>1. T \in SUBSET Nat /\ T # {} OBVIOUS
<1>2. PICK t \in T : \A s \in T : ~ (<<s, t>> \in OpToRel(<, Nat))
  <2> HIDE DEF T
  <2> QED BY <1>1, NatLessThanWellFounded, WFMin
<1>3. \A s \in T : ~ (s < t)
  <2>1. t \in Nat /\ \A s \in T : s \in Nat BY <1>1
  <2> QED BY <1>2, <2>1 DEF OpToRel
<1>4. PICK j \in 1..Len(ws) : Hit(ws, j, k, F) /\ t = Len(ws) - j OBVIOUS
<1>5. \A h \in 1..Len(ws) : Hit(ws, h, k, F) => h <= j
  <2> SUFFICES ASSUME NEW h \in 1..Len(ws), Hit(ws, h, k, F) PROVE h <= j OBVIOUS
  <2>1. Len(ws) - h \in T OBVIOUS
  <2>2. ~ (Len(ws) - h < Len(ws) - j) BY <2>1, <1>3, <1>4
  <2> HIDE DEF T
  <2> QED BY <2>2
<1>6. i <= j BY <1>5
<1>7. \A h \in (j + 1)..Len(ws) : h \in 1..Len(ws) /\ ~ (h <= j) BY <1>4
<1> QED BY <1>4, <1>5, <1>6, <1>7

(* Either no write after the first n hits, or the last hit comes after     *)
(* them.                                                                   *)
LEMMA ClearOrLast ==
  ASSUME NEW ws, Len(ws) \in Nat, NEW n \in Nat, NEW k, NEW F, ~ Clear(ws, n, k, F)
  PROVE  \E i \in (n + 1)..Len(ws) :
           Hit(ws, i, k, F) /\ \A j \in (i + 1)..Len(ws) : ~ Hit(ws, j, k, F)
<1>1. PICK h \in (n + 1)..Len(ws) : Hit(ws, h, k, F) BY DEF Clear
<1>2. h \in 1..Len(ws) BY <1>1
<1>3. PICK i \in h..Len(ws) : Hit(ws, i, k, F) /\ \A j \in (i + 1)..Len(ws) : ~ Hit(ws, j, k, F)
  BY <1>1, <1>2, LastHit
<1>4. i \in (n + 1)..Len(ws) BY <1>1, <1>3
<1> QED BY <1>3, <1>4

(* A queue that ends with f := v and is not clear has that write pending.  *)
LEMMA EndsPending ==
  ASSUME NEW ws, Len(ws) \in Nat, NEW n \in Nat, NEW k, NEW F, NEW f, NEW v,
         Ends(ws, k, F, f, v), ~ Clear(ws, n, k, F)
  PROVE  \E i \in (n + 1)..Len(ws) :
           /\ ws[i].key = k /\ ws[i].field = f /\ ws[i].value = v
           /\ \A j \in (i + 1)..Len(ws) : ~ Hit(ws, j, k, F)
<1>1. PICK i \in (n + 1)..Len(ws) : Hit(ws, i, k, F) /\ \A j \in (i + 1)..Len(ws) : ~ Hit(ws, j, k, F)
  BY ClearOrLast
<1>2. i \in 1..Len(ws) BY <1>1
<1>3. ws[i].field = f /\ ws[i].value = v BY <1>1, <1>2 DEF Ends
<1> QED BY <1>1, <1>3 DEF Hit

(* Acknowledging the first of n applied writes.                            *)
LEMMA AckKeeps ==
  ASSUME NEW S, NEW ws \in Seq(S), NEW n \in Nat, 0 < n, n <= Len(ws), NEW k, NEW F
  PROVE  /\ Clear(Tail(ws), n - 1, k, F) <=> Clear(ws, n, k, F)
         /\ \A f, v : Ends(ws, k, F, f, v) => Ends(Tail(ws), k, F, f, v)
<1> DEFINE t == Tail(ws)
<1>1. /\ Len(ws) \in Nat /\ Len(t) = Len(ws) - 1 /\ Len(t) \in Nat
      /\ \A i \in 1..Len(t) : i + 1 \in 2..Len(ws) /\ t[i] = ws[i + 1]
  <2>1. ws # << >> OBVIOUS
  <2> QED BY <2>1
<1> HIDE DEF t
<1>2. \A i \in 1..Len(t) : Hit(t, i, k, F) <=> Hit(ws, i + 1, k, F) BY <1>1 DEF Hit
<1>3. \A i \in 2..Len(ws) : i - 1 \in 1..Len(t) /\ (i - 1) + 1 = i BY <1>1
<1>4. Clear(ws, n, k, F) => Clear(t, n - 1, k, F)
  <2> SUFFICES ASSUME Clear(ws, n, k, F), NEW i \in ((n - 1) + 1)..Len(t) PROVE ~ Hit(t, i, k, F)
    BY DEF Clear
  <2>1. i \in 1..Len(t) /\ i + 1 \in (n + 1)..Len(ws) BY <1>1
  <2> QED BY <2>1, <1>2 DEF Clear
<1>5. Clear(t, n - 1, k, F) => Clear(ws, n, k, F)
  <2> SUFFICES ASSUME Clear(t, n - 1, k, F), NEW i \in (n + 1)..Len(ws) PROVE ~ Hit(ws, i, k, F)
    BY DEF Clear
  <2>1. i \in 2..Len(ws) /\ i - 1 \in ((n - 1) + 1)..Len(t) BY <1>1
  <2>2. ~ Hit(t, i - 1, k, F) BY <2>1 DEF Clear
  <2> QED BY <2>1, <2>2, <1>2, <1>3
<1>6. ASSUME NEW f, NEW v, Ends(ws, k, F, f, v) PROVE Ends(t, k, F, f, v)
  <2> SUFFICES ASSUME NEW i \in 1..Len(t), Hit(t, i, k, F), \A j \in (i + 1)..Len(t) : ~ Hit(t, j, k, F)
               PROVE  t[i].field = f /\ t[i].value = v
    BY DEF Ends
  <2>1. i + 1 \in 1..Len(ws) /\ Hit(ws, i + 1, k, F) /\ t[i] = ws[i + 1] BY <1>1, <1>2
  <2>2. ASSUME NEW j \in (i + 2)..Len(ws) PROVE ~ Hit(ws, j, k, F)
    <3>1. j \in 2..Len(ws) /\ j - 1 \in (i + 1)..Len(t) BY <1>1
    <3> QED BY <3>1, <1>2, <1>3
  <2>3. (i + 1) + 1 = i + 2 OBVIOUS
  <2> QED BY <2>1, <2>2, <2>3, <1>6 DEF Ends
<1> QED BY <1>4, <1>5, <1>6 DEF t

(* Queue q is ws and more.                                                 *)
Grows(ws, q) ==
  /\ Len(ws) \in Nat /\ Len(q) \in Nat /\ Len(ws) <= Len(q)
  /\ \A i \in 1..Len(ws) : q[i] = ws[i]

(* Writes added at the end of a queue.                                     *)
LEMMA GrowsFacts ==
  ASSUME NEW A, NEW s \in Seq(A), NEW t \in Seq(A)
  PROVE  /\ Grows(s, s \o t) /\ s \o t \in Seq(A) /\ Len(s \o t) = Len(s) + Len(t)
         /\ \A i \in (Len(s) + 1)..(Len(s) + Len(t)) :
              i - Len(s) \in 1..Len(t) /\ (s \o t)[i] = t[i - Len(s)]
         /\ \A j \in 1..Len(t) :
              Len(s) + j \in (Len(s) + 1)..(Len(s) + Len(t)) /\ (s \o t)[Len(s) + j] = t[j]
         /\ \A x \in A : Grows(s, Append(s, x))
BY DEF Grows

(* Writes of something else change nothing for k.                          *)
LEMMA GrowKeeps ==
  ASSUME NEW ws, NEW q, Grows(ws, q), NEW n \in Nat, NEW k, NEW F,
         \A i \in (Len(ws) + 1)..Len(q) : ~ Hit(q, i, k, F)
  PROVE  /\ Clear(q, n, k, F) <=> Clear(ws, n, k, F)
         /\ \A f, v : Ends(ws, k, F, f, v) => Ends(q, k, F, f, v)
<1>1. Len(ws) \in Nat /\ Len(q) \in Nat /\ Len(ws) <= Len(q) BY DEF Grows
<1>2. \A i \in 1..Len(ws) : Hit(q, i, k, F) <=> Hit(ws, i, k, F) BY DEF Grows, Hit
<1>3. \A i \in 1..Len(q) : i \in 1..Len(ws) \/ i \in (Len(ws) + 1)..Len(q) BY <1>1
<1>4. Clear(q, n, k, F) => Clear(ws, n, k, F)
  <2> SUFFICES ASSUME Clear(q, n, k, F), NEW i \in (n + 1)..Len(ws) PROVE ~ Hit(ws, i, k, F)
    BY DEF Clear
  <2>1. i \in 1..Len(ws) /\ i \in (n + 1)..Len(q) BY <1>1
  <2> QED BY <2>1, <1>2 DEF Clear
<1>5. Clear(ws, n, k, F) => Clear(q, n, k, F)
  <2> SUFFICES ASSUME Clear(ws, n, k, F), NEW i \in (n + 1)..Len(q) PROVE ~ Hit(q, i, k, F)
    BY DEF Clear
  <2>1. i \in 1..Len(q) BY <1>1
  <2>2. i \in 1..Len(ws) => i \in (n + 1)..Len(ws) BY <1>1
  <2> QED BY <2>1, <2>2, <1>2, <1>3 DEF Clear
<1>6. ASSUME NEW f, NEW v, Ends(ws, k, F, f, v) PROVE Ends(q, k, F, f, v)
  <2> SUFFICES ASSUME NEW i \in 1..Len(q), Hit(q, i, k, F), \A j \in (i + 1)..Len(q) : ~ Hit(q, j, k, F)
               PROVE  q[i].field = f /\ q[i].value = v
    BY DEF Ends
  <2>1. i \in 1..Len(ws) BY <1>3
  <2>2. \A j \in (i + 1)..Len(ws) : j \in 1..Len(ws) /\ j \in (i + 1)..Len(q) BY <1>1, <2>1
  <2>3. Hit(ws, i, k, F) /\ \A j \in (i + 1)..Len(ws) : ~ Hit(ws, j, k, F) BY <1>2, <2>1, <2>2
  <2>4. ws[i].field = f /\ ws[i].value = v BY <1>6, <2>1, <2>3 DEF Ends
  <2> QED BY <2>1, <2>4 DEF Grows
<1> QED BY <1>4, <1>5, <1>6

(* A new hit whose later hits all write v to f ends the queue with it.     *)
LEMMA GrowEnds ==
  ASSUME NEW ws, NEW q, Grows(ws, q), NEW n \in Nat, n <= Len(ws), NEW k, NEW F, NEW f, NEW v,
         NEW h \in (Len(ws) + 1)..Len(q), Hit(q, h, k, F),
         \A i \in h..Len(q) : Hit(q, i, k, F) => q[i].field = f /\ q[i].value = v
  PROVE  ~ Clear(q, n, k, F) /\ Ends(q, k, F, f, v)
<1>1. Len(ws) \in Nat /\ Len(q) \in Nat /\ Len(ws) <= Len(q) BY DEF Grows
<1>2. h \in (n + 1)..Len(q) BY <1>1
<1>3. ASSUME NEW i \in 1..Len(q), Hit(q, i, k, F), \A j \in (i + 1)..Len(q) : ~ Hit(q, j, k, F)
      PROVE  q[i].field = f /\ q[i].value = v
  <2>1. ~ (h \in (i + 1)..Len(q)) BY <1>3
  <2>2. i \in h..Len(q) BY <1>1, <2>1
  <2> QED BY <1>3, <2>2
<1> QED BY <1>2, <1>3 DEF Clear, Ends

(* Fewer writes counted as applied.                                        *)
LEMMA ResendKeeps ==
  ASSUME NEW ws, NEW n \in Nat, NEW k, NEW F, Clear(ws, 0, k, F)
  PROVE  Clear(ws, n, k, F)
<1> SUFFICES ASSUME NEW i \in (n + 1)..Len(ws) PROVE ~ Hit(ws, i, k, F)
  BY DEF Clear
<1>1. i \in (0 + 1)..Len(ws) OBVIOUS
<1> QED BY <1>1 DEF Clear

(* One write more is applied: the others stay to come.                     *)
LEMMA ClearNext ==
  ASSUME NEW ws, Len(ws) \in Nat, NEW n \in Nat, NEW k, NEW F,
         Clear(ws, n + 1, k, F), ~ Hit(ws, n + 1, k, F)
  PROVE  Clear(ws, n, k, F)
<1> SUFFICES ASSUME NEW i \in (n + 1)..Len(ws) PROVE ~ Hit(ws, i, k, F)
  BY DEF Clear
<1>1. i = n + 1 \/ i \in ((n + 1) + 1)..Len(ws) OBVIOUS
<1> QED BY <1>1 DEF Clear

(* Nothing of k is in an empty queue.                                      *)
LEMMA EmptyQueue ==
  ASSUME NEW k, NEW F
  PROVE  /\ \A f, v : Ends(<< >>, k, F, f, v)
         /\ \A n \in Nat : Clear(<< >>, n, k, F)
<1>1. Len(<< >>) = 0 OBVIOUS
<1> QED BY <1>1 DEF Ends, Clear

-----------------------------------------------------------------------------
(* 2. What is shown of a record. *)

(* What a queue shows of a child: what the data has, or what the last      *)
(* write that decides it says.                                             *)
LEMMA ShownSettled ==
  ASSUME NEW ws, Len(ws) \in Nat, DOMAIN ws = 1..Len(ws), NEW D, NEW k, NEW f \in Fields
  PROVE  /\ Clear(ws, 0, k, Of(f)) => Shown(D, ws, k, f) = RecordAt(D, k)[f]
         /\ ~ Clear(ws, 0, k, Of(f)) => \A v : Ends(ws, k, Of(f), f, v) => Shown(D, ws, k, f) = v
         /\ ~ Clear(ws, 0, k, Of(f)) =>
              Shown(D, ws, k, f) = Missing \/ \E i \in 1..Len(ws) : Shown(D, ws, k, f) = ws[i].value
<1>1. Deciding(ws, k, f) = {i \in 1..Len(ws) : Hit(ws, i, k, Of(f))}
  BY DEF Deciding, Hit, Of
<1>2. CASE Clear(ws, 0, k, Of(f))
  <2>1. Deciding(ws, k, f) = {} BY <1>1, <1>2 DEF Clear
  <2> QED BY <1>2, <2>1 DEF Shown
<1>3. CASE ~ Clear(ws, 0, k, Of(f))
  <2>1. PICK i \in (0 + 1)..Len(ws) :
          Hit(ws, i, k, Of(f)) /\ \A j \in (i + 1)..Len(ws) : ~ Hit(ws, j, k, Of(f))
    BY <1>3, ClearOrLast
  <2>2. i \in 1..Len(ws) BY <2>1
  <2>3. i \in Deciding(ws, k, f) /\ Deciding(ws, k, f) \in SUBSET (1..Len(ws)) BY <1>1, <2>1, <2>2
  <2>4. \A j \in Deciding(ws, k, f) : j <= i
    <3> SUFFICES ASSUME NEW j \in 1..Len(ws), Hit(ws, j, k, Of(f)), ~ (j <= i) PROVE FALSE BY <1>1
    <3>1. j \in (i + 1)..Len(ws) BY <2>2
    <3> QED BY <3>1, <2>1
  <2>5. Max(Deciding(ws, k, f)) = i BY <2>3, <2>4, MaxOfPositions
  <2>6. Shown(D, ws, k, f) = IF ws[i].field \in {Leaf, Gone} THEN Missing ELSE ws[i].value
    BY <2>3, <2>5 DEF Shown
  <2>7. ASSUME NEW v, Ends(ws, k, Of(f), f, v) PROVE Shown(D, ws, k, f) = v
    <3>1. ws[i].field = f /\ ws[i].value = v BY <2>1, <2>2, <2>7 DEF Ends
    <3> QED BY <2>6, <3>1, CollectionAssumption
  <2> QED BY <1>3, <2>2, <2>6, <2>7
<1> QED BY <1>2, <1>3

(* No write of ws removes record k, and its children settle on r: with the *)
(* last write to each, or in the data D if there is none.                  *)
Settles(D, ws, k, r) ==
  /\ Len(ws) \in Nat /\ DOMAIN ws = 1..Len(ws) /\ r = [f \in Fields |-> r[f]]
  /\ \A i \in 1..Len(ws) : ws[i].key = k => ws[i].field # Gone
  /\ \A f \in Fields : Ends(ws, k, Of(f), f, r[f])
  /\ \A f \in Fields : Clear(ws, 0, k, Of(f)) => k \in DOMAIN D /\ D[k][f] = r[f]

(* Such a record is read as r.                                             *)
LEMMA ReadWhole ==
  ASSUME NEW ws, NEW D, NEW k, NEW r, Settles(D, ws, k, r), Fields # {}
  PROVE  /\ k \in DOMAIN D \cup KeysOf(ws)
         /\ k \in DOMAIN Overlay(D, ws) /\ Overlay(D, ws)[k] = r
<1> USE DEF Settles
<1>1. ~ RemovedBy(ws, k) BY DEF RemovedBy
<1>2. k \in DOMAIN D \cup KeysOf(ws)
  <2>1. PICK f \in Fields : TRUE OBVIOUS
  <2>2. CASE Clear(ws, 0, k, Of(f)) BY <2>2
  <2>3. CASE ~ Clear(ws, 0, k, Of(f))
    <3>1. PICK i \in (0 + 1)..Len(ws) : Hit(ws, i, k, Of(f)) BY <2>3 DEF Clear
    <3> QED BY <3>1 DEF KeysOf, Hit
  <2> QED BY <2>2, <2>3
<1>3. ASSUME NEW f \in Fields PROVE Shown(D, ws, k, f) = r[f]
  <2>1. CASE Clear(ws, 0, k, Of(f))
    <3>1. Shown(D, ws, k, f) = RecordAt(D, k)[f] BY <2>1, ShownSettled
    <3> QED BY <2>1, <3>1 DEF RecordAt
  <2>2. CASE ~ Clear(ws, 0, k, Of(f)) BY <2>2, ShownSettled
  <2> QED BY <2>1, <2>2
<1>4. k \in DOMAIN Overlay(D, ws) /\ Overlay(D, ws)[k] = [f \in Fields |-> Shown(D, ws, k, f)]
  BY <1>1, <1>2 DEF Overlay
<1>5. [f \in Fields |-> Shown(D, ws, k, f)] = [f \in Fields |-> r[f]] BY <1>3
<1> QED BY <1>2, <1>4, <1>5

-----------------------------------------------------------------------------
(* 3. The overlay is the replay of the queue. *)

(* Data whose records have every child, present or Missing.                *)
FullRecords(D) == D = [k \in DOMAIN D |-> [f \in Fields |-> D[k][f]]]

(* The first m writes of ws.                                               *)
FirstWrites(ws, m) == [i \in 1..m |-> ws[i]]

(* The last write that decides a child says what is shown of it.           *)
LEMMA ShownAt ==
  ASSUME NEW ws, NEW n \in Nat, DOMAIN ws = 1..n, NEW D, NEW k, NEW f,
         NEW i \in Deciding(ws, k, f), \A j \in Deciding(ws, k, f) : j <= i
  PROVE  Shown(D, ws, k, f) = IF ws[i].field \in {Leaf, Gone} THEN Missing ELSE ws[i].value
<1>1. Deciding(ws, k, f) \in SUBSET (1..n) BY DEF Deciding
<1>2. Max(Deciding(ws, k, f)) = i BY <1>1, MaxOfPositions
<1> QED BY <1>2 DEF Shown

(* A record that is not shown is shown without children once it is made    *)
(* again: it never was, or its last write removed it.                      *)
LEMMA NotShown ==
  ASSUME NEW ws, NEW n \in Nat, DOMAIN ws = 1..n, NEW D, NEW k, k \notin DOMAIN Overlay(D, ws),
         NEW f \in Fields
  PROVE  Shown(D, ws, k, f) = Missing
<1>1. k \notin DOMAIN D \cup KeysOf(ws) \/ RemovedBy(ws, k) BY DEF Overlay
<1>2. CASE k \notin DOMAIN D \cup KeysOf(ws)
  <2>1. Deciding(ws, k, f) = {} BY <1>2 DEF Deciding, KeysOf
  <2> QED BY <1>2, <2>1 DEF Shown, RecordAt, Blank
<1>3. CASE RemovedBy(ws, k)
  <2>1. PICK i \in DOMAIN ws : /\ ws[i].key = k /\ ws[i].field = Gone
                               /\ \A j \in DOMAIN ws : j > i => ws[j].key # k
    BY <1>3 DEF RemovedBy
  <2>2. i \in Deciding(ws, k, f) BY <2>1 DEF Deciding
  <2>3. \A j \in Deciding(ws, k, f) : j <= i
    <3> SUFFICES ASSUME NEW j \in Deciding(ws, k, f), ~ (j <= i) PROVE FALSE OBVIOUS
    <3>1. j \in 1..n /\ i \in 1..n /\ ws[j].key = k BY <2>1 DEF Deciding
    <3>2. j > i BY <3>1
    <3> QED BY <2>1, <3>1, <3>2
  <2> QED BY <2>1, <2>2, <2>3, ShownAt
<1> QED BY <1>1, <1>2, <1>3

(* What one write more changes of what is shown.                           *)
LEMMA OverlayNext ==
  ASSUME NEW ws, NEW m \in Nat, NEW D, NEW w, w = ws[m + 1], w.field \in Fields \cup {Leaf, Gone}
  PROVE  Overlay(D, FirstWrites(ws, m + 1)) = Apply(Overlay(D, FirstWrites(ws, m)), w)
<1> DEFINE p == FirstWrites(ws, m)
           q == FirstWrites(ws, m + 1)
           old == Overlay(D, p)
           Says == IF w.field \in {Leaf, Gone} THEN Missing ELSE w.value
<1>1. /\ DOMAIN p = 1..m /\ DOMAIN q = 1..(m + 1) /\ m + 1 \in Nat
      /\ q[m + 1] = w /\ \A i \in 1..m : i \in 1..(m + 1) /\ q[i] = p[i]
  BY DEF FirstWrites
<1>2. \A i \in 1..(m + 1) : i \in 1..m \/ i = m + 1 OBVIOUS
<1>3. \A i \in 1..m : i <= m + 1 /\ i # m + 1 /\ m + 1 > i OBVIOUS
<1> HIDE DEF p, q
<1>4. KeysOf(q) = KeysOf(p) \cup {w.key} BY <1>1, <1>2 DEF KeysOf
<1>5. ASSUME NEW k, k # w.key PROVE RemovedBy(q, k) <=> RemovedBy(p, k)
  <2>1. ASSUME RemovedBy(q, k) PROVE RemovedBy(p, k)
    <3>1. PICK i \in 1..(m + 1) : /\ q[i].key = k /\ q[i].field = Gone
                                  /\ \A j \in 1..(m + 1) : j > i => q[j].key # k
      BY <1>1, <2>1 DEF RemovedBy
    <3>2. i \in 1..m BY <1>1, <1>2, <1>5, <3>1
    <3> QED BY <1>1, <3>1, <3>2 DEF RemovedBy
  <2>2. ASSUME RemovedBy(p, k) PROVE RemovedBy(q, k)
    <3>1. PICK i \in 1..m : /\ p[i].key = k /\ p[i].field = Gone
                            /\ \A j \in 1..m : j > i => p[j].key # k
      BY <1>1, <2>2 DEF RemovedBy
    <3>2. \A j \in 1..(m + 1) : j > i => q[j].key # k BY <1>1, <1>2, <1>5, <3>1
    <3> QED BY <1>1, <3>1, <3>2 DEF RemovedBy
  <2> QED BY <2>1, <2>2
<1>6. RemovedBy(q, w.key) <=> w.field = Gone
  <2>1. ASSUME RemovedBy(q, w.key) PROVE w.field = Gone
    <3>1. PICK i \in 1..(m + 1) : /\ q[i].key = w.key /\ q[i].field = Gone
                                  /\ \A j \in 1..(m + 1) : j > i => q[j].key # w.key
      BY <1>1, <2>1 DEF RemovedBy
    <3>2. m + 1 \in 1..(m + 1) OBVIOUS
    <3>3. i = m + 1 BY <1>1, <1>2, <1>3, <3>1, <3>2
    <3> QED BY <1>1, <3>1, <3>3
  <2>2. ASSUME w.field = Gone PROVE RemovedBy(q, w.key)
    <3>1. m + 1 \in 1..(m + 1) /\ \A j \in 1..(m + 1) : ~ (j > m + 1) OBVIOUS
    <3> QED BY <1>1, <2>2, <3>1 DEF RemovedBy
  <2> QED BY <2>1, <2>2
<1>7. ASSUME NEW k, NEW f \in Fields, ~ (w.key = k /\ w.field \in Of(f))
      PROVE  Shown(D, q, k, f) = Shown(D, p, k, f)
  <2>1. Deciding(q, k, f) = Deciding(p, k, f)
    <3>1. \A i \in 1..(m + 1) : q[i].key = k /\ q[i].field \in Of(f) => i \in 1..m BY <1>1, <1>2, <1>7
    <3> QED BY <1>1, <3>1 DEF Deciding, Of
  <2>2. CASE Deciding(p, k, f) = {} BY <2>1, <2>2 DEF Shown
  <2>3. CASE Deciding(p, k, f) # {}
    <3>1. PICK h \in Deciding(p, k, f) : TRUE BY <2>3
    <3>2. h \in 1..m /\ Hit(p, h, k, Of(f)) BY <1>1, <3>1 DEF Deciding, Hit, Of
    <3>3. Len(p) = m BY <1>1
    <3>4. PICK i \in h..Len(p) : Hit(p, i, k, Of(f)) /\ \A j \in (i + 1)..Len(p) : ~ Hit(p, j, k, Of(f))
      BY <3>2, <3>3, LastHit
    <3>5. i \in 1..m /\ i \in Deciding(p, k, f) BY <1>1, <3>2, <3>3, <3>4 DEF Deciding, Hit, Of
    <3>6. \A j \in Deciding(p, k, f) : j <= i
      <4> SUFFICES ASSUME NEW j \in Deciding(p, k, f), ~ (j <= i) PROVE FALSE OBVIOUS
      <4>1. j \in 1..m /\ Hit(p, j, k, Of(f)) BY <1>1 DEF Deciding, Hit, Of
      <4>2. j \in (i + 1)..Len(p) BY <3>3, <3>5, <4>1
      <4> QED BY <3>4, <4>1, <4>2
    <3>7. Shown(D, p, k, f) = IF p[i].field \in {Leaf, Gone} THEN Missing ELSE p[i].value
      BY <1>1, <3>5, <3>6, ShownAt
    <3>8. Shown(D, q, k, f) = IF q[i].field \in {Leaf, Gone} THEN Missing ELSE q[i].value
      <4>1. i \in Deciding(q, k, f) /\ \A j \in Deciding(q, k, f) : j <= i BY <2>1, <3>5, <3>6
      <4>2. PICK n \in Nat : n = m + 1 OBVIOUS
      <4>3. DOMAIN q = 1..n BY <1>1, <4>2
      <4> QED BY <4>1, <4>3, ShownAt
    <3> QED BY <1>1, <3>5, <3>7, <3>8
  <2> QED BY <2>2, <2>3
<1>8. ASSUME NEW f \in Fields, w.field \in Of(f) PROVE Shown(D, q, w.key, f) = Says
  <2>1. PICK n \in Nat : n = m + 1 OBVIOUS
  <2>2. n \in Deciding(q, w.key, f) BY <1>1, <1>8, <2>1 DEF Deciding, Of
  <2>3. \A j \in Deciding(q, w.key, f) : j <= n BY <1>1, <2>1 DEF Deciding
  <2>4. DOMAIN q = 1..n BY <1>1, <2>1
  <2>5. Shown(D, q, w.key, f) = IF q[n].field \in {Leaf, Gone} THEN Missing ELSE q[n].value
    BY <2>2, <2>3, <2>4, ShownAt
  <2> QED BY <1>1, <2>1, <2>5
<1>9. /\ Overlay(D, q) = [k \in DOMAIN Overlay(D, q) |-> [f \in Fields |-> Shown(D, q, k, f)]]
      /\ DOMAIN Overlay(D, q) = {k \in DOMAIN D \cup KeysOf(q) : ~ RemovedBy(q, k)}
      /\ DOMAIN old = {k \in DOMAIN D \cup KeysOf(p) : ~ RemovedBy(p, k)}
      /\ \A k \in DOMAIN old : old[k] = [f \in Fields |-> Shown(D, p, k, f)]
  BY DEF Overlay
<1>10. \A f \in Fields : RecordAt(old, w.key)[f] = Shown(D, p, w.key, f)
  <2>1. CASE w.key \in DOMAIN old
    <3>1. old[w.key] = [f \in Fields |-> Shown(D, p, w.key, f)] BY <1>9, <2>1
    <3>2. RecordAt(old, w.key) = old[w.key] BY <2>1 DEF RecordAt
    <3> HIDE DEF old
    <3> QED BY <3>1, <3>2
  <2>2. CASE w.key \notin DOMAIN old
    <3>1. \A f \in Fields : Shown(D, p, w.key, f) = Missing BY <1>1, <2>2, NotShown
    <3> QED BY <2>2, <3>1 DEF RecordAt, Blank
  <2> QED BY <2>1, <2>2
<1>11. DOMAIN RecordAt(old, w.key) = Fields BY <1>9 DEF RecordAt, Blank
<1>12. \A k \in DOMAIN Overlay(D, q) : k # w.key => Overlay(D, q)[k] = old[k]
  <2> SUFFICES ASSUME NEW k \in DOMAIN Overlay(D, q), k # w.key PROVE Overlay(D, q)[k] = old[k]
    OBVIOUS
  <2>1. k \in DOMAIN old BY <1>4, <1>5, <1>9
  <2>2. \A f \in Fields : Shown(D, q, k, f) = Shown(D, p, k, f) BY <1>7
  <2>3. Overlay(D, q)[k] = [f \in Fields |-> Shown(D, q, k, f)] BY <1>9
  <2>4. old[k] = [f \in Fields |-> Shown(D, p, k, f)] BY <1>9, <2>1
  <2> QED BY <2>2, <2>3, <2>4
<1>13. CASE w.field = Gone
  <2>1. DOMAIN Overlay(D, q) = DOMAIN old \ {w.key} BY <1>4, <1>5, <1>6, <1>9, <1>13
  <2>2. Apply(old, w) = [k \in DOMAIN old \ {w.key} |-> old[k]] BY <1>13 DEF Apply
  <2> HIDE DEF old
  <2> QED BY <1>9, <1>12, <2>1, <2>2 DEF p, q, old
<1>14. CASE w.field # Gone
  <2> DEFINE new == Overlay(D, q)
  <2>1. DOMAIN new = DOMAIN old \cup {w.key} BY <1>4, <1>5, <1>6, <1>9, <1>14
  <2>2. new = [k \in DOMAIN new |-> new[k]] BY <1>9
  <2>3. new[w.key] = [f \in Fields |-> Shown(D, q, w.key, f)] BY <1>9, <2>1
  <2>4. CASE w.field = Leaf
    <3>1. \A f \in Fields : Shown(D, q, w.key, f) = Missing BY <1>8, <2>4 DEF Of
    <3>2. new[w.key] = Blank BY <2>3, <3>1 DEF Blank
    <3>3. Apply(old, w) = [k \in DOMAIN old \cup {w.key} |-> IF k # w.key THEN old[k] ELSE Blank]
      BY <1>14, <2>4 DEF Apply
    <3> HIDE DEF old, new
    <3>4. new = Apply(old, w) BY <1>12, <2>1, <2>2, <3>2, <3>3 DEF new
    <3> QED BY <3>4 DEF new, old, p, q
  <2>5. CASE w.field # Leaf
    <3>1. w.field \in Fields BY <1>14, <2>5
    <3>2. \A f \in Fields : Shown(D, q, w.key, f) = IF f = w.field THEN w.value ELSE RecordAt(old, w.key)[f]
      BY <1>7, <1>8, <1>10, <1>14, <2>5 DEF Of
    <3>3. new[w.key] = [RecordAt(old, w.key) EXCEPT ![w.field] = w.value]
      <4> HIDE DEF old
      <4> QED BY <1>11, <2>3, <3>1, <3>2
    <3>4. Apply(old, w) = [k \in DOMAIN old \cup {w.key} |->
                             IF k # w.key THEN old[k]
                             ELSE [RecordAt(old, k) EXCEPT ![w.field] = w.value]]
      BY <1>14, <2>5 DEF Apply
    <3> HIDE DEF old, new
    <3>5. new = Apply(old, w) BY <1>12, <2>1, <2>2, <3>3, <3>4 DEF new
    <3> QED BY <3>5 DEF new, old, p, q
  <2> QED BY <2>4, <2>5
<1> QED BY <1>13, <1>14

(* Induction on numbers, for a set.                                        *)
LEMMA AllNumbers ==
  ASSUME NEW T \in SUBSET Nat, 0 \in T, \A m \in T : m + 1 \in T
  PROVE  T = Nat
<1> SUFFICES ASSUME NEW x \in Nat, x \notin T PROVE FALSE OBVIOUS
<1> DEFINE R == Nat \ T
<1>1. PICK y \in R : \A z \in R : ~ (<<z, y>> \in OpToRel(<, Nat))
  <2>1. R \in SUBSET Nat /\ R # {} OBVIOUS
  <2> HIDE DEF R
  <2> QED BY <2>1, NatLessThanWellFounded, WFMin
<1>2. \A z \in R : ~ (z < y) BY <1>1 DEF OpToRel
<1>3. y # 0 /\ y - 1 \in Nat OBVIOUS
<1>4. y - 1 \in T BY <1>2, <1>3
<1>5. (y - 1) + 1 = y OBVIOUS
<1> QED BY <1>4, <1>5

(* g folds Apply over the writes at the positions in S: what FoldLeft      *)
(* chooses.                                                                *)
Folds(g, D, ws, S) ==
  g = [s \in SUBSET S |-> IF s = {} THEN D ELSE Apply(g[s \ {Max(s)}], ws[Max(s)])]

(* There is such a fold.                                                   *)
LEMMA FoldExists ==
  ASSUME NEW D, NEW ws, NEW n \in Nat
  PROVE  \E g : Folds(g, D, ws, 1..n)
<1> DEFINE T == {m \in Nat : \E g : Folds(g, D, ws, 1..m)}
<1>1. 0 \in T
  <2> DEFINE g == [s \in SUBSET (1..0) |-> D]
  <2>1. \A s \in SUBSET (1..0) : s = {} OBVIOUS
  <2>2. Folds(g, D, ws, 1..0) BY <2>1 DEF Folds
  <2> QED BY <2>2
<1>2. ASSUME NEW m \in T PROVE m + 1 \in T
  <2>1. PICK g : Folds(g, D, ws, 1..m) OBVIOUS
  <2> DEFINE h == [s \in SUBSET (1..(m + 1)) |->
                     IF m + 1 \in s THEN Apply(g[s \ {m + 1}], ws[m + 1]) ELSE g[s]]
  <2>2. m \in Nat /\ m + 1 \in Nat OBVIOUS
  <2>3. \A s \in SUBSET (1..(m + 1)) : s \ {m + 1} \in SUBSET (1..m) BY <2>2
  <2>4. ASSUME NEW s \in SUBSET (1..(m + 1))
        PROVE  h[s] = IF s = {} THEN D ELSE Apply(h[s \ {Max(s)}], ws[Max(s)])
    <3>1. CASE m + 1 \in s
      <4>1. Max(s) = m + 1
        <5>1. PICK k \in Nat : k = m + 1 BY <2>2
        <5>2. k \in s /\ s \in SUBSET (1..k) /\ \A i \in s : i <= k BY <3>1, <5>1
        <5>3. Max(s) = k BY <5>2, MaxOfPositions
        <5> QED BY <5>1, <5>3
      <4>2. s \ {m + 1} \in SUBSET (1..(m + 1)) /\ m + 1 \notin s \ {m + 1} OBVIOUS
      <4>3. h[s \ {m + 1}] = g[s \ {m + 1}] BY <4>2
      <4>4. h[s] = Apply(g[s \ {m + 1}], ws[m + 1]) BY <3>1
      <4> HIDE DEF h
      <4> QED BY <3>1, <4>1, <4>3, <4>4
    <3>2. CASE m + 1 \notin s
      <4>1. s \in SUBSET (1..m) BY <2>3, <3>2
      <4>2. h[s] = g[s] BY <3>2
      <4>3. g[s] = IF s = {} THEN D ELSE Apply(g[s \ {Max(s)}], ws[Max(s)]) BY <2>1, <4>1 DEF Folds
      <4>4. h[s \ {Max(s)}] = g[s \ {Max(s)}]
        <5>1. s \ {Max(s)} \in SUBSET (1..(m + 1)) /\ m + 1 \notin s \ {Max(s)} BY <3>2
        <5> QED BY <5>1
      <4> HIDE DEF h
      <4> QED BY <4>2, <4>3, <4>4
    <3> QED BY <3>1, <3>2
  <2>5. DOMAIN h = SUBSET (1..(m + 1)) /\ h = [s \in DOMAIN h |-> h[s]] OBVIOUS
  <2> HIDE DEF h
  <2>6. h = [s \in SUBSET (1..(m + 1)) |-> IF s = {} THEN D ELSE Apply(h[s \ {Max(s)}], ws[Max(s)])]
    BY <2>4, <2>5
  <2>7. Folds(h, D, ws, 1..(m + 1)) BY <2>6 DEF Folds
  <2> QED BY <2>2, <2>7
<1>3. T \in SUBSET Nat OBVIOUS
<1> HIDE DEF T
<1>4. T = Nat BY <1>1, <1>2, <1>3, AllNumbers
<1>5. n \in T BY <1>4
<1> QED BY <1>5 DEF T

(* Replaying the writes of a queue one after the other over the data gives *)
(* what the event cache shows.                                             *)
LEMMA ReplayShown ==
  ASSUME NEW ws, NEW n \in Nat, ws = [i \in 1..n |-> ws[i]],
         \A i \in 1..n : ws[i].field \in Fields \cup {Leaf, Gone},
         NEW D, FullRecords(D)
  PROVE  Overlay(D, ws) = FoldLeft(Apply, D, ws)
<1> DEFINE g == CHOOSE h : h = [s \in SUBSET (1..n) |->
                                  IF s = {} THEN D ELSE Apply(h[s \ {Max(s)}], ws[Max(s)])]
<1>1. FoldLeft(Apply, D, ws) = g[1..n]
  <2>1. DOMAIN ws = 1..n OBVIOUS
  <2>2. FoldLeft(Apply, D, ws) =
          (CHOOSE h : h = [s \in SUBSET (DOMAIN ws) |->
                             IF s = {} THEN D ELSE Apply(h[s \ {Max(s)}], ws[Max(s)])])[DOMAIN ws]
    BY DEF FoldLeft, MapThenFoldSet
  <2> QED BY <2>1, <2>2
<1>2. g = [s \in SUBSET (1..n) |-> IF s = {} THEN D ELSE Apply(g[s \ {Max(s)}], ws[Max(s)])]
  <2>1. PICK h : Folds(h, D, ws, 1..n) BY FoldExists
  <2> QED BY <2>1 DEF Folds
<1> HIDE DEF g
<1> DEFINE T == {m \in Nat : m <= n => g[1..m] = Overlay(D, FirstWrites(ws, m))}
<1>3. 0 \in T
  <2>1. 1..0 = {} /\ 1..0 \in SUBSET (1..n) OBVIOUS
  <2>2. g[1..0] = D BY <1>2, <2>1
  <2>3. DOMAIN FirstWrites(ws, 0) = {} BY <2>1 DEF FirstWrites
  <2>4. Overlay(D, FirstWrites(ws, 0)) = [k \in DOMAIN D |-> [f \in Fields |-> D[k][f]]]
    BY <2>3 DEF Overlay, KeysOf, RemovedBy, Shown, Deciding, RecordAt
  <2> QED BY <2>2, <2>4 DEF FullRecords
<1>4. ASSUME NEW m \in T PROVE m + 1 \in T
  <2> SUFFICES ASSUME m + 1 <= n PROVE g[1..(m + 1)] = Overlay(D, FirstWrites(ws, m + 1))
    OBVIOUS
  <2>1. m \in Nat /\ m <= n /\ g[1..m] = Overlay(D, FirstWrites(ws, m)) OBVIOUS
  <2>2. 1..(m + 1) \in SUBSET (1..n) /\ 1..(m + 1) # {} /\ (1..(m + 1)) \ {m + 1} = 1..m BY <2>1
  <2>3. Max(1..(m + 1)) = m + 1
    <3>1. PICK k \in Nat : k = m + 1 BY <2>1
    <3>2. k \in 1..k /\ 1..k \in SUBSET (1..k) /\ \A i \in 1..k : i <= k BY <3>1
    <3>3. Max(1..k) = k BY <3>2, MaxOfPositions
    <3> QED BY <3>1, <3>3
  <2>4. g[1..(m + 1)] = Apply(g[1..m], ws[m + 1]) BY <1>2, <2>2, <2>3
  <2>5. m + 1 \in 1..n BY <2>1
  <2>6. PICK w : w = ws[m + 1] OBVIOUS
  <2>7. w.field \in Fields \cup {Leaf, Gone} BY <2>5, <2>6
  <2>8. Overlay(D, FirstWrites(ws, m + 1)) = Apply(Overlay(D, FirstWrites(ws, m)), w)
    BY <2>1, <2>6, <2>7, OverlayNext
  <2> QED BY <2>1, <2>4, <2>6, <2>8
<1>5. T \in SUBSET Nat OBVIOUS
<1> HIDE DEF T
<1>6. n \in T BY <1>3, <1>4, <1>5, AllNumbers
<1>7. g[1..n] = Overlay(D, FirstWrites(ws, n)) BY <1>6 DEF T
<1>8. FirstWrites(ws, n) = ws BY DEF FirstWrites
<1> QED BY <1>1, <1>7, <1>8
=============================================================================
