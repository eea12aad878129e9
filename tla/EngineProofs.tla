---------------------------- MODULE EngineProofs ----------------------------
(***************************************************************************)
(* The files and the answers of Engine, and that it implements Store, for  *)
(* any writers, readers, keys and batches, any size of a memtable and any  *)
(* trigger of a compaction.                                                *)
(*                                                                         *)
(*   1. numbers: maxima, and next_file_number_ while logs are replayed     *)
(*   2. LiveFilesKept: no file that may still be read is deleted           *)
(*   3. entries, and how they are found                                    *)
(*   4. ReadsRight: a Get() answers what the database held when it began   *)
(*   5. what a read finds, what a merge leaves, what a group of writes is  *)
(*   6. the invariant StoreInv                                             *)
(*   7. which variables its parts depend on                                *)
(*   8. every step keeps it                                                *)
(*   9. every step is a step of Store or stutters                          *)
(*                                                                         *)
(* What a step of Store takes besides the invariants of 2 and 4, FilesInv  *)
(* and ReadInv: newer entries are of newer writes in everything a recovery *)
(* could find (OrderOK), no batch is there in part (WholeOK), what the     *)
(* MANIFEST may say names the logs of the memtables (LogsOK), the writes   *)
(* of the queue are behind all others (WritersOK), the background thread's *)
(* edit has what it takes away (WorkOK), and what is safe is in every part *)
(* of what a crash may leave (SafeOK).                                     *)
(***************************************************************************)
EXTENDS Engine, FiniteSetTheorems, SequenceTheorems, WellFoundedInduction, TLAPS

-----------------------------------------------------------------------------
(* 1. Numbers: maxima, and next_file_number_ while logs are replayed.      *)

(* A set of numbers that has 0 and every successor has them all.           *)
LEMMA AllNumbers ==
  ASSUME NEW T \in SUBSET Nat, 0 \in T, \A m \in T : m + 1 \in T
  PROVE  T = Nat
<1> SUFFICES ASSUME NEW x \in Nat, x \notin T PROVE FALSE OBVIOUS
<1> DEFINE R == Nat \ T
<1>1. PICK y \in R : \A z \in R : ~ (<<z, y>> \in OpToRel(<, Nat))
  <2>1. R \in SUBSET Nat /\ R # {} OBVIOUS
  <2> HIDE DEF R
  <2> QED BY <2>1, NatLessThanWellFounded, WFMin
<1>2. \A z \in R : ~ (z < y) BY <1>1 DEF OpToRel
<1>3. y # 0 /\ y - 1 \in Nat OBVIOUS
<1>4. y - 1 \in T BY <1>2, <1>3
<1>5. (y - 1) + 1 = y OBVIOUS
<1> QED BY <1>4, <1>5

(* The larger of two numbers.                                              *)
LEMMA MaxOfTwo ==
  ASSUME NEW a \in Nat, NEW b \in Nat
  PROVE  Max({a, b}) \in {a, b} /\ Max({a, b}) >= a /\ Max({a, b}) >= b
<1>1. \E x \in {a, b} : \A y \in {a, b} : x >= y
  <2>1. CASE a >= b BY <2>1
  <2>2. CASE ~ (a >= b) BY <2>2
  <2> QED BY <2>1, <2>2
<1>2. Max({a, b}) \in {a, b} /\ \A y \in {a, b} : Max({a, b}) >= y BY <1>1 DEF Max
<1> QED BY <1>2

(* A finite set of numbers has a largest one.                              *)
LEMMA MaxOfSet ==
  ASSUME NEW S \in SUBSET Nat, IsFiniteSet(S), S # {}
  PROVE  Max(S) \in S /\ \A y \in S : Max(S) >= y
<1> DEFINE Has(X) == \E x \in X : \A y \in X : x >= y
           T == {n \in Nat : \A X \in SUBSET Nat :
                   IsFiniteSet(X) /\ Cardinality(X) = n /\ X # {} => Has(X)}
<1>1. 0 \in T
  <2> SUFFICES ASSUME NEW X \in SUBSET Nat, IsFiniteSet(X), Cardinality(X) = 0, X # {} PROVE FALSE
    OBVIOUS
  <2> QED BY FS_EmptySet
<1>2. ASSUME NEW m \in T PROVE m + 1 \in T
  <2> SUFFICES ASSUME NEW X \in SUBSET Nat, IsFiniteSet(X), Cardinality(X) = m + 1, X # {}
               PROVE  Has(X)
    OBVIOUS
  <2>1. PICK x \in X : TRUE OBVIOUS
  <2>2. IsFiniteSet(X \ {x}) /\ Cardinality(X \ {x}) = m
    <3>1. IsFiniteSet(X \ {x}) /\ Cardinality(X \ {x}) = Cardinality(X) - 1
      BY <2>1, FS_RemoveElement
    <3> QED BY <3>1
  <2>3. CASE X \ {x} = {} BY <2>1, <2>3
  <2>4. CASE X \ {x} # {}
    <3>1. Has(X \ {x}) BY <2>2, <2>4
    <3>2. PICK z \in X \ {x} : \A y \in X \ {x} : z >= y BY <3>1
    <3>3. CASE z >= x BY <3>2, <3>3
    <3>4. CASE ~ (z >= x)
      <4>1. \A y \in X : x >= y BY <3>2, <3>4
      <4> QED BY <4>1
    <3> QED BY <3>3, <3>4
  <2> QED BY <2>3, <2>4
<1>3. T = Nat
  <2>1. T \in SUBSET Nat OBVIOUS
  <2> HIDE DEF T
  <2> QED BY <1>1, <1>2, <2>1, AllNumbers
<1>4. Cardinality(S) \in Nat BY FS_CardinalityType
<1>5. Has(S) BY <1>3, <1>4
<1> QED BY <1>5 DEF Max

-----------------------------------------------------------------------------
(* What NextAt says of n, given what g says of the number before.          *)
After(entries, first, g, n) ==
  IF n = 0 THEN first
  ELSE IF n - 1 \notin DOMAIN entries THEN g[n - 1]
  ELSE Max({n, g[n - 1] + IF entries[n - 1] = {} THEN 0 ELSE 1})

Upto(entries, first, g, m) == g = [n \in 0..m |-> After(entries, first, g, n)]

(* NextAt exists: it is what its finite parts say, and there is one of     *)
(* these for every number, and no two differ.                              *)
LEMMA NextAtExists ==
  ASSUME NEW entries, NEW first
  PROVE  NextAt(entries, first)
           = [n \in Nat |-> After(entries, first, NextAt(entries, first), n)]
<1> DEFINE T == {m \in Nat : \E g : Upto(entries, first, g, m)}
           One == {n \in Nat : \A m, k \in Nat : \A g, h :
                     /\ Upto(entries, first, g, m) /\ Upto(entries, first, h, k)
                     /\ n <= m /\ n <= k
                     => g[n] = h[n]}
           part == [m \in Nat |-> CHOOSE g : Upto(entries, first, g, m)]
           at == [n \in Nat |-> part[n][n]]
<1>1. T = Nat
  <2>1. 0 \in T
    <3> DEFINE g == [n \in 0..0 |-> first]
    <3>1. Upto(entries, first, g, 0) BY DEF Upto, After
    <3> QED BY <3>1
  <2>2. ASSUME NEW m \in T PROVE m + 1 \in T
    <3>1. PICK g : Upto(entries, first, g, m) OBVIOUS
    <3> DEFINE h == [n \in 0..(m + 1) |->
                       IF n = m + 1 THEN After(entries, first, g, n) ELSE g[n]]
    <3>2. \A n \in 0..m : g[n] = After(entries, first, g, n) BY <3>1 DEF Upto
    <3>3. \A n \in 0..(m + 1) : After(entries, first, h, n) = After(entries, first, g, n)
      <4>1. \A n \in 0..(m + 1) : n # 0 => h[n - 1] = g[n - 1] OBVIOUS
      <4> HIDE DEF h
      <4> QED BY <4>1 DEF After
    <3>4. \A n \in 0..(m + 1) : h[n] = After(entries, first, h, n)
      <4> SUFFICES ASSUME NEW n \in 0..(m + 1) PROVE h[n] = After(entries, first, g, n)
        BY <3>3
      <4>1. CASE n = m + 1 BY <4>1
      <4>2. CASE n # m + 1 BY <4>2, <3>2
      <4> QED BY <4>1, <4>2
    <3>5. Upto(entries, first, h, m + 1)
      <4>1. h = [n \in 0..(m + 1) |-> h[n]] OBVIOUS
      <4> HIDE DEF h
      <4> QED BY <3>4, <4>1 DEF Upto
    <3> HIDE DEF h
    <3> QED BY <3>5
  <2>3. T \in SUBSET Nat OBVIOUS
  <2> HIDE DEF T
  <2> QED BY <2>1, <2>2, <2>3, AllNumbers
<1>2. One = Nat
  <2>1. 0 \in One
    <3> SUFFICES ASSUME NEW m \in Nat, NEW k \in Nat, NEW g, NEW h,
                        Upto(entries, first, g, m), Upto(entries, first, h, k)
                 PROVE  g[0] = h[0]
      OBVIOUS
    <3>1. 0 \in 0..m /\ 0 \in 0..k OBVIOUS
    <3>2. g[0] = After(entries, first, g, 0) BY <3>1 DEF Upto
    <3>3. h[0] = After(entries, first, h, 0) BY <3>1 DEF Upto
    <3> QED BY <3>2, <3>3 DEF After
  <2>2. ASSUME NEW n \in One PROVE n + 1 \in One
    <3> SUFFICES ASSUME NEW m \in Nat, NEW k \in Nat, NEW g, NEW h,
                        Upto(entries, first, g, m), Upto(entries, first, h, k),
                        n + 1 <= m, n + 1 <= k
                 PROVE  g[n + 1] = h[n + 1]
      OBVIOUS
    <3>1. g[n] = h[n] OBVIOUS
    <3>2. n + 1 # 0 /\ (n + 1) - 1 = n OBVIOUS
    <3>3. After(entries, first, g, n + 1) = After(entries, first, h, n + 1)
      BY <3>1, <3>2 DEF After
    <3>4. n + 1 \in 0..m /\ n + 1 \in 0..k OBVIOUS
    <3> QED BY <3>3, <3>4 DEF Upto
  <2>3. One \in SUBSET Nat OBVIOUS
  <2> HIDE DEF One
  <2> QED BY <2>1, <2>2, <2>3, AllNumbers
<1>3. \A m \in Nat : Upto(entries, first, part[m], m) BY <1>1
<1>4. \A n \in Nat : at[n] = After(entries, first, at, n)
  <2> SUFFICES ASSUME NEW n \in Nat PROVE at[n] = After(entries, first, at, n) OBVIOUS
  <2>1. part[n][n] = After(entries, first, part[n], n)
    <3>1. Upto(entries, first, part[n], n) /\ n \in 0..n BY <1>3
    <3> HIDE DEF part
    <3> QED BY <3>1 DEF Upto
  <2>2. ASSUME n # 0 PROVE part[n][n - 1] = part[n - 1][n - 1]
    <3>1. n - 1 \in One BY <1>2, <2>2
    <3>2. Upto(entries, first, part[n], n) /\ Upto(entries, first, part[n - 1], n - 1)
      BY <1>3, <2>2
    <3>3. n - 1 \in Nat /\ n - 1 <= n /\ n - 1 <= n - 1 BY <2>2
    <3> HIDE DEF part
    <3> QED BY <3>1, <3>2, <3>3
  <2>3. ASSUME n # 0 PROVE n - 1 \in Nat BY <2>3
  <2> HIDE DEF part
  <2> QED BY <2>1, <2>2, <2>3 DEF After
<1>5. at = [n \in Nat |-> After(entries, first, at, n)]
  <2>1. at = [n \in Nat |-> at[n]] OBVIOUS
  <2> HIDE DEF at
  <2> QED BY <1>4, <2>1
<1> HIDE DEF at
<1>6. \E f : f = [n \in Nat |-> After(entries, first, f, n)] BY <1>5
<1> QED BY <1>6 DEF NextAt, After

(* Numbers never go back, a log that has entries uses one, and after a log *)
(* the next one is larger than the log's own.                              *)
LEMMA NextAtGrows ==
  ASSUME NEW entries, NEW first \in Nat
  PROVE  /\ NextAt(entries, first) \in [Nat -> Nat]
         /\ \A n \in Nat :
              LET at == NextAt(entries, first) IN
              /\ at[n + 1] >= at[n] /\ at[n] >= first
              /\ n \in DOMAIN entries => at[n + 1] >= n + 1
              /\ n \in DOMAIN entries /\ entries[n] # {} => at[n + 1] > at[n]
<1> DEFINE at == NextAt(entries, first)
           T == {n \in Nat : at[n] \in Nat /\ at[n] >= first}
<1>1. at = [n \in Nat |-> After(entries, first, at, n)] BY NextAtExists
<1> HIDE DEF at
<1>2. ASSUME NEW n \in Nat, at[n] \in Nat
      PROVE  /\ at[n + 1] \in Nat /\ at[n + 1] >= at[n]
             /\ n \in DOMAIN entries => at[n + 1] >= n + 1
             /\ n \in DOMAIN entries /\ entries[n] # {} => at[n + 1] > at[n]
  <2>1. n + 1 # 0 /\ (n + 1) - 1 = n /\ n + 1 \in Nat OBVIOUS
  <2>2. at[n + 1] = IF n \notin DOMAIN entries THEN at[n]
                    ELSE Max({n + 1, at[n] + IF entries[n] = {} THEN 0 ELSE 1})
    BY <1>1, <2>1 DEF After
  <2> DEFINE b == at[n] + IF entries[n] = {} THEN 0 ELSE 1
  <2>3. b \in Nat /\ b >= at[n] /\ (entries[n] # {} => b > at[n]) BY <1>2
  <2>4. at[n + 1] = IF n \notin DOMAIN entries THEN at[n] ELSE Max({n + 1, b}) BY <2>2
  <2> HIDE DEF b
  <2>5. Max({n + 1, b}) \in {n + 1, b} /\ Max({n + 1, b}) >= n + 1 /\ Max({n + 1, b}) >= b
    BY <2>1, <2>3, MaxOfTwo
  <2> QED BY <1>2, <2>3, <2>4, <2>5
<1>3. T = Nat
  <2>1. 0 \in T
    <3>1. at[0] = first BY <1>1 DEF After
    <3> QED BY <3>1
  <2>2. ASSUME NEW m \in T PROVE m + 1 \in T BY <1>2
  <2>3. T \in SUBSET Nat OBVIOUS
  <2> HIDE DEF T
  <2> QED BY <2>1, <2>2, <2>3, AllNumbers
<1>4. \A n \in Nat : at[n] \in Nat /\ at[n] >= first BY <1>3
<1>5. at \in [Nat -> Nat]
  <2>1. DOMAIN at = Nat BY <1>1
  <2>2. at = [n \in DOMAIN at |-> at[n]] BY <1>1
  <2> QED BY <1>4, <2>1, <2>2
<1> QED BY <1>2, <1>4, <1>5 DEF at

-----------------------------------------------------------------------------
(* 2. No file that may still be read is deleted.                           *)

(* What a MANIFEST says, whole or with half a record at its end.           *)
Parts == {"version", "log", "next", "last", "torn"}
Like(m, n) == m.version = n.version /\ m.log = n.log /\ m.next = n.next /\ m.last = n.last
Said == \A m \in manifest' : \E n \in OnDisk : Like(m, n)

(* Half a record leaves a MANIFEST that says the same.                     *)
LEMMA TornLike ==
  ASSUME NEW m, DOMAIN m = Parts, NEW t
  PROVE  /\ Like([m EXCEPT !.torn = t], m) /\ DOMAIN [m EXCEPT !.torn = t] = Parts
         /\ [m EXCEPT !.torn = t].torn = t
BY DEF Like, Parts

(* An edit that is applied leaves nothing torn.                            *)
LEMMA AppliedParts ==
  ASSUME NEW m
  PROVE  DOMAIN Apply(edit, m) = Parts /\ ~ Apply(edit, m).torn
BY DEF Apply, Parts

(* The numbers in use are numbers, and there are finitely many logs.       *)
NumbersOK ==
  /\ next \in Nat /\ DOMAIN logs \subseteq Nat /\ IsFiniteSet(DOMAIN logs)
  /\ \A m \in manifest : m.next \in Nat /\ DOMAIN m = Parts
  /\ edit = NoEdit \/ edit.kind = "edit"
  /\ edit.kind = "edit" => edit.next \in Nat

Quiet == flush = Idle /\ merge = Idle /\ \A r \in Readers : reading[r] = Idle

Sole(v) == \E m \in manifest : manifest = {m} /\ m.version = v /\ ~ m.torn

(* Nobody reads, flushes or merges while the database is opened; and the   *)
(* MANIFEST says what the current version is unless an edit has failed.    *)
PhasesOK ==
  /\ phase \in {"down", "recovered", "installed", "up"}
  /\ DOMAIN reading = Readers
  /\ phase # "up" => Quiet
  /\ phase = "recovered" => edit.kind = "edit" /\ Sole(current)
  /\ phase = "installed" => edit = NoEdit /\ Sole(current)
  /\ phase = "up" => bgError \/ Sole(current)

(* A flush runs alone or in the middle of a merge that has no edit, and    *)
(* its own edit only adds its table.                                       *)
FlushOK ==
  /\ flush \in {Idle} \cup [stage : {"building", "logging"}, number : Nat]
  /\ flush.stage # "none" => merge.stage \in {"none", "reading", "writing"} /\ flush.number < next
  /\ flush.stage = "logging" =>
       /\ edit.kind = "edit" /\ edit.drop = {} /\ edit.add = {flush.number}
       /\ flush.number \in DOMAIN tables

(* The table a merge writes is among pending_outputs_ until its edit names *)
(* it, and a flush meanwhile takes another number.                         *)
MergeOK ==
  /\ merge.stage \in {"none", "reading", "writing", "logging", "moving"}
  /\ merge.stage # "none" => {"stage", "version", "number"} \subseteq DOMAIN merge
  /\ merge.stage \in {"writing", "logging"} =>
       merge.number \in DOMAIN tables /\ merge.number \in Nat /\ merge.number < next
  /\ merge.stage = "writing" => merge.number \in outputs
  /\ merge.stage = "writing" /\ flush.stage # "none" => merge.number # flush.number
  /\ merge.stage \in {"logging", "moving"} =>
       edit.kind = "edit" /\ edit.add \subseteq DOMAIN tables

(* LiveFilesKept, one reference at a time.                                 *)
EditThere == \A m \in manifest : ((m.version.tables \ edit.drop) \cup edit.add) \subseteq DOMAIN tables
FilesThere ==
  /\ \A m \in manifest : m.version.tables \subseteq DOMAIN tables
  /\ edit.kind = "edit" => EditThere
  /\ current.tables \subseteq DOMAIN tables
  /\ \A r \in Readers : reading[r].stage # "none" => reading[r].version.tables \subseteq DOMAIN tables
  /\ merge.stage # "none" => merge.version.tables \subseteq DOMAIN tables

FilesInv == NumbersOK /\ PhasesOK /\ FlushOK /\ MergeOK /\ FilesThere

(* FilesInv is stronger than LiveFilesKept.                                *)
LEMMA FilesThereMeans ==
  ASSUME FilesInv
  PROVE  LiveFilesKept
<1>1. ASSUME NEW m \in OnDisk PROVE m.version.tables \subseteq DOMAIN tables
  <2>1. CASE m \in manifest BY <2>1 DEF FilesInv, FilesThere
  <2>2. CASE m \notin manifest
    <3>1. edit.kind = "edit" /\ m \in Edited(edit)
      BY <1>1, <2>2 DEF OnDisk, FilesInv, NumbersOK
    <3>2. PICK n \in manifest : m = Apply(edit, n) BY <3>1 DEF Edited
    <3>3. m.version.tables = (n.version.tables \ edit.drop) \cup edit.add
      BY <3>2 DEF Apply, Version
    <3> QED BY <3>1, <3>3 DEF FilesInv, FilesThere, EditThere
  <2> QED BY <2>1, <2>2
<1>2. Held \subseteq DOMAIN tables BY DEF Held, FilesInv, FilesThere
<1>3. Merging \subseteq DOMAIN tables BY DEF Merging, FilesInv, FilesThere
<1>4. current.tables \subseteq DOMAIN tables BY DEF FilesInv, FilesThere
<1>5. UNION {m.version.tables : m \in OnDisk} \subseteq DOMAIN tables BY <1>1
<1> DEFINE named == UNION {m.version.tables : m \in OnDisk}
<1>6. named \subseteq DOMAIN tables BY <1>5
<1> HIDE DEF named
<1>7. (named \cup current.tables \cup Held \cup Merging) \subseteq DOMAIN tables
  BY <1>2, <1>3, <1>4, <1>6
<1> QED BY <1>7 DEF LiveFilesKept, named

(* Steps that do not touch the files, the versions or the background       *)
(* thread.                                                                 *)
Aside ==
  /\ UNCHANGED <<tables, manifest, edit, phase, current, reading, flush, merge, outputs, next>>
  /\ DOMAIN logs' = DOMAIN logs
  /\ bgError => bgError'

(* Steps beside the files.                                                 *)
LEMMA AsideKeeps ==
  ASSUME FilesInv, Aside
  PROVE  FilesInv'
<1>1. NumbersOK' BY DEF FilesInv, Aside, NumbersOK
<1>2. PhasesOK' BY DEF FilesInv, Aside, PhasesOK, Quiet, Sole
<1>3. FlushOK' BY DEF FilesInv, Aside, FlushOK
<1>4. MergeOK' BY DEF FilesInv, Aside, MergeOK
<1>5. FilesThere' BY DEF FilesInv, Aside, FilesThere, EditThere
<1> QED BY <1>1, <1>2, <1>3, <1>4, <1>5 DEF FilesInv

(* A new log beside them.                                                  *)
LEMMA LogAdded ==
  ASSUME FilesInv, next' \in Nat, next' >= next,
         NEW n \in Nat, DOMAIN logs' = {n} \cup DOMAIN logs,
         UNCHANGED <<tables, manifest, edit, phase, current, reading, flush, merge, outputs, bgError>>
  PROVE  FilesInv'
<1>1. NumbersOK'
  <2>1. IsFiniteSet({n} \cup DOMAIN logs) BY FS_AddElement DEF FilesInv, NumbersOK
  <2> QED BY <2>1 DEF FilesInv, NumbersOK
<1>2. PhasesOK' BY DEF FilesInv, PhasesOK, Quiet, Sole
<1>3. FlushOK' BY DEF FilesInv, FlushOK, NumbersOK, Idle
<1>4. MergeOK' BY DEF FilesInv, MergeOK, NumbersOK
<1>5. FilesThere' BY DEF FilesInv, FilesThere, EditThere
<1> QED BY <1>1, <1>2, <1>3, <1>4, <1>5 DEF FilesInv

(* There are no files at first.                                            *)
LEMMA InitFiles == Init => FilesInv
<1> SUFFICES ASSUME Init PROVE FilesInv OBVIOUS
<1>1. NumbersOK BY FS_EmptySet DEF Init, NumbersOK, NoEdit, Parts
<1>2. PhasesOK BY DEF Init, PhasesOK, Quiet
<1>3. FlushOK BY DEF Init, FlushOK, Idle
<1>4. MergeOK BY DEF Init, MergeOK, Idle
<1>5. FilesThere BY DEF Init, FilesThere, EditThere, Idle, NoEdit, Empty, Version
<1> QED BY <1>1, <1>2, <1>3, <1>4, <1>5 DEF FilesInv

(* Writers and snapshots add logs, and delete nothing.                     *)
LEMMA WritingFiles ==
  ASSUME FilesInv, Writing \/ GetSnapshot \/ ReleaseSnapshot
                   \/ \E w \in Writers, b \in Batches : Ask(w, b)
  PROVE  FilesInv'
<1> USE DEF disk, versions, memory, background, clients, history, bounds, WithoutMutex
<1>1. CASE \E w \in Writers, b \in Batches : Ask(w, b)
  <2>1. Aside BY <1>1 DEF Ask, Aside
  <2> QED BY <2>1, AsideKeeps
<1>2. CASE Refuse
  <2>1. Aside BY <1>2 DEF Refuse, Aside
  <2> QED BY <2>1, AsideKeeps
<1>3. CASE Sleep
  <2>1. Aside BY <1>3 DEF Sleep, Aside
  <2> QED BY <2>1, AsideKeeps
<1>4. CASE NoNewLog
  <2>1. Aside BY <1>4 DEF NoNewLog, Aside
  <2> QED BY <2>1, AsideKeeps
<1>5. CASE Lead
  <2>1. UNCHANGED <<tables, manifest, edit, phase, current, reading, flush, merge, outputs, bgError>>
    BY <1>5 DEF Lead
  <2>2. CASE UNCHANGED <<logs, memory, next, scheduled>>
    <3>1. Aside BY <2>1, <2>2 DEF Aside
    <3> QED BY <3>1, AsideKeeps
  <2>3. CASE SwitchMemTable
    <3>1. DOMAIN logs' = {next} \cup DOMAIN logs BY <2>3 DEF SwitchMemTable, With
    <3>2. next \in Nat /\ next' = next + 1 BY <2>3 DEF SwitchMemTable, FilesInv, NumbersOK
    <3>3. next' \in Nat /\ next' >= next BY <3>2
    <3> QED BY <2>1, <3>1, <3>2, <3>3, LogAdded
  <2> QED BY <1>5, <2>2, <2>3 DEF Lead
<1>6. CASE AddRecord
  <2>1. Aside BY <1>6 DEF AddRecord, Aside
  <2> QED BY <2>1, AsideKeeps
<1>7. CASE AddRecordFails
  <2>1. Aside BY <1>7 DEF AddRecordFails, Aside
  <2> QED BY <2>1, AsideKeeps
<1>8. CASE Sync
  <2>1. Aside BY <1>8 DEF Sync, Aside
  <2> QED BY <2>1, AsideKeeps
<1>9. CASE SyncFails
  <2>1. Aside BY <1>9 DEF SyncFails, Aside
  <2> QED BY <2>1, AsideKeeps
<1>10. CASE Insert
  <2>1. Aside BY <1>10 DEF Insert, Aside
  <2> QED BY <2>1, AsideKeeps
<1>11. CASE Finish
  <2>1. Aside BY <1>11 DEF Finish, SetLastSequence, Aside
  <2> QED BY <2>1, AsideKeeps
<1>12. CASE GetSnapshot
  <2>1. Aside BY <1>12 DEF GetSnapshot, Aside
  <2> QED BY <2>1, AsideKeeps
<1>13. CASE ReleaseSnapshot
  <2>1. Aside BY <1>13 DEF ReleaseSnapshot, Aside
  <2> QED BY <2>1, AsideKeeps
<1> QED BY <1>1, <1>2, <1>3, <1>4, <1>5, <1>6, <1>7, <1>8, <1>9, <1>10, <1>11, <1>12, <1>13
  DEF Writing

(* Opening the database again.                                             *)
(* The numbers that recovery gives to the tables it writes and to the new  *)
(* log come after those of everything the MANIFEST names.                  *)
LEMMA NewNumbers ==
  ASSUME FilesInv, NEW m \in manifest, NEW entries, DOMAIN entries \subseteq DOMAIN logs
  PROVE  LET number == NextAt(entries, m.next + 1)
             free == Max({m.next + 1} \cup {number[n + 1] : n \in DOMAIN entries})
         IN /\ free \in Nat /\ m.next < free /\ \A n \in DOMAIN entries : n < free
            /\ \A n \in DOMAIN entries : entries[n] # {} =>
                 number[n] \in Nat /\ m.next < number[n] /\ number[n] < free
<1> DEFINE number == NextAt(entries, m.next + 1)
           S == DOMAIN entries
           nexts == {number[n + 1] : n \in S}
           free == Max({m.next + 1} \cup nexts)
<1>1. S \subseteq Nat /\ IsFiniteSet(S) BY FS_Subset DEF FilesInv, NumbersOK
<1>2. m.next \in Nat BY DEF FilesInv, NumbersOK
<1>3. /\ number \in [Nat -> Nat]
      /\ \A n \in Nat : number[n] >= m.next + 1
      /\ \A n \in S : entries[n] # {} => number[n + 1] > number[n]
      /\ \A n \in S : number[n + 1] >= n + 1
  <2>1. m.next + 1 \in Nat BY <1>2
  <2>2. NextAt(entries, m.next + 1) \in [Nat -> Nat] BY <2>1, NextAtGrows
  <2>3. \A n \in Nat : NextAt(entries, m.next + 1)[n] >= m.next + 1 BY <2>1, NextAtGrows
  <2>4. \A n \in Nat : n \in DOMAIN entries /\ entries[n] # {} =>
          NextAt(entries, m.next + 1)[n + 1] > NextAt(entries, m.next + 1)[n]
    BY <2>1, NextAtGrows
  <2>5. \A n \in Nat : n \in DOMAIN entries => NextAt(entries, m.next + 1)[n + 1] >= n + 1
    BY <2>1, NextAtGrows
  <2> QED BY <1>1, <2>2, <2>3, <2>4, <2>5
<1> HIDE DEF number
<1>4. IsFiniteSet(nexts)
  <2> DEFINE f == [n \in S |-> number[n + 1]]
  <2>1. f \in Surjection(S, nexts) BY DEF Surjection
  <2> HIDE DEF f, S, nexts
  <2> QED BY <1>1, <2>1, FS_Surjection
<1>5. nexts \subseteq Nat /\ \A n \in S : number[n + 1] \in nexts BY <1>1, <1>3
<1> HIDE DEF nexts
<1>6. IsFiniteSet({m.next + 1} \cup nexts) BY <1>4, FS_AddElement
<1>7. ({m.next + 1} \cup nexts) \in SUBSET Nat /\ ({m.next + 1} \cup nexts) # {}
  <2>1. m.next + 1 \in Nat BY <1>2
  <2>2. {m.next + 1} \subseteq Nat BY <2>1
  <2> QED BY <1>5, <2>2
<1>8. free \in Nat /\ \A y \in {m.next + 1} \cup nexts : free >= y BY <1>6, <1>7, MaxOfSet
<1>9. m.next < free BY <1>2, <1>8
<1>10. ASSUME NEW n \in S, entries[n] # {}
       PROVE  number[n] \in Nat /\ m.next < number[n] /\ number[n] < free
  <2>1. n \in Nat /\ n + 1 \in Nat BY <1>1
  <2>2. number[n] \in Nat /\ number[n + 1] \in Nat /\ number[n] >= m.next + 1 BY <1>3, <2>1
  <2>3. number[n + 1] > number[n] BY <1>3, <1>10
  <2>4. free >= number[n + 1] BY <1>5, <1>8
  <2> QED BY <1>2, <1>8, <2>2, <2>3, <2>4
<1>11. ASSUME NEW n \in S PROVE n < free
  <2>1. n \in Nat /\ number[n + 1] \in Nat BY <1>1, <1>3
  <2>2. number[n + 1] >= n + 1 /\ free >= number[n + 1] BY <1>3, <1>5, <1>8
  <2> QED BY <1>8, <2>1, <2>2
<1> QED BY <1>8, <1>9, <1>10, <1>11 DEF number, nexts

(* Recovery writes tables with numbers of their own.                       *)
LEMMA RecoverFiles ==
  ASSUME FilesInv, Recover
  PROVE  FilesInv'
<1> USE DEF disk, versions, memory, background, clients, history, bounds
<1>0. PICK m \in manifest :
        m.version.tables \subseteq DOMAIN tables /\ \E got : RecoverFrom(m, got)
  BY DEF Recover
<1>1. PICK got : RecoverFrom(m, got) BY <1>0
<1> DEFINE entries == [n \in LogsFrom(m.log) |-> EntriesIn(got[n])]
           number == NextAt(entries, m.next + 1)
           whole == {n \in DOMAIN entries : entries[n] # {}}
           new == {number[n] : n \in whole}
           free == Max({m.next + 1} \cup {number[n + 1] : n \in DOMAIN entries})
<1>2. /\ DOMAIN tables' = new \cup DOMAIN tables /\ DOMAIN logs' = {free} \cup DOMAIN logs
      /\ next' = free + 1 /\ manifest' = {[m EXCEPT !.torn = FALSE]} /\ current' = m.version
      /\ edit'.kind = "edit" /\ edit'.drop = {} /\ edit'.add = new /\ edit'.next = free + 1
  BY <1>1 DEF RecoverFrom, With
<1>3. /\ phase = "down" /\ phase' = "recovered"
      /\ UNCHANGED <<flush, merge, reading, outputs>>
  BY DEF Recover
<1>4. Quiet /\ DOMAIN reading = Readers BY <1>3 DEF FilesInv, PhasesOK
<1>5. free \in Nat
  <2>1. DOMAIN entries \subseteq DOMAIN logs BY DEF LogsFrom
  <2> HIDE DEF entries
  <2> QED BY <2>1, NewNumbers
<1> HIDE DEF entries, number, whole, new, free
<1>11. PICK k : k = [m EXCEPT !.torn = FALSE] OBVIOUS
<1>12. Like(k, m) /\ DOMAIN k = Parts /\ ~ k.torn
  BY <1>11, TornLike DEF FilesInv, NumbersOK
<1>13. manifest' = {k} /\ k.version = m.version /\ k.next \in Nat
  BY <1>2, <1>11, <1>12 DEF Like, FilesInv, NumbersOK
<1>6. NumbersOK'
  <2>1. IsFiniteSet({free} \cup DOMAIN logs) BY FS_AddElement DEF FilesInv, NumbersOK
  <2> QED BY <1>2, <1>5, <1>12, <1>13, <2>1 DEF FilesInv, NumbersOK
<1>7. PhasesOK' BY <1>2, <1>3, <1>4, <1>12, <1>13 DEF PhasesOK, Quiet, Sole
<1>8. FlushOK' BY <1>3, <1>4 DEF FlushOK, Quiet, Idle
<1>9. MergeOK' BY <1>3, <1>4 DEF MergeOK, Quiet, Idle
<1>10. FilesThere' BY <1>0, <1>2, <1>3, <1>4, <1>13 DEF FilesThere, EditThere, Quiet, Idle
<1> QED BY <1>6, <1>7, <1>8, <1>9, <1>10 DEF FilesInv

(* The MANIFEST after a write of the edit: only what it could have said.   *)
LEMMA ManifestWritten ==
  ASSUME FilesInv, edit.kind = "edit", Logged \/ NotLogged \/ UNCHANGED manifest
  PROVE  /\ \A m \in manifest' :
              m.version.tables \subseteq DOMAIN tables /\ m.next \in Nat /\ DOMAIN m = Parts
         /\ \A m \in manifest :
              Logged /\ manifest = {m} /\ ~ m.torn => manifest' = {Apply(edit, m)}
         /\ Said
<1>1. \A m \in Edited(edit) :
        m.version.tables \subseteq DOMAIN tables /\ m.next \in Nat /\ DOMAIN m = Parts
  BY DEF Edited, Apply, Version, Parts, FilesInv, FilesThere, EditThere, NumbersOK
<1>2. \A m \in manifest :
        m.version.tables \subseteq DOMAIN tables /\ m.next \in Nat /\ DOMAIN m = Parts
  BY DEF FilesInv, FilesThere, NumbersOK
<1>3. OnDisk = manifest \cup Edited(edit) BY DEF OnDisk, NoEdit
<1>4. ASSUME NEW m \in manifest'
      PROVE  DOMAIN m = Parts /\ \E n \in OnDisk : Like(m, n)
  <2>1. CASE m \in OnDisk BY <1>1, <1>2, <1>3, <2>1 DEF Like
  <2>2. CASE m \notin OnDisk
    <3>1. PICK n \in manifest : m = [n EXCEPT !.torn = TRUE]
      BY <1>3, <2>2 DEF Logged, NotLogged, Torn
    <3>2. Like(m, n) /\ DOMAIN m = Parts BY <1>2, <3>1, TornLike
    <3> QED BY <1>3, <3>2
  <2> QED BY <2>1, <2>2
<1>5. \A m \in manifest' : m.version.tables \subseteq DOMAIN tables /\ m.next \in Nat
  BY <1>1, <1>2, <1>3, <1>4 DEF Like
<1>6. ASSUME NEW m \in manifest, Logged, manifest = {m}, ~ m.torn
      PROVE  manifest' = {Apply(edit, m)}
  <2>1. Torn = {} BY <1>6 DEF Torn
  <2> QED BY <1>6, <2>1 DEF Logged, Edited
<1> QED BY <1>4, <1>5, <1>6 DEF Said

(* The MANIFEST of a database that opens says one thing.                   *)
LEMMA InstallFiles ==
  ASSUME FilesInv, Install
  PROVE  FilesInv'
<1> USE DEF disk, versions, memory, background, clients, history, bounds
<1>1. /\ phase = "recovered" /\ phase' = "installed" /\ Logged /\ edit' = NoEdit
      /\ current' = Apply(edit, CHOOSE m \in manifest : TRUE).version
      /\ UNCHANGED <<logs, tables, next, flush, merge, reading, outputs, bgError>>
  BY DEF Install
<1>2. PICK m \in manifest : manifest = {m} /\ ~ m.torn /\ edit.kind = "edit"
  BY <1>1 DEF FilesInv, PhasesOK, Sole
<1>3. manifest' = {Apply(edit, m)} BY <1>1, <1>2, ManifestWritten
<1>4. \A n \in manifest' :
        n.version.tables \subseteq DOMAIN tables /\ n.next \in Nat /\ DOMAIN n = Parts
  BY <1>1, <1>2, ManifestWritten
<1>5. current' = Apply(edit, m).version BY <1>1, <1>2
<1>6. Quiet /\ DOMAIN reading = Readers BY <1>1 DEF FilesInv, PhasesOK
<1>7. NumbersOK' BY <1>1, <1>4 DEF FilesInv, NumbersOK, NoEdit
<1>8. PhasesOK' BY <1>1, <1>3, <1>5, <1>6, AppliedParts DEF PhasesOK, Quiet, Sole
<1>9. FlushOK' BY <1>1, <1>6 DEF FlushOK, Quiet, Idle
<1>10. MergeOK' BY <1>1, <1>6 DEF MergeOK, Quiet, Idle
<1>12. current'.tables \subseteq DOMAIN tables BY <1>3, <1>4, <1>5
<1>11. FilesThere' BY <1>1, <1>4, <1>6, <1>12 DEF FilesThere, Quiet, Idle, NoEdit
<1> QED BY <1>7, <1>8, <1>9, <1>10, <1>11 DEF FilesInv

(* DeleteObsoleteFiles, when it opens: nothing that is named is deleted.   *)
LEMMA ReadyFiles ==
  ASSUME FilesInv, Ready
  PROVE  FilesInv'
<1> USE DEF disk, versions, memory, background, clients, history, bounds
<1>1. /\ phase = "installed" /\ phase' = "up"
      /\ tables' = [n \in DOMAIN tables \cap (outputs \cup current.tables) |-> tables[n]]
      /\ DOMAIN logs' \subseteq DOMAIN logs
      /\ UNCHANGED <<manifest, edit, current, next, bgError, outputs, flush, merge, reading>>
  BY DEF Ready, Sweep
<1>2. Quiet /\ DOMAIN reading = Readers /\ edit = NoEdit /\ Sole(current)
  BY <1>1 DEF FilesInv, PhasesOK
<1>3. NumbersOK' BY <1>1, FS_Subset DEF FilesInv, NumbersOK
<1>4. PhasesOK' BY <1>1, <1>2 DEF PhasesOK, Sole
<1>5. FlushOK' BY <1>1, <1>2 DEF FlushOK, Quiet, Idle
<1>6. MergeOK' BY <1>1, <1>2 DEF MergeOK, Quiet, Idle
<1>7. FilesThere' BY <1>1, <1>2 DEF FilesInv, FilesThere, Quiet, Idle, NoEdit, Sole
<1> QED BY <1>3, <1>4, <1>5, <1>6, <1>7 DEF FilesInv

(* A crash leaves the files of all the MANIFEST may say.                   *)
LEMMA CrashFiles ==
  ASSUME FilesInv, NEW c \in CrashKinds, Crash(c)
  PROVE  FilesInv'
<1>1. PICK m \in OnDisk : manifest' = {m} BY DEF Crash
<1>2. m.version.tables \subseteq DOMAIN tables /\ m.next \in Nat /\ DOMAIN m = Parts
  <2>1. CASE m \in manifest BY <2>1 DEF FilesInv, FilesThere, NumbersOK
  <2>2. CASE m \notin manifest
    <3>1. edit.kind = "edit" /\ m \in Edited(edit)
      BY <1>1, <2>2 DEF OnDisk, FilesInv, NumbersOK
    <3> QED BY <3>1 DEF Edited, Apply, Version, Parts, FilesInv, FilesThere, EditThere, NumbersOK
  <2> QED BY <2>1, <2>2
<1>3. /\ DOMAIN logs' = DOMAIN logs /\ tables' = tables /\ phase' = "down" /\ edit' = NoEdit
      /\ current' = Empty /\ next' = 2 /\ flush' = Idle /\ merge' = Idle
      /\ reading' = [r \in Readers |-> Idle]
  BY DEF Crash
<1>4. NumbersOK' BY <1>1, <1>2, <1>3 DEF FilesInv, NumbersOK, NoEdit
<1>5. PhasesOK' BY <1>3 DEF PhasesOK, Quiet
<1>6. FlushOK' BY <1>3 DEF FlushOK, Idle
<1>7. MergeOK' BY <1>3 DEF MergeOK, Idle
<1>8. FilesThere' BY <1>1, <1>2, <1>3 DEF FilesThere, EditThere, Idle, NoEdit, Empty, Version
<1> QED BY <1>4, <1>5, <1>6, <1>7, <1>8 DEF FilesInv

(* Readers.                                                                *)
LEMMA GettingFiles ==
  ASSUME FilesInv,
         NEW r \in Readers,
         Getting(r) \/ \E k \in Keys, seq \in 0..last : GetBegins(r, k, seq)
  PROVE  FilesInv'
<1> USE DEF disk, versions, memory, background, clients, history, bounds
<1>1. UNCHANGED <<logs, tables, manifest, edit, phase, current, flush, merge, outputs, next, bgError>>
  BY DEF Getting, GetInMems, GetInTables, GetEnds, GetBegins
<1>2. phase = "up"
  <2>1. CASE phase = "up" BY <2>1
  <2>2. CASE phase # "up"
    <3>1. reading[r].stage = "none" BY <2>2 DEF FilesInv, PhasesOK, Quiet, Idle
    <3> QED BY <2>2, <3>1 DEF Getting, GetInMems, GetInTables, GetEnds, GetBegins
  <2> QED BY <2>1, <2>2
<1>3. DOMAIN reading' = Readers
  BY DEF Getting, GetInMems, GetInTables, GetEnds, GetBegins, FilesInv, PhasesOK
<1>4. \A q \in Readers : reading'[q].stage # "none" => reading'[q].version.tables \subseteq DOMAIN tables
  <2>1. \A q \in Readers \ {r} : reading'[q] = reading[q]
    BY DEF Getting, GetInMems, GetInTables, GetEnds, GetBegins, FilesInv, PhasesOK
  <2>2. \/ reading'[r].version = reading[r].version /\ reading[r].stage # "none"
        \/ reading'[r].version = current
        \/ reading'[r].stage = "none"
    <3>0. DOMAIN reading = Readers BY DEF FilesInv, PhasesOK
    <3>1. CASE GetInMems(r)
      <4>1. reading[r].stage = "mems"
            /\ \/ reading' = [reading EXCEPT ![r] = [reading[r] EXCEPT !.stage = "tables"]]
               \/ \E v : reading' = [reading EXCEPT ![r] =
                                      [reading[r] EXCEPT !.stage = "done", !.got = v]]
        BY <3>1 DEF GetInMems
      <4>2. CASE reading' = [reading EXCEPT ![r] = [reading[r] EXCEPT !.stage = "tables"]]
        BY <3>0, <4>1, <4>2
      <4>3. CASE \E v : reading' = [reading EXCEPT ![r] =
                                     [reading[r] EXCEPT !.stage = "done", !.got = v]]
        <5>1. PICK v : reading' = [reading EXCEPT ![r] =
                                     [reading[r] EXCEPT !.stage = "done", !.got = v]]
          BY <4>3
        <5>2. reading'[r] = [reading[r] EXCEPT !.stage = "done", !.got = v] BY <3>0, <5>1
        <5>3. reading'[r].version = reading[r].version
          <6>1. PICK get : get = reading[r] OBVIOUS
          <6>2. [get EXCEPT !.stage = "done", !.got = v].version = get.version OBVIOUS
          <6> QED BY <5>2, <6>1, <6>2
        <5> QED BY <4>1, <5>3
      <4> QED BY <4>1, <4>2, <4>3
    <3>2. CASE GetInTables(r)
      <4>1. reading[r].stage = "tables"
            /\ \E v : reading' = [reading EXCEPT ![r] =
                                      [reading[r] EXCEPT !.stage = "seeked", !.got = v]]
        BY <3>2 DEF GetInTables
      <4> QED BY <3>0, <4>1
    <3>3. CASE GetEnds(r) BY <3>0, <3>3 DEF GetEnds, Idle
    <3>4. CASE \E k \in Keys, seq \in 0..last : GetBegins(r, k, seq)
      BY <3>0, <3>4 DEF GetBegins
    <3> QED BY <3>1, <3>2, <3>3, <3>4 DEF Getting
  <2> QED BY <2>1, <2>2 DEF FilesInv, FilesThere
<1>5. NumbersOK' BY <1>1 DEF FilesInv, NumbersOK
<1>6. PhasesOK' BY <1>1, <1>2, <1>3 DEF FilesInv, PhasesOK, Sole
<1>7. FlushOK' BY <1>1 DEF FilesInv, FlushOK
<1>8. MergeOK' BY <1>1 DEF FilesInv, MergeOK
<1>9. FilesThere' BY <1>1, <1>4 DEF FilesInv, FilesThere, EditThere
<1> QED BY <1>5, <1>6, <1>7, <1>8, <1>9 DEF FilesInv

(* The memtable's table.                                                   *)
LEMMA FlushFiles ==
  ASSUME FilesInv, FlushBegins \/ FlushBuilt
  PROVE  FilesInv'
<1> USE DEF disk, versions, memory, background, clients, history, bounds
<1>0. phase = "up"
  <2>1. CASE phase = "up" BY <2>1
  <2>2. CASE phase # "up"
    BY <2>2 DEF FilesInv, PhasesOK, Quiet, Idle, FlushBegins, FlushBuilt, Called
  <2> QED BY <2>1, <2>2
<1>1. CASE FlushBegins
  <2>1. /\ flush.stage = "none" /\ merge.stage \in {"none", "reading", "writing"}
        /\ flush' = [stage |-> "building", number |-> next]
        /\ outputs' = outputs \cup {next} /\ next' = next + 1
        /\ UNCHANGED <<logs, tables, manifest, edit, phase, current, merge, reading, bgError>>
    BY <1>1 DEF FlushBegins, Called
  <2>2. NumbersOK' BY <2>1 DEF FilesInv, NumbersOK
  <2>3. PhasesOK' BY <1>0, <2>1 DEF FilesInv, PhasesOK, Sole
  <2>4. FlushOK' BY <2>1 DEF FilesInv, NumbersOK, FlushOK
  <2>5. MergeOK' BY <2>1 DEF FilesInv, NumbersOK, MergeOK
  <2>6. FilesThere' BY <2>1 DEF FilesInv, FilesThere, EditThere
  <2> QED BY <2>2, <2>3, <2>4, <2>5, <2>6 DEF FilesInv
<1>2. CASE FlushBuilt
  <2>1. /\ flush.stage = "building" /\ DOMAIN tables' = {flush.number} \cup DOMAIN tables
        /\ outputs' = outputs \ {flush.number}
        /\ edit'.kind = "edit" /\ edit'.drop = {} /\ edit'.add = {flush.number} /\ edit'.next = next
        /\ flush' = [flush EXCEPT !.stage = "logging"]
        /\ UNCHANGED <<logs, manifest, phase, current, next, merge, reading, bgError>>
    BY <1>2 DEF FlushBuilt, With, LogEdit
  <2>2. /\ flush'.number = flush.number /\ flush'.stage = "logging"
        /\ flush' \in [stage : {"building", "logging"}, number : Nat]
    BY <2>1 DEF FilesInv, FlushOK, Idle
  <2>3. NumbersOK' BY <2>1 DEF FilesInv, NumbersOK
  <2>4. PhasesOK' BY <1>0, <2>1 DEF FilesInv, PhasesOK, Sole
  <2>5. FlushOK' BY <2>1, <2>2 DEF FilesInv, FlushOK
  <2>6. MergeOK' BY <2>1, <2>2 DEF FilesInv, FlushOK, MergeOK
  <2>7. FilesThere' BY <2>1 DEF FilesInv, FilesThere, EditThere
  <2> QED BY <2>3, <2>4, <2>5, <2>6, <2>7 DEF FilesInv
<1> QED BY <1>1, <1>2

(* The memtable's edit is written, or fails.                               *)
LEMMA FlushEndsFiles ==
  ASSUME FilesInv, FlushLogged \/ FlushFails
  PROVE  FilesInv'
<1> USE DEF disk, versions, memory, background, clients, history, bounds
<1>0. flush.stage # "none" BY DEF FlushLogged, FlushFails
<1>1. phase = "up" /\ DOMAIN reading = Readers BY <1>0 DEF FilesInv, PhasesOK, Quiet, Idle
<1>2. merge.stage \in {"none", "reading", "writing"} BY <1>0 DEF FilesInv, FlushOK
<1>3. CASE FlushLogged
  <2>1. /\ flush.stage = "logging" /\ Logged /\ edit' = NoEdit /\ flush' = Idle
        /\ current' = Apply(edit, [version |-> current]).version
        /\ UNCHANGED <<phase, next, bgError, outputs, merge, reading>>
    BY <1>3 DEF FlushLogged, Installed
  <2>2. current'.tables = (current.tables \ edit.drop) \cup edit.add
    BY <2>1 DEF Apply, Version
  <2>3. edit.kind = "edit" /\ edit.drop = {} /\ edit.add \subseteq DOMAIN tables
    BY <2>1 DEF FilesInv, FlushOK
  <2>4. \A m \in manifest' :
          m.version.tables \subseteq DOMAIN tables /\ m.next \in Nat /\ DOMAIN m = Parts
    BY <2>1, <2>3, ManifestWritten
  <2>5. current'.tables \subseteq DOMAIN tables BY <2>2, <2>3 DEF FilesInv, FilesThere
  <2>6. bgError \/ Sole(current)' 
    <3> SUFFICES ASSUME ~ bgError PROVE Sole(current)' OBVIOUS
    <3>1. PICK m \in manifest : manifest = {m} /\ m.version = current /\ ~ m.torn
      BY <1>1 DEF FilesInv, PhasesOK, Sole
    <3>2. manifest' = {Apply(edit, m)} BY <2>1, <2>3, <3>1, ManifestWritten
    <3>3. Apply(edit, m).version = current' BY <2>1, <3>1 DEF Apply
    <3> QED BY <3>2, <3>3, AppliedParts DEF Sole
  <2>7. /\ DOMAIN logs' \subseteq DOMAIN logs
        /\ DOMAIN tables' = IF bgError THEN DOMAIN tables
             ELSE DOMAIN tables \cap (outputs \cup (current'.tables \cup Held \cup Merging))
    BY <1>3, <2>1 DEF FlushLogged, Sweep
  <2>8. /\ \A r \in Readers : reading[r].stage # "none" =>
             reading[r].version.tables \subseteq Held \cap DOMAIN tables
        /\ merge.stage # "none" => merge.version.tables \subseteq Merging \cap DOMAIN tables
    BY DEF Held, Merging, FilesInv, FilesThere
  <2>9. NumbersOK' BY <2>1, <2>4, <2>7, FS_Subset DEF FilesInv, NumbersOK, NoEdit
  <2>10. PhasesOK' BY <1>1, <2>1, <2>6 DEF PhasesOK
  <2>11. FlushOK' BY <2>1 DEF FlushOK, Idle
  <2>12. MergeOK' BY <1>2, <2>1, <2>7 DEF FilesInv, MergeOK, Idle
  <2>13. FilesThere'
    <3>1. \A m \in manifest' : m.version.tables \subseteq DOMAIN tables'
      BY <2>4, <2>5, <2>6, <2>7 DEF Sole
    <3>2. current'.tables \subseteq DOMAIN tables' BY <2>5, <2>7
    <3>3. \A r \in Readers : reading[r].stage # "none" =>
             reading[r].version.tables \subseteq DOMAIN tables'
      BY <2>7, <2>8
    <3>4. merge.stage # "none" => merge.version.tables \subseteq DOMAIN tables'
      BY <2>7, <2>8
    <3> QED BY <2>1, <3>1, <3>2, <3>3, <3>4 DEF FilesThere, NoEdit
  <2> QED BY <2>9, <2>10, <2>11, <2>12, <2>13 DEF FilesInv
<1>4. CASE FlushFails
  <2>1. /\ edit' = NoEdit /\ flush' = Idle /\ bgError' = TRUE
        /\ outputs' = outputs \ {flush.number}
        /\ UNCHANGED <<logs, tables, phase, current, next, merge, reading>>
    BY <1>4 DEF FlushFails
  <2>2. \A m \in manifest' :
          m.version.tables \subseteq DOMAIN tables /\ m.next \in Nat /\ DOMAIN m = Parts
    <3>1. CASE flush.stage = "logging"
      <4>1. NotLogged /\ edit.kind = "edit" BY <1>4, <3>1 DEF FlushFails, FilesInv, FlushOK
      <4> QED BY <4>1, ManifestWritten
    <3>2. CASE flush.stage # "logging"
      BY <1>4, <3>2 DEF FlushFails, FilesInv, NumbersOK, FilesThere
    <3> QED BY <3>1, <3>2
  <2>3. NumbersOK' BY <2>1, <2>2 DEF FilesInv, NumbersOK, NoEdit
  <2>4. PhasesOK' BY <1>1, <2>1 DEF PhasesOK
  <2>5. FlushOK' BY <2>1 DEF FlushOK, Idle
  <2>6. MergeOK' BY <1>0, <1>2, <2>1 DEF FilesInv, MergeOK, Idle
  <2>7. FilesThere' BY <2>1, <2>2 DEF FilesInv, FilesThere, NoEdit
  <2> QED BY <2>3, <2>4, <2>5, <2>6, <2>7 DEF FilesInv
<1> QED BY <1>3, <1>4

(* A merge, up to where its edit is written.                               *)
LEMMA MergeFiles ==
  ASSUME FilesInv, NothingToDo \/ TrivialMove \/ MergeBegins \/ OutputOpens \/ OutputWritten
  PROVE  FilesInv'
<1> USE DEF disk, versions, memory, background, clients, history, bounds
<1>1. phase = "up"
  <2>1. CASE NothingToDo \/ TrivialMove \/ MergeBegins
    BY <2>1 DEF NothingToDo, TrivialMove, MergeBegins, Merges, Called
  <2>2. CASE OutputOpens \/ OutputWritten
    BY <2>2 DEF OutputOpens, OutputWritten, FilesInv, PhasesOK, Quiet, Idle
  <2> QED BY <2>1, <2>2
<1>2. CASE NothingToDo
  <2>1. Aside BY <1>2 DEF NothingToDo, CallEnds, Aside
  <2> QED BY <2>1, AsideKeeps
<1>3. CASE TrivialMove
  <2>1. PICK n \in current.tables : LogEdit({n}, {n}, {}, logNumber) BY <1>3 DEF TrivialMove
  <2>2. /\ flush.stage = "none" /\ merge' = [stage |-> "moving", version |-> current, number |-> 0]
        /\ UNCHANGED <<logs, tables, manifest, phase, current, next, bgError, outputs, flush, reading>>
    BY <1>3 DEF TrivialMove, Merges, Called
  <2>3. n \in DOMAIN tables BY DEF FilesInv, FilesThere
  <2>4. edit'.kind = "edit" /\ edit'.drop = {n} /\ edit'.add = {n} /\ edit'.next = next
    BY <2>1 DEF LogEdit
  <2>5. NumbersOK' BY <2>2, <2>4 DEF FilesInv, NumbersOK
  <2>6. PhasesOK' BY <1>1, <2>2 DEF FilesInv, PhasesOK, Sole
  <2>7. FlushOK' BY <2>2 DEF FilesInv, FlushOK
  <2>8. MergeOK' BY <2>2, <2>3, <2>4 DEF MergeOK
  <2>9. FilesThere' BY <2>2, <2>3, <2>4 DEF FilesInv, FilesThere, EditThere
  <2> QED BY <2>5, <2>6, <2>7, <2>8, <2>9 DEF FilesInv
<1>4. CASE MergeBegins
  <2>1. /\ flush.stage = "none" /\ merge'.stage = "reading" /\ merge'.version = current
        /\ {"stage", "version", "number"} \subseteq DOMAIN merge'
        /\ UNCHANGED <<logs, tables, manifest, edit, phase, current, next, bgError, outputs, flush,
                       reading>>
    BY <1>4 DEF MergeBegins, Merges, Called
  <2>2. NumbersOK' BY <2>1 DEF FilesInv, NumbersOK
  <2>3. PhasesOK' BY <1>1, <2>1 DEF FilesInv, PhasesOK, Sole
  <2>4. FlushOK' BY <2>1 DEF FilesInv, FlushOK
  <2>5. MergeOK' BY <2>1 DEF MergeOK
  <2>6. FilesThere' BY <2>1 DEF FilesInv, FilesThere, EditThere
  <2> QED BY <2>2, <2>3, <2>4, <2>5, <2>6 DEF FilesInv
<1>5. CASE OutputOpens
  <2>1. /\ merge.stage = "reading" /\ flush.stage = "none"
        /\ merge' = [merge EXCEPT !.stage = "writing", !.number = next]
        /\ outputs' = outputs \cup {next} /\ next' = next + 1
        /\ DOMAIN tables' = {next} \cup DOMAIN tables
        /\ UNCHANGED <<logs, manifest, edit, phase, current, bgError, flush, reading>>
    BY <1>5 DEF OutputOpens, With
  <2>2. {"stage", "version", "number"} \subseteq DOMAIN merge BY <2>1 DEF FilesInv, MergeOK
  <2>3. /\ merge'.stage = "writing" /\ merge'.number = next /\ merge'.version = merge.version
        /\ DOMAIN merge' = DOMAIN merge
    BY <2>1, <2>2
  <2>4. NumbersOK' BY <2>1 DEF FilesInv, NumbersOK
  <2>5. PhasesOK' BY <1>1, <2>1 DEF FilesInv, PhasesOK, Sole
  <2>6. FlushOK' BY <2>1 DEF FilesInv, FlushOK
  <2>7. MergeOK' BY <2>1, <2>2, <2>3 DEF FilesInv, NumbersOK, MergeOK
  <2>8. FilesThere' BY <2>1, <2>3 DEF FilesInv, FilesThere, EditThere
  <2> QED BY <2>4, <2>5, <2>6, <2>7, <2>8 DEF FilesInv
<1>6. CASE OutputWritten
  <2>1. /\ merge.stage = "writing" /\ flush.stage = "none"
        /\ merge' = [merge EXCEPT !.stage = "logging"]
        /\ DOMAIN tables' = DOMAIN tables
        /\ edit'.kind = "edit" /\ edit'.add = {merge.number} /\ edit'.next = next
        /\ UNCHANGED <<logs, manifest, phase, current, next, bgError, outputs, flush, reading>>
    BY <1>6 DEF OutputWritten, LogEdit
  <2>2. {"stage", "version", "number"} \subseteq DOMAIN merge BY <2>1 DEF FilesInv, MergeOK
  <2>3. /\ merge'.stage = "logging" /\ merge'.number = merge.number
        /\ merge'.version = merge.version /\ DOMAIN merge' = DOMAIN merge
    BY <2>1, <2>2
  <2>4. NumbersOK' BY <2>1 DEF FilesInv, NumbersOK
  <2>5. PhasesOK' BY <1>1, <2>1 DEF FilesInv, PhasesOK, Sole
  <2>6. FlushOK' BY <2>1 DEF FilesInv, FlushOK
  <2>7. MergeOK' BY <2>1, <2>2, <2>3 DEF FilesInv, MergeOK
  <2>8. FilesThere' BY <2>1, <2>3 DEF FilesInv, MergeOK, FilesThere, EditThere
  <2> QED BY <2>4, <2>5, <2>6, <2>7, <2>8 DEF FilesInv
<1> QED BY <1>2, <1>3, <1>4, <1>5, <1>6

(* The merge's edit is written, or fails.                                  *)
LEMMA MergeEndsFiles ==
  ASSUME FilesInv, MergeLogged \/ MergeFails
  PROVE  FilesInv'
<1> USE DEF disk, versions, memory, background, clients, history, bounds
<1>0. merge.stage # "none" BY DEF MergeLogged, MergeFails
<1>1. phase = "up" /\ DOMAIN reading = Readers BY <1>0 DEF FilesInv, PhasesOK, Quiet, Idle
<1>2. flush.stage = "none"
  BY DEF MergeLogged, MergeFails, FilesInv, FlushOK
<1>3. CASE MergeLogged
  <2>1. /\ merge.stage \in {"logging", "moving"} /\ Logged /\ edit' = NoEdit /\ merge' = Idle
        /\ current' = Apply(edit, [version |-> current]).version
        /\ outputs' = outputs \ {merge.number}
        /\ UNCHANGED <<phase, next, bgError, flush, reading>>
    BY <1>3 DEF MergeLogged, Installed
  <2>2. current'.tables = (current.tables \ edit.drop) \cup edit.add
    BY <2>1 DEF Apply, Version
  <2>3. edit.kind = "edit" /\ edit.add \subseteq DOMAIN tables
    BY <2>1 DEF FilesInv, MergeOK
  <2>4. \A m \in manifest' :
          m.version.tables \subseteq DOMAIN tables /\ m.next \in Nat /\ DOMAIN m = Parts
    BY <2>1, <2>3, ManifestWritten
  <2>5. current'.tables \subseteq DOMAIN tables BY <2>2, <2>3 DEF FilesInv, FilesThere
  <2>6. bgError \/ Sole(current)'
    <3> SUFFICES ASSUME ~ bgError PROVE Sole(current)' OBVIOUS
    <3>1. PICK m \in manifest : manifest = {m} /\ m.version = current /\ ~ m.torn
      BY <1>1 DEF FilesInv, PhasesOK, Sole
    <3>2. manifest' = {Apply(edit, m)} BY <2>1, <2>3, <3>1, ManifestWritten
    <3>3. Apply(edit, m).version = current' BY <2>1, <3>1 DEF Apply
    <3> QED BY <3>2, <3>3, AppliedParts DEF Sole
  <2>7. /\ DOMAIN logs' \subseteq DOMAIN logs
        /\ DOMAIN tables' = IF merge.stage = "moving" \/ bgError THEN DOMAIN tables
             ELSE DOMAIN tables \cap (outputs' \cup (current'.tables \cup Held))
    BY <1>3, <2>1 DEF MergeLogged, Sweep
  <2>8. \A r \in Readers : reading[r].stage # "none" =>
          reading[r].version.tables \subseteq Held \cap DOMAIN tables
    BY DEF Held, FilesInv, FilesThere
  <2>9. NumbersOK' BY <2>1, <2>4, <2>7, FS_Subset DEF FilesInv, NumbersOK, NoEdit
  <2>10. PhasesOK' BY <1>1, <2>1, <2>6 DEF PhasesOK
  <2>11. FlushOK' BY <1>2, <2>1 DEF FilesInv, FlushOK, Idle
  <2>12. MergeOK' BY <2>1 DEF MergeOK, Idle
  <2>13. FilesThere'
    <3>1. \A m \in manifest' : m.version.tables \subseteq DOMAIN tables'
      BY <2>4, <2>5, <2>6, <2>7 DEF Sole
    <3>2. current'.tables \subseteq DOMAIN tables' BY <2>5, <2>7
    <3>3. \A r \in Readers : reading[r].stage # "none" =>
             reading[r].version.tables \subseteq DOMAIN tables'
      BY <2>7, <2>8
    <3> QED BY <2>1, <3>1, <3>2, <3>3 DEF FilesThere, NoEdit, Idle
  <2> QED BY <2>9, <2>10, <2>11, <2>12, <2>13 DEF FilesInv
<1>4. CASE MergeFails
  <2>1. /\ edit' = NoEdit /\ merge' = Idle /\ bgError' = TRUE
        /\ UNCHANGED <<logs, tables, phase, current, next, flush, reading>>
    BY <1>4 DEF MergeFails
  <2>2. \A m \in manifest' :
          m.version.tables \subseteq DOMAIN tables /\ m.next \in Nat /\ DOMAIN m = Parts
    <3>1. CASE merge.stage \in {"logging", "moving"}
      <4>1. NotLogged /\ edit.kind = "edit" BY <1>4, <3>1 DEF MergeFails, FilesInv, MergeOK
      <4> QED BY <4>1, ManifestWritten
    <3>2. CASE merge.stage \notin {"logging", "moving"}
      BY <1>4, <3>2 DEF MergeFails, FilesInv, NumbersOK, FilesThere
    <3> QED BY <3>1, <3>2
  <2>3. NumbersOK' BY <2>1, <2>2 DEF FilesInv, NumbersOK, NoEdit
  <2>4. PhasesOK' BY <1>1, <2>1 DEF PhasesOK
  <2>5. FlushOK' BY <1>2, <2>1 DEF FilesInv, FlushOK, Idle
  <2>6. MergeOK' BY <2>1 DEF MergeOK, Idle
  <2>7. FilesThere' BY <2>1, <2>2 DEF FilesInv, FilesThere, NoEdit, Idle
  <2> QED BY <2>3, <2>4, <2>5, <2>6, <2>7 DEF FilesInv
<1> QED BY <1>3, <1>4

(* Every step of the engine keeps the files.                               *)
LEMMA NextFiles == FilesInv /\ [Next]_vars => FilesInv'
<1> SUFFICES ASSUME FilesInv, [Next]_vars PROVE FilesInv' OBVIOUS
<1>1. CASE UNCHANGED vars
  <2>1. Aside BY <1>1 DEF vars, disk, versions, memory, background, clients, history, bounds, Aside
  <2> QED BY <2>1, AsideKeeps
<1>2. CASE Recover BY <1>2, RecoverFiles
<1>3. CASE Install BY <1>3, InstallFiles
<1>4. CASE Ready BY <1>4, ReadyFiles
<1>5. CASE Writing \/ GetSnapshot \/ ReleaseSnapshot \/ \E w \in Writers, b \in Batches : Ask(w, b)
  BY <1>5, WritingFiles
<1>6. CASE Background
  <2>1. CASE FlushBegins \/ FlushBuilt BY <2>1, FlushFiles
  <2>2. CASE FlushLogged \/ FlushFails BY <2>2, FlushEndsFiles
  <2>3. CASE NothingToDo \/ TrivialMove \/ MergeBegins \/ OutputOpens \/ OutputWritten
    BY <2>3, MergeFiles
  <2>4. CASE MergeLogged \/ MergeFails BY <2>4, MergeEndsFiles
  <2> QED BY <1>6, <2>1, <2>2, <2>3, <2>4 DEF Background
<1>7. CASE \E r \in Readers, k \in Keys, seq \in 0..last : GetBegins(r, k, seq)
  BY <1>7, GettingFiles
<1>8. CASE \E r \in Readers : Getting(r) BY <1>8, GettingFiles
<1>9. CASE \E c \in CrashKinds : Crash(c) BY <1>9, CrashFiles
<1> QED BY <1>1, <1>2, <1>3, <1>4, <1>5, <1>6, <1>7, <1>8, <1>9 DEF Next

(* Whatever writes, reads, flushes, merges, failures and crashes come      *)
(* together, the invariant holds.                                          *)
THEOREM FilesInvariant == Spec => []FilesInv
BY InitFiles, NextFiles, PTL DEF Spec

(* DeleteObsoleteFiles never takes a table that is still named by a        *)
(* version in use, by a merge, or by what the MANIFEST may say.            *)
THEOREM LiveFilesStay == Spec => []LiveFilesKept
<1>1. FilesInv => LiveFilesKept BY FilesThereMeans
<1> QED BY FilesInvariant, <1>1, PTL

-----------------------------------------------------------------------------
(* 3. What Get() answers: entries, and how they are found.                 *)

(* A layer whose entries are all newer than those of another hides it.     *)
LEMMA FindAbove ==
  ASSUME NEW A, NEW B, NEW k, NEW s,
         \A e \in A \cup B : e.seq \in Nat,
         \A e \in A, f \in B : f.seq < e.seq
  PROVE  Find(A \cup B, k, s) = IF Visible(A, k, s) # {} THEN Newest(Visible(A, k, s)).write
                                ELSE Find(B, k, s)
<1>1. Visible(A \cup B, k, s) = Visible(A, k, s) \cup Visible(B, k, s) BY DEF Visible
<1>2. CASE Visible(A, k, s) = {} BY <1>1, <1>2 DEF Find
<1>3. CASE Visible(A, k, s) # {}
  <2> DEFINE V == Visible(A, k, s)
             W == Visible(B, k, s)
  <2>1. /\ \A e \in V \cup W : e.seq \in Nat
        /\ \A e \in V, f \in W : f.seq < e.seq
    BY DEF Visible
  <2>2. PICK a : a \in V BY <1>3
  <2> HIDE DEF V, W
  <2>3. \A x : (x \in V \cup W /\ \A f \in V \cup W : f.seq <= x.seq)
                 <=> (x \in V /\ \A f \in V : f.seq <= x.seq)
    <3> SUFFICES ASSUME NEW x
                 PROVE  (x \in V \cup W /\ \A f \in V \cup W : f.seq <= x.seq)
                          <=> (x \in V /\ \A f \in V : f.seq <= x.seq)
      OBVIOUS
    <3>1. ASSUME x \in W, \A f \in V \cup W : f.seq <= x.seq PROVE FALSE
      <4>1. a.seq <= x.seq /\ x.seq < a.seq BY <2>1, <2>2, <3>1
      <4>2. a.seq \in Nat /\ x.seq \in Nat BY <2>1, <2>2, <3>1
      <4> QED BY <4>1, <4>2
    <3>2. ASSUME x \in V, \A f \in V : f.seq <= x.seq PROVE \A f \in V \cup W : f.seq <= x.seq
      BY <2>1, <3>2
    <3> QED BY <3>1, <3>2
  <2>4. Newest(V \cup W) = Newest(V) BY <2>3 DEF Newest
  <2>5. V # {} /\ V \cup W # {} BY <2>2
  <2>6. Find(A \cup B, k, s) = Newest(V \cup W).write BY <1>1, <2>5 DEF Find, V, W
  <2> QED BY <1>3, <2>4, <2>6 DEF V
<1> QED BY <1>2, <1>3

-----------------------------------------------------------------------------
(* The entries of a group of writes.                                       *)
Put == [key : Keys, write : Nat]
Record == [first : Nat, puts : Seq(Put)]
EntrySet == [key : Keys, write : Nat, seq : Nat]

(* A concatenation of sequences is one.                                    *)
LEMMA FlattenIsSeq ==
  ASSUME NEW X, NEW s \in Seq(Seq(X))
  PROVE  FlattenSeq(s) \in Seq(X)
<1> DEFINE n == Len(s)
           Flat(g, m) == g = [i \in 1..m |-> IF i = 1 THEN s[i] ELSE g[i - 1] \o s[i]]
           T == {m \in Nat : \E g : Flat(g, m)}
<1>0. n \in Nat BY LenProperties
<1>1. CASE n = 0
  <2>1. s = << >> BY <1>1, EmptySeq
  <2>2. FlattenSeq(s) = s BY <1>1 DEF FlattenSeq
  <2> QED BY <2>1, <2>2, EmptySeq
<1>2. CASE n # 0
  <2>1. T = Nat
    <3>1. 0 \in T
      <4> DEFINE g == [i \in 1..0 |-> << >>]
      <4>1. Flat(g, 0) OBVIOUS
      <4> QED BY <4>1
    <3>2. ASSUME NEW m \in T PROVE m + 1 \in T
      <4>1. PICK g : Flat(g, m) OBVIOUS
      <4> DEFINE h == [i \in 1..(m + 1) |->
                         IF i = m + 1 THEN (IF i = 1 THEN s[i] ELSE g[i - 1] \o s[i]) ELSE g[i]]
      <4>2. \A i \in 1..m : g[i] = IF i = 1 THEN s[i] ELSE g[i - 1] \o s[i] BY <4>1
      <4>3. \A i \in 1..(m + 1) : i # 1 => h[i - 1] = g[i - 1] OBVIOUS
      <4>4. \A i \in 1..(m + 1) : h[i] = IF i = 1 THEN s[i] ELSE h[i - 1] \o s[i]
        <5> SUFFICES ASSUME NEW i \in 1..(m + 1)
                     PROVE  h[i] = IF i = 1 THEN s[i] ELSE g[i - 1] \o s[i]
          BY <4>3
        <5>1. CASE i = m + 1 BY <5>1
        <5>2. CASE i # m + 1
          <6>1. i \in 1..m BY <5>2
          <6> QED BY <4>2, <5>2, <6>1
        <5> QED BY <5>1, <5>2
      <4>5. Flat(h, m + 1)
        <5>1. h = [i \in 1..(m + 1) |-> h[i]] OBVIOUS
        <5> HIDE DEF h
        <5> QED BY <4>4, <5>1
      <4> HIDE DEF h, Flat
      <4> QED BY <4>5
    <3>3. T \in SUBSET Nat OBVIOUS
    <3> HIDE DEF T
    <3> QED BY <3>1, <3>2, <3>3, AllNumbers
  <2> DEFINE flatten == CHOOSE g : Flat(g, n)
  <2>2. Flat(flatten, n)
    <3>1. \E g : Flat(g, n) BY <1>0, <2>1
    <3> QED BY <3>1
  <2>3. FlattenSeq(s) = flatten[n] BY <1>2 DEF FlattenSeq
  <2> HIDE DEF flatten
  <2>4. \A i \in 1..n : flatten[i] = IF i = 1 THEN s[i] ELSE flatten[i - 1] \o s[i] BY <2>2
  <2> DEFINE U == {i \in Nat : i \in 1..n => flatten[i] \in Seq(X)}
  <2>5. U = Nat
    <3>1. 0 \in U OBVIOUS
    <3>2. ASSUME NEW i \in U PROVE i + 1 \in U
      <4> SUFFICES ASSUME i + 1 \in 1..n PROVE flatten[i + 1] \in Seq(X) OBVIOUS
      <4>1. s[i + 1] \in Seq(X) BY ElementOfSeq
      <4>2. CASE i + 1 = 1 BY <2>4, <4>1, <4>2
      <4>3. CASE i + 1 # 1
        <5>1. i \in 1..n /\ (i + 1) - 1 = i BY <4>3
        <5>2. flatten[i] \in Seq(X) BY <5>1
        <5>3. flatten[i + 1] = flatten[i] \o s[i + 1] BY <2>4, <4>3, <5>1
        <5> QED BY <4>1, <5>2, <5>3, ConcatProperties
      <4> QED BY <4>2, <4>3
    <3>3. U \in SUBSET Nat OBVIOUS
    <3> HIDE DEF U
    <3> QED BY <3>1, <3>2, <3>3, AllNumbers
  <2>6. n \in U /\ n \in 1..n BY <1>0, <1>2, <2>5
  <2> QED BY <2>3, <2>6
<1> QED BY <1>1, <1>2

(* The keys of a batch as a sequence.                                      *)
LEMMA KeySeqType ==
  ASSUME NEW b \in Batches
  PROVE  Cardinality(b) \in Nat /\ KeySeq(b) \in [1..Cardinality(b) -> Keys]
<1>1. IsFiniteSet(b) /\ b \subseteq Keys BY EngineAssumption
<1>2. Cardinality(b) \in Nat /\ ExistsBijection(1..Cardinality(b), b) BY <1>1, FS_CardinalityType
<1>3. \E f \in [1..Cardinality(b) -> b] : IsInjective(f)
  BY <1>2 DEF ExistsBijection, Bijection, Injection, IsInjective
<1>4. KeySeq(b) \in [1..Cardinality(b) -> b] BY <1>3 DEF KeySeq, SetToSeq
<1> QED BY <1>1, <1>2, <1>4

(* The puts of a group.                                                    *)
LEMMA PutsType ==
  ASSUME batches \in Seq(Batches), NEW n \in Nat, NEW ids \in [1..n -> 1..Len(batches)]
  PROVE  Puts(ids) \in Seq(Put)
<1> DEFINE part(i) == [j \in 1..Cardinality(batches[ids[i]]) |->
                         [key |-> KeySeq(batches[ids[i]])[j], write |-> ids[i]]]
<1>1. ids \in Seq(1..Len(batches)) /\ Len(ids) = n BY LenProperties
<1>2. ASSUME NEW i \in 1..n PROVE part(i) \in Seq(Put)
  <2>1. ids[i] \in 1..Len(batches) OBVIOUS
  <2>2. batches[ids[i]] \in Batches BY <2>1, ElementOfSeq
  <2>3. ids[i] \in Nat BY <2>1, LenProperties
  <2>4. PICK b \in Batches, w \in Nat : b = batches[ids[i]] /\ w = ids[i] BY <2>2, <2>3
  <2>5. Cardinality(b) \in Nat /\ KeySeq(b) \in [1..Cardinality(b) -> Keys] BY KeySeqType
  <2>6. [j \in 1..Cardinality(b) |-> [key |-> KeySeq(b)[j], write |-> w]] \in Seq(Put)
    <3>1. \A j \in 1..Cardinality(b) : [key |-> KeySeq(b)[j], write |-> w] \in Put
      BY <2>5 DEF Put
    <3> HIDE DEF part
    <3> QED BY <2>5, <3>1
  <2> QED BY <2>4, <2>6
<1>3. [i \in 1..n |-> part(i)] \in Seq(Seq(Put))
  <2> HIDE DEF part
  <2> QED BY <1>2
<1>4. Puts(ids) = FlattenSeq([i \in 1..n |-> part(i)]) BY <1>1 DEF Puts
<1> HIDE DEF part
<1> QED BY <1>3, <1>4, FlattenIsSeq

(* The entries of a record are numbered from its first number on.          *)
LEMMA EntriesOfType ==
  ASSUME NEW r \in Record
  PROVE  /\ EntriesOf(r) \subseteq EntrySet
         /\ \A e \in EntriesOf(r) : r.first <= e.seq /\ e.seq < r.first + Len(r.puts)
         /\ IsFiniteSet(EntriesOf(r)) /\ Len(r.puts) \in Nat
<1>1. r.first \in Nat /\ r.puts \in Seq(Put) BY DEF Record
<1>2. Len(r.puts) \in Nat BY <1>1, LenProperties
<1>3. \A i \in 1..Len(r.puts) : r.puts[i] \in Put BY <1>1, ElementOfSeq
<1>4. EntriesOf(r) \subseteq EntrySet BY <1>1, <1>2, <1>3 DEF EntriesOf, EntrySet, Put
<1>5. \A e \in EntriesOf(r) : r.first <= e.seq /\ e.seq < r.first + Len(r.puts)
  BY <1>1, <1>2 DEF EntriesOf
<1>6. IsFiniteSet(EntriesOf(r))
  <2> DEFINE f == [i \in 1..Len(r.puts) |-> [key |-> r.puts[i].key, write |-> r.puts[i].write,
                                             seq |-> r.first + i - 1]]
  <2>1. f \in Surjection(1..Len(r.puts), EntriesOf(r)) BY DEF Surjection, EntriesOf
  <2>2. IsFiniteSet(1..Len(r.puts)) BY <1>2, FS_Interval
  <2> HIDE DEF f
  <2> QED BY <2>1, <2>2, FS_Surjection
<1> QED BY <1>2, <1>4, <1>5, <1>6

(* The entries of some records.                                            *)
LEMMA EntriesInType ==
  ASSUME NEW records \in Seq(Record)
  PROVE  EntriesIn(records) \subseteq EntrySet /\ IsFiniteSet(EntriesIn(records))
<1> DEFINE S == {EntriesOf(records[i]) : i \in 1..Len(records)}
           f == [i \in 1..Len(records) |-> EntriesOf(records[i])]
<1>1. Len(records) \in Nat BY LenProperties
<1>2. \A i \in 1..Len(records) : records[i] \in Record BY ElementOfSeq
<1>3. \A X \in S : X \subseteq EntrySet /\ IsFiniteSet(X) BY <1>2, EntriesOfType
<1>4. IsFiniteSet(S)
  <2>1. f \in Surjection(1..Len(records), S) BY DEF Surjection
  <2>2. IsFiniteSet(1..Len(records)) BY <1>1, FS_Interval
  <2> HIDE DEF f, S
  <2> QED BY <2>1, <2>2, FS_Surjection
<1>5. EntriesIn(records) = UNION S BY DEF EntriesIn
<1> HIDE DEF S
<1>6. IsFiniteSet(UNION S) BY <1>3, <1>4, FS_UNION
<1> QED BY <1>3, <1>5, <1>6

(* No entry has a number above the last.                                   *)
LEMMA LastOfBounds ==
  ASSUME NEW entries \in SUBSET EntrySet, IsFiniteSet(entries)
  PROVE  LastOf(entries) \in Nat /\ \A e \in entries : e.seq <= LastOf(entries)
<1> DEFINE S == {e.seq : e \in entries}
           f == [e \in entries |-> e.seq]
<1>1. S \subseteq Nat BY DEF EntrySet
<1>2. IsFiniteSet(S)
  <2>1. f \in Surjection(entries, S) BY DEF Surjection
  <2> HIDE DEF f, S
  <2> QED BY <2>1, FS_Surjection
<1>3. \A e \in entries : e.seq \in S OBVIOUS
<1>4. LastOf(entries) = Max({0} \cup S) BY DEF LastOf
<1> HIDE DEF S
<1>5. IsFiniteSet({0} \cup S) BY <1>2, FS_AddElement
<1>6. ({0} \cup S) \in SUBSET Nat /\ {0} \cup S # {} BY <1>1
<1>7. Max({0} \cup S) \in {0} \cup S /\ \A y \in {0} \cup S : Max({0} \cup S) >= y
  BY <1>5, <1>6, MaxOfSet
<1> QED BY <1>1, <1>3, <1>4, <1>6, <1>7

-----------------------------------------------------------------------------
(* 4. A Get() answers what the database held when it began.                *)

Active(r) == reading[r].stage # "none"

(* The newest sequence number a memtable may have: that of the group being *)
(* written, once it is inserted.                                           *)
Top == IF turn.stage = "finish" THEN last + Len(turn.record.puts) ELSE last

LogFile == [records : Seq(Record), synced : Nat, torn : Nat]

DataOK ==
  /\ last \in Nat /\ next > 0
  /\ batches \in Seq(Batches)
  /\ \A n \in DOMAIN logs : logs[n] \in LogFile /\ logs[n].torn <= Len(logs[n].records) + 1
  /\ \A n \in DOMAIN tables : tables[n] \subseteq EntrySet
  /\ \A n \in DOMAIN mems : n \in Nat /\ n < next /\ mems[n] \subseteq EntrySet

(* Nobody is twice in the queue, and the group being written is of what    *)
(* waits in it and takes the numbers after last_sequence_.                 *)
Stages == {"append", "sync", "insert", "finish", "syncError"}
QueueOK ==
  /\ queue \in Seq(Writers)
  /\ \A i, j \in 1..Len(queue) : queue[i] = queue[j] => i = j
  /\ DOMAIN request = Writers
  /\ \A i \in 1..Len(queue) : request[queue[i]].stage = "waiting"
  /\ \A w \in Writers : request[w].stage = "waiting" => request[w].write \in 1..Len(batches)

TurnOK ==
  /\ turn.stage \in {"none"} \cup Stages
  /\ turn.stage # "none" =>
       /\ turn \in [stage : Stages, size : 1..Len(queue), ok : BOOLEAN, record : Record]
       /\ phase = "up" /\ turn.record.first = last + 1

(* The memtable being written out is older than the one written to.        *)
MemsOK ==
  /\ phase # "up" => imm = 0
  /\ phase \in {"recovered", "installed"} => mems[log] = {}
  /\ phase # "down" =>
       /\ log # 0 /\ log \in DOMAIN mems
       /\ imm # 0 => imm \in DOMAIN mems /\ imm # log
       /\ \A e \in mems[log] : e.seq <= Top
       /\ \A e \in MemEntries(imm) : e.seq <= last /\ \A x \in mems[log] : e.seq < x.seq
  /\ flush.stage # "none" => imm # 0

(* What is in tables, and what may be soon, is older than any memtable.    *)
Old(e) == e.seq <= last /\ \A x \in mems[log] \cup MemEntries(imm) : e.seq < x.seq
OldTables(T) == \A n \in T : \A e \in tables[n] : Old(e)

TablesOK ==
  /\ phase # "down" => OldTables(current.tables)
  /\ phase = "recovered" \/ merge.stage \in {"logging", "moving"} => OldTables(edit.add)
  /\ flush.stage = "logging" => tables[flush.number] \subseteq MemEntries(imm)
  /\ merge.stage \in {"reading", "writing"} =>
       "inputs" \in DOMAIN merge /\ merge.inputs \subseteq current.tables

(* What the MANIFEST may say has the numbers of its tables and entries     *)
(* behind it: nothing made later can be taken for them.                    *)
Below(T, n, s) == \A t \in T : t \in Nat /\ t < n /\ \A e \in tables[t] : e.seq <= s

DiskOK ==
  /\ \A m \in manifest : m.last \in Nat /\ Below(m.version.tables, m.next, m.last)
  /\ phase # "down" => \A m \in manifest : m.next <= next /\ m.last <= last
  /\ edit.kind = "edit" =>
       /\ phase # "down" /\ edit.last \in Nat /\ edit.last <= last /\ edit.next <= next
       /\ edit.add \subseteq DOMAIN tables /\ Below(edit.add, edit.next, edit.last)
       /\ \A m \in manifest : m.next <= edit.next /\ m.last <= edit.last

(* No table that is referred to is still to be written.                    *)
Free(T) == \A n \in T :
   /\ n \in Nat /\ n < next
   /\ flush.stage = "building" => n # flush.number
   /\ merge.stage = "writing" => n # merge.number
FreshOK ==
  phase # "down" =>
    /\ \A m \in manifest : Free(m.version.tables)
    /\ edit.kind = "edit" => Free(edit.add)
    /\ Free(current.tables)
    /\ \A r \in Readers : Active(r) => Free(reading[r].version.tables)

(* What a Get() is still going to find is what it should.                  *)
InTables(get) == Find(TableEntries(get.version.tables), get.key, get.seq)
InLayers(get) ==
  LET first == Visible(mems[get.mem], get.key, get.seq)
      second == Visible(MemEntries(get.imm), get.key, get.seq)
      found == IF first # {} THEN first ELSE second
  IN IF found = {} THEN InTables(get) ELSE Newest(found).write

ReaderOK(get) ==
  /\ DOMAIN get = {"stage", "key", "seq", "mem", "imm", "version", "expected", "got"}
  /\ get.seq \in Nat /\ get.seq <= last
  /\ get.mem # 0 /\ get.mem \in DOMAIN mems /\ (get.imm # 0 => get.imm \in DOMAIN mems)
  /\ get.stage \in {"mems", "tables", "done", "seeked"}
  /\ get.stage = "mems" => get.got = -1 /\ InLayers(get) = get.expected
  /\ get.stage = "tables" => get.got = -1 /\ InTables(get) = get.expected
  /\ get.stage \in {"done", "seeked"} => get.got = get.expected
ReadersOK == \A r \in Readers : Active(r) => ReaderOK(reading[r])

ReadInv == DataOK /\ QueueOK /\ TurnOK /\ MemsOK /\ TablesOK /\ DiskOK /\ FreshOK /\ ReadersOK

-----------------------------------------------------------------------------
(* Each part depends on some of the variables only.                        *)
LEMMA DataFrame ==
  ASSUME DataOK, UNCHANGED <<last, next, batches, logs, tables, mems>>
  PROVE  DataOK'
BY DEF DataOK

(* Each part of ReadInv depends on some variables: the queue on these.     *)
LEMMA QueueFrame ==
  ASSUME QueueOK, UNCHANGED <<queue, request, batches>>
  PROVE  QueueOK'
BY DEF QueueOK

(* The group in progress.                                                  *)
LEMMA TurnFrame ==
  ASSUME TurnOK, UNCHANGED <<turn, queue, phase, last>>
  PROVE  TurnOK'
BY DEF TurnOK

(* The memtables.                                                          *)
LEMMA MemsFrame ==
  ASSUME MemsOK, UNCHANGED <<phase, log, imm, mems, turn, last>>, flush'.stage = flush.stage
  PROVE  MemsOK'
BY DEF MemsOK, MemEntries, Top

(* The tables of the current version.                                      *)
LEMMA TablesFrame ==
  ASSUME TablesOK, UNCHANGED <<phase, current, tables, log, imm, mems, last, edit, flush, merge>>
  PROVE  TablesOK'
BY DEF TablesOK, OldTables, Old, MemEntries

(* What the MANIFEST may say.                                              *)
LEMMA DiskFrame ==
  ASSUME DiskOK, UNCHANGED <<phase, manifest, edit, tables, next, last>>
  PROVE  DiskOK'
BY DEF DiskOK, Below

(* The numbers of new files.                                               *)
LEMMA FreshFrame ==
  ASSUME FreshOK, UNCHANGED <<phase, manifest, edit, current, reading, flush, merge, next>>
  PROVE  FreshOK'
BY DEF FreshOK, Free, Active

(* The Get()s under way.                                                   *)
LEMMA ReadersFrame ==
  ASSUME ReadersOK, UNCHANGED <<reading, mems, tables, last>>
  PROVE  ReadersOK'
<1> SUFFICES ASSUME NEW r \in Readers, Active(r) PROVE ReaderOK(reading[r])'
  BY DEF ReadersOK, Active
<1>1. PICK g : g = reading[r] OBVIOUS
<1>2. ReaderOK(g) BY <1>1 DEF ReadersOK
<1>3. ReaderOK(g)' BY <1>2 DEF ReaderOK, InLayers, InTables, MemEntries, TableEntries
<1> QED BY <1>1, <1>3

(* A reader goes on as before if the memtables it has keep what it can see *)
(* of them, and its version keeps its tables.                              *)
LEMMA ReaderKept ==
  ASSUME NEW get, ReaderOK(get), last' \in Nat, last \in Nat, last <= last',
         \A n \in {get.mem, get.imm} \ {0} :
            n \in DOMAIN mems' /\ Visible(mems'[n], get.key, get.seq) = Visible(mems[n], get.key, get.seq),
         \A n \in get.version.tables : tables'[n] = tables[n]
  PROVE  ReaderOK(get)'
<1>1. TableEntries(get.version.tables)' = TableEntries(get.version.tables) BY DEF TableEntries
<1>2. InTables(get)' = InTables(get) BY <1>1 DEF InTables
<1>3. get.mem \in DOMAIN mems' /\ Visible(mems'[get.mem], get.key, get.seq) = Visible(mems[get.mem], get.key, get.seq)
  BY DEF ReaderOK
<1>4. Visible(MemEntries(get.imm)', get.key, get.seq) = Visible(MemEntries(get.imm), get.key, get.seq)
  BY DEF MemEntries
<1>5. InLayers(get)' = InLayers(get) BY <1>2, <1>3, <1>4 DEF InLayers
<1>6. get.imm # 0 => get.imm \in DOMAIN mems' OBVIOUS
<1> QED BY <1>2, <1>3, <1>5, <1>6 DEF ReaderOK

(* Nothing is read at first.                                               *)
LEMMA InitRead == Init => ReadInv
<1> SUFFICES ASSUME Init PROVE ReadInv OBVIOUS
<1>1. DataOK BY EmptySeq DEF Init, DataOK
<1>2. QueueOK BY EmptySeq DEF Init, QueueOK, Idle
<1>3. TurnOK BY DEF Init, TurnOK, Idle
<1>4. MemsOK BY DEF Init, MemsOK, Idle
<1>5. TablesOK BY DEF Init, TablesOK, Idle
<1>6. DiskOK BY DEF Init, DiskOK, Below, NoEdit, Empty, Version
<1>7. FreshOK BY DEF Init, FreshOK
<1>8. ReadersOK BY DEF Init, ReadersOK, Active, Idle
<1> QED BY <1>1, <1>2, <1>3, <1>4, <1>5, <1>6, <1>7, <1>8 DEF ReadInv

(* A writer joins the end of the queue.                                    *)
LEMMA AskRead ==
  ASSUME ReadInv, NEW w \in Writers, NEW b \in Batches, Ask(w, b)
  PROVE  ReadInv'
<1> USE DEF disk, versions, memory, background, clients, history, bounds
<1>1. /\ phase = "up" /\ request[w].stage = "none" /\ batches' = Append(batches, b)
      /\ request' = [request EXCEPT ![w] =
           [stage |-> "waiting", write |-> Len(batches) + 1, sync |-> w \in Syncing]]
      /\ queue' = Append(queue, w)
      /\ UNCHANGED <<disk, phase, memory, versions, background, snapshot, turn, reading>>
  BY DEF Ask
<1>2. DataOK'
  <2>1. batches' \in Seq(Batches) BY <1>1, AppendProperties DEF ReadInv, DataOK
  <2> QED BY <1>1, <2>1 DEF ReadInv, DataOK
<1>3. queue \in Seq(Writers) /\ Len(queue) \in Nat /\ Len(batches) \in Nat
  BY LenProperties DEF ReadInv, DataOK, QueueOK
<1>4. /\ queue' \in Seq(Writers) /\ Len(queue') = Len(queue) + 1
      /\ \A i \in 1..Len(queue) : queue'[i] = queue[i]
      /\ queue'[Len(queue) + 1] = w
  BY <1>1, <1>3, AppendProperties
<1>5. Len(batches') = Len(batches) + 1 BY <1>1, AppendProperties DEF ReadInv, DataOK
<1>6. QueueOK'
  <2>1. \A i \in 1..Len(queue) : queue[i] # w BY <1>1 DEF ReadInv, QueueOK
  <2>2. \A i \in 1..Len(queue') : i \in 1..Len(queue) \/ i = Len(queue) + 1 BY <1>3, <1>4
  <2>3. \A i, j \in 1..Len(queue') : queue'[i] = queue'[j] => i = j
    BY <1>4, <2>1, <2>2 DEF ReadInv, QueueOK
  <2>4. DOMAIN request' = Writers BY <1>1 DEF ReadInv, QueueOK
  <2>5. \A i \in 1..Len(queue') : request'[queue'[i]].stage = "waiting"
    BY <1>1, <1>4, <2>1, <2>2, ElementOfSeq DEF ReadInv, QueueOK
  <2>6. \A v \in Writers : request'[v].stage = "waiting" => request'[v].write \in 1..Len(batches')
    BY <1>1, <1>3, <1>5 DEF ReadInv, QueueOK
  <2> QED BY <1>4, <2>3, <2>4, <2>5, <2>6 DEF QueueOK
<1>7. TurnOK'
  <2>1. 1..Len(queue) \subseteq 1..Len(queue') BY <1>3, <1>4
  <2> QED BY <1>1, <2>1 DEF ReadInv, TurnOK
<1>8. MemsOK' BY <1>1, MemsFrame DEF ReadInv
<1>9. TablesOK' BY <1>1, TablesFrame DEF ReadInv
<1>10. DiskOK' BY <1>1, DiskFrame DEF ReadInv
<1>11. FreshOK' BY <1>1, FreshFrame DEF ReadInv
<1>12. ReadersOK' BY <1>1, ReadersFrame DEF ReadInv
<1> QED BY <1>2, <1>6, <1>7, <1>8, <1>9, <1>10, <1>11, <1>12 DEF ReadInv

(* The first n leave it.                                                   *)
LEMMA LeaveKeeps ==
  ASSUME QueueOK, NEW n \in 1..Len(queue), Leave(n), batches' = batches
  PROVE  QueueOK'
<1>1. queue \in Seq(Writers) /\ Len(queue) \in Nat BY LenProperties DEF QueueOK
<1>2. /\ queue' \in Seq(Writers) /\ Len(queue') = Len(queue) - n
      /\ \A i \in 1..Len(queue') : queue'[i] = queue[n + i]
  <2>1. queue' = SubSeq(queue, n + 1, Len(queue)) BY DEF Leave
  <2>2. \A i \in (n + 1)..Len(queue) : queue[i] \in Writers BY <1>1, ElementOfSeq
  <2>3. n + 1 \in Int /\ Len(queue) \in Int BY <1>1
  <2>4. /\ queue' \in Seq(Writers)
        /\ Len(queue') = IF n + 1 <= Len(queue) THEN Len(queue) - (n + 1) + 1 ELSE 0
        /\ \A i \in 1..(Len(queue) - (n + 1) + 1) : queue'[i] = queue[n + 1 + i - 1]
    BY <2>1, <2>2, <2>3, SubSeqProperties
  <2>5. Len(queue') = Len(queue) - n BY <1>1, <2>4
  <2>6. \A i \in 1..Len(queue') : queue'[i] = queue[n + i]
    <3> SUFFICES ASSUME NEW i \in 1..Len(queue') PROVE queue'[i] = queue[n + i] OBVIOUS
    <3>1. i \in 1..(Len(queue) - (n + 1) + 1) /\ n + 1 + i - 1 = n + i BY <1>1, <2>5
    <3> QED BY <2>4, <3>1
  <2> QED BY <2>4, <2>5, <2>6
<1>3. \A i \in 1..Len(queue') : n + i \in 1..Len(queue) BY <1>1, <1>2
<1>4. request' = [w \in Writers |-> IF \E i \in 1..n : queue[i] = w THEN Idle ELSE request[w]]
  BY DEF Leave
<1>5. \A i, j \in 1..Len(queue') : queue'[i] = queue'[j] => i = j
  BY <1>1, <1>2, <1>3 DEF QueueOK
<1>6. \A i \in 1..Len(queue') : request'[queue'[i]].stage = "waiting"
  <2> SUFFICES ASSUME NEW i \in 1..Len(queue') PROVE request'[queue'[i]].stage = "waiting" OBVIOUS
  <2>1. queue'[i] = queue[n + i] /\ n + i \in 1..Len(queue) BY <1>2, <1>3
  <2>2. \A j \in 1..n : queue[j] # queue[n + i]
    <3> SUFFICES ASSUME NEW j \in 1..n, queue[j] = queue[n + i] PROVE FALSE OBVIOUS
    <3>1. j \in 1..Len(queue) BY <1>1
    <3>2. j = n + i BY <2>1, <3>1 DEF QueueOK
    <3> QED BY <1>1, <3>2
  <2>3. queue[n + i] \in Writers BY <1>1, <2>1, ElementOfSeq
  <2>4. request'[queue[n + i]] = request[queue[n + i]] BY <1>4, <2>2, <2>3
  <2> QED BY <2>1, <2>4 DEF QueueOK
<1>7. \A w \in Writers : request'[w].stage = "waiting" => request'[w].write \in 1..Len(batches')
  BY <1>4 DEF QueueOK, Idle
<1> QED BY <1>2, <1>4, <1>5, <1>6, <1>7 DEF QueueOK

(* Steps that leave all of it as it is, but for who waits.                 *)
LEMMA WaitingRead ==
  ASSUME ReadInv, Refuse \/ Sleep \/ NoNewLog \/ GetSnapshot \/ ReleaseSnapshot \/ NothingToDo
                  \/ UNCHANGED vars
  PROVE  ReadInv'
<1> USE DEF disk, versions, memory, background, clients, history, bounds
<1>1. UNCHANGED <<disk, phase, memory, current, logNumber, next, last, flush, merge, turn, reading,
                  batches>>
  BY DEF Refuse, Sleep, NoNewLog, GetSnapshot, ReleaseSnapshot, NothingToDo, vars
<1>2. \/ UNCHANGED <<queue, request>>
      \/ turn.stage = "none" /\ queue # << >> /\ Leave(1)
  BY DEF Refuse, Sleep, NoNewLog, GetSnapshot, ReleaseSnapshot, NothingToDo, vars, AtFront
<1>3. QueueOK' /\ TurnOK'
  <2>1. CASE UNCHANGED <<queue, request>> BY <1>1, <2>1, QueueFrame, TurnFrame DEF ReadInv
  <2>2. CASE turn.stage = "none" /\ queue # << >> /\ Leave(1)
    <3>1. 1 \in 1..Len(queue) BY <2>2, EmptySeq DEF ReadInv, QueueOK
    <3>2. QueueOK' BY <1>1, <2>2, <3>1, LeaveKeeps DEF ReadInv
    <3>3. TurnOK' BY <1>1, <2>2 DEF TurnOK
    <3> QED BY <3>2, <3>3
  <2> QED BY <1>2, <2>1, <2>2
<1>4. DataOK' BY <1>1, DataFrame DEF ReadInv
<1>5. MemsOK' BY <1>1, MemsFrame DEF ReadInv
<1>6. TablesOK' BY <1>1, TablesFrame DEF ReadInv
<1>7. DiskOK' BY <1>1, DiskFrame DEF ReadInv
<1>8. FreshOK' BY <1>1, FreshFrame DEF ReadInv
<1>9. ReadersOK' BY <1>1, ReadersFrame DEF ReadInv
<1> QED BY <1>3, <1>4, <1>5, <1>6, <1>7, <1>8, <1>9 DEF ReadInv

(* The memtable is full: it is the one to be written out, the new one has  *)
(* no entries.                                                             *)
LEMMA SwitchRead ==
  ASSUME FilesInv, ReadInv, SwitchMemTable, phase = "up", imm = 0, turn.stage = "none",
         turn'.stage = "append",
         UNCHANGED <<tables, manifest, edit, phase, current, last, flush, merge, reading, batches>>
  PROVE  DataOK' /\ MemsOK' /\ TablesOK' /\ DiskOK' /\ FreshOK' /\ ReadersOK'
<1>1. /\ logs' = With(logs, next, NewLog) /\ log' = next /\ next' = next + 1 /\ imm' = log
      /\ mems' = With(mems, next, {})
  BY DEF SwitchMemTable
<1>2. next \in Nat /\ next \notin DOMAIN mems BY DEF FilesInv, NumbersOK, ReadInv, DataOK
<1>3. /\ DOMAIN mems' = {next} \cup DOMAIN mems /\ mems'[next] = {}
      /\ \A n \in DOMAIN mems : mems'[n] = mems[n]
  BY <1>1, <1>2 DEF With
<1>4. log # 0 /\ log \in DOMAIN mems /\ log # next BY <1>2 DEF ReadInv, MemsOK
<1>5. MemEntries(imm)' = mems[log] BY <1>1, <1>3, <1>4 DEF MemEntries
<1>6. mems'[log'] = {} BY <1>1, <1>3
<1>7. \A e \in mems[log] : e.seq <= last BY DEF ReadInv, MemsOK, Top
<1>8. DataOK'
  <2>1. NewLog \in LogFile /\ NewLog.torn <= Len(NewLog.records) + 1
    BY EmptySeq DEF NewLog, LogFile
  <2>2. \A n \in DOMAIN logs' : logs'[n] \in LogFile /\ logs'[n].torn <= Len(logs'[n].records) + 1
    BY <1>1, <2>1 DEF With, ReadInv, DataOK
  <2>3. \A n \in DOMAIN mems' : n \in Nat /\ n < next' /\ mems'[n] \subseteq EntrySet
    BY <1>1, <1>2, <1>3 DEF ReadInv, DataOK
  <2> QED BY <1>1, <1>2, <2>2, <2>3 DEF ReadInv, DataOK
<1>9. MemsOK'
  <2>1. next # 0 BY <1>2 DEF ReadInv, DataOK
  <2> QED BY <1>1, <1>3, <1>4, <1>5, <1>6, <1>7, <2>1 DEF ReadInv, MemsOK, Top
<1>10. TablesOK'
  <2>1. MemEntries(imm) = {} BY DEF MemEntries
  <2>2. \A e : Old(e) => Old(e)' BY <1>5, <1>6 DEF Old
  <2>3. flush.stage # "logging" BY DEF ReadInv, MemsOK
  <2> QED BY <2>2, <2>3 DEF ReadInv, TablesOK, OldTables
<1>11. DiskOK' BY <1>1, <1>2 DEF ReadInv, DiskOK, Below, FilesInv, NumbersOK
<1>12. FreshOK' BY <1>1, <1>2 DEF ReadInv, FreshOK, Free, Active
<1>13. ReadersOK'
  <2> SUFFICES ASSUME NEW r \in Readers, Active(r) PROVE ReaderOK(reading[r])'
    BY DEF ReadersOK, Active
  <2>1. PICK g : g = reading[r] OBVIOUS
  <2>2. ReaderOK(g) BY <2>1 DEF ReadInv, ReadersOK
  <2>3. g.mem \in DOMAIN mems /\ (g.imm # 0 => g.imm \in DOMAIN mems) BY <2>2 DEF ReaderOK
  <2>4. last \in Nat BY DEF ReadInv, DataOK
  <2>5. last' \in Nat /\ last <= last' BY <2>4
  <2>6. \A n \in {g.mem, g.imm} \ {0} :
          n \in DOMAIN mems' /\ Visible(mems'[n], g.key, g.seq) = Visible(mems[n], g.key, g.seq)
    BY <1>3, <2>3
  <2>7. \A n \in g.version.tables : tables'[n] = tables[n] OBVIOUS
  <2>8. ReaderOK(g)' BY <2>2, <2>4, <2>5, <2>6, <2>7, ReaderKept
  <2> QED BY <2>1, <2>8
<1> QED BY <1>8, <1>9, <1>10, <1>11, <1>12, <1>13

(* The head of the queue gets room and forms its group.                    *)
LEMMA LeadRead ==
  ASSUME FilesInv, ReadInv, Lead
  PROVE  ReadInv'
<1> USE DEF disk, versions, memory, background, clients, history, bounds
<1>1. PICK n \in 1..Len(queue) :
        turn' = [stage |-> "append", size |-> n, ok |-> TRUE,
                 record |-> [first |-> last + 1, puts |-> Puts(Group(n))]]
  BY DEF Lead
<1>2. /\ phase = "up" /\ turn.stage = "none"
      /\ UNCHANGED <<tables, manifest, edit, phase, current, logNumber, last, flush, merge,
                     queue, request, reading, batches>>
  BY DEF Lead, AtFront
<1>3. QueueOK' BY <1>2, QueueFrame DEF ReadInv
<1>4. TurnOK'
  <2>1. Group(n) \in [1..n -> 1..Len(batches)]
    <3>1. Len(queue) \in Nat BY LenProperties DEF ReadInv, QueueOK
    <3>2. \A i \in 1..n : queue[i] \in Writers /\ request[queue[i]].stage = "waiting"
      BY <3>1, ElementOfSeq DEF ReadInv, QueueOK
    <3>3. \A i \in 1..n : request[queue[i]].write \in 1..Len(batches)
      BY <3>2 DEF ReadInv, QueueOK
    <3> QED BY <3>3 DEF Group
  <2>2. n \in Nat BY LenProperties DEF ReadInv, QueueOK
  <2>3. Puts(Group(n)) \in Seq(Put) BY <2>1, <2>2, PutsType DEF ReadInv, DataOK
  <2>4. [first |-> last + 1, puts |-> Puts(Group(n))] \in Record
    BY <2>3 DEF Record, ReadInv, DataOK
  <2>5. turn' \in [stage : Stages, size : 1..Len(queue'), ok : BOOLEAN, record : Record]
    BY <1>1, <1>2, <2>4 DEF Stages
  <2> QED BY <1>1, <1>2, <2>5 DEF TurnOK
<1>5. CASE HasRoom /\ UNCHANGED <<logs, memory, next, scheduled>>
  <2>1. DataOK' BY <1>2, <1>5, DataFrame DEF ReadInv
  <2>2. MemsOK' BY <1>1, <1>2, <1>5 DEF ReadInv, MemsOK, Top, MemEntries
  <2>3. TablesOK' BY <1>2, <1>5, TablesFrame DEF ReadInv
  <2>4. DiskOK' BY <1>2, <1>5, DiskFrame DEF ReadInv
  <2>5. FreshOK' BY <1>2, <1>5, FreshFrame DEF ReadInv
  <2>6. ReadersOK' BY <1>2, <1>5, ReadersFrame DEF ReadInv
  <2> QED BY <1>3, <1>4, <2>1, <2>2, <2>3, <2>4, <2>5, <2>6 DEF ReadInv
<1>6. CASE ~HasRoom /\ ~MustWait /\ SwitchMemTable
  <2>1. imm = 0 BY <1>6 DEF MustWait
  <2>2. turn'.stage = "append" BY <1>1
  <2>3. DataOK' /\ MemsOK' /\ TablesOK' /\ DiskOK' /\ FreshOK' /\ ReadersOK'
    BY <1>2, <1>6, <2>1, <2>2, SwitchRead
  <2> QED BY <1>3, <1>4, <2>3 DEF ReadInv
<1> QED BY <1>5, <1>6 DEF Lead

(* The log, without the mutex.                                             *)
LEMMA LoggingRead ==
  ASSUME ReadInv, AddRecord \/ AddRecordFails \/ Sync \/ SyncFails
  PROVE  ReadInv'
<1> USE DEF disk, versions, memory, background, clients, history, bounds, WithoutMutex
<1>1. /\ UNCHANGED <<tables, mems, manifest, edit, phase, log, imm, current, next, last, flush, merge,
                     queue, request, reading, batches>>
      /\ turn.stage \in {"append", "sync"} /\ turn'.stage \in Stages
      /\ \/ \E s \in Stages : turn' = [turn EXCEPT !.stage = s]
         \/ \E s \in Stages : turn' = [turn EXCEPT !.stage = s, !.ok = FALSE]
  BY DEF AddRecord, AddRecordFails, Sync, SyncFails, Stages, ReadInv, TurnOK
<1>2. turn \in [stage : Stages, size : 1..Len(queue), ok : BOOLEAN, record : Record]
  BY <1>1 DEF ReadInv, TurnOK
<1>3. turn' \in [stage : Stages, size : 1..Len(queue), ok : BOOLEAN, record : Record]
      /\ turn'.record = turn.record
  BY <1>1, <1>2
<1>4. turn.record \in Record /\ Len(turn.record.puts) \in Nat BY <1>2, EntriesOfType
<1>5. \A n \in DOMAIN logs' : logs'[n] \in LogFile /\ logs'[n].torn <= Len(logs'[n].records) + 1
  <2>1. \A n \in DOMAIN logs : logs[n] \in LogFile /\ logs[n].torn <= Len(logs[n].records) + 1
    BY DEF ReadInv, DataOK
  <2>2. CASE logs' = [logs EXCEPT ![log].records = Append(@, turn.record)]
    <3>1. ASSUME log \in DOMAIN logs
          PROVE  /\ Append(logs[log].records, turn.record) \in Seq(Record)
                 /\ Len(Append(logs[log].records, turn.record)) = Len(logs[log].records) + 1
                 /\ Len(logs[log].records) \in Nat
      BY <1>4, <2>1, <3>1, AppendProperties, LenProperties DEF LogFile
    <3>2. /\ DOMAIN logs' = DOMAIN logs /\ \A n \in DOMAIN logs \ {log} : logs'[n] = logs[n]
          /\ log \in DOMAIN logs =>
               logs'[log] = [logs[log] EXCEPT !.records = Append(logs[log].records, turn.record)]
      BY <2>2
    <3>3. ASSUME log \in DOMAIN logs
          PROVE  logs'[log] \in LogFile /\ logs'[log].torn <= Len(logs'[log].records) + 1
      <4>1. PICK l : l = logs[log] OBVIOUS
      <4>2. PICK rs : rs = Append(logs[log].records, turn.record) OBVIOUS
      <4>3. /\ l \in [records : Seq(Record), synced : Nat, torn : Nat] /\ rs \in Seq(Record)
            /\ logs'[log] = [l EXCEPT !.records = rs]
        BY <2>1, <3>1, <3>2, <3>3, <4>1, <4>2 DEF LogFile
      <4>4. logs'[log] \in LogFile /\ logs'[log].records = rs /\ logs'[log].torn = l.torn
        BY <4>3 DEF LogFile
      <4>5. l.torn <= Len(l.records) + 1 /\ Len(rs) = Len(l.records) + 1 /\ Len(l.records) \in Nat
            /\ l.torn \in Nat
        BY <2>1, <3>1, <3>3, <4>1, <4>2 DEF LogFile
      <4> QED BY <4>4, <4>5
    <3> QED BY <2>1, <3>2, <3>3
  <2>3. CASE logs' = [logs EXCEPT ![log].torn = IF @ = 0 THEN Len(logs[log].records) + 1 ELSE @]
    <3>1. ASSUME log \in DOMAIN logs PROVE Len(logs[log].records) \in Nat
      BY <2>1, <3>1, LenProperties DEF LogFile
    <3> QED BY <2>1, <2>3, <3>1 DEF LogFile
  <2>4. CASE logs' = [logs EXCEPT ![log].synced = Len(logs[log].records)]
    <3>1. ASSUME log \in DOMAIN logs PROVE Len(logs[log].records) \in Nat
      BY <2>1, <3>1, LenProperties DEF LogFile
    <3> QED BY <2>1, <2>4, <3>1 DEF LogFile
  <2>5. CASE UNCHANGED logs BY <2>1, <2>5
  <2> QED BY <2>2, <2>3, <2>4, <2>5 DEF AddRecord, AddRecordFails, Sync, SyncFails
<1>6. DataOK' BY <1>1, <1>5 DEF ReadInv, DataOK
<1>7. QueueOK' BY <1>1, QueueFrame DEF ReadInv
<1>8. TurnOK' BY <1>1, <1>3 DEF ReadInv, TurnOK
<1>9. MemsOK'
  <2>1. Top = last /\ last \in Nat BY <1>1 DEF Top, ReadInv, DataOK
  <2>2. Top' = last \/ Top' = last + Len(turn.record.puts) BY <1>1, <1>3 DEF Top
  <2>3. phase = "up" /\ log \in DOMAIN mems BY <1>1 DEF ReadInv, TurnOK, MemsOK
  <2>4. \A e \in mems[log] : e.seq \in Nat BY <2>3 DEF ReadInv, DataOK, EntrySet
  <2>5. \A e \in mems[log] : e.seq <= last BY <2>1, <2>3 DEF ReadInv, MemsOK
  <2>6. \A e \in mems[log] : e.seq <= Top' BY <1>4, <2>1, <2>2, <2>4, <2>5
  <2> QED BY <1>1, <2>3, <2>6 DEF ReadInv, MemsOK, MemEntries
<1>10. TablesOK' BY <1>1, TablesFrame DEF ReadInv
<1>11. DiskOK' BY <1>1, DiskFrame DEF ReadInv
<1>12. FreshOK' BY <1>1, FreshFrame DEF ReadInv
<1>13. ReadersOK' BY <1>1, ReadersFrame DEF ReadInv
<1> QED BY <1>6, <1>7, <1>8, <1>9, <1>10, <1>11, <1>12, <1>13 DEF ReadInv

(* Old entries have numbers, and are below last_sequence_.                 *)
LEMMA OldNumbers ==
  ASSUME FilesInv, ReadInv
  PROVE  /\ \A n \in current.tables : n \in DOMAIN tables /\ tables[n] \subseteq EntrySet
         /\ phase # "down" => /\ mems[log] \subseteq EntrySet
                              /\ MemEntries(imm) \subseteq EntrySet
         /\ last \in Nat /\ next \in Nat
<1>1. \A n \in current.tables : n \in DOMAIN tables BY DEF FilesInv, FilesThere
<1>2. \A n \in current.tables : tables[n] \subseteq EntrySet BY <1>1 DEF ReadInv, DataOK
<1>3. phase # "down" => mems[log] \subseteq EntrySet /\ MemEntries(imm) \subseteq EntrySet
  BY DEF ReadInv, DataOK, MemsOK, MemEntries
<1> QED BY <1>1, <1>2, <1>3 DEF ReadInv, DataOK, FilesInv, NumbersOK

(* The group goes to the memtable, beside readers: they do not see it.     *)
LEMMA InsertRead ==
  ASSUME FilesInv, ReadInv, Insert
  PROVE  ReadInv'
<1> USE DEF disk, versions, memory, background, clients, history, bounds, WithoutMutex
<1> DEFINE new == EntriesOf(turn.record)
<1>1. /\ turn.stage = "insert" /\ turn' = [turn EXCEPT !.stage = "finish"]
      /\ mems' = [mems EXCEPT ![log] = @ \cup new]
      /\ UNCHANGED <<logs, tables, manifest, edit, phase, log, imm, current, next, last, flush, merge,
                     queue, request, reading, batches>>
  BY DEF Insert
<1>2. /\ turn \in [stage : Stages, size : 1..Len(queue), ok : BOOLEAN, record : Record]
      /\ turn.record.first = last + 1 /\ phase = "up"
  BY <1>1 DEF ReadInv, TurnOK
<1>3. /\ turn' \in [stage : Stages, size : 1..Len(queue), ok : BOOLEAN, record : Record]
      /\ turn'.record = turn.record /\ turn'.stage = "finish"
  BY <1>1, <1>2 DEF Stages
<1>4. turn.record \in Record /\ Len(turn.record.puts) \in Nat BY <1>2, EntriesOfType
<1>5. last \in Nat /\ new \subseteq EntrySet
      /\ \A e \in new : e.seq \in Nat /\ last < e.seq /\ e.seq <= last + Len(turn.record.puts)
  BY <1>2, <1>4, EntriesOfType DEF ReadInv, DataOK, EntrySet
<1> HIDE DEF new
<1>6. log \in DOMAIN mems /\ imm # log /\ (imm # 0 => imm \in DOMAIN mems)
  BY <1>2 DEF ReadInv, MemsOK
<1>7. /\ DOMAIN mems' = DOMAIN mems /\ mems'[log] = mems[log] \cup new
      /\ \A n \in DOMAIN mems : n # log => mems'[n] = mems[n]
      /\ MemEntries(imm)' = MemEntries(imm)
  BY <1>1, <1>6 DEF MemEntries
<1>8. /\ mems[log] \subseteq EntrySet /\ MemEntries(imm) \subseteq EntrySet
  BY <1>2, OldNumbers
<1>9. Top = last /\ Top' = last + Len(turn.record.puts) BY <1>1, <1>3 DEF Top
<1>10. DataOK' BY <1>1, <1>5, <1>7 DEF ReadInv, DataOK
<1>11. QueueOK' BY <1>1, QueueFrame DEF ReadInv
<1>12. TurnOK' BY <1>1, <1>2, <1>3 DEF TurnOK
<1>13. MemsOK'
  <2>1. \A e \in mems'[log] : e.seq <= Top'
    <3>1. \A e \in mems[log] : e.seq <= last /\ e.seq \in Nat
      BY <1>2, <1>8, <1>9 DEF ReadInv, MemsOK, EntrySet
    <3> QED BY <1>4, <1>5, <1>7, <1>9, <3>1
  <2>2. \A e \in MemEntries(imm) : e.seq <= last /\ \A x \in mems'[log] : e.seq < x.seq
    <3>1. \A e \in MemEntries(imm) :
            e.seq \in Nat /\ e.seq <= last /\ \A x \in mems[log] : e.seq < x.seq
      BY <1>2, <1>8 DEF ReadInv, MemsOK, EntrySet
    <3> QED BY <1>5, <1>7, <3>1
  <2> QED BY <1>1, <1>2, <1>6, <1>7, <2>1, <2>2 DEF ReadInv, MemsOK
<1>14. TablesOK'
  <2>1. ASSUME NEW e, e.seq \in Nat, Old(e) PROVE Old(e)'
    <3>1. \A x \in new : e.seq < x.seq BY <1>5, <2>1 DEF Old
    <3> QED BY <1>1, <1>7, <2>1, <3>1 DEF Old
  <2>2. \A n \in DOMAIN tables : \A e \in tables[n] : e.seq \in Nat
    BY DEF ReadInv, DataOK, EntrySet
  <2>3. ASSUME NEW T, T \subseteq DOMAIN tables, OldTables(T) PROVE OldTables(T)'
    BY <1>1, <2>1, <2>2, <2>3 DEF OldTables
  <2>4. OldTables(current.tables)'
    <3>1. PICK T : T = current.tables OBVIOUS
    <3>2. OldTables(T)' BY <1>2, <2>3, <3>1 DEF ReadInv, TablesOK, FilesInv, FilesThere
    <3> QED BY <1>1, <3>1, <3>2 DEF OldTables
  <2>5. ASSUME merge.stage \in {"logging", "moving"} PROVE OldTables(edit.add)'
    <3>1. PICK T : T = edit.add OBVIOUS
    <3>2. OldTables(T)' BY <2>3, <2>5, <3>1 DEF ReadInv, TablesOK, FilesInv, MergeOK
    <3> QED BY <1>1, <3>1, <3>2 DEF OldTables
  <2> QED BY <1>1, <1>2, <1>7, <2>4, <2>5 DEF ReadInv, TablesOK
<1>15. DiskOK' BY <1>1, DiskFrame DEF ReadInv
<1>16. FreshOK' BY <1>1, FreshFrame DEF ReadInv
<1>17. ReadersOK'
  <2> SUFFICES ASSUME NEW r \in Readers, Active(r) PROVE ReaderOK(reading[r])'
    BY <1>1 DEF ReadersOK, Active
  <2>1. PICK g : g = reading[r] OBVIOUS
  <2>2. ReaderOK(g) BY <2>1 DEF ReadInv, ReadersOK
  <2>3. ASSUME NEW n \in DOMAIN mems
        PROVE  Visible(mems'[n], g.key, g.seq) = Visible(mems[n], g.key, g.seq)
    <3>1. CASE n # log BY <1>7, <3>1
    <3>2. CASE n = log
      <4>1. \A e \in new : ~ (e.seq <= g.seq) BY <1>5, <2>2 DEF ReaderOK
      <4> QED BY <1>7, <3>2, <4>1 DEF Visible
    <3> QED BY <3>1, <3>2
  <2>4. g.mem \in DOMAIN mems /\ (g.imm # 0 => g.imm \in DOMAIN mems) BY <2>2 DEF ReaderOK
  <2>5. last' \in Nat /\ last <= last' BY <1>1, <1>5
  <2>6. \A n \in {g.mem, g.imm} \ {0} :
          n \in DOMAIN mems' /\ Visible(mems'[n], g.key, g.seq) = Visible(mems[n], g.key, g.seq)
    BY <1>7, <2>3, <2>4
  <2>7. \A n \in g.version.tables : tables'[n] = tables[n] BY <1>1
  <2>8. ReaderOK(g)' BY <1>5, <2>2, <2>5, <2>6, <2>7, ReaderKept
  <2> QED BY <1>1, <2>1, <2>8
<1> QED BY <1>10, <1>11, <1>12, <1>13, <1>14, <1>15, <1>16, <1>17 DEF ReadInv

(* ... and the numbers of the group are used up.                           *)
LEMMA FinishRead ==
  ASSUME FilesInv, ReadInv, Finish
  PROVE  ReadInv'
<1> USE DEF disk, versions, memory, background, clients, history, bounds
<1>1. /\ turn.stage \in {"finish", "syncError"} /\ turn' = Idle
      /\ last' = last + Len(turn.record.puts) /\ Leave(turn.size)
      /\ UNCHANGED <<disk, phase, memory, current, next, flush, merge, reading, batches>>
  BY DEF Finish, SetLastSequence
<1>2. turn \in [stage : Stages, size : 1..Len(queue), ok : BOOLEAN, record : Record] /\ phase = "up"
  BY <1>1 DEF ReadInv, TurnOK
<1>3. Len(turn.record.puts) \in Nat /\ last \in Nat BY <1>2, EntriesOfType DEF ReadInv, DataOK
<1>4. last' \in Nat /\ last <= last' BY <1>1, <1>3
<1>5. Top <= last' /\ Top' = last' /\ Top \in Nat BY <1>1, <1>3, <1>4 DEF Top, Idle
<1>6. /\ mems[log] \subseteq EntrySet /\ MemEntries(imm) \subseteq EntrySet
  BY <1>2, OldNumbers
<1>7. DataOK' BY <1>1, <1>4 DEF ReadInv, DataOK
<1>8. QueueOK' BY <1>1, <1>2, LeaveKeeps DEF ReadInv
<1>9. TurnOK' BY <1>1 DEF TurnOK, Idle
<1>10. MemsOK'
  <2>1. \A e \in mems[log] : e.seq \in Nat /\ e.seq <= Top
    BY <1>2, <1>6 DEF ReadInv, MemsOK, EntrySet
  <2>2. \A e \in MemEntries(imm) : e.seq \in Nat /\ e.seq <= last
    BY <1>2, <1>6 DEF ReadInv, MemsOK, EntrySet
  <2>3. \A e \in mems[log] : e.seq <= Top' BY <1>4, <1>5, <2>1
  <2>4. \A e \in MemEntries(imm) : e.seq <= last' BY <1>3, <1>4, <2>2
  <2> QED BY <1>1, <1>2, <2>3, <2>4 DEF ReadInv, MemsOK, MemEntries
<1>11. TablesOK'
  <2>1. ASSUME NEW e, e.seq \in Nat, Old(e) PROVE Old(e)'
    BY <1>1, <1>3, <1>4, <2>1 DEF Old, MemEntries
  <2>2. \A n \in DOMAIN tables : \A e \in tables[n] : e.seq \in Nat
    BY DEF ReadInv, DataOK, EntrySet
  <2>3. ASSUME NEW T, T \subseteq DOMAIN tables, OldTables(T) PROVE OldTables(T)'
    BY <1>1, <2>1, <2>2, <2>3 DEF OldTables
  <2>4. OldTables(current.tables)'
    <3>1. PICK T : T = current.tables OBVIOUS
    <3>2. OldTables(T)' BY <1>2, <2>3, <3>1 DEF ReadInv, TablesOK, FilesInv, FilesThere
    <3> QED BY <1>1, <3>1, <3>2 DEF OldTables
  <2>5. ASSUME merge.stage \in {"logging", "moving"} PROVE OldTables(edit.add)'
    <3>1. PICK T : T = edit.add OBVIOUS
    <3>2. OldTables(T)' BY <2>3, <2>5, <3>1 DEF ReadInv, TablesOK, FilesInv, MergeOK
    <3> QED BY <1>1, <3>1, <3>2 DEF OldTables
  <2>6. MemEntries(imm)' = MemEntries(imm) BY <1>1 DEF MemEntries
  <2> QED BY <1>1, <1>2, <2>4, <2>5, <2>6 DEF ReadInv, TablesOK
<1>12. DiskOK' BY <1>1, <1>3, <1>4 DEF ReadInv, DiskOK, Below
<1>13. FreshOK' BY <1>1, FreshFrame DEF ReadInv
<1>14. ReadersOK'
  <2> SUFFICES ASSUME NEW r \in Readers, Active(r) PROVE ReaderOK(reading[r])'
    BY <1>1 DEF ReadersOK, Active
  <2>1. PICK g : g = reading[r] OBVIOUS
  <2>2. ReaderOK(g) BY <2>1 DEF ReadInv, ReadersOK
  <2>3. g.mem \in DOMAIN mems /\ (g.imm # 0 => g.imm \in DOMAIN mems) BY <2>2 DEF ReaderOK
  <2>4. \A n \in {g.mem, g.imm} \ {0} :
          n \in DOMAIN mems' /\ Visible(mems'[n], g.key, g.seq) = Visible(mems[n], g.key, g.seq)
    BY <1>1, <2>3
  <2>5. \A n \in g.version.tables : tables'[n] = tables[n] BY <1>1
  <2>6. ReaderOK(g)' BY <1>3, <1>4, <2>2, <2>4, <2>5, ReaderKept
  <2> QED BY <1>1, <2>1, <2>6
<1> QED BY <1>7, <1>8, <1>9, <1>10, <1>11, <1>12, <1>13, <1>14 DEF ReadInv

-----------------------------------------------------------------------------
(* Readers.  Newer layers hide older ones, so that looking in them one     *)
(* after the other is looking in all of them at once.                      *)
LEMMA AllInLayers ==
  ASSUME FilesInv, ReadInv, phase # "down",
         NEW get, get.mem = log, get.imm = imm, get.version = current
  PROVE  InLayers(get) = Find(All, get.key, get.seq)
<1> DEFINE A == mems[log]
           B == MemEntries(imm)
           C == TableEntries(current.tables)
<1>1. A \subseteq EntrySet /\ B \subseteq EntrySet BY OldNumbers
<1>2. \A f \in C : f \in EntrySet /\ Old(f)
  BY OldNumbers DEF TableEntries, ReadInv, TablesOK, OldTables
<1>3. \A e \in A \cup B, f \in C : f.seq < e.seq BY <1>2 DEF Old
<1>4. \A e \in A, f \in B : f.seq < e.seq BY DEF ReadInv, MemsOK
<1>5. All = A \cup (B \cup C) BY DEF All
<1>6. InLayers(get) =
        IF Visible(A, get.key, get.seq) # {} THEN Newest(Visible(A, get.key, get.seq)).write
        ELSE IF Visible(B, get.key, get.seq) # {} THEN Newest(Visible(B, get.key, get.seq)).write
        ELSE Find(C, get.key, get.seq)
  BY DEF InLayers, InTables
<1> HIDE DEF A, B, C
<1>7. \A e \in A \cup B \cup C : e.seq \in Nat BY <1>1, <1>2 DEF EntrySet
<1>8. Find(B \cup C, get.key, get.seq) =
        IF Visible(B, get.key, get.seq) # {} THEN Newest(Visible(B, get.key, get.seq)).write
        ELSE Find(C, get.key, get.seq)
  <2>1. \A e \in B \cup C : e.seq \in Nat BY <1>7
  <2>2. \A e \in B, f \in C : f.seq < e.seq BY <1>3
  <2> QED BY <2>1, <2>2, FindAbove
<1>9. Find(A \cup (B \cup C), get.key, get.seq) =
        IF Visible(A, get.key, get.seq) # {} THEN Newest(Visible(A, get.key, get.seq)).write
        ELSE Find(B \cup C, get.key, get.seq)
  <2>1. \A e \in A \cup (B \cup C) : e.seq \in Nat BY <1>7
  <2>2. \A e \in A, f \in B \cup C : f.seq < e.seq BY <1>3, <1>4
  <2> QED BY <2>1, <2>2, FindAbove
<1> QED BY <1>5, <1>6, <1>8, <1>9

(* DBImpl::Get takes its number, memtables and version with the mutex held.*)
LEMMA GetBeginsRead ==
  ASSUME FilesInv, ReadInv, NEW r \in Readers, NEW k \in Keys, NEW seq \in 0..last,
         GetBegins(r, k, seq)
  PROVE  ReadInv'
<1> USE DEF disk, versions, memory, background, clients, history, bounds
<1> DEFINE new == [stage |-> "mems", key |-> k, seq |-> seq, mem |-> log, imm |-> imm,
                   version |-> current, expected |-> Find(All, k, seq), got |-> -1]
<1>1. /\ phase = "up" /\ reading' = [reading EXCEPT ![r] = new]
      /\ UNCHANGED <<disk, phase, memory, versions, background, snapshot, queue, request, turn, history>>
  BY DEF GetBegins
<1>2. PICK g : g = new OBVIOUS
<1>3. /\ g.stage = "mems" /\ g.key = k /\ g.seq = seq /\ g.mem = log /\ g.imm = imm
      /\ g.version = current /\ g.expected = Find(All, k, seq) /\ g.got = -1
      /\ DOMAIN g = {"stage", "key", "seq", "mem", "imm", "version", "expected", "got"}
  BY <1>2
<1> HIDE DEF new
<1>4. DOMAIN reading = Readers BY DEF FilesInv, PhasesOK
<1>5. reading'[r] = g /\ \A q \in Readers : q # r => reading'[q] = reading[q]
  BY <1>1, <1>2, <1>4
<1>6. ReaderOK(g)
  <2>1. InLayers(g) = g.expected BY <1>1, <1>3, AllInLayers
  <2>2. g.seq \in Nat /\ g.seq <= last BY <1>3, OldNumbers
  <2>3. log # 0 /\ log \in DOMAIN mems /\ (imm # 0 => imm \in DOMAIN mems)
    BY <1>1 DEF ReadInv, MemsOK
  <2> QED BY <1>3, <2>1, <2>2, <2>3 DEF ReaderOK
<1>7. ReadersOK'
  <2> SUFFICES ASSUME NEW q \in Readers, Active(q)' PROVE ReaderOK(reading[q])'
    BY DEF ReadersOK
  <2>1. PICK h : h = reading'[q] OBVIOUS
  <2>2. ReaderOK(h) BY <1>5, <1>6, <2>1 DEF ReadInv, ReadersOK, Active
  <2>3. ReaderOK(h)' BY <1>1, <2>2 DEF ReaderOK, InLayers, InTables, MemEntries, TableEntries
  <2> QED BY <2>1, <2>3
<1>8. FreshOK' BY <1>1, <1>3, <1>5 DEF ReadInv, FreshOK, Free, Active
<1>9. DataOK' BY <1>1, DataFrame DEF ReadInv
<1>10. QueueOK' /\ TurnOK' BY <1>1, QueueFrame, TurnFrame DEF ReadInv
<1>11. MemsOK' BY <1>1, MemsFrame DEF ReadInv
<1>12. TablesOK' BY <1>1, TablesFrame DEF ReadInv
<1>13. DiskOK' BY <1>1, DiskFrame DEF ReadInv
<1> QED BY <1>7, <1>8, <1>9, <1>10, <1>11, <1>12, <1>13 DEF ReadInv

(* ... and looks in them without it.                                       *)
LEMMA LookingRead ==
  ASSUME FilesInv, ReadInv, NEW r \in Readers, GetInMems(r) \/ GetInTables(r)
  PROVE  ReadInv'
<1> USE DEF disk, versions, memory, background, clients, history, bounds
<1>1. UNCHANGED <<disk, phase, memory, versions, background, snapshot, queue, request, turn, history>>
  BY DEF GetInMems, GetInTables
<1>2. DOMAIN reading = Readers BY DEF FilesInv, PhasesOK
<1>3. PICK get : get = reading[r] OBVIOUS
<1>4. get.stage \in {"mems", "tables"} BY <1>3 DEF GetInMems, GetInTables
<1>5. ReaderOK(get) BY <1>3, <1>4 DEF ReadInv, ReadersOK, Active
<1>6. PICK h : h = reading'[r] OBVIOUS
<1>7. ReaderOK(h) /\ h.version = get.version
  <2>1. CASE GetInMems(r)
    <3> DEFINE first == Visible(mems[get.mem], get.key, get.seq)
               second == Visible(MemEntries(get.imm), get.key, get.seq)
               found == IF first # {} THEN first ELSE second
    <3>1. get.stage = "mems" BY <1>3, <2>1 DEF GetInMems
    <3>2. get.expected = (IF found = {} THEN InTables(get) ELSE Newest(found).write)
          /\ get.got = -1
      BY <1>5, <3>1 DEF ReaderOK, InLayers
    <3>3. h = IF found = {} THEN [get EXCEPT !.stage = "tables"]
              ELSE [get EXCEPT !.stage = "done", !.got = Newest(found).write]
      BY <1>2, <1>3, <1>6, <2>1 DEF GetInMems
    <3>4. PICK w : w = Newest(found).write OBVIOUS
    <3>5. CASE found = {}
      <4>1. h = [get EXCEPT !.stage = "tables"] BY <3>3, <3>5
      <4>2. InTables(get) = get.expected BY <3>2, <3>5
      <4> HIDE DEF found
      <4> QED BY <1>5, <3>2, <4>1, <4>2 DEF ReaderOK, InTables
    <3>6. CASE found # {}
      <4>1. h = [get EXCEPT !.stage = "done", !.got = w] BY <3>3, <3>4, <3>6
      <4>2. w = get.expected BY <3>2, <3>4, <3>6
      <4> HIDE DEF found
      <4> QED BY <1>5, <4>1, <4>2 DEF ReaderOK
    <3> QED BY <3>5, <3>6
  <2>2. CASE GetInTables(r)
    <3>1. get.stage = "tables" BY <1>3, <2>2 DEF GetInTables
    <3>2. PICK w : w = InTables(get) OBVIOUS
    <3>3. h = [get EXCEPT !.stage = "seeked", !.got = w]
      BY <1>2, <1>3, <1>6, <2>2, <3>2 DEF GetInTables, InTables
    <3>4. w = get.expected BY <1>5, <3>1, <3>2 DEF ReaderOK
    <3> QED BY <1>5, <3>3, <3>4 DEF ReaderOK
  <2> QED BY <2>1, <2>2
<1>8. \A q \in Readers : q # r => reading'[q] = reading[q] BY <1>2 DEF GetInMems, GetInTables
<1>9. ReadersOK'
  <2> SUFFICES ASSUME NEW q \in Readers, Active(q)' PROVE ReaderOK(reading[q])'
    BY DEF ReadersOK
  <2>1. PICK x : x = reading'[q] OBVIOUS
  <2>2. ReaderOK(x) BY <1>6, <1>7, <1>8, <2>1 DEF ReadInv, ReadersOK, Active
  <2>3. ReaderOK(x)' BY <1>1, <2>2 DEF ReaderOK, InLayers, InTables, MemEntries, TableEntries
  <2> QED BY <2>1, <2>3
<1>10. FreshOK'
  <2>1. \A q \in Readers : Active(q)' => Active(q) /\ reading'[q].version = reading[q].version
    BY <1>3, <1>4, <1>6, <1>7, <1>8 DEF Active
  <2> QED BY <1>1, <2>1 DEF ReadInv, FreshOK, Free
<1>11. DataOK' BY <1>1, DataFrame DEF ReadInv
<1>12. QueueOK' /\ TurnOK' BY <1>1, QueueFrame, TurnFrame DEF ReadInv
<1>13. MemsOK' BY <1>1, MemsFrame DEF ReadInv
<1>14. TablesOK' BY <1>1, TablesFrame DEF ReadInv
<1>15. DiskOK' BY <1>1, DiskFrame DEF ReadInv
<1> QED BY <1>9, <1>10, <1>11, <1>12, <1>13, <1>14, <1>15 DEF ReadInv

(* Memtables nobody refers to go.                                          *)
LEMMA GetEndsRead ==
  ASSUME FilesInv, ReadInv, NEW r \in Readers, GetEnds(r)
  PROVE  ReadInv'
<1> USE DEF disk, versions, memory, background, clients, history, bounds
<1>1. /\ reading' = [reading EXCEPT ![r] = Idle] /\ reading[r].stage \in {"done", "seeked"}
      /\ mems' = [m \in DOMAIN mems \cap KeptMems(log, imm, InUse(Readers \ {r})) |-> mems[m]]
      /\ UNCHANGED <<disk, phase, log, imm, current, next, last, flush, merge, queue, request, turn,
                     batches>>
  BY DEF GetEnds, Unused
<1>2. DOMAIN reading = Readers /\ phase = "up"
  BY <1>1 DEF FilesInv, PhasesOK, Quiet, Idle
<1>3. /\ ~ Active(r)'
      /\ \A q \in Readers : q # r => reading'[q] = reading[q]
  BY <1>1, <1>2 DEF Active, Idle
<1>4. log # 0 /\ log \in DOMAIN mems /\ (imm # 0 => imm \in DOMAIN mems)
  BY <1>2 DEF ReadInv, MemsOK
<1>5. log \in DOMAIN mems' /\ (imm # 0 => imm \in DOMAIN mems')
  BY <1>1, <1>4 DEF KeptMems
<1>6. \A n \in DOMAIN mems' : n \in DOMAIN mems /\ mems'[n] = mems[n] BY <1>1
<1>7. mems'[log] = mems[log] /\ MemEntries(imm)' = MemEntries(imm)
  BY <1>1, <1>5, <1>6 DEF MemEntries
<1>8. ReadersOK'
  <2> SUFFICES ASSUME NEW q \in Readers, Active(q)' PROVE ReaderOK(reading[q])'
    BY DEF ReadersOK
  <2>1. PICK g : g = reading[q] OBVIOUS
  <2>2. q # r /\ reading'[q] = g /\ Active(q) BY <1>3, <2>1 DEF Active
  <2>3. ReaderOK(g) BY <2>1, <2>2 DEF ReadInv, ReadersOK
  <2>4. q \in InUse(Readers \ {r}) BY <2>2 DEF InUse, Active
  <2>5. {g.mem, g.imm} \ {0} \subseteq KeptMems(log, imm, InUse(Readers \ {r}))
    BY <2>1, <2>4 DEF KeptMems
  <2>6. {g.mem, g.imm} \ {0} \subseteq DOMAIN mems BY <2>3 DEF ReaderOK
  <2>7. \A n \in {g.mem, g.imm} \ {0} :
          n \in DOMAIN mems' /\ Visible(mems'[n], g.key, g.seq) = Visible(mems[n], g.key, g.seq)
    BY <1>1, <2>5, <2>6
  <2>8. last \in Nat /\ last' \in Nat /\ last <= last' BY <1>1 DEF ReadInv, DataOK
  <2>9. \A n \in g.version.tables : tables'[n] = tables[n] BY <1>1
  <2>10. ReaderOK(g)' BY <2>3, <2>7, <2>8, <2>9, ReaderKept
  <2> QED BY <2>2, <2>10
<1>9. DataOK' BY <1>1, <1>6 DEF ReadInv, DataOK
<1>10. QueueOK' /\ TurnOK' BY <1>1, QueueFrame, TurnFrame DEF ReadInv
<1>11. MemsOK' BY <1>1, <1>2, <1>5, <1>7 DEF ReadInv, MemsOK, Top
<1>12. TablesOK' BY <1>1, <1>7 DEF ReadInv, TablesOK, OldTables, Old
<1>13. DiskOK' BY <1>1, DiskFrame DEF ReadInv
<1>14. FreshOK'
  <2>1. \A q \in Readers : Active(q)' => Active(q) /\ reading'[q] = reading[q]
    BY <1>3 DEF Active
  <2> QED BY <1>1, <2>1 DEF ReadInv, FreshOK, Free
<1> QED BY <1>8, <1>9, <1>10, <1>11, <1>12, <1>13, <1>14 DEF ReadInv

-----------------------------------------------------------------------------
(* The background thread.  Whatever the MANIFEST may say after the edit    *)
(* that is being written is as sound as what it says now.                  *)
LEMMA OnDiskSound ==
  ASSUME FilesInv, ReadInv, NEW m \in OnDisk
  PROVE  /\ m.last \in Nat /\ m.next \in Nat /\ Below(m.version.tables, m.next, m.last)
         /\ phase # "down" => m.next <= next /\ m.last <= last /\ Free(m.version.tables)
<1>1. CASE m \in manifest
  BY <1>1 DEF FilesInv, NumbersOK, ReadInv, DiskOK, FreshOK
<1>2. CASE m \notin manifest
  <2>1. edit.kind = "edit" /\ m \in Edited(edit)
    BY <1>2 DEF OnDisk, FilesInv, NumbersOK
  <2>2. PICK old \in manifest : m = Apply(edit, old) BY <2>1 DEF Edited
  <2>3. /\ m.version.tables \subseteq old.version.tables \cup edit.add
        /\ m.next = edit.next /\ m.last = edit.last
    BY <2>2 DEF Apply, Version
  <2>4. phase # "down" /\ edit.last \in Nat /\ edit.last <= last /\ edit.next <= next
        /\ edit.next \in Nat
    BY <2>1 DEF ReadInv, DiskOK, FilesInv, NumbersOK
  <2>5. old.next \in Nat /\ old.last \in Nat /\ old.next <= edit.next /\ old.last <= edit.last
    BY <2>1 DEF ReadInv, DiskOK, FilesInv, NumbersOK
  <2>6. old.version.tables \subseteq DOMAIN tables /\ edit.add \subseteq DOMAIN tables
    BY <2>1 DEF FilesInv, FilesThere, EditThere
  <2>7. ASSUME NEW t \in m.version.tables
        PROVE  t \in Nat /\ t < m.next /\ \A e \in tables[t] : e.seq <= m.last
    <3>1. \A e \in tables[t] : e.seq \in Nat BY <2>3, <2>6 DEF ReadInv, DataOK, EntrySet
    <3>2. CASE t \in edit.add BY <2>1, <2>3, <3>2 DEF ReadInv, DiskOK, Below
    <3>3. CASE t \in old.version.tables
      <4>1. t \in Nat /\ t < old.next /\ \A e \in tables[t] : e.seq <= old.last
        BY <3>3 DEF ReadInv, DiskOK, Below
      <4> QED BY <2>3, <2>4, <2>5, <3>1, <4>1
    <3> QED BY <2>3, <3>2, <3>3
  <2>8. Free(m.version.tables) BY <2>1, <2>3, <2>4 DEF ReadInv, FreshOK, Free
  <2> QED BY <2>3, <2>4, <2>7, <2>8 DEF Below
<1> QED BY <1>1, <1>2

(* The tables that are left have the entries they had.                     *)
Swept == \A n \in DOMAIN tables' : n \in DOMAIN tables /\ tables'[n] = tables[n]

(* When an edit is done the MANIFEST says only what it said or the edit did.*)
LEMMA EditDone ==
  ASSUME FilesInv, FilesInv', ReadInv, phase # "down", Said, edit' = NoEdit,
         UNCHANGED <<next, last, reading>>, Swept,
         flush'.stage = "building" => flush' = flush,
         merge'.stage = "writing" => merge' = merge,
         current'.tables \subseteq current.tables \cup (IF edit.kind = "edit" THEN edit.add ELSE {})
  PROVE  DiskOK' /\ FreshOK'
<1>1. \A T : Free(T) => Free(T)' BY DEF Free
<1>2. ASSUME NEW m \in manifest'
      PROVE  /\ m.last \in Nat /\ Below(m.version.tables, m.next, m.last)'
             /\ m.next <= next' /\ m.last <= last' /\ Free(m.version.tables)'
  <2>1. PICK n \in OnDisk : Like(m, n) BY <1>2 DEF Said
  <2>4. /\ n.last \in Nat /\ Below(n.version.tables, n.next, n.last)
        /\ n.next <= next /\ n.last <= last /\ Free(n.version.tables)
    BY OnDiskSound
  <2>2. /\ m.last \in Nat /\ Below(m.version.tables, m.next, m.last)
        /\ m.next <= next /\ m.last <= last /\ Free(m.version.tables)
    BY <2>1, <2>4 DEF Like
  <2>3. m.version.tables \subseteq DOMAIN tables' BY <1>2 DEF FilesInv, FilesThere
  <2> QED BY <1>1, <2>2, <2>3 DEF Below, Swept
<1>3. DiskOK' BY <1>2 DEF DiskOK, NoEdit
<1>4. Free(current.tables)'
  <2>1. PICK T : T = current'.tables OBVIOUS
  <2>2. Free(T) BY <2>1 DEF ReadInv, FreshOK, Free
  <2>3. Free(T)' BY <1>1, <2>2
  <2> QED BY <2>1, <2>3
<1>5. ASSUME NEW r \in Readers, Active(r)' PROVE Free(reading[r].version.tables)'
  <2>1. PICK T : T = reading[r].version.tables OBVIOUS
  <2>2. Free(T) BY <1>5, <2>1 DEF ReadInv, FreshOK, Active
  <2>3. Free(T)' BY <1>1, <2>2
  <2> QED BY <2>1, <2>3
<1>6. \A m \in manifest' : Free(m.version.tables)' BY <1>2
<1>7. edit'.kind # "edit" BY DEF NoEdit
<1>8. FreshOK' BY <1>4, <1>5, <1>6, <1>7 DEF FreshOK
<1> QED BY <1>3, <1>8

(* The memtables that readers hold are left as they are.                   *)
MemsHeld ==
  \A r \in InUse(Readers) : \A n \in {reading[r].mem, reading[r].imm} \ {0} :
     n \in DOMAIN mems => n \in DOMAIN mems' /\ mems'[n] = mems[n]

(* Deletions leave readers what they look at.                              *)
LEMMA ReadersGoOn ==
  ASSUME FilesInv', ReadInv, UNCHANGED <<last, reading>>, Swept, MemsHeld
  PROVE  ReadersOK'
<1> SUFFICES ASSUME NEW r \in Readers, Active(r) PROVE ReaderOK(reading[r])'
  BY DEF ReadersOK, Active
<1>1. PICK g : g = reading[r] OBVIOUS
<1>2. ReaderOK(g) BY <1>1 DEF ReadInv, ReadersOK
<1>3. \A n \in {g.mem, g.imm} \ {0} :
        n \in DOMAIN mems' /\ Visible(mems'[n], g.key, g.seq) = Visible(mems[n], g.key, g.seq)
  <2>1. r \in InUse(Readers) BY DEF InUse, Active
  <2>2. {g.mem, g.imm} \ {0} \subseteq DOMAIN mems BY <1>2 DEF ReaderOK
  <2> QED BY <1>1, <2>1, <2>2 DEF MemsHeld
<1>4. \A n \in g.version.tables : tables'[n] = tables[n]
  BY <1>1 DEF FilesInv, FilesThere, Swept, Active
<1>5. last \in Nat /\ last' \in Nat /\ last <= last' BY DEF ReadInv, DataOK
<1>6. ReaderOK(g)' BY <1>2, <1>3, <1>4, <1>5, ReaderKept
<1> QED BY <1>1, <1>6

(* A table that is written under a number nothing refers to.               *)
Beside(n) ==
  /\ \A T : Free(T) => n \notin T
  /\ \A t \in DOMAIN tables : t # n => t \in DOMAIN tables' /\ tables'[t] = tables[t]

(* A table nobody names yet is written.                                    *)
LEMMA TableAdded ==
  ASSUME FilesInv, ReadInv, phase # "down", NEW n, Beside(n),
         UNCHANGED <<manifest, current, reading, mems, log, imm, last>>
  PROVE  /\ \A m \in manifest : Below(m.version.tables, m.next, m.last)'
         /\ OldTables(current.tables)' /\ ReadersOK'
         /\ \A t \in current.tables : tables'[t] = tables[t]
<1>1. ASSUME NEW T, Free(T), T \subseteq DOMAIN tables PROVE \A t \in T : tables'[t] = tables[t]
  BY <1>1 DEF Beside
<1>2. \A m \in manifest : Below(m.version.tables, m.next, m.last)'
  <2> SUFFICES ASSUME NEW m \in manifest PROVE Below(m.version.tables, m.next, m.last)'
    OBVIOUS
  <2>1. PICK T : T = m.version.tables OBVIOUS
  <2>2. \A t \in T : tables'[t] = tables[t]
    BY <1>1, <2>1 DEF FilesInv, FilesThere, ReadInv, FreshOK
  <2>3. Below(T, m.next, m.last) BY <2>1 DEF ReadInv, DiskOK
  <2> QED BY <2>1, <2>2, <2>3 DEF Below
<1>3. \A t \in current.tables : tables'[t] = tables[t]
  <2>1. PICK T : T = current.tables OBVIOUS
  <2> QED BY <1>1, <2>1 DEF FilesInv, FilesThere, ReadInv, FreshOK
<1>4. OldTables(current.tables)'
  BY <1>3 DEF ReadInv, TablesOK, OldTables, Old, MemEntries
<1>5. ReadersOK'
  <2> SUFFICES ASSUME NEW r \in Readers, Active(r) PROVE ReaderOK(reading[r])'
    BY DEF ReadersOK, Active
  <2>1. PICK g : g = reading[r] OBVIOUS
  <2>2. ReaderOK(g) BY <2>1 DEF ReadInv, ReadersOK
  <2>3. \A t \in g.version.tables : tables'[t] = tables[t]
    <3>1. PICK T : T = g.version.tables OBVIOUS
    <3>2. Free(T) /\ T \subseteq DOMAIN tables
      BY <2>1, <3>1 DEF FilesInv, FilesThere, ReadInv, FreshOK, Active
    <3> QED BY <1>1, <3>1, <3>2
  <2>4. last \in Nat /\ last' \in Nat /\ last <= last' BY DEF ReadInv, DataOK
  <2>5. \A x \in {g.mem, g.imm} \ {0} :
          x \in DOMAIN mems' /\ Visible(mems'[x], g.key, g.seq) = Visible(mems[x], g.key, g.seq)
    BY <2>2 DEF ReaderOK
  <2>6. ReaderOK(g)' BY <2>2, <2>3, <2>4, <2>5, ReaderKept
  <2> QED BY <2>1, <2>6
<1> QED BY <1>2, <1>3, <1>4, <1>5

(* A memtable is written out.                                              *)
LEMMA FlushBeginsRead ==
  ASSUME FilesInv, ReadInv, FlushBegins
  PROVE  ReadInv'
<1> USE DEF disk, versions, memory, background, clients, history, bounds
<1>1. /\ imm # 0 /\ flush.stage = "none" /\ flush' = [stage |-> "building", number |-> next]
      /\ next' = next + 1
      /\ UNCHANGED <<disk, phase, memory, current, last, merge, queue, request, turn, reading, batches>>
  BY DEF FlushBegins
<1>2. next \in Nat /\ last \in Nat BY OldNumbers
<1>3. DataOK' BY <1>1, <1>2 DEF ReadInv, DataOK
<1>4. QueueOK' /\ TurnOK' BY <1>1, QueueFrame, TurnFrame DEF ReadInv
<1>5. MemsOK' BY <1>1 DEF ReadInv, MemsOK, MemEntries, Top
<1>6. TablesOK' BY <1>1 DEF ReadInv, TablesOK, OldTables, Old, MemEntries
<1>7. DiskOK' BY <1>1, <1>2 DEF ReadInv, DiskOK, Below, FilesInv, NumbersOK
<1>8. FreshOK'
  <2>1. \A T : Free(T) => Free(T)' BY <1>1, <1>2 DEF Free
  <2> QED BY <1>1, <2>1 DEF ReadInv, FreshOK, Active
<1>9. ReadersOK' BY <1>1, ReadersFrame DEF ReadInv
<1> QED BY <1>3, <1>4, <1>5, <1>6, <1>7, <1>8, <1>9 DEF ReadInv

(* The table of a memtable is written (WriteLevel0Table).                  *)
LEMMA FlushBuiltRead ==
  ASSUME FilesInv, ReadInv, FlushBuilt
  PROVE  ReadInv'
<1> USE DEF disk, versions, memory, background, clients, history, bounds
<1> DEFINE n == flush.number
<1>1. /\ flush.stage = "building" /\ flush' = [flush EXCEPT !.stage = "logging"]
      /\ tables' = With(tables, n, mems[imm])
      /\ edit'.kind = "edit" /\ edit'.add = {n} /\ edit'.next = next /\ edit'.last = last
      /\ UNCHANGED <<logs, manifest, phase, memory, current, next, last, merge, queue, request, turn,
                     reading, batches>>
  BY DEF FlushBuilt, LogEdit
<1>2. /\ n \in Nat /\ n < next /\ merge.stage \in {"none", "reading", "writing"}
      /\ flush'.stage = "logging" /\ flush'.number = n
      /\ (merge.stage = "writing" => merge.number # n)
  BY <1>1 DEF FilesInv, FlushOK, MergeOK, Idle
<1>3. phase = "up" BY <1>1 DEF FilesInv, PhasesOK, Quiet, Idle
<1>4. imm # 0 /\ imm \in DOMAIN mems /\ imm # log /\ MemEntries(imm) = mems[imm]
      /\ mems[imm] \subseteq EntrySet
  BY <1>1, <1>3 DEF ReadInv, MemsOK, MemEntries, DataOK
<1>5. /\ DOMAIN tables' = {n} \cup DOMAIN tables /\ tables'[n] = mems[imm]
      /\ \A t \in DOMAIN tables : t # n => tables'[t] = tables[t]
  BY <1>1 DEF With
<1>6. Beside(n) BY <1>1, <1>5 DEF Beside, Free
<1> HIDE DEF n
<1>7. /\ \A m \in manifest : Below(m.version.tables, m.next, m.last)'
      /\ OldTables(current.tables)' /\ ReadersOK'
      /\ \A t \in current.tables : tables'[t] = tables[t]
  BY <1>1, <1>3, <1>6, TableAdded
<1>8. DataOK' BY <1>1, <1>4, <1>5 DEF ReadInv, DataOK
<1>9. QueueOK' /\ TurnOK' BY <1>1, QueueFrame, TurnFrame DEF ReadInv
<1>10. MemsOK' BY <1>1, <1>4 DEF ReadInv, MemsOK, MemEntries, Top
<1>11. TablesOK'
  <2>1. tables'[flush'.number] \subseteq MemEntries(imm)' BY <1>1, <1>2, <1>4, <1>5 DEF MemEntries
  <2> QED BY <1>1, <1>2, <1>3, <1>7, <2>1 DEF ReadInv, TablesOK
<1>12. DiskOK'
  <2>1. \A e \in tables'[n] : e.seq <= last BY <1>3, <1>4, <1>5 DEF ReadInv, MemsOK
  <2>2. Below(edit.add, edit.next, edit.last)' BY <1>1, <1>2, <2>1 DEF Below
  <2>3. \A m \in manifest : m.next <= next /\ m.last <= last /\ m.last \in Nat
    BY <1>3 DEF ReadInv, DiskOK
  <2>4. last \in Nat /\ next \in Nat BY OldNumbers
  <2>5. edit'.add \subseteq DOMAIN tables' BY <1>1, <1>5
  <2> QED BY <1>1, <1>3, <1>7, <2>2, <2>3, <2>4, <2>5 DEF DiskOK
<1>13. FreshOK'
  <2>1. \A T : Free(T) => Free(T)' BY <1>1, <1>2 DEF Free
  <2>2. Free(edit.add)' BY <1>1, <1>2 DEF Free
  <2> QED BY <1>1, <1>3, <2>1, <2>2 DEF ReadInv, FreshOK, Active
<1> QED BY <1>7, <1>8, <1>9, <1>10, <1>11, <1>12, <1>13 DEF ReadInv

(* ... its edit is, and the memtable goes.                                 *)
LEMMA FlushLoggedRead ==
  ASSUME FilesInv, FilesInv', ReadInv, FlushLogged
  PROVE  ReadInv'
<1> USE DEF disk, versions, memory, background, clients, history, bounds
<1>1. /\ flush.stage = "logging" /\ flush' = Idle /\ Logged /\ edit' = NoEdit
      /\ current' = Installed.version /\ imm' = 0
      /\ mems' = [m \in DOMAIN mems \cap KeptMems(log, 0, InUse(Readers)) |-> mems[m]]
      /\ UNCHANGED <<phase, log, next, last, merge, queue, request, turn, reading, batches>>
      /\ \/ UNCHANGED logs /\ UNCHANGED tables
         \/ /\ \A n \in DOMAIN logs' : n \in DOMAIN logs /\ logs'[n] = logs[n]
            /\ \A n \in DOMAIN tables' : n \in DOMAIN tables /\ tables'[n] = tables[n]
  BY DEF FlushLogged, Sweep
<1>2. /\ edit.kind = "edit" /\ edit.add = {flush.number} /\ edit.drop = {}
      /\ merge.stage \in {"none", "reading", "writing"}
  BY <1>1 DEF FilesInv, FlushOK
<1>3. phase = "up" BY <1>1 DEF FilesInv, PhasesOK, Quiet, Idle
<1>4. current'.tables = current.tables \cup {flush.number}
  BY <1>1, <1>2 DEF Installed, Apply, Version
<1>5. Swept BY <1>1 DEF Swept
<1>6. /\ log # 0 /\ log \in DOMAIN mems' /\ mems'[log] = mems[log] /\ log \in DOMAIN mems
      /\ MemEntries(imm)' = {}
      /\ \A n \in DOMAIN mems' : n \in DOMAIN mems /\ mems'[n] = mems[n]
  BY <1>1, <1>3 DEF ReadInv, MemsOK, KeptMems, MemEntries
<1>7. DiskOK' /\ FreshOK'
  <2>1. Said BY <1>1, <1>2, ManifestWritten
  <2>2. flush'.stage # "building" BY <1>1 DEF Idle
  <2>3. current'.tables \subseteq current.tables \cup (IF edit.kind = "edit" THEN edit.add ELSE {})
    BY <1>2, <1>4
  <2> QED BY <1>1, <1>3, <1>5, <2>1, <2>2, <2>3, EditDone
<1>8. ReadersOK'
  <2>1. MemsHeld BY <1>1 DEF MemsHeld, KeptMems
  <2> QED BY <1>1, <1>5, <2>1, ReadersGoOn
<1>9. DataOK'
  <2>1. \A n \in DOMAIN logs' : n \in DOMAIN logs /\ logs'[n] = logs[n] BY <1>1
  <2> QED BY <1>1, <1>5, <1>6, <2>1 DEF ReadInv, DataOK, Swept
<1>10. QueueOK' /\ TurnOK' BY <1>1, QueueFrame, TurnFrame DEF ReadInv
<1>11. MemsOK' BY <1>1, <1>3, <1>6 DEF ReadInv, MemsOK, Top, Idle
<1>12. TablesOK'
  <2>1. \A e : Old(e) => Old(e)' BY <1>1, <1>6 DEF Old
  <2>2. \A n \in current'.tables : n \in DOMAIN tables' /\ tables'[n] = tables[n]
    BY <1>5 DEF FilesInv, FilesThere, Swept
  <2>3. ASSUME NEW e \in tables[flush.number] PROVE Old(e)'
    <3>1. e \in MemEntries(imm) BY <1>1 DEF ReadInv, TablesOK
    <3>2. e.seq <= last /\ \A x \in mems[log] : e.seq < x.seq BY <1>3, <3>1 DEF ReadInv, MemsOK
    <3> QED BY <1>1, <1>6, <3>2 DEF Old
  <2>4. \A n \in current.tables : \A e \in tables[n] : Old(e)
    BY <1>3 DEF ReadInv, TablesOK, OldTables
  <2>5. OldTables(current.tables)' BY <1>4, <2>1, <2>2, <2>3, <2>4 DEF OldTables
  <2> QED BY <1>1, <1>2, <1>3, <1>4, <2>5 DEF ReadInv, TablesOK, Idle
<1> QED BY <1>7, <1>8, <1>9, <1>10, <1>11, <1>12 DEF ReadInv

(* ... or it fails, at any point.                                          *)
LEMMA FlushFailsRead ==
  ASSUME FilesInv, FilesInv', ReadInv, FlushFails
  PROVE  ReadInv'
<1> USE DEF disk, versions, memory, background, clients, history, bounds
<1>1. /\ flush.stage # "none" /\ flush' = Idle /\ edit' = NoEdit
      /\ NotLogged \/ UNCHANGED manifest
      /\ UNCHANGED <<logs, tables, phase, memory, current, next, last, merge, queue, request, turn,
                     reading, batches>>
  BY DEF FlushFails
<1>2. phase = "up" /\ merge.stage \in {"none", "reading", "writing"}
  BY <1>1 DEF FilesInv, PhasesOK, Quiet, Idle, FlushOK
<1>3. DiskOK' /\ FreshOK'
  <2>1. Said
    <3>1. CASE flush.stage = "logging"
      <4>1. edit.kind = "edit" BY <3>1 DEF FilesInv, FlushOK
      <4> QED BY <1>1, <4>1, ManifestWritten
    <3>2. CASE flush.stage # "logging" BY <3>2 DEF FlushFails, Said, Like, OnDisk
    <3> QED BY <3>1, <3>2
  <2>2. flush'.stage # "building" BY <1>1 DEF Idle
  <2>3. Swept BY <1>1 DEF Swept
  <2>4. current'.tables \subseteq current.tables \cup (IF edit.kind = "edit" THEN edit.add ELSE {})
    BY <1>1
  <2> QED BY <1>1, <1>2, <2>1, <2>2, <2>3, <2>4, EditDone
<1>4. DataOK' BY <1>1, DataFrame DEF ReadInv
<1>5. QueueOK' /\ TurnOK' BY <1>1, QueueFrame, TurnFrame DEF ReadInv
<1>6. MemsOK' BY <1>1 DEF ReadInv, MemsOK, MemEntries, Top, Idle
<1>7. TablesOK' BY <1>1, <1>2 DEF ReadInv, TablesOK, OldTables, Old, MemEntries, Idle
<1>8. ReadersOK' BY <1>1, ReadersFrame DEF ReadInv
<1> QED BY <1>3, <1>4, <1>5, <1>6, <1>7, <1>8 DEF ReadInv

(* A merge: what it writes is in the tables it takes.                      *)
LEMMA MergeBeginsRead ==
  ASSUME FilesInv, ReadInv, TrivialMove \/ MergeBegins
  PROVE  ReadInv'
<1> USE DEF disk, versions, memory, background, clients, history, bounds
<1>1. /\ phase = "up" /\ flush.stage = "none" /\ merge.stage = "none"
      /\ UNCHANGED <<logs, tables, manifest, phase, memory, current, next, last, flush, queue, request,
                     turn, reading, batches>>
  BY DEF TrivialMove, MergeBegins, Merges, Called
<1>2. \/ merge'.stage = "reading" /\ "inputs" \in DOMAIN merge' /\ merge'.inputs \subseteq current.tables
         /\ UNCHANGED edit
      \/ /\ merge'.stage = "moving" /\ edit'.kind = "edit" /\ edit'.next = next /\ edit'.last = last
         /\ \E n \in current.tables : edit'.add = {n}
  <2>1. CASE TrivialMove
    <3>1. PICK n \in current.tables : LogEdit({n}, {n}, {}, logNumber) BY <2>1 DEF TrivialMove
    <3> QED BY <2>1, <3>1 DEF TrivialMove, LogEdit
  <2>2. CASE MergeBegins BY <2>2 DEF MergeBegins
  <2> QED BY <2>1, <2>2
<1>3. last \in Nat /\ next \in Nat BY OldNumbers
<1>4. Free(current.tables) /\ OldTables(current.tables)
  BY <1>1 DEF ReadInv, FreshOK, TablesOK
<1>5. DataOK' BY <1>1, DataFrame DEF ReadInv
<1>6. QueueOK' /\ TurnOK' BY <1>1, QueueFrame, TurnFrame DEF ReadInv
<1>7. MemsOK' BY <1>1, MemsFrame DEF ReadInv
<1>8. TablesOK' BY <1>1, <1>2, <1>4 DEF ReadInv, TablesOK, OldTables, Old, MemEntries
<1>9. DiskOK'
  <2>1. CASE UNCHANGED edit BY <1>1, <2>1, DiskFrame DEF ReadInv
  <2>2. CASE edit'.kind = "edit" /\ edit'.next = next /\ edit'.last = last
             /\ \E n \in current.tables : edit'.add = {n}
    <3>1. Below(edit.add, edit.next, edit.last)'
      BY <1>1, <1>4, <2>2 DEF Below, Free, OldTables, Old
    <3>2. \A m \in manifest : m.last \in Nat /\ Below(m.version.tables, m.next, m.last)'
      BY <1>1 DEF ReadInv, DiskOK, Below
    <3>3. edit'.add \subseteq DOMAIN tables' BY <1>1, <2>2 DEF FilesInv, FilesThere
    <3>4. \A m \in manifest : m.next <= next /\ m.last <= last BY <1>1 DEF ReadInv, DiskOK
    <3> QED BY <1>1, <1>3, <2>2, <3>1, <3>2, <3>3, <3>4 DEF DiskOK
  <2> QED BY <1>2, <2>1, <2>2
<1>10. FreshOK'
  <2>1. \A T : Free(T) => Free(T)' BY <1>1, <1>2 DEF Free
  <2>2. edit'.kind = "edit" => Free(edit.add)'
    <3>1. CASE UNCHANGED edit BY <1>1, <2>1, <3>1 DEF ReadInv, FreshOK
    <3>2. CASE \E n \in current.tables : edit'.add = {n}
      BY <1>1, <1>2, <1>4, <3>2 DEF Free
    <3> QED BY <1>2, <3>1, <3>2
  <2> QED BY <1>1, <2>1, <2>2 DEF ReadInv, FreshOK, Active
<1>11. ReadersOK' BY <1>1, ReadersFrame DEF ReadInv
<1> QED BY <1>5, <1>6, <1>7, <1>8, <1>9, <1>10, <1>11 DEF ReadInv

(* A merge opens its output.                                               *)
LEMMA OutputOpensRead ==
  ASSUME FilesInv, ReadInv, OutputOpens
  PROVE  ReadInv'
<1> USE DEF disk, versions, memory, background, clients, history, bounds
<1>1. /\ merge.stage = "reading" /\ flush.stage = "none"
      /\ merge' = [merge EXCEPT !.stage = "writing", !.number = next]
      /\ next' = next + 1 /\ tables' = With(tables, next, {})
      /\ UNCHANGED <<logs, manifest, edit, phase, memory, current, last, flush, queue, request, turn,
                     reading, batches>>
  BY DEF OutputOpens
<1>2. phase = "up" BY <1>1 DEF FilesInv, PhasesOK, Quiet, Idle
<1>3. next \in Nat /\ last \in Nat BY OldNumbers
<1>4. /\ DOMAIN merge' = DOMAIN merge /\ merge'.stage = "writing" /\ merge'.number = next
      /\ merge'.inputs = merge.inputs
  <2>1. {"stage", "number"} \subseteq DOMAIN merge BY <1>1 DEF FilesInv, MergeOK
  <2> QED BY <1>1, <2>1
<1>5. /\ DOMAIN tables' = {next} \cup DOMAIN tables /\ tables'[next] = {}
      /\ \A t \in DOMAIN tables : t # next => tables'[t] = tables[t]
  BY <1>1 DEF With
<1>6. Beside(next)
  <2>1. \A T : Free(T) => next \notin T BY <1>3 DEF Free
  <2> QED BY <1>5, <2>1 DEF Beside
<1>7. PICK n : n = next OBVIOUS
<1>8. /\ \A m \in manifest : Below(m.version.tables, m.next, m.last)'
      /\ OldTables(current.tables)' /\ ReadersOK'
  <2>1. Beside(n) BY <1>6, <1>7
  <2> QED BY <1>1, <1>2, <2>1, TableAdded
<1>9. DataOK' BY <1>1, <1>3, <1>5 DEF ReadInv, DataOK
<1>10. QueueOK' /\ TurnOK' BY <1>1, QueueFrame, TurnFrame DEF ReadInv
<1>11. MemsOK' BY <1>1, MemsFrame DEF ReadInv
<1>12. TablesOK' BY <1>1, <1>2, <1>4, <1>8 DEF ReadInv, TablesOK
<1>13. DiskOK'
  <2>1. edit.kind = "edit" => Below(edit.add, edit.next, edit.last)'
    <3>1. ASSUME edit.kind = "edit", NEW t \in edit.add PROVE t # next /\ t \in DOMAIN tables
      <4>1. Free(edit.add) /\ edit.add \subseteq DOMAIN tables
        BY <1>2, <3>1 DEF ReadInv, FreshOK, DiskOK
      <4> QED BY <1>3, <3>1, <4>1 DEF Free
    <3> QED BY <1>1, <1>5, <3>1 DEF ReadInv, DiskOK, Below
  <2>2. \A m \in manifest : m.next \in Nat BY DEF FilesInv, NumbersOK
  <2>3. edit.kind = "edit" => edit.next \in Nat BY DEF FilesInv, NumbersOK
  <2>4. edit.kind = "edit" => edit.add \subseteq DOMAIN tables' BY <1>5 DEF ReadInv, DiskOK
  <2> QED BY <1>1, <1>2, <1>3, <1>8, <2>1, <2>2, <2>3, <2>4 DEF ReadInv, DiskOK
<1>14. FreshOK'
  <2>1. \A T : Free(T) => Free(T)' BY <1>1, <1>3, <1>4 DEF Free
  <2> QED BY <1>1, <2>1 DEF ReadInv, FreshOK, Active
<1> QED BY <1>8, <1>9, <1>10, <1>11, <1>12, <1>13, <1>14 DEF ReadInv

(* ... and has written it.                                                 *)
LEMMA OutputWrittenRead ==
  ASSUME FilesInv, ReadInv, OutputWritten
  PROVE  ReadInv'
<1> USE DEF disk, versions, memory, background, clients, history, bounds
<1> DEFINE kept == Kept(TableEntries(merge.inputs), merge.smallest)
<1>1. /\ merge.stage = "writing" /\ flush.stage = "none"
      /\ merge' = [merge EXCEPT !.stage = "logging"]
      /\ tables' = [n \in DOMAIN tables |-> IF n = merge.number THEN kept ELSE tables[n]]
      /\ edit'.kind = "edit" /\ edit'.add = {merge.number} /\ edit'.next = next /\ edit'.last = last
      /\ UNCHANGED <<logs, manifest, phase, memory, current, next, last, flush, queue, request, turn,
                     reading, batches>>
  BY DEF OutputWritten, LogEdit
<1>2. phase = "up" BY <1>1 DEF FilesInv, PhasesOK, Quiet, Idle
<1>3. next \in Nat /\ last \in Nat BY OldNumbers
<1>4. PICK n : n = merge.number OBVIOUS
<1>5. /\ n \in DOMAIN tables /\ n \in Nat /\ n < next /\ "stage" \in DOMAIN merge
  BY <1>1, <1>4 DEF FilesInv, MergeOK
<1>6. merge'.stage = "logging" /\ merge'.number = n BY <1>1, <1>4, <1>5
<1>7. \A e \in kept : e \in EntrySet /\ Old(e)
  <2>1. merge.inputs \subseteq current.tables BY <1>1 DEF ReadInv, TablesOK
  <2>2. kept \subseteq TableEntries(merge.inputs) BY DEF Kept
  <2>3. \A e \in TableEntries(merge.inputs) : e \in EntrySet /\ Old(e)
    BY <1>2, <2>1, OldNumbers DEF TableEntries, ReadInv, TablesOK, OldTables
  <2> QED BY <2>2, <2>3
<1> HIDE DEF kept
<1>8. /\ DOMAIN tables' = DOMAIN tables /\ tables'[n] = kept
      /\ \A t \in DOMAIN tables : t # n => tables'[t] = tables[t]
  BY <1>1, <1>4, <1>5
<1>9. Beside(n)
  <2>1. \A T : Free(T) => n \notin T BY <1>1, <1>4 DEF Free
  <2> QED BY <1>8, <2>1 DEF Beside
<1>10. /\ \A m \in manifest : Below(m.version.tables, m.next, m.last)'
       /\ OldTables(current.tables)' /\ ReadersOK'
  BY <1>1, <1>2, <1>9, TableAdded
<1>11. DataOK' BY <1>1, <1>7, <1>8 DEF ReadInv, DataOK
<1>12. QueueOK' /\ TurnOK' BY <1>1, QueueFrame, TurnFrame DEF ReadInv
<1>13. MemsOK' BY <1>1, MemsFrame DEF ReadInv
<1>14. \A e \in kept : Old(e)' BY <1>1, <1>7 DEF Old, MemEntries
<1>15. TablesOK'
  <2>1. OldTables(edit.add)' BY <1>1, <1>4, <1>8, <1>14 DEF OldTables
  <2> QED BY <1>1, <1>2, <1>6, <1>10, <2>1 DEF ReadInv, TablesOK
<1>16. DiskOK'
  <2>1. Below(edit.add, edit.next, edit.last)' BY <1>1, <1>4, <1>5, <1>7, <1>8 DEF Below, Old
  <2>2. \A m \in manifest : m.next <= next /\ m.last <= last /\ m.last \in Nat
    BY <1>2 DEF ReadInv, DiskOK
  <2>3. edit'.add \subseteq DOMAIN tables' BY <1>1, <1>4, <1>5, <1>8
  <2> QED BY <1>1, <1>2, <1>3, <1>10, <2>1, <2>2, <2>3 DEF DiskOK
<1>17. FreshOK'
  <2>1. \A T : Free(T) => Free(T)' BY <1>1, <1>6 DEF Free
  <2>2. Free(edit.add)' BY <1>1, <1>4, <1>5, <1>6 DEF Free
  <2> QED BY <1>1, <1>2, <2>1, <2>2 DEF ReadInv, FreshOK, Active
<1> QED BY <1>10, <1>11, <1>12, <1>13, <1>15, <1>16, <1>17 DEF ReadInv

(* A merge's edit is written, or the merge fails.                          *)
LEMMA MergeEndsRead ==
  ASSUME FilesInv, FilesInv', ReadInv, MergeLogged \/ MergeFails
  PROVE  ReadInv'
<1> USE DEF disk, versions, memory, background, clients, history, bounds
<1>1. /\ merge.stage # "none" /\ merge' = Idle /\ edit' = NoEdit
      /\ Logged \/ NotLogged \/ UNCHANGED manifest
      /\ UNCHANGED <<phase, memory, next, last, flush, queue, request, turn, reading, batches>>
      /\ \A n \in DOMAIN logs' : n \in DOMAIN logs /\ logs'[n] = logs[n]
      /\ Swept
  BY DEF MergeLogged, MergeFails, Sweep, Swept
<1>2. phase = "up" BY <1>1 DEF FilesInv, PhasesOK, Quiet, Idle
<1>3. flush.stage = "none" BY DEF MergeLogged, MergeFails, FilesInv, FlushOK
<1>4. \/ UNCHANGED current
      \/ /\ current'.tables \subseteq current.tables \cup edit.add /\ edit.kind = "edit"
         /\ OldTables(edit.add)
  <2>1. CASE MergeFails BY <2>1 DEF MergeFails
  <2>2. CASE MergeLogged
    <3>1. edit.kind = "edit" BY <2>2 DEF MergeLogged, FilesInv, MergeOK
    <3>2. OldTables(edit.add) BY <2>2 DEF MergeLogged, ReadInv, TablesOK
    <3>3. current'.tables = (current.tables \ edit.drop) \cup edit.add
      BY <2>2 DEF MergeLogged, Installed, Apply, Version
    <3> QED BY <3>1, <3>2, <3>3
  <2> QED BY <2>1, <2>2
<1>5. DiskOK' /\ FreshOK'
  <2>1. Said
    <3>1. CASE merge.stage \in {"logging", "moving"}
      <4>1. edit.kind = "edit" BY <3>1 DEF FilesInv, MergeOK
      <4> QED BY <1>1, <4>1, ManifestWritten
    <3>2. CASE merge.stage \notin {"logging", "moving"}
      BY <3>2 DEF MergeLogged, MergeFails, Said, Like, OnDisk
    <3> QED BY <3>1, <3>2
  <2>2. merge'.stage # "writing" BY <1>1 DEF Idle
  <2>3. current'.tables \subseteq current.tables \cup (IF edit.kind = "edit" THEN edit.add ELSE {})
    BY <1>4
  <2> QED BY <1>1, <1>2, <2>1, <2>2, <2>3, EditDone
<1>6. ReadersOK'
  <2>1. MemsHeld BY <1>1 DEF MemsHeld
  <2> QED BY <1>1, <2>1, ReadersGoOn
<1>7. DataOK' BY <1>1 DEF ReadInv, DataOK, Swept
<1>8. QueueOK' /\ TurnOK' BY <1>1, QueueFrame, TurnFrame DEF ReadInv
<1>9. MemsOK' BY <1>1, MemsFrame DEF ReadInv
<1>10. TablesOK'
  <2>1. \A e : Old(e) => Old(e)' BY <1>1 DEF Old, MemEntries
  <2>2. \A n \in current'.tables : n \in DOMAIN tables' /\ tables'[n] = tables[n]
    BY <1>1 DEF FilesInv, FilesThere, Swept
  <2>3. \A n \in current'.tables : \A e \in tables[n] : Old(e)
    BY <1>2, <1>4 DEF ReadInv, TablesOK, OldTables
  <2>4. OldTables(current.tables)' BY <2>1, <2>2, <2>3 DEF OldTables
  <2> QED BY <1>1, <1>2, <1>3, <2>4 DEF TablesOK, Idle
<1> QED BY <1>5, <1>6, <1>7, <1>8, <1>9, <1>10 DEF ReadInv

-----------------------------------------------------------------------------
(* The machine stops, and the database is opened again.                    *)
LEMMA CrashRead ==
  ASSUME FilesInv, ReadInv, NEW c \in CrashKinds, Crash(c)
  PROVE  ReadInv'
<1>1. PICK m \in OnDisk : manifest' = {m} BY DEF Crash
<1>2. PICK keep \in [DOMAIN logs -> 0..MaxWrites] :
        /\ \A n \in DOMAIN logs : keep[n] \in Survives(c, logs[n])
        /\ logs' = [n \in DOMAIN logs |-> Cut(logs[n], keep[n])]
  BY DEF Crash
<1>3. /\ phase' = "down" /\ edit' = NoEdit /\ imm' = 0 /\ DOMAIN mems' = {} /\ next' = 2 /\ last' = 0
      /\ flush' = Idle /\ merge' = Idle /\ queue' = <<>> /\ turn' = Idle
      /\ request' = [w \in Writers |-> Idle] /\ reading' = [r \in Readers |-> Idle]
      /\ UNCHANGED <<tables, batches>>
  BY DEF Crash
<1>4. ASSUME NEW n \in DOMAIN logs
      PROVE  logs'[n] \in LogFile /\ logs'[n].torn <= Len(logs'[n].records) + 1
  <2>1. PICK l : l = logs[n] OBVIOUS
  <2>2. PICK k : k = keep[n] OBVIOUS
  <2>3. l \in [records : Seq(Record), synced : Nat, torn : Nat]
    BY <2>1 DEF ReadInv, DataOK, LogFile
  <2>4. Len(l.records) \in Nat /\ \A i \in 1..Len(l.records) : l.records[i] \in Record
    BY <2>3, LenProperties, ElementOfSeq
  <2>5. k \in Nat /\ k <= Len(l.records)
    <3>1. k \in Survives(c, l) BY <1>2, <2>1, <2>2
    <3>2. k \in Nat BY <2>3, <2>4, <3>1 DEF Survives
    <3> QED BY <2>3, <2>4, <3>1, <3>2 DEF Survives
  <2>6. PICK rs : rs = SubSeq(l.records, 1, k) OBVIOUS
  <2>7. rs \in Seq(Record) /\ Len(rs) = k
    <3>1. \A i \in 1..k : l.records[i] \in Record BY <2>4, <2>5
    <3>2. k \in Int /\ 1 \in Int BY <2>5
    <3>3. rs \in Seq(Record) /\ Len(rs) = (IF 1 <= k THEN k - 1 + 1 ELSE 0)
      BY <2>6, <3>1, <3>2, SubSeqProperties
    <3> QED BY <2>5, <3>3
  <2>8. logs'[n] = [l EXCEPT !.records = rs, !.torn = IF l.torn > k THEN 0 ELSE l.torn]
    BY <1>2, <2>1, <2>2, <2>6 DEF Cut
  <2>9. PICK t : t = IF l.torn > k THEN 0 ELSE l.torn OBVIOUS
  <2>10. t \in Nat /\ t <= k + 1 BY <2>3, <2>5, <2>9
  <2>11. logs'[n] = [l EXCEPT !.records = rs, !.torn = t] BY <2>8, <2>9
  <2>12. logs'[n] \in LogFile /\ logs'[n].records = rs /\ logs'[n].torn = t
    BY <2>3, <2>7, <2>10, <2>11 DEF LogFile
  <2> QED BY <2>7, <2>10, <2>12
<1>5. DataOK'
  <2>1. DOMAIN logs' = DOMAIN logs BY <1>2
  <2> QED BY <1>3, <1>4, <2>1 DEF ReadInv, DataOK
<1>6. QueueOK' BY <1>3, EmptySeq DEF QueueOK, Idle
<1>7. TurnOK' BY <1>3 DEF TurnOK, Idle
<1>8. MemsOK' BY <1>3 DEF MemsOK, Idle
<1>9. TablesOK' BY <1>3 DEF TablesOK, Idle
<1>10. DiskOK'
  <2>1. m.last \in Nat /\ Below(m.version.tables, m.next, m.last) BY <1>1, OnDiskSound
  <2> QED BY <1>1, <1>3, <2>1 DEF DiskOK, Below, NoEdit
<1>11. FreshOK' BY <1>3 DEF FreshOK
<1>12. ReadersOK' BY <1>3 DEF ReadersOK, Active, Idle
<1> QED BY <1>5, <1>6, <1>7, <1>8, <1>9, <1>10, <1>11, <1>12 DEF ReadInv

(* Opening takes what was recovered.                                       *)
LEMMA InstallRead ==
  ASSUME FilesInv, FilesInv', ReadInv, Install
  PROVE  ReadInv'
<1> USE DEF disk, versions, memory, background, clients, history, bounds
<1>1. /\ phase = "recovered" /\ phase' = "installed" /\ Logged /\ edit' = NoEdit
      /\ current' = Apply(edit, CHOOSE m \in manifest : TRUE).version
      /\ UNCHANGED <<logs, tables, memory, next, last, flush, merge, queue, request, turn, reading,
                     batches>>
  BY DEF Install
<1>2. /\ edit.kind = "edit" /\ Sole(current) /\ flush = Idle /\ merge = Idle
      /\ \A r \in Readers : reading[r] = Idle
  BY <1>1 DEF FilesInv, PhasesOK, Quiet
<1>3. PICK m : manifest = {m} /\ m.version = current BY <1>2 DEF Sole
<1>4. current'.tables \subseteq current.tables \cup edit.add BY <1>1, <1>3 DEF Apply, Version
<1>5. DiskOK' /\ FreshOK'
  <2>1. Said BY <1>1, <1>2, ManifestWritten
  <2>2. Swept BY <1>1 DEF Swept
  <2>3. current'.tables \subseteq current.tables \cup (IF edit.kind = "edit" THEN edit.add ELSE {})
    BY <1>2, <1>4
  <2> QED BY <1>1, <2>1, <2>2, <2>3, EditDone
<1>6. DataOK' BY <1>1, DataFrame DEF ReadInv
<1>7. QueueOK' BY <1>1, QueueFrame DEF ReadInv
<1>8. TurnOK' BY <1>1 DEF ReadInv, TurnOK
<1>9. MemsOK' BY <1>1 DEF ReadInv, MemsOK, MemEntries, Top
<1>10. TablesOK'
  <2>1. OldTables(edit.add) /\ OldTables(current.tables) BY <1>1 DEF ReadInv, TablesOK
  <2>2. OldTables(current.tables)' BY <1>1, <1>4, <2>1 DEF OldTables, Old, MemEntries
  <2> QED BY <1>1, <1>2, <2>2 DEF TablesOK, Idle
<1>11. ReadersOK' BY <1>1, ReadersFrame DEF ReadInv
<1> QED BY <1>5, <1>6, <1>7, <1>8, <1>9, <1>10, <1>11 DEF ReadInv

(* Files nobody needs are deleted as the database opens.                   *)
LEMMA ReadyRead ==
  ASSUME FilesInv, FilesInv', ReadInv, Ready
  PROVE  ReadInv'
<1> USE DEF disk, versions, memory, background, clients, history, bounds
<1>1. /\ phase = "installed" /\ phase' = "up" /\ Swept
      /\ \A n \in DOMAIN logs' : n \in DOMAIN logs /\ logs'[n] = logs[n]
      /\ UNCHANGED <<manifest, edit, current, memory, next, last, flush, merge, queue, request, turn,
                     reading, batches>>
  BY DEF Ready, Sweep, Swept
<1>2. /\ edit = NoEdit /\ flush = Idle /\ merge = Idle
      /\ \A r \in Readers : reading[r] = Idle
  BY <1>1 DEF FilesInv, PhasesOK, Quiet
<1>3. DiskOK' /\ FreshOK'
  <2>1. Said BY <1>1 DEF Said, Like, OnDisk
  <2>2. current'.tables \subseteq current.tables \cup (IF edit.kind = "edit" THEN edit.add ELSE {})
    BY <1>1
  <2> QED BY <1>1, <1>2, <2>1, <2>2, EditDone
<1>4. DataOK' BY <1>1 DEF ReadInv, DataOK, Swept
<1>5. QueueOK' BY <1>1, QueueFrame DEF ReadInv
<1>6. TurnOK' BY <1>1 DEF ReadInv, TurnOK
<1>7. MemsOK' BY <1>1 DEF ReadInv, MemsOK, MemEntries, Top
<1>8. TablesOK'
  <2>1. \A n \in current'.tables : n \in DOMAIN tables' /\ tables'[n] = tables[n]
    BY <1>1 DEF FilesInv, FilesThere, Swept
  <2>2. OldTables(current.tables)'
    BY <1>1, <2>1 DEF ReadInv, TablesOK, OldTables, Old, MemEntries
  <2> QED BY <1>1, <1>2, <2>2 DEF TablesOK, Idle
<1>9. ReadersOK' BY <1>1, <1>2 DEF ReadersOK, Active, Idle
<1> QED BY <1>3, <1>4, <1>5, <1>6, <1>7, <1>8, <1>9 DEF ReadInv

(* What is read back of a log is whole records.                            *)
LEMMA ReadableType ==
  ASSUME NEW l \in LogFile, l.torn <= Len(l.records) + 1, NEW got \in Readable(l)
  PROVE  got \in Seq(Record)
<1>1. l.records \in Seq(Record) /\ l.torn \in Nat BY DEF LogFile
<1>2. Len(l.records) \in Nat /\ \A i \in 1..Len(l.records) : l.records[i] \in Record
  BY <1>1, LenProperties, ElementOfSeq
<1>3. CASE l.torn = 0 BY <1>1, <1>3 DEF Readable
<1>4. CASE l.torn # 0
  <2>1. PICK i \in l.torn..(Len(l.records) + 1) :
          got = SubSeq(l.records, 1, l.torn - 1) \o SubSeq(l.records, i, Len(l.records))
    BY <1>4 DEF Readable
  <2>2. SubSeq(l.records, 1, l.torn - 1) \in Seq(Record)
    <3>1. \A j \in 1..(l.torn - 1) : l.records[j] \in Record BY <1>1, <1>2
    <3>2. 1 \in Int /\ l.torn - 1 \in Int BY <1>1
    <3> QED BY <3>1, <3>2, SubSeqProperties
  <2>3. SubSeq(l.records, i, Len(l.records)) \in Seq(Record)
    <3>1. \A j \in i..Len(l.records) : l.records[j] \in Record BY <1>1, <1>2, <1>4, <2>1
    <3>2. i \in Int /\ Len(l.records) \in Int BY <1>1, <1>2, <2>1
    <3> QED BY <3>1, <3>2, SubSeqProperties
  <2> QED BY <2>1, <2>2, <2>3, ConcatProperties
<1> QED BY <1>3, <1>4

(* What recovery reads is behind all that is numbered after it.            *)
LEMMA RecoverRead ==
  ASSUME FilesInv, ReadInv, Recover
  PROVE  ReadInv'
<1> USE DEF disk, versions, memory, background, clients, history, bounds
<1>0. PICK m \in manifest :
        /\ m.version.tables \subseteq DOMAIN tables
        /\ \E got : /\ \A n \in LogsFrom(m.log) : got[n] \in Readable(logs[n])
                    /\ RecoverFrom(m, got)
  BY DEF Recover
<1>1. PICK got : /\ m.version.tables \subseteq DOMAIN tables
                 /\ \A n \in LogsFrom(m.log) : got[n] \in Readable(logs[n])
                 /\ RecoverFrom(m, got)
  BY <1>0
<1> DEFINE entries == [n \in LogsFrom(m.log) |-> EntriesIn(got[n])]
           number == NextAt(entries, m.next + 1)
           whole == {n \in DOMAIN entries : entries[n] # {}}
           new == {number[n] : n \in whole}
           free == Max({m.next + 1} \cup {number[n + 1] : n \in DOMAIN entries})
           lasts == {LastOf(entries[n]) : n \in DOMAIN entries}
<1>2. /\ tables' = [t \in new \cup DOMAIN tables |->
                     IF t \in new THEN entries[CHOOSE n \in whole : number[n] = t] ELSE tables[t]]
      /\ logs' = With(logs, free, NewLog)
      /\ log' = free /\ mems' = [n \in {free} |-> {}] /\ next' = free + 1
      /\ last' = Max({m.last} \cup lasts)
      /\ manifest' = {[m EXCEPT !.torn = FALSE]} /\ current' = m.version
      /\ edit' = [kind |-> "edit", drop |-> {}, add |-> new, addZero |-> new,
                  log |-> free, next |-> free + 1, last |-> last']
  BY <1>1 DEF RecoverFrom
<1>3. /\ phase = "down" /\ phase' = "recovered"
      /\ UNCHANGED <<imm, flush, merge, queue, request, turn, reading, batches>>
  BY DEF Recover
<1>4. imm = 0 /\ flush = Idle /\ merge = Idle /\ turn.stage = "none"
      /\ \A r \in Readers : reading[r] = Idle
  BY <1>3 DEF FilesInv, PhasesOK, Quiet, ReadInv, MemsOK, TurnOK
<1>5. DOMAIN entries = LogsFrom(m.log) /\ LogsFrom(m.log) \subseteq DOMAIN logs BY DEF LogsFrom
<1>6. \A n \in DOMAIN entries : entries[n] \subseteq EntrySet /\ IsFiniteSet(entries[n])
  <2> SUFFICES ASSUME NEW n \in LogsFrom(m.log)
               PROVE  EntriesIn(got[n]) \subseteq EntrySet /\ IsFiniteSet(EntriesIn(got[n]))
    OBVIOUS
  <2>1. PICK l : l = logs[n] OBVIOUS
  <2>2. l \in LogFile /\ l.torn <= Len(l.records) + 1 BY <1>5, <2>1 DEF ReadInv, DataOK
  <2>3. got[n] \in Readable(l) BY <1>1, <2>1
  <2>4. got[n] \in Seq(Record) BY <2>2, <2>3, ReadableType
  <2> QED BY <2>4, EntriesInType
<1> HIDE DEF entries
<1>7. /\ free \in Nat /\ m.next < free
      /\ \A n \in DOMAIN entries : entries[n] # {} =>
            number[n] \in Nat /\ m.next < number[n] /\ number[n] < free
  BY <1>5, NewNumbers
<1> HIDE DEF number
<1>8. /\ last' \in Nat /\ m.last <= last' /\ m.last \in Nat
      /\ \A n \in DOMAIN entries : \A e \in entries[n] : e.seq <= last'
  <2>1. \A n \in DOMAIN entries :
          LastOf(entries[n]) \in Nat /\ \A e \in entries[n] : e.seq <= LastOf(entries[n])
    BY <1>6, LastOfBounds
  <2>2. m.last \in Nat BY DEF ReadInv, DiskOK
  <2>3. IsFiniteSet(lasts)
    <3> DEFINE S == DOMAIN entries
               f == [n \in S |-> LastOf(entries[n])]
    <3>1. IsFiniteSet(S) BY <1>5, FS_Subset DEF FilesInv, NumbersOK
    <3>2. f \in Surjection(S, {LastOf(entries[n]) : n \in S}) BY DEF Surjection
    <3> HIDE DEF f, S
    <3>3. IsFiniteSet({LastOf(entries[n]) : n \in S}) BY <3>1, <3>2, FS_Surjection
    <3> QED BY <3>3 DEF S
  <2>4. lasts \subseteq Nat /\ \A n \in DOMAIN entries : LastOf(entries[n]) \in lasts BY <2>1
  <2> HIDE DEF lasts
  <2>5. IsFiniteSet({m.last} \cup lasts) BY <2>3, FS_AddElement
  <2>6. ({m.last} \cup lasts) \in SUBSET Nat /\ {m.last} \cup lasts # {} BY <2>2, <2>4
  <2>7. last' \in {m.last} \cup lasts /\ \A y \in {m.last} \cup lasts : last' >= y
    BY <1>2, <2>5, <2>6, MaxOfSet
  <2>8. last' \in Nat /\ m.last <= last' BY <2>2, <2>6, <2>7
  <2>9. ASSUME NEW n \in DOMAIN entries, NEW e \in entries[n] PROVE e.seq <= last'
    <3>1. e.seq \in Nat BY <1>6 DEF EntrySet
    <3>2. LastOf(entries[n]) <= last' BY <2>4, <2>7
    <3> QED BY <2>1, <2>8, <3>1, <3>2
  <2> QED BY <2>2, <2>8, <2>9
<1> HIDE DEF lasts
<1>9. \A t \in new : t \in Nat /\ m.next < t /\ t < free BY <1>7
<1>10. ASSUME NEW t \in new
       PROVE  t \in DOMAIN tables' /\ tables'[t] \subseteq EntrySet /\ \A e \in tables'[t] : e.seq <= last'
  <2>1. PICK n \in whole : number[n] = t OBVIOUS
  <2>2. PICK x : x = CHOOSE y \in whole : number[y] = t OBVIOUS
  <2>3. x \in whole BY <2>1, <2>2
  <2>4. tables'[t] = entries[x] /\ t \in DOMAIN tables' BY <1>2, <2>2
  <2> QED BY <1>6, <1>8, <2>3, <2>4
<1>11. \A t \in DOMAIN tables : t \notin new => t \in DOMAIN tables' /\ tables'[t] = tables[t]
  BY <1>2
<1>12. DOMAIN tables' = new \cup DOMAIN tables BY <1>2
<1> HIDE DEF whole, new, free
<1>13. /\ Below(m.version.tables, m.next, m.last)' /\ m.next \in Nat
       /\ \A t \in m.version.tables : t \in Nat /\ t < m.next /\ tables'[t] = tables[t]
  <2>1. Below(m.version.tables, m.next, m.last) /\ m.next \in Nat
    BY DEF ReadInv, DiskOK, FilesInv, NumbersOK
  <2>2. \A t \in m.version.tables : t \in Nat /\ t < m.next /\ t \notin new
    BY <1>9, <2>1 DEF Below
  <2>3. \A t \in m.version.tables : tables'[t] = tables[t] BY <1>1, <1>11, <2>2
  <2> QED BY <2>1, <2>2, <2>3 DEF Below
<1>14. DataOK'
  <2>1. NewLog \in LogFile /\ NewLog.torn <= Len(NewLog.records) + 1
    BY EmptySeq DEF NewLog, LogFile
  <2>2. \A n \in DOMAIN logs' : logs'[n] \in LogFile /\ logs'[n].torn <= Len(logs'[n].records) + 1
    BY <1>2, <2>1 DEF With, ReadInv, DataOK
  <2>3. \A t \in DOMAIN tables' : tables'[t] \subseteq EntrySet
    BY <1>10, <1>11, <1>12 DEF ReadInv, DataOK
  <2>4. \A n \in DOMAIN mems' : n \in Nat /\ n < next' /\ mems'[n] \subseteq EntrySet
    BY <1>2, <1>7
  <2>5. next' > 0 BY <1>2, <1>7
  <2> QED BY <1>3, <1>8, <2>2, <2>3, <2>4, <2>5 DEF ReadInv, DataOK
<1>15. QueueOK' BY <1>3, QueueFrame DEF ReadInv
<1>16. TurnOK' BY <1>3, <1>4 DEF TurnOK
<1>17. log' # 0 /\ log' \in DOMAIN mems' /\ mems'[log'] = {} /\ imm' = 0
  BY <1>2, <1>3, <1>4, <1>7, <1>13
<1>18. MemsOK' BY <1>3, <1>4, <1>17 DEF MemsOK, MemEntries, Idle
<1>19. \A e : e.seq <= last' => Old(e)' BY <1>17 DEF Old, MemEntries
<1>20. TablesOK'
  <2>1. OldTables(edit.add)' BY <1>2, <1>10, <1>19 DEF OldTables
  <2>2. OldTables(current.tables)'
    <3>1. ASSUME NEW t \in m.version.tables, NEW e \in tables'[t] PROVE e.seq <= last'
      <4>1. e.seq <= m.last BY <1>13, <3>1 DEF Below
      <4>2. e.seq \in Nat BY <1>1, <1>13, <3>1 DEF ReadInv, DataOK, EntrySet
      <4> QED BY <1>8, <4>1, <4>2
    <3> QED BY <1>2, <1>19, <3>1 DEF OldTables
  <2> QED BY <1>3, <1>4, <2>1, <2>2 DEF TablesOK, Idle
<1>24. PICK k : k = [m EXCEPT !.torn = FALSE] OBVIOUS
<1>25. manifest' = {k} /\ k.version = m.version /\ k.next = m.next /\ k.last = m.last
  <2>1. Like(k, m) BY <1>24, TornLike DEF FilesInv, NumbersOK
  <2> QED BY <1>2, <1>24, <2>1 DEF Like
<1>21. DiskOK'
  <2>1. edit'.add = new /\ edit'.last = last' /\ edit'.next = free + 1 /\ next' = free + 1
        /\ phase' # "down"
    BY <1>2, <1>3
  <2>2. \A t \in new : t \in Nat /\ t < free + 1 /\ \A e \in tables'[t] : e.seq <= last'
    BY <1>7, <1>9, <1>10
  <2>3. Below(edit.add, edit.next, edit.last)' BY <2>1, <2>2 DEF Below
  <2>4. edit'.add \subseteq DOMAIN tables' BY <1>12, <2>1
  <2>5. m.next <= free + 1 BY <1>7, <1>13
  <2>6. edit'.last <= last' /\ edit'.next <= next' BY <1>7, <1>8, <2>1
  <2>7. \A x \in manifest' : x.last \in Nat /\ Below(x.version.tables, x.next, x.last)'
                             /\ x.next <= edit'.next /\ x.last <= edit'.last
    BY <1>8, <1>13, <1>25, <2>1, <2>5 DEF Below
  <2>8. \A x \in manifest' : x.next <= next' /\ x.last <= last' BY <2>1, <2>7
  <2>9. edit'.last \in Nat BY <1>8, <2>1
  <2> QED BY <2>1, <2>3, <2>4, <2>6, <2>7, <2>8, <2>9 DEF DiskOK
<1>22. FreshOK'
  <2>1. ASSUME NEW T, \A n \in T : n \in Nat /\ n < next' PROVE Free(T)'
    BY <1>3, <1>4, <2>1 DEF Free, Idle
  <2>2. \A n \in m.version.tables : n \in Nat /\ n < next'
    <3>1. next' = free + 1 /\ m.next \in Nat BY <1>2, <1>13
    <3>2. \A n \in m.version.tables : n \in Nat /\ n < m.next BY <1>13
    <3> QED BY <1>7, <3>1, <3>2
  <2>3. \A n \in new : n \in Nat /\ n < next' BY <1>2, <1>7, <1>9
  <2>4. Free(m.version.tables)' BY <2>1, <2>2
  <2>5. Free(edit.add)'
    <3>1. edit'.add = new BY <1>2
    <3>2. \A n \in edit'.add : n \in Nat /\ n < next' BY <2>3, <3>1
    <3> QED BY <1>3, <1>4, <3>2 DEF Free, Idle
  <2>6. Free(current.tables)' BY <1>2, <2>4 DEF Free
  <2> QED BY <1>2, <1>3, <1>4, <1>25, <2>4, <2>5, <2>6 DEF FreshOK, Active, Idle, Free
<1>23. ReadersOK' BY <1>3, <1>4 DEF ReadersOK, Active, Idle
<1> QED BY <1>14, <1>15, <1>16, <1>18, <1>20, <1>21, <1>22, <1>23 DEF ReadInv

(* Every step of the engine keeps every answer right.                      *)
LEMMA NextRead == FilesInv /\ ReadInv /\ [Next]_vars => ReadInv'
<1> SUFFICES ASSUME FilesInv, ReadInv, [Next]_vars PROVE ReadInv' OBVIOUS
<1>1. FilesInv' BY NextFiles
<1>2. CASE Recover BY <1>2, RecoverRead
<1>3. CASE Install BY <1>1, <1>3, InstallRead
<1>4. CASE Ready BY <1>1, <1>4, ReadyRead
<1>5. CASE \E w \in Writers, b \in Batches : Ask(w, b) BY <1>5, AskRead
<1>6. CASE Writing
  <2>1. CASE Refuse \/ Sleep \/ NoNewLog BY <2>1, WaitingRead
  <2>2. CASE Lead BY <2>2, LeadRead
  <2>3. CASE AddRecord \/ AddRecordFails \/ Sync \/ SyncFails BY <2>3, LoggingRead
  <2>4. CASE Insert BY <2>4, InsertRead
  <2>5. CASE Finish BY <2>5, FinishRead
  <2> QED BY <1>6, <2>1, <2>2, <2>3, <2>4, <2>5 DEF Writing
<1>7. CASE Background
  <2>1. CASE NothingToDo BY <2>1, WaitingRead
  <2>2. CASE FlushBegins BY <2>2, FlushBeginsRead
  <2>3. CASE FlushBuilt BY <2>3, FlushBuiltRead
  <2>4. CASE FlushLogged BY <1>1, <2>4, FlushLoggedRead
  <2>5. CASE FlushFails BY <1>1, <2>5, FlushFailsRead
  <2>6. CASE TrivialMove \/ MergeBegins BY <2>6, MergeBeginsRead
  <2>7. CASE OutputOpens BY <2>7, OutputOpensRead
  <2>8. CASE OutputWritten BY <2>8, OutputWrittenRead
  <2>9. CASE MergeLogged \/ MergeFails BY <1>1, <2>9, MergeEndsRead
  <2> QED BY <1>7, <2>1, <2>2, <2>3, <2>4, <2>5, <2>6, <2>7, <2>8, <2>9 DEF Background
<1>8. CASE GetSnapshot \/ ReleaseSnapshot \/ UNCHANGED vars BY <1>8, WaitingRead
<1>9. CASE \E r \in Readers, k \in Keys, seq \in 0..last : GetBegins(r, k, seq)
  BY <1>9, GetBeginsRead
<1>10. CASE \E r \in Readers : Getting(r)
  <2>1. PICK r \in Readers : Getting(r) BY <1>10
  <2>2. CASE GetInMems(r) \/ GetInTables(r) BY <2>2, LookingRead
  <2>3. CASE GetEnds(r) BY <2>3, GetEndsRead
  <2> QED BY <2>1, <2>2, <2>3 DEF Getting
<1>11. CASE \E c \in CrashKinds : Crash(c) BY <1>11, CrashRead
<1> QED BY <1>2, <1>3, <1>4, <1>5, <1>6, <1>7, <1>8, <1>9, <1>10, <1>11 DEF Next

(* Newer entries stay in newer layers: what is in a table has lower        *)
(* numbers than what is in a memtable, and the memtable being written out  *)
(* lower ones than the one written to, after any recovery too.             *)
THEOREM ReadInvariant == Spec => [](FilesInv /\ ReadInv)
<1>1. Init => FilesInv /\ ReadInv BY InitFiles, InitRead
<1>2. FilesInv /\ ReadInv /\ [Next]_vars => (FilesInv /\ ReadInv)' BY NextFiles, NextRead
<1> QED BY <1>1, <1>2, PTL DEF Spec

(* A Get() that looks at memtables and tables without the mutex answers    *)
(* what the database held at its sequence number when it began.            *)
THEOREM ReadsAreRight == Spec => []ReadsRight
<1>1. ReadInv => ReadsRight
  BY DEF ReadInv, ReadersOK, ReaderOK, ReadsRight, InUse, Active
<1> QED BY ReadInvariant, <1>1, PTL

-----------------------------------------------------------------------------
(* 5. What a read finds, what a merge leaves, what a group of writes is.   *)

(* Entries with numbers up to s have a newest one.                         *)
LEMMA NewestIs ==
  ASSUME NEW V, V # {}, NEW s \in Nat, \A e \in V : e.seq \in Nat /\ e.seq <= s
  PROVE  Newest(V) \in V /\ \A f \in V : f.seq <= Newest(V).seq
<1> DEFINE S == {e.seq : e \in V}
<1>1. S \subseteq 0..s /\ S # {} OBVIOUS
<1>2. IsFiniteSet(S)
  <2>1. IsFiniteSet(0..s) BY FS_Interval
  <2> HIDE DEF S
  <2> QED BY <1>1, <2>1, FS_Subset
<1>3. S \in SUBSET Nat BY <1>1
<1>4. \A e \in V : e.seq \in S OBVIOUS
<1>5. \A x \in S : \E e \in V : e.seq = x OBVIOUS
<1> HIDE DEF S
<1>6. PICK x \in S : \A y \in S : x >= y BY <1>1, <1>2, <1>3, MaxOfSet
<1>7. PICK e \in V : e.seq = x BY <1>5
<1>8. \A f \in V : f.seq <= e.seq BY <1>4, <1>6, <1>7
<1> QED BY <1>7, <1>8 DEF Newest

(* What Find gives is the write of the newest entry of the key up to s,    *)
(* or 0 if there is none.                                                  *)
LEMMA FindIs ==
  ASSUME NEW S \in SUBSET EntrySet, NEW k, NEW s \in Nat
  PROVE  \/ Find(S, k, s) = 0 /\ \A f \in S : f.key = k => f.seq > s
         \/ \E e \in S : /\ e.key = k /\ e.seq <= s /\ Find(S, k, s) = e.write
                         /\ \A f \in S : f.key = k /\ f.seq <= s => f.seq <= e.seq
<1> DEFINE V == Visible(S, k, s)
<1>1. \A e : e \in V <=> e \in S /\ e.key = k /\ e.seq <= s BY DEF Visible
<1>2. \A e \in S : e.seq \in Nat BY DEF EntrySet
<1>3. Find(S, k, s) = IF V = {} THEN 0 ELSE Newest(V).write BY DEF Find
<1> HIDE DEF V
<1>4. CASE V = {} BY <1>1, <1>2, <1>3, <1>4
<1>5. CASE V # {}
  <2>1. Newest(V) \in V /\ \A f \in V : f.seq <= Newest(V).seq BY <1>1, <1>2, <1>5, NewestIs
  <2> QED BY <1>1, <1>3, <1>5, <2>1
<1> QED BY <1>4, <1>5

(* Every sequence number is of one entry, and older ones of older writes.  *)
Ordered(S) == \A e, f \in S :
  (e.seq = f.seq => e = f) /\ (e.seq < f.seq => e.write <= f.write)

(* The newest entry is what is found.                                      *)
LEMMA FindNewest ==
  ASSUME NEW S \in SUBSET EntrySet, Ordered(S), NEW s \in Nat, NEW e \in S, e.seq <= s,
         \A f \in S : f.key = e.key /\ f.seq <= s => f.seq <= e.seq
  PROVE  Find(S, e.key, s) = e.write
<1>1. PICK f \in S : /\ f.key = e.key /\ f.seq <= s /\ Find(S, e.key, s) = f.write
                     /\ \A g \in S : g.key = e.key /\ g.seq <= s => g.seq <= f.seq
  <2>1. e.seq \in Nat BY DEF EntrySet
  <2> QED BY <2>1, FindIs
<1>2. f.seq = e.seq /\ f.seq \in Nat BY <1>1 DEF EntrySet
<1> QED BY <1>1, <1>2 DEF Ordered

(* What is found is no older than any entry.                               *)
LEMMA FindAtLeast ==
  ASSUME NEW S \in SUBSET EntrySet, Ordered(S), NEW s \in Nat, NEW e \in S, e.seq <= s
  PROVE  Find(S, e.key, s) >= e.write
<1>1. PICK f \in S : /\ f.key = e.key /\ f.seq <= s /\ Find(S, e.key, s) = f.write
                     /\ \A g \in S : g.key = e.key /\ g.seq <= s => g.seq <= f.seq
  <2>1. e.seq \in Nat BY DEF EntrySet
  <2> QED BY <2>1, FindIs
<1>2. e.seq <= f.seq /\ e.seq \in Nat /\ f.seq \in Nat /\ e.write \in Nat /\ f.write \in Nat
  BY <1>1 DEF EntrySet
<1>3. CASE e.seq = f.seq
  <2>1. e = f BY <1>3 DEF Ordered
  <2> QED BY <1>1, <1>2, <2>1
<1>4. CASE e.seq < f.seq
  <2>1. e.write <= f.write BY <1>4 DEF Ordered
  <2> QED BY <1>1, <1>2, <2>1
<1> QED BY <1>2, <1>3, <1>4

(* Rule (A) leaves for every entry one that is as new.                     *)
LEMMA KeptWitness ==
  ASSUME NEW E \in SUBSET EntrySet, NEW smallest \in Nat, NEW e \in E
  PROVE  \E f \in Kept(E, smallest) : f.key = e.key /\ f.seq >= e.seq
<1>1. \A f \in E : f.seq \in Nat BY DEF EntrySet
<1>2. CASE e \in Kept(E, smallest) BY <1>1, <1>2
<1>3. CASE e \notin Kept(E, smallest)
  <2> DEFINE H == {f \in E : Hides(f, e, smallest)}
  <2>1. H # {} BY <1>3 DEF Kept
  <2>2. \A f \in H : f.seq \in Nat /\ f.seq <= smallest /\ f.key = e.key /\ f.seq > e.seq
    BY <1>1 DEF Hides
  <2>3. PICK g \in H : \A f \in H : f.seq <= g.seq
    <3> HIDE DEF H
    <3>1. Newest(H) \in H /\ \A f \in H : f.seq <= Newest(H).seq BY <2>1, <2>2, NewestIs
    <3> QED BY <3>1
  <2>4. g \in Kept(E, smallest)
    <3> SUFFICES ASSUME NEW h \in E, Hides(h, g, smallest) PROVE FALSE BY DEF Kept
    <3>1. h \in H BY <1>1, <2>2 DEF Hides
    <3>2. h.seq <= g.seq /\ h.seq > g.seq BY <2>3, <3>1 DEF Hides
    <3> QED BY <1>1, <2>2, <3>2
  <2> QED BY <1>1, <2>2, <2>4
<1> QED BY <1>2, <1>3

(* ... and no read at smallest or later finds anything else.               *)
LEMMA FindKept ==
  ASSUME NEW R \in SUBSET EntrySet, NEW E \in SUBSET EntrySet, Ordered(R \cup E),
         NEW smallest \in Nat, NEW s \in Nat, smallest <= s, NEW k
  PROVE  Find(R \cup Kept(E, smallest), k, s) = Find(R \cup E, k, s)
<1>1. Kept(E, smallest) \subseteq E BY DEF Kept
<1>2. (R \cup E) \in SUBSET EntrySet /\ (R \cup Kept(E, smallest)) \in SUBSET EntrySet BY <1>1
<1>3. Ordered(R \cup Kept(E, smallest)) BY <1>1 DEF Ordered
<1>4. \A f \in R \cup E : f.seq \in Nat BY DEF EntrySet
<1>5. CASE Find(R \cup E, k, s) = 0 /\ \A f \in R \cup E : f.key = k => f.seq > s
  <2>1. \A f \in R \cup Kept(E, smallest) : f.key = k => ~ (f.seq <= s) BY <1>1, <1>4, <1>5
  <2> QED BY <1>2, <1>5, <2>1, FindIs
<1>6. ASSUME NEW e \in R \cup E, e.key = k, e.seq <= s, Find(R \cup E, k, s) = e.write,
             \A f \in R \cup E : f.key = k /\ f.seq <= s => f.seq <= e.seq
      PROVE  Find(R \cup Kept(E, smallest), k, s) = Find(R \cup E, k, s)
  <2>1. e \in R \cup Kept(E, smallest)
    <3> SUFFICES ASSUME e \in E, NEW h \in E, Hides(h, e, smallest) PROVE FALSE BY DEF Kept
    <3>1. h.key = k /\ h.seq > e.seq /\ h.seq <= s BY <1>4, <1>6 DEF Hides
    <3>2. h.seq <= e.seq BY <1>6, <3>1
    <3> QED BY <1>4, <3>1, <3>2
  <2>2. \A f \in R \cup Kept(E, smallest) : f.key = e.key /\ f.seq <= s => f.seq <= e.seq
    BY <1>1, <1>6
  <2>3. Find(R \cup Kept(E, smallest), e.key, s) = e.write BY <1>2, <1>3, <1>6, <2>1, <2>2, FindNewest
  <2> QED BY <1>6, <2>3
<1>7. \/ Find(R \cup E, k, s) = 0 /\ \A f \in R \cup E : f.key = k => f.seq > s
      \/ \E e \in R \cup E : /\ e.key = k /\ e.seq <= s /\ Find(R \cup E, k, s) = e.write
                           /\ \A f \in R \cup E : f.key = k /\ f.seq <= s => f.seq <= e.seq
  <2>1. PICK S \in SUBSET EntrySet : S = R \cup E BY <1>2
  <2>2. \/ Find(S, k, s) = 0 /\ \A f \in S : f.key = k => f.seq > s
        \/ \E e \in S : /\ e.key = k /\ e.seq <= s /\ Find(S, k, s) = e.write
                        /\ \A f \in S : f.key = k /\ f.seq <= s => f.seq <= e.seq
    BY FindIs
  <2> QED BY <2>1, <2>2
<1> QED BY <1>5, <1>6, <1>7

(* The keys of a batch, each once.                                         *)
LEMMA KeySeqOnto ==
  ASSUME NEW b \in Batches
  PROVE  /\ Cardinality(b) \in Nat /\ \A j \in 1..Cardinality(b) : KeySeq(b)[j] \in b
         /\ \A k \in b : \E j \in 1..Cardinality(b) : KeySeq(b)[j] = k
<1> DEFINE C == Cardinality(b)
<1>1. IsFiniteSet(b) BY EngineAssumption
<1>2. C \in Nat /\ ExistsBijection(1..C, b) BY <1>1, FS_CardinalityType
<1>3. \E f \in [1..C -> b] : IsInjective(f)
  BY <1>2 DEF ExistsBijection, Bijection, Injection, IsInjective
<1>4. KeySeq(b) \in [1..C -> b] /\ IsInjective(KeySeq(b)) BY <1>3 DEF KeySeq, SetToSeq
<1> HIDE DEF C
<1>5. KeySeq(b) \in Injection(1..C, b) BY <1>4 DEF Injection, IsInjective
<1>6. IsFiniteSet(1..C) /\ Cardinality(1..C) = C BY <1>2, FS_Interval
<1>7. KeySeq(b) \in Surjection(1..C, b) BY <1>1, <1>5, <1>6, FS_Injection DEF C
<1>8. \A k \in b : \E j \in 1..C : KeySeq(b)[j] = k BY <1>7 DEF Surjection
<1> QED BY <1>2, <1>4, <1>8 DEF C

(* FlattenSeq is the last of the concatenations of the first i parts.      *)
LEMMA FlattenParts ==
  ASSUME NEW X, NEW s \in Seq(X), Len(s) # 0
  PROVE  \E f : /\ FlattenSeq(s) = f[Len(s)]
                /\ \A i \in 1..Len(s) : f[i] = IF i = 1 THEN s[i] ELSE f[i - 1] \o s[i]
<1> DEFINE n == Len(s)
           Flat(g, m) == g = [i \in 1..m |-> IF i = 1 THEN s[i] ELSE g[i - 1] \o s[i]]
           T == {m \in Nat : \E g : Flat(g, m)}
<1>0. n \in Nat BY LenProperties
<1>1. T = Nat
  <2>1. 0 \in T
    <3> DEFINE g == [i \in 1..0 |-> << >>]
    <3>1. Flat(g, 0) OBVIOUS
    <3> QED BY <3>1
  <2>2. ASSUME NEW m \in T PROVE m + 1 \in T
    <3>1. PICK g : Flat(g, m) OBVIOUS
    <3> DEFINE h == [i \in 1..(m + 1) |->
                       IF i = m + 1 THEN (IF i = 1 THEN s[i] ELSE g[i - 1] \o s[i]) ELSE g[i]]
    <3>2. \A i \in 1..m : g[i] = IF i = 1 THEN s[i] ELSE g[i - 1] \o s[i] BY <3>1
    <3>3. \A i \in 1..(m + 1) : i # 1 => h[i - 1] = g[i - 1] OBVIOUS
    <3>4. \A i \in 1..(m + 1) : h[i] = IF i = 1 THEN s[i] ELSE h[i - 1] \o s[i]
      <4> SUFFICES ASSUME NEW i \in 1..(m + 1)
                   PROVE  h[i] = IF i = 1 THEN s[i] ELSE g[i - 1] \o s[i]
        BY <3>3
      <4>1. CASE i = m + 1 BY <4>1
      <4>2. CASE i # m + 1
        <5>1. i \in 1..m BY <4>2
        <5> QED BY <3>2, <4>2, <5>1
      <4> QED BY <4>1, <4>2
    <3>5. Flat(h, m + 1)
      <4>1. h = [i \in 1..(m + 1) |-> h[i]] OBVIOUS
      <4> HIDE DEF h
      <4> QED BY <3>4, <4>1
    <3> HIDE DEF h, Flat
    <3> QED BY <3>5
  <2>3. T \in SUBSET Nat OBVIOUS
  <2> HIDE DEF T
  <2> QED BY <2>1, <2>2, <2>3, AllNumbers
<1> DEFINE flatten == CHOOSE g : Flat(g, n)
<1>2. Flat(flatten, n)
  <2>1. \E g : Flat(g, n) BY <1>0, <1>1
  <2> QED BY <2>1
<1>3. FlattenSeq(s) = flatten[n] BY DEF FlattenSeq
<1> HIDE DEF flatten
<1>4. \A i \in 1..n : flatten[i] = IF i = 1 THEN s[i] ELSE flatten[i - 1] \o s[i] BY <1>2
<1> QED BY <1>3, <1>4

(* ... it has the elements of the parts, part after part.                  *)
From(F, s, n, at) ==
  /\ at \in [1..Len(F) -> 1..n]
  /\ \A i \in 1..Len(F) : \E q \in 1..Len(s[at[i]]) : F[i] = s[at[i]][q]
  /\ \A i, j \in 1..Len(F) : i < j => at[i] <= at[j]
  /\ \A p \in 1..n : \A q \in 1..Len(s[p]) : \E i \in 1..Len(F) : F[i] = s[p][q]
Joins(F, s, n) == \E at : From(F, s, n, at)

(* A concatenation of sequences joins them.                                *)
LEMMA FlattenIs ==
  ASSUME NEW X, NEW s \in Seq(Seq(X)), Len(s) # 0
  PROVE  FlattenSeq(s) \in Seq(X) /\ Joins(FlattenSeq(s), s, Len(s))
<1>1. Len(s) \in Nat BY LenProperties
<1>2. PICK f : /\ FlattenSeq(s) = f[Len(s)]
               /\ \A i \in 1..Len(s) : f[i] = IF i = 1 THEN s[i] ELSE f[i - 1] \o s[i]
  BY FlattenParts
<1>3. \A p \in 1..Len(s) : s[p] \in Seq(X) /\ Len(s[p]) \in Nat BY ElementOfSeq, LenProperties
<1> DEFINE T == {i \in Nat : i \in 1..Len(s) => f[i] \in Seq(X) /\ Joins(f[i], s, i)}
<1>4. 0 \in T OBVIOUS
<1>5. ASSUME NEW m \in T, m + 1 \in 1..Len(s)
      PROVE  f[m + 1] \in Seq(X) /\ Joins(f[m + 1], s, m + 1)
  <2>1. CASE m = 0
    <3>1. f[1] = s[1] /\ s[1] \in Seq(X) /\ Len(s[1]) \in Nat BY <1>2, <1>3, <1>5, <2>1
    <3> DEFINE at == [i \in 1..Len(s[1]) |-> 1]
    <3>2. at \in [1..Len(s[1]) -> 1..1] /\ \A i \in 1..Len(s[1]) : at[i] = 1 OBVIOUS
    <3> HIDE DEF at
    <3>3. From(s[1], s, 1, at) BY <3>2, SMTT(20) DEF From
    <3> QED BY <2>1, <3>1, <3>3 DEF Joins
  <2>2. CASE m # 0
    <3>1. m \in 1..Len(s) /\ m + 1 # 1 /\ (m + 1) - 1 = m BY <1>1, <1>5, <2>2
    <3>2. PICK at : f[m] \in Seq(X) /\ From(f[m], s, m, at) BY <3>1 DEF Joins
    <3>3. PICK F, G, H : F = f[m] /\ G = s[m + 1] /\ H = F \o G OBVIOUS
    <3>4. f[m + 1] = H BY <1>2, <1>5, <3>1, <3>3
    <3>5. F \in Seq(X) /\ G \in Seq(X) /\ Len(F) \in Nat /\ Len(G) \in Nat
      BY <1>3, <1>5, <3>2, <3>3, LenProperties
    <3>6. /\ H \in Seq(X) /\ Len(H) = Len(F) + Len(G)
          /\ \A i \in 1..Len(F) : H[i] = F[i]
          /\ \A q \in 1..Len(G) : H[Len(F) + q] = G[q]
      <4>1. /\ H \in Seq(X) /\ Len(H) = Len(F) + Len(G)
            /\ \A i \in 1..(Len(F) + Len(G)) : H[i] = IF i <= Len(F) THEN F[i] ELSE G[i - Len(F)]
        BY <3>3, <3>5, ConcatProperties
      <4>2. ASSUME NEW q \in 1..Len(G) PROVE H[Len(F) + q] = G[q]
        <5>1. Len(F) + q \in 1..(Len(F) + Len(G)) /\ ~ (Len(F) + q <= Len(F))
              /\ (Len(F) + q) - Len(F) = q
          BY <3>5
        <5> QED BY <4>1, <5>1
      <4> QED BY <3>5, <4>1, <4>2
    <3>7. /\ at \in [1..Len(F) -> 1..m]
          /\ \A i \in 1..Len(F) : \E q \in 1..Len(s[at[i]]) : F[i] = s[at[i]][q]
          /\ \A i, j \in 1..Len(F) : i < j => at[i] <= at[j]
          /\ \A p \in 1..m : \A q \in 1..Len(s[p]) : \E i \in 1..Len(F) : F[i] = s[p][q]
      BY <3>2, <3>3 DEF From
    <3> DEFINE to == [i \in 1..Len(H) |-> IF i <= Len(F) THEN at[i] ELSE m + 1]
    <3>8. \A i \in 1..Len(H) : IF i \in 1..Len(F) THEN to[i] = at[i] ELSE to[i] = m + 1
      BY <3>5, <3>6
    <3>9. to \in [1..Len(H) -> 1..(m + 1)] BY <3>5, <3>6, <3>7
    <3>10. 1..Len(F) \subseteq 1..Len(H) /\ \A q \in 1..Len(G) : Len(F) + q \in 1..Len(H)
      BY <3>5, <3>6
    <3> HIDE DEF to
    <3>11. ASSUME NEW i \in 1..Len(H) PROVE \E q \in 1..Len(s[to[i]]) : H[i] = s[to[i]][q]
      <4>1. CASE i \in 1..Len(F)
        <5>1. PICK q \in 1..Len(s[at[i]]) : F[i] = s[at[i]][q] BY <3>7, <4>1
        <5>2. to[i] = at[i] /\ H[i] = F[i] BY <3>6, <3>8, <4>1
        <5> QED BY <5>1, <5>2
      <4>2. CASE i \notin 1..Len(F)
        <5>1. i - Len(F) \in 1..Len(G) /\ Len(F) + (i - Len(F)) = i BY <3>5, <3>6, <4>2
        <5>2. H[i] = G[i - Len(F)] BY <3>6, <5>1
        <5> QED BY <3>3, <3>8, <4>2, <5>1, <5>2
      <4> QED BY <4>1, <4>2
    <3>12. ASSUME NEW i \in 1..Len(H), NEW j \in 1..Len(H), i < j PROVE to[i] <= to[j]
      <4>1. CASE j \in 1..Len(F)
        <5>1. i \in 1..Len(F) BY <3>5, <3>12, <4>1
        <5> QED BY <3>7, <3>8, <3>12, <4>1, <5>1
      <4>2. CASE j \notin 1..Len(F)
        <5>1. to[j] = m + 1 /\ to[i] \in 1..(m + 1) BY <3>8, <3>9, <4>2
        <5> QED BY <5>1
      <4> QED BY <4>1, <4>2
    <3>13. ASSUME NEW p \in 1..(m + 1), NEW q \in 1..Len(s[p])
           PROVE  \E i \in 1..Len(H) : H[i] = s[p][q]
      <4>1. CASE p \in 1..m BY <3>6, <3>7, <3>10, <4>1
      <4>2. CASE p = m + 1
        <5>1. q \in 1..Len(G) /\ s[p][q] = G[q] BY <3>3, <4>2
        <5> QED BY <3>6, <3>10, <5>1
      <4> QED BY <4>1, <4>2, SMTT(20)
    <3>14. From(H, s, m + 1, to) BY <3>9, <3>11, <3>12, <3>13 DEF From
    <3> QED BY <3>4, <3>6, <3>14 DEF Joins
  <2> QED BY <2>1, <2>2
<1>6. T = Nat
  <2>1. T \in SUBSET Nat OBVIOUS
  <2>2. ASSUME NEW m \in T PROVE m + 1 \in T BY <1>5
  <2> HIDE DEF T
  <2> QED BY <1>4, <2>1, <2>2, AllNumbers
<1>7. Len(s) \in T /\ Len(s) \in 1..Len(s) BY <1>1, <1>6
<1> QED BY <1>2, <1>7

(* The puts of a group: every key of every one of its batches, and in the  *)
(* order of the group.                                                     *)
LEMMA PutsAre ==
  ASSUME batches \in Seq(Batches), NEW n \in Nat \ {0}, NEW ids \in [1..n -> 1..Len(batches)],
         \A p, q \in 1..n : p <= q => ids[p] <= ids[q]
  PROVE  LET puts == Puts(ids) IN
         /\ puts \in Seq(Put)
         /\ \A i \in 1..Len(puts) : \E p \in 1..n :
              puts[i].write = ids[p] /\ puts[i].key \in batches[ids[p]]
         /\ \A p \in 1..n : \A k \in batches[ids[p]] :
              \E i \in 1..Len(puts) : puts[i].key = k /\ puts[i].write = ids[p]
         /\ \A i, j \in 1..Len(puts) : i < j => puts[i].write <= puts[j].write
<1> DEFINE part(i) == [j \in 1..Cardinality(batches[ids[i]]) |->
                         [key |-> KeySeq(batches[ids[i]])[j], write |-> ids[i]]]
           s == [i \in 1..n |-> part(i)]
<1>1. ids \in Seq(1..Len(batches)) /\ Len(ids) = n BY LenProperties
<1>2. \A i \in 1..n : batches[ids[i]] \in Batches /\ ids[i] \in Nat
  BY ElementOfSeq, LenProperties
<1>3. Puts(ids) = FlattenSeq(s) BY <1>1 DEF Puts
<1>4. ASSUME NEW i \in 1..n
      PROVE  s[i] = [j \in 1..Cardinality(batches[ids[i]]) |->
                       [key |-> KeySeq(batches[ids[i]])[j], write |-> ids[i]]]
  OBVIOUS
<1>5. DOMAIN s = 1..n OBVIOUS
<1>6. s = [i \in 1..n |-> s[i]] OBVIOUS
<1> HIDE DEF s, part
<1>7. ASSUME NEW i \in 1..n
      PROVE  /\ s[i] \in Seq(Put)
             /\ \A q \in 1..Len(s[i]) : s[i][q].write = ids[i] /\ s[i][q].key \in batches[ids[i]]
             /\ \A k \in batches[ids[i]] : \E q \in 1..Len(s[i]) :
                  s[i][q].key = k /\ s[i][q].write = ids[i]
  <2>0. PICK b \in Batches, w \in Nat : b = batches[ids[i]] /\ w = ids[i] BY <1>2
  <2>1. PICK g : b = batches[ids[i]] /\ w = ids[i] /\ g = s[i] BY <2>0
  <2>2. /\ Cardinality(b) \in Nat /\ \A j \in 1..Cardinality(b) : KeySeq(b)[j] \in b
        /\ \A k \in b : \E j \in 1..Cardinality(b) : KeySeq(b)[j] = k
    BY KeySeqOnto
  <2>3. b \subseteq Keys BY EngineAssumption
  <2>4. g = [j \in 1..Cardinality(b) |-> [key |-> KeySeq(b)[j], write |-> w]] BY <1>4, <2>1
  <2>5. g \in [1..Cardinality(b) -> Put]
    <3>1. \A j \in 1..Cardinality(b) : KeySeq(b)[j] \in Keys BY <2>2, <2>3
    <3>2. \A j \in 1..Cardinality(b) : [key |-> KeySeq(b)[j], write |-> w] \in Put BY <3>1 DEF Put
    <3> QED BY <2>4, <3>2
  <2>6. g \in Seq(Put) /\ Len(g) = Cardinality(b) BY <2>2, <2>5, LenProperties
  <2>7. \A j \in 1..Cardinality(b) : g[j].key = KeySeq(b)[j] /\ g[j].write = w BY <2>4
  <2>8. \A k \in b : \E q \in 1..Len(g) : g[q].key = k /\ g[q].write = w
    <3> SUFFICES ASSUME NEW k \in b PROVE \E q \in 1..Len(g) : g[q].key = k /\ g[q].write = w
      OBVIOUS
    <3>1. PICK j \in 1..Cardinality(b) : KeySeq(b)[j] = k BY <2>2
    <3> QED BY <2>6, <2>7, <3>1
  <2>9. \A q \in 1..Len(g) : g[q].write = w /\ g[q].key \in b BY <2>2, <2>6, <2>7
  <2> QED BY <2>1, <2>6, <2>8, <2>9
<1>8. s \in Seq(Seq(Put)) /\ Len(s) = n
  <2>1. s \in [1..n -> Seq(Put)] BY <1>6, <1>7
  <2> QED BY <2>1, LenProperties
<1>9. PICK F, at : F = Puts(ids) /\ F \in Seq(Put) /\ From(F, s, n, at)
  BY <1>3, <1>8, FlattenIs DEF Joins
<1>10. /\ at \in [1..Len(F) -> 1..n]
       /\ \A i \in 1..Len(F) : \E q \in 1..Len(s[at[i]]) : F[i] = s[at[i]][q]
       /\ \A i, j \in 1..Len(F) : i < j => at[i] <= at[j]
       /\ \A p \in 1..n : \A q \in 1..Len(s[p]) : \E i \in 1..Len(F) : F[i] = s[p][q]
  BY <1>9 DEF From
<1>11. ASSUME NEW i \in 1..Len(F)
       PROVE  F[i].write = ids[at[i]] /\ F[i].key \in batches[ids[at[i]]] /\ at[i] \in 1..n
  <2>1. PICK p \in 1..n : p = at[i] BY <1>10
  <2>2. PICK q \in 1..Len(s[p]) : F[i] = s[p][q] BY <1>10, <2>1
  <2>3. s[p][q].write = ids[p] /\ s[p][q].key \in batches[ids[p]] BY <1>7
  <2> QED BY <2>1, <2>2, <2>3
<1>12. ASSUME NEW i \in 1..Len(F), NEW j \in 1..Len(F), i < j PROVE F[i].write <= F[j].write
  <2>1. at[i] <= at[j] BY <1>10, <1>12
  <2> QED BY <1>11, <2>1
<1>13. ASSUME NEW p \in 1..n, NEW k \in batches[ids[p]]
       PROVE  \E i \in 1..Len(F) : F[i].key = k /\ F[i].write = ids[p]
  <2>1. PICK q \in 1..Len(s[p]) : s[p][q].key = k /\ s[p][q].write = ids[p] BY <1>7
  <2>2. PICK i \in 1..Len(F) : F[i] = s[p][q] BY <1>10
  <2> QED BY <2>1, <2>2
<1>14. \A i \in 1..Len(F) : \E p \in 1..n : F[i].write = ids[p] /\ F[i].key \in batches[ids[p]]
  BY <1>11
<1> QED BY <1>9, <1>12, <1>13, <1>14

-----------------------------------------------------------------------------
(* 6. The invariant.                                                       *)

(* What a recovery from m could find: its tables, and the logs from the    *)
(* one it names.                                                           *)
LogEntries(m) == UNION {EntriesIn(logs[n].records) : n \in LogsFrom(m.log)}
Reach(m) == TableEntries(m.version.tables) \cup LogEntries(m)
Reached == UNION {Reach(m) : m \in OnDisk}

(* Who asked for an entry.                                                 *)
Asked(e) == e.write \in 1..Len(batches) /\ e.key \in batches[e.write]
(* For every entry of S, S has all keys of its batch, or newer ones.       *)
Complete(S) == \A e \in S : \A k \in batches[e.write] : \E f \in S : f.key = k /\ f.write >= e.write

(* Newer entries are of newer writes, in all that could be found.          *)
OrderOK == Ordered(Reached) /\ \A e \in Reached : Asked(e)

(* No batch is in part in a record, a memtable, or a version.              *)
WholeOK ==
  /\ \A m \in OnDisk : Complete(TableEntries(m.version.tables))
  /\ \A n \in DOMAIN logs : \A i \in 1..Len(logs[n].records) :
       (\A e \in EntriesOf(logs[n].records[i]) : Asked(e)) /\ Complete(EntriesOf(logs[n].records[i]))
  /\ phase # "down" => Complete(mems[log]) /\ Complete(MemEntries(imm))

(* Which logs there are, and which of them the MANIFEST and the memtables  *)
(* name.                                                                   *)
LogsOK ==
  /\ \A m \in OnDisk : m.log \in Nat /\ m.log <= m.next
  /\ \A n \in DOMAIN logs : logs[n].synced <= Len(logs[n].records)
  /\ phase # "down" =>
       /\ \A n \in DOMAIN logs : n < next
       /\ log \in DOMAIN logs
       /\ imm # 0 => imm \in DOMAIN logs /\ imm < log
       /\ \A m \in OnDisk : m.log <= log
  /\ phase = "recovered" => edit.log = log /\ logs[log] = NewLog /\ next = log + 1
  /\ Opened =>
       /\ logNumber \in Nat /\ logNumber <= log /\ (imm # 0 => logNumber <= imm)
       /\ \E m \in manifest : m.version = current /\ m.log = logNumber /\ ~m.torn
       /\ mems[log] \subseteq EntriesIn(logs[log].records)
       /\ imm # 0 => MemEntries(imm) \subseteq EntriesIn(logs[imm].records)

(* The writes of the queue came after all others.                          *)
Write(i) == request[queue[i]].write
Past(e) == e.seq <= last /\ \A i \in 1..Len(queue) : e.write < Write(i)
Logging == turn.stage \in {"sync", "insert", "finish", "syncError"}
Inserted == turn.stage = "finish" /\ turn.ok
QueueInOrder ==
  /\ \A i, j \in 1..Len(queue) : i < j => Write(i) < Write(j)
  /\ phase # "up" => queue = << >>
  /\ Opened => \A e \in Reached : Past(e) \/ (Logging /\ e \in EntriesOf(turn.record))
  /\ Opened => \A e \in mems[log] : Past(e) \/ (Inserted /\ e \in EntriesOf(turn.record))

(* The group in progress, and how far it has come.                         *)
LastRecord(l) == l.records[Len(l.records)]
GroupOK ==
  LET puts == turn.record.puts IN
  /\ \A i \in 1..Len(puts) : \E j \in 1..turn.size :
       puts[i].write = Write(j) /\ puts[i].key \in batches[Write(j)]
  /\ \A j \in 1..turn.size : \A k \in batches[Write(j)] :
       \E i \in 1..Len(puts) : puts[i].key = k /\ puts[i].write = Write(j)
  /\ \A i, j \in 1..Len(puts) : i < j => puts[i].write <= puts[j].write
  /\ \A j \in 1..turn.size : request[queue[j]].sync => Leader.sync
ProgressOK ==
  /\ turn.stage \in {"append", "sync", "insert"} => turn.ok
  /\ turn.stage = "syncError" => ~turn.ok
  /\ Inserted => EntriesOf(turn.record) \subseteq mems[log]
  /\ turn.stage \in {"sync", "insert", "finish"} /\ turn.ok =>
       Len(logs[log].records) > 0 /\ LastRecord(logs[log]) = turn.record
  /\ turn.stage \in {"insert", "finish"} /\ turn.ok /\ Leader.sync =>
       logs[log].synced = Len(logs[log].records)
WritersOK == QueueInOrder /\ (turn.stage # "none" => GroupOK /\ ProgressOK)

(* The background thread, and the snapshot.                                *)
WorkOK ==
  /\ snapshot = -1 \/ (snapshot \in 0..last /\ phase = "up")
  /\ flush.stage # "none" \/ merge.stage # "none" =>
       \A m \in manifest \ Torn : current.tables \subseteq m.version.tables
  /\ flush.stage = "logging" => edit.log = log /\ tables[flush.number] = MemEntries(imm)
  /\ merge.stage \in {"reading", "writing", "logging"} =>
       /\ {"inputs", "smallest"} \subseteq DOMAIN merge
       /\ merge.inputs \subseteq current.tables
       /\ merge.smallest \in 0..last /\ (snapshot # -1 => merge.smallest <= snapshot)
  /\ merge.stage = "logging" =>
       /\ edit.drop = merge.inputs /\ edit.add = {merge.number} /\ edit.log = logNumber
       /\ tables[merge.number] = Kept(TableEntries(merge.inputs), merge.smallest)
  /\ merge.stage = "moving" =>
       edit.drop = edit.add /\ edit.add \subseteq current.tables /\ edit.log = logNumber

(* What every crash leaves of a log, and of what m names.                  *)
SoundTo(c, l) ==
  LET whole == IF l.torn = 0 THEN Len(l.records) ELSE l.torn - 1
  IN IF c = "power" /\ l.synced < whole THEN l.synced ELSE whole
Certain(c, l) == UNION {EntriesOf(l.records[i]) : i \in 1..SoundTo(c, l)}
InLogs(c, m) == UNION {Certain(c, logs[n]) : n \in LogsFrom(m.log)}
InMems(c, m) == UNION {MemEntries(n) \cap Certain(c, logs[n]) : n \in {log, imm} \cap LogsFrom(m.log)}
Left(c, m) == TableEntries(m.version.tables)
                \cup (IF Opened /\ ~m.torn THEN InMems(c, m) ELSE InLogs(c, m))
Owed(c, k) == IF Opened \/ c = "power" THEN safe[c][k] ELSE must[k]
Has(S, k, w) == w # 0 => \E e \in S : e.key = k /\ e.write >= w
SafeOK ==
  /\ safe \in [CrashKinds -> [Keys -> Nat]] /\ must \in [Keys -> Nat]
  /\ \A m \in OnDisk, c \in CrashKinds, k \in Keys : Has(Left(c, m), k, Owed(c, k))

StoreInv == OrderOK /\ WholeOK /\ LogsOK /\ WritersOK /\ WorkOK /\ SafeOK

(* The same, one entry at a time.                                          *)
InTable(T, e) == \E t \in T : e \in tables[t]
InLog(n, e) == e \in EntriesIn(logs[n].records)
Reaches(m, e) == InTable(m.version.tables, e) \/ \E n \in LogsFrom(m.log) : InLog(n, e)

(* ... and an entry is in the sets above if and only if they hold of it.   *)
LEMMA Members ==
  /\ \A T, e : e \in TableEntries(T) <=> InTable(T, e)
  /\ \A T, e : e \in TableEntries(T)' <=> InTable(T, e)'
  /\ \A m, e : e \in Reach(m) <=> Reaches(m, e)
  /\ \A m, e : e \in Reach(m)' <=> Reaches(m, e)'
  /\ \A e : e \in Reached <=> \E m \in OnDisk : Reaches(m, e)
  /\ \A e : e \in Reached' <=> \E m \in OnDisk' : Reaches(m, e)'
<1>1. \A T, e : e \in TableEntries(T) <=> InTable(T, e) BY DEF TableEntries, InTable
<1>2. \A T, e : e \in TableEntries(T)' <=> InTable(T, e)' BY DEF TableEntries, InTable
<1>3. \A m, e : e \in Reach(m) <=> Reaches(m, e) BY <1>1 DEF Reach, Reaches, LogEntries, InLog
<1>4. \A m, e : e \in Reach(m)' <=> Reaches(m, e)' BY <1>2 DEF Reach, Reaches, LogEntries, InLog
<1>5. \A e : e \in Reached <=> \E m \in OnDisk : Reaches(m, e) BY <1>3 DEF Reached
<1>6. \A e : e \in Reached' <=> \E m \in OnDisk' : Reaches(m, e)' BY <1>4 DEF Reached
<1> QED BY <1>1, <1>2, <1>3, <1>4, <1>5, <1>6

(* What they are.                                                          *)
LEMMA LogTypes ==
  ASSUME ReadInv, NEW n \in DOMAIN logs
  PROVE  /\ logs[n].records \in Seq(Record) /\ Len(logs[n].records) \in Nat
         /\ logs[n].synced \in Nat /\ logs[n].torn \in Nat
         /\ logs[n].torn <= Len(logs[n].records) + 1
         /\ \A i \in 1..Len(logs[n].records) : logs[n].records[i] \in Record
                                               /\ EntriesOf(logs[n].records[i]) \subseteq EntrySet
         /\ EntriesIn(logs[n].records) \subseteq EntrySet
<1>1. PICK l : l = logs[n] OBVIOUS
<1>2. l \in LogFile /\ l.torn <= Len(l.records) + 1 BY <1>1 DEF ReadInv, DataOK
<1>3. l.records \in Seq(Record) /\ l.synced \in Nat /\ l.torn \in Nat BY <1>2 DEF LogFile
<1>4. Len(l.records) \in Nat /\ \A i \in 1..Len(l.records) : l.records[i] \in Record
  BY <1>3, LenProperties, ElementOfSeq
<1>5. \A i \in 1..Len(l.records) : EntriesOf(l.records[i]) \subseteq EntrySet BY <1>4, EntriesOfType
<1>6. EntriesIn(l.records) \subseteq EntrySet BY <1>3, EntriesInType
<1> QED BY <1>1, <1>2, <1>3, <1>4, <1>5, <1>6

(* The tables of a version on the disk are there and have entries.         *)
LEMMA TableTypes ==
  ASSUME FilesInv, ReadInv, NEW m \in OnDisk
  PROVE  /\ m.version.tables \subseteq DOMAIN tables
         /\ \A t \in m.version.tables : tables[t] \subseteq EntrySet
         /\ TableEntries(m.version.tables) \subseteq EntrySet
<1>1. m.version.tables \subseteq DOMAIN tables BY FilesThereMeans DEF LiveFilesKept
<1>2. \A t \in DOMAIN tables : tables[t] \subseteq EntrySet BY DEF ReadInv, DataOK
<1> QED BY <1>1, <1>2 DEF TableEntries

(* What could be found are entries.                                        *)
LEMMA ReachedType ==
  ASSUME FilesInv, ReadInv
  PROVE  Reached \subseteq EntrySet
<1> SUFFICES ASSUME NEW m \in OnDisk, NEW e, Reaches(m, e) PROVE e \in EntrySet
  BY Members
<1>1. CASE InTable(m.version.tables, e) BY <1>1, TableTypes DEF InTable
<1>2. CASE \E n \in LogsFrom(m.log) : InLog(n, e) BY <1>2, LogTypes DEF InLog, LogsFrom
<1> QED BY <1>1, <1>2 DEF Reaches

(* What a log has for certain are records of it.                           *)
LEMMA SoundToIs ==
  ASSUME ReadInv, NEW n \in DOMAIN logs, NEW c
  PROVE  /\ SoundTo(c, logs[n]) \in 0..Len(logs[n].records)
         /\ Certain(c, logs[n]) \subseteq EntriesIn(logs[n].records)
<1>1. PICK l : l = logs[n] OBVIOUS
<1>2. l.synced \in Nat /\ l.torn \in Nat /\ Len(l.records) \in Nat /\ l.torn <= Len(l.records) + 1
  BY <1>1, LogTypes
<1>3. SoundTo(c, l) \in 0..Len(l.records) BY <1>2 DEF SoundTo
<1>4. Certain(c, l) \subseteq EntriesIn(l.records) BY <1>2, <1>3 DEF Certain, EntriesIn
<1> QED BY <1>1, <1>3, <1>4

(* S is in T, or newer writes of its keys are.                             *)
Covers(S, T) == \A e \in S : \E f \in T : f.key = e.key /\ f.write \in Nat /\ f.write >= e.write

(* What T covers, it has.                                                  *)
LEMMA HasCovered ==
  ASSUME NEW S \in SUBSET EntrySet, NEW T, Covers(S, T), NEW k, NEW w \in Nat, NEW v \in Nat, v <= w,
         Has(S, k, w)
  PROVE  Has(T, k, v)
<1>1. CASE w = 0 BY <1>1 DEF Has
<1>2. CASE w # 0
  <2>1. PICK e \in S : e.key = k /\ e.write >= w BY <1>2 DEF Has
  <2>2. PICK f \in T : f.key = e.key /\ f.write \in Nat /\ f.write >= e.write BY <2>1 DEF Covers
  <2>3. e.write \in Nat BY <2>1 DEF EntrySet
  <2>4. f.write >= v BY <2>1, <2>2, <2>3
  <2> QED BY <2>1, <2>2, <2>4 DEF Has
<1> QED BY <1>1, <1>2

(* A set covers its subsets.                                               *)
LEMMA CoversSelf ==
  ASSUME NEW S \in SUBSET EntrySet, NEW T, S \subseteq T
  PROVE  Covers(S, T)
BY DEF Covers, EntrySet

(* What a crash leaves are entries.                                        *)
LEMMA LeftType ==
  ASSUME FilesInv, ReadInv, NEW m \in OnDisk, NEW c
  PROVE  /\ InMems(c, m) \subseteq InLogs(c, m) /\ InLogs(c, m) \subseteq EntrySet
         /\ Left(c, m) \subseteq EntrySet
<1>1. InMems(c, m) \subseteq InLogs(c, m) BY DEF InMems, InLogs
<1>2. \A n \in LogsFrom(m.log) : Certain(c, logs[n]) \subseteq EntrySet
  BY SoundToIs, LogTypes DEF LogsFrom
<1>3. InLogs(c, m) \subseteq EntrySet BY <1>2 DEF InLogs
<1>4. TableEntries(m.version.tables) \subseteq EntrySet BY TableTypes
<1> QED BY <1>1, <1>3, <1>4 DEF Left

(* What every part of a crash's leavings has stays so, if each is covered  *)
(* by one of the step before.                                              *)
LEMMA SafeKept ==
  ASSUME FilesInv, ReadInv, SafeOK, UNCHANGED <<safe, must>>, Opened' = Opened,
         \A m \in OnDisk', c \in CrashKinds : \E n \in OnDisk : Covers(Left(c, n), Left(c, m)')
  PROVE  SafeOK'
<1>1. safe \in [CrashKinds -> [Keys -> Nat]] /\ must \in [Keys -> Nat] BY DEF SafeOK
<1>2. ASSUME NEW c, NEW k PROVE Owed(c, k)' = Owed(c, k) BY DEF Owed
<1>3. ASSUME NEW c \in CrashKinds, NEW k \in Keys PROVE Owed(c, k) \in Nat BY <1>1 DEF Owed
<1>4. ASSUME NEW m \in OnDisk', NEW c \in CrashKinds, NEW k \in Keys
      PROVE  Has(Left(c, m)', k, Owed(c, k)')
  <2>1. PICK n \in OnDisk : Covers(Left(c, n), Left(c, m)') OBVIOUS
  <2>2. PICK S, T, w : S = Left(c, n) /\ T = Left(c, m)' /\ w = Owed(c, k) OBVIOUS
  <2>3. S \in SUBSET EntrySet BY <2>2, LeftType
  <2>4. w \in Nat /\ w <= w /\ Has(S, k, w) BY <1>3, <2>2 DEF SafeOK
  <2>5. Has(T, k, w) BY <2>1, <2>2, <2>3, <2>4, HasCovered
  <2> QED BY <1>2, <2>2, <2>5
<1>5. \A m \in OnDisk', c \in CrashKinds, k \in Keys : Has(Left(c, m)', k, Owed(c, k)')
  BY <1>4
<1> QED BY <1>1, <1>5 DEF SafeOK

(* ... or has what one of them had.                                        *)
LEMMA SafeGrows ==
  ASSUME FilesInv, ReadInv, SafeOK, UNCHANGED <<safe, must>>, Opened' = Opened,
         \A m \in OnDisk', c \in CrashKinds : \E n \in OnDisk : Left(c, n) \subseteq Left(c, m)'
  PROVE  SafeOK'
<1>1. ASSUME NEW m \in OnDisk', NEW c \in CrashKinds
      PROVE  \E n \in OnDisk : Covers(Left(c, n), Left(c, m)')
  <2>1. PICK n \in OnDisk : Left(c, n) \subseteq Left(c, m)' OBVIOUS
  <2>2. PICK S, T : S = Left(c, n) /\ T = Left(c, m)' OBVIOUS
  <2>3. S \in SUBSET EntrySet /\ S \subseteq T BY <2>1, <2>2, LeftType
  <2>4. Covers(S, T) BY <2>3, CoversSelf
  <2> QED BY <2>2, <2>4
<1> QED BY <1>1, SafeKept

-----------------------------------------------------------------------------
(* 7. Each part of the invariant depends on some of the variables only.    *)
Still == /\ UNCHANGED <<logs, manifest, edit>>
         /\ \A m \in OnDisk : \A t \in m.version.tables : tables'[t] = tables[t]
MemsSame == mems'[log'] = mems[log] /\ MemEntries(imm)' = MemEntries(imm)

(* Where nothing on the disk changes, what could be found does not.        *)
LEMMA StillSame ==
  ASSUME Still
  PROVE  /\ OnDisk' = OnDisk /\ Reached' = Reached
         /\ \A m \in OnDisk : TableEntries(m.version.tables)' = TableEntries(m.version.tables)
<1>1. OnDisk' = OnDisk BY DEF Still, OnDisk, Edited, Torn
<1>2. \A m \in OnDisk : TableEntries(m.version.tables)' = TableEntries(m.version.tables)
  BY DEF Still, TableEntries
<1>3. \A m \in OnDisk : Reach(m)' = Reach(m) BY <1>2 DEF Still, Reach, LogEntries, LogsFrom
<1> QED BY <1>1, <1>2, <1>3 DEF Reached

(* The order of what could be found depends on the disk only.              *)
LEMMA OrderFrame ==
  ASSUME OrderOK, Still, batches' = batches
  PROVE  OrderOK'
BY StillSame DEF OrderOK, Asked

(* Batches stay whole where disk and memtables do not change.              *)
LEMMA WholeFrame ==
  ASSUME WholeOK, Still, UNCHANGED <<batches, phase>>, MemsSame
  PROVE  WholeOK'
<1>1. \A S : Complete(S) => Complete(S)' BY DEF Complete
<1>2. \A m \in OnDisk' : Complete(TableEntries(m.version.tables))'
  BY StillSame DEF WholeOK, Complete
<1>3. \A n \in DOMAIN logs' : \A i \in 1..Len(logs'[n].records) :
         (\A e \in EntriesOf(logs'[n].records[i]) : Asked(e)') /\ Complete(EntriesOf(logs[n].records[i]))'
  BY DEF WholeOK, Complete, Still, Asked
<1>4. phase' # "down" => Complete(mems[log])' /\ Complete(MemEntries(imm))'
  BY DEF WholeOK, Complete, MemsSame
<1> QED BY <1>2, <1>3, <1>4 DEF WholeOK

(* The logs stay named where the versions do not change.                   *)
LEMMA LogsFrame ==
  ASSUME LogsOK, Still, UNCHANGED <<phase, log, imm, current, logNumber>>, MemsSame,
         next \in Nat, next' = next \/ (phase = "up" /\ next' = next + 1),
         \A n \in DOMAIN logs : n \in Nat
  PROVE  LogsOK'
<1>1. OnDisk' = OnDisk BY StillSame
<1>2. Opened' = Opened BY DEF Opened
<1>3. phase # "down" => \A n \in DOMAIN logs : n < next' BY DEF LogsOK
<1> QED BY <1>1, <1>2, <1>3 DEF LogsOK, MemsSame, Still

(* The group is the same as long as its writers are.                       *)
LEMMA GroupKept ==
  ASSUME GroupOK, turn'.size = turn.size, turn'.record = turn.record, UNCHANGED <<queue, request, batches>>
  PROVE  GroupOK'
<1>1. Leader' = Leader /\ \A j : Write(j)' = Write(j) BY DEF Leader, Write
<1>2. PICK puts, n : puts = turn.record.puts /\ n = turn.size OBVIOUS
<1>3. turn'.record.puts = puts /\ turn'.size = n BY <1>2
<1>4. \A i \in 1..Len(puts) : \E j \in 1..n :
        puts[i].write = Write(j) /\ puts[i].key \in batches[Write(j)]
  BY <1>2 DEF GroupOK
<1>5. \A j \in 1..n : \A k \in batches[Write(j)] :
        \E i \in 1..Len(puts) : puts[i].key = k /\ puts[i].write = Write(j)
  BY <1>2 DEF GroupOK
<1>6. \A i, j \in 1..Len(puts) : i < j => puts[i].write <= puts[j].write BY <1>2 DEF GroupOK
<1>7. \A j \in 1..n : request[queue[j]].sync => Leader.sync BY <1>2 DEF GroupOK
<1>8. \A i \in 1..Len(puts) : \E j \in 1..n :
        puts[i].write = Write(j)' /\ puts[i].key \in batches'[Write(j)']
  BY <1>1, <1>4
<1>9. \A j \in 1..n : \A k \in batches'[Write(j)'] :
        \E i \in 1..Len(puts) : puts[i].key = k /\ puts[i].write = Write(j)'
  BY <1>1, <1>5
<1>10. \A j \in 1..n : request'[queue'[j]].sync => Leader'.sync BY <1>1, <1>7
<1> QED BY <1>3, <1>6, <1>8, <1>9, <1>10 DEF GroupOK

(* The writers' part looks at the queue, the group and what is visible.    *)
LEMMA WritersFrame ==
  ASSUME WritersOK, Still, UNCHANGED <<queue, request, phase, turn, batches, last, log>>, MemsSame
  PROVE  WritersOK'
<1>1. Reached' = Reached BY StillSame
<1>2. Opened' = Opened BY DEF Opened
<1>3. QueueInOrder'
  BY <1>1, <1>2 DEF WritersOK, QueueInOrder, Write, Past, Logging, Inserted, MemsSame
<1>4. turn.stage # "none" => GroupOK' /\ ProgressOK'
  <2> SUFFICES ASSUME turn.stage # "none" PROVE GroupOK' /\ ProgressOK' OBVIOUS
  <2>1. GroupOK /\ ProgressOK BY DEF WritersOK
  <2>2. GroupOK' BY <2>1, GroupKept
  <2>3. ProgressOK' BY <2>1 DEF ProgressOK, Leader, Inserted, MemsSame, Still
  <2> QED BY <2>2, <2>3
<1> QED BY <1>3, <1>4 DEF WritersOK

(* The background thread's part looks at its work and the version.         *)
LEMMA WorkFrame ==
  ASSUME WorkOK, UNCHANGED <<snapshot, phase, last, flush, merge, manifest, current, edit, log,
                             logNumber, tables>>, MemEntries(imm)' = MemEntries(imm)
  PROVE  WorkOK'
BY DEF WorkOK, Torn, TableEntries

(* What is safe stays so, and the memtables may get more.                  *)
LEMMA SafeFrame ==
  ASSUME FilesInv, ReadInv, SafeOK, Still, UNCHANGED <<safe, must, phase, log, imm>>,
         mems[log] \subseteq mems'[log], MemEntries(imm) \subseteq MemEntries(imm)'
  PROVE  SafeOK'
<1>1. OnDisk' = OnDisk /\ Opened' = Opened BY StillSame DEF Opened
<1>2. ASSUME NEW m \in OnDisk, NEW c PROVE Left(c, m) \subseteq Left(c, m)'
  <2>1. InLogs(c, m)' = InLogs(c, m) /\ TableEntries(m.version.tables)' = TableEntries(m.version.tables)
    BY StillSame DEF InLogs, LogsFrom, Still
  <2>2. InMems(c, m) \subseteq InMems(c, m)'
    <3>1. \A n \in {log, imm} : MemEntries(n) \subseteq MemEntries(n)' BY DEF MemEntries
    <3>2. LogsFrom(m.log)' = LogsFrom(m.log) BY DEF LogsFrom, Still
    <3> QED BY <3>1, <3>2 DEF InMems, Still
  <2> QED BY <1>1, <2>1, <2>2 DEF Left
<1> QED BY <1>1, <1>2, SafeGrows

(* Steps beside the files and the writers.                                 *)
LEMMA Beside5 ==
  ASSUME FilesInv, ReadInv, StoreInv, Still, MemsSame,
         UNCHANGED <<phase, log, imm, current, logNumber, last, queue, request, turn, batches, safe, must>>,
         next' = next \/ (phase = "up" /\ next' = next + 1)
  PROVE  OrderOK' /\ WholeOK' /\ LogsOK' /\ WritersOK' /\ SafeOK'
<1>1. OrderOK' BY OrderFrame DEF StoreInv
<1>2. WholeOK' BY WholeFrame DEF StoreInv
<1>3. next \in Nat /\ \A n \in DOMAIN logs : n \in Nat BY DEF FilesInv, NumbersOK
<1>4. LogsOK' BY <1>3, LogsFrame DEF StoreInv
<1>5. WritersOK' BY WritersFrame DEF StoreInv
<1>6. SafeOK' BY SafeFrame DEF StoreInv, MemsSame
<1> QED BY <1>1, <1>2, <1>4, <1>5, <1>6

-----------------------------------------------------------------------------
(* 8. Every step keeps the invariant.                                      *)

(* An empty database promises nothing.                                     *)
LEMMA InitStore == Init => StoreInv
<1> SUFFICES ASSUME Init PROVE StoreInv OBVIOUS
<1>1. OnDisk = manifest /\ \A m \in manifest : m.version.tables = {} /\ m.log = 0 /\ m.next = 2
  BY DEF Init, OnDisk, Empty, Version
<1>2. DOMAIN logs = {} /\ phase = "down" /\ ~ Opened BY DEF Init, Opened
<1>3. \A e : e \notin Reached BY <1>1, <1>2, Members DEF Reaches, InTable, LogsFrom
<1>4. OrderOK BY <1>3 DEF OrderOK, Ordered
<1>5. \A m \in OnDisk : TableEntries(m.version.tables) = {} BY <1>1 DEF TableEntries
<1>6. WholeOK BY <1>2, <1>5 DEF WholeOK, Complete
<1>7. LogsOK BY <1>1, <1>2 DEF LogsOK
<1>8. WritersOK BY <1>2, EmptySeq DEF Init, WritersOK, QueueInOrder, Idle
<1>9. WorkOK BY DEF Init, WorkOK, Idle
<1>10. SafeOK
  <2>1. safe = [c \in CrashKinds |-> Nothing] /\ must = Nothing BY DEF Init
  <2>2. \A c \in CrashKinds, k \in Keys : Owed(c, k) = 0 BY <2>1 DEF Owed, Nothing
  <2>3. safe \in [CrashKinds -> [Keys -> Nat]] /\ must \in [Keys -> Nat] BY <2>1 DEF Nothing
  <2> QED BY <2>2, <2>3 DEF SafeOK, Has
<1> QED BY <1>4, <1>6, <1>7, <1>8, <1>9, <1>10 DEF StoreInv

(* The readers and the snapshot, and work that begins.                     *)
LEMMA QuietStore ==
  ASSUME FilesInv, ReadInv, StoreInv,
         \/ Sleep \/ NothingToDo \/ GetSnapshot \/ ReleaseSnapshot \/ FlushBegins \/ MergeBegins
         \/ \E r \in Readers, k \in Keys, seq \in 0..last : GetBegins(r, k, seq)
         \/ \E r \in Readers : Getting(r)
         \/ UNCHANGED vars
  PROVE  StoreInv'
<1> USE DEF disk, versions, memory, background, clients, history, bounds
<1>1. /\ Still
      /\ UNCHANGED <<tables, phase, log, imm, current, logNumber, last, queue, request, turn, batches, safe, must>>
  BY DEF Still, Sleep, NothingToDo, GetSnapshot, ReleaseSnapshot, FlushBegins, MergeBegins, Merges,
         GetBegins, Getting, GetInMems, GetInTables, GetEnds, vars
<1>2. \/ UNCHANGED mems
      \/ \E r \in Readers : GetEnds(r)
  BY DEF Sleep, NothingToDo, GetSnapshot, ReleaseSnapshot, FlushBegins, MergeBegins, GetBegins,
         Getting, GetInMems, GetInTables, vars
<1>3. MemsSame
  <2>1. CASE UNCHANGED mems BY <1>1, <2>1 DEF MemsSame, MemEntries
  <2>2. CASE \E r \in Readers : GetEnds(r)
    <3>1. PICK r \in Readers : GetEnds(r) BY <2>2
    <3>2. phase = "up" BY <3>1 DEF GetEnds, FilesInv, PhasesOK, Quiet, Idle
    <3>3. log \in DOMAIN mems /\ (imm # 0 => imm \in DOMAIN mems) BY <3>2 DEF ReadInv, MemsOK
    <3>4. mems' = [m \in DOMAIN mems \cap KeptMems(log, imm, InUse(Readers \ {r})) |-> mems[m]]
      BY <3>1 DEF GetEnds, Unused
    <3>5. log \in KeptMems(log, imm, InUse(Readers \ {r}))
          /\ (imm # 0 => imm \in KeptMems(log, imm, InUse(Readers \ {r})))
      BY DEF KeptMems
    <3> QED BY <1>1, <3>3, <3>4, <3>5 DEF MemsSame, MemEntries
  <2> QED BY <1>2, <2>1, <2>2
<1>4. next' = next \/ (phase = "up" /\ next' = next + 1)
  <2>1. CASE FlushBegins
    <3>1. phase = "up" BY <2>1 DEF FlushBegins, Called, FilesInv, PhasesOK, Quiet, Idle
    <3> QED BY <2>1, <3>1 DEF FlushBegins
  <2> QED BY <2>1 DEF Sleep, NothingToDo, GetSnapshot, ReleaseSnapshot, MergeBegins, GetBegins,
         Getting, GetInMems, GetInTables, GetEnds, vars
<1>5. OrderOK' /\ WholeOK' /\ LogsOK' /\ WritersOK' /\ SafeOK' BY <1>1, <1>3, <1>4, Beside5
<1>6. WorkOK'
  <2>0. last \in Nat /\ WorkOK BY DEF ReadInv, DataOK, StoreInv
  <2>1. MemEntries(imm)' = MemEntries(imm) BY <1>3 DEF MemsSame
  <2>2. UNCHANGED <<manifest, edit, tables>> BY <1>1 DEF Still
  <2>3. CASE GetSnapshot
    BY <1>1, <2>0, <2>1, <2>2, <2>3 DEF GetSnapshot, WorkOK, Torn, TableEntries
  <2>4. CASE ReleaseSnapshot
    BY <1>1, <2>0, <2>1, <2>2, <2>4 DEF ReleaseSnapshot, WorkOK, Torn, TableEntries
  <2>5. CASE FlushBegins
    <3>1. flush'.stage = "building" /\ UNCHANGED <<snapshot, merge>> BY <2>5 DEF FlushBegins
    <3>2. \A m \in manifest \ Torn : current.tables \subseteq m.version.tables
      <4>1. CASE merge.stage # "none" BY <2>0, <4>1 DEF WorkOK
      <4>2. CASE merge.stage = "none"
        <5>1. phase = "up" /\ ~ bgError BY <2>5, <4>2 DEF FlushBegins, Called
        <5> QED BY <5>1 DEF FilesInv, PhasesOK, Sole
      <4> QED BY <4>1, <4>2
    <3> QED BY <1>1, <2>0, <2>1, <2>2, <3>1, <3>2 DEF WorkOK, Torn, TableEntries
  <2>6. CASE MergeBegins
    <3>1. PICK T \in SUBSET current.tables :
            merge' = [stage |-> "reading", version |-> current, inputs |-> T,
                      smallest |-> SmallestSnapshot, number |-> 0]
      BY <2>6 DEF MergeBegins
    <3>2. phase = "up" /\ ~ bgError /\ UNCHANGED <<snapshot, flush>> /\ flush.stage = "none"
      BY <2>6 DEF MergeBegins, Merges, Called
    <3>3. \A m \in manifest \ Torn : current.tables \subseteq m.version.tables
      BY <3>2 DEF FilesInv, PhasesOK, Sole
    <3>4. SmallestSnapshot \in 0..last /\ (snapshot # -1 => SmallestSnapshot <= snapshot)
      BY <2>0 DEF SmallestSnapshot, WorkOK
    <3>5. merge'.stage = "reading" /\ merge'.inputs = T /\ merge'.smallest = SmallestSnapshot
          /\ {"inputs", "smallest"} \subseteq DOMAIN merge'
      BY <3>1
    <3> QED BY <1>1, <2>0, <2>2, <3>2, <3>3, <3>4, <3>5 DEF WorkOK, Torn
  <2>7. CASE ~ (GetSnapshot \/ ReleaseSnapshot \/ FlushBegins \/ MergeBegins)
    <3>1. UNCHANGED <<snapshot, flush, merge>>
      BY <2>7 DEF Sleep, NothingToDo, GetBegins, Getting, GetInMems, GetInTables, GetEnds, vars
    <3> QED BY <1>1, <2>0, <2>1, <2>2, <3>1, WorkFrame
  <2> QED BY <2>3, <2>4, <2>5, <2>6, <2>7
<1> QED BY <1>5, <1>6 DEF StoreInv

(* Who waits in the queue.                                                 *)
LEMMA Queued ==
  ASSUME ReadInv
  PROVE  /\ Len(queue) \in Nat /\ batches \in Seq(Batches) /\ Len(batches) \in Nat
         /\ \A i \in 1..Len(queue) : queue[i] \in Writers /\ Write(i) \in 1..Len(batches)
         /\ turn.stage # "none" => /\ turn.size \in 1..Len(queue) /\ turn.record \in Record
                                   /\ turn.ok \in BOOLEAN /\ phase = "up"
<1>1. queue \in Seq(Writers) /\ Len(queue) \in Nat /\ Len(batches) \in Nat
  BY LenProperties DEF ReadInv, DataOK, QueueOK
<1>2. \A i \in 1..Len(queue) : queue[i] \in Writers BY <1>1, ElementOfSeq
<1>3. \A i \in 1..Len(queue) : Write(i) \in 1..Len(batches)
  BY <1>2 DEF Write, ReadInv, QueueOK
<1> QED BY <1>1, <1>2, <1>3 DEF ReadInv, DataOK, TurnOK

(* What is in the memtables could be found in their logs.                  *)
LEMMA MemsReached ==
  ASSUME FilesInv, ReadInv, StoreInv, Opened
  PROVE  /\ All \subseteq Reached /\ All \subseteq EntrySet
         /\ \A e \in All : Asked(e)
         /\ LogsFrom(logNumber) \subseteq DOMAIN logs
         /\ \A n \in LogsFrom(logNumber) : EntriesIn(logs[n].records) \subseteq Reached
<1>1. PICK m \in manifest : m.version = current /\ m.log = logNumber BY DEF StoreInv, LogsOK
<1>2. m \in OnDisk BY DEF OnDisk
<1>3. TableEntries(current.tables) \subseteq Reached BY <1>1, <1>2, Members DEF Reaches
<1>4. \A n \in LogsFrom(logNumber) : EntriesIn(logs[n].records) \subseteq Reached
  BY <1>1, <1>2, Members DEF Reaches, InLog
<1>5. phase # "down" BY DEF Opened
<1>6. log \in LogsFrom(logNumber) /\ (imm # 0 => imm \in LogsFrom(logNumber))
  <2>1. DOMAIN logs \subseteq Nat BY DEF FilesInv, NumbersOK
  <2> QED BY <1>5, <2>1 DEF LogsFrom, StoreInv, LogsOK
<1>7. mems[log] \subseteq Reached BY <1>4, <1>6 DEF StoreInv, LogsOK
<1>8. MemEntries(imm) \subseteq Reached
  <2>1. CASE imm = 0 BY <2>1 DEF MemEntries
  <2>2. CASE imm # 0
    <3>1. MemEntries(imm) \subseteq EntriesIn(logs[imm].records) BY <2>2 DEF StoreInv, LogsOK
    <3> QED BY <1>4, <1>6, <2>2, <3>1
  <2> QED BY <2>1, <2>2
<1>9. All \subseteq Reached BY <1>3, <1>7, <1>8 DEF All
<1> QED BY <1>4, <1>9, ReachedType DEF StoreInv, OrderOK, LogsFrom

(* A writer joins the queue (DBImpl::Write).                               *)
LEMMA AskStore ==
  ASSUME FilesInv, ReadInv, StoreInv, NEW w \in Writers, NEW b \in Batches, Ask(w, b)
  PROVE  StoreInv'
<1> USE DEF disk, versions, memory, background, clients, history, bounds
<1>1. /\ phase = "up" /\ request[w].stage = "none" /\ batches' = Append(batches, b)
      /\ request' = [request EXCEPT ![w] =
           [stage |-> "waiting", write |-> Len(batches) + 1, sync |-> w \in Syncing]]
      /\ queue' = Append(queue, w)
      /\ Still /\ UNCHANGED <<tables, phase, memory, versions, background, snapshot, turn, reading, safe, must>>
  BY DEF Ask, Still
<1>2. MemsSame BY <1>1 DEF MemsSame, MemEntries
<1>3. batches \in Seq(Batches) /\ Len(batches) \in Nat BY Queued
<1>4. Len(batches') = Len(batches) + 1 /\ \A i \in 1..Len(batches) : batches'[i] = batches[i]
  BY <1>1, <1>3, AppendProperties
<1>5. queue \in Seq(Writers) /\ Len(queue) \in Nat BY LenProperties DEF ReadInv, QueueOK
<1>6. /\ Len(queue') = Len(queue) + 1 /\ queue'[Len(queue) + 1] = w
      /\ \A i \in 1..Len(queue) : queue'[i] = queue[i]
  BY <1>1, <1>5, AppendProperties
<1>7. ASSUME NEW i \in 1..Len(queue)
      PROVE  Write(i)' = Write(i) /\ request'[queue'[i]] = request[queue[i]] /\ Write(i) \in 1..Len(batches)
  <2>1. queue[i] # w /\ queue[i] \in Writers BY <1>1, <1>5, ElementOfSeq DEF ReadInv, QueueOK
  <2>2. Write(i) \in 1..Len(batches) BY Queued
  <2> QED BY <1>1, <1>6, <2>1, <2>2 DEF Write
<1>8. \A i : i = Len(queue) + 1 => Write(i)' = Len(batches) + 1
  BY <1>1, <1>6 DEF Write, ReadInv, QueueOK
<1>9. \A i \in 1..Len(queue') : i \in 1..Len(queue) \/ i = Len(queue) + 1 BY <1>5, <1>6
<1>10. ASSUME NEW e, Asked(e) PROVE Asked(e)' BY <1>3, <1>4, <1>10 DEF Asked
<1>11. ASSUME NEW S, \A e \in S : Asked(e), Complete(S) PROVE Complete(S)'
  BY <1>4, <1>11 DEF Complete, Asked
<1>12. OnDisk' = OnDisk /\ Reached' = Reached BY <1>1, StillSame
<1>13. Opened /\ Opened' BY <1>1 DEF Opened
<1>14. /\ All \subseteq Reached /\ \A e \in All : Asked(e) BY <1>13, MemsReached
<1>15. mems[log] \subseteq All /\ MemEntries(imm) \subseteq All BY DEF All
<1>16. OrderOK' BY <1>10, <1>12 DEF StoreInv, OrderOK
<1>17. WholeOK'
  <2>1. ASSUME NEW m \in OnDisk' PROVE Complete(TableEntries(m.version.tables))'
    <3>1. \A e \in TableEntries(m.version.tables) : Asked(e)
      BY <1>12, <2>1, Members DEF Reaches, StoreInv, OrderOK
    <3>2. PICK S : S = TableEntries(m.version.tables) OBVIOUS
    <3>3. Complete(S) BY <1>12, <2>1, <3>2 DEF StoreInv, WholeOK
    <3>4. Complete(S)' BY <1>11, <3>1, <3>2, <3>3
    <3>5. TableEntries(m.version.tables)' = S BY <1>1, <3>2 DEF TableEntries, Still
    <3> QED BY <3>4, <3>5 DEF Complete
  <2>2. ASSUME NEW n \in DOMAIN logs', NEW i \in 1..Len(logs'[n].records)
        PROVE  (\A e \in EntriesOf(logs'[n].records[i]) : Asked(e)') /\ Complete(EntriesOf(logs[n].records[i]))'
    <3>1. PICK S : S = EntriesOf(logs'[n].records[i]) OBVIOUS
    <3>2. logs' = logs BY <1>1 DEF Still
    <3>3. (\A e \in S : Asked(e)) /\ Complete(S) BY <2>2, <3>1, <3>2 DEF StoreInv, WholeOK
    <3>4. (\A e \in S : Asked(e)') /\ Complete(S)' BY <1>10, <1>11, <3>3
    <3> QED BY <3>1, <3>4 DEF Complete
  <2>3. Complete(mems[log])' /\ Complete(MemEntries(imm))'
    <3>1. PICK S, T : S = mems[log] /\ T = MemEntries(imm) OBVIOUS
    <3>2. Complete(S) /\ Complete(T) BY <1>1, <3>1 DEF StoreInv, WholeOK
    <3>3. Complete(S)' /\ Complete(T)' BY <1>11, <1>14, <1>15, <3>1, <3>2
    <3> QED BY <1>2, <3>1, <3>3 DEF MemsSame, Complete
  <2> QED BY <2>1, <2>2, <2>3 DEF WholeOK
<1>18. LogsOK'
  <2>1. next \in Nat /\ \A n \in DOMAIN logs : n \in Nat BY DEF FilesInv, NumbersOK
  <2> QED BY <1>1, <1>2, <2>1, LogsFrame DEF StoreInv
<1>19. QueueInOrder'
  <2>0. QueueInOrder BY DEF StoreInv, WritersOK
  <2>1. \A i, j \in 1..Len(queue') : i < j => Write(i)' < Write(j)'
    <3> SUFFICES ASSUME NEW i \in 1..Len(queue'), NEW j \in 1..Len(queue'), i < j
                 PROVE  Write(i)' < Write(j)'
      OBVIOUS
    <3>1. i \in 1..Len(queue) BY <1>5, <1>6, <1>9
    <3>2. CASE j \in 1..Len(queue) BY <1>7, <2>0, <3>1, <3>2 DEF QueueInOrder
    <3>3. CASE j = Len(queue) + 1
      <4>1. Write(i) <= Len(batches) /\ Write(i) \in Nat BY <1>3, <1>7, <3>1
      <4>2. Write(i)' = Write(i) /\ Write(j)' = Len(batches) + 1 BY <1>7, <1>8, <3>1, <3>3
      <4> QED BY <1>3, <4>1, <4>2
    <3> QED BY <1>9, <3>2, <3>3
  <2>2. ASSUME NEW e, Asked(e), Past(e) PROVE Past(e)'
    <3> SUFFICES ASSUME NEW i \in 1..Len(queue') PROVE e.write < Write(i)'
      BY <1>1, <2>2 DEF Past
    <3>1. CASE i \in 1..Len(queue) BY <1>7, <2>2, <3>1 DEF Past
    <3>2. CASE i = Len(queue) + 1
      <4>1. Write(i)' = Len(batches) + 1 BY <1>8, <3>2
      <4> QED BY <1>3, <2>2, <4>1 DEF Asked
    <3> QED BY <1>9, <3>1, <3>2
  <2>3. \A e \in Reached : Asked(e) BY DEF StoreInv, OrderOK
  <2>4. \A e \in Reached' : Past(e)' \/ (Logging' /\ e \in EntriesOf(turn'.record))
    BY <1>1, <1>12, <1>13, <2>0, <2>2, <2>3 DEF QueueInOrder, Logging
  <2>5. \A e \in mems'[log'] : Past(e)' \/ (Inserted' /\ e \in EntriesOf(turn'.record))
    BY <1>1, <1>13, <1>14, <1>15, <2>0, <2>2 DEF QueueInOrder, Inserted
  <2> QED BY <1>1, <2>1, <2>4, <2>5 DEF QueueInOrder
<1>20. ASSUME turn'.stage # "none" PROVE GroupOK' /\ ProgressOK'
  <2>1. turn' = turn BY <1>1
  <2>2. turn.size \in 1..Len(queue) /\ GroupOK /\ ProgressOK
    BY <1>20, <2>1, Queued DEF StoreInv, WritersOK
  <2>3. ASSUME NEW j \in 1..turn.size
        PROVE  /\ j \in 1..Len(queue) /\ Write(j)' = Write(j) /\ batches'[Write(j)'] = batches[Write(j)]
               /\ request'[queue'[j]] = request[queue[j]]
    <3>1. j \in 1..Len(queue) BY <1>5, <2>2
    <3> QED BY <1>4, <1>7, <3>1
  <2>4. 1 \in 1..Len(queue) BY <1>5, <2>2
  <2>5. Leader' = Leader BY <1>7, <2>4 DEF Leader
  <2>6. GroupOK'
    <3>1. PICK puts, n, ws, bs :
            /\ puts = turn.record.puts /\ n = turn.size
            /\ ws = [j \in 1..n |-> Write(j)] /\ bs = [j \in 1..n |-> batches[Write(j)]]
      OBVIOUS
    <3>4. \A j \in 1..n : ws[j] = Write(j) /\ bs[j] = batches[Write(j)] BY <3>1
    <3>5. /\ \A i \in 1..Len(puts) : \E j \in 1..n : puts[i].write = ws[j] /\ puts[i].key \in bs[j]
          /\ \A j \in 1..n : \A k \in bs[j] :
               \E i \in 1..Len(puts) : puts[i].key = k /\ puts[i].write = ws[j]
          /\ \A i, j \in 1..Len(puts) : i < j => puts[i].write <= puts[j].write
      BY <2>2, <3>1, <3>4 DEF GroupOK
    <3>6. \A j \in 1..n : ws[j] = Write(j)' /\ bs[j] = batches'[Write(j)'] BY <2>3, <3>1, <3>4
    <3>2. /\ \A i \in 1..Len(puts) : \E j \in 1..n :
               puts[i].write = Write(j)' /\ puts[i].key \in batches'[Write(j)']
          /\ \A j \in 1..n : \A k \in batches'[Write(j)'] :
               \E i \in 1..Len(puts) : puts[i].key = k /\ puts[i].write = Write(j)'
          /\ \A i, j \in 1..Len(puts) : i < j => puts[i].write <= puts[j].write
      BY <3>5, <3>6, SMTT(30)
    <3>3. \A j \in 1..turn.size : request'[queue'[j]].sync => Leader'.sync
      BY <2>2, <2>3, <2>5 DEF GroupOK
    <3> QED BY <2>1, <3>1, <3>2, <3>3 DEF GroupOK
  <2>7. ProgressOK' BY <1>1, <2>1, <2>2, <2>5 DEF ProgressOK, Inserted, Still
  <2> QED BY <2>6, <2>7
<1>21. WorkOK' BY <1>1, <1>2, WorkFrame DEF StoreInv, MemsSame, Still
<1>22. SafeOK' BY <1>1, <1>2, SafeFrame DEF StoreInv, MemsSame
<1> QED BY <1>16, <1>17, <1>18, <1>19, <1>20, <1>21, <1>22 DEF StoreInv, WritersOK

(* Who is left when the first n have gone.                                 *)
LEMMA LeaveShifts ==
  ASSUME QueueOK, NEW n \in 1..Len(queue), Leave(n)
  PROVE  /\ Len(queue) \in Nat /\ queue' \in Seq(Writers) /\ Len(queue') = Len(queue) - n
         /\ \A i \in 1..Len(queue') : /\ n + i \in 1..Len(queue) /\ queue'[i] = queue[n + i]
                                      /\ request'[queue'[i]] = request[queue[n + i]]
<1>1. queue \in Seq(Writers) /\ Len(queue) \in Nat BY LenProperties DEF QueueOK
<1>2. queue' = SubSeq(queue, n + 1, Len(queue)) BY DEF Leave
<1>3. \A i \in (n + 1)..Len(queue) : queue[i] \in Writers BY <1>1, ElementOfSeq
<1>4. n + 1 \in Int /\ Len(queue) \in Int BY <1>1
<1>5. /\ queue' \in Seq(Writers)
      /\ Len(queue') = IF n + 1 <= Len(queue) THEN Len(queue) - (n + 1) + 1 ELSE 0
      /\ \A i \in 1..(Len(queue) - (n + 1) + 1) : queue'[i] = queue[n + 1 + i - 1]
  BY <1>2, <1>3, <1>4, SubSeqProperties
<1>6. Len(queue') = Len(queue) - n BY <1>1, <1>5
<1>7. ASSUME NEW i \in 1..Len(queue')
      PROVE  /\ n + i \in 1..Len(queue) /\ queue'[i] = queue[n + i]
             /\ request'[queue'[i]] = request[queue[n + i]]
  <2>1. i \in 1..(Len(queue) - (n + 1) + 1) /\ n + 1 + i - 1 = n + i /\ n + i \in 1..Len(queue)
    BY <1>1, <1>6
  <2>2. queue'[i] = queue[n + i] BY <1>5, <2>1
  <2>3. \A j \in 1..n : queue[j] # queue[n + i]
    <3> SUFFICES ASSUME NEW j \in 1..n, queue[j] = queue[n + i] PROVE FALSE OBVIOUS
    <3>1. j \in 1..Len(queue) BY <1>1
    <3>2. j = n + i BY <2>1, <3>1 DEF QueueOK
    <3> QED BY <1>1, <3>2
  <2>4. queue[n + i] \in Writers BY <1>1, <2>1, ElementOfSeq
  <2>5. request'[queue[n + i]] = request[queue[n + i]] BY <2>3, <2>4 DEF Leave
  <2> QED BY <2>1, <2>2, <2>5
<1> QED BY <1>1, <1>5, <1>6, <1>7

(* ... is still in order, and behind all that is past.                     *)
LEMMA LeaveInOrder ==
  ASSUME ReadInv, StoreInv, NEW n \in 1..Len(queue), Leave(n), last' \in Nat, last' >= last,
         \A e \in Reached' : e \in Reached
  PROVE  /\ \A i, j \in 1..Len(queue') : i < j => Write(i)' < Write(j)'
         /\ \A e \in EntrySet : Past(e) => Past(e)'
         /\ \A i \in 1..Len(queue') : \A j \in 1..n : Write(j) < Write(i)'
<1>0. QueueOK /\ last \in Nat /\ QueueInOrder
  BY DEF ReadInv, DataOK, StoreInv, WritersOK
<1>1. /\ Len(queue) \in Nat /\ Len(queue') = Len(queue) - n
      /\ \A i \in 1..Len(queue') : n + i \in 1..Len(queue) /\ request'[queue'[i]] = request[queue[n + i]]
  BY <1>0, LeaveShifts
<1>2. \A i \in 1..Len(queue') : n + i \in 1..Len(queue) /\ Write(i)' = Write(n + i)
  BY <1>1 DEF Write
<1>3. ASSUME NEW i \in 1..Len(queue'), NEW j \in 1..Len(queue'), i < j PROVE Write(i)' < Write(j)'
  <2>1. n + i < n + j BY <1>1, <1>3
  <2> QED BY <1>0, <1>2, <2>1 DEF QueueInOrder
<1>4. ASSUME NEW e \in EntrySet, Past(e) PROVE Past(e)'
  <2>1. e.seq <= last' BY <1>0, <1>4 DEF Past, EntrySet
  <2> QED BY <1>2, <1>4, <2>1 DEF Past
<1>5. ASSUME NEW i \in 1..Len(queue'), NEW j \in 1..n PROVE Write(j) < Write(i)'
  <2>1. j < n + i /\ j \in 1..Len(queue) BY <1>1
  <2> QED BY <1>0, <1>2, <2>1 DEF QueueInOrder
<1> QED BY <1>3, <1>4, <1>5

(* A writer is refused, or finds no file for a new log.                    *)
LEMMA RefuseStore ==
  ASSUME FilesInv, ReadInv, StoreInv, Refuse \/ NoNewLog
  PROVE  StoreInv'
<1> USE DEF disk, versions, memory, background, clients, history, bounds
<1>1. /\ AtFront /\ Leave(1) /\ Still /\ MemsSame
      /\ UNCHANGED <<tables, phase, memory, versions, background, snapshot, turn, reading, batches, safe, must>>
  BY DEF Refuse, NoNewLog, Still, MemsSame, MemEntries
<1>2. phase = "up" /\ turn.stage = "none" /\ 1 \in 1..Len(queue) /\ Opened /\ Opened'
  BY <1>1, EmptySeq DEF AtFront, ReadInv, QueueOK, Opened
<1>3. Reached' = Reached /\ Reached \subseteq EntrySet BY <1>1, StillSame, ReachedType
<1>4. last' = last /\ last \in Nat BY <1>1 DEF ReadInv, DataOK
<1>5. /\ \A i, j \in 1..Len(queue') : i < j => Write(i)' < Write(j)'
      /\ \A e \in EntrySet : Past(e) => Past(e)'
  BY <1>1, <1>2, <1>3, <1>4, LeaveInOrder
<1>6. mems[log] \subseteq EntrySet /\ mems'[log'] = mems[log] BY <1>1, <1>2, OldNumbers DEF MemsSame
<1>7. QueueInOrder'
  <2>1. \A e \in Reached \cup mems[log] : Past(e)
    BY <1>2 DEF StoreInv, WritersOK, QueueInOrder, Logging, Inserted
  <2> QED BY <1>1, <1>2, <1>3, <1>5, <1>6, <2>1 DEF QueueInOrder
<1>8. WritersOK' BY <1>1, <1>2, <1>7 DEF WritersOK
<1>9. OrderOK' BY <1>1, OrderFrame DEF StoreInv
<1>10. WholeOK' BY <1>1, WholeFrame DEF StoreInv
<1>11. LogsOK'
  <2>1. next \in Nat /\ \A n \in DOMAIN logs : n \in Nat BY DEF FilesInv, NumbersOK
  <2> QED BY <1>1, <2>1, LogsFrame DEF StoreInv
<1>12. WorkOK' BY <1>1, WorkFrame DEF StoreInv, Still, MemsSame
<1>13. SafeOK' BY <1>1, SafeFrame DEF StoreInv, MemsSame
<1> QED BY <1>8, <1>9, <1>10, <1>11, <1>12, <1>13 DEF StoreInv

(* A new memtable, with its log; nothing is in them.                       *)
LEMMA SwitchStore ==
  ASSUME FilesInv, ReadInv, StoreInv, phase = "up", imm = 0, SwitchMemTable,
         UNCHANGED <<tables, manifest, edit, phase, current, logNumber, last, flush, merge, snapshot,
                     batches, safe, must>>
  PROVE  /\ OrderOK' /\ WholeOK' /\ LogsOK' /\ WorkOK' /\ SafeOK'
         /\ Reached' = Reached /\ mems'[log'] = {}
<1>1. /\ logs' = With(logs, next, NewLog) /\ log' = next /\ next' = next + 1 /\ imm' = log
      /\ mems' = With(mems, next, {})
  BY DEF SwitchMemTable
<1>2. next \in Nat /\ next \notin DOMAIN logs /\ next \notin DOMAIN mems /\ DOMAIN logs \subseteq Nat
  BY DEF FilesInv, NumbersOK, ReadInv, DataOK, StoreInv, LogsOK
<1>3. /\ DOMAIN logs' = {next} \cup DOMAIN logs /\ logs'[next] = NewLog
      /\ \A n \in DOMAIN logs : logs'[n] = logs[n]
      /\ mems'[next] = {} /\ \A n \in DOMAIN mems : mems'[n] = mems[n]
  BY <1>1, <1>2 DEF With
<1>4. /\ log \in DOMAIN logs /\ log # 0 /\ log \in DOMAIN mems /\ log < next /\ log \in Nat
      /\ \A m \in OnDisk : m.log \in Nat /\ m.log <= log
  BY <1>2 DEF ReadInv, MemsOK, StoreInv, LogsOK
<1>5. OnDisk' = OnDisk BY DEF OnDisk, Edited, Torn
<1>6. ASSUME NEW x \in Nat PROVE LogsFrom(x) \subseteq LogsFrom(x)' /\ LogsFrom(x)' \subseteq LogsFrom(x) \cup {next}
  BY <1>3 DEF LogsFrom
<1>7. \A n, e : n = next => ~ InLog(n, e)'
  <2>1. EntriesIn(NewLog.records) = {} BY DEF NewLog, EntriesIn
  <2> QED BY <1>3, <2>1 DEF InLog
<1>8. \A T, e : InTable(T, e)' <=> InTable(T, e) BY DEF InTable
<1>9. Reached' = Reached
  <2>1. ASSUME NEW m \in OnDisk, NEW e PROVE Reaches(m, e)' <=> Reaches(m, e)
    <3>1. PICK x : x = m.log OBVIOUS
    <3>2. x \in Nat BY <1>4, <3>1
    <3>3. \A n \in LogsFrom(x) : InLog(n, e)' <=> InLog(n, e) BY <1>3 DEF LogsFrom, InLog
    <3>4. (\E n \in LogsFrom(x)' : InLog(n, e)') <=> (\E n \in LogsFrom(x) : InLog(n, e))
      BY <1>6, <1>7, <3>2, <3>3
    <3> QED BY <1>8, <3>1, <3>4 DEF Reaches
  <2> QED BY <1>5, <2>1, Members
<1>10. mems'[log'] = {} /\ MemEntries(imm)' = mems[log] BY <1>1, <1>3, <1>4 DEF MemEntries
<1>11. OrderOK' BY <1>9 DEF StoreInv, OrderOK, Asked
<1>12. WholeOK'
  <2>1. \A m \in OnDisk' : Complete(TableEntries(m.version.tables))'
    BY <1>5 DEF StoreInv, WholeOK, TableEntries, Complete
  <2>2. \A n \in DOMAIN logs' : \A i \in 1..Len(logs'[n].records) :
          (\A e \in EntriesOf(logs'[n].records[i]) : Asked(e)') /\ Complete(EntriesOf(logs[n].records[i]))'
    <3>1. Len(NewLog.records) = 0 BY DEF NewLog
    <3> QED BY <1>3, <3>1 DEF StoreInv, WholeOK, Complete, Asked
  <2>3. Complete(mems[log])' /\ Complete(MemEntries(imm))'
    BY <1>10 DEF StoreInv, WholeOK, Complete
  <2> QED BY <2>1, <2>2, <2>3 DEF WholeOK
<1>13. LogsOK'
  <2>1. \A m \in OnDisk' : m.log \in Nat /\ m.log <= m.next /\ m.log <= log'
    BY <1>1, <1>2, <1>4, <1>5 DEF StoreInv, LogsOK
  <2>2. \A n \in DOMAIN logs' : logs'[n].synced <= Len(logs'[n].records) /\ n < next'
    BY <1>1, <1>2, <1>3 DEF StoreInv, LogsOK, NewLog
  <2>3. log' \in DOMAIN logs' /\ imm' \in DOMAIN logs' /\ imm' < log' BY <1>1, <1>3, <1>4
  <2>4. logNumber' \in Nat /\ logNumber' <= log' /\ logNumber' <= imm'
    BY <1>1, <1>2, <1>4 DEF StoreInv, LogsOK, Opened
  <2>5. \E m \in manifest' : m.version = current' /\ m.log = logNumber' /\ ~ m.torn
    BY DEF StoreInv, LogsOK, Opened
  <2>6. mems'[log'] \subseteq EntriesIn(logs'[log'].records) BY <1>10
  <2>7. MemEntries(imm)' \subseteq EntriesIn(logs'[imm'].records)
    <3>1. mems[log] \subseteq EntriesIn(logs[log].records) BY DEF StoreInv, LogsOK, Opened
    <3> QED BY <1>1, <1>3, <1>4, <1>10, <3>1
  <2> QED BY <2>1, <2>2, <2>3, <2>4, <2>5, <2>6, <2>7 DEF LogsOK
<1>14. WorkOK'
  <2>1. flush.stage = "none" BY DEF ReadInv, MemsOK
  <2> QED BY <2>1 DEF StoreInv, WorkOK, Torn, TableEntries
<1>15. SafeOK'
  <2>1. Opened' = Opened BY DEF Opened
  <2>2. ASSUME NEW m \in OnDisk, NEW c PROVE Left(c, m) \subseteq Left(c, m)'
    <3>1. PICK x : x = m.log /\ x \in Nat BY <1>4
    <3>2. \A n \in LogsFrom(x) : n \in LogsFrom(x)' /\ logs'[n] = logs[n] BY <1>3, <1>6, <3>1 DEF LogsFrom
    <3>3. InLogs(c, m) \subseteq InLogs(c, m)' BY <3>1, <3>2 DEF InLogs
    <3>4. InMems(c, m) \subseteq InMems(c, m)'
      <4>1. \A e : e \in MemEntries(imm) => FALSE BY DEF MemEntries
      <4>2. \A e \in MemEntries(log) : e \in MemEntries(imm)' BY <1>4, <1>10 DEF MemEntries
      <4>3. ASSUME NEW e \in InMems(c, m)
            PROVE  log \in LogsFrom(x) /\ e \in MemEntries(log) /\ e \in Certain(c, logs[log])
        BY <3>1, <4>1, <4>3 DEF InMems
      <4>4. ASSUME NEW e \in InMems(c, m)
            PROVE  imm' \in LogsFrom(x)' /\ e \in MemEntries(imm)' /\ e \in Certain(c, logs'[imm'])
        BY <1>1, <3>2, <4>2, <4>3
      <4> QED BY <3>1, <4>4 DEF InMems
    <3>5. TableEntries(m.version.tables)' = TableEntries(m.version.tables) BY DEF TableEntries
    <3> QED BY <2>1, <3>3, <3>4, <3>5 DEF Left
  <2>3. SafeOK BY DEF StoreInv
  <2> QED BY <1>5, <2>1, <2>2, <2>3, SafeGrows
<1> QED BY <1>9, <1>10, <1>11, <1>12, <1>13, <1>14, <1>15

(* The head of the queue forms its group.                                  *)
LEMMA LeadStore ==
  ASSUME FilesInv, ReadInv, StoreInv, Lead
  PROVE  StoreInv'
<1> USE DEF disk, versions, memory, background, clients, history, bounds
<1>1. PICK n \in 1..Len(queue) :
        /\ MayGroup(n)
        /\ turn' = [stage |-> "append", size |-> n, ok |-> TRUE,
                    record |-> [first |-> last + 1, puts |-> Puts(Group(n))]]
  BY DEF Lead
<1>2. /\ phase = "up" /\ turn.stage = "none" /\ Opened /\ Opened'
      /\ UNCHANGED <<tables, manifest, edit, phase, current, logNumber, last, flush, merge, snapshot,
                     queue, request, batches, safe, must>>
  BY DEF Lead, AtFront, Opened
<1>3. batches \in Seq(Batches) /\ Len(queue) \in Nat
      /\ \A i \in 1..Len(queue) : Write(i) \in 1..Len(batches)
  BY Queued
<1>4. \A i, j \in 1..Len(queue) : i < j => Write(i) < Write(j)
  BY DEF StoreInv, WritersOK, QueueInOrder
<1>5. Group(n) \in [1..n -> 1..Len(batches)] /\ \A j \in 1..n : Group(n)[j] = Write(j)
  BY <1>3 DEF Group, Write
<1>6. GroupOK'
  <2>1. n \in Nat \ {0} BY <1>3
  <2>2. PICK ids : ids = Group(n) OBVIOUS
  <2>3. ids \in [1..n -> 1..Len(batches)] BY <1>5, <2>2
  <2>4. \A p, q \in 1..n : p <= q => ids[p] <= ids[q]
    <3> SUFFICES ASSUME NEW p \in 1..n, NEW q \in 1..n, p <= q PROVE ids[p] <= ids[q] OBVIOUS
    <3>1. p \in 1..Len(queue) /\ q \in 1..Len(queue) /\ ids[p] \in Nat /\ ids[q] \in Nat
      BY <1>3, <2>3
    <3>2. CASE p = q BY <3>1, <3>2
    <3>3. CASE p < q
      <4>1. Write(p) < Write(q) BY <1>4, <3>1, <3>3
      <4> QED BY <1>5, <2>2, <3>1, <4>1
    <3> QED BY <2>1, <3>2, <3>3
  <2>5. PICK puts : puts = Puts(ids) OBVIOUS
  <2>6. /\ \A i \in 1..Len(puts) : \E p \in 1..n :
             puts[i].write = ids[p] /\ puts[i].key \in batches[ids[p]]
        /\ \A p \in 1..n : \A k \in batches[ids[p]] :
             \E i \in 1..Len(puts) : puts[i].key = k /\ puts[i].write = ids[p]
        /\ \A i, j \in 1..Len(puts) : i < j => puts[i].write <= puts[j].write
    <3>1. /\ \A i \in 1..Len(Puts(ids)) : \E p \in 1..n :
               Puts(ids)[i].write = ids[p] /\ Puts(ids)[i].key \in batches[ids[p]]
          /\ \A p \in 1..n : \A k \in batches[ids[p]] :
               \E i \in 1..Len(Puts(ids)) : Puts(ids)[i].key = k /\ Puts(ids)[i].write = ids[p]
          /\ \A i, j \in 1..Len(Puts(ids)) : i < j => Puts(ids)[i].write <= Puts(ids)[j].write
      BY <1>3, <2>1, <2>3, <2>4, PutsAre, ZenonT(30)
    <3> QED BY <2>5, <3>1
  <2> HIDE DEF Write
  <2>7. \A p \in 1..n : ids[p] = Write(p)' BY <1>2, <1>5, <2>2 DEF Write
  <2>8. turn'.record.puts = puts /\ turn'.size = n BY <1>1, <2>2, <2>5
  <2>9. \A j \in 1..n : request[queue[j]].sync => Leader.sync
    <3> SUFFICES ASSUME NEW j \in 1..n, request[queue[j]].sync PROVE Leader.sync OBVIOUS
    <3>1. CASE j = 1 BY <3>1 DEF Leader
    <3>2. CASE j # 1
      <4>1. j \in 2..n BY <2>1, <3>2
      <4> QED BY <1>1, <4>1 DEF MayGroup
    <3> QED BY <3>1, <3>2
  <2>10. PICK bs : bs = [p \in 1..n |-> batches[ids[p]]] OBVIOUS
  <2>11. \A p \in 1..n : bs[p] = batches[ids[p]] BY <2>10
  <2>12. /\ \A i \in 1..Len(puts) : \E p \in 1..n : puts[i].write = ids[p] /\ puts[i].key \in bs[p]
         /\ \A p \in 1..n : \A k \in bs[p] :
              \E i \in 1..Len(puts) : puts[i].key = k /\ puts[i].write = ids[p]
    BY <2>6, <2>11, ZenonT(30)
  <2>13. \A p \in 1..n : ids[p] = Write(p)' /\ bs[p] = batches'[Write(p)'] BY <1>2, <2>7, <2>11
  <2>14. /\ \A i \in 1..Len(puts) : \E p \in 1..n :
              puts[i].write = Write(p)' /\ puts[i].key \in batches'[Write(p)']
         /\ \A p \in 1..n : \A k \in batches'[Write(p)'] :
              \E i \in 1..Len(puts) : puts[i].key = k /\ puts[i].write = Write(p)'
    <3>1. ASSUME NEW i \in 1..Len(puts)
          PROVE  \E p \in 1..n : puts[i].write = Write(p)' /\ puts[i].key \in batches'[Write(p)']
      <4>1. PICK p \in 1..n : puts[i].write = ids[p] /\ puts[i].key \in bs[p] BY <2>12
      <4> QED BY <2>13, <4>1
    <3>2. ASSUME NEW p \in 1..n, NEW k \in batches'[Write(p)']
          PROVE  \E i \in 1..Len(puts) : puts[i].key = k /\ puts[i].write = Write(p)'
      <4>1. k \in bs[p] BY <2>13
      <4>2. PICK i \in 1..Len(puts) : puts[i].key = k /\ puts[i].write = ids[p] BY <2>12, <4>1
      <4> QED BY <2>13, <4>2
    <3> QED BY <3>1, <3>2
  <2>15. \A j \in 1..n : request'[queue'[j]].sync => Leader'.sync BY <1>2, <2>9 DEF Leader
  <2> QED BY <2>6, <2>8, <2>14, <2>15, SMTT(30) DEF GroupOK
<1>7. ProgressOK' BY <1>1 DEF ProgressOK, Inserted
<1>8. \A e \in Reached \cup mems[log] : Past(e)
  BY <1>2 DEF StoreInv, WritersOK, QueueInOrder, Logging, Inserted
<1>9. ASSUME Reached' = Reached, mems'[log'] \subseteq mems[log] PROVE WritersOK'
  <2>1. QueueInOrder'
    BY <1>2, <1>8, <1>9 DEF StoreInv, WritersOK, QueueInOrder, Write, Past
  <2> QED BY <1>6, <1>7, <2>1 DEF WritersOK
<1>10. CASE HasRoom /\ UNCHANGED <<logs, memory, next, scheduled>>
  <2>1. Still /\ MemsSame BY <1>2, <1>10 DEF Still, MemsSame, MemEntries
  <2>2. WritersOK' BY <1>9, <2>1, StillSame DEF MemsSame
  <2>3. OrderOK' BY <1>2, <2>1, OrderFrame DEF StoreInv
  <2>4. WholeOK' BY <1>2, <2>1, WholeFrame DEF StoreInv
  <2>5. LogsOK'
    <3>1. next \in Nat /\ \A x \in DOMAIN logs : x \in Nat BY DEF FilesInv, NumbersOK
    <3> QED BY <1>2, <1>10, <2>1, <3>1, LogsFrame DEF StoreInv
  <2>6. WorkOK' BY <1>2, <1>10, <2>1, WorkFrame DEF StoreInv, MemsSame
  <2>7. SafeOK' BY <1>2, <1>10, <2>1, SafeFrame DEF StoreInv, MemsSame
  <2> QED BY <2>2, <2>3, <2>4, <2>5, <2>6, <2>7 DEF StoreInv
<1>11. CASE ~HasRoom /\ ~MustWait /\ SwitchMemTable
  <2>1. imm = 0 BY <1>11 DEF MustWait
  <2>2. OrderOK' /\ WholeOK' /\ LogsOK' /\ WorkOK' /\ SafeOK' /\ Reached' = Reached /\ mems'[log'] = {}
    BY <1>2, <1>11, <2>1, SwitchStore
  <2>3. WritersOK' BY <1>9, <2>2
  <2> QED BY <2>2, <2>3 DEF StoreInv
<1> QED BY <1>10, <1>11 DEF Lead

(* The group in progress: its entries are newer than all others, in order, *)
(* asked for, and whole.                                                   *)
LEMMA GroupEntries ==
  ASSUME FilesInv, ReadInv, StoreInv, turn.stage # "none"
  PROVE  LET new == EntriesOf(turn.record) IN
         /\ new \subseteq EntrySet /\ Ordered(new) /\ Complete(new)
         /\ \A e \in new : /\ Asked(e) /\ last < e.seq /\ e.seq <= last + Len(turn.record.puts)
                           /\ \E j \in 1..turn.size : e.write = Write(j)
         /\ \A j \in 1..turn.size : \A k \in batches[Write(j)] : \E e \in new : e.key = k /\ e.write = Write(j)
         /\ Len(turn.record.puts) \in Nat /\ turn.size \in 1..Len(queue) /\ Opened /\ phase = "up"
<1> DEFINE puts == turn.record.puts
           n == turn.size
           new == EntriesOf(turn.record)
<1>1. /\ n \in 1..Len(queue) /\ turn.record \in Record /\ phase = "up" /\ Len(queue) \in Nat
      /\ Len(batches) \in Nat /\ \A j \in 1..n : Write(j) \in 1..Len(batches)
  <2>1. /\ n \in 1..Len(queue) /\ turn.record \in Record /\ phase = "up" /\ Len(queue) \in Nat
        /\ Len(batches) \in Nat /\ \A j \in 1..Len(queue) : Write(j) \in 1..Len(batches)
    BY Queued
  <2> QED BY <2>1
<1>2. turn.record.first = last + 1 /\ last \in Nat BY DEF ReadInv, TurnOK, DataOK
<1>3. /\ new \subseteq EntrySet /\ Len(puts) \in Nat
      /\ \A e \in new : turn.record.first <= e.seq /\ e.seq < turn.record.first + Len(puts)
  BY <1>1, EntriesOfType
<1>4. \A e \in new : last < e.seq /\ e.seq <= last + Len(puts)
  <2> SUFFICES ASSUME NEW e \in new PROVE last < e.seq /\ e.seq <= last + Len(puts) OBVIOUS
  <2>1. e.seq \in Nat BY <1>3 DEF EntrySet
  <2>2. PICK f, l : f = turn.record.first /\ l = Len(puts) OBVIOUS
  <2>3. f <= e.seq /\ e.seq < f + l /\ f = last + 1 /\ l \in Nat BY <1>2, <1>3, <2>2
  <2>4. last < e.seq /\ e.seq <= last + l BY <1>2, <2>1, <2>3
  <2> QED BY <2>2, <2>4
<1>5. GroupOK BY DEF StoreInv, WritersOK
<1>6. \A e \in new : \E i \in 1..Len(puts) :
        e.key = puts[i].key /\ e.write = puts[i].write /\ e.seq = last + i
  BY <1>2, <1>3 DEF EntriesOf
<1>7. ASSUME NEW i \in 1..Len(puts)
      PROVE  \E e \in new : e.key = puts[i].key /\ e.write = puts[i].write
  <2>1. [key |-> puts[i].key, write |-> puts[i].write, seq |-> turn.record.first + i - 1] \in new
    BY DEF EntriesOf
  <2> QED BY <2>1
<1>8. ASSUME NEW e \in new, NEW f \in new PROVE (e.seq = f.seq => e = f) /\ (e.seq < f.seq => e.write <= f.write)
  <2>1. PICK i \in 1..Len(puts) :
          e = [key |-> puts[i].key, write |-> puts[i].write, seq |-> turn.record.first + i - 1]
    BY DEF EntriesOf
  <2>2. PICK j \in 1..Len(puts) :
          f = [key |-> puts[j].key, write |-> puts[j].write, seq |-> turn.record.first + j - 1]
    BY DEF EntriesOf
  <2>3. e.seq = f.seq => i = j BY <1>2, <1>3, <2>1, <2>2
  <2>4. e.seq < f.seq => i < j BY <1>2, <1>3, <2>1, <2>2
  <2>5. i < j => puts[i].write <= puts[j].write BY <1>5 DEF GroupOK
  <2> QED BY <2>1, <2>2, <2>3, <2>4, <2>5
<1> HIDE DEF new
<1>9. ASSUME NEW e \in new
      PROVE  \E j \in 1..n : e.write = Write(j) /\ e.key \in batches[Write(j)]
  <2>1. PICK i \in 1..Len(puts) : e.key = puts[i].key /\ e.write = puts[i].write BY <1>6
  <2>2. \E j \in 1..n : puts[i].write = Write(j) /\ puts[i].key \in batches[Write(j)]
    BY <1>5 DEF GroupOK
  <2> QED BY <2>1, <2>2
<1>10. \A e \in new : Asked(e) BY <1>1, <1>9 DEF Asked
<1>11. ASSUME NEW j \in 1..n, NEW k \in batches[Write(j)]
       PROVE  \E e \in new : e.key = k /\ e.write = Write(j)
  <2>1. PICK i \in 1..Len(puts) : puts[i].key = k /\ puts[i].write = Write(j) BY <1>5 DEF GroupOK
  <2> QED BY <1>7, <2>1
<1>12. Complete(new)
  <2> SUFFICES ASSUME NEW e \in new, NEW k \in batches[e.write]
               PROVE  \E f \in new : f.key = k /\ f.write >= e.write
    BY DEF Complete
  <2>1. PICK j \in 1..n : e.write = Write(j) BY <1>9
  <2>2. PICK f \in new : f.key = k /\ f.write = Write(j) BY <1>11, <2>1
  <2>3. Write(j) \in Nat BY <1>1
  <2> QED BY <2>1, <2>2, <2>3
<1>13. Ordered(new) BY <1>8 DEF Ordered
<1>14. Opened BY <1>1 DEF Opened
<1> QED BY <1>1, <1>3, <1>4, <1>9, <1>10, <1>11, <1>12, <1>13, <1>14 DEF new

(* What is certain of a log stays so when more is written or synced.       *)
LEMMA CertainGrows ==
  ASSUME NEW l, NEW h, NEW c, Len(l.records) \in Nat,
         SoundTo(c, l) \in 0..Len(l.records), SoundTo(c, h) \in Nat, SoundTo(c, l) <= SoundTo(c, h),
         \A i \in 1..Len(l.records) : h.records[i] = l.records[i]
  PROVE  Certain(c, l) \subseteq Certain(c, h)
<1>1. \A i \in 1..SoundTo(c, l) : i \in 1..SoundTo(c, h) /\ i \in 1..Len(l.records) OBVIOUS
<1>2. \A i \in 1..SoundTo(c, l) : EntriesOf(l.records[i]) = EntriesOf(h.records[i]) BY <1>1
<1> QED BY <1>1, <1>2 DEF Certain

(* The log of the memtable is written to, beside everything else.          *)
LEMMA LogWritten ==
  ASSUME FilesInv, ReadInv, StoreInv, turn.stage # "none",
         UNCHANGED <<tables, mems, manifest, edit, phase, log, imm, current, logNumber, next, last,
                     flush, merge, snapshot, batches, safe, must>>,
         DOMAIN logs' = DOMAIN logs, \A n \in DOMAIN logs : n # log => logs'[n] = logs[n],
         \/ logs'[log].records = logs[log].records
         \/ turn.stage = "append" /\ logs'[log].records = Append(logs[log].records, turn.record),
         logs'[log].synced \in Nat, logs'[log].synced <= Len(logs'[log].records),
         \A c \in CrashKinds : Certain(c, logs[log]) \subseteq Certain(c, logs'[log])
  PROVE  /\ OrderOK' /\ WholeOK' /\ LogsOK' /\ WorkOK' /\ SafeOK'
         /\ Reached' \subseteq Reached \cup EntriesOf(turn.record)
         /\ logs'[log].records = logs[log].records => Reached' = Reached
<1> DEFINE new == EntriesOf(turn.record)
           old == logs[log].records
           more == logs'[log].records
<1>1. /\ new \subseteq EntrySet /\ Ordered(new) /\ Complete(new) /\ Opened /\ phase = "up"
      /\ \A e \in new : /\ Asked(e) /\ last < e.seq
                        /\ \E j \in 1..turn.size : e.write = Write(j)
  BY GroupEntries
<1>2. Opened' BY <1>1 DEF Opened
<1>3. log \in DOMAIN logs BY <1>1 DEF StoreInv, LogsOK
<1>4. PICK o, s : o = old /\ s = more OBVIOUS
<1>5. o \in Seq(Record) /\ Len(o) \in Nat BY <1>3, <1>4, LogTypes
<1>6. turn.record \in Record BY <1>1, Queued
<1>7. /\ Len(s) = Len(o) \/ Len(s) = Len(o) + 1
      /\ \A i \in 1..Len(o) : s[i] = o[i]
      /\ \A i \in 1..Len(s) : i \in 1..Len(o) \/ (i = Len(o) + 1 /\ s[i] = turn.record)
  <2>1. CASE s = o BY <1>5, <2>1
  <2>2. CASE s = Append(o, turn.record)
    <3>1. /\ Len(s) = Len(o) + 1 /\ s[Len(o) + 1] = turn.record /\ \A i \in 1..Len(o) : s[i] = o[i]
      BY <1>5, <1>6, <2>2, AppendProperties
    <3>2. \A i \in 1..Len(s) : i \in 1..Len(o) \/ i = Len(o) + 1 BY <1>5, <3>1
    <3> QED BY <3>1, <3>2
  <2> QED BY <1>4, <2>1, <2>2
<1>8. EntriesIn(o) \subseteq EntriesIn(s)
  <2>1. \A i \in 1..Len(o) : i \in 1..Len(s) BY <1>5, <1>7
  <2> QED BY <1>7, <2>1 DEF EntriesIn
<1>9. EntriesIn(s) \subseteq EntriesIn(o) \cup new
  <2> SUFFICES ASSUME NEW i \in 1..Len(s), NEW e \in EntriesOf(s[i])
               PROVE  e \in EntriesIn(o) \/ e \in new
    BY DEF EntriesIn
  <2>1. CASE i \in 1..Len(o) BY <1>7, <2>1 DEF EntriesIn
  <2>2. CASE s[i] = turn.record BY <2>2
  <2> QED BY <1>7, <2>1, <2>2
<1>10. OnDisk' = OnDisk BY DEF OnDisk, Edited, Torn
<1>11. \A n : LogsFrom(n)' = LogsFrom(n) BY DEF LogsFrom
<1>12. \A n, e : /\ InLog(n, e) /\ n \in DOMAIN logs => InLog(n, e)'
                 /\ InLog(n, e)' /\ n \in DOMAIN logs => InLog(n, e) \/ e \in new
  BY <1>4, <1>8, <1>9 DEF InLog
<1> HIDE DEF new
<1>13. \A T, e : InTable(T, e)' <=> InTable(T, e) BY DEF InTable
<1>14. Reached' \subseteq Reached \cup new
  <2> SUFFICES ASSUME NEW e \in Reached' PROVE e \in Reached \/ e \in new OBVIOUS
  <2>1. PICK m \in OnDisk : Reaches(m, e)' BY <1>10, Members
  <2>2. CASE InTable(m.version.tables, e)'
    BY <1>13, <2>2, Members DEF Reaches
  <2>3. CASE \E n \in LogsFrom(m.log)' : InLog(n, e)'
    <3>1. PICK n \in LogsFrom(m.log) : InLog(n, e)' BY <1>11, <2>3
    <3>2. InLog(n, e) \/ e \in new BY <1>12, <3>1 DEF LogsFrom
    <3> QED BY <3>1, <3>2, Members DEF Reaches
  <2> QED BY <2>1, <2>2, <2>3 DEF Reaches
<1>15. Reached \subseteq Reached'
  <2> SUFFICES ASSUME NEW e \in Reached PROVE e \in Reached' OBVIOUS
  <2>1. PICK m \in OnDisk : Reaches(m, e) BY Members
  <2>2. CASE InTable(m.version.tables, e)
    <3>1. InTable(m.version.tables, e)' BY <1>13, <2>2
    <3> QED BY <1>10, <3>1, Members DEF Reaches
  <2>3. CASE \E n \in LogsFrom(m.log) : InLog(n, e)
    <3>1. PICK n \in LogsFrom(m.log) : InLog(n, e) BY <2>3
    <3>2. n \in LogsFrom(m.log)' /\ InLog(n, e)' BY <1>11, <1>12, <3>1 DEF LogsFrom
    <3>3. Reaches(m, e)' BY <3>2 DEF Reaches
    <3> QED BY <1>10, <3>3, Members
  <2> QED BY <2>1, <2>2, <2>3 DEF Reaches
<1>16. ASSUME s = o PROVE Reached' = Reached
  <2>1. \A n, e : n \in DOMAIN logs => (InLog(n, e)' <=> InLog(n, e)) BY <1>4, <1>16 DEF InLog
  <2>2. \A x, e : (\E n \in LogsFrom(x)' : InLog(n, e)') <=> \E n \in LogsFrom(x) : InLog(n, e)
    BY <1>11, <2>1 DEF LogsFrom
  <2>3. ASSUME NEW m, NEW e PROVE Reaches(m, e)' <=> Reaches(m, e) BY <1>13, <2>2 DEF Reaches
  <2> QED BY <1>10, <2>3, Members
<1>17. Ordered(Reached')
  <2>1. Ordered(Reached) BY DEF StoreInv, OrderOK
  <2>2. CASE s = o BY <1>16, <2>1, <2>2
  <2>3. CASE s # o
    <3>1. turn.stage = "append" BY <1>4, <2>3
    <3>2. \A e \in Reached : Past(e) BY <1>1, <3>1 DEF StoreInv, WritersOK, QueueInOrder, Logging
    <3>3. ASSUME NEW e \in Reached, NEW f \in new PROVE e.seq < f.seq /\ e.write <= f.write
      <4>1. e \in EntrySet /\ f \in EntrySet BY <1>1, ReachedType
      <4>2. e.seq \in Nat /\ f.seq \in Nat /\ e.write \in Nat /\ f.write \in Nat BY <4>1 DEF EntrySet
      <4>3. PICK j \in 1..turn.size : f.write = Write(j) BY <1>1
      <4>4. j \in 1..Len(queue) BY <1>1, Queued
      <4>5. e.seq <= last /\ e.write < Write(j) BY <3>2, <4>4 DEF Past
      <4>6. last \in Nat /\ last < f.seq BY <1>1 DEF ReadInv, DataOK
      <4> QED BY <4>2, <4>3, <4>5, <4>6
    <3>4. \A e \in Reached : e.seq \in Nat BY ReachedType DEF EntrySet
    <3>5. \A e \in new : e.seq \in Nat BY <1>1 DEF EntrySet
    <3>6. ASSUME NEW e \in Reached \cup new, NEW f \in Reached \cup new
          PROVE  (e.seq = f.seq => e = f) /\ (e.seq < f.seq => e.write <= f.write)
      <4>1. CASE e \in Reached /\ f \in Reached BY <2>1, <4>1 DEF Ordered
      <4>2. CASE e \in new /\ f \in new BY <1>1, <4>2 DEF Ordered
      <4>3. CASE e \in Reached /\ f \in new BY <3>3, <3>4, <3>5, <4>3
      <4>4. CASE e \in new /\ f \in Reached BY <3>3, <3>4, <3>5, <4>4
      <4> QED BY <4>1, <4>2, <4>3, <4>4
    <3> QED BY <1>14, <3>6 DEF Ordered
  <2> QED BY <2>2, <2>3
<1>18. \A e : Asked(e)' <=> Asked(e) BY DEF Asked
<1>19. OrderOK' BY <1>1, <1>14, <1>17, <1>18 DEF StoreInv, OrderOK
<1>20. WholeOK'
  <2>1. \A m \in OnDisk' : Complete(TableEntries(m.version.tables))'
    BY <1>10 DEF StoreInv, WholeOK, TableEntries, Complete
  <2>2. ASSUME NEW n \in DOMAIN logs', NEW i \in 1..Len(logs'[n].records)
        PROVE  (\A e \in EntriesOf(logs'[n].records[i]) : Asked(e)') /\ Complete(EntriesOf(logs[n].records[i]))'
    <3>1. PICK r : r = logs'[n].records[i] OBVIOUS
    <3>2. (\A e \in EntriesOf(r) : Asked(e)) /\ Complete(EntriesOf(r))
      <4>1. CASE n # log
        <5>1. logs'[n] = logs[n] BY <4>1
        <5> QED BY <3>1, <5>1 DEF StoreInv, WholeOK
      <4>2. CASE n = log
        <5>1. CASE i \in 1..Len(o)
          <6>1. r = logs[log].records[i] BY <1>4, <1>7, <3>1, <4>2, <5>1
          <6> QED BY <1>3, <1>4, <5>1, <6>1 DEF StoreInv, WholeOK
        <5>2. CASE i \notin 1..Len(o)
          <6>1. r = turn.record BY <1>4, <1>7, <3>1, <4>2, <5>2
          <6> QED BY <1>1, <6>1 DEF new
        <5> QED BY <5>1, <5>2
      <4> QED BY <4>1, <4>2
    <3> QED BY <1>18, <3>1, <3>2 DEF Complete
  <2>3. Complete(mems[log])' /\ Complete(MemEntries(imm))'
    BY <1>1 DEF StoreInv, WholeOK, Complete, MemEntries
  <2> QED BY <2>1, <2>2, <2>3 DEF WholeOK
<1>21. LogsOK'
  <2>1. \A n \in DOMAIN logs' : logs'[n].synced <= Len(logs'[n].records)
    BY DEF StoreInv, LogsOK
  <2>2. mems'[log'] \subseteq EntriesIn(logs'[log'].records)
    BY <1>1, <1>4, <1>8 DEF StoreInv, LogsOK
  <2>3. imm' # 0 => MemEntries(imm)' \subseteq EntriesIn(logs'[imm'].records)
    <3> SUFFICES ASSUME imm # 0 PROVE MemEntries(imm)' \subseteq EntriesIn(logs'[imm].records) OBVIOUS
    <3>1. imm \in DOMAIN logs /\ imm < log BY <1>1 DEF StoreInv, LogsOK
    <3>2. MemEntries(imm)' = MemEntries(imm) BY DEF MemEntries
    <3>3. imm # log BY <3>1 DEF FilesInv, NumbersOK
    <3> QED BY <1>1, <3>1, <3>2, <3>3 DEF StoreInv, LogsOK
  <2>4. LogsOK BY DEF StoreInv
  <2>5. /\ \A m \in OnDisk : m.log \in Nat /\ m.log <= m.next /\ m.log <= log
        /\ \A n \in DOMAIN logs : n < next
        /\ log \in DOMAIN logs /\ (imm # 0 => imm \in DOMAIN logs /\ imm < log)
        /\ logNumber \in Nat /\ logNumber <= log /\ (imm # 0 => logNumber <= imm)
        /\ \E m \in manifest : m.version = current /\ m.log = logNumber /\ ~ m.torn
    BY <1>1, <2>4 DEF LogsOK
  <2> QED BY <1>1, <1>2, <1>10, <2>1, <2>2, <2>3, <2>5 DEF LogsOK
<1>22. WorkOK' BY WorkFrame DEF StoreInv, MemEntries
<1>23. SafeOK'
  <2>1. Opened' = Opened BY <1>1, <1>2
  <2>2. ASSUME NEW m \in OnDisk, NEW c \in CrashKinds PROVE Left(c, m) \subseteq Left(c, m)'
    <3>1. PICK L : L = LogsFrom(m.log) OBVIOUS
    <3>2. L = LogsFrom(m.log)' /\ L \subseteq DOMAIN logs BY <1>11, <3>1 DEF LogsFrom
    <3>3. \A n \in L : Certain(c, logs[n]) \subseteq Certain(c, logs'[n]) BY <3>2
    <3>4. InLogs(c, m) \subseteq InLogs(c, m)' BY <3>1, <3>2, <3>3 DEF InLogs
    <3>5. \A n : MemEntries(n)' = MemEntries(n) BY DEF MemEntries
    <3>6. InMems(c, m) \subseteq InMems(c, m)' BY <3>1, <3>2, <3>3, <3>5 DEF InMems
    <3>7. TableEntries(m.version.tables)' = TableEntries(m.version.tables) BY DEF TableEntries
    <3> QED BY <2>1, <3>4, <3>6, <3>7 DEF Left
  <2>3. SafeOK BY DEF StoreInv
  <2> QED BY <1>10, <2>1, <2>2, <2>3, SafeGrows
<1> QED BY <1>4, <1>14, <1>16, <1>19, <1>20, <1>21, <1>22, <1>23 DEF new

(* The group's record is added to the log, and the log synced, or not.     *)
LEMMA LoggingStore ==
  ASSUME FilesInv, ReadInv, StoreInv, AddRecord \/ AddRecordFails \/ Sync \/ SyncFails
  PROVE  StoreInv'
<1> USE DEF disk, versions, memory, background, clients, history, bounds, WithoutMutex
<1>1. /\ turn.stage \in {"append", "sync"} /\ turn'.size = turn.size /\ turn'.record = turn.record
      /\ UNCHANGED <<tables, mems, manifest, edit, phase, log, imm, current, logNumber, next, last,
                     flush, merge, snapshot, queue, request, batches, safe, must>>
      /\ DOMAIN turn = {"stage", "size", "ok", "record"}
  BY DEF AddRecord, AddRecordFails, Sync, SyncFails, ReadInv, TurnOK
<1>2. phase = "up" /\ Opened /\ Opened' /\ turn.size \in 1..Len(queue) BY <1>1, Queued DEF Opened
<1>3. log \in DOMAIN logs /\ logs[log] \in LogFile BY <1>2 DEF StoreInv, LogsOK, ReadInv, DataOK
<1>4. PICK o : o = logs[log] OBVIOUS
<1>5. /\ o.records \in Seq(Record) /\ Len(o.records) \in Nat /\ o.synced \in Nat /\ o.torn \in Nat
      /\ o.torn <= Len(o.records) + 1 /\ o.synced <= Len(o.records)
      /\ DOMAIN o = {"records", "synced", "torn"}
  BY <1>3, <1>4, LogTypes DEF StoreInv, LogsOK, LogFile
<1>6. turn.record \in Record BY <1>1, Queued
<1>7. GroupOK /\ ProgressOK /\ turn.ok /\ QueueInOrder
  BY <1>1 DEF StoreInv, WritersOK, ProgressOK
<1>8. GroupOK' BY <1>1, <1>7, GroupKept
<1>9. Leader' = Leader BY <1>1 DEF Leader
<1>10. PICK a : a = Append(o.records, turn.record) OBVIOUS
<1>11. /\ a \in Seq(Record) /\ Len(a) = Len(o.records) + 1 /\ a[Len(a)] = turn.record
       /\ \A i \in 1..Len(o.records) : a[i] = o.records[i]
  BY <1>5, <1>6, <1>10, AppendProperties
<1>12. \/ /\ AddRecord \/ AddRecordFails
          /\ logs' = [logs EXCEPT ![log].records = Append(@, turn.record)]
          /\ logs'[log] = [o EXCEPT !.records = a]
       \/ /\ AddRecordFails /\ logs' # [logs EXCEPT ![log].records = Append(@, turn.record)]
          /\ logs'[log] = [o EXCEPT !.torn = IF @ = 0 THEN Len(o.records) + 1 ELSE @]
       \/ Sync /\ logs'[log] = [o EXCEPT !.synced = Len(o.records)]
       \/ SyncFails /\ logs'[log] = o
  BY <1>3, <1>4, <1>10, SMTT(20) DEF AddRecord, AddRecordFails, Sync, SyncFails
<1>13. DOMAIN logs' = DOMAIN logs /\ \A n \in DOMAIN logs : n # log => logs'[n] = logs[n]
  BY <1>3 DEF AddRecord, AddRecordFails, Sync, SyncFails
<1>14. PICK h : h = logs'[log] OBVIOUS
<1>15. /\ h.records = o.records \/ (turn.stage = "append" /\ h.records = a)
       /\ h.synced \in Nat /\ h.synced <= Len(h.records)
  BY <1>5, <1>11, <1>12, <1>14, SMTT(20) DEF AddRecord, AddRecordFails, Sync, SyncFails
<1>16. /\ h.torn = o.torn \/ (o.torn = 0 /\ h.torn = Len(o.records) + 1 /\ h.records = o.records)
       /\ h.synced >= o.synced
  BY <1>5, <1>11, <1>12, <1>14
<1>17. /\ Len(h.records) \in Nat /\ h.torn \in Nat /\ Len(h.records) >= Len(o.records)
       /\ \A i \in 1..Len(o.records) : h.records[i] = o.records[i]
  BY <1>5, <1>11, <1>15, <1>16
<1>18. ASSUME NEW c \in CrashKinds PROVE Certain(c, logs[log]) \subseteq Certain(c, logs'[log])
  <2>1. /\ SoundTo(c, o) \in 0..Len(o.records) /\ SoundTo(c, h) \in Nat
        /\ SoundTo(c, o) <= SoundTo(c, h)
    BY <1>5, <1>15, <1>16, <1>17 DEF SoundTo
  <2>2. Certain(c, o) \subseteq Certain(c, h) BY <1>5, <1>17, <2>1, CertainGrows
  <2> QED BY <1>4, <1>14, <2>2
<1>19. \/ logs'[log].records = logs[log].records
       \/ turn.stage = "append" /\ logs'[log].records = Append(logs[log].records, turn.record)
  BY <1>4, <1>10, <1>14, <1>15
<1>20. logs'[log].synced \in Nat /\ logs'[log].synced <= Len(logs'[log].records) BY <1>14, <1>15
<1>21. turn.stage # "none" BY <1>1
<1>22. /\ OrderOK' /\ WholeOK' /\ LogsOK' /\ WorkOK' /\ SafeOK'
       /\ Reached' \subseteq Reached \cup EntriesOf(turn.record)
       /\ logs'[log].records = logs[log].records => Reached' = Reached
  BY <1>1, <1>13, <1>18, <1>19, <1>20, <1>21, LogWritten
<1>23. turn'.stage \in {"sync", "insert", "syncError", "finish"} /\ ~ Inserted' /\ Logging'
  BY <1>1 DEF AddRecord, AddRecordFails, Sync, SyncFails, Inserted, Logging
<1>24. QueueInOrder'
  <2>1. \A e : Past(e)' <=> Past(e) BY <1>1 DEF Past, Write
  <2>2. \A e \in mems[log] : Past(e) BY <1>1, <1>2, <1>7 DEF QueueInOrder, Inserted
  <2>3. \A e \in Reached : Past(e) \/ e \in EntriesOf(turn.record)
    BY <1>2, <1>7 DEF QueueInOrder
  <2>4. \A e \in Reached' : Past(e)' \/ (Logging' /\ e \in EntriesOf(turn'.record))
    BY <1>1, <1>22, <1>23, <2>1, <2>3
  <2> QED BY <1>1, <1>2, <1>7, <2>1, <2>2, <2>4 DEF QueueInOrder, Write
<1>25. ProgressOK'
  <2>1. ASSUME turn'.stage \in {"sync", "insert", "finish"}, turn'.ok
        PROVE  Len(h.records) > 0 /\ LastRecord(h) = turn.record
    <3>1. CASE AddRecord
      <4>1. h = [o EXCEPT !.records = a] BY <1>1, <1>12, <1>14, <3>1 DEF AddRecord, Sync, SyncFails
      <4> QED BY <1>5, <1>11, <4>1 DEF LastRecord
    <3>2. CASE AddRecordFails BY <1>1, <2>1, <3>2 DEF AddRecordFails
    <3>3. CASE Sync
      <4>1. h.records = o.records BY <1>1, <1>15, <3>3 DEF Sync
      <4> QED BY <1>4, <1>7, <3>3, <4>1 DEF Sync, ProgressOK, LastRecord
    <3>4. CASE SyncFails BY <1>1, <2>1, <3>4 DEF SyncFails
    <3> QED BY <3>1, <3>2, <3>3, <3>4
  <2>2. ASSUME turn'.stage \in {"insert", "finish"}, turn'.ok, Leader.sync
        PROVE  h.synced = Len(h.records)
    <3>1. CASE AddRecord BY <1>1, <2>2, <3>1 DEF AddRecord
    <3>2. CASE AddRecordFails BY <1>1, <2>2, <3>2 DEF AddRecordFails
    <3>3. CASE Sync
      <4>1. h = [o EXCEPT !.synced = Len(o.records)]
        BY <1>1, <1>12, <1>14, <3>3 DEF AddRecord, AddRecordFails, Sync, SyncFails
      <4> QED BY <1>5, <4>1
    <3>4. CASE SyncFails BY <1>1, <2>2, <3>4 DEF SyncFails
    <3> QED BY <3>1, <3>2, <3>3, <3>4
  <2>3. /\ turn'.stage \in {"append", "sync", "insert"} => turn'.ok
        /\ turn'.stage = "syncError" => ~ turn'.ok
    <3>1. DOMAIN turn = {"stage", "size", "ok", "record"} BY <1>1
    <3>2. CASE AddRecord \/ Sync
      <4>1. turn'.ok = turn.ok /\ turn'.stage \in {"sync", "insert"} BY <3>1, <3>2 DEF AddRecord, Sync
      <4> QED BY <1>7, <4>1
    <3>3. CASE AddRecordFails \/ SyncFails
      <4>1. turn'.ok = FALSE /\ turn'.stage \in {"finish", "syncError"}
        BY <3>1, <3>3 DEF AddRecordFails, SyncFails
      <4> QED BY <4>1
    <3> QED BY <3>2, <3>3
  <2> QED BY <1>1, <1>9, <1>14, <1>23, <2>1, <2>2, <2>3 DEF ProgressOK
<1> QED BY <1>8, <1>22, <1>24, <1>25 DEF StoreInv, WritersOK

(* The group goes to the memtable.                                         *)
LEMMA InsertStore ==
  ASSUME FilesInv, ReadInv, StoreInv, Insert
  PROVE  StoreInv'
<1> USE DEF disk, versions, memory, background, clients, history, bounds, WithoutMutex
<1> DEFINE new == EntriesOf(turn.record)
<1>1. /\ turn.stage = "insert" /\ turn' = [turn EXCEPT !.stage = "finish"]
      /\ mems' = [mems EXCEPT ![log] = @ \cup new]
      /\ UNCHANGED <<logs, tables, manifest, edit, phase, log, imm, current, logNumber, next, last,
                     flush, merge, snapshot, queue, request, batches, safe, must>>
  BY DEF Insert
<1>2. turn'.stage = "finish" /\ turn'.size = turn.size /\ turn'.record = turn.record /\ turn'.ok = turn.ok
  BY <1>1 DEF ReadInv, TurnOK
<1>3. /\ new \subseteq EntrySet /\ Complete(new) /\ Opened /\ phase = "up"
  BY <1>1, GroupEntries
<1>4. /\ log \in DOMAIN mems /\ log \in DOMAIN logs /\ log # 0 /\ (imm # 0 => imm \in DOMAIN mems /\ imm # log)
  BY <1>3 DEF ReadInv, MemsOK, StoreInv, LogsOK
<1>5. mems'[log] = mems[log] \cup new /\ MemEntries(imm)' = MemEntries(imm)
  BY <1>1, <1>4 DEF MemEntries
<1>6. GroupOK /\ ProgressOK /\ QueueInOrder /\ turn.ok
  BY <1>1 DEF StoreInv, WritersOK, ProgressOK
<1>7. new \subseteq EntriesIn(logs[log].records)
  <2>1. Len(logs[log].records) \in Nat BY <1>4, LogTypes
  <2>2. Len(logs[log].records) > 0 /\ LastRecord(logs[log]) = turn.record BY <1>1, <1>6 DEF ProgressOK
  <2>3. Len(logs[log].records) \in 1..Len(logs[log].records) BY <2>1, <2>2
  <2> QED BY <2>2, <2>3 DEF EntriesIn, LastRecord
<1>8. Still BY <1>1 DEF Still
<1>9. OnDisk' = OnDisk /\ Reached' = Reached /\ Opened' BY <1>1, <1>3, <1>8, StillSame DEF Opened
<1>10. OrderOK' BY <1>1, <1>8, OrderFrame DEF StoreInv
<1>11. WholeOK'
  <2>1. Complete(mems[log]) BY <1>3 DEF StoreInv, WholeOK
  <2>2. Complete(mems[log] \cup new) BY <1>3, <2>1 DEF Complete
  <2>3. Complete(mems[log])' /\ Complete(MemEntries(imm))'
    BY <1>1, <1>3, <1>5, <2>2 DEF StoreInv, WholeOK, Complete
  <2>4. \A m \in OnDisk' : Complete(TableEntries(m.version.tables))'
    BY <1>1, <1>9 DEF StoreInv, WholeOK, TableEntries, Complete
  <2>5. \A n \in DOMAIN logs' : \A i \in 1..Len(logs'[n].records) :
          (\A e \in EntriesOf(logs'[n].records[i]) : Asked(e)') /\ Complete(EntriesOf(logs[n].records[i]))'
    BY <1>1 DEF StoreInv, WholeOK, Complete, Asked
  <2> QED BY <2>3, <2>4, <2>5 DEF WholeOK
<1>12. LogsOK'
  <2>1. LogsOK BY DEF StoreInv
  <2>2. mems'[log] \subseteq EntriesIn(logs[log].records) BY <1>3, <1>5, <1>7, <2>1 DEF LogsOK
  <2>3. imm # 0 => MemEntries(imm)' \subseteq EntriesIn(logs[imm].records)
    BY <1>3, <1>5, <2>1 DEF LogsOK
  <2> QED BY <1>1, <1>3, <1>9, <2>1, <2>2, <2>3 DEF LogsOK
<1>13. QueueInOrder'
  <2>1. \A e : Past(e)' <=> Past(e) BY <1>1 DEF Past, Write
  <2>2. \A e \in mems[log] : Past(e) BY <1>1, <1>3, <1>6 DEF QueueInOrder, Inserted
  <2>3. \A e \in Reached : Past(e) \/ e \in new BY <1>3, <1>6 DEF QueueInOrder
  <2>4. Logging' /\ Inserted' BY <1>2, <1>6 DEF Logging, Inserted
  <2>5. \A e \in mems'[log'] : Past(e)' \/ (Inserted' /\ e \in EntriesOf(turn'.record))
    BY <1>1, <1>2, <1>5, <2>1, <2>2, <2>4
  <2>6. \A e \in Reached' : Past(e)' \/ (Logging' /\ e \in EntriesOf(turn'.record))
    BY <1>2, <1>9, <2>1, <2>3, <2>4
  <2> QED BY <1>1, <1>3, <1>6, <2>5, <2>6 DEF QueueInOrder, Write
<1>14. GroupOK' BY <1>1, <1>2, <1>6, GroupKept
<1>15. ProgressOK' BY <1>1, <1>2, <1>5, <1>6 DEF ProgressOK, Inserted, Leader
<1>16. WorkOK' BY <1>1, <1>5, WorkFrame DEF StoreInv
<1>17. SafeOK' BY <1>1, <1>5, <1>8, SafeFrame DEF StoreInv
<1> QED BY <1>10, <1>11, <1>12, <1>13, <1>14, <1>15, <1>16, <1>17 DEF StoreInv, WritersOK

(* What an answer adds to what is safe is in the memtable and in its log.  *)
LEMMA SureIs ==
  ASSUME FilesInv, ReadInv, StoreInv, Inserted, NEW c \in CrashKinds, NEW i \in Sure(c), NEW k \in batches[i]
  PROVE  /\ i \in 1..Len(batches)
         /\ \E e \in MemEntries(log) \cap Certain(c, logs[log]) : e.key = k /\ e.write = i
<1>1. turn.stage = "finish" /\ turn.ok BY DEF Inserted
<1>2. GroupOK /\ ProgressOK BY <1>1 DEF StoreInv, WritersOK
<1>3. PICK j \in 1..turn.size : i = Write(j) /\ (c = "kill" \/ request[queue[j]].sync) /\ logs[log].torn = 0
  BY DEF Sure, Write
<1>4. /\ Len(queue) \in Nat /\ turn.size \in 1..Len(queue) /\ phase = "up"
      /\ \A n \in 1..Len(queue) : Write(n) \in 1..Len(batches)
  BY <1>1, Queued
<1>5. i \in 1..Len(batches)
  <2>1. j \in 1..Len(queue) BY <1>4
  <2> QED BY <1>3, <1>4, <2>1
<1>6. PICK e \in EntriesOf(turn.record) : e.key = k /\ e.write = i
  <2>1. \A n \in 1..turn.size : \A x \in batches[Write(n)] :
           \E e \in EntriesOf(turn.record) : e.key = x /\ e.write = Write(n)
    BY <1>1, GroupEntries
  <2> QED BY <1>3, <2>1
<1>7. log # 0 /\ log \in DOMAIN logs BY <1>4 DEF ReadInv, MemsOK, StoreInv, LogsOK
<1>8. e \in MemEntries(log) BY <1>2, <1>6, <1>7 DEF ProgressOK, MemEntries
<1>9. PICK l : l = logs[log] OBVIOUS
<1>10. /\ Len(l.records) \in Nat /\ Len(l.records) > 0 /\ l.records[Len(l.records)] = turn.record /\ l.torn = 0
  BY <1>1, <1>2, <1>3, <1>7, <1>9, LogTypes DEF ProgressOK, LastRecord
<1>11. c = "power" => l.synced = Len(l.records)
  <2> SUFFICES ASSUME c = "power" PROVE l.synced = Len(l.records) OBVIOUS
  <2>1. request[queue[j]].sync BY <1>3
  <2>2. Leader.sync BY <1>2, <2>1 DEF GroupOK
  <2> QED BY <1>1, <1>2, <1>9, <2>2 DEF ProgressOK
<1>12. SoundTo(c, l) = Len(l.records) BY <1>10, <1>11 DEF SoundTo
<1>13. Len(l.records) \in 1..SoundTo(c, l) BY <1>10, <1>12
<1>14. e \in Certain(c, l) BY <1>6, <1>10, <1>13 DEF Certain
<1> QED BY <1>5, <1>6, <1>8, <1>9, <1>14

(* Of writes that become visible, each key has the newest that has it.     *)
LEMMA AppliedIs ==
  ASSUME NEW v \in [Keys -> Nat], NEW ids \in SUBSET (1..Len(batches)), Len(batches) \in Nat, NEW k \in Keys
  PROVE  \/ Applied(v, ids)[k] = v[k] /\ \A i \in ids : k \notin batches[i]
         \/ /\ Applied(v, ids)[k] \in ids /\ k \in batches[Applied(v, ids)[k]]
            /\ \A i \in ids : k \in batches[i] => Applied(v, ids)[k] >= i
<1> DEFINE w == {i \in ids : k \in batches[i]}
<1>1. Applied(v, ids)[k] = IF w = {} THEN v[k] ELSE Max(w) BY DEF Applied
<1>2. CASE w = {} BY <1>1, <1>2
<1>3. CASE w # {}
  <2>1. IsFiniteSet(1..Len(batches)) BY FS_Interval
  <2>2. IsFiniteSet(w) /\ w \in SUBSET Nat
    <3>1. w \in SUBSET (1..Len(batches)) OBVIOUS
    <3> HIDE DEF w
    <3>2. IsFiniteSet(w) BY <2>1, <3>1, FS_Subset
    <3> QED BY <3>1, <3>2
  <2>3. Max(w) \in w /\ \A y \in w : Max(w) >= y
    <3> HIDE DEF w
    <3> QED BY <1>3, <2>2, MaxOfSet
  <2> QED BY <1>1, <1>3, <2>3
<1> QED BY <1>2, <1>3

(* The group is answered.                                                  *)
LEMMA FinishStore ==
  ASSUME FilesInv, ReadInv, StoreInv, Finish
  PROVE  StoreInv'
<1> USE DEF disk, versions, memory, background, clients, history, bounds
<1> DEFINE new == EntriesOf(turn.record)
<1>1. /\ turn.stage \in {"finish", "syncError"} /\ turn' = Idle
      /\ last' = last + Len(turn.record.puts) /\ Leave(turn.size)
      /\ UNCHANGED <<logs, tables, manifest, edit, phase, log, imm, mems, current, logNumber, next,
                     flush, merge, snapshot, batches, must>>
      /\ safe' = IF ~turn.ok THEN safe ELSE [c \in CrashKinds |-> Applied(safe[c], Sure(c))]
  BY DEF Finish, SetLastSequence
<1>2. /\ new \subseteq EntrySet /\ Opened /\ phase = "up"
      /\ \A e \in new : e.seq <= last + Len(turn.record.puts) /\ \E j \in 1..turn.size : e.write = Write(j)
      /\ Len(turn.record.puts) \in Nat /\ turn.size \in 1..Len(queue)
  BY <1>1, GroupEntries
<1>3. last \in Nat /\ last' \in Nat /\ last' >= last BY <1>1, <1>2 DEF ReadInv, DataOK
<1>4. Still /\ MemsSame BY <1>1 DEF Still, MemsSame, MemEntries
<1>5. OnDisk' = OnDisk /\ Reached' = Reached /\ Opened' BY <1>1, <1>2, <1>4, StillSame DEF Opened
<1>6. /\ \A i, j \in 1..Len(queue') : i < j => Write(i)' < Write(j)'
      /\ \A e \in EntrySet : Past(e) => Past(e)'
      /\ \A i \in 1..Len(queue') : \A j \in 1..turn.size : Write(j) < Write(i)'
  BY <1>1, <1>2, <1>3, <1>5, LeaveInOrder
<1>7. \A e \in new : Past(e)'
  <2> SUFFICES ASSUME NEW e \in new PROVE Past(e)' OBVIOUS
  <2>1. PICK j \in 1..turn.size : e.write = Write(j) BY <1>2
  <2>2. \A i \in 1..Len(queue') : e.write < Write(i)' BY <1>6, <2>1
  <2>3. e.seq <= last' BY <1>1, <1>2
  <2> QED BY <2>2, <2>3 DEF Past
<1>8. QueueInOrder'
  <2>1. QueueInOrder BY DEF StoreInv, WritersOK
  <2>2. \A e \in Reached' : Past(e)' BY <1>2, <1>5, <1>6, <1>7, <2>1, ReachedType DEF QueueInOrder
  <2>3. \A e \in mems'[log'] : Past(e)'
    <3>1. mems[log] \subseteq EntrySet BY <1>2, OldNumbers
    <3> QED BY <1>1, <1>2, <1>6, <1>7, <2>1, <3>1 DEF QueueInOrder
  <2> QED BY <1>1, <1>2, <1>6, <2>2, <2>3 DEF QueueInOrder
<1>9. WritersOK' BY <1>1, <1>8 DEF WritersOK, Idle
<1>10. OrderOK' BY <1>1, <1>4, OrderFrame DEF StoreInv
<1>11. WholeOK' BY <1>1, <1>4, WholeFrame DEF StoreInv
<1>12. LogsOK'
  <2>1. next \in Nat /\ \A n \in DOMAIN logs : n \in Nat BY DEF FilesInv, NumbersOK
  <2> QED BY <1>1, <1>4, <2>1, LogsFrame DEF StoreInv
<1>13. WorkOK'
  <2>1. WorkOK BY DEF StoreInv
  <2>2. /\ snapshot = -1 \/ (snapshot \in 0..last' /\ phase = "up")
    BY <1>2, <1>3, <2>1 DEF WorkOK
  <2>3. merge.stage \in {"reading", "writing", "logging"} => merge.smallest \in 0..last'
    BY <1>3, <2>1 DEF WorkOK
  <2> QED BY <1>1, <1>4, <2>1, <2>2, <2>3 DEF WorkOK, Torn, TableEntries, MemsSame
<1>14. SafeOK'
  <2>1. SafeOK /\ safe \in [CrashKinds -> [Keys -> Nat]] /\ must \in [Keys -> Nat]
    BY DEF StoreInv, SafeOK
  <2>2. ASSUME NEW m \in OnDisk, NEW c \in CrashKinds PROVE Left(c, m)' = Left(c, m)
    BY <1>1, <1>2, <1>5 DEF Left, InMems, InLogs, LogsFrom, MemEntries, TableEntries
  <2>3. CASE ~ turn.ok
    <3>1. safe' = safe BY <1>1, <2>3
    <3>2. ASSUME NEW m \in OnDisk', NEW c \in CrashKinds, NEW k \in Keys
          PROVE  Has(Left(c, m)', k, Owed(c, k)')
      <4>1. Owed(c, k)' = Owed(c, k) BY <1>1, <1>2, <1>5, <3>1 DEF Owed
      <4>2. Has(Left(c, m), k, Owed(c, k)) BY <1>5, <2>1, <3>2 DEF SafeOK
      <4>3. Left(c, m)' = Left(c, m) BY <1>5, <2>2, <3>2
      <4> QED BY <4>1, <4>2, <4>3
    <3> QED BY <1>1, <2>1, <3>1, <3>2 DEF SafeOK
  <2>4. CASE turn.ok
    <3>1. Inserted /\ safe' = [c \in CrashKinds |-> Applied(safe[c], Sure(c))]
      <4>1. turn.stage # "syncError"
        BY <1>1, <2>4 DEF StoreInv, WritersOK, ProgressOK
      <4> QED BY <1>1, <2>4, <4>1 DEF Inserted
    <3>2. Len(batches) \in Nat BY Queued
    <3>3. ASSUME NEW c \in CrashKinds PROVE Sure(c) \in SUBSET (1..Len(batches))
      <4>1. \A i \in 1..Len(queue) : Write(i) \in 1..Len(batches) BY Queued
      <4>2. \A j \in 1..turn.size : j \in 1..Len(queue) BY <1>2, Queued
      <4> QED BY <4>1, <4>2 DEF Sure, Write
    <3>4. ASSUME NEW c \in CrashKinds, NEW k \in Keys
          PROVE  /\ safe'[c][k] \in Nat
                 /\ \/ safe'[c][k] = safe[c][k]
                    \/ safe'[c][k] \in Sure(c) /\ k \in batches[safe'[c][k]]
      <4>1. PICK ids : ids = Sure(c) OBVIOUS
      <4>2. PICK v : v = safe[c] OBVIOUS
      <4>3. v \in [Keys -> Nat] /\ ids \in SUBSET (1..Len(batches)) /\ safe'[c] = Applied(v, ids)
        BY <2>1, <3>1, <3>3, <4>1, <4>2
      <4>4. \/ Applied(v, ids)[k] = v[k]
            \/ Applied(v, ids)[k] \in ids /\ k \in batches[Applied(v, ids)[k]]
        BY <3>2, <4>3, AppliedIs
      <4> QED BY <4>1, <4>2, <4>3, <4>4
    <3>5. safe' \in [CrashKinds -> [Keys -> Nat]]
      <4>1. \A c \in CrashKinds : safe'[c] = [k \in Keys |-> safe'[c][k]] BY <3>1 DEF Applied
      <4>2. \A c \in CrashKinds : safe'[c] \in [Keys -> Nat] BY <3>4, <4>1
      <4> QED BY <3>1, <4>2
    <3>6. ASSUME NEW m \in OnDisk', NEW c \in CrashKinds, NEW k \in Keys
          PROVE  Has(Left(c, m)', k, Owed(c, k)')
      <4>1. Owed(c, k)' = safe'[c][k] /\ Owed(c, k) = safe[c][k] BY <1>2, <1>5 DEF Owed
      <4>2. Left(c, m)' = Left(c, m) BY <1>5, <2>2, <3>6
      <4>3. CASE safe'[c][k] = safe[c][k]
        <5>1. Has(Left(c, m), k, Owed(c, k)) BY <1>5, <2>1, <3>6 DEF SafeOK
        <5> QED BY <4>1, <4>2, <4>3, <5>1
      <4>4. CASE safe'[c][k] \in Sure(c) /\ k \in batches[safe'[c][k]]
        <5>1. PICK i : i = safe'[c][k] OBVIOUS
        <5>2. i \in Sure(c) /\ k \in batches[i] /\ i \in Nat BY <3>4, <4>4, <5>1
        <5>3. PICK e \in MemEntries(log) \cap Certain(c, logs[log]) : e.key = k /\ e.write = i
          BY <3>1, <5>2, SureIs
        <5>4. log \in LogsFrom(m.log)
          <6>1. log \in DOMAIN logs /\ m.log <= log /\ m.log \in Nat BY <1>2, <1>5, <3>6 DEF StoreInv, LogsOK
          <6>2. log \in Nat BY <6>1 DEF FilesInv, NumbersOK
          <6> QED BY <6>1, <6>2 DEF LogsFrom
        <5>5. e \in InMems(c, m) BY <5>3, <5>4 DEF InMems
        <5>6. e \in Left(c, m) BY <1>2, <1>5, <3>6, <5>5, LeftType DEF Left
        <5> QED BY <4>1, <4>2, <5>1, <5>2, <5>3, <5>6 DEF Has
      <4> QED BY <3>4, <4>3, <4>4
    <3> QED BY <1>1, <2>1, <3>5, <3>6 DEF SafeOK
  <2> QED BY <2>3, <2>4
<1> QED BY <1>9, <1>10, <1>11, <1>12, <1>13, <1>14 DEF StoreInv

(* Of S, T leaves out only what newer entries of T hide.                   *)
LEMMA CompleteCovered ==
  ASSUME NEW S \in SUBSET EntrySet, NEW T \in SUBSET S, Complete(S), Covers(S, T)
  PROVE  Complete(T)
<1> SUFFICES ASSUME NEW e \in T, NEW k \in batches[e.write]
             PROVE  \E f \in T : f.key = k /\ f.write >= e.write
  BY DEF Complete
<1>1. PICK g \in S : g.key = k /\ g.write >= e.write BY DEF Complete
<1>2. PICK f \in T : f.key = g.key /\ f.write \in Nat /\ f.write >= g.write BY DEF Covers
<1>3. e.write \in Nat /\ g.write \in Nat BY DEF EntrySet
<1>4. f.write >= e.write BY <1>1, <1>2, <1>3
<1> QED BY <1>1, <1>2, <1>4

(* What a merge keeps covers what it read.                                 *)
LEMMA KeptCovers ==
  ASSUME NEW E \in SUBSET EntrySet, Ordered(E), NEW smallest \in Nat
  PROVE  Covers(E, Kept(E, smallest)) /\ Kept(E, smallest) \subseteq E
<1>1. ASSUME NEW e \in E
      PROVE  \E f \in Kept(E, smallest) : f.key = e.key /\ f.write \in Nat /\ f.write >= e.write
  <2>1. PICK f \in Kept(E, smallest) : f.key = e.key /\ f.seq >= e.seq BY KeptWitness
  <2>2. f \in E BY DEF Kept
  <2>3. f.write \in Nat /\ e.write \in Nat /\ f.seq \in Nat /\ e.seq \in Nat BY <2>2 DEF EntrySet
  <2>4. CASE f.seq = e.seq
    <3>1. e = f BY <2>2, <2>4 DEF Ordered
    <3> QED BY <2>1, <2>3, <3>1
  <2>5. CASE f.seq # e.seq
    <3>1. e.seq < f.seq BY <2>1, <2>3, <2>5
    <3>2. e.write <= f.write BY <2>2, <3>1 DEF Ordered
    <3> QED BY <2>1, <2>3, <3>2
  <2> QED BY <2>4, <2>5
<1> QED BY <1>1 DEF Covers, Kept

(* Steps that leave the writers alone and lose entries at most.            *)
LEMMA WritersLess ==
  ASSUME WritersOK, Reached' \subseteq Reached, UNCHANGED <<queue, request, turn, batches, last, log>>,
         phase' = phase \/ (phase = "installed" /\ phase' = "up"),
         phase \in {"installed", "up"} => mems'[log] = mems[log],
         phase = "up" => logs'[log] = logs[log],
         turn.stage # "none" => phase = "up"
  PROVE  WritersOK'
<1>1. Opened' = Opened /\ (Opened => mems'[log'] = mems[log]) BY DEF Opened
<1>2. QueueInOrder' BY <1>1 DEF WritersOK, QueueInOrder, Write, Past, Logging, Inserted
<1>3. turn.stage # "none" => GroupOK' BY GroupKept DEF WritersOK
<1>4. turn.stage # "none" => ProgressOK' BY DEF WritersOK, ProgressOK, Leader, Inserted
<1> QED BY <1>2, <1>3, <1>4 DEF WritersOK

(* An edit is begun: what it makes of the MANIFEST may now be found.       *)
NewTables(m) == (m.version.tables \ edit'.drop) \cup edit'.add
NewEntries(m) == UNION {tables'[t] : t \in NewTables(m)}

(* What an edit makes of each thing the MANIFEST may say is ordered, whole *)
(* and no less than what was there.                                        *)
LEMMA EditBegins ==
  ASSUME FilesInv, ReadInv, StoreInv, phase = "up", edit'.kind = "edit",
         UNCHANGED <<logs, manifest, phase, log, imm, mems, current, logNumber, next, last, queue,
                     request, turn, batches, safe, must>>,
         edit'.log \in Nat, logNumber <= edit'.log, edit'.log <= log, edit'.next = next,
         \A m \in manifest : \A t \in m.version.tables : tables'[t] = tables[t],
         \A m \in manifest \ Torn : /\ NewEntries(m) \subseteq Reached /\ Complete(NewEntries(m))
                                    /\ Covers(TableEntries(m.version.tables), NewEntries(m))
                                    /\ MemEntries(imm) \subseteq NewEntries(m) \/ edit'.log = logNumber
  PROVE  OrderOK' /\ WholeOK' /\ LogsOK' /\ WritersOK' /\ SafeOK'
<1>1. Opened /\ Opened' BY DEF Opened
<1>2. OnDisk' = manifest \cup {Apply(edit', m) : m \in manifest \ Torn}
  BY DEF OnDisk, Edited, Torn, NoEdit
<1>3. manifest \subseteq OnDisk BY DEF OnDisk
<1>4. ASSUME NEW m \in manifest PROVE TableEntries(m.version.tables)' = TableEntries(m.version.tables)
  BY DEF TableEntries
<1>5. ASSUME NEW m \in manifest \ Torn, NEW a, a = Apply(edit', m)
      PROVE  /\ TableEntries(a.version.tables)' = NewEntries(m)
             /\ a.log = edit'.log /\ a.next = next /\ ~ a.torn
  <2>1. a.version.tables = NewTables(m) BY <1>5 DEF Apply, Version, NewTables
  <2>2. TableEntries(a.version.tables)' = NewEntries(m) BY <2>1 DEF TableEntries, NewEntries
  <2> QED BY <1>5, <2>2 DEF Apply
<1>6. ASSUME NEW a \in OnDisk'
      PROVE  a \in manifest \/ \E m \in manifest \ Torn : a = Apply(edit', m)
  BY <1>2
<1>7. \A n : LogsFrom(n)' = LogsFrom(n) BY DEF LogsFrom
<1>8. \A n, e : InLog(n, e)' <=> InLog(n, e) BY DEF InLog
<1>9. Reached' \subseteq Reached
  <2> SUFFICES ASSUME NEW e \in Reached' PROVE e \in Reached OBVIOUS
  <2>1. PICK a \in OnDisk' : Reaches(a, e)' BY Members
  <2>2. CASE a \in manifest
    <3>1. InTable(a.version.tables, e)' => InTable(a.version.tables, e) BY <2>2 DEF InTable
    <3>2. Reaches(a, e) BY <1>7, <1>8, <2>1, <3>1 DEF Reaches
    <3> QED BY <1>3, <2>2, <3>2, Members
  <2>3. CASE \E m \in manifest \ Torn : a = Apply(edit', m)
    <3>1. PICK m \in manifest \ Torn : a = Apply(edit', m) BY <2>3
    <3>2. CASE InTable(a.version.tables, e)'
      <4>1. e \in TableEntries(a.version.tables)' BY <3>2, Members
      <4> QED BY <1>5, <3>1, <4>1
    <3>3. CASE \E n \in LogsFrom(a.log)' : InLog(n, e)'
      <4>1. PICK n \in LogsFrom(edit'.log) : InLog(n, e) BY <1>5, <1>7, <1>8, <3>1, <3>3
      <4>2. n \in LogsFrom(logNumber)
        <5>1. n \in Nat /\ logNumber \in Nat BY <1>1, <4>1 DEF LogsFrom, FilesInv, NumbersOK, StoreInv, LogsOK
        <5> QED BY <4>1, <5>1 DEF LogsFrom
      <4> QED BY <1>1, <4>1, <4>2, MemsReached DEF InLog
    <3> QED BY <2>1, <3>2, <3>3 DEF Reaches
  <2> QED BY <1>6, <2>2, <2>3
<1>10. OrderOK' BY <1>9 DEF StoreInv, OrderOK, Ordered, Asked
<1>11. WholeOK'
  <2>1. ASSUME NEW a \in OnDisk' PROVE Complete(TableEntries(a.version.tables))'
    <3>1. PICK S : S = TableEntries(a.version.tables)' OBVIOUS
    <3>2. Complete(S)
      <4>1. CASE a \in manifest BY <1>3, <1>4, <3>1, <4>1 DEF StoreInv, WholeOK
      <4>2. CASE \E m \in manifest \ Torn : a = Apply(edit', m) BY <1>5, <3>1, <4>2
      <4> QED BY <1>6, <4>1, <4>2
    <3> QED BY <3>1, <3>2 DEF Complete
  <2>2. \A n \in DOMAIN logs' : \A i \in 1..Len(logs'[n].records) :
          (\A e \in EntriesOf(logs'[n].records[i]) : Asked(e)') /\ Complete(EntriesOf(logs[n].records[i]))'
    BY DEF StoreInv, WholeOK, Complete, Asked
  <2>3. Complete(mems[log])' /\ Complete(MemEntries(imm))'
    BY DEF StoreInv, WholeOK, Complete, MemEntries
  <2> QED BY <2>1, <2>2, <2>3 DEF WholeOK
<1>12. LogsOK'
  <2>1. LogsOK /\ next \in Nat /\ log \in Nat BY DEF StoreInv, FilesInv, NumbersOK, LogsOK
  <2>2. log < next BY <2>1 DEF LogsOK
  <2>3. ASSUME NEW a \in OnDisk' PROVE a.log \in Nat /\ a.log <= a.next /\ a.log <= log
    <3>1. CASE a \in manifest BY <1>3, <2>1, <3>1 DEF LogsOK
    <3>2. CASE \E m \in manifest \ Torn : a = Apply(edit', m) BY <1>5, <2>1, <2>2, <3>2
    <3> QED BY <1>6, <3>1, <3>2
  <2>4. MemEntries(imm)' = MemEntries(imm) BY DEF MemEntries
  <2>5. /\ \A n \in DOMAIN logs : n < next /\ logs[n].synced <= Len(logs[n].records)
        /\ log \in DOMAIN logs /\ (imm # 0 => imm \in DOMAIN logs /\ imm < log)
        /\ logNumber \in Nat /\ logNumber <= log /\ (imm # 0 => logNumber <= imm)
        /\ \E m \in manifest : m.version = current /\ m.log = logNumber /\ ~ m.torn
        /\ mems[log] \subseteq EntriesIn(logs[log].records)
        /\ imm # 0 => MemEntries(imm) \subseteq EntriesIn(logs[imm].records)
    BY <1>1, <2>1 DEF LogsOK
  <2> QED BY <1>1, <2>3, <2>4, <2>5 DEF LogsOK
<1>13. WritersOK' BY <1>9, WritersLess DEF StoreInv
<1>14. SafeOK'
  <2>1. Opened' = Opened BY <1>1
  <2>2. ASSUME NEW a \in OnDisk', NEW c \in CrashKinds
        PROVE  \E n \in OnDisk : Covers(Left(c, n), Left(c, a)')
    <3>1. CASE a \in manifest
      <4>1. Left(c, a)' = Left(c, a)
        BY <1>1, <1>4, <3>1 DEF Left, InMems, InLogs, LogsFrom, MemEntries
      <4>2. PICK S : S = Left(c, a) OBVIOUS
      <4>3. S \in SUBSET EntrySet BY <1>3, <3>1, <4>2, LeftType
      <4>4. Covers(S, S) BY <4>3, CoversSelf
      <4> QED BY <1>3, <3>1, <4>1, <4>2, <4>4
    <3>2. CASE \E m \in manifest \ Torn : a = Apply(edit', m)
      <4>1. PICK m \in manifest \ Torn : a = Apply(edit', m) BY <3>2
      <4>2. ~ m.torn /\ m \in OnDisk BY <1>3 DEF Torn
      <4>3. PICK S, M, T, N : /\ S = TableEntries(m.version.tables) /\ M = InMems(c, m)
                              /\ T = NewEntries(m) /\ N = InMems(c, a)'
        OBVIOUS
      <4>4. Left(c, m) = S \cup M BY <1>1, <4>2, <4>3 DEF Left
      <4>5. Left(c, a)' = T \cup N BY <1>1, <1>5, <4>1, <4>3 DEF Left
      <4>6. Covers(S, T) BY <4>1, <4>3
      <4>7. M \subseteq T \cup N
        <5> SUFFICES ASSUME NEW x \in M PROVE x \in T \/ x \in N OBVIOUS
        <5>1. PICK n \in {log, imm} \cap LogsFrom(m.log) : x \in MemEntries(n) \cap Certain(c, logs[n])
          BY <4>3 DEF InMems
        <5>2. n \in LogsFrom(a.log) => x \in N
          <6>1. InMems(c, a)' = UNION {MemEntries(i) \cap Certain(c, logs[i]) : i \in {log, imm} \cap LogsFrom(a.log)}
            BY <1>7 DEF InMems, MemEntries
          <6> QED BY <4>3, <5>1, <6>1
        <5>3. a.log = edit'.log BY <1>5, <4>1
        <5>4. n \in DOMAIN logs /\ n \in Nat BY <5>1 DEF LogsFrom, FilesInv, NumbersOK
        <5>5. CASE n = log BY <5>2, <5>3, <5>4, <5>5 DEF LogsFrom
        <5>6. CASE n = imm /\ MemEntries(imm) \subseteq T BY <5>1, <5>6
        <5>7. CASE n = imm /\ edit'.log = logNumber
          <6>1. imm # 0 BY <5>1, <5>7 DEF MemEntries
          <6>2. logNumber <= imm BY <1>1, <6>1 DEF StoreInv, LogsOK
          <6> QED BY <5>2, <5>3, <5>4, <5>7, <6>2 DEF LogsFrom
        <5> QED BY <4>1, <4>3, <5>1, <5>5, <5>6, <5>7
      <4>8. S \cup M \in SUBSET EntrySet BY <4>2, <4>4, LeftType
      <4>9. Covers(S \cup M, T \cup N) BY <4>6, <4>7, <4>8 DEF Covers, EntrySet
      <4> QED BY <4>2, <4>4, <4>5, <4>9
    <3> QED BY <1>6, <3>1, <3>2
  <2>3. SafeOK BY DEF StoreInv
  <2> QED BY <2>1, <2>2, <2>3, SafeKept
<1> QED BY <1>10, <1>11, <1>12, <1>13, <1>14

(* The table of the memtable that is written out, and its edit.            *)
LEMMA FlushBuiltStore ==
  ASSUME FilesInv, ReadInv, StoreInv, FlushBuilt
  PROVE  StoreInv'
<1> USE DEF disk, versions, memory, background, clients, history, bounds
<1> DEFINE n == flush.number
<1>1. /\ flush.stage = "building" /\ flush' = [flush EXCEPT !.stage = "logging"]
      /\ tables' = With(tables, n, mems[imm])
      /\ edit'.kind = "edit" /\ edit'.drop = {} /\ edit'.add = {n} /\ edit'.log = log /\ edit'.next = next
      /\ UNCHANGED <<logs, manifest, phase, log, imm, mems, current, logNumber, next, last, merge,
                     snapshot, queue, request, turn, batches, safe, must>>
  BY DEF FlushBuilt, LogEdit
<1>2. flush'.stage = "logging" /\ flush'.number = n /\ merge.stage \in {"none", "reading", "writing"}
  BY <1>1 DEF FilesInv, FlushOK, Idle
<1>3. phase = "up" /\ Opened BY <1>1 DEF FilesInv, PhasesOK, Quiet, Idle, Opened
<1>4. imm # 0 /\ MemEntries(imm) = mems[imm] /\ MemEntries(imm)' = mems[imm] /\ MemEntries(imm) \subseteq EntrySet
  BY <1>1, <1>3, OldNumbers DEF ReadInv, MemsOK, MemEntries
<1>5. tables'[n] = mems[imm] /\ \A t \in DOMAIN tables : t # n => tables'[t] = tables[t]
  BY <1>1 DEF With
<1>6. logNumber \in Nat /\ logNumber <= log /\ log \in Nat
  BY <1>3 DEF StoreInv, LogsOK, FilesInv, NumbersOK
<1>7. ASSUME NEW m \in manifest PROVE \A t \in m.version.tables : t # n /\ tables'[t] = tables[t]
  <2>1. m \in OnDisk BY DEF OnDisk
  <2>2. Free(m.version.tables) /\ m.version.tables \subseteq DOMAIN tables
    BY <1>3, <2>1, OnDiskSound, TableTypes
  <2> QED BY <1>1, <1>5, <2>2 DEF Free
<1>8. ASSUME NEW m \in manifest \ Torn
      PROVE  /\ NewEntries(m) \subseteq Reached /\ Complete(NewEntries(m))
             /\ Covers(TableEntries(m.version.tables), NewEntries(m))
             /\ MemEntries(imm) \subseteq NewEntries(m)
  <2>1. m \in OnDisk BY DEF OnDisk
  <2>2. NewEntries(m) = TableEntries(m.version.tables) \cup MemEntries(imm)
    BY <1>1, <1>4, <1>5, <1>7 DEF NewEntries, NewTables, TableEntries
  <2>3. TableEntries(m.version.tables) \subseteq Reached BY <2>1, Members DEF Reaches
  <2>4. MemEntries(imm) \subseteq Reached BY <1>3, MemsReached DEF All
  <2>5. Complete(TableEntries(m.version.tables)) /\ Complete(MemEntries(imm))
    BY <1>3, <2>1 DEF StoreInv, WholeOK
  <2>6. Complete(TableEntries(m.version.tables) \cup MemEntries(imm)) BY <2>5 DEF Complete
  <2>7. TableEntries(m.version.tables) \subseteq EntrySet BY <2>1, TableTypes
  <2>8. Covers(TableEntries(m.version.tables), NewEntries(m)) BY <2>2, <2>7, CoversSelf
  <2> QED BY <2>2, <2>3, <2>4, <2>6, <2>8
<1>9. OrderOK' /\ WholeOK' /\ LogsOK' /\ WritersOK' /\ SafeOK'
  BY <1>1, <1>3, <1>6, <1>7, <1>8, EditBegins
<1>10. WorkOK'
  <2>1. WorkOK BY DEF StoreInv
  <2>2. \A m \in manifest \ Torn : current.tables \subseteq m.version.tables BY <1>1, <2>1 DEF WorkOK
  <2> QED BY <1>1, <1>2, <1>4, <1>5, <2>1, <2>2 DEF WorkOK, Torn
<1> QED BY <1>9, <1>10 DEF StoreInv

(* A table that changes its level.                                         *)
LEMMA TrivialMoveStore ==
  ASSUME FilesInv, ReadInv, StoreInv, TrivialMove
  PROVE  StoreInv'
<1> USE DEF disk, versions, memory, background, clients, history, bounds
<1>1. PICK n \in current.tables : edit' = [kind |-> "edit", drop |-> {n}, add |-> {n}, addZero |-> {},
                                           log |-> logNumber, next |-> next, last |-> last]
  BY DEF TrivialMove, LogEdit
<1>2. /\ phase = "up" /\ ~ bgError /\ flush.stage = "none" /\ merge'.stage = "moving"
      /\ UNCHANGED <<logs, tables, manifest, phase, log, imm, mems, current, logNumber, next, last,
                     flush, snapshot, queue, request, turn, batches, safe, must>>
  BY DEF TrivialMove, Merges, Called
<1>3. Opened BY <1>2 DEF Opened
<1>4. Sole(current) BY <1>2 DEF FilesInv, PhasesOK
<1>5. logNumber \in Nat /\ logNumber <= log BY <1>3 DEF StoreInv, LogsOK
<1>6. ASSUME NEW m \in manifest \ Torn
      PROVE  /\ NewEntries(m) \subseteq Reached /\ Complete(NewEntries(m))
             /\ Covers(TableEntries(m.version.tables), NewEntries(m))
  <2>1. m \in OnDisk /\ m.version = current BY <1>4 DEF OnDisk, Sole
  <2>2. NewTables(m) = m.version.tables BY <1>1, <2>1 DEF NewTables
  <2>3. NewEntries(m) = TableEntries(m.version.tables) BY <1>2, <2>2 DEF NewEntries, TableEntries
  <2>4. TableEntries(m.version.tables) \subseteq Reached BY <2>1, Members DEF Reaches
  <2>5. Complete(TableEntries(m.version.tables)) BY <2>1 DEF StoreInv, WholeOK
  <2>6. TableEntries(m.version.tables) \subseteq EntrySet BY <2>1, TableTypes
  <2> QED BY <2>3, <2>4, <2>5, <2>6, CoversSelf
<1>7. edit'.kind = "edit" /\ edit'.log = logNumber /\ edit'.next = next BY <1>1
<1>8. OrderOK' /\ WholeOK' /\ LogsOK' /\ WritersOK' /\ SafeOK'
  BY <1>2, <1>5, <1>6, <1>7, EditBegins
<1>9. WorkOK'
  <2>1. WorkOK BY DEF StoreInv
  <2>2. \A m \in manifest \ Torn : current.tables \subseteq m.version.tables BY <1>4 DEF Sole
  <2> QED BY <1>1, <1>2, <2>1, <2>2 DEF WorkOK, Torn
<1> QED BY <1>8, <1>9 DEF StoreInv

(* A merge's output is whole: newer entries of its keys are in it for all  *)
(* that it leaves out.                                                     *)
LEMMA OutputWrittenStore ==
  ASSUME FilesInv, ReadInv, StoreInv, OutputWritten
  PROVE  StoreInv'
<1> USE DEF disk, versions, memory, background, clients, history, bounds
<1>1. PICK x, T, s : x = merge.number /\ T = merge.inputs /\ s = merge.smallest OBVIOUS
<1>2. /\ merge.stage = "writing" /\ flush.stage = "none" /\ merge' = [merge EXCEPT !.stage = "logging"]
      /\ tables' = [n \in DOMAIN tables |-> IF n = x THEN Kept(TableEntries(T), s) ELSE tables[n]]
      /\ edit' = [kind |-> "edit", drop |-> T, add |-> {x}, addZero |-> {},
                  log |-> logNumber, next |-> next, last |-> last]
      /\ UNCHANGED <<logs, manifest, phase, log, imm, mems, current, logNumber, next, last,
                     flush, snapshot, queue, request, turn, batches, safe, must>>
  BY <1>1 DEF OutputWritten, LogEdit
<1>3. phase = "up" /\ Opened BY <1>2 DEF FilesInv, PhasesOK, Quiet, Idle, Opened
<1>4. WorkOK BY DEF StoreInv
<1>5. /\ {"inputs", "smallest"} \subseteq DOMAIN merge /\ {"stage", "version", "number"} \subseteq DOMAIN merge
      /\ T \subseteq current.tables /\ s \in 0..last /\ (snapshot # -1 => s <= snapshot)
      /\ \A m \in manifest \ Torn : current.tables \subseteq m.version.tables
      /\ x \in DOMAIN tables
  BY <1>1, <1>2, <1>4 DEF WorkOK, FilesInv, MergeOK
<1>6. last \in Nat /\ s \in Nat BY <1>5 DEF ReadInv, DataOK
<1>7. logNumber \in Nat /\ logNumber <= log BY <1>3 DEF StoreInv, LogsOK
<1>8. x \notin T /\ tables'[x] = Kept(TableEntries(T), s) /\ \A t \in DOMAIN tables : t # x => tables'[t] = tables[t]
  <2>1. Free(current.tables) BY <1>3 DEF ReadInv, FreshOK
  <2> QED BY <1>1, <1>2, <1>5, <2>1 DEF Free
<1>9. PICK E : E = TableEntries(T) OBVIOUS
<1>10. E \subseteq Reached /\ E \in SUBSET EntrySet
  <2>1. E \subseteq All BY <1>5, <1>9 DEF All, TableEntries
  <2> QED BY <1>3, <2>1, MemsReached
<1>11. Ordered(E) BY <1>10 DEF StoreInv, OrderOK, Ordered
<1>12. Covers(E, Kept(E, s)) /\ Kept(E, s) \subseteq E BY <1>6, <1>10, <1>11, KeptCovers
<1>13. ASSUME NEW m \in manifest PROVE \A t \in m.version.tables : t # x /\ tables'[t] = tables[t]
  <2>1. m \in OnDisk BY DEF OnDisk
  <2>2. Free(m.version.tables) /\ m.version.tables \subseteq DOMAIN tables
    BY <1>3, <2>1, OnDiskSound, TableTypes
  <2> QED BY <1>1, <1>2, <1>8, <2>2 DEF Free
<1>14. ASSUME NEW m \in manifest \ Torn
       PROVE  /\ NewEntries(m) \subseteq Reached /\ Complete(NewEntries(m))
              /\ Covers(TableEntries(m.version.tables), NewEntries(m))
  <2>1. m \in OnDisk BY DEF OnDisk
  <2>2. PICK R : R = TableEntries(m.version.tables \ T) OBVIOUS
  <2>3. PICK S : S = TableEntries(m.version.tables) OBVIOUS
  <2>4. S = R \cup E BY <1>5, <1>9, <2>2, <2>3 DEF TableEntries
  <2>5. NewEntries(m) = R \cup Kept(E, s)
    <3>1. NewTables(m) = (m.version.tables \ T) \cup {x} BY <1>2 DEF NewTables
    <3>2. NewEntries(m) = (UNION {tables'[t] : t \in m.version.tables \ T}) \cup tables'[x]
      BY <3>1 DEF NewEntries
    <3>3. \A t \in m.version.tables \ T : tables'[t] = tables[t] BY <1>13
    <3> QED BY <1>8, <1>9, <2>2, <3>2, <3>3 DEF TableEntries
  <2>6. S \subseteq Reached BY <2>1, <2>3, Members DEF Reaches
  <2>7. S \in SUBSET EntrySet /\ Complete(S) BY <2>1, <2>3, TableTypes DEF StoreInv, WholeOK
  <2>8. PICK N : N = R \cup Kept(E, s) OBVIOUS
  <2>9. Covers(S, N)
    <3>1. \A e \in R : e.write \in Nat /\ e.write >= e.write BY <2>4, <2>7 DEF EntrySet
    <3> QED BY <1>12, <2>4, <2>8, <3>1 DEF Covers
  <2>10. N \in SUBSET S BY <1>12, <2>4, <2>8
  <2>11. Complete(N) BY <2>7, <2>9, <2>10, CompleteCovered
  <2> QED BY <2>3, <2>5, <2>6, <2>8, <2>9, <2>10, <2>11
<1>15. edit'.kind = "edit" /\ edit'.log = logNumber /\ edit'.next = next BY <1>2
<1>16. OrderOK' /\ WholeOK' /\ LogsOK' /\ WritersOK' /\ SafeOK'
  BY <1>2, <1>3, <1>7, <1>13, <1>14, <1>15, EditBegins
<1>17. WorkOK'
  <2>1. /\ merge'.stage = "logging" /\ merge'.number = x /\ merge'.inputs = T /\ merge'.smallest = s
        /\ DOMAIN merge' = DOMAIN merge
    BY <1>1, <1>2, <1>5
  <2>2. TableEntries(T)' = TableEntries(T)
    <3>1. \A t \in T : tables'[t] = tables[t] BY <1>5, <1>8 DEF FilesInv, FilesThere
    <3> QED BY <3>1 DEF TableEntries
  <2>3. TableEntries(merge.inputs)' = TableEntries(T) BY <2>1, <2>2
  <2> QED BY <1>2, <1>4, <1>5, <1>8, <2>1, <2>3 DEF WorkOK, Torn
<1> QED BY <1>16, <1>17 DEF StoreInv

(* Its file, which nothing refers to.                                      *)
LEMMA OutputOpensStore ==
  ASSUME FilesInv, ReadInv, StoreInv, OutputOpens
  PROVE  StoreInv'
<1> USE DEF disk, versions, memory, background, clients, history, bounds
<1>1. /\ merge.stage = "reading" /\ flush.stage = "none"
      /\ merge' = [merge EXCEPT !.stage = "writing", !.number = next]
      /\ next' = next + 1 /\ tables' = With(tables, next, {})
      /\ UNCHANGED <<logs, manifest, edit, phase, log, imm, mems, current, logNumber, last, flush,
                     snapshot, queue, request, turn, batches, safe, must>>
  BY DEF OutputOpens
<1>2. phase = "up" /\ next \in Nat BY <1>1 DEF FilesInv, PhasesOK, NumbersOK, Quiet, Idle
<1>3. \A t \in DOMAIN tables : t # next => tables'[t] = tables[t] BY <1>1 DEF With
<1>4. \A m \in OnDisk : \A t \in m.version.tables : tables'[t] = tables[t]
  <2> SUFFICES ASSUME NEW m \in OnDisk PROVE \A t \in m.version.tables : tables'[t] = tables[t] OBVIOUS
  <2>1. Free(m.version.tables) /\ m.version.tables \subseteq DOMAIN tables
    BY <1>2, OnDiskSound, TableTypes
  <2> QED BY <1>2, <1>3, <2>1 DEF Free
<1>5. Still BY <1>1, <1>4 DEF Still
<1>6. MemsSame BY <1>1 DEF MemsSame, MemEntries
<1>7. OrderOK' /\ WholeOK' /\ LogsOK' /\ WritersOK' /\ SafeOK'
  BY <1>1, <1>2, <1>5, <1>6, Beside5
<1>8. WorkOK'
  <2>1. WorkOK BY DEF StoreInv
  <2>2. DOMAIN merge' = DOMAIN merge /\ merge'.stage = "writing"
        /\ ({"inputs", "smallest"} \subseteq DOMAIN merge =>
              merge'.inputs = merge.inputs /\ merge'.smallest = merge.smallest)
    BY <1>1 DEF FilesInv, MergeOK
  <2> QED BY <1>1, <2>1, <2>2 DEF WorkOK, Torn
<1> QED BY <1>7, <1>8 DEF StoreInv

(* An edit ends, well or not: the MANIFEST says something it could have    *)
(* said, and has kept the logs for that.                                   *)
LEMMA EditEnds ==
  ASSUME FilesInv, FilesInv', ReadInv, StoreInv, Opened, Opened', edit' = NoEdit,
         UNCHANGED <<log, next, last, queue, request, turn, batches, safe, must>>,
         phase' = phase \/ (phase = "installed" /\ phase' = "up"),
         mems'[log] = mems[log], Swept,
         \A m \in manifest' : \E n \in OnDisk : Like(m, n) /\ (n.torn => m.torn),
         \A n \in DOMAIN logs' : n \in DOMAIN logs /\ logs'[n] = logs[n],
         \A m \in manifest' : LogsFrom(m.log) \subseteq DOMAIN logs',
         \E m \in manifest' : m.version = current' /\ m.log = logNumber' /\ ~ m.torn,
         logNumber' \in Nat, logNumber' <= log, imm' # 0 => logNumber' <= imm,
         \/ imm' = imm /\ MemEntries(imm)' = MemEntries(imm)
         \/ imm' = 0 /\ \A m \in manifest' : ~ m.torn => m.log \in Nat /\ imm < m.log
  PROVE  OrderOK' /\ WholeOK' /\ LogsOK' /\ WritersOK' /\ SafeOK'
<1>1. OnDisk' = manifest' BY DEF OnDisk
<1>2. ASSUME NEW m \in manifest', NEW n \in OnDisk, Like(m, n)
      PROVE  /\ TableEntries(m.version.tables)' = TableEntries(n.version.tables)
             /\ m.log = n.log
  <2>1. m.version.tables \subseteq DOMAIN tables' BY DEF FilesInv, FilesThere
  <2>2. \A t \in m.version.tables : tables'[t] = tables[t] BY <2>1 DEF Swept
  <2> QED BY <1>2, <2>2 DEF Like, TableEntries
<1>3. \A x : LogsFrom(x)' \subseteq LogsFrom(x) BY DEF LogsFrom
<1>4. \A m \in manifest' : LogsFrom(m.log)' = LogsFrom(m.log) BY DEF LogsFrom
<1>5. Reached' \subseteq Reached
  <2> SUFFICES ASSUME NEW e \in Reached' PROVE e \in Reached OBVIOUS
  <2>1. PICK m \in manifest' : Reaches(m, e)' BY <1>1, Members
  <2>2. PICK n \in OnDisk : Like(m, n) OBVIOUS
  <2>3. CASE InTable(m.version.tables, e)'
    <3>1. e \in TableEntries(n.version.tables) BY <1>2, <2>2, <2>3, Members
    <3> QED BY <2>2, <3>1, Members DEF Reaches
  <2>4. CASE \E x \in LogsFrom(m.log)' : InLog(x, e)'
    <3>1. PICK x \in LogsFrom(m.log)' : InLog(x, e)' BY <2>4
    <3>2. x \in LogsFrom(m.log) /\ x \in DOMAIN logs' BY <1>3, <3>1 DEF LogsFrom
    <3>3. x \in LogsFrom(n.log) /\ InLog(x, e) BY <2>2, <3>1, <3>2 DEF InLog, Like
    <3> QED BY <2>2, <3>3, Members DEF Reaches
  <2> QED BY <2>1, <2>3, <2>4 DEF Reaches
<1>6. phase # "down" /\ phase' # "down" /\ phase' # "recovered" BY DEF Opened
<1>7. PICK w \in manifest' : w.version = current' /\ w.log = logNumber' /\ ~ w.torn OBVIOUS
<1>8. LogsOK BY DEF StoreInv
<1>9. /\ log \in DOMAIN logs /\ log \in Nat /\ (imm # 0 => imm \in DOMAIN logs /\ imm \in Nat /\ imm < log)
      /\ \A n \in DOMAIN logs : n < next
  BY <1>6, <1>8 DEF LogsOK, FilesInv, NumbersOK
<1>10. log \in DOMAIN logs' /\ (imm' # 0 => imm' = imm /\ imm \in DOMAIN logs')
  <2>1. log \in LogsFrom(w.log) BY <1>7, <1>9 DEF LogsFrom
  <2>2. imm' # 0 => imm' = imm /\ imm \in LogsFrom(w.log) BY <1>7, <1>9 DEF LogsFrom
  <2> QED BY <2>1, <2>2
<1>11. OrderOK' BY <1>5 DEF StoreInv, OrderOK, Ordered, Asked
<1>12. WholeOK'
  <2>1. ASSUME NEW m \in OnDisk' PROVE Complete(TableEntries(m.version.tables))'
    <3>1. PICK n \in OnDisk : Like(m, n) BY <1>1
    <3>2. PICK S : S = TableEntries(n.version.tables) OBVIOUS
    <3>3. Complete(S) BY <3>2 DEF StoreInv, WholeOK
    <3>4. TableEntries(m.version.tables)' = S BY <1>1, <1>2, <3>1, <3>2
    <3> QED BY <3>3, <3>4 DEF Complete
  <2>2. \A n \in DOMAIN logs' : \A i \in 1..Len(logs'[n].records) :
          (\A e \in EntriesOf(logs'[n].records[i]) : Asked(e)') /\ Complete(EntriesOf(logs[n].records[i]))'
    BY DEF StoreInv, WholeOK, Complete, Asked
  <2>3. Complete(mems[log])' /\ Complete(MemEntries(imm))'
    <3>1. Complete(mems[log]) /\ Complete(MemEntries(imm)) BY <1>6 DEF StoreInv, WholeOK
    <3>2. MemEntries(imm)' = MemEntries(imm) \/ MemEntries(imm)' = {} BY DEF MemEntries
    <3> QED BY <3>1, <3>2 DEF Complete
  <2> QED BY <2>1, <2>2, <2>3 DEF WholeOK
<1>13. LogsOK'
  <2>1. ASSUME NEW m \in OnDisk' PROVE m.log \in Nat /\ m.log <= m.next /\ m.log <= log
    <3>1. PICK n \in OnDisk : Like(m, n) BY <1>1
    <3> QED BY <1>6, <1>8, <3>1 DEF Like, LogsOK
  <2>2. \A n \in DOMAIN logs' : logs'[n].synced <= Len(logs'[n].records) /\ n < next'
    BY <1>8, <1>9 DEF LogsOK
  <2>3. mems'[log'] \subseteq EntriesIn(logs'[log'].records) BY <1>8, <1>10 DEF LogsOK
  <2>4. imm' # 0 => MemEntries(imm)' \subseteq EntriesIn(logs'[imm'].records) BY <1>8, <1>10 DEF LogsOK
  <2> QED BY <1>6, <1>7, <1>9, <1>10, <2>1, <2>2, <2>3, <2>4 DEF LogsOK
<1>14. turn.stage # "none" => phase = "up" BY DEF ReadInv, TurnOK
<1>15. WritersOK' BY <1>5, <1>10, <1>14, WritersLess DEF StoreInv
<1>16. SafeOK'
  <2>1. Opened' = Opened /\ SafeOK BY DEF StoreInv
  <2>2. ASSUME NEW m \in OnDisk', NEW c \in CrashKinds
        PROVE  \E n \in OnDisk : Left(c, n) \subseteq Left(c, m)'
    <3>1. PICK n \in OnDisk : Like(m, n) /\ (n.torn => m.torn) BY <1>1
    <3>2. TableEntries(m.version.tables)' = TableEntries(n.version.tables) /\ m.log = n.log
      BY <1>1, <1>2, <3>1
    <3>3. PICK L : L = LogsFrom(n.log) OBVIOUS
    <3>4. L = LogsFrom(m.log)' /\ \A x \in L : logs'[x] = logs[x]
      BY <1>1, <1>4, <3>2, <3>3
    <3>5. InLogs(c, m)' = InLogs(c, n) BY <3>3, <3>4 DEF InLogs
    <3>6. ASSUME ~ m.torn PROVE InMems(c, n) \subseteq InMems(c, m)'
      <4> SUFFICES ASSUME NEW e \in InMems(c, n) PROVE e \in InMems(c, m)' OBVIOUS
      <4>1. PICK x \in {log, imm} \cap L : e \in MemEntries(x) \cap Certain(c, logs[x]) BY <3>3 DEF InMems
      <4>2. x # 0 BY <4>1 DEF MemEntries
      <4>3. x \in {log', imm'}
        <5>1. CASE imm' = imm BY <4>1, <5>1
        <5>2. CASE imm' # imm
          <6>1. m.log \in Nat /\ imm < m.log BY <1>1, <3>6, <5>2
          <6>2. imm \notin L
            <7>1. imm # 0 => imm \in Nat BY <1>9
            <7> QED BY <1>9, <3>2, <3>3, <4>1, <4>2, <6>1, <7>1 DEF LogsFrom
          <6> QED BY <4>1, <6>2
        <5> QED BY <5>1, <5>2
      <4>4. \A y : y = x => MemEntries(y)' = MemEntries(x)
        <5>1. CASE x = log BY <4>2, <5>1 DEF MemEntries
        <5>2. CASE x = imm /\ imm' = imm BY <4>2, <5>2 DEF MemEntries
        <5>3. CASE x = imm /\ imm' # imm /\ x # log BY <4>2, <4>3, <5>3 DEF MemEntries
        <5> QED BY <4>1, <5>1, <5>2, <5>3
      <4>5. x \in {log', imm'} \cap LogsFrom(m.log)' /\ e \in MemEntries(x)' \cap Certain(c, logs'[x])
        BY <3>4, <4>1, <4>3, <4>4
      <4> QED BY <4>5 DEF InMems
    <3>7. Left(c, n) \subseteq Left(c, m)'
      <4>1. InMems(c, n) \subseteq InLogs(c, n) BY LeftType
      <4> QED BY <3>1, <3>2, <3>5, <3>6, <4>1 DEF Left
    <3> QED BY <3>7
  <2> QED BY <2>1, <2>2, SafeGrows
<1> QED BY <1>11, <1>12, <1>13, <1>15, <1>16

(* What an edit leaves of the MANIFEST, said or not.                       *)
LEMMA ManifestAfter ==
  ASSUME FilesInv, edit.kind = "edit", Logged \/ NotLogged
  PROVE  /\ \A m \in manifest' : \E n \in OnDisk : Like(m, n) /\ (n.torn => m.torn)
         /\ \A m \in manifest' : ~ m.torn =>
              \/ NotLogged /\ m \in manifest
              \/ \E n \in manifest \ Torn : m = Apply(edit, n)
         /\ Logged => \A n \in manifest \ Torn : Apply(edit, n) \in manifest'
         /\ NotLogged => manifest \subseteq manifest'
<1>1. OnDisk = manifest \cup Edited(edit) BY DEF OnDisk, NoEdit
<1>2. ASSUME NEW m \in manifest'
      PROVE  \E n \in OnDisk : Like(m, n) /\ (n.torn => m.torn)
  <2>1. CASE m \in OnDisk BY <2>1 DEF Like
  <2>2. CASE m \notin OnDisk
    <3>1. PICK n \in manifest : m = [n EXCEPT !.torn = TRUE]
      BY <1>1, <2>2 DEF Logged, NotLogged, Torn
    <3>2. DOMAIN n = Parts BY DEF FilesInv, NumbersOK
    <3>3. Like(m, n) /\ m.torn BY <3>1, <3>2, TornLike
    <3> QED BY <1>1, <3>3
  <2> QED BY <2>1, <2>2
<1>3. ASSUME NEW m \in manifest', ~ m.torn
      PROVE  \/ NotLogged /\ m \in manifest
             \/ \E n \in manifest \ Torn : m = Apply(edit, n)
  <2>1. CASE Logged BY <1>3, <2>1 DEF Logged, Torn, Edited
  <2>2. CASE NotLogged
    <3>1. m \notin {[n EXCEPT !.torn = TRUE] : n \in manifest}
      <4> SUFFICES ASSUME NEW n \in manifest, m = [n EXCEPT !.torn = TRUE] PROVE FALSE OBVIOUS
      <4>1. DOMAIN n = Parts BY DEF FilesInv, NumbersOK
      <4> QED BY <1>3, <4>1, TornLike
    <3>2. m \in OnDisk BY <2>2, <3>1 DEF NotLogged
    <3> QED BY <1>1, <2>2, <3>2 DEF Edited
  <2> QED BY <2>1, <2>2
<1>4. Logged => \A n \in manifest \ Torn : Apply(edit, n) \in manifest' BY DEF Logged, Edited
<1>5. NotLogged => manifest \subseteq manifest' BY <1>1 DEF NotLogged
<1> QED BY <1>2, <1>3, <1>4, <1>5

(* The memtable is in a table of the version, and its log can go.          *)
LEMMA FlushLoggedStore ==
  ASSUME FilesInv, FilesInv', ReadInv, StoreInv, FlushLogged
  PROVE  StoreInv'
<1> USE DEF disk, versions, memory, background, clients, history, bounds
<1>1. /\ flush.stage = "logging" /\ flush' = Idle /\ Logged /\ edit' = NoEdit
      /\ current' = Installed.version /\ logNumber' = edit.log /\ imm' = 0
      /\ mems' = [m \in DOMAIN mems \cap KeptMems(log, 0, InUse(Readers)) |-> mems[m]]
      /\ UNCHANGED <<phase, log, next, last, merge, snapshot, queue, request, turn, batches, safe, must>>
  BY DEF FlushLogged
<1>2. /\ edit.kind = "edit" /\ edit.drop = {} /\ edit.add = {flush.number}
      /\ merge.stage \in {"none", "reading", "writing"}
  BY <1>1 DEF FilesInv, FlushOK
<1>3. phase = "up" /\ Opened /\ Opened' BY <1>1 DEF FilesInv, PhasesOK, Quiet, Idle, Opened
<1>4. WorkOK /\ edit.log = log BY <1>1 DEF StoreInv, WorkOK
<1>5. /\ log \in Nat /\ log \in DOMAIN logs /\ imm # 0 /\ imm \in Nat /\ imm < log
      /\ mems'[log] = mems[log]
  BY <1>1, <1>3 DEF StoreInv, LogsOK, ReadInv, MemsOK, FilesInv, NumbersOK, KeptMems
<1>6. PICK w \in manifest : w.version = current /\ w.log = logNumber /\ ~ w.torn
  BY <1>3 DEF StoreInv, LogsOK
<1>7. Apply(edit, w).version = current' /\ Apply(edit, w).log = log /\ ~ Apply(edit, w).torn
  BY <1>1, <1>4, <1>6 DEF Installed, Apply
<1>8. Apply(edit, w) \in manifest' BY <1>1, <1>2, <1>6, ManifestAfter DEF Torn
<1>9. /\ Swept /\ \A n \in DOMAIN logs' : n \in DOMAIN logs /\ logs'[n] = logs[n]
      /\ bgError => logs' = logs
      /\ ~ bgError => DOMAIN logs' = {n \in DOMAIN logs : n >= log}
  BY <1>1, <1>4 DEF FlushLogged, Sweep, Swept
<1>10. ASSUME NEW m \in manifest' PROVE LogsFrom(m.log) \subseteq DOMAIN logs'
  <2>1. CASE bgError BY <1>9, <2>1 DEF LogsFrom
  <2>2. CASE ~ bgError
    <3>1. manifest = {w} BY <1>3, <1>6, <2>2 DEF FilesInv, PhasesOK, Sole
    <3>2. manifest' = {Apply(edit, w)} BY <1>1, <1>2, <1>6, <3>1, ManifestWritten
    <3>3. m.log = log BY <1>7, <3>2
    <3> QED BY <1>9, <2>2, <3>3 DEF LogsFrom
  <2> QED BY <2>1, <2>2
<1>11. ASSUME NEW m \in manifest', ~ m.torn PROVE m.log = log
  <2>1. PICK n \in manifest \ Torn : m = Apply(edit, n) BY <1>1, <1>11 DEF Logged, Edited, Torn
  <2> QED BY <1>4, <2>1 DEF Apply
<1>12. OrderOK' /\ WholeOK' /\ LogsOK' /\ WritersOK' /\ SafeOK'
  <2>1. \E m \in manifest' : m.version = current' /\ m.log = logNumber' /\ ~ m.torn
    BY <1>1, <1>4, <1>7, <1>8
  <2>2. \A m \in manifest' : \E n \in OnDisk : Like(m, n) /\ (n.torn => m.torn)
    BY <1>1, <1>2, ManifestAfter
  <2>3. logNumber' \in Nat /\ logNumber' <= log BY <1>1, <1>4, <1>5
  <2>4. imm' = 0 /\ \A m \in manifest' : ~ m.torn => m.log \in Nat /\ imm < m.log
    BY <1>1, <1>5, <1>11
  <2> QED BY <1>1, <1>3, <1>5, <1>9, <1>10, <2>1, <2>2, <2>3, <2>4, EditEnds
<1>13. WorkOK'
  <2>1. current'.tables = current.tables \cup {flush.number} BY <1>1, <1>2 DEF Installed, Apply, Version
  <2>2. \A m \in manifest \ Torn : current.tables \subseteq m.version.tables
    BY <1>1, <1>4 DEF WorkOK
  <2>3. ASSUME NEW m \in manifest', ~ m.torn PROVE current'.tables \subseteq m.version.tables
    <3>1. PICK n \in manifest \ Torn : m = Apply(edit, n) BY <1>1, <2>3 DEF Logged, Torn, Edited
    <3> QED BY <1>2, <2>1, <2>2, <3>1 DEF Apply, Version
  <2> QED BY <1>1, <1>2, <1>3, <1>4, <2>1, <2>3 DEF WorkOK, Torn, Idle
<1> QED BY <1>12, <1>13 DEF StoreInv

(* A merge's edit is written, and its inputs are deleted.                  *)
LEMMA MergeLoggedStore ==
  ASSUME FilesInv, FilesInv', ReadInv, StoreInv, MergeLogged
  PROVE  StoreInv'
<1> USE DEF disk, versions, memory, background, clients, history, bounds
<1>1. /\ merge.stage \in {"logging", "moving"} /\ merge' = Idle /\ Logged /\ edit' = NoEdit
      /\ current' = Installed.version
      /\ UNCHANGED <<phase, log, imm, mems, logNumber, next, last, flush, snapshot, queue, request,
                     turn, batches, safe, must>>
  BY DEF MergeLogged
<1>2. edit.kind = "edit" /\ flush.stage = "none"
  BY <1>1 DEF FilesInv, MergeOK, FlushOK
<1>3. phase = "up" /\ Opened /\ Opened' BY <1>1 DEF FilesInv, PhasesOK, Quiet, Idle, Opened
<1>4. WorkOK /\ edit.log = logNumber BY <1>1 DEF StoreInv, WorkOK
<1>5. logNumber \in Nat /\ logNumber <= log /\ (imm # 0 => logNumber <= imm)
  BY <1>3 DEF StoreInv, LogsOK
<1>6. PICK w \in manifest : w.version = current /\ w.log = logNumber /\ ~ w.torn
  BY <1>3 DEF StoreInv, LogsOK
<1>7. Apply(edit, w).version = current' /\ Apply(edit, w).log = logNumber /\ ~ Apply(edit, w).torn
  BY <1>1, <1>4, <1>6 DEF Installed, Apply
<1>8. Apply(edit, w) \in manifest' BY <1>1, <1>2, <1>6, ManifestAfter DEF Torn
<1>9. /\ Swept /\ \A n \in DOMAIN logs' : n \in DOMAIN logs /\ logs'[n] = logs[n]
      /\ bgError => logs' = logs
      /\ ~ bgError => \A n \in DOMAIN logs : n >= logNumber => n \in DOMAIN logs'
  BY DEF MergeLogged, Sweep, Swept
<1>10. ASSUME NEW m \in manifest' PROVE LogsFrom(m.log) \subseteq DOMAIN logs'
  <2>1. CASE bgError BY <1>9, <2>1 DEF LogsFrom
  <2>2. CASE ~ bgError
    <3>1. manifest = {w} BY <1>3, <1>6, <2>2 DEF FilesInv, PhasesOK, Sole
    <3>2. manifest' = {Apply(edit, w)} BY <1>1, <1>2, <1>6, <3>1, ManifestWritten
    <3>3. m.log = logNumber BY <1>7, <3>2
    <3> QED BY <1>9, <2>2, <3>3 DEF LogsFrom
  <2> QED BY <2>1, <2>2
<1>11. OrderOK' /\ WholeOK' /\ LogsOK' /\ WritersOK' /\ SafeOK'
  <2>1. \E m \in manifest' : m.version = current' /\ m.log = logNumber' /\ ~ m.torn
    BY <1>1, <1>7, <1>8
  <2>2. \A m \in manifest' : \E n \in OnDisk : Like(m, n) /\ (n.torn => m.torn)
    BY <1>1, <1>2, ManifestAfter
  <2>3. logNumber' \in Nat /\ logNumber' <= log /\ (imm' # 0 => logNumber' <= imm') BY <1>1, <1>5
  <2>4. imm' = imm /\ MemEntries(imm)' = MemEntries(imm) BY <1>1 DEF MemEntries
  <2>5. mems'[log] = mems[log] BY <1>1
  <2> QED BY <1>1, <1>3, <1>9, <1>10, <2>1, <2>2, <2>3, <2>4, <2>5, EditEnds
<1>12. WorkOK' BY <1>1, <1>2, <1>3, <1>4 DEF WorkOK, Idle
<1> QED BY <1>11, <1>12 DEF StoreInv

(* A failure leaves the version as it was; the MANIFEST may say so, or     *)
(* what it was to say, or have half of that.                               *)
LEMMA FailsStore ==
  ASSUME FilesInv, FilesInv', ReadInv, StoreInv, FlushFails \/ MergeFails
  PROVE  StoreInv'
<1> USE DEF disk, versions, memory, background, clients, history, bounds
<1>1. /\ flush.stage # "none" \/ merge.stage # "none"
      /\ edit' = NoEdit /\ flush'.stage = "none"
      /\ UNCHANGED <<logs, tables, phase, log, imm, mems, current, logNumber, next, last, snapshot,
                     queue, request, turn, batches, safe, must>>
      /\ \/ UNCHANGED manifest
         \/ NotLogged /\ (flush.stage = "logging" \/ merge.stage \in {"logging", "moving"})
  BY DEF FlushFails, MergeFails, Idle
<1>2. phase = "up" /\ Opened /\ Opened' BY <1>1 DEF FilesInv, PhasesOK, Quiet, Idle, Opened
<1>3. NotLogged => (manifest' = manifest \/ edit.kind = "edit")
  BY <1>1 DEF FilesInv, FlushOK, MergeOK
<1>4. /\ \A m \in manifest' : \E n \in OnDisk : Like(m, n) /\ (n.torn => m.torn)
      /\ manifest \subseteq manifest'
      /\ \A m \in manifest' : ~ m.torn => \/ m \in manifest
                                          \/ edit.kind = "edit" /\ \E n \in manifest \ Torn : m = Apply(edit, n)
  <2>1. CASE manifest' = manifest BY <2>1 DEF OnDisk, Like
  <2>2. CASE NotLogged /\ edit.kind = "edit" BY <2>2, ManifestAfter
  <2> QED BY <1>1, <1>3, <2>1, <2>2
<1>5. PICK w \in manifest : w.version = current /\ w.log = logNumber /\ ~ w.torn
  BY <1>2 DEF StoreInv, LogsOK
<1>6. logNumber \in Nat /\ logNumber <= log /\ (imm # 0 => logNumber <= imm)
  BY <1>2 DEF StoreInv, LogsOK
<1>7. OrderOK' /\ WholeOK' /\ LogsOK' /\ WritersOK' /\ SafeOK'
  <2>1. \E m \in manifest' : m.version = current' /\ m.log = logNumber' /\ ~ m.torn
    BY <1>1, <1>4, <1>5
  <2>2. logNumber' \in Nat /\ logNumber' <= log /\ (imm' # 0 => logNumber' <= imm') BY <1>1, <1>6
  <2>3. imm' = imm /\ MemEntries(imm)' = MemEntries(imm) BY <1>1 DEF MemEntries
  <2>4. \A m \in manifest' : LogsFrom(m.log) \subseteq DOMAIN logs' BY <1>1 DEF LogsFrom
  <2>5. \A n \in DOMAIN logs' : n \in DOMAIN logs /\ logs'[n] = logs[n] BY <1>1
  <2>6. mems'[log] = mems[log] /\ Swept BY <1>1 DEF Swept
  <2> QED BY <1>1, <1>2, <1>4, <2>1, <2>2, <2>3, <2>4, <2>5, <2>6, EditEnds
<1>8. WorkOK'
  <2>1. WorkOK BY DEF StoreInv
  <2>2. \A m \in manifest \ Torn : current.tables \subseteq m.version.tables
    BY <1>1, <2>1 DEF WorkOK
  <2>3. CASE MergeFails
    <3>1. merge'.stage = "none" BY <2>3 DEF MergeFails, Idle
    <3> QED BY <1>1, <1>2, <2>1, <3>1 DEF WorkOK
  <2>4. CASE FlushFails
    <3>1. merge' = merge /\ merge.stage \in {"none", "reading", "writing"}
      BY <2>4 DEF FlushFails, FilesInv, FlushOK
    <3>2. ASSUME NEW m \in manifest', ~ m.torn PROVE current.tables \subseteq m.version.tables
      <4>1. CASE m \in manifest BY <2>2, <3>2, <4>1 DEF Torn
      <4>2. CASE m \notin manifest
        <5>1. flush.stage = "logging" BY <1>1, <3>1, <3>2, <4>2
        <5>2. edit.drop = {} BY <5>1 DEF FilesInv, FlushOK
        <5>3. PICK n \in manifest \ Torn : m = Apply(edit, n) BY <1>4, <3>2, <4>2
        <5> QED BY <2>2, <5>2, <5>3 DEF Apply, Version
      <4> QED BY <4>1, <4>2
    <3> QED BY <1>1, <1>2, <2>1, <3>1, <3>2 DEF WorkOK, Torn
  <2> QED BY <2>3, <2>4
<1> QED BY <1>7, <1>8 DEF StoreInv

(* The old logs and tables are deleted when the database opens.            *)
LEMMA ReadyStore ==
  ASSUME FilesInv, FilesInv', ReadInv, StoreInv, Ready
  PROVE  StoreInv'
<1> USE DEF disk, versions, memory, background, clients, history, bounds
<1>1. /\ phase = "installed" /\ phase' = "up"
      /\ UNCHANGED <<manifest, edit, log, imm, mems, current, logNumber, next, last, flush, merge,
                     snapshot, queue, request, turn, batches, safe, must>>
      /\ Swept /\ \A n \in DOMAIN logs' : n \in DOMAIN logs /\ logs'[n] = logs[n]
      /\ DOMAIN logs' = {n \in DOMAIN logs : n >= logNumber}
  BY DEF Ready, Sweep, Swept
<1>2. Opened /\ Opened' /\ edit' = NoEdit /\ flush.stage = "none" /\ merge.stage = "none"
  BY <1>1 DEF Opened, FilesInv, PhasesOK, Quiet, Idle
<1>3. PICK w : manifest = {w} /\ w.version = current /\ w.log = logNumber /\ ~ w.torn
  BY <1>1, <1>2 DEF StoreInv, LogsOK, FilesInv, PhasesOK, Sole
<1>4. logNumber \in Nat /\ logNumber <= log /\ (imm # 0 => logNumber <= imm)
  BY <1>2 DEF StoreInv, LogsOK
<1>5. OrderOK' /\ WholeOK' /\ LogsOK' /\ WritersOK' /\ SafeOK'
  <2>1. \E m \in manifest' : m.version = current' /\ m.log = logNumber' /\ ~ m.torn BY <1>1, <1>3
  <2>2. \A m \in manifest' : \E n \in OnDisk : Like(m, n) /\ (n.torn => m.torn)
    BY <1>1 DEF OnDisk, Like
  <2>3. logNumber' \in Nat /\ logNumber' <= log /\ (imm' # 0 => logNumber' <= imm') BY <1>1, <1>4
  <2>4. imm' = imm /\ MemEntries(imm)' = MemEntries(imm) /\ mems'[log] = mems[log]
    BY <1>1 DEF MemEntries
  <2>5. \A m \in manifest' : LogsFrom(m.log) \subseteq DOMAIN logs' BY <1>1, <1>3 DEF LogsFrom
  <2> QED BY <1>1, <1>2, <2>1, <2>2, <2>3, <2>4, <2>5, EditEnds
<1>6. WorkOK' BY <1>1, <1>2 DEF StoreInv, WorkOK
<1> QED BY <1>5, <1>6 DEF StoreInv

(* The logs that have entries get numbers of their own.                    *)
LEMMA NextAtApart ==
  ASSUME NEW entries, NEW first \in Nat,
         NEW i \in Nat, NEW j \in Nat, i \in DOMAIN entries, entries[i] # {}, i < j
  PROVE  NextAt(entries, first)[i] < NextAt(entries, first)[j]
<1> DEFINE at == NextAt(entries, first)
           T == {n \in Nat : at[i + 1] <= at[i + 1 + n]}
<1>1. /\ at \in [Nat -> Nat] /\ \A n \in Nat : at[n + 1] >= at[n]
      /\ at[i + 1] > at[i]
  BY NextAtGrows
<1> HIDE DEF at
<1>2. T = Nat
  <2>1. 0 \in T
    <3>1. at[i + 1] \in Nat BY <1>1
    <3> QED BY <3>1
  <2>2. ASSUME NEW n \in T PROVE n + 1 \in T
    <3>1. i + 1 + n \in Nat /\ (i + 1 + n) + 1 = i + 1 + (n + 1) OBVIOUS
    <3>2. at[i + 1 + (n + 1)] >= at[i + 1 + n] BY <1>1, <3>1
    <3>3. at[i + 1] \in Nat /\ at[i + 1 + n] \in Nat /\ at[i + 1 + (n + 1)] \in Nat BY <1>1
    <3> QED BY <3>2, <3>3
  <2>3. T \in SUBSET Nat OBVIOUS
  <2> HIDE DEF T
  <2> QED BY <2>1, <2>2, <2>3, AllNumbers
<1>3. j - (i + 1) \in Nat /\ i + 1 + (j - (i + 1)) = j OBVIOUS
<1>4. at[i + 1] <= at[j] BY <1>2, <1>3
<1>5. at[i] \in Nat /\ at[i + 1] \in Nat /\ at[j] \in Nat BY <1>1
<1> QED BY <1>1, <1>4, <1>5 DEF at

(* What can be read of a log are records of it, and all up to where half   *)
(* a record was written.                                                   *)
LEMMA ReadableHas ==
  ASSUME NEW l \in LogFile, l.torn <= Len(l.records) + 1, NEW g \in Readable(l)
  PROVE  /\ \A i \in 1..Len(g) : \E j \in 1..Len(l.records) : g[i] = l.records[j]
         /\ \A c : Certain(c, l) \subseteq EntriesIn(g)
<1>1. /\ l.records \in Seq(Record) /\ l.synced \in Nat /\ l.torn \in Nat /\ Len(l.records) \in Nat
  BY LenProperties DEF LogFile
<1>2. CASE l.torn = 0
  <2>1. g = l.records BY <1>2 DEF Readable
  <2>2. \A c : SoundTo(c, l) <= Len(l.records) BY <1>1, <1>2 DEF SoundTo
  <2>3. \A c : 1..SoundTo(c, l) \subseteq 1..Len(g) BY <1>1, <1>2, <2>1 DEF SoundTo
  <2> QED BY <2>1, <2>3 DEF Certain, EntriesIn
<1>3. CASE l.torn # 0
  <2>1. PICK p \in l.torn..(Len(l.records) + 1) :
          g = SubSeq(l.records, 1, l.torn - 1) \o SubSeq(l.records, p, Len(l.records))
    BY <1>3 DEF Readable
  <2>2. PICK a : a = SubSeq(l.records, 1, l.torn - 1) OBVIOUS
  <2>3. PICK b : b = SubSeq(l.records, p, Len(l.records)) OBVIOUS
  <2>4. a \in Seq(Record) /\ Len(a) = l.torn - 1 /\ \A i \in 1..Len(a) : a[i] = l.records[i]
    <3>1. \A i \in 1..(l.torn - 1) : l.records[i] \in Record BY <1>1
    <3>2. 1 \in Int /\ l.torn - 1 \in Int BY <1>1
    <3>3. /\ a \in Seq(Record)
          /\ Len(a) = IF 1 <= l.torn - 1 THEN (l.torn - 1) - 1 + 1 ELSE 0
          /\ \A i \in 1..((l.torn - 1) - 1 + 1) : a[i] = l.records[1 + i - 1]
      BY <2>2, <3>1, <3>2, SubSeqProperties
    <3>4. Len(a) = l.torn - 1 BY <1>1, <1>3, <3>3
    <3>5. \A i \in 1..Len(a) : i \in 1..((l.torn - 1) - 1 + 1) /\ 1 + i - 1 = i BY <1>1, <3>4
    <3>6. \A i \in 1..Len(a) : a[i] = l.records[i] BY <3>3, <3>5
    <3> QED BY <3>3, <3>4, <3>6
  <2>5. b \in Seq(Record) /\ \A i \in 1..Len(b) : \E j \in 1..Len(l.records) : b[i] = l.records[j]
    <3>0. p \in Nat /\ p >= 1 /\ p <= Len(l.records) + 1 BY <1>1, <1>3, <2>1
    <3>1. \A i \in p..Len(l.records) : l.records[i] \in Record BY <1>1, <3>0
    <3>2. p \in Int /\ Len(l.records) \in Int BY <1>1, <3>0
    <3>3. /\ b \in Seq(Record)
          /\ Len(b) = IF p <= Len(l.records) THEN Len(l.records) - p + 1 ELSE 0
          /\ \A i \in 1..(Len(l.records) - p + 1) : b[i] = l.records[p + i - 1]
      BY <2>3, <3>1, <3>2, SubSeqProperties
    <3>4. ASSUME NEW i \in 1..Len(b) PROVE \E j \in 1..Len(l.records) : b[i] = l.records[j]
      <4>1. i \in 1..(Len(l.records) - p + 1) BY <1>1, <3>0, <3>3
      <4>2. p + i - 1 \in 1..Len(l.records) BY <1>1, <3>0, <4>1
      <4> QED BY <3>3, <4>1, <4>2
    <3> QED BY <3>3, <3>4
  <2>6. g = a \o b BY <2>1, <2>2, <2>3
  <2>7. Len(a) \in Nat /\ Len(b) \in Nat BY <2>4, <2>5, LenProperties
  <2>8. /\ Len(g) = Len(a) + Len(b)
        /\ \A i \in 1..Len(a) : g[i] = a[i]
        /\ \A i \in (Len(a) + 1)..(Len(a) + Len(b)) : g[i] = b[i - Len(a)]
    <3>1. /\ Len(g) = Len(a) + Len(b)
          /\ \A i \in 1..(Len(a) + Len(b)) : g[i] = IF i <= Len(a) THEN a[i] ELSE b[i - Len(a)]
      BY <2>4, <2>5, <2>6, ConcatProperties
    <3> QED BY <2>7, <3>1
  <2>9. ASSUME NEW i \in 1..Len(g) PROVE \E j \in 1..Len(l.records) : g[i] = l.records[j]
    <3>1. CASE i <= Len(a)
      <4>1. i \in 1..Len(a) /\ i \in 1..Len(l.records) BY <1>1, <2>4, <2>7, <2>8, <3>1
      <4> QED BY <2>4, <2>8, <4>1
    <3>2. CASE ~ (i <= Len(a))
      <4>1. i \in (Len(a) + 1)..(Len(a) + Len(b)) /\ i - Len(a) \in 1..Len(b) BY <2>7, <2>8, <3>2
      <4> QED BY <2>5, <2>8, <4>1
    <3> QED BY <3>1, <3>2
  <2>10. ASSUME NEW c PROVE Certain(c, l) \subseteq EntriesIn(g)
    <3>1. 1..SoundTo(c, l) \subseteq 1..Len(a) BY <1>1, <1>3, <2>4 DEF SoundTo
    <3>2. 1..Len(a) \subseteq 1..Len(g) BY <2>7, <2>8
    <3>3. \A i \in 1..SoundTo(c, l) : i \in 1..Len(g) /\ g[i] = l.records[i] BY <2>4, <2>8, <3>1, <3>2
    <3> QED BY <3>3 DEF Certain, EntriesIn
  <2> QED BY <2>9, <2>10
<1> QED BY <1>2, <1>3

(* Of a log, what a recovery read has every batch whole, and nothing that  *)
(* was safe is missing.                                                    *)
LEMMA ReadWhole ==
  ASSUME ReadInv, WholeOK, NEW n \in DOMAIN logs, NEW g \in Readable(logs[n])
  PROVE  /\ EntriesIn(g) \subseteq EntriesIn(logs[n].records) /\ Complete(EntriesIn(g))
         /\ \A c : Certain(c, logs[n]) \subseteq EntriesIn(g)
<1>1. PICK l : l = logs[n] OBVIOUS
<1>2. l \in LogFile /\ l.torn <= Len(l.records) + 1 BY <1>1 DEF ReadInv, DataOK
<1>3. /\ \A i \in 1..Len(g) : \E j \in 1..Len(l.records) : g[i] = l.records[j]
      /\ \A c : Certain(c, l) \subseteq EntriesIn(g)
  BY <1>1, <1>2, ReadableHas
<1>4. EntriesIn(g) \subseteq EntriesIn(l.records) BY <1>3 DEF EntriesIn
<1>5. \A i \in 1..Len(g) : Complete(EntriesOf(g[i])) BY <1>1, <1>3 DEF WholeOK
<1>6. Complete(EntriesIn(g)) BY <1>5 DEF Complete, EntriesIn
<1> QED BY <1>1, <1>3, <1>4, <1>6

(* What recovery makes of the tables and logs.                             *)
LEMMA RecoverMakes ==
  ASSUME FilesInv, ReadInv, StoreInv, Recover
  PROVE  \E m, G, a, k :
    /\ m \in manifest
    /\ OnDisk = manifest /\ OnDisk' = {k, a} /\ manifest' = {k}
    /\ k.version = m.version /\ k.log = m.log /\ k.next = m.next
    /\ a.log = log' /\ a.next = log' + 1
    /\ TableEntries(k.version.tables)' = TableEntries(m.version.tables)
    /\ TableEntries(a.version.tables)' = TableEntries(m.version.tables) \cup G
    /\ G \subseteq LogEntries(m) /\ Complete(G) /\ \A c : InLogs(c, m) \subseteq G
    /\ log' \in Nat /\ m.next < log' /\ \A n \in DOMAIN logs : n < log'
    /\ logs' = With(logs, log', NewLog) /\ mems' = [n \in {log'} |-> {}] /\ next' = log' + 1
    /\ edit'.log = log'
<1> USE DEF disk, versions, memory, background, clients, history, bounds
<1>0. PICK m \in manifest :
        \E got : /\ \A n \in LogsFrom(m.log) : got[n] \in Readable(logs[n])
                 /\ RecoverFrom(m, got)
  BY DEF Recover
<1>1. PICK got : /\ \A n \in LogsFrom(m.log) : got[n] \in Readable(logs[n])
                 /\ RecoverFrom(m, got)
  BY <1>0
<1> DEFINE entries == [n \in LogsFrom(m.log) |-> EntriesIn(got[n])]
           number == NextAt(entries, m.next + 1)
           whole == {n \in DOMAIN entries : entries[n] # {}}
           new == {number[n] : n \in whole}
           free == Max({m.next + 1} \cup {number[n + 1] : n \in DOMAIN entries})
           G == UNION {EntriesIn(got[n]) : n \in LogsFrom(m.log)}
<1>2. /\ tables' = [t \in new \cup DOMAIN tables |->
                     IF t \in new THEN entries[CHOOSE n \in whole : number[n] = t] ELSE tables[t]]
      /\ logs' = With(logs, free, NewLog)
      /\ log' = free /\ mems' = [n \in {free} |-> {}] /\ next' = free + 1
      /\ manifest' = {[m EXCEPT !.torn = FALSE]}
      /\ edit' = [kind |-> "edit", drop |-> {}, add |-> new, addZero |-> new,
                  log |-> free, next |-> free + 1, last |-> last']
  BY <1>1 DEF RecoverFrom
<1>3. phase = "down" /\ edit = NoEdit /\ OnDisk = manifest
  BY DEF Recover, ReadInv, DiskOK, FilesInv, NumbersOK, OnDisk
<1>4. DOMAIN entries = LogsFrom(m.log) /\ LogsFrom(m.log) \subseteq DOMAIN logs BY DEF LogsFrom
<1>5. \A n \in LogsFrom(m.log) : entries[n] = EntriesIn(got[n]) OBVIOUS
<1>6. m.log \in Nat /\ m.log <= m.next /\ m.next \in Nat /\ DOMAIN logs \subseteq Nat
  BY <1>3 DEF StoreInv, LogsOK, FilesInv, NumbersOK
<1> HIDE DEF entries
<1>7. /\ free \in Nat /\ m.next < free /\ \A n \in DOMAIN entries : n < free
      /\ \A n \in DOMAIN entries : entries[n] # {} =>
            number[n] \in Nat /\ m.next < number[n] /\ number[n] < free
  BY <1>4, NewNumbers
<1>8. \A n \in DOMAIN logs : n < free
  <2> SUFFICES ASSUME NEW n \in DOMAIN logs PROVE n < free OBVIOUS
  <2>1. CASE n >= m.log BY <1>4, <1>7, <2>1 DEF LogsFrom
  <2>2. CASE ~ (n >= m.log) BY <1>6, <1>7, <2>2
  <2> QED BY <2>1, <2>2
<1>9. ASSUME NEW i \in whole, NEW j \in whole, number[i] = number[j] PROVE i = j
  <2>1. i \in Nat /\ j \in Nat /\ m.next + 1 \in Nat BY <1>4, <1>6
  <2>2. i < j => number[i] < number[j] BY <2>1, NextAtApart
  <2>3. j < i => number[j] < number[i] BY <2>1, NextAtApart
  <2>4. number[i] \in Nat /\ number[j] \in Nat BY <1>7
  <2> QED BY <1>9, <2>1, <2>2, <2>3, <2>4
<1> HIDE DEF number, free
<1>10. \A n \in whole : number[n] \in new /\ tables'[number[n]] = entries[n]
  <2> SUFFICES ASSUME NEW n \in whole PROVE number[n] \in new /\ tables'[number[n]] = entries[n]
    OBVIOUS
  <2>1. PICK t : t = number[n] OBVIOUS
  <2>2. PICK x : x = CHOOSE y \in whole : number[y] = t OBVIOUS
  <2>3. x \in whole /\ number[x] = t BY <2>1, <2>2
  <2>4. x = n BY <1>9, <2>1, <2>3
  <2>5. t \in new BY <2>1
  <2>6. tables'[t] = entries[x] BY <1>2, <2>2, <2>5
  <2> QED BY <2>1, <2>4, <2>5, <2>6
<1>11. UNION {tables'[t] : t \in new} = G
  <2>1. \A e : e \in UNION {tables'[t] : t \in new} <=> \E n \in whole : e \in entries[n]
    <3> HIDE DEF whole
    <3> QED BY <1>10
  <2>2. \A e : e \in G <=> \E n \in whole : e \in entries[n] BY <1>4, <1>5
  <2> HIDE DEF whole, new, G
  <2> QED BY <2>1, <2>2
<1>12. \A t \in m.version.tables : tables'[t] = tables[t]
  <2>1. \A t \in new : m.next < t /\ t \in Nat BY <1>7
  <2>2. \A t \in m.version.tables : t \in Nat /\ t < m.next BY DEF ReadInv, DiskOK, Below
  <2>3. \A t \in m.version.tables : t \in DOMAIN tables BY DEF FilesInv, FilesThere
  <2>4. \A t \in m.version.tables : t \notin new BY <1>6, <2>1, <2>2
  <2> HIDE DEF new
  <2> QED BY <1>2, <2>3, <2>4
<1>13. PICK k : k = [m EXCEPT !.torn = FALSE] OBVIOUS
<1>14. k.version = m.version /\ k.log = m.log /\ k.next = m.next /\ ~ k.torn /\ manifest' = {k}
  <2>1. Like(k, m) /\ k.torn = FALSE BY <1>13, TornLike DEF FilesInv, NumbersOK
  <2> QED BY <1>2, <1>13, <2>1 DEF Like
<1>15. PICK a : a = Apply(edit', k) OBVIOUS
<1>16. a.version.tables = m.version.tables \cup new /\ a.log = free /\ a.next = free + 1
  BY <1>2, <1>14, <1>15 DEF Apply, Version
<1>17. OnDisk' = {k, a}
  <2>1. edit' # NoEdit BY <1>2 DEF NoEdit
  <2>2. OnDisk' = manifest' \cup {Apply(edit', n) : n \in manifest' \ {x \in manifest' : x.torn}}
    BY <2>1 DEF OnDisk, Edited, Torn
  <2>3. manifest' \ {x \in manifest' : x.torn} = {k} BY <1>14
  <2> QED BY <1>14, <1>15, <2>2, <2>3
<1>18. TableEntries(k.version.tables)' = TableEntries(m.version.tables)
  BY <1>12, <1>14 DEF TableEntries
<1>19. TableEntries(a.version.tables)' = TableEntries(m.version.tables) \cup G
  <2>1. TableEntries(a.version.tables)' = UNION {tables'[t] : t \in m.version.tables \cup new}
    BY <1>16 DEF TableEntries
  <2>2. \A e : e \in UNION {tables'[t] : t \in new} <=> e \in G BY <1>11
  <2> HIDE DEF new, G
  <2>3. \A e : e \in UNION {tables'[t] : t \in m.version.tables}
              <=> e \in UNION {tables[t] : t \in m.version.tables}
    BY <1>12
  <2> QED BY <2>1, <2>2, <2>3 DEF TableEntries
<1>20. G \subseteq LogEntries(m) /\ Complete(G) /\ \A c : InLogs(c, m) \subseteq G
  <2>1. WholeOK BY DEF StoreInv
  <2>2. \A n \in LogsFrom(m.log) :
          /\ EntriesIn(got[n]) \subseteq EntriesIn(logs[n].records) /\ Complete(EntriesIn(got[n]))
          /\ \A c : Certain(c, logs[n]) \subseteq EntriesIn(got[n])
    BY <1>1, <1>4, <2>1, ReadWhole
  <2>3. Complete(G) BY <2>2 DEF Complete
  <2> QED BY <2>2, <2>3 DEF LogEntries, InLogs
<1>21. edit'.log = free BY <1>2
<1> HIDE DEF G, new
<1>22. PICK H : H = G OBVIOUS
<1>23. /\ TableEntries(a.version.tables)' = TableEntries(m.version.tables) \cup H
       /\ H \subseteq LogEntries(m) /\ Complete(H) /\ \A c : InLogs(c, m) \subseteq H
  BY <1>19, <1>20, <1>22
<1>24. logs' = With(logs, log', NewLog) /\ mems' = [n \in {log'} |-> {}] /\ next' = log' + 1
  BY <1>2
<1>25. log' \in Nat /\ m.next < log' /\ (\A n \in DOMAIN logs : n < log') /\ edit'.log = log'
       /\ a.log = log' /\ a.next = log' + 1
  BY <1>2, <1>7, <1>8, <1>16, <1>21
<1> QED BY <1>3, <1>14, <1>17, <1>18, <1>23, <1>24, <1>25

(* Recovery finds nothing that was not there, and all that was safe.       *)
LEMMA RecoverStore ==
  ASSUME FilesInv, ReadInv, StoreInv, Recover
  PROVE  StoreInv'
<1> USE DEF disk, versions, memory, background, clients, history, bounds
<1>1. /\ phase = "down" /\ phase' = "recovered" /\ ~ Opened /\ ~ Opened'
      /\ UNCHANGED <<imm, flush, merge, snapshot, queue, request, turn, batches, safe, must>>
  BY DEF Recover, Opened
<1>2. /\ imm = 0 /\ flush = Idle /\ merge = Idle /\ turn.stage = "none"
      /\ snapshot = -1 /\ queue = << >>
  BY <1>1 DEF FilesInv, PhasesOK, Quiet, ReadInv, MemsOK, TurnOK, StoreInv, WorkOK, WritersOK, QueueInOrder
<1>3. PICK m, G, a, k :
    /\ m \in manifest
    /\ OnDisk = manifest /\ OnDisk' = {k, a} /\ manifest' = {k}
    /\ k.version = m.version /\ k.log = m.log /\ k.next = m.next
    /\ a.log = log' /\ a.next = log' + 1
    /\ TableEntries(k.version.tables)' = TableEntries(m.version.tables)
    /\ TableEntries(a.version.tables)' = TableEntries(m.version.tables) \cup G
    /\ G \subseteq LogEntries(m) /\ Complete(G) /\ \A c : InLogs(c, m) \subseteq G
    /\ log' \in Nat /\ m.next < log' /\ \A n \in DOMAIN logs : n < log'
    /\ logs' = With(logs, log', NewLog) /\ mems' = [n \in {log'} |-> {}] /\ next' = log' + 1
    /\ edit'.log = log'
  BY RecoverMakes
<1>4. m \in manifest /\ m \in OnDisk BY <1>3
<1>5. m.log \in Nat /\ m.log <= m.next /\ m.next \in Nat /\ DOMAIN logs \subseteq Nat
  BY <1>4 DEF StoreInv, LogsOK, FilesInv, NumbersOK
<1>6. /\ DOMAIN logs' = {log'} \cup DOMAIN logs
      /\ logs'[log'] = NewLog /\ \A n \in DOMAIN logs : n # log' /\ logs'[n] = logs[n]
  <2>1. \A n \in DOMAIN logs : n # log' BY <1>3, <1>5
  <2> QED BY <1>3, <2>1 DEF With
<1>7. /\ NewLog.records = << >> /\ Len(NewLog.records) = 0 /\ NewLog.synced = 0
      /\ EntriesIn(NewLog.records) = {}
  BY DEF NewLog, EntriesIn
<1>8. LogsFrom(k.log)' = LogsFrom(m.log) \cup {log'}
  <2>1. m.log <= log' BY <1>3, <1>5
  <2> QED BY <1>3, <1>6, <2>1 DEF LogsFrom
<1>9. LogsFrom(a.log)' = {log'}
  <2>1. \A n \in DOMAIN logs : ~ (n >= log') BY <1>3, <1>5
  <2> QED BY <1>3, <1>6, <2>1 DEF LogsFrom
<1>10. \A n \in LogsFrom(m.log) : n \in DOMAIN logs BY DEF LogsFrom
<1>11. Reach(k)' \subseteq Reach(m)
  <2>1. LogEntries(k)' \subseteq LogEntries(m) BY <1>6, <1>7, <1>8, <1>10 DEF LogEntries
  <2> QED BY <1>3, <2>1 DEF Reach
<1>12. Reach(a)' \subseteq Reach(m)
  <2>1. LogEntries(a)' = {} BY <1>6, <1>7, <1>9 DEF LogEntries
  <2> QED BY <1>3, <2>1 DEF Reach
<1>13. Reached' \subseteq Reached
  <2>1. Reached' = UNION {Reach(x)' : x \in {k, a}} BY <1>3 DEF Reached
  <2> QED BY <1>4, <1>11, <1>12, <2>1 DEF Reached
<1>14. \A S : Complete(S) => Complete(S)' BY <1>1 DEF Complete
<1>15. OrderOK' BY <1>1, <1>13 DEF StoreInv, OrderOK, Ordered, Asked
<1>16. WholeOK'
  <2>1. Complete(TableEntries(m.version.tables)) BY <1>4 DEF StoreInv, WholeOK
  <2>2. PICK T : T = TableEntries(m.version.tables) OBVIOUS
  <2>3. Complete(T \cup G) BY <1>3, <2>1, <2>2 DEF Complete
  <2>4. \A S : S = TableEntries(k.version.tables)' => Complete(S)' BY <1>3, <1>14, <2>1
  <2>5. \A S : S = TableEntries(a.version.tables)' => Complete(S)' BY <1>3, <1>14, <2>2, <2>3
  <2>6. \A x \in OnDisk' : Complete(TableEntries(x.version.tables))'
    <3>1. Complete(TableEntries(k.version.tables))' BY <2>4
    <3>2. Complete(TableEntries(a.version.tables))' BY <2>5
    <3>3. \A x \in OnDisk' : x = k \/ x = a BY <1>3
    <3> QED BY <3>1, <3>2, <3>3
  <2>7. \A n \in DOMAIN logs' : \A i \in 1..Len(logs'[n].records) :
          (\A e \in EntriesOf(logs'[n].records[i]) : Asked(e)') /\ Complete(EntriesOf(logs[n].records[i]))'
    <3> SUFFICES ASSUME NEW n \in DOMAIN logs', NEW i \in 1..Len(logs'[n].records)
                 PROVE  /\ \A e \in EntriesOf(logs'[n].records[i]) : Asked(e)'
                        /\ Complete(EntriesOf(logs[n].records[i]))'
      OBVIOUS
    <3>1. n \in DOMAIN logs /\ logs'[n] = logs[n] BY <1>6, <1>7
    <3>2. /\ \A e \in EntriesOf(logs[n].records[i]) : Asked(e)
          /\ Complete(EntriesOf(logs[n].records[i]))
      BY <3>1 DEF StoreInv, WholeOK
    <3> QED BY <1>1, <3>1, <3>2 DEF Asked, Complete
  <2>8. mems'[log'] = {} /\ MemEntries(imm)' = {} BY <1>1, <1>2, <1>3 DEF MemEntries
  <2>9. Complete(mems[log])' /\ Complete(MemEntries(imm))' BY <2>8 DEF Complete
  <2> QED BY <2>6, <2>7, <2>9 DEF WholeOK
<1>17. LogsOK'
  <2>1. \A x \in OnDisk' : x.log \in Nat /\ x.log <= x.next /\ x.log <= log'
    BY <1>3, <1>5
  <2>2. \A n \in DOMAIN logs' : logs'[n].synced <= Len(logs'[n].records) /\ n < next'
    <3> SUFFICES ASSUME NEW n \in DOMAIN logs'
                 PROVE  logs'[n].synced <= Len(logs'[n].records) /\ n < next'
      OBVIOUS
    <3>1. CASE n = log'
      <4>1. NewLog.synced <= Len(NewLog.records) BY <1>7
      <4>2. logs'[n] = NewLog BY <1>6, <3>1
      <4>3. n \in Nat /\ next' = n + 1 BY <1>3, <3>1
      <4>4. n < next' BY <4>3
      <4> QED BY <4>1, <4>2, <4>4
    <3>2. CASE n # log'
      <4>1. n \in DOMAIN logs /\ logs'[n] = logs[n] BY <1>6, <3>2
      <4>2. n < log' /\ n \in Nat BY <1>3, <1>5, <4>1
      <4> QED BY <1>3, <4>1, <4>2 DEF StoreInv, LogsOK
    <3> QED BY <3>1, <3>2
  <2> QED BY <1>1, <1>2, <1>3, <1>6, <2>1, <2>2 DEF LogsOK
<1>18. WritersOK' BY <1>1, <1>2 DEF WritersOK, QueueInOrder
<1>19. WorkOK' BY <1>1, <1>2 DEF WorkOK, Idle
<1>20. SafeOK'
  <2>1. \A c : Left(c, m) = TableEntries(m.version.tables) \cup InLogs(c, m) BY <1>1 DEF Left
  <2>2. \A c : Left(c, k)' = TableEntries(m.version.tables) \cup InLogs(c, k)' BY <1>1, <1>3 DEF Left
  <2>3. \A c : InLogs(c, m) \subseteq InLogs(c, k)'
    BY <1>6, <1>8, <1>10 DEF InLogs
  <2>4. \A c : Left(c, m) \subseteq Left(c, k)' BY <2>1, <2>2, <2>3
  <2>5. \A c : Left(c, m) \subseteq Left(c, a)' BY <1>1, <1>3, <2>1 DEF Left
  <2>6. \A x \in OnDisk', c \in CrashKinds : \E n \in OnDisk : Left(c, n) \subseteq Left(c, x)'
    BY <1>3, <1>4, <2>4, <2>5
  <2>7. SafeOK /\ Opened' = Opened BY <1>1 DEF StoreInv, Opened
  <2> QED BY <1>1, <2>6, <2>7, SafeGrows
<1> QED BY <1>15, <1>16, <1>17, <1>18, <1>19, <1>20 DEF StoreInv

(* What Open installs: tables only, with all that recovery could read.     *)
LEMMA InstallMakes ==
  ASSUME FilesInv, ReadInv, ReadInv', StoreInv, Install
  PROVE  \E a \in OnDisk, S \in SUBSET EntrySet :
    /\ OnDisk' = {a} /\ manifest' = {a} /\ a.version = current' /\ a.log = log /\ ~ a.torn
    /\ S = TableEntries(a.version.tables) /\ S = TableEntries(current.tables)'
    /\ LogsFrom(log) = {log} /\ logs[log] = NewLog /\ next = log + 1
    /\ Reach(a) = S /\ \A c : InLogs(c, a) = {}
    /\ mems[log] = {} /\ imm = 0 /\ log \in Nat
    /\ Ordered(S) /\ Complete(S) /\ \A e \in S : e.seq <= last /\ Asked(e)
<1> USE DEF disk, versions, memory, background, clients, history, bounds
<1>1. /\ phase = "recovered" /\ Logged /\ edit' = NoEdit
      /\ current' = Apply(edit, CHOOSE m \in manifest : TRUE).version
      /\ phase' = "installed"
      /\ UNCHANGED <<logs, tables, log, imm, mems, next, last>>
  BY DEF Install
<1>2. PICK m : manifest = {m} /\ ~ m.torn /\ m \in manifest
  BY <1>1 DEF FilesInv, PhasesOK, Sole
<1>3. edit.kind = "edit" BY <1>1 DEF FilesInv, PhasesOK
<1>4. PICK a : a = Apply(edit, m) OBVIOUS
<1>5. Torn = {} BY <1>2 DEF Torn
<1>6. Edited(edit) = {a} BY <1>2, <1>4, <1>5 DEF Edited
<1>7. OnDisk = {m, a} /\ OnDisk' = {a} /\ manifest' = {a}
  BY <1>1, <1>2, <1>3, <1>5, <1>6 DEF OnDisk, Logged, NoEdit
<1>8. a.version = current'
  <2>1. (CHOOSE x \in manifest : TRUE) = m BY <1>2
  <2> QED BY <1>1, <1>4, <2>1
<1>9. edit.log = log /\ logs[log] = NewLog /\ next = log + 1 /\ log \in DOMAIN logs
      /\ \A n \in DOMAIN logs : n < next
  BY <1>1 DEF StoreInv, LogsOK
<1>10. a.log = log /\ ~ a.torn BY <1>4, <1>9 DEF Apply
<1>11. log \in Nat /\ DOMAIN logs \subseteq Nat BY <1>9 DEF FilesInv, NumbersOK
<1>12. LogsFrom(log) = {log}
  <2>1. \A n \in DOMAIN logs : n \in Nat /\ n <= log BY <1>9, <1>11
  <2>2. \A n \in DOMAIN logs : n >= log => n = log BY <1>11, <2>1
  <2> QED BY <1>9, <1>11, <2>2 DEF LogsFrom
<1>13. NewLog.records = << >> /\ NewLog.torn = 0 /\ NewLog.synced = 0 /\ Len(NewLog.records) = 0
  BY DEF NewLog
<1>14. LogEntries(a) = {} /\ \A c : InLogs(c, a) = {}
  <2>1. EntriesIn(NewLog.records) = {} BY <1>13 DEF EntriesIn
  <2>2. \A c : SoundTo(c, NewLog) = 0 BY <1>13 DEF SoundTo
  <2>3. \A c : Certain(c, NewLog) = {} BY <2>2 DEF Certain
  <2> QED BY <1>9, <1>10, <1>12, <2>1, <2>3 DEF LogEntries, InLogs
<1>15. PICK S : S = TableEntries(a.version.tables) OBVIOUS
<1>16. a \in OnDisk /\ S \in SUBSET EntrySet BY <1>7, <1>15, TableTypes
<1>17. S = TableEntries(current.tables)' BY <1>1, <1>8, <1>15 DEF TableEntries
<1>18. Reach(a) = S BY <1>14, <1>15 DEF Reach
<1>19. S \subseteq Reached BY <1>16, <1>18 DEF Reached
<1>20. Ordered(S) /\ \A e \in S : Asked(e) BY <1>19 DEF StoreInv, OrderOK, Ordered
<1>21. Complete(S) BY <1>15, <1>16 DEF StoreInv, WholeOK
<1>22. \A e \in S : e.seq <= last
  <2>1. OldTables(current.tables)' BY <1>1 DEF ReadInv, TablesOK
  <2> QED BY <1>1, <1>17, <2>1 DEF OldTables, Old, TableEntries
<1>23. mems[log] = {} /\ imm = 0 BY <1>1 DEF ReadInv, MemsOK
<1> QED BY <1>7, <1>8, <1>9, <1>10, <1>11, <1>12, <1>14, <1>15, <1>16, <1>17, <1>18, <1>20, <1>21,
           <1>22, <1>23

(* Opening writes the new MANIFEST and takes what was recovered.           *)
LEMMA InstallStore ==
  ASSUME FilesInv, ReadInv, ReadInv', StoreInv, Install
  PROVE  StoreInv'
<1> USE DEF disk, versions, memory, background, clients, history, bounds
<1>1. /\ phase = "recovered" /\ phase' = "installed" /\ logNumber' = edit.log
      /\ safe' = [c \in CrashKinds |->
                [k \in Keys |-> Find(mems[log] \cup TableEntries(current'.tables), k, last)]]
      /\ UNCHANGED <<logs, tables, log, imm, mems, next, last, flush, merge, snapshot, queue, request,
                     turn, batches, must>>
      /\ edit' = NoEdit
  BY DEF Install
<1>2. Opened' BY <1>1 DEF Opened
<1>3. PICK a \in OnDisk, S \in SUBSET EntrySet :
    /\ OnDisk' = {a} /\ manifest' = {a} /\ a.version = current' /\ a.log = log /\ ~ a.torn
    /\ S = TableEntries(a.version.tables) /\ S = TableEntries(current.tables)'
    /\ LogsFrom(log) = {log} /\ logs[log] = NewLog /\ next = log + 1
    /\ Reach(a) = S /\ \A c : InLogs(c, a) = {}
    /\ mems[log] = {} /\ imm = 0 /\ log \in Nat
    /\ Ordered(S) /\ Complete(S) /\ \A e \in S : e.seq <= last /\ Asked(e)
  BY InstallMakes
<1>4. TableEntries(a.version.tables)' = S BY <1>1, <1>3 DEF TableEntries
<1>5. Reached' = S
  <2>1. Reach(a)' = Reach(a) BY <1>1, <1>3, <1>4 DEF Reach, LogEntries, LogsFrom
  <2> QED BY <1>3, <2>1 DEF Reached
<1>6. OrderOK' BY <1>1, <1>3, <1>5 DEF OrderOK, Ordered, Asked
<1>7. \A T : Complete(T) => Complete(T)' BY <1>1 DEF Complete
<1>8. WholeOK'
  <2>1. Complete(TableEntries(a.version.tables))' BY <1>3, <1>4, <1>7
  <2>2. \A x \in OnDisk' : Complete(TableEntries(x.version.tables))' BY <1>3, <2>1
  <2>3. Complete(mems[log])' /\ Complete(MemEntries(imm))' BY <1>1, <1>3 DEF Complete, MemEntries
  <2>4. \A n \in DOMAIN logs : \A i \in 1..Len(logs[n].records) :
          (\A e \in EntriesOf(logs[n].records[i]) : Asked(e)') /\ Complete(EntriesOf(logs[n].records[i]))'
    BY <1>1, <1>7 DEF StoreInv, WholeOK, Asked, Complete
  <2> QED BY <1>1, <2>2, <2>3, <2>4 DEF WholeOK
<1>9. LogsOK'
  <2>1. /\ a.log <= a.next
        /\ \A n \in DOMAIN logs : logs[n].synced <= Len(logs[n].records) /\ n < next
        /\ log \in DOMAIN logs /\ edit.log = log
    BY <1>1, <1>3 DEF StoreInv, LogsOK
  <2>2. log <= log BY <1>3
  <2>3. \A x \in OnDisk' : x.log \in Nat /\ x.log <= x.next /\ x.log <= log BY <1>3, <2>1, <2>2
  <2>4. \E x \in manifest' : x.version = current' /\ x.log = logNumber' /\ ~ x.torn
    BY <1>1, <1>3, <2>1
  <2>5. mems'[log'] = {} /\ imm' = 0 /\ logNumber' \in Nat /\ logNumber' <= log'
    BY <1>1, <1>3, <2>1, <2>2
  <2> QED BY <1>1, <2>1, <2>3, <2>4, <2>5 DEF LogsOK
<1>10. WritersOK'
  <2>1. turn.stage = "none" /\ queue = << >>
    BY <1>1 DEF ReadInv, TurnOK, StoreInv, WritersOK, QueueInOrder
  <2>2. \A e \in S : Past(e)' BY <1>1, <1>3, <2>1 DEF Past
  <2> QED BY <1>1, <1>3, <1>5, <2>1, <2>2 DEF WritersOK, QueueInOrder
<1>11. WorkOK'
  <2>1. flush = Idle /\ merge = Idle BY <1>1 DEF FilesInv, PhasesOK, Quiet
  <2>2. snapshot = -1 BY <1>1 DEF StoreInv, WorkOK
  <2> QED BY <1>1, <2>1, <2>2 DEF WorkOK, Idle
<1>12. SafeOK'
  <2>1. mems[log] \cup TableEntries(current'.tables) = S BY <1>1, <1>3 DEF TableEntries
  <2>2. last \in Nat BY DEF ReadInv, DataOK
  <2>3. ASSUME NEW k \in Keys
        PROVE  Find(S, k, last) \in Nat /\ Has(S, k, Find(S, k, last))
    <3>1. CASE Find(S, k, last) = 0 BY <3>1 DEF Has
    <3>2. CASE Find(S, k, last) # 0
      <4>1. PICK e \in S : e.key = k /\ Find(S, k, last) = e.write BY <2>2, <3>2, FindIs
      <4>2. e.write \in Nat /\ e.write >= e.write BY DEF EntrySet
      <4> QED BY <4>1, <4>2 DEF Has
    <3> QED BY <3>1, <3>2
  <2>4. safe' = [c \in CrashKinds |-> [k \in Keys |-> Find(S, k, last)]] BY <1>1, <2>1
  <2>5. safe' \in [CrashKinds -> [Keys -> Nat]] BY <2>3, <2>4
  <2>6. must' \in [Keys -> Nat] BY <1>1 DEF StoreInv, SafeOK
  <2>7. ASSUME NEW c \in CrashKinds, NEW k \in Keys PROVE Has(Left(c, a)', k, Owed(c, k)')
    <3>1. Owed(c, k)' = Find(S, k, last) BY <1>2, <2>4 DEF Owed
    <3>2. S \subseteq Left(c, a)' BY <1>4 DEF Left
    <3>3. \A T, w : S \subseteq T /\ Has(S, k, w) => Has(T, k, w) BY DEF Has
    <3> QED BY <2>3, <3>1, <3>2, <3>3
  <2>8. \A m \in OnDisk', c \in CrashKinds, k \in Keys : Has(Left(c, m)', k, Owed(c, k)')
    BY <1>3, <2>7
  <2> QED BY <2>5, <2>6, <2>8 DEF SafeOK
<1> QED BY <1>6, <1>8, <1>9, <1>10, <1>11, <1>12 DEF StoreInv

(* What survives of a log in a crash of kind c, and what of that will be   *)
(* read again.                                                             *)
LEMMA CutHas ==
  ASSUME NEW l \in LogFile, l.torn <= Len(l.records) + 1, l.synced <= Len(l.records),
         NEW c \in CrashKinds, NEW n \in Survives(c, l)
  PROVE  /\ Cut(l, n) \in LogFile /\ Len(Cut(l, n).records) = n /\ n <= Len(l.records)
         /\ \A i \in 1..n : Cut(l, n).records[i] = l.records[i]
         /\ Cut(l, n).synced <= n
         /\ Certain("power", l) \subseteq Certain("power", Cut(l, n))
         /\ Certain(c, l) \subseteq Certain("kill", Cut(l, n))
<1>1. l.records \in Seq(Record) /\ l.synced \in Nat /\ l.torn \in Nat /\ Len(l.records) \in Nat
  BY LenProperties DEF LogFile
<1>2. n \in Nat /\ l.synced <= n /\ n <= Len(l.records) /\ (c = "kill" => n = Len(l.records))
  BY <1>1 DEF Survives
<1>3. PICK s : s = SubSeq(l.records, 1, n) OBVIOUS
<1>4. s \in Seq(Record) /\ Len(s) = n /\ \A i \in 1..n : s[i] = l.records[i]
  <2>1. \A i \in 1..n : l.records[i] \in Record BY <1>1, <1>2
  <2>2. 1 \in Int /\ n \in Int BY <1>2
  <2>3. /\ s \in Seq(Record)
        /\ Len(s) = IF 1 <= n THEN n - 1 + 1 ELSE 0
        /\ \A i \in 1..(n - 1 + 1) : s[i] = l.records[1 + i - 1]
    BY <1>3, <2>1, <2>2, SubSeqProperties
  <2>4. Len(s) = n BY <1>2, <2>3
  <2>5. \A i \in 1..n : i \in 1..(n - 1 + 1) /\ 1 + i - 1 = i BY <1>2
  <2>6. \A i \in 1..n : s[i] = l.records[i] BY <2>3, <2>5
  <2> QED BY <2>3, <2>4, <2>6
<1>5. PICK d : d = Cut(l, n) OBVIOUS
<1>6. d.records = s /\ d.synced = l.synced /\ d.torn = IF l.torn > n THEN 0 ELSE l.torn
  BY <1>3, <1>5 DEF Cut, LogFile
<1>7. d \in LogFile
  <2>1. d = [l EXCEPT !.records = s, !.torn = IF @ > n THEN 0 ELSE @] BY <1>3, <1>5 DEF Cut
  <2>2. d = [records |-> s, synced |-> l.synced, torn |-> IF l.torn > n THEN 0 ELSE l.torn]
    BY <2>1 DEF LogFile
  <2> QED BY <1>1, <1>4, <2>2 DEF LogFile
<1>8. SoundTo("power", l) <= SoundTo("power", d) /\ SoundTo("power", d) <= n
  BY <1>1, <1>2, <1>4, <1>6 DEF SoundTo
<1>9. SoundTo(c, l) <= SoundTo("kill", d) /\ SoundTo("kill", d) <= n
  BY <1>1, <1>2, <1>4, <1>6 DEF SoundTo, CrashKinds
<1>10. \A x : SoundTo(x, l) \in Int /\ SoundTo(x, d) \in Int BY <1>1, <1>2, <1>4, <1>6 DEF SoundTo
<1>11. ASSUME NEW x, NEW y, SoundTo(x, l) <= SoundTo(y, d), SoundTo(y, d) <= n
       PROVE  Certain(x, l) \subseteq Certain(y, d)
  <2>1. \A i \in 1..SoundTo(x, l) : i \in 1..SoundTo(y, d) /\ i \in 1..n BY <1>2, <1>10, <1>11
  <2>2. \A i \in 1..n : d.records[i] = l.records[i] BY <1>4, <1>6
  <2> QED BY <2>1, <2>2 DEF Certain
<1>12. Certain("power", l) \subseteq Certain("power", d) BY <1>8, <1>11
<1>13. Certain(c, l) \subseteq Certain("kill", d) BY <1>9, <1>11
<1> QED BY <1>2, <1>4, <1>5, <1>6, <1>7, <1>12, <1>13

(* The smaller of two numbers.                                             *)
LEMMA MinOfTwo ==
  ASSUME NEW a \in Nat, NEW b \in Nat
  PROVE  Min({a, b}) \in Nat /\ Min({a, b}) <= a /\ Min({a, b}) <= b
<1>1. \E x \in {a, b} : \A y \in {a, b} : x <= y
  <2>1. CASE a <= b BY <2>1
  <2>2. CASE ~ (a <= b) BY <2>2
  <2> QED BY <2>1, <2>2
<1>2. Min({a, b}) \in {a, b} /\ \A y \in {a, b} : Min({a, b}) <= y BY <1>1 DEF Min
<1> QED BY <1>2

(* A crash leaves one thing the MANIFEST may say, and of every log at      *)
(* least what was safe from a crash of its kind.                           *)
LEMMA CrashStore ==
  ASSUME FilesInv, ReadInv, StoreInv, NEW c0 \in CrashKinds, Crash(c0)
  PROVE  StoreInv'
<1> USE DEF disk, versions, memory, background, clients, history, bounds
<1>1. /\ phase' = "down" /\ edit' = NoEdit /\ queue' = << >> /\ turn' = Idle /\ snapshot' = -1
      /\ flush' = Idle /\ merge' = Idle
      /\ must' = [k \in Keys |-> IF phase \in {"installed", "up"} THEN safe[c0][k]
                                 ELSE Min({must[k], safe[c0][k]})]
      /\ UNCHANGED <<tables, batches, safe>>
  BY DEF Crash
<1>2. PICK m \in OnDisk : manifest' = {m} BY DEF Crash
<1>3. PICK keep : /\ \A n \in DOMAIN logs : keep[n] \in Survives(c0, logs[n])
                  /\ logs' = [n \in DOMAIN logs |-> Cut(logs[n], keep[n])]
  BY DEF Crash
<1>4. OnDisk' = {m} BY <1>1, <1>2 DEF OnDisk
<1>5. ~ Opened' BY <1>1 DEF Opened
<1>6. ASSUME NEW n \in DOMAIN logs
      PROVE  /\ Len(logs'[n].records) \in Nat /\ Len(logs'[n].records) <= Len(logs[n].records)
             /\ Len(logs[n].records) \in Nat
             /\ \A i \in 1..Len(logs'[n].records) : logs'[n].records[i] = logs[n].records[i]
             /\ logs'[n].synced <= Len(logs'[n].records)
             /\ Certain("power", logs[n]) \subseteq Certain("power", logs'[n])
             /\ Certain(c0, logs[n]) \subseteq Certain("kill", logs'[n])
  <2>1. PICK l, d, x : l = logs[n] /\ d = logs'[n] /\ x = keep[n] OBVIOUS
  <2>2. d = Cut(l, x) BY <1>3, <2>1
  <2>3. l \in LogFile /\ l.torn <= Len(l.records) + 1 /\ l.synced <= Len(l.records)
    BY <2>1 DEF ReadInv, DataOK, StoreInv, LogsOK
  <2>4. x \in Survives(c0, l) BY <1>3, <2>1
  <2>5. Cut(l, x) \in LogFile /\ Len(Cut(l, x).records) = x /\ x <= Len(l.records)
    BY <2>3, <2>4, CutHas
  <2>6. /\ \A i \in 1..x : Cut(l, x).records[i] = l.records[i]
        /\ Cut(l, x).synced <= x
        /\ Certain("power", l) \subseteq Certain("power", Cut(l, x))
        /\ Certain(c0, l) \subseteq Certain("kill", Cut(l, x))
    BY <2>3, <2>4, CutHas
  <2>7. Len(l.records) \in Nat /\ Len(d.records) \in Nat BY <2>2, <2>3, <2>5, LenProperties DEF LogFile
  <2> QED BY <2>1, <2>2, <2>5, <2>6, <2>7
<1>7. DOMAIN logs' = DOMAIN logs /\ \A x : LogsFrom(x)' = LogsFrom(x) BY <1>3 DEF LogsFrom
<1>8. ASSUME NEW n \in DOMAIN logs, NEW i \in 1..Len(logs'[n].records)
      PROVE  i \in 1..Len(logs[n].records) /\ logs'[n].records[i] = logs[n].records[i]
  BY <1>6
<1>9. TableEntries(m.version.tables)' = TableEntries(m.version.tables) BY <1>1 DEF TableEntries
<1>10. \A n \in LogsFrom(m.log) : n \in DOMAIN logs BY DEF LogsFrom
<1>11. Reached' \subseteq Reached
  <2>1. \A n \in DOMAIN logs : EntriesIn(logs'[n].records) \subseteq EntriesIn(logs[n].records)
    BY <1>8 DEF EntriesIn
  <2>2. LogEntries(m)' \subseteq LogEntries(m) BY <1>7, <1>10, <2>1 DEF LogEntries
  <2>3. Reach(m)' \subseteq Reach(m) BY <1>9, <2>2 DEF Reach
  <2>4. Reached' = UNION {Reach(x)' : x \in {m}} BY <1>4 DEF Reached
  <2> QED BY <2>3, <2>4 DEF Reached
<1>12. OrderOK' BY <1>1, <1>11 DEF StoreInv, OrderOK, Ordered, Asked
<1>13. WholeOK'
  <2>1. \A S : Complete(S) => Complete(S)' BY <1>1 DEF Complete
  <2>2. Complete(TableEntries(m.version.tables)) BY DEF StoreInv, WholeOK
  <2>3. \A S : S = TableEntries(m.version.tables)' => Complete(S)' BY <1>9, <2>1, <2>2
  <2>4. Complete(TableEntries(m.version.tables))' BY <2>3
  <2>5. \A x \in OnDisk' : Complete(TableEntries(x.version.tables))' BY <1>4, <2>4
  <2>6. ASSUME NEW n \in DOMAIN logs', NEW i \in 1..Len(logs'[n].records)
        PROVE  (\A e \in EntriesOf(logs'[n].records[i]) : Asked(e)') /\ Complete(EntriesOf(logs[n].records[i]))'
    <3>1. /\ \A e \in EntriesOf(logs[n].records[i]) : Asked(e)
          /\ Complete(EntriesOf(logs[n].records[i]))
      BY <1>7, <1>8 DEF StoreInv, WholeOK
    <3>2. logs'[n].records[i] = logs[n].records[i] BY <1>7, <1>8
    <3> QED BY <1>1, <3>1, <3>2 DEF Asked, Complete
  <2> QED BY <1>1, <2>5, <2>6 DEF WholeOK
<1>14. LogsOK'
  <2>1. m.log \in Nat /\ m.log <= m.next BY DEF StoreInv, LogsOK
  <2> QED BY <1>1, <1>4, <1>5, <1>6, <1>7, <2>1 DEF LogsOK
<1>15. WritersOK' BY <1>1, <1>5 DEF WritersOK, QueueInOrder, Idle
<1>16. WorkOK' BY <1>1 DEF WorkOK, Idle
<1>17. SafeOK'
  <2>0. SafeOK /\ \A c : Left(c, m) \subseteq EntrySet BY LeftType DEF StoreInv
  <2>1. safe \in [CrashKinds -> [Keys -> Nat]] /\ must \in [Keys -> Nat] BY <2>0 DEF SafeOK
  <2>2. \A k \in Keys : safe[c0][k] \in Nat /\ safe["power"][k] \in Nat /\ must[k] \in Nat
    BY <2>1 DEF CrashKinds
  <2>3. ASSUME NEW k \in Keys
        PROVE  must'[k] \in Nat /\ must'[k] <= Owed(c0, k) /\ Owed(c0, k) \in Nat
    <3>1. CASE Opened
      <4>1. must'[k] = safe[c0][k] BY <1>1, <3>1 DEF Opened
      <4> QED BY <2>2, <3>1, <4>1 DEF Owed
    <3>2. CASE ~ Opened
      <4>1. PICK v : v = Min({must[k], safe[c0][k]}) OBVIOUS
      <4>2. must'[k] = v BY <1>1, <3>2, <4>1 DEF Opened
      <4>3. v \in Nat /\ v <= must[k] /\ v <= safe[c0][k] BY <2>2, <4>1, MinOfTwo
      <4>4. Owed(c0, k) = IF c0 = "power" THEN safe[c0][k] ELSE must[k] BY <3>2 DEF Owed
      <4> QED BY <2>2, <4>2, <4>3, <4>4
    <3> QED BY <3>1, <3>2
  <2>4. \A c : InLogs(c, m) \subseteq EntrySet /\ Left(c, m) \subseteq TableEntries(m.version.tables) \cup InLogs(c, m)
    <3>1. \A c : InMems(c, m) \subseteq InLogs(c, m) /\ InLogs(c, m) \subseteq EntrySet BY LeftType
    <3> QED BY <3>1 DEF Left
  <2>5. \A c : Left(c, m)' = TableEntries(m.version.tables) \cup InLogs(c, m)' BY <1>5, <1>9 DEF Left
  <2>6. InLogs("power", m) \subseteq InLogs("power", m)' BY <1>6, <1>7, <1>10 DEF InLogs
  <2>7. InLogs(c0, m) \subseteq InLogs("kill", m)' BY <1>6, <1>7, <1>10 DEF InLogs
  <2>8. ASSUME NEW x \in CrashKinds, NEW y \in CrashKinds, NEW k \in Keys, NEW w,
               InLogs(x, m) \subseteq InLogs(y, m)', w \in Nat, w <= Owed(x, k), Owed(x, k) \in Nat
        PROVE  Has(Left(y, m)', k, w)
    <3>1. PICK S, T, v : S = Left(x, m) /\ T = Left(y, m)' /\ v = Owed(x, k) OBVIOUS
    <3>2. S \in SUBSET EntrySet BY <2>0, <3>1
    <3>3. S \subseteq T BY <2>4, <2>5, <2>8, <3>1
    <3>4. Covers(S, T) BY <3>2, <3>3, CoversSelf
    <3>5. Has(S, k, v) BY <2>0, <3>1 DEF SafeOK
    <3>6. v \in Nat /\ w <= v BY <2>8, <3>1
    <3>7. Has(T, k, w) BY <2>8, <3>2, <3>4, <3>5, <3>6, HasCovered
    <3> QED BY <3>1, <3>7
  <2>9. ASSUME NEW k \in Keys PROVE Has(Left("power", m)', k, Owed("power", k)')
    <3>1. "power" \in CrashKinds BY DEF CrashKinds
    <3>2. Owed("power", k)' = safe["power"][k] /\ Owed("power", k) = safe["power"][k] BY <1>1 DEF Owed
    <3>3. safe["power"][k] \in Nat /\ safe["power"][k] <= safe["power"][k] BY <2>2
    <3> QED BY <2>6, <2>8, <3>1, <3>2, <3>3
  <2>10. ASSUME NEW k \in Keys PROVE Has(Left("kill", m)', k, Owed("kill", k)')
    <3>1. "kill" \in CrashKinds BY DEF CrashKinds
    <3>2. Owed("kill", k)' = must'[k] BY <1>5 DEF Owed
    <3> QED BY <2>3, <2>7, <2>8, <3>1, <3>2
  <2>11. must' \in [Keys -> Nat]
    <3>1. must' = [k \in Keys |-> must'[k]] BY <1>1
    <3> QED BY <2>3, <3>1
  <2>12. \A x \in OnDisk', c \in CrashKinds, k \in Keys : Has(Left(c, x)', k, Owed(c, k)')
    BY <1>4, <2>9, <2>10 DEF CrashKinds
  <2> QED BY <1>1, <2>1, <2>11, <2>12 DEF SafeOK
<1> QED BY <1>12, <1>13, <1>14, <1>15, <1>16, <1>17 DEF StoreInv

(* Every step of the engine keeps what it has promised.                    *)
LEMMA NextStore == FilesInv /\ ReadInv /\ StoreInv /\ [Next]_vars => StoreInv'
<1> SUFFICES ASSUME FilesInv, ReadInv, StoreInv, [Next]_vars PROVE StoreInv' OBVIOUS
<1>1. FilesInv' /\ ReadInv' BY NextFiles, NextRead
<1>2. CASE Recover BY <1>2, RecoverStore
<1>3. CASE Install BY <1>1, <1>3, InstallStore
<1>4. CASE Ready BY <1>1, <1>4, ReadyStore
<1>5. CASE \E w \in Writers, b \in Batches : Ask(w, b) BY <1>5, AskStore
<1>6. CASE Writing
  <2>1. CASE Refuse \/ NoNewLog BY <2>1, RefuseStore
  <2>2. CASE Sleep BY <2>2, QuietStore
  <2>3. CASE Lead BY <2>3, LeadStore
  <2>4. CASE AddRecord \/ AddRecordFails \/ Sync \/ SyncFails BY <2>4, LoggingStore
  <2>5. CASE Insert BY <2>5, InsertStore
  <2>6. CASE Finish BY <2>6, FinishStore
  <2> QED BY <1>6, <2>1, <2>2, <2>3, <2>4, <2>5, <2>6 DEF Writing
<1>7. CASE Background
  <2>1. CASE NothingToDo \/ FlushBegins \/ MergeBegins BY <2>1, QuietStore
  <2>2. CASE FlushBuilt BY <2>2, FlushBuiltStore
  <2>3. CASE FlushLogged BY <1>1, <2>3, FlushLoggedStore
  <2>4. CASE FlushFails \/ MergeFails BY <1>1, <2>4, FailsStore
  <2>5. CASE TrivialMove BY <2>5, TrivialMoveStore
  <2>6. CASE OutputOpens BY <2>6, OutputOpensStore
  <2>7. CASE OutputWritten BY <2>7, OutputWrittenStore
  <2>8. CASE MergeLogged BY <1>1, <2>8, MergeLoggedStore
  <2> QED BY <1>7, <2>1, <2>2, <2>3, <2>4, <2>5, <2>6, <2>7, <2>8 DEF Background
<1>8. CASE GetSnapshot \/ ReleaseSnapshot \/ UNCHANGED vars BY <1>8, QuietStore
<1>9. CASE \E r \in Readers, k \in Keys, seq \in 0..last : GetBegins(r, k, seq) BY <1>9, QuietStore
<1>10. CASE \E r \in Readers : Getting(r) BY <1>10, QuietStore
<1>11. CASE \E c \in CrashKinds : Crash(c) BY <1>11, CrashStore
<1> QED BY <1>2, <1>3, <1>4, <1>5, <1>6, <1>7, <1>8, <1>9, <1>10, <1>11 DEF Next

(* What was promised is in everything that a crash may leave: newer        *)
(* entries are of newer writes, batches are whole, and what is safe from a *)
(* crash is in the tables that the MANIFEST names or in a log that will be *)
(* read, before half of any record.                                        *)
THEOREM StoreInvariant == Spec => [](FilesInv /\ ReadInv /\ StoreInv)
<1>1. Init => FilesInv /\ ReadInv /\ StoreInv BY InitFiles, InitRead, InitStore
<1>2. FilesInv /\ ReadInv /\ StoreInv /\ [Next]_vars => (FilesInv /\ ReadInv /\ StoreInv)'
  BY NextFiles, NextRead, NextStore
<1> QED BY <1>1, <1>2, PTL DEF Spec

-----------------------------------------------------------------------------
(* 9. The steps of Store.                                                  *)

(* What a reader can see could all be found again.                         *)
LEMMA AllReached ==
  ASSUME FilesInv, ReadInv, StoreInv, Opened
  PROVE  /\ All \subseteq Reached /\ All \subseteq EntrySet /\ Ordered(All) /\ last \in Nat
         /\ mems[log] \subseteq EntrySet /\ MemEntries(imm) \subseteq EntrySet
         /\ TableEntries(current.tables) \subseteq EntrySet
         /\ \A e \in All : Asked(e) /\ (e.seq <= last \/ (Inserted /\ e \in EntriesOf(turn.record)))
<1>1. phase # "down" BY DEF Opened
<1>2. All \subseteq Reached /\ All \subseteq EntrySet /\ \A e \in All : Asked(e) BY MemsReached
<1>3. Ordered(All) BY <1>2 DEF StoreInv, OrderOK, Ordered
<1>4. ASSUME NEW e \in All PROVE e.seq <= last \/ (Inserted /\ e \in EntriesOf(turn.record))
  <2>1. CASE e \in mems[log] BY <2>1 DEF StoreInv, WritersOK, QueueInOrder, Past
  <2>2. CASE e \in MemEntries(imm) BY <1>1, <2>2 DEF ReadInv, MemsOK
  <2>3. CASE e \in TableEntries(current.tables)
    BY <1>1, <2>3 DEF ReadInv, TablesOK, OldTables, Old, TableEntries
  <2> QED BY <2>1, <2>2, <2>3 DEF All
<1>5. last \in Nat BY DEF ReadInv, DataOK
<1> QED BY <1>2, <1>3, <1>4, <1>5 DEF All

(* A step that changes no view changes nothing that Store knows of.        *)
LEMMA Unseen ==
  ASSUME ReadInv, StoreInv, UNCHANGED <<batches, safe, must, last, snapshot>>, Opened' = Opened,
         Opened => \A k \in Keys, s \in 0..last : Find(All', k, s) = Find(All, k, s)
  PROVE  UNCHANGED Promise!vars
<1>1. last \in Nat /\ last \in 0..last BY DEF ReadInv, DataOK
<1>2. snapshot = -1 \/ (snapshot \in 0..last /\ Opened) BY DEF StoreInv, WorkOK, Opened
<1>3. (IF Opened THEN ViewAt(last) ELSE Nothing)' = IF Opened THEN ViewAt(last) ELSE Nothing
  <2>1. CASE Opened BY <1>1, <2>1 DEF ViewAt
  <2>2. CASE ~ Opened BY <2>2 DEF Nothing
  <2> QED BY <2>1, <2>2
<1>4. (IF snapshot = -1 THEN NoView ELSE ViewAt(snapshot))' = IF snapshot = -1 THEN NoView ELSE ViewAt(snapshot)
  <2>1. CASE snapshot = -1 BY <2>1 DEF NoView
  <2>2. CASE snapshot # -1 BY <1>2, <2>2 DEF ViewAt
  <2> QED BY <2>1, <2>2
<1> QED BY <1>3, <1>4 DEF Promise!vars

(* ... by their views and what is safe.                                    *)
LEMMA UnseenSame ==
  ASSUME ReadInv, StoreInv, UNCHANGED <<batches, safe, must, last, snapshot>>, Opened' = Opened,
         Opened => All' = All
  PROVE  UNCHANGED Promise!vars
BY Unseen

(* Entries with higher numbers do not change what is found.                *)
LEMMA FindFresh ==
  ASSUME NEW S, NEW N, NEW k, NEW s, \A e \in N : ~ (e.seq <= s)
  PROVE  Find(S \cup N, k, s) = Find(S, k, s)
<1>1. Visible(S \cup N, k, s) = Visible(S, k, s) BY DEF Visible
<1> QED BY <1>1 DEF Find

(* What a reader sees depends on the memtables and the current tables.     *)
LEMMA SameAll ==
  ASSUME UNCHANGED <<current>>, MemsSame, \A t \in current.tables : tables'[t] = tables[t]
  PROVE  All' = All
<1>1. TableEntries(current.tables)' = TableEntries(current.tables) BY DEF TableEntries
<1> QED BY <1>1 DEF All, MemsSame

(* Both begin with nothing.                                                *)
LEMMA InitPromised == Init => Promise!Init
BY DEF Init, Promise!Init, Opened, Promise!Nothing, Nothing, Promise!NoView, NoView,
       Promise!CrashKinds, CrashKinds

(* A stutter of the engine is one of Store.                                *)
LEMMA StutterPromised ==
  ASSUME UNCHANGED vars
  PROVE  UNCHANGED Promise!vars
BY DEF vars, Promise!vars, Opened, ViewAt, All, memory, versions, disk, history, clients, background,
       MemEntries, TableEntries, Find, Visible, Newest, NoView, Nothing

(* Steps that touch neither the current version nor a memtable in use.     *)
LEMMA QuietPromised ==
  ASSUME FilesInv, ReadInv, StoreInv,
         \/ Recover \/ Sleep \/ NothingToDo \/ Refuse \/ NoNewLog
         \/ AddRecord \/ AddRecordFails \/ Sync \/ SyncFails
         \/ FlushBegins \/ FlushFails \/ MergeBegins \/ TrivialMove \/ MergeFails
         \/ \E r \in Readers, k \in Keys, seq \in 0..last : GetBegins(r, k, seq)
         \/ \E r \in Readers : Getting(r)
  PROVE  UNCHANGED Promise!vars
<1> USE DEF disk, versions, memory, background, clients, history, bounds, WithoutMutex
<1>1. CASE Recover
  <2>1. ~ Opened /\ ~ Opened' /\ UNCHANGED <<batches, safe, must, snapshot>>
    BY <1>1 DEF Recover, Opened
  <2>2. snapshot = -1 BY <2>1 DEF StoreInv, WorkOK, Opened
  <2>3. Opened' = Opened BY <1>1 DEF Recover, Opened
  <2>4. (IF Opened THEN ViewAt(last) ELSE Nothing)' = IF Opened THEN ViewAt(last) ELSE Nothing
    BY <2>1 DEF Nothing
  <2>5. (IF snapshot = -1 THEN NoView ELSE ViewAt(snapshot))'
          = IF snapshot = -1 THEN NoView ELSE ViewAt(snapshot)
    BY <2>1, <2>2 DEF NoView
  <2> QED BY <2>1, <2>3, <2>4, <2>5 DEF Promise!vars
<1>2. CASE \/ Sleep \/ NothingToDo \/ Refuse \/ NoNewLog
           \/ AddRecord \/ AddRecordFails \/ Sync \/ SyncFails
           \/ FlushBegins \/ FlushFails \/ MergeBegins \/ TrivialMove \/ MergeFails
           \/ \E r \in Readers, k \in Keys, seq \in 0..last : GetBegins(r, k, seq)
           \/ \E r \in Readers : GetInMems(r) \/ GetInTables(r)
  <2>1. UNCHANGED <<tables, phase, log, imm, mems, current, last, snapshot, batches, safe, must>>
    BY <1>2 DEF Sleep, NothingToDo, Refuse, NoNewLog, AddRecord, AddRecordFails, Sync, SyncFails,
         FlushBegins, FlushFails, MergeBegins, TrivialMove, MergeFails, GetBegins, GetInMems, GetInTables
  <2>2. All' = All BY <2>1, SameAll DEF MemsSame, MemEntries
  <2>3. Opened' = Opened BY <2>1 DEF Opened
  <2> QED BY <2>1, <2>2, <2>3, UnseenSame
<1>3. CASE \E r \in Readers : GetEnds(r)
  <2>1. PICK r \in Readers : GetEnds(r) BY <1>3
  <2>2. UNCHANGED <<tables, phase, log, imm, current, last, snapshot, batches, safe, must>>
    BY <2>1 DEF GetEnds
  <2>3. phase = "up" BY <2>1 DEF GetEnds, FilesInv, PhasesOK, Quiet, Idle
  <2>4. log \in DOMAIN mems /\ (imm # 0 => imm \in DOMAIN mems) BY <2>3 DEF ReadInv, MemsOK
  <2>5. mems' = [m \in DOMAIN mems \cap KeptMems(log, imm, InUse(Readers \ {r})) |-> mems[m]]
    BY <2>1 DEF GetEnds, Unused
  <2>6. log \in KeptMems(log, imm, InUse(Readers \ {r}))
        /\ (imm # 0 => imm \in KeptMems(log, imm, InUse(Readers \ {r})))
    BY DEF KeptMems
  <2>7. MemsSame BY <2>2, <2>4, <2>5, <2>6 DEF MemsSame, MemEntries
  <2>8. All' = All BY <2>2, <2>7, SameAll
  <2>9. Opened' = Opened BY <2>2 DEF Opened
  <2> QED BY <2>2, <2>8, <2>9, UnseenSame
<1> QED BY <1>1, <1>2, <1>3 DEF Getting

(* A new memtable, and a group written to it.                              *)
LEMMA LeadPromised ==
  ASSUME FilesInv, ReadInv, StoreInv, Lead
  PROVE  UNCHANGED Promise!vars
<1> USE DEF disk, versions, memory, background, clients, history, bounds
<1>1. /\ AtFront /\ UNCHANGED <<tables, phase, current, last, snapshot, batches, safe, must>>
      /\ UNCHANGED <<log, imm, mems>> \/ (~ MustWait /\ SwitchMemTable)
  BY DEF Lead
<1>2. Opened /\ Opened' = Opened BY <1>1 DEF AtFront, Opened
<1>3. CASE UNCHANGED <<log, imm, mems>>
  <2>1. All' = All BY <1>1, <1>3, SameAll DEF MemsSame, MemEntries
  <2> QED BY <1>1, <1>2, <2>1, UnseenSame
<1>4. CASE ~ MustWait /\ SwitchMemTable
  <2>1. /\ imm = 0 /\ log' = next /\ imm' = log /\ mems' = With(mems, next, {})
    BY <1>4 DEF MustWait, SwitchMemTable
  <2>2. log # 0 /\ log \in DOMAIN mems BY <1>1 DEF AtFront, ReadInv, MemsOK
  <2>3. log # next BY <2>2 DEF ReadInv, DataOK, FilesInv, NumbersOK
  <2>4. mems'[log'] = {} /\ mems'[imm'] = mems[log] /\ imm' # 0 BY <2>1, <2>2, <2>3 DEF With
  <2>5. MemEntries(imm)' = mems[log] /\ MemEntries(imm) = {} BY <2>1, <2>4 DEF MemEntries
  <2>6. TableEntries(current.tables)' = TableEntries(current.tables) BY <1>1 DEF TableEntries
  <2>7. All' = All BY <2>4, <2>5, <2>6 DEF All
  <2> QED BY <1>1, <1>2, <2>7, UnseenSame
<1> QED BY <1>1, <1>3, <1>4

(* The entries a group puts in the memtable are not seen before it is      *)
(* answered: their numbers are above last_sequence_.                       *)
LEMMA InsertPromised ==
  ASSUME FilesInv, ReadInv, StoreInv, Insert
  PROVE  UNCHANGED Promise!vars
<1> USE DEF disk, versions, memory, background, clients, history, bounds, WithoutMutex
<1> DEFINE new == EntriesOf(turn.record)
<1>1. /\ turn.stage = "insert" /\ mems' = [mems EXCEPT ![log] = @ \cup EntriesOf(turn.record)]
      /\ UNCHANGED <<tables, phase, log, imm, current, last, snapshot, batches, safe, must>>
  BY DEF Insert
<1>2. new \subseteq EntrySet /\ Opened /\ phase = "up" /\ \A e \in new : last < e.seq
  BY <1>1, GroupEntries
<1>3. log # 0 /\ log \in DOMAIN mems /\ (imm # 0 => imm # log)
  BY <1>2 DEF ReadInv, MemsOK
<1>4. mems'[log] = mems[log] \cup new /\ MemEntries(imm)' = MemEntries(imm)
  BY <1>1, <1>3 DEF MemEntries
<1>5. TableEntries(current.tables)' = TableEntries(current.tables) BY <1>1 DEF TableEntries
<1>6. All' = All \cup new BY <1>1, <1>4, <1>5 DEF All
<1>7. ASSUME NEW k \in Keys, NEW s \in 0..last PROVE Find(All', k, s) = Find(All, k, s)
  <2>1. last \in Nat BY DEF ReadInv, DataOK
  <2>2. \A e \in new : ~ (e.seq <= s)
    <3> SUFFICES ASSUME NEW e \in new PROVE ~ (e.seq <= s) OBVIOUS
    <3>1. e.seq \in Nat /\ last < e.seq BY <1>2 DEF EntrySet
    <3> QED BY <2>1, <3>1
  <2>3. PICK A, N : A = All /\ N = new OBVIOUS
  <2>4. Find(A \cup N, k, s) = Find(A, k, s)
    <3>1. \A e \in N : ~ (e.seq <= s) BY <2>2, <2>3
    <3> HIDE DEF new
    <3> QED BY <3>1, FindFresh
  <2> QED BY <1>6, <2>3, <2>4
<1>8. Opened' = Opened BY <1>1 DEF Opened
<1> QED BY <1>1, <1>7, <1>8, Unseen

(* A writer that joins the queue asks Store for a write.                   *)
LEMMA AskPromised ==
  ASSUME FilesInv, ReadInv, StoreInv, NEW w \in Writers, NEW b \in Batches, Ask(w, b)
  PROVE  Promise!Ask(b)
<1> USE DEF disk, versions, memory, background, clients, history, bounds
<1>1. /\ phase = "up" /\ batches' = Append(batches, b)
      /\ UNCHANGED <<tables, phase, log, imm, mems, current, last, snapshot, safe, must>>
  BY DEF Ask
<1>2. Opened /\ Opened' = Opened BY <1>1 DEF Opened
<1>3. All' = All BY <1>1, SameAll DEF MemsSame, MemEntries
<1>4. ViewAt(last)' = ViewAt(last) /\ ViewAt(snapshot)' = ViewAt(snapshot) BY <1>1, <1>3 DEF ViewAt
<1> QED BY <1>1, <1>2, <1>4 DEF Promise!Ask, NoView

(* A snapshot pins what is seen.                                           *)
LEMMA PinPromised ==
  ASSUME FilesInv, ReadInv, StoreInv
  PROVE  /\ GetSnapshot => Promise!Pin
         /\ ReleaseSnapshot => Promise!Unpin
<1> USE DEF disk, versions, memory, background, clients, history, bounds
<1>1. ASSUME GetSnapshot \/ ReleaseSnapshot
      PROVE  /\ Opened /\ Opened' = Opened /\ All' = All
             /\ UNCHANGED <<batches, safe, must, last>>
  <2>1. /\ phase = "up"
        /\ UNCHANGED <<tables, phase, log, imm, mems, current, last, batches, safe, must>>
    BY <1>1 DEF GetSnapshot, ReleaseSnapshot
  <2>2. All' = All BY <2>1, SameAll DEF MemsSame, MemEntries
  <2> QED BY <2>1, <2>2 DEF Opened
<1>2. last \in Nat BY DEF ReadInv, DataOK
<1>3. ASSUME GetSnapshot PROVE Promise!Pin
  <2>1. snapshot' = last BY <1>3 DEF GetSnapshot
  <2>2. snapshot' # -1 BY <1>2, <2>1
  <2>3. ViewAt(snapshot)' = ViewAt(last) BY <1>1, <1>3, <2>1 DEF ViewAt
  <2>4. ViewAt(last)' = ViewAt(last) BY <1>1, <1>3 DEF ViewAt
  <2> QED BY <1>1, <1>3, <2>2, <2>3, <2>4 DEF Promise!Pin
<1>4. ASSUME ReleaseSnapshot PROVE Promise!Unpin
  <2>1. snapshot' = -1 BY <1>4 DEF ReleaseSnapshot
  <2>2. ViewAt(last)' = ViewAt(last) BY <1>1, <1>4 DEF ViewAt
  <2> QED BY <1>1, <1>4, <2>1, <2>2 DEF Promise!Unpin, Promise!NoView, NoView
<1> QED BY <1>3, <1>4

(* A crash ends the view; what was safe from it must be found again.       *)
LEMMA CrashPromised ==
  ASSUME FilesInv, ReadInv, StoreInv, NEW c \in CrashKinds, Crash(c)
  PROVE  Promise!Crash(c)
<1>1. /\ phase' = "down" /\ snapshot' = -1
      /\ must' = [k \in Keys |-> IF Opened THEN safe[c][k] ELSE Min({must[k], safe[c][k]})]
      /\ UNCHANGED <<batches, safe>>
  BY DEF Crash, Opened
<1>2. Opened' = FALSE BY <1>1 DEF Opened
<1> QED BY <1>1, <1>2 DEF Promise!Crash, Promise!Nothing, Nothing, Promise!NoView, NoView,
                          Promise!Min, Min

(* Opened again, the database shows whole batches, none older than the     *)
(* last crash allows.                                                      *)
LEMMA OpenPromised ==
  ASSUME FilesInv, ReadInv, ReadInv', StoreInv, Install
  PROVE  Promise!Open
<1> USE DEF disk, versions, memory, background, clients, history, bounds
<1>1. /\ phase = "recovered" /\ phase' = "installed"
      /\ safe' = [c \in CrashKinds |->
                [k \in Keys |-> Find(mems[log] \cup TableEntries(current'.tables), k, last)]]
      /\ UNCHANGED <<tables, log, imm, mems, last, snapshot, batches, must>>
  BY DEF Install
<1>2. Opened' = TRUE /\ Opened = FALSE BY <1>1 DEF Opened
<1>3. snapshot = -1 BY <1>1 DEF StoreInv, WorkOK
<1>4. PICK a \in OnDisk, S \in SUBSET EntrySet :
    /\ ~ a.torn /\ S = TableEntries(a.version.tables) /\ S = TableEntries(current.tables)'
    /\ \A c : InLogs(c, a) = {}
    /\ mems[log] = {} /\ imm = 0
    /\ Ordered(S) /\ Complete(S) /\ \A e \in S : e.seq <= last /\ Asked(e)
  BY InstallMakes
<1>5. All' = S BY <1>1, <1>4 DEF All, MemEntries
<1>6. PICK v : v = [k \in Keys |-> Find(S, k, last)] OBVIOUS
<1>7. ViewAt(last)' = v BY <1>1, <1>5, <1>6 DEF ViewAt
<1>8. safe' = [c \in CrashKinds |-> v]
  <2>1. mems[log] \cup TableEntries(current'.tables) = S BY <1>1, <1>4 DEF TableEntries
  <2> QED BY <1>1, <1>6, <2>1
<1>9. last \in Nat /\ Len(batches) \in Nat BY Queued DEF ReadInv, DataOK
<1>10. ASSUME NEW k \in Keys
       PROVE  \/ v[k] = 0 /\ \A e \in S : e.key # k
              \/ \E e \in S : e.key = k /\ v[k] = e.write
  <2>1. \A e \in S : e.seq \in Nat /\ e.seq <= last BY <1>4 DEF EntrySet
  <2>2. \A e \in S : ~ (e.seq > last) BY <1>9, <2>1
  <2>3. \/ Find(S, k, last) = 0 /\ \A f \in S : f.key = k => f.seq > last
        \/ \E e \in S : e.key = k /\ Find(S, k, last) = e.write
    BY <1>9, FindIs
  <2> QED BY <1>6, <2>2, <2>3
<1>11. \A e \in S : e.key \in Keys => v[e.key] >= e.write
  <2> SUFFICES ASSUME NEW e \in S, e.key \in Keys PROVE v[e.key] >= e.write OBVIOUS
  <2>1. Find(S, e.key, last) >= e.write BY <1>4, <1>9, FindAtLeast
  <2> QED BY <1>6, <2>1
<1>12. v \in [Keys -> 0..Len(batches)]
  <2>1. \A k \in Keys : v[k] \in 0..Len(batches) BY <1>4, <1>9, <1>10 DEF Asked
  <2> QED BY <1>6, <2>1
<1>13. ASSUME NEW k \in Keys, v[k] # 0
       PROVE  k \in batches[v[k]] /\ \A l \in batches[v[k]] : v[l] >= v[k]
  <2>1. PICK e \in S : e.key = k /\ v[k] = e.write BY <1>10, <1>13
  <2>2. k \in batches[v[k]] BY <1>4, <2>1 DEF Asked
  <2>3. ASSUME NEW l \in batches[v[k]] PROVE v[l] >= v[k]
    <3>1. PICK f \in S : f.key = l /\ f.write >= e.write BY <1>4, <2>1, <2>3 DEF Complete
    <3>2. l \in Keys BY <3>1 DEF EntrySet
    <3>3. v[l] >= f.write BY <1>11, <3>1, <3>2
    <3>4. f.write \in Nat /\ e.write \in Nat /\ v[l] \in Nat BY <1>12, <3>2 DEF EntrySet
    <3> QED BY <2>1, <3>1, <3>3, <3>4
  <2> QED BY <2>2, <2>3
<1>14. ASSUME NEW k \in Keys PROVE v[k] >= must[k]
  <2>0. "kill" \in CrashKinds BY DEF CrashKinds
  <2>1. Has(Left("kill", a), k, Owed("kill", k)) BY <2>0 DEF StoreInv, SafeOK
  <2>2. Owed("kill", k) = must[k] BY <1>2 DEF Owed
  <2>3. Left("kill", a) = S BY <1>2, <1>4 DEF Left
  <2>4. must[k] \in Nat /\ v[k] \in Nat BY <1>12 DEF StoreInv, SafeOK
  <2>5. CASE must[k] = 0 BY <2>4, <2>5
  <2>6. CASE must[k] # 0
    <3>1. PICK e \in S : e.key = k /\ e.write >= must[k] BY <2>1, <2>2, <2>3, <2>6 DEF Has
    <3>2. v[k] >= e.write /\ e.write \in Nat BY <1>11, <3>1 DEF EntrySet
    <3> QED BY <2>4, <3>1, <3>2
  <2> QED BY <2>5, <2>6
<1>15. Promise!Whole(v) BY <1>13 DEF Promise!Whole
<1>16. UNCHANGED batches /\ must' = must /\ snapshot' = -1 BY <1>1, <1>3
<1>17. (IF Opened THEN ViewAt(last) ELSE Nothing)' = v BY <1>2, <1>7
<1> QED BY <1>2, <1>3, <1>8, <1>12, <1>14, <1>15, <1>16, <1>17
        DEF Promise!Open, Promise!CrashKinds, CrashKinds, NoView

(* The writes of the group in progress.                                    *)
GroupWrites == {Write(j) : j \in 1..turn.size}

(* What the group's entries show when they become visible.                 *)
LEMMA GroupView ==
  ASSUME FilesInv, ReadInv, StoreInv, Inserted, NEW s, s = last + Len(turn.record.puts), NEW k \in Keys
  PROVE  /\ \A i \in GroupWrites : i \in 1..Len(batches) /\ i > Find(All, k, last)
         /\ \/ (\A i \in GroupWrites : k \notin batches[i]) /\ Find(All, k, s) = Find(All, k, last)
            \/ /\ Find(All, k, s) \in GroupWrites /\ k \in batches[Find(All, k, s)]
               /\ \A i \in GroupWrites : k \in batches[i] => Find(All, k, s) >= i
<1> DEFINE new == EntriesOf(turn.record)
<1>1. turn.stage = "finish" /\ turn.ok BY DEF Inserted
<1>2. /\ new \subseteq EntrySet
      /\ \A e \in new : /\ Asked(e) /\ last < e.seq /\ e.seq <= s
                        /\ \E j \in 1..turn.size : e.write = Write(j)
      /\ \A j \in 1..turn.size : \A x \in batches[Write(j)] : \E e \in new : e.key = x /\ e.write = Write(j)
      /\ Len(turn.record.puts) \in Nat /\ turn.size \in 1..Len(queue) /\ Opened /\ phase = "up"
  BY <1>1, GroupEntries
<1>3. /\ All \subseteq Reached /\ All \subseteq EntrySet /\ Ordered(All) /\ last \in Nat
      /\ \A e \in All : e.seq <= last \/ e \in new
  BY <1>2, AllReached
<1>4. new \subseteq All BY <1>1 DEF StoreInv, WritersOK, ProgressOK, Inserted, All
<1>5. s \in Nat /\ last <= s BY <1>2, <1>3
<1>6. Len(queue) \in Nat /\ \A j \in 1..turn.size : j \in 1..Len(queue) /\ Write(j) \in 1..Len(batches)
  BY <1>2, Queued
<1>7. ASSUME NEW e \in All, e.seq <= last, NEW j \in 1..turn.size PROVE e.write < Write(j)
  <2>1. e \notin new
    <3>1. e.seq \in Nat BY <1>3 DEF EntrySet
    <3>2. ~ (last < e.seq) BY <1>3, <1>7, <3>1
    <3> QED BY <1>2, <3>2
  <2>2. Past(e) BY <1>2, <1>3, <2>1 DEF StoreInv, WritersOK, QueueInOrder
  <2> QED BY <1>6, <2>2 DEF Past
<1> HIDE DEF new
<1>8. PICK A : A = All OBVIOUS
<1>9. A \in SUBSET EntrySet /\ Ordered(A) BY <1>3, <1>8
<1>10. ASSUME NEW i \in GroupWrites PROVE i \in 1..Len(batches) /\ i > Find(All, k, last)
  <2>1. PICK j \in 1..turn.size : i = Write(j) BY DEF GroupWrites
  <2>2. i \in 1..Len(batches) BY <1>6, <2>1
  <2>3. Len(batches) \in Nat BY Queued
  <2>4. \/ Find(A, k, last) = 0
        \/ \E e \in A : e.seq <= last /\ Find(A, k, last) = e.write
    BY <1>3, <1>9, FindIs, SMTT(20)
  <2>5. CASE Find(A, k, last) = 0 BY <1>8, <2>2, <2>3, <2>5
  <2>6. CASE \E e \in A : e.seq <= last /\ Find(A, k, last) = e.write
    <3>1. PICK e \in A : e.seq <= last /\ Find(A, k, last) = e.write BY <2>6
    <3>2. e.write < i /\ e.write \in Nat BY <1>7, <1>8, <1>9, <2>1, <3>1 DEF EntrySet
    <3> QED BY <1>8, <2>2, <2>3, <3>1, <3>2
  <2> QED BY <2>4, <2>5, <2>6
<1>11. CASE \A i \in GroupWrites : k \notin batches[i]
  <2>1. \A e \in new : e.key # k
    <3> SUFFICES ASSUME NEW e \in new, e.key = k PROVE FALSE OBVIOUS
    <3>1. PICK j \in 1..turn.size : e.write = Write(j) BY <1>2
    <3>2. k \in batches[Write(j)] BY <1>2, <3>1 DEF Asked
    <3> QED BY <1>11, <3>2 DEF GroupWrites
  <2>2. \A e \in A : e.key = k => (e.seq <= s <=> e.seq <= last)
    <3> SUFFICES ASSUME NEW e \in A, e.key = k PROVE e.seq <= s <=> e.seq <= last OBVIOUS
    <3>1. e.seq <= last BY <1>3, <1>8, <2>1
    <3>2. e.seq \in Nat BY <1>9 DEF EntrySet
    <3> QED BY <1>3, <1>5, <3>1, <3>2
  <2>3. Visible(A, k, s) = Visible(A, k, last) BY <2>2 DEF Visible
  <2>4. Find(A, k, s) = Find(A, k, last) BY <2>3 DEF Find
  <2> QED BY <1>8, <1>10, <1>11, <2>4
<1>12. CASE \E i \in GroupWrites : k \in batches[i]
  <2>1. PICK j \in 1..turn.size : k \in batches[Write(j)] BY <1>12 DEF GroupWrites
  <2>2. PICK f \in new : f.key = k /\ f.write = Write(j) BY <1>2, <2>1
  <2>3. f \in A /\ f.seq <= s /\ last < f.seq /\ f.seq \in Nat BY <1>2, <1>4, <1>8, <2>2 DEF EntrySet
  <2>4. PICK e \in A : /\ e.key = k /\ e.seq <= s /\ Find(A, k, s) = e.write
                       /\ \A g \in A : g.key = k /\ g.seq <= s => g.seq <= e.seq
    <3>1. ~ (f.seq > s) BY <1>5, <2>3
    <3> QED BY <1>5, <1>9, <2>2, <2>3, <3>1, FindIs
  <2>5. e \in new
    <3>1. f.seq <= e.seq /\ e.seq \in Nat BY <1>9, <2>2, <2>3, <2>4 DEF EntrySet
    <3>2. ~ (e.seq <= last) BY <1>3, <2>3, <3>1
    <3> QED BY <1>3, <1>8, <3>2
  <2>6. e.write \in GroupWrites /\ k \in batches[e.write] BY <1>2, <2>4, <2>5 DEF GroupWrites, Asked
  <2>7. ASSUME NEW i \in GroupWrites, k \in batches[i] PROVE e.write >= i
    <3>1. PICK p \in 1..turn.size : i = Write(p) BY DEF GroupWrites
    <3>2. PICK g \in new : g.key = k /\ g.write = i BY <1>2, <2>7, <3>1
    <3>3. g \in A /\ g.seq <= s BY <1>2, <1>4, <1>8, <3>2
    <3>4. g.seq <= e.seq BY <2>4, <3>2, <3>3
    <3>5. g.seq \in Nat /\ e.seq \in Nat /\ g.write \in Nat /\ e.write \in Nat
      BY <1>9, <3>3 DEF EntrySet
    <3>6. CASE g.seq = e.seq
      <4>1. g = e BY <1>9, <3>3, <3>6 DEF Ordered
      <4> QED BY <3>2, <3>5, <4>1
    <3>7. CASE g.seq # e.seq
      <4>1. g.seq < e.seq BY <3>4, <3>5, <3>7
      <4>2. g.write <= e.write BY <1>9, <3>3, <4>1 DEF Ordered
      <4> QED BY <3>2, <3>5, <4>2
    <3> QED BY <3>6, <3>7
  <2>8. Find(All, k, s) = e.write BY <1>8, <2>4
  <2> QED BY <1>10, <2>6, <2>7, <2>8
<1> QED BY <1>11, <1>12

(* A value that is the largest of a set, by Store's definition too.        *)
LEMMA LargestIs ==
  ASSUME NEW W \in SUBSET Nat, NEW w \in W, \A i \in W : w >= i
  PROVE  Promise!Max(W) = w
<1>1. \E x \in W : \A y \in W : x >= y OBVIOUS
<1>2. Promise!Max(W) \in W /\ \A y \in W : Promise!Max(W) >= y BY <1>1 DEF Promise!Max
<1>3. Promise!Max(W) \in Nat /\ w \in Nat /\ Promise!Max(W) >= w /\ w >= Promise!Max(W) BY <1>2
<1> QED BY <1>3

(* Store and Engine say alike what a set of writes does to a view.         *)
LEMMA SameApplied ==
  ASSUME NEW v, NEW ids
  PROVE  Promise!Applied(v, ids) = Applied(v, ids)
BY DEF Applied, Promise!Applied, Promise!Writing, Promise!Max, Max

(* The whole group becomes visible when it is answered.                    *)
LEMMA CommitPromised ==
  ASSUME FilesInv, ReadInv, StoreInv, Finish, turn.ok
  PROVE  \E ids \in SUBSET (1..Len(batches)) :
           \E sure \in [Promise!CrashKinds -> SUBSET ids] : Promise!Commit(ids, sure)
<1> USE DEF disk, versions, memory, background, clients, history, bounds
<1>1. /\ turn.stage \in {"finish", "syncError"} /\ last' = last + Len(turn.record.puts)
      /\ safe' = [c \in CrashKinds |-> Applied(safe[c], Sure(c))]
      /\ UNCHANGED <<tables, phase, log, imm, mems, current, snapshot, batches, must>>
  BY DEF Finish, SetLastSequence
<1>2. Inserted
  <2>1. turn.stage # "syncError" BY <1>1 DEF StoreInv, WritersOK, ProgressOK
  <2> QED BY <1>1, <2>1 DEF Inserted
<1>3. PICK s : s = last + Len(turn.record.puts) OBVIOUS
<1>4. phase = "up" /\ Opened /\ Opened' = Opened /\ turn.size \in 1..Len(queue) /\ Len(queue) \in Nat
  BY <1>1, <1>2, Queued DEF Inserted, Opened
<1>5. All' = All BY <1>1, SameAll DEF MemsSame, MemEntries
<1>6. PICK ids : ids = GroupWrites OBVIOUS
<1>7. ASSUME NEW k \in Keys
      PROVE  /\ \A i \in ids : i \in 1..Len(batches) /\ i > Find(All, k, last)
             /\ \/ (\A i \in ids : k \notin batches[i]) /\ Find(All, k, s) = Find(All, k, last)
                \/ /\ Find(All, k, s) \in ids /\ k \in batches[Find(All, k, s)]
                   /\ \A i \in ids : k \in batches[i] => Find(All, k, s) >= i
  BY <1>2, <1>3, <1>6, GroupView
<1>8. ids \in SUBSET (1..Len(batches))
  <2>1. \A j \in 1..turn.size : Write(j) \in 1..Len(batches)
    <3>1. \A j \in 1..Len(queue) : Write(j) \in 1..Len(batches) BY Queued
    <3>2. \A j \in 1..turn.size : j \in 1..Len(queue) BY <1>4
    <3> QED BY <3>1, <3>2
  <2> QED BY <1>6, <2>1 DEF GroupWrites
<1>9. PICK view : view = [k \in Keys |-> Find(All, k, last)] OBVIOUS
<1>10. PICK seen : seen = [k \in Keys |-> Find(All, k, s)] OBVIOUS
<1>11. seen = Promise!Applied(view, ids)
  <2> DEFINE W(k) == Promise!Writing(k, ids)
  <2>1. \A k : W(k) = {i \in ids : k \in batches[i]} BY DEF Promise!Writing
  <2>2. ASSUME NEW k \in Keys
        PROVE  seen[k] = IF W(k) = {} THEN view[k] ELSE Promise!Max(W(k))
    <3>1. CASE (\A i \in ids : k \notin batches[i]) /\ Find(All, k, s) = Find(All, k, last)
      <4>1. W(k) = {} BY <2>1, <3>1
      <4> HIDE DEF W
      <4> QED BY <1>9, <1>10, <3>1, <4>1
    <3>2. CASE /\ Find(All, k, s) \in ids /\ k \in batches[Find(All, k, s)]
               /\ \A i \in ids : k \in batches[i] => Find(All, k, s) >= i
      <4>1. PICK V, w : V = W(k) /\ w = Find(All, k, s) OBVIOUS
      <4> HIDE DEF W
      <4>0. V = {i \in ids : k \in batches[i]} BY <2>1, <4>1
      <4>2. V \in SUBSET Nat /\ w \in V /\ \A i \in V : w >= i
        <5>1. \A i \in ids : i \in Nat BY <1>8
        <5>2. w \in ids /\ k \in batches[w] /\ \A i \in ids : k \in batches[i] => w >= i BY <3>2, <4>1
        <5> QED BY <4>0, <5>1, <5>2
      <4>3. Promise!Max(V) = w BY <4>2, LargestIs
      <4> QED BY <1>10, <4>1, <4>2, <4>3
    <3> QED BY <1>7, <3>1, <3>2
  <2> QED BY <1>10, <2>2 DEF Promise!Applied
<1>12. ViewAt(last) = view BY <1>9 DEF ViewAt
<1>13. ViewAt(last)' = seen BY <1>1, <1>3, <1>5, <1>10 DEF ViewAt
<1>14. ViewAt(snapshot)' = ViewAt(snapshot) BY <1>1, <1>5 DEF ViewAt
<1>15. PICK sure : sure = [c \in CrashKinds |-> Sure(c)] OBVIOUS
<1>16. sure \in [Promise!CrashKinds -> SUBSET ids]
  <2>1. \A c \in CrashKinds : Sure(c) \subseteq ids BY <1>6 DEF Sure, GroupWrites, Write
  <2> QED BY <1>15, <2>1 DEF Promise!CrashKinds, CrashKinds
<1>17. safe' = [c \in Promise!CrashKinds |-> Promise!Applied(safe[c], sure[c])]
  <2>1. \A c \in CrashKinds : Promise!Applied(safe[c], sure[c]) = Applied(safe[c], Sure(c))
    BY <1>15, SameApplied
  <2>2. Promise!CrashKinds = CrashKinds BY DEF Promise!CrashKinds, CrashKinds
  <2> QED BY <1>1, <2>1, <2>2
<1>18. \A i \in ids, k \in Keys : i > view[k] BY <1>7, <1>9
<1>19. Promise!Commit(ids, sure)
  BY <1>1, <1>4, <1>11, <1>12, <1>13, <1>14, <1>17, <1>18 DEF Promise!Commit, NoView
<1> QED BY <1>8, <1>16, <1>19

(* A group that was not written is not seen.                               *)
LEMMA FailedPromised ==
  ASSUME FilesInv, ReadInv, StoreInv, Finish, ~ turn.ok
  PROVE  UNCHANGED Promise!vars
<1> USE DEF disk, versions, memory, background, clients, history, bounds
<1>1. /\ turn.stage \in {"finish", "syncError"} /\ last' = last + Len(turn.record.puts)
      /\ UNCHANGED <<tables, phase, log, imm, mems, current, snapshot, batches, safe, must>>
  BY DEF Finish, SetLastSequence
<1>2. PICK s : s = last + Len(turn.record.puts) OBVIOUS
<1>3. phase = "up" /\ Opened /\ Opened' = Opened BY <1>1, Queued DEF Opened
<1>4. All' = All BY <1>1, SameAll DEF MemsSame, MemEntries
<1>5. PICK A : A = All OBVIOUS
<1>6. A \subseteq EntrySet /\ last \in Nat /\ \A e \in A : e.seq <= last
  BY <1>3, <1>5, AllReached DEF Inserted
<1>7. s \in Nat /\ last <= s
  <2>1. Len(turn.record.puts) \in Nat BY <1>1, GroupEntries
  <2> QED BY <1>2, <1>6, <2>1
<1>8. ASSUME NEW k \in Keys PROVE Find(A, k, s) = Find(A, k, last)
  <2>1. \A e \in A : e.seq <= s /\ e.seq <= last
    <3>1. \A e \in A : e.seq \in Nat BY <1>6 DEF EntrySet
    <3> QED BY <1>6, <1>7, <3>1
  <2>2. Visible(A, k, s) = Visible(A, k, last) BY <2>1 DEF Visible
  <2> QED BY <2>2 DEF Find
<1>9. ViewAt(last)' = ViewAt(last) BY <1>1, <1>2, <1>4, <1>5, <1>8 DEF ViewAt
<1>10. ViewAt(snapshot)' = ViewAt(snapshot) BY <1>1, <1>4 DEF ViewAt
<1> QED BY <1>1, <1>3, <1>9, <1>10 DEF Promise!vars, NoView

(* A new table beside those of the current version.                        *)
LEMMA TablePromised ==
  ASSUME FilesInv, ReadInv, StoreInv, FlushBuilt \/ OutputOpens \/ OutputWritten
  PROVE  UNCHANGED Promise!vars
<1> USE DEF disk, versions, memory, background, clients, history, bounds
<1>1. /\ UNCHANGED <<phase, log, imm, mems, current, last, snapshot, batches, safe, must>>
      /\ flush.stage # "none" \/ merge.stage # "none"
  BY DEF FlushBuilt, OutputOpens, OutputWritten
<1>2. phase = "up" BY <1>1 DEF FilesInv, PhasesOK, Quiet, Idle
<1>3. Free(current.tables) /\ current.tables \subseteq DOMAIN tables
  BY <1>2 DEF ReadInv, FreshOK, FilesInv, FilesThere
<1>4. ASSUME NEW t \in current.tables PROVE tables'[t] = tables[t]
  <2>1. t \in DOMAIN tables /\ t \in Nat /\ t < next BY <1>3 DEF Free
  <2>2. CASE FlushBuilt
    <3>1. t # flush.number BY <1>3, <2>2 DEF FlushBuilt, Free
    <3> QED BY <2>1, <2>2, <3>1 DEF FlushBuilt, With
  <2>3. CASE OutputOpens
    <3>1. t # next BY <2>1
    <3> QED BY <2>1, <2>3, <3>1 DEF OutputOpens, With
  <2>4. CASE OutputWritten
    <3>1. t # merge.number BY <1>3, <2>4 DEF OutputWritten, Free
    <3> QED BY <2>1, <2>4, <3>1 DEF OutputWritten
  <2> QED BY <2>2, <2>3, <2>4
<1>5. All' = All BY <1>1, <1>4, SameAll DEF MemsSame, MemEntries
<1>6. Opened' = Opened BY <1>1 DEF Opened
<1> QED BY <1>1, <1>5, <1>6, UnseenSame

(* Deleting the files nobody needs changes no view.                        *)
LEMMA ReadyPromised ==
  ASSUME FilesInv, FilesInv', ReadInv, StoreInv, Ready
  PROVE  UNCHANGED Promise!vars
<1> USE DEF disk, versions, memory, background, clients, history, bounds
<1>1. /\ UNCHANGED <<log, imm, mems, current, last, snapshot, batches, safe, must>>
      /\ phase = "installed" /\ phase' = "up" /\ Swept
  BY DEF Ready, Sweep, Swept
<1>2. current'.tables \subseteq DOMAIN tables' BY DEF FilesInv, FilesThere
<1>3. All' = All BY <1>1, <1>2, SameAll DEF MemsSame, MemEntries, Swept
<1>4. Opened' = Opened BY <1>1 DEF Opened
<1> QED BY <1>1, <1>3, <1>4, UnseenSame

(* The entries of the memtable are now those of a table.                   *)
LEMMA FlushPromised ==
  ASSUME FilesInv, FilesInv', ReadInv, StoreInv, FlushLogged
  PROVE  UNCHANGED Promise!vars
<1> USE DEF disk, versions, memory, background, clients, history, bounds
<1>1. /\ flush.stage = "logging" /\ current' = Installed.version /\ imm' = 0
      /\ mems' = [m \in DOMAIN mems \cap KeptMems(log, 0, InUse(Readers)) |-> mems[m]]
      /\ UNCHANGED <<phase, log, last, snapshot, batches, safe, must>> /\ Swept
  BY DEF FlushLogged, Sweep, Swept
<1>2. edit.kind = "edit" /\ edit.drop = {} /\ edit.add = {flush.number}
  BY <1>1 DEF FilesInv, FlushOK
<1>3. phase = "up" /\ Opened /\ Opened' = Opened BY <1>1 DEF FilesInv, PhasesOK, Quiet, Idle, Opened
<1>4. tables[flush.number] = MemEntries(imm) BY <1>1 DEF StoreInv, WorkOK
<1>5. mems'[log] = mems[log] BY <1>1, <1>3 DEF ReadInv, MemsOK, KeptMems
<1>6. current'.tables = current.tables \cup {flush.number} BY <1>1, <1>2 DEF Installed, Apply, Version
<1>7. current'.tables \subseteq DOMAIN tables' BY DEF FilesInv, FilesThere
<1>8. \A t \in current'.tables : tables'[t] = tables[t] BY <1>1, <1>7 DEF Swept
<1>9. TableEntries(current.tables)' = TableEntries(current.tables) \cup MemEntries(imm)
  BY <1>4, <1>6, <1>8 DEF TableEntries
<1>10. All' = All BY <1>1, <1>5, <1>9 DEF All, MemEntries
<1> QED BY <1>1, <1>3, <1>10, UnseenSame

(* A merge leaves out only what newer entries hide from every view that    *)
(* can still be asked for.                                                 *)
LEMMA MergePromised ==
  ASSUME FilesInv, FilesInv', ReadInv, StoreInv, MergeLogged
  PROVE  UNCHANGED Promise!vars
<1> USE DEF disk, versions, memory, background, clients, history, bounds
<1>1. /\ merge.stage \in {"logging", "moving"} /\ current' = Installed.version
      /\ UNCHANGED <<phase, log, imm, mems, last, snapshot, batches, safe, must>> /\ Swept
  BY DEF MergeLogged, Sweep, Swept
<1>2. phase = "up" /\ Opened /\ Opened' = Opened BY <1>1 DEF FilesInv, PhasesOK, Quiet, Idle, Opened
<1>3. current'.tables = (current.tables \ edit.drop) \cup edit.add BY <1>1 DEF Installed, Apply, Version
<1>4. current'.tables \subseteq DOMAIN tables' BY DEF FilesInv, FilesThere
<1>5. \A t \in current'.tables : tables'[t] = tables[t] BY <1>1, <1>4 DEF Swept
<1>6. WorkOK BY DEF StoreInv
<1>7. CASE merge.stage = "moving"
  <2>1. edit.drop = edit.add /\ edit.add \subseteq current.tables BY <1>6, <1>7 DEF WorkOK
  <2>2. current'.tables = current.tables BY <1>3, <2>1
  <2>3. TableEntries(current.tables)' = TableEntries(current.tables) BY <1>5, <2>2 DEF TableEntries
  <2>4. All' = All BY <1>1, <2>3 DEF All, MemEntries
  <2> QED BY <1>1, <1>2, <2>4, UnseenSame
<1>8. CASE merge.stage = "logging"
  <2>1. /\ merge.inputs \subseteq current.tables /\ merge.smallest \in 0..last
        /\ (snapshot # -1 => merge.smallest <= snapshot)
        /\ edit.drop = merge.inputs /\ edit.add = {merge.number}
        /\ tables[merge.number] = Kept(TableEntries(merge.inputs), merge.smallest)
    BY <1>6, <1>8 DEF WorkOK
  <2>2. PICK E, n : E = TableEntries(merge.inputs) /\ n = merge.smallest OBVIOUS
  <2>3. PICK R : R = mems[log] \cup MemEntries(imm) \cup TableEntries(current.tables \ merge.inputs) OBVIOUS
  <2>4. All = R \cup E
    <3>1. TableEntries(current.tables) = TableEntries(current.tables \ merge.inputs) \cup TableEntries(merge.inputs)
      BY <2>1 DEF TableEntries
    <3> QED BY <2>2, <2>3, <3>1 DEF All
  <2>5. All' = R \cup Kept(E, n)
    <3>1. current'.tables = (current.tables \ merge.inputs) \cup {merge.number} BY <1>3, <2>1
    <3>2. TableEntries(current.tables)' = TableEntries(current.tables \ merge.inputs) \cup tables[merge.number]
      BY <1>5, <3>1 DEF TableEntries
    <3>3. tables[merge.number] = Kept(E, n) BY <2>1, <2>2
    <3> QED BY <1>1, <2>3, <3>2, <3>3 DEF All, MemEntries
  <2>6. R \in SUBSET EntrySet /\ E \in SUBSET EntrySet /\ Ordered(R \cup E) /\ last \in Nat
    <3>1. All \subseteq EntrySet /\ Ordered(All) /\ last \in Nat BY <1>2, AllReached
    <3> QED BY <2>4, <3>1
  <2>7. n \in Nat /\ n <= last /\ (snapshot # -1 => n <= snapshot) BY <2>1, <2>2, <2>6
  <2>8. \A k, s : s \in Nat /\ n <= s => Find(R \cup Kept(E, n), k, s) = Find(R \cup E, k, s)
    <3>1. SUFFICES ASSUME NEW k, NEW s, s \in Nat, n <= s
                   PROVE  Find(R \cup Kept(E, n), k, s) = Find(R \cup E, k, s)
      OBVIOUS
    <3>2. R \in SUBSET EntrySet /\ E \in SUBSET EntrySet /\ Ordered(R \cup E) /\ n \in Nat
      BY <2>6, <2>7
    <3> HIDE DEF disk, versions, memory, background, clients, history, bounds
    <3> QED BY <3>1, <3>2, FindKept
  <2>9. \A k : Find(All', k, last) = Find(All, k, last) BY <2>4, <2>5, <2>6, <2>7, <2>8
  <2>10. snapshot # -1 => \A k : Find(All', k, snapshot) = Find(All, k, snapshot)
    <3>1. snapshot # -1 => snapshot \in Nat BY <1>6, <2>6 DEF WorkOK
    <3> QED BY <2>4, <2>5, <2>7, <2>8, <3>1
  <2>11. ViewAt(last)' = ViewAt(last) BY <1>1, <2>9 DEF ViewAt
  <2>12. snapshot # -1 => ViewAt(snapshot)' = ViewAt(snapshot) BY <1>1, <2>10 DEF ViewAt
  <2> QED BY <1>1, <1>2, <2>11, <2>12 DEF Promise!vars, NoView
<1> QED BY <1>1, <1>7, <1>8

(* Every step of the engine is a step of Store, or one it does not see.    *)
LEMMA NextPromised ==
  ASSUME FilesInv, ReadInv, StoreInv, [Next]_vars
  PROVE  [Promise!Next]_(Promise!vars)
<1>1. FilesInv' /\ ReadInv' BY NextFiles, NextRead
<1>2. CASE Recover BY <1>2, QuietPromised
<1>3. CASE Install BY <1>1, <1>3, OpenPromised DEF Promise!Next
<1>4. CASE Ready BY <1>1, <1>4, ReadyPromised
<1>5. CASE \E w \in Writers, b \in Batches : Ask(w, b) BY <1>5, AskPromised DEF Promise!Next
<1>6. CASE Writing
  <2>1. CASE Refuse \/ NoNewLog \/ Sleep BY <2>1, QuietPromised
  <2>2. CASE Lead BY <2>2, LeadPromised
  <2>3. CASE AddRecord \/ AddRecordFails \/ Sync \/ SyncFails BY <2>3, QuietPromised
  <2>4. CASE Insert BY <2>4, InsertPromised
  <2>5. CASE Finish /\ turn.ok BY <2>5, CommitPromised DEF Promise!Next
  <2>6. CASE Finish /\ ~ turn.ok BY <2>6, FailedPromised
  <2> QED BY <1>6, <2>1, <2>2, <2>3, <2>4, <2>5, <2>6 DEF Writing
<1>7. CASE Background
  <2>1. CASE NothingToDo \/ FlushBegins \/ FlushFails \/ MergeBegins \/ TrivialMove \/ MergeFails
    BY <2>1, QuietPromised
  <2>2. CASE FlushBuilt \/ OutputOpens \/ OutputWritten BY <2>2, TablePromised
  <2>3. CASE FlushLogged BY <1>1, <2>3, FlushPromised
  <2>4. CASE MergeLogged BY <1>1, <2>4, MergePromised
  <2> QED BY <1>7, <2>1, <2>2, <2>3, <2>4 DEF Background
<1>8. CASE GetSnapshot \/ ReleaseSnapshot BY <1>8, PinPromised DEF Promise!Next
<1>9. CASE \E r \in Readers, k \in Keys, seq \in 0..last : GetBegins(r, k, seq) BY <1>9, QuietPromised
<1>10. CASE \E r \in Readers : Getting(r) BY <1>10, QuietPromised
<1>11. CASE \E c \in CrashKinds : Crash(c)
  BY <1>11, CrashPromised DEF Promise!Next, Promise!CrashKinds, CrashKinds
<1>12. CASE UNCHANGED vars BY <1>12, StutterPromised
<1> QED BY <1>2, <1>3, <1>4, <1>5, <1>6, <1>7, <1>8, <1>9, <1>10, <1>11, <1>12 DEF Next

(* The engine keeps the promises of Store.  A group of writes becomes      *)
(* visible at once and behind all older ones when the leader answers it    *)
(* (DBImpl::Write, BuildBatchGroup); flushes, merges, their failures and   *)
(* the deletion of files change neither what is read now nor what a        *)
(* snapshot sees (CompactMemTable, DoCompactionWork, DeleteObsoleteFiles); *)
(* and a database that is opened after a crash of either kind shows whole  *)
(* batches and nothing older than what was promised (DB::Open, Recover,    *)
(* RecoverLogFile).                                                        *)
THEOREM EngineImplementsStore == Spec => ImplementsStore
<1>1. Init => Promise!Init BY InitPromised
<1>2. FilesInv /\ ReadInv /\ StoreInv /\ [Next]_vars => [Promise!Next]_(Promise!vars)
  BY NextPromised
<1>3. Spec => [](FilesInv /\ ReadInv /\ StoreInv) BY StoreInvariant
<1> QED BY <1>1, <1>2, <1>3, PTL DEF Spec, ImplementsStore, Promise!Spec
=============================================================================
