------------------------------- MODULE Store -------------------------------
(***************************************************************************)
(* What the storage engine promises its clients (include/leveldb/db.h and  *)
(* options.h), without memtables, logs or tables: a map that batches of    *)
(* writes change whole, a snapshot that stays as it was taken, and a crash *)
(* that loses only what nobody was told was safe.  Engine implements it.   *)
(*                                                                         *)
(* Writes are known by their number, in the order they were asked for; a   *)
(* batch is the set of keys it writes, and 0 is "never written".           *)
(***************************************************************************)
EXTENDS FiniteSetsExt, Sequences, Naturals

CONSTANTS Keys,
          Batches    \* bound: the sets of keys a batch may write

CrashKinds == {"kill", "power"}   \* the process only, or the whole machine

VARIABLES up,        \* the database is open
          batches,   \* the batches asked for: number -> its keys
          view,      \* key -> the newest write a reader sees
          pinned,    \* the view of the snapshot, if there is one
          safe,      \* kind of crash -> key -> the oldest write it may leave
          must       \* key -> what the last crash may not go behind

vars == <<up, batches, view, pinned, safe, must>>

Nothing == [k \in Keys |-> 0]
NoView == [k \in {} |-> 0]
Writing(k, ids) == {i \in ids : k \in batches[i]}

(* The view after writes `ids` are applied in order.                       *)
Applied(v, ids) ==
  [k \in Keys |-> IF Writing(k, ids) = {} THEN v[k] ELSE Max(Writing(k, ids))]

(* No batch shows in part: what its other keys show is at least as new.    *)
Whole(v) ==
  \A k \in Keys : v[k] # 0 =>
    k \in batches[v[k]] /\ \A l \in batches[v[k]] : v[l] >= v[k]

Init ==
  /\ up = FALSE /\ batches = <<>> /\ view = Nothing /\ pinned = NoView
  /\ safe = [c \in CrashKinds |-> Nothing] /\ must = Nothing

Ask(b) == /\ up
          /\ batches' = Append(batches, b)
          /\ UNCHANGED <<up, view, pinned, safe, must>>

(* Consecutive writes become visible together; of these, sure[c] are safe  *)
(* from a crash of kind c from now on.                                     *)
Commit(ids, sure) ==
  /\ up
  /\ \A i \in ids, k \in Keys : i > view[k]
  /\ view' = Applied(view, ids)
  /\ safe' = [c \in CrashKinds |-> Applied(safe[c], sure[c])]
  /\ UNCHANGED <<up, batches, pinned, must>>

Pin == up /\ pinned' = view /\ UNCHANGED <<up, batches, view, safe, must>>
Unpin == up /\ pinned' = NoView /\ UNCHANGED <<up, batches, view, safe, must>>

Crash(c) ==
  /\ up' = FALSE /\ view' = Nothing /\ pinned' = NoView
  /\ must' = [k \in Keys |-> IF up THEN safe[c][k] ELSE Min({must[k], safe[c][k]})]
  /\ UNCHANGED <<batches, safe>>

(* Opened again, the database shows whole batches that were asked for,     *)
(* none older than the crash allows; what it shows then a later kill of    *)
(* the process cannot take, and what it showed it has written out.         *)
Open ==
  /\ ~up /\ up' = TRUE
  /\ view' \in [Keys -> 0..Len(batches)]
  /\ Whole(view') /\ \A k \in Keys : view'[k] >= must[k]
  /\ safe' = [c \in CrashKinds |-> view']
  /\ UNCHANGED <<batches, pinned, must>>

Next ==
  \/ \E b \in Batches : Ask(b)
  \/ \E ids \in SUBSET (1..Len(batches)) :
       \E sure \in [CrashKinds -> SUBSET ids] : Commit(ids, sure)
  \/ Pin \/ Unpin \/ Open
  \/ \E c \in CrashKinds : Crash(c)

Spec == Init /\ [][Next]_vars
=============================================================================
