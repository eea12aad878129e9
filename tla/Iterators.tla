------------------------------ MODULE Iterators ------------------------------
(***************************************************************************)
(* DB::NewIterator's iterator: a DBIter (db/db_iter.cc) over a merging     *)
(* iterator (table/merger.cc) over the memtable, which goes on being       *)
(* written (SkipList), and a table file (Table), which does not change.    *)
(* The two upper iterators keep a direction and turn around: a step of     *)
(* theirs is several calls of those below, and the writer may be anywhere  *)
(* in between.                                                             *)
(*                                                                         *)
(* A node of the list and an entry of the table are a user key, a sequence *)
(* number and whether the write deletes; values are told apart by number.  *)
(***************************************************************************)
EXTENDS SkipList, FiniteSets

CONSTANTS UserKeys,      \* in the order of the user's comparator
          TableSize,     \* how many writes the table has
          Layouts,       \* block sizes and restart intervals, in entries
          MaxWrites      \* bound on the writes of the memtable

ASSUME IteratorsAssumption ==
  /\ UserKeys \subseteq Nat \ {0} /\ TableSize \in Nat \ {0} /\ MaxWrites \in Nat
  /\ Keys = [key : UserKeys, seq : 0..(TableSize + MaxWrites), del : BOOLEAN]
  /\ Layouts \subseteq [size : Nat \ {0}, interval : Nat \ {0}]

(* InternalKeyComparator: user keys upwards, then numbers downwards, then  *)
(* values before deletions.                                                *)
InternalOrder(a, b) ==
  \/ a.key < b.key
  \/ a.key = b.key /\ (a.seq > b.seq \/ (a.seq = b.seq /\ ~a.del /\ b.del))
ASSUME ComparatorAssumption == \A a, b \in Keys : Less(a, b) <=> InternalOrder(a, b)

VARIABLES file, pos,        \* the table, and the key its iterator is at
          last, published,  \* the number of the last write; last_sequence_
          current, mdir,    \* MergingIterator: current_ and direction_
          merge,            \* ... and its call under way
          sequence,         \* DBIter::sequence_, 0 before NewIterator
          dir, valid, saved,     \* DBIter: direction_, valid_, saved_key_ and _value_
          loop,             \* the loop it is in, with its locals
          call              \* history: what the user called, and from where

upper == <<file, last, published, sequence, call>>
merging == <<pos, current, mdir, merge>>
dbIter == <<dir, valid, saved, loop>>
vars == <<listVars, upper, merging, dbIter>>

NoMerge == [op |-> "none", from |-> Nil, turned |-> FALSE]
NotSaved == [key |-> 0, seq |-> 0]
NoLoop == [kind |-> "none", skipping |-> FALSE, type |-> "deletion"]
NoUserCall == [kind |-> "none", from |-> Nil]

UserKey(k) == k.key

(* A shortened key comes before every entry of its user key.               *)
Shortened(u) == [key |-> u, seq |-> TableSize + MaxWrites + 1, del |-> FALSE]
Between(a, b) == {Shortened(u) : u \in {v \in UserKeys : a.key < v /\ v < b.key}}
Behind(a) == {Shortened(u) : u \in {v \in UserKeys : a.key < v}}
Table == INSTANCE Table WITH FilterBase <- 2, User <- UserKey

(* The merging iterator's key().                                           *)
IterKey == IF current = "mem" THEN node ELSE pos
IterValid == current # "none"

(* The user's key() and value().                                           *)
Shown ==
  IF ~valid THEN Nil
  ELSE IF dir = "forward" THEN IterKey
  ELSE [key |-> saved.key, seq |-> saved.seq, del |-> FALSE]

Init ==
  /\ ListInit
  /\ \E w \in [1..TableSize -> UserKeys \X BOOLEAN], layout \in Layouts :
       LET entries == {[key |-> w[s][1], seq |-> s, del |-> w[s][2]] : s \in 1..TableSize}
       IN file = Table!Built(entries, layout.size, layout.interval)
  /\ last = TableSize /\ published = TableSize /\ sequence = 0
  /\ pos = Nil /\ current = "none" /\ mdir = "forward" /\ merge = NoMerge
  /\ dir = "forward" /\ valid = FALSE /\ saved = NotSaved /\ loop = NoLoop
  /\ call = NoUserCall

-----------------------------------------------------------------------------
(* The writer: WriteBatchInternal::InsertInto, entry by entry, and then    *)
(* SetLastSequence.                                                        *)

Write(key, del, height) ==
  /\ last < TableSize + MaxWrites /\ last' = last + 1
  /\ StartInsert([key |-> key, seq |-> last + 1, del |-> del], height)
  /\ UNCHANGED <<file, published, sequence, call, merging, dbIter>>

LinkNode == Link /\ UNCHANGED <<upper, merging, dbIter>>

Publish ==
  /\ insert = NoInsert /\ published < last /\ published' = last
  /\ UNCHANGED <<listVars, file, last, sequence, call, merging, dbIter>>

-----------------------------------------------------------------------------
(* MergingIterator.  The memtable's part of a call is a search, or two;    *)
(* the table's is done at the end.                                         *)

(* What the memtable's iterator is first asked to do.  A call that turns   *)
(* around positions the child that is not current by a Seek to key().      *)
Search(kind, from) == \E height \in 1..maxHeight : StartSearch(kind, from, height)
FirstSearch(op, from, turns) ==
  IF op \in {"first", "last", "seek"} THEN Search(op, from)
  ELSE IF current = "mem" THEN Search(op, node)
  ELSE IF turns THEN Search("seek", from)
  ELSE UNCHANGED listVars

MergeCallUnturned(op, from) ==     \* mutated: never turns around
  /\ FirstSearch(op, from, FALSE)
  /\ merge' = [op |-> op, from |-> from, turned |-> TRUE]
  /\ UNCHANGED <<pos, current, mdir>>

MergeCall(op, from) ==
  LET turns == \/ op = "next" /\ mdir # "forward"
               \/ op = "prev" /\ mdir # "reverse"
  IN /\ FirstSearch(op, from, turns)
     /\ merge' = [op |-> op, from |-> from, turned |-> ~turns]
     /\ UNCHANGED <<pos, current, mdir>>

(* Prev, after the Seek to key(): back from there, or the last of all.     *)
TurnBack ==
  /\ search = NoSearch /\ merge.op = "prev" /\ ~merge.turned /\ current = "table"
  /\ IF node # Nil THEN Search("prev", node) ELSE Search("last", Nil)
  /\ merge' = [merge EXCEPT !.turned = TRUE]
  /\ UNCHANGED <<upper, pos, current, mdir, dbIter>>

(* Where the table's iterator ends up.                                     *)
TablePos ==
  CASE merge.op = "first" -> Table!FirstKey(file)
    [] merge.op = "last" -> Table!LastKey(file)
    [] merge.op = "seek" -> Table!Seek(file, merge.from)
    [] merge.op = "next" /\ current = "table" -> Table!Next(file, pos)
    [] merge.op = "next" /\ current = "mem" ->
         IF merge.turned THEN pos ELSE Table!Seek(file, merge.from)
    [] merge.op = "prev" /\ current = "table" -> Table!Prev(file, pos)
    [] merge.op = "prev" /\ current = "mem" ->
         IF merge.turned THEN pos
         ELSE LET at == Table!Seek(file, merge.from)
              IN IF at = Nil THEN Table!LastKey(file) ELSE Table!Prev(file, at)

FindSmallest(n, p) ==
  IF n = Nil /\ p = Nil THEN "none"
  ELSE IF p = Nil \/ (n # Nil /\ Less(n, p)) THEN "mem" ELSE "table"
FindLargest(n, p) ==
  IF n = Nil /\ p = Nil THEN "none"
  ELSE IF p = Nil \/ (n # Nil /\ Less(p, n)) THEN "mem" ELSE "table"

MergeReturn ==
  LET back == merge.op \in {"last", "prev"} IN
  /\ merge # NoMerge /\ search = NoSearch
  /\ ~(merge.op = "prev" /\ ~merge.turned /\ current = "table")
  /\ pos' = TablePos
  /\ current' = IF back THEN FindLargest(node, pos') ELSE FindSmallest(node, pos')
  /\ mdir' = IF back THEN "reverse" ELSE "forward"
  /\ merge' = NoMerge
  /\ UNCHANGED <<listVars, upper, dbIter>>

-----------------------------------------------------------------------------
(* DBIter.                                                                 *)

MayCall == sequence # 0 /\ call = NoUserCall
Calls(kind, from) == call' = [kind |-> kind, from |-> from] /\ UNCHANGED <<file, last, published, sequence>>

Looking(kind, skipping) == [kind |-> kind, skipping |-> skipping, type |-> "deletion"]

NewIteratorUnpublished ==          \* mutated: takes the number of the write under way
  /\ sequence = 0 /\ sequence' = last
  /\ UNCHANGED <<listVars, file, last, published, call, merging, dbIter>>

NewIterator ==
  /\ sequence = 0 /\ sequence' = published
  /\ UNCHANGED <<listVars, file, last, published, call, merging, dbIter>>

SeekToFirst ==
  /\ MayCall /\ Calls("first", Nil) /\ MergeCall("first", Nil)
  /\ dir' = "forward" /\ loop' = Looking("next", FALSE)
  /\ UNCHANGED <<valid, saved>>

SeekToLast ==
  /\ MayCall /\ Calls("last", Nil) /\ MergeCall("last", Nil)
  /\ dir' = "reverse" /\ loop' = Looking("prev", FALSE)
  /\ UNCHANGED <<valid, saved>>

Seek(key) ==
  LET target == [key |-> key, seq |-> sequence, del |-> FALSE] IN
  /\ MayCall /\ Calls("seek", target) /\ MergeCall("seek", target)
  /\ dir' = "forward" /\ saved' = NotSaved /\ loop' = Looking("next", FALSE)
  /\ UNCHANGED valid

(* Turning around, the merging iterator is just before this key's entries. *)
NextKey ==
  /\ MayCall /\ valid /\ Calls("next", Shown)
  /\ dir' = "forward" /\ loop' = Looking("next", TRUE)
  /\ IF dir = "forward" THEN saved' = [NotSaved EXCEPT !.key = IterKey.key]
                             /\ UNCHANGED <<listVars, merging>>
     ELSE IF IterValid THEN MergeCall("next", IterKey) /\ UNCHANGED saved
     ELSE MergeCall("first", Nil) /\ UNCHANGED saved
  /\ UNCHANGED valid

PrevKey ==
  /\ MayCall /\ valid /\ Calls("prev", Shown)
  /\ IF dir = "forward" THEN /\ saved' = [NotSaved EXCEPT !.key = IterKey.key]
                             /\ loop' = Looking("turn", FALSE)
                             /\ MergeCall("prev", IterKey)
     ELSE loop' = Looking("prev", FALSE) /\ UNCHANGED <<listVars, merging, saved>>
  /\ UNCHANGED <<dir, valid>>

(* The loops look at the entry the merging iterator is at, and either go   *)
(* on to another or return to the user.                                    *)
Examining(kind) == merge = NoMerge /\ search = NoSearch /\ loop.kind = kind
Visible(e) == e.seq <= sequence

Return(nowValid) ==
  /\ valid' = nowValid /\ loop' = NoLoop /\ call' = NoUserCall
  /\ UNCHANGED <<listVars, file, last, published, sequence, merging>>

GoOn(op) == MergeCall(op, IterKey) /\ UNCHANGED <<upper, dir, valid>>

FindNextUserEntry ==
  LET e == IterKey
      hidden == loop.skipping /\ e.key <= saved.key
  IN /\ Examining("next")
     /\ \/ ~IterValid /\ Return(FALSE) /\ saved' = NotSaved /\ UNCHANGED dir
        \/ /\ IterValid /\ Visible(e) /\ ~e.del /\ ~hidden
           /\ Return(TRUE) /\ saved' = NotSaved /\ UNCHANGED dir
        \/ /\ IterValid /\ Visible(e) /\ e.del
           /\ GoOn("next") /\ saved' = [NotSaved EXCEPT !.key = e.key]
           /\ loop' = Looking("next", TRUE)
        \/ /\ IterValid /\ (Visible(e) => ~e.del /\ hidden)
           /\ GoOn("next") /\ UNCHANGED <<saved, loop>>

FindPrevUserEntry ==
  LET e == IterKey
      passed == loop.type # "deletion" /\ IterValid /\ Visible(e) /\ e.key < saved.key
  IN /\ Examining("prev")
     /\ \/ /\ (~IterValid /\ loop.type # "deletion") \/ passed
           /\ Return(TRUE) /\ UNCHANGED <<saved, dir>>
        \/ /\ ~IterValid /\ loop.type = "deletion"
           /\ Return(FALSE) /\ saved' = NotSaved /\ dir' = "forward"
        \/ /\ IterValid /\ ~passed
           /\ GoOn("prev")
           /\ IF ~Visible(e) THEN UNCHANGED <<saved, loop>>
              ELSE /\ saved' = IF e.del THEN NotSaved ELSE [key |-> e.key, seq |-> e.seq]
                   /\ loop' = [loop EXCEPT !.type = IF e.del THEN "deletion" ELSE "value"]

(* Prev's loop: back until the key changes.                                *)
TurnAround ==
  /\ Examining("turn")
  /\ \/ ~IterValid /\ Return(FALSE) /\ saved' = NotSaved /\ UNCHANGED dir
     \/ /\ IterValid /\ IterKey.key < saved.key
        /\ dir' = "reverse" /\ loop' = Looking("prev", FALSE)
        /\ UNCHANGED <<listVars, upper, merging, valid, saved>>
     \/ /\ IterValid /\ IterKey.key >= saved.key
        /\ GoOn("prev") /\ UNCHANGED <<saved, loop>>

(* Only the memtable's searches, and whichever of them the call began.     *)
Read == SearchStep /\ UNCHANGED <<upper, merging, dbIter>>

Writer == \/ \E key \in UserKeys, del \in BOOLEAN, height \in 1..MaxHeight : Write(key, del, height)
          \/ LinkNode \/ Publish
User == NewIterator \/ SeekToFirst \/ SeekToLast \/ NextKey \/ PrevKey \/ \E key \in UserKeys : Seek(key)
Reader == Read \/ TurnBack \/ MergeReturn \/ FindNextUserEntry \/ FindPrevUserEntry \/ TurnAround

Next == Writer \/ User \/ Reader
Spec == Init /\ [][Next]_vars

-----------------------------------------------------------------------------
TypeOK ==
  /\ Table!EntriesOf(file) \subseteq Keys /\ Contents \subseteq Keys
  /\ {node, pos} \subseteq Keys \cup {Nil}
  /\ published \in 0..last /\ sequence \in 0..last
  /\ current = "mem" => node # Nil \/ merge # NoMerge
  /\ current = "table" => pos # Nil
  /\ valid /\ call = NoUserCall /\ dir = "forward" => IterValid
  /\ (call = NoUserCall) = (loop = NoLoop)

(* What the user is to see: of each key the newest entry up to the         *)
(* snapshot, if it is not a deletion.                                      *)
Entries == Table!EntriesOf(file) \cup Contents
Snapshot ==
  {e \in Entries : /\ Visible(e) /\ ~e.del
                   /\ \A f \in Entries : Visible(f) /\ f.key = e.key => f.seq <= e.seq}

(* What is to be seen does not change while an iterator is open: it takes  *)
(* no number that a write under way may still use.                         *)
SnapshotStays == [][sequence # 0 => Snapshot' = Snapshot]_vars

(* The user walks the snapshot of NewIterator in order, forwards and       *)
(* backwards, whatever is written in the meantime.                         *)
Promise == INSTANCE Cursor WITH
             Elements <- Keys, set <- Snapshot, asked <- call,
             at <- IF call = NoUserCall THEN Shown ELSE Nil
WalksSnapshot == Promise!Spec
=============================================================================
