------------------------------ MODULE SkipList ------------------------------
(***************************************************************************)
(* The memtable's skip list (db/skiplist.h): one writer, whom the caller   *)
(* keeps alone, and a reader that takes no lock.  A node is its key.  The  *)
(* nodes of list i are DOMAIN links[i] and links[i][n] is next_[i] of node *)
(* n; a node is in a list from the release store that publishes it.        *)
(*                                                                         *)
(* Each step reads or publishes one pointer.  max_height_ is read without  *)
(* a barrier: the reader may see any value it has had.  The other reads    *)
(* are acquire loads of what one writer publishes with release stores: a   *)
(* reader that gets older pointers is one that has read them earlier, and  *)
(* is not modelled apart.                                                  *)
(***************************************************************************)
EXTENDS Integers

CONSTANTS Keys, Less(_, _),   \* the template's Key and Comparator
          Head, Nil,          \* head_ and NULL
          MaxHeight           \* kMaxHeight

ASSUME OrderAssumption ==
  /\ \A a \in Keys : ~Less(a, a)
  /\ \A a, b \in Keys : a = b \/ Less(a, b) \/ Less(b, a)
  /\ \A a, b, c \in Keys : Less(a, b) /\ Less(b, c) => Less(a, c)
ASSUME ListAssumption ==
  Head \notin Keys /\ Nil \notin Keys /\ Head # Nil /\ MaxHeight \in Nat \ {0}

VARIABLES links, maxHeight,
          insert,     \* the writer's call: its key, height, prev[] and i
          search,     \* the reader's call: its kind, argument, x and level
          node        \* the reader's Iterator::node_

listVars == <<links, maxHeight, insert, search, node>>

Lists == 0..(MaxHeight - 1)
NoInsert == [key |-> Nil, height |-> 0, prev |-> [i \in Lists |-> Head], level |-> 0]
NoSearch == [kind |-> "none", from |-> Nil, x |-> Head, level |-> 0]
Nodes(i) == DOMAIN links[i] \ {Head}
Contents == Nodes(0)

(* KeyIsAfterNode, with head_ before every key.                            *)
IsBefore(n, key) == n = Head \/ (n # Nil /\ Less(n, key))

ListInit ==
  /\ links = [i \in Lists |-> [n \in {Head} |-> Nil]] /\ maxHeight = 1
  /\ insert = NoInsert /\ search = NoSearch /\ node = Nil

-----------------------------------------------------------------------------
(* Insert.                                                                 *)

LastBefore(i, key) ==
  CHOOSE n \in DOMAIN links[i] : IsBefore(n, key) /\ ~IsBefore(links[i][n], key)

(* FindGreaterOrEqual fills prev[] as far as the lists go; the height is   *)
(* random; nobody else moves the list before the node is published.        *)
StartInsert(key, height) ==
  /\ insert = NoInsert /\ key \notin Contents
  /\ insert' = [key |-> key, height |-> height, level |-> 0,
                prev |-> [i \in Lists |-> IF i < maxHeight THEN LastBefore(i, key) ELSE Head]]
  /\ maxHeight' = IF height > maxHeight THEN height ELSE maxHeight
  /\ UNCHANGED <<links, search, node>>

LinkedAtLate(list, prev, key) ==   \* mutated: reads prev's pointer after publishing
  [n \in DOMAIN list \cup {key} |-> IF n \in {prev, key} THEN key ELSE list[n]]

LinkedAt(list, prev, key) ==
  [n \in DOMAIN list \cup {key} |->
     IF n = prev THEN key ELSE IF n = key THEN list[prev] ELSE list[n]]

(* One turn of the loop, up to SetNext.                                    *)
Link ==
  LET i == insert.level IN
  /\ insert # NoInsert
  /\ links' = [links EXCEPT ![i] = LinkedAt(@, insert.prev[i], insert.key)]
  /\ insert' = IF i + 1 = insert.height THEN NoInsert ELSE [insert EXCEPT !.level = i + 1]
  /\ UNCHANGED <<maxHeight, search, node>>

-----------------------------------------------------------------------------
(* Iterator: SeekToFirst and Next read one pointer, the others search from *)
(* the top; Prev looks for the key it is at.                               *)

StartSearch(kind, from, height) ==
  /\ search = NoSearch
  /\ kind \in {"next", "prev"} => node # Nil /\ from = node
  /\ search' = [kind |-> kind, from |-> from, x |-> IF kind = "next" THEN from ELSE Head,
                level |-> IF kind \in {"first", "next"} THEN 0 ELSE height - 1]
  /\ node' = Nil
  /\ UNCHANGED <<links, maxHeight, insert>>

PassesEqual(next) ==               \* mutated: Prev looks for the last node up to the key
  \/ search.kind \in {"seek", "prev"} /\ IsBefore(next, search.from)
  \/ search.kind = "prev" /\ next = search.from
  \/ search.kind = "last" /\ next # Nil

(* FindGreaterOrEqual and FindLessThan; FindLast.                          *)
Passes(next) ==
  \/ search.kind \in {"seek", "prev"} /\ IsBefore(next, search.from)
  \/ search.kind = "last" /\ next # Nil

Found(next) ==
  IF search.kind \in {"first", "next", "seek"} THEN next
  ELSE IF search.x = Head THEN Nil ELSE search.x

SearchStep ==
  LET next == links[search.level][search.x] IN
  /\ search # NoSearch
  /\ IF Passes(next) THEN search' = [search EXCEPT !.x = next] /\ UNCHANGED node
     ELSE IF search.level > 0 THEN search' = [search EXCEPT !.level = @ - 1] /\ UNCHANGED node
     ELSE search' = NoSearch /\ node' = Found(next)
  /\ UNCHANGED <<links, maxHeight, insert>>

ListNext ==
  \/ \E key \in Keys, height \in 1..MaxHeight : StartInsert(key, height)
  \/ Link
  \/ \E kind \in {"first", "last", "seek", "next", "prev"}, from \in Keys, height \in 1..maxHeight :
       StartSearch(kind, from, height)
  \/ SearchStep

ListSpec == ListInit /\ [][ListNext]_listVars

-----------------------------------------------------------------------------
(* Every list is in order and complete, whatever the writer is doing: the  *)
(* next pointer of a node is the first of the list's nodes after it; what  *)
(* is in a list is in those below it; and the writer's prev[] is right.    *)
IsNext(i, n, m) ==
  /\ m = Nil \/ (m \in Nodes(i) /\ (n = Head \/ Less(n, m)))
  /\ \A k \in Nodes(i) : (n = Head \/ Less(n, k)) => m # Nil /\ (k = m \/ Less(m, k))
ListsInOrder ==
  /\ \A i \in Lists : \A n \in DOMAIN links[i] : IsNext(i, n, links[i][n])
  /\ \A i, j \in Lists : i < j => Nodes(j) \subseteq Nodes(i)

(* The list is a set that a Cursor walks: every call of the reader ends at *)
(* the node it names, of those published when it makes its last read.      *)
C == INSTANCE Cursor WITH
       Elements <- Keys, set <- Contents,
       asked <- [kind |-> search.kind, from |-> search.from], at <- node
ImplementsCursor == C!Spec
=============================================================================
