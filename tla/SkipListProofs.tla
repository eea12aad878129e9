--------------------------- MODULE SkipListProofs ---------------------------
(***************************************************************************)
(* The lists of SkipList stay in order and complete, and a reader that     *)
(* takes no lock walks the published nodes as a Cursor does: for every set *)
(* of keys, every comparator that orders it, and every height.             *)
(*                                                                         *)
(* That some node is the last before a key is an invariant of its own      *)
(* (Places): it is what the CHOOSE of LastBefore, the writer's search,     *)
(* needs, and it saves an induction over the nodes.                        *)
(***************************************************************************)
EXTENDS SkipList, TLAPS

SearchKinds == {"first", "last", "seek", "next", "prev"}

ListsType ==
  /\ links = [i \in Lists |-> links[i]]
  /\ \A i \in Lists : /\ Head \in DOMAIN links[i]
                      /\ DOMAIN links[i] \subseteq Keys \cup {Head}
                      /\ links[i] \in [DOMAIN links[i] -> Keys \cup {Nil}]
  /\ maxHeight \in 1..MaxHeight

InOrder == \A i \in Lists : \A n \in DOMAIN links[i] : IsNext(i, n, links[i][n])
Nested == \A i, j \in Lists : i < j => Nodes(j) \subseteq Nodes(i)

(* Every key has its place in every list.                                  *)
Place(i, n, key) == n \in DOMAIN links[i] /\ IsBefore(n, key) /\ ~IsBefore(links[i][n], key)
Places == \A i \in Lists, key \in Keys : \E n \in DOMAIN links[i] : Place(i, n, key)

(* The lists above the height have only head_.                             *)
Empty == \A i \in Lists : i >= maxHeight => DOMAIN links[i] = {Head}

(* The node being inserted is in the lists below its level, and the places *)
(* found for it in the others are still right.                             *)
InsertRight ==
  \/ insert = NoInsert
  \/ /\ insert = [key |-> insert.key, height |-> insert.height, prev |-> insert.prev,
                   level |-> insert.level]
     /\ insert.key \in Keys
     /\ insert.height \in 1..MaxHeight /\ insert.level \in 0..(insert.height - 1)
     /\ \A i \in Lists : i < insert.level => insert.key \in DOMAIN links[i]
     /\ \A i \in Lists : i >= insert.level => insert.key \notin DOMAIN links[i]
     /\ \A i \in Lists : i >= insert.level /\ i < insert.height =>
          Place(i, insert.prev[i], insert.key)
     /\ insert.height <= maxHeight

(* A search is at a node of its list, before what it looks for.            *)
SearchRight ==
  \/ search = NoSearch
  \/ /\ search = [kind |-> search.kind, from |-> search.from, x |-> search.x,
                   level |-> search.level]
     /\ search.kind \in SearchKinds /\ search.level \in Lists
     /\ search.from \in Keys
     /\ search.x \in DOMAIN links[search.level]
     /\ search.kind \in {"seek", "prev"} => IsBefore(search.x, search.from)
     /\ search.kind = "first" => search.x = Head /\ search.level = 0
     /\ search.kind = "next" => search.x = search.from /\ search.level = 0

NodeRight == node = Nil \/ node \in Contents

IInv == ListsType /\ InOrder /\ Nested /\ Places /\ Empty /\ InsertRight /\ SearchRight /\ NodeRight

-----------------------------------------------------------------------------
(* The initial states satisfy the invariant.                               *)
LEMMA Initially == ListInit => IInv
  <1> USE ListAssumption
  <1> SUFFICES ASSUME ListInit PROVE IInv
    OBVIOUS
  <1>1. /\ \A i \in Lists : DOMAIN links[i] = {Head} /\ links[i] = [n \in {Head} |-> Nil]
        /\ \A i \in Lists : Nodes(i) = {}
        /\ 0 \in Lists
    BY DEF ListInit, Nodes, Lists
  <1>2. ListsType
    BY <1>1 DEF ListsType, ListInit, Lists
  <1>3. InOrder /\ Nested /\ Empty
    BY <1>1 DEF InOrder, IsNext, Nested, Empty
  <1>4. Places
    BY <1>1 DEF Places, Place, IsBefore
  <1>5. InsertRight /\ SearchRight /\ NodeRight
    BY DEF ListInit, InsertRight, SearchRight, NodeRight
  <1> QED
    BY <1>2, <1>3, <1>4, <1>5 DEF IInv

(* What the search of the writer finds is the place of the key.            *)
LEMMA StartInsertKeeps ==
  ASSUME IInv, NEW key \in Keys, NEW height \in 1..MaxHeight, StartInsert(key, height)
  PROVE  IInv'
  <1> USE ListAssumption DEF IInv
  <1>1. UNCHANGED <<links, search, node>>
    BY DEF StartInsert
  <1>2. ListsType'
    <2>1. maxHeight' \in 1..MaxHeight
      BY DEF ListsType, StartInsert
    <2> QED
      BY <1>1, <2>1 DEF ListsType
  <1>3. InOrder' /\ Nested' /\ Places'
    BY <1>1 DEF InOrder, Nested, Places, Place, IsNext, Nodes
  <1>4. Empty'
    BY <1>1 DEF Empty, ListsType, StartInsert, Lists
  <1>5. SearchRight' /\ NodeRight'
    BY <1>1 DEF SearchRight, NodeRight, Contents, Nodes
  <1>6. \A i \in Lists : Place(i, IF i < maxHeight THEN LastBefore(i, key) ELSE Head, key)
    <2> TAKE i \in Lists
    <2>1. CASE i < maxHeight
      <3>1. \E n \in DOMAIN links[i] : IsBefore(n, key) /\ ~IsBefore(links[i][n], key)
        BY DEF Places, Place
      <3>2. Place(i, LastBefore(i, key), key)
        BY <3>1 DEF LastBefore, Place
      <3> QED
        BY <2>1, <3>2
    <2>2. CASE ~(i < maxHeight)
      <3>1. DOMAIN links[i] = {Head}
        BY <2>2 DEF Empty, ListsType, Lists
      <3>2. \E n \in DOMAIN links[i] : Place(i, n, key)
        BY DEF Places
      <3> QED
        BY <2>2, <3>1, <3>2
    <2> QED
      BY <2>1, <2>2
  <1>7. \A i \in Lists : key \notin DOMAIN links[i]
    <2>1. 0 \in Lists /\ \A i \in Lists : i = 0 \/ 0 < i
      BY DEF Lists
    <2> QED
      BY <2>1 DEF StartInsert, Contents, Nested, Nodes
  <1>8. InsertRight'
    <2>1. /\ insert'.key = key /\ insert'.height = height /\ insert'.level = 0
          /\ insert' = [key |-> insert'.key, height |-> insert'.height, prev |-> insert'.prev,
                        level |-> insert'.level]
      BY DEF StartInsert
    <2>2. \A i \in Lists : Place(i, insert'.prev[i], key)
      BY <1>6 DEF StartInsert
    <2>3. \A i \in Lists : Place(i, insert.prev[i], insert.key)'
      BY <1>1, <2>1, <2>2 DEF Place
    <2>4. height <= maxHeight'
      BY DEF StartInsert, ListsType
    <2> QED
      BY <1>1, <1>7, <2>1, <2>3, <2>4 DEF InsertRight, Lists
  <1> QED
    BY <1>2, <1>3, <1>4, <1>5, <1>8

(* Publishing a node: only list i changes, and in it only the pointer of   *)
(* the node before the new one.                                            *)
LEMMA LinkKeeps ==
  ASSUME IInv, Link
  PROVE  IInv'
  <1> USE ListAssumption DEF IInv
  <1>0. PICK i, K, P : i = insert.level /\ K = insert.key /\ P = insert.prev[i]
    OBVIOUS
  <1>1. /\ i \in Lists /\ K \in Keys /\ K \notin DOMAIN links[i]
        /\ P \in DOMAIN links[i] /\ IsBefore(P, K) /\ ~IsBefore(links[i][P], K)
        /\ i < insert.height /\ insert.height \in 1..MaxHeight /\ insert.height <= maxHeight
    BY <1>0 DEF InsertRight, Link, Lists, Place
  <1>2. /\ links' = [links EXCEPT ![i] = LinkedAt(links[i], P, K)]
        /\ maxHeight' = maxHeight /\ search' = search /\ node' = node
    BY <1>0 DEF Link
  <1>3. /\ links' = [j \in Lists |-> links'[j]]
        /\ \A j \in Lists : j # i => links'[j] = links[j]
        /\ links'[i] = LinkedAt(links[i], P, K)
    BY <1>1, <1>2 DEF ListsType
  <1>4. /\ DOMAIN links'[i] = DOMAIN links[i] \cup {K}
        /\ K # P /\ links'[i][P] = K /\ links'[i][K] = links[i][P]
        /\ \A n \in DOMAIN links[i] : n # P => links'[i][n] = links[i][n]
    BY <1>1, <1>3 DEF LinkedAt
  <1>5. /\ links[i][P] \in Keys \cup {Nil} /\ Head \in DOMAIN links[i]
        /\ DOMAIN links[i] \subseteq Keys \cup {Head}
        /\ \A n \in DOMAIN links[i] : links[i][n] \in Keys \cup {Nil}
    BY <1>1 DEF ListsType
  <1>6. ListsType'
    <2>1. links'[i] \in [DOMAIN links[i] \cup {K} -> Keys \cup {Nil}]
      BY <1>1, <1>3, <1>5 DEF LinkedAt
    <2> QED
      BY <1>1, <1>2, <1>3, <1>4, <1>5, <2>1 DEF ListsType
  <1>7. /\ \A j \in Lists : j # i => Nodes(j)' = Nodes(j)
        /\ Nodes(i)' = Nodes(i) \cup {K}
    BY <1>1, <1>3, <1>4 DEF Nodes
  <1>8. InOrder'
    <2> SUFFICES ASSUME NEW j \in Lists, NEW n \in DOMAIN links'[j]
                 PROVE  IsNext(j, n, links[j][n])'
      BY DEF InOrder
    <2>1. CASE j # i
      BY <1>3, <1>7, <2>1 DEF InOrder, IsNext
    <2>2. CASE j = i
      <3>1. \A m \in DOMAIN links[i] : IsNext(i, m, links[i][m])
        BY <1>1 DEF InOrder
      <3>2. CASE n = P
        <4>1. \A k \in Nodes(i) : (P = Head \/ Less(P, k)) => Less(K, k)
          BY <1>1, <1>5, <3>1, OrderAssumption DEF IsNext, IsBefore, Nodes
        <4> QED
          BY <1>1, <1>4, <1>7, <2>2, <3>2, <4>1 DEF IsNext, IsBefore, Nodes
      <3>3. CASE n = K
        <4>1. links[i][P] = Nil \/ (links[i][P] \in Nodes(i) /\ Less(K, links[i][P]))
          BY <1>1, <1>5, <3>1, OrderAssumption DEF IsNext, IsBefore, Nodes
        <4>2. \A k \in Nodes(i) : Less(K, k) => P = Head \/ Less(P, k)
          BY <1>1, <1>5, OrderAssumption DEF IsBefore, Nodes
        <4>3. \A k \in Nodes(i) :
                Less(K, k) => links[i][P] # Nil /\ (k = links[i][P] \/ Less(links[i][P], k))
          BY <1>1, <3>1, <4>2 DEF IsNext
        <4> QED
          BY <1>1, <1>4, <1>7, <2>2, <3>3, <4>1, <4>3, OrderAssumption DEF IsNext
      <3>4. CASE n # P /\ n # K
        <4>1. n \in DOMAIN links[i] /\ links'[i][n] = links[i][n] /\ IsNext(i, n, links[i][n])
          BY <1>4, <2>2, <3>1, <3>4
        <4>2. n = Head \/ Less(n, K) => links[i][n] # Nil /\ (K = links[i][n] \/ Less(links[i][n], K))
          <5> SUFFICES ASSUME n = Head \/ Less(n, K)
                       PROVE  links[i][n] # Nil /\ Less(links[i][n], K)
            OBVIOUS
          <5>1. P # Head /\ P \in Nodes(i) /\ (n = Head \/ Less(n, P))
            <6>1. ~(P = Head \/ Less(P, n)) \/ n = Head
              BY <1>1, <1>5, <3>1, <4>1, OrderAssumption DEF IsNext, IsBefore, Nodes
            <6>2. P # Head
              BY <1>1, <1>5, <3>4, <6>1
            <6> QED
              BY <1>1, <1>5, <3>4, <4>1, <6>1, <6>2, OrderAssumption DEF Nodes
          <5>2. links[i][n] # Nil /\ (P = links[i][n] \/ Less(links[i][n], P))
            BY <4>1, <5>1 DEF IsNext
          <5> QED
            BY <1>1, <1>5, <4>1, <5>1, <5>2, OrderAssumption DEF IsBefore
        <4> QED
          BY <1>1, <1>7, <2>2, <4>1, <4>2 DEF IsNext
      <3> QED
        BY <3>2, <3>3, <3>4
    <2> QED
      BY <2>1, <2>2
  <1>9. Nested'
    <2>1. \A j \in Lists : j < i => K \in Nodes(j)
      BY <1>0, <1>1 DEF InsertRight, Link, Nodes
    <2> QED
      BY <1>1, <1>7, <2>1 DEF Nested, Lists
  <1>10. Places'
    <2> SUFFICES ASSUME NEW j \in Lists, NEW key \in Keys
                 PROVE  \E n \in DOMAIN links'[j] : Place(j, n, key)'
      BY DEF Places
    <2>1. PICK n \in DOMAIN links[j] : Place(j, n, key)
      BY DEF Places
    <2>2. CASE j # i \/ n # P
      <3>1. n \in DOMAIN links'[j] /\ links'[j][n] = links[j][n]
        BY <1>3, <1>4, <2>2
      <3> QED
        BY <2>1, <3>1 DEF Place
    <2>3. CASE j = i /\ n = P /\ IsBefore(K, key)
      BY <1>1, <1>4, <2>1, <2>3 DEF Place
    <2>4. CASE j = i /\ n = P /\ ~IsBefore(K, key)
      BY <1>1, <1>4, <2>1, <2>4 DEF Place
    <2> QED
      BY <2>2, <2>3, <2>4
  <1>11. Empty'
    BY <1>1, <1>2, <1>3 DEF Empty, ListsType, Lists
  <1>12. InsertRight'
    <2>1. CASE i + 1 = insert.height
      BY <1>0, <2>1 DEF Link, InsertRight
    <2>2. CASE i + 1 # insert.height
      <3>1. /\ insert # NoInsert /\ insert' = [insert EXCEPT !.level = i + 1]
            /\ insert = [key |-> insert.key, height |-> insert.height, prev |-> insert.prev,
                         level |-> insert.level]
        BY <1>0, <2>2 DEF Link, InsertRight
      <3>2. /\ insert'.key = K /\ insert'.height = insert.height /\ insert'.prev = insert.prev
            /\ insert'.level = i + 1 /\ insert' # NoInsert
            /\ insert' = [key |-> insert'.key, height |-> insert'.height, prev |-> insert'.prev,
                          level |-> insert'.level]
        BY <1>0, <1>1, <3>1 DEF NoInsert
      <3>3. \A j \in Lists : j < i + 1 => K \in DOMAIN links'[j]
        <4>1. \A j \in Lists : j < i => K \in DOMAIN links[j]
          BY <1>0, <3>1 DEF InsertRight
        <4> QED
          BY <1>1, <1>3, <1>4, <4>1 DEF Lists
      <3>4. \A j \in Lists : j >= i + 1 => links'[j] = links[j] /\ K \notin DOMAIN links[j]
        <4>1. \A j \in Lists : j >= i => K \notin DOMAIN links[j]
          BY <1>0, <3>1 DEF InsertRight
        <4> QED
          BY <1>1, <1>3, <4>1 DEF Lists
      <3>5. \A j \in Lists : j >= i + 1 /\ j < insert.height => Place(j, insert.prev[j], K)
        <4>1. \A j \in Lists : j >= i /\ j < insert.height => Place(j, insert.prev[j], K)
          BY <1>0, <3>1 DEF InsertRight
        <4> QED
          BY <1>1, <4>1 DEF Lists
      <3>6. \A j \in Lists : j >= insert'.level /\ j < insert'.height =>
              Place(j, insert.prev[j], insert.key)'
        BY <3>2, <3>4, <3>5 DEF Place
      <3>7. insert'.height \in 1..MaxHeight /\ insert'.level \in 0..(insert'.height - 1)
        BY <1>1, <2>2, <3>2 DEF Lists
      <3> QED
        BY <1>1, <1>2, <3>2, <3>3, <3>4, <3>6, <3>7 DEF InsertRight
    <2> QED
      BY <2>1, <2>2
  <1>13. SearchRight' /\ NodeRight'
    <2>1. \A j \in Lists : DOMAIN links[j] \subseteq DOMAIN links'[j]
      BY <1>3, <1>4
    <2>2. SearchRight'
      BY <1>2, <2>1 DEF SearchRight
    <2>3. Contents \subseteq Contents'
      BY <1>1, <1>7 DEF Contents, Lists
    <2> QED
      BY <1>2, <2>2, <2>3 DEF NodeRight
  <1> QED
    BY <1>6, <1>8, <1>9, <1>10, <1>11, <1>12, <1>13

(* Level 0 exists, and below every other level there is one.               *)
LEMMA ZeroIsList == 0 \in Lists /\ \A i \in Lists : i = 0 \/ (0 < i /\ i - 1 \in Lists /\ i - 1 < i)
  BY ListAssumption DEF Lists

(* Starting a search changes no link.                                      *)
LEMMA StartSearchKeeps ==
  ASSUME IInv, NEW kind \in SearchKinds, NEW from \in Keys, NEW height \in 1..maxHeight,
         StartSearch(kind, from, height)
  PROVE  IInv'
  <1> USE ListAssumption DEF IInv
  <1>1. UNCHANGED <<links, maxHeight, insert>> /\ node' = Nil
    BY DEF StartSearch
  <1>2. ListsType' /\ InOrder' /\ Nested' /\ Places' /\ Empty' /\ InsertRight' /\ NodeRight'
    BY <1>1 DEF ListsType, InOrder, IsNext, Nested, Nodes, Places, Place, Empty, InsertRight,
                NodeRight
  <1>3. SearchRight'
    <2>1. height - 1 \in Lists /\ 0 \in Lists /\ \A i \in Lists : Head \in DOMAIN links[i]
      BY DEF ListsType, Lists
    <2>2. kind = "next" => from \in DOMAIN links[0]
      BY DEF StartSearch, NodeRight, Contents, Nodes
    <2>3. /\ search'.kind = kind /\ search'.from = from
          /\ search'.x = IF kind = "next" THEN from ELSE Head
          /\ search'.level = IF kind \in {"first", "next"} THEN 0 ELSE height - 1
          /\ search' = [kind |-> search'.kind, from |-> search'.from, x |-> search'.x,
                        level |-> search'.level]
      BY DEF StartSearch
    <2>4. search'.level \in Lists /\ search'.x \in DOMAIN links[search'.level]
      BY <2>1, <2>2, <2>3
    <2> QED
      BY <1>1, <2>3, <2>4 DEF SearchRight, IsBefore
  <1> QED
    BY <1>2, <1>3

(* A step of a search passes only nodes before its key.                    *)
LEMMA SearchStepKeeps ==
  ASSUME IInv, SearchStep
  PROVE  IInv'
  <1> DEFINE next == links[search.level][search.x]
  <1> USE ListAssumption DEF IInv
  <1>1. UNCHANGED <<links, maxHeight, insert>>
    BY DEF SearchStep
  <1>2. ListsType' /\ InOrder' /\ Nested' /\ Places' /\ Empty' /\ InsertRight'
    BY <1>1 DEF ListsType, InOrder, IsNext, Nested, Nodes, Places, Place, Empty, InsertRight
  <1>3. /\ search = [kind |-> search.kind, from |-> search.from, x |-> search.x,
                     level |-> search.level]
        /\ search.kind \in SearchKinds /\ search.level \in Lists /\ search.from \in Keys
        /\ search.x \in DOMAIN links[search.level]
        /\ search.kind \in {"seek", "prev"} => IsBefore(search.x, search.from)
        /\ search.kind = "first" => search.x = Head /\ search.level = 0
        /\ search.kind = "next" => search.x = search.from /\ search.level = 0
    BY DEF SearchRight, SearchStep
  <1>4. next = Nil \/ next \in Nodes(search.level)
    BY <1>3 DEF InOrder, IsNext
  <1>5. Nodes(search.level) \subseteq Keys
    BY <1>3 DEF Nodes, ListsType
  <1>6. CASE Passes(next)
    <2>1. search' = [search EXCEPT !.x = next] /\ node' = node
      BY <1>6 DEF SearchStep
    <2>2. next # Nil /\ search.kind \in {"seek", "prev", "last"}
      BY <1>4, <1>5, <1>6 DEF Passes, IsBefore, Nodes
    <2>3. search.kind \in {"seek", "prev"} => IsBefore(next, search.from)
      BY <1>6 DEF Passes
    <2> HIDE DEF next
    <2>4. /\ search'.kind = search.kind /\ search'.from = search.from /\ search'.x = next
          /\ search'.level = search.level
          /\ search' = [kind |-> search'.kind, from |-> search'.from, x |-> search'.x,
                        level |-> search'.level]
      BY <1>3, <2>1
    <2>5. next \in DOMAIN links[search.level]
      BY <1>4, <2>2 DEF Nodes
    <2>6. SearchRight'
      BY <1>1, <1>3, <2>2, <2>3, <2>4, <2>5 DEF SearchRight
    <2>7. NodeRight'
      BY <1>1, <2>1 DEF NodeRight, Contents, Nodes
    <2> QED
      BY <1>2, <2>6, <2>7
  <1>7. CASE ~Passes(next) /\ search.level > 0
    <2>1. search' = [search EXCEPT !.level = @ - 1] /\ node' = node
      BY <1>7 DEF SearchStep
    <2>2. /\ search'.kind = search.kind /\ search'.from = search.from /\ search'.x = search.x
          /\ search'.level = search.level - 1
          /\ search' = [kind |-> search'.kind, from |-> search'.from, x |-> search'.x,
                        level |-> search'.level]
      BY <1>3, <2>1
    <2>3. search.level - 1 \in Lists /\ search.level - 1 < search.level
      BY <1>3, <1>7 DEF Lists
    <2>4. search.x \in DOMAIN links[search.level - 1]
      BY <1>3, <2>3 DEF Nested, Nodes, ListsType
    <2>5. SearchRight'
      BY <1>1, <1>3, <1>7, <2>2, <2>3, <2>4 DEF SearchRight, Lists
    <2>6. NodeRight'
      BY <1>1, <2>1 DEF NodeRight, Contents, Nodes
    <2> QED
      BY <1>2, <2>5, <2>6
  <1>8. CASE ~Passes(next) /\ ~(search.level > 0)
    <2>1. search' = NoSearch /\ node' = Found(next)
      BY <1>8 DEF SearchStep
    <2>2. search.level = 0
      BY <1>3, <1>8 DEF Lists
    <2>3. node' = Nil \/ node' \in Contents
      BY <1>3, <1>4, <2>1, <2>2 DEF Found, Contents, Nodes
    <2> QED
      BY <1>1, <1>2, <2>1, <2>3 DEF SearchRight, NodeRight, Contents, Nodes
  <1> QED
    BY <1>6, <1>7, <1>8

(* A step of something else.                                               *)
LEMMA StutterKeeps == IInv /\ UNCHANGED listVars => IInv'
  BY DEF IInv, listVars, ListsType, InOrder, IsNext, Nested, Nodes, Places, Place, Empty,
         InsertRight, SearchRight, NodeRight, Contents

(* In every reachable state the links of every level are in order, and a   *)
(* search stands where its key can still be found                          *)
(* (SkipList::FindGreaterOrEqual).                                         *)
THEOREM Invariance == ListSpec => []IInv
  <1>1. IInv /\ [ListNext]_listVars => IInv'
    <2> SUFFICES ASSUME IInv, [ListNext]_listVars PROVE IInv'
      OBVIOUS
    <2>1. CASE \E key \in Keys, height \in 1..MaxHeight : StartInsert(key, height)
      BY <2>1, StartInsertKeeps
    <2>2. CASE Link
      BY <2>2, LinkKeeps
    <2>3. CASE \E kind \in SearchKinds, from \in Keys, height \in 1..maxHeight :
                 StartSearch(kind, from, height)
      BY <2>3, StartSearchKeeps
    <2>4. CASE SearchStep
      BY <2>4, SearchStepKeeps
    <2>5. CASE UNCHANGED listVars
      BY <2>5, StutterKeeps
    <2> QED
      BY <2>1, <2>2, <2>3, <2>4, <2>5 DEF ListNext, SearchKinds
  <1> QED
    BY <1>1, Initially, PTL DEF ListSpec

(* Whatever the writer is doing, every list is in order and complete: a    *)
(* reader that enters it anywhere misses none of the nodes published.      *)
THEOREM ListsAlwaysInOrder == ListSpec => []ListsInOrder
  <1>1. IInv => ListsInOrder
    BY DEF IInv, ListsInOrder, InOrder, Nested
  <1> QED
    BY <1>1, Invariance, PTL

-----------------------------------------------------------------------------
(* SkipList implements Cursor.                                             *)

(* The least element is the first.                                         *)
LEMMA FirstIs ==
  ASSUME NEW S \in SUBSET Keys, NEW e \in S, \A f \in S : ~Less(f, e)
  PROVE  C!First(S) = e
  <1> DEFINE Least(d) == \A f \in S : ~Less(f, d)
  <1>1. \A d \in S : Least(d) => d = e
    BY OrderAssumption
  <1>2. (CHOOSE d \in S : Least(d)) = e
    BY <1>1
  <1> QED
    BY <1>2 DEF C!First

(* The greatest element is the last.                                       *)
LEMMA LastIs ==
  ASSUME NEW S \in SUBSET Keys, NEW e \in S, \A f \in S : ~Less(e, f)
  PROVE  C!Last(S) = e
  <1> DEFINE Greatest(d) == \A f \in S : ~Less(d, f)
  <1>1. \A d \in S : Greatest(d) => d = e
    BY OrderAssumption
  <1>2. (CHOOSE d \in S : Greatest(d)) = e
    BY <1>1
  <1> QED
    BY <1>2 DEF C!Last

(* What the last read of a search finds, against the nodes then published. *)
LEMMA SearchFinds ==
  ASSUME IInv, search # NoSearch, search.level = 0, ~Passes(links[0][search.x])
  PROVE  Found(links[0][search.x]) = C!Answer(Contents, [kind |-> search.kind, from |-> search.from])
  <1> DEFINE next == links[0][search.x]  from == search.from  x == search.x
             call == [kind |-> search.kind, from |-> search.from]
  <1> USE ListAssumption DEF IInv
  <1>1. /\ search.kind \in SearchKinds /\ from \in Keys
        /\ x \in DOMAIN links[0]
        /\ search.kind \in {"seek", "prev"} => IsBefore(x, from)
        /\ search.kind = "first" => x = Head
        /\ search.kind = "next" => x = from
    BY DEF SearchRight
  <1>2. Contents \subseteq Keys /\ Contents = Nodes(0) /\ (x = Head \/ x \in Contents)
    BY <1>1, ZeroIsList DEF Contents, Nodes, ListsType
  <1>3. /\ next = Nil \/ (next \in Contents /\ (x = Head \/ Less(x, next)))
        /\ \A k \in Contents : (x = Head \/ Less(x, k)) =>
             next # Nil /\ (k = next \/ Less(next, k))
    BY <1>1, <1>2, ZeroIsList DEF InOrder, IsNext
  <1> HIDE DEF next
  <1>4. next = Nil \/ next \in Keys
    BY <1>2, <1>3
  <1>5. CASE search.kind = "first"
    <2>1. C!Answer(Contents, call) = C!First(Contents)
      BY <1>5 DEF C!Answer
    <2>2. next = C!First(Contents)
      <3>1. CASE next = Nil
        BY <1>1, <1>3, <1>5, <3>1 DEF C!First
      <3>2. CASE next # Nil
        BY <1>1, <1>2, <1>3, <1>5, <3>2, FirstIs, OrderAssumption
      <3> QED
        BY <3>1, <3>2
    <2> QED
      BY <1>5, <2>1, <2>2 DEF Found, next
  <1>6. CASE search.kind = "next"
    <2> DEFINE S == {f \in Contents : Less(from, f)}
    <2>1. C!Answer(Contents, call) = C!First(S)
      BY <1>6 DEF C!Answer, C!After
    <2>2. next = C!First(S)
      <3>1. CASE next = Nil
        BY <1>1, <1>3, <1>6, <3>1 DEF C!First
      <3>2. CASE next # Nil
        <4>1. next \in S /\ \A f \in S : ~Less(f, next)
          BY <1>1, <1>2, <1>3, <1>6, <3>2, OrderAssumption
        <4> QED
          BY <1>2, <4>1, FirstIs
      <3> QED
        BY <3>1, <3>2
    <2> QED
      BY <1>6, <2>1, <2>2 DEF Found, next
  <1>7. CASE search.kind = "seek"
    <2> DEFINE S == {f \in Contents : ~Less(f, from)}
    <2>1. C!Answer(Contents, call) = C!First(S)
      BY <1>7 DEF C!Answer, C!AtOrAfter
    <2>2. next # Nil => ~Less(next, from)
      BY <1>7 DEF Passes, IsBefore, next
    <2>3. \A f \in S : x = Head \/ Less(x, f)
      BY <1>1, <1>2, <1>7, OrderAssumption DEF IsBefore
    <2>4. next = C!First(S)
      <3>1. CASE next = Nil
        BY <1>3, <2>3, <3>1 DEF C!First
      <3>2. CASE next # Nil
        <4>1. next \in S /\ \A f \in S : ~Less(f, next)
          BY <1>2, <1>3, <2>2, <2>3, <3>2, OrderAssumption
        <4> QED
          BY <1>2, <4>1, FirstIs
      <3> QED
        BY <3>1, <3>2
    <2> QED
      BY <1>7, <2>1, <2>4 DEF Found, next
  <1>8. CASE search.kind = "prev"
    <2> DEFINE S == {f \in Contents : Less(f, from)}
    <2>1. C!Answer(Contents, call) = C!Last(S)
      BY <1>8 DEF C!Answer, C!BeforeIt
    <2>2. next # Nil => ~Less(next, from)
      BY <1>8 DEF Passes, IsBefore, next
    <2>3. \A f \in S : ~(x = Head \/ Less(x, f))
      BY <1>1, <1>2, <1>3, <2>2, OrderAssumption
    <2>4. CASE x = Head
      <3>1. S = {}
        BY <2>3, <2>4
      <3> QED
        BY <1>8, <2>1, <2>4, <3>1 DEF Found, C!Last
    <2>5. CASE x # Head
      <3>1. x \in S
        BY <1>1, <1>2, <1>8, <2>5 DEF IsBefore
      <3>2. C!Last(S) = x
        BY <1>2, <2>3, <3>1, LastIs
      <3> QED
        BY <1>8, <2>1, <2>5, <3>2 DEF Found
    <2> QED
      BY <2>4, <2>5
  <1>9. CASE search.kind = "last"
    <2>1. C!Answer(Contents, call) = C!Last(Contents)
      BY <1>9 DEF C!Answer
    <2>2. next = Nil
      BY <1>9 DEF Passes, next
    <2>3. \A f \in Contents : ~(x = Head \/ Less(x, f))
      BY <1>3, <2>2
    <2>4. CASE x = Head
      <3>1. Contents = {}
        BY <2>3, <2>4
      <3> QED
        BY <1>9, <2>1, <2>4, <3>1 DEF Found, C!Last
    <2>5. CASE x # Head
      <3>1. C!Last(Contents) = x
        BY <1>2, <2>3, <2>5, LastIs
      <3> QED
        BY <1>9, <2>1, <2>5, <3>1 DEF Found
    <2> QED
      BY <2>4, <2>5
  <1> QED
    BY <1>1, <1>5, <1>6, <1>7, <1>8, <1>9 DEF SearchKinds

asked == [kind |-> search.kind, from |-> search.from]

(* Every step is one of the cursor over a set, or none.                    *)
LEMMA StepImplements ==
  ASSUME IInv, [ListNext]_listVars
  PROVE  [C!Next]_(C!vars)
  <1> USE ListAssumption
  <1>1. CASE \E key \in Keys, height \in 1..MaxHeight : StartInsert(key, height)
    <2>1. UNCHANGED <<links, search, node>>
      BY <1>1 DEF StartInsert
    <2> QED
      BY <2>1 DEF C!vars, Contents, Nodes
  <1>2. CASE Link
    <2>1. search' = search /\ node' = node
      BY <1>2 DEF Link
    <2>2. Contents \subseteq Contents' /\ Contents' \subseteq Keys
      <3>1. IInv'
        BY <1>2, LinkKeeps
      <3>2. Contents' \subseteq Keys
        BY <3>1, ZeroIsList DEF IInv, ListsType, Contents, Nodes
      <3>3. insert.level \in Lists /\ links' = [links EXCEPT ![insert.level] =
                                          LinkedAt(@, insert.prev[insert.level], insert.key)]
        BY <1>2 DEF Link, IInv, InsertRight, Lists
      <3>4. DOMAIN links[0] \subseteq DOMAIN links'[0]
        BY <3>3, ZeroIsList DEF IInv, ListsType, LinkedAt
      <3> QED
        BY <3>2, <3>4 DEF Contents, Nodes
    <2> QED
      BY <2>1, <2>2 DEF C!Next, C!Grow
  <1>3. CASE \E kind \in SearchKinds, from \in Keys, height \in 1..maxHeight :
               StartSearch(kind, from, height)
    <2>1. PICK kind \in SearchKinds, from \in Keys, height \in 1..maxHeight :
                 StartSearch(kind, from, height)
      BY <1>3
    <2>2. asked = C!NoCall /\ asked' = [kind |-> kind, from |-> from] /\ node' = Nil
      BY <2>1 DEF StartSearch, NoSearch, C!NoCall, asked
    <2>3. kind \in {"next", "prev"} => node # Nil /\ from = node
      BY <2>1 DEF StartSearch
    <2>4. Contents' = Contents
      BY <2>1 DEF StartSearch, Contents, Nodes
    <2>5. C!Ask(kind, from)
      BY <2>2, <2>3, <2>4 DEF C!Ask, asked
    <2> QED
      BY <2>5 DEF C!Next, C!Kinds, SearchKinds
  <1>4. CASE SearchStep
    <2> DEFINE next == links[search.level][search.x]
    <2>1. search # NoSearch /\ links' = links /\ Contents' = Contents
      BY <1>4 DEF SearchStep, Contents, Nodes
    <2>2. search = [kind |-> search.kind, from |-> search.from, x |-> search.x,
                    level |-> search.level] /\ search.kind \in SearchKinds /\ search.level \in Lists
      BY <2>1 DEF IInv, SearchRight
    <2>3. CASE Passes(next) \/ search.level > 0
      <3>1. node' = node /\ asked' = asked
        BY <1>4, <2>2, <2>3 DEF SearchStep, asked
      <3> QED
        BY <2>1, <3>1 DEF C!vars, asked
    <2>4. CASE ~Passes(next) /\ ~(search.level > 0)
      <3>1. search.level = 0
        BY <2>2, <2>4 DEF Lists
      <3>2. search' = NoSearch /\ node' = Found(links[0][search.x])
        BY <1>4, <2>4, <3>1 DEF SearchStep
      <3>3. node' = C!Answer(Contents, asked)
        BY <2>1, <2>4, <3>1, <3>2, SearchFinds DEF asked
      <3>4. asked # C!NoCall /\ asked' = C!NoCall
        BY <2>2, <3>2 DEF asked, C!NoCall, NoSearch, SearchKinds
      <3>5. C!Return
        BY <2>1, <3>3, <3>4 DEF C!Return, asked
      <3> QED
        BY <3>5 DEF C!Next
    <2> QED
      BY <2>3, <2>4
  <1>5. CASE UNCHANGED listVars
    BY <1>5 DEF listVars, C!vars, Contents, Nodes
  <1> QED
    BY <1>1, <1>2, <1>3, <1>4, <1>5 DEF ListNext, SearchKinds

(* A reader that takes no lock, between any two stores of the writer, gets *)
(* at each call of its iterator the node that call names among those then  *)
(* published, as if the call had been one step.                            *)
THEOREM ListImplementsCursor == ListSpec => ImplementsCursor
  <1>1. ListInit => C!Init
    <2> SUFFICES ASSUME ListInit PROVE C!Init
      OBVIOUS
    <2>1. Contents = {}
      BY ZeroIsList DEF ListInit, Contents, Nodes
    <2> QED
      BY <2>1 DEF ListInit, NoSearch, C!Init, C!NoCall
  <1>2. IInv /\ [ListNext]_listVars => [C!Next]_(C!vars)
    BY StepImplements
  <1> QED
    BY <1>1, <1>2, Invariance, PTL DEF ListSpec, ImplementsCursor, C!Spec
=============================================================================
