-------------------------------- MODULE Table --------------------------------
(***************************************************************************)
(* A table file of the storage engine and its iterator: entries packed     *)
(* into blocks (table/block_builder.cc, table/table_builder.cc), each      *)
(* searched from its restart points (table/block.cc), under an index with  *)
(* one separator for each block (table/two_level_iterator.cc), and the     *)
(* filters that spare Get() a block (table/filter_block.cc).               *)
(*                                                                         *)
(* The data is read-only, so a call of the iterator is a function of where *)
(* it stands.  Offsets are numbers of entries; the prefixes that entries   *)
(* between two restart points share are left out, but an entry is reached  *)
(* only by walking to it from a restart point, since it is decoded from    *)
(* the one before.  Blocks can be read.                                    *)
(***************************************************************************)
EXTENDS SequencesExt

CONSTANTS Less(_, _), Nil,
          Between(_, _),     \* shorter keys than the first, after it and before the second
          Behind(_),         \* shorter keys after one
          User(_),           \* the user's part of a key
          FilterBase         \* kFilterBase

-----------------------------------------------------------------------------
(* Building.                                                               *)

(* BlockBuilder::Add: the first entry and every interval-th after it start *)
(* afresh.                                                                 *)
Restarts(n, interval) == [r \in 1..((n + interval - 1) \div interval) |-> (r - 1) * interval + 1]
Block(entries, interval) ==
  [entries |-> entries, restarts |-> Restarts(Len(entries), interval)]

(* TableBuilder::Add and Finish: a block ends when it is big enough, and   *)
(* its entry in the index waits for the key that follows.                  *)
Pack(entries, size) ==
  [b \in 1..((Len(entries) + size - 1) \div size) |->
     SubSeq(entries, (b - 1) * size + 1, Min({b * size, Len(entries)}))]

(* FindShortestSeparator and FindShortSuccessor of the internal keys.      *)
Shortest(keys, key) == IF keys = {} THEN key ELSE CHOOSE k \in keys : \A l \in keys : ~Less(l, k)

Built(entries, size, interval) ==
  LET packed == Pack(SetToSortSeq(entries, Less), size)
      separator(b) == IF b < Len(packed) THEN Shortest(Between(Last(packed[b]), packed[b + 1][1]), Last(packed[b]))
                      ELSE Shortest(Behind(Last(packed[b])), Last(packed[b]))
  IN [blocks |-> [b \in DOMAIN packed |-> Block(packed[b], interval)],
      index |-> Block([b \in DOMAIN packed |-> separator(b)], 1)]

(* FilterBlockBuilder: a filter for every FilterBase of the file, with the  *)
(* user keys of the blocks that begin there.                               *)
GenerateFilter(f) == [f EXCEPT !.filters = Append(@, f.keys), !.keys = {}]
StartBlock(f, offset) ==
  FoldLeft(LAMBDA g, n : GenerateFilter(g), f,
           [n \in 1..(offset \div FilterBase - Len(f.filters)) |-> n])
Filters(file) ==
  LET add(f, block) ==
        [StartBlock([f EXCEPT !.keys = @ \cup {User(k) : k \in ToSet(block.entries)}],
                    f.offset + Len(block.entries))
           EXCEPT !.offset = @ + Len(block.entries)]
      f == FoldLeft(add, [filters |-> << >>, keys |-> {}, offset |-> 0], file.blocks)
  IN (IF f.keys = {} THEN f ELSE GenerateFilter(f)).filters

EntriesOf(file) == UNION {ToSet(file.blocks[b].entries) : b \in DOMAIN file.blocks}

-----------------------------------------------------------------------------
(* Block::Iter.  Entries are numbered from 1; 0 is not valid.              *)

(* ParseNextKey, again and again from a restart point until one of `stops` *)
(* is reached or there is nothing more.                                    *)
WalkFrom(block, restart, stops) ==
  LET ahead == stops \cap (block.restarts[restart]..Len(block.entries))
  IN IF ahead = {} THEN 0 ELSE Min(ahead)

(* The last restart point with a key before the target, or the first.      *)
LastRestart(block, target) ==
  LET n == Len(block.restarts)
      narrow[left \in 1..n, right \in 0..n] ==
        LET mid == (left + right + 1) \div 2
        IN IF left >= right THEN left
           ELSE IF Less(block.entries[block.restarts[mid]], target) THEN narrow[mid, right]
           ELSE narrow[left, mid - 1]
  IN narrow[1, n]

BlockSeek(block, target) ==
  WalkFrom(block, LastRestart(block, target),
           {i \in DOMAIN block.entries : ~Less(block.entries[i], target)})

BlockNext(block, i) == IF i < Len(block.entries) THEN i + 1 ELSE 0

(* Back to a restart point strictly before, and forward up to the entry    *)
(* that ends where this one begins.                                        *)
BlockPrev(block, i) ==
  LET before == {r \in DOMAIN block.restarts : block.restarts[r] < i}
  IN IF before = {} THEN 0 ELSE WalkFrom(block, Max(before), {j \in DOMAIN block.entries : j + 1 >= i})

BlockLast(block) ==
  WalkFrom(block, Len(block.restarts), {j \in DOMAIN block.entries : j + 1 > Len(block.entries)})

-----------------------------------------------------------------------------
(* TwoLevelIterator: a place is a block and an entry of it.                *)

Key(file, b, i) == file.blocks[b].entries[i]
Places(file) == UNION {{b} \X DOMAIN file.blocks[b].entries : b \in DOMAIN file.blocks}
Place(file, key) == CHOOSE p \in Places(file) : Key(file, p[1], p[2]) = key

(* SkipEmptyDataBlocksForward and ...Backward: on to the next block of the *)
(* index, from its first entry, or back to the one before, from its last.  *)
Forward(file, b, i) ==
  IF i # 0 THEN Key(file, b, i)
  ELSE LET n == BlockNext(file.index, b) IN IF n = 0 THEN Nil ELSE Key(file, n, 1)
Backward(file, b, i) ==
  IF i # 0 THEN Key(file, b, i)
  ELSE LET n == BlockPrev(file.index, b) IN IF n = 0 THEN Nil ELSE Key(file, n, BlockLast(file.blocks[n]))

FirstKey(file) == Key(file, 1, 1)
LastKey(file) == LET b == BlockLast(file.index) IN Key(file, b, BlockLast(file.blocks[b]))
Seek(file, target) ==
  LET b == BlockSeek(file.index, target)
  IN IF b = 0 THEN Nil ELSE Forward(file, b, BlockSeek(file.blocks[b], target))
Next(file, key) ==
  LET at == Place(file, key) IN Forward(file, at[1], BlockNext(file.blocks[at[1]], at[2]))
Prev(file, key) ==
  LET at == Place(file, key) IN Backward(file, at[1], BlockPrev(file.blocks[at[1]], at[2]))

-----------------------------------------------------------------------------
(* Table::InternalGet: the entry it shows to Get(), which looks at its     *)
(* user key.  A filter may match keys that are not there; then the block   *)
(* says so.                                                                *)
Offset(file, b) == FoldLeft(LAMBDA n, block : n + Len(block.entries), 0, SubSeq(file.blocks, 1, b - 1))
KeyMayMatch(file, b, key) ==
  LET n == Offset(file, b) \div FilterBase + 1
  IN n \in DOMAIN Filters(file) => User(key) \in Filters(file)[n]
InternalGet(file, target) ==
  LET b == BlockSeek(file.index, target)
      i == IF b = 0 \/ ~KeyMayMatch(file, b, target) THEN 0 ELSE BlockSeek(file.blocks[b], target)
  IN IF i = 0 THEN Nil ELSE Key(file, b, i)
=============================================================================
