------------------------------ MODULE MCIterators ------------------------------
(* Iterators with the internal keys of a few user keys, and a check of its  *)
(* table files beyond the sizes a run can have.                             *)
EXTENDS Iterators

MCKeys == [key : UserKeys, seq : 0..(TableSize + MaxWrites), del : BOOLEAN]
MCLess(a, b) == InternalOrder(a, b)
MCLayouts == {[size |-> 1, interval |-> 1]}

(* The iterator of a table walks its entries like a Cursor: tables of up to *)
(* four entries over five user keys, in blocks of one to three, with all    *)
(* restart intervals; separators may be user keys between two entries; and  *)
(* the filters hide no entry from Get().                                    *)
Fives == [key : 1..5, seq : {1, 2}, del : {FALSE}]
Short(u) == [key |-> u, seq |-> 3, del |-> FALSE]
FiveBetween(a, b) == {Short(u) : u \in {v \in 1..5 : a.key < v /\ v < b.key}}
FiveBehind(a) == {Short(u) : u \in {v \in 1..5 : a.key < v}}
Big == INSTANCE Table WITH Less <- InternalOrder, Between <- FiveBetween, Behind <- FiveBehind,
                            User <- UserKey, FilterBase <- 2
Order == INSTANCE Cursor WITH Less <- InternalOrder, Elements <- Fives, set <- {},
                              asked <- NoUserCall, at <- Nil
ASSUME TableWalksItsEntries ==
  \A entries \in {S \in SUBSET Fives : Cardinality(S) \in 1..4} :
    \A size \in 1..3, interval \in 1..3 :
      LET made == Big!Built(entries, size, interval)
      IN /\ Big!EntriesOf(made) = entries
         /\ Big!FirstKey(made) = Order!First(entries) /\ Big!LastKey(made) = Order!Last(entries)
         /\ \A e \in entries : /\ Big!Next(made, e) = Order!After(entries, e)
                               /\ Big!Prev(made, e) = Order!BeforeIt(entries, e)
         /\ \A e \in Fives \cup {Short(u) : u \in 1..5} :
              LET at == Order!AtOrAfter(entries, e)
                  got == Big!InternalGet(made, e)
              IN /\ Big!Seek(made, e) = at
                 /\ IF at # Nil /\ at.key = e.key THEN got = at ELSE got = Nil \/ got.key # e.key
=============================================================================
