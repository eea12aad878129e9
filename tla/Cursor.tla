------------------------------- MODULE Cursor -------------------------------
(***************************************************************************)
(* What an iterator promises (include/leveldb/iterator.h): it walks a set  *)
(* in the order of a comparator, in both directions, and each call ends at *)
(* the element it names in the set as it is when the call ends, or at      *)
(* none.  Elements may be added at any time and are never removed.         *)
(***************************************************************************)
CONSTANTS Elements, Nil, Less(_, _)

VARIABLES set,      \* what there is to walk over
          asked,    \* the call under way: its kind, and what it starts from
          at        \* where the last call ended

vars == <<set, asked, at>>

NoCall == [kind |-> "none", from |-> Nil]
Kinds == {"first", "last", "seek", "next", "prev"}

First(S) == IF S = {} THEN Nil ELSE CHOOSE e \in S : \A f \in S : ~Less(f, e)
Last(S) == IF S = {} THEN Nil ELSE CHOOSE e \in S : \A f \in S : ~Less(e, f)
AtOrAfter(S, e) == First({f \in S : ~Less(f, e)})
After(S, e) == First({f \in S : Less(e, f)})
BeforeIt(S, e) == Last({f \in S : Less(f, e)})

Answer(S, call) ==
  CASE call.kind = "first" -> First(S)
    [] call.kind = "last" -> Last(S)
    [] call.kind = "seek" -> AtOrAfter(S, call.from)
    [] call.kind = "next" -> After(S, call.from)
    [] call.kind = "prev" -> BeforeIt(S, call.from)

Init == set \subseteq Elements /\ asked = NoCall /\ at = Nil

Grow ==
  /\ set \subseteq set' /\ set' \subseteq Elements
  /\ UNCHANGED <<asked, at>>

(* Next and Prev go on from where the iterator is.                         *)
Ask(kind, from) ==
  /\ asked = NoCall
  /\ kind \in {"next", "prev"} => at # Nil /\ from = at
  /\ asked' = [kind |-> kind, from |-> from] /\ at' = Nil
  /\ UNCHANGED set

Return ==
  /\ asked # NoCall
  /\ at' = Answer(set, asked) /\ asked' = NoCall
  /\ UNCHANGED set

Next == Grow \/ Return \/ \E kind \in Kinds, from \in Elements \cup {Nil} : Ask(kind, from)

Spec == Init /\ [][Next]_vars
=============================================================================
