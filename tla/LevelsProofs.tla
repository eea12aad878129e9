---------------------------- MODULE LevelsProofs ----------------------------
(***************************************************************************)
(* What holds of Levels for any user keys, number of levels, limits and    *)
(* bounds.                                                                 *)
(*                                                                         *)
(*   1. orders and finite sets                                             *)
(*   2. tables and ranges of user keys                                     *)
(*   3. the tables that touch a range                                      *)
(*   4. the inputs of a compaction                                         *)
(*   5. the outputs of a compaction                                        *)
(*   6. the invariant LevelsInv                                            *)
(*   7. every step keeps it: LevelsDisjoint                                *)
(*   8. reads                                                              *)
(*   9. every step keeps WholeInv: ReadsNewestIfWhole                      *)
(*                                                                         *)
(* LevelsDisjoint is not inductive.  A compaction installs its outputs     *)
(* where other tables may have come since it chose its inputs, so the      *)
(* inputs must be known to lie together: what none of them touches has all *)
(* of them on one side, and so has whatever PickLevelForMemTableOutput     *)
(* lets into their levels.  ReadsNewestIfWhole says nothing of the entries *)
(* a read does not find; what is kept is that all that is stored answers   *)
(* every view as all the writes would, and that Get() finds the newest of  *)
(* what is stored, since entries of a key get older from the memtable down *)
(* and from table to table of level 0.  A compaction that drops a deletion *)
(* must know that nothing below has its key, though it looked before the   *)
(* last flushes.                                                           *)
(***************************************************************************)
EXTENDS Levels, FiniteSetTheorems, SequenceTheorems, WellFoundedInduction, TLAPS

(* Entries, and what sets of them have.                                    *)
Entry == [key : Keys, seq : Nat \ {0}, del : BOOLEAN]
Distinct(S) == \A d, e \in S : d.seq = e.seq => d = e
Entries(files) == UNION {f.entries : f \in files}

-----------------------------------------------------------------------------
(* 1. Orders and finite sets. *)

(* A set of numbers that has 0 and every successor has them all.           *)
LEMMA AllNumbers ==
  ASSUME NEW T \in SUBSET Nat, 0 \in T, \A m \in T : m + 1 \in T
  PROVE  T = Nat
<1> SUFFICES ASSUME NEW x \in Nat, x \notin T PROVE FALSE OBVIOUS
<1> DEFINE R == Nat \ T
<1>1. PICK y \in R : \A z \in R : ~ (<<z, y>> \in OpToRel(<, Nat))
  <2>1. R \in SUBSET Nat /\ R # {} OBVIOUS
  <2> HIDE DEF R
  <2> QED BY <2>1, NatLessThanWellFounded, WFMin
<1>2. \A z \in R : ~ (z < y) BY <1>1 DEF OpToRel
<1>3. y # 0 /\ y - 1 \in Nat OBVIOUS
<1>4. y - 1 \in T BY <1>2, <1>3
<1>5. (y - 1) + 1 = y OBVIOUS
<1> QED BY <1>4, <1>5

(* A finite set without one of its elements is finite, and has one less.   *)
LEMMA WithoutOne ==
  ASSUME NEW S, IsFiniteSet(S), NEW x \in S, NEW m \in Nat, Cardinality(S) = m + 1
  PROVE  IsFiniteSet(S \ {x}) /\ Cardinality(S \ {x}) = m
<1>1. IsFiniteSet(S \ {x}) /\ Cardinality(S \ {x}) = Cardinality(S) - 1 BY FS_RemoveElement
<1> QED BY <1>1

(* Finite sets of numbers have a smallest and a largest one.               *)
LEMMA Extremes ==
  ASSUME NEW S \in SUBSET Nat, IsFiniteSet(S), S # {}
  PROVE  /\ Min(S) \in S /\ \A y \in S : Min(S) <= y
         /\ Max(S) \in S /\ \A y \in S : y <= Max(S)
<1> DEFINE Least(X) == \E x \in X : \A y \in X : x <= y
           Most(X) == \E x \in X : \A y \in X : x >= y
           T == {n \in Nat : \A X \in SUBSET Nat :
                   IsFiniteSet(X) /\ Cardinality(X) = n /\ X # {} => Least(X) /\ Most(X)}
<1>1. 0 \in T
  <2> SUFFICES ASSUME NEW X \in SUBSET Nat, IsFiniteSet(X), Cardinality(X) = 0, X # {} PROVE FALSE
    OBVIOUS
  <2> QED BY FS_EmptySet
<1>2. ASSUME NEW m \in T PROVE m + 1 \in T
  <2> SUFFICES ASSUME NEW X \in SUBSET Nat, IsFiniteSet(X), Cardinality(X) = m + 1, X # {}
               PROVE  Least(X) /\ Most(X)
    OBVIOUS
  <2>1. PICK x \in X : TRUE OBVIOUS
  <2>2. IsFiniteSet(X \ {x}) /\ Cardinality(X \ {x}) = m BY <2>1, WithoutOne
  <2>3. CASE X \ {x} = {} BY <2>1, <2>3
  <2>4. CASE X \ {x} # {}
    <3>1. Least(X \ {x}) /\ Most(X \ {x}) BY <2>2, <2>4
    <3>2. PICK z \in X \ {x} : \A y \in X \ {x} : z <= y BY <3>1
    <3>3. PICK w \in X \ {x} : \A y \in X \ {x} : w >= y BY <3>1
    <3>4. Least(X)
      <4>1. CASE x <= z BY <2>1, <3>2, <4>1
      <4>2. CASE ~ (x <= z) BY <2>1, <3>2, <4>2
      <4> QED BY <4>1, <4>2
    <3>5. Most(X)
      <4>1. CASE x >= w BY <2>1, <3>3, <4>1
      <4>2. CASE ~ (x >= w) BY <2>1, <3>3, <4>2
      <4> QED BY <4>1, <4>2
    <3> QED BY <3>4, <3>5
  <2> QED BY <2>3, <2>4
<1>3. T \in SUBSET Nat OBVIOUS
<1>4. Cardinality(S) \in Nat BY FS_CardinalityType
<1>5. Cardinality(S) \in T
  <2> HIDE DEF T
  <2> QED BY <1>1, <1>2, <1>3, <1>4, AllNumbers
<1>6. Least(S) /\ Most(S) BY <1>5
<1>7. Min(S) \in S /\ \A y \in S : Min(S) <= y BY <1>6 DEF Min
<1>8. Max(S) \in S /\ \A y \in S : Max(S) >= y BY <1>6 DEF Max
<1>9. \A y \in S : y <= Max(S) BY <1>8
<1> QED BY <1>7, <1>8, <1>9

(* The order of entries.                                                   *)
LEMMA BeforeOrder ==
  /\ \A a \in Entry : ~ Before(a, a)
  /\ \A a, b \in Entry : Before(a, b) => ~ Before(b, a) /\ a # b /\ a.key <= b.key
  /\ \A a, b \in Entry : a.seq # b.seq => Before(a, b) \/ Before(b, a)
  /\ \A a, b, c \in Entry : Before(a, b) /\ Before(b, c) => Before(a, c)
  /\ \A a, b \in Entry : a.key < b.key => Before(a, b)
  /\ \A a, b \in Entry : a.key = b.key /\ a.seq > b.seq => Before(a, b)
<1>1. \A a \in Entry : a.key \in Nat /\ a.seq \in Nat BY LevelsAssumption DEF Entry
<1> QED BY <1>1 DEF Before

(* A finite set of entries with different numbers has a first and a last.  *)
LEMMA FirstAndLast ==
  ASSUME NEW S \in SUBSET Entry, Distinct(S), IsFiniteSet(S), S # {}
  PROVE  /\ Foremost(S) \in S /\ \A e \in S \ {Foremost(S)} : Before(Foremost(S), e)
         /\ Hindmost(S) \in S /\ \A e \in S \ {Hindmost(S)} : Before(e, Hindmost(S))
<1> DEFINE HasFirst(X) == \E d \in X : \A e \in X \ {d} : Before(d, e)
           HasLast(X) == \E d \in X : \A e \in X \ {d} : Before(e, d)
           T == {n \in Nat : \A X \in SUBSET Entry :
                   IsFiniteSet(X) /\ Cardinality(X) = n /\ Distinct(X) /\ X # {} => HasFirst(X) /\ HasLast(X)}
<1>1. 0 \in T
  <2> SUFFICES ASSUME NEW X \in SUBSET Entry, IsFiniteSet(X), Cardinality(X) = 0, X # {} PROVE FALSE
    OBVIOUS
  <2> QED BY FS_EmptySet
<1>2. ASSUME NEW m \in T PROVE m + 1 \in T
  <2> SUFFICES ASSUME NEW X \in SUBSET Entry, IsFiniteSet(X), Cardinality(X) = m + 1, Distinct(X), X # {}
               PROVE  HasFirst(X) /\ HasLast(X)
    OBVIOUS
  <2>1. PICK x \in X : TRUE OBVIOUS
  <2>2. IsFiniteSet(X \ {x}) /\ Cardinality(X \ {x}) = m BY <2>1, WithoutOne
  <2>3. CASE X \ {x} = {} BY <2>1, <2>3
  <2>4. CASE X \ {x} # {}
    <3>1. Distinct(X \ {x}) BY DEF Distinct
    <3>2. HasFirst(X \ {x}) /\ HasLast(X \ {x}) BY <2>2, <2>4, <3>1
    <3>3. PICK p \in X \ {x} : \A e \in (X \ {x}) \ {p} : Before(p, e) BY <3>2
    <3>4. PICK q \in X \ {x} : \A e \in (X \ {x}) \ {q} : Before(e, q) BY <3>2
    <3>5. x \in Entry /\ p \in Entry /\ q \in Entry /\ x.seq # p.seq /\ x.seq # q.seq
      BY <2>1 DEF Distinct
    <3>6. HasFirst(X)
      <4>1. CASE Before(x, p)
        <5>1. \A e \in X \ {x} : Before(x, e) BY <3>3, <3>5, <4>1, BeforeOrder
        <5> QED BY <2>1, <5>1
      <4>2. CASE Before(p, x)
        <5>1. \A e \in X \ {p} : Before(p, e) BY <3>3, <4>2
        <5> QED BY <3>3, <5>1
      <4> QED BY <3>5, <4>1, <4>2, BeforeOrder
    <3>7. HasLast(X)
      <4>1. CASE Before(q, x)
        <5>1. \A e \in X \ {x} : Before(e, x) BY <3>4, <3>5, <4>1, BeforeOrder
        <5> QED BY <2>1, <5>1
      <4>2. CASE Before(x, q)
        <5>1. \A e \in X \ {q} : Before(e, q) BY <3>4, <4>2
        <5> QED BY <3>4, <5>1
      <4> QED BY <3>5, <4>1, <4>2, BeforeOrder
    <3> QED BY <3>6, <3>7
  <2> QED BY <2>3, <2>4
<1>3. T \in SUBSET Nat OBVIOUS
<1>4. Cardinality(S) \in Nat BY FS_CardinalityType
<1>5. Cardinality(S) \in T
  <2> HIDE DEF T
  <2> QED BY <1>1, <1>2, <1>3, <1>4, AllNumbers
<1>6. HasFirst(S) /\ HasLast(S) BY <1>5
<1>7. Foremost(S) \in S /\ \A e \in S \ {Foremost(S)} : Before(Foremost(S), e) BY <1>6 DEF Foremost
<1>8. Hindmost(S) \in S /\ \A e \in S \ {Hindmost(S)} : Before(e, Hindmost(S)) BY <1>6 DEF Hindmost
<1> QED BY <1>7, <1>8

-----------------------------------------------------------------------------
(* 2. Tables and ranges of user keys. *)

(* A table as the model has it, and sets of tables on either side of a key.*)
Table(f) == /\ f.entries \in SUBSET Entry /\ IsFiniteSet(f.entries) /\ f.entries # {}
            /\ Distinct(f.entries)
Tables(S) == IsFiniteSet(S) /\ \A f \in S : Table(f)
Avoids(S, lo, hi) == \A f \in S : ~ Overlaps(f, lo, hi)
AllAbove(S, key) == \A f \in S : key < Smallest(f).key
AllBelow(S, key) == \A f \in S : Largest(f).key < key
(* What no table of S lies over, all of S is on one side of.               *)
Together(S) == \A lo, hi \in Nat : lo <= hi /\ Avoids(S, lo, hi) => AllAbove(S, hi) \/ AllBelow(S, lo)

(* The smaller and the larger of two numbers.                              *)
LEMMA OfTwo ==
  ASSUME NEW a \in Nat, NEW b \in Nat
  PROVE  /\ Min({a, b}) \in Nat /\ Min({a, b}) <= a /\ Min({a, b}) <= b
         /\ Min({a, b}) = a \/ Min({a, b}) = b
         /\ Max({a, b}) \in Nat /\ a <= Max({a, b}) /\ b <= Max({a, b})
         /\ Max({a, b}) = a \/ Max({a, b}) = b
<1>1. {a, b} \in SUBSET Nat /\ IsFiniteSet({a, b}) /\ {a, b} # {}
  <2>1. IsFiniteSet({a}) BY FS_Singleton
  <2>2. {a, b} = {a} \cup {b} OBVIOUS
  <2> QED BY <2>1, <2>2, FS_AddElement
<1> QED BY <1>1, Extremes

(* The ends of a table.                                                    *)
LEMMA TableEnds ==
  ASSUME NEW f, Table(f)
  PROVE  /\ Smallest(f) \in f.entries /\ Largest(f) \in f.entries
         /\ Smallest(f).key \in Nat /\ Largest(f).key \in Nat /\ Smallest(f).key <= Largest(f).key
         /\ \A e \in f.entries : /\ e.key \in Nat /\ Smallest(f).key <= e.key /\ e.key <= Largest(f).key
                                 /\ e = Smallest(f) \/ Before(Smallest(f), e)
                                 /\ e = Largest(f) \/ Before(e, Largest(f))
<1>1. PICK S \in SUBSET Entry : S = f.entries /\ Distinct(S) /\ IsFiniteSet(S) /\ S # {} BY DEF Table
<1>2. PICK a, b : a = Foremost(S) /\ b = Hindmost(S) OBVIOUS
<1>3. a \in S /\ (\A e \in S \ {a} : Before(a, e)) /\ b \in S /\ \A e \in S \ {b} : Before(e, b)
  BY <1>1, <1>2, FirstAndLast
<1>4. \A e \in S : e.key \in Nat /\ e \in Entry BY <1>1, LevelsAssumption DEF Entry
<1>5. \A e \in S : e = a \/ Before(a, e) BY <1>3
<1>6. \A e \in S : e = b \/ Before(e, b) BY <1>3
<1>7. \A e \in S : a.key <= e.key /\ e.key <= b.key BY <1>3, <1>4, <1>5, <1>6, BeforeOrder
<1>8. Smallest(f) = a /\ Largest(f) = b BY <1>1, <1>2 DEF Smallest, Largest
<1>9. a.key <= b.key /\ a.key \in Nat /\ b.key \in Nat BY <1>3, <1>4, <1>7
<1> QED BY <1>1, <1>3, <1>4, <1>5, <1>6, <1>7, <1>8, <1>9

(* The range of some tables.                                               *)
LEMMA RangeOf ==
  ASSUME NEW S, Tables(S), S # {}
  PROVE  /\ Low(S) \in Nat /\ High(S) \in Nat /\ Low(S) <= High(S)
         /\ \A f \in S : Low(S) <= Smallest(f).key /\ Largest(f).key <= High(S)
         /\ \E f \in S : Low(S) = Smallest(f).key
         /\ \E f \in S : High(S) = Largest(f).key
<1> DEFINE A == {Smallest(f).key : f \in S}
           B == {Largest(f).key : f \in S}
<1>1. A \in SUBSET Nat /\ B \in SUBSET Nat /\ A # {} /\ B # {} BY TableEnds DEF Tables
<1>2. IsFiniteSet(A) /\ IsFiniteSet(B)
  <2>1. IsFiniteSet(S) BY DEF Tables
  <2>2. [f \in S |-> Smallest(f).key] \in Surjection(S, A) BY DEF Surjection
  <2>3. [f \in S |-> Largest(f).key] \in Surjection(S, B) BY DEF Surjection
  <2> HIDE DEF A, B
  <2> QED BY <2>1, <2>2, <2>3, FS_Surjection
<1>3. /\ Min(A) \in A /\ \A y \in A : Min(A) <= y
      /\ Max(B) \in B /\ \A y \in B : y <= Max(B)
  <2> HIDE DEF A, B
  <2> QED BY <1>1, <1>2, Extremes
<1>4. Low(S) = Min(A) /\ High(S) = Max(B) BY DEF Low, High
<1>5. \A f \in S : Smallest(f).key \in A /\ Largest(f).key \in B OBVIOUS
<1>6. Low(S) \in A /\ High(S) \in B /\ \A f \in S : Low(S) <= Smallest(f).key /\ Largest(f).key <= High(S)
  <2> HIDE DEF A, B
  <2> QED BY <1>3, <1>4, <1>5
<1>7. PICK f \in S : Low(S) = Smallest(f).key BY <1>6
<1>8. Low(S) <= High(S)
  <2>1. Table(f) BY DEF Tables
  <2>2. Smallest(f).key \in Nat /\ Largest(f).key \in Nat /\ Smallest(f).key <= Largest(f).key BY <2>1, TableEnds
  <2>3. Low(S) \in Nat /\ High(S) \in Nat BY <1>1, <1>6
  <2>4. Largest(f).key <= High(S) BY <1>6
  <2> QED BY <1>7, <2>2, <2>3, <2>4
<1> QED BY <1>1, <1>6, <1>8

(* More tables have a wider range.                                         *)
LEMMA RangeGrows ==
  ASSUME NEW T, Tables(T), NEW S \in SUBSET T, S # {}
  PROVE  Tables(S) /\ Low(T) <= Low(S) /\ High(S) <= High(T)
<1>1. Tables(S) BY FS_Subset DEF Tables
<1>2. T # {} OBVIOUS
<1>3. PICK f \in S : Low(S) = Smallest(f).key BY <1>1, RangeOf
<1>4. PICK g \in S : High(S) = Largest(g).key BY <1>1, RangeOf
<1>5. Low(T) <= Smallest(f).key BY <1>2, RangeOf
<1>6. Largest(g).key <= High(T) BY <1>2, RangeOf
<1> QED BY <1>1, <1>3, <1>4, <1>5, <1>6

(* A table that lies not over a range is on one side of it.                *)
LEMMA OneSide ==
  ASSUME NEW f, Table(f), NEW lo \in Nat, NEW hi \in Nat
  PROVE  Overlaps(f, lo, hi) <=> ~ (Largest(f).key < lo) /\ ~ (hi < Smallest(f).key)
<1>1. Smallest(f).key \in Nat /\ Largest(f).key \in Nat BY TableEnds
<1> QED BY <1>1 DEF Overlaps

(* It lies over a wider range if over a narrower.                          *)
LEMMA OverlapsWider ==
  ASSUME NEW f, Table(f), NEW lo \in Nat, NEW hi \in Nat, NEW p \in Nat, NEW q \in Nat,
         p <= lo, hi <= q, Overlaps(f, lo, hi)
  PROVE  Overlaps(f, p, q)
<1>1. Smallest(f).key \in Nat /\ Largest(f).key \in Nat BY TableEnds
<1> QED BY <1>1 DEF Overlaps

-----------------------------------------------------------------------------
(* 3. The tables that touch a range. *)

(* The tables found include what lies over the range.                      *)
LEMMA ClosedLeast ==
  ASSUME NEW files, Tables(files), NEW lo \in Nat, NEW hi \in Nat
  PROVE  \E S \in SUBSET files :
           /\ Closed(S, files, lo, hi)
           /\ \A T \in SUBSET files : Closed(T, files, lo, hi) => S \subseteq T
<1> DEFINE S == {f \in files : \A T \in SUBSET files : Closed(T, files, lo, hi) => f \in T}
<1>1. \A T \in SUBSET files : Closed(T, files, lo, hi) => S \subseteq T OBVIOUS
<1>2. Closed(S, files, lo, hi)
  <2> SUFFICES ASSUME NEW f \in files,
                      Overlaps(f, lo, hi) \/ (S # {} /\ Overlaps(f, Min({lo, Low(S)}), Max({hi, High(S)}))),
                      NEW T \in SUBSET files, Closed(T, files, lo, hi)
               PROVE  f \in T
    BY DEF Closed
  <2>1. CASE Overlaps(f, lo, hi) BY <2>1 DEF Closed
  <2>2. CASE S # {} /\ Overlaps(f, Min({lo, Low(S)}), Max({hi, High(S)}))
    <3>1. S \subseteq T /\ S # {} /\ T # {} BY <1>1, <2>2
    <3> HIDE DEF S
    <3>2. Tables(T) BY FS_Subset DEF Tables
    <3>3. Tables(S) /\ Low(T) <= Low(S) /\ High(S) <= High(T) BY <3>1, <3>2, RangeGrows
    <3>4. Low(S) \in Nat /\ High(S) \in Nat /\ Low(T) \in Nat /\ High(T) \in Nat
      BY <3>1, <3>2, <3>3, RangeOf
    <3>5. PICK a, b, c, d : /\ a = Min({lo, Low(S)}) /\ b = Max({hi, High(S)})
                            /\ c = Min({lo, Low(T)}) /\ d = Max({hi, High(T)})
      OBVIOUS
    <3>6. a \in Nat /\ b \in Nat /\ c \in Nat /\ d \in Nat /\ c <= a /\ b <= d
      <4>1. /\ a \in Nat /\ (a = lo \/ a = Low(S)) /\ c \in Nat /\ c <= lo /\ c <= Low(T)
        BY <3>4, <3>5, OfTwo
      <4>2. /\ b \in Nat /\ (b = hi \/ b = High(S)) /\ d \in Nat /\ hi <= d /\ High(T) <= d
        BY <3>4, <3>5, OfTwo
      <4> QED BY <3>3, <3>4, <4>1, <4>2
    <3>7. Table(f) /\ Overlaps(f, a, b) BY <2>2, <3>5 DEF Tables
    <3>8. Overlaps(f, c, d) BY <3>6, <3>7, OverlapsWider
    <3> QED BY <3>1, <3>5, <3>8 DEF Closed
  <2> QED BY <2>1, <2>2
<1>3. S \in SUBSET files OBVIOUS
<1> HIDE DEF S
<1> QED BY <1>1, <1>2, <1>3

(* GetOverlappingInputs: what it finds, in level 0 and below.              *)
LEMMA Found ==
  ASSUME NEW v, NEW l \in Levels, Tables(v[l]), NEW lo \in Nat, NEW hi \in Nat
  PROVE  /\ OverlappingInputs(v, l, lo, hi) \in SUBSET v[l]
         /\ \A f \in v[l] : Overlaps(f, lo, hi) => f \in OverlappingInputs(v, l, lo, hi)
         /\ l # 0 => \A f \in OverlappingInputs(v, l, lo, hi) : Overlaps(f, lo, hi)
         /\ l = 0 => /\ Closed(OverlappingInputs(v, l, lo, hi), v[0], lo, hi)
                     /\ \A T \in SUBSET v[0] : Closed(T, v[0], lo, hi) => OverlappingInputs(v, l, lo, hi) \subseteq T
<1>1. CASE l # 0 BY <1>1 DEF OverlappingInputs
<1>2. CASE l = 0
  <2>1. \E S \in SUBSET v[0] :
           /\ Closed(S, v[0], lo, hi)
           /\ \A T \in SUBSET v[0] : Closed(T, v[0], lo, hi) => S \subseteq T
    BY <1>2, ClosedLeast
  <2>2. PICK S : S = OverlappingInputs(v, l, lo, hi) OBVIOUS
  <2>3. S = CHOOSE X \in SUBSET v[0] :
                  /\ Closed(X, v[0], lo, hi)
                  /\ \A T \in SUBSET v[0] : Closed(T, v[0], lo, hi) => X \subseteq T
    BY <1>2, <2>2 DEF OverlappingInputs
  <2>4. /\ S \in SUBSET v[0] /\ Closed(S, v[0], lo, hi)
        /\ \A T \in SUBSET v[0] : Closed(T, v[0], lo, hi) => S \subseteq T
    BY <2>1, <2>3
  <2>5. \A f \in v[0] : Overlaps(f, lo, hi) => f \in S BY <2>4 DEF Closed
  <2> QED BY <1>2, <2>2, <2>4, <2>5
<1> QED BY <1>1, <1>2

(* Tables found for a range on one side of what they leave free lie on     *)
(* that side.                                                              *)
LEMMA SideAbove ==
  ASSUME NEW v, NEW l \in Levels, Tables(v[l]), NEW lo \in Nat, NEW hi \in Nat,
         NEW p \in Nat, NEW q \in Nat, p <= q, q < lo,
         Avoids(OverlappingInputs(v, l, lo, hi), p, q)
  PROVE  AllAbove(OverlappingInputs(v, l, lo, hi), q)
<1>1. PICK S : S = OverlappingInputs(v, l, lo, hi) OBVIOUS
<1>2. S \in SUBSET v[l] /\ \A f \in S : Table(f) /\ ~ Overlaps(f, p, q)
  BY <1>1, Found DEF Tables, Avoids
<1>3. \A f \in S : /\ Smallest(f).key \in Nat /\ Largest(f).key \in Nat
                   /\ Largest(f).key < p \/ q < Smallest(f).key
  BY <1>2, TableEnds, OneSide
<1>4. CASE l # 0
  <2>1. \A f \in S : Overlaps(f, lo, hi) BY <1>1, <1>4, Found
  <2>2. \A f \in S : ~ (Largest(f).key < lo) BY <2>1, <1>2, OneSide
  <2>3. \A f \in S : q < Smallest(f).key BY <1>3, <2>2
  <2> QED BY <1>1, <2>3 DEF AllAbove
<1>5. CASE l = 0
  <2> DEFINE T == {f \in S : q < Smallest(f).key}
  <2>1. Closed(S, v[0], lo, hi) /\ \A U \in SUBSET v[0] : Closed(U, v[0], lo, hi) => S \subseteq U
    BY <1>1, <1>5, Found
  <2>2. Closed(T, v[0], lo, hi)
    <3> SUFFICES ASSUME NEW f \in v[0],
                        Overlaps(f, lo, hi) \/ (T # {} /\ Overlaps(f, Min({lo, Low(T)}), Max({hi, High(T)})))
                 PROVE  f \in T
      BY DEF Closed
    <3>1. Table(f) BY <1>5 DEF Tables
    <3>2. CASE Overlaps(f, lo, hi)
      <4>1. f \in S BY <2>1, <3>2 DEF Closed
      <4>2. ~ (Largest(f).key < lo) BY <3>1, <3>2, OneSide
      <4> QED BY <1>3, <4>1, <4>2
    <3>3. CASE T # {} /\ Overlaps(f, Min({lo, Low(T)}), Max({hi, High(T)}))
      <4>1. \A x \in T : q < Smallest(x).key OBVIOUS
      <4>2. T \in SUBSET S /\ S \in SUBSET v[0] /\ S # {} BY <1>2, <1>5, <3>3
      <4> HIDE DEF T
      <4>3. Tables(S) BY <1>5, <4>2, FS_Subset DEF Tables
      <4>4. Tables(T) /\ Low(S) <= Low(T) /\ High(T) <= High(S) BY <3>3, <4>2, <4>3, RangeGrows
      <4>5. Low(S) \in Nat /\ High(S) \in Nat BY <4>2, <4>3, RangeOf
      <4>6. Low(T) \in Nat /\ High(T) \in Nat /\ \E x \in T : Low(T) = Smallest(x).key
        BY <3>3, <4>4, RangeOf
      <4>7. q < Low(T) BY <4>1, <4>6
      <4>8. PICK a, b, c, d : /\ a = Min({lo, Low(T)}) /\ b = Max({hi, High(T)})
                              /\ c = Min({lo, Low(S)}) /\ d = Max({hi, High(S)})
        OBVIOUS
      <4>9. a \in Nat /\ (a = lo \/ a = Low(T)) /\ c \in Nat /\ c <= lo /\ c <= Low(S)
        BY <4>5, <4>6, <4>8, OfTwo
      <4>10. b \in Nat /\ (b = hi \/ b = High(T)) /\ d \in Nat /\ hi <= d /\ High(S) <= d
        BY <4>5, <4>6, <4>8, OfTwo
      <4>11. c <= a /\ b <= d /\ q < a BY <4>4, <4>5, <4>6, <4>7, <4>9, <4>10
      <4>12. Overlaps(f, a, b) BY <3>3, <4>8
      <4>13. Overlaps(f, c, d) BY <3>1, <4>9, <4>10, <4>11, <4>12, OverlapsWider
      <4>14. f \in S BY <2>1, <4>2, <4>8, <4>13 DEF Closed
      <4>15. ~ (Largest(f).key < a) BY <3>1, <4>9, <4>10, <4>12, OneSide
      <4>16. q < Smallest(f).key BY <1>3, <4>9, <4>11, <4>14, <4>15
      <4> QED BY <4>14, <4>16 DEF T
    <3> QED BY <3>2, <3>3
  <2>3. T \in SUBSET v[0] BY <1>2, <1>5
  <2>4. S \subseteq T
    <3> HIDE DEF T
    <3> QED BY <2>1, <2>2, <2>3
  <2> QED BY <1>1, <2>4 DEF AllAbove
<1> QED BY <1>4, <1>5

(* The same below.                                                         *)
LEMMA SideBelow ==
  ASSUME NEW v, NEW l \in Levels, Tables(v[l]), NEW lo \in Nat, NEW hi \in Nat,
         NEW p \in Nat, NEW q \in Nat, p <= q, hi < p,
         Avoids(OverlappingInputs(v, l, lo, hi), p, q)
  PROVE  AllBelow(OverlappingInputs(v, l, lo, hi), p)
<1>1. PICK S : S = OverlappingInputs(v, l, lo, hi) OBVIOUS
<1>2. S \in SUBSET v[l] /\ \A f \in S : Table(f) /\ ~ Overlaps(f, p, q)
  BY <1>1, Found DEF Tables, Avoids
<1>3. \A f \in S : /\ Smallest(f).key \in Nat /\ Largest(f).key \in Nat
                   /\ Largest(f).key < p \/ q < Smallest(f).key
  BY <1>2, TableEnds, OneSide
<1>4. CASE l # 0
  <2>1. \A f \in S : Overlaps(f, lo, hi) BY <1>1, <1>4, Found
  <2>2. \A f \in S : ~ (hi < Smallest(f).key) BY <2>1, <1>2, OneSide
  <2>3. \A f \in S : Largest(f).key < p BY <1>3, <2>2
  <2> QED BY <1>1, <2>3 DEF AllBelow
<1>5. CASE l = 0
  <2> DEFINE T == {f \in S : Largest(f).key < p}
  <2>1. Closed(S, v[0], lo, hi) /\ \A U \in SUBSET v[0] : Closed(U, v[0], lo, hi) => S \subseteq U
    BY <1>1, <1>5, Found
  <2>2. Closed(T, v[0], lo, hi)
    <3> SUFFICES ASSUME NEW f \in v[0],
                        Overlaps(f, lo, hi) \/ (T # {} /\ Overlaps(f, Min({lo, Low(T)}), Max({hi, High(T)})))
                 PROVE  f \in T
      BY DEF Closed
    <3>1. Table(f) BY <1>5 DEF Tables
    <3>2. CASE Overlaps(f, lo, hi)
      <4>1. f \in S BY <2>1, <3>2 DEF Closed
      <4>2. ~ (hi < Smallest(f).key) BY <3>1, <3>2, OneSide
      <4> QED BY <1>3, <4>1, <4>2
    <3>3. CASE T # {} /\ Overlaps(f, Min({lo, Low(T)}), Max({hi, High(T)}))
      <4>1. \A x \in T : Largest(x).key < p OBVIOUS
      <4>2. T \in SUBSET S /\ S \in SUBSET v[0] /\ S # {} BY <1>2, <1>5, <3>3
      <4> HIDE DEF T
      <4>3. Tables(S) BY <1>5, <4>2, FS_Subset DEF Tables
      <4>4. Tables(T) /\ Low(S) <= Low(T) /\ High(T) <= High(S) BY <3>3, <4>2, <4>3, RangeGrows
      <4>5. Low(S) \in Nat /\ High(S) \in Nat BY <4>2, <4>3, RangeOf
      <4>6. Low(T) \in Nat /\ High(T) \in Nat /\ \E x \in T : High(T) = Largest(x).key
        BY <3>3, <4>4, RangeOf
      <4>7. High(T) < p BY <4>1, <4>6
      <4>8. PICK a, b, c, d : /\ a = Min({lo, Low(T)}) /\ b = Max({hi, High(T)})
                              /\ c = Min({lo, Low(S)}) /\ d = Max({hi, High(S)})
        OBVIOUS
      <4>9. a \in Nat /\ (a = lo \/ a = Low(T)) /\ c \in Nat /\ c <= lo /\ c <= Low(S)
        BY <4>5, <4>6, <4>8, OfTwo
      <4>10. b \in Nat /\ (b = hi \/ b = High(T)) /\ d \in Nat /\ hi <= d /\ High(S) <= d
        BY <4>5, <4>6, <4>8, OfTwo
      <4>11. c <= a /\ b <= d /\ b < p BY <4>4, <4>5, <4>6, <4>7, <4>9, <4>10
      <4>12. Overlaps(f, a, b) BY <3>3, <4>8
      <4>13. Overlaps(f, c, d) BY <3>1, <4>9, <4>10, <4>11, <4>12, OverlapsWider
      <4>14. f \in S BY <2>1, <4>2, <4>8, <4>13 DEF Closed
      <4>15. ~ (b < Smallest(f).key) BY <3>1, <4>9, <4>10, <4>12, OneSide
      <4>16. Largest(f).key < p BY <1>3, <4>10, <4>11, <4>14, <4>15
      <4> QED BY <4>14, <4>16 DEF T
    <3> QED BY <3>2, <3>3
  <2>3. T \in SUBSET v[0] BY <1>2, <1>5
  <2>4. S \subseteq T
    <3> HIDE DEF T
    <3> QED BY <2>1, <2>2, <2>3
  <2> QED BY <1>1, <2>4 DEF AllBelow
<1> QED BY <1>4, <1>5

-----------------------------------------------------------------------------
(* 4. The inputs of a compaction. *)

(* A table lies together.                                                  *)
LEMMA OneTogether ==
  ASSUME NEW f, Table(f)
  PROVE  Together({f})
BY OneSide DEF Together, Avoids, AllAbove, AllBelow

(* What some tables that lie together touch lies together with them.       *)
LEMMA MoreTogether ==
  ASSUME NEW S, Tables(S), S # {}, Together(S), NEW v, NEW l \in Levels, Tables(v[l])
  PROVE  /\ Tables(S \cup OverlappingInputs(v, l, Low(S), High(S)))
         /\ Together(S \cup OverlappingInputs(v, l, Low(S), High(S)))
<1>1. PICK T, lo, hi : T = OverlappingInputs(v, l, lo, hi) /\ lo = Low(S) /\ hi = High(S) OBVIOUS
<1>2. /\ lo \in Nat /\ hi \in Nat
      /\ \E f \in S : lo = Smallest(f).key
      /\ \E f \in S : hi = Largest(f).key
  BY <1>1, RangeOf
<1>3. T \in SUBSET v[l] BY <1>1, <1>2, Found
<1>4. Tables(S \cup T)
  <2>1. IsFiniteSet(T) BY <1>3, FS_Subset DEF Tables
  <2>2. IsFiniteSet(S \cup T) BY <2>1, FS_Union DEF Tables
  <2> QED BY <1>3, <2>2 DEF Tables
<1>5. Together(S \cup T)
  <2> SUFFICES ASSUME NEW p \in Nat, NEW q \in Nat, p <= q, Avoids(S \cup T, p, q)
               PROVE  AllAbove(S \cup T, q) \/ AllBelow(S \cup T, p)
    BY DEF Together
  <2>1. Avoids(S, p, q) /\ Avoids(T, p, q) BY DEF Avoids
  <2>2. CASE AllAbove(S, q)
    <3>1. q < lo BY <1>2, <2>2 DEF AllAbove
    <3>2. AllAbove(T, q) BY <1>1, <1>2, <2>1, <3>1, SideAbove
    <3> QED BY <2>2, <3>2 DEF AllAbove
  <2>3. CASE AllBelow(S, p)
    <3>1. hi < p BY <1>2, <2>3 DEF AllBelow
    <3>2. AllBelow(T, p) BY <1>1, <1>2, <2>1, <3>1, SideBelow
    <3> QED BY <2>3, <3>2 DEF AllBelow
  <2> QED BY <2>1, <2>2, <2>3 DEF Together
<1> QED BY <1>1, <1>4, <1>5

(* The table picked and, in level 0, those that touch it.                  *)
LEMMA StartTogether ==
  ASSUME NEW l \in Levels, Tables(levels[l]), NEW f \in levels[l]
  PROVE  /\ WithOverlapping(l, f) \in SUBSET levels[l] /\ f \in WithOverlapping(l, f)
         /\ Together(WithOverlapping(l, f))
         /\ l = 0 => \E lo, hi \in Nat : Closed(WithOverlapping(l, f), levels[0], lo, hi)
<1>1. Table(f) BY DEF Tables
<1>2. CASE l # 0 BY <1>1, <1>2, OneTogether DEF WithOverlapping
<1>3. CASE l = 0
  <2>1. PICK S, lo, hi : S = OverlappingInputs(levels, 0, lo, hi) /\ lo = Smallest(f).key /\ hi = Largest(f).key
    OBVIOUS
  <2>2. lo \in Nat /\ hi \in Nat /\ lo <= hi BY <1>1, <2>1, TableEnds
  <2>3. Overlaps(f, lo, hi) BY <1>1, <2>1, <2>2 DEF Overlaps
  <2>4. S \in SUBSET levels[0] /\ f \in S BY <1>3, <2>1, <2>2, <2>3, Found
  <2>5. Together(S)
    <3> SUFFICES ASSUME NEW p \in Nat, NEW q \in Nat, p <= q, Avoids(S, p, q)
                 PROVE  AllAbove(S, q) \/ AllBelow(S, p)
      BY DEF Together
    <3>1. ~ Overlaps(f, p, q) BY <2>4 DEF Avoids
    <3>2. hi < p \/ q < lo BY <1>1, <2>1, <3>1, OneSide
    <3>3. CASE q < lo BY <1>3, <2>1, <2>2, <3>3, SideAbove
    <3>4. CASE hi < p BY <1>3, <2>1, <2>2, <3>4, SideBelow
    <3> QED BY <3>2, <3>3, <3>4
  <2>6. Closed(S, levels[0], lo, hi) BY <1>3, <2>1, <2>2, Found
  <2> QED BY <1>3, <2>1, <2>2, <2>4, <2>5, <2>6 DEF WithOverlapping
<1> QED BY <1>2, <1>3

(* SetupOtherInputs: both inputs lie together, and the second is what the  *)
(* first touches.                                                          *)
LEMMA InputsTogether ==
  ASSUME NEW l \in 0..(Top - 1), Tables(levels[l]), Tables(levels[l + 1]),
         NEW chosen \in SUBSET levels[l], chosen # {}, Together(chosen)
  PROVE  LET in == Inputs(l, chosen)
         IN /\ in[1] \in SUBSET levels[l] /\ chosen \subseteq in[1]
            /\ in[2] = OverlappingInputs(levels, l + 1, Low(in[1]), High(in[1]))
            /\ Together(in[1] \cup in[2]) /\ Tables(in[1] \cup in[2])
<1> DEFINE below == OverlappingInputs(levels, l + 1, Low(chosen), High(chosen))
           range == Hull(chosen, below)
           wider == OverlappingInputs(levels, l, range[1], range[2])
           widerBelow == OverlappingInputs(levels, l + 1, Low(wider), High(wider))
<1>1. l \in Levels /\ l + 1 \in Levels /\ l + 1 # 0 BY LevelsAssumption DEF Levels
<1>2. Tables(chosen) BY FS_Subset DEF Tables
<1>3. Tables(chosen \cup below) /\ Together(chosen \cup below) BY <1>1, <1>2, MoreTogether
<1>4. CASE Inputs(l, chosen) = <<chosen, below>> BY <1>3, <1>4
<1>5. CASE /\ Inputs(l, chosen) = <<wider, widerBelow>>
           /\ Cardinality(widerBelow) = Cardinality(below)
  <2> HIDE DEF below
  <2>1. range[1] = Low(chosen \cup below) /\ range[2] = High(chosen \cup below) BY DEF Hull
  <2> HIDE DEF range
  <2>2. PICK lo, hi : lo = Low(chosen) /\ hi = High(chosen) OBVIOUS
  <2>3. PICK a, b : a = range[1] /\ b = range[2] OBVIOUS
  <2>4. lo \in Nat /\ hi \in Nat /\ lo <= hi BY <1>2, <2>2, RangeOf
  <2>5. a \in Nat /\ b \in Nat /\ a <= lo /\ hi <= b
    <3>1. chosen \cup below # {} /\ chosen \in SUBSET (chosen \cup below) OBVIOUS
    <3>2. a \in Nat /\ b \in Nat BY <1>3, <2>1, <2>3, <3>1, RangeOf
    <3>3. a <= lo /\ hi <= b BY <1>3, <2>1, <2>2, <2>3, <3>1, RangeGrows
    <3> QED BY <3>2, <3>3
  <2>6. wider \in SUBSET levels[l] BY <1>1, <2>3, <2>5, Found
  <2>7. chosen \subseteq wider
    <3> SUFFICES ASSUME NEW f \in chosen PROVE f \in wider OBVIOUS
    <3>1. Table(f) /\ f \in levels[l] BY DEF Tables
    <3>2. lo <= Smallest(f).key /\ Largest(f).key <= hi BY <1>2, <2>2, RangeOf
    <3>3. Overlaps(f, a, b)
      <4>1. Smallest(f).key \in Nat /\ Largest(f).key \in Nat /\ Smallest(f).key <= Largest(f).key
        BY <3>1, TableEnds
      <4> QED BY <2>4, <2>5, <3>2, <4>1 DEF Overlaps
    <3> QED BY <1>1, <2>3, <2>5, <3>1, <3>3, Found
  <2>8. Tables(wider) /\ wider # {}
    <3>1. Tables(wider) BY <2>6, FS_Subset DEF Tables
    <3> QED BY <2>7, <3>1
  <2> DEFINE hull == chosen \cup below
  <2>9. Together(hull \cup wider) /\ Tables(hull \cup wider)
    <3>1. Tables(hull) /\ Together(hull) /\ hull # {} BY <1>3
    <3>2. wider = OverlappingInputs(levels, l, Low(hull), High(hull)) BY <2>1
    <3> HIDE DEF hull, wider
    <3> QED BY <1>1, <3>1, <3>2, MoreTogether
  <2>10. PICK c, d : c = Low(wider) /\ d = High(wider) OBVIOUS
  <2> HIDE DEF wider
  <2>11. c \in Nat /\ d \in Nat /\ c <= lo /\ hi <= d
    <3>1. c \in Nat /\ d \in Nat BY <2>8, <2>10, RangeOf
    <3>2. chosen \in SUBSET wider BY <2>7
    <3>3. c <= lo /\ hi <= d BY <2>2, <2>8, <2>10, <3>2, RangeGrows
    <3> QED BY <3>1, <3>3
  <2>12. widerBelow \in SUBSET levels[l + 1] /\ below \in SUBSET levels[l + 1]
    <3>1. widerBelow \in SUBSET levels[l + 1] BY <1>1, <2>10, <2>11, Found
    <3>2. below \in SUBSET levels[l + 1] BY <1>1, <2>2, <2>4, Found DEF below
    <3> QED BY <3>1, <3>2
  <2>13. below \subseteq widerBelow
    <3> SUFFICES ASSUME NEW g \in below PROVE g \in widerBelow OBVIOUS
    <3>1. Table(g) /\ g \in levels[l + 1] BY <2>12 DEF Tables
    <3>2. Overlaps(g, lo, hi) BY <1>1, <2>2, <2>4, Found DEF below
    <3>3. Overlaps(g, c, d) BY <2>4, <2>11, <3>1, <3>2, OverlapsWider
    <3> QED BY <1>1, <2>10, <2>11, <3>1, <3>3, Found
  <2>14. below = widerBelow
    <3>1. IsFiniteSet(widerBelow) BY <2>12, FS_Subset DEF Tables
    <3> HIDE DEF widerBelow
    <3>2. below \in SUBSET widerBelow /\ Cardinality(widerBelow) = Cardinality(below) BY <1>5, <2>13
    <3> QED BY <3>1, <3>2, FS_Subset
  <2>15. hull \cup wider = wider \cup widerBelow BY <2>7, <2>14
  <2>16. PICK u : u = widerBelow OBVIOUS
  <2> HIDE DEF hull
  <2>17. Together(wider \cup u) /\ Tables(wider \cup u) BY <2>9, <2>15, <2>16
  <2>18. Inputs(l, chosen) = <<wider, u>> BY <1>5, <2>16
  <2>19. u = OverlappingInputs(levels, l + 1, Low(wider), High(wider)) BY <2>16
  <2> HIDE DEF widerBelow
  <2> QED BY <2>6, <2>7, <2>17, <2>18, <2>19
<1>6. \/ Inputs(l, chosen) = <<chosen, below>>
      \/ /\ Inputs(l, chosen) = <<wider, widerBelow>>
         /\ Cardinality(widerBelow) = Cardinality(below)
  BY DEF Inputs
<1> QED BY <1>4, <1>5, <1>6
(* In level 0 the first input has all that touches it.                     *)
LEMMA InputsClosed ==
  ASSUME 0 \in 0..(Top - 1), Tables(levels[0]), Tables(levels[1]),
         NEW chosen \in SUBSET levels[0], chosen # {}, Together(chosen),
         \E lo, hi \in Nat : Closed(chosen, levels[0], lo, hi)
  PROVE  \E lo, hi \in Nat : Closed(Inputs(0, chosen)[1], levels[0], lo, hi)
<1> DEFINE below == OverlappingInputs(levels, 0 + 1, Low(chosen), High(chosen))
           range == Hull(chosen, below)
           wider == OverlappingInputs(levels, 0, range[1], range[2])
<1>1. 0 \in Levels /\ 0 + 1 = 1 /\ 1 \in Levels BY LevelsAssumption DEF Levels
<1>2. Tables(chosen) BY FS_Subset DEF Tables
<1>3. Tables(chosen \cup below) BY <1>1, <1>2, MoreTogether
<1>4. Inputs(0, chosen)[1] \in {chosen, wider} BY DEF Inputs
<1>5. \E lo, hi \in Nat : Closed(wider, levels[0], lo, hi)
  <2> DEFINE hull == chosen \cup below
  <2>1. range[1] = Low(hull) /\ range[2] = High(hull) BY DEF Hull
  <2>2. Tables(hull) /\ hull # {} BY <1>3
  <2> HIDE DEF hull
  <2>3. range[1] \in Nat /\ range[2] \in Nat BY <2>1, <2>2, RangeOf
  <2>4. PICK a, b : a = range[1] /\ b = range[2] OBVIOUS
  <2>5. wider = OverlappingInputs(levels, 0, a, b) BY <2>4
  <2> HIDE DEF wider, range
  <2> QED BY <1>1, <2>3, <2>4, <2>5, Found
<1> HIDE DEF wider
<1> QED BY <1>4, <1>5

-----------------------------------------------------------------------------
(* 5. The outputs of a compaction. *)

(* The pass over the entries as a function of the entries passed.          *)
Start == [outs |-> <<>>, open |-> {}, entry |-> NoEntry, passed |-> {}, over |-> 0]
Merge(j, acc, e) == Take(j, StopBefore(j, acc, e), e)
Merges(g, j, S) ==
  g = [s \in SUBSET S |-> IF s = {} THEN Start ELSE Merge(j, g[s \ {Hindmost(s)}], Hindmost(s))]

(* The last entry of a part that has the last of all.                      *)
LEMMA SameHindmost ==
  ASSUME NEW S \in SUBSET Entry, Distinct(S), IsFiniteSet(S), NEW s \in SUBSET S, Hindmost(S) \in s
  PROVE  Hindmost(s) = Hindmost(S)
<1>1. PICK x, y : x = Hindmost(S) /\ y = Hindmost(s) OBVIOUS
<1>2. IsFiniteSet(s) /\ Distinct(s) /\ s # {} /\ s \in SUBSET Entry BY FS_Subset DEF Distinct
<1>3. y \in s /\ \A e \in s \ {y} : Before(e, y) BY <1>1, <1>2, FirstAndLast
<1>4. S # {} BY <1>2
<1>5. x \in S /\ \A e \in S \ {x} : Before(e, x) BY <1>1, <1>4, FirstAndLast
<1>6. CASE x # y
  <2>1. Before(x, y) /\ Before(y, x) BY <1>1, <1>3, <1>5, <1>6
  <2> QED BY <1>3, <1>5, <2>1, BeforeOrder
<1> QED BY <1>1, <1>6

(* There is a pass over the entries.                                       *)
LEMMA MergeExists ==
  ASSUME NEW S \in SUBSET Entry, Distinct(S), IsFiniteSet(S), NEW j
  PROVE  \E g : Merges(g, j, S)
<1> DEFINE T == {n \in Nat : \A X \in SUBSET Entry :
                   IsFiniteSet(X) /\ Cardinality(X) = n /\ Distinct(X) => \E g : Merges(g, j, X)}
<1>1. 0 \in T
  <2> SUFFICES ASSUME NEW X \in SUBSET Entry, IsFiniteSet(X), Cardinality(X) = 0
               PROVE  \E g : Merges(g, j, X)
    OBVIOUS
  <2>1. X = {} BY FS_EmptySet
  <2> DEFINE g == [s \in SUBSET X |-> Start]
  <2>2. Merges(g, j, X) BY <2>1 DEF Merges
  <2> QED BY <2>2
<1>2. ASSUME NEW m \in T PROVE m + 1 \in T
  <2> SUFFICES ASSUME NEW X \in SUBSET Entry, IsFiniteSet(X), Cardinality(X) = m + 1, Distinct(X)
               PROVE  \E g : Merges(g, j, X)
    OBVIOUS
  <2>1. X # {} BY FS_EmptySet
  <2>2. PICK x : x = Hindmost(X) OBVIOUS
  <2>3. x \in X BY <2>1, <2>2, FirstAndLast
  <2>4. IsFiniteSet(X \ {x}) /\ Cardinality(X \ {x}) = m BY <2>3, WithoutOne
  <2>5. Distinct(X \ {x}) /\ X \ {x} \in SUBSET Entry BY DEF Distinct
  <2>6. PICK g : Merges(g, j, X \ {x}) BY <2>4, <2>5
  <2> DEFINE h == [s \in SUBSET X |-> IF x \in s THEN Merge(j, g[s \ {x}], x) ELSE g[s]]
  <2>7. ASSUME NEW s \in SUBSET X
        PROVE  h[s] = IF s = {} THEN Start ELSE Merge(j, h[s \ {Hindmost(s)}], Hindmost(s))
    <3>1. CASE x \in s
      <4>1. Hindmost(s) = x BY <2>2, <3>1, SameHindmost
      <4>2. s \ {x} \in SUBSET X /\ x \notin s \ {x} OBVIOUS
      <4>3. h[s \ {x}] = g[s \ {x}] BY <4>2
      <4>4. h[s] = Merge(j, g[s \ {x}], x) BY <3>1
      <4> HIDE DEF h
      <4> QED BY <3>1, <4>1, <4>3, <4>4
    <3>2. CASE x \notin s
      <4>1. s \in SUBSET (X \ {x}) BY <3>2
      <4>2. h[s] = g[s] BY <3>2
      <4>3. g[s] = IF s = {} THEN Start ELSE Merge(j, g[s \ {Hindmost(s)}], Hindmost(s))
        BY <2>6, <4>1 DEF Merges
      <4>4. h[s \ {Hindmost(s)}] = g[s \ {Hindmost(s)}]
        <5>1. s \ {Hindmost(s)} \in SUBSET X /\ x \notin s \ {Hindmost(s)} BY <3>2
        <5> QED BY <5>1
      <4> HIDE DEF h
      <4> QED BY <4>2, <4>3, <4>4
    <3> QED BY <3>1, <3>2
  <2>8. DOMAIN h = SUBSET X /\ h = [s \in DOMAIN h |-> h[s]] OBVIOUS
  <2> HIDE DEF h
  <2>9. h = [s \in SUBSET X |-> IF s = {} THEN Start ELSE Merge(j, h[s \ {Hindmost(s)}], Hindmost(s))]
    BY <2>7, <2>8
  <2>10. Merges(h, j, X) BY <2>9 DEF Merges
  <2> QED BY <2>10
<1>3. T \in SUBSET Nat OBVIOUS
<1>4. Cardinality(S) \in Nat BY FS_CardinalityType
<1>5. Cardinality(S) \in T
  <2> HIDE DEF T
  <2> QED BY <1>1, <1>2, <1>3, <1>4, AllNumbers
<1> QED BY <1>5

(* Outputs is such a pass.                                                 *)
LEMMA OutputsAre ==
  ASSUME NEW j, NEW S \in SUBSET Entry, Distinct(S), IsFiniteSet(S), S = Entries(j.in[1] \cup j.in[2])
  PROVE  \E g : Merges(g, j, S) /\ Outputs(j) = Close(g[S]).outs
<1> DEFINE g == CHOOSE h : h = [s \in SUBSET S |->
                  IF s = {} THEN Start ELSE Merge(j, h[s \ {Hindmost(s)}], Hindmost(s))]
<1>1. Merges(g, j, S)
  <2>1. PICK h : Merges(h, j, S) BY MergeExists
  <2> QED BY <2>1 DEF Merges
<1>2. Outputs(j) = Close(g[S]).outs
  <2>1. S = UNION {f.entries : f \in j.in[1] \cup j.in[2]} BY DEF Entries
  <2>2. Outputs(j) = Close((CHOOSE h : h = [s \in SUBSET S |->
           IF s = {} THEN Start ELSE Take(j, StopBefore(j, h[s \ {Hindmost(s)}], Hindmost(s)), Hindmost(s))])[S]).outs
    BY <2>1 DEF Outputs, MapThenFoldSet, Start
  <2> QED BY <2>2 DEF Merge
<1> QED BY <1>1, <1>2

(* What the pass has written so far follows in order, and the output under *)
(* way comes last.                                                         *)
Pieces(outs, A) ==
  /\ outs \in Seq((SUBSET A) \ {{}})
  /\ \A i, k \in 1..Len(outs) : i < k => \A d \in outs[i], e \in outs[k] : Before(d, e)
Accumulator(acc) ==
  acc = [outs |-> acc.outs, open |-> acc.open, entry |-> acc.entry, passed |-> acc.passed, over |-> acc.over]
Cut(acc, A) ==
  /\ Accumulator(acc) /\ Pieces(acc.outs, A) /\ acc.open \subseteq A
  /\ \A i \in 1..Len(acc.outs) : \A d \in acc.outs[i], e \in acc.open : Before(d, e)

(* The fields of an accumulator that a step of the pass replaces.          *)
LEMMA Changed ==
  ASSUME NEW acc, Accumulator(acc), NEW x, NEW y
  PROVE  /\ [acc EXCEPT !.entry = x, !.open = y]
              = [outs |-> acc.outs, open |-> y, entry |-> x, passed |-> acc.passed, over |-> acc.over]
         /\ [acc EXCEPT !.passed = x, !.over = y]
              = [outs |-> acc.outs, open |-> acc.open, entry |-> acc.entry, passed |-> x, over |-> y]
<1>1. PICK a, b, c, d, e : acc = [outs |-> a, open |-> b, entry |-> c, passed |-> d, over |-> e]
  BY DEF Accumulator
<1>2. acc.outs = a /\ acc.open = b /\ acc.entry = c /\ acc.passed = d /\ acc.over = e BY <1>1
<1>3. [acc EXCEPT !.entry = x] = [outs |-> a, open |-> b, entry |-> x, passed |-> d, over |-> e] BY <1>1
<1>4. [acc EXCEPT !.passed = x] = [outs |-> a, open |-> b, entry |-> c, passed |-> x, over |-> e] BY <1>1
<1>5. PICK r, s : r = [acc EXCEPT !.entry = x] /\ s = [acc EXCEPT !.passed = x] OBVIOUS
<1>6. [r EXCEPT !.open = y] = [outs |-> a, open |-> y, entry |-> x, passed |-> d, over |-> e]
  <2>1. r = [outs |-> a, open |-> b, entry |-> x, passed |-> d, over |-> e] BY <1>3, <1>5
  <2> QED BY <2>1
<1>7. [s EXCEPT !.over = y] = [outs |-> a, open |-> b, entry |-> c, passed |-> x, over |-> y]
  <2>1. s = [outs |-> a, open |-> b, entry |-> c, passed |-> x, over |-> e] BY <1>4, <1>5
  <2> QED BY <2>1
<1> QED BY <1>2, <1>5, <1>6, <1>7

(* One more output, of what follows all that was written.                 *)
LEMMA PiecesAppend ==
  ASSUME NEW A, NEW outs, Pieces(outs, A), NEW p \in SUBSET A, p # {},
         \A i \in 1..Len(outs) : \A d \in outs[i], e \in p : Before(d, e)
  PROVE  Pieces(Append(outs, p), A)
<1>1. outs \in Seq((SUBSET A) \ {{}}) BY DEF Pieces
<1>2. PICK more : more = Append(outs, p) OBVIOUS
<1>3. /\ more \in Seq((SUBSET A) \ {{}}) /\ Len(more) = Len(outs) + 1
      /\ \A i \in 1..Len(outs) : more[i] = outs[i]
      /\ more[Len(outs) + 1] = p
  BY <1>1, <1>2, AppendProperties
<1>4. Len(outs) \in Nat BY <1>1, LenProperties
<1>5. ASSUME NEW i \in 1..Len(more), NEW k \in 1..Len(more), i < k, NEW d \in more[i], NEW e \in more[k]
      PROVE  Before(d, e)
  <2>1. i \in 1..Len(outs) BY <1>3, <1>4, <1>5
  <2>2. CASE k \in 1..Len(outs) BY <1>3, <1>5, <2>1, <2>2 DEF Pieces
  <2>3. CASE k = Len(outs) + 1 BY <1>3, <1>5, <2>1, <2>3
  <2> QED BY <1>3, <1>4, <2>2, <2>3
<1> QED BY <1>2, <1>3, <1>5 DEF Pieces

(* Close, StopBefore and Take keep the outputs in order.                   *)
LEMMA CloseCuts ==
  ASSUME NEW A, NEW acc, Cut(acc, A)
  PROVE  Cut(Close(acc), A) /\ Close(acc).open = {}
<1>1. CASE acc.open = {} BY <1>1 DEF Close
<1>2. CASE acc.open # {}
  <2>1. Pieces(Append(acc.outs, acc.open), A) BY <1>2, PiecesAppend DEF Cut
  <2>2. Close(acc) = [outs |-> Append(acc.outs, acc.open), open |-> {}, entry |-> acc.entry,
                      passed |-> acc.passed, over |-> acc.over]
    <3>1. PICK a, b, c, d, e : acc = [outs |-> a, open |-> b, entry |-> c, passed |-> d, over |-> e]
      BY DEF Cut, Accumulator
    <3> QED BY <1>2, <3>1 DEF Close
  <2> QED BY <2>1, <2>2 DEF Cut, Accumulator
<1> QED BY <1>1, <1>2

(* StopBefore does, wherever it ends an output.                            *)
LEMMA StopCuts ==
  ASSUME NEW A, NEW acc, Cut(acc, A), NEW j, NEW x
  PROVE  Cut(StopBefore(j, acc, x), A)
<1>1. PICK c \in {acc, Close(acc)} : \E p, n : StopBefore(j, acc, x) = [c EXCEPT !.passed = p, !.over = n]
  BY DEF StopBefore
<1>2. Cut(c, A) BY <1>1, CloseCuts
<1>3. PICK p, n : StopBefore(j, acc, x) = [c EXCEPT !.passed = p, !.over = n] BY <1>1
<1>4. StopBefore(j, acc, x) = [outs |-> c.outs, open |-> c.open, entry |-> c.entry, passed |-> p, over |-> n]
  <2>1. Accumulator(c) BY <1>2 DEF Cut
  <2>2. [c EXCEPT !.passed = p, !.over = n]
          = [outs |-> c.outs, open |-> c.open, entry |-> c.entry, passed |-> p, over |-> n]
    BY <2>1, Changed
  <2> QED BY <1>3, <2>2
<1> QED BY <1>2, <1>4 DEF Cut, Accumulator

(* Take does, whether it drops its entry or not.                           *)
LEMMA TakeCuts ==
  ASSUME NEW A, NEW acc, Cut(acc, A), NEW j, NEW x, \A e \in A : Before(e, x)
  PROVE  Cut(Take(j, acc, x), A \cup {x})
<1>1. PICK o \in {acc.open, acc.open \cup {x}} :
        Take(j, acc, x) \in {[acc EXCEPT !.entry = x, !.open = o], Close([acc EXCEPT !.entry = x, !.open = o])}
  BY DEF Take
<1>2. PICK added : added = [outs |-> acc.outs, open |-> o, entry |-> x, passed |-> acc.passed, over |-> acc.over]
  OBVIOUS
<1>3. [acc EXCEPT !.entry = x, !.open = o] = added
  <2>1. Accumulator(acc) BY DEF Cut
  <2>2. [acc EXCEPT !.entry = x, !.open = o]
          = [outs |-> acc.outs, open |-> o, entry |-> x, passed |-> acc.passed, over |-> acc.over]
    BY <2>1, Changed, ZenonT(60)
  <2> QED BY <1>2, <2>2
<1>4. Cut(added, A \cup {x})
  <2>1. acc.outs \in Seq((SUBSET A) \ {{}}) BY DEF Cut, Pieces
  <2>2. \A i \in 1..Len(acc.outs) : acc.outs[i] \in (SUBSET A) \ {{}} BY <2>1, ElementOfSeq
  <2>3. acc.outs \in Seq((SUBSET (A \cup {x})) \ {{}})
    <3>1. \A i \in 1..Len(acc.outs) : acc.outs[i] \in (SUBSET (A \cup {x})) \ {{}} BY <2>2
    <3>2. /\ Len(acc.outs) \in Nat /\ DOMAIN acc.outs = 1..Len(acc.outs)
          /\ acc.outs = [i \in 1..Len(acc.outs) |-> acc.outs[i]]
      BY <2>1, LenProperties
    <3>3. acc.outs \in [1..Len(acc.outs) -> (SUBSET (A \cup {x})) \ {{}}] BY <3>1, <3>2
    <3> QED BY <3>2, <3>3, SeqDef
  <2>4. Pieces(acc.outs, A \cup {x}) BY <2>3 DEF Cut, Pieces
  <2>5. o \subseteq A \cup {x} BY <1>1 DEF Cut
  <2>6. \A i \in 1..Len(acc.outs) : \A d \in acc.outs[i], e \in o : Before(d, e)
    BY <1>1, <2>2 DEF Cut
  <2> QED BY <1>2, <2>4, <2>5, <2>6 DEF Cut, Accumulator
<1>5. Cut(Close(added), A \cup {x}) BY <1>4, CloseCuts
<1> QED BY <1>1, <1>3, <1>4, <1>5

(* What the pass drops: an entry that a newer one of its key hides from    *)
(* every view, and a deletion that hides nothing itself.  What it has told *)
(* of the entries passed: each is written or one of those.                 *)
Hidden(j, S, e) == \E c \in S : c.key = e.key /\ c.seq > e.seq /\ c.seq <= j.smallest
Obsolete(j, e) == e.del /\ e.seq <= j.smallest /\ IsBaseLevel(j, e.key)
Contents(outs) == UNION {outs[i] : i \in 1..Len(outs)}
Out(acc) == acc.open \cup Contents(acc.outs)
Told(j, acc, X) ==
  /\ acc.entry = IF X = {} THEN NoEntry ELSE Hindmost(X)
  /\ \A e \in X : e \in Out(acc) \/ Hidden(j, X, e) \/ Obsolete(j, e)
  /\ \A e \in Out(acc) : e \in X /\ ~ Hidden(j, X, e)

(* What one more output adds.                                              *)
LEMMA ContentsAppend ==
  ASSUME NEW T, NEW outs \in Seq(T), NEW p
  PROVE  Contents(Append(outs, p)) = Contents(outs) \cup p
<1>1. Len(outs) \in Nat BY LenProperties
<1>2. PICK n : n = Len(outs) OBVIOUS
<1>3. PICK more : more = Append(outs, p) OBVIOUS
<1>4. Len(more) = n + 1 /\ (\A i \in 1..n : more[i] = outs[i]) /\ more[n + 1] = p BY <1>2, <1>3
<1>5. 1..(n + 1) = (1..n) \cup {n + 1} BY <1>1, <1>2
<1> QED BY <1>2, <1>3, <1>4, <1>5 DEF Contents

(* Close writes the output under way and nothing else.                     *)
LEMMA CloseTells ==
  ASSUME NEW A, NEW acc, Cut(acc, A)
  PROVE  Out(Close(acc)) = Out(acc) /\ Close(acc).entry = acc.entry /\ Contents(Close(acc).outs) = Out(acc)
<1>1. acc.outs \in Seq((SUBSET A) \ {{}}) BY DEF Cut, Pieces
<1>2. CASE acc.open = {} BY <1>2 DEF Close, Out
<1>3. CASE acc.open # {}
  <2>1. Close(acc) = [outs |-> Append(acc.outs, acc.open), open |-> {}, entry |-> acc.entry,
                      passed |-> acc.passed, over |-> acc.over]
    <3>1. PICK a, b, c, d, e : acc = [outs |-> a, open |-> b, entry |-> c, passed |-> d, over |-> e]
      BY DEF Cut, Accumulator
    <3> QED BY <1>3, <3>1 DEF Close
  <2>2. Contents(Append(acc.outs, acc.open)) = Contents(acc.outs) \cup acc.open BY <1>1, ContentsAppend
  <2> QED BY <2>1, <2>2 DEF Out
<1> QED BY <1>2, <1>3

(* StopBefore writes and drops nothing.                                    *)
LEMMA StopTells ==
  ASSUME NEW A, NEW acc, Cut(acc, A), NEW j, NEW x
  PROVE  Out(StopBefore(j, acc, x)) = Out(acc) /\ StopBefore(j, acc, x).entry = acc.entry
<1>1. PICK c \in {acc, Close(acc)} : \E p, n : StopBefore(j, acc, x) = [c EXCEPT !.passed = p, !.over = n]
  BY DEF StopBefore
<1>2. Cut(c, A) /\ Out(c) = Out(acc) /\ c.entry = acc.entry BY <1>1, CloseCuts, CloseTells
<1>3. PICK p, n : StopBefore(j, acc, x) = [c EXCEPT !.passed = p, !.over = n] BY <1>1
<1>4. StopBefore(j, acc, x) = [outs |-> c.outs, open |-> c.open, entry |-> c.entry, passed |-> p, over |-> n]
  <2>1. Accumulator(c) BY <1>2 DEF Cut
  <2>2. [c EXCEPT !.passed = p, !.over = n]
          = [outs |-> c.outs, open |-> c.open, entry |-> c.entry, passed |-> p, over |-> n]
    BY <2>1, Changed
  <2> QED BY <1>3, <2>2
<1> QED BY <1>2, <1>4 DEF Out

(* An entry after all of a set is the last of the set and itself.          *)
LEMMA LastOfMore ==
  ASSUME NEW X \in SUBSET Entry, NEW x \in Entry, IsFiniteSet(X), Distinct(X \cup {x}),
         \A e \in X : Before(e, x)
  PROVE  Hindmost(X \cup {x}) = x
<1>1. PICK A, y : A = X \cup {x} /\ y = Hindmost(A) OBVIOUS
<1>2. A \in SUBSET Entry /\ A # {} /\ IsFiniteSet(A) /\ Distinct(A) BY <1>1, FS_AddElement
<1>3. y \in A /\ \A e \in A \ {y} : Before(e, y) BY <1>1, <1>2, FirstAndLast
<1>4. CASE y # x
  <2>1. Before(x, y) /\ Before(y, x) BY <1>1, <1>3, <1>4
  <2> QED BY <1>2, <1>3, <2>1, BeforeOrder
<1> QED BY <1>1, <1>4

(* Take drops an entry exactly when a newer one of its key hides it or it  *)
(* is a deletion that hides nothing: the entry before it in the order is   *)
(* the newest but one of its key, if that has one.                         *)
LEMMA TakeTells ==
  ASSUME NEW X \in SUBSET Entry, NEW x \in Entry, IsFiniteSet(X), Distinct(X \cup {x}),
         \A e \in X : Before(e, x),
         NEW j, j.smallest \in Nat, j.smallest <= MaxWrites,
         NEW acc, Cut(acc, X), Told(j, acc, X)
  PROVE  Told(j, Take(j, acc, x), X \cup {x})
<1>1. PICK newer : newer = IF acc.entry.key = x.key THEN acc.entry.seq ELSE Infinity OBVIOUS
<1>2. PICK o : o = IF Drops(j, x, newer) THEN acc.open ELSE acc.open \cup {x} OBVIOUS
<1>3. PICK added : added = [outs |-> acc.outs, open |-> o, entry |-> x, passed |-> acc.passed, over |-> acc.over]
  OBVIOUS
<1>4. [acc EXCEPT !.entry = x, !.open = o] = added
  <2>1. Accumulator(acc) BY DEF Cut
  <2>2. [acc EXCEPT !.entry = x, !.open = o]
          = [outs |-> acc.outs, open |-> o, entry |-> x, passed |-> acc.passed, over |-> acc.over]
    BY <2>1, Changed, ZenonT(60)
  <2> QED BY <1>3, <2>2
<1>5. Take(j, acc, x) = IF Cardinality(added.open) >= FileSize THEN Close(added) ELSE added
  BY <1>1, <1>2, <1>4 DEF Take
<1>6. Cut(added, X \cup {x})
  <2>1. acc.outs \in Seq((SUBSET X) \ {{}}) BY DEF Cut, Pieces
  <2>2. \A i \in 1..Len(acc.outs) : acc.outs[i] \in (SUBSET X) \ {{}} BY <2>1, ElementOfSeq
  <2>3. acc.outs \in Seq((SUBSET (X \cup {x})) \ {{}})
    <3>1. (SUBSET X) \ {{}} \subseteq (SUBSET (X \cup {x})) \ {{}} OBVIOUS
    <3> QED BY <2>1, <3>1, SeqMonotonic
  <2>4. Pieces(acc.outs, X \cup {x}) BY <2>3 DEF Cut, Pieces
  <2>5. o \subseteq X \cup {x} BY <1>2 DEF Cut
  <2>6. \A i \in 1..Len(acc.outs) : \A d \in acc.outs[i], e \in o : Before(d, e)
    BY <1>2, <2>2 DEF Cut
  <2> QED BY <1>3, <2>4, <2>5, <2>6 DEF Cut, Accumulator
<1>7. PICK T : T = Take(j, acc, x) OBVIOUS
<1>8. T.entry = x /\ Out(T) = o \cup Contents(acc.outs)
  <2>1. added.entry = x /\ Out(added) = o \cup Contents(acc.outs) BY <1>3 DEF Out
  <2>2. Out(Close(added)) = Out(added) /\ Close(added).entry = added.entry BY <1>6, CloseTells
  <2> QED BY <1>5, <1>7, <2>1, <2>2
<1>9. Out(T) = Out(acc) \cup IF Drops(j, x, newer) THEN {} ELSE {x} BY <1>2, <1>8 DEF Out
<1>10. Hindmost(X \cup {x}) = x BY LastOfMore
<1>11. \A e \in X \cup {x} : e \in Entry /\ e.key \in Nat \ {0} /\ e.seq \in Nat BY LevelsAssumption DEF Entry
<1>12. newer <= j.smallest <=> Hidden(j, X, x)
  <2>1. CASE X = {}
    <3>1. acc.entry.key = 0 BY <2>1 DEF Told, NoEntry
    <3>2. newer = MaxWrites + 1 BY <1>1, <1>11, <3>1 DEF Infinity
    <3>3. MaxWrites \in Nat BY LevelsAssumption
    <3> QED BY <2>1, <3>2, <3>3 DEF Hidden
  <2>2. CASE X # {}
    <3>1. PICK p : p = Hindmost(X) OBVIOUS
    <3>2. acc.entry = p BY <2>2, <3>1 DEF Told
    <3>3. Distinct(X) BY DEF Distinct
    <3>4. p \in X /\ \A e \in X \ {p} : Before(e, p) BY <2>2, <3>1, <3>3, FirstAndLast
    <3>5. Before(p, x) BY <3>4
    <3>6. ASSUME newer <= j.smallest PROVE Hidden(j, X, x)
      <4>1. MaxWrites \in Nat BY LevelsAssumption
      <4>2. p.key = x.key /\ newer = p.seq BY <1>1, <3>2, <3>6, <4>1 DEF Infinity
      <4>3. p.seq > x.seq BY <1>11, <3>4, <3>5, <4>2 DEF Before
      <4> QED BY <3>4, <3>6, <4>2, <4>3 DEF Hidden
    <3>7. ASSUME Hidden(j, X, x) PROVE newer <= j.smallest
      <4>1. PICK c \in X : c.key = x.key /\ c.seq > x.seq /\ c.seq <= j.smallest BY <3>7 DEF Hidden
      <4>2. c = p \/ Before(c, p) BY <3>4
      <4>3. p.key = x.key /\ p.seq <= c.seq BY <1>11, <3>4, <3>5, <4>1, <4>2 DEF Before
      <4>4. newer = p.seq BY <1>1, <3>2, <4>3
      <4> QED BY <1>11, <3>4, <4>1, <4>3, <4>4
    <3> QED BY <3>6, <3>7
  <2> QED BY <2>1, <2>2
<1>13. Drops(j, x, newer) <=> Hidden(j, X, x) \/ Obsolete(j, x) BY <1>12 DEF Drops, Obsolete
<1>14. \A e \in X \cup {x} : Hidden(j, X \cup {x}, e) <=> Hidden(j, X, e)
  <2> SUFFICES ASSUME NEW e \in X \cup {x}, x.key = e.key, x.seq > e.seq PROVE FALSE
    BY DEF Hidden
  <2>1. CASE e = x BY <1>11, <2>1
  <2>2. CASE e \in X
    <3>1. Before(e, x) BY <2>2
    <3> QED BY <1>11, <3>1 DEF Before
  <2> QED BY <2>1, <2>2
<1>15. \A e \in X \cup {x} : e \in Out(T) \/ Hidden(j, X \cup {x}, e) \/ Obsolete(j, e)
  <2>1. \A e \in X : e \in Out(acc) \/ Hidden(j, X, e) \/ Obsolete(j, e) BY DEF Told
  <2>2. x \in Out(T) \/ Hidden(j, X, x) \/ Obsolete(j, x) BY <1>9, <1>13
  <2> QED BY <1>9, <1>14, <2>1, <2>2
<1>16. \A e \in Out(T) : e \in X \cup {x} /\ ~ Hidden(j, X \cup {x}, e)
  <2>1. \A e \in Out(acc) : e \in X /\ ~ Hidden(j, X, e) BY DEF Told
  <2> QED BY <1>9, <1>13, <1>14, <2>1
<1> QED BY <1>7, <1>8, <1>10, <1>15, <1>16 DEF Told

(* What a compaction does not write is hidden by a newer entry no snapshot *)
(* is older than, or a deletion no snapshot is older than and below which  *)
(* its key is not; and nothing so hidden is written.                       *)
LEMMA OutputsTell ==
  ASSUME NEW j, NEW S \in SUBSET Entry, Distinct(S), IsFiniteSet(S), S = Entries(j.in[1] \cup j.in[2]),
         j.smallest \in Nat, j.smallest <= MaxWrites
  PROVE  /\ Pieces(Outputs(j), S)
         /\ \A e \in S : e \in Contents(Outputs(j)) \/ Hidden(j, S, e) \/ Obsolete(j, e)
         /\ \A e \in Contents(Outputs(j)) : e \in S /\ ~ Hidden(j, S, e)
<1>1. PICK g : Merges(g, j, S) /\ Outputs(j) = Close(g[S]).outs BY OutputsAre
<1> DEFINE T == {n \in Nat : \A X \in SUBSET S : Cardinality(X) = n => Cut(g[X], X) /\ Told(j, g[X], X)}
<1>2. \A X \in SUBSET S : IsFiniteSet(X) /\ Distinct(X) /\ X \in SUBSET Entry BY FS_Subset DEF Distinct
<1>3. 0 \in T
  <2> SUFFICES ASSUME NEW X \in SUBSET S, Cardinality(X) = 0 PROVE Cut(g[X], X) /\ Told(j, g[X], X) OBVIOUS
  <2>1. X = {} BY <1>2, FS_EmptySet
  <2>2. g[X] = Start BY <1>1, <2>1 DEF Merges
  <2>3. <<>> \in Seq((SUBSET X) \ {{}}) /\ Len(<<>>) = 0 OBVIOUS
  <2>4. Pieces(<<>>, X) BY <2>3 DEF Pieces
  <2>5. Cut(g[X], X) BY <2>2, <2>3, <2>4 DEF Start, Cut, Accumulator
  <2>6. Out(g[X]) = {} BY <2>2, <2>3 DEF Start, Out, Contents
  <2>7. g[X].entry = NoEntry BY <2>2 DEF Start
  <2>8. PICK acc : acc = g[X] OBVIOUS
  <2>9. Told(j, acc, X) BY <2>1, <2>6, <2>7, <2>8 DEF Told
  <2> QED BY <2>5, <2>8, <2>9
<1>4. ASSUME NEW m \in T PROVE m + 1 \in T
  <2>1. m + 1 \in Nat OBVIOUS
  <2> SUFFICES ASSUME NEW X \in SUBSET S, Cardinality(X) = m + 1 PROVE Cut(g[X], X) /\ Told(j, g[X], X) BY <2>1
  <2>2. X # {} BY <1>2, FS_EmptySet
  <2>3. PICK x : x = Hindmost(X) OBVIOUS
  <2>4. x \in X /\ \A e \in X \ {x} : Before(e, x) BY <1>2, <2>2, <2>3, FirstAndLast
  <2>5. PICK Y : Y = X \ {x} OBVIOUS
  <2>6. Cardinality(Y) = m BY <1>2, <2>4, <2>5, WithoutOne
  <2>7. Cut(g[Y], Y) /\ Told(j, g[Y], Y) BY <2>5, <2>6
  <2>8. PICK acc : acc = StopBefore(j, g[Y], x) OBVIOUS
  <2>9. g[X] = Take(j, acc, x) BY <1>1, <2>2, <2>3, <2>5, <2>8 DEF Merges, Merge
  <2>10. Cut(acc, Y) BY <2>7, <2>8, StopCuts
  <2>11. Out(acc) = Out(g[Y]) /\ acc.entry = g[Y].entry BY <2>7, <2>8, StopTells
  <2>12. Told(j, acc, Y) BY <2>7, <2>11 DEF Told
  <2>13. Y \cup {x} = X BY <2>4, <2>5
  <2>14. Y \in SUBSET Entry /\ x \in Entry /\ IsFiniteSet(Y) /\ Distinct(Y \cup {x})
         /\ \A e \in Y : Before(e, x)
    BY <1>2, <2>4, <2>5, <2>13
  <2>15. Cut(Take(j, acc, x), Y \cup {x}) BY <2>10, <2>14, TakeCuts
  <2>16. Told(j, Take(j, acc, x), Y \cup {x}) BY <2>10, <2>12, <2>14, TakeTells
  <2> QED BY <2>9, <2>13, <2>15, <2>16
<1>5. T \in SUBSET Nat OBVIOUS
<1>6. Cardinality(S) \in Nat BY FS_CardinalityType
<1>7. Cardinality(S) \in T
  <2> HIDE DEF T
  <2> QED BY <1>3, <1>4, <1>5, <1>6, AllNumbers
<1>8. Cut(g[S], S) /\ Told(j, g[S], S) BY <1>7
<1>9. Cut(Close(g[S]), S) /\ Contents(Close(g[S]).outs) = Out(g[S]) BY <1>8, CloseCuts, CloseTells
<1>10. Pieces(Outputs(j), S) BY <1>1, <1>9 DEF Cut
<1> QED BY <1>1, <1>8, <1>9, <1>10 DEF Told

-----------------------------------------------------------------------------
(* 6. The invariant. *)

(* A table with its entries all before, or all after, those of S.          *)
Aside(h, S) == \/ \A f \in S : \A e \in f.entries : Before(Largest(h), e)
               \/ \A f \in S : \A e \in f.entries : Before(e, Smallest(h))
Unshared(S) == \A f, g \in S : f # g => f.entries \cap g.entries = {}

(* Numbers and entries; the views; the tables; a compaction under way.     *)
WrittenOK ==
  /\ last \in Nat /\ written \in SUBSET Entry /\ IsFiniteSet(written) /\ Distinct(written)
  /\ mem \subseteq written /\ \A e \in written : e.seq <= last
FilesOK ==
  /\ levels = [l \in Levels |-> levels[l]]
  /\ \A l \in Levels : /\ IsFiniteSet(levels[l])
                       /\ \A f \in levels[l] : f.entries \subseteq written /\ f.entries # {}
LevelZeroOK == Unshared(levels[0]) /\ \A f \in levels[0] : f.entries \cap mem = {}
JobOK == job # NoJob =>
  /\ job.level \in 0..(Top - 1)
  /\ job.in[1] \subseteq levels[job.level] /\ job.in[2] \subseteq levels[job.level + 1]
  /\ Together(job.in[1] \cup job.in[2])
  /\ \A h \in levels[job.level + 1] \ job.in[2] : Aside(h, job.in[1] \cup job.in[2])
ViewsOK ==
  /\ snapshots \subseteq 0..last /\ last <= MaxWrites
  /\ job # NoJob => job.smallest \in Nat /\ \A s \in snapshots \cup {last} : job.smallest <= s
LevelsInv == WrittenOK /\ ViewsOK /\ FilesOK /\ LevelZeroOK /\ JobOK /\ LevelsDisjoint

(* Every level is a finite set of tables of entries.                       *)
LEMMA FilesAreTables ==
  ASSUME WrittenOK, FilesOK
  PROVE  \A l \in Levels : Tables(levels[l])
<1> SUFFICES ASSUME NEW l \in Levels PROVE Tables(levels[l]) OBVIOUS
<1>1. IsFiniteSet(levels[l]) BY DEF FilesOK
<1>2. ASSUME NEW f \in levels[l] PROVE Table(f)
  <2>1. f.entries \in SUBSET written /\ f.entries # {} BY DEF FilesOK
  <2>2. IsFiniteSet(f.entries) BY <2>1, FS_Subset DEF WrittenOK
  <2>3. Distinct(f.entries) BY <2>1 DEF WrittenOK, Distinct
  <2>4. f.entries \in SUBSET Entry BY <2>1 DEF WrittenOK
  <2> QED BY <2>1, <2>2, <2>3, <2>4 DEF Table
<1> QED BY <1>1, <1>2 DEF Tables

(* The levels a compaction takes from and puts into are levels.            *)
LEMMA LevelNumbers ==
  /\ 0 \in Levels /\ Top \in Nat /\ Top # 0
  /\ \A l \in 0..(Top - 1) : l \in Levels /\ l + 1 \in Levels /\ l + 1 \in 1..Top /\ l + 1 # l /\ l + 1 # 0
  /\ \A l \in 1..Top : l \in Levels
BY LevelsAssumption DEF Levels

(* Tables of a level share no entry.                                       *)
LEMMA LevelUnshared ==
  ASSUME LevelsInv, NEW l \in Levels
  PROVE  Unshared(levels[l])
<1>1. CASE l = 0 BY <1>1 DEF LevelsInv, LevelZeroOK
<1>2. CASE l # 0
  <2> SUFFICES ASSUME NEW f \in levels[l], NEW g \in levels[l], f # g, NEW e, e \in f.entries, e \in g.entries
               PROVE  FALSE
    BY DEF Unshared
  <2>1. Table(f) /\ Table(g) BY FilesAreTables DEF LevelsInv, Tables
  <2>2. l \in 1..Top BY <1>2, LevelsAssumption DEF Levels
  <2>3. Before(Largest(f), Smallest(g)) \/ Before(Largest(g), Smallest(f))
    BY <2>2 DEF LevelsInv, LevelsDisjoint
  <2>4. PICK a, b, c, d : a = Smallest(f) /\ b = Largest(f) /\ c = Smallest(g) /\ d = Largest(g) OBVIOUS
  <2>5. /\ e = a \/ Before(a, e)
        /\ e = b \/ Before(e, b)
        /\ a \in Entry /\ b \in Entry /\ e \in Entry
    BY <2>1, <2>4, TableEnds DEF Table
  <2>6. /\ e = c \/ Before(c, e)
        /\ e = d \/ Before(e, d)
        /\ c \in Entry /\ d \in Entry
    BY <2>1, <2>4, TableEnds DEF Table
  <2>7. CASE Before(b, c) BY <2>5, <2>6, <2>7, BeforeOrder
  <2>8. CASE Before(d, a) BY <2>5, <2>6, <2>8, BeforeOrder
  <2> QED BY <2>3, <2>4, <2>7, <2>8
<1> QED BY <1>1, <1>2

(* Of some tables of a level one is first.                                 *)
LEMMA FirstIsOne ==
  ASSUME LevelsInv, NEW l \in Levels, NEW files \in SUBSET levels[l], files # {}
  PROVE  FirstOf(files) \in files
<1> DEFINE A == {Smallest(f) : f \in files}
<1>1. \A f \in files : Table(f) BY FilesAreTables DEF LevelsInv, Tables
<1>2. \A f \in files : Smallest(f) \in f.entries /\ Smallest(f) \in written
  <2>1. \A f \in files : Smallest(f) \in f.entries BY <1>1, TableEnds
  <2> QED BY <2>1 DEF LevelsInv, FilesOK
<1>3. A \in SUBSET written /\ A # {} BY <1>2
<1>4. A \in SUBSET Entry /\ Distinct(A) /\ IsFiniteSet(A)
  <2> HIDE DEF A
  <2>1. IsFiniteSet(A) BY <1>3, FS_Subset DEF LevelsInv, WrittenOK
  <2> QED BY <1>3, <2>1 DEF LevelsInv, WrittenOK, Distinct
<1>5. Foremost(A) \in A /\ \A e \in A \ {Foremost(A)} : Before(Foremost(A), e)
  <2> HIDE DEF A
  <2> QED BY <1>3, <1>4, FirstAndLast
<1>6. PICK f \in files : Foremost(A) = Smallest(f) BY <1>5
<1>7. \A g \in files : Smallest(g) \in A OBVIOUS
<1>8. \A g \in files \ {f} : Before(Smallest(f), Smallest(g))
  <2> SUFFICES ASSUME NEW g \in files, g # f PROVE Before(Smallest(f), Smallest(g)) OBVIOUS
  <2>1. f.entries \cap g.entries = {} BY LevelUnshared DEF Unshared
  <2>2. Smallest(g) # Smallest(f) BY <1>2, <2>1
  <2> HIDE DEF A
  <2> QED BY <1>5, <1>6, <1>7, <2>2
<1> QED BY <1>8 DEF FirstOf

(* An empty level has no size.                                             *)
LEMMA EmptySize == Size({}) = 0
<1> DEFINE iter == CHOOSE g : g = [s \in SUBSET {} |-> 0]
<1>1. iter[{}] = 0
  <2>1. \E g : g = [s \in SUBSET {} |-> 0] OBVIOUS
  <2>2. iter = [s \in SUBSET {} |-> 0] BY <2>1
  <2> QED BY <2>2
<1> QED BY DEF Size, FoldSet, MapThenFoldSet

(* What PickCompaction picks.                                              *)
LEMMA PicksAre ==
  ASSUME LevelsInv, NEW pick \in Picks
  PROVE  /\ pick.level \in 0..(Top - 1)
         /\ pick.chosen \in SUBSET levels[pick.level] /\ Together(pick.chosen) /\ pick.chosen # {}
         /\ pick.level = 0 => \E lo, hi \in Nat : Closed(pick.chosen, levels[0], lo, hi)
<1> DEFINE take(l, f) == [level |-> l, chosen |-> WithOverlapping(l, f)]
<1>1. \E l \in 0..(Top - 1) : \E f \in levels[l] : pick = take(l, f)
  <2>1. CASE {l \in 0..(Top - 1) : TooBig(l)} # {}
    <3>1. PICK l \in 0..(Top - 1) : TooBig(l) /\ pick = take(l, NextInTurn(l))
      <4>1. Picks = {take(l, NextInTurn(l)) : l \in {m \in 0..(Top - 1) : TooBig(m)}} BY <2>1 DEF Picks
      <4> QED BY <4>1
    <3>2. l \in Levels BY LevelNumbers
    <3>3. levels[l] # {}
      <4>1. Trigger \in Nat /\ LevelSize \in Nat /\ Trigger # 0 /\ LevelSize # 0 BY LevelsAssumption
      <4>2. CASE levels[l] = {}
        <5>1. Cardinality(levels[l]) = 0 /\ Size(levels[l]) = 0 BY <4>2, FS_EmptySet, EmptySize
        <5> QED BY <3>1, <4>1, <5>1 DEF TooBig
      <4> QED BY <4>2
    <3>4. NextInTurn(l) \in levels[l]
      <4>1. PICK after : after = {f \in levels[l] : pointers[l] = NoEntry \/ Before(pointers[l], Largest(f))}
        OBVIOUS
      <4>2. NextInTurn(l) = FirstOf(IF after = {} THEN levels[l] ELSE after) BY <4>1 DEF NextInTurn
      <4>3. after \in SUBSET levels[l] BY <4>1
      <4> QED BY <3>2, <3>3, <4>2, <4>3, FirstIsOne
    <3> QED BY <3>1, <3>4
  <2>2. CASE {l \in 0..(Top - 1) : TooBig(l)} = {}
    <3> QED BY <2>2 DEF Picks
  <2> QED BY <2>1, <2>2
<1>2. PICK l \in 0..(Top - 1) : \E f \in levels[l] : pick = take(l, f) BY <1>1
<1>3. PICK f \in levels[l] : pick = take(l, f) BY <1>2
<1>4. l \in Levels /\ Tables(levels[l]) BY LevelNumbers, FilesAreTables DEF LevelsInv
<1>5. /\ WithOverlapping(l, f) \in SUBSET levels[l] /\ f \in WithOverlapping(l, f)
      /\ Together(WithOverlapping(l, f))
      /\ l = 0 => \E lo, hi \in Nat : Closed(WithOverlapping(l, f), levels[0], lo, hi)
  BY <1>4, StartTogether
<1> QED BY <1>3, <1>5

-----------------------------------------------------------------------------
(* 7. The steps. *)

(* The invariant holds of an empty database.                               *)
LEMMA InitLevels == ASSUME Init PROVE LevelsInv
<1>1. WrittenOK BY FS_EmptySet DEF Init, WrittenOK, Distinct
<1>2. FilesOK BY FS_EmptySet DEF Init, FilesOK
<1>3. levels[0] = {} BY LevelNumbers DEF Init
<1>4. LevelZeroOK BY <1>3 DEF LevelZeroOK, Unshared
<1>5. JobOK BY DEF Init, JobOK
<1>6. LevelsDisjoint BY LevelNumbers DEF Init, LevelsDisjoint
<1>7. ViewsOK BY LevelsAssumption DEF Init, ViewsOK
<1> QED BY <1>1, <1>2, <1>4, <1>5, <1>6, <1>7 DEF LevelsInv

(* Writes and snapshots touch no table.                                    *)
LEMMA JobSame ==
  ASSUME LevelsInv, UNCHANGED <<levels, job>>
  PROVE  JobOK' /\ LevelsDisjoint'
<1>1. JobOK' BY DEF LevelsInv, JobOK, Aside, Together, Avoids, AllAbove, AllBelow, Overlaps
<1>2. LevelsDisjoint' BY DEF LevelsInv, LevelsDisjoint
<1> QED BY <1>1, <1>2

(* A write takes a number no entry has.                                    *)
LEMMA WriteLevels ==
  ASSUME LevelsInv, NEW k \in Keys, NEW del \in BOOLEAN, Write(k, del)
  PROVE  LevelsInv'
<1>1. PICK e : e = [key |-> k, seq |-> last + 1, del |-> del] OBVIOUS
<1>2. /\ last' = last + 1 /\ mem' = mem \cup {e} /\ written' = written \cup {e} /\ last < MaxWrites
      /\ UNCHANGED <<levels, job, snapshots>>
  BY <1>1 DEF Write
<1>3. last \in Nat /\ e \in Entry /\ e.seq = last + 1 BY <1>1 DEF LevelsInv, WrittenOK, Entry
<1>4. \A d \in written : d.seq \in Nat /\ d.seq <= last BY DEF LevelsInv, WrittenOK, Entry
<1>5. e \notin written BY <1>3, <1>4
<1>6. WrittenOK'
  <2>1. IsFiniteSet(written') BY <1>2, FS_AddElement DEF LevelsInv, WrittenOK
  <2>2. Distinct(written')
    <3>1. \A d \in written : d.seq # e.seq BY <1>3, <1>4
    <3>2. Distinct(written) BY DEF LevelsInv, WrittenOK
    <3> QED BY <1>2, <3>1, <3>2 DEF Distinct
  <2>3. \A d \in written' : d.seq <= last' BY <1>2, <1>3, <1>4
  <2> QED BY <1>2, <1>3, <2>1, <2>2, <2>3 DEF LevelsInv, WrittenOK
<1>7. FilesOK' BY <1>2 DEF LevelsInv, FilesOK
<1>8. LevelZeroOK'
  <2>1. \A f \in levels[0] : e \notin f.entries BY <1>5, LevelNumbers DEF LevelsInv, FilesOK
  <2> QED BY <1>2, <2>1 DEF LevelsInv, LevelZeroOK, Unshared
<1>9. ViewsOK'
  <2>1. MaxWrites \in Nat BY LevelsAssumption
  <2>2. ViewsOK BY DEF LevelsInv
  <2>3. snapshots' \subseteq 0..last' /\ last' <= MaxWrites BY <1>2, <1>3, <2>1, <2>2 DEF ViewsOK
  <2>4. ASSUME job' # NoJob PROVE job'.smallest \in Nat /\ \A s \in snapshots' \cup {last'} : job'.smallest <= s
    BY <1>2, <1>3, <2>2, <2>4 DEF ViewsOK
  <2> QED BY <2>3, <2>4 DEF ViewsOK
<1> QED BY <1>2, <1>6, <1>7, <1>8, <1>9, JobSame DEF LevelsInv

(* Snapshots are views between the oldest and the last number.             *)
LEMMA IdleLevels ==
  ASSUME LevelsInv, UNCHANGED <<mem, levels, last, job, written>>, snapshots' \subseteq snapshots \cup {last}
  PROVE  LevelsInv'
<1>1. WrittenOK' BY DEF LevelsInv, WrittenOK, Distinct
<1>2. FilesOK' BY DEF LevelsInv, FilesOK
<1>3. LevelZeroOK' BY DEF LevelsInv, LevelZeroOK, Unshared
<1>4. ViewsOK' BY DEF LevelsInv, WrittenOK, ViewsOK
<1> QED BY <1>1, <1>2, <1>3, <1>4, JobSame DEF LevelsInv

(* PickLevelForMemTableOutput: unless it is level 0, nothing there or      *)
(* above it touches the memtable's range.                                  *)
LEMMA LevelChosen ==
  ASSUME NEW lo, NEW hi
  PROVE  LET l == LevelForMemTable(lo, hi)
         IN  l \in Levels /\ (l # 0 => \A m \in 0..l : ~ OverlapInLevel(m, lo, hi))
<1>1. CASE OverlapInLevel(0, lo, hi) BY <1>1, LevelNumbers DEF LevelForMemTable
<1>2. CASE ~ OverlapInLevel(0, lo, hi)
  <2> DEFINE A == {0} \cup {l \in 1..MaxMemLevel : \A m \in 0..(l - 1) : MayPush(m, lo, hi)}
  <2>1. MaxMemLevel \in Nat /\ Top \in Nat /\ MaxMemLevel < Top BY LevelsAssumption
  <2>2. A \in SUBSET Nat /\ A # {} /\ \A n \in A : n <= MaxMemLevel BY <2>1
  <2>3. Max(A) \in A
    <3> HIDE DEF A
    <3>1. IsFiniteSet(A) BY <2>1, <2>2, FS_BoundedSetOfNaturals
    <3> QED BY <2>2, <3>1, Extremes
  <2>4. PICK l : l = LevelForMemTable(lo, hi) OBVIOUS
  <2>5. l = Max(A) BY <1>2, <2>4 DEF LevelForMemTable
  <2>6. l \in Levels
    <3>1. l \in A BY <2>3, <2>5
    <3> HIDE DEF A
    <3> QED BY <2>1, <2>2, <3>1 DEF Levels
  <2>7. ASSUME l # 0, NEW m \in 0..l PROVE ~ OverlapInLevel(m, lo, hi)
    <3>1. l \in 1..MaxMemLevel /\ \A i \in 0..(l - 1) : MayPush(i, lo, hi) BY <2>3, <2>5, <2>7
    <3>2. CASE m = 0 BY <1>2, <3>2
    <3>3. CASE m # 0
      <4>1. m - 1 \in 0..(l - 1) /\ (m - 1) + 1 = m BY <2>1, <3>1, <3>3
      <4>2. MayPush(m - 1, lo, hi) BY <3>1, <4>1
      <4>3. ~ OverlapInLevel((m - 1) + 1, lo, hi) BY <4>2 DEF MayPush
      <4> QED BY <4>1, <4>3
    <3> QED BY <3>2, <3>3
  <2> QED BY <2>4, <2>6, <2>7
<1> QED BY <1>1, <1>2

(* Ranges that do not touch are in order.                                  *)
LEMMA RangesApart ==
  ASSUME NEW f, Table(f), NEW g, Table(g), ~ Overlaps(g, Smallest(f).key, Largest(f).key)
  PROVE  Before(Largest(f), Smallest(g)) \/ Before(Largest(g), Smallest(f))
<1>1. PICK a, b, c, d : a = Smallest(f) /\ b = Largest(f) /\ c = Smallest(g) /\ d = Largest(g) OBVIOUS
<1>2. a \in Entry /\ b \in Entry /\ c \in Entry /\ d \in Entry /\ {a.key, b.key, c.key, d.key} \subseteq Nat
  BY <1>1, TableEnds DEF Table
<1>3. d.key < a.key \/ b.key < c.key BY <1>1, <1>2, OneSide
<1> QED BY <1>1, <1>2, <1>3, BeforeOrder

(* CompactMemTable: the new table touches none of its level, and, coming   *)
(* in the middle of a compaction, none of the compaction's inputs either:  *)
(* they lie together, so it is on one side of all of them.                 *)
LEMMA FlushLevels ==
  ASSUME LevelsInv, Flush
  PROVE  LevelsInv'
<1>1. PICK lo, hi : lo = Foremost(mem).key /\ hi = Hindmost(mem).key OBVIOUS
<1>2. PICK l : l = LevelForMemTable(lo, hi) OBVIOUS
<1>3. PICK h : h = [number |-> next, entries |-> mem] OBVIOUS
<1>4. /\ mem # {} /\ mem' = {} /\ UNCHANGED <<last, job, written, snapshots>>
      /\ levels' = [levels EXCEPT ![l] = @ \cup {h}]
  BY <1>1, <1>2, <1>3 DEF Flush, NewVersion
<1>5. l \in Levels /\ (l # 0 => \A m \in 0..l : ~ OverlapInLevel(m, lo, hi)) BY <1>2, LevelChosen
<1>6. levels = [m \in Levels |-> levels[m]] BY DEF LevelsInv, FilesOK
<1>7. /\ levels' = [m \in Levels |-> levels'[m]] /\ levels'[l] = levels[l] \cup {h}
      /\ \A m \in Levels : m # l => levels'[m] = levels[m]
  BY <1>4, <1>5, <1>6
<1>8. WrittenOK' BY <1>4 DEF LevelsInv, WrittenOK, Distinct
<1>9. h.entries \subseteq written /\ h.entries # {} /\ h.entries = mem BY <1>3, <1>4 DEF LevelsInv, WrittenOK
<1>10. FilesOK'
  <2> SUFFICES ASSUME NEW m \in Levels
               PROVE  IsFiniteSet(levels'[m]) /\ \A f \in levels'[m] : f.entries \subseteq written /\ f.entries # {}
    BY <1>4, <1>7 DEF FilesOK
  <2>1. IsFiniteSet(levels[m]) /\ \A f \in levels[m] : f.entries \subseteq written /\ f.entries # {}
    BY DEF LevelsInv, FilesOK
  <2>2. CASE m # l BY <1>7, <2>1, <2>2
  <2>3. CASE m = l
    <3>1. IsFiniteSet(levels[m] \cup {h}) BY <2>1, FS_AddElement
    <3> QED BY <1>7, <1>9, <2>1, <2>3, <3>1
  <2> QED BY <2>2, <2>3
<1>11. LevelZeroOK'
  <2>1. Unshared(levels[0]) /\ \A f \in levels[0] : f.entries \cap mem = {} BY DEF LevelsInv, LevelZeroOK
  <2>2. levels'[0] = levels[0] \/ levels'[0] = levels[0] \cup {h} BY <1>7, LevelNumbers
  <2>3. Unshared(levels'[0]) BY <1>9, <2>1, <2>2 DEF Unshared
  <2> QED BY <1>4, <2>3 DEF LevelZeroOK
<1>12. Table(h)
  <2>1. levels'[l] = levels[l] \cup {h} BY <1>7
  <2>2. mem \in SUBSET Entry /\ IsFiniteSet(mem) /\ Distinct(mem)
    <3>1. mem \in SUBSET written BY DEF LevelsInv, WrittenOK
    <3>2. IsFiniteSet(mem) BY <3>1, FS_Subset DEF LevelsInv, WrittenOK
    <3> QED BY <3>1, <3>2 DEF LevelsInv, WrittenOK, Distinct
  <2> QED BY <1>9, <2>2 DEF Table
<1>13. lo = Smallest(h).key /\ hi = Largest(h).key BY <1>1, <1>9 DEF Smallest, Largest
<1>14. lo \in Nat /\ hi \in Nat /\ lo <= hi BY <1>12, <1>13, TableEnds
<1>15. ASSUME l # 0, NEW m \in 0..l, NEW f \in levels[m]
       PROVE  Table(f) /\ ~ Overlaps(f, lo, hi)
  <2>1. m \in Levels BY <1>5, <1>15, LevelsAssumption DEF Levels
  <2>2. Table(f) BY <1>15, <2>1, FilesAreTables DEF LevelsInv, Tables
  <2> QED BY <1>5, <1>15, <2>2 DEF OverlapInLevel
<1>16. LevelsDisjoint'
  <2> SUFFICES ASSUME NEW m \in 1..Top, NEW f \in levels'[m], NEW g \in levels'[m], f # g
               PROVE  Before(Largest(f), Smallest(g)) \/ Before(Largest(g), Smallest(f))
    BY DEF LevelsDisjoint
  <2>1. m \in Levels /\ m # 0 BY LevelNumbers
  <2>2. CASE f \in levels[m] /\ g \in levels[m] BY <2>2 DEF LevelsInv, LevelsDisjoint
  <2>3. CASE f = h /\ g \in levels[m] /\ m = l
    <3>1. l \in 0..l BY <2>1, <2>3
    <3>2. Table(g) /\ ~ Overlaps(g, lo, hi) BY <1>15, <2>1, <2>3, <3>1
    <3> QED BY <1>12, <1>13, <2>3, <3>2, RangesApart
  <2>4. CASE g = h /\ f \in levels[m] /\ m = l
    <3>1. l \in 0..l BY <2>1, <2>4
    <3>2. Table(f) /\ ~ Overlaps(f, lo, hi) BY <1>15, <2>1, <2>4, <3>1
    <3> QED BY <1>12, <1>13, <2>4, <3>2, RangesApart
  <2> QED BY <1>7, <2>1, <2>2, <2>3, <2>4
<1>17. JobOK'
  <2> SUFFICES ASSUME job # NoJob
               PROVE  /\ job.level \in 0..(Top - 1)
                      /\ job.in[1] \subseteq levels'[job.level] /\ job.in[2] \subseteq levels'[job.level + 1]
                      /\ Together(job.in[1] \cup job.in[2])
                      /\ \A g \in levels'[job.level + 1] \ job.in[2] : Aside(g, job.in[1] \cup job.in[2])
    BY <1>4 DEF JobOK, Aside, Together, Avoids, AllAbove, AllBelow, Overlaps
  <2>1. PICK n, a, b : n = job.level /\ a = job.in[1] /\ b = job.in[2] OBVIOUS
  <2>2. /\ n \in 0..(Top - 1) /\ a \subseteq levels[n] /\ b \subseteq levels[n + 1] /\ Together(a \cup b)
        /\ \A g \in levels[n + 1] \ b : Aside(g, a \cup b)
    BY <2>1 DEF LevelsInv, JobOK
  <2>3. n \in Levels /\ n + 1 \in Levels /\ n + 1 # 0 BY <2>2, LevelNumbers
  <2>4. levels[n] \subseteq levels'[n] /\ levels[n + 1] \subseteq levels'[n + 1] BY <1>7, <2>3
  <2>5. ASSUME NEW g \in levels'[n + 1] \ b PROVE Aside(g, a \cup b)
    <3>1. CASE g \in levels[n + 1] BY <2>2, <2>5, <3>1
    <3>2. CASE g = h /\ n + 1 = l
      <4>1. ASSUME NEW f \in a \cup b PROVE Table(f) /\ ~ Overlaps(f, lo, hi)
        <5>1. n \in 0..l /\ n + 1 \in 0..l /\ l # 0 BY <2>2, <2>3, <3>2
        <5>2. f \in levels[n] \/ f \in levels[n + 1] BY <2>2, <4>1
        <5> QED BY <1>15, <5>1, <5>2
      <4>2. AllAbove(a \cup b, hi) \/ AllBelow(a \cup b, lo)
        <5>1. Avoids(a \cup b, lo, hi) BY <4>1 DEF Avoids
        <5> QED BY <1>14, <2>2, <5>1 DEF Together
      <4>3. Largest(h) \in Entry /\ Smallest(h) \in Entry BY <1>12, TableEnds DEF Table
      <4>4. ASSUME NEW f \in a \cup b, NEW e \in f.entries
            PROVE  e \in Entry /\ e.key \in Nat /\ Smallest(f).key <= e.key /\ e.key <= Largest(f).key
                   /\ Smallest(f).key \in Nat /\ Largest(f).key \in Nat
        <5>1. Table(f) BY <4>1
        <5> QED BY <4>4, <5>1, TableEnds DEF Table
      <4>5. CASE AllAbove(a \cup b, hi)
        <5>1. ASSUME NEW f \in a \cup b, NEW e \in f.entries PROVE Before(Largest(h), e)
          <6>1. hi < e.key BY <1>14, <4>4, <4>5, <5>1 DEF AllAbove
          <6> QED BY <1>13, <4>3, <4>4, <6>1, <5>1, BeforeOrder
        <5> QED BY <3>2, <5>1 DEF Aside
      <4>6. CASE AllBelow(a \cup b, lo)
        <5>1. ASSUME NEW f \in a \cup b, NEW e \in f.entries PROVE Before(e, Smallest(h))
          <6>1. e.key < lo BY <1>14, <4>4, <4>6, <5>1 DEF AllBelow
          <6> QED BY <1>13, <4>3, <4>4, <6>1, <5>1, BeforeOrder
        <5> QED BY <3>2, <5>1 DEF Aside
      <4> QED BY <4>2, <4>5, <4>6
    <3> QED BY <1>7, <2>3, <2>5, <3>1, <3>2
  <2> QED BY <2>1, <2>2, <2>4, <2>5
<1>18. ViewsOK' BY <1>4 DEF LevelsInv, ViewsOK
<1> QED BY <1>8, <1>10, <1>11, <1>16, <1>17, <1>18 DEF LevelsInv

(* What a table of the level below lies over of, it was taken for.         *)
LEMMA BelowAside ==
  ASSUME LevelsInv, NEW l \in 0..(Top - 1), NEW S, Tables(S), S # {},
         NEW h \in levels[l + 1], h \notin OverlappingInputs(levels, l + 1, Low(S), High(S))
  PROVE  Aside(h, S \cup OverlappingInputs(levels, l + 1, Low(S), High(S)))
<1>1. PICK B, a, b : B = OverlappingInputs(levels, l + 1, a, b) /\ a = Low(S) /\ b = High(S) OBVIOUS
<1>2. a \in Nat /\ b \in Nat /\ a <= b /\ \A f \in S : a <= Smallest(f).key /\ Largest(f).key <= b
  BY <1>1, RangeOf
<1>3. l + 1 \in Levels /\ l + 1 # 0 /\ l + 1 \in 1..Top BY LevelNumbers
<1>4. Tables(levels[l + 1]) BY <1>3, FilesAreTables DEF LevelsInv
<1>5. B \in SUBSET levels[l + 1] /\ \A f \in B : Overlaps(f, a, b) BY <1>1, <1>2, <1>3, <1>4, Found
<1>6. Table(h) /\ ~ Overlaps(h, a, b) BY <1>1, <1>2, <1>3, <1>4, Found DEF Tables
<1>7. PICK s, t : s = Smallest(h) /\ t = Largest(h) OBVIOUS
<1>8. s \in Entry /\ t \in Entry /\ s.key \in Nat /\ t.key \in Nat /\ s.key <= t.key BY <1>6, <1>7, TableEnds DEF Table
<1>9. t.key < a \/ b < s.key BY <1>2, <1>6, <1>7, OneSide
<1>10. \A f \in S \cup B : Table(f) BY <1>4, <1>5 DEF Tables
<1>11. \A f \in B : Before(t, Smallest(f)) \/ Before(Largest(f), s)
  BY <1>1, <1>3, <1>5, <1>7 DEF LevelsInv, LevelsDisjoint
<1>12. CASE t.key < a
  <2>1. ASSUME NEW f \in S \cup B, NEW e \in f.entries PROVE Before(t, e)
    <3>1. Table(f) BY <1>10
    <3>2. PICK c, d : c = Smallest(f) /\ d = Largest(f) OBVIOUS
    <3>3. /\ c \in Entry /\ d \in Entry /\ e \in Entry /\ {c.key, d.key, e.key} \subseteq Nat
          /\ c.key <= e.key /\ c.key <= d.key /\ (e = c \/ Before(c, e))
      BY <2>1, <3>1, <3>2, TableEnds DEF Table
    <3>4. CASE f \in S
      <4>1. t.key < e.key BY <1>2, <1>8, <1>12, <3>2, <3>3, <3>4
      <4> QED BY <1>8, <3>3, <4>1, BeforeOrder
    <3>5. CASE f \in B
      <4>1. ~ (d.key < a) BY <1>2, <1>5, <3>1, <3>2, <3>5, OneSide
      <4>2. ~ Before(d, s) BY <1>2, <1>8, <1>12, <3>3, <4>1, BeforeOrder
      <4>3. Before(t, c) BY <1>11, <3>2, <3>5, <4>2
      <4> QED BY <1>8, <3>3, <4>3, BeforeOrder
    <3> QED BY <3>4, <3>5
  <2> QED BY <1>1, <1>7, <2>1 DEF Aside
<1>13. CASE b < s.key
  <2>1. ASSUME NEW f \in S \cup B, NEW e \in f.entries PROVE Before(e, s)
    <3>1. Table(f) BY <1>10
    <3>2. PICK c, d : c = Smallest(f) /\ d = Largest(f) OBVIOUS
    <3>3. /\ c \in Entry /\ d \in Entry /\ e \in Entry /\ {c.key, d.key, e.key} \subseteq Nat
          /\ e.key <= d.key /\ c.key <= d.key /\ (e = d \/ Before(e, d))
      BY <2>1, <3>1, <3>2, TableEnds DEF Table
    <3>4. CASE f \in S
      <4>1. e.key < s.key BY <1>2, <1>8, <1>13, <3>2, <3>3, <3>4
      <4> QED BY <1>8, <3>3, <4>1, BeforeOrder
    <3>5. CASE f \in B
      <4>1. ~ (b < c.key) BY <1>2, <1>5, <3>1, <3>2, <3>5, OneSide
      <4>2. ~ Before(t, c) BY <1>2, <1>8, <1>13, <3>3, <4>1, BeforeOrder
      <4>3. Before(d, s) BY <1>11, <3>2, <3>5, <4>2
      <4> QED BY <1>8, <3>3, <4>3, BeforeOrder
    <3> QED BY <3>4, <3>5
  <2> QED BY <1>1, <1>7, <2>1 DEF Aside
<1> QED BY <1>9, <1>12, <1>13

(* A table that is aside is in order with any made of the same entries.    *)
LEMMA AsideOrder ==
  ASSUME NEW h, NEW S, Aside(h, S), NEW g, Table(g), g.entries \subseteq Entries(S)
  PROVE  Before(Largest(h), Smallest(g)) \/ Before(Largest(g), Smallest(h))
<1>1. Smallest(g) \in Entries(S) /\ Largest(g) \in Entries(S) BY TableEnds
<1>2. PICK a \in S : Smallest(g) \in a.entries BY <1>1 DEF Entries
<1>3. PICK b \in S : Largest(g) \in b.entries BY <1>1 DEF Entries
<1> QED BY <1>2, <1>3 DEF Aside

(* The oldest number a reader may use.                                     *)
LEMMA OldestView ==
  ASSUME LevelsInv
  PROVE  SmallestSnapshot \in Nat /\ \A s \in snapshots \cup {last} : SmallestSnapshot <= s
<1>1. last \in Nat /\ snapshots \subseteq 0..last BY DEF LevelsInv, WrittenOK, ViewsOK
<1>2. CASE snapshots = {} BY <1>1, <1>2 DEF SmallestSnapshot
<1>3. CASE snapshots # {}
  <2>1. snapshots \in SUBSET Nat /\ \A s \in snapshots : s <= last BY <1>1
  <2>2. IsFiniteSet(snapshots) BY <1>1, <2>1, FS_BoundedSetOfNaturals
  <2>3. Min(snapshots) \in snapshots /\ \A s \in snapshots : Min(snapshots) <= s BY <1>3, <2>1, <2>2, Extremes
  <2> QED BY <1>1, <1>3, <2>1, <2>3 DEF SmallestSnapshot
<1> QED BY <1>2, <1>3

(* BackgroundCompaction: the table that moves down, or the inputs of the   *)
(* merge.                                                                  *)
LEMMA BeginLevels ==
  ASSUME LevelsInv, NEW pick \in Picks, Begin(pick)
  PROVE  LevelsInv'
<1>1. PICK l, in : l = pick.level /\ in = Inputs(l, pick.chosen) OBVIOUS
<1>2. l \in 0..(Top - 1) /\ pick.chosen \in SUBSET levels[l] /\ Together(pick.chosen) /\ pick.chosen # {}
  BY <1>1, PicksAre
<1>3. l \in Levels /\ l + 1 \in Levels /\ l # l + 1 /\ l + 1 # 0 /\ l + 1 \in 1..Top BY <1>2, LevelNumbers
<1>4. Tables(levels[l]) /\ Tables(levels[l + 1]) BY <1>3, FilesAreTables DEF LevelsInv
<1>5. /\ in[1] \in SUBSET levels[l] /\ pick.chosen \subseteq in[1]
      /\ in[2] = OverlappingInputs(levels, l + 1, Low(in[1]), High(in[1]))
      /\ Together(in[1] \cup in[2]) /\ Tables(in[1] \cup in[2])
  BY <1>1, <1>2, <1>4, InputsTogether
<1>6. Tables(in[1]) /\ in[1] # {} BY <1>2, <1>4, <1>5, FS_Subset DEF Tables
<1>7. PICK a, b : a = Low(in[1]) /\ b = High(in[1]) OBVIOUS
<1>8. a \in Nat /\ b \in Nat BY <1>6, <1>7, RangeOf
<1>9. in[2] \in SUBSET levels[l + 1] BY <1>3, <1>4, <1>5, <1>7, <1>8, Found
<1>10. \A h \in levels[l + 1] \ in[2] : Aside(h, in[1] \cup in[2])
  BY <1>2, <1>5, <1>6, BelowAside
<1>11. UNCHANGED <<mem, last, written, snapshots>> /\ job = NoJob BY DEF Begin
<1>12. CASE ~ IsTrivialMove(l, in)
  <2>1. levels' = levels /\ job' = [kind |-> "merge", level |-> l, in |-> in, base |-> levels,
                                    grandparents |-> Grandparents(l, in), smallest |-> SmallestSnapshot]
    BY <1>1, <1>12 DEF Begin
  <2>2. job'.level = l /\ job'.in = in BY <2>1
  <2>3. /\ job'.level \in 0..(Top - 1)
        /\ job'.in[1] \subseteq levels'[job'.level] /\ job'.in[2] \subseteq levels'[job'.level + 1]
        /\ Together(job'.in[1] \cup job'.in[2])
        /\ \A h \in levels'[job'.level + 1] \ job'.in[2] : Aside(h, job'.in[1] \cup job'.in[2])
    BY <1>2, <1>5, <1>9, <1>10, <2>1, <2>2
  <2>4. JobOK' BY <2>3 DEF JobOK, Aside, Together, Avoids, AllAbove, AllBelow, Overlaps
  <2>5. WrittenOK' BY <1>11 DEF LevelsInv, WrittenOK, Distinct
  <2>6. FilesOK' BY <1>11, <2>1 DEF LevelsInv, FilesOK
  <2>7. LevelZeroOK' BY <1>11, <2>1 DEF LevelsInv, LevelZeroOK, Unshared
  <2>8. LevelsDisjoint' BY <2>1 DEF LevelsInv, LevelsDisjoint
  <2>9. ViewsOK'
    <3>1. job'.smallest = SmallestSnapshot BY <2>1
    <3> QED BY <1>11, <3>1, OldestView DEF LevelsInv, ViewsOK
  <2> QED BY <2>4, <2>5, <2>6, <2>7, <2>8, <2>9 DEF LevelsInv
<1>13. CASE IsTrivialMove(l, in)
  <2>1. /\ levels' = [levels EXCEPT ![l] = @ \ in[1], ![l + 1] = @ \cup in[1]] /\ job' = NoJob
        /\ Cardinality(in[1]) = 1 /\ in[2] = {}
    BY <1>1, <1>11, <1>13 DEF Begin, NewVersion, IsTrivialMove
  <2>2. PICK f : in[1] = {f} BY <1>6, <2>1, FS_Singleton DEF Tables
  <2>3. levels = [m \in Levels |-> levels[m]] BY DEF LevelsInv, FilesOK
  <2>4. /\ levels' = [m \in Levels |-> levels'[m]] /\ levels'[l] = levels[l] \ {f}
        /\ levels'[l + 1] = levels[l + 1] \cup {f}
        /\ \A m \in Levels : m # l /\ m # l + 1 => levels'[m] = levels[m]
    BY <1>3, <2>1, <2>2, <2>3
  <2>5. f \in levels[l] /\ Table(f) BY <1>5, <1>6, <2>2 DEF Tables
  <2>6. WrittenOK' BY <1>11 DEF LevelsInv, WrittenOK, Distinct
  <2>7. FilesOK'
    <3> SUFFICES ASSUME NEW m \in Levels
                 PROVE  IsFiniteSet(levels'[m]) /\ \A g \in levels'[m] : g.entries \subseteq written /\ g.entries # {}
      BY <1>11, <2>4 DEF FilesOK
    <3>1. \A n \in Levels : IsFiniteSet(levels[n]) /\ \A g \in levels[n] : g.entries \subseteq written /\ g.entries # {}
      BY DEF LevelsInv, FilesOK
    <3>2. CASE m # l /\ m # l + 1 BY <2>4, <3>1, <3>2
    <3>3. CASE m = l
      <4>1. IsFiniteSet(levels[l] \ {f}) BY <1>3, <3>1, FS_RemoveElement
      <4> QED BY <2>4, <3>1, <3>3, <4>1
    <3>4. CASE m = l + 1
      <4>1. IsFiniteSet(levels[l + 1] \cup {f}) BY <1>3, <3>1, FS_AddElement
      <4> QED BY <1>3, <2>4, <2>5, <3>1, <3>4, <4>1
    <3> QED BY <3>2, <3>3, <3>4
  <2>8. LevelZeroOK'
    <3>1. levels'[0] \subseteq levels[0] BY <1>3, <2>4, LevelNumbers
    <3> QED BY <1>11, <3>1 DEF LevelsInv, LevelZeroOK, Unshared
  <2>9. JobOK' BY <2>1 DEF JobOK
  <2>10. ASSUME NEW g \in levels[l + 1]
         PROVE  Before(Largest(f), Smallest(g)) \/ Before(Largest(g), Smallest(f))
    <3>1. Aside(g, in[1] \cup in[2]) BY <1>10, <2>1
    <3>2. f.entries \subseteq Entries(in[1] \cup in[2]) BY <2>2 DEF Entries
    <3> QED BY <2>5, <3>1, <3>2, AsideOrder
  <2>11. LevelsDisjoint'
    <3> SUFFICES ASSUME NEW m \in 1..Top, NEW g \in levels'[m], NEW h \in levels'[m], g # h
                 PROVE  Before(Largest(g), Smallest(h)) \/ Before(Largest(h), Smallest(g))
      BY DEF LevelsDisjoint
    <3>1. m \in Levels BY LevelNumbers
    <3>2. CASE g \in levels[m] /\ h \in levels[m] BY <3>2 DEF LevelsInv, LevelsDisjoint
    <3>3. CASE g = f /\ h \in levels[m] /\ m = l + 1 BY <2>10, <3>3
    <3>4. CASE h = f /\ g \in levels[m] /\ m = l + 1 BY <2>10, <3>4
    <3> QED BY <2>4, <3>1, <3>2, <3>3, <3>4
  <2>12. ViewsOK' BY <1>11, <2>1 DEF LevelsInv, ViewsOK
  <2> QED BY <2>6, <2>7, <2>8, <2>9, <2>11, <2>12 DEF LevelsInv
<1> QED BY <1>12, <1>13

(* The tables of a compaction's outputs.                                   *)
Made(outs) == {[number |-> next + i - 1, entries |-> outs[i]] : i \in 1..Len(outs)}

(* They are in order and hold what their inputs held.                      *)
LEMMA NewTables ==
  ASSUME WrittenOK, NEW outs, NEW S \in SUBSET written, Pieces(outs, S), NEW new, new = Made(outs)
  PROVE  /\ IsFiniteSet(new)
         /\ \A f \in new : Table(f) /\ f.entries \subseteq S
         /\ \A f, g \in new : f # g => Before(Largest(f), Smallest(g)) \/ Before(Largest(g), Smallest(f))
<1>1. outs \in Seq((SUBSET S) \ {{}}) BY DEF Pieces
<1>2. Len(outs) \in Nat /\ \A i \in 1..Len(outs) : outs[i] \in (SUBSET S) \ {{}}
  BY <1>1, LenProperties, ElementOfSeq
<1>3. IsFiniteSet(new)
  <2> DEFINE m == [i \in 1..Len(outs) |-> [number |-> next + i - 1, entries |-> outs[i]]]
  <2>1. m \in Surjection(1..Len(outs), new) BY DEF Surjection, Made
  <2>2. IsFiniteSet(1..Len(outs)) BY <1>2, FS_Interval
  <2> HIDE DEF m
  <2> QED BY <2>1, <2>2, FS_Surjection
<1>4. ASSUME NEW f \in new PROVE \E i \in 1..Len(outs) : f.entries = outs[i] /\ f.number = next + i - 1
  BY DEF Made
<1>5. \A f \in new : f.entries \in (SUBSET S) \ {{}} BY <1>2, <1>4
<1>6. ASSUME NEW f \in new PROVE Table(f)
  <2>1. f.entries \in SUBSET written /\ f.entries # {} BY <1>5
  <2>2. IsFiniteSet(f.entries) BY <2>1, FS_Subset DEF WrittenOK
  <2> QED BY <2>1, <2>2 DEF WrittenOK, Table, Distinct
<1>7. ASSUME NEW f \in new, NEW g \in new, f # g
      PROVE  Before(Largest(f), Smallest(g)) \/ Before(Largest(g), Smallest(f))
  <2>1. PICK i \in 1..Len(outs) : f = [number |-> next + i - 1, entries |-> outs[i]] BY DEF Made
  <2>2. PICK k \in 1..Len(outs) : g = [number |-> next + k - 1, entries |-> outs[k]] BY DEF Made
  <2>3. f.entries = outs[i] /\ g.entries = outs[k] /\ (i < k \/ k < i) BY <1>2, <1>7, <2>1, <2>2
  <2>4. /\ Smallest(f) \in outs[i] /\ Largest(f) \in outs[i]
        /\ Smallest(g) \in outs[k] /\ Largest(g) \in outs[k]
    BY <1>6, <2>3, TableEnds
  <2> QED BY <2>3, <2>4 DEF Pieces
<1> QED BY <1>3, <1>5, <1>6, <1>7

(* InstallCompactionResults: the outputs lie where the inputs lay.         *)
LEMMA InstallLevels ==
  ASSUME LevelsInv, Install
  PROVE  LevelsInv'
<1>1. PICK l, a, b : l = job.level /\ a = job.in[1] /\ b = job.in[2] OBVIOUS
<1>2. PICK outs : outs = Outputs(job) OBVIOUS
<1>3. PICK new : new = Made(outs) OBVIOUS
<1>4. /\ job # NoJob /\ job' = NoJob /\ UNCHANGED <<mem, last, written, snapshots>>
      /\ levels' = [levels EXCEPT ![l] = @ \ a, ![l + 1] = (@ \ b) \cup new]
  BY <1>1, <1>2, <1>3 DEF Install, NewVersion, Made
<1>5. /\ l \in 0..(Top - 1) /\ a \subseteq levels[l] /\ b \subseteq levels[l + 1]
      /\ \A h \in levels[l + 1] \ b : Aside(h, a \cup b)
  BY <1>1, <1>4 DEF LevelsInv, JobOK
<1>6. l \in Levels /\ l + 1 \in Levels /\ l # l + 1 /\ l + 1 # 0 /\ l + 1 \in 1..Top BY <1>5, LevelNumbers
<1>7. WrittenOK BY DEF LevelsInv
<1>8. PICK S : S = Entries(a \cup b) OBVIOUS
<1>9. S \in SUBSET written
  <2>1. \A f \in a \cup b : f.entries \subseteq written BY <1>5, <1>6 DEF LevelsInv, FilesOK
  <2> QED BY <1>8, <2>1 DEF Entries
<1>10. Pieces(outs, S)
  <2>1. S \in SUBSET Entry /\ Distinct(S) BY <1>7, <1>9 DEF WrittenOK, Distinct
  <2>2. IsFiniteSet(S) BY <1>7, <1>9, FS_Subset DEF WrittenOK
  <2>3. S = Entries(job.in[1] \cup job.in[2]) BY <1>1, <1>8
  <2>4. job.smallest \in Nat /\ job.smallest <= MaxWrites
    <3>1. ViewsOK /\ last \in Nat BY DEF LevelsInv, WrittenOK
    <3>2. job.smallest \in Nat /\ job.smallest <= last /\ last <= MaxWrites BY <1>4, <3>1 DEF ViewsOK
    <3>3. MaxWrites \in Nat BY LevelsAssumption
    <3> QED BY <3>1, <3>2, <3>3
  <2> QED BY <1>2, <2>1, <2>2, <2>3, <2>4, OutputsTell
<1>11. /\ IsFiniteSet(new)
       /\ \A f \in new : Table(f) /\ f.entries \subseteq S
       /\ \A f, g \in new : f # g => Before(Largest(f), Smallest(g)) \/ Before(Largest(g), Smallest(f))
  BY <1>3, <1>7, <1>9, <1>10, NewTables
<1>12. levels = [m \in Levels |-> levels[m]] BY DEF LevelsInv, FilesOK
<1>13. /\ levels' = [m \in Levels |-> levels'[m]] /\ levels'[l] = levels[l] \ a
       /\ levels'[l + 1] = (levels[l + 1] \ b) \cup new
       /\ \A m \in Levels : m # l /\ m # l + 1 => levels'[m] = levels[m]
  BY <1>4, <1>6, <1>12
<1>14. WrittenOK' BY <1>4 DEF LevelsInv, WrittenOK, Distinct
<1>15. FilesOK'
  <2> SUFFICES ASSUME NEW m \in Levels
               PROVE  IsFiniteSet(levels'[m]) /\ \A g \in levels'[m] : g.entries \subseteq written /\ g.entries # {}
    BY <1>4, <1>13 DEF FilesOK
  <2>1. \A n \in Levels : IsFiniteSet(levels[n]) /\ \A g \in levels[n] : g.entries \subseteq written /\ g.entries # {}
    BY DEF LevelsInv, FilesOK
  <2>2. CASE m # l /\ m # l + 1 BY <1>13, <2>1, <2>2
  <2>3. CASE m = l
    <3>1. IsFiniteSet(levels[l] \ a)
      <4>1. IsFiniteSet(levels[l]) BY <1>6, <2>1
      <4> QED BY <4>1, FS_Subset
    <3> QED BY <1>13, <2>1, <2>3, <3>1
  <2>4. CASE m = l + 1
    <3>1. IsFiniteSet((levels[l + 1] \ b) \cup new)
      <4>1. IsFiniteSet(levels[l + 1]) BY <1>6, <2>1
      <4>2. IsFiniteSet(levels[l + 1] \ b) BY <4>1, FS_Subset
      <4> QED BY <1>11, <4>2, FS_Union
    <3>2. \A g \in new : g.entries \subseteq written /\ g.entries # {} BY <1>9, <1>11 DEF Table
    <3> QED BY <1>13, <2>1, <2>4, <3>1, <3>2
  <2> QED BY <2>2, <2>3, <2>4
<1>16. LevelZeroOK'
  <2>1. levels'[0] \subseteq levels[0] BY <1>6, <1>13, LevelNumbers
  <2> QED BY <1>4, <2>1 DEF LevelsInv, LevelZeroOK, Unshared
<1>17. JobOK' BY <1>4 DEF JobOK
<1>18. ViewsOK' BY <1>4 DEF LevelsInv, ViewsOK
<1>19. ASSUME NEW h \in levels[l + 1] \ b, NEW g \in new
       PROVE  Before(Largest(h), Smallest(g)) \/ Before(Largest(g), Smallest(h))
  BY <1>5, <1>8, <1>11, AsideOrder
<1>20. LevelsDisjoint'
  <2> SUFFICES ASSUME NEW m \in 1..Top, NEW g \in levels'[m], NEW h \in levels'[m], g # h
               PROVE  Before(Largest(g), Smallest(h)) \/ Before(Largest(h), Smallest(g))
    BY DEF LevelsDisjoint
  <2>1. m \in Levels BY LevelNumbers
  <2>2. CASE g \in levels[m] /\ h \in levels[m] BY <2>2 DEF LevelsInv, LevelsDisjoint
  <2>3. CASE g \in new /\ h \in new BY <1>11, <2>3
  <2>4. CASE m = l + 1 /\ g \in new /\ h \in levels[l + 1] \ b BY <1>19, <2>4
  <2>5. CASE m = l + 1 /\ h \in new /\ g \in levels[l + 1] \ b BY <1>19, <2>5
  <2> QED BY <1>13, <2>1, <2>2, <2>3, <2>4, <2>5
<1> QED BY <1>14, <1>15, <1>16, <1>17, <1>20, <1>18 DEF LevelsInv

(* Nothing happens.                                                        *)
LEMMA StutterLevels == ASSUME LevelsInv, UNCHANGED vars PROVE LevelsInv'
BY IdleLevels DEF vars

(* In every reachable state entries have numbers of their own, tables hold *)
(* written entries, and the inputs of the compaction under way lie apart   *)
(* from what stays of the level they go to.                                *)
THEOREM LevelsInvariant == Spec => []LevelsInv
<1>1. Init => LevelsInv BY InitLevels
<1>2. ASSUME LevelsInv, [Next]_vars PROVE LevelsInv'
  <2>1. CASE \E k \in Keys, del \in BOOLEAN : Write(k, del) BY <1>2, <2>1, WriteLevels
  <2>2. CASE Flush BY <1>2, <2>2, FlushLevels
  <2>3. CASE GetSnapshot \/ ReleaseSnapshot 
    BY <1>2, <2>3, IdleLevels DEF GetSnapshot, ReleaseSnapshot
  <2>4. CASE Compact BY <1>2, <2>4, BeginLevels DEF Compact
  <2>5. CASE Install BY <1>2, <2>5, InstallLevels
  <2>6. CASE UNCHANGED vars BY <1>2, <2>6, StutterLevels
  <2> QED BY <1>2, <2>1, <2>2, <2>3, <2>4, <2>5, <2>6 DEF Next
<1> QED BY <1>1, <1>2, PTL DEF Spec

(* Below level 0 the tables of a level never share a key, whatever is      *)
(* flushed while a compaction is under way (MaybeAddFile asserts it).      *)
THEOREM LevelsStayDisjoint == Spec => []LevelsDisjoint
<1>1. LevelsInv => LevelsDisjoint BY DEF LevelsInv
<1> QED BY <1>1, LevelsInvariant, PTL

-----------------------------------------------------------------------------
(* 8. Reads. *)

(* Entries of the same user key, and the newest of them a view sees.       *)
Newer(S, T) == \A d \in S, e \in T : d.key = e.key => d.seq > e.seq
Of(S, k, seq) == {e \in S : e.key = k /\ e.seq <= seq}
Newest(S, k, seq) == IF Of(S, k, seq) = {} THEN NoEntry ELSE Foremost(Of(S, k, seq))
Stored == mem \cup UNION {Entries(levels[l]) : l \in Levels}

(* Numbers of tables; and where newer entries are than others.             *)
NumbersOK ==
  /\ next \in Nat
  /\ \A l \in Levels : \A f \in levels[l] : f.number \in Nat /\ f.number < next
  /\ \A f, g \in levels[0] : f.number = g.number => f = g
MemNewest == \A l \in Levels : \A e \in mem, d \in Entries(levels[l]) : e.seq > d.seq
NewerAbove == \A l, m \in Levels : l < m => Newer(Entries(levels[l]), Entries(levels[m]))
ZeroOrder == \A f, g \in levels[0] : f.number > g.number => Newer(f.entries, g.entries)

(* What stands for no entry is none.                                       *)
LEMMA NoneIsNot == NoEntry \notin Entry
BY LevelsAssumption DEF NoEntry, Entry

(* The newest entry of a key up to a number.                               *)
LEMMA NewestIs ==
  ASSUME NEW S \in SUBSET Entry, Distinct(S), IsFiniteSet(S), NEW k, NEW seq \in Nat
  PROVE  /\ Of(S, k, seq) = {} => Newest(S, k, seq) = NoEntry
         /\ Of(S, k, seq) # {} =>
              /\ Newest(S, k, seq) \in Of(S, k, seq) /\ Newest(S, k, seq) # NoEntry
              /\ \A d \in Of(S, k, seq) : d.seq <= Newest(S, k, seq).seq
<1>1. CASE Of(S, k, seq) = {} BY <1>1 DEF Newest
<1>2. CASE Of(S, k, seq) # {}
  <2>1. PICK A, e : A = Of(S, k, seq) /\ e = Newest(S, k, seq) OBVIOUS
  <2>2. A \in SUBSET S /\ A # {} /\ \A d \in A : d.key = k BY <1>2, <2>1 DEF Of
  <2>3. A \in SUBSET Entry /\ Distinct(A) /\ IsFiniteSet(A) BY <2>2, FS_Subset DEF Distinct
  <2>4. e = Foremost(A) BY <1>2, <2>1 DEF Newest
  <2>5. e \in A /\ \A d \in A \ {e} : Before(e, d) BY <2>2, <2>3, <2>4, FirstAndLast
  <2>6. \A d \in A : d.seq \in Nat BY <2>3 DEF Entry
  <2>7. \A d \in A : d.seq <= e.seq
    <3> SUFFICES ASSUME NEW d \in A, d # e PROVE d.seq <= e.seq BY <2>5, <2>6
    <3>1. Before(e, d) /\ e.key = k /\ d.key = k BY <2>2, <2>5
    <3>2. k \in Nat BY <2>3, <3>1, LevelsAssumption DEF Entry
    <3> QED BY <2>5, <2>6, <3>1, <3>2 DEF Before
  <2>8. e # NoEntry BY <2>3, <2>5, NoneIsNot
  <2> QED BY <1>2, <2>1, <2>5, <2>7, <2>8
<1> QED BY <1>1, <1>2

(* An entry no other of its key exceeds is the newest.                     *)
LEMMA NewestThe ==
  ASSUME NEW S \in SUBSET Entry, Distinct(S), IsFiniteSet(S), NEW k, NEW seq \in Nat,
         NEW e \in Of(S, k, seq), \A d \in Of(S, k, seq) : d.seq <= e.seq
  PROVE  Newest(S, k, seq) = e
<1>1. PICK n : n = Newest(S, k, seq) OBVIOUS
<1>2. n \in Of(S, k, seq) /\ e.seq <= n.seq BY <1>1, NewestIs
<1>3. n.seq <= e.seq BY <1>2
<1>4. n \in S /\ e \in S /\ n.seq \in Nat /\ e.seq \in Nat BY <1>2 DEF Of, Entry
<1>5. n.seq = e.seq BY <1>2, <1>3, <1>4
<1> QED BY <1>1, <1>4, <1>5 DEF Distinct

(* The entries of a level, and of the database, are some of those written. *)
LEMMA EntriesWritten ==
  ASSUME LevelsInv
  PROVE  /\ \A S \in SUBSET written : S \in SUBSET Entry /\ Distinct(S) /\ IsFiniteSet(S)
         /\ \A l \in Levels : Entries(levels[l]) \in SUBSET written
         /\ mem \in SUBSET written /\ Stored \in SUBSET written
<1>1. WrittenOK BY DEF LevelsInv
<1>2. ASSUME NEW S \in SUBSET written PROVE S \in SUBSET Entry /\ Distinct(S) /\ IsFiniteSet(S)
  <2>1. IsFiniteSet(S) BY <1>1, FS_Subset DEF WrittenOK
  <2> QED BY <1>1, <2>1 DEF WrittenOK, Distinct
<1>3. \A l \in Levels : Entries(levels[l]) \in SUBSET written BY DEF LevelsInv, FilesOK, Entries
<1>4. mem \in SUBSET written BY <1>1 DEF WrittenOK
<1>5. Stored \in SUBSET written BY <1>3, <1>4 DEF Stored
<1> QED BY <1>2, <1>3, <1>4, <1>5

(* A table is looked into if it has the key.                               *)
LEMMA TableHit ==
  ASSUME LevelsInv, NEW l \in Levels, NEW f \in levels[l], NEW k, NEW seq \in Nat
  PROVE  /\ InTable(f, k, seq) = Newest(f.entries, k, seq)
         /\ Of(f.entries, k, seq) # {} <=> InTable(f, k, seq) # NoEntry
         /\ Of(f.entries, k, seq) # {} =>
              /\ Overlaps(f, k, k)
              /\ InTable(f, k, seq) \in Of(f.entries, k, seq)
              /\ \A d \in Of(f.entries, k, seq) : d.seq <= InTable(f, k, seq).seq
<1>1. Table(f) BY FilesAreTables DEF LevelsInv, Tables
<1>2. PICK S \in SUBSET Entry : S = f.entries /\ Distinct(S) /\ IsFiniteSet(S) BY <1>1 DEF Table
<1>3. InTable(f, k, seq) = Newest(S, k, seq) BY <1>2 DEF InTable, Newest, Of
<1>4. Of(S, k, seq) # {} => Overlaps(f, k, k)
  <2> SUFFICES ASSUME NEW e \in S, e.key = k PROVE Overlaps(f, k, k) BY DEF Of
  <2>1. e.key \in Nat /\ Smallest(f).key <= e.key /\ e.key <= Largest(f).key
        /\ Smallest(f).key \in Nat /\ Largest(f).key \in Nat
    BY <1>1, <1>2, TableEnds
  <2> QED BY <2>1 DEF Overlaps
<1>5. /\ Of(S, k, seq) = {} => Newest(S, k, seq) = NoEntry
      /\ Of(S, k, seq) # {} =>
              /\ Newest(S, k, seq) \in Of(S, k, seq) /\ Newest(S, k, seq) # NoEntry
              /\ \A d \in Of(S, k, seq) : d.seq <= Newest(S, k, seq).seq
  BY <1>2, NewestIs
<1> QED BY <1>2, <1>3, <1>4, <1>5

(* In level 0 the newest table with the key has its newest entry.          *)
LEMMA ZeroHit ==
  ASSUME LevelsInv, NumbersOK, ZeroOrder, NEW k, NEW seq \in Nat
  PROVE  NewestHit(levels[0], k, seq) = Newest(Entries(levels[0]), k, seq)
<1>1. 0 \in Levels BY LevelNumbers
<1>2. PICK S : S = Entries(levels[0]) OBVIOUS
<1>3. S \in SUBSET Entry /\ Distinct(S) /\ IsFiniteSet(S) BY <1>1, <1>2, EntriesWritten
<1>4. PICK hits : hits = {f \in levels[0] : Overlaps(f, k, k) /\ InTable(f, k, seq) # NoEntry} OBVIOUS
<1>5. \A f \in levels[0] : f \in hits <=> Of(f.entries, k, seq) # {} BY <1>1, <1>4, TableHit
<1>6. CASE hits = {}
  <2>1. Of(S, k, seq) = {} BY <1>2, <1>5, <1>6 DEF Of, Entries
  <2>2. NewestHit(levels[0], k, seq) = NoEntry BY <1>4, <1>6 DEF NewestHit
  <2> QED BY <1>2, <2>1, <2>2 DEF Newest
<1>7. CASE hits # {}
  <2> DEFINE N == {f.number : f \in hits}
  <2>1. \A f \in hits : f \in levels[0] /\ f.number \in Nat /\ f.number < next BY <1>1, <1>4 DEF NumbersOK
  <2>2. N \in SUBSET Nat /\ N # {} /\ \A n \in N : n <= next BY <1>7, <2>1 DEF NumbersOK
  <2>3. IsFiniteSet(N)
    <3> HIDE DEF N
    <3> QED BY <2>2, FS_BoundedSetOfNaturals DEF NumbersOK
  <2>4. Max(N) \in N /\ \A n \in N : n <= Max(N)
    <3> HIDE DEF N
    <3> QED BY <2>2, <2>3, Extremes
  <2>5. \E f \in hits : \A g \in hits : g.number <= f.number BY <2>4
  <2>6. PICK f : f = CHOOSE x \in hits : \A g \in hits : g.number <= x.number OBVIOUS
  <2>7. f \in hits /\ \A g \in hits : g.number <= f.number BY <2>5, <2>6
  <2>8. NewestHit(levels[0], k, seq) = InTable(f, k, seq) BY <1>4, <1>7, <2>6 DEF NewestHit
  <2>9. PICK e : e = InTable(f, k, seq) OBVIOUS
  <2>10. e \in Of(f.entries, k, seq) /\ \A d \in Of(f.entries, k, seq) : d.seq <= e.seq
    BY <1>1, <1>5, <2>1, <2>7, <2>9, TableHit
  <2>11. e \in Of(S, k, seq) BY <1>2, <2>1, <2>7, <2>10 DEF Of, Entries
  <2>12. ASSUME NEW d \in Of(S, k, seq) PROVE d.seq <= e.seq
    <3>1. PICK g \in levels[0] : d \in g.entries BY <1>2 DEF Of, Entries
    <3>2. d \in Of(g.entries, k, seq) /\ d.key = k BY <3>1 DEF Of
    <3>3. g \in hits BY <1>5, <3>1, <3>2
    <3>4. CASE g = f BY <2>10, <3>2, <3>4
    <3>5. CASE g # f
      <4>1. f.number > g.number BY <2>1, <2>7, <3>3, <3>5 DEF NumbersOK
      <4>2. Newer(f.entries, g.entries) BY <2>1, <2>7, <3>1, <4>1 DEF ZeroOrder
      <4>3. e \in f.entries /\ e.key = k BY <2>10 DEF Of
      <4>4. e.seq > d.seq BY <3>1, <3>2, <4>2, <4>3 DEF Newer
      <4>5. e \in Entry /\ d \in Entry BY <1>3, <2>11, <2>12 DEF Of
      <4>6. e.seq \in Nat /\ d.seq \in Nat BY <4>5 DEF Entry
      <4> QED BY <4>4, <4>6
    <3> QED BY <3>4, <3>5
  <2>13. Newest(S, k, seq) = e BY <1>3, <2>11, <2>12, NewestThe
  <2> QED BY <1>2, <2>8, <2>9, <2>13
<1> QED BY <1>6, <1>7

(* Below, the binary search ends at the one table that can have the key.   *)
LEMMA FirstLargest ==
  ASSUME LevelsInv, NEW l \in Levels, NEW files \in SUBSET levels[l], files # {}
  PROVE  \E f \in files : \A g \in files \ {f} : Before(Largest(f), Largest(g))
<1> DEFINE A == {Largest(f) : f \in files}
<1>1. \A f \in files : Table(f) BY FilesAreTables DEF LevelsInv, Tables
<1>2. \A f \in files : Largest(f) \in f.entries /\ Largest(f) \in written
  <2>1. \A f \in files : Largest(f) \in f.entries BY <1>1, TableEnds
  <2> QED BY <2>1 DEF LevelsInv, FilesOK
<1>3. A \in SUBSET written /\ A # {} BY <1>2
<1>4. A \in SUBSET Entry /\ Distinct(A) /\ IsFiniteSet(A)
  <2> HIDE DEF A
  <2> QED BY <1>3, EntriesWritten
<1>5. Foremost(A) \in A /\ \A e \in A \ {Foremost(A)} : Before(Foremost(A), e)
  <2> HIDE DEF A
  <2> QED BY <1>3, <1>4, FirstAndLast
<1>6. PICK f \in files : Foremost(A) = Largest(f) BY <1>5
<1>7. \A g \in files : Largest(g) \in A OBVIOUS
<1>8. \A g \in files \ {f} : Before(Largest(f), Largest(g))
  <2> SUFFICES ASSUME NEW g \in files, g # f PROVE Before(Largest(f), Largest(g)) OBVIOUS
  <2>1. f.entries \cap g.entries = {} BY LevelUnshared DEF Unshared
  <2>2. Largest(g) # Largest(f) BY <1>2, <2>1
  <2> HIDE DEF A
  <2> QED BY <1>5, <1>6, <1>7, <2>2
<1> QED BY <1>8

(* FindFile: tables that follow one another and share no user key.         *)
LEMMA LowerHit ==
  ASSUME LevelsInv, NumbersOK, ~ Straddle(levels), NEW l \in 1..Top, NEW k, NEW seq \in Nat
  PROVE  NewestHit(FindFile(levels[l], [key |-> k, seq |-> seq, del |-> FALSE]), k, seq)
           = Newest(Entries(levels[l]), k, seq)
<1>1. l \in Levels BY LevelNumbers
<1>2. PICK S : S = Entries(levels[l]) OBVIOUS
<1>3. S \in SUBSET Entry /\ Distinct(S) /\ IsFiniteSet(S) BY <1>1, <1>2, EntriesWritten
<1>4. PICK target : target = [key |-> k, seq |-> seq, del |-> FALSE] OBVIOUS
<1>5. PICK at : at = {f \in levels[l] : ~ Before(Largest(f), target)} OBVIOUS
<1>6. PICK F : F = FindFile(levels[l], target) OBVIOUS
<1>7. \A f \in levels[l] : Table(f) BY <1>1, FilesAreTables DEF LevelsInv, Tables
<1>8. ASSUME NEW f \in levels[l], Of(f.entries, k, seq) # {} PROVE f \in at
  <2>1. PICK e \in f.entries : e.key = k /\ e.seq <= seq BY <1>8 DEF Of
  <2>2. PICK b : b = Largest(f) OBVIOUS
  <2>3. e \in Entry /\ b \in Entry /\ (e = b \/ Before(e, b)) BY <1>7, <2>2, TableEnds DEF Table
  <2>4. e.key \in Nat /\ b.key \in Nat /\ e.seq \in Nat /\ b.seq \in Nat BY <2>3, LevelsAssumption DEF Entry
  <2>5. ~ Before(b, target) BY <1>4, <2>1, <2>3, <2>4 DEF Before
  <2> QED BY <1>5, <2>2, <2>5
<1>9. CASE at = {}
  <2>1. Of(S, k, seq) = {} BY <1>2, <1>8, <1>9 DEF Of, Entries
  <2>2. F = {} BY <1>5, <1>6, <1>9 DEF FindFile
  <2>3. NewestHit(F, k, seq) = NoEntry BY <2>2 DEF NewestHit
  <2> QED BY <1>2, <1>4, <1>6, <2>1, <2>3 DEF Newest
<1>10. CASE at # {}
  <2>1. at \in SUBSET levels[l] BY <1>5
  <2>2. \E f \in at : \A g \in at \ {f} : Before(Largest(f), Largest(g)) BY <1>1, <1>10, <2>1, FirstLargest
  <2>3. PICK f : f = CHOOSE x \in at : \A g \in at \ {x} : Before(Largest(x), Largest(g)) OBVIOUS
  <2>4. f \in at /\ \A g \in at \ {f} : Before(Largest(f), Largest(g)) BY <2>2, <2>3
  <2>5. F = {f} BY <1>5, <1>6, <1>10, <2>3 DEF FindFile
  <2>6. ASSUME NEW g \in levels[l], Of(g.entries, k, seq) # {} PROVE g = f
    <3> SUFFICES ASSUME g # f PROVE FALSE OBVIOUS
    <3>1. g \in at BY <1>8, <2>6
    <3>2. PICK a, b, c, d : a = Smallest(f) /\ b = Largest(f) /\ c = Smallest(g) /\ d = Largest(g) OBVIOUS
    <3>3. f \in levels[l] /\ Table(f) /\ Table(g) BY <1>7, <2>1, <2>4
    <3>4. /\ a \in Entry /\ b \in f.entries /\ b \in Entry /\ b.key \in Nat /\ a.key \in Nat
          /\ (a = b \/ Before(a, b))
      BY <3>2, <3>3, TableEnds DEF Table
    <3>5. PICK e \in g.entries : e.key = k /\ e.seq <= seq BY <2>6 DEF Of
    <3>6. /\ c \in Entry /\ d \in Entry /\ e \in Entry /\ {c.key, d.key, e.key} \subseteq Nat
          /\ (e = c \/ Before(c, e)) /\ (e = d \/ Before(e, d)) /\ c.key <= e.key
      BY <3>2, <3>3, <3>5, TableEnds DEF Table
    <3>7. Before(b, d) BY <2>4, <3>1, <3>2
    <3>8. Before(b, c)
      <4>1. Before(b, c) \/ Before(d, a) BY <3>2, <3>3 DEF LevelsInv, LevelsDisjoint
      <4>2. CASE Before(d, a) BY <3>4, <3>6, <3>7, <4>2, BeforeOrder
      <4> QED BY <4>1, <4>2
    <3>9. b.key <= c.key BY <3>4, <3>6, <3>8, BeforeOrder
    <3>10. ~ Before(b, target) BY <1>5, <2>4, <3>2
    <3>11. b.key >= k BY <1>4, <3>4, <3>5, <3>6, <3>10 DEF Before
    <3>12. b.key = e.key BY <3>4, <3>5, <3>6, <3>9, <3>11
    <3>13. {f, g} \subseteq levels[l] /\ f \in UNION Range(levels) /\ g \in UNION Range(levels)
      <4>1. l \in DOMAIN levels BY <1>1 DEF LevelsInv, FilesOK
      <4> QED BY <3>3, <4>1 DEF Range
    <3> QED BY <3>4, <3>5, <3>12, <3>13 DEF Straddle
  <2>7. CASE Of(f.entries, k, seq) = {}
    <3>1. Of(S, k, seq) = {} BY <1>2, <2>6, <2>7 DEF Of, Entries
    <3>2. InTable(f, k, seq) = NoEntry BY <1>1, <2>1, <2>4, <2>7, TableHit
    <3>3. NewestHit(F, k, seq) = NoEntry BY <2>5, <3>2 DEF NewestHit
    <3> QED BY <1>2, <1>4, <1>6, <3>1, <3>3 DEF Newest
  <2>8. CASE Of(f.entries, k, seq) # {}
    <3>1. PICK e : e = InTable(f, k, seq) OBVIOUS
    <3>2. /\ e \in Of(f.entries, k, seq) /\ \A d \in Of(f.entries, k, seq) : d.seq <= e.seq
          /\ Overlaps(f, k, k) /\ e # NoEntry
      BY <1>1, <2>1, <2>4, <2>8, <3>1, TableHit
    <3>3. e \in Of(S, k, seq) BY <1>2, <2>1, <2>4, <3>2 DEF Of, Entries
    <3>4. ASSUME NEW d \in Of(S, k, seq) PROVE d.seq <= e.seq
      <4>1. PICK g \in levels[l] : d \in g.entries BY <1>2 DEF Of, Entries
      <4>2. d \in Of(g.entries, k, seq) BY <4>1 DEF Of
      <4>3. g = f BY <2>6, <4>1, <4>2
      <4> QED BY <3>2, <4>2, <4>3
    <3>5. Newest(S, k, seq) = e BY <1>3, <3>3, <3>4, NewestThe
    <3>6. {x \in F : Overlaps(x, k, k) /\ InTable(x, k, seq) # NoEntry} = {f} BY <2>5, <3>1, <3>2
    <3>7. (CHOOSE x \in {f} : \A g \in {f} : g.number <= x.number) = f
      <4>1. f.number \in Nat BY <1>1, <2>1, <2>4 DEF NumbersOK
      <4>2. f.number <= f.number BY <4>1
      <4>3. \E x \in {f} : \A g \in {f} : g.number <= x.number BY <4>2
      <4> QED BY <4>3
    <3>8. NewestHit(F, k, seq) = e BY <3>1, <3>6, <3>7 DEF NewestHit
    <3> QED BY <1>2, <1>4, <1>6, <3>5, <3>8
  <2> QED BY <2>7, <2>8
<1> QED BY <1>9, <1>10

(* Get() finds the newest entry there is.                                  *)
LEMMA GetNewest ==
  ASSUME LevelsInv, NumbersOK, MemNewest, ~ Straddle(levels), NewerAbove, ZeroOrder,
         NEW k, NEW seq \in Nat
  PROVE  Get(k, seq) = Newest(Stored, k, seq)
<1>1. ASSUME NEW l \in Levels PROVE InLevel(l, k, seq) = Newest(Entries(levels[l]), k, seq)
  <2>1. CASE l = 0 BY <2>1, ZeroHit DEF InLevel
  <2>2. CASE l # 0
    <3>1. l \in 1..Top BY <2>2, LevelsAssumption DEF Levels
    <3> QED BY <2>2, <3>1, LowerHit DEF InLevel
  <2> QED BY <2>1, <2>2
<1>2. Stored \in SUBSET Entry /\ Distinct(Stored) /\ IsFiniteSet(Stored) BY EntriesWritten
<1>3. mem \in SUBSET Entry /\ Distinct(mem) /\ IsFiniteSet(mem) BY EntriesWritten
<1>4. CASE Of(mem, k, seq) # {}
  <2>1. Get(k, seq) = Newest(mem, k, seq) BY <1>4 DEF Get, Newest, Of
  <2>2. PICK e : e = Newest(mem, k, seq) OBVIOUS
  <2>3. e \in Of(mem, k, seq) /\ \A d \in Of(mem, k, seq) : d.seq <= e.seq BY <1>3, <1>4, <2>2, NewestIs
  <2>4. e \in Of(Stored, k, seq) /\ e \in mem BY <2>3 DEF Of, Stored
  <2>5. ASSUME NEW d \in Of(Stored, k, seq) PROVE d.seq <= e.seq
    <3>1. CASE d \in mem BY <2>3, <3>1 DEF Of
    <3>2. CASE d \notin mem
      <4>1. PICK l \in Levels : d \in Entries(levels[l]) BY <3>2 DEF Of, Stored
      <4>2. e.seq > d.seq BY <2>4, <4>1 DEF MemNewest
      <4>3. e \in Entry /\ d \in Entry BY <1>2, <2>4, <2>5 DEF Of
      <4>4. e.seq \in Nat /\ d.seq \in Nat BY <4>3 DEF Entry
      <4> QED BY <4>2, <4>4
    <3> QED BY <3>1, <3>2
  <2>6. Newest(Stored, k, seq) = e BY <1>2, <2>4, <2>5, NewestThe
  <2> QED BY <2>1, <2>2, <2>6
<1>5. CASE Of(mem, k, seq) = {}
  <2>1. PICK hits : hits = {l \in Levels : InLevel(l, k, seq) # NoEntry} OBVIOUS
  <2>2. Get(k, seq) = IF hits = {} THEN NoEntry ELSE InLevel(Min(hits), k, seq)
    BY <1>5, <2>1 DEF Get, Of
  <2>3. ASSUME NEW l \in Levels
        PROVE  /\ l \in hits <=> Of(Entries(levels[l]), k, seq) # {}
               /\ l \in hits => /\ InLevel(l, k, seq) \in Of(Entries(levels[l]), k, seq)
                                /\ \A d \in Of(Entries(levels[l]), k, seq) : d.seq <= InLevel(l, k, seq).seq
    <3>1. PICK S : S = Entries(levels[l]) OBVIOUS
    <3>2. S \in SUBSET Entry /\ Distinct(S) /\ IsFiniteSet(S) BY <3>1, EntriesWritten
    <3>3. InLevel(l, k, seq) = Newest(S, k, seq) BY <1>1, <3>1
    <3>4. /\ Of(S, k, seq) = {} => Newest(S, k, seq) = NoEntry
          /\ Of(S, k, seq) # {} =>
              /\ Newest(S, k, seq) \in Of(S, k, seq) /\ Newest(S, k, seq) # NoEntry
              /\ \A d \in Of(S, k, seq) : d.seq <= Newest(S, k, seq).seq
      BY <3>2, NewestIs
    <3> QED BY <2>1, <3>1, <3>3, <3>4
  <2>4. CASE hits = {}
    <3>1. Of(Stored, k, seq) = {} BY <1>5, <2>3, <2>4 DEF Of, Stored
    <3> QED BY <2>2, <2>4, <3>1 DEF Newest
  <2>5. CASE hits # {}
    <3>1. hits \in SUBSET Nat /\ IsFiniteSet(hits)
      <4>1. hits \in SUBSET Nat /\ \A l \in hits : l <= Top BY <2>1, LevelsAssumption DEF Levels
      <4> QED BY <4>1, LevelNumbers, FS_BoundedSetOfNaturals
    <3>2. PICK l : l = Min(hits) OBVIOUS
    <3>3. l \in hits /\ \A m \in hits : l <= m BY <2>5, <3>1, <3>2, Extremes
    <3>4. l \in Levels BY <2>1, <3>3
    <3>5. PICK e : e = InLevel(l, k, seq) OBVIOUS
    <3>6. e \in Of(Entries(levels[l]), k, seq) /\ \A d \in Of(Entries(levels[l]), k, seq) : d.seq <= e.seq
      BY <2>3, <3>3, <3>4, <3>5
    <3>7. e \in Of(Stored, k, seq) /\ e \in Entries(levels[l]) /\ e.key = k BY <3>4, <3>6 DEF Of, Stored
    <3>8. ASSUME NEW d \in Of(Stored, k, seq) PROVE d.seq <= e.seq
      <4>1. PICK m \in Levels : d \in Entries(levels[m]) BY <1>5, <3>8 DEF Of, Stored
      <4>2. d \in Of(Entries(levels[m]), k, seq) /\ d.key = k BY <3>8, <4>1 DEF Of
      <4>3. m \in hits BY <2>3, <4>2
      <4>4. CASE m = l BY <3>6, <4>2, <4>4
      <4>5. CASE m # l
        <5>1. l < m BY <3>1, <3>3, <4>3, <4>5
        <5>2. e.seq > d.seq BY <3>4, <3>7, <4>1, <4>2, <5>1 DEF NewerAbove, Newer
        <5>3. e \in Entry /\ d \in Entry BY <1>2, <3>7, <3>8 DEF Of
        <5>4. e.seq \in Nat /\ d.seq \in Nat BY <5>3 DEF Entry
        <5> QED BY <5>2, <5>4
      <4> QED BY <4>4, <4>5
    <3>9. Newest(Stored, k, seq) = e BY <1>2, <3>7, <3>8, NewestThe
    <3> QED BY <2>2, <2>5, <3>2, <3>5, <3>9
  <2> QED BY <2>4, <2>5
<1> QED BY <1>4, <1>5

-----------------------------------------------------------------------------
(* 9. What is stored stands for what was written. *)

(* Sets of entries without a user key in common.                           *)
NoKeyOf(S, T) == \A d \in S, e \in T : d.key # e.key
JobInputs == Entries(job.in[1] \cup job.in[2])

(* What is stored answers every view as what was written would; what the   *)
(* tables around the inputs of a compaction are known not to have.         *)
Kept == \A k \in Keys, s \in snapshots \cup {last} :
          Value(Newest(Stored, k, s)) = Value(Newest(written, k, s))
JobWhole == job # NoJob =>
  /\ Newer(Entries(levels[job.level] \ job.in[1]), Entries(job.in[1]))
  /\ NoKeyOf(Entries(levels[job.level + 1] \ job.in[2]), JobInputs)
  /\ \A m \in (job.level + 2)..Top : NoKeyOf(Entries(levels[m] \ job.base[m]), JobInputs)
WholeOK == ~ straddled => ~ Straddle(levels) /\ NewerAbove /\ ZeroOrder /\ Kept /\ JobWhole
WholeInv == NumbersOK /\ MemNewest /\ WholeOK

(* An empty database stands for no writes.                                 *)
LEMMA InitWhole == ASSUME Init PROVE WholeInv
<1>1. \A l \in Levels : levels[l] = {} BY DEF Init
<1>2. 0 \in Levels BY LevelNumbers
<1>3. NumbersOK BY <1>1, <1>2 DEF Init, NumbersOK
<1>4. MemNewest BY DEF Init, MemNewest
<1>5. Entries({}) = {} BY DEF Entries
<1>6. Stored = {} BY <1>1, <1>5 DEF Init, Stored
<1>7. Kept BY <1>6 DEF Init, Kept
<1>8. NewerAbove BY <1>1, <1>5 DEF NewerAbove, Newer
<1>9. ZeroOrder BY <1>1, <1>2 DEF ZeroOrder
<1>10. JobWhole BY DEF Init, JobWhole
<1>11. ~ Straddle(levels)
  <2>1. \A l \in 1..Top : levels[l] = {} BY <1>1, LevelNumbers
  <2> QED BY <2>1 DEF Straddle
<1> QED BY <1>3, <1>4, <1>7, <1>8, <1>9, <1>10, <1>11 DEF WholeInv, WholeOK

(* Tables whose ranges do not touch share no user key.                     *)
LEMMA ApartNoKey ==
  ASSUME NEW f, Table(f), NEW g, Table(g), ~ Overlaps(g, Smallest(f).key, Largest(f).key)
  PROVE  NoKeyOf(f.entries, g.entries)
<1> SUFFICES ASSUME NEW d \in f.entries, NEW e \in g.entries, d.key = e.key PROVE FALSE BY DEF NoKeyOf
<1>1. PICK a, b, x, y : a = Smallest(f).key /\ b = Largest(f).key /\ x = Smallest(g).key /\ y = Largest(g).key OBVIOUS
<1>2. a \in Nat /\ b \in Nat /\ d.key \in Nat /\ a <= d.key /\ d.key <= b BY <1>1, TableEnds
<1>3. x \in Nat /\ y \in Nat /\ x <= e.key /\ e.key <= y BY <1>1, TableEnds
<1> QED BY <1>1, <1>2, <1>3 DEF Overlaps

(* Nor does a table outside the range of some with any of them.            *)
LEMMA OutsideNoKey ==
  ASSUME NEW S, Tables(S), NEW g, Table(g), S # {} => ~ Overlaps(g, Low(S), High(S))
  PROVE  NoKeyOf(g.entries, Entries(S))
<1> SUFFICES ASSUME NEW d \in g.entries, NEW f \in S, NEW e \in f.entries, d.key = e.key PROVE FALSE
  BY DEF NoKeyOf, Entries
<1>1. Table(f) /\ S # {} BY DEF Tables
<1>2. PICK a, b, lo, hi : a = Smallest(f).key /\ b = Largest(f).key /\ lo = Low(S) /\ hi = High(S) OBVIOUS
<1>3. lo \in Nat /\ hi \in Nat /\ lo <= a /\ b <= hi BY <1>1, <1>2, RangeOf
<1>4. a \in Nat /\ b \in Nat /\ e.key \in Nat /\ a <= e.key /\ e.key <= b BY <1>1, <1>2, TableEnds
<1>5. PICK x, y : x = Smallest(g).key /\ y = Largest(g).key OBVIOUS
<1>6. x \in Nat /\ y \in Nat /\ x <= d.key /\ d.key <= y BY <1>5, TableEnds
<1> QED BY <1>1, <1>2, <1>3, <1>4, <1>5, <1>6 DEF Overlaps

(* Below level 0 two tables of a level share no user key.                  *)
LEMMA WholeNoKey ==
  ASSUME LevelsInv, ~ Straddle(levels), NEW l \in 1..Top, NEW S \in SUBSET levels[l]
  PROVE  NoKeyOf(Entries(levels[l] \ S), Entries(S))
<1> SUFFICES ASSUME NEW f \in levels[l] \ S, NEW g \in S, NEW d \in f.entries, NEW e \in g.entries, d.key = e.key
             PROVE  FALSE
  BY DEF NoKeyOf, Entries
<1>1. l \in DOMAIN levels BY LevelNumbers DEF LevelsInv, FilesOK
<1>2. f \in UNION Range(levels) /\ g \in UNION Range(levels) BY <1>1 DEF Range
<1>3. {f, g} \subseteq levels[l] /\ f # g OBVIOUS
<1> QED BY <1>2, <1>3 DEF Straddle

(* A write is the newest entry there is, and no view is older than it but  *)
(* those that do not see it.                                               *)
LEMMA WriteWhole ==
  ASSUME LevelsInv, WholeInv, NEW k \in Keys, NEW del \in BOOLEAN, Write(k, del), LevelsInv'
  PROVE  WholeInv'
<1>1. PICK e : e = [key |-> k, seq |-> last + 1, del |-> del] OBVIOUS
<1>2. /\ last' = last + 1 /\ mem' = mem \cup {e} /\ written' = written \cup {e}
      /\ UNCHANGED <<levels, snapshots, next, job, straddled>>
  BY <1>1 DEF Write
<1>3. last \in Nat /\ e \in Entry /\ e.seq = last + 1 /\ e.key = k BY <1>1 DEF LevelsInv, WrittenOK, Entry
<1>4. \A d \in written : d \in Entry /\ d.seq \in Nat /\ d.seq <= last BY DEF LevelsInv, WrittenOK, Entry
<1>5. NumbersOK' BY <1>2 DEF WholeInv, NumbersOK
<1>6. MemNewest'
  <2> SUFFICES ASSUME NEW l \in Levels, NEW c \in mem', NEW d \in Entries(levels[l]) PROVE c.seq > d.seq
    BY <1>2 DEF MemNewest
  <2>1. CASE c \in mem BY <2>1 DEF WholeInv, MemNewest
  <2>2. CASE c = e
    <3>1. d \in written BY EntriesWritten
    <3> QED BY <1>3, <1>4, <2>2, <3>1
  <2> QED BY <1>2, <2>1, <2>2
<1>7. ASSUME ~ straddled PROVE Kept'
  <2>1. Stored' = Stored \cup {e} BY <1>2 DEF Stored
  <2>2. PICK S : S = Stored OBVIOUS
  <2>3. S \in SUBSET written /\ S \in SUBSET Entry BY <2>2, EntriesWritten
  <2>4. ASSUME NEW T \in {S, written}, NEW x, NEW s \in 0..last PROVE Newest(T \cup {e}, x, s) = Newest(T, x, s)
    <3>1. Of(T \cup {e}, x, s) = Of(T, x, s) BY <1>3, <2>4 DEF Of
    <3> QED BY <3>1 DEF Newest
  <2>5. ASSUME NEW T \in {S, written}, NEW x, x # k PROVE Newest(T \cup {e}, x, last + 1) = Newest(T, x, last)
    <3>1. \A d \in T : d.seq <= last /\ d.seq <= last + 1 BY <1>3, <1>4, <2>3
    <3>2. Of(T \cup {e}, x, last + 1) = Of(T, x, last) BY <1>3, <2>5, <3>1 DEF Of
    <3> QED BY <3>2 DEF Newest
  <2>6. ASSUME NEW T \in {S, written} PROVE Newest(T \cup {e}, k, last + 1) = e
    <3>1. T \cup {e} \in SUBSET written' BY <1>2, <2>3
    <3>2. \A X \in SUBSET written' : X \in SUBSET Entry /\ Distinct(X) /\ IsFiniteSet(X)
      <4>1. WrittenOK' BY DEF LevelsInv
      <4>2. PICK w : w = written' OBVIOUS
      <4>3. w \in SUBSET Entry /\ IsFiniteSet(w) /\ Distinct(w) BY <4>1, <4>2 DEF WrittenOK, Distinct
      <4>4. ASSUME NEW X \in SUBSET w PROVE X \in SUBSET Entry /\ Distinct(X) /\ IsFiniteSet(X)
        <5>1. IsFiniteSet(X) BY <4>3, FS_Subset
        <5> QED BY <4>3, <5>1 DEF Distinct
      <4> QED BY <4>2, <4>4
    <3>3. PICK X : X = T \cup {e} OBVIOUS
    <3>4. X \in SUBSET Entry /\ Distinct(X) /\ IsFiniteSet(X) BY <3>1, <3>2, <3>3
    <3>5. last + 1 \in Nat BY <1>3
    <3>6. e \in Of(X, k, last + 1) BY <1>3, <3>3 DEF Of
    <3>7. \A d \in X : d.seq <= e.seq BY <1>3, <1>4, <2>3, <3>3
    <3>8. \A d \in Of(X, k, last + 1) : d.seq <= e.seq BY <3>7 DEF Of
    <3> QED BY <3>3, <3>4, <3>5, <3>6, <3>8, NewestThe
  <2>7. Kept BY <1>7 DEF WholeInv, WholeOK
  <2>8. snapshots \subseteq 0..last /\ last \in 0..last BY <1>3 DEF LevelsInv, ViewsOK
  <2>9. ASSUME NEW x \in Keys, NEW s \in snapshots \cup {last + 1}
        PROVE  Value(Newest(S \cup {e}, x, s)) = Value(Newest(written \cup {e}, x, s))
    <3>1. CASE s \in snapshots BY <2>2, <2>4, <2>7, <2>8, <3>1 DEF Kept
    <3>2. CASE s = last + 1 /\ x # k BY <2>2, <2>5, <2>7, <2>8, <3>2 DEF Kept
    <3>3. CASE s = last + 1 /\ x = k BY <2>6, <3>3
    <3> QED BY <3>1, <3>2, <3>3
  <2> QED BY <1>2, <2>1, <2>2, <2>9 DEF Kept
<1>8. ASSUME ~ straddled PROVE NewerAbove' /\ ZeroOrder' /\ JobWhole'
  BY <1>2, <1>8 DEF WholeInv, WholeOK, NewerAbove, ZeroOrder, JobWhole, JobInputs
<1>9. WholeOK' BY <1>2, <1>7, <1>8 DEF WholeInv, WholeOK
<1> QED BY <1>5, <1>6, <1>9 DEF WholeInv

(* Snapshots are of numbers a reader could already use.                    *)
LEMMA IdleWhole ==
  ASSUME LevelsInv, WholeInv, UNCHANGED <<mem, levels, last, next, job, written, straddled>>,
         snapshots' \subseteq snapshots \cup {last}
  PROVE  WholeInv'
<1>1. NumbersOK' /\ MemNewest' BY DEF WholeInv, NumbersOK, MemNewest
<1>2. ASSUME ~ straddled PROVE Kept'
  <2>1. Kept BY <1>2 DEF WholeInv, WholeOK
  <2>2. Stored' = Stored BY DEF Stored
  <2> QED BY <2>1, <2>2 DEF Kept
<1>3. ASSUME ~ straddled PROVE NewerAbove' /\ ZeroOrder' /\ JobWhole'
  BY <1>3 DEF WholeInv, WholeOK, NewerAbove, ZeroOrder, JobWhole, JobInputs
<1>4. WholeOK' BY <1>2, <1>3 DEF WholeInv, WholeOK
<1> QED BY <1>1, <1>4 DEF WholeInv

(* CompactMemTable: what is flushed is newer than all tables, and shares   *)
(* no user key with the levels it is pushed past nor with the inputs of    *)
(* the compaction under way.                                               *)
LEMMA FlushWhole ==
  ASSUME LevelsInv, WholeInv, Flush, LevelsInv'
  PROVE  WholeInv'
<1>1. PICK lo, hi : lo = Foremost(mem).key /\ hi = Hindmost(mem).key OBVIOUS
<1>2. PICK l : l = LevelForMemTable(lo, hi) OBVIOUS
<1>3. PICK h : h = [number |-> next, entries |-> mem] OBVIOUS
<1>4. /\ mem # {} /\ mem' = {} /\ UNCHANGED <<last, job, written, snapshots>> /\ next' = next + 1
      /\ levels' = [levels EXCEPT ![l] = @ \cup {h}]
      /\ straddled' = (straddled \/ Straddle(levels'))
  BY <1>1, <1>2, <1>3 DEF Flush, NewVersion
<1>5. l \in Levels /\ (l # 0 => \A m \in 0..l : ~ OverlapInLevel(m, lo, hi)) BY <1>2, LevelChosen
<1>6. levels = [m \in Levels |-> levels[m]] BY DEF LevelsInv, FilesOK
<1>7. /\ levels'[l] = levels[l] \cup {h}
      /\ \A m \in Levels : m # l => levels'[m] = levels[m]
  BY <1>4, <1>5, <1>6
<1>8. h.entries = mem /\ h.number = next /\ next \in Nat BY <1>3 DEF WholeInv, NumbersOK
<1>9. Table(h)
  <2>1. mem \in SUBSET Entry /\ Distinct(mem) /\ IsFiniteSet(mem) BY EntriesWritten
  <2> QED BY <1>4, <1>8, <2>1 DEF Table
<1>10. \A m \in Levels : levels'[m] = levels[m] \/ (m = l /\ levels'[m] = levels[m] \cup {h}) BY <1>7
<1>11. NumbersOK'
  <2>1. \A m \in Levels : \A f \in levels[m] : f.number \in Nat /\ f.number < next
    BY DEF WholeInv, NumbersOK
  <2>2. \A f, g \in levels[0] : f.number = g.number => f = g BY DEF WholeInv, NumbersOK
  <2>3. \A m \in Levels : \A f \in levels'[m] : f.number \in Nat /\ f.number < next'
    <3> SUFFICES ASSUME NEW m \in Levels, NEW f \in levels'[m] PROVE f.number \in Nat /\ f.number < next + 1
      BY <1>4
    <3>1. f \in levels[m] \/ f = h BY <1>10
    <3> QED BY <1>8, <2>1, <3>1
  <2>4. \A f, g \in levels'[0] : f.number = g.number => f = g
    <3> SUFFICES ASSUME NEW f \in levels'[0], NEW g \in levels'[0], f.number = g.number PROVE f = g OBVIOUS
    <3>1. (f \in levels[0] \/ f = h) /\ (g \in levels[0] \/ g = h) BY <1>10, LevelNumbers
    <3>2. \A x \in levels[0] : x.number # next BY <1>8, <2>1, LevelNumbers
    <3> QED BY <1>8, <2>2, <3>1, <3>2
  <2> QED BY <1>4, <1>8, <2>3, <2>4 DEF NumbersOK
<1>12. MemNewest' BY <1>4 DEF MemNewest
<1>13. Stored' = Stored
  <2>1. \A m \in Levels : Entries(levels'[m]) = Entries(levels[m]) \cup IF m = l THEN mem ELSE {}
    <3> SUFFICES ASSUME NEW m \in Levels
                 PROVE  Entries(levels'[m]) = Entries(levels[m]) \cup IF m = l THEN mem ELSE {}
      OBVIOUS
    <3>1. CASE m = l
      <4>1. Entries(levels[m] \cup {h}) = Entries(levels[m]) \cup h.entries BY DEF Entries
      <4> QED BY <1>7, <1>8, <3>1, <4>1
    <3>2. CASE m # l BY <1>7, <3>2
    <3> QED BY <3>1, <3>2
  <2>2. \A x : x \in Stored' <=> \E m \in Levels : x \in Entries(levels'[m]) BY <1>4 DEF Stored
  <2>3. \A x : x \in Stored <=> x \in mem \/ \E m \in Levels : x \in Entries(levels[m]) BY DEF Stored
  <2>4. \A x : x \in Stored' <=> x \in Stored BY <1>5, <2>1, <2>2, <2>3
  <2> QED BY <2>4
<1>14. MemNewest BY DEF WholeInv
<1>15. \A m \in Levels : \A f \in levels[m] : Newer(mem, f.entries)
  BY <1>14 DEF MemNewest, Newer, Entries
<1>16. ASSUME l # 0, NEW m \in 0..l, NEW f \in levels[m] PROVE NoKeyOf(f.entries, mem) /\ NoKeyOf(mem, f.entries)
  <2>1. m \in Levels BY <1>5, <1>16, LevelsAssumption DEF Levels
  <2>2. Table(f) BY <1>16, <2>1, FilesAreTables DEF LevelsInv, Tables
  <2>3. ~ Overlaps(f, lo, hi) BY <1>5, <1>16 DEF OverlapInLevel
  <2>4. lo = Smallest(h).key /\ hi = Largest(h).key BY <1>1, <1>8 DEF Smallest, Largest
  <2>5. NoKeyOf(h.entries, f.entries) BY <1>9, <2>2, <2>3, <2>4, ApartNoKey
  <2> QED BY <1>8, <2>5 DEF NoKeyOf
<1>17. ASSUME ~ straddled' PROVE ~ Straddle(levels)' /\ Kept' /\ NewerAbove' /\ ZeroOrder' /\ JobWhole'
  <2>1. ~ straddled /\ ~ Straddle(levels') BY <1>4, <1>17
  <2>2. NewerAbove /\ ZeroOrder /\ Kept /\ JobWhole BY <2>1 DEF WholeInv, WholeOK
  <2>3. Kept' BY <1>4, <1>13, <2>2 DEF Kept
  <2>4. NewerAbove'
    <3> SUFFICES ASSUME NEW a \in Levels, NEW b \in Levels, a < b,
                        NEW f \in levels'[a], NEW g \in levels'[b]
                 PROVE  Newer(f.entries, g.entries)
      BY DEF NewerAbove, Newer, Entries
    <3>1. f \in levels[a] \/ (a = l /\ f = h) BY <1>10
    <3>2. g \in levels[b] \/ (b = l /\ g = h) BY <1>10
    <3>3. CASE f \in levels[a] /\ g \in levels[b] BY <2>2, <3>3 DEF NewerAbove, Newer, Entries
    <3>4. CASE a = l /\ f = h /\ g \in levels[b] BY <1>8, <1>15, <3>4
    <3>5. CASE b = l /\ g = h /\ f \in levels[a]
      <4>1. l # 0 /\ a \in 0..l BY <1>5, <3>5, LevelsAssumption DEF Levels
      <4>2. NoKeyOf(f.entries, mem) BY <1>16, <3>5, <4>1
      <4> QED BY <1>8, <3>5, <4>2 DEF NoKeyOf, Newer
    <3>6. a # b BY DEF Levels
    <3> QED BY <3>1, <3>2, <3>3, <3>4, <3>5, <3>6
  <2>5. ZeroOrder'
    <3> SUFFICES ASSUME NEW f \in levels'[0], NEW g \in levels'[0], f.number > g.number
                 PROVE  Newer(f.entries, g.entries)
      BY DEF ZeroOrder, Newer
    <3>1. (f \in levels[0] \/ f = h) /\ (g \in levels[0] \/ g = h) BY <1>10, LevelNumbers
    <3>2. \A x \in levels[0] : x.number \in Nat /\ x.number < next BY LevelNumbers DEF WholeInv, NumbersOK
    <3>3. CASE f \in levels[0] /\ g \in levels[0] BY <2>2, <3>3 DEF ZeroOrder
    <3>4. CASE f = h /\ g \in levels[0] BY <1>8, <1>15, <3>4, LevelNumbers
    <3>5. CASE g = h BY <1>8, <3>1, <3>2, <3>5
    <3> QED BY <3>1, <3>3, <3>4, <3>5
  <2>6. JobWhole'
    <3> SUFFICES ASSUME job # NoJob
                 PROVE  /\ Newer(Entries(levels'[job.level] \ job.in[1]), Entries(job.in[1]))
                        /\ NoKeyOf(Entries(levels'[job.level + 1] \ job.in[2]), JobInputs)
                        /\ \A m \in (job.level + 2)..Top : NoKeyOf(Entries(levels'[m] \ job.base[m]), JobInputs)
      BY <1>4 DEF JobWhole, JobInputs
    <3>1. PICK n, x, y, B, I : n = job.level /\ x = job.in[1] /\ y = job.in[2] /\ B = job.base /\ I = JobInputs
      OBVIOUS
    <3>2. /\ Newer(Entries(levels[n] \ x), Entries(x))
          /\ NoKeyOf(Entries(levels[n + 1] \ y), I)
          /\ \A m \in (n + 2)..Top : NoKeyOf(Entries(levels[m] \ B[m]), I)
      BY <2>2, <3>1 DEF JobWhole
    <3>3. n \in 0..(Top - 1) /\ x \subseteq levels[n] /\ y \subseteq levels[n + 1] BY <3>1 DEF LevelsInv, JobOK
    <3>4. n \in Levels /\ n + 1 \in Levels /\ n \in Nat BY <3>3, LevelNumbers
    <3>5. ASSUME l > n PROVE NoKeyOf(mem, I)
      <4>1. l # 0 /\ n \in 0..l /\ n + 1 \in 0..l BY <1>5, <3>4, <3>5 DEF Levels
      <4>2. \A f \in x \cup y : NoKeyOf(mem, f.entries) BY <1>16, <3>3, <4>1
      <4>3. I = Entries(x \cup y) BY <3>1 DEF JobInputs
      <4> QED BY <4>2, <4>3 DEF NoKeyOf, Entries
    <3>6. Newer(Entries(levels'[n] \ x), Entries(x))
      <4>1. \A f \in x : Newer(mem, f.entries) BY <1>15, <3>3, <3>4
      <4>2. \A f \in levels'[n] \ x : f \in levels[n] \ x \/ f.entries = mem BY <1>8, <1>10, <3>4
      <4>3. ASSUME NEW f \in levels'[n] \ x, NEW g \in x PROVE Newer(f.entries, g.entries)
        <5>1. CASE f \in levels[n] \ x BY <3>2, <5>1 DEF Newer, Entries
        <5> QED BY <4>1, <4>2, <5>1
      <4> QED BY <4>3 DEF Newer, Entries
    <3>7. ASSUME NEW m \in Levels, m > n, NEW Z, NoKeyOf(Entries(levels[m] \ Z), I)
          PROVE  NoKeyOf(Entries(levels'[m] \ Z), I)
      <4>1. ASSUME NEW f \in levels'[m] \ Z PROVE NoKeyOf(f.entries, I)
        <5>1. CASE f \in levels[m] \ Z BY <3>7, <5>1 DEF NoKeyOf, Entries
        <5>2. CASE f = h /\ m = l BY <1>8, <3>5, <3>7, <5>2
        <5> QED BY <1>10, <5>1, <5>2
      <4> QED BY <4>1 DEF NoKeyOf, Entries
    <3>8. NoKeyOf(Entries(levels'[n + 1] \ y), I)
      <4>1. n + 1 > n BY <3>4
      <4> QED BY <3>2, <3>4, <3>7, <4>1
    <3>9. \A m \in (n + 2)..Top : NoKeyOf(Entries(levels'[m] \ B[m]), I)
      <4> SUFFICES ASSUME NEW m \in (n + 2)..Top PROVE NoKeyOf(Entries(levels'[m] \ B[m]), I) OBVIOUS
      <4>1. m \in Levels /\ m > n BY <3>4, LevelsAssumption DEF Levels
      <4> QED BY <3>2, <3>7, <4>1
    <3> QED BY <3>1, <3>6, <3>8, <3>9
  <2> QED BY <2>1, <2>3, <2>4, <2>5, <2>6
<1>18. WholeOK' BY <1>17 DEF WholeOK
<1> QED BY <1>11, <1>12, <1>18 DEF WholeInv

(* The tables a compaction leaves in its levels share no user key with     *)
(* those it takes: in level 0 they were all taken, below it no key is cut  *)
(* in two.                                                                 *)
LEMMA InputsWhole ==
  ASSUME LevelsInv, ~ Straddle(levels), NEW pick \in Picks,
         NEW l, NEW in, l = pick.level, in = Inputs(l, pick.chosen)
  PROVE  /\ NoKeyOf(Entries(levels[l] \ in[1]), Entries(in[1]))
         /\ NoKeyOf(Entries(levels[l + 1] \ in[2]), Entries(in[1] \cup in[2]))
<1>1. /\ l \in 0..(Top - 1) /\ pick.chosen \in SUBSET levels[l] /\ Together(pick.chosen) /\ pick.chosen # {}
      /\ l = 0 => \E lo, hi \in Nat : Closed(pick.chosen, levels[0], lo, hi)
  BY PicksAre
<1>2. l \in Levels /\ l + 1 \in Levels /\ l # l + 1 /\ l + 1 # 0 /\ l + 1 \in 1..Top BY <1>1, LevelNumbers
<1>3. Tables(levels[l]) /\ Tables(levels[l + 1]) BY <1>2, FilesAreTables DEF LevelsInv
<1>4. /\ in[1] \in SUBSET levels[l] /\ pick.chosen \subseteq in[1]
      /\ in[2] = OverlappingInputs(levels, l + 1, Low(in[1]), High(in[1]))
  BY <1>1, <1>3, InputsTogether
<1>5. PICK a, b, x, y : a = in[1] /\ b = in[2] /\ x = Low(a) /\ y = High(a) OBVIOUS
<1>6. Tables(a) /\ a # {} BY <1>1, <1>3, <1>4, <1>5, FS_Subset DEF Tables
<1>7. x \in Nat /\ y \in Nat BY <1>5, <1>6, RangeOf
<1>8. NoKeyOf(Entries(levels[l] \ a), Entries(a))
  <2>1. CASE l # 0
    <3>1. l \in 1..Top BY <1>1, <2>1, LevelsAssumption
    <3> QED BY <1>4, <1>5, <3>1, WholeNoKey
  <2>2. CASE l = 0
    <3>1. PICK lo \in Nat, hi \in Nat : Closed(a, levels[0], lo, hi)
      <4>1. 0 \in 0..(Top - 1) /\ l + 1 = 1 BY <1>1, <2>2
      <4> QED BY <1>1, <1>3, <1>5, <2>2, <4>1, InputsClosed
    <3>2. ASSUME NEW f \in levels[0] \ a PROVE NoKeyOf(f.entries, Entries(a))
      <4>1. Table(f) BY <1>3, <2>2 DEF Tables
      <4>2. PICK p, q : p = Min({lo, x}) /\ q = Max({hi, y}) OBVIOUS
      <4>3. p \in Nat /\ p <= x /\ q \in Nat /\ y <= q BY <1>7, <4>2, OfTwo
      <4>4. ~ Overlaps(f, p, q) BY <1>5, <1>6, <3>1, <4>2 DEF Closed
      <4>5. ~ Overlaps(f, x, y) BY <1>7, <4>1, <4>3, <4>4, OverlapsWider
      <4> QED BY <1>5, <1>6, <4>1, <4>5, OutsideNoKey
    <3> QED BY <2>2, <3>2 DEF NoKeyOf, Entries
  <2> QED BY <2>1, <2>2
<1>9. b \in SUBSET levels[l + 1] /\ \A f \in levels[l + 1] : Overlaps(f, x, y) => f \in b
  BY <1>2, <1>3, <1>4, <1>5, <1>7, Found
<1>10. NoKeyOf(Entries(levels[l + 1] \ b), Entries(b)) BY <1>2, <1>9, WholeNoKey
<1>11. NoKeyOf(Entries(levels[l + 1] \ b), Entries(a))
  <2>1. ASSUME NEW f \in levels[l + 1] \ b PROVE NoKeyOf(f.entries, Entries(a))
    <3>1. Table(f) /\ ~ Overlaps(f, x, y) BY <1>3, <1>9 DEF Tables
    <3> QED BY <1>5, <1>6, <3>1, OutsideNoKey
  <2> QED BY <2>1 DEF NoKeyOf, Entries
<1>12. NoKeyOf(Entries(levels[l + 1] \ b), Entries(a \cup b)) BY <1>10, <1>11 DEF NoKeyOf, Entries
<1> QED BY <1>5, <1>8, <1>12

(* BackgroundCompaction: a table moves below others only if they do not    *)
(* share a user key with it.                                               *)
LEMMA BeginWhole ==
  ASSUME LevelsInv, WholeInv, NEW pick \in Picks, Begin(pick), LevelsInv'
  PROVE  WholeInv'
<1>1. PICK l, in : l = pick.level /\ in = Inputs(l, pick.chosen) OBVIOUS
<1>2. l \in 0..(Top - 1) BY <1>1, PicksAre
<1>3. l \in Levels /\ l + 1 \in Levels /\ l # l + 1 /\ l + 1 # 0 /\ l + 1 \in 1..Top BY <1>2, LevelNumbers
<1>4. UNCHANGED <<mem, last, next, written, snapshots>> /\ job = NoJob BY DEF Begin
<1>5. ASSUME ~ straddled
      PROVE  /\ ~ Straddle(levels) /\ NewerAbove /\ ZeroOrder /\ Kept
             /\ NoKeyOf(Entries(levels[l] \ in[1]), Entries(in[1]))
             /\ NoKeyOf(Entries(levels[l + 1] \ in[2]), Entries(in[1] \cup in[2]))
  <2>1. ~ Straddle(levels) /\ NewerAbove /\ ZeroOrder /\ Kept BY <1>5 DEF WholeInv, WholeOK
  <2> QED BY <1>1, <2>1, InputsWhole
<1>6. CASE ~ IsTrivialMove(l, in)
  <2>1. /\ levels' = levels /\ straddled' = straddled
        /\ job' = [kind |-> "merge", level |-> l, in |-> in, base |-> levels,
                   grandparents |-> Grandparents(l, in), smallest |-> SmallestSnapshot]
    BY <1>1, <1>6 DEF Begin
  <2>2. job'.level = l /\ job'.in = in /\ job'.base = levels BY <2>1
  <2>3. NumbersOK' /\ MemNewest' BY <1>4, <2>1 DEF WholeInv, NumbersOK, MemNewest
  <2>4. ASSUME ~ straddled PROVE JobWhole'
    <3>1. Newer(Entries(levels'[job'.level] \ job'.in[1]), Entries(job'.in[1]))
      BY <1>5, <2>1, <2>2, <2>4 DEF NoKeyOf, Newer
    <3>2. NoKeyOf(Entries(levels'[job'.level + 1] \ job'.in[2]), JobInputs')
      BY <1>5, <2>1, <2>2, <2>4 DEF JobInputs
    <3>3. \A m \in (job'.level + 2)..Top : NoKeyOf(Entries(levels'[m] \ job'.base[m]), JobInputs')
      <4>1. \A m : levels[m] \ levels[m] = {} OBVIOUS
      <4>2. \A m : Entries(levels[m] \ levels[m]) = {} BY <4>1 DEF Entries
      <4> QED BY <2>1, <2>2, <4>2 DEF NoKeyOf
    <3> QED BY <3>1, <3>2, <3>3 DEF JobWhole
  <2>5. ASSUME ~ straddled PROVE NewerAbove' /\ ZeroOrder' /\ ~ Straddle(levels)'
    BY <1>5, <2>1, <2>5 DEF NewerAbove, ZeroOrder
  <2>6. ASSUME ~ straddled PROVE Kept'
    <3>1. Stored' = Stored BY <1>4, <2>1 DEF Stored
    <3> QED BY <1>4, <1>5, <2>6, <3>1 DEF Kept
  <2> QED BY <2>1, <2>3, <2>4, <2>5, <2>6 DEF WholeInv, WholeOK
<1>7. CASE IsTrivialMove(l, in)
  <2>1. /\ levels' = [levels EXCEPT ![l] = @ \ in[1], ![l + 1] = @ \cup in[1]] /\ job' = NoJob
        /\ straddled' = (straddled \/ Straddle(levels'))
    BY <1>1, <1>4, <1>7 DEF Begin, NewVersion
  <2>2. levels = [m \in Levels |-> levels[m]] BY DEF LevelsInv, FilesOK
  <2>3. PICK a : a = in[1] OBVIOUS
  <2>4. /\ levels'[l] = levels[l] \ a /\ levels'[l + 1] = levels[l + 1] \cup a
        /\ \A m \in Levels : m # l /\ m # l + 1 => levels'[m] = levels[m]
    BY <1>3, <2>1, <2>2, <2>3
  <2>5. a \subseteq levels[l]
    <3>1. pick.chosen \in SUBSET levels[l] /\ Together(pick.chosen) /\ pick.chosen # {} BY <1>1, PicksAre
    <3>2. Tables(levels[l]) /\ Tables(levels[l + 1]) BY <1>3, FilesAreTables DEF LevelsInv
    <3> QED BY <1>1, <1>2, <2>3, <3>1, <3>2, InputsTogether
  <2>6. levels'[0] \subseteq levels[0] BY <1>3, <2>4, LevelNumbers
  <2>7. \A m \in Levels : \A f \in levels'[m] : f \in levels[m] \/ (m = l + 1 /\ f \in a /\ f \in levels[l])
    BY <2>4, <2>5
  <2>8. NumbersOK'
    <3>1. \A m \in Levels : \A f \in levels'[m] : f.number \in Nat /\ f.number < next
      BY <1>3, <2>7 DEF WholeInv, NumbersOK
    <3> QED BY <1>4, <2>6, <3>1 DEF WholeInv, NumbersOK
  <2>9. MemNewest'
    <3> SUFFICES ASSUME NEW m \in Levels, NEW f \in levels'[m], NEW e \in mem, NEW d \in f.entries PROVE e.seq > d.seq
      BY <1>4 DEF MemNewest, Entries
    <3>1. PICK n \in Levels : f \in levels[n] BY <1>3, <2>7
    <3> QED BY <3>1 DEF WholeInv, MemNewest, Entries
  <2>10. Stored' = Stored
    <3>1. \A x : (\E m \in Levels : x \in levels'[m]) <=> (\E m \in Levels : x \in levels[m])
      BY <1>3, <2>4, <2>7
    <3>2. \A x : x \in Stored' <=> x \in mem \/ \E m \in Levels : \E f \in levels'[m] : x \in f.entries
      BY <1>4 DEF Stored, Entries
    <3>3. \A x : x \in Stored <=> x \in mem \/ \E m \in Levels : \E f \in levels[m] : x \in f.entries
      BY DEF Stored, Entries
    <3>4. \A x : x \in Stored' <=> x \in Stored BY <3>1, <3>2, <3>3
    <3> QED BY <3>4
  <2>11. ASSUME ~ straddled' PROVE ~ Straddle(levels)' /\ NewerAbove' /\ ZeroOrder' /\ Kept' /\ JobWhole'
    <3>1. ~ straddled /\ ~ Straddle(levels') BY <2>1, <2>11
    <3>2. NewerAbove' 
      <4> SUFFICES ASSUME NEW m \in Levels, NEW n \in Levels, m < n,
                          NEW f \in levels'[m], NEW g \in levels'[n]
                   PROVE  Newer(f.entries, g.entries)
        BY DEF NewerAbove, Newer, Entries
      <4>1. \A p, q \in Levels : \A x \in levels[p], y \in levels[q] : p < q => Newer(x.entries, y.entries)
        BY <1>5, <3>1 DEF NewerAbove, Newer, Entries
      <4>2. CASE f \in levels[m] /\ g \in levels[n] BY <4>1, <4>2
      <4>3. CASE f \in levels[m] /\ n = l + 1 /\ g \in a /\ g \in levels[l]
        <5>1. m < l \/ m = l BY <1>2, <4>3 DEF Levels
        <5>2. CASE m < l BY <1>3, <4>1, <4>3, <5>2
        <5>3. CASE m = l
          <6>1. f \in levels[l] \ a BY <2>4, <5>3
          <6>2. NoKeyOf(Entries(levels[l] \ a), Entries(a)) BY <1>5, <2>3, <3>1
          <6> QED BY <4>3, <6>1, <6>2 DEF NoKeyOf, Newer, Entries
        <5> QED BY <5>1, <5>2, <5>3
      <4>4. CASE m = l + 1 /\ f \in a /\ f \in levels[l] /\ g \in levels[n]
        <5>1. l < n BY <1>2, <4>4 DEF Levels
        <5> QED BY <1>3, <4>1, <4>4, <5>1
      <4>5. m # n BY DEF Levels
      <4> QED BY <2>7, <4>2, <4>3, <4>4, <4>5
    <3>3. ZeroOrder' BY <1>5, <2>6, <3>1 DEF ZeroOrder
    <3>4. Kept' BY <1>4, <1>5, <2>10, <3>1 DEF Kept
    <3>5. JobWhole' BY <2>1 DEF JobWhole
    <3> QED BY <3>1, <3>2, <3>3, <3>4, <3>5
  <2> QED BY <2>8, <2>9, <2>11 DEF WholeInv, WholeOK
<1> QED BY <1>6, <1>7

(* InstallCompactionResults.  What a reader would have found is kept, or   *)
(* was a deletion and nothing that it deleted is left: in the memtable, in *)
(* the levels above and in what stays of the inputs' levels the entries    *)
(* are newer, in the outputs older ones are hidden by it, and below them   *)
(* the tables without its key (IsBaseLevelForKey) are still all that could *)
(* have it.                                                                *)
LEMMA InstallWhole ==
  ASSUME LevelsInv, WholeInv, Install, LevelsInv'
  PROVE  WholeInv'
<1>1. PICK l, a, b : l = job.level /\ a = job.in[1] /\ b = job.in[2] OBVIOUS
<1>2. PICK outs : outs = Outputs(job) OBVIOUS
<1>3. PICK new : new = Made(outs) OBVIOUS
<1>4. /\ job # NoJob /\ job' = NoJob /\ UNCHANGED <<mem, last, written, snapshots>>
      /\ levels' = [levels EXCEPT ![l] = @ \ a, ![l + 1] = (@ \ b) \cup new]
      /\ straddled' = (straddled \/ Straddle(levels')) /\ next' = next + Len(outs)
  BY <1>1, <1>2, <1>3 DEF Install, NewVersion, Made
<1>5. l \in 0..(Top - 1) /\ a \subseteq levels[l] /\ b \subseteq levels[l + 1]
  BY <1>1, <1>4 DEF LevelsInv, JobOK
<1>6. l \in Levels /\ l + 1 \in Levels /\ l # l + 1 /\ l + 1 # 0 /\ l + 1 \in 1..Top /\ l \in Nat
  BY <1>5, LevelNumbers
<1>7. PICK S : S = Entries(a \cup b) OBVIOUS
<1>8. S \in SUBSET written /\ S \in SUBSET Entry /\ Distinct(S) /\ IsFiniteSet(S)
  <2>1. \A f \in a \cup b : f.entries \subseteq written BY <1>5, <1>6 DEF LevelsInv, FilesOK
  <2>2. S \in SUBSET written BY <1>7, <2>1 DEF Entries
  <2> QED BY <2>2, EntriesWritten
<1>9. job.smallest \in Nat /\ job.smallest <= MaxWrites /\ \A s \in snapshots \cup {last} : job.smallest <= s
  <2>1. ViewsOK /\ last \in Nat BY DEF LevelsInv, WrittenOK
  <2>2. MaxWrites \in Nat BY LevelsAssumption
  <2> QED BY <1>4, <2>1, <2>2 DEF ViewsOK
<1>10. /\ Pieces(outs, S)
       /\ \A e \in S : e \in Contents(outs) \/ Hidden(job, S, e) \/ Obsolete(job, e)
       /\ \A e \in Contents(outs) : e \in S /\ ~ Hidden(job, S, e)
  <2>1. S = Entries(job.in[1] \cup job.in[2]) BY <1>1, <1>7
  <2> QED BY <1>2, <1>8, <1>9, <2>1, OutputsTell
<1>11. Len(outs) \in Nat
  <2>1. outs \in Seq((SUBSET S) \ {{}}) BY <1>10 DEF Pieces
  <2> QED BY <2>1, LenProperties
<1>12. Entries(new) = Contents(outs) /\ \A f \in new : f.number \in Nat /\ f.number < next + Len(outs)
  <2>1. next \in Nat BY DEF WholeInv, NumbersOK
  <2>2. \A f \in new : f.number \in Nat /\ f.number < next + Len(outs)
    <3> SUFFICES ASSUME NEW i \in 1..Len(outs)
                 PROVE  next + i - 1 \in Nat /\ next + i - 1 < next + Len(outs)
      BY <1>3 DEF Made
    <3> QED BY <1>11, <2>1
  <2>3. \A x : x \in Entries(new) <=> x \in Contents(outs)
    <3>1. \A x : x \in Entries(new) <=> \E i \in 1..Len(outs) : x \in outs[i]
      <4>1. \A f \in new : \E i \in 1..Len(outs) : f.entries = outs[i] BY <1>3 DEF Made
      <4>2. ASSUME NEW i \in 1..Len(outs) PROVE \E f \in new : f.entries = outs[i]
        <5>1. PICK f : f = [number |-> next + i - 1, entries |-> outs[i]] OBVIOUS
        <5>2. f \in new BY <1>3, <5>1 DEF Made
        <5> QED BY <5>1, <5>2
      <4>3. \A x : x \in Entries(new) <=> \E f \in new : x \in f.entries BY DEF Entries
      <4> QED BY <4>1, <4>2, <4>3
    <3>2. \A x : x \in Contents(outs) <=> \E i \in 1..Len(outs) : x \in outs[i] BY DEF Contents
    <3> QED BY <3>1, <3>2
  <2> QED BY <2>2, <2>3
<1>13. levels = [m \in Levels |-> levels[m]] BY DEF LevelsInv, FilesOK
<1>14. /\ levels'[l] = levels[l] \ a
       /\ levels'[l + 1] = (levels[l + 1] \ b) \cup new
       /\ \A m \in Levels : m # l /\ m # l + 1 => levels'[m] = levels[m]
  BY <1>4, <1>6, <1>13
<1>15. levels'[0] \subseteq levels[0] BY <1>6, <1>14, LevelNumbers
<1>16. \A m \in Levels : \A f \in levels'[m] : f \in levels[m] \/ (m = l + 1 /\ f \in new) BY <1>14
<1>17. \A e \in S : e \in Entries(levels[l]) \/ e \in Entries(levels[l + 1])
  BY <1>5, <1>7 DEF Entries
<1>18. \A f \in new : \A e \in f.entries : e \in S /\ e \in Contents(outs)
  <2>1. \A f \in new : \A e \in f.entries : e \in Entries(new) BY DEF Entries
  <2> QED BY <1>10, <1>12, <2>1
<1>19. NumbersOK'
  <2>1. next \in Nat BY DEF WholeInv, NumbersOK
  <2>2. \A m \in Levels : \A f \in levels'[m] : f.number \in Nat /\ f.number < next'
    <3> SUFFICES ASSUME NEW m \in Levels, NEW f \in levels'[m] PROVE f.number \in Nat /\ f.number < next + Len(outs)
      BY <1>4
    <3>1. CASE f \in levels[m]
      <4>1. f.number \in Nat /\ f.number < next BY <3>1 DEF WholeInv, NumbersOK
      <4> QED BY <1>11, <2>1, <4>1
    <3> QED BY <1>12, <1>16, <3>1
  <2>3. next' \in Nat BY <1>4, <1>11, <2>1
  <2> QED BY <1>15, <2>2, <2>3 DEF WholeInv, NumbersOK
<1>20. MemNewest'
  <2> SUFFICES ASSUME NEW m \in Levels, NEW f \in levels'[m], NEW e \in mem, NEW d \in f.entries PROVE e.seq > d.seq
    BY <1>4 DEF MemNewest, Entries
  <2>1. \E n \in Levels : d \in Entries(levels[n])
    <3>1. CASE f \in levels[m] BY <3>1 DEF Entries
    <3>2. CASE f \in new BY <1>6, <1>17, <1>18, <3>2
    <3> QED BY <1>16, <3>1, <3>2
  <2> QED BY <2>1 DEF WholeInv, MemNewest
<1>21. ASSUME ~ straddled' PROVE ~ Straddle(levels)' /\ NewerAbove' /\ ZeroOrder' /\ Kept' /\ JobWhole'
  <2>1. ~ straddled /\ ~ Straddle(levels') BY <1>4, <1>21
  <2>2. NewerAbove /\ ZeroOrder /\ Kept /\ JobWhole BY <2>1 DEF WholeInv, WholeOK
  <2>3. /\ Newer(Entries(levels[l] \ a), Entries(a))
        /\ NoKeyOf(Entries(levels[l + 1] \ b), S)
        /\ \A m \in (l + 2)..Top : NoKeyOf(Entries(levels[m] \ job.base[m]), S)
    BY <1>1, <1>4, <1>7, <2>2 DEF JobWhole, JobInputs
  <2>4. \A m \in Levels : m < l => Newer(Entries(levels[m]), S)
    <3> SUFFICES ASSUME NEW m \in Levels, m < l, NEW d \in Entries(levels[m]), NEW e \in S, d.key = e.key
                 PROVE  d.seq > e.seq
      BY DEF Newer
    <3>1. m < l + 1 BY <1>6 DEF Levels
    <3> QED BY <1>6, <1>17, <2>2, <3>1 DEF NewerAbove, Newer
  <2>5. Newer(Entries(levels[l] \ a), S)
    <3> SUFFICES ASSUME NEW d \in Entries(levels[l] \ a), NEW f \in a \cup b, NEW e \in f.entries, d.key = e.key
                 PROVE  d.seq > e.seq
      BY <1>7 DEF Newer, Entries
    <3>1. CASE f \in a BY <2>3, <3>1 DEF Newer, Entries
    <3>2. CASE f \in b
      <4>1. l < l + 1 BY <1>6
      <4>2. d \in Entries(levels[l]) /\ e \in Entries(levels[l + 1]) BY <1>5, <3>2 DEF Entries
      <4> QED BY <1>6, <2>2, <4>1, <4>2 DEF NewerAbove, Newer
    <3> QED BY <3>1, <3>2
  <2>6. \A m \in Levels : l + 1 < m => Newer(S, Entries(levels[m]))
    <3> SUFFICES ASSUME NEW m \in Levels, l + 1 < m, NEW d \in S, NEW e \in Entries(levels[m]), d.key = e.key
                 PROVE  d.seq > e.seq
      BY DEF Newer
    <3>1. l < m BY <1>6 DEF Levels
    <3> QED BY <1>6, <1>17, <2>2, <3>1 DEF NewerAbove, Newer
  <2>7. NewerAbove'
    <3> SUFFICES ASSUME NEW m \in Levels, NEW n \in Levels, m < n,
                        NEW f \in levels'[m], NEW g \in levels'[n]
                 PROVE  Newer(f.entries, g.entries)
      BY DEF NewerAbove, Newer, Entries
    <3>1. CASE f \in levels[m] /\ g \in levels[n] BY <2>2, <3>1 DEF NewerAbove, Newer, Entries
    <3>2. CASE f \in levels[m] /\ n = l + 1 /\ g \in new
      <4>1. \A e \in g.entries : e \in S BY <1>18, <3>2
      <4>2. m < l \/ m = l BY <1>6, <3>2 DEF Levels
      <4>3. CASE m < l BY <2>4, <3>2, <4>1, <4>3 DEF Newer, Entries
      <4>4. CASE m = l
        <5>1. f \in levels[l] \ a BY <1>14, <4>4
        <5> QED BY <2>5, <4>1, <5>1 DEF Newer, Entries
      <4> QED BY <4>2, <4>3, <4>4
    <3>3. CASE m = l + 1 /\ f \in new /\ g \in levels[n]
      <4>1. \A e \in f.entries : e \in S BY <1>18, <3>3
      <4> QED BY <2>6, <3>3, <4>1 DEF Newer, Entries
    <3>4. m # n BY DEF Levels
    <3> QED BY <1>16, <3>1, <3>2, <3>3, <3>4
  <2>8. ZeroOrder' BY <1>15, <2>2 DEF ZeroOrder
  <2>9. \A x : x \in Stored' <=> x \in mem \/ \E m \in Levels : \E f \in levels'[m] : x \in f.entries
    <3>1. mem' = mem BY <1>4
    <3>2. \A x : x \in Stored' <=> x \in mem' \/ \E m \in Levels : x \in Entries(levels'[m]) BY DEF Stored
    <3>3. \A x, m : x \in Entries(levels'[m]) <=> \E f \in levels'[m] : x \in f.entries BY DEF Entries
    <3> QED BY <3>1, <3>2, <3>3
  <2>10. Stored' \in SUBSET Stored
    <3> SUFFICES ASSUME NEW x \in Stored' PROVE x \in Stored OBVIOUS
    <3>1. x \in mem \/ \E m \in Levels : \E f \in levels'[m] : x \in f.entries BY <2>9
    <3>2. CASE x \in mem BY <3>2 DEF Stored
    <3>3. ASSUME NEW m \in Levels, NEW f \in levels'[m], x \in f.entries PROVE x \in Stored
      <4>1. CASE f \in levels[m] BY <3>3, <4>1 DEF Stored, Entries
      <4>2. CASE f \in new BY <1>6, <1>17, <1>18, <3>3, <4>2 DEF Stored
      <4> QED BY <1>16, <4>1, <4>2
    <3> QED BY <3>1, <3>2, <3>3
  <2>11. \A e \in Stored : e \in Stored' \/ (e \in S /\ e \notin Contents(outs))
    <3> SUFFICES ASSUME NEW e \in Stored, e \notin Stored' PROVE e \in S /\ e \notin Contents(outs) OBVIOUS
    <3>1. \A m \in Levels : \A f \in levels'[m] : e \notin f.entries BY DEF Stored, Entries
    <3>2. e \notin mem BY <1>4 DEF Stored
    <3>3. PICK m \in Levels : \E f \in levels[m] : e \in f.entries BY <3>2 DEF Stored, Entries
    <3>4. PICK f \in levels[m] : e \in f.entries BY <3>3
    <3>5. f \notin levels'[m] BY <3>1, <3>4
    <3>6. f \in a \cup b BY <1>14, <3>5
    <3>7. e \in S BY <1>7, <3>4, <3>6 DEF Entries
    <3>8. \A g \in new : e \notin g.entries BY <1>6, <1>14, <3>1
    <3>9. e \notin Entries(new) BY <3>8 DEF Entries
    <3> QED BY <1>12, <3>7, <3>9
  <2>12. ASSUME NEW k \in Keys, NEW s \in snapshots \cup {last}
         PROVE  Value(Newest(Stored', k, s)) = Value(Newest(Stored, k, s))
    <3>1. PICK A, B : A = Stored /\ B = Stored' OBVIOUS
    <3>2. B \in SUBSET A /\ A \in SUBSET written BY <2>10, <3>1, EntriesWritten
    <3>3. /\ A \in SUBSET Entry /\ Distinct(A) /\ IsFiniteSet(A)
          /\ B \in SUBSET Entry /\ Distinct(B) /\ IsFiniteSet(B)
      BY <3>2, EntriesWritten
    <3>4. s \in Nat /\ job.smallest <= s BY <1>9, <2>12 DEF LevelsInv, WrittenOK, ViewsOK
    <3>5. PICK n : n = Newest(A, k, s) OBVIOUS
    <3>6. CASE Of(A, k, s) = {}
      <4>1. Of(B, k, s) = {} BY <3>2, <3>6 DEF Of
      <4> QED BY <3>1, <3>6, <4>1 DEF Newest
    <3>7. CASE Of(A, k, s) # {}
      <4>1. n \in Of(A, k, s) /\ \A d \in Of(A, k, s) : d.seq <= n.seq BY <3>3, <3>4, <3>5, <3>7, NewestIs
      <4>2. n \in A /\ n.key = k /\ n.seq <= s /\ n.seq \in Nat BY <3>3, <4>1 DEF Of, Entry
      <4>3. CASE n \in B
        <5>1. n \in Of(B, k, s) BY <4>2, <4>3 DEF Of
        <5>2. \A d \in Of(B, k, s) : d.seq <= n.seq BY <3>2, <4>1 DEF Of
        <5>3. Newest(B, k, s) = n BY <3>3, <3>4, <5>1, <5>2, NewestThe
        <5> QED BY <3>1, <3>5, <5>3
      <4>4. CASE n \notin B
        <5>1. n \in S /\ n \notin Contents(outs) BY <2>11, <3>1, <4>2, <4>4
        <5>2. ~ Hidden(job, S, n)
          <6> SUFFICES ASSUME NEW c \in S, c.key = n.key, c.seq > n.seq, c.seq <= job.smallest PROVE FALSE
            BY DEF Hidden
          <6>1. c \in Stored BY <1>6, <1>17 DEF Stored
          <6>2. c.seq \in Nat BY <1>8 DEF Entry
          <6>3. c.seq <= s BY <1>9, <3>4, <6>2
          <6>4. c \in Of(A, k, s) BY <3>1, <4>2, <6>1, <6>3 DEF Of
          <6> QED BY <4>1, <4>2, <6>2, <6>4
        <5>3. n.del /\ n.seq <= job.smallest /\ IsBaseLevel(job, k)
          BY <1>10, <4>2, <5>1, <5>2 DEF Obsolete
        <5>4. Of(B, k, s) = {}
          <6> SUFFICES ASSUME NEW d \in B, d.key = k, d.seq <= s PROVE FALSE BY DEF Of
          <6>1. d \in Of(A, k, s) BY <3>2 DEF Of
          <6>2. d.seq \in Nat /\ d.seq < n.seq
            <7>1. d \in Entry /\ n \in Entry /\ d # n BY <3>2, <3>3, <4>2, <4>4
            <7>2. d.seq \in Nat /\ d.seq # n.seq BY <3>2, <3>3, <4>2, <7>1 DEF Distinct, Entry
            <7> QED BY <4>1, <4>2, <6>1, <7>2
          <6>3. d \in mem \/ \E m \in Levels : \E f \in levels'[m] : d \in f.entries
            BY <2>9, <3>1
          <6>4. CASE d \in mem
            <7>1. \E m \in Levels : n \in Entries(levels[m]) BY <1>6, <1>17, <5>1
            <7>2. d.seq > n.seq BY <6>4, <7>1 DEF WholeInv, MemNewest
            <7> QED BY <4>2, <6>2, <7>2
          <6>5. ASSUME NEW m \in Levels, NEW f \in levels'[m], d \in f.entries PROVE FALSE
            <7>1. m \in Nat /\ m <= Top BY LevelsAssumption DEF Levels
            <7>2. ~ (d.seq > n.seq) BY <4>2, <6>2
            <7>3. CASE m < l
              <8>1. f \in levels[m] BY <1>6, <1>14, <7>1, <7>3
              <8> QED BY <2>4, <4>2, <5>1, <6>5, <7>2, <7>3, <8>1 DEF Newer, Entries
            <7>4. CASE m = l
              <8>1. f \in levels[l] \ a BY <1>14, <7>4
              <8> QED BY <2>5, <4>2, <5>1, <6>5, <7>2, <8>1 DEF Newer, Entries
            <7>5. CASE m = l + 1 /\ f \in levels[l + 1] \ b
              <8> QED BY <2>3, <4>2, <5>1, <6>5, <7>5 DEF NoKeyOf, Entries
            <7>6. CASE m = l + 1 /\ f \in new
              <8>1. d \in Contents(outs) BY <1>18, <6>5, <7>6
              <8>2. ~ Hidden(job, S, d) BY <1>10, <8>1
              <8>3. n.seq > d.seq BY <4>2, <6>2
              <8> QED BY <4>2, <5>1, <5>3, <8>2, <8>3 DEF Hidden
            <7>7. CASE m > l + 1
              <8>1. f \in levels[m] /\ m \in (l + 2)..Top BY <1>6, <1>14, <7>1, <7>7
              <8>2. CASE f \in job.base[m]
                <9>1. ~ Overlaps(f, k, k) BY <1>1, <5>3, <8>1, <8>2 DEF IsBaseLevel
                <9>2. Table(f) BY <8>1, FilesAreTables DEF LevelsInv, Tables
                <9>3. /\ d.key \in Nat /\ Smallest(f).key <= d.key /\ d.key <= Largest(f).key
                      /\ Smallest(f).key \in Nat /\ Largest(f).key \in Nat
                  BY <6>5, <9>2, TableEnds
                <9> QED BY <9>1, <9>3 DEF Overlaps
              <8>3. CASE f \notin job.base[m]
                BY <2>3, <4>2, <5>1, <6>5, <8>1, <8>3 DEF NoKeyOf, Entries
              <8> QED BY <8>2, <8>3
            <7>8. m < l \/ m = l \/ m = l + 1 \/ m > l + 1 BY <1>6, <7>1
            <7> QED BY <1>14, <7>3, <7>4, <7>5, <7>6, <7>7, <7>8
          <6> QED BY <6>3, <6>4, <6>5
        <5>5. Newest(B, k, s) = NoEntry BY <5>4 DEF Newest
        <5> QED BY <3>1, <3>5, <5>3, <5>5 DEF Value, NoEntry
      <4> QED BY <4>3, <4>4
    <3> QED BY <3>6, <3>7
  <2>13. Kept' BY <1>4, <2>2, <2>12 DEF Kept
  <2>14. JobWhole' BY <1>4 DEF JobWhole
  <2> QED BY <2>1, <2>7, <2>8, <2>13, <2>14
<1>22. WholeOK' BY <1>21 DEF WholeOK
<1> QED BY <1>19, <1>20, <1>22 DEF WholeInv

(* As long as no user key was ever cut in two, levels above hold newer     *)
(* entries of a key than levels below, newer tables of level 0 newer ones  *)
(* than older tables, and what is stored answers every view a reader may   *)
(* have as all the writes would.                                           *)
THEOREM WholeInvariant == Spec => [](LevelsInv /\ WholeInv)
<1>1. Init => WholeInv BY InitWhole
<1>2. ASSUME LevelsInv, WholeInv, [Next]_vars, LevelsInv' PROVE WholeInv'
  <2>1. ASSUME NEW k \in Keys, NEW del \in BOOLEAN, Write(k, del) PROVE WholeInv'
    BY <1>2, <2>1, WriteWhole
  <2>2. CASE Flush BY <1>2, <2>2, FlushWhole
  <2>3. CASE GetSnapshot \/ ReleaseSnapshot
    BY <1>2, <2>3, IdleWhole DEF GetSnapshot, ReleaseSnapshot
  <2>4. CASE Compact BY <1>2, <2>4, BeginWhole DEF Compact
  <2>5. CASE Install BY <1>2, <2>5, InstallWhole
  <2>6. CASE UNCHANGED vars BY <1>2, <2>6, IdleWhole DEF vars
  <2> QED BY <1>2, <2>1, <2>2, <2>3, <2>4, <2>5, <2>6 DEF Next
<1> QED BY <1>1, <1>2, LevelsInvariant, PTL DEF Spec

(* Get() finds what the newest write up to a reader's number left, as long *)
(* as no user key was ever cut in two by the end of a table.               *)
THEOREM LevelsReadNewest == Spec => []ReadsNewestIfWhole
<1>1. ASSUME LevelsInv, WholeInv PROVE ReadsNewestIfWhole
  <2> SUFFICES ASSUME ~ straddled, NEW k \in Keys, NEW seq \in snapshots \cup {last}
               PROVE  Value(Get(k, seq)) = Value(Wrote(k, seq))
    BY DEF ReadsNewestIfWhole, ReadsNewest
  <2>1. NumbersOK /\ MemNewest /\ ~ Straddle(levels) /\ NewerAbove /\ ZeroOrder /\ Kept
    BY <1>1 DEF WholeInv, WholeOK
  <2>2. seq \in Nat BY <1>1 DEF LevelsInv, WrittenOK, ViewsOK
  <2>3. Get(k, seq) = Newest(Stored, k, seq) BY <1>1, <2>1, <2>2, GetNewest
  <2>4. Wrote(k, seq) = Newest(written, k, seq) BY DEF Wrote, Newest, Of
  <2> QED BY <2>1, <2>3, <2>4 DEF Kept
<1> QED BY <1>1, WholeInvariant, PTL
=============================================================================
