------------------------------- MODULE Levels -------------------------------
(***************************************************************************)
(* The tables of the storage engine in their levels (db/version_set.cc and *)
(* the merge loop of db/db_impl.cc): where a memtable's table goes, which  *)
(* tables a compaction takes, which entries it drops and where it cuts its *)
(* output, and how a read finds the newest entry without looking at all.   *)
(*                                                                         *)
(* An entry is a user key, the sequence number of its write and whether it *)
(* deletes; numbers stand for user keys.  A table is its number and its    *)
(* entries, and its size is how many they are.  Memtables, logs and what   *)
(* runs beside what are Engine; here a flush may come while a compaction   *)
(* is under way, as CompactMemTable does in DoCompactionWork.              *)
(***************************************************************************)
EXTENDS FiniteSetsExt, SequencesExt, Functions

CONSTANTS Keys,           \* user keys, in the order of the comparator; 0 is none
          Top,            \* config::kNumLevels - 1
          MaxMemLevel,    \* config::kMaxMemCompactLevel
          Trigger,        \* config::kL0_CompactionTrigger
          LevelSize,      \* MaxBytesForLevel
          FileSize,       \* Options::max_file_size, at least which ends an output
          OverlapLimit,   \* MaxGrandParentOverlapBytes
          ExpandLimit,    \* ExpandedCompactionByteSizeLimit
          MaxWrites, MaxSnapshots, MaxCompactions    \* bounds

ASSUME LevelsAssumption ==
  /\ Keys \subseteq Nat \ {0} /\ {Top, MaxMemLevel} \subseteq Nat /\ MaxMemLevel < Top
  /\ {Trigger, LevelSize, FileSize} \subseteq Nat \ {0}
  /\ {OverlapLimit, ExpandLimit, MaxWrites, MaxSnapshots, MaxCompactions} \subseteq Nat

VARIABLES mem,         \* entries not in a table yet
          levels,      \* current()->files_: level -> tables
          pointers,    \* compact_pointer_: level -> the last entry compacted
          snapshots,   \* snapshots_
          last, next,  \* last_sequence_, next_file_number_
          job,         \* the compaction under way
          written,     \* history: every entry ever written
          straddled,   \* history: two tables of a level have shared a user key
          taken, compactions     \* counted for the bounds

vars == <<mem, levels, pointers, snapshots, last, next, job, written, straddled, taken,
          compactions>>

Levels == 0..Top
NoEntry == [key |-> 0, seq |-> 0, del |-> TRUE]
NoJob == [kind |-> "none"]
Infinity == MaxWrites + 1      \* kMaxSequenceNumber

(* InternalKeyComparator: by user key, the newest first.                   *)
Before(a, b) == a.key < b.key \/ (a.key = b.key /\ a.seq > b.seq)
Foremost(entries) == CHOOSE e \in entries : \A f \in entries \ {e} : Before(e, f)
Hindmost(entries) == CHOOSE e \in entries : \A f \in entries \ {e} : Before(f, e)
Smallest(f) == Foremost(f.entries)
Largest(f) == Hindmost(f.entries)
Size(files) == FoldSet(LAMBDA f, n : n + Cardinality(f.entries), 0, files)
FirstOf(files) == CHOOSE f \in files : \A g \in files \ {f} : Before(Smallest(f), Smallest(g))

-----------------------------------------------------------------------------
(* Which tables of a level touch a range of user keys.                     *)

Overlaps(f, lo, hi) == Largest(f).key >= lo /\ Smallest(f).key <= hi
Low(files) == Min({Smallest(f).key : f \in files})
High(files) == Max({Largest(f).key : f \in files})

(* Version::GetOverlappingInputs.  In level 0 the range grows to that of   *)
(* the tables found, until it finds no more.                               *)
Closed(S, files, lo, hi) ==
  \A f \in files : Overlaps(f, lo, hi) \/ (S # {} /\ Overlaps(f, Min({lo, Low(S)}), Max({hi, High(S)})))
                     => f \in S
OverlappingInputs(v, l, lo, hi) ==
  IF l = 0 THEN CHOOSE S \in SUBSET v[0] :
                  /\ Closed(S, v[0], lo, hi)
                  /\ \A T \in SUBSET v[0] : Closed(T, v[0], lo, hi) => S \subseteq T
  ELSE {f \in v[l] : Overlaps(f, lo, hi)}

(* Version::PickLevelForMemTableOutput.                                    *)
OverlapInLevel(l, lo, hi) == \E f \in levels[l] : Overlaps(f, lo, hi)
MayPushUnchecked(l, lo, hi) ==     \* mutated: looks at the grandparents only
  l + 2 <= Top => Size(OverlappingInputs(levels, l + 2, lo, hi)) <= OverlapLimit
MayPush(l, lo, hi) ==
  /\ ~OverlapInLevel(l + 1, lo, hi)
  /\ l + 2 <= Top => Size(OverlappingInputs(levels, l + 2, lo, hi)) <= OverlapLimit
LevelForMemTable(lo, hi) ==
  IF OverlapInLevel(0, lo, hi) THEN 0
  ELSE Max({0} \cup {l \in 1..MaxMemLevel : \A m \in 0..(l - 1) : MayPush(m, lo, hi)})

-----------------------------------------------------------------------------
(* Version::Get.                                                           *)

InTable(f, k, seq) ==
  LET found == {e \in f.entries : e.key = k /\ e.seq <= seq}
  IN IF found = {} THEN NoEntry ELSE Foremost(found)

(* In level 0 every table whose range has the key, newest first; below,    *)
(* the one table the binary search ends at.                                *)
NewestHit(files, k, seq) ==
  LET hits == {f \in files : Overlaps(f, k, k) /\ InTable(f, k, seq) # NoEntry}
  IN IF hits = {} THEN NoEntry
     ELSE InTable(CHOOSE f \in hits : \A g \in hits : g.number <= f.number, k, seq)

FindFile(files, target) ==
  LET at == {f \in files : ~Before(Largest(f), target)}
  IN IF at = {} THEN {} ELSE {CHOOSE f \in at : \A g \in at \ {f} : Before(Largest(f), Largest(g))}

InLevel(l, k, seq) ==
  IF l = 0 THEN NewestHit(levels[0], k, seq)
  ELSE NewestHit(FindFile(levels[l], [key |-> k, seq |-> seq, del |-> FALSE]), k, seq)

Get(k, seq) ==
  LET inMem == {e \in mem : e.key = k /\ e.seq <= seq}
      hits == {l \in Levels : InLevel(l, k, seq) # NoEntry}
  IN IF inMem # {} THEN Foremost(inMem)
     ELSE IF hits = {} THEN NoEntry ELSE InLevel(Min(hits), k, seq)

-----------------------------------------------------------------------------
(* Choosing the inputs of a compaction of level l.                         *)

Hull(a, b) == <<Low(a \cup b), High(a \cup b)>>

(* VersionSet::SetupOtherInputs: the next level's tables in the range, and *)
(* more of this one's if that takes no more of the next's.                 *)
Inputs(l, chosen) ==
  LET below == OverlappingInputs(levels, l + 1, Low(chosen), High(chosen))
      range == Hull(chosen, below)
      wider == OverlappingInputs(levels, l, range[1], range[2])
      widerBelow == OverlappingInputs(levels, l + 1, Low(wider), High(wider))
      expand == /\ below # {} /\ Cardinality(wider) > Cardinality(chosen)
                /\ Size(below) + Size(wider) < ExpandLimit
                /\ Cardinality(widerBelow) = Cardinality(below)
  IN IF expand THEN <<wider, widerBelow>> ELSE <<chosen, below>>

Grandparents(l, in) ==
  LET range == Hull(in[1], in[2])
  IN IF l + 2 > Top THEN {} ELSE OverlappingInputs(levels, l + 2, range[1], range[2])

(* VersionSet::PickCompaction.  A level that is too big gives the first    *)
(* table after its pointer, or its first of all.                           *)
TooBig(l) == IF l = 0 THEN Cardinality(levels[0]) >= Trigger ELSE Size(levels[l]) >= LevelSize
NextInTurn(l) ==
  LET after == {f \in levels[l] : pointers[l] = NoEntry \/ Before(pointers[l], Largest(f))}
  IN FirstOf(IF after = {} THEN levels[l] ELSE after)

(* Version::UpdateStats and RecordReadSample: otherwise, the first table    *)
(* that reads of some key go to, if they go on to another.                 *)
Sooner(m, g, l, f) == m < l \/ (m = l /\ l = 0 /\ g.number > f.number)
ReadOften(l, f) ==
  \E k \in Keys :
    LET read == {o \in Levels \X UNION Range(levels) : o[2] \in levels[o[1]] /\ Overlaps(o[2], k, k)}
    IN /\ <<l, f>> \in read
       /\ \E o \in read : Sooner(l, f, o[1], o[2])
       /\ ~\E o \in read : Sooner(o[1], o[2], l, f)

(* Level 0 adds all that overlap the table picked.                         *)
WithOverlapping(l, f) ==
  IF l = 0 THEN OverlappingInputs(levels, 0, Smallest(f).key, Largest(f).key) ELSE {f}

Picks ==
  LET big == {l \in 0..(Top - 1) : TooBig(l)}
      take(l, f) == [level |-> l, chosen |-> WithOverlapping(l, f)]
  IN IF big # {} THEN {take(l, NextInTurn(l)) : l \in big}
     ELSE UNION {{take(l, f) : f \in {g \in levels[l] : ReadOften(l, g)}} : l \in 0..(Top - 1)}

-----------------------------------------------------------------------------
(* DBImpl::DoCompactionWork: one pass over the entries of the inputs.      *)

IsBaseLevelOnce(j, k) ==           \* mutated: looks into the grandparents only
  \A f \in j.grandparents : ~Overlaps(f, k, k)

(* Compaction::IsBaseLevelForKey.                                          *)
IsBaseLevel(j, k) == \A m \in (j.level + 2)..Top : \A f \in j.base[m] : ~Overlaps(f, k, k)

(* Rule (A), `newer` being the entry of the key before this one; and a     *)
(* deletion that hides nothing.                                            *)
Drops(j, e, newer) ==
  \/ newer <= j.smallest
  \/ e.del /\ e.seq <= j.smallest /\ IsBaseLevel(j, e.key)

Close(acc) == IF acc.open = {} THEN acc
              ELSE [acc EXCEPT !.outs = Append(@, acc.open), !.open = {}]

(* Compaction::ShouldStopBefore: an output ends when it would lie over too *)
(* much of the grandparents.                                               *)
StopBefore(j, acc, e) ==
  LET passed == {g \in j.grandparents : Before(Largest(g), e)}
      over == acc.over + IF acc.entry = NoEntry THEN 0 ELSE Size(passed \ acc.passed)
  IN IF over > OverlapLimit THEN [Close(acc) EXCEPT !.passed = passed, !.over = 0]
     ELSE [acc EXCEPT !.passed = passed, !.over = over]

Take(j, acc, e) ==
  LET newer == IF acc.entry.key = e.key THEN acc.entry.seq ELSE Infinity
      added == [acc EXCEPT !.entry = e, !.open = IF Drops(j, e, newer) THEN @ ELSE @ \cup {e}]
  IN IF Cardinality(added.open) >= FileSize THEN Close(added) ELSE added

Outputs(j) ==
  LET entries == UNION {f.entries : f \in j.in[1] \cup j.in[2]}
      start == [outs |-> <<>>, open |-> {}, entry |-> NoEntry, passed |-> {}, over |-> 0]
      merged == MapThenFoldSet(LAMBDA e, acc : Take(j, StopBefore(j, acc, e), e), start,
                               LAMBDA e : e, Hindmost, entries)
  IN Close(merged).outs

-----------------------------------------------------------------------------
Straddle(v) ==
  \E l \in 1..Top, f, g \in UNION Range(v) :
    {f, g} \subseteq v[l] /\ f # g /\ \E d \in f.entries, e \in g.entries : d.key = e.key

Init ==
  /\ mem = {} /\ levels = [l \in Levels |-> {}] /\ pointers = [l \in Levels |-> NoEntry]
  /\ snapshots = {} /\ last = 0 /\ next = 1 /\ job = NoJob
  /\ written = {} /\ straddled = FALSE /\ taken = 0 /\ compactions = 0

NewVersion(v) == levels' = v /\ straddled' = (straddled \/ Straddle(v))

Write(k, del) ==
  LET e == [key |-> k, seq |-> last + 1, del |-> del] IN
  /\ last < MaxWrites
  /\ last' = last + 1 /\ mem' = mem \cup {e} /\ written' = written \cup {e}
  /\ UNCHANGED <<levels, pointers, snapshots, next, job, straddled, taken, compactions>>

(* CompactMemTable, on its own or in the middle of a compaction.           *)
Flush ==
  LET l == LevelForMemTable(Foremost(mem).key, Hindmost(mem).key) IN
  /\ mem # {} /\ mem' = {}
  /\ NewVersion([levels EXCEPT ![l] = @ \cup {[number |-> next, entries |-> mem]}])
  /\ next' = next + 1
  /\ UNCHANGED <<pointers, snapshots, last, job, written, taken, compactions>>

GetSnapshot ==
  /\ taken < MaxSnapshots /\ taken' = taken + 1
  /\ snapshots' = snapshots \cup {last}
  /\ UNCHANGED <<mem, levels, pointers, last, next, job, written, straddled, compactions>>

ReleaseSnapshot ==
  /\ \E s \in snapshots : snapshots' = snapshots \ {s}
  /\ UNCHANGED <<mem, levels, pointers, last, next, job, written, straddled, taken, compactions>>

(* BackgroundCompaction: a table that overlaps nothing moves down, and     *)
(* anything else is merged.                                                *)
IsTrivialMove(l, in) ==
  Cardinality(in[1]) = 1 /\ in[2] = {} /\ Size(Grandparents(l, in)) <= OverlapLimit

SmallestSnapshot == IF snapshots = {} THEN last ELSE Min(snapshots)

Begin(pick) ==
  LET l == pick.level
      in == Inputs(l, pick.chosen)
  IN /\ job = NoJob /\ pick.chosen # {} /\ compactions < MaxCompactions
     /\ compactions' = compactions + 1
     /\ pointers' = [pointers EXCEPT ![l] = Hindmost(UNION {f.entries : f \in in[1]})]
     /\ IF IsTrivialMove(l, in)
        THEN /\ NewVersion([levels EXCEPT ![l] = @ \ in[1], ![l + 1] = @ \cup in[1]])
             /\ UNCHANGED job
        ELSE /\ job' = [kind |-> "merge", level |-> l, in |-> in, base |-> levels,
                        grandparents |-> Grandparents(l, in), smallest |-> SmallestSnapshot]
             /\ UNCHANGED <<levels, straddled>>
     /\ UNCHANGED <<mem, snapshots, last, next, written, taken>>

Compact == \E pick \in Picks : Begin(pick)

(* InstallCompactionResults.                                               *)
Install ==
  LET outs == Outputs(job)
      new == {[number |-> next + i - 1, entries |-> outs[i]] : i \in 1..Len(outs)}
  IN /\ job # NoJob /\ job' = NoJob
     /\ NewVersion([levels EXCEPT ![job.level] = @ \ job.in[1],
                                  ![job.level + 1] = (@ \ job.in[2]) \cup new])
     /\ next' = next + Len(outs)
     /\ UNCHANGED <<mem, pointers, snapshots, last, written, taken, compactions>>

Next ==
  \/ \E k \in Keys, del \in BOOLEAN : Write(k, del)
  \/ Flush \/ GetSnapshot \/ ReleaseSnapshot \/ Compact \/ Install

Spec == Init /\ [][Next]_vars

-----------------------------------------------------------------------------
(* Tables have entries and numbers of their own, all of them were written, *)
(* and the last level is where compactions end.                            *)
TypeOK ==
  /\ mem \subseteq written
  /\ \A l \in Levels : \A f \in levels[l] :
       f.entries # {} /\ f.entries \subseteq written /\ f.number < next
  /\ \A l, m \in Levels : \A f \in levels[l], g \in levels[m] :
       f.number = g.number => l = m /\ f = g
  /\ pointers[Top] = NoEntry

(* Below level 0 the tables of a level follow one another without sharing  *)
(* a key (the assertion of MaybeAddFile), whatever was flushed into it     *)
(* while it was compacted: the binary search of Get() relies on it.        *)
LevelsDisjoint ==
  \A l \in 1..Top : \A f, g \in levels[l] :
    f # g => Before(Largest(f), Smallest(g)) \/ Before(Largest(g), Smallest(f))

(* At every number a reader may use, Get() finds what the newest write up  *)
(* to it left, or nothing if that was a deletion or there was none.        *)
Value(e) == IF e.del THEN 0 ELSE e.seq
Wrote(k, seq) ==
  LET found == {e \in written : e.key = k /\ e.seq <= seq}
  IN IF found = {} THEN NoEntry ELSE Foremost(found)
ReadsNewest ==
  \A k \in Keys, seq \in snapshots \cup {last} : Value(Get(k, seq)) = Value(Wrote(k, seq))

(* ... as long as no user key was ever cut in two by the end of a table.   *)
ReadsNewestIfWhole == ~straddled => ReadsNewest
=============================================================================
