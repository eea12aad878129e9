------------------------------- MODULE Engine -------------------------------
(***************************************************************************)
(* The storage engine under the client's cache (db/db_impl.cc with the     *)
(* parts of db/version_set.cc that keep its MANIFEST): writers that queue  *)
(* and commit in groups, the background thread that writes memtables and   *)
(* merges tables with the mutex released, reads at a snapshot, the files   *)
(* it deletes, and what opening the database again makes of a crash.       *)
(*                                                                         *)
(* A step is what one thread does between two points where it lets go of   *)
(* the mutex.  An entry is a key, its sequence number and the write it     *)
(* came from; which tables a merge should take, and in what order a read   *)
(* looks at them, is Levels; how a log lays out its records is Wal.        *)
(***************************************************************************)
EXTENDS FiniteSetsExt, SequencesExt, Functions

CONSTANTS Writers, Readers, Keys,
          Syncing,                  \* the writers whose WriteOptions::sync is set
          Batches,                  \* bound: the sets of keys a batch may write
          BufferSize,               \* Options::write_buffer_size, in entries
          CompactionTrigger,        \* config::kL0_CompactionTrigger
          StopTrigger,              \* config::kL0_StopWritesTrigger
          MaxWrites, MaxMerges,     \* bounds
          MaxInputs                 \* bound: writes, Get()s, snapshots, crashes, failures and
                                    \* levels found too big in all

ASSUME EngineAssumption ==
  /\ Batches \subseteq SUBSET Keys /\ Syncing \subseteq Writers
  /\ \A b \in Batches : IsFiniteSet(b)
  /\ {BufferSize, CompactionTrigger, StopTrigger, MaxWrites, MaxMerges, MaxInputs}
       \subseteq Nat
  /\ 0 < CompactionTrigger /\ CompactionTrigger < StopTrigger

VARIABLES logs,        \* log files: number -> records, how many are synced, where half of one is
          tables,      \* table files: number -> their entries
          manifest,    \* what the MANIFEST may say (one thing, unless a write of it failed), and
                       \* where it has half a record, which hides what follows
          edit,        \* the edit being written to it, if any
          phase,       \* down, recovered, installed (not cleaned up yet) or up
          log, imm,    \* logfile_number_; the log of the memtable being written out, or 0
          mems,        \* memtables in use: number of their log -> their entries
          current,     \* versions_->current(): its tables and those of level 0
          logNumber, next, last,    \* of versions_: log_number_, next_file_number_, last_sequence_
          due,         \* what of current() wants merging, level 0 aside: nothing, a table that
                       \* was read too often (file_to_compact_, "worn"), or a level with more
                       \* bytes than it should have, before all others (compaction_level_, "full")
          bgError, scheduled, asleep,   \* bg_error_; bg_compaction_scheduled_; waiting for bg_cv_
          outputs,     \* pending_outputs_
          flush, merge,             \* the background thread in CompactMemTable, in DoCompactionWork
          snapshot,    \* snapshots_: the number of the only one, or -1
          queue,       \* writers_
          request,     \* writer -> its batch, while it is in Write()
          turn,        \* what the head of the queue is doing with its group
          reading,     \* reader -> its Get(), while it is in one
          batches, safe, must,      \* history, for Store
          merges, events   \* counted for the bounds

disk == <<logs, tables, manifest, edit>>
versions == <<current, logNumber, next, last, due>>
memory == <<log, imm, mems>>
background == <<bgError, scheduled, asleep, outputs, flush, merge>>
clients == <<snapshot, queue, request, turn, reading>>
history == <<batches, safe, must>>
bounds == <<merges, events>>
vars == <<disk, phase, memory, versions, background, clients, history, bounds>>

Idle == [stage |-> "none"]
NoEdit == [kind |-> "none"]
Version(T, zero) == [tables |-> T, zero |-> zero]
Empty == Version({}, {})
CrashKinds == {"kill", "power"}
Nothing == [k \in Keys |-> 0]
NoView == [k \in {} |-> 0]

(* NewWritableFile: file n, new or in place of the one of its name.        *)
With(f, n, file) == [m \in {n} \cup DOMAIN f |-> IF m = n THEN file ELSE f[m]]

-----------------------------------------------------------------------------
(* Entries, and what a read at a sequence number finds among them.         *)

Visible(entries, k, seq) == {e \in entries : e.key = k /\ e.seq <= seq}
Newest(entries) == CHOOSE e \in entries : \A f \in entries : f.seq <= e.seq
Find(entries, k, seq) ==
  LET found == Visible(entries, k, seq) IN IF found = {} THEN 0 ELSE Newest(found).write

TableEntries(T) == UNION {tables[n] : n \in T}
MemEntries(m) == IF m = 0 THEN {} ELSE mems[m]
All == mems[log] \cup MemEntries(imm) \cup TableEntries(current.tables)
ViewAt(seq) == [k \in Keys |-> Find(All, k, seq)]

(* WriteBatchInternal::SetSequence and InsertInto: the entries of a group  *)
(* of writes, numbered one after another.                                  *)
KeySeq(b) == SetToSeq(b)
Puts(ids) == FlattenSeq([i \in 1..Len(ids) |->
               [j \in 1..Cardinality(batches[ids[i]]) |->
                  [key |-> KeySeq(batches[ids[i]])[j], write |-> ids[i]]]])
EntriesOf(record) ==
  {[key |-> record.puts[i].key, write |-> record.puts[i].write, seq |-> record.first + i - 1]
     : i \in 1..Len(record.puts)}

NewLog == [records |-> <<>>, synced |-> 0, torn |-> 0]

-----------------------------------------------------------------------------
(* Files: the edits of the MANIFEST, and what may be deleted.              *)

Apply(e, m) ==
  [version |-> Version((m.version.tables \ e.drop) \cup e.add,
                       (m.version.zero \ e.drop) \cup e.addZero),
   log |-> e.log, next |-> e.next, last |-> e.last, torn |-> FALSE]

Torn == {m \in manifest : m.torn}
Edited(e) == {Apply(e, m) : m \in manifest \ Torn}
OnDisk == IF edit = NoEdit THEN manifest ELSE manifest \cup Edited(edit)

(* VersionSet::LogAndApply up to where it unlocks, and from there on.  Of  *)
(* a record that was not written right the file may have nothing, all, or  *)
(* half: whoever reads it then takes what follows for the other half, and  *)
(* either finds the end of the file in it, and no edit behind it, or a     *)
(* checksum that does not hold: then Open() fails, which is no step here.  *)
LogEdit(drop, add, addZero, logNo) ==
  edit' = [kind |-> "edit", drop |-> drop, add |-> add, addZero |-> addZero,
           log |-> logNo, next |-> next, last |-> last]

Logged == manifest' = Edited(edit) \cup Torn
NotLogged == manifest' = OnDisk \cup {[m EXCEPT !.torn = TRUE] : m \in manifest}

Held == UNION {reading[r].version.tables : r \in {q \in Readers : reading[q].stage # "none"}}
Merging == IF merge.stage = "none" THEN {} ELSE merge.version.tables

(* DeleteObsoleteFiles: nothing once a background error is recorded.       *)
Sweep(err, pending, live, logNo, written) ==
  IF err THEN UNCHANGED logs /\ tables' = written
  ELSE /\ tables' = [n \in DOMAIN written \cap (pending \cup live) |-> written[n]]
       /\ logs' = [n \in {m \in DOMAIN logs : m >= logNo} |-> logs[n]]

(* What is counted for the bound MaxInputs.                                *)
MoreInput == Len(batches) + events < MaxInputs
Event == MoreInput /\ events' = events + 1 /\ UNCHANGED merges

(* Version::Finalize and NeedsCompaction: level 0 counts its tables; the   *)
(* bytes of a level below it, which has some, may be too many.             *)
Finalize(v) ==
  \/ due' = "none" /\ UNCHANGED bounds
  \/ due' = "full" /\ v.tables # v.zero /\ merges < MaxMerges /\ Event
NeedsCompaction(v, w) == w # "none" \/ Cardinality(v.zero) >= CompactionTrigger
ToScheduleMerges(err, m, v, w) == ~err /\ NeedsCompaction(v, w)   \* mutated: not for imm_
(* MaybeScheduleCompaction.                                                *)
ToSchedule(err, m, v, w) == ~err /\ (m # 0 \/ NeedsCompaction(v, w))

KeptMems(l, m, readers) ==
  {l} \cup ({m} \ {0}) \cup UNION {{reading[r].mem, reading[r].imm} \ {0} : r \in readers}
InUse(readers) == {r \in readers : reading[r].stage # "none"}

Init ==
  /\ logs = [n \in {} |-> NewLog] /\ tables = [n \in {} |-> {}]
  /\ manifest = {[version |-> Empty, log |-> 0, next |-> 2, last |-> 0, torn |-> FALSE]}
  /\ edit = NoEdit
  /\ phase = "down" /\ log = 0 /\ imm = 0 /\ mems = [n \in {} |-> {}]
  /\ current = Empty /\ logNumber = 0 /\ next = 2 /\ last = 0 /\ due = "none"
  /\ bgError = FALSE /\ scheduled = FALSE /\ asleep = FALSE /\ outputs = {}
  /\ flush = Idle /\ merge = Idle
  /\ snapshot = -1 /\ queue = <<>> /\ turn = Idle
  /\ request = [w \in Writers |-> Idle] /\ reading = [r \in Readers |-> Idle]
  /\ batches = <<>> /\ safe = [c \in CrashKinds |-> Nothing] /\ must = Nothing
  /\ merges = 0 /\ events = 0

-----------------------------------------------------------------------------
(* DB::Open.  It holds the mutex and is alone, but the machine may stop at *)
(* any of its steps.                                                       *)

(* What log::Reader returns: everything, or, where half a record was       *)
(* written, what precedes it and what follows from some block on.          *)
Readable(l) ==
  IF l.torn = 0 THEN {l.records}
  ELSE {SubSeq(l.records, 1, l.torn - 1) \o SubSeq(l.records, i, Len(l.records))
          : i \in l.torn..(Len(l.records) + 1)}

LogsFrom(n) == {m \in DOMAIN logs : m >= n}
EntriesIn(records) == UNION {EntriesOf(records[i]) : i \in 1..Len(records)}
LastOf(entries) == Max({0} \cup {e.seq : e \in entries})

(* next_file_number_ before log n is replayed: a new number for each log   *)
(* before it that has entries, and none that a log already has for what    *)
(* comes after it (MarkFileNumberUsed).                                    *)
NextAt(entries, first) ==
  LET at[n \in Nat] ==
        IF n = 0 THEN first
        ELSE IF n - 1 \notin DOMAIN entries THEN at[n - 1]
        ELSE Max({n, at[n - 1] + IF entries[n - 1] = {} THEN 0 ELSE 1})
  IN at

(* VersionSet::Recover, DBImpl::Recover and RecoverLogFile: the logs from  *)
(* the one the MANIFEST names, in order, each written to a table of level  *)
(* 0 if anything could be read; then a new log and a memtable.             *)
RecoverFrom(m, got) ==
  LET entries == [n \in LogsFrom(m.log) |-> EntriesIn(got[n])]
      number == NextAt(entries, m.next + 1)
      whole == {n \in DOMAIN entries : entries[n] # {}}
      new == {number[n] : n \in whole}
      free == Max({m.next + 1} \cup {number[n + 1] : n \in DOMAIN entries})
  IN /\ tables' = [t \in new \cup DOMAIN tables |->
                     IF t \in new THEN entries[CHOOSE n \in whole : number[n] = t] ELSE tables[t]]
     /\ logs' = With(logs, free, NewLog)
     /\ log' = free /\ mems' = [n \in {free} |-> {}] /\ next' = free + 1
     /\ last' = Max({m.last} \cup {LastOf(entries[n]) : n \in DOMAIN entries})
     /\ manifest' = {[m EXCEPT !.torn = FALSE]}      \* the edit goes to a new one
     /\ current' = m.version /\ logNumber' = m.log
     /\ edit' = [kind |-> "edit", drop |-> {}, add |-> new, addZero |-> new,
                 log |-> free, next |-> free + 1, last |-> last']

Recover ==
  /\ phase = "down"
  /\ \E m \in manifest :
       /\ m.version.tables \subseteq DOMAIN tables      \* else "missing files"
       /\ \E got \in {g \in [LogsFrom(m.log) -> UNION {Readable(logs[n]) : n \in DOMAIN logs}] :
                        \A n \in LogsFrom(m.log) : g[n] \in Readable(logs[n])} : RecoverFrom(m, got)
  /\ phase' = "recovered"
  /\ UNCHANGED <<imm, due, background, clients, history, bounds>>

(* LogAndApply in Open: a new MANIFEST, and CURRENT renamed to point to it.*)
Install ==
  /\ phase = "recovered"
  /\ Logged /\ edit' = NoEdit
  /\ current' = Apply(edit, CHOOSE m \in manifest : TRUE).version /\ logNumber' = edit.log
  /\ Finalize(current')
  /\ phase' = "installed"
  /\ safe' = [c \in CrashKinds |->
                [k \in Keys |-> Find(mems[log] \cup TableEntries(current'.tables), k, last)]]
  /\ UNCHANGED <<logs, tables, memory, next, last, background, clients, batches, must>>

(* DeleteObsoleteFiles and MaybeScheduleCompaction, and Open returns.      *)
Ready ==
  /\ phase = "installed" /\ phase' = "up"
  /\ Sweep(FALSE, outputs, current.tables, logNumber, tables)
  /\ scheduled' = ToSchedule(FALSE, imm, current, due)
  /\ UNCHANGED <<manifest, edit, memory, versions, bgError, asleep, outputs, flush, merge,
                 clients, history, bounds>>

-----------------------------------------------------------------------------
(* Write().                                                                *)

Ask(w, b) ==
  /\ phase = "up" /\ request[w].stage = "none" /\ Len(batches) < MaxWrites /\ MoreInput
  /\ batches' = Append(batches, b)
  /\ request' = [request EXCEPT ![w] =
       [stage |-> "waiting", write |-> Len(batches) + 1, sync |-> w \in Syncing]]
  /\ queue' = Append(queue, w)
  /\ UNCHANGED <<disk, phase, memory, versions, background, snapshot, turn, reading, safe, must, bounds>>

Leader == request[queue[1]]
AtFront == phase = "up" /\ queue # <<>> /\ turn.stage = "none" /\ ~asleep

HasRoom == Cardinality(mems[log]) <= BufferSize
MustWait == imm # 0 \/ Cardinality(current.zero) >= StopTrigger

(* Leaving the queue with an answer.                                       *)
Leave(n) ==
  /\ queue' = SubSeq(queue, n + 1, Len(queue))
  /\ request' = [w \in Writers |->
       IF \E i \in 1..n : queue[i] = w THEN Idle ELSE request[w]]

(* MakeRoomForWrite: a background error stops all writes.                  *)
Refuse ==
  /\ AtFront /\ bgError /\ Leave(1)
  /\ UNCHANGED <<disk, phase, memory, versions, background, snapshot, turn, reading, history, bounds>>

(* ... the memtable is full and may not be replaced yet: bg_cv_.Wait().    *)
Sleep ==
  /\ AtFront /\ ~bgError /\ ~HasRoom /\ MustWait
  /\ asleep' = TRUE
  /\ UNCHANGED <<disk, phase, memory, versions, bgError, scheduled, outputs, flush, merge,
                 clients, history, bounds>>

(* ... no file for a new log: the write fails, the number is used again.   *)
NoNewLog ==
  /\ AtFront /\ ~bgError /\ ~HasRoom /\ ~MustWait
  /\ Event /\ Leave(1)
  /\ UNCHANGED <<disk, phase, memory, versions, background, snapshot, turn, reading, history>>

(* ... a new log and memtable, the old ones left to the background thread. *)
SwitchMemTable ==
  /\ logs' = With(logs, next, NewLog)
  /\ log' = next /\ next' = next + 1 /\ imm' = log
  /\ mems' = With(mems, next, {})
  /\ scheduled' = (scheduled \/ ToSchedule(bgError, log, current, due))

(* BuildBatchGroup: a sync write does not join the group of one that is    *)
(* not; how many others join depends on their size.                        *)
MayGroupAny(n) == TRUE     \* mutated: a sync write may join any group
MayGroup(n) == \A i \in 2..n : request[queue[i]].sync => Leader.sync
Group(n) == [i \in 1..n |-> request[queue[i]].write]

(* The head of the queue gets room, forms its group and unlocks.           *)
Lead ==
  /\ AtFront /\ ~bgError
  /\ \/ HasRoom /\ UNCHANGED <<logs, memory, next, scheduled>>
     \/ ~HasRoom /\ ~MustWait /\ SwitchMemTable
  /\ \E n \in 1..Len(queue) :
       /\ MayGroup(n)
       /\ turn' = [stage |-> "append", size |-> n, ok |-> TRUE,
                   record |-> [first |-> last + 1, puts |-> Puts(Group(n))]]
  /\ UNCHANGED <<tables, manifest, edit, phase, current, logNumber, last, due, bgError, asleep,
                 outputs, flush, merge, snapshot, queue, request, reading, history, bounds>>

WithoutMutex == <<merges, manifest, edit, phase, log, imm, versions, background, snapshot, queue,
                  request, reading, history>>

(* log_->AddRecord: the record is with the operating system when it        *)
(* returns.  When it fails, the file may hold all of it or half of it.     *)
AddRecord ==
  /\ turn.stage = "append"
  /\ logs' = [logs EXCEPT ![log].records = Append(@, turn.record)]
  /\ turn' = [turn EXCEPT !.stage = IF Leader.sync THEN "sync" ELSE "insert"]
  /\ UNCHANGED <<tables, mems, events, WithoutMutex>>

AddRecordFails ==
  /\ turn.stage = "append" /\ Event
  /\ logs' \in {[logs EXCEPT ![log].records = Append(@, turn.record)],
                [logs EXCEPT ![log].torn = IF @ = 0 THEN Len(logs[log].records) + 1 ELSE @]}
  /\ turn' = [turn EXCEPT !.stage = "finish", !.ok = FALSE]
  /\ UNCHANGED <<tables, mems, WithoutMutex>>

(* logfile_->Sync().                                                       *)
Sync ==
  /\ turn.stage = "sync"
  /\ logs' = [logs EXCEPT ![log].synced = Len(logs[log].records)]
  /\ turn' = [turn EXCEPT !.stage = "insert"]
  /\ UNCHANGED <<tables, mems, events, WithoutMutex>>

SyncFails ==
  /\ turn.stage = "sync" /\ Event
  /\ turn' = [turn EXCEPT !.stage = "syncError", !.ok = FALSE]
  /\ UNCHANGED <<logs, tables, mems, WithoutMutex>>

(* InsertInto(updates, mem_), beside readers.                              *)
Insert ==
  /\ turn.stage = "insert"
  /\ mems' = [mems EXCEPT ![log] = @ \cup EntriesOf(turn.record)]
  /\ turn' = [turn EXCEPT !.stage = "finish"]
  /\ UNCHANGED <<logs, tables, events, WithoutMutex>>

(* Write() has the mutex again: the sequence numbers are used up whatever  *)
(* happened, and the whole group is answered.                              *)
SetLastSequence == last' = last + Len(turn.record.puts)

Applied(v, ids) ==
  [k \in Keys |-> LET w == {i \in ids : k \in batches[i]} IN IF w = {} THEN v[k] ELSE Max(w)]
(* What the answer promises: without a failed append in the log before it, *)
(* a write is safe when the process dies and, if it asked, the machine.    *)
Sure(c) == IF logs[log].torn # 0 THEN {}
           ELSE {request[queue[i]].write : i \in {j \in 1..turn.size :
                   c = "kill" \/ request[queue[j]].sync}}

Finish ==
  /\ turn.stage \in {"finish", "syncError"}
  /\ SetLastSequence /\ Leave(turn.size) /\ turn' = Idle
  /\ bgError' = (bgError \/ turn.stage = "syncError")
  /\ safe' = IF ~turn.ok THEN safe
             ELSE [c \in CrashKinds |-> Applied(safe[c], Sure(c))]
  /\ UNCHANGED <<disk, phase, memory, current, logNumber, next, due, scheduled, asleep,
                 outputs, flush, merge, snapshot, reading, batches, must, bounds>>

-----------------------------------------------------------------------------
(* Snapshots and Get().                                                    *)

GetSnapshot ==
  /\ phase = "up" /\ snapshot = -1 /\ Event
  /\ snapshot' = last
  /\ UNCHANGED <<disk, phase, memory, versions, background, queue, request, turn, reading, history>>

ReleaseSnapshot ==
  /\ phase = "up" /\ snapshot # -1 /\ snapshot' = -1
  /\ UNCHANGED <<disk, phase, memory, versions, background, queue, request, turn, reading,
                 history, bounds>>

(* With the mutex: the number to read at, and the memtables and the        *)
(* version to read from, which stay while they are referred to.            *)
GetBegins(r, k, seq) ==
  /\ phase = "up" /\ reading[r].stage = "none" /\ Event
  /\ seq \in {last} \cup ({snapshot} \ {-1})
  /\ reading' = [reading EXCEPT ![r] =
       [stage |-> "mems", key |-> k, seq |-> seq, mem |-> log, imm |-> imm, version |-> current,
        expected |-> Find(All, k, seq), got |-> -1]]
  /\ UNCHANGED <<disk, phase, memory, versions, background, snapshot, queue, request, turn, history>>

(* mutated: the memtable that is being written out now, not the one at the start. *)
GetInMemsNow(r) ==
  LET get == reading[r]
      first == Visible(mems[get.mem], get.key, get.seq)
      second == Visible(MemEntries(imm), get.key, get.seq)
      found == IF first # {} THEN first ELSE second
  IN /\ get.stage = "mems"
     /\ reading' = [reading EXCEPT ![r] =
          IF found = {} THEN [get EXCEPT !.stage = "tables"]
          ELSE [get EXCEPT !.stage = "done", !.got = Newest(found).write]]
     /\ UNCHANGED <<disk, phase, memory, versions, background, snapshot, queue, request, turn,
                    history, bounds>>

(* Without it: the memtables one after the other, then the tables.         *)
GetInMems(r) ==
  LET get == reading[r]
      first == Visible(mems[get.mem], get.key, get.seq)
      second == Visible(MemEntries(get.imm), get.key, get.seq)
      found == IF first # {} THEN first ELSE second
  IN /\ get.stage = "mems"
     /\ reading' = [reading EXCEPT ![r] =
          IF found = {} THEN [get EXCEPT !.stage = "tables"]
          ELSE [get EXCEPT !.stage = "done", !.got = Newest(found).write]]
     /\ UNCHANGED <<disk, phase, memory, versions, background, snapshot, queue, request, turn,
                    history, bounds>>

GetInTables(r) ==
  LET get == reading[r] IN
  /\ get.stage = "tables"
  /\ reading' = [reading EXCEPT ![r] =
       [get EXCEPT !.stage = "seeked",
                   !.got = Find(TableEntries(get.version.tables), get.key, get.seq)]]
  /\ UNCHANGED <<disk, phase, memory, versions, background, snapshot, queue, request, turn,
                 history, bounds>>

Unused(readers) == [m \in DOMAIN mems \cap KeptMems(log, imm, readers) |-> mems[m]]

(* With it again: UpdateStats may ask for a merge of a table that is read  *)
(* too often, and what is no longer referred to goes.                      *)
GetEnds(r) ==
  /\ reading[r].stage \in {"done", "seeked"}
  /\ \/ UNCHANGED <<due, scheduled>>
     \/ /\ reading[r].stage = "seeked" /\ reading[r].version = current
        /\ due = "none" /\ current.tables # {} /\ merges < MaxMerges
        /\ due' = "worn" /\ scheduled' = (scheduled \/ ToSchedule(bgError, imm, current, due'))
  /\ reading' = [reading EXCEPT ![r] = Idle]
  /\ mems' = Unused(InUse(Readers \ {r}))
  /\ UNCHANGED <<disk, phase, log, imm, current, logNumber, next, last, bgError, asleep, outputs,
                 flush, merge, snapshot, queue, request, turn, history, bounds>>

-----------------------------------------------------------------------------
(* The background thread: BackgroundCall, one at a time.                   *)

Called == phase = "up" /\ scheduled /\ flush.stage = "none" /\ merge.stage = "none"

(* The end of a call, in a step that leaves err, m, v and w.               *)
CallEnds(err, m, v, w) == scheduled' = ToSchedule(err, m, v, w) /\ asleep' = FALSE

NothingToDo ==
  /\ Called /\ (bgError \/ (imm = 0 /\ ~NeedsCompaction(current, due)))
  /\ CallEnds(bgError, imm, current, due)
  /\ UNCHANGED <<disk, phase, memory, versions, bgError, outputs, flush, merge, clients, history, bounds>>

(* CompactMemTable, called by BackgroundCompaction or in the middle of     *)
(* DoCompactionWork: WriteLevel0Table takes a number and unlocks.          *)
FlushBegins ==
  /\ imm # 0 /\ flush.stage = "none"
  /\ (Called /\ ~bgError) \/ merge.stage \in {"reading", "writing"}
  /\ flush' = [stage |-> "building", number |-> next]
  /\ outputs' = outputs \cup {next} /\ next' = next + 1
  /\ UNCHANGED <<disk, phase, memory, current, logNumber, last, due, bgError, scheduled, asleep,
                 merge, clients, history, bounds>>

(* The table is written; then, with the mutex, the edit and LogAndApply.   *)
(* PickLevelForMemTableOutput may put the table below level 0.             *)
FlushBuilt ==
  /\ flush.stage = "building"
  /\ tables' = With(tables, flush.number, mems[imm])
  /\ outputs' = outputs \ {flush.number}
  /\ \E zero \in {{}, {flush.number}} : LogEdit({}, {flush.number}, zero, log)
  /\ flush' = [flush EXCEPT !.stage = "logging"]
  /\ UNCHANGED <<logs, manifest, phase, memory, versions, bgError, scheduled, asleep, merge,
                 clients, history, bounds>>

Installed == Apply(edit, [version |-> current])

FlushLogged ==
  LET new == Installed.version IN
  /\ flush.stage = "logging"
  /\ Logged /\ edit' = NoEdit
  /\ current' = new /\ logNumber' = edit.log /\ Finalize(new)
  /\ imm' = 0 /\ mems' = [m \in DOMAIN mems \cap KeptMems(log, 0, InUse(Readers)) |-> mems[m]]
  /\ Sweep(bgError, outputs, new.tables \cup Held \cup Merging, logNumber', tables)
  /\ flush' = Idle
  /\ IF merge.stage = "none" THEN CallEnds(bgError, 0, new, due')
     ELSE asleep' = FALSE /\ UNCHANGED scheduled
  /\ UNCHANGED <<phase, log, next, last, bgError, outputs, merge, clients, history>>

(* The table or the MANIFEST could not be written.                         *)
FlushFails ==
  /\ flush.stage # "none" /\ Event
  /\ outputs' = outputs \ {flush.number}
  /\ IF flush.stage = "logging" THEN NotLogged ELSE UNCHANGED manifest
  /\ edit' = NoEdit /\ flush' = Idle /\ bgError' = TRUE /\ asleep' = FALSE
  /\ scheduled' = (merge.stage # "none")
  /\ UNCHANGED <<logs, tables, phase, memory, versions, merge, clients, history>>

(* PickCompaction: the level that is fullest, else the table that is worn; *)
(* one that nothing else overlaps only changes level.                      *)
Picks(T) ==
  /\ T # {} /\ T \subseteq current.tables
  /\ due = "full" => T \cap current.zero = {}
  /\ due # "full" /\ Cardinality(current.zero) >= CompactionTrigger => T \cap current.zero # {}

Merges == Called /\ ~bgError /\ imm = 0 /\ NeedsCompaction(current, due)
          /\ merges < MaxMerges /\ merges' = merges + 1 /\ UNCHANGED events

TrivialMove ==
  /\ Merges
  /\ \E n \in current.tables : Picks({n}) /\ LogEdit({n}, {n}, {}, logNumber)
  /\ merge' = [stage |-> "moving", version |-> current, number |-> 0]
  /\ UNCHANGED <<logs, tables, manifest, phase, memory, versions, bgError, scheduled, asleep,
                 outputs, flush, clients, history>>

(* DoCompactionWork: what readers may still ask for, then it unlocks.      *)
SmallestSnapshot == IF snapshot = -1 THEN last ELSE snapshot

MergeBegins ==
  /\ Merges
  /\ \E T \in SUBSET current.tables :
       /\ Picks(T)
       /\ merge' = [stage |-> "reading", version |-> current, inputs |-> T,
                    smallest |-> SmallestSnapshot, number |-> 0]
  /\ UNCHANGED <<disk, phase, memory, versions, bgError, scheduled, asleep, outputs, flush,
                 clients, history>>

(* mutated: the file is not among pending_outputs_. *)
OutputOpensUnlisted ==
  /\ merge.stage = "reading" /\ flush.stage = "none"
  /\ merge' = [merge EXCEPT !.stage = "writing", !.number = next]
  /\ next' = next + 1 /\ tables' = With(tables, next, {})
  /\ UNCHANGED <<logs, manifest, edit, phase, memory, current, logNumber, last, due, bgError,
                 scheduled, asleep, outputs, flush, clients, history, bounds>>

(* OpenCompactionOutputFile: a number, and a file that is not whole yet.   *)
OutputOpens ==
  /\ merge.stage = "reading" /\ flush.stage = "none"
  /\ merge' = [merge EXCEPT !.stage = "writing", !.number = next]
  /\ outputs' = outputs \cup {next} /\ next' = next + 1
  /\ tables' = With(tables, next, {})
  /\ UNCHANGED <<logs, manifest, edit, phase, memory, current, logNumber, last, due, bgError,
                 scheduled, asleep, flush, clients, history, bounds>>

(* Rule (A): an entry goes if a newer one of its key is old enough for     *)
(* every snapshot to see.                                                  *)
Hides(f, e, smallest) == f.key = e.key /\ f.seq > e.seq /\ f.seq <= smallest
Kept(entries, smallest) == {e \in entries : ~\E f \in entries : Hides(f, e, smallest)}

(* The output is whole and synced; then InstallCompactionResults.          *)
OutputWritten ==
  /\ merge.stage = "writing" /\ flush.stage = "none"
  /\ tables' = [n \in DOMAIN tables |->
                  IF n = merge.number THEN Kept(TableEntries(merge.inputs), merge.smallest)
                  ELSE tables[n]]
  /\ LogEdit(merge.inputs, {merge.number}, {}, logNumber)
  /\ merge' = [merge EXCEPT !.stage = "logging"]
  /\ UNCHANGED <<logs, manifest, phase, memory, versions, bgError, scheduled, asleep, outputs,
                 flush, clients, history, bounds>>

(* CleanupCompaction, ReleaseInputs and DeleteObsoleteFiles.               *)
MergeLogged ==
  LET new == Installed.version IN
  /\ merge.stage \in {"logging", "moving"}
  /\ Logged /\ edit' = NoEdit
  /\ current' = new /\ Finalize(new)
  /\ outputs' = outputs \ {merge.number}
  /\ IF merge.stage = "moving" THEN UNCHANGED <<logs, tables>>
     ELSE Sweep(bgError, outputs', new.tables \cup Held, logNumber, tables)
  /\ merge' = Idle
  /\ CallEnds(bgError, imm, new, due')
  /\ UNCHANGED <<phase, memory, logNumber, next, last, bgError, flush, clients, history>>

MergeFails ==
  /\ merge.stage # "none" /\ flush.stage = "none" /\ Event
  /\ IF merge.stage \in {"logging", "moving"} THEN NotLogged ELSE UNCHANGED manifest
  /\ edit' = NoEdit /\ merge' = Idle /\ outputs' = outputs \ {merge.number}
  /\ bgError' = TRUE /\ asleep' = FALSE /\ scheduled' = FALSE
  /\ UNCHANGED <<logs, tables, phase, memory, versions, flush, clients, history>>

-----------------------------------------------------------------------------
(* The process is killed, or the machine loses power and with it what no   *)
(* file was synced of.                                                     *)

Cut(l, n) == [l EXCEPT !.records = SubSeq(@, 1, n), !.torn = IF @ > n THEN 0 ELSE @]
Survives(c, l) == IF c = "kill" THEN {Len(l.records)} ELSE l.synced..Len(l.records)

Crash(c) ==
  /\ Event
  /\ \E m \in OnDisk : manifest' = {m}
  /\ \E keep \in {f \in [DOMAIN logs -> 0..MaxWrites] :
                    \A n \in DOMAIN logs : f[n] \in Survives(c, logs[n])} :
       logs' = [n \in DOMAIN logs |-> Cut(logs[n], keep[n])]
  /\ phase' = "down" /\ edit' = NoEdit
  /\ log' = 0 /\ imm' = 0 /\ mems' = [n \in {} |-> {}]
  /\ current' = Empty /\ logNumber' = 0 /\ next' = 2 /\ last' = 0 /\ due' = "none"
  /\ bgError' = FALSE /\ scheduled' = FALSE /\ asleep' = FALSE /\ outputs' = {}
  /\ flush' = Idle /\ merge' = Idle
  /\ snapshot' = -1 /\ queue' = <<>> /\ turn' = Idle
  /\ request' = [w \in Writers |-> Idle] /\ reading' = [r \in Readers |-> Idle]
  /\ must' = [k \in Keys |-> IF phase \in {"installed", "up"} THEN safe[c][k]
                             ELSE Min({must[k], safe[c][k]})]
  /\ UNCHANGED <<tables, batches, safe>>

Writing == Refuse \/ Sleep \/ NoNewLog \/ Lead \/ AddRecord \/ AddRecordFails \/ Sync
           \/ SyncFails \/ Insert \/ Finish
Background == NothingToDo \/ FlushBegins \/ FlushBuilt \/ FlushLogged \/ FlushFails
              \/ TrivialMove \/ MergeBegins \/ OutputOpens \/ OutputWritten
              \/ MergeLogged \/ MergeFails
Getting(r) == GetInMems(r) \/ GetInTables(r) \/ GetEnds(r)

Next ==
  \/ Recover \/ Install \/ Ready
  \/ \E w \in Writers, b \in Batches : Ask(w, b)
  \/ Writing \/ Background
  \/ GetSnapshot \/ ReleaseSnapshot
  \/ \E r \in Readers, k \in Keys, seq \in 0..last : GetBegins(r, k, seq)
  \/ \E r \in Readers : Getting(r)
  \/ \E c \in CrashKinds : Crash(c)

Spec == Init /\ [][Next]_vars

Opening == Recover \/ Install \/ Ready
Fair == WF_vars(Opening) /\ WF_vars(Writing) /\ WF_vars(Background)
FairSpec == Spec /\ Fair

-----------------------------------------------------------------------------
(* Every entry is a write of a key; level 0 is part of its version; the    *)
(* memtables in use have their logs.                                       *)
Entry == [key : Keys, write : 1..MaxWrites, seq : Nat \ {0}]

TypeOK ==
  /\ \A n \in DOMAIN logs : logs[n].synced \in 0..Len(logs[n].records)
  /\ \A n \in DOMAIN tables : tables[n] \subseteq Entry
  /\ \A n \in DOMAIN mems : mems[n] \subseteq Entry
  /\ manifest # {} /\ phase \in {"down", "recovered", "installed", "up"}
  /\ current.zero \subseteq current.tables
  /\ phase = "up" => {log} \cup ({imm} \ {0}) \subseteq DOMAIN mems \cap DOMAIN logs

(* DeleteObsoleteFiles never takes a table that a version in use, a merge  *)
(* in progress, or anything the MANIFEST may turn out to say after a crash *)
(* still names: not beside a reader without the mutex, not while a merge   *)
(* has a memtable written out in its middle, not after a failed edit.      *)
LiveFilesKept ==
  (UNION {m.version.tables : m \in OnDisk}) \cup current.tables \cup Held \cup Merging
    \subseteq DOMAIN tables

(* A Get() answers what the database held at its sequence number when it   *)
(* began, whatever was written, flushed, merged or deleted while it looked *)
(* at the memtables and tables without the mutex.                          *)
ReadsRight == \A r \in InUse(Readers) : reading[r].got \in {-1, reading[r].expected}

(* The engine keeps the promises of Store: groups of writes become visible *)
(* whole and in order, flushes and merges change no view and no snapshot,  *)
(* and after a crash nothing that was promised is missing.                 *)
Opened == phase \in {"installed", "up"}
Promise == INSTANCE Store WITH
  up <- Opened,
  view <- IF Opened THEN ViewAt(last) ELSE Nothing,
  pinned <- IF snapshot = -1 THEN NoView ELSE ViewAt(snapshot)
ImplementsStore == Promise!Spec

(* Every Write() returns, through full memtables, too many level-0 tables, *)
(* failures of the background thread and crashes (which end it).           *)
EveryWriteAnswered ==
  \A w \in Writers : request[w].stage = "waiting" ~> request[w].stage = "none"
=============================================================================
