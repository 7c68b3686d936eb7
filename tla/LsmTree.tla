------------------------------- MODULE LsmTree -------------------------------
(***************************************************************************)
(* The Rust LSM engine (engine/src/db.rs with memtable.rs, wal.rs,         *)
(* sstable.rs and manifest.rs): writers, readers and the background thread *)
(* that flushes memtables and compacts levels, over kills and restarts.    *)
(*                                                                         *)
(* Data.  A memtable, an SSTable and a log record are functions from some  *)
(* keys to entries; keys are numbers, compared like the code's byte        *)
(* strings.  An entry is the index in `hist` of the write it comes from    *)
(* and its kind: "put", "ttl" (a put that expires when the clock reaches   *)
(* 1) or "del".  Sizes are counted in entries.  An SSTable is written,     *)
(* fsynced and closed before anything names it, so it appears whole.       *)
(*                                                                         *)
(* The logs' files are driven here through whole calls of wal.rs, but for  *)
(* Wal::create, which a kill may cut short; inside they are the two-lock   *)
(* group commit that WalLog takes apart in its Go form.  Readers open a    *)
(* file on every lookup: the cache of open tables only spares them that.   *)
(***************************************************************************)
EXTENDS Integers, Sequences, FiniteSets, FiniteSetsExt, Functions

CONSTANTS
    Keys,             \* a finite set of naturals
    Batches,          \* the batches written: functions from keys to kinds
    Writers, Readers,
    Policy,           \* "always", "everysec" or "no"
    Levels,           \* MAX_LEVELS
    MemtableSize,     \* memtable_bytes
    L0Trigger,        \* l0_compaction_trigger
    LevelSize,        \* level_base_bytes, for every level
    MaxFile,          \* max_file_bytes
    Absent,
    MaxWrites,        \* bound: batches written
    MaxWipes,         \* bound: flush_all calls
    MaxReads,         \* bound: reads begun
    MaxNow,           \* bound: 1 lets the clock pass the expiry, 0 does not
    MaxCrashes,       \* bound: kills
    MaxFailures       \* bound: manifest writes that fail

Kinds == {"put", "ttl", "del"}

ASSUME LsmAssumption ==
    /\ Keys \subseteq Nat /\ IsFiniteSet(Keys)
    /\ \A b \in Batches : DOMAIN b # {} /\ DOMAIN b \subseteq Keys /\ b \in [DOMAIN b -> Kinds]
    /\ Absent \notin [at : Nat, kind : Kinds]
    /\ Policy \in {"always", "everysec", "no"}
    /\ Levels \in Nat \ {0, 1} /\ MemtableSize \in Nat \ {0} /\ MaxFile \in Nat \ {0}

VARIABLES
    mem,        \* MemSet.active
    frozen,     \* MemSet.immutable, newest first: the table and its log's number
    log,        \* the number of the log in use
    logs,       \* log files: start sequence, records, how many written, how many synced,
                \* and whether the header has been written
    man,        \* the manifest in memory
    disk,       \* the MANIFEST file
    files,      \* the .sst files
    version,    \* the installed version: an identity and the levels' file numbers
    pend,       \* pending_deletes
    bg,         \* the background thread
    writer, reader,
    now, fatal, mode,
    hist,       \* history: the batches written, in order
    acked,      \* history: the indices in hist of the writes answered
    wipes, reads, crashes, failures

treeVars == <<mem, frozen, log, logs>>
fileVars == <<man, disk, files, version, pend>>
boundVars == <<wipes, reads, crashes, failures>>
vars == <<treeVars, fileVars, bg, writer, reader, now, fatal, mode, hist, acked, boundVars>>

-----------------------------------------------------------------------------
(* Entries, tables and versions. *)

EmptyTable == <<>>

(* f where it is defined, g elsewhere. *)
Over(f, g) == [x \in DOMAIN f \cup DOMAIN g |-> IF x \in DOMAIN f THEN f[x] ELSE g[x]]
(* f with y under the new name x. *)
With(f, x, y) == [z \in DOMAIN f \cup {x} |-> IF z = x THEN y ELSE f[z]]

(* Record::expired and Entry::live. *)
Expired(e, t) == e.kind = "ttl" /\ t >= 1
Live(e, t) == e.kind # "del" /\ ~Expired(e, t)

(* What a lookup makes of the entry it finds: a tombstone or an expired    *)
(* record is an answer too.                                                *)
Answered(e, t) == IF e # Absent /\ Live(e, t) THEN e ELSE Absent

(* Of tables in order of age, the entry for k in the first that has one.   *)
FirstEntry(tables, k) ==
    LET has == {i \in 1 .. Len(tables) : k \in DOMAIN tables[i]}
    IN IF has = {} THEN Absent ELSE tables[Min(has)][k]

MinKey(n) == Min(DOMAIN files[n])
MaxKey(n) == Max(DOMAIN files[n])
MayContain(n, k) == MinKey(n) <= k /\ k <= MaxKey(n)
(* Variant of Overlaps: the ends of the ranges do not count. *)
OverlapsStrictly(n, from, to) == MinKey(n) < to /\ from < MaxKey(n)
Overlaps(n, from, to) == MinKey(n) <= to /\ from <= MaxKey(n)
FilesOf(levels) == UNION {levels[l] : l \in 0 .. Levels - 1}

(* Version::find_in_level: of the files that do not end before k, the      *)
(* first, if it covers k.                                                  *)
FindInLevel(levels, l, k) ==
    LET after == {n \in levels[l] : MaxKey(n) >= k}
    IN {n \in after : MayContain(n, k) /\ \A m \in after : MaxKey(n) <= MaxKey(m)}

(* lookup_file over the levels: level 0 newest first, which sort_level     *)
(* makes the order of the file numbers, then at most one file per level.   *)
(* Key ranges and bloom filters only spare the reading of a file.          *)
FileEntry(levels, k) ==
    LET top == {n \in levels[0] : k \in DOMAIN files[n]}
        deep == {l \in 1 .. Levels - 1 :
                    \E n \in FindInLevel(levels, l, k) : k \in DOMAIN files[n]}
    IN IF top # {} THEN files[Max(top)][k]
       ELSE IF deep = {} THEN Absent
       ELSE files[CHOOSE n \in FindInLevel(levels, Min(deep), k) : TRUE][k]

MemTables == <<mem>> \o [i \in 1 .. Len(frozen) |-> frozen[i].table]

Entry(k) ==
    LET e == FirstEntry(MemTables, k) IN IF e # Absent THEN e ELSE FileEntry(version.levels, k)

(* What a reader finds if nothing moves while it looks. *)
View(t) == [k \in Keys |-> Answered(Entry(k), t)]
Visible == View(now)

(* The map after the first n batches of the history. *)
After(n) ==
    [k \in Keys |->
        LET I == {i \in 1 .. n : k \in DOMAIN hist[i]}
        IN IF I = {} THEN Absent
           ELSE LET e == [at |-> Max(I), kind |-> hist[Max(I)][k]]
                IN IF Live(e, now) THEN e ELSE Absent]

-----------------------------------------------------------------------------
NoLevels == [l \in 0 .. Levels - 1 |-> {}]
(* Wal::create makes the file, then writes its header; a log is used only  *)
(* after that.                                                             *)
LogFile(start) == [start |-> start, recs |-> <<>>, written |-> 0, synced |-> 0, header |-> FALSE]
NewLog(start) == [LogFile(start) EXCEPT !.header = TRUE]
IdleBg == [at |-> "idle"]
IdleWriter == [at |-> "idle", seq |-> 0, index |-> 0, wipe |-> -1]
IdleReader == [at |-> "idle", keys |-> {}, seen |-> {}]

(* Db::open on an empty directory. *)
Init ==
    /\ mem = EmptyTable /\ frozen = <<>> /\ log = 1 /\ logs = With(<<>>, 1, NewLog(0))
    /\ man = [next |-> 2, log |-> 1, seq |-> 0, levels |-> NoLevels] /\ disk = man
    /\ files = <<>> /\ version = [id |-> 0, levels |-> NoLevels] /\ pend = <<>>
    /\ bg = IdleBg
    /\ writer = [w \in Writers |-> IdleWriter] /\ reader = [r \in Readers |-> IdleReader]
    /\ now = 0 /\ fatal = FALSE /\ mode = "up"
    /\ hist = <<>> /\ acked = {} /\ wipes = 0 /\ reads = 0 /\ crashes = 0 /\ failures = 0

-----------------------------------------------------------------------------
(* Writers: write(), in the steps between which other threads run.         *)

LastSeq(l) == l.start + Len(l.recs)
Flushed(l) == [l EXCEPT !.written = Len(l.recs)]
Synced(l) == [l EXCEPT !.written = Len(l.recs), !.synced = Len(l.recs)]

(* What a reader may see while its call lasts: the records of some instant *)
(* by a clock between the one the call was given and that instant's.       *)
Observe ==
    reader' = [r \in Readers |->
        IF reader[r].at \in {"version", "files"}
        THEN [reader[r] EXCEPT !.seen =
                @ \cup {Restrict(View(t)', reader[r].keys) : t \in reader[r].time .. now'}]
        ELSE reader[r]]

(* force_freeze keeps the memtable lock and the log's while it makes the   *)
(* next log: nobody else reads or writes a memtable or the log meanwhile.  *)
Unlocked == \A w \in Writers : writer[w].at # "create"

(* Room within the bound for one more batch, those on their way counted. *)
Room == Len(hist) + Cardinality({w \in Writers : writer[w].at \in {"wipe", "insert"}}) < MaxWrites

(* check_healthy, then await_space, which delays a writer for ten seconds  *)
(* at most and lets it through: the engine may fail before the insert.     *)
Write(w, batch) ==
    /\ mode = "up" /\ ~fatal /\ writer[w].at = "idle" /\ Room
    /\ writer' = [writer EXCEPT ![w] = [at |-> "insert", batch |-> batch, wipe |-> -1]]
    /\ UNCHANGED <<treeVars, fileVars, bg, reader, now, fatal, mode, hist, acked, boundVars>>

(* Under the memtable lock: append to the log, then insert. *)
LogAndInsert(w) ==
    LET batch == writer[w].batch
        entries == [k \in DOMAIN batch |-> [at |-> Len(hist) + 1, kind |-> batch[k]]]
    IN /\ writer[w].at = "insert" /\ Unlocked
       /\ logs' = [logs EXCEPT ![log].recs = Append(@, entries)]
       /\ mem' = Over(entries, mem)
       /\ hist' = Append(hist, batch)
       /\ writer' = [writer EXCEPT ![w] =
             [at |-> "commit", seq |-> LastSeq(logs[log]) + 1, index |-> Len(hist) + 1,
              wipe |-> writer[w].wipe]]
       /\ UNCHANGED <<frozen, log, fileVars, bg, now, fatal, mode, acked, boundVars>>
       /\ Observe

(* Variant of WipeScan: only the memtables are scanned. *)
WipeScanMemory(w) ==
    LET found == {k \in Keys : Answered(FirstEntry(MemTables, k), 0) # Absent}
    IN /\ mode = "up" /\ Unlocked /\ writer[w].at = "idle"
       /\ Room /\ wipes < MaxWipes /\ wipes' = wipes + 1
       /\ found # {}
       /\ writer' = [writer EXCEPT ![w] = [at |-> "wipe", keys |-> found, wipe |-> Len(hist)]]
       /\ UNCHANGED <<treeVars, fileVars, bg, reader, now, fatal, mode, hist, acked,
                      reads, crashes, failures>>

(* flush_all: a scan at a clock where nothing has expired, ... *)
WipeScan(w) ==
    LET found == {k \in Keys : Answered(Entry(k), 0) # Absent}
    IN /\ mode = "up" /\ Unlocked /\ writer[w].at = "idle"
       /\ Room /\ wipes < MaxWipes /\ wipes' = wipes + 1
       /\ found # {}
       /\ writer' = [writer EXCEPT ![w] = [at |-> "wipe", keys |-> found, wipe |-> Len(hist)]]
       /\ UNCHANGED <<treeVars, fileVars, bg, reader, now, fatal, mode, hist, acked,
                      reads, crashes, failures>>

(* ... then the write of a batch with a tombstone for every key found, ... *)
WipeWrite(w) ==
    /\ ~fatal /\ writer[w].at = "wipe"
    /\ writer' = [writer EXCEPT ![w] = [at |-> "insert", wipe |-> writer[w].wipe,
                                        batch |-> [k \in writer[w].keys |-> "del"]]]
    /\ UNCHANGED <<treeVars, fileVars, bg, reader, now, fatal, mode, hist, acked, boundVars>>

(* ... unless the engine has failed and check_healthy refuses it. *)
WipeRefused(w) ==
    /\ fatal /\ writer[w].at = "wipe"
    /\ writer' = [writer EXCEPT ![w] = IdleWriter]
    /\ UNCHANGED <<treeVars, fileVars, bg, reader, now, fatal, mode, hist, acked, boundVars>>

(* Wal::commit, on the log in use by now: fsync, flush or nothing. *)
Commit(w) ==
    LET l == logs[log] IN
    /\ writer[w].at = "commit" /\ Unlocked
    /\ logs' = [logs EXCEPT ![log] =
          CASE Policy = "always" /\ l.start + l.synced < writer[w].seq -> Synced(l)
            [] Policy = "everysec" -> Flushed(l)
            [] OTHER -> l]
    /\ writer' = [writer EXCEPT ![w].at = "freeze"]
    /\ UNCHANGED <<mem, frozen, log, fileVars, bg, reader, now, fatal, mode, hist, acked, boundVars>>

(* force_freeze, with both locks held: the old log is flushed and the file *)
(* of the next one created, ...                                            *)
CreateLog ==
    /\ logs' = With([logs EXCEPT ![log] = Flushed(@)], man.next, LogFile(LastSeq(logs[log])))
    /\ man' = [man EXCEPT !.next = @ + 1]
    /\ UNCHANGED <<mem, frozen, log>>

(* Variant of Freeze: the newest of the frozen memtables goes last. *)
FreezeBehind(n) ==
    /\ logs' = [logs EXCEPT ![n].header = TRUE] /\ log' = n
    /\ frozen' = frozen \o <<[log |-> log, table |-> mem]>>
    /\ mem' = EmptyTable

(* ... then its header is written, and log and memtable change together. *)
Freeze(n) ==
    /\ logs' = [logs EXCEPT ![n].header = TRUE] /\ log' = n
    /\ frozen' = <<[log |-> log, table |-> mem]>> \o frozen
    /\ mem' = EmptyTable

(* maybe_freeze lets the lock go between the look at the size ... *)
Measure(w) ==
    /\ writer[w].at = "freeze" /\ Unlocked /\ Cardinality(DOMAIN mem) >= MemtableSize
    /\ writer' = [writer EXCEPT ![w].at = "full"]
    /\ UNCHANGED <<treeVars, fileVars, bg, reader, now, fatal, mode, hist, acked, boundVars>>

(* ... and the freeze, when another writer may have done it. *)
MakeLog(w) ==
    /\ writer[w].at = "full" /\ Unlocked /\ mem # EmptyTable /\ CreateLog
    /\ writer' = [writer EXCEPT ![w] = [at |-> "create", index |-> writer[w].index,
                                        wipe |-> writer[w].wipe, new |-> man.next]]
    /\ UNCHANGED <<disk, files, version, pend, bg, reader, now, fatal, mode, hist, acked, boundVars>>

(* The client is answered. *)
Answer(w) ==
    /\ \/ writer[w].at = "create" /\ Freeze(writer[w].new)
       \/ writer[w].at = "full" /\ Unlocked /\ mem = EmptyTable /\ UNCHANGED treeVars
       \/ /\ writer[w].at = "freeze" /\ Unlocked /\ Cardinality(DOMAIN mem) < MemtableSize
          /\ UNCHANGED treeVars
    /\ acked' = acked \cup {writer[w].index}
    /\ writer' = [writer EXCEPT ![w] = IdleWriter]
    /\ UNCHANGED <<fileVars, bg, reader, now, fatal, mode, hist, boundVars>>

-----------------------------------------------------------------------------
(* Readers.  get looks at the memtables under their lock, lets it go, and  *)
(* clones the version; scan clones the version under both locks, and of    *)
(* the entries it takes from files it does not ask whether they expired.   *)

Begin(r, rec) ==
    /\ mode = "up" /\ reader[r].at = "idle" /\ reads < MaxReads
    /\ reader' = [reader EXCEPT ![r] = rec] /\ reads' = reads + 1
    /\ UNCHANGED <<treeVars, fileVars, bg, writer, now, fatal, mode, hist, acked,
                   wipes, crashes, failures>>

(* Variant of GetMem: the frozen memtables are not consulted. *)
GetActive(r, k) ==
    /\ Unlocked /\ k \notin DOMAIN mem
    /\ Begin(r, [at |-> "version", keys |-> {k}, seen |-> {Restrict(Visible, {k})},
                 tables |-> <<>>, time |-> now, fileTime |-> now])

(* A key the memtables know is answered from them at once. *)
GetMem(r, k) ==
    /\ Unlocked /\ FirstEntry(MemTables, k) = Absent
    /\ Begin(r, [at |-> "version", keys |-> {k}, seen |-> {Restrict(Visible, {k})},
                 tables |-> <<>>, time |-> now, fileTime |-> now])

GetVersion(r) ==
    /\ reader[r].at = "version"
    /\ reader' = [reader EXCEPT ![r] = 
          [at |-> "files", keys |-> reader[r].keys, seen |-> reader[r].seen, version |-> version,
           tables |-> reader[r].tables, time |-> reader[r].time, fileTime |-> reader[r].fileTime]]
    /\ UNCHANGED <<treeVars, fileVars, bg, writer, now, fatal, mode, hist, acked, boundVars>>

ScanBegin(r) ==
    /\ Unlocked
    /\ Begin(r, [at |-> "files", keys |-> Keys, seen |-> {Visible}, version |-> version,
                 tables |-> MemTables, time |-> now, fileTime |-> 0])

(* What the lookups in the memtables and, with no lock held, in the files  *)
(* of the version the call holds come to.                                  *)
ReadResult(r) ==
    LET rd == reader[r]
        found(k) ==
            LET e == FirstEntry(rd.tables, k)
            IN IF e # Absent THEN Answered(e, rd.time)
               ELSE Answered(FileEntry(rd.version.levels, k), rd.fileTime)
    IN [k \in rd.keys |-> found(k)]

(* ReadResult is returned, and the version let go. *)
ReadFiles(r) ==
    /\ reader[r].at = "files"
    /\ reader' = [reader EXCEPT ![r] = IdleReader]
    /\ UNCHANGED <<treeVars, fileVars, bg, writer, now, fatal, mode, hist, acked, boundVars>>

-----------------------------------------------------------------------------
(* The background thread.  The compaction mutex makes flushes and          *)
(* compactions, the ones asked for by RPC included, one at a time.         *)

BgStep == UNCHANGED <<writer, reader, now, mode, hist, acked, wipes, reads, crashes>>

Oldest(s) == s[Len(s)]

(* flush_one: the oldest frozen memtable becomes a file. *)
FlushBuild ==
    /\ mode = "up" /\ bg.at = "idle" /\ Unlocked /\ frozen # <<>>
    /\ files' = With(files, man.next, Oldest(frozen).table)
    /\ man' = [man EXCEPT !.next = @ + 1]
    /\ bg' = [at |-> "store", job |-> "flush", log |-> Oldest(frozen).log,
              retired |-> {}, seq |-> Cardinality(DOMAIN Oldest(frozen).table),
              levels |-> [version.levels EXCEPT ![0] = @ \cup {man.next}]]
    /\ UNCHANGED <<treeVars, disk, version, pend, fatal, failures>> /\ BgStep

NothingToFlush ==
    /\ mode = "up" /\ bg.at = "idle" /\ Unlocked /\ frozen = <<>>
    /\ bg' = [at |-> "compact"]
    /\ UNCHANGED <<treeVars, fileVars, fatal, failures>> /\ BgStep

(* pick_compaction: the levels over their budget (the score chooses among  *)
(* them); of level 0 every file, of a deeper level one (compact_pointer    *)
(* rotates through them).                                                  *)
Entries(l) == MapThenSumSet(LAMBDA n : Cardinality(DOMAIN files[n]), version.levels[l])
Due(l) ==
    IF l = 0 THEN Cardinality(version.levels[0]) >= L0Trigger
    ELSE Entries(l) > LevelSize

(* All of level 0, one file of a deeper level. *)
Inputs(l) ==
    IF l = 0 THEN {version.levels[0]} ELSE {{n} : n \in version.levels[l]}

(* key_exists_below, which bottom_most only short-cuts. *)
ExistsBelow(l, k) ==
    \E m \in l + 1 .. Levels - 1 : \E n \in version.levels[m] : MayContain(n, k)

(* Variant of Obsolete: a tombstone goes although it still hides a record. *)
ObsoleteAnywhere(e, l, k) == ~Live(e, now)

(* What the merge keeps of the newest entry of each key. *)
Obsolete(e, l, k) == ~Live(e, now) /\ ~ExistsBelow(l, k)

(* run_compaction: merge, newest source first, and cut into files. *)
CompactBuild(l, inputs) ==
    LET from == Min({MinKey(n) : n \in inputs})
        to == Max({MaxKey(n) : n \in inputs})
        below == {n \in version.levels[l + 1] : Overlaps(n, from, to)}
        holders(S, k) == {n \in S : k \in DOMAIN files[n]}
        merged == [k \in UNION {DOMAIN files[n] : n \in inputs \cup below} |->
                      files[Max(IF holders(inputs, k) # {} THEN holders(inputs, k)
                                ELSE holders(below, k))][k]]
        keep == {k \in DOMAIN merged : ~Obsolete(merged[k], l + 1, k)}
        file(k) == man.next + Cardinality({j \in keep : j < k}) \div MaxFile
        new == {file(k) : k \in keep}
    IN /\ mode = "up" /\ bg.at = "compact" /\ inputs # {}
       /\ files' = Over(files, [n \in new |-> Restrict(merged, {k \in keep : file(k) = n})])
       /\ man' = [man EXCEPT !.next = Max({@} \cup {n + 1 : n \in new})]
       /\ bg' = [at |-> "store", job |-> "compact", retired |-> inputs \cup below, seq |-> 0,
                 levels |-> [version.levels EXCEPT ![l] = @ \ inputs,
                                                   ![l + 1] = (@ \ below) \cup new]]
       /\ UNCHANGED <<treeVars, disk, version, pend, fatal, failures>> /\ BgStep

Compact == \E l \in 0 .. Levels - 2 : Due(l) /\ \E I \in Inputs(l) : CompactBuild(l, I)

(* Manifest::store of the new layout. *)
StoreLevels ==
    /\ bg.at = "store"
    /\ man' = [man EXCEPT !.levels = bg.levels, !.seq = Max({@, bg.seq})]
    /\ disk' = man'
    /\ bg' = [bg EXCEPT !.at = "install"]
    /\ UNCHANGED <<treeVars, files, version, pend, fatal, failures>> /\ BgStep

(* A store that fails poisons the engine, whether or not the rename made   *)
(* it to the directory.                                                    *)
StoreFails ==
    /\ bg.at \in {"store", "storelog"} /\ failures < MaxFailures
    /\ man' = IF bg.at = "store" THEN [man EXCEPT !.levels = bg.levels, !.seq = Max({@, bg.seq})]
              ELSE [man EXCEPT !.log = bg.log]
    /\ disk' \in {disk, man'}
    /\ bg' = IdleBg /\ fatal' = TRUE /\ failures' = failures + 1
    /\ UNCHANGED <<treeVars, files, version, pend>> /\ BgStep

(* The version is swapped, and the old one parked with what it retires. *)
Install ==
    /\ bg.at = "install"
    /\ version' = [id |-> version.id + 1, levels |-> bg.levels]
    /\ pend' = Append(pend, [id |-> version.id, files |-> bg.retired])
    /\ bg' = IF bg.job = "flush" THEN [bg EXCEPT !.at = "pop"]
             ELSE [at |-> "sweep", holds |-> version.id]
    /\ UNCHANGED <<treeVars, man, disk, files, fatal, failures>> /\ BgStep

(* Variant of Pop: the logs of the memtables still frozen are not counted. *)
PopForgetsFrozen ==
    /\ bg.at = "pop" /\ Unlocked
    /\ frozen' = SubSeq(frozen, 1, Len(frozen) - 1)
    /\ bg' = [at |-> "storelog", old |-> bg.log, log |-> log]
    /\ UNCHANGED <<mem, log, logs, fileVars, fatal, failures>> /\ BgStep

(* retire_frozen. *)
Pop ==
    /\ bg.at = "pop" /\ Unlocked
    /\ frozen' = SubSeq(frozen, 1, Len(frozen) - 1)
    /\ bg' = [at |-> "storelog", old |-> bg.log,
              log |-> IF Len(frozen) = 1 THEN log ELSE frozen[Len(frozen) - 1].log]
    /\ UNCHANGED <<mem, log, logs, fileVars, fatal, failures>> /\ BgStep

StoreLog ==
    /\ bg.at = "storelog"
    /\ man' = [man EXCEPT !.log = bg.log]
    /\ disk' = IF man.log = bg.log THEN disk ELSE man'
    /\ bg' = [bg EXCEPT !.at = "removelogs"]
    /\ UNCHANGED <<treeVars, files, version, pend, fatal, failures>> /\ BgStep

(* Variant of RemoveLogs: the log in use goes as well. *)
RemoveLogsInUse ==
    /\ bg.at = "removelogs"
    /\ logs' = [n \in {n \in DOMAIN logs : n > bg.log} |-> logs[n]]
    /\ bg' = IdleBg
    /\ UNCHANGED <<mem, frozen, log, fileVars, fatal, failures>> /\ BgStep

RemoveLogs ==
    /\ bg.at = "removelogs"
    /\ logs' = [n \in {n \in DOMAIN logs : ~(n < bg.log /\ n <= bg.old)} |-> logs[n]]
    /\ bg' = IdleBg
    /\ UNCHANGED <<mem, frozen, log, fileVars, fatal, failures>> /\ BgStep

(* sweep_pending_deletes: up to the first version somebody still holds; a  *)
(* compaction holds the one it has just superseded.                        *)
Held(id) ==
    \/ bg.at = "sweep" /\ bg.holds = id
    \/ \E r \in Readers : reader[r].at = "files" /\ reader[r].version.id = id

Swept(S) ==
    /\ files' = [n \in DOMAIN files \ S |-> files[n]]
    /\ UNCHANGED <<treeVars, man, disk, version, fatal, failures>> /\ BgStep

(* Variant of Releasable: the older versions are not asked. *)
ReleasableByNewest == {n \in 1 .. Len(pend) : ~Held(pend[n].id)}

(* Variant of Releasable: the newest group of files is never released. *)
ReleasableButLast == {n \in 1 .. Len(pend) - 1 : \A i \in 1 .. n : ~Held(pend[i].id)}

Releasable == {n \in 1 .. Len(pend) : \A i \in 1 .. n : ~Held(pend[i].id)}

Sweep ==
    LET n == Max(Releasable \cup {0}) IN
    /\ \/ bg.at = "sweep"
       \/ bg.at = "compact" /\ \A l \in 0 .. Levels - 2 : ~Due(l)
    /\ pend' = SubSeq(pend, n + 1, Len(pend))
    /\ bg' = IdleBg
    /\ Swept(UNION {pend[i].files : i \in 1 .. n})

(* Wal::drain, whenever an append overflows the buffer, and                *)
(* periodic_log_maintenance in the idle part of the loop.                  *)
SyncLog ==
    /\ mode = "up" /\ Unlocked
    /\ \/ logs' = [logs EXCEPT ![log] = Flushed(@)]
       \/ /\ Policy = "everysec" /\ bg.at = "compact"
          /\ logs' = [logs EXCEPT ![log] = Synced(@)]
    /\ UNCHANGED <<mem, frozen, log, fileVars, bg, fatal, failures>> /\ BgStep

Tick ==
    /\ now < MaxNow /\ now' = now + 1
    /\ UNCHANGED <<treeVars, fileVars, bg, writer, fatal, mode, hist, acked, boundVars>>
    /\ Observe

-----------------------------------------------------------------------------
(* A kill, and Db::open on what it left: replay, Wal::create, manifest,    *)
(* the removal of orphans and of the logs replayed, and maybe_freeze.      *)

Kill ==
    /\ mode \notin {"down", "refused"} /\ crashes < MaxCrashes /\ crashes' = crashes + 1
    /\ mode' = "down"
    /\ mem' = EmptyTable /\ frozen' = <<>>
    /\ logs' = [n \in DOMAIN logs |->
                  [logs[n] EXCEPT !.recs = SubSeq(@, 1, logs[n].written)]]
    /\ pend' = <<>> /\ bg' = IdleBg
    /\ writer' = [w \in Writers |-> IdleWriter] /\ reader' = [r \in Readers |-> IdleReader]
    /\ fatal' = FALSE
    /\ UNCHANGED <<log, man, disk, files, version, now, hist, acked, wipes, reads, failures>>

(* wal::replay fails on a log that is too short for its header, and        *)
(* Db::open with it.  The other damage it reports (a foreign header, a     *)
(* sequence number out of order) is no kill's doing.                       *)
Openable(m, ls) == \A n \in DOMAIN ls : n >= m.log => ls[n].header

(* The logs are replayed in the order of their numbers, each from its      *)
(* start: the memtable ends with the last entry of every key.              *)
Replayed(m, ls) ==
    LET with(n, k) == {i \in 1 .. ls[n].written : k \in DOMAIN ls[n].recs[i]}
        in(k) == {n \in DOMAIN ls : n >= m.log /\ with(n, k) # {}}
        last(k) == LET n == Max(in(k)) IN ls[n].recs[Max(with(n, k))]
    IN [k \in {k \in Keys : in(k) # {}} |-> last(k)[k]]

ReplayedSeq(m, ls) ==
    Max({m.seq} \cup {ls[n].start + ls[n].written : n \in {n \in DOMAIN ls : n >= m.log /\ ls[n].written > 0}})

(* What the database holds after a kill and a restart. *)
Recovered(m, ls) ==
    LET table == Replayed(m, ls)
    IN [k \in Keys |-> Answered(IF k \in DOMAIN table THEN table[k] ELSE FileEntry(m.levels, k), now)]

OpenRefused ==
    /\ mode = "down" /\ ~Openable(disk, logs)
    /\ mode' = "refused"
    /\ UNCHANGED <<treeVars, fileVars, bg, writer, reader, now, fatal, hist, acked, boundVars>>

(* Wal::create truncates a log of the same number. *)
OpenReplay ==
    /\ mode = "down" /\ Openable(disk, logs)
    /\ mem' = Replayed(disk, logs)
    /\ log' = disk.next
    /\ logs' = With(logs, disk.next, LogFile(ReplayedSeq(disk, logs)))
    /\ man' = [disk EXCEPT !.next = @ + 1, !.log = disk.next, !.seq = ReplayedSeq(disk, logs)]
    /\ version' = [id |-> version.id + 1, levels |-> disk.levels]
    /\ hist' = SubSeq(hist, 1, Max({0} \cup {n \in 0 .. Len(hist) : After(n) = Recovered(disk, logs)}))
    /\ acked' = acked \cap (1 .. Len(hist'))
    /\ mode' = "replayed" /\ bg' = [at |-> "open", from |-> disk.log]
    /\ UNCHANGED <<frozen, disk, files, pend, writer, reader, now, fatal, boundVars>>

OpenHeader ==
    /\ mode = "replayed" /\ mode' = "created"
    /\ logs' = [logs EXCEPT ![log].header = TRUE]
    /\ UNCHANGED <<mem, frozen, log, fileVars, bg, writer, reader, now, fatal, hist, acked, boundVars>>

OpenStore ==
    /\ mode = "created" /\ mode' = "stored"
    /\ disk' = man
    /\ UNCHANGED <<treeVars, man, files, version, pend, bg, writer, reader, now, fatal,
                   hist, acked, boundVars>>

(* The logs replayed and those above the new one go; what a kill between   *)
(* StoreLog and RemoveLogs left below them stays.                          *)
OpenClean ==
    /\ mode = "stored"
    /\ mode' = IF Cardinality(DOMAIN mem) >= MemtableSize THEN "full" ELSE "up"
    /\ bg' = IdleBg
    /\ files' = Restrict(files, FilesOf(disk.levels))
    /\ logs' = [n \in {n \in DOMAIN logs : n = log \/ n < bg.from} |-> logs[n]]
    /\ UNCHANGED <<mem, frozen, log, man, disk, version, pend, writer, reader, now, fatal,
                   hist, acked, boundVars>>

(* maybe_freeze, before anything is served. *)
OpenMakeLog ==
    /\ mode = "full" /\ mode' = "freezing"
    /\ CreateLog /\ bg' = [at |-> "open", new |-> man.next]
    /\ UNCHANGED <<disk, files, version, pend, writer, reader, now, fatal, hist, acked, boundVars>>

OpenFreeze ==
    /\ mode = "freezing" /\ mode' = "up"
    /\ Freeze(bg.new) /\ bg' = IdleBg
    /\ UNCHANGED <<fileVars, writer, reader, now, fatal, hist, acked, boundVars>>

-----------------------------------------------------------------------------
WriterStep(w) ==
    \/ WipeWrite(w) \/ WipeRefused(w) \/ LogAndInsert(w) \/ Commit(w)
    \/ Measure(w) \/ MakeLog(w) \/ Answer(w)
ReaderStep(r) == GetVersion(r) \/ ReadFiles(r)
BackgroundStep ==
    \/ FlushBuild \/ NothingToFlush \/ Compact \/ StoreLevels \/ Install \/ Pop
    \/ StoreLog \/ RemoveLogs \/ Sweep

Next ==
    \/ \E w \in Writers :
          \/ \E batch \in Batches : Write(w, batch)
          \/ WipeScan(w) \/ WriterStep(w)
    \/ \E r \in Readers : (\E k \in Keys : GetMem(r, k)) \/ ScanBegin(r) \/ ReaderStep(r)
    \/ BackgroundStep \/ StoreFails \/ SyncLog
    \/ Tick
    \/ Kill
    \/ OpenRefused \/ OpenReplay \/ OpenHeader \/ OpenStore \/ OpenClean
    \/ OpenMakeLog \/ OpenFreeze

Spec == Init /\ [][Next]_vars

(* The background loop never stops, and calls return. *)
FairSpec ==
    /\ Spec
    /\ WF_vars(BackgroundStep)
    /\ \A w \in Writers : WF_vars(WriterStep(w))
    /\ \A r \in Readers : WF_vars(ReaderStep(r))

-----------------------------------------------------------------------------
TypeOK ==
    /\ mode \in {"up", "down", "refused", "replayed", "created", "stored", "full", "freezing"}
    /\ DOMAIN mem \subseteq Keys
    /\ log \in DOMAIN logs /\ (mode = "up" => logs[log].header)
    /\ \A n \in DOMAIN logs : logs[n].synced <= logs[n].written /\ logs[n].written <= Len(logs[n].recs)
    /\ FilesOf(version.levels) \subseteq 1 .. man.next - 1
    /\ acked \subseteq 1 .. Len(hist)

(* Version::validate: below level 0 no two files of a level overlap, in    *)
(* the version installed and in the manifest on disk.                      *)
LevelsDisjoint ==
    \A levels \in {version.levels, disk.levels} : \A l \in 1 .. Levels - 1 :
        \A m, n \in levels[l] : m # n => MaxKey(m) < MinKey(n) \/ MaxKey(n) < MinKey(m)

(* sweep_pending_deletes: no file is unlinked while a version that names   *)
(* it is installed, on disk, or held by a reader that may open it.         *)
FilesPresent ==
    /\ FilesOf(disk.levels) \subseteq DOMAIN files
    /\ mode = "up" => FilesOf(version.levels) \subseteq DOMAIN files
    /\ \A r \in Readers : reader[r].at = "files" =>
          FilesOf(reader[r].version.levels) \subseteq DOMAIN files

(* A version in use is well formed and can be searched: its files are      *)
(* there, and below level 0 one file per level is enough to look into.     *)
VersionsAreSound == TypeOK /\ FilesPresent /\ LevelsDisjoint

(* A get of one key found nothing where a record has expired since, which  *)
(* compaction may have dropped: a newer one, put in its place before it    *)
(* expired, is in the memtables the call had already left behind.          *)
ExpiredMeanwhile(r) ==
    \E k \in Keys :
        /\ reader[r].keys = {k} /\ ReadResult(r)[k] = Absent
        /\ \E v \in reader[r].seen : v[k] # Absent /\ Expired(v[k], now)

(* What a call returns of what it found, but for the records a scan        *)
(* returns although they had expired when it began: ScansShowLiveRecords   *)
(* is about those, and the code does return them.                          *)
Unexpired(r) ==
    LET result == ReadResult(r)
    IN [k \in reader[r].keys |->
           IF result[k] # Absent /\ Expired(result[k], reader[r].time) THEN Absent ELSE result[k]]

(* get and scan, whenever they finish, answer with what the database held  *)
(* at some instant of the call, although records move from memtables to    *)
(* files, expire and are compacted away while they look.  The one other    *)
(* answer is a get's at an expiry, see ExpiredMeanwhile.                   *)
ReadsAreCurrent ==
    \A r \in Readers : reader[r].at = "files" =>
        Unexpired(r) \in reader[r].seen \/ ExpiredMeanwhile(r)

(* The same without the exception: a get never misses a key that was there *)
(* all through the call.                                                   *)
GetsMissNothing ==
    \A r \in Readers : reader[r].at = "files" => Unexpired(r) \in reader[r].seen

(* scan returns live records only (the doc of Db::scan): nothing that had  *)
(* expired at the clock it was given, from a memtable or from a file.      *)
ScansShowLiveRecords ==
    \A r \in Readers : reader[r].at = "files" =>
        LET result == ReadResult(r)
        IN \A k \in reader[r].keys : result[k] # Absent => Live(result[k], reader[r].time)

(* The place of an entry decides its age: whatever is consulted first is   *)
(* newer, memtables before files, level 0 by number, then level by level.  *)
NewestFirstOrder ==
    mode = "up" => \A k \in Keys :
        LET tables == MemTables
            in(l) == {n \in version.levels[l] : k \in DOMAIN files[n]}
            has == {i \in 1 .. Len(tables) : k \in DOMAIN tables[i]}
        IN /\ \A i, j \in has : i < j => tables[i][k].at >= tables[j][k].at
           /\ \A i \in has : \A n \in FilesOf(version.levels) :
                 k \in DOMAIN files[n] => tables[i][k].at >= files[n][k].at
           /\ \A m, n \in in(0) : m < n => files[m][k].at <= files[n][k].at
           /\ \A l1, l2 \in 0 .. Levels - 1 : l1 < l2 =>
                 \A m \in in(l1), n \in in(l2) : files[m][k].at >= files[n][k].at

(* FLUSHALL: once its tombstones are written no key that was there when it *)
(* began is visible, not even one whose time to live had run out.          *)
WipeIsComplete ==
    \A w \in Writers : writer[w].at \in {"commit", "freeze", "full", "create"} /\ writer[w].wipe >= 0 =>
        \A k \in Keys : Visible[k] # Absent => Visible[k].at > writer[w].wipe

(* The engine implements the map of KeyValue: flushes, compactions and the *)
(* removal of files and logs are invisible, and a batch appears whole.     *)
KV == INSTANCE KeyValue WITH db <- Visible
RefinesKeyValue == KV!Spec

(* A kill at any instant leaves logs that the next Db::open can read.      *)
StartsAfterKill == Openable(disk, logs)

(* Of an engine that started on an empty directory, a kill at any instant  *)
(* that leaves logs Db::open can read leaves a prefix of the writes with   *)
(* every one that was answered, unless the policy is "no".                 *)
FirstKillLosesNothing ==
    crashes = 0 /\ Openable(disk, logs) => \E n \in 0 .. Len(hist) :
        /\ After(n) = Recovered(disk, logs)
        /\ Policy # "no" => \A i \in acked : i <= n

(* The same of every engine: an acknowledged write survives kill -9 at any *)
(* instant and is present after restart.                                   *)
AckedSurvivesKill ==
    Openable(disk, logs) => \E n \in 0 .. Len(hist) :
        After(n) = Recovered(disk, logs) /\ \A i \in acked : i <= n

(* What a power cut leaves of the logs. *)
Stable ==
    [n \in DOMAIN logs |-> [logs[n] EXCEPT !.written = logs[n].synced]]

(* SyncPolicy::Always: a power cut loses nothing that was acknowledged. *)
AckedSurvivesPowerCut ==
    Openable(disk, Stable) => \E n \in 0 .. Len(hist) :
        After(n) = Recovered(disk, Stable) /\ \A i \in acked : i <= n

(* Once writes stop, everything superseded is removed from the directory:  *)
(* the files of old versions and the logs of flushed memtables.            *)
EverythingReclaimed ==
    <>[](DOMAIN files = FilesOf(version.levels) /\ DOMAIN logs = {log})
=============================================================================
