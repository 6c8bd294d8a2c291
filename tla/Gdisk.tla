------------------------------- MODULE Gdisk -------------------------------
(***************************************************************************)
(* gdisk(8), sbin/gdisk: a session loads the partition table, edits the    *)
(* copy in memory and stores it, sector by sector; any sector write may    *)
(* fail, and the machine may lose power between two of them.               *)
(*                                                                         *)
(* A checksum is the table it was computed over: two tables with the same  *)
(* CRC32 are not told apart by the code and do not occur here.  A sector   *)
(* is written whole or not at all.                                         *)
(***************************************************************************)
EXTENDS GptTable

CONSTANTS Size,        \* disk->real->size, in sectors
          INT_MAX,
          PerSector,   \* entries in a sector
          InitTables,  \* tables the disk may hold at first
          Answers,     \* numbers the user types
          MaxEdits, MaxCrashes, MaxErrors   \* bounds

ASSUME DiskAssumption ==
  /\ {Size - 1, PerSector, INT_MAX} \subseteq Nat \ {0}
  /\ Size \in Nat /\ Size < Wrap
  /\ InitTables \subseteq [Slots -> Entry] /\ Answers \subseteq Block

VARIABLES
  disk,       \* what each sector holds
  pc,         \* "off", "prompt", "storing", "quit", "exit"
  header, part, modified,   \* the table in memory
  saving,     \* what started the store: "write", "quit", "init", or "no"
  written,    \* sectors GPT_store() has written
  store,      \* ghost: the last store: what it found, what it writes, is it done
  edits, crashes, errors   \* bounds used up

memVars == <<header, part, modified, saving, written>>
bounds == <<edits, crashes, errors>>
vars == <<disk, pc, memVars, store, bounds>>

-----------------------------------------------------------------------------
(* The disk. *)

Lbas == 1 .. Size - 1
SectorsNeeded == (N + PerSector - 1) \div PerSector
need == 1 + SectorsNeeded
UsableStart == need + 1
UsableEnd == (Size - (need + 1)) % Wrap
Usable == UsableStart .. UsableEnd

\* A header sector; sum is partitions_checksum.
Header(current, backup, plba, end, sum) ==
  [kind |-> "header", current_lba |-> current, backup_lba |-> backup,
   partitions_lba |-> plba, end_lba |-> end, sum |-> sum]
Data == [kind |-> "data"]

\* The k-th sector of entries; the rest of the last one is zero.
EntrySector(t, k) ==
  [kind |-> "entries",
   e |-> [j \in 0 .. PerSector - 1 |->
            IF k * PerSector + j < N THEN t[k * PerSector + j] ELSE Zero]]

\* The entries found from plba on; a sector that holds something else reads
\* as entries of no table.
ReadEntries(d, plba) ==
  [i \in Slots |->
     LET l == plba + i \div PerSector IN
     IF l \in Lbas /\ d[l].kind = "entries" THEN d[l].e[i % PerSector]
                                             ELSE [type |-> "garbage"]]

NoTable == [i \in Slots |-> [type |-> "garbage"]]

\* A block number in GPT_load()'s offset, an int.
offset(lba) ==
  LET low == lba % (2 * INT_MAX + 2) IN IF low <= INT_MAX THEN low ELSE low - (2 * INT_MAX + 2)

\* GPT_load(): the header it accepts, or Data if it fails.  A negative offset
\* is too large for the disk when it is compared with the unsigned size.
GPT_load(d, alt) ==
  LET l == IF alt /\ d[1].kind = "header" THEN offset(d[1].backup_lba) ELSE 1
      h == IF l \in Lbas THEN d[l] ELSE Data
  IN IF h.kind = "header" /\ ReadEntries(d, h.partitions_lba) = h.sum THEN h ELSE Data

\* USER_modify(): the primary header, else the backup header.
LoadHeader(d) ==
  IF GPT_load(d, FALSE).kind = "header" THEN GPT_load(d, FALSE) ELSE GPT_load(d, TRUE)

LoadTable(d) == IF LoadHeader(d).kind = "header" THEN LoadHeader(d).sum ELSE NoTable

\* A header at l whose entries are there, for table t.
Good(d, l, t) ==
  d[l].kind = "header" /\ d[l].sum = t /\ ReadEntries(d, d[l].partitions_lba) = t

\* The backup is in the last sector, where GPT_load() can read it, is good, and
\* holds the table that loads.
BackedUp(d) ==
  /\ d[1].kind = "header" /\ d[1].backup_lba = Size - 1 /\ Size - 1 <= INT_MAX
  /\ GPT_load(d, TRUE).kind = "header"
  /\ GPT_load(d, TRUE).sum = LoadTable(d)

Primary(t) == Header(1, Size - 1, 2, UsableEnd, t)
Backup(t) == Header(Size - 1, 1, UsableEnd + 1, UsableEnd, t)

HeaderWrite(h) == <<<<h.current_lba, h>>>>
EntryWrites(h, t) ==
  [k \in 1 .. SectorsNeeded |-> <<h.partitions_lba + k - 1, EntrySector(t, k - 1)>>]

\* Mutants: both headers before the entries; no write for the uneven rest;
\* the backup's entries one block too low.
Writes_HeadersFirst(t) ==
  HeaderWrite(Primary(t)) \o HeaderWrite(Backup(t)) \o
  EntryWrites(Primary(t), t) \o EntryWrites(Backup(t), t)
Writes_DropsRest(t) ==
  LET full(h) == SubSeq(EntryWrites(h, t), 1, N \div PerSector)
  IN HeaderWrite(Primary(t)) \o full(Primary(t)) \o HeaderWrite(Backup(t)) \o full(Backup(t))
Writes_BackupLow(t) ==
  LET low == [Backup(t) EXCEPT !.partitions_lba = @ - 1]
  IN HeaderWrite(Primary(t)) \o EntryWrites(Primary(t), t) \o HeaderWrite(low) \o EntryWrites(low, t)

\* The sectors GPT_store() writes, in its order.
Writes(t) ==
  HeaderWrite(Primary(t)) \o EntryWrites(Primary(t), t) \o
  HeaderWrite(Backup(t)) \o EntryWrites(Backup(t), t)

\* A disk with table t whose last sector, when it was written, was last.
Formatted(t, last) ==
  LET end == last - need
      copy(l) == {x \in 1 .. Size - 1 : l <= x /\ x < l + SectorsNeeded}
  IN [l \in Lbas |->
       IF l = 1 THEN Header(1, last, 2, end, t)
       ELSE IF l = last THEN Header(last, 1, end + 1, end, t)
       ELSE IF l \in copy(2) THEN EntrySector(t, l - 2)
       ELSE IF l \in copy(end + 1) THEN EntrySector(t, l - end - 1)
       ELSE Data]

NoHeader == Data
Blank == [i \in Slots |-> Zero]
NoStore == [backed |-> FALSE, before |-> NoTable, new |-> NoTable, done |-> FALSE]

\* A fresh disk, one that was partitioned, or one that has grown by a sector
\* since.
Init ==
  /\ \/ disk = [l \in Lbas |-> Data]
     \/ \E t \in InitTables, last \in {Size - 1, Size - 2} :
          last >= 2 * need /\ disk = Formatted(t, last)
  /\ pc = "off"
  /\ header = NoHeader /\ part = Blank /\ modified = FALSE /\ saving = "no"
  /\ written = 0
  /\ store = NoStore
  /\ edits = 0 /\ crashes = 0 /\ errors = 0

-----------------------------------------------------------------------------
(* Starting and leaving a session. *)

Running == pc \in {"prompt", "storing"}

Forget ==
  /\ header' = NoHeader /\ part' = Blank /\ modified' = FALSE /\ saving' = "no"
  /\ written' = 0

\* gdisk -e: USER_modify() up to its first prompt, or its exit if neither
\* copy is good.
USER_modify ==
  /\ ~Running
  /\ \/ /\ LoadHeader(disk).kind = "header"
        /\ header' = LoadHeader(disk)
        /\ part' = LoadTable(disk)
        /\ pc' = "prompt"
        /\ modified' = FALSE /\ saving' = "no" /\ written' = 0
     \/ /\ LoadHeader(disk).kind # "header"
        /\ pc' = "exit"
        /\ Forget
  /\ UNCHANGED <<disk, store, bounds>>

\* exit and abort.
Xexit ==
  /\ pc = "prompt"
  /\ pc' = "exit"
  /\ Forget
  /\ UNCHANGED <<disk, store, bounds>>

Crash ==
  /\ Running /\ crashes < MaxCrashes
  /\ crashes' = crashes + 1
  /\ pc' = "off"
  /\ Forget
  /\ UNCHANGED <<disk, store, edits, errors>>

-----------------------------------------------------------------------------
(* Commands that change the table in memory. *)

Command ==
  /\ pc = "prompt" /\ edits < MaxEdits
  /\ edits' = edits + 1
  /\ UNCHANGED <<disk, pc, saving, written, store, crashes, errors>>

\* The table and the header of GPT_init().
InitHeader == Header(1, Size - 1, 0, UsableEnd, NoTable)
InitTable ==
  LET t == GPT_fillremaining(Blank, 0, UsableStart, UsableEnd)
  IN [t EXCEPT ![0] = PRT_set_type_by_pid(@, "OPENBSD")]

Xreinit ==
  /\ Command
  /\ header' = InitHeader
  /\ part' = InitTable
  /\ modified' = TRUE

Xswap ==
  /\ Command
  /\ \E pf, pt \in Slots :
       /\ pf # pt
       /\ part' = [part EXCEPT ![pf] = part[pt], ![pt] = part[pf]]
  /\ modified' = TRUE
  /\ UNCHANGED header

\* Xsetpid()'s effect on one entry, and whether it returns CMD_DIRTY.
SetPid(e, pid) == IF pid = PRT_pid_for_type(e.type) THEN e ELSE PRT_set_type_by_pid(e, pid)
PidDirty(e, pid) == pid # PRT_pid_for_type(e.type)

Xsetpid(pn, pid) ==
  /\ Command
  /\ part' = [part EXCEPT ![pn] = SetPid(@, pid)]
  /\ modified' = (modified \/ PidDirty(part[pn], pid))
  /\ UNCHANGED header

\* The entries Xedit() can leave in slot pn of t after the two getuint()s.
Resized(t, pn, end_lba) ==
  LET entry(start, size) ==
        LET end == (size + start - 1) % Wrap
        IN IF start > end THEN Zero ELSE [t[pn] EXCEPT !.start = start, !.end = end]
  IN UNION {{entry(start, size) :
               size \in getuint(Answers, (t[pn].end - start + 1) % Wrap,
                                         (end_lba - start + 1) % Wrap)} :
             start \in getuint(Answers, t[pn].start, end_lba)}

\* The status returned is Xsetpid()'s.
Xedit(pn, pid) ==
  /\ Command
  /\ LET t == [part EXCEPT ![pn] = SetPid(@, pid)]
         filled == IF part[pn].type = "nil"
                     THEN GPT_fillremaining(t, pn, UsableStart, header.end_lba) ELSE t
     IN IF t[pn].type = "nil"
          THEN part' = [part EXCEPT ![pn] = Zero]
          ELSE \E e \in Resized(filled, pn, header.end_lba) :
                 part' = [part EXCEPT ![pn] = e]
  /\ modified' = (modified \/ PidDirty(part[pn], pid))
  /\ UNCHANGED header

\* Marks at most one entry bootable; the other flags are not in the model.
Xflags ==
  /\ Command
  /\ \E pn \in Slots, active \in BOOLEAN :
       part' = IF active THEN [i \in Slots |-> [part[i] EXCEPT !.boot = (i = pn)]] ELSE part
  /\ modified' = TRUE
  /\ UNCHANGED header

-----------------------------------------------------------------------------
(* Storing. *)

Used == {i \in Slots : part[i].type # "nil"}

\* GPT_verify() asks before it goes on.
GPT_verify_asks ==
  \/ \E i, j \in Used : i < j /\ PRT_overlap(part[i], part[j])
  \/ \E i, j \in Used : i # j /\ part[i].type = "OPENBSD" /\ part[j].type = "OPENBSD"

\* Mutant: the first usable block is not looked at.
OutOfBounds_AnyStart(e) == e.start > e.end \/ e.end > UsableEnd

OutOfBounds(e) == e.start < UsableStart \/ e.start > e.end \/ e.end > UsableEnd

NotAtLba1(h) == h.current_lba # 1 /\ h.backup_lba # 1

\* The checks of GPT_store(), before it writes anything.
StoreRefused(h, t) ==
  \/ NotAtLba1(h)
  \/ Size < need + need + 1
  \/ \E i \in Slots : t[i].type # "nil" /\ OutOfBounds(t[i])

\* GPT_store() has passed its checks and is about to write table t.
StartStore(t, how) ==
  /\ header' = Primary(t)
  /\ written' = 0
  /\ saving' = how
  /\ pc' = "storing"
  /\ store' = [backed |-> BackedUp(disk), before |-> LoadTable(disk),
               new |-> t, done |-> FALSE]

\* write, and quit with changes: refused by the user or by a check, the
\* command goes on at the prompt; quit without changes just leaves.
Xwrite(how) ==
  /\ pc = "prompt"
  /\ how = "quit" => modified
  /\ \/ /\ GPT_verify_asks
        /\ UNCHANGED <<header, pc, saving, written, store>>
     \/ /\ StoreRefused(header, part)
        /\ header' = IF NotAtLba1(header) THEN header
                     ELSE [header EXCEPT !.end_lba = UsableEnd]
        /\ UNCHANGED <<pc, saving, written, store>>
     \/ /\ ~StoreRefused(header, part)
        /\ StartStore(part, how)
  /\ UNCHANGED <<disk, part, modified, bounds>>

Xquit ==
  /\ pc = "prompt" /\ ~modified
  /\ pc' = "quit"
  /\ UNCHANGED <<disk, memVars, store, bounds>>

\* gdisk -i: GPT_init() and Xwrite(), whose result is not looked at.
USER_init ==
  /\ ~Running /\ edits < MaxEdits
  /\ edits' = edits + 1
  /\ part' = InitTable
  /\ \/ /\ StoreRefused(InitHeader, InitTable)
        /\ pc' = "exit"
        /\ header' = InitHeader
        /\ UNCHANGED <<saving, written, store>>
     \/ ~StoreRefused(InitHeader, InitTable) /\ StartStore(InitTable, "init")
  /\ modified' = FALSE
  /\ UNCHANGED <<disk, crashes, errors>>

\* One GPT_write() of GPT_store() that succeeds; after the primary copy the
\* header in memory becomes the backup's; after the last one Xwrite() returns.
GPT_write ==
  /\ pc = "storing"
  /\ LET w == Writes(part)
         n == written + 1
     IN /\ disk' = [disk EXCEPT ![w[n][1]] = w[n][2]]
        /\ header' = IF n = 1 + SectorsNeeded
                       THEN Backup(part) ELSE header
        /\ IF n < Len(w)
             THEN written' = n /\ UNCHANGED <<pc, modified, saving, store>>
             ELSE /\ written' = 0 /\ saving' = "no"
                  /\ pc' = CASE saving = "write" -> "prompt" [] saving = "quit" -> "quit"
                             [] saving = "init" -> "exit"
                  /\ modified' = (modified /\ saving # "write")
                  /\ store' = [store EXCEPT !.done = TRUE]
  /\ UNCHANGED <<part, bounds>>

\* Mutant: quit leaves whether the store succeeded or not.
GPT_write_error_Quits ==
  /\ pc = "storing" /\ errors < MaxErrors
  /\ errors' = errors + 1
  /\ pc' = CASE saving = "write" -> "prompt" [] saving = "quit" -> "quit"
             [] saving = "init" -> "exit"
  /\ written' = 0 /\ saving' = "no"
  /\ UNCHANGED <<disk, header, part, modified, store, edits, crashes>>

\* One that fails: Xwrite() returns CMD_CONT and the prompt comes back.
GPT_write_error ==
  /\ pc = "storing" /\ errors < MaxErrors
  /\ errors' = errors + 1
  /\ pc' = IF saving = "init" THEN "exit" ELSE "prompt"
  /\ written' = 0 /\ saving' = "no"
  /\ UNCHANGED <<disk, header, part, modified, store, edits, crashes>>

Next ==
  \/ USER_modify \/ USER_init \/ Xexit \/ Xquit \/ Crash
  \/ Xreinit \/ Xswap \/ Xflags
  \/ \E pn \in Slots, pid \in Pids : Xsetpid(pn, pid) \/ Xedit(pn, pid)
  \/ \E how \in {"write", "quit"} : Xwrite(how)
  \/ GPT_write \/ GPT_write_error

Spec == Init /\ [][Next]_vars

-----------------------------------------------------------------------------
(* Properties. *)

\* Power lost or a write failed anywhere in a GPT_store() that found a good
\* backup of the table in the last sector, on a disk whose last sector an int
\* can number: the next gdisk loads the old table or the new one.  A backup
\* elsewhere (the disk has grown) does not help: the first write makes the
\* primary header point to the last sector.  Nor does any on a larger disk,
\* where GPT_load()'s offset does not hold the number of that sector.
SurvivesInterruptedStore ==
  store.backed => LoadTable(disk) \in {store.before, store.new}

\* A GPT_store() that returns 0 leaves both copies good, whatever was on the
\* disk before: a blank disk, torn copies, or a backup header elsewhere.  gdisk
\* loads the primary one, and could load the backup if an int can number the
\* last sector.
StoreRepairs ==
  store.done => /\ Good(disk, 1, store.new) /\ Good(disk, Size - 1, store.new)
                /\ GPT_load(disk, FALSE).kind = "header" /\ LoadTable(disk) = store.new
                /\ Size - 1 <= INT_MAX => BackedUp(disk)

\* GPT_store() never writes into the blocks it lets partitions use.
UsableBlocksKept == [][\A l \in Usable \cap Lbas : disk'[l] = disk[l]]_vars

\* What reached the disk is within bounds: a session that loads it finds no
\* partition over the headers or the entries.
StoredWithinBounds ==
  store.done => \A i \in Slots :
    LET e == LoadTable(disk)[i] IN
    e.type # "nil" => e.start <= e.end /\ e.start .. e.end \subseteq Usable

\* quit leaves the program only with the changes it knows of on the disk.
QuitWrites == (pc = "quit" /\ modified) => LoadTable(disk) = part

\* The prompt's '*' (gdisk.8): a command that changes the table in memory
\* leaves it marked as not yet written.
ModifiedIsShown == [][(pc = "prompt" /\ part' # part /\ pc' = "prompt") => modified']_vars
=============================================================================
