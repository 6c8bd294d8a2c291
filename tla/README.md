# Verification of openbsd-uefi

The repository is the OpenBSD kernel tree with two additions: `gdisk(8)`, an
editor for GUID partition tables (`src/src/sbin/gdisk`), and `efiboot`, a boot
loader for UEFI (`src/src/sys/arch/amd64/stand/efiboot`).  This directory holds
TLA+ models of its parts, TLC runs on small instances, and TLAPS proofs.

`PROJECT.json` lists the components, the runs, the lines each definition
models, the hazards, the findings and the theorems.

## Inventory

| Part | State | Operations | What makes it hard |
|---|---|---|---|
| sleep queues, `kern_synch.c` | who waits for what, `p_stat`, `P_SINTR` | sleep_setup/finish, wakeup, signals | a proc is on the queue while it still runs; stop and continue move it without running it |
| timeouts, `kern_timeout.c` | timing wheel, `timeout_todo`, `ticks` | add, del, hardclock, softclock, adjust | integers that wrap, a bucket chosen by absolute time in a level chosen by distance |
| timed sleep, `kern_synch.c` | `P_TIMEOUT`, `p_sleep_to`, `p_thrslpid` | tsleep, endtsleep, thrsleep, thrwakeup | a timeout against a wakeup, a signal and job control |
| rwlock, `kern_rwlock.c` | one word: flag bits, owner or reader count | enter/exit for readers and writers, downgrade, interruptible and failing sleeps | separate read, test and compare-and-swap; a wakeup lost between test and sleep |
| lockmgr, `kern_lock.c` | rwlock and recursion count | lockmgr, lockstatus | the count is stored without exclusion by readers |
| task queues, `kern_task.c` | list of tasks, running count, state | add, del, next_work, create, destroy | destroy against running workers and against their creation |
| srp, `kern_srp.c` | pointer, hazard records, count | enter, leave, update, garbage collection, finalize | publication of a hazard against a swap; interrupts in between |
| gdisk | disk sectors, table in memory, `modified` | load, edit commands, store | power loss and write errors between sectors; unsigned arithmetic |
| efiboot: partition | the disk gdisk left | findopenbsd_gpt | reads one copy, checks no checksum |
| efiboot: memory | firmware map, `bios_memmap`, `cnvmem`, `extmem` | probe, machine memory, pass, probe again | merging ranges in any order, editing while iterating |

The rest of the kernel is listed in `PROJECT.json` with the reason it is left
out, and below under "Not modelled".

Interactions: rwlock, task queues, srp and timed sleeps all stand on the sleep
queues (`Sleep` is extended by each of them); timed sleeps stand on timeouts
(`Tsleep` extends `TimeoutSpec`, which `Timeout` implements); lockmgr stands on
rwlock (`LockMgr` is built on `RwLockSpec`, which `RwLock` implements); efiboot
reads what gdisk stores (`EfiGpt` extends `Gdisk`).

## Modules

| Module | Models | Uses |
|---|---|---|
| `Sleep` | sleep queues and the signals that act on sleepers | |
| `TimeoutSpec` | what timeout(9) promises (abstract) | |
| `Timeout`, `TimeoutProofs` | `kern_timeout.c`; theorems | implements `TimeoutSpec` |
| `Tsleep`, `TsleepProofs` | `tsleep()`, `endtsleep()`, `__thrsleep()`, `__thrwakeup()`; theorems | `Sleep`, `TimeoutSpec` |
| `RwLockSpec` | what a reader/writer lock promises (abstract) | |
| `RwLock`, `RwLockProofs` | `kern_rwlock.c`; theorems | `Sleep`; implements `RwLockSpec` |
| `MCRwLock` | its instances | `RwLock` |
| `LockMgr`, `LockMgrProofs` | `rrw_*()`, `lockmgr()`; theorems | `RwLockSpec` |
| `TaskQ`, `TaskQProofs` | `kern_task.c`; theorems | `Sleep` |
| `Srp`, `SrpProofs` | `kern_srp.c`; theorems | `Sleep` |
| `GptTable` | partition arithmetic of gdisk | |
| `GptFill` | `GPT_fillremaining()` loop by loop | `GptTable` |
| `MCGptFill` | its instance | `GptFill` |
| `Gdisk` | a gdisk session, the store, the disk | `GptTable` |
| `EfiGpt` | `findopenbsd_gpt()` on that disk | `Gdisk` |
| `MCGdisk` | their instance | `EfiGpt` |
| `GdiskProofs` | theorems about `GptFill`, `Gdisk` and `EfiGpt` | `EfiGpt`, `GptFill` |
| `EfiMem`, `EfiMemProofs` | efiboot's memory map; theorems | |
| `MCEfiMem` | its instance | `EfiMem` |

### Timeouts

A section under `timeout_mutex` is one step, and so is a call of a timeout's
function up to its return.  An `int` has `IntRange` values and wraps.  The run's
`WHEELSIZE` and `IntRange` keep the relation they have in the code: every
distance falls into one of the four levels.  Buckets are sets, because nothing
depends on the order of the timeouts of one tick.  `timeout_add_tv()` and its
kin convert units and call `timeout_add()`.  The refinement mapping to
`TimeoutSpec` takes `left` of a pending timeout from `to_time - ticks`, so
`Implements` says that no wrap, no cascade between levels and no move of a
pending timeout makes it early, lost or called twice.  How late a call may be is
`OnTime` and `Served`.

### Timed sleep

The timeout of proc `p` is `p` itself.  A thread has the kernel lock in the
kernel and gives it up where it sleeps; `softclock()` has it while it calls
`endtsleep()`.  `thrsleep()` may sleep for a page before it joins the sleep
queue.  `offqueue` is a ghost: who took the proc off the sleep queue.  A
`__thrsleep()` whose absolute time has passed returns after its unlock without
sleeping and is left out.

Two things are recorded as hazards and not as findings, because no document
speaks of them.  The `KASSERT` at `kern_synch.c:114` allows
a sleep with a timeout without the kernel lock; without it `timeout_del()` does
not exclude an `endtsleep()` that is under way, and `OwnTimeout` fails.  No caller
in the tree does this.  `__thrwakeup()` with ident -1 does not clear `p_thrslpid`
of a thread that is not yet on the sleep queue.

### The lock

`rwl_owner` is a record of the three flag bits, the writer and the number of
readers.  Each thread has a `pc`; a step is one access to `rwl_owner` or one
section under `SCHED_LOCK`.  `sched_lock` is a variable because `rw_enter()`
works on the word between `sleep_setup()` and `sleep_finish()`.  `held` is a
ghost: what the caller was given.  Threads release only what they hold and do
not lock recursively; `Calls` says which thread asks for what with which flags,
and within it everything a caller may do is in `Next`.  Sequential
consistency is assumed: `membar_enter()` and `membar_exit()` are not modelled.
`SIGINT` stands for every signal that is caught or kills, `SIGTSTP` for the
stop signals.  A proc that can run has a CPU.

### lockmgr

Built on `RwLockSpec`, which `RwLock` is proved to implement.  A shared holder
does not ask again; `EINTR` does not occur because lockmgr never asks for
`RW_INTR`.

### Task queues

A section under `tq_mtx` is one step; the kernel lock is a variable, given up
where a thread sleeps or pauses.  `freed` says that `free(tq)` was called, and
`added`, `deleted` and `ran` are ghosts that count the calls that took effect.
`taskq_create_thread()` is a thread of its own, as it is while it is deferred.
Its callers and those of `taskq_destroy()` have the kernel lock, those of
`task_add()` and `task_del()` need not, and have stopped when the queue is
destroyed.  Tasks do not queue themselves.  `msleep()` is taken after
autoconfiguration (`cold` is 0).

`FreedIsUnused` is a property of queues without `TASKQ_MPSAFE`.  A worker with
it reads `tq_flags` after its `--tq_running`, outside both locks, and in the
model `taskq_destroy()` can free the queue in between.  No document says
otherwise, so this is recorded as a hazard.

### Shared reference pointers

A step is one access to memory another CPU can see: the two halves of a hazard
record are written and read one by one, and the collector looks at one half of
one record per step.  Levels of a CPU are nested interrupts.  Sequential
consistency is assumed; on amd64 `membar_producer()` and `membar_consumer()` only
stop the compiler (`arch/amd64/include/atomic.h:266-270`), so a processor that
lets the second read of the pointer pass the hazard's store is outside the
model.  A value is published once.  Nothing in this tree uses srp yet.

### gdisk

A disk is a function from sectors to contents.  A header carries the table it
was computed over in place of the CRC32, so that a header and its entries match
exactly when the checksums would.  `GPT_store()` is one step per sector;
`GPT_write_error` and `Crash` may come between any two.  `store` is a ghost that
remembers what the last store found and wrote.  Block numbers are unsigned
modulo `Wrap`.  Sectors are 512 bytes and are written whole or not at all; the
number of entries is the same on disk and in memory; slot numbers are below it.
`GPT_load()` keeps the backup's sector in an `int` (`offset`), so a backup in a
sector beyond `INT_MAX` is never loaded although it is written.  That, and a disk
that has grown since its backup was written, are the two cases in which an
interrupted store can lose the table: `SurvivesInterruptedStore` is about a
backup in the last sector of a disk whose sectors an `int` can number, and
`StoreRepairs` says of larger disks only what is on them.

`GptFill` takes one round of the loops of `GPT_fillremaining()` a step; `count`,
`slot` and `newpart` are the code's `i`, `pn` and `part`.  `Gdisk` fills an entry
in one step with the operator of the same name in `GptTable`, and `ComputesFill`
says that both are the same.  `edit` leaves an entry from 0 to the last unsigned
number in memory for offset 0 and size 0.  Beside such an entry the fill wraps
around and begins at block 0; `TakesOnlyFreeSpace` and `StaysUsable` exclude it
(`EndsHaveSuccessor`), the run does not, and `GPT_store()` refuses the table.

### efiboot

`EfiGpt` is a function of the disk, evaluated in every state `Gdisk` reaches,
half-written ones included.  It reads the primary copy only.  Where both copies
load it finds what gdisk would load (`BootsWhatLoads`).  After one interrupted
store it finds the partition of the old table, that of the new one, or none
(`BootsOldOrNew`), although gdisk recovers from the backup; after two it may find
an entry of neither table.

`EfiMem` keeps `bios_memmap` as the sequence it is, and edits it as the code
does, entry by entry with the index kept across a removal: `LimitRound` is one
round of the loop of `mem_limit()`.  Entries are unsigned and the functions that
edit them signed (`u64`, `int64`, `sp`, `ep`); `LLONG_MAX` is small.  A command
is a step for each argument (`Xmemory`) and one for its end: either
`dump_biosmem()` shows the map, or the command is given up at an argument
without a number or an operation (`Xmemory_bad`), with the edits before it done
and not shown.  `Xmemory()` refuses 0 and no negative number, and a negative
size is stored as a huge unsigned one.  So `TypeOK`, `NoInventedMemory` and
`NoLostMemory` are about sessions in which every number was positive (`plain`),
and `KernelGetsWhatWasShown` about those in which no command was given up after
an edit and not followed by another (`unshown`).  What `bcopy()` moves behind
the end of `bios_memmap` (two entries, when `mem_add()` inserts:
`memprobe.c:484-485`) is left out.  The model shows how some commands behave:
`mem_limit()` skips the entry after one it removed; `mem_delete()` works on the
first entry that matches and can take the page next to the range; `mem_add()` of
a range around an entry keeps one side of it; `cnvmem` and `extmem` are computed
from entries of any type, and `extmem` depends on the order of the table.  The
properties say what holds in spite of it; `ExtmemStopsAtGap` in particular says
that `extmem` ends at the first page the firmware does not know, not that all of
it is free.

## Runs

| Run | Instance | Shows |
|---|---|---|
| `rwlock` | 3 threads, one of them sent signals, stopped and continued (298k states) | mutual exclusion, honest waiter bits, no lost wakeup, refinement; the other threads never sleep for ever |
| `rwlock_stop` | 1 of 2 threads stopped | finding |
| `lockmgr` | 3 threads, depth 3 (947) | recursion never loses or leaks the lock |
| `taskq` | 2 callers, 2 tasks, 2 adds, 2 threads of 3, creation may fail (105k) | one run or delete per add; no task forgotten; `taskq_destroy()` returns; a freed queue is not used |
| `timeout` | 2 timeouts, 5-bit integers, buckets of 2 (384k) | refinement, calls on time, everything due is served |
| `tsleep` | 2 procs, 1 tick, signals, one stopped (119k) | a timeout ends only its own sleep, `tsleep()` reports what ended it, thread wakeups are not lost, timed sleeps end |
| `srp` | 1 CPU with an interrupt, 2 pointers, 2 values (310k) | no use after free, records suffice, replaced values are destroyed, `srp_finalize()` returns after the last |
| `srp_nested` | the same, the interrupt may enter the same pointer | finding |
| `gdisk` | 9 sectors, 3 entries, 2 edits, 1 crash, 1 error (2.4M) | an interrupted store loses nothing, a finished one repairs the disk, what efiboot finds |
| `gdisk_prompt` | the same | finding |
| `gptfill` | 3 entries over 8 blocks, or up to the last number (1.3M) | fills only free, usable blocks, and ends |
| `efimem` | up to 3 ranges over 4 pages, 2 edits with numbers from -1 to 3, commands given up (6.0M) | the kernel gets the memory the firmware has and the user left, and the user saw it |

The type invariants of `RwLock`, `LockMgr`, `TaskQ` and `Srp`, and
`NoPanic`, `WcntPositive` and `ExclusiveIsAlone`, are proved and are in no run.

Bounds.  Three threads are the least with a holder, a waiter and one that is
interrupted, or stopped and continued, beside them.  In `rwlock` each has a
role: a writer with `RW_INTR` that gets the signals, one that reads, writes and
downgrades, with and without `RW_SLEEPFAIL`, and a reader with `RW_NOSLEEP`; any
number of threads with any flags, signals and job control is in the proofs.
Nine sectors are the smallest disk with two usable blocks for three entries in
two sectors, the second one not full.  One crash and one write error give two
interruptions in a row, the second of them of a store that starts from a torn
copy.  `Wrap` is 16.  Two tasks and two threads are the least with a task left
on the list when a worker takes one; the third worker stands for a thread
created while another is leaving.  Two adds (`MaxAdds`) are two tasks at once,
two callers with the same task, or a task queued again while it runs.  Five-bit
integers with buckets of two use all four levels, and 15 ticks, `INT_MAX`, reach
the highest; `MaxLate` lets one tick pass before the soft interrupt.  Timed
sleeps are of one tick: the clock runs on and meets the sleeper at every step.
One CPU with two levels is the least on which a use is interrupted, and the
procs that update and collect run beside it; more CPUs, whose records the
collector passes one by one, are in the proofs only.  Four pages with the hole
at page 1 have memory on both sides of 640K and 1M, and three ranges arrive in
an order in which the last one lies between the others; two edits are one that
moves an entry and one that meets what it left.

Fairness.  `RwLock`: a thread inside a lock function keeps running, because the
scheduler runs every runnable proc, and a CPU that spins for `SCHED_LOCK` gets
it although others take it again and again (strong fairness of the steps of
`rw_enter()`, which needs that lock; with weak fairness a thread that is
interrupted and asks again for ever could keep a `wakeup()` out); a holder
releases, because that is what the lock's users do; a stopped proc is continued,
because otherwise its user does not want it to run.  Nobody has to ask for the
lock.  `TaskQ`: strong fairness for the threads that take the kernel lock,
because it is a ticket lock that serves everyone who waits, and weak fairness
for callers, who do not need it. `ForkSpec` adds an assumption on the
environment that the code does not enforce: `fork1()` does not sleep for memory
every time.  Without it `DestroyReturns` fails: `taskq_create_thread()` does not
look at `tq_state` again, and replaces each worker that leaves the destroyed
queue while it sleeps.  `Timeout`: the clock ticks, a soft interrupt that is
scheduled is dispatched, functions return. `Tsleep`: the same of the clock and
of `softclock()`, strong fairness for what waits for the kernel lock, and
stopped procs are continued; nobody has to wake a sleeper.  `Srp`: CPUs run,
interrupts leave time to what they interrupt (strong fairness), whoever enters
leaves, timeouts are called.  `GptFill`: a sequential program takes its next
step.

## Findings

1. `rwlock_stop`: `rw_enter(RW_INTR)` may stop in `sleep_setup_signal()` before
   `RWLOCK_WAIT` is set; after `SIGCONT` it sleeps and no release wakes it.
2. `srp_nested`: `srp_leave()` finds its record by the pointer alone.  If an
   interrupt enters and leaves the pointer that the interrupted code uses, the
   record of the outer use may be the one cleared, and its value destroyed.
3. `gdisk_prompt`: `edit` that keeps the type does not mark the table modified.

Smaller disagreements between code and comments or prompts, read in the source
while modelling and kept in the models as the code has them:

- readers enter while `RWLOCK_WRWANT` is set (`kern_rwlock.c:72`), which the
  comment on `rw_ops` (`:53`) excludes;
- offset 0 and size 0 are not caught as size zero (`cmd.c:147-148`);
- answering 0 does not disable an entry of an unknown type (`cmd.c:187`,
  `misc.c:153`);
- a new partition can come out empty although blocks are free (`gpt.c:470`,
  `cmd.c:130`);
- `machine memory =size` leaves an entry above the limit that follows one it has
  removed (`memprobe.c:408-417`), where `boot.8:251` says that any memory above
  the limit is ignored; `-size@addr` works on one entry only and can take the
  page next to the range (`memprobe.c:435`), where `boot.8:273` says that it
  excludes the range;
- efiboot counts ranges of any type in `extmem` and `cnvmem`
  (`efiboot.c:295-302`), where the boot blocks for the BIOS count free ones
  (`memprobe.c:336-348`);
- in efiboot, `bios_memmap` has 64 entries and `efi_memprobe()` does not count
  them, and `free(mm, siz)` is given a pointer that the loop has advanced.

## Proofs

Each proof has the same shape: an invariant `IInv` that is inductive, the lemmas
that `Init` implies it and every action keeps it, and the theorems that follow.

`RwLockProofs`, for every finite set of threads, every set of calls and flags,
and any signals and job control: `TypeOK`, `MutualExclusion`,
`WaitBitsNeedHolder`, `NoLostWakeup`, `NoPanic`, and that `RwLock` implements
`RwLockSpec`.  None of them is inductive.  `IInv` adds: `WordInv`, the word says
exactly who holds the lock; `LocalInv`, what each thread's locals are known to
mean at its `pc`; and `SleepInv`, who is on the sleep queue and who has
`SCHED_LOCK`.  A frame lemma deals with the threads that do not move.
Assumptions: `SleepAssumption`, `RwAssumption`.

`LockMgrProofs`, for every set of threads and every depth: `TypeOK`,
`HeldWhileNested`, `WcntPositive`, `ExclusiveIsAlone`.  The invariant says of each
thread that the shared count, whoever stored it last, is right for the one
thread that may rely on it, the writer.

`TaskQProofs`, for any number of workers, callers, tasks and calls: `TypeOK`,
`RunsOncePerAdd`, `FreedIsUnused`.  `IInv` adds: the list holds the tasks with
`TASK_ONQUEUE`, each once (`ListInv`); `tq_running` is the number of workers that
have not left, plus the one about to be created (`CountInv`); who is kept out by
the kernel lock (`LockInv`); how creation and destruction exclude each other
(`StateInv`).  A queue is freed with the count 0 and the kernel lock held: the
first leaves no worker before its `--tq_running`, the second none after it.
Assumptions: `SleepAssumption`, `TaskqAssumption`.

`SrpProofs`, for any number of CPUs, records, levels, pointers, values and
procs: `TypeOK`, `NoUseAfterFree`, `FinalizedIsUnused`, `HazardsSuffice`, all
under `~SameSrp`, without which `srp_nested` refutes `NoUseAfterFree`.
`ReaderInv`: levels of a CPU have different pointers and records.  `ValueInv`: a
value is in exactly one place, about to be published, published, with one
collector, with a timeout, or destroyed.  `HazardInv`: no collector has passed
the record of a use of its value, because a use begins only while the value is
published, that is before any collector has it.  `CountInv`: the count is the
number of values not yet destroyed, plus one before `srp_finalize()`.
`HazardsSuffice` is a pigeonhole argument.  Assumptions: `SleepAssumption`,
`SrpAssumption`.

`TimeoutProofs`, for any number of timeouts, any size of the wheel and any width
of an `int`: `TypeOK`, `OnTime`, and that `Timeout` implements `TimeoutSpec`.
`IInv` adds: `timeout_todo` has no timeout twice, and a timeout is on it or in a
bucket exactly when it is `TIMEOUT_ONQUEUE`; hardclock() empties the bucket of
a timeout in one of the ticks up to the one in which it is due (`Wheel`); and no
timeout is so late that its distance would look positive (`NotWrapped`).  The
second is kept by `timeout_add()` because the bucket is chosen by the absolute
time in the level that the distance selects, and by a cascade because it inserts
again what it took out.  Assumption: `TimeoutAssumption`, which says of the soft
interrupt that it is never half the range of an `int` late.

`TsleepProofs`, for any number of procs, identifiers and durations, with signals
and job control: `OwnTimeout`, `HonestResult`, `NoLostThrwakeup`.  `IInv` says of
each proc who has the two locks at its `pc`; that it is on a queue only between
`sleep_setup()` and the end of `mi_switch()`; that at most one of a pending
timeout, a running `endtsleep()` and `P_TIMEOUT` exists, and only in a sleep that
asked for one; and that whoever took it off the queue is what `P_TIMEOUT`,
`p_siglist` and then `error1` remember.  Assumptions: `SleepAssumption`,
`TsleepAssumption`.

`GdiskProofs`, for any number of entries, entries to a sector, size of the disk
and width of block numbers:

- the loops of `GPT_fillremaining()`: `TakesOnlyFreeSpace`, `StaysUsable`,
  `ComputesFill`.  `FillInv` says that, if no other entry ends with the last
  number, the entry is apart from every entry already passed; a round moves
  start up or end down, so what is apart stays apart.  `ComputesFill` compares
  the rounds with a recursive function over the entries, by induction on the
  rounds.
- the store and the session: `SurvivesInterruptedStore`, `StoreRepairs`,
  `StoredWithinBounds`, `QuitWrites`, `UsableBlocksKept`.  `IInv` says which
  sectors of which copy the store has written (`Progress`), and that at every
  step the backup is that of the table before, or the primary copy is that of
  the new one (`OldOrNew`): the backup is begun only when the primary copy is
  complete. A sector of one copy is none of the other's and none of a
  partition's because the disk has room for both (`Fits`).
- what efiboot finds: `BootsWhatLoads`, `BootsOldOrNew`.  `BootInv` adds that
  after one interruption every entry of the primary copy is unused, of the old
  table or of the new one.

Assumptions: `TableAssumption`, `DiskAssumption` (at least two sectors, fewer than
an unsigned number can name; `INT_MAX` is any positive number), and for the loops
`FillAssumption`: doubling reaches the first usable block without wrapping around.

`EfiMemProofs`, for any number of pages, any map of the firmware with ranges
that do not overlap, any number of edits and any numbers typed: `TypeOK`,
`ProbeIsExact`, `NoInventedMemory`, `NoLostMemory`, `KernelGetsWhatWasShown`,
`ExtmemStopsAtGap`, with the conditions they state.  The properties together are
almost inductive; `MemInv` adds that the firmware's ranges do not overlap, that
the entries of the table are ranges that do not wrap around unless a negative
number was typed, and that between commands `shown` is what the table covers, up
to the jump, unless one was given up.  Reading one more range gives the table
the pages of that range and no others, because it joins an entry only where they
touch (`Merged`). An edit is described by the pages it may add and may lose
(`Edits`); every branch of `mem_delete()` and `mem_add()` and every round of
`mem_limit()` is one, and rounds compose.  Positive numbers below a quarter of
`LLONG_MAX` make the signed and the unsigned reading of an entry the same
(`U64Is`, `AreaPages`).  Assumption: `MemAssumption`, which keeps pages and
numbers that far from `LLONG_MAX`.

The prover has no induction over data by a rule.  Where a loop is a recursive
function (`GPT_fillremaining`, `mem_limit`, `Extended`) the proofs take
the least index at which the claim fails, which exists because the naturals are
well founded.

Only model-checked: the liveness properties (`OthersRun`, `Serviced`,
`DestroyReturns`, `Served`, `TimedSleepEnds`, `FinalizeReturns`, `Reclaimed`,
`Terminates`), which are out of the prover's reach because fairness is about
`ENABLED`.  Every safety and action property and every refinement that a passing
run checks is proved.

## Not modelled

The tree has 2.9 million lines, most of them drivers, file systems, protocol
stacks and code for other machines; the models cover the kernel's
synchronisation and time keeping, gdisk, and the parts of efiboot with state,
which is a few thousand lines and a small part of the whole.  What would be
needed for the rest is a project for each subsystem.

- Of the modelled files: `TIMEOUT_TRIGGERED`, `timeout_add_tv()` to
  `timeout_add_nsec()`, tasks that queue themselves, the panics of a second
  destroy, printing commands of gdisk and its parsing of units and ioctls.
- Of efiboot: `efid_io()`'s handling of blocks larger than 512 bytes, the walk
  over MBR and extended partitions, disk probing, console and video, softraid.
- Machine memory models: every module assumes sequential consistency.
- The scheduler beyond what it does to sleepers, process creation and exit,
  virtual memory, buffer cache, vnodes, pipes, sockets, advisory locks, network,
  drivers, debugger, emulation and libraries.

## Plan

1. `efid_io()` block arithmetic against a reference definition, and the MBR walk
   on the disks `Gdisk` reaches.
2. The ticket lock under the kernel lock, advisory locks, and a pipe's sleepers.
