---------------------------- MODULE RwLockProofs ----------------------------
(***************************************************************************)
(* Proofs about RwLock, for every set of threads, whatever calls they make *)
(* and any signals: the lock word always tells who holds the lock,         *)
(* so that a writer is alone; the waiter bits are there when a thread      *)
(* sleeps; and the lock implements RwLockSpec.                             *)
(***************************************************************************)
EXTENDS RwLock, FiniteSetTheorems, TLAPS

\* Leaves are first-order steps for Zenon, unless they cite SMT.
USE ZenonT(30)

Readers == {p \in Procs : held[p] = "read"}

\* What the lock word says is what callers were given.
WordInv ==
  /\ \A p \in Procs : held[p] = "write" <=> ("WRLOCK" \in rwl_owner.bits /\ rwl_owner.proc = p)
  /\ "WRLOCK" \in rwl_owner.bits <=> rwl_owner.proc # NoProc
  /\ "WRLOCK" \in rwl_owner.bits => rwl_owner.readers = 0
  /\ rwl_owner.readers = Cardinality(Readers)
  /\ "WRWANT" \in rwl_owner.bits => "WAIT" \in rwl_owner.bits
  /\ rwl_owner.bits # {} => \E p \in Procs : held[p] # "none"

Waiting == {"sleep_setup", "sleep_setup_signal", "set_wait"}
Slept == {"sleep_finish", "asleep", "finish_signal"}
Entering == {"retry", "cas"} \cup Waiting \cup Slept

\* What a thread inside a lock function knows.
LocalInv(p) ==
  /\ pc[p] # "panic"
  /\ pc[p] = "enter_read" => held[p] = "none" /\ "WRLOCK" \notin loc[p].o.bits
  /\ pc[p] \in Entering =>
       \/ loc[p].op = "RW_DOWNGRADE" /\ held[p] = "write"
       \/ loc[p].op \in {"RW_READ", "RW_WRITE"} /\ held[p] = "none"
  /\ pc[p] = "cas" => ~Blocked(loc[p].o, loc[p].op)
  /\ pc[p] \in Waiting => Blocked(loc[p].o, loc[p].op) /\ ~loc[p].cas
  /\ pc[p] = "retry" => ~loc[p].cas
  /\ pc[p] = "asleep" => loc[p].cas
  /\ pc[p] = "exit_read" => held[p] = "read" /\ "WAIT" \notin loc[p].o.bits
  /\ pc[p] = "exit_write" => held[p] = "write" /\ "WAIT" \notin loc[p].o.bits
  /\ pc[p] = "exit" => held[p] # "none"
  /\ pc[p] \in {"exit_load", "exit_cas"} =>
       held[p] # "none" /\ (loc[p].wrlock <=> held[p] = "write")

WakeupComes == "WAIT" \in rwl_owner.bits \/ \E q \in Procs : pc[q] = "wakeup"

\* From the CAS that set RWLOCK_WAIT on, a queued thread will be woken.
SleepInv ==
  \A p \in Procs :
    (pc[p] \in {"sleep_finish", "asleep"} /\ loc[p].cas /\ p_wchan[p] = rwl) => WakeupComes

IInv == TypeOK /\ WordInv /\ (\A p \in Procs : LocalInv(p)) /\ SleepInv
-----------------------------------------------------------------------------
(* The readers are counted. *)

\* The readers are some of the finitely many threads, so they can be counted.
LEMMA ReadersFinite == IsFiniteSet(Readers)
<1>1. Readers \subseteq Procs  BY DEF Readers
<1>. QED  BY <1>1, FS_Subset, RwAssumption

\* A thread that becomes a reader adds one to their number.
LEMMA ReaderEnters ==
  ASSUME NEW p \in Procs, TypeOK, held[p] # "read",
         held' = [held EXCEPT ![p] = "read"]
  PROVE  Cardinality(Readers') = Cardinality(Readers) + 1
<1>1. Readers' = Readers \cup {p} /\ p \notin Readers
  BY DEF Readers, TypeOK
<1>. QED  BY <1>1, ReadersFinite, FS_AddElement

\* A reader that leaves takes one off, and there was at least one.
LEMMA ReaderLeaves ==
  ASSUME NEW p \in Procs, NEW v, TypeOK, held[p] = "read", v # "read",
         held' = [held EXCEPT ![p] = v]
  PROVE  /\ Cardinality(Readers') = Cardinality(Readers) - 1
         /\ Cardinality(Readers) \in Nat \ {0}
<1>1. Readers' = Readers \ {p} /\ p \in Readers
  BY DEF Readers, TypeOK
<1>2. Cardinality(Readers') = Cardinality(Readers) - 1
  BY <1>1, ReadersFinite, FS_RemoveElement
<1>3. Cardinality(Readers) \in Nat /\ Cardinality(Readers) # 0
  BY <1>1, ReadersFinite, FS_CardinalityType, FS_EmptySet
<1>. QED  BY <1>2, <1>3

\* A thread that takes or gives up the lock for writing does not count.
LEMMA ReadersSame ==
  ASSUME NEW p \in Procs, NEW v, TypeOK, held[p] # "read", v # "read",
         held' = [held EXCEPT ![p] = v]
  PROVE  Cardinality(Readers') = Cardinality(Readers)
<1>1. Readers' = Readers  BY DEF Readers, TypeOK
<1>. QED  BY <1>1

\* The count is zero exactly when nobody reads.
LEMMA NoReaders == Cardinality(Readers) = 0 <=> Readers = {}
  BY ReadersFinite, FS_EmptySet

-----------------------------------------------------------------------------
(* The steps that change the lock word keep WordInv. *)

\* A reader let in by rw_enter_read() or rw_enter() adds itself to the count.
LEMMA WordReadGrant ==
  ASSUME NEW p \in Procs, TypeOK, WordInv, held[p] = "none",
         "WRLOCK" \notin rwl_owner.bits,
         rwl_owner' = Incremented(rwl_owner, "RW_READ", p), Hold(p, "read")
  PROVE  WordInv' /\ rwl_owner' \in Word
<1>1. rwl_owner \in Word  BY DEF TypeOK
<1>2. /\ rwl_owner'.bits = rwl_owner.bits /\ rwl_owner'.proc = rwl_owner.proc
      /\ rwl_owner'.readers = rwl_owner.readers + 1
      /\ rwl_owner' \in Word
  BY SMTT(30), <1>1 DEF Incremented, Word
<1>3. Cardinality(Readers') = Cardinality(Readers) + 1
  BY ReaderEnters DEF Hold
<1>4. \A q \in Procs : held'[q] = IF q = p THEN "read" ELSE held[q]
  BY DEF Hold, TypeOK
<1>. QED  BY SMTT(30), <1>1, <1>2, <1>3, <1>4 DEF WordInv, Word

\* A writer that swaps a free word becomes its owner and is alone.
LEMMA WordWriteGrant ==
  ASSUME NEW p \in Procs, TypeOK, WordInv, rwl_owner = Unlocked,
         rwl_owner' = Incremented(rwl_owner, "RW_WRITE", p), Hold(p, "write")
  PROVE  WordInv' /\ rwl_owner' \in Word
<1>1. rwl_owner' = [bits |-> {"WRLOCK"}, proc |-> p, readers |-> 0]
  BY DEF Incremented, Unlocked
<1>2. Readers = {} /\ \A q \in Procs : held[q] = "none"
  BY NoReaders DEF WordInv, Unlocked, Readers, TypeOK
<1>3. Cardinality(Readers') = Cardinality(Readers)
  BY <1>2, ReadersSame DEF Hold
<1>4. \A q \in Procs : held'[q] = IF q = p THEN "write" ELSE held[q]
  BY DEF Hold, TypeOK
<1>5. p # NoProc  BY SleepAssumption
<1>. QED  BY SMTT(30), <1>1, <1>2, <1>3, <1>4, <1>5 DEF WordInv, Word, Unlocked

\* RW_DOWNGRADE turns the owner into the only reader.
LEMMA WordDowngrade ==
  ASSUME NEW p \in Procs, TypeOK, WordInv, held[p] = "write",
         rwl_owner' = Incremented(rwl_owner, "RW_DOWNGRADE", p), Hold(p, "read")
  PROVE  WordInv' /\ rwl_owner' \in Word
<1>1. rwl_owner \in Word  BY DEF TypeOK
<1>2. rwl_owner' = [bits |-> rwl_owner.bits \ {"WRLOCK"}, proc |-> NoProc,
                    readers |-> rwl_owner.readers + 1]
  BY DEF Incremented
<1>3. Cardinality(Readers') = Cardinality(Readers) + 1
  BY ReaderEnters DEF Hold
<1>4. \A q \in Procs : held'[q] = IF q = p THEN "read" ELSE held[q]
  BY DEF Hold, TypeOK
<1>5. rwl_owner.proc = p  BY DEF WordInv
<1>6. rwl_owner' \in Word  BY SMTT(30), <1>1, <1>2 DEF Word
<1>. QED  BY SMTT(30), <1>1, <1>2, <1>3, <1>4, <1>5, <1>6 DEF WordInv, Word

\* A reader that leaves is taken off the count, and takes the waiter bits with it.
LEMMA WordReadRelease ==
  ASSUME NEW p \in Procs, NEW cleared, TypeOK, WordInv, held[p] = "read",
         rwl_owner' = [rwl_owner EXCEPT !.readers = @ - 1, !.bits = @ \ cleared],
         \/ cleared = {"WAIT", "WRWANT"}
         \/ cleared = {} /\ "WAIT" \notin rwl_owner.bits,
         Hold(p, "none")
  PROVE  WordInv' /\ rwl_owner' \in Word
<1>1. rwl_owner \in Word  BY DEF TypeOK
<1>2. /\ Cardinality(Readers') = Cardinality(Readers) - 1
      /\ Cardinality(Readers) \in Nat \ {0}
  BY ReaderLeaves DEF Hold
<1>3. "WRLOCK" \notin rwl_owner.bits  BY <1>2 DEF WordInv
<1>4. /\ rwl_owner'.bits = rwl_owner.bits \ cleared
      /\ rwl_owner'.proc = rwl_owner.proc
      /\ rwl_owner'.readers = rwl_owner.readers - 1
      /\ rwl_owner' \in Word
  <2>1. rwl_owner.readers \in Nat \ {0}  BY <1>2 DEF WordInv
  <2>2. rwl_owner.readers - 1 \in Nat  BY SMTT(30), <2>1
  <2>3. rwl_owner.bits \ cleared \in SUBSET {"WAIT", "WRWANT", "WRLOCK"}
    BY <1>1 DEF Word
  <2>4. rwl_owner' = [bits |-> rwl_owner.bits \ cleared, proc |-> rwl_owner.proc,
                      readers |-> rwl_owner.readers - 1]
    BY <1>1 DEF Word
  <2>. QED  BY <1>1, <2>2, <2>3, <2>4 DEF Word
<1>5. rwl_owner'.bits = {}
  BY SMTT(30), <1>1, <1>3, <1>4 DEF WordInv, Word
<1>6. \A q \in Procs : held'[q] = IF q = p THEN "none" ELSE held[q]
  BY DEF Hold, TypeOK
<1>. QED  BY SMTT(30), <1>1, <1>2, <1>3, <1>4, <1>5, <1>6 DEF WordInv

\* A writer that leaves leaves a free word, without waiter bits.
LEMMA WordWriteRelease ==
  ASSUME NEW p \in Procs, TypeOK, WordInv, held[p] = "write",
         rwl_owner' = Unlocked, Hold(p, "none")
  PROVE  WordInv' /\ rwl_owner' \in Word
<1>1. rwl_owner \in Word  BY DEF TypeOK
<1>2. rwl_owner.readers = 0 /\ rwl_owner.proc = p  BY DEF WordInv
<1>3. Cardinality(Readers') = 0
  BY <1>2, ReadersSame DEF Hold, WordInv
<1>4. \A q \in Procs : held'[q] = IF q = p THEN "none" ELSE held[q]
  BY DEF Hold, TypeOK
<1>5. NoProc \notin Procs  BY SleepAssumption
<1>. QED  BY <1>1, <1>2, <1>3, <1>4, <1>5 DEF WordInv, Word, Unlocked, TypeOK

\* rw_enter() sets waiter bits only on a word that somebody holds.
LEMMA WordSetWait ==
  ASSUME NEW op \in {"RW_READ", "RW_WRITE", "RW_DOWNGRADE"}, TypeOK, WordInv,
         Blocked(rwl_owner, op),
         rwl_owner' = [rwl_owner EXCEPT !.bits = @ \cup WaitSet(op)],
         UNCHANGED held
  PROVE  WordInv' /\ rwl_owner' \in Word
<1>1. rwl_owner \in Word  BY DEF TypeOK
<1>2. /\ rwl_owner'.bits = rwl_owner.bits \cup WaitSet(op)
      /\ rwl_owner'.proc = rwl_owner.proc /\ rwl_owner'.readers = rwl_owner.readers
      /\ rwl_owner' \in Word
  BY <1>1 DEF Word, WaitSet
<1>3. "WRLOCK" \in rwl_owner'.bits <=> "WRLOCK" \in rwl_owner.bits
  BY <1>2 DEF WaitSet
<1>4. \E p \in Procs : held[p] # "none"
  <2>1. CASE rwl_owner.bits # {}  BY <2>1 DEF WordInv
  <2>2. CASE rwl_owner.bits = {}
    <3>1. rwl_owner.readers # 0
      BY <1>1, <2>2 DEF Blocked, Unlocked, WordInv, Word
    <3>2. Readers # {}  BY <3>1, NoReaders DEF WordInv
    <3>. QED  BY <3>2 DEF Readers
  <2>. QED  BY <2>1, <2>2
<1>5. Readers' = Readers  BY DEF Readers
<1>6. WaitSet(op) = {"WAIT"} \/ WaitSet(op) = {"WAIT", "WRWANT"}  BY DEF WaitSet
<1>. QED  BY <1>1, <1>2, <1>3, <1>4, <1>5, <1>6 DEF WordInv

-----------------------------------------------------------------------------
(* A step of one thread. *)

\* The locals of p after a step that gives them the value l.
LEMMA LocalsType ==
  ASSUME NEW p \in Procs, NEW l \in Locals, TypeOK, loc' = [loc EXCEPT ![p] = l]
  PROVE  loc' \in [Procs -> Locals] /\ loc'[p] = l /\ \A q \in Procs \ {p} : loc'[q] = loc[q]
BY DEF TypeOK

\* The locals with which the lock functions start are well typed.
LEMMA NoLocalsType ==
  /\ Unlocked \in Word
  /\ NoLocals \in Locals
  /\ \A op \in {"none", "RW_WRITE", "RW_READ", "RW_DOWNGRADE"}, flags \in SUBSET RwFlags :
       [NoLocals EXCEPT !.op = op, !.flags = flags] \in Locals
  /\ \A b \in BOOLEAN : [NoLocals EXCEPT !.wrlock = b] \in Locals
<1>1. Unlocked \in Word  BY DEF Unlocked, Word
<1>2. NoLocals \in Locals  BY <1>1 DEF NoLocals, Locals, RwFlags
<1>3. ASSUME NEW op \in {"none", "RW_WRITE", "RW_READ", "RW_DOWNGRADE"}, NEW flags \in SUBSET RwFlags
      PROVE  [NoLocals EXCEPT !.op = op, !.flags = flags] \in Locals
  BY <1>2 DEF Locals
<1>4. ASSUME NEW b \in BOOLEAN
      PROVE  [NoLocals EXCEPT !.wrlock = b] \in Locals
  BY <1>2 DEF Locals
<1>. QED  BY <1>1, <1>2, <1>3, <1>4

\* What a step of p has to establish.
Frame(p) ==
  \A q \in Procs \ {p} : pc'[q] = pc[q] /\ loc'[q] = loc[q] /\ held'[q] = held[q]

WakeFrame(p) ==
  /\ pc[p] # "wakeup"
  /\ \A q \in Procs \ {p} : p_wchan'[q] = p_wchan[q]
  /\ "WAIT" \in rwl_owner.bits => "WAIT" \in rwl_owner'.bits \/ pc'[p] = "wakeup"
  /\ (pc'[p] \in {"sleep_finish", "asleep"} /\ loc'[p].cas /\ p_wchan'[p] = rwl)
       => WakeupComes'

\* A step of p leaves what the other threads know alone.
LEMMA LocalFrame ==
  ASSUME NEW q \in Procs, LocalInv(q),
         pc'[q] = pc[q], loc'[q] = loc[q], held'[q] = held[q]
  PROVE  LocalInv(q)'
BY DEF LocalInv, Blocked

\* A step of p that keeps its own part of the invariant keeps all of it.
LEMMA ThreadStep ==
  ASSUME NEW p \in Procs, IInv, TypeOK', WordInv', LocalInv(p)', Frame(p), WakeFrame(p)
  PROVE  IInv'
<1>1. ASSUME NEW q \in Procs PROVE LocalInv(q)'
  <2>1. CASE q = p  BY <2>1
  <2>2. CASE q # p
    <3>1. pc'[q] = pc[q] /\ loc'[q] = loc[q] /\ held'[q] = held[q]
      BY <2>2 DEF Frame
    <3>. QED  BY <3>1, LocalFrame DEF IInv
  <2>. QED  BY <2>1, <2>2
<1>2. WakeupComes => WakeupComes'
  BY DEF WakeupComes, WakeFrame, Frame
<1>3. SleepInv'
  <2> SUFFICES ASSUME NEW q \in Procs, pc'[q] \in {"sleep_finish", "asleep"},
                      loc'[q].cas, p_wchan'[q] = rwl
               PROVE  WakeupComes'
    BY DEF SleepInv
  <2>1. CASE q = p  BY <2>1 DEF WakeFrame
  <2>2. CASE q # p
    BY <2>2, <1>2 DEF WakeFrame, Frame, IInv, SleepInv
  <2>. QED  BY <2>1, <2>2
<1>. QED  BY <1>1, <1>3 DEF IInv

\* The type of the locals after the forms of assignment the actions use.
LEMMA RetryType ==
  ASSUME NEW p \in Procs, NEW op \in {"RW_WRITE", "RW_READ", "RW_DOWNGRADE"},
         NEW flags \in SUBSET RwFlags, TypeOK, Retry(p, op, flags)
  PROVE  /\ loc' \in [Procs -> Locals] /\ pc' \in [Procs -> PCs]
         /\ pc'[p] = "retry" /\ loc'[p].op = op /\ ~loc'[p].cas
         /\ \A q \in Procs \ {p} : pc'[q] = pc[q] /\ loc'[q] = loc[q]
<1>. DEFINE l == [NoLocals EXCEPT !.op = op, !.flags = flags]
<1>1. l \in Locals /\ l.op = op /\ ~l.cas
  <2>1. l \in Locals  BY NoLocalsType
  <2>2. l.op = op  BY ZenonT(30), NoLocalsType DEF Locals
  <2>3. l.cas = FALSE  BY DEF NoLocals
  <2>. QED  BY <2>1, <2>2, <2>3
<1>2. loc' \in [Procs -> Locals] /\ loc'[p] = l /\ \A q \in Procs \ {p} : loc'[q] = loc[q]
  BY <1>1, LocalsType DEF Retry
<1>. HIDE DEF l
<1>. QED  BY <1>1, <1>2 DEF Retry, Goto, TypeOK, PCs

\* A function that returns forgets its own locals and nobody else's.
LEMMA ReturnType ==
  ASSUME NEW p \in Procs, NEW label \in PCs, TypeOK, Goto(p, label),
         loc' = [loc EXCEPT ![p] = NoLocals]
  PROVE  /\ loc' \in [Procs -> Locals] /\ pc' \in [Procs -> PCs]
         /\ pc'[p] = label /\ loc'[p] = NoLocals
         /\ \A q \in Procs \ {p} : pc'[q] = pc[q] /\ loc'[q] = loc[q]
<1>1. loc' \in [Procs -> Locals] /\ loc'[p] = NoLocals /\ \A q \in Procs \ {p} : loc'[q] = loc[q]
  BY NoLocalsType, LocalsType
<1>. QED  BY <1>1 DEF Goto, TypeOK

\* A read of the lock word changes only the reading thread's copy o.
LEMMA LoadType ==
  ASSUME NEW p \in Procs, NEW label \in PCs, TypeOK, Goto(p, label), Load(p)
  PROVE  /\ loc' \in [Procs -> Locals] /\ pc' \in [Procs -> PCs]
         /\ pc'[p] = label /\ loc'[p] = [loc[p] EXCEPT !.o = rwl_owner]
         /\ loc'[p].o = rwl_owner /\ loc'[p].op = loc[p].op
         /\ loc'[p].cas = loc[p].cas /\ loc'[p].wrlock = loc[p].wrlock
         /\ \A q \in Procs \ {p} : pc'[q] = pc[q] /\ loc'[q] = loc[q]
<1>. DEFINE l == [loc[p] EXCEPT !.o = rwl_owner]
<1>1. loc[p] \in Locals /\ rwl_owner \in Word  BY DEF TypeOK
<1>2. /\ l \in Locals /\ l.o = rwl_owner /\ l.op = loc[p].op
      /\ l.cas = loc[p].cas /\ l.wrlock = loc[p].wrlock
  BY <1>1 DEF Locals
<1>3. loc' = [loc EXCEPT ![p] = l]  BY DEF Load, TypeOK
<1>4. loc' \in [Procs -> Locals] /\ loc'[p] = l /\ \A q \in Procs \ {p} : loc'[q] = loc[q]
  BY <1>2, <1>3, LocalsType
<1>. HIDE DEF l
<1>5. loc'[p] = [loc[p] EXCEPT !.o = rwl_owner]  BY <1>4 DEF l
<1>. QED  BY <1>2, <1>4, <1>5 DEF Goto, TypeOK

\* A thread that moves on moves alone.
LEMMA GotoType ==
  ASSUME NEW p \in Procs, NEW label \in PCs, TypeOK, Goto(p, label)
  PROVE  /\ pc' \in [Procs -> PCs] /\ pc'[p] = label
         /\ \A q \in Procs \ {p} : pc'[q] = pc[q]
BY DEF Goto, TypeOK

\* A grant or a release changes only what that thread holds.
LEMMA HoldType ==
  ASSUME NEW p \in Procs, NEW mode \in {"none", "read", "write"}, TypeOK, Hold(p, mode)
  PROVE  /\ held' \in [Procs -> {"none", "read", "write"}] /\ held'[p] = mode
         /\ \A q \in Procs \ {p} : held'[q] = held[q]
BY DEF Hold, TypeOK

\* The word is unchanged for the steps that do not touch it.
LEMMA WordSame ==
  ASSUME WordInv, UNCHANGED <<rwl_owner, held>>
  PROVE  WordInv'
<1>1. Readers' = Readers  BY DEF Readers
<1>. QED  BY <1>1 DEF WordInv

\* A step that leaves the sleep queues alone leaves them well typed.
LEMMA SleepSame ==
  ASSUME TypeOK, UNCHANGED sleepVars
  PROVE  SleepTypeOK' /\ UNCHANGED p_wchan
BY DEF TypeOK, SleepTypeOK, sleepVars

-----------------------------------------------------------------------------
(* Every action keeps the invariant. *)

\* rw_enter_read() up to its compare-and-swap keeps the invariant.
LEMMA EnterRead == ASSUME NEW p \in Procs, IInv, rw_enter_read(p) PROVE IInv'
<1>. USE DEF IInv
<1>0. SleepTypeOK' /\ UNCHANGED <<p_wchan, rwl_owner, held>>
  BY SleepSame DEF rw_enter_read
<1>1. WordInv'  BY <1>0, WordSame
<1>2. CASE "WRLOCK" \in rwl_owner.bits /\ Retry(p, "RW_READ", {})
  <2>1. /\ loc' \in [Procs -> Locals] /\ pc' \in [Procs -> PCs]
        /\ pc'[p] = "retry" /\ loc'[p].op = "RW_READ" /\ ~loc'[p].cas
        /\ \A q \in Procs \ {p} : pc'[q] = pc[q] /\ loc'[q] = loc[q]
    BY SMTT(30), <1>2, RetryType
  <2>2. TypeOK'  BY <1>0, <2>1 DEF TypeOK
  <2>3. LocalInv(p)'
    BY <1>0, <2>1 DEF LocalInv, Entering, Waiting, Slept, rw_enter_read
  <2>4. Frame(p) /\ WakeFrame(p)
    BY <1>0, <2>1 DEF Frame, WakeFrame, rw_enter_read
  <2>. QED  BY <1>1, <2>2, <2>3, <2>4, ThreadStep
<1>3. CASE "WRLOCK" \notin rwl_owner.bits /\ Goto(p, "enter_read") /\ Load(p)
  <2>1. /\ loc' \in [Procs -> Locals] /\ pc' \in [Procs -> PCs]
        /\ pc'[p] = "enter_read" /\ loc'[p].o = rwl_owner
        /\ \A q \in Procs \ {p} : pc'[q] = pc[q] /\ loc'[q] = loc[q]
    BY <1>3, LoadType DEF PCs
  <2>2. TypeOK'  BY <1>0, <2>1 DEF TypeOK
  <2>3. LocalInv(p)'
    BY <1>0, <1>3, <2>1 DEF LocalInv, Entering, Waiting, Slept, rw_enter_read
  <2>4. Frame(p) /\ WakeFrame(p)
    BY <1>0, <2>1 DEF Frame, WakeFrame, rw_enter_read
  <2>. QED  BY <1>1, <2>2, <2>3, <2>4, ThreadStep
<1>. QED  BY <1>2, <1>3 DEF rw_enter_read

\* The compare-and-swap of rw_enter_read() keeps the invariant.
LEMMA EnterReadCas == ASSUME NEW p \in Procs, IInv, rw_enter_read_cas(p) PROVE IInv'
<1>. USE DEF IInv
<1>0. SleepTypeOK' /\ UNCHANGED p_wchan  BY SleepSame DEF rw_enter_read_cas
<1>1. pc[p] = "enter_read" /\ held[p] = "none" /\ "WRLOCK" \notin loc[p].o.bits
  BY DEF rw_enter_read_cas, LocalInv
<1>2. CASE CasOk(p, Incremented(loc[p].o, "RW_READ", p)) /\ Hold(p, "read") /\ Return(p)
  <2>1. /\ loc' \in [Procs -> Locals] /\ pc' \in [Procs -> PCs] /\ pc'[p] = "idle"
        /\ \A q \in Procs \ {p} : pc'[q] = pc[q] /\ loc'[q] = loc[q]
    BY <1>2, ReturnType DEF Return, PCs
  <2>2. /\ held' \in [Procs -> {"none", "read", "write"}] /\ held'[p] = "read"
        /\ \A q \in Procs \ {p} : held'[q] = held[q]
    BY <1>2, HoldType
  <2>3. rwl_owner' = Incremented(rwl_owner, "RW_READ", p) /\ loc[p].o = rwl_owner
    BY <1>2 DEF CasOk
  <2>4. WordInv' /\ rwl_owner' \in Word  BY <1>1, <1>2, <2>3, WordReadGrant
  <2>5. TypeOK'  BY <1>0, <2>1, <2>2, <2>4 DEF TypeOK
  <2>6. LocalInv(p)'  BY <2>1 DEF LocalInv, Entering, Waiting, Slept
  <2>7. rwl_owner'.bits = rwl_owner.bits
    BY <2>3 DEF Incremented, TypeOK, Word
  <2>8. Frame(p) /\ WakeFrame(p)
    BY <1>0, <1>1, <2>1, <2>2, <2>7 DEF Frame, WakeFrame
  <2>. QED  BY <2>4, <2>5, <2>6, <2>8, ThreadStep
<1>3. CASE CasFails(p) /\ Retry(p, "RW_READ", {}) /\ UNCHANGED held
  <2>1. /\ loc' \in [Procs -> Locals] /\ pc' \in [Procs -> PCs]
        /\ pc'[p] = "retry" /\ loc'[p].op = "RW_READ" /\ ~loc'[p].cas
        /\ \A q \in Procs \ {p} : pc'[q] = pc[q] /\ loc'[q] = loc[q]
    BY SMTT(30), <1>3, RetryType
  <2>2. UNCHANGED <<rwl_owner, held>>  BY <1>3 DEF CasFails
  <2>3. WordInv'  BY <2>2, WordSame
  <2>4. TypeOK'  BY <1>0, <2>1, <2>2 DEF TypeOK
  <2>5. LocalInv(p)'  BY <1>1, <2>1, <2>2 DEF LocalInv, Entering, Waiting, Slept
  <2>6. Frame(p) /\ WakeFrame(p)
    BY <1>0, <1>1, <2>1, <2>2 DEF Frame, WakeFrame
  <2>. QED  BY <2>3, <2>4, <2>5, <2>6, ThreadStep
<1>. QED  BY <1>2, <1>3 DEF rw_enter_read_cas

\* The compare-and-swap of rw_enter_write() keeps the invariant.
LEMMA EnterWrite == ASSUME NEW p \in Procs, IInv, rw_enter_write(p) PROVE IInv'
<1>. USE DEF IInv
<1>0. SleepTypeOK' /\ UNCHANGED p_wchan  BY SleepSame DEF rw_enter_write
<1>1. pc[p] = "idle" /\ held[p] = "none"  BY DEF rw_enter_write
<1>2. CASE /\ rwl_owner = Unlocked
           /\ rwl_owner' = Incremented(Unlocked, "RW_WRITE", p)
           /\ Hold(p, "write")
           /\ UNCHANGED <<pc, loc>>
  <2>1. /\ held' \in [Procs -> {"none", "read", "write"}] /\ held'[p] = "write"
        /\ \A q \in Procs \ {p} : held'[q] = held[q]
    BY <1>2, HoldType
  <2>2. WordInv' /\ rwl_owner' \in Word  BY <1>2, WordWriteGrant
  <2>3. TypeOK'  BY <1>0, <1>2, <2>1, <2>2 DEF TypeOK
  <2>4. LocalInv(p)'  BY <1>1, <1>2 DEF LocalInv, Entering, Waiting, Slept
  <2>5. Frame(p) /\ WakeFrame(p)
    BY <1>0, <1>1, <1>2, <2>1 DEF Frame, WakeFrame, Unlocked
  <2>. QED  BY <2>2, <2>3, <2>4, <2>5, ThreadStep
<1>3. CASE Retry(p, "RW_WRITE", {}) /\ UNCHANGED <<rwl_owner, held>>
  <2>1. /\ loc' \in [Procs -> Locals] /\ pc' \in [Procs -> PCs]
        /\ pc'[p] = "retry" /\ loc'[p].op = "RW_WRITE" /\ ~loc'[p].cas
        /\ \A q \in Procs \ {p} : pc'[q] = pc[q] /\ loc'[q] = loc[q]
    BY SMTT(30), <1>3, RetryType
  <2>2. WordInv'  BY <1>3, WordSame
  <2>3. TypeOK'  BY <1>0, <1>3, <2>1 DEF TypeOK
  <2>4. LocalInv(p)'  BY <1>1, <1>3, <2>1 DEF LocalInv, Entering, Waiting, Slept
  <2>5. Frame(p) /\ WakeFrame(p)
    BY <1>0, <1>1, <1>3, <2>1 DEF Frame, WakeFrame
  <2>. QED  BY <2>2, <2>3, <2>4, <2>5, ThreadStep
<1>. QED  BY <1>2, <1>3 DEF rw_enter_write

\* A call of rw_enter() keeps the invariant.
LEMMA Enter == ASSUME NEW p \in Procs, IInv, rw_enter(p) PROVE IInv'
<1>. USE DEF IInv
<1>0. SleepTypeOK' /\ UNCHANGED <<p_wchan, rwl_owner, held>>
  BY SleepSame DEF rw_enter
<1>1. PICK op \in {"RW_READ", "RW_WRITE", "RW_DOWNGRADE"}, flags \in SUBSET RwFlags :
        /\ Retry(p, op, flags)
        /\ held[p] = IF op = "RW_DOWNGRADE" THEN "write" ELSE "none"
  BY SMTT(30), RwAssumption DEF rw_enter
<1>2. /\ loc' \in [Procs -> Locals] /\ pc' \in [Procs -> PCs]
      /\ pc'[p] = "retry" /\ loc'[p].op = op /\ ~loc'[p].cas
      /\ \A q \in Procs \ {p} : pc'[q] = pc[q] /\ loc'[q] = loc[q]
  BY <1>1, RetryType
<1>3. WordInv'  BY <1>0, WordSame
<1>4. TypeOK'  BY <1>0, <1>2 DEF TypeOK
<1>5. LocalInv(p)'  BY <1>0, <1>1, <1>2 DEF LocalInv, Entering, Waiting, Slept
<1>6. Frame(p) /\ WakeFrame(p)
  BY <1>0, <1>2 DEF Frame, WakeFrame, rw_enter
<1>. QED  BY <1>3, <1>4, <1>5, <1>6, ThreadStep

\* The read and test of the word in rw_enter() keeps the invariant.
LEMMA EnterRetry == ASSUME NEW p \in Procs, IInv, rw_enter_retry(p) PROVE IInv'
<1>. USE DEF IInv
<1>0. SleepTypeOK' /\ UNCHANGED <<p_wchan, rwl_owner, held>>
  BY SleepSame DEF rw_enter_retry
<1>1. /\ pc[p] = "retry" /\ ~loc[p].cas
      /\ \/ loc[p].op = "RW_DOWNGRADE" /\ held[p] = "write"
         \/ loc[p].op \in {"RW_READ", "RW_WRITE"} /\ held[p] = "none"
  BY DEF rw_enter_retry, LocalInv, Entering
<1>2. WordInv'  BY <1>0, WordSame
<1>3. Blocked(rwl_owner, loc[p].op) => ~HeldByMe(p)
  BY <1>1 DEF Blocked, HeldByMe, WordInv
<1>4. ASSUME NEW label \in {"cas", "sleep_setup"}, Load(p), Goto(p, label),
             label = "cas" <=> ~Blocked(rwl_owner, loc[p].op)
      PROVE  IInv'
  <2>1. /\ loc' \in [Procs -> Locals] /\ pc' \in [Procs -> PCs]
        /\ pc'[p] = label /\ loc'[p].o = rwl_owner /\ loc'[p].op = loc[p].op
        /\ loc'[p].cas = loc[p].cas
        /\ \A q \in Procs \ {p} : pc'[q] = pc[q] /\ loc'[q] = loc[q]
    BY <1>4, LoadType DEF PCs
  <2>2. TypeOK'  BY <1>0, <2>1 DEF TypeOK
  <2>3. Blocked(loc'[p].o, loc'[p].op) <=> Blocked(rwl_owner, loc[p].op)
    BY <2>1 DEF Blocked
  <2>4. LocalInv(p)'
    BY <1>0, <1>1, <1>4, <2>1, <2>3 DEF LocalInv, Entering, Waiting, Slept, Blocked
  <2>5. Frame(p) /\ WakeFrame(p)
    BY <1>0, <1>1, <2>1 DEF Frame, WakeFrame
  <2>. QED  BY <1>2, <2>2, <2>4, <2>5, ThreadStep
<1>5. CASE Return(p)
  <2>1. /\ loc' \in [Procs -> Locals] /\ pc' \in [Procs -> PCs] /\ pc'[p] = "idle"
        /\ \A q \in Procs \ {p} : pc'[q] = pc[q] /\ loc'[q] = loc[q]
    BY <1>5, ReturnType DEF Return, PCs
  <2>2. TypeOK'  BY <1>0, <2>1 DEF TypeOK
  <2>3. LocalInv(p)'  BY <2>1 DEF LocalInv, Entering, Waiting, Slept
  <2>4. Frame(p) /\ WakeFrame(p)
    BY <1>0, <1>1, <2>1 DEF Frame, WakeFrame
  <2>. QED  BY <1>2, <2>2, <2>3, <2>4, ThreadStep
<1>. QED  BY <1>3, <1>4, <1>5 DEF rw_enter_retry

\* Joining the sleep queue in rw_enter() keeps the invariant.
LEMMA EnterSleepSetup ==
  ASSUME NEW p \in Procs, IInv, rw_enter_sleep_setup(p) PROVE IInv'
<1>. USE DEF IInv
<1>. DEFINE intr == "RW_INTR" \in loc[p].flags
            l == [loc[p] EXCEPT !.do_sleep = TRUE, !.sig = TRUE, !.catch = intr]
<1>0. UNCHANGED <<rwl_owner, held>>  BY DEF rw_enter_sleep_setup
<1>1. pc[p] = "sleep_setup" /\ LocalInv(p)  BY DEF rw_enter_sleep_setup
<1>2. loc[p] \in Locals  BY DEF TypeOK
<1>3. intr \in BOOLEAN  BY SMTT(30)
<1>4. l \in Locals /\ l.o = loc[p].o /\ l.op = loc[p].op /\ l.cas = loc[p].cas
  <2>. HIDE DEF intr
  <2>. QED  BY <1>2, <1>3 DEF Locals
<1>5. loc' = [loc EXCEPT ![p] = l]
  BY DEF rw_enter_sleep_setup, TypeOK
<1>6. loc' \in [Procs -> Locals] /\ loc'[p] = l /\ \A q \in Procs \ {p} : loc'[q] = loc[q]
  <2>. HIDE DEF l
  <2>. QED  BY <1>4, <1>5, LocalsType
<1>7. p_sintr' \in [Procs -> BOOLEAN]
  <2>1. p_sintr' = [p_sintr EXCEPT ![p] = intr]  BY DEF rw_enter_sleep_setup
  <2>. HIDE DEF intr
  <2>. QED  BY <1>3, <2>1 DEF TypeOK, SleepTypeOK
<1>8. /\ pc' \in [Procs -> PCs] /\ pc'[p] \in {"sleep_setup_signal", "set_wait"}
      /\ \A q \in Procs \ {p} : pc'[q] = pc[q]
  BY DEF rw_enter_sleep_setup, Goto, TypeOK, PCs
<1>9. SleepTypeOK' /\ \A q \in Procs \ {p} : p_wchan'[q] = p_wchan[q]
  <2>1. /\ sched_lock' = p /\ p_wchan' = [p_wchan EXCEPT ![p] = rwl]
        /\ UNCHANGED <<p_stat, p_siglist>>
    BY DEF rw_enter_sleep_setup, sleep_setup
  <2>. QED  BY <1>7, <2>1, RwAssumption DEF TypeOK, SleepTypeOK
<1>. HIDE DEF l, intr
<1>10. WordInv'  BY <1>0, WordSame
<1>11. TypeOK'  BY <1>0, <1>6, <1>8, <1>9 DEF TypeOK
<1>12. LocalInv(p)'
  BY <1>0, <1>1, <1>4, <1>6, <1>8 DEF LocalInv, Entering, Waiting, Slept, Blocked
<1>13. Frame(p) /\ WakeFrame(p)
  BY <1>0, <1>1, <1>6, <1>8, <1>9 DEF Frame, WakeFrame
<1>. QED  BY <1>10, <1>11, <1>12, <1>13, ThreadStep

\* The look for signals before a sleep, where a proc may stop, keeps the invariant.
LEMMA SetupSignal == ASSUME NEW p \in Procs, IInv, sleep_setup_signal(p) PROVE IInv'
<1>. USE DEF IInv
<1>0. UNCHANGED <<rwl_owner, held, p_sintr>>  BY DEF sleep_setup_signal
<1>1. pc[p] = "sleep_setup_signal" /\ LocalInv(p)  BY DEF sleep_setup_signal
<1>2. loc[p] \in Locals  BY DEF TypeOK
<1>3. WordInv'  BY <1>0, WordSame
<1>4. SleepTypeOK' /\ \A q \in Procs \ {p} : p_wchan'[q] = p_wchan[q]
  BY <1>0 DEF sleep_setup_signal, TypeOK, SleepTypeOK, mi_switch, unsleep, Signals
<1>5. CASE UNCHANGED <<loc, pc>>
  <2>1. TypeOK'  BY <1>0, <1>4, <1>5 DEF TypeOK
  <2>2. LocalInv(p)'  BY <1>0, <1>1, <1>5, LocalFrame
  <2>3. Frame(p) /\ WakeFrame(p)
    BY <1>0, <1>1, <1>4, <1>5 DEF Frame, WakeFrame
  <2>. QED  BY <1>3, <2>1, <2>2, <2>3, ThreadStep
<1>6. ASSUME NEW l \in Locals, loc' = [loc EXCEPT ![p] = l], Goto(p, "set_wait"),
             l.o = loc[p].o, l.op = loc[p].op, l.cas = loc[p].cas
      PROVE  IInv'
  <2>1. loc' \in [Procs -> Locals] /\ loc'[p] = l /\ \A q \in Procs \ {p} : loc'[q] = loc[q]
    BY <1>6, LocalsType
  <2>2. /\ pc' \in [Procs -> PCs] /\ pc'[p] = "set_wait"
        /\ \A q \in Procs \ {p} : pc'[q] = pc[q]
    BY <1>6, GotoType DEF PCs
  <2>3. TypeOK'  BY <1>0, <1>4, <2>1, <2>2 DEF TypeOK
  <2>4. LocalInv(p)'
    BY <1>0, <1>1, <1>6, <2>1, <2>2 DEF LocalInv, Entering, Waiting, Slept, Blocked
  <2>5. Frame(p) /\ WakeFrame(p)
    BY <1>0, <1>1, <1>4, <2>1, <2>2 DEF Frame, WakeFrame
  <2>. QED  BY <1>3, <2>3, <2>4, <2>5, ThreadStep
<1>7. CASE loc' = [loc EXCEPT ![p].do_sleep = FALSE] /\ Goto(p, "set_wait")
  <2>. DEFINE l == [loc[p] EXCEPT !.do_sleep = FALSE]
  <2>1. l \in Locals /\ l.o = loc[p].o /\ l.op = loc[p].op /\ l.cas = loc[p].cas
    BY <1>2 DEF Locals
  <2>2. loc' = [loc EXCEPT ![p] = l]  BY <1>7 DEF TypeOK
  <2>. HIDE DEF l
  <2>. QED  BY <1>6, <1>7, <2>1, <2>2
<1>8. CASE /\ loc' = [loc EXCEPT ![p].sig = FALSE,
                                 ![p].catch = (p_wchan[p] # NoIdent),
                                 ![p].do_sleep = (p_wchan[p] # NoIdent)]
           /\ Goto(p, "set_wait")
  <2>. DEFINE b == p_wchan[p] # NoIdent
              l == [loc[p] EXCEPT !.sig = FALSE, !.catch = b, !.do_sleep = b]
  <2>1. b \in BOOLEAN  OBVIOUS
  <2>2. loc' = [loc EXCEPT ![p] = l]  BY <1>8 DEF TypeOK
  <2>. HIDE DEF b
  <2>3. l \in Locals /\ l.o = loc[p].o /\ l.op = loc[p].op /\ l.cas = loc[p].cas
    BY <1>2, <2>1 DEF Locals
  <2>. HIDE DEF l
  <2>. QED  BY <1>6, <1>8, <2>2, <2>3
<1>. QED  BY <1>5, <1>7, <1>8 DEF sleep_setup_signal

\* The compare-and-swap that sets the waiter bits keeps the invariant.
LEMMA EnterSetWait == ASSUME NEW p \in Procs, IInv, rw_enter_set_wait(p) PROVE IInv'
<1>. USE DEF IInv
<1>0. SleepTypeOK' /\ UNCHANGED <<p_wchan, held>>
  BY SleepSame DEF rw_enter_set_wait
<1>1. pc[p] = "set_wait" /\ LocalInv(p)  BY DEF rw_enter_set_wait
<1>2. /\ Blocked(loc[p].o, loc[p].op) /\ ~loc[p].cas
      /\ loc[p].op \in {"RW_READ", "RW_WRITE"} /\ held[p] = "none"
  BY <1>1 DEF LocalInv, Waiting, Entering, Blocked
<1>3. /\ pc' \in [Procs -> PCs] /\ pc'[p] = "sleep_finish"
      /\ \A q \in Procs \ {p} : pc'[q] = pc[q]
  BY GotoType DEF rw_enter_set_wait, PCs
<1>4. CASE /\ CasOk(p, [loc[p].o EXCEPT !.bits = @ \cup WaitSet(loc[p].op)])
           /\ loc' = [loc EXCEPT ![p].cas = TRUE]
  <2>. DEFINE l == [loc[p] EXCEPT !.cas = TRUE]
  <2>1. loc[p] \in Locals  BY DEF TypeOK
  <2>2. l \in Locals /\ l.op = loc[p].op  BY <2>1 DEF Locals
  <2>3. loc' = [loc EXCEPT ![p] = l]  BY <1>4 DEF TypeOK
  <2>. HIDE DEF l
  <2>4. loc' \in [Procs -> Locals] /\ loc'[p] = l /\ \A q \in Procs \ {p} : loc'[q] = loc[q]
    BY <2>2, <2>3, LocalsType
  <2>5. /\ rwl_owner = loc[p].o
        /\ rwl_owner' = [rwl_owner EXCEPT !.bits = @ \cup WaitSet(loc[p].op)]
    BY <1>4 DEF CasOk
  <2>6. WordInv' /\ rwl_owner' \in Word  BY <1>0, <1>2, <2>5, WordSetWait
  <2>7. "WAIT" \in rwl_owner'.bits
    BY <2>5 DEF TypeOK, Word, WaitSet
  <2>8. TypeOK'  BY <1>0, <1>3, <2>4, <2>6 DEF TypeOK
  <2>9. LocalInv(p)'
    BY <1>0, <1>2, <1>3, <2>2, <2>4 DEF LocalInv, Entering, Waiting, Slept
  <2>10. Frame(p) /\ WakeFrame(p)
    BY <1>0, <1>1, <1>3, <2>4, <2>7 DEF Frame, WakeFrame, WakeupComes
  <2>. QED  BY <2>6, <2>8, <2>9, <2>10, ThreadStep
<1>5. CASE CasFails(p) /\ UNCHANGED loc
  <2>1. UNCHANGED <<rwl_owner, held>>  BY <1>0, <1>5 DEF CasFails
  <2>2. WordInv'  BY <2>1, WordSame
  <2>3. TypeOK'  BY <1>0, <1>3, <1>5, <2>1 DEF TypeOK
  <2>4. LocalInv(p)'
    BY <1>0, <1>2, <1>3, <1>5 DEF LocalInv, Entering, Waiting, Slept
  <2>5. Frame(p) /\ WakeFrame(p)
    BY <1>0, <1>1, <1>2, <1>3, <1>5, <2>1 DEF Frame, WakeFrame
  <2>. QED  BY <2>2, <2>3, <2>4, <2>5, ThreadStep
<1>. QED  BY <1>4, <1>5 DEF rw_enter_set_wait

\* sleep_finish(), sleeping or not, keeps the invariant.
LEMMA EnterSleepFinish ==
  ASSUME NEW p \in Procs, IInv, rw_enter_sleep_finish(p) PROVE IInv'
<1>. USE DEF IInv
<1>0. UNCHANGED <<rwl_owner, loc, held, p_siglist>>  BY DEF rw_enter_sleep_finish
<1>1. pc[p] = "sleep_finish" /\ LocalInv(p)  BY DEF rw_enter_sleep_finish
<1>2. WordInv'  BY <1>0, WordSame
<1>3. CASE loc[p].cas /\ mi_switch(p, "SSLEEP") /\ Goto(p, "asleep")
           /\ UNCHANGED <<p_wchan, p_sintr>>
  <2>1. pc' \in [Procs -> PCs] /\ pc'[p] = "asleep" /\ \A q \in Procs \ {p} : pc'[q] = pc[q]
    BY <1>3, GotoType DEF PCs
  <2>2. SleepTypeOK'  BY <1>0, <1>3 DEF mi_switch, TypeOK, SleepTypeOK
  <2>3. TypeOK'  BY <1>0, <2>1, <2>2 DEF TypeOK
  <2>4. LocalInv(p)'
    BY <1>0, <1>1, <1>3, <2>1 DEF LocalInv, Entering, Waiting, Slept
  <2>5. p_wchan[p] = rwl => WakeupComes'
    BY <1>0, <1>1, <1>3, <2>1 DEF SleepInv, WakeupComes
  <2>6. Frame(p) /\ WakeFrame(p)
    BY <1>0, <1>1, <1>3, <2>1, <2>5 DEF Frame, WakeFrame
  <2>. QED  BY <1>2, <2>3, <2>4, <2>6, ThreadStep
<1>4. CASE /\ sched_lock' = NoProc
           /\ IF loc[p].cas THEN UNCHANGED p_wchan ELSE unsleep(p)
           /\ p_sintr' = [p_sintr EXCEPT ![p] = FALSE]
           /\ Goto(p, "finish_signal")
           /\ UNCHANGED p_stat
  <2>1. /\ pc' \in [Procs -> PCs] /\ pc'[p] = "finish_signal"
        /\ \A q \in Procs \ {p} : pc'[q] = pc[q]
    BY <1>4, GotoType DEF PCs
  <2>2. SleepTypeOK' /\ \A q \in Procs \ {p} : p_wchan'[q] = p_wchan[q]
    BY <1>0, <1>4 DEF unsleep, TypeOK, SleepTypeOK
  <2>3. TypeOK'  BY <1>0, <2>1, <2>2 DEF TypeOK
  <2>4. LocalInv(p)'
    BY <1>0, <1>1, <2>1 DEF LocalInv, Entering, Waiting, Slept
  <2>5. Frame(p) /\ WakeFrame(p)
    BY <1>0, <1>1, <2>1, <2>2 DEF Frame, WakeFrame
  <2>. QED  BY <1>2, <2>3, <2>4, <2>5, ThreadStep
<1>. QED  BY <1>3, <1>4 DEF rw_enter_sleep_finish

\* Coming back from mi_switch() keeps the invariant.
LEMMA EnterResume == ASSUME NEW p \in Procs, IInv, rw_enter_resume(p) PROVE IInv'
<1>. USE DEF IInv
<1>0. UNCHANGED <<rwl_owner, loc, held, sched_lock, p_wchan, p_stat, p_siglist>>
  BY DEF rw_enter_resume
<1>1. pc[p] = "asleep" /\ LocalInv(p)  BY DEF rw_enter_resume
<1>2. WordInv'  BY <1>0, WordSame
<1>3. /\ pc' \in [Procs -> PCs] /\ pc'[p] = "finish_signal"
      /\ \A q \in Procs \ {p} : pc'[q] = pc[q]
  BY GotoType DEF PCs, rw_enter_resume
<1>4. SleepTypeOK'  BY <1>0 DEF rw_enter_resume, TypeOK, SleepTypeOK
<1>5. TypeOK'  BY <1>0, <1>3, <1>4 DEF TypeOK
<1>6. LocalInv(p)'  BY <1>0, <1>1, <1>3 DEF LocalInv, Entering, Waiting, Slept
<1>7. Frame(p) /\ WakeFrame(p)  BY <1>0, <1>1, <1>3 DEF Frame, WakeFrame
<1>. QED  BY <1>2, <1>5, <1>6, <1>7, ThreadStep

\* What rw_enter() decides after a sleep keeps the invariant.
LEMMA EnterWoken == ASSUME NEW p \in Procs, IInv, rw_enter_woken(p) PROVE IInv'
<1>. USE DEF IInv
<1>0. UNCHANGED <<rwl_owner, held, sched_lock, p_wchan, p_sintr>>  BY DEF rw_enter_woken
<1>1. pc[p] = "finish_signal" /\ LocalInv(p)  BY DEF rw_enter_woken
<1>2. WordInv'  BY <1>0, WordSame
<1>3. SleepTypeOK'
  BY <1>0 DEF rw_enter_woken, TypeOK, SleepTypeOK, Signals
<1>4. CASE UNCHANGED <<pc, loc>>
  <2>1. TypeOK'  BY <1>0, <1>3, <1>4 DEF TypeOK
  <2>2. LocalInv(p)'  BY <1>0, <1>1, <1>4, LocalFrame
  <2>3. Frame(p) /\ WakeFrame(p)  BY <1>0, <1>1, <1>4 DEF Frame, WakeFrame
  <2>. QED  BY <1>2, <2>1, <2>2, <2>3, ThreadStep
<1>5. CASE Return(p)
  <2>1. /\ loc' \in [Procs -> Locals] /\ pc' \in [Procs -> PCs] /\ pc'[p] = "idle"
        /\ \A q \in Procs \ {p} : pc'[q] = pc[q] /\ loc'[q] = loc[q]
    BY <1>5, ReturnType DEF Return, PCs
  <2>2. TypeOK'  BY <1>0, <1>3, <2>1 DEF TypeOK
  <2>3. LocalInv(p)'  BY <2>1 DEF LocalInv, Entering, Waiting, Slept
  <2>4. Frame(p) /\ WakeFrame(p)  BY <1>0, <1>1, <2>1 DEF Frame, WakeFrame
  <2>. QED  BY <1>2, <2>2, <2>3, <2>4, ThreadStep
<1>6. CASE Retry(p, loc[p].op, loc[p].flags)
  <2>1. loc[p].op \in {"RW_WRITE", "RW_READ", "RW_DOWNGRADE"}
    BY <1>1 DEF LocalInv, Entering, Slept
  <2>2. loc[p].flags \in SUBSET RwFlags  BY DEF TypeOK, Locals
  <2>3. /\ loc' \in [Procs -> Locals] /\ pc' \in [Procs -> PCs]
        /\ pc'[p] = "retry" /\ loc'[p].op = loc[p].op /\ ~loc'[p].cas
        /\ \A q \in Procs \ {p} : pc'[q] = pc[q] /\ loc'[q] = loc[q]
    BY <1>6, <2>1, <2>2, RetryType
  <2>4. TypeOK'  BY <1>0, <1>3, <2>3 DEF TypeOK
  <2>5. LocalInv(p)'
    BY <1>0, <1>1, <2>3 DEF LocalInv, Entering, Waiting, Slept
  <2>6. Frame(p) /\ WakeFrame(p)  BY <1>0, <1>1, <2>3 DEF Frame, WakeFrame
  <2>. QED  BY <1>2, <2>4, <2>5, <2>6, ThreadStep
<1>. QED  BY <1>4, <1>5, <1>6 DEF rw_enter_woken

\* The compare-and-swap that takes the lock in rw_enter() keeps the invariant.
LEMMA EnterCas == ASSUME NEW p \in Procs, IInv, rw_enter_cas(p) PROVE IInv'
<1>. USE DEF IInv
<1>0. SleepTypeOK' /\ UNCHANGED p_wchan  BY SleepSame DEF rw_enter_cas
<1>1. pc[p] = "cas" /\ LocalInv(p)  BY DEF rw_enter_cas
<1>2. /\ ~Blocked(loc[p].o, loc[p].op)
      /\ \/ loc[p].op = "RW_DOWNGRADE" /\ held[p] = "write"
         \/ loc[p].op \in {"RW_READ", "RW_WRITE"} /\ held[p] = "none"
  BY <1>1 DEF LocalInv, Entering
<1>3. CASE /\ CasOk(p, Incremented(loc[p].o, loc[p].op, p))
           /\ Hold(p, Granted(loc[p].op))
           /\ WakeOrReturn(p, {"WRLOCK", "WAIT"} \subseteq loc[p].o.bits)
  <2>1. loc[p].o = rwl_owner /\ rwl_owner' = Incremented(rwl_owner, loc[p].op, p)
    BY <1>3 DEF CasOk
  <2>2. WordInv' /\ rwl_owner' \in Word
    <3>1. CASE loc[p].op = "RW_DOWNGRADE"
      BY <1>2, <1>3, <2>1, <3>1, WordDowngrade DEF Granted
    <3>2. CASE loc[p].op = "RW_READ"
      BY <1>2, <1>3, <2>1, <3>2, WordReadGrant DEF Granted, Blocked
    <3>3. CASE loc[p].op = "RW_WRITE"
      BY <1>2, <1>3, <2>1, <3>3, WordWriteGrant DEF Granted, Blocked
    <3>. QED  BY <1>2, <3>1, <3>2, <3>3
  <2>3. /\ held' \in [Procs -> {"none", "read", "write"}]
        /\ \A q \in Procs \ {p} : held'[q] = held[q]
    BY <1>3, HoldType DEF Granted
  <2>4. /\ loc' \in [Procs -> Locals] /\ pc' \in [Procs -> PCs]
        /\ pc'[p] \in {"idle", "wakeup"}
        /\ \A q \in Procs \ {p} : pc'[q] = pc[q] /\ loc'[q] = loc[q]
    BY <1>3, ReturnType DEF WakeOrReturn, PCs
  <2>5. "WAIT" \in rwl_owner.bits => "WAIT" \in rwl_owner'.bits
    BY <1>2, <2>1 DEF Incremented, TypeOK, Word, Blocked, Unlocked
  <2>6. TypeOK'  BY <1>0, <2>2, <2>3, <2>4 DEF TypeOK
  <2>7. LocalInv(p)'  BY <2>4 DEF LocalInv, Entering, Waiting, Slept
  <2>8. Frame(p) /\ WakeFrame(p)
    BY <1>0, <1>1, <2>3, <2>4, <2>5 DEF Frame, WakeFrame
  <2>. QED  BY <2>2, <2>6, <2>7, <2>8, ThreadStep
<1>4. CASE CasFails(p) /\ Retry(p, loc[p].op, loc[p].flags) /\ UNCHANGED held
  <2>1. UNCHANGED <<rwl_owner, held>>  BY <1>4 DEF CasFails
  <2>2. loc[p].flags \in SUBSET RwFlags  BY DEF TypeOK, Locals
  <2>3. /\ loc' \in [Procs -> Locals] /\ pc' \in [Procs -> PCs]
        /\ pc'[p] = "retry" /\ loc'[p].op = loc[p].op /\ ~loc'[p].cas
        /\ \A q \in Procs \ {p} : pc'[q] = pc[q] /\ loc'[q] = loc[q]
    BY SMTT(30), <1>2, <1>4, <2>2, RetryType
  <2>4. WordInv'  BY <2>1, WordSame
  <2>5. TypeOK'  BY <1>0, <2>1, <2>3 DEF TypeOK
  <2>6. LocalInv(p)'
    BY <1>2, <2>1, <2>3 DEF LocalInv, Entering, Waiting, Slept
  <2>7. Frame(p) /\ WakeFrame(p)
    BY <1>0, <1>1, <2>1, <2>3 DEF Frame, WakeFrame
  <2>. QED  BY <2>4, <2>5, <2>6, <2>7, ThreadStep
<1>. QED  BY <1>3, <1>4 DEF rw_enter_cas

\* The wakeup() after a release or a downgrade keeps the invariant.
LEMMA Wakeup == ASSUME NEW p \in Procs, IInv, rw_wakeup(p) PROVE IInv'
<1>. USE DEF IInv
<1>0. UNCHANGED <<rwl_owner, held>>  BY DEF rw_wakeup
<1>1. /\ loc' \in [Procs -> Locals] /\ pc' \in [Procs -> PCs] /\ pc'[p] = "idle"
      /\ \A q \in Procs \ {p} : pc'[q] = pc[q] /\ loc'[q] = loc[q]
  BY ReturnType DEF rw_wakeup, Return, PCs
<1>2. WordInv'  BY <1>0, WordSame
<1>3. SleepTypeOK'
  BY DEF rw_wakeup, wakeup, WakeAll, slpque, TypeOK, SleepTypeOK
<1>4. TypeOK'  BY <1>0, <1>1, <1>3 DEF TypeOK
<1>5. ASSUME NEW q \in Procs PROVE LocalInv(q)'
  <2>1. CASE q = p  BY <1>1, <2>1 DEF LocalInv, Entering, Waiting, Slept
  <2>2. CASE q # p  BY <1>0, <1>1, <2>2, LocalFrame
  <2>. QED  BY <2>1, <2>2
<1>6. \A q \in Procs : p_wchan'[q] # rwl
  BY SleepAssumption, RwAssumption
  DEF rw_wakeup, wakeup, WakeAll, slpque
<1>7. SleepInv'  BY <1>6 DEF SleepInv
<1>. QED  BY <1>2, <1>4, <1>5, <1>7

\* rw_exit_read() up to its compare-and-swap keeps the invariant.
LEMMA ExitRead == ASSUME NEW p \in Procs, IInv, rw_exit_read(p) PROVE IInv'
<1>. USE DEF IInv
<1>0. SleepTypeOK' /\ UNCHANGED <<p_wchan, rwl_owner, held>>
  BY SleepSame DEF rw_exit_read
<1>1. pc[p] = "idle" /\ held[p] = "read"  BY DEF rw_exit_read
<1>2. HeldShared
  <2>1. Readers # {}  BY <1>1 DEF Readers
  <2>2. rwl_owner.readers # 0  BY <2>1, NoReaders DEF WordInv
  <2>3. rwl_owner.readers \in Nat  BY DEF TypeOK, Word
  <2>. QED  BY SMTT(30), <2>2, <2>3 DEF HeldShared, WordInv
<1>3. PICK label \in {"exit", "exit_read"} :
        Goto(p, label) /\ (label = "exit_read" => "WAIT" \notin rwl_owner.bits)
  BY <1>2 DEF rw_exit_read
<1>4. /\ loc' \in [Procs -> Locals] /\ pc' \in [Procs -> PCs]
      /\ pc'[p] = label /\ loc'[p].o = rwl_owner
      /\ \A q \in Procs \ {p} : pc'[q] = pc[q] /\ loc'[q] = loc[q]
  BY <1>3, LoadType DEF PCs, rw_exit_read
<1>5. WordInv'  BY <1>0, WordSame
<1>6. TypeOK'  BY <1>0, <1>4 DEF TypeOK
<1>7. LocalInv(p)'
  BY <1>0, <1>1, <1>3, <1>4 DEF LocalInv, Entering, Waiting, Slept
<1>8. Frame(p) /\ WakeFrame(p)  BY <1>0, <1>1, <1>3, <1>4 DEF Frame, WakeFrame
<1>. QED  BY <1>5, <1>6, <1>7, <1>8, ThreadStep

\* rw_exit_write() up to its compare-and-swap keeps the invariant.
LEMMA ExitWrite == ASSUME NEW p \in Procs, IInv, rw_exit_write(p) PROVE IInv'
<1>. USE DEF IInv
<1>0. SleepTypeOK' /\ UNCHANGED <<p_wchan, rwl_owner, held>>
  BY SleepSame DEF rw_exit_write
<1>1. pc[p] = "idle" /\ held[p] = "write"  BY DEF rw_exit_write
<1>2. HeldByMe(p)  BY <1>1 DEF HeldByMe, WordInv
<1>3. PICK label \in {"exit", "exit_write"} :
        Goto(p, label) /\ (label = "exit_write" => "WAIT" \notin rwl_owner.bits)
  BY <1>2 DEF rw_exit_write
<1>4. /\ loc' \in [Procs -> Locals] /\ pc' \in [Procs -> PCs]
      /\ pc'[p] = label /\ loc'[p].o = rwl_owner
      /\ \A q \in Procs \ {p} : pc'[q] = pc[q] /\ loc'[q] = loc[q]
  BY <1>3, LoadType DEF PCs, rw_exit_write
<1>5. WordInv'  BY <1>0, WordSame
<1>6. TypeOK'  BY <1>0, <1>4 DEF TypeOK
<1>7. LocalInv(p)'
  BY <1>0, <1>1, <1>3, <1>4 DEF LocalInv, Entering, Waiting, Slept
<1>8. Frame(p) /\ WakeFrame(p)  BY <1>0, <1>1, <1>3, <1>4 DEF Frame, WakeFrame
<1>. QED  BY <1>5, <1>6, <1>7, <1>8, ThreadStep

\* The step that gives up the lock, on the fast path or the slow one.
LEMMA Releases ==
  ASSUME NEW p \in Procs, NEW label \in {"idle", "wakeup"}, IInv,
         SleepTypeOK', UNCHANGED p_wchan, pc[p] # "wakeup",
         WordInv', rwl_owner' \in Word, Hold(p, "none"),
         Goto(p, label), loc' = [loc EXCEPT ![p] = NoLocals],
         "WAIT" \in rwl_owner.bits => label = "wakeup"
  PROVE  IInv'
<1>. USE DEF IInv
<1>1. /\ loc' \in [Procs -> Locals] /\ pc' \in [Procs -> PCs] /\ pc'[p] = label
      /\ \A q \in Procs \ {p} : pc'[q] = pc[q] /\ loc'[q] = loc[q]
  BY ReturnType DEF PCs
<1>2. /\ held' \in [Procs -> {"none", "read", "write"}]
      /\ \A q \in Procs \ {p} : held'[q] = held[q]
  BY HoldType
<1>3. TypeOK'  BY <1>1, <1>2 DEF TypeOK
<1>4. LocalInv(p)'  BY <1>1 DEF LocalInv, Entering, Waiting, Slept
<1>5. Frame(p) /\ WakeFrame(p)  BY <1>1, <1>2 DEF Frame, WakeFrame
<1>. QED  BY <1>3, <1>4, <1>5, ThreadStep

\* A failed CAS of the release path only moves the thread.
LEMMA ReleaseRetries ==
  ASSUME NEW p \in Procs, NEW label \in {"exit", "exit_load"}, IInv,
         SleepTypeOK', UNCHANGED <<p_wchan, rwl_owner, held, loc>>,
         pc[p] # "wakeup", held[p] # "none",
         label = "exit_load" => (loc[p].wrlock <=> held[p] = "write"),
         Goto(p, label)
  PROVE  IInv'
<1>. USE DEF IInv
<1>1. pc' \in [Procs -> PCs] /\ pc'[p] = label /\ \A q \in Procs \ {p} : pc'[q] = pc[q]
  BY GotoType DEF PCs
<1>2. WordInv'  BY WordSame
<1>3. TypeOK'  BY <1>1 DEF TypeOK
<1>4. LocalInv(p)'  BY <1>1 DEF LocalInv, Entering, Waiting, Slept
<1>5. Frame(p) /\ WakeFrame(p)  BY <1>1 DEF Frame, WakeFrame
<1>. QED  BY <1>2, <1>3, <1>4, <1>5, ThreadStep

\* The compare-and-swap of rw_exit_read() keeps the invariant.
LEMMA ExitReadCas == ASSUME NEW p \in Procs, IInv, rw_exit_read_cas(p) PROVE IInv'
<1>. USE DEF IInv
<1>0. SleepTypeOK' /\ UNCHANGED p_wchan  BY SleepSame DEF rw_exit_read_cas
<1>1. pc[p] = "exit_read" /\ held[p] = "read" /\ "WAIT" \notin loc[p].o.bits
  BY DEF rw_exit_read_cas, LocalInv
<1>2. CASE /\ CasOk(p, [loc[p].o EXCEPT !.readers = @ - 1])
           /\ Hold(p, "none") /\ Return(p)
  <2>1. /\ loc[p].o = rwl_owner /\ rwl_owner \in Word
        /\ rwl_owner' = [rwl_owner EXCEPT !.readers = @ - 1]
    BY <1>2 DEF CasOk, TypeOK
  <2>2. rwl_owner' = [rwl_owner EXCEPT !.readers = @ - 1, !.bits = @ \ {}]
    BY <2>1 DEF Word
  <2>3. WordInv' /\ rwl_owner' \in Word
    BY <1>1, <1>2, <2>1, <2>2, WordReadRelease
  <2>. QED  BY <1>0, <1>1, <1>2, <2>1, <2>3, Releases DEF Return
<1>3. CASE CasFails(p) /\ Goto(p, "exit") /\ UNCHANGED <<held, loc>>
  BY <1>0, <1>1, <1>3, ReleaseRetries DEF CasFails
<1>. QED  BY <1>2, <1>3 DEF rw_exit_read_cas

\* The compare-and-swap of rw_exit_write() keeps the invariant.
LEMMA ExitWriteCas == ASSUME NEW p \in Procs, IInv, rw_exit_write_cas(p) PROVE IInv'
<1>. USE DEF IInv
<1>0. SleepTypeOK' /\ UNCHANGED p_wchan  BY SleepSame DEF rw_exit_write_cas
<1>1. pc[p] = "exit_write" /\ held[p] = "write" /\ "WAIT" \notin loc[p].o.bits
  BY DEF rw_exit_write_cas, LocalInv
<1>2. CASE CasOk(p, Unlocked) /\ Hold(p, "none") /\ Return(p)
  <2>1. loc[p].o = rwl_owner /\ rwl_owner' = Unlocked  BY <1>2 DEF CasOk
  <2>2. WordInv' /\ rwl_owner' \in Word  BY <1>1, <1>2, <2>1, WordWriteRelease
  <2>. QED  BY <1>0, <1>1, <1>2, <2>1, <2>2, Releases DEF Return
<1>3. CASE CasFails(p) /\ Goto(p, "exit") /\ UNCHANGED <<held, loc>>
  BY <1>0, <1>1, <1>3, ReleaseRetries DEF CasFails
<1>. QED  BY <1>2, <1>3 DEF rw_exit_write_cas

\* A holder always passes the assertions of the release path.
LEMMA HolderPasses ==
  ASSUME NEW p \in Procs, TypeOK, WordInv, held[p] # "none"
  PROVE  /\ HeldByMe(p) \/ HeldShared
         /\ "WRLOCK" \in rwl_owner.bits <=> held[p] = "write"
<1>1. held[p] = "write" \/ held[p] = "read"  BY DEF TypeOK
<1>2. CASE held[p] = "write"  BY <1>2 DEF WordInv, HeldByMe
<1>3. CASE held[p] = "read"
  <2>1. Readers # {}  BY <1>3 DEF Readers
  <2>2. rwl_owner.readers # 0  BY <2>1, NoReaders DEF WordInv
  <2>3. rwl_owner.readers \in Nat  BY DEF TypeOK, Word
  <2>. QED  BY SMTT(30), <1>3, <2>2, <2>3 DEF HeldShared, WordInv
<1>. QED  BY <1>1, <1>2, <1>3

\* A call of rw_exit(), which looks whether a writer leaves, keeps the invariant.
LEMMA Exit == ASSUME NEW p \in Procs, IInv, rw_exit(p) PROVE IInv'
<1>. USE DEF IInv
<1>. DEFINE b == "WRLOCK" \in rwl_owner.bits
            l == [NoLocals EXCEPT !.wrlock = b]
<1>0. SleepTypeOK' /\ UNCHANGED <<p_wchan, rwl_owner, held>>  BY SleepSame DEF rw_exit
<1>1. held[p] # "none" /\ pc[p] # "wakeup"  BY DEF rw_exit, LocalInv
<1>2. (HeldByMe(p) \/ HeldShared) /\ (b <=> held[p] = "write")  BY <1>1, HolderPasses
<1>3. /\ pc' \in [Procs -> PCs] /\ pc'[p] = "exit_load"
      /\ \A q \in Procs \ {p} : pc'[q] = pc[q]
  BY <1>2, GotoType DEF rw_exit, PCs
<1>4. loc' = [loc EXCEPT ![p] = l] /\ b \in BOOLEAN  BY SMTT(30) DEF rw_exit
<1>. HIDE DEF b
<1>5. l \in Locals  BY <1>4, NoLocalsType
<1>6. l.wrlock = b  BY NoLocalsType, <1>4 DEF NoLocals
<1>. HIDE DEF l
<1>7. loc' \in [Procs -> Locals] /\ loc'[p] = l /\ \A q \in Procs \ {p} : loc'[q] = loc[q]
  BY <1>4, <1>5, LocalsType
<1>8. WordInv'  BY <1>0, WordSame
<1>9. TypeOK'  BY <1>0, <1>3, <1>7 DEF TypeOK
<1>10. loc'[p].wrlock <=> held'[p] = "write"  BY <1>0, <1>2, <1>6, <1>7
<1>11. LocalInv(p)'
  BY <1>0, <1>1, <1>3, <1>10 DEF LocalInv, Entering, Waiting, Slept
<1>12. Frame(p) /\ WakeFrame(p)  BY <1>0, <1>1, <1>3, <1>7 DEF Frame, WakeFrame
<1>. QED  BY <1>8, <1>9, <1>11, <1>12, ThreadStep

\* The read of the word in the loop of rw_exit() keeps the invariant.
LEMMA ExitLoad == ASSUME NEW p \in Procs, IInv, rw_exit_load(p) PROVE IInv'
<1>. USE DEF IInv
<1>0. SleepTypeOK' /\ UNCHANGED <<p_wchan, rwl_owner, held>>
  BY SleepSame DEF rw_exit_load
<1>1. pc[p] = "exit_load" /\ held[p] # "none" /\ (loc[p].wrlock <=> held[p] = "write")
  BY DEF rw_exit_load, LocalInv
<1>2. /\ loc' \in [Procs -> Locals] /\ pc' \in [Procs -> PCs]
      /\ pc'[p] = "exit_cas" /\ loc'[p].wrlock = loc[p].wrlock
      /\ \A q \in Procs \ {p} : pc'[q] = pc[q] /\ loc'[q] = loc[q]
  BY LoadType DEF PCs, rw_exit_load
<1>3. WordInv'  BY <1>0, WordSame
<1>4. TypeOK'  BY <1>0, <1>2 DEF TypeOK
<1>5. LocalInv(p)'  BY <1>0, <1>1, <1>2 DEF LocalInv, Entering, Waiting, Slept
<1>6. Frame(p) /\ WakeFrame(p)  BY <1>0, <1>1, <1>2 DEF Frame, WakeFrame
<1>. QED  BY <1>3, <1>4, <1>5, <1>6, ThreadStep

\* The compare-and-swap of rw_exit() keeps the invariant.
LEMMA ExitCas == ASSUME NEW p \in Procs, IInv, rw_exit_cas(p) PROVE IInv'
<1>. USE DEF IInv
<1>0. SleepTypeOK' /\ UNCHANGED p_wchan  BY SleepSame DEF rw_exit_cas
<1>1. pc[p] = "exit_cas" /\ held[p] # "none" /\ (loc[p].wrlock <=> held[p] = "write")
  BY DEF rw_exit_cas, LocalInv
<1>2. CASE /\ CasOk(p, Released(loc[p].o, loc[p].wrlock))
           /\ Hold(p, "none")
           /\ WakeOrReturn(p, "WAIT" \in loc[p].o.bits)
  <2>1. loc[p].o = rwl_owner /\ rwl_owner' = Released(rwl_owner, loc[p].wrlock)
    BY <1>2 DEF CasOk
  <2>2. WordInv' /\ rwl_owner' \in Word
    <3>1. CASE held[p] = "write"
      BY <1>1, <1>2, <2>1, <3>1, WordWriteRelease DEF Released
    <3>2. CASE held[p] = "read"
      <4>1. rwl_owner' = [rwl_owner EXCEPT !.readers = @ - 1, !.bits = @ \ {"WAIT", "WRWANT"}]
        BY <1>1, <2>1, <3>2 DEF Released
      <4>. QED  BY <1>2, <3>2, <4>1, WordReadRelease
    <3>. QED  BY <1>1, <3>1, <3>2 DEF TypeOK
  <2>3. PICK label \in {"idle", "wakeup"} :
          Goto(p, label) /\ ("WAIT" \in rwl_owner.bits => label = "wakeup")
    BY <1>2, <2>1 DEF WakeOrReturn
  <2>. QED  BY <1>0, <1>1, <1>2, <2>2, <2>3, Releases DEF WakeOrReturn
<1>3. CASE CasFails(p) /\ Goto(p, "exit_load") /\ UNCHANGED <<held, loc>>
  BY <1>0, <1>1, <1>3, ReleaseRetries DEF CasFails
<1>. QED  BY <1>2, <1>3 DEF rw_exit_cas

\* Signals move sleepers and never touch the lock.
LEMMA SignalStep ==
  ASSUME NEW p \in Procs, IInv, UNCHANGED lockVars, SleepTypeOK',
         \A q \in Procs : p_wchan'[q] = p_wchan[q] \/ p_wchan'[q] = NoIdent
  PROVE  IInv'
<1>. USE DEF IInv
<1>0. UNCHANGED <<rwl_owner, pc, loc, held>>  BY DEF lockVars
<1>1. WordInv'  BY <1>0, WordSame
<1>2. TypeOK'  BY <1>0 DEF TypeOK
<1>3. \A q \in Procs : LocalInv(q)'  BY <1>0, LocalFrame
<1>4. NoIdent # rwl  BY SleepAssumption, RwAssumption
<1>5. SleepInv'  BY <1>0, <1>4 DEF SleepInv, WakeupComes
<1>. QED  BY <1>1, <1>2, <1>3, <1>5

\* Posting, taking and continuing after a signal keep the invariant.
LEMMA SignalActions ==
  ASSUME NEW p \in Procs, IInv, postsig(p) \/ Signal(p) \/ Continue(p)
  PROVE  IInv'
<1>0. SleepTypeOK  BY DEF IInv, TypeOK
<1>1. UNCHANGED lockVars  BY DEF postsig, Signal, Continue
<1>2. CASE postsig(p)
  BY <1>0, <1>1, <1>2, SignalStep DEF postsig, SleepTypeOK
<1>3. CASE Signal(p)
  <2>1. CASE \E kill \in BOOLEAN : ptsignal_int(p, kill)
    <3>1. SleepTypeOK' /\ \A q \in Procs : p_wchan'[q] = p_wchan[q] \/ p_wchan'[q] = NoIdent
      BY SMTT(30), <1>0, <2>1 DEF ptsignal_int, setrunnable, unsleep, SleepTypeOK, Signals
    <3>. QED  BY <1>1, <3>1, SignalStep
  <2>2. CASE ptsignal_stop(p)
    <3>1. SleepTypeOK' /\ UNCHANGED p_wchan
      BY <1>0, <2>2 DEF ptsignal_stop, SleepTypeOK, Signals
    <3>. QED  BY <1>1, <3>1, SignalStep
  <2>. QED  BY <1>3, <2>1, <2>2 DEF Signal
<1>4. CASE Continue(p)
  <2>1. SleepTypeOK' /\ UNCHANGED p_wchan
    BY <1>0, <1>4 DEF Continue, ptsignal_cont, SleepTypeOK, Signals
  <2>. QED  BY <1>1, <2>1, SignalStep
<1>. QED  BY <1>2, <1>3, <1>4

-----------------------------------------------------------------------------
(* The theorems. *)

\* The invariant holds after rw_init().
LEMMA InitInv == Init => IInv
<1>. SUFFICES ASSUME Init PROVE IInv  OBVIOUS
<1>. USE DEF Init
<1>1. TypeOK
  BY NoLocalsType DEF TypeOK, SleepInit, SleepTypeOK, PCs
<1>2. Readers = {}  BY DEF Readers
<1>3. Cardinality(Readers) = 0  BY <1>2, NoReaders
<1>4. WordInv  BY <1>3, SleepAssumption DEF WordInv, Unlocked
<1>5. \A p \in Procs : LocalInv(p)  BY DEF LocalInv, Entering, Waiting, Slept
<1>6. SleepInv  BY DEF SleepInv
<1>. QED  BY <1>1, <1>4, <1>5, <1>6 DEF IInv

\* The invariant is inductive.
LEMMA NextInv == IInv /\ [Next]_vars => IInv'
<1>. SUFFICES ASSUME IInv, [Next]_vars PROVE IInv'  OBVIOUS
<1>1. CASE UNCHANGED vars
  <2>1. UNCHANGED <<lockVars, p_wchan>> /\ SleepTypeOK'
    BY <1>1 DEF vars, lockVars, IInv, TypeOK, SleepTypeOK
  <2>2. UNCHANGED <<rwl_owner, pc, loc, held>>  BY <2>1 DEF lockVars
  <2>3. WordInv'  BY <2>2, WordSame DEF IInv
  <2>4. \A q \in Procs : LocalInv(q)'  BY <2>2, LocalFrame DEF IInv
  <2>5. SleepInv'  BY <2>1, <2>2 DEF IInv, SleepInv, WakeupComes
  <2>. QED  BY <2>1, <2>2, <2>3, <2>4, <2>5 DEF IInv, TypeOK
<1>2. ASSUME NEW p \in Procs, EnterStep(p) PROVE IInv'
  BY <1>2, EnterReadCas, EnterRetry, EnterSleepSetup, SetupSignal, EnterSetWait,
     EnterSleepFinish, EnterResume, EnterWoken, EnterCas, Wakeup DEF EnterStep
<1>3. ASSUME NEW p \in Procs, ExitStep(p) PROVE IInv'
  BY <1>3, ExitRead, ExitReadCas, ExitWrite, ExitWriteCas, Exit, ExitLoad, ExitCas
  DEF ExitStep
<1>. QED
  BY <1>1, <1>2, <1>3, EnterRead, EnterWrite, Enter, SignalActions DEF Next

\* The lock word agrees with what every caller was given, in every behaviour.
THEOREM Invariance == Spec => []IInv
<1>. QED  BY InitInv, NextInv, PTL DEF Spec

\* Every variable keeps its type; in particular the reader count in the lock
\* word never drops below zero.
THEOREM TypeCorrect == Spec => []TypeOK
<1>1. IInv => TypeOK  BY DEF IInv
<1>. QED  BY <1>1, Invariance, PTL

\* A thread that rw_enter() or rw_enter_write() gave the write lock is alone.
THEOREM WriterAlone == Spec => []MutualExclusion
<1>1. IInv => MutualExclusion
  <2>. SUFFICES ASSUME IInv, NEW p \in Procs, held[p] = "write",
                       NEW q \in Procs \ {p}
                PROVE  held[q] = "none"
    BY DEF MutualExclusion
  <2>1. rwl_owner.proc = p /\ rwl_owner.readers = 0  BY DEF IInv, WordInv
  <2>2. held[q] # "write"  BY <2>1 DEF IInv, WordInv
  <2>3. Readers = {}  BY <2>1, NoReaders DEF IInv, WordInv
  <2>4. held[q] # "read"  BY <2>3 DEF Readers
  <2>. QED  BY <2>2, <2>4 DEF IInv, TypeOK
<1>. QED  BY <1>1, Invariance, PTL

\* RWLOCK_WAIT or RWLOCK_WRWANT is set only while someone holds the lock, as
\* the comment in rwlock.h says.
THEOREM WaitersHaveHolder == Spec => []WaitBitsNeedHolder
<1>1. IInv => WaitBitsNeedHolder  BY DEF IInv, WordInv, WaitBitsNeedHolder
<1>. QED  BY <1>1, Invariance, PTL

\* The wakeup of a thread that sleeps in sleep_finish() is never lost, for any
\* signals and any stopping and continuing.
THEOREM WakeupNotLost == Spec => []NoLostWakeup
<1>1. IInv => NoLostWakeup
  BY DEF IInv, LocalInv, SleepInv, WakeupComes, NoLostWakeup
<1>. QED  BY <1>1, Invariance, PTL

\* The assertions of rw_enter_diag() and of the release paths never fail.
THEOREM AssertionsHold == Spec => []NoPanic
<1>1. IInv => NoPanic  BY DEF IInv, LocalInv, NoPanic
<1>. QED  BY <1>1, Invariance, PTL

\* A step of RwLock is a step of RwLockSpec, or changes nobody's hold.
LEMMA StepRefines == IInv /\ [Next]_vars => [Abs!SpecNext]_held
<1>. SUFFICES ASSUME IInv, [Next]_vars, held' # held PROVE Abs!SpecNext
  OBVIOUS
<1>. USE DEF Abs!SpecNext, Abs!AcquireRead, Abs!AcquireWrite, Abs!Downgrade,
             Abs!Release, Abs!Free
<1>1. PICK p \in Procs :
        \/ rw_enter_read_cas(p) \/ rw_enter_write(p) \/ rw_enter_cas(p)
        \/ rw_exit_read_cas(p) \/ rw_exit_write_cas(p) \/ rw_exit_cas(p)
  BY ZenonT(30) DEF Next, vars, lockVars, EnterStep, ExitStep, rw_enter_read, rw_enter,
         rw_enter_retry, rw_enter_sleep_setup, sleep_setup_signal,
         rw_enter_set_wait, rw_enter_sleep_finish, rw_enter_resume,
         rw_enter_woken, rw_wakeup, rw_exit_read, rw_exit_write, rw_exit,
         rw_exit_load, postsig, Signal, Continue
<1>2. TypeOK /\ WordInv /\ LocalInv(p)  BY DEF IInv
<1>3. "WRLOCK" \notin rwl_owner.bits => \A q \in Procs : held[q] # "write"
  BY <1>2 DEF WordInv
<1>4. rwl_owner = Unlocked => \A q \in Procs : held[q] = "none"
  <2>. SUFFICES ASSUME rwl_owner = Unlocked, NEW q \in Procs PROVE held[q] = "none"
    OBVIOUS
  <2>1. held[q] # "write"  BY <1>2 DEF WordInv, Unlocked
  <2>2. Readers = {}  BY <1>2, NoReaders DEF WordInv, Unlocked
  <2>3. held[q] # "read"  BY <2>2 DEF Readers
  <2>. QED  BY <1>2, <2>1, <2>3 DEF TypeOK
<1>5. CASE rw_enter_read_cas(p)
  BY <1>2, <1>3, <1>5 DEF rw_enter_read_cas, LocalInv, CasOk, Hold
<1>6. CASE rw_enter_write(p)
  BY <1>4, <1>6 DEF rw_enter_write, Hold
<1>7. CASE rw_enter_cas(p)
  <2>1. CasOk(p, Incremented(loc[p].o, loc[p].op, p)) /\ Hold(p, Granted(loc[p].op))
    BY <1>7 DEF rw_enter_cas
  <2>2. /\ ~Blocked(rwl_owner, loc[p].op)
        /\ \/ loc[p].op = "RW_DOWNGRADE" /\ held[p] = "write"
           \/ loc[p].op \in {"RW_READ", "RW_WRITE"} /\ held[p] = "none"
    BY <1>2, <1>7, <2>1 DEF rw_enter_cas, LocalInv, Entering, CasOk
  <2>. QED  BY <1>3, <1>4, <2>1, <2>2 DEF Blocked, Hold, Granted
<1>8. CASE rw_exit_read_cas(p) \/ rw_exit_write_cas(p) \/ rw_exit_cas(p)
  <2>1. held[p] # "none" /\ Hold(p, "none")
    BY <1>2, <1>8 DEF rw_exit_read_cas, rw_exit_write_cas, rw_exit_cas, LocalInv
  <2>. QED  BY <2>1 DEF Hold
<1>. QED  BY <1>1, <1>5, <1>6, <1>7, <1>8

\* The lock implements its abstract specification.
THEOREM Refinement == Spec => Implements
<1>1. Init => Abs!SpecInit  BY DEF Init, Abs!SpecInit
<1>. QED  BY <1>1, StepRefines, Invariance, PTL DEF Spec, Implements, Abs!LockSpec

=============================================================================
