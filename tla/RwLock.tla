------------------------------- MODULE RwLock -------------------------------
(***************************************************************************)
(* The reader/writer lock of sys/kern/kern_rwlock.c: a lock is one word,   *)
(* rwl_owner, changed only by compare-and-swap; a thread that has to wait  *)
(* puts itself on the sleep queue, sets RWLOCK_WAIT and sleeps.            *)
(*                                                                         *)
(* One step is one access to rwl_owner, or one SCHED_LOCK section.  The    *)
(* word is a record: the three flag bits, and the remaining bits, which    *)
(* hold the writer's proc pointer or the number of readers.  The locals of *)
(* a thread outside the lock functions are kept at NoLocals.               *)
(***************************************************************************)
EXTENDS Sleep

CONSTANTS rwl,        \* the lock, as a sleep identifier
          Calls,      \* how the threads ask for the lock: <<thread, op, flags>>
          Signalled,  \* procs that are sent signals
          Stoppable   \* procs that job control may stop

RwFlags == {"RW_INTR", "RW_SLEEPFAIL", "RW_NOSLEEP"}

ASSUME RwAssumption ==
  /\ Idents = {rwl}
  /\ IsFiniteSet(Procs)
  /\ Calls \subseteq Procs \X {"RW_READ", "RW_WRITE", "RW_DOWNGRADE"} \X SUBSET RwFlags
  /\ Signalled \subseteq Procs /\ Stoppable \subseteq Procs

VARIABLES
  rwl_owner,  \* the lock word
  pc,         \* where each thread is; "idle" is outside the lock functions
  loc,        \* its locals
  held        \* ghost: what the caller was given and has not returned

lockVars == <<rwl_owner, pc, loc, held>>
vars == <<rwl_owner, pc, loc, held, sched_lock, p_wchan, p_stat, p_sintr, p_siglist>>

Word == [bits : SUBSET {"WAIT", "WRWANT", "WRLOCK"},
         proc : Procs \cup {NoProc}, readers : Nat]
Unlocked == [bits |-> {}, proc |-> NoProc, readers |-> 0]

\* o: the copy of the word the next CAS compares with; op and flags: the
\* arguments of rw_enter(); do_sleep, catch and sig: struct sleep_state;
\* cas: rw_enter()'s do_sleep; wrlock: rw_exit()'s.
Locals == [o : Word, op : {"none", "RW_WRITE", "RW_READ", "RW_DOWNGRADE"},
           flags : SUBSET RwFlags, do_sleep : BOOLEAN, catch : BOOLEAN,
           sig : BOOLEAN, cas : BOOLEAN, wrlock : BOOLEAN]
NoLocals == [o |-> Unlocked, op |-> "none", flags |-> {}, do_sleep |-> FALSE,
             catch |-> FALSE, sig |-> FALSE, cas |-> FALSE, wrlock |-> FALSE]

PCs == {"idle", "enter_read", "retry", "sleep_setup", "sleep_setup_signal",
        "set_wait", "sleep_finish", "asleep", "finish_signal", "cas", "wakeup",
        "exit_read", "exit_write", "exit", "exit_load", "exit_cas", "panic"}

TypeOK ==
  /\ SleepTypeOK
  /\ rwl_owner \in Word
  /\ pc \in [Procs -> PCs]
  /\ loc \in [Procs -> Locals]
  /\ held \in [Procs -> {"none", "read", "write"}]

\* rw_init().
Init ==
  /\ SleepInit
  /\ rwl_owner = Unlocked
  /\ pc = [p \in Procs |-> "idle"]
  /\ loc = [p \in Procs |-> NoLocals]
  /\ held = [p \in Procs |-> "none"]

-----------------------------------------------------------------------------
(* The rw_ops table: what each operation checks, adds and sets while it    *)
(* waits.  RW_DOWNGRADE checks nothing.                                    *)

\* Mutant: a reader no longer looks at RWLOCK_WRLOCK.
Blocked_ReadersPass(w, op) == op = "RW_WRITE" /\ w # Unlocked

Blocked(w, op) ==
  \/ op = "RW_WRITE" /\ w # Unlocked
  \/ op = "RW_READ" /\ "WRLOCK" \in w.bits

\* Mutant: a waiting writer sets RWLOCK_WRWANT only.
WaitSet_WrwantOnly(op) == IF op = "RW_WRITE" THEN {"WRWANT"} ELSE {"WAIT"}

WaitSet(op) == IF op = "RW_WRITE" THEN {"WAIT", "WRWANT"} ELSE {"WAIT"}

\* o + inc
Incremented(w, op, p) ==
  CASE op = "RW_WRITE" -> [w EXCEPT !.bits = @ \cup {"WRLOCK"}, !.proc = p]
    [] op = "RW_READ" -> [w EXCEPT !.readers = @ + 1]
    [] op = "RW_DOWNGRADE" ->
         [bits |-> w.bits \ {"WRLOCK"}, proc |-> NoProc, readers |-> w.readers + 1]

Granted(op) == IF op = "RW_WRITE" THEN "write" ELSE "read"

Goto(p, label) == pc' = [pc EXCEPT ![p] = label]

Load(p) == loc' = [loc EXCEPT ![p].o = rwl_owner]

\* A lock function returns.
Return(p) == Goto(p, "idle") /\ loc' = [loc EXCEPT ![p] = NoLocals]

\* Control goes (back) to rw_enter()'s retry label.
Retry(p, op, flags) ==
  /\ Goto(p, "retry")
  /\ loc' = [loc EXCEPT ![p] = [NoLocals EXCEPT !.op = op, !.flags = flags]]

\* What follows a lock or unlock that succeeded: wakeup(), or the return.
WakeOrReturn(p, wake) ==
  /\ Goto(p, IF wake THEN "wakeup" ELSE "idle")
  /\ loc' = [loc EXCEPT ![p] = NoLocals]

\* rw_cas() succeeding and failing.
CasOk(p, new) == rwl_owner = loc[p].o /\ rwl_owner' = new
CasFails(p) == rwl_owner # loc[p].o /\ UNCHANGED rwl_owner

\* The conditions of rw_assert_wrlock() and rw_assert_rdlock().
HeldByMe(p) == "WRLOCK" \in rwl_owner.bits /\ rwl_owner.proc = p
HeldShared == "WRLOCK" \notin rwl_owner.bits /\ rwl_owner.readers > 0

Hold(p, mode) == held' = [held EXCEPT ![p] = mode]

-----------------------------------------------------------------------------
(* Taking the lock. *)

rw_enter_read(p) ==
  /\ <<p, "RW_READ", {}>> \in Calls
  /\ pc[p] = "idle" /\ held[p] = "none"
  /\ \/ /\ "WRLOCK" \in rwl_owner.bits
        /\ Retry(p, "RW_READ", {})
     \/ /\ "WRLOCK" \notin rwl_owner.bits
        /\ Goto(p, "enter_read")
        /\ Load(p)
  /\ UNCHANGED <<rwl_owner, held, sleepVars>>

rw_enter_read_cas(p) ==
  /\ pc[p] = "enter_read"
  /\ \/ /\ CasOk(p, Incremented(loc[p].o, "RW_READ", p))
        /\ Hold(p, "read")
        /\ Return(p)
     \/ /\ CasFails(p)
        /\ Retry(p, "RW_READ", {})
        /\ UNCHANGED held
  /\ UNCHANGED sleepVars

rw_enter_write(p) ==
  /\ <<p, "RW_WRITE", {}>> \in Calls
  /\ pc[p] = "idle" /\ held[p] = "none"
  /\ \/ /\ rwl_owner = Unlocked
        /\ rwl_owner' = Incremented(Unlocked, "RW_WRITE", p)
        /\ Hold(p, "write")
        /\ UNCHANGED <<pc, loc>>
     \/ /\ rwl_owner # Unlocked
        /\ Retry(p, "RW_WRITE", {})
        /\ UNCHANGED <<rwl_owner, held>>
  /\ UNCHANGED sleepVars

\* A caller enters rw_enter() itself; to downgrade it holds the write lock.
rw_enter(p) ==
  /\ pc[p] = "idle"
  /\ \E op \in {"RW_READ", "RW_WRITE", "RW_DOWNGRADE"}, flags \in SUBSET RwFlags :
       /\ <<p, op, flags>> \in Calls
       /\ held[p] = IF op = "RW_DOWNGRADE" THEN "write" ELSE "none"
       /\ Retry(p, op, flags)
  /\ UNCHANGED <<rwl_owner, held, sleepVars>>

\* The head of the while loop, with rw_enter_diag() and the EBUSY return.
rw_enter_retry(p) ==
  /\ pc[p] = "retry"
  /\ LET blocked == Blocked(rwl_owner, loc[p].op) IN
     \/ ~blocked /\ Load(p) /\ Goto(p, "cas")
     \/ blocked /\ HeldByMe(p) /\ Load(p) /\ Goto(p, "panic")
     \/ blocked /\ ~HeldByMe(p) /\ "RW_NOSLEEP" \in loc[p].flags /\ Return(p)
     \/ blocked /\ ~HeldByMe(p) /\ "RW_NOSLEEP" \notin loc[p].flags
          /\ Load(p) /\ Goto(p, "sleep_setup")
  /\ UNCHANGED <<rwl_owner, held, sleepVars>>

rw_enter_sleep_setup(p) ==
  /\ pc[p] = "sleep_setup"
  /\ sleep_setup(p, rwl)
  /\ LET intr == "RW_INTR" \in loc[p].flags IN
     /\ loc' = [loc EXCEPT ![p].do_sleep = TRUE, ![p].sig = TRUE, ![p].catch = intr]
     /\ p_sintr' = [p_sintr EXCEPT ![p] = intr]
     /\ Goto(p, IF intr THEN "sleep_setup_signal" ELSE "set_wait")
  /\ UNCHANGED <<rwl_owner, held, p_stat, p_siglist>>

\* sleep_setup_signal(): CURSIG() may stop the proc right here, on the sleep
\* queue, and looks for signals again once the proc runs.
sleep_setup_signal(p) ==
  /\ pc[p] = "sleep_setup_signal"
  /\ \/ /\ StopPending(p)
        /\ mi_switch(p, "SSTOP")
        /\ p_siglist' = [p_siglist EXCEPT ![p] = {}]
        /\ UNCHANGED <<p_wchan, loc, pc>>
     \/ /\ Resumed(p)
        /\ sched_lock' = p
        /\ UNCHANGED <<p_wchan, p_stat, p_siglist, loc, pc>>
     \/ /\ sched_lock = p /\ KeptSignal(p)
        /\ unsleep(p)
        /\ loc' = [loc EXCEPT ![p].do_sleep = FALSE]
        /\ Goto(p, "set_wait")
        /\ UNCHANGED <<sched_lock, p_stat, p_siglist>>
     \/ /\ sched_lock = p /\ p_siglist[p] = {}
        /\ loc' = [loc EXCEPT ![p].sig = FALSE,
                              ![p].catch = (p_wchan[p] # NoIdent),
                              ![p].do_sleep = (p_wchan[p] # NoIdent)]
        /\ Goto(p, "set_wait")
        /\ UNCHANGED <<sched_lock, p_wchan, p_stat, p_siglist>>
  /\ UNCHANGED <<rwl_owner, held, p_sintr>>

\* do_sleep = !rw_cas(&rwl->rwl_owner, o, o | wait_set)
rw_enter_set_wait(p) ==
  /\ pc[p] = "set_wait"
  /\ \/ /\ CasOk(p, [loc[p].o EXCEPT !.bits = @ \cup WaitSet(loc[p].op)])
        /\ loc' = [loc EXCEPT ![p].cas = TRUE]
     \/ /\ CasFails(p)
        /\ UNCHANGED loc
  /\ Goto(p, "sleep_finish")
  /\ UNCHANGED <<held, sleepVars>>

\* sleep_finish() up to mi_switch(), or without sleeping to its end.
rw_enter_sleep_finish(p) ==
  /\ pc[p] = "sleep_finish"
  /\ \/ /\ loc[p].do_sleep /\ loc[p].cas
        /\ mi_switch(p, "SSLEEP")
        /\ Goto(p, "asleep")
        /\ UNCHANGED <<p_wchan, p_sintr>>
     \/ /\ ~(loc[p].do_sleep /\ loc[p].cas)
        /\ sched_lock' = NoProc
        /\ IF loc[p].cas THEN UNCHANGED p_wchan ELSE unsleep(p)
        /\ p_sintr' = [p_sintr EXCEPT ![p] = FALSE]
        /\ Goto(p, "finish_signal")
        /\ UNCHANGED p_stat
  /\ UNCHANGED <<rwl_owner, loc, held, p_siglist>>

\* The rest of sleep_finish(), after mi_switch() returned.
rw_enter_resume(p) ==
  /\ pc[p] = "asleep" /\ Resumed(p)
  /\ p_sintr' = [p_sintr EXCEPT ![p] = FALSE]
  /\ Goto(p, "finish_signal")
  /\ UNCHANGED <<rwl_owner, loc, held, sched_lock, p_wchan, p_stat, p_siglist>>

\* sleep_finish_signal(), where CURSIG() may stop the proc once more, and
\* the EINTR and EAGAIN returns.
rw_enter_woken(p) ==
  /\ pc[p] = "finish_signal" /\ p_stat[p] = "SONPROC"
  /\ LET catch == loc[p].catch
         interrupted == catch /\ (loc[p].sig \/ KeptSignal(p)) IN
     \/ /\ catch /\ ~interrupted /\ StopPending(p)
        /\ sched_lock = NoProc
        /\ p_stat' = [p_stat EXCEPT ![p] = "SSTOP"]
        /\ p_siglist' = [p_siglist EXCEPT ![p] = {}]
        /\ UNCHANGED <<pc, loc>>
     \/ /\ interrupted \/ ~(catch /\ StopPending(p))
        /\ IF interrupted \/ "RW_SLEEPFAIL" \in loc[p].flags
             THEN Return(p)
             ELSE Retry(p, loc[p].op, loc[p].flags)
        /\ UNCHANGED <<p_stat, p_siglist>>
  /\ UNCHANGED <<rwl_owner, held, sched_lock, p_wchan, p_sintr>>

\* The acquiring CAS; a downgrade wakes the readers that wait.
rw_enter_cas(p) ==
  /\ pc[p] = "cas"
  /\ \/ /\ CasOk(p, Incremented(loc[p].o, loc[p].op, p))
        /\ Hold(p, Granted(loc[p].op))
        /\ WakeOrReturn(p, {"WRLOCK", "WAIT"} \subseteq loc[p].o.bits)
     \/ /\ CasFails(p)
        /\ Retry(p, loc[p].op, loc[p].flags)
        /\ UNCHANGED held
  /\ UNCHANGED sleepVars

rw_wakeup(p) ==
  /\ pc[p] = "wakeup"
  /\ wakeup(rwl)
  /\ Return(p)
  /\ UNCHANGED <<rwl_owner, held>>

-----------------------------------------------------------------------------
(* Releasing the lock. *)

\* rw_exit_read(): the load, the assertion and the choice of the slow path.
rw_exit_read(p) ==
  /\ pc[p] = "idle" /\ held[p] = "read"
  /\ Load(p)
  /\ Goto(p, IF ~HeldShared THEN "panic"
             ELSE IF "WAIT" \in rwl_owner.bits THEN "exit" ELSE "exit_read")
  /\ UNCHANGED <<rwl_owner, held, sleepVars>>

rw_exit_read_cas(p) ==
  /\ pc[p] = "exit_read"
  /\ \/ /\ CasOk(p, [loc[p].o EXCEPT !.readers = @ - 1])
        /\ Hold(p, "none")
        /\ Return(p)
     \/ /\ CasFails(p)
        /\ Goto(p, "exit")
        /\ UNCHANGED <<held, loc>>
  /\ UNCHANGED sleepVars

rw_exit_write(p) ==
  /\ pc[p] = "idle" /\ held[p] = "write"
  /\ Load(p)
  /\ Goto(p, IF ~HeldByMe(p) THEN "panic"
             ELSE IF "WAIT" \in rwl_owner.bits THEN "exit" ELSE "exit_write")
  /\ UNCHANGED <<rwl_owner, held, sleepVars>>

rw_exit_write_cas(p) ==
  /\ pc[p] = "exit_write"
  /\ \/ /\ CasOk(p, Unlocked)
        /\ Hold(p, "none")
        /\ Return(p)
     \/ /\ CasFails(p)
        /\ Goto(p, "exit")
        /\ UNCHANGED <<held, loc>>
  /\ UNCHANGED sleepVars

\* The head of rw_exit(), called directly or from the fast paths.
rw_exit(p) ==
  /\ pc[p] = "exit" \/ (pc[p] = "idle" /\ held[p] # "none")
  /\ loc' = [loc EXCEPT ![p] = [NoLocals EXCEPT
                                  !.wrlock = ("WRLOCK" \in rwl_owner.bits)]]
  /\ Goto(p, IF HeldByMe(p) \/ HeldShared THEN "exit_load" ELSE "panic")
  /\ UNCHANGED <<rwl_owner, held, sleepVars>>

rw_exit_load(p) ==
  /\ pc[p] = "exit_load"
  /\ Load(p)
  /\ Goto(p, "exit_cas")
  /\ UNCHANGED <<rwl_owner, held, sleepVars>>

\* Mutant: the releasing reader leaves the waiter bits set.
Released_KeepsWait(w, wrlock) ==
  IF wrlock THEN Unlocked ELSE [w EXCEPT !.readers = @ - 1]

Released(w, wrlock) ==
  IF wrlock THEN Unlocked
  ELSE [w EXCEPT !.readers = @ - 1, !.bits = @ \ {"WAIT", "WRWANT"}]

rw_exit_cas(p) ==
  /\ pc[p] = "exit_cas"
  /\ \/ /\ CasOk(p, Released(loc[p].o, loc[p].wrlock))
        /\ Hold(p, "none")
        /\ WakeOrReturn(p, "WAIT" \in loc[p].o.bits)
     \/ /\ CasFails(p)
        /\ Goto(p, "exit_load")
        /\ UNCHANGED <<held, loc>>
  /\ UNCHANGED sleepVars

-----------------------------------------------------------------------------
(* The rest of the system: signals arrive, and are taken when the thread   *)
(* returns to user mode.                                                   *)

postsig(p) ==
  /\ pc[p] = "idle" /\ held[p] = "none" /\ p_siglist[p] # {}
  /\ p_siglist' = [p_siglist EXCEPT ![p] = {}]
  /\ UNCHANGED <<lockVars, sched_lock, p_wchan, p_stat, p_sintr>>

Signal(p) ==
  /\ \/ p \in Signalled /\ \E kill \in BOOLEAN : ptsignal_int(p, kill)
     \/ p \in Stoppable /\ ptsignal_stop(p)
  /\ UNCHANGED lockVars

Continue(p) ==
  /\ p_stat[p] = "SSTOP" \/ "SIGTSTP" \in p_siglist[p]
  /\ ptsignal_cont(p)
  /\ UNCHANGED lockVars

EnterStep(p) ==
  \/ rw_enter_read_cas(p) \/ rw_enter_retry(p) \/ rw_enter_sleep_setup(p)
  \/ sleep_setup_signal(p) \/ rw_enter_set_wait(p) \/ rw_enter_sleep_finish(p)
  \/ rw_enter_resume(p) \/ rw_enter_woken(p) \/ rw_enter_cas(p) \/ rw_wakeup(p)

ExitStep(p) ==
  \/ rw_exit_read(p) \/ rw_exit_read_cas(p) \/ rw_exit_write(p)
  \/ rw_exit_write_cas(p) \/ rw_exit(p) \/ rw_exit_load(p) \/ rw_exit_cas(p)

Next ==
  \E p \in Procs :
    \/ rw_enter_read(p) \/ rw_enter_write(p) \/ rw_enter(p)
    \/ EnterStep(p) \/ ExitStep(p)
    \/ postsig(p) \/ Signal(p) \/ Continue(p)

Spec == Init /\ [][Next]_vars

\* A thread inside a lock function keeps running, a thread that holds the
\* lock releases it, and a stopped process is continued; nobody has to ask
\* for the lock, and nobody has to be sent a signal.  Strong fairness says
\* that a CPU that spins on SCHED_LOCK gets it, however often others do.
Fairness ==
  \A p \in Procs : SF_vars(EnterStep(p)) /\ WF_vars(ExitStep(p)) /\ WF_vars(Continue(p))

FairSpec == Spec /\ Fairness

-----------------------------------------------------------------------------
(* Properties. *)

\* Whatever the interleaving of the compare-and-swaps, a writer is alone.
MutualExclusion ==
  \A p \in Procs : held[p] = "write" => \A q \in Procs \ {p} : held[q] = "none"

\* rwlock.h: "it's not possible to have owner/read count unset and waiter
\* bits set"; rw_enter_write()'s CAS from 0 relies on it.
WaitBitsNeedHolder ==
  rwl_owner.bits # {} => \E p \in Procs : held[p] # "none"

\* A thread that set RWLOCK_WAIT and gave up its CPU in sleep_finish() will be
\* taken off the sleep queue: RWLOCK_WAIT is still set, so that the next
\* release calls wakeup(), or a thread that cleared it is about to call it.
\* Being stopped and continued on the queue does not change that.
NoLostWakeup ==
  \A p \in Procs :
    (pc[p] = "asleep" /\ p_wchan[p] = rwl) =>
      \/ "WAIT" \in rwl_owner.bits
      \/ \E q \in Procs : pc[q] = "wakeup"

\* rw_assert_wrlock(), rw_assert_rdlock() and rw_enter_diag() never panic on
\* callers that release only what they hold and do not lock recursively,
\* although other CPUs change the word between the caller's steps.
NoPanic == \A p \in Procs : pc[p] # "panic"

\* A sleeper does not sleep for ever once holders release.
SleepersRun ==
  \A p \in Procs : (p_stat[p] = "SSLEEP") ~> (p_stat[p] = "SONPROC")

\* The same of the threads that job control leaves alone: whoever releases the
\* lock wakes them, although a third thread that waits with them is interrupted
\* by signals, or stopped and continued, at any point of rw_enter().
OthersRun ==
  \A p \in Procs \ Stoppable : (p_stat[p] = "SSLEEP") ~> (p_stat[p] = "SONPROC")

\* The lock word, its waiter bits and the sleep queue implement the lock that
\* RwLockSpec describes: a step changes who holds the lock only in the ways
\* it allows.
Abs == INSTANCE RwLockSpec
Implements == Abs!LockSpec
=============================================================================
