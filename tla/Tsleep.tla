------------------------------ MODULE Tsleep ------------------------------
(***************************************************************************)
(* Sleeping with a timeout: tsleep() and endtsleep() of                    *)
(* sys/kern/kern_synch.c on the sleep queues and on timeouts, and the      *)
(* system calls __thrsleep() and __thrwakeup() that threads in user mode   *)
(* build their locks on.                                                   *)
(*                                                                         *)
(* p_sleep_to of proc p is the timeout p, and the identifier              *)
(* &p->p_thrslpid is p.  A thread runs in the kernel with the kernel lock  *)
(* and gives it up where it sleeps.  softclock() has it too while it calls *)
(* endtsleep(); it interrupts whoever has it, unless that thread is at     *)
(* splsched(), and then that thread waits.  ps_single is 0: nobody         *)
(* suspends the threads of the process.                                    *)
(***************************************************************************)
EXTENDS Sleep, TimeoutSpec

CONSTANTS chan,           \* the identifier of a tsleep() in the kernel
          globalsleepaddr,
          ThrIdents,      \* the idents of __thrsleep() besides -1
          Signalled,      \* procs that are sent signals
          Stoppable       \* procs that job control may stop

ASSUME TsleepAssumption ==
  /\ Timeouts = Procs /\ NoTimeout \notin Procs
  /\ Idents = {chan, globalsleepaddr} \cup Procs
  /\ chan # globalsleepaddr /\ {chan, globalsleepaddr} \cap Procs = {}
  /\ Signalled \cup Stoppable \subseteq Procs
  /\ Durations \subseteq Nat \ {0} /\ {-1, 0} \cap ThrIdents = {}

VARIABLES
  p_timeout,    \* the procs with P_TIMEOUT
  p_thrslpid,   \* p_thrslpid[p]: an ident, or 0
  kernel_lock,  \* the proc that has it, or NoProc
  pc,           \* where each thread is; "user" is outside the kernel
  loc,          \* its locals
  error,        \* error[p]: what tsleep() returned in its last system call
  offqueue      \* ghost: who took p off the sleep queue

tsleepVars == <<p_timeout, p_thrslpid, kernel_lock, pc, loc, error, offqueue>>
vars == <<tsleepVars, sleepVars, left, called>>

\* ident and timo: the arguments of tsleep(); catch, do_sleep, sig: struct
\* sleep_state; thr: called from thrsleep(); error1: what
\* sleep_finish_timeout() returned.
NoLocals == [ident |-> NoIdent, timo |-> 0, catch |-> FALSE, do_sleep |-> FALSE,
             sig |-> FALSE, thr |-> FALSE, error1 |-> "0"]

Init ==
  /\ SleepInit /\ SpecInit
  /\ p_timeout = {}
  /\ p_thrslpid = [p \in Procs |-> 0]
  /\ kernel_lock = NoProc
  /\ pc = [p \in Procs |-> "user"]
  /\ loc = [p \in Procs |-> NoLocals]
  /\ error = [p \in Procs |-> "none"]
  /\ offqueue = [p \in Procs |-> "nobody"]

-----------------------------------------------------------------------------

Goto(p, label) == pc' = [pc EXCEPT ![p] = label]

\* p has the kernel lock, or gets it, and softclock() does not interrupt it.
Locked(p) ==
  /\ p_stat[p] = "SONPROC"
  /\ kernel_lock \in {NoProc, p} /\ called = NoTimeout

Keep(p, keeps) == kernel_lock' = IF keeps THEN p ELSE NoProc

TakenOff(p, who) == offqueue' = [offqueue EXCEPT ![p] = who]

Forget(p) == error' = [error EXCEPT ![p] = "none"] /\ TakenOff(p, "nobody")

\* wakeup(ident) from anywhere.
Wakeup(ident) ==
  /\ wakeup(ident)
  /\ offqueue' = [p \in Procs |-> IF p_wchan[p] = ident THEN "wakeup" ELSE offqueue[p]]
  /\ UNCHANGED <<p_timeout, p_thrslpid, kernel_lock, pc, loc, error, left, called>>

-----------------------------------------------------------------------------
(* thrsleep(). *)

Call_tsleep(p, ident, timo, catch, thr) ==
  /\ Goto(p, "sleep_setup")
  /\ loc' = [loc EXCEPT ![p] = [NoLocals EXCEPT !.ident = ident, !.timo = timo,
                                                !.catch = catch, !.thr = thr]]

\* A system call sleeps for something in the kernel.
tsleep(p) ==
  /\ pc[p] = "user" /\ Locked(p)
  /\ \E timo \in {0} \cup Durations, catch \in BOOLEAN :
       Call_tsleep(p, chan, timo, catch, FALSE)
  /\ Keep(p, TRUE) /\ Forget(p)
  /\ UNCHANGED <<p_timeout, p_thrslpid, sleepVars, left, called>>

\* The arguments were copied in and the time has not passed yet.
thrsleep(p) ==
  /\ pc[p] = "user" /\ Locked(p)
  /\ \E ident \in ThrIdents \cup {-1}, timo \in {0} \cup Durations :
       /\ p_thrslpid' = [p_thrslpid EXCEPT ![p] = ident]
       /\ loc' = [loc EXCEPT ![p] = [NoLocals EXCEPT !.timo = timo, !.thr = TRUE,
            !.ident = IF ident = -1 THEN globalsleepaddr ELSE p]]
  /\ Goto(p, "unlock") /\ Keep(p, TRUE) /\ Forget(p)
  /\ UNCHANGED <<p_timeout, sleepVars, left, called>>

\* thrsleep_unlock() and the look at *abort: a copyin() or copyout() may
\* fault, sleep for the page and fail.
thrsleep_unlock(p) ==
  /\ pc[p] = "unlock" /\ Locked(p)
  /\ \E keeps \in BOOLEAN : Keep(p, keeps)
  /\ Goto(p, "unlocked") \/ Goto(p, "out")
  /\ UNCHANGED <<p_timeout, p_thrslpid, loc, error, offqueue, sleepVars, left, called>>

\* Mutant: p_thrslpid is not looked at again.
thrsleep_test_Skipped(p) ==
  /\ pc[p] = "unlocked" /\ Locked(p)
  /\ Call_tsleep(p, loc[p].ident, loc[p].timo, TRUE, TRUE)
  /\ Keep(p, TRUE)
  /\ UNCHANGED <<p_timeout, p_thrslpid, error, offqueue, sleepVars, left, called>>

thrsleep_test(p) ==
  /\ pc[p] = "unlocked" /\ Locked(p)
  /\ IF p_thrslpid[p] = 0
       THEN Goto(p, "out") /\ UNCHANGED loc
       ELSE Call_tsleep(p, loc[p].ident, loc[p].timo, TRUE, TRUE)
  /\ Keep(p, TRUE)
  /\ UNCHANGED <<p_timeout, p_thrslpid, error, offqueue, sleepVars, left, called>>

thrsleep_out(p) ==
  /\ pc[p] = "out" /\ Locked(p)
  /\ p_thrslpid' = [p_thrslpid EXCEPT ![p] = 0]
  /\ loc' = [loc EXCEPT ![p] = NoLocals]
  /\ Goto(p, "user") /\ Keep(p, FALSE)
  /\ UNCHANGED <<p_timeout, error, offqueue, sleepVars, left, called>>

\* __thrwakeup() of another thread, under the kernel lock: n of the threads
\* that wait for ident; ps_threads may have any order.
thrwakeup(ident, n) ==
  LET waiting == {q \in Procs : p_thrslpid[q] = ident} IN
  /\ kernel_lock = NoProc /\ called = NoTimeout /\ sched_lock = NoProc
  /\ \E qs \in SUBSET waiting :
       /\ Cardinality(qs) = IF Cardinality(waiting) < n THEN Cardinality(waiting) ELSE n
       /\ LET asleep == {q \in qs : p_wchan[q] = q} IN
          /\ WakeAll(asleep)
          /\ offqueue' = [q \in Procs |-> IF q \in asleep THEN "wakeup" ELSE offqueue[q]]
       /\ p_thrslpid' = [q \in Procs |-> IF q \in qs THEN 0 ELSE p_thrslpid[q]]
  /\ UNCHANGED <<p_timeout, kernel_lock, pc, loc, error, sched_lock, p_sintr, p_siglist,
                 left, called>>

\* __thrwakeup() with ident -1.
thrwakeup_global ==
  /\ kernel_lock = NoProc /\ called = NoTimeout
  /\ Wakeup(globalsleepaddr)

-----------------------------------------------------------------------------
(* tsleep(). *)

\* sleep_setup(), sleep_setup_timeout() and the head of sleep_setup_signal(),
\* under SCHED_LOCK.
tsleep_setup(p) ==
  /\ pc[p] = "sleep_setup" /\ Locked(p)
  /\ sleep_setup(p, loc[p].ident)
  /\ IF loc[p].timo = 0 THEN UNCHANGED left ELSE Schedule(p, loc[p].timo)
  /\ p_sintr' = [p_sintr EXCEPT ![p] = loc[p].catch]
  /\ loc' = [loc EXCEPT ![p].do_sleep = TRUE, ![p].sig = TRUE]
  /\ Goto(p, IF loc[p].catch THEN "setup_signal" ELSE "sleep_finish") /\ Keep(p, TRUE)
  /\ UNCHANGED <<p_timeout, p_thrslpid, error, offqueue, p_stat, p_siglist, called>>

\* The rest of sleep_setup_signal(): CURSIG() may stop the proc on the sleep
\* queue, and looks for signals again once the proc runs.
sleep_setup_signal(p) ==
  /\ pc[p] = "setup_signal"
  /\ \/ /\ sched_lock = p /\ StopPending(p)
        /\ mi_switch(p, "SSTOP") /\ Keep(p, FALSE)
        /\ p_siglist' = [p_siglist EXCEPT ![p] = {}]
        /\ UNCHANGED <<p_wchan, loc, pc, offqueue>>
     \/ /\ sched_lock # p /\ Resumed(p) /\ Locked(p)
        /\ sched_lock' = p /\ Keep(p, TRUE)
        /\ UNCHANGED <<p_wchan, p_stat, p_siglist, loc, pc, offqueue>>
     \/ /\ sched_lock = p /\ KeptSignal(p)
        /\ unsleep(p)
        /\ IF p_wchan[p] = NoIdent THEN UNCHANGED offqueue ELSE TakenOff(p, "signal")
        /\ loc' = [loc EXCEPT ![p].do_sleep = FALSE]
        /\ Goto(p, "sleep_finish")
        /\ UNCHANGED <<sched_lock, p_stat, p_siglist, kernel_lock>>
     \/ /\ sched_lock = p /\ p_siglist[p] = {}
        /\ LET waits == p_wchan[p] # NoIdent IN
           loc' = [loc EXCEPT ![p].sig = FALSE, ![p].catch = waits, ![p].do_sleep = waits]
        /\ Goto(p, "sleep_finish")
        /\ UNCHANGED <<sched_lock, p_wchan, p_stat, p_siglist, kernel_lock, offqueue>>
  /\ UNCHANGED <<p_timeout, p_thrslpid, error, p_sintr, left, called>>

\* sleep_finish(sls, 1) up to mi_switch(), or to its end.
sleep_finish(p) ==
  /\ pc[p] = "sleep_finish"
  /\ \/ /\ loc[p].do_sleep
        /\ mi_switch(p, "SSLEEP") /\ Keep(p, FALSE)
        /\ Goto(p, "asleep")
        /\ UNCHANGED p_sintr
     \/ /\ ~loc[p].do_sleep
        /\ sched_lock' = NoProc
        /\ p_sintr' = [p_sintr EXCEPT ![p] = FALSE]
        /\ Goto(p, "finish_timeout")
        /\ UNCHANGED <<p_stat, kernel_lock>>
  /\ UNCHANGED <<p_timeout, p_thrslpid, loc, error, offqueue, p_wchan, p_siglist, left, called>>

\* The rest of sleep_finish(): mi_switch() returns with the kernel lock.
sleep_finish_resumed(p) ==
  /\ pc[p] = "asleep" /\ Resumed(p) /\ Locked(p)
  /\ p_sintr' = [p_sintr EXCEPT ![p] = FALSE]
  /\ Goto(p, "finish_timeout") /\ Keep(p, TRUE)
  /\ UNCHANGED <<p_timeout, p_thrslpid, loc, error, offqueue, sched_lock, p_wchan, p_stat,
                 p_siglist, left, called>>

\* Mutant: the timeout is left pending when the proc was woken.
sleep_finish_timeout_NoDel(p) ==
  /\ pc[p] = "finish_timeout" /\ Locked(p)
  /\ p_timeout' = p_timeout \ {p}
  /\ loc' = [loc EXCEPT ![p].error1 = IF p \in p_timeout THEN "EWOULDBLOCK" ELSE "0"]
  /\ Goto(p, "finish_signal") /\ Keep(p, TRUE)
  /\ UNCHANGED <<p_thrslpid, error, offqueue, sleepVars, left, called>>

sleep_finish_timeout(p) ==
  /\ pc[p] = "finish_timeout" /\ Locked(p)
  /\ \/ /\ p \in p_timeout
        /\ p_timeout' = p_timeout \ {p}
        /\ loc' = [loc EXCEPT ![p].error1 = "EWOULDBLOCK"]
        /\ UNCHANGED left
     \/ /\ p \notin p_timeout
        /\ Cancel(p)
        /\ UNCHANGED <<p_timeout, loc>>
  /\ Goto(p, "finish_signal") /\ Keep(p, TRUE)
  /\ UNCHANGED <<p_thrslpid, error, offqueue, sleepVars, called>>

\* sleep_finish_signal(), where CURSIG() may stop the proc once more, and the
\* return of tsleep().
sleep_finish_signal(p) ==
  LET catch == loc[p].catch
      interrupted == catch /\ (loc[p].sig \/ KeptSignal(p)) IN
  /\ pc[p] = "finish_signal" /\ Locked(p)
  /\ \/ /\ catch /\ ~interrupted /\ StopPending(p) /\ sched_lock = NoProc
        /\ p_stat' = [p_stat EXCEPT ![p] = "SSTOP"] /\ Keep(p, FALSE)
        /\ p_siglist' = [p_siglist EXCEPT ![p] = {}]
        /\ UNCHANGED <<pc, loc, error>>
     \/ /\ interrupted \/ ~(catch /\ StopPending(p))
        /\ error' = [error EXCEPT ![p] = IF interrupted THEN "EINTR" ELSE loc[p].error1]
        /\ loc' = [loc EXCEPT ![p] = NoLocals]
        /\ Goto(p, IF loc[p].thr THEN "out" ELSE "user") /\ Keep(p, loc[p].thr)
        /\ UNCHANGED <<p_stat, p_siglist>>
  /\ UNCHANGED <<p_timeout, p_thrslpid, offqueue, sched_lock, p_wchan, p_sintr, left, called>>

-----------------------------------------------------------------------------
(* The clock. *)

hardclock ==
  /\ \E p \in Procs : left[p] > 0
  /\ Advance(1)
  /\ UNCHANGED <<tsleepVars, sleepVars, called>>

\* softintr_dispatch() gets the kernel lock, or interrupts who has it.
CanInterrupt == kernel_lock = NoProc \/ sched_lock # kernel_lock

\* softclock() takes p_sleep_to off its queue.
softclock(p) ==
  /\ CanInterrupt
  /\ Call(p)
  /\ UNCHANGED <<tsleepVars, sleepVars>>

\* Mutant: P_TIMEOUT is set although the proc was woken before.
endtsleep_Always(p) ==
  /\ called = p /\ sched_lock = NoProc
  /\ Return
  /\ IF p_stat[p] = "SSLEEP" THEN setrunnable(p) ELSE unsleep(p) /\ UNCHANGED p_stat
  /\ p_timeout' = p_timeout \cup {p}
  /\ UNCHANGED <<p_thrslpid, kernel_lock, pc, loc, error, offqueue, sched_lock, p_sintr,
                 p_siglist, left>>

\* Mutant: a stopped proc keeps its place on the sleep queue.
endtsleep_Asleep(p) ==
  /\ called = p /\ sched_lock = NoProc
  /\ Return
  /\ IF p_stat[p] = "SSLEEP"
       THEN setrunnable(p) /\ p_timeout' = p_timeout \cup {p} /\ TakenOff(p, "timeout")
       ELSE UNCHANGED <<p_wchan, p_stat, p_timeout, offqueue>>
  /\ UNCHANGED <<p_thrslpid, kernel_lock, pc, loc, error, sched_lock, p_sintr, p_siglist, left>>

\* The function of p_sleep_to; softclock() returns.
endtsleep(p) ==
  /\ called = p /\ sched_lock = NoProc
  /\ Return
  /\ \/ /\ p_wchan[p] # NoIdent
        /\ IF p_stat[p] = "SSLEEP" THEN setrunnable(p) ELSE unsleep(p) /\ UNCHANGED p_stat
        /\ p_timeout' = p_timeout \cup {p}
        /\ TakenOff(p, "timeout")
     \/ /\ p_wchan[p] = NoIdent
        /\ UNCHANGED <<p_wchan, p_stat, p_timeout, offqueue>>
  /\ UNCHANGED <<p_thrslpid, kernel_lock, pc, loc, error, sched_lock, p_sintr, p_siglist, left>>

-----------------------------------------------------------------------------
(* Signals; they are taken when the thread returns to user mode. *)

postsig(p) ==
  /\ pc[p] = "user" /\ p_siglist[p] # {} /\ p_stat[p] = "SONPROC"
  /\ p_siglist' = [p_siglist EXCEPT ![p] = {}]
  /\ UNCHANGED <<tsleepVars, sched_lock, p_wchan, p_stat, p_sintr, left, called>>

Signal(p) ==
  /\ \/ p \in Signalled /\ \E kill \in BOOLEAN : ptsignal_int(p, kill)
     \/ p \in Stoppable /\ ptsignal_stop(p)
  /\ IF p_wchan[p] # p_wchan'[p] THEN TakenOff(p, "signal") ELSE UNCHANGED offqueue
  /\ UNCHANGED <<p_timeout, p_thrslpid, kernel_lock, pc, loc, error, left, called>>

Continue(p) ==
  /\ p_stat[p] = "SSTOP" \/ "SIGTSTP" \in p_siglist[p]
  /\ ptsignal_cont(p)
  /\ UNCHANGED <<tsleepVars, left, called>>

-----------------------------------------------------------------------------

SleepStep(p) ==
  \/ tsleep_setup(p) \/ sleep_setup_signal(p) \/ sleep_finish(p) \/ sleep_finish_resumed(p)
  \/ sleep_finish_timeout(p) \/ sleep_finish_signal(p)
  \/ thrsleep_unlock(p) \/ thrsleep_test(p) \/ thrsleep_out(p)

Next ==
  \/ \E p \in Procs :
       \/ tsleep(p) \/ thrsleep(p) \/ SleepStep(p)
       \/ softclock(p) \/ endtsleep(p)
       \/ postsig(p) \/ Signal(p) \/ Continue(p)
  \/ hardclock \/ Wakeup(chan) \/ thrwakeup_global
  \/ \E ident \in ThrIdents, n \in 1 .. Cardinality(Procs) : thrwakeup(ident, n)

Spec == Init /\ [][Next]_vars

\* A thread in the kernel runs and gets the kernel lock in its turn, the clock
\* ticks, due timeouts are called and stopped processes are continued.  Nobody
\* has to sleep, and nobody has to wake a sleeper.
FairSpec ==
  /\ Spec
  /\ WF_vars(hardclock)
  /\ \A p \in Procs :
       /\ SF_vars(SleepStep(p)) /\ SF_vars(softclock(p)) /\ WF_vars(endtsleep(p))
       /\ SF_vars(Continue(p))

-----------------------------------------------------------------------------
(* Properties. *)

\* Where a thread is inside tsleep(), between its sleep_setup_timeout() and
\* its sleep_finish_timeout().
InSleep(p) == pc[p] \in {"setup_signal", "sleep_finish", "asleep", "finish_timeout"}

\* A timeout is of the sleep it was set for: once tsleep() returned, or in a
\* sleep without a timeout, p_sleep_to is not pending, P_TIMEOUT is not set
\* and no endtsleep() is on its way that would end a later sleep.
OwnTimeout ==
  \A p \in Procs :
    Pending(p) \/ p \in p_timeout \/ called = p => InSleep(p) /\ loc[p].timo # 0

\* The comment on tsleep(): "Returns 0 if awakened, EWOULDBLOCK if the timeout
\* expires".  Who took the proc off the queue first decides, also when a
\* wakeup, the timeout, signals and a stop meet.
HonestResult ==
  \A p \in Procs : pc[p] \in {"user", "out"} =>
    /\ error[p] = "0" => offqueue[p] = "wakeup"
    /\ error[p] = "EWOULDBLOCK" => offqueue[p] = "timeout"

\* A thread that __thrwakeup() counted, and whose p_thrslpid it cleared, does
\* not stay asleep, also when it was still on its way to tsleep(), faulting
\* on the lock it had to release.
NoLostThrwakeup == \A p \in Procs : p_wchan[p] = p => p_thrslpid[p] # 0

\* A sleep with a timeout ends, whoever else is woken, stopped or signalled,
\* unless its thread is stopped again and again.
TimedSleepEnds ==
  \A p \in Procs :
    \/ (InSleep(p) /\ loc[p].timo # 0) ~> ~InSleep(p)
    \/ []<><<Signal(p)>>_vars
=============================================================================
