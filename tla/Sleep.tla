------------------------------- MODULE Sleep -------------------------------
(***************************************************************************)
(* The sleep queues of sys/kern/kern_synch.c and the part of               *)
(* sys/kern/kern_sig.c that moves a sleeping thread: what every sleeping   *)
(* lock and every worker thread of the kernel is built on.                 *)
(*                                                                         *)
(* A proc that can run has a CPU of its own, so SRUN and SONPROC are one   *)
(* state.  The hashed TAILQ slpque is the set of procs whose p_wchan is    *)
(* set: wakeup() takes all of them, and which proc wakeup_one() meets      *)
(* first is left open.  SCHED_LOCK sections that run to their end without  *)
(* touching anything else are one step; sched_lock is a variable because   *)
(* rw_enter() works on its lock word between sleep_setup() and             *)
(* sleep_finish().                                                         *)
(***************************************************************************)
EXTENDS Naturals, FiniteSets

CONSTANTS Procs,      \* struct proc
          NoProc,     \* no proc: SCHED_LOCK is free
          Idents,     \* sleep identifiers (wait channels)
          NoIdent     \* p_wchan == NULL

ASSUME SleepAssumption == NoProc \notin Procs /\ NoIdent \notin Idents

VARIABLES
  sched_lock,   \* the proc inside a SCHED_LOCK section that spans steps
  p_wchan,      \* p_wchan[p]: what p waits for, and membership of slpque
  p_stat,       \* "SONPROC", "SSLEEP" or "SSTOP"
  p_sintr,      \* P_SINTR: the sleep can be broken by a signal
  p_siglist     \* pending signals

sleepVars == <<sched_lock, p_wchan, p_stat, p_sintr, p_siglist>>

\* SIGINT stands for every signal that is caught or terminates, SIGTSTP for
\* the stop signals with their default action.
Signals == {"SIGINT", "SIGTSTP"}

SleepTypeOK ==
  /\ sched_lock \in Procs \cup {NoProc}
  /\ p_wchan \in [Procs -> Idents \cup {NoIdent}]
  /\ p_stat \in [Procs -> {"SONPROC", "SSLEEP", "SSTOP"}]
  /\ p_sintr \in [Procs -> BOOLEAN]
  /\ p_siglist \in [Procs -> SUBSET Signals]

SleepInit ==
  /\ sched_lock = NoProc
  /\ p_wchan = [p \in Procs |-> NoIdent]
  /\ p_stat = [p \in Procs |-> "SONPROC"]
  /\ p_sintr = [p \in Procs |-> FALSE]
  /\ p_siglist = [p \in Procs |-> {}]

slpque(ident) == {p \in Procs : p_wchan[p] = ident}

-----------------------------------------------------------------------------
(* Going to sleep. *)

\* Takes SCHED_LOCK and keeps it; the proc is on the queue but still runs.
sleep_setup(p, ident) ==
  /\ sched_lock = NoProc
  /\ sched_lock' = p
  /\ p_wchan' = [p_wchan EXCEPT ![p] = ident]

\* mi_switch() to another proc: the CPU and SCHED_LOCK are given up.
mi_switch(p, stat) ==
  /\ sched_lock = p
  /\ sched_lock' = NoProc
  /\ p_stat' = [p_stat EXCEPT ![p] = stat]

\* mi_switch() returns once the proc has a CPU again and has re-taken
\* SCHED_LOCK.
Resumed(p) == p_stat[p] = "SONPROC" /\ sched_lock = NoProc

\* msleep() without PCATCH and without a timeout, up to mi_switch(): the proc
\* joins the queue, leaves its mutex and gives up its CPU in one SCHED_LOCK
\* section.
msleep(p, ident) ==
  /\ sched_lock = NoProc
  /\ p_wchan' = [p_wchan EXCEPT ![p] = ident]
  /\ p_stat' = [p_stat EXCEPT ![p] = "SSLEEP"]
  /\ UNCHANGED <<sched_lock, p_sintr, p_siglist>>

unsleep(p) == p_wchan' = [p_wchan EXCEPT ![p] = NoIdent]

-----------------------------------------------------------------------------
(* Being woken. *)

\* Every proc of ps leaves the queue; the ones that slept run, the stopped
\* ones stay stopped.
WakeAll(ps) ==
  /\ p_wchan' = [p \in Procs |-> IF p \in ps THEN NoIdent ELSE p_wchan[p]]
  /\ p_stat' = [p \in Procs |-> IF p \in ps /\ p_stat[p] = "SSLEEP"
                                  THEN "SONPROC" ELSE p_stat[p]]

wakeup(ident) ==
  /\ sched_lock = NoProc
  /\ WakeAll(slpque(ident))
  /\ UNCHANGED <<sched_lock, p_sintr, p_siglist>>

\* wakeup_n(ident, 1).
wakeup_one(ident) ==
  /\ sched_lock = NoProc
  /\ \/ slpque(ident) = {} /\ UNCHANGED <<p_wchan, p_stat>>
     \/ \E p \in slpque(ident) : WakeAll({p})
  /\ UNCHANGED <<sched_lock, p_sintr, p_siglist>>

setrunnable(p) ==
  /\ p_stat' = [p_stat EXCEPT ![p] = "SONPROC"]
  /\ unsleep(p)

-----------------------------------------------------------------------------
(* Signals. *)

\* A signal that CURSIG() returns instead of acting on it.  ffs() takes the
\* lowest number first, and SIGTSTP comes after the signals kept.
KeptSignal(p) == "SIGINT" \in p_siglist[p]

StopPending(p) == p_siglist[p] = {"SIGTSTP"}

\* A caught or terminating signal is posted; kill says that it is SIGKILL,
\* which alone makes a stopped proc run.
ptsignal_int(p, kill) ==
  /\ sched_lock = NoProc
  /\ p_siglist' = [p_siglist EXCEPT ![p] = @ \cup {"SIGINT"}]
  /\ \/ /\ (p_stat[p] = "SSLEEP" /\ p_sintr[p]) \/ (p_stat[p] = "SSTOP" /\ kill)
        /\ setrunnable(p)
     \/ /\ p_stat[p] = "SSTOP" /\ ~kill
        /\ IF p_sintr[p] THEN unsleep(p) ELSE UNCHANGED p_wchan
        /\ UNCHANGED p_stat
     \/ /\ p_stat[p] = "SONPROC" \/ (p_stat[p] = "SSLEEP" /\ ~p_sintr[p])
        /\ UNCHANGED <<p_wchan, p_stat>>
  /\ UNCHANGED <<sched_lock, p_sintr>>

\* A stop signal is posted: an interruptible sleeper stops where it is
\* (proc_stop(p, 0)) and keeps its place on the sleep queue.
ptsignal_stop(p) ==
  /\ sched_lock = NoProc
  /\ \/ /\ p_stat[p] = "SSLEEP" /\ p_sintr[p]
        /\ p_stat' = [p_stat EXCEPT ![p] = "SSTOP"]
        /\ UNCHANGED p_siglist
     \/ /\ p_stat[p] = "SONPROC" \/ (p_stat[p] = "SSLEEP" /\ ~p_sintr[p])
        /\ p_siglist' = [p_siglist EXCEPT ![p] = @ \cup {"SIGTSTP"}]
        /\ UNCHANGED p_stat
  /\ UNCHANGED <<sched_lock, p_wchan, p_sintr>>

\* SIGCONT with its default action: a stopped proc that still waits for
\* something goes back to sleep without running.
ptsignal_cont(p) ==
  /\ sched_lock = NoProc
  /\ p_siglist' = [p_siglist EXCEPT ![p] = @ \ {"SIGTSTP"}]
  /\ p_stat' = [p_stat EXCEPT ![p] =
                  IF @ # "SSTOP" THEN @
                  ELSE IF p_wchan[p] = NoIdent THEN "SONPROC" ELSE "SSLEEP"]
  /\ UNCHANGED <<sched_lock, p_wchan, p_sintr>>
=============================================================================
