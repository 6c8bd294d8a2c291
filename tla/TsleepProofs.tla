--------------------------- MODULE TsleepProofs ---------------------------
(***************************************************************************)
(* Proofs about Tsleep: timed sleeps and __thrsleep(), for any number of   *)
(* threads, identifiers and durations.                                     *)
(***************************************************************************)
EXTENDS Tsleep, TLAPS

\* Leaves are first-order steps for Zenon, unless they cite SMT.
USE ZenonT(30)

Pcs == {"user", "unlock", "unlocked", "out", "sleep_setup", "setup_signal", "sleep_finish",
        "asleep", "finish_timeout", "finish_signal"}
Locals == [ident : Idents \cup {NoIdent}, timo : {0} \cup Durations, catch : BOOLEAN,
           do_sleep : BOOLEAN, sig : BOOLEAN, thr : BOOLEAN, error1 : {"0", "EWOULDBLOCK"}]

TypeOK ==
  /\ SleepTypeOK
  /\ left \in [Procs -> Nat \cup {NotPending}] /\ called \in Procs \cup {NoTimeout}
  /\ p_timeout \subseteq Procs
  /\ p_thrslpid \in [Procs -> ThrIdents \cup {-1, 0}]
  /\ kernel_lock \in Procs \cup {NoProc}
  /\ pc \in [Procs -> Pcs] /\ loc \in [Procs -> Locals]
  /\ error \in [Procs -> {"none", "0", "EWOULDBLOCK", "EINTR"}]
  /\ offqueue \in [Procs -> {"nobody", "wakeup", "timeout", "signal"}]

\* The kernel lock is kept from the last look at p_thrslpid to sleep_setup(),
\* and with SCHED_LOCK up to mi_switch().
Locks(p) ==
  /\ pc[p] = "sleep_setup" => kernel_lock = p
  /\ pc[p] = "sleep_finish" => sched_lock = p
  /\ sched_lock = p => kernel_lock = p /\ pc[p] \in {"setup_signal", "sleep_finish"}

\* Who is on a sleep queue is between sleep_setup() and the end of mi_switch(),
\* and only a sleep with PCATCH can be stopped or broken by a signal there.
Queue(p) ==
  /\ p_wchan[p] # NoIdent => /\ pc[p] \in {"setup_signal", "sleep_finish", "asleep"}
                             /\ p_sintr[p] \/ p_stat[p] = "SSTOP" => loc[p].catch
  /\ pc[p] = "sleep_finish" /\ ~loc[p].do_sleep => p_wchan[p] = NoIdent
  /\ pc[p] = "asleep" /\ p_stat[p] = "SONPROC" => p_wchan[p] = NoIdent
  /\ pc[p] = "setup_signal" => loc[p].catch

\* Whose p_thrslpid is cleared is neither asleep nor about to sleep on it.
Thr(p) ==
  (pc[p] = "sleep_setup" /\ loc[p].ident = p) \/ p_wchan[p] = p => p_thrslpid[p] # 0

\* p_sleep_to is pending, or its function runs, or P_TIMEOUT is set: at most
\* one of them, and only in the sleep that asked for it.
Timer(p) ==
  /\ Pending(p) \/ p \in p_timeout \/ called = p => InSleep(p) /\ loc[p].timo # 0
  /\ p \in p_timeout => ~Pending(p) /\ called # p
  /\ called = p => ~Pending(p)

\* Until tsleep() returns: who took the proc off its queue, and what is kept
\* of it in p_siglist, in P_TIMEOUT and then in error1.
Taken(p) ==
  /\ pc[p] \notin {"user", "out"} => error[p] = "none"
  /\ pc[p] \in {"unlock", "unlocked", "sleep_setup"} =>
       offqueue[p] = "nobody" /\ loc[p].ident # NoIdent /\ loc[p].error1 = "0"
  /\ InSleep(p) \/ pc[p] = "finish_signal" =>
       /\ p_wchan[p] # NoIdent <=> offqueue[p] = "nobody"
       /\ offqueue[p] = "signal" => loc[p].catch /\ "SIGINT" \in p_siglist[p]
  /\ InSleep(p) => /\ offqueue[p] = "timeout" <=> p \in p_timeout
                   /\ loc[p].error1 = "0"
  /\ pc[p] = "finish_signal" =>
       (offqueue[p] = "timeout" <=> loc[p].error1 = "EWOULDBLOCK")

\* What tsleep() returned.
Result(p) ==
  pc[p] \in {"user", "out"} => /\ error[p] = "0" => offqueue[p] = "wakeup"
                               /\ error[p] = "EWOULDBLOCK" => offqueue[p] = "timeout"

ProcInv(p) == Locks(p) /\ Queue(p) /\ Thr(p) /\ Timer(p) /\ Taken(p) /\ Result(p)

IInv == TypeOK /\ \A p \in Procs : ProcInv(p)

-----------------------------------------------------------------------------
(* Lemmas about one step. *)

\* A step leaves the part of the state that ProcInv(q) is about alone.
Same(q) ==
  /\ pc'[q] = pc[q] /\ loc'[q] = loc[q] /\ error'[q] = error[q]
  /\ offqueue'[q] = offqueue[q] /\ p_wchan'[q] = p_wchan[q] /\ p_stat'[q] = p_stat[q]
  /\ p_sintr'[q] = p_sintr[q] /\ p_thrslpid'[q] = p_thrslpid[q]
  /\ left'[q] = NotPending <=> left[q] = NotPending
  /\ "SIGINT" \in p_siglist[q] => "SIGINT" \in p_siglist'[q]
  /\ q \in p_timeout' <=> q \in p_timeout
  /\ called' = q <=> called = q
  /\ kernel_lock' = q <=> kernel_lock = q
  /\ sched_lock' = q <=> sched_lock = q

\* Such a step keeps ProcInv(q).
LEMMA SameKeeps ==
  ASSUME NEW q \in Procs, ProcInv(q), Same(q)
  PROVE  ProcInv(q)'
<1>1. Locks(q)'  BY DEF ProcInv, Same, Locks
<1>2. Queue(q)'  BY DEF ProcInv, Same, Queue
<1>3. Thr(q)'  BY DEF ProcInv, Same, Thr
<1>4. Timer(q)'  BY DEF ProcInv, Same, Timer, Pending, InSleep
<1>5. Taken(q)'  BY DEF ProcInv, Same, Taken, InSleep
<1>6. Result(q)'  BY DEF ProcInv, Same, Result
<1>. QED  BY <1>1, <1>2, <1>3, <1>4, <1>5, <1>6 DEF ProcInv

\* A step of thread p: it keeps the types, its own part of the invariant, and
\* leaves the other threads alone.
LEMMA ThreadStep ==
  ASSUME NEW p \in Procs, IInv, TypeOK', ProcInv(p)', \A q \in Procs \ {p} : Same(q)
  PROVE  IInv'
BY SameKeeps DEF IInv

\* A thread that has the kernel lock, or found it free, is alone with it.
LEMMA LockedAlone ==
  ASSUME NEW p \in Procs, kernel_lock \in {NoProc, p}, NEW keeps, Keep(p, keeps)
  PROVE  /\ kernel_lock' \in Procs \cup {NoProc}
         /\ \A q \in Procs \ {p} : kernel_lock # q /\ kernel_lock' # q
BY SleepAssumption DEF Keep

\* The locals outside of tsleep() are well typed.
LEMMA NoLocalsType ==
  /\ NoLocals \in Locals
  /\ NoLocals.timo = 0 /\ NoLocals.error1 = "0"
BY DEF NoLocals, Locals

\* tsleep() is called with the locals of a new sleep.
LEMMA CallLocals ==
  ASSUME NEW p \in Procs, NEW ident \in Idents \cup {NoIdent}, NEW timo \in {0} \cup Durations,
         NEW catch \in BOOLEAN, NEW thr \in BOOLEAN, TypeOK,
         Call_tsleep(p, ident, timo, catch, thr)
  PROVE  /\ loc' \in [Procs -> Locals] /\ pc' \in [Procs -> Pcs]
         /\ pc'[p] = "sleep_setup" /\ loc'[p].ident = ident /\ loc'[p].error1 = "0"
         /\ \A q \in Procs \ {p} : pc'[q] = pc[q] /\ loc'[q] = loc[q]
<1>. DEFINE l == [NoLocals EXCEPT !.ident = ident, !.timo = timo, !.catch = catch, !.thr = thr]
<1>2. l \in Locals /\ l.ident = ident /\ l.error1 = "0"
  BY NoLocalsType DEF Locals
<1>3. loc' = [loc EXCEPT ![p] = l] /\ pc' = [pc EXCEPT ![p] = "sleep_setup"]
  BY DEF Call_tsleep, Goto
<1>. HIDE DEF l
<1>. QED  BY <1>2, <1>3 DEF TypeOK, Pcs

\* Forget() changes only the entries of p.
LEMMA ForgetType ==
  ASSUME NEW p \in Procs, TypeOK, Forget(p)
  PROVE  /\ error' \in [Procs -> {"none", "0", "EWOULDBLOCK", "EINTR"}]
         /\ offqueue' \in [Procs -> {"nobody", "wakeup", "timeout", "signal"}]
         /\ error'[p] = "none" /\ offqueue'[p] = "nobody"
         /\ \A q \in Procs \ {p} : error'[q] = error[q] /\ offqueue'[q] = offqueue[q]
BY DEF TypeOK, Forget, TakenOff

-----------------------------------------------------------------------------
(* thrsleep(). *)

\* A system call that enters tsleep() starts a sleep with nothing left of an
\* earlier one.
LEMMA Step_tsleep ==
  ASSUME NEW p \in Procs, IInv, tsleep(p)
  PROVE  IInv'
<1>1. PICK timo \in {0} \cup Durations, catch \in BOOLEAN :
        Call_tsleep(p, chan, timo, catch, FALSE)
  BY DEF tsleep
<1>2. chan \in Idents /\ chan # p /\ chan # NoIdent  BY TsleepAssumption, SleepAssumption
<1>3. TypeOK /\ ProcInv(p) /\ pc[p] = "user"  BY DEF IInv, tsleep
<1>4. /\ loc' \in [Procs -> Locals] /\ pc' \in [Procs -> Pcs]
      /\ pc'[p] = "sleep_setup" /\ loc'[p].ident = chan /\ loc'[p].error1 = "0"
      /\ \A q \in Procs \ {p} : pc'[q] = pc[q] /\ loc'[q] = loc[q]
  <2>1. chan \in Idents \cup {NoIdent} /\ FALSE \in BOOLEAN /\ TypeOK  BY <1>2, <1>3
  <2>. QED  BY <1>1, <2>1, CallLocals
<1>5. /\ kernel_lock' \in Procs \cup {NoProc} /\ kernel_lock' = p
      /\ \A q \in Procs \ {p} : kernel_lock # q /\ kernel_lock' # q
  BY LockedAlone DEF tsleep, Locked, Keep
<1>6. UNCHANGED <<p_timeout, p_thrslpid, sched_lock, p_wchan, p_stat, p_sintr, p_siglist,
                  left, called>>
  BY DEF tsleep, sleepVars
<1>7. /\ error' \in [Procs -> {"none", "0", "EWOULDBLOCK", "EINTR"}]
      /\ offqueue' \in [Procs -> {"nobody", "wakeup", "timeout", "signal"}]
      /\ error'[p] = "none" /\ offqueue'[p] = "nobody"
      /\ \A q \in Procs \ {p} : error'[q] = error[q] /\ offqueue'[q] = offqueue[q]
  BY <1>3, ForgetType DEF tsleep
<1>8. TypeOK'  BY <1>3, <1>4, <1>5, <1>6, <1>7 DEF TypeOK, SleepTypeOK
<1>9. \A q \in Procs \ {p} : Same(q)
  BY <1>4, <1>5, <1>6, <1>7 DEF Same
<1>10. sched_lock # p /\ p_wchan[p] = NoIdent /\ ~Pending(p) /\ p \notin p_timeout /\ called # p
  BY <1>3 DEF ProcInv, Locks, Queue, Timer, InSleep
<1>11. p \in Idents  BY TsleepAssumption
<1>12. ProcInv(p)'
  <2>1. Locks(p)' /\ Queue(p)'  BY <1>4, <1>5, <1>6, <1>10 DEF Locks, Queue
  <2>2. Thr(p)'  BY <1>2, <1>4, <1>6, <1>10, <1>11, SleepAssumption DEF Thr
  <2>3. Timer(p)'  BY <1>6, <1>10 DEF Timer, Pending
  <2>4. Taken(p)' /\ Result(p)'  BY <1>2, <1>4, <1>7 DEF Taken, Result, InSleep
  <2>. QED  BY <2>1, <2>2, <2>3, <2>4 DEF ProcInv
<1>. QED  BY <1>8, <1>9, <1>12, ThreadStep

\* thrsleep() sets p_thrslpid before it gives up the lock of its caller.
LEMMA Step_thrsleep ==
  ASSUME NEW p \in Procs, IInv, thrsleep(p)
  PROVE  IInv'
<1>1. PICK ident \in ThrIdents \cup {-1}, timo \in {0} \cup Durations :
        /\ p_thrslpid' = [p_thrslpid EXCEPT ![p] = ident]
        /\ loc' = [loc EXCEPT ![p] = [NoLocals EXCEPT !.timo = timo, !.thr = TRUE,
             !.ident = IF ident = -1 THEN globalsleepaddr ELSE p]]
  BY DEF thrsleep
<1>3. TypeOK /\ ProcInv(p) /\ pc[p] = "user"  BY DEF IInv, thrsleep
<1>4. /\ loc' \in [Procs -> Locals] /\ loc'[p].ident # NoIdent /\ loc'[p].error1 = "0"
      /\ \A q \in Procs \ {p} : loc'[q] = loc[q]
  <2>. DEFINE x == IF ident = -1 THEN globalsleepaddr ELSE p
              l == [NoLocals EXCEPT !.timo = timo, !.thr = TRUE, !.ident = x]
  <2>1. x \in Idents /\ x # NoIdent  BY TsleepAssumption, SleepAssumption
  <2>2. l \in Locals /\ l.ident = x /\ l.error1 = "0"  BY <2>1, NoLocalsType DEF Locals
  <2>. HIDE DEF x, l
  <2>3. loc' = [loc EXCEPT ![p] = l]  BY <1>1 DEF l, x
  <2>. QED  BY <1>3, <2>1, <2>2, <2>3 DEF TypeOK
<1>5. /\ pc' \in [Procs -> Pcs] /\ pc'[p] = "unlock"
      /\ \A q \in Procs \ {p} : pc'[q] = pc[q]
  BY <1>3 DEF thrsleep, Goto, TypeOK, Pcs
<1>6. /\ kernel_lock' \in Procs \cup {NoProc}
      /\ \A q \in Procs \ {p} : kernel_lock # q /\ kernel_lock' # q
  BY LockedAlone DEF thrsleep, Locked
<1>7. /\ p_thrslpid' \in [Procs -> ThrIdents \cup {-1, 0}]
      /\ \A q \in Procs \ {p} : p_thrslpid'[q] = p_thrslpid[q]
  BY <1>1, <1>3 DEF TypeOK
<1>8. UNCHANGED <<p_timeout, sched_lock, p_wchan, p_stat, p_sintr, p_siglist, left, called>>
  BY DEF thrsleep, sleepVars
<1>9. /\ error' \in [Procs -> {"none", "0", "EWOULDBLOCK", "EINTR"}]
      /\ offqueue' \in [Procs -> {"nobody", "wakeup", "timeout", "signal"}]
      /\ error'[p] = "none" /\ offqueue'[p] = "nobody"
      /\ \A q \in Procs \ {p} : error'[q] = error[q] /\ offqueue'[q] = offqueue[q]
  BY <1>3, ForgetType DEF thrsleep
<1>10. TypeOK'  BY <1>3, <1>4, <1>5, <1>6, <1>7, <1>8, <1>9 DEF TypeOK, SleepTypeOK
<1>11. \A q \in Procs \ {p} : Same(q)
  BY <1>4, <1>5, <1>6, <1>7, <1>8, <1>9 DEF Same
<1>12. sched_lock # p /\ p_wchan[p] = NoIdent /\ ~Pending(p) /\ p \notin p_timeout /\ called # p
  BY <1>3 DEF ProcInv, Locks, Queue, Timer, InSleep
<1>13. ProcInv(p)'
  <2>1. Locks(p)' /\ Queue(p)'  BY <1>5, <1>8, <1>12 DEF Locks, Queue
  <2>2. Thr(p)'
    <3>1. p \in Idents  BY TsleepAssumption
    <3>. QED  BY <3>1, <1>5, <1>8, <1>12, SleepAssumption DEF Thr
  <2>3. Timer(p)'  BY <1>8, <1>12 DEF Timer, Pending
  <2>4. Taken(p)' /\ Result(p)'  BY <1>4, <1>5, <1>9 DEF Taken, Result, InSleep
  <2>. QED  BY <2>1, <2>2, <2>3, <2>4 DEF ProcInv
<1>. QED  BY <1>10, <1>11, <1>13, ThreadStep

\* While thrsleep_unlock() may sleep for a page, others may clear p_thrslpid.
LEMMA Step_thrsleep_unlock ==
  ASSUME NEW p \in Procs, IInv, thrsleep_unlock(p)
  PROVE  IInv'
<1>1. TypeOK /\ ProcInv(p) /\ pc[p] = "unlock"  BY DEF IInv, thrsleep_unlock
<1>2. /\ pc' \in [Procs -> Pcs] /\ pc'[p] \in {"unlocked", "out"}
      /\ \A q \in Procs \ {p} : pc'[q] = pc[q]
  BY <1>1 DEF thrsleep_unlock, Goto, TypeOK, Pcs
<1>3. /\ kernel_lock' \in Procs \cup {NoProc}
      /\ \A q \in Procs \ {p} : kernel_lock # q /\ kernel_lock' # q
  BY LockedAlone DEF thrsleep_unlock, Locked
<1>4. UNCHANGED <<p_timeout, p_thrslpid, loc, error, offqueue, sched_lock, p_wchan, p_stat,
                  p_sintr, p_siglist, left, called>>
  BY DEF thrsleep_unlock, sleepVars
<1>5. TypeOK'  BY <1>1, <1>2, <1>3, <1>4 DEF TypeOK, SleepTypeOK
<1>6. \A q \in Procs \ {p} : Same(q)  BY <1>2, <1>3, <1>4 DEF Same
<1>7. ProcInv(p)'
  <2>1. Locks(p)'  BY <1>1, <1>2, <1>4 DEF ProcInv, Locks
  <2>2. Queue(p)' /\ Thr(p)'  BY <1>1, <1>2, <1>4 DEF ProcInv, Queue, Thr
  <2>3. Timer(p)'  BY <1>1, <1>2, <1>4 DEF ProcInv, Timer, InSleep, Pending
  <2>4. Taken(p)' /\ Result(p)'  BY <1>1, <1>2, <1>4 DEF ProcInv, Taken, Result, InSleep
  <2>. QED  BY <2>1, <2>2, <2>3, <2>4 DEF ProcInv
<1>. QED  BY <1>5, <1>6, <1>7, ThreadStep

\* p_thrslpid is looked at again, and the kernel lock is kept from there on.
LEMMA Step_thrsleep_test ==
  ASSUME NEW p \in Procs, IInv, thrsleep_test(p)
  PROVE  IInv'
<1>1. TypeOK /\ ProcInv(p) /\ pc[p] = "unlocked"  BY DEF IInv, thrsleep_test
<1>2. UNCHANGED <<p_timeout, p_thrslpid, error, offqueue, sched_lock, p_wchan, p_stat,
                  p_sintr, p_siglist, left, called>>
  BY DEF thrsleep_test, sleepVars
<1>3. /\ kernel_lock' \in Procs \cup {NoProc} /\ kernel_lock' = p
      /\ \A q \in Procs \ {p} : kernel_lock # q /\ kernel_lock' # q
  BY LockedAlone DEF thrsleep_test, Locked, Keep
<1>4. /\ loc' \in [Procs -> Locals] /\ pc' \in [Procs -> Pcs]
      /\ \/ pc'[p] = "out"
         \/ /\ pc'[p] = "sleep_setup" /\ p_thrslpid[p] # 0
            /\ loc'[p].ident = loc[p].ident /\ loc'[p].error1 = "0"
      /\ \A q \in Procs \ {p} : pc'[q] = pc[q] /\ loc'[q] = loc[q]
  <2>1. CASE p_thrslpid[p] = 0
    <3>1. pc' = [pc EXCEPT ![p] = "out"] /\ loc' = loc
      BY <2>1 DEF thrsleep_test, Goto
    <3>. QED  BY <1>1, <3>1 DEF TypeOK, Pcs
  <2>2. CASE p_thrslpid[p] # 0
    <3>1. Call_tsleep(p, loc[p].ident, loc[p].timo, TRUE, TRUE)
      BY <2>2 DEF thrsleep_test
    <3>2. loc[p] \in Locals  BY <1>1 DEF TypeOK
    <3>3. loc[p].ident \in Idents \cup {NoIdent} /\ loc[p].timo \in {0} \cup Durations
      BY <3>2 DEF Locals
    <3>. QED  BY <1>1, <2>2, <3>1, <3>3, CallLocals
  <2>. QED  BY <2>1, <2>2
<1>5. TypeOK'  BY <1>1, <1>2, <1>3, <1>4 DEF TypeOK, SleepTypeOK
<1>6. \A q \in Procs \ {p} : Same(q)  BY <1>2, <1>3, <1>4 DEF Same
<1>7. sched_lock # p /\ p_wchan[p] = NoIdent /\ ~Pending(p) /\ p \notin p_timeout /\ called # p
  BY <1>1 DEF ProcInv, Locks, Queue, Timer, InSleep
<1>8. ProcInv(p)'
  <2>1. Locks(p)' /\ Queue(p)'  BY <1>2, <1>3, <1>4, <1>7 DEF Locks, Queue
  <2>2. Thr(p)'
    <3>1. p \in Idents  BY TsleepAssumption
    <3>. QED  BY <3>1, <1>2, <1>4, <1>7, SleepAssumption DEF Thr
  <2>3. Timer(p)'  BY <1>2, <1>7 DEF Timer, Pending
  <2>4. Taken(p)' /\ Result(p)'
    BY <1>1, <1>2, <1>4 DEF ProcInv, Taken, Result, InSleep
  <2>. QED  BY <2>1, <2>2, <2>3, <2>4 DEF ProcInv
<1>. QED  BY <1>5, <1>6, <1>8, ThreadStep

\* thrsleep() clears p_thrslpid when it is on no sleep queue.
LEMMA Step_thrsleep_out ==
  ASSUME NEW p \in Procs, IInv, thrsleep_out(p)
  PROVE  IInv'
<1>1. TypeOK /\ ProcInv(p) /\ pc[p] = "out"  BY DEF IInv, thrsleep_out
<1>2. UNCHANGED <<p_timeout, error, offqueue, sched_lock, p_wchan, p_stat, p_sintr, p_siglist,
                  left, called>>
  BY DEF thrsleep_out, sleepVars
<1>3. /\ kernel_lock' \in Procs \cup {NoProc}
      /\ \A q \in Procs \ {p} : kernel_lock # q /\ kernel_lock' # q
  BY LockedAlone DEF thrsleep_out, Locked
<1>4. /\ loc' \in [Procs -> Locals] /\ pc' \in [Procs -> Pcs] /\ pc'[p] = "user"
      /\ p_thrslpid' \in [Procs -> ThrIdents \cup {-1, 0}]
      /\ \A q \in Procs \ {p} :
           pc'[q] = pc[q] /\ loc'[q] = loc[q] /\ p_thrslpid'[q] = p_thrslpid[q]
  BY <1>1, NoLocalsType DEF TypeOK, thrsleep_out, Goto, Pcs
<1>5. TypeOK'  BY <1>1, <1>2, <1>3, <1>4 DEF TypeOK, SleepTypeOK
<1>6. \A q \in Procs \ {p} : Same(q)  BY <1>2, <1>3, <1>4 DEF Same
<1>7. sched_lock # p /\ p_wchan[p] = NoIdent /\ ~Pending(p) /\ p \notin p_timeout /\ called # p
  BY <1>1 DEF ProcInv, Locks, Queue, Timer, InSleep
<1>8. ProcInv(p)'
  <2>1. Locks(p)' /\ Queue(p)'  BY <1>2, <1>4, <1>7 DEF Locks, Queue
  <2>2. Thr(p)'
    <3>1. p \in Idents  BY TsleepAssumption
    <3>. QED  BY <3>1, <1>2, <1>4, <1>7, SleepAssumption DEF Thr
  <2>3. Timer(p)'  BY <1>2, <1>7 DEF Timer, Pending
  <2>4. Taken(p)' /\ Result(p)'
    BY <1>1, <1>2, <1>4 DEF ProcInv, Taken, Result, InSleep
  <2>. QED  BY <2>1, <2>2, <2>3, <2>4 DEF ProcInv
<1>. QED  BY <1>5, <1>6, <1>8, ThreadStep

-----------------------------------------------------------------------------
(* tsleep(). *)

\* sleep_setup() and sleep_setup_timeout() find no timeout of an earlier sleep.
LEMMA Step_tsleep_setup ==
  ASSUME NEW p \in Procs, IInv, tsleep_setup(p)
  PROVE  IInv'
<1>1. /\ TypeOK /\ ProcInv(p) /\ pc[p] = "sleep_setup" /\ p_stat[p] = "SONPROC"
      /\ called = NoTimeout /\ sched_lock = NoProc
  BY DEF IInv, tsleep_setup, Locked, sleep_setup
<1>2. UNCHANGED <<p_timeout, p_thrslpid, error, offqueue, p_stat, p_siglist, called>>
  BY DEF tsleep_setup
<1>3. /\ kernel_lock' = p /\ sched_lock' = p
      /\ \A q \in Procs \ {p} : kernel_lock # q /\ kernel_lock' # q
                                /\ sched_lock # q /\ sched_lock' # q
  <2>1. sched_lock' = p /\ \A q \in Procs \ {p} : sched_lock # q /\ sched_lock' # q
    BY <1>1, SleepAssumption DEF tsleep_setup, sleep_setup
  <2>2. kernel_lock' = p /\ \A q \in Procs \ {p} : kernel_lock # q /\ kernel_lock' # q
    BY LockedAlone DEF tsleep_setup, Locked, Keep
  <2>. QED  BY <2>1, <2>2
<1>4. loc[p] \in Locals /\ loc[p].timo \in {0} \cup Durations /\ loc[p].catch \in BOOLEAN
      /\ loc[p].ident \in Idents \cup {NoIdent}
  BY <1>1 DEF TypeOK, Locals
<1>5. /\ loc' \in [Procs -> Locals] /\ loc'[p].catch = loc[p].catch
      /\ loc'[p].timo = loc[p].timo /\ loc'[p].do_sleep /\ loc'[p].error1 = loc[p].error1
      /\ \A q \in Procs \ {p} : loc'[q] = loc[q]
  <2>. DEFINE l == [loc[p] EXCEPT !.do_sleep = TRUE, !.sig = TRUE]
  <2>1. /\ l \in Locals /\ l.catch = loc[p].catch /\ l.timo = loc[p].timo /\ l.do_sleep
        /\ l.error1 = loc[p].error1
    BY <1>4 DEF Locals
  <2>2. loc' = [loc EXCEPT ![p] = l]  BY <1>1 DEF tsleep_setup, TypeOK
  <2>. HIDE DEF l
  <2>. QED  BY <1>1, <2>1, <2>2 DEF TypeOK
<1>6. /\ p_wchan' \in [Procs -> Idents \cup {NoIdent}] /\ p_wchan'[p] = loc[p].ident
      /\ p_sintr' \in [Procs -> BOOLEAN] /\ p_sintr'[p] = loc[p].catch
      /\ \A q \in Procs \ {p} : p_wchan'[q] = p_wchan[q] /\ p_sintr'[q] = p_sintr[q]
  BY <1>1, <1>4 DEF TypeOK, SleepTypeOK, tsleep_setup, sleep_setup
<1>7. /\ pc' \in [Procs -> Pcs]
      /\ pc'[p] = IF loc[p].catch THEN "setup_signal" ELSE "sleep_finish"
      /\ \A q \in Procs \ {p} : pc'[q] = pc[q]
  BY <1>1 DEF TypeOK, Pcs, tsleep_setup, Goto
<1>8. /\ left' \in [Procs -> Nat \cup {NotPending}]
      /\ loc[p].timo = 0 => left' = left
      /\ \A q \in Procs \ {p} : left'[q] = left[q]
  <2>1. CASE loc[p].timo = 0  BY <1>1, <2>1 DEF TypeOK, tsleep_setup
  <2>2. CASE loc[p].timo # 0
    <3>1. loc[p].timo \in Nat  BY <1>4, <2>2, TsleepAssumption
    <3>. QED  BY <1>1, <2>2, <3>1 DEF TypeOK, tsleep_setup, Schedule
  <2>. QED  BY <2>1, <2>2
<1>9. TypeOK'
  BY <1>1, <1>2, <1>3, <1>5, <1>6, <1>7, <1>8 DEF TypeOK, SleepTypeOK
<1>10. \A q \in Procs \ {p} : Same(q)  BY <1>2, <1>3, <1>5, <1>6, <1>7, <1>8 DEF Same
<1>11. ~Pending(p) /\ p \notin p_timeout /\ called # p
  BY <1>1 DEF ProcInv, Timer, InSleep
<1>12. loc[p].ident # NoIdent /\ loc[p].error1 = "0" /\ offqueue[p] = "nobody" /\ error[p] = "none"
  BY <1>1 DEF ProcInv, Taken
<1>13. ProcInv(p)'
  <2>1. Locks(p)'  BY <1>3, <1>7 DEF Locks
  <2>2. Queue(p)'  BY <1>1, <1>2, <1>5, <1>6, <1>7 DEF Queue
  <2>3. Thr(p)'  BY <1>1, <1>2, <1>6, <1>7 DEF ProcInv, Thr
  <2>4. Timer(p)'
    <3>1. InSleep(p)'  BY <1>7 DEF InSleep
    <3>2. Pending(p)' => loc'[p].timo # 0  BY <1>5, <1>8, <1>11 DEF Pending
    <3>. QED  BY <1>2, <1>11, <3>1, <3>2 DEF Timer
  <2>5. Taken(p)'  BY <1>2, <1>5, <1>6, <1>7, <1>11, <1>12 DEF Taken, InSleep
  <2>6. Result(p)'  BY <1>7 DEF Result
  <2>. QED  BY <2>1, <2>2, <2>3, <2>4, <2>5, <2>6 DEF ProcInv
<1>. QED  BY <1>9, <1>10, <1>13, ThreadStep

\* What sleep_setup_signal() may do to the locals.
LEMMA SignalLocals ==
  ASSUME NEW p \in Procs, TypeOK, NEW s \in BOOLEAN, NEW c \in BOOLEAN, NEW d \in BOOLEAN,
         \/ loc' = [loc EXCEPT ![p].sig = s, ![p].catch = c, ![p].do_sleep = d]
         \/ c = loc[p].catch /\ loc' = [loc EXCEPT ![p].do_sleep = d]
  PROVE  /\ loc' \in [Procs -> Locals] /\ loc'[p].catch = c /\ loc'[p].do_sleep = d
         /\ loc'[p].timo = loc[p].timo /\ loc'[p].error1 = loc[p].error1
         /\ \A q \in Procs \ {p} : loc'[q] = loc[q]
<1>1. loc[p] \in Locals  BY DEF TypeOK
<1>2. PICK l \in Locals : /\ loc' = [loc EXCEPT ![p] = l] /\ l.catch = c /\ l.do_sleep = d
                          /\ l.timo = loc[p].timo /\ l.error1 = loc[p].error1
  <2>1. CASE loc' = [loc EXCEPT ![p].sig = s, ![p].catch = c, ![p].do_sleep = d]
    <3>. DEFINE l == [loc[p] EXCEPT !.sig = s, !.catch = c, !.do_sleep = d]
    <3>1. /\ l \in Locals /\ l.catch = c /\ l.do_sleep = d
          /\ l.timo = loc[p].timo /\ l.error1 = loc[p].error1
      BY <1>1 DEF Locals
    <3>2. loc' = [loc EXCEPT ![p] = l]  BY <2>1 DEF TypeOK
    <3>. HIDE DEF l
    <3>. QED  BY <3>1, <3>2
  <2>2. CASE c = loc[p].catch /\ loc' = [loc EXCEPT ![p].do_sleep = d]
    <3>. DEFINE l == [loc[p] EXCEPT !.do_sleep = d]
    <3>1. /\ l \in Locals /\ l.catch = c /\ l.do_sleep = d
          /\ l.timo = loc[p].timo /\ l.error1 = loc[p].error1
      BY <1>1, <2>2 DEF Locals
    <3>2. loc' = [loc EXCEPT ![p] = l]  BY <2>2 DEF TypeOK
    <3>. HIDE DEF l
    <3>. QED  BY <3>1, <3>2
  <2>. QED  BY <2>1, <2>2
<1>. QED  BY <1>2 DEF TypeOK

\* CURSIG() in sleep_setup_signal() may stop the proc or take it off its queue.
LEMMA Step_sleep_setup_signal ==
  ASSUME NEW p \in Procs, IInv, sleep_setup_signal(p)
  PROVE  IInv'
<1>1. TypeOK /\ ProcInv(p) /\ pc[p] = "setup_signal" /\ p # NoProc
  BY SleepAssumption DEF IInv, sleep_setup_signal
<1>2. UNCHANGED <<p_timeout, p_thrslpid, error, p_sintr, left, called>>
  BY DEF sleep_setup_signal
<1>3. InSleep(p) /\ loc[p].catch /\ (sched_lock = p => kernel_lock = p)
  BY <1>1 DEF ProcInv, Locks, Queue, InSleep
<1>4. CASE /\ sched_lock = p /\ StopPending(p)
           /\ mi_switch(p, "SSTOP") /\ Keep(p, FALSE)
           /\ p_siglist' = [p_siglist EXCEPT ![p] = {}]
           /\ UNCHANGED <<p_wchan, loc, pc, offqueue>>
  <2>1. /\ kernel_lock = p /\ kernel_lock' = NoProc /\ sched_lock' = NoProc
        /\ "SIGINT" \notin p_siglist[p]
    BY <1>3, <1>4 DEF mi_switch, Keep, StopPending
  <2>2. /\ p_stat' \in [Procs -> {"SONPROC", "SSLEEP", "SSTOP"}]
        /\ p_siglist' \in [Procs -> SUBSET Signals]
        /\ \A q \in Procs \ {p} : p_stat'[q] = p_stat[q] /\ p_siglist'[q] = p_siglist[q]
    BY <1>1, <1>4 DEF TypeOK, SleepTypeOK, mi_switch
  <2>3. TypeOK'  BY <1>1, <1>2, <1>4, <2>1, <2>2 DEF TypeOK, SleepTypeOK
  <2>4. \A q \in Procs \ {p} : Same(q)
    BY <1>2, <1>4, <2>1, <2>2, SleepAssumption DEF Same
  <2>5. ProcInv(p)'
    <3>1. Locks(p)' /\ Queue(p)'  BY <1>1, <1>3, <1>4, <2>1 DEF Locks, Queue
    <3>2. Thr(p)'  BY <1>1, <1>2, <1>4 DEF ProcInv, Thr
    <3>3. Timer(p)'  BY <1>1, <1>2, <1>4 DEF ProcInv, Timer, InSleep, Pending
    <3>4. Taken(p)'  BY <1>1, <1>2, <1>3, <1>4, <2>1 DEF ProcInv, Taken, InSleep
    <3>5. Result(p)'  BY <1>1, <1>4 DEF Result
    <3>. QED  BY <3>1, <3>2, <3>3, <3>4, <3>5 DEF ProcInv
  <2>. QED  BY <2>3, <2>4, <2>5, ThreadStep
<1>5. CASE /\ sched_lock # p /\ Resumed(p) /\ Locked(p)
           /\ sched_lock' = p /\ Keep(p, TRUE)
           /\ UNCHANGED <<p_wchan, p_stat, p_siglist, loc, pc, offqueue>>
  <2>1. /\ kernel_lock' = p /\ sched_lock = NoProc
        /\ \A q \in Procs \ {p} : kernel_lock # q /\ kernel_lock' # q
    BY <1>5, LockedAlone DEF Locked, Keep, Resumed
  <2>2. TypeOK'  BY <1>1, <1>2, <1>5, <2>1 DEF TypeOK, SleepTypeOK
  <2>3. \A q \in Procs \ {p} : Same(q)
    BY <1>2, <1>5, <2>1, SleepAssumption DEF Same
  <2>4. ProcInv(p)'
    <3>1. Locks(p)' /\ Queue(p)'  BY <1>1, <1>2, <1>5, <2>1 DEF ProcInv, Locks, Queue
    <3>2. Thr(p)'  BY <1>1, <1>2, <1>5 DEF ProcInv, Thr
    <3>3. Timer(p)'  BY <1>1, <1>2, <1>5 DEF ProcInv, Timer, InSleep, Pending
    <3>4. Taken(p)'  BY <1>1, <1>2, <1>5 DEF ProcInv, Taken, InSleep
    <3>5. Result(p)'  BY <1>1, <1>5 DEF Result
    <3>. QED  BY <3>1, <3>2, <3>3, <3>4, <3>5 DEF ProcInv
  <2>. QED  BY <2>2, <2>3, <2>4, ThreadStep
<1>6. CASE /\ sched_lock = p /\ KeptSignal(p)
           /\ unsleep(p)
           /\ IF p_wchan[p] = NoIdent THEN UNCHANGED offqueue ELSE TakenOff(p, "signal")
           /\ loc' = [loc EXCEPT ![p].do_sleep = FALSE]
           /\ Goto(p, "sleep_finish")
           /\ UNCHANGED <<sched_lock, p_stat, p_siglist, kernel_lock>>
  <2>1. /\ loc' \in [Procs -> Locals] /\ loc'[p].catch /\ loc'[p].timo = loc[p].timo
        /\ loc'[p].error1 = loc[p].error1 /\ \A q \in Procs \ {p} : loc'[q] = loc[q]
    BY <1>1, <1>3, <1>6, SignalLocals
  <2>2. /\ pc' \in [Procs -> Pcs] /\ pc'[p] = "sleep_finish"
        /\ p_wchan' \in [Procs -> Idents \cup {NoIdent}] /\ p_wchan'[p] = NoIdent
        /\ \A q \in Procs \ {p} : pc'[q] = pc[q] /\ p_wchan'[q] = p_wchan[q]
    BY <1>1, <1>6 DEF TypeOK, SleepTypeOK, Goto, unsleep, Pcs
  <2>3. /\ offqueue' \in [Procs -> {"nobody", "wakeup", "timeout", "signal"}]
        /\ offqueue'[p] = IF p_wchan[p] = NoIdent THEN offqueue[p] ELSE "signal"
        /\ \A q \in Procs \ {p} : offqueue'[q] = offqueue[q]
    BY <1>1, <1>6 DEF TypeOK, TakenOff
  <2>4. TypeOK'  BY <1>1, <1>2, <1>6, <2>1, <2>2, <2>3 DEF TypeOK, SleepTypeOK
  <2>5. \A q \in Procs \ {p} : Same(q)  BY <1>2, <1>6, <2>1, <2>2, <2>3 DEF Same
  <2>6. p # NoIdent  BY TsleepAssumption, SleepAssumption
  <2>7. ProcInv(p)'
    <3>1. Locks(p)' /\ Queue(p)'  BY <1>3, <1>6, <2>2 DEF Locks, Queue
    <3>2. Thr(p)'  BY <2>2, <2>6 DEF Thr
    <3>3. Timer(p)'  BY <1>1, <1>2, <2>1, <2>2 DEF ProcInv, Timer, InSleep, Pending
    <3>4. Taken(p)'
      BY <1>1, <1>2, <1>3, <1>6, <2>1, <2>2, <2>3 DEF ProcInv, Taken, InSleep, KeptSignal
    <3>5. Result(p)'  BY <2>2 DEF Result
    <3>. QED  BY <3>1, <3>2, <3>3, <3>4, <3>5 DEF ProcInv
  <2>. QED  BY <2>4, <2>5, <2>7, ThreadStep
<1>7. CASE /\ sched_lock = p /\ p_siglist[p] = {}
           /\ LET waits == p_wchan[p] # NoIdent IN
              loc' = [loc EXCEPT ![p].sig = FALSE, ![p].catch = waits, ![p].do_sleep = waits]
           /\ Goto(p, "sleep_finish")
           /\ UNCHANGED <<sched_lock, p_wchan, p_stat, p_siglist, kernel_lock, offqueue>>
  <2>. DEFINE waits == p_wchan[p] # NoIdent
  <2>1. /\ loc' \in [Procs -> Locals] /\ loc'[p].catch = waits /\ loc'[p].do_sleep = waits
        /\ loc'[p].timo = loc[p].timo
        /\ loc'[p].error1 = loc[p].error1 /\ \A q \in Procs \ {p} : loc'[q] = loc[q]
    <3>1. waits \in BOOLEAN  OBVIOUS
    <3>2. loc' = [loc EXCEPT ![p].sig = FALSE, ![p].catch = waits, ![p].do_sleep = waits]
      BY <1>7
    <3>. HIDE DEF waits
    <3>. QED  BY <1>1, <3>1, <3>2, SignalLocals
  <2>2. /\ pc' \in [Procs -> Pcs] /\ pc'[p] = "sleep_finish"
        /\ \A q \in Procs \ {p} : pc'[q] = pc[q]
    BY <1>1, <1>7 DEF TypeOK, Goto, Pcs
  <2>3. TypeOK'  BY <1>1, <1>2, <1>7, <2>1, <2>2 DEF TypeOK, SleepTypeOK
  <2>4. \A q \in Procs \ {p} : Same(q)  BY <1>2, <1>7, <2>1, <2>2 DEF Same
  <2>5. ProcInv(p)'
    <3>1. Locks(p)' /\ Queue(p)'  BY <1>3, <1>7, <2>1, <2>2 DEF Locks, Queue
    <3>2. Thr(p)'  BY <1>1, <1>2, <1>7, <2>2 DEF ProcInv, Thr
    <3>3. Timer(p)'  BY <1>1, <1>2, <2>1, <2>2 DEF ProcInv, Timer, InSleep, Pending
    <3>4. Taken(p)'
      BY <1>1, <1>2, <1>3, <1>7, <2>1, <2>2 DEF ProcInv, Taken, InSleep
    <3>5. Result(p)'  BY <2>2 DEF Result
    <3>. QED  BY <3>1, <3>2, <3>3, <3>4, <3>5 DEF ProcInv
  <2>. QED  BY <2>3, <2>4, <2>5, ThreadStep
<1>. QED  BY <1>4, <1>5, <1>6, <1>7 DEF sleep_setup_signal

\* sleep_finish() sleeps, or goes on with a proc that is on no queue.
LEMMA Step_sleep_finish ==
  ASSUME NEW p \in Procs, IInv, sleep_finish(p)
  PROVE  IInv'
<1>1. TypeOK /\ ProcInv(p) /\ pc[p] = "sleep_finish"  BY DEF IInv, sleep_finish
<1>2. UNCHANGED <<p_timeout, p_thrslpid, loc, error, offqueue, p_wchan, p_siglist, left, called>>
  BY DEF sleep_finish
<1>3. sched_lock = p /\ kernel_lock = p  BY <1>1 DEF ProcInv, Locks
<1>4. sched_lock' = NoProc /\ NoProc \notin Procs
  BY SleepAssumption DEF sleep_finish, mi_switch
<1>5. CASE /\ loc[p].do_sleep
           /\ mi_switch(p, "SSLEEP") /\ Keep(p, FALSE)
           /\ Goto(p, "asleep")
           /\ UNCHANGED p_sintr
  <2>1. /\ pc' \in [Procs -> Pcs] /\ pc'[p] = "asleep"
        /\ p_stat' \in [Procs -> {"SONPROC", "SSLEEP", "SSTOP"}] /\ p_stat'[p] = "SSLEEP"
        /\ \A q \in Procs \ {p} : pc'[q] = pc[q] /\ p_stat'[q] = p_stat[q]
    BY <1>1, <1>5 DEF TypeOK, SleepTypeOK, Goto, mi_switch, Pcs
  <2>2. kernel_lock' = NoProc  BY <1>5 DEF Keep
  <2>3. TypeOK'  BY <1>1, <1>2, <1>4, <1>5, <2>1, <2>2 DEF TypeOK, SleepTypeOK
  <2>4. \A q \in Procs \ {p} : Same(q)  BY <1>2, <1>3, <1>4, <1>5, <2>1, <2>2 DEF Same
  <2>5. ProcInv(p)'
    <3>1. Locks(p)' /\ Queue(p)'  BY <1>1, <1>2, <1>4, <1>5, <2>1 DEF ProcInv, Locks, Queue
    <3>2. Thr(p)'  BY <1>1, <1>2, <2>1 DEF ProcInv, Thr
    <3>3. Timer(p)'  BY <1>1, <1>2, <2>1 DEF ProcInv, Timer, InSleep, Pending
    <3>4. Taken(p)'  BY <1>1, <1>2, <2>1 DEF ProcInv, Taken, InSleep
    <3>5. Result(p)'  BY <2>1 DEF Result
    <3>. QED  BY <3>1, <3>2, <3>3, <3>4, <3>5 DEF ProcInv
  <2>. QED  BY <2>3, <2>4, <2>5, ThreadStep
<1>6. CASE /\ ~loc[p].do_sleep
           /\ sched_lock' = NoProc
           /\ p_sintr' = [p_sintr EXCEPT ![p] = FALSE]
           /\ Goto(p, "finish_timeout")
           /\ UNCHANGED <<p_stat, kernel_lock>>
  <2>1. /\ pc' \in [Procs -> Pcs] /\ pc'[p] = "finish_timeout"
        /\ p_sintr' \in [Procs -> BOOLEAN]
        /\ \A q \in Procs \ {p} : pc'[q] = pc[q] /\ p_sintr'[q] = p_sintr[q]
    BY <1>1, <1>6 DEF TypeOK, SleepTypeOK, Goto, Pcs
  <2>2. p_wchan[p] = NoIdent  BY <1>1, <1>6 DEF ProcInv, Queue
  <2>3. TypeOK'  BY <1>1, <1>2, <1>4, <1>6, <2>1 DEF TypeOK, SleepTypeOK
  <2>4. \A q \in Procs \ {p} : Same(q)  BY <1>2, <1>3, <1>4, <1>6, <2>1 DEF Same
  <2>5. ProcInv(p)'
    <3>1. Locks(p)' /\ Queue(p)'  BY <1>2, <1>4, <2>1, <2>2 DEF Locks, Queue
    <3>2. Thr(p)'  BY <1>1, <1>2, <2>1 DEF ProcInv, Thr
    <3>3. Timer(p)'  BY <1>1, <1>2, <2>1 DEF ProcInv, Timer, InSleep, Pending
    <3>4. Taken(p)'  BY <1>1, <1>2, <2>1 DEF ProcInv, Taken, InSleep
    <3>5. Result(p)'  BY <2>1 DEF Result
    <3>. QED  BY <3>1, <3>2, <3>3, <3>4, <3>5 DEF ProcInv
  <2>. QED  BY <2>3, <2>4, <2>5, ThreadStep
<1>. QED  BY <1>5, <1>6 DEF sleep_finish

\* A proc that mi_switch() returns to is on no queue.
LEMMA Step_sleep_finish_resumed ==
  ASSUME NEW p \in Procs, IInv, sleep_finish_resumed(p)
  PROVE  IInv'
<1>1. TypeOK /\ ProcInv(p) /\ pc[p] = "asleep" /\ p_stat[p] = "SONPROC"
  BY DEF IInv, sleep_finish_resumed, Locked
<1>2. UNCHANGED <<p_timeout, p_thrslpid, loc, error, offqueue, sched_lock, p_wchan, p_stat,
                  p_siglist, left, called>>
  BY DEF sleep_finish_resumed
<1>3. /\ kernel_lock' \in Procs \cup {NoProc}
      /\ \A q \in Procs \ {p} : kernel_lock # q /\ kernel_lock' # q
  BY LockedAlone DEF sleep_finish_resumed, Locked
<1>4. /\ pc' \in [Procs -> Pcs] /\ pc'[p] = "finish_timeout"
      /\ p_sintr' \in [Procs -> BOOLEAN]
      /\ \A q \in Procs \ {p} : pc'[q] = pc[q] /\ p_sintr'[q] = p_sintr[q]
  BY <1>1 DEF TypeOK, SleepTypeOK, Goto, Pcs, sleep_finish_resumed
<1>5. p_wchan[p] = NoIdent /\ sched_lock # p  BY <1>1 DEF ProcInv, Queue, Locks
<1>6. TypeOK'  BY <1>1, <1>2, <1>3, <1>4 DEF TypeOK, SleepTypeOK
<1>7. \A q \in Procs \ {p} : Same(q)  BY <1>2, <1>3, <1>4 DEF Same
<1>8. ProcInv(p)'
  <2>1. Locks(p)' /\ Queue(p)'  BY <1>2, <1>4, <1>5 DEF Locks, Queue
  <2>2. Thr(p)'  BY <1>1, <1>2, <1>4 DEF ProcInv, Thr
  <2>3. Timer(p)'  BY <1>1, <1>2, <1>4 DEF ProcInv, Timer, InSleep, Pending
  <2>4. Taken(p)'  BY <1>1, <1>2, <1>4 DEF ProcInv, Taken, InSleep
  <2>5. Result(p)'  BY <1>4 DEF Result
  <2>. QED  BY <2>1, <2>2, <2>3, <2>4, <2>5 DEF ProcInv
<1>. QED  BY <1>6, <1>7, <1>8, ThreadStep

\* sleep_finish_timeout() leaves neither P_TIMEOUT nor a pending timeout, and
\* error1 says which of them it found.
LEMMA Step_sleep_finish_timeout ==
  ASSUME NEW p \in Procs, IInv, sleep_finish_timeout(p)
  PROVE  IInv'
<1>1. TypeOK /\ ProcInv(p) /\ pc[p] = "finish_timeout" /\ called = NoTimeout
  BY DEF IInv, sleep_finish_timeout, Locked
<1>2. UNCHANGED <<p_thrslpid, error, offqueue, sched_lock, p_wchan, p_stat, p_sintr,
                  p_siglist, called>>
  BY DEF sleep_finish_timeout, sleepVars
<1>3. /\ kernel_lock' \in Procs \cup {NoProc}
      /\ \A q \in Procs \ {p} : kernel_lock # q /\ kernel_lock' # q
  BY LockedAlone DEF sleep_finish_timeout, Locked
<1>4. /\ pc' \in [Procs -> Pcs] /\ pc'[p] = "finish_signal"
      /\ \A q \in Procs \ {p} : pc'[q] = pc[q]
  BY <1>1 DEF TypeOK, Goto, Pcs, sleep_finish_timeout
<1>5. p_wchan[p] = NoIdent /\ sched_lock # p  BY <1>1 DEF ProcInv, Queue, Locks
<1>6. called # p /\ p # NoIdent  BY <1>1, TsleepAssumption, SleepAssumption
<1>7. /\ p_timeout' \subseteq Procs /\ p \notin p_timeout'
      /\ left' \in [Procs -> Nat \cup {NotPending}] /\ ~Pending(p)'
      /\ loc' \in [Procs -> Locals] /\ loc'[p].catch = loc[p].catch
      /\ loc'[p].error1 = IF p \in p_timeout THEN "EWOULDBLOCK" ELSE "0"
      /\ \A q \in Procs \ {p} : /\ q \in p_timeout' <=> q \in p_timeout
                                /\ left'[q] = left[q] /\ loc'[q] = loc[q]
  <2>1. CASE /\ p \in p_timeout
             /\ p_timeout' = p_timeout \ {p}
             /\ loc' = [loc EXCEPT ![p].error1 = "EWOULDBLOCK"]
             /\ UNCHANGED left
    <3>. DEFINE l == [loc[p] EXCEPT !.error1 = "EWOULDBLOCK"]
    <3>1. l \in Locals /\ l.catch = loc[p].catch /\ l.error1 = "EWOULDBLOCK"
      <4>1. loc[p] \in Locals  BY <1>1 DEF TypeOK
      <4>. QED  BY <4>1 DEF Locals
    <3>2. loc' = [loc EXCEPT ![p] = l]  BY <1>1, <2>1 DEF TypeOK
    <3>. HIDE DEF l
    <3>3. ~Pending(p)  BY <1>1, <2>1 DEF ProcInv, Timer
    <3>. QED  BY <1>1, <2>1, <3>1, <3>2, <3>3 DEF TypeOK, Pending
  <2>2. CASE /\ p \notin p_timeout
             /\ Cancel(p)
             /\ UNCHANGED <<p_timeout, loc>>
    <3>1. loc[p].error1 = "0"  BY <1>1 DEF ProcInv, Taken, InSleep
    <3>2. left' = [left EXCEPT ![p] = NotPending]  BY <2>2 DEF Cancel
    <3>3. /\ left' \in [Procs -> Nat \cup {NotPending}] /\ left'[p] = NotPending
          /\ \A q \in Procs \ {p} : left'[q] = left[q]
      BY <1>1, <3>2 DEF TypeOK
    <3>. QED  BY <1>1, <2>2, <3>1, <3>3 DEF TypeOK, Pending
  <2>. QED  BY <2>1, <2>2 DEF sleep_finish_timeout
<1>8. TypeOK'  BY <1>1, <1>2, <1>3, <1>4, <1>7 DEF TypeOK, SleepTypeOK
<1>9. \A q \in Procs \ {p} : Same(q)  BY <1>2, <1>3, <1>4, <1>7 DEF Same
<1>10. ProcInv(p)'
  <2>1. Locks(p)' /\ Queue(p)'  BY <1>2, <1>4, <1>5 DEF Locks, Queue
  <2>2. Thr(p)'  BY <1>2, <1>4, <1>5, <1>6 DEF Thr
  <2>3. Timer(p)'  BY <1>2, <1>6, <1>7 DEF Timer
  <2>4. Taken(p)'  BY <1>1, <1>2, <1>4, <1>5, <1>7 DEF ProcInv, Taken, InSleep
  <2>5. Result(p)'  BY <1>4 DEF Result
  <2>. QED  BY <2>1, <2>2, <2>3, <2>4, <2>5 DEF ProcInv
<1>. QED  BY <1>8, <1>9, <1>10, ThreadStep

\* tsleep() returns what error1 and the signals say about who ended the sleep.
LEMMA Step_sleep_finish_signal ==
  ASSUME NEW p \in Procs, IInv, sleep_finish_signal(p)
  PROVE  IInv'
<1>. DEFINE interrupted == loc[p].catch /\ (loc[p].sig \/ KeptSignal(p))
<1>1. TypeOK /\ ProcInv(p) /\ pc[p] = "finish_signal"  BY DEF IInv, sleep_finish_signal
<1>2. UNCHANGED <<p_timeout, p_thrslpid, offqueue, sched_lock, p_wchan, p_sintr, left, called>>
  BY DEF sleep_finish_signal
<1>3. ASSUME NEW keeps, Keep(p, keeps)
      PROVE  /\ kernel_lock' \in Procs \cup {NoProc}
             /\ \A q \in Procs \ {p} : kernel_lock # q /\ kernel_lock' # q
  BY <1>3, LockedAlone DEF sleep_finish_signal, Locked
<1>4. p_wchan[p] = NoIdent /\ sched_lock # p /\ p # NoIdent
  BY <1>1, TsleepAssumption, SleepAssumption DEF ProcInv, Queue, Locks
<1>5. ~Pending(p) /\ p \notin p_timeout /\ called # p
  BY <1>1 DEF ProcInv, Timer, InSleep
<1>6. CASE /\ loc[p].catch /\ ~interrupted /\ StopPending(p) /\ sched_lock = NoProc
           /\ p_stat' = [p_stat EXCEPT ![p] = "SSTOP"] /\ Keep(p, FALSE)
           /\ p_siglist' = [p_siglist EXCEPT ![p] = {}]
           /\ UNCHANGED <<pc, loc, error>>
  <2>1. /\ p_stat' \in [Procs -> {"SONPROC", "SSLEEP", "SSTOP"}]
        /\ p_siglist' \in [Procs -> SUBSET Signals]
        /\ \A q \in Procs \ {p} : p_stat'[q] = p_stat[q] /\ p_siglist'[q] = p_siglist[q]
    BY <1>1, <1>6 DEF TypeOK, SleepTypeOK
  <2>2. "SIGINT" \notin p_siglist[p]  BY <1>6 DEF StopPending
  <2>3. TypeOK'  BY <1>1, <1>2, <1>3, <1>6, <2>1 DEF TypeOK, SleepTypeOK
  <2>4. \A q \in Procs \ {p} : Same(q)  BY <1>2, <1>3, <1>6, <2>1 DEF Same
  <2>5. ProcInv(p)'
    <3>1. Locks(p)' /\ Queue(p)'  BY <1>1, <1>2, <1>4, <1>6 DEF Locks, Queue
    <3>2. Thr(p)'  BY <1>1, <1>2, <1>4, <1>6 DEF Thr
    <3>3. Timer(p)'  BY <1>2, <1>5 DEF Timer, Pending
    <3>4. Taken(p)'  BY <1>1, <1>2, <1>6, <2>2 DEF ProcInv, Taken, InSleep
    <3>5. Result(p)'  BY <1>1, <1>6 DEF Result
    <3>. QED  BY <3>1, <3>2, <3>3, <3>4, <3>5 DEF ProcInv
  <2>. QED  BY <2>3, <2>4, <2>5, ThreadStep
<1>7. CASE /\ error' = [error EXCEPT ![p] = IF interrupted THEN "EINTR" ELSE loc[p].error1]
           /\ loc' = [loc EXCEPT ![p] = NoLocals]
           /\ Goto(p, IF loc[p].thr THEN "out" ELSE "user") /\ Keep(p, loc[p].thr)
           /\ UNCHANGED <<p_stat, p_siglist>>
  <2>1. loc[p].error1 \in {"0", "EWOULDBLOCK"}  BY <1>1 DEF TypeOK, Locals
  <2>2. /\ error' \in [Procs -> {"none", "0", "EWOULDBLOCK", "EINTR"}]
        /\ error'[p] = IF interrupted THEN "EINTR" ELSE loc[p].error1
        /\ \A q \in Procs \ {p} : error'[q] = error[q]
    <3>. HIDE DEF interrupted
    <3>. QED  BY <1>1, <1>7, <2>1 DEF TypeOK
  <2>3. /\ loc' \in [Procs -> Locals] /\ pc' \in [Procs -> Pcs] /\ pc'[p] \in {"out", "user"}
        /\ \A q \in Procs \ {p} : loc'[q] = loc[q] /\ pc'[q] = pc[q]
    BY <1>1, <1>7, NoLocalsType DEF TypeOK, Goto, Pcs
  <2>4. TypeOK'  BY <1>1, <1>2, <1>3, <1>7, <2>2, <2>3 DEF TypeOK, SleepTypeOK
  <2>5. \A q \in Procs \ {p} : Same(q)  BY <1>2, <1>3, <1>7, <2>2, <2>3 DEF Same
  <2>6. offqueue[p] \in {"wakeup", "timeout", "signal"}
        /\ (offqueue[p] = "signal" => interrupted)
        /\ (offqueue[p] = "timeout" <=> loc[p].error1 = "EWOULDBLOCK")
    BY <1>1, <1>4 DEF ProcInv, Taken, KeptSignal, TypeOK
  <2>7. ProcInv(p)'
    <3>1. Locks(p)' /\ Queue(p)'  BY <1>2, <1>4, <2>3 DEF Locks, Queue
    <3>2. Thr(p)'  BY <1>2, <1>4, <2>3 DEF Thr
    <3>3. Timer(p)'  BY <1>2, <1>5 DEF Timer, Pending
    <3>4. Taken(p)'  BY <2>3 DEF Taken, InSleep
    <3>5. Result(p)'
      <4>. HIDE DEF interrupted
      <4>. QED  BY <1>2, <2>1, <2>2, <2>6 DEF Result
    <3>. QED  BY <3>1, <3>2, <3>3, <3>4, <3>5 DEF ProcInv
  <2>. QED  BY <2>4, <2>5, <2>7, ThreadStep
<1>. QED  BY <1>6, <1>7 DEF sleep_finish_signal

-----------------------------------------------------------------------------
(* The clock. *)

\* A tick changes when timeouts are due, not which are pending.
LEMMA Step_hardclock ==
  ASSUME IInv, hardclock
  PROVE  IInv'
<1>1. UNCHANGED <<p_timeout, p_thrslpid, kernel_lock, pc, loc, error, offqueue, sched_lock,
                  p_wchan, p_stat, p_sintr, p_siglist, called>>
  BY DEF hardclock, tsleepVars, sleepVars
<1>2. left' = [t \in Procs |-> IF left[t] > 1 THEN left[t] - 1
                               ELSE IF Pending(t) THEN 0 ELSE NotPending]
  BY TsleepAssumption DEF hardclock, Advance, Later
<1>3. TypeOK /\ left \in [Procs -> Nat \cup {NotPending}]  BY DEF IInv, TypeOK
<1>4. ASSUME NEW q \in Procs
      PROVE  /\ left'[q] \in Nat \cup {NotPending}
             /\ left'[q] = NotPending <=> left[q] = NotPending
  <2>1. left'[q] = IF left[q] > 1 THEN left[q] - 1
                   ELSE IF left[q] # NotPending THEN 0 ELSE NotPending
    BY <1>2 DEF Pending
  <2>2. left[q] \in Nat \cup {NotPending}  BY <1>3
  <2>. QED  BY SMTT(30), <2>1, <2>2 DEF NotPending
<1>5. TypeOK'
  <2>1. left' \in [Procs -> Nat \cup {NotPending}]  BY <1>2, <1>4
  <2>. QED  BY <1>1, <1>3, <2>1 DEF TypeOK, SleepTypeOK
<1>6. \A q \in Procs : Same(q)  BY <1>1, <1>4 DEF Same
<1>. QED  BY <1>5, <1>6, SameKeeps DEF IInv

\* softclock() calls only the function of a timeout that is pending.
LEMMA Step_softclock ==
  ASSUME NEW p \in Procs, IInv, softclock(p)
  PROVE  IInv'
<1>1. UNCHANGED <<p_timeout, p_thrslpid, kernel_lock, pc, loc, error, offqueue, sched_lock,
                  p_wchan, p_stat, p_sintr, p_siglist>>
  BY DEF softclock, tsleepVars, sleepVars
<1>2. /\ TypeOK /\ ProcInv(p) /\ called = NoTimeout /\ called' = p /\ left[p] = 0
      /\ left' = [left EXCEPT ![p] = NotPending] /\ NoTimeout \notin Procs
  BY TsleepAssumption DEF IInv, softclock, Call, Due, Cancel
<1>3. /\ left' \in [Procs -> Nat \cup {NotPending}] /\ left'[p] = NotPending
      /\ \A q \in Procs \ {p} : left'[q] = left[q]
  BY <1>2 DEF TypeOK
<1>4. TypeOK'  BY <1>1, <1>2, <1>3 DEF TypeOK, SleepTypeOK
<1>5. \A q \in Procs \ {p} : Same(q)  BY <1>1, <1>2, <1>3 DEF Same
<1>6. Pending(p)  BY SMTT(30), <1>2 DEF Pending, NotPending
<1>7. ProcInv(p)'
  <2>1. Locks(p)' /\ Queue(p)' /\ Thr(p)'  BY <1>1, <1>2 DEF ProcInv, Locks, Queue, Thr
  <2>2. Timer(p)'
    <3>1. InSleep(p) /\ loc[p].timo # 0 /\ p \notin p_timeout
      BY <1>2, <1>6 DEF ProcInv, Timer
    <3>2. ~Pending(p)'  BY <1>3 DEF Pending
    <3>. QED  BY <1>1, <3>1, <3>2 DEF Timer, InSleep
  <2>3. Taken(p)' /\ Result(p)'  BY <1>1, <1>2 DEF ProcInv, Taken, Result, InSleep
  <2>. QED  BY <2>1, <2>2, <2>3 DEF ProcInv
<1>. QED  BY <1>4, <1>5, <1>7, ThreadStep

\* endtsleep() ends the sleep it was set for, or finds it ended.
LEMMA Step_endtsleep ==
  ASSUME NEW p \in Procs, IInv, endtsleep(p)
  PROVE  IInv'
<1>1. UNCHANGED <<p_thrslpid, kernel_lock, pc, loc, error, sched_lock, p_sintr, p_siglist, left>>
  BY DEF endtsleep
<1>2. /\ TypeOK /\ ProcInv(p) /\ called = p /\ called' = NoTimeout /\ NoTimeout \notin Procs
      /\ sched_lock = NoProc /\ NoProc \notin Procs
  BY TsleepAssumption, SleepAssumption DEF IInv, endtsleep, Return
<1>3. InSleep(p) /\ loc[p].timo # 0 /\ ~Pending(p) /\ p \notin p_timeout
  BY <1>2 DEF ProcInv, Timer
<1>4. CASE /\ p_wchan[p] # NoIdent
           /\ IF p_stat[p] = "SSLEEP" THEN setrunnable(p) ELSE unsleep(p) /\ UNCHANGED p_stat
           /\ p_timeout' = p_timeout \cup {p}
           /\ TakenOff(p, "timeout")
  <2>1. /\ p_wchan' \in [Procs -> Idents \cup {NoIdent}] /\ p_wchan'[p] = NoIdent
        /\ \A q \in Procs \ {p} : p_wchan'[q] = p_wchan[q]
    BY <1>2, <1>4 DEF TypeOK, SleepTypeOK, setrunnable, unsleep
  <2>2. /\ p_stat' \in [Procs -> {"SONPROC", "SSLEEP", "SSTOP"}]
        /\ \A q \in Procs \ {p} : p_stat'[q] = p_stat[q]
    BY <1>2, <1>4 DEF TypeOK, SleepTypeOK, setrunnable
  <2>3. /\ offqueue' \in [Procs -> {"nobody", "wakeup", "timeout", "signal"}]
        /\ offqueue'[p] = "timeout"
        /\ \A q \in Procs \ {p} : offqueue'[q] = offqueue[q]
    BY <1>2, <1>4 DEF TypeOK, TakenOff
  <2>4. TypeOK'  BY <1>1, <1>2, <1>4, <2>1, <2>2, <2>3 DEF TypeOK, SleepTypeOK
  <2>5. \A q \in Procs \ {p} : Same(q)  BY <1>1, <1>2, <1>4, <2>1, <2>2, <2>3 DEF Same
  <2>6. p # NoIdent  BY TsleepAssumption, SleepAssumption
  <2>7. ProcInv(p)'
    <3>1. Locks(p)' /\ Queue(p)'  BY <1>1, <1>2, <2>1 DEF ProcInv, Locks, Queue
    <3>2. Thr(p)'  BY <1>1, <1>2, <2>1, <2>6 DEF ProcInv, Thr
    <3>3. Timer(p)'  BY <1>1, <1>2, <1>3 DEF Timer, InSleep, Pending
    <3>4. Taken(p)'  BY <1>1, <1>2, <1>3, <1>4, <2>1, <2>3 DEF ProcInv, Taken, InSleep
    <3>5. Result(p)'  BY <1>1, <1>3 DEF Result, InSleep
    <3>. QED  BY <3>1, <3>2, <3>3, <3>4, <3>5 DEF ProcInv
  <2>. QED  BY <2>4, <2>5, <2>7, ThreadStep
<1>5. CASE /\ p_wchan[p] = NoIdent
           /\ UNCHANGED <<p_wchan, p_stat, p_timeout, offqueue>>
  <2>1. TypeOK'  BY <1>1, <1>2, <1>5 DEF TypeOK, SleepTypeOK
  <2>2. \A q \in Procs \ {p} : Same(q)  BY <1>1, <1>2, <1>5 DEF Same
  <2>3. ProcInv(p)'
    <3>1. Locks(p)' /\ Queue(p)' /\ Thr(p)'
      BY <1>1, <1>2, <1>5 DEF ProcInv, Locks, Queue, Thr
    <3>2. Timer(p)'  BY <1>1, <1>2, <1>3, <1>5 DEF Timer, InSleep, Pending
    <3>3. Taken(p)' /\ Result(p)'
      BY <1>1, <1>2, <1>5 DEF ProcInv, Taken, Result, InSleep
    <3>. QED  BY <3>1, <3>2, <3>3 DEF ProcInv
  <2>. QED  BY <2>1, <2>2, <2>3, ThreadStep
<1>. QED  BY <1>4, <1>5 DEF endtsleep

-----------------------------------------------------------------------------
(* Signals and wakeups: what another actor does to a thread. *)

\* Somebody else moves q, at most, between the states of a sleeper, and off
\* the sleep queue: by a wakeup, or by a signal if the sleep has PCATCH.
Moved(q) ==
  /\ pc'[q] = pc[q] /\ loc'[q] = loc[q] /\ error'[q] = error[q] /\ p_sintr'[q] = p_sintr[q]
  /\ UNCHANGED <<left, called, p_timeout, kernel_lock, sched_lock>>
  /\ "SIGINT" \in p_siglist[q] => "SIGINT" \in p_siglist'[q]
  /\ p_stat'[q] = "SONPROC" => p_stat[q] = "SONPROC" \/ p_wchan'[q] = NoIdent
  /\ p_stat'[q] = "SSTOP" => p_stat[q] = "SSTOP" \/ p_sintr[q]
  /\ p_thrslpid'[q] = p_thrslpid[q] \/ (p_wchan'[q] # q /\ kernel_lock # q)
  /\ \/ p_wchan'[q] = p_wchan[q] /\ offqueue'[q] = offqueue[q]
     \/ /\ p_wchan[q] # NoIdent /\ p_wchan'[q] = NoIdent
        /\ \/ offqueue'[q] = "wakeup"
           \/ /\ offqueue'[q] = "signal" /\ "SIGINT" \in p_siglist'[q]
              /\ p_sintr[q] \/ p_stat[q] = "SSTOP"

\* Such a step keeps ProcInv(q).
LEMMA MovedKeeps ==
  ASSUME NEW q \in Procs, ProcInv(q), Moved(q)
  PROVE  ProcInv(q)'
<1>1. Locks(q)'  BY DEF ProcInv, Moved, Locks
<1>2. Queue(q)'
  <2>1. CASE p_wchan'[q] = NoIdent  BY <2>1 DEF ProcInv, Moved, Queue
  <2>2. CASE p_wchan'[q] = p_wchan[q] /\ p_wchan[q] # NoIdent
    <3>1. /\ pc[q] \in {"setup_signal", "sleep_finish", "asleep"}
          /\ p_sintr[q] \/ p_stat[q] = "SSTOP" => loc[q].catch
      BY <2>2 DEF ProcInv, Queue
    <3>2. p_sintr'[q] \/ p_stat'[q] = "SSTOP" => loc'[q].catch
      BY <3>1 DEF Moved
    <3>. QED  BY <2>2, <3>1, <3>2 DEF ProcInv, Moved, Queue
  <2>. QED  BY <2>1, <2>2 DEF Moved
<1>3. Thr(q)'
  <2>1. q # NoIdent  BY TsleepAssumption, SleepAssumption
  <2>. QED  BY <2>1 DEF ProcInv, Moved, Thr, Locks
<1>4. Timer(q)'  BY DEF ProcInv, Moved, Timer, Pending, InSleep
<1>5. CASE p_wchan'[q] = p_wchan[q] /\ offqueue'[q] = offqueue[q]
  <2>1. Taken(q)'  BY <1>5 DEF ProcInv, Moved, Taken, InSleep
  <2>2. Result(q)'  BY <1>5 DEF ProcInv, Moved, Result
  <2>. QED  BY <1>1, <1>2, <1>3, <1>4, <2>1, <2>2 DEF ProcInv
<1>6. CASE ~(p_wchan'[q] = p_wchan[q] /\ offqueue'[q] = offqueue[q])
  <2>1. /\ p_wchan[q] # NoIdent /\ p_wchan'[q] = NoIdent
        /\ offqueue'[q] \in {"wakeup", "signal"}
        /\ offqueue'[q] = "signal" =>
             "SIGINT" \in p_siglist'[q] /\ (p_sintr[q] \/ p_stat[q] = "SSTOP")
    BY <1>6 DEF Moved
  <2>2. /\ pc[q] \in {"setup_signal", "sleep_finish", "asleep"}
        /\ p_sintr[q] \/ p_stat[q] = "SSTOP" => loc[q].catch
    BY <2>1 DEF ProcInv, Queue
  <2>3. InSleep(q)  BY <2>2 DEF InSleep
  <2>4. q \notin p_timeout /\ loc[q].error1 = "0" /\ error[q] = "none"
    BY <2>1, <2>2, <2>3 DEF ProcInv, Taken
  <2>5. Taken(q)' /\ Result(q)'
    BY <2>1, <2>2, <2>4 DEF Moved, Taken, Result, InSleep
  <2>. QED  BY <1>1, <1>2, <1>3, <1>4, <2>5 DEF ProcInv
<1>. QED  BY <1>5, <1>6

\* Signals are taken in user mode, outside of any sleep.
LEMMA Step_postsig ==
  ASSUME NEW p \in Procs, IInv, postsig(p)
  PROVE  IInv'
<1>1. UNCHANGED <<p_timeout, p_thrslpid, kernel_lock, pc, loc, error, offqueue, sched_lock,
                  p_wchan, p_stat, p_sintr, left, called>>
  BY DEF postsig, tsleepVars
<1>2. TypeOK /\ ProcInv(p) /\ pc[p] = "user"  BY DEF IInv, postsig
<1>3. /\ p_siglist' \in [Procs -> SUBSET Signals]
      /\ \A q \in Procs \ {p} : p_siglist'[q] = p_siglist[q]
  BY <1>2 DEF TypeOK, SleepTypeOK, postsig
<1>4. TypeOK'  BY <1>1, <1>2, <1>3 DEF TypeOK, SleepTypeOK
<1>5. \A q \in Procs \ {p} : Same(q)  BY <1>1, <1>3 DEF Same
<1>6. ProcInv(p)'
  <2>1. Locks(p)' /\ Queue(p)' /\ Thr(p)'  BY <1>1, <1>2 DEF ProcInv, Locks, Queue, Thr
  <2>2. Timer(p)'  BY <1>1, <1>2 DEF ProcInv, Timer, InSleep, Pending
  <2>3. Taken(p)' /\ Result(p)'  BY <1>1, <1>2 DEF ProcInv, Taken, Result, InSleep
  <2>. QED  BY <2>1, <2>2, <2>3 DEF ProcInv
<1>. QED  BY <1>4, <1>5, <1>6, ThreadStep

\* What posting a signal does to p and to nobody else.
Posted(p) ==
  /\ p_wchan' \in [Procs -> Idents \cup {NoIdent}]
  /\ p_stat' \in [Procs -> {"SONPROC", "SSLEEP", "SSTOP"}]
  /\ p_siglist' \in [Procs -> SUBSET Signals]
  /\ \A q \in Procs \ {p} : /\ p_wchan'[q] = p_wchan[q] /\ p_stat'[q] = p_stat[q]
                            /\ p_siglist'[q] = p_siglist[q]
  /\ "SIGINT" \in p_siglist[p] => "SIGINT" \in p_siglist'[p]
  /\ p_stat'[p] = "SONPROC" => p_stat[p] = "SONPROC" \/ p_wchan'[p] = NoIdent
  /\ p_stat'[p] = "SSTOP" => p_stat[p] = "SSTOP" \/ p_sintr[p]
  /\ \/ p_wchan'[p] = p_wchan[p]
     \/ /\ p_wchan'[p] = NoIdent /\ "SIGINT" \in p_siglist'[p]
        /\ p_sintr[p] \/ p_stat[p] = "SSTOP"

\* A signal takes a proc off its queue only if the sleep has PCATCH.
LEMMA Step_Signal ==
  ASSUME NEW p \in Procs, IInv, Signal(p)
  PROVE  IInv'
<1>1. UNCHANGED <<p_timeout, p_thrslpid, kernel_lock, pc, loc, error, left, called>>
  BY DEF Signal
<1>2. TypeOK /\ ProcInv(p)  BY DEF IInv
<1>3. sched_lock' = sched_lock /\ p_sintr' = p_sintr
  BY DEF Signal, ptsignal_int, ptsignal_stop
<1>4. Posted(p)
  <2>1. ASSUME NEW kill \in BOOLEAN, ptsignal_int(p, kill)
        PROVE  Posted(p)
    <3>1. /\ p_siglist' \in [Procs -> SUBSET Signals] /\ "SIGINT" \in p_siglist'[p]
          /\ \A q \in Procs \ {p} : p_siglist'[q] = p_siglist[q]
      <4>1. p_siglist[p] \cup {"SIGINT"} \in SUBSET Signals
        BY <1>2 DEF TypeOK, SleepTypeOK, Signals
      <4>2. p_siglist' = [p_siglist EXCEPT ![p] = p_siglist[p] \cup {"SIGINT"}]
        BY <2>1 DEF ptsignal_int
      <4>. QED  BY <1>2, <4>1, <4>2 DEF TypeOK, SleepTypeOK
    <3>2. CASE /\ (p_stat[p] = "SSLEEP" /\ p_sintr[p]) \/ (p_stat[p] = "SSTOP" /\ kill)
               /\ setrunnable(p)
      <4>1. /\ p_wchan' = [p_wchan EXCEPT ![p] = NoIdent]
            /\ p_stat' = [p_stat EXCEPT ![p] = "SONPROC"]
        BY <3>2 DEF setrunnable, unsleep
      <4>. QED  BY <1>2, <3>1, <3>2, <4>1 DEF TypeOK, SleepTypeOK, Posted
    <3>3. CASE /\ p_stat[p] = "SSTOP" /\ ~kill
               /\ IF p_sintr[p] THEN unsleep(p) ELSE UNCHANGED p_wchan
               /\ UNCHANGED p_stat
      <4>1. p_wchan' = p_wchan \/ p_wchan' = [p_wchan EXCEPT ![p] = NoIdent]
        BY <3>3 DEF unsleep
      <4>. QED  BY <1>2, <3>1, <3>3, <4>1 DEF TypeOK, SleepTypeOK, Posted
    <3>4. CASE UNCHANGED <<p_wchan, p_stat>>
      BY <1>2, <3>1, <3>4 DEF TypeOK, SleepTypeOK, Posted
    <3>. QED  BY <2>1, <3>2, <3>3, <3>4 DEF ptsignal_int
  <2>2. ASSUME ptsignal_stop(p)
        PROVE  Posted(p)
    <3>1. CASE /\ p_stat[p] = "SSLEEP" /\ p_sintr[p]
               /\ p_stat' = [p_stat EXCEPT ![p] = "SSTOP"]
               /\ UNCHANGED p_siglist
      BY <1>2, <2>2, <3>1 DEF TypeOK, SleepTypeOK, ptsignal_stop, Posted
    <3>2. CASE /\ p_siglist' = [p_siglist EXCEPT ![p] = @ \cup {"SIGTSTP"}]
               /\ UNCHANGED p_stat
      <4>1. p_siglist[p] \cup {"SIGTSTP"} \in SUBSET Signals
        BY <1>2 DEF TypeOK, SleepTypeOK, Signals
      <4>2. /\ p_siglist' \in [Procs -> SUBSET Signals]
            /\ \A q \in Procs \ {p} : p_siglist'[q] = p_siglist[q]
            /\ p_siglist'[p] = p_siglist[p] \cup {"SIGTSTP"}
        BY <1>2, <3>2, <4>1 DEF TypeOK, SleepTypeOK
      <4>. QED  BY <1>2, <2>2, <3>2, <4>2 DEF TypeOK, SleepTypeOK, ptsignal_stop, Posted
    <3>. QED  BY <2>2, <3>1, <3>2 DEF ptsignal_stop
  <2>. QED  BY <2>1, <2>2 DEF Signal
<1>5. /\ offqueue' \in [Procs -> {"nobody", "wakeup", "timeout", "signal"}]
      /\ offqueue'[p] = IF p_wchan[p] # p_wchan'[p] THEN "signal" ELSE offqueue[p]
      /\ \A q \in Procs \ {p} : offqueue'[q] = offqueue[q]
  BY <1>2 DEF TypeOK, Signal, TakenOff
<1>6. TypeOK'  BY <1>1, <1>2, <1>3, <1>4, <1>5 DEF TypeOK, SleepTypeOK, Posted
<1>7. \A q \in Procs \ {p} : Same(q)  BY <1>1, <1>3, <1>4, <1>5 DEF Same, Posted
<1>8. Moved(p)  BY <1>1, <1>3, <1>4, <1>5 DEF Moved, Posted
<1>. QED  BY <1>2, <1>6, <1>7, <1>8, MovedKeeps, ThreadStep

\* SIGCONT lets a stopped proc run only if it is on no queue.
LEMMA Step_Continue ==
  ASSUME NEW p \in Procs, IInv, Continue(p)
  PROVE  IInv'
<1>1. UNCHANGED <<p_timeout, p_thrslpid, kernel_lock, pc, loc, error, offqueue, sched_lock,
                  p_wchan, p_sintr, left, called>>
  BY DEF Continue, tsleepVars, ptsignal_cont
<1>2. TypeOK /\ ProcInv(p)  BY DEF IInv
<1>3. /\ p_siglist' \in [Procs -> SUBSET Signals]
      /\ "SIGINT" \in p_siglist[p] => "SIGINT" \in p_siglist'[p]
      /\ \A q \in Procs \ {p} : p_siglist'[q] = p_siglist[q]
  <2>1. p_siglist' = [p_siglist EXCEPT ![p] = p_siglist[p] \ {"SIGTSTP"}]
    BY DEF Continue, ptsignal_cont
  <2>2. p_siglist[p] \ {"SIGTSTP"} \in SUBSET Signals
    BY <1>2 DEF TypeOK, SleepTypeOK
  <2>. QED  BY <1>2, <2>1, <2>2 DEF TypeOK, SleepTypeOK
<1>4. /\ p_stat' \in [Procs -> {"SONPROC", "SSLEEP", "SSTOP"}]
      /\ p_stat'[p] = "SONPROC" => p_stat[p] = "SONPROC" \/ p_wchan[p] = NoIdent
      /\ p_stat'[p] = "SSTOP" => p_stat[p] = "SSTOP"
      /\ \A q \in Procs \ {p} : p_stat'[q] = p_stat[q]
  <2>. DEFINE s == IF p_stat[p] # "SSTOP" THEN p_stat[p]
                   ELSE IF p_wchan[p] = NoIdent THEN "SONPROC" ELSE "SSLEEP"
  <2>1. /\ s \in {"SONPROC", "SSLEEP", "SSTOP"}
        /\ s = "SONPROC" => p_stat[p] = "SONPROC" \/ p_wchan[p] = NoIdent
        /\ s = "SSTOP" => p_stat[p] = "SSTOP"
    BY <1>2 DEF TypeOK, SleepTypeOK
  <2>2. p_stat' = [p_stat EXCEPT ![p] = s]  BY DEF Continue, ptsignal_cont
  <2>. HIDE DEF s
  <2>. QED  BY <1>2, <2>1, <2>2 DEF TypeOK, SleepTypeOK
<1>5. TypeOK'  BY <1>1, <1>2, <1>3, <1>4 DEF TypeOK, SleepTypeOK
<1>6. \A q \in Procs \ {p} : Same(q)  BY <1>1, <1>3, <1>4 DEF Same
<1>7. Moved(p)  BY <1>1, <1>3, <1>4 DEF Moved
<1>. QED  BY <1>2, <1>5, <1>6, <1>7, MovedKeeps, ThreadStep

\* WakeAll() on procs that are on a sleep queue, and the note of it.
LEMMA WokenType ==
  ASSUME NEW ps, TypeOK, WakeAll(ps), \A q \in ps : p_wchan[q] # NoIdent,
         offqueue' = [q \in Procs |-> IF q \in ps THEN "wakeup" ELSE offqueue[q]]
  PROVE  /\ p_wchan' \in [Procs -> Idents \cup {NoIdent}]
         /\ p_stat' \in [Procs -> {"SONPROC", "SSLEEP", "SSTOP"}]
         /\ offqueue' \in [Procs -> {"nobody", "wakeup", "timeout", "signal"}]
         /\ \A q \in Procs :
              /\ p_stat'[q] = "SONPROC" => p_stat[q] = "SONPROC" \/ p_wchan'[q] = NoIdent
              /\ p_stat'[q] = "SSTOP" => p_stat[q] = "SSTOP"
              /\ \/ q \notin ps /\ p_wchan'[q] = p_wchan[q] /\ offqueue'[q] = offqueue[q]
                 \/ /\ p_wchan[q] # NoIdent /\ p_wchan'[q] = NoIdent
                    /\ offqueue'[q] = "wakeup"
BY DEF WakeAll, TypeOK, SleepTypeOK

\* wakeup() takes procs off their queue.
LEMMA Step_Wakeup ==
  ASSUME NEW ident \in Idents, IInv, Wakeup(ident)
  PROVE  IInv'
<1>1. UNCHANGED <<p_timeout, p_thrslpid, kernel_lock, pc, loc, error, sched_lock, p_sintr,
                  p_siglist, left, called>>
  BY DEF Wakeup, wakeup
<1>2. TypeOK  BY DEF IInv
<1>3. \A q \in slpque(ident) : p_wchan[q] # NoIdent  BY SleepAssumption DEF slpque
<1>4. offqueue' = [q \in Procs |-> IF q \in slpque(ident) THEN "wakeup" ELSE offqueue[q]]
  BY DEF Wakeup, slpque
<1>5. WakeAll(slpque(ident))  BY DEF Wakeup, wakeup
<1>6. TypeOK'  BY <1>1, <1>2, <1>3, <1>4, <1>5, WokenType DEF TypeOK, SleepTypeOK
<1>7. \A q \in Procs : Moved(q)  BY <1>1, <1>2, <1>3, <1>4, <1>5, WokenType DEF Moved
<1>. QED  BY <1>6, <1>7, MovedKeeps DEF IInv

\* __thrwakeup() clears p_thrslpid of the threads it wakes, and of threads that
\* do not sleep and are not about to.
LEMMA Step_thrwakeup ==
  ASSUME NEW ident, NEW n, IInv, thrwakeup(ident, n)
  PROVE  IInv'
<1>. DEFINE asleep(qs) == {q \in qs : p_wchan[q] = q}
<1>1. UNCHANGED <<p_timeout, kernel_lock, pc, loc, error, sched_lock, p_sintr, p_siglist,
                  left, called>>
  BY DEF thrwakeup
<1>2. TypeOK /\ kernel_lock = NoProc  BY DEF IInv, thrwakeup
<1>3. PICK qs \in SUBSET Procs :
        /\ WakeAll(asleep(qs))
        /\ offqueue' = [q \in Procs |-> IF q \in asleep(qs) THEN "wakeup" ELSE offqueue[q]]
        /\ p_thrslpid' = [q \in Procs |-> IF q \in qs THEN 0 ELSE p_thrslpid[q]]
  BY DEF thrwakeup
<1>4. \A q \in asleep(qs) : p_wchan[q] # NoIdent
  BY SleepAssumption, TsleepAssumption
<1>5. /\ p_thrslpid' \in [Procs -> ThrIdents \cup {-1, 0}]
      /\ \A q \in Procs : p_thrslpid'[q] = p_thrslpid[q] \/ q \in qs
  BY <1>2, <1>3 DEF TypeOK
<1>6. \A q \in qs : q \in asleep(qs) \/ p_wchan[q] # q  OBVIOUS
<1>. HIDE DEF asleep
<1>7. TypeOK'  BY <1>1, <1>2, <1>3, <1>4, <1>5, WokenType DEF TypeOK, SleepTypeOK
<1>8. ASSUME NEW q \in Procs PROVE Moved(q)
  <2>1. /\ p_stat'[q] = "SONPROC" => p_stat[q] = "SONPROC" \/ p_wchan'[q] = NoIdent
        /\ p_stat'[q] = "SSTOP" => p_stat[q] = "SSTOP"
        /\ \/ q \notin asleep(qs) /\ p_wchan'[q] = p_wchan[q] /\ offqueue'[q] = offqueue[q]
           \/ p_wchan[q] # NoIdent /\ p_wchan'[q] = NoIdent /\ offqueue'[q] = "wakeup"
    BY <1>2, <1>3, <1>4, WokenType
  <2>2. kernel_lock # q /\ q # NoIdent  BY <1>2, SleepAssumption, TsleepAssumption
  <2>3. p_thrslpid'[q] = p_thrslpid[q] \/ p_wchan'[q] # q
    BY <1>5, <1>6, <2>1, <2>2
  <2>. QED  BY <1>1, <2>1, <2>2, <2>3 DEF Moved
<1>. QED  BY <1>7, <1>8, MovedKeeps DEF IInv

-----------------------------------------------------------------------------
(* The invariant and what it implies. *)

\* At first all threads are in user mode.
LEMMA InitIInv == Init => IInv
<1>. SUFFICES ASSUME Init PROVE IInv  OBVIOUS
<1>. USE DEF Init, SleepInit, SpecInit
<1>1. TypeOK
  <2>1. \A p \in Procs : NotPending \in Nat \cup {NotPending}  OBVIOUS
  <2>. QED  BY <2>1, NoLocalsType, TsleepAssumption DEF TypeOK, SleepTypeOK, Pcs
<1>2. ASSUME NEW p \in Procs PROVE ProcInv(p)
  <2>1. p # NoProc /\ p # NoIdent /\ p # NoTimeout  BY SleepAssumption, TsleepAssumption
  <2>2. left[p] = NotPending  BY TsleepAssumption
  <2>3. Locks(p) /\ Queue(p) /\ Thr(p)  BY <2>1 DEF Locks, Queue, Thr
  <2>4. Timer(p)  BY <2>1, <2>2 DEF Timer, Pending
  <2>5. Taken(p) /\ Result(p)  BY DEF Taken, Result, InSleep
  <2>. QED  BY <2>3, <2>4, <2>5 DEF ProcInv
<1>. QED  BY <1>1, <1>2 DEF IInv

\* Every step keeps the invariant.
LEMMA NextIInv == IInv /\ [Next]_vars => IInv'
<1>. SUFFICES ASSUME IInv, [Next]_vars PROVE IInv'  OBVIOUS
<1>1. CASE UNCHANGED vars
  <2>1. TypeOK'  BY <1>1 DEF vars, tsleepVars, sleepVars, IInv, TypeOK, SleepTypeOK
  <2>2. \A q \in Procs : Same(q)  BY <1>1 DEF vars, tsleepVars, sleepVars, Same
  <2>. QED  BY <2>1, <2>2, SameKeeps DEF IInv
<1>2. CASE \E p \in Procs : tsleep(p) \/ thrsleep(p) \/ SleepStep(p)
  BY <1>2, Step_tsleep, Step_thrsleep, Step_tsleep_setup, Step_sleep_setup_signal,
     Step_sleep_finish, Step_sleep_finish_resumed, Step_sleep_finish_timeout,
     Step_sleep_finish_signal, Step_thrsleep_unlock, Step_thrsleep_test, Step_thrsleep_out
     DEF SleepStep
<1>3. CASE \E p \in Procs : softclock(p) \/ endtsleep(p) \/ postsig(p) \/ Signal(p) \/ Continue(p)
  BY <1>3, Step_softclock, Step_endtsleep, Step_postsig, Step_Signal, Step_Continue
<1>4. CASE hardclock  BY <1>4, Step_hardclock
<1>5. CASE Wakeup(chan) \/ thrwakeup_global
  BY <1>5, Step_Wakeup, TsleepAssumption DEF thrwakeup_global
<1>6. CASE \E ident \in ThrIdents, n \in 1 .. Cardinality(Procs) : thrwakeup(ident, n)
  BY <1>6, Step_thrwakeup
<1>. QED  BY <1>1, <1>2, <1>3, <1>4, <1>5, <1>6 DEF Next

\* The invariant holds in every behaviour.
LEMMA SpecIInv == Spec => []IInv
BY InitIInv, NextIInv, PTL DEF Spec

\* For any number of threads: a timeout belongs to the sleep that set it.  No
\* p_sleep_to stays pending, no P_TIMEOUT set and no endtsleep() under way
\* once sleep_finish_timeout() has run, so none ends a later sleep.
THEOREM OwnTimeoutHolds == Spec => []OwnTimeout
<1>1. IInv => OwnTimeout  BY DEF IInv, ProcInv, Timer, OwnTimeout
<1>. QED  BY <1>1, SpecIInv, PTL

\* For any number of threads: tsleep() returns 0 only to a thread that a wakeup
\* took off its queue, and EWOULDBLOCK only to one that its timeout took off,
\* however wakeups, the timeout, signals and stops are ordered.
THEOREM HonestResultHolds == Spec => []HonestResult
<1>1. IInv => HonestResult  BY DEF IInv, ProcInv, Result, HonestResult
<1>. QED  BY <1>1, SpecIInv, PTL

\* For any number of threads and identifiers: a thread asleep in __thrsleep()
\* still has its p_thrslpid, so each __thrwakeup() that counted a thread also
\* woke it or will make it return without sleeping.
THEOREM NoLostThrwakeupHolds == Spec => []NoLostThrwakeup
<1>1. IInv => NoLostThrwakeup  BY DEF IInv, ProcInv, Thr, NoLostThrwakeup
<1>. QED  BY <1>1, SpecIInv, PTL
=============================================================================
