------------------------------- MODULE TaskQ -------------------------------
(***************************************************************************)
(* The task queues of sys/kern/kern_task.c: callers queue tasks, worker    *)
(* threads take them off one by one, and taskq_destroy() waits for the     *)
(* workers to leave before it frees the queue.                             *)
(*                                                                         *)
(* A section under tq_mtx is one step; the one section of two steps is     *)
(* taskq_destroy()'s, between its wakeup() and its msleep().  The kernel   *)
(* lock is given up where a thread sleeps or pauses.  Callers of           *)
(* taskq_destroy() have stopped using the queue.                           *)
(***************************************************************************)
EXTENDS Sleep, Sequences, Functions

CONSTANTS Workers, Callers, creator, destroyer,   \* the threads
          Tasks,
          NoTask,
          NThreads,       \* tq_nthreads
          MayFail,        \* kthread_create() may fail
          tq, running,    \* sleep identifiers: tq and &tq->tq_running
          MaxAdds         \* bound: task_add() calls that may take effect

ASSUME TaskqAssumption ==
  /\ Procs = Workers \cup Callers \cup {creator, destroyer}
  /\ Workers \cap Callers = {} /\ creator # destroyer
  /\ {creator, destroyer} \cap (Workers \cup Callers) = {}
  /\ IsFiniteSet(Workers)
  /\ Idents = {tq, running} /\ NoTask \notin Tasks
  /\ MayFail \in BOOLEAN /\ NThreads \in Nat \ {0} /\ MaxAdds \in Nat

VARIABLES
  tq_state, tq_running,
  tq_flags,       \* has "MPSAFE" or not, from taskq_create() on
  tq_worklist,    \* the tasks queued
  t_flags,        \* the tasks with TASK_ONQUEUE
  freed,          \* free(tq) was called
  kernel_lock,    \* who has the kernel lock
  pc,             \* where each thread is
  task,           \* the task it works on, or was called with
  last,           \* taskq_thread()'s last
  added, deleted, ran   \* ghosts: how often each call took effect

queueVars == <<tq_state, tq_running, tq_worklist, t_flags, freed>>
ghosts == <<added, deleted, ran>>
vars == <<queueVars, tq_flags, kernel_lock, pc, task, last, ghosts, sleepVars>>

\* After taskq_create() or taskq_init(): taskq_create_thread() is deferred.
Init ==
  /\ SleepInit
  /\ tq_state = "CREATED" /\ tq_running = 0
  /\ tq_worklist = <<>> /\ t_flags = {} /\ freed = FALSE
  /\ tq_flags \in SUBSET {"MPSAFE"}
  /\ kernel_lock = NoProc
  /\ pc = [p \in Procs |-> IF p \in Workers THEN "none"
                           ELSE IF p = creator THEN "create" ELSE "idle"]
  /\ task = [p \in Procs |-> NoTask]
  /\ last = [p \in Procs |-> FALSE]
  /\ added = [t \in Tasks |-> 0] /\ deleted = [t \in Tasks |-> 0]
  /\ ran = [t \in Tasks |-> 0]

\* The flags of a queue never change.
Goto(p, label) == pc' = [pc EXCEPT ![p] = label] /\ UNCHANGED tq_flags

MPSAFE == "MPSAFE" \in tq_flags

\* p can run under the kernel lock, and has it or not after its step.
Locked(p) == p_stat[p] = "SONPROC" /\ kernel_lock \in {NoProc, p}
Keep(p, keeps) == kernel_lock' = IF keeps THEN p ELSE NoProc

\* mtx_enter(&tq->tq_mtx) does not have to wait.
MtxFree == pc[destroyer] # "msleep"

-----------------------------------------------------------------------------
(* Callers, in any context. *)

MayAdd == FoldFunction(+, 0, added) + Cardinality({c \in Callers : pc[c] = "add"}) < MaxAdds

task_add(p, t) ==
  /\ pc[p] = "idle" /\ pc[destroyer] = "idle" /\ t \notin t_flags
  /\ MayAdd
  /\ Goto(p, "add")
  /\ task' = [task EXCEPT ![p] = t]
  /\ UNCHANGED <<queueVars, kernel_lock, last, ghosts, sleepVars>>

\* Mutant: TASK_ONQUEUE is not looked at again under the mutex.
task_add_locked_Unchecked(p) ==
  /\ pc[p] = "add" /\ MtxFree
  /\ t_flags' = t_flags \cup {task[p]}
  /\ tq_worklist' = Append(tq_worklist, task[p])
  /\ added' = [added EXCEPT ![task[p]] = @ + 1]
  /\ Goto(p, "add_wakeup")
  /\ UNCHANGED <<tq_state, tq_running, freed, kernel_lock, task, last, deleted, ran, sleepVars>>

task_add_locked(p) ==
  /\ pc[p] = "add" /\ MtxFree
  /\ \/ /\ task[p] \notin t_flags
        /\ t_flags' = t_flags \cup {task[p]}
        /\ tq_worklist' = Append(tq_worklist, task[p])
        /\ added' = [added EXCEPT ![task[p]] = @ + 1]
        /\ Goto(p, "add_wakeup")
        /\ UNCHANGED task
     \/ /\ task[p] \in t_flags
        /\ Goto(p, "idle")
        /\ task' = [task EXCEPT ![p] = NoTask]
        /\ UNCHANGED <<t_flags, tq_worklist, added>>
  /\ UNCHANGED <<tq_state, tq_running, freed, kernel_lock, last, deleted, ran, sleepVars>>

\* Mutant: a queued task wakes nobody.
task_add_wakeup_None(p) ==
  /\ pc[p] = "add_wakeup"
  /\ Goto(p, "idle")
  /\ task' = [task EXCEPT ![p] = NoTask]
  /\ UNCHANGED <<queueVars, kernel_lock, last, ghosts, sleepVars>>

task_add_wakeup(p) ==
  /\ pc[p] = "add_wakeup"
  /\ wakeup_one(tq)
  /\ Goto(p, "idle")
  /\ task' = [task EXCEPT ![p] = NoTask]
  /\ UNCHANGED <<queueVars, kernel_lock, last, ghosts>>

task_del(p, t) ==
  /\ pc[p] = "idle" /\ pc[destroyer] = "idle" /\ t \in t_flags
  /\ Goto(p, "del")
  /\ task' = [task EXCEPT ![p] = t]
  /\ UNCHANGED <<queueVars, kernel_lock, last, ghosts, sleepVars>>

\* TAILQ_REMOVE() of t, which is on the list.
Without(seq, t) ==
  LET k == CHOOSE i \in DOMAIN seq : seq[i] = t IN
  [i \in 1 .. Len(seq) - 1 |-> seq[IF i < k THEN i ELSE i + 1]]

task_del_locked(p) ==
  /\ pc[p] = "del" /\ MtxFree
  /\ \/ /\ task[p] \in t_flags
        /\ t_flags' = t_flags \ {task[p]}
        /\ tq_worklist' = Without(tq_worklist, task[p])
        /\ deleted' = [deleted EXCEPT ![task[p]] = @ + 1]
     \/ /\ task[p] \notin t_flags
        /\ UNCHANGED <<t_flags, tq_worklist, deleted>>
  /\ Goto(p, "idle")
  /\ task' = [task EXCEPT ![p] = NoTask]
  /\ UNCHANGED <<tq_state, tq_running, freed, kernel_lock, last, added, ran, sleepVars>>

-----------------------------------------------------------------------------
(* taskq_create_thread(). *)

taskq_create_thread(p) ==
  /\ pc[p] = "create" /\ Locked(p) /\ MtxFree
  /\ \/ /\ tq_state = "DESTROYED"
        /\ freed' = TRUE
        /\ Goto(p, "done") /\ Keep(p, FALSE)
        /\ UNCHANGED <<tq_state, tq_running>>
     \/ /\ tq_state = "CREATED"
        /\ tq_state' = "RUNNING"
        /\ tq_running' = tq_running + 1
        /\ Goto(p, "kthread_create") /\ \E keeps \in BOOLEAN : Keep(p, keeps)
        /\ UNCHANGED freed
  /\ UNCHANGED <<tq_worklist, t_flags, task, last, ghosts, sleepVars>>

\* The condition of the do loop; tq_state is not looked at again.
MoreThreads == tq_running < NThreads

\* A new thread, or a failure; kthread_create() may have slept before.
kthread_create(p) ==
  /\ pc[p] = "kthread_create" /\ Locked(p)
  /\ \/ \E w \in Workers : /\ pc[w] = "none"
                           /\ pc' = [pc EXCEPT ![p] = "created", ![w] = "start"]
                           /\ UNCHANGED tq_flags
     \/ MayFail /\ Goto(p, "not_created")
  /\ Keep(p, TRUE)
  /\ UNCHANGED <<queueVars, task, last, ghosts, sleepVars>>

taskq_thread_created(p) ==
  /\ pc[p] = "created" /\ Locked(p) /\ MtxFree
  /\ \/ /\ MoreThreads
        /\ tq_running' = tq_running + 1
        /\ Goto(p, "kthread_create") /\ \E keeps \in BOOLEAN : Keep(p, keeps)
     \/ /\ ~MoreThreads
        /\ Goto(p, "done") /\ Keep(p, FALSE)
        /\ UNCHANGED tq_running
  /\ UNCHANGED <<tq_state, tq_worklist, t_flags, freed, task, last, ghosts, sleepVars>>

\* Mutant: taskq_destroy() is not told when no thread is left.
taskq_thread_not_created_Silent(p) ==
  /\ pc[p] = "not_created" /\ Locked(p) /\ MtxFree
  /\ tq_running' = tq_running - 1
  /\ Goto(p, "done") /\ Keep(p, FALSE)
  /\ UNCHANGED <<tq_state, tq_worklist, t_flags, freed, task, last, ghosts, sleepVars>>

taskq_thread_not_created(p) ==
  /\ pc[p] = "not_created" /\ Locked(p) /\ MtxFree
  /\ tq_running' = tq_running - 1
  /\ IF tq_state = "DESTROYED" /\ tq_running' = 0 THEN wakeup_one(running)
                                                  ELSE UNCHANGED sleepVars
  /\ Goto(p, "done") /\ Keep(p, FALSE)
  /\ UNCHANGED <<tq_state, tq_worklist, t_flags, freed, task, last, ghosts>>

-----------------------------------------------------------------------------
(* taskq_thread(). *)

\* A worker of a queue with TASKQ_MPSAFE does without the kernel lock.
CanRun(p) == IF MPSAFE THEN p_stat[p] = "SONPROC" ELSE Locked(p)
Run(p, keeps) == IF MPSAFE THEN UNCHANGED kernel_lock ELSE Keep(p, keeps)

taskq_thread(p) ==
  /\ pc[p] = "start" /\ Locked(p)
  /\ Keep(p, ~MPSAFE)
  /\ Goto(p, "next_work")
  /\ UNCHANGED <<queueVars, task, last, ghosts, sleepVars>>

\* A sleeper that was woken goes round the loop again.
taskq_next_work(p) ==
  /\ pc[p] = "next_work" /\ CanRun(p) /\ MtxFree
  /\ \/ /\ tq_worklist = <<>> /\ tq_state # "RUNNING"
        /\ Goto(p, "leave") /\ Run(p, TRUE)
        /\ UNCHANGED <<tq_worklist, t_flags, task, sleepVars>>
     \/ /\ tq_worklist = <<>> /\ tq_state = "RUNNING"
        /\ msleep(p, tq) /\ Run(p, FALSE) /\ Goto(p, "next_work")
        /\ UNCHANGED <<tq_worklist, t_flags, task>>
     \/ /\ tq_worklist # <<>>
        /\ task' = [task EXCEPT ![p] = Head(tq_worklist)]
        /\ tq_worklist' = Tail(tq_worklist)
        /\ t_flags' = t_flags \ {Head(tq_worklist)}
        /\ Goto(p, IF Len(tq_worklist) > 1 THEN "work_wakeup" ELSE "work") /\ Run(p, TRUE)
        /\ UNCHANGED sleepVars
  /\ UNCHANGED <<tq_state, tq_running, freed, last, ghosts>>

taskq_work_wakeup(p) ==
  /\ pc[p] = "work_wakeup"
  /\ wakeup_one(tq)
  /\ Goto(p, "work")
  /\ UNCHANGED <<queueVars, kernel_lock, task, last, ghosts>>

\* The task is called; it may sleep.
taskq_work(p) ==
  /\ pc[p] = "work" /\ CanRun(p)
  /\ ran' = [ran EXCEPT ![task[p]] = @ + 1]
  /\ task' = [task EXCEPT ![p] = NoTask]
  /\ Goto(p, "working") /\ \E keeps \in BOOLEAN : Run(p, keeps)
  /\ UNCHANGED <<queueVars, last, added, deleted, sleepVars>>

\* The task returns; sched_pause() may give the CPU to another proc.
taskq_pause(p) ==
  /\ pc[p] = "working" /\ CanRun(p)
  /\ Goto(p, "next_work") /\ \E keeps \in BOOLEAN : Run(p, keeps)
  /\ UNCHANGED <<queueVars, task, last, ghosts, sleepVars>>

taskq_leave(p) ==
  /\ pc[p] = "leave" /\ CanRun(p) /\ MtxFree
  /\ tq_running' = tq_running - 1
  /\ last' = [last EXCEPT ![p] = (tq_running' = 0)]
  /\ Goto(p, "flags") /\ Run(p, TRUE)
  /\ UNCHANGED <<tq_state, tq_worklist, t_flags, freed, task, ghosts, sleepVars>>

\* tq_flags is read once more, without the mutex, then the kernel lock taken.
taskq_flags(p) ==
  /\ pc[p] = "flags" /\ Locked(p)
  /\ Keep(p, TRUE)
  /\ Goto(p, "exit")
  /\ UNCHANGED <<queueVars, task, last, ghosts, sleepVars>>

\* wakeup_one() uses only the address of tq_running; kthread_exit().
taskq_exit(p) ==
  /\ pc[p] = "exit"
  /\ IF last[p] THEN wakeup_one(running) ELSE UNCHANGED sleepVars
  /\ Goto(p, "none") /\ Keep(p, FALSE)
  /\ last' = [last EXCEPT ![p] = FALSE]
  /\ UNCHANGED <<queueVars, task, ghosts>>

-----------------------------------------------------------------------------
(* taskq_destroy(). *)

\* Mutant: the queue is freed as soon as it is marked.
WaitOrFree_NoWait(p) ==
  /\ freed' = TRUE
  /\ Goto(p, "done") /\ Keep(p, FALSE)
  /\ UNCHANGED sleepVars

\* The head of the while loop, under the mutex.
WaitOrFree(p) ==
  \/ /\ tq_running > 0
     /\ wakeup(tq)
     /\ Goto(p, "msleep") /\ Keep(p, TRUE)
     /\ UNCHANGED freed
  \/ /\ tq_running = 0
     /\ freed' = TRUE
     /\ Goto(p, "done") /\ Keep(p, FALSE)
     /\ UNCHANGED sleepVars

taskq_destroy(p) ==
  /\ pc[p] = "idle" /\ Locked(p) /\ MtxFree
  /\ \A c \in Callers : pc[c] = "idle"
  /\ tq_state' = "DESTROYED"
  /\ \/ /\ tq_state = "CREATED"
        /\ Goto(p, "done") /\ Keep(p, FALSE)
        /\ UNCHANGED <<freed, sleepVars>>
     \/ /\ tq_state = "RUNNING"
        /\ WaitOrFree(p)
  /\ UNCHANGED <<tq_running, tq_worklist, t_flags, task, last, ghosts>>

taskq_destroy_msleep(p) ==
  /\ pc[p] = "msleep"
  /\ msleep(p, running)
  /\ Goto(p, "waiting") /\ Keep(p, FALSE)
  /\ UNCHANGED <<queueVars, task, last, ghosts>>

taskq_destroy_woken(p) ==
  /\ pc[p] = "waiting" /\ Locked(p)
  /\ WaitOrFree(p)
  /\ UNCHANGED <<tq_state, tq_running, tq_worklist, t_flags, task, last, ghosts>>

-----------------------------------------------------------------------------

CallerStep(p) == task_add_locked(p) \/ task_add_wakeup(p) \/ task_del_locked(p)

CreatorStep(p) ==
  \/ taskq_create_thread(p) \/ kthread_create(p)
  \/ taskq_thread_created(p) \/ taskq_thread_not_created(p)

WorkerStep(p) ==
  \/ taskq_thread(p) \/ taskq_next_work(p) \/ taskq_work_wakeup(p) \/ taskq_work(p) \/ taskq_pause(p)
  \/ taskq_leave(p) \/ taskq_flags(p) \/ taskq_exit(p)

DestroyerStep(p) == taskq_destroy_msleep(p) \/ taskq_destroy_woken(p)

Next ==
  \/ \E p \in Callers : CallerStep(p) \/ \E t \in Tasks : task_add(p, t) \/ task_del(p, t)
  \/ CreatorStep(creator)
  \/ \E p \in Workers : WorkerStep(p)
  \/ taskq_destroy(destroyer) \/ DestroyerStep(destroyer)

Spec == Init /\ [][Next]_vars

\* Every thread that can run is run, and the kernel lock, a ticket lock, is
\* given to everyone who waits for it; callers do not need it.  Nobody has to call task_add(),
\* task_del() or taskq_destroy().
FairSpec ==
  /\ Spec
  /\ \A p \in Callers : WF_vars(CallerStep(p))
  /\ SF_vars(CreatorStep(creator)) /\ SF_vars(DestroyerStep(destroyer))
  /\ \A p \in Workers : SF_vars(WorkerStep(p))

\* Moreover fork1() does not find memory short every time: sometimes the next
\* thread is created without giving up the kernel lock.
ForkSpec == FairSpec /\ SF_vars(taskq_thread_created(creator) /\ kernel_lock' = creator)

-----------------------------------------------------------------------------
(* Properties. *)

TypeOK ==
  /\ SleepTypeOK
  /\ tq_state \in {"CREATED", "RUNNING", "DESTROYED"}
  /\ tq_running \in 0 .. NThreads
  /\ tq_worklist \in Seq(Tasks) /\ t_flags \subseteq Tasks /\ tq_flags \subseteq {"MPSAFE"} /\ freed \in BOOLEAN
  /\ kernel_lock \in Procs \cup {NoProc}
  /\ task \in [Procs -> Tasks \cup {NoTask}]

Busy(t) == {w \in Workers : pc[w] \in {"work_wakeup", "work"} /\ task[w] = t}

\* A task_add() that returned 1 is answered by exactly one run or one
\* task_del() that returned 1, however callers and workers interleave their
\* looks at TASK_ONQUEUE.
RunsOncePerAdd ==
  \A t \in Tasks :
    added[t] = ran[t] + deleted[t] + Cardinality(Busy(t)) + (IF t \in t_flags THEN 1 ELSE 0)

\* Who is about to use the queue: a step on its mutex, its counters or flags.
Uses(p) ==
  \/ p \in Workers /\ pc[p] \in {"start", "next_work", "work_wakeup", "work", "working", "leave", "flags"}
  \/ p \in Callers /\ pc[p] \in {"add", "del"}
  \/ p = creator /\ pc[p] \in {"create", "kthread_create", "created", "not_created"}
  \/ p = destroyer /\ pc[p] \in {"msleep", "waiting"}

\* Nobody uses the queue after taskq_destroy() or taskq_create_thread() freed
\* it.  The kernel lock is what keeps taskq_destroy() out between the last
\* worker's --tq_running and its last look at tq_flags, so this is a property
\* of queues without TASKQ_MPSAFE.
FreedIsUnused == freed /\ ~MPSAFE => \A p \in Procs : ~Uses(p)

\* A task on the list of a running queue gets off it, also when the queue is
\* destroyed meanwhile: the wakeup_one() of task_add() and the one of
\* taskq_next_work() lose no task.  The exception is a queue without a thread,
\* which is what a kthread_create() that fails at once leaves.
Serviced ==
  \A t \in Tasks : (t \in t_flags /\ tq_state = "RUNNING") ~> (t \notin t_flags \/ tq_running = 0)

\* taskq_destroy() returns, also when it meets taskq_create_thread() in the
\* middle of kthread_create() and no thread can be created.
DestroyReturns == (pc[destroyer] # "idle") ~> (pc[destroyer] = "done")
=============================================================================
