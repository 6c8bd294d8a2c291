---------------------------- MODULE TaskQProofs ----------------------------
(***************************************************************************)
(* Theorems about the task queues, for any number of workers, callers and  *)
(* tasks, and any number of calls of task_add().                           *)
(***************************************************************************)
EXTENDS TaskQ, FiniteSetTheorems, TLAPS

\* Leaves are first-order steps for Zenon, unless they cite SMT.
USE ZenonT(30)

(* The inductive invariant, the list, and the callers: task_add() and task_del(). *)

\* A worker with one of these labels is counted in tq_running.
CountedLabels == {"start", "next_work", "work_wakeup", "work", "working", "leave"}
WorkerLabels == CountedLabels \cup {"none", "flags", "exit"}
CallerLabels == {"idle", "add", "add_wakeup", "del"}
CreatorLabels == {"create", "kthread_create", "created", "not_created", "done"}
DestroyerLabels == {"idle", "msleep", "waiting", "done"}

PcInv ==
  /\ pc \in [Procs -> WorkerLabels \cup CallerLabels \cup CreatorLabels \cup DestroyerLabels]
  /\ \A p \in Workers : pc[p] \in WorkerLabels
  /\ \A p \in Callers : pc[p] \in CallerLabels
  /\ pc[creator] \in CreatorLabels /\ pc[destroyer] \in DestroyerLabels

\* The list holds the tasks with TASK_ONQUEUE, each of them once.
ListInv ==
  /\ \A i, j \in DOMAIN tq_worklist : tq_worklist[i] = tq_worklist[j] => i = j
  /\ \A t \in Tasks : t \in t_flags <=> \E i \in DOMAIN tq_worklist : tq_worklist[i] = t

\* A thread that acts on a task has one.
TaskInv ==
  /\ added \in [Tasks -> Nat] /\ deleted \in [Tasks -> Nat] /\ ran \in [Tasks -> Nat]
  /\ last \in [Procs -> BOOLEAN]
  /\ \A p \in Workers : pc[p] \in {"work_wakeup", "work"} => task[p] \in Tasks
  /\ \A p \in Callers : pc[p] # "idle" => task[p] \in Tasks

Counted == {w \in Workers : pc[w] \in CountedLabels}

\* tq_running counts the workers, and the one that is about to be created.
CountInv ==
  tq_running =
    Cardinality(Counted) + (IF pc[creator] \in {"kthread_create", "not_created"} THEN 1 ELSE 0)

\* How far creation and destruction have come, who is kept out by the kernel
\* lock, and what is left of a queue that was freed.
StateInv ==
  /\ tq_state = "CREATED" => pc[creator] = "create"
  /\ tq_state = "DESTROYED" <=> pc[destroyer] # "idle"
  /\ pc[creator] = "create" =>
       /\ tq_state # "RUNNING" /\ tq_running = 0
       /\ pc[destroyer] \notin {"msleep", "waiting"}
  /\ pc[destroyer] # "idle" => \A p \in Callers : pc[p] = "idle"

LockInv ==
  /\ pc[creator] \in {"created", "not_created"} => kernel_lock = creator
  /\ pc[destroyer] = "msleep" => kernel_lock = destroyer
  /\ \A p \in Workers : pc[p] = "exit" \/ (pc[p] = "flags" /\ ~MPSAFE) => kernel_lock = p

FreedInv ==
  freed =>
    /\ tq_running = 0 /\ pc[creator] = "done" /\ pc[destroyer] = "done"
    /\ \A p \in Workers : pc[p] \in {"none", "exit"} \/ (pc[p] = "flags" /\ MPSAFE)

IInv ==
  /\ TypeOK /\ PcInv /\ ListInv /\ TaskInv
  /\ RunsOncePerAdd /\ CountInv /\ StateInv /\ LockInv /\ FreedInv

-----------------------------------------------------------------------------
(* Counting. *)

\* Sets of workers are finite.
LEMMA Finite ==
  /\ IsFiniteSet(Counted) /\ Cardinality(Counted) \in Nat
  /\ \A t : IsFiniteSet(Busy(t)) /\ Cardinality(Busy(t)) \in Nat
<1>1. Counted \subseteq Workers /\ \A t : Busy(t) \subseteq Workers  BY DEF Counted, Busy
<1>. QED  BY <1>1, FS_Subset, FS_CardinalityType, TaskqAssumption

\* A step that moves no worker in or out of the counted labels.
LEMMA CountedSame ==
  ASSUME \A w \in Workers : pc'[w] \in CountedLabels <=> pc[w] \in CountedLabels
  PROVE  Counted' = Counted
BY DEF Counted

\* A worker that kthread_create() starts.
LEMMA CountedMore ==
  ASSUME NEW p \in Workers, pc[p] \notin CountedLabels, pc'[p] \in CountedLabels,
         \A w \in Workers : w # p => pc'[w] = pc[w]
  PROVE  Cardinality(Counted') = Cardinality(Counted) + 1
<1>1. Counted' = Counted \cup {p} /\ p \notin Counted  BY DEF Counted
<1>. QED  BY <1>1, Finite, FS_AddElement

\* A worker that leaves.
LEMMA CountedLess ==
  ASSUME NEW p \in Workers, pc[p] \in CountedLabels, pc'[p] \notin CountedLabels,
         \A w \in Workers : w # p => pc'[w] = pc[w]
  PROVE  Cardinality(Counted') = Cardinality(Counted) - 1 /\ Cardinality(Counted) > 0
<1>1. Counted' = Counted \ {p} /\ p \in Counted  BY DEF Counted
<1>2. Cardinality(Counted) # 0  BY <1>1, Finite, FS_EmptySet
<1>3. Cardinality(Counted \ {p}) = Cardinality(Counted) - 1
  BY <1>1, Finite, FS_RemoveElement
<1>. QED  BY SMTT(30), <1>1, <1>2, <1>3, Finite

\* Nobody is counted when tq_running is 0.
LEMMA NoneCounted ==
  ASSUME CountInv, tq_running = 0
  PROVE  /\ \A w \in Workers : pc[w] \notin CountedLabels
         /\ pc[creator] \notin {"kthread_create", "not_created"}
<1>1. Cardinality(Counted) = 0 /\ pc[creator] \notin {"kthread_create", "not_created"}
  BY SMTT(30), Finite DEF CountInv
<1>2. Counted = {}  BY <1>1, Finite, FS_EmptySet
<1>. QED  BY <1>1, <1>2 DEF Counted

\* No worker takes up or finishes a task.
LEMMA BusySame ==
  ASSUME \A w \in Workers : task'[w] = task[w] /\
           (pc'[w] \in {"work_wakeup", "work"} <=> pc[w] \in {"work_wakeup", "work"})
  PROVE  \A t : Busy(t)' = Busy(t)
BY DEF Busy

\* The ghosts still agree when none of what they count changes.
LEMMA RunsSame ==
  ASSUME RunsOncePerAdd, UNCHANGED <<t_flags, added, deleted, ran>>,
         \A t : Busy(t)' = Busy(t)
  PROVE  RunsOncePerAdd'
BY DEF RunsOncePerAdd

-----------------------------------------------------------------------------
(* Frames. *)

Control == PcInv /\ CountInv /\ StateInv /\ LockInv /\ FreedInv

\* The threads are different.
LEMMA Apart ==
  /\ creator \in Procs /\ destroyer \in Procs /\ creator # destroyer
  /\ \A p \in Workers : p \in Procs /\ p \notin Callers /\ p # creator /\ p # destroyer
  /\ \A p \in Callers : p \in Procs /\ p \notin Workers /\ p # creator /\ p # destroyer
  /\ \A p \in Procs : p # NoProc
BY TaskqAssumption, SleepAssumption

\* A caller moves; it does so only while nobody destroys the queue.
LEMMA CallerFrame ==
  ASSUME Control, NEW p \in Callers, NEW l \in CallerLabels,
         pc[destroyer] = "idle", pc' = [pc EXCEPT ![p] = l],
         UNCHANGED <<tq_state, tq_running, tq_flags, freed, kernel_lock>>
  PROVE  Control'
<1>1. /\ pc'[creator] = pc[creator] /\ pc'[destroyer] = pc[destroyer]
      /\ \A w \in Workers : pc'[w] = pc[w]
  BY Apart DEF Control, PcInv
<1>2. PcInv'  BY Apart DEF Control, PcInv
<1>3. CountInv'  BY <1>1, CountedSame DEF Control, CountInv
<1>4. StateInv' /\ LockInv' /\ FreedInv'
  BY <1>1 DEF Control, StateInv, LockInv, FreedInv, MPSAFE
<1>. QED  BY <1>2, <1>3, <1>4 DEF Control

\* A worker that stays counted moves; it has the kernel lock or leaves it alone.
LEMMA WorkerFrame ==
  ASSUME Control, NEW p \in Workers, NEW l \in CountedLabels,
         pc[p] \in CountedLabels, pc' = [pc EXCEPT ![p] = l],
         kernel_lock' = kernel_lock \/ kernel_lock \in {NoProc, p},
         UNCHANGED <<tq_state, tq_running, tq_flags, freed>>
  PROVE  Control'
<1>1. /\ pc'[creator] = pc[creator] /\ pc'[destroyer] = pc[destroyer] /\ pc'[p] = l
      /\ \A w \in Procs : w # p => pc'[w] = pc[w]
  BY Apart DEF Control, PcInv
<1>2. PcInv'  BY Apart DEF Control, PcInv, WorkerLabels
<1>3. CountInv'  BY <1>1, Apart, CountedSame DEF Control, CountInv
<1>4. LockInv'
  BY <1>1, Apart DEF Control, LockInv, MPSAFE, CountedLabels
<1>5. StateInv'  BY <1>1, Apart DEF Control, StateInv
<1>6. FreedInv'  BY <1>1, Apart DEF Control, FreedInv, MPSAFE, CountedLabels
<1>. QED  BY <1>2, <1>3, <1>4, <1>5, <1>6 DEF Control

\* Sleeping and waking keep the types of the sleep queues.
LEMMA SleepKept ==
  ASSUME SleepTypeOK, NEW p \in Procs,
         \/ UNCHANGED sleepVars
         \/ wakeup(tq) \/ wakeup_one(tq) \/ wakeup_one(running)
         \/ msleep(p, tq) \/ msleep(p, running)
  PROVE  SleepTypeOK'
<1>1. tq \in Idents /\ running \in Idents  BY TaskqAssumption
<1>2. CASE UNCHANGED sleepVars  BY <1>2 DEF SleepTypeOK, sleepVars
<1>3. CASE msleep(p, tq) \/ msleep(p, running)
  BY <1>1, <1>3 DEF SleepTypeOK, msleep
<1>4. ASSUME NEW ps, WakeAll(ps), UNCHANGED <<sched_lock, p_sintr, p_siglist>>
      PROVE  SleepTypeOK'
  BY <1>4 DEF SleepTypeOK, WakeAll
<1>5. CASE wakeup(tq) \/ wakeup_one(tq) \/ wakeup_one(running)
  BY <1>4, <1>5 DEF wakeup, wakeup_one, SleepTypeOK
<1>. QED  BY <1>2, <1>3, <1>5

\* TypeOK without the sleep queues and the list.
Fields ==
  /\ tq_state \in {"CREATED", "RUNNING", "DESTROYED"}
  /\ tq_running \in 0 .. NThreads
  /\ tq_flags \subseteq {"MPSAFE"} /\ freed \in BOOLEAN
  /\ kernel_lock \in Procs \cup {NoProc}

Lists == tq_worklist \in Seq(Tasks) /\ t_flags \subseteq Tasks /\ ListInv

Locals == task \in [Procs -> Tasks \cup {NoTask}] /\ TaskInv

\* The invariant in the parts that the steps below change one by one.
LEMMA Parts ==
  IInv <=> SleepTypeOK /\ Fields /\ Lists /\ Locals /\ RunsOncePerAdd /\ Control
BY DEF IInv, TypeOK, Fields, Lists, Locals, Control

\* And after a step.
LEMMA PartsNext ==
  ASSUME SleepTypeOK', Fields', Lists', Locals', RunsOncePerAdd', Control'
  PROVE  IInv'
BY DEF IInv, TypeOK, Fields, Lists, Locals, Control

-----------------------------------------------------------------------------
(* The list. *)

\* Append of a task that is not on the list.
LEMMA ListAppend ==
  ASSUME Lists, NEW t \in Tasks, t \notin t_flags,
         t_flags' = t_flags \cup {t}, tq_worklist' = Append(tq_worklist, t)
  PROVE  Lists'
<1>1. /\ Len(tq_worklist) \in Nat /\ DOMAIN tq_worklist = 1 .. Len(tq_worklist)
      /\ tq_worklist' \in Seq(Tasks)
      /\ DOMAIN tq_worklist' = 1 .. Len(tq_worklist) + 1
      /\ tq_worklist'[Len(tq_worklist) + 1] = t
      /\ \A i \in DOMAIN tq_worklist : tq_worklist'[i] = tq_worklist[i]
  BY SMTT(30) DEF Lists
<1>2. \A i \in DOMAIN tq_worklist : tq_worklist[i] # t /\ tq_worklist[i] \in Tasks
  BY SMTT(30) DEF Lists, ListInv
<1>3. \A i, j \in DOMAIN tq_worklist' : tq_worklist'[i] = tq_worklist'[j] => i = j
  BY SMTT(30), <1>1, <1>2 DEF Lists, ListInv
<1>4. ASSUME NEW x \in Tasks
      PROVE  x \in t_flags' <=> \E i \in DOMAIN tq_worklist' : tq_worklist'[i] = x
  <2>1. CASE x = t
    <3>1. Len(tq_worklist) + 1 \in DOMAIN tq_worklist'  BY SMTT(30), <1>1
    <3>. QED  BY <1>1, <2>1, <3>1
  <2>2. CASE x # t
    BY SMTT(30), <1>1, <1>2, <2>2 DEF Lists, ListInv
  <2>. QED  BY <2>1, <2>2
<1>. QED  BY <1>1, <1>3, <1>4 DEF Lists, ListInv

\* The first task is taken off.
LEMMA ListTail ==
  ASSUME Lists, tq_worklist # <<>>,
         t_flags' = t_flags \ {Head(tq_worklist)}, tq_worklist' = Tail(tq_worklist)
  PROVE  Lists' /\ Head(tq_worklist) \in t_flags /\ Head(tq_worklist) \in Tasks
<1>1. /\ Len(tq_worklist) \in Nat \ {0} /\ DOMAIN tq_worklist = 1 .. Len(tq_worklist)
      /\ tq_worklist' \in Seq(Tasks)
      /\ DOMAIN tq_worklist' = 1 .. Len(tq_worklist) - 1
      /\ \A i \in DOMAIN tq_worklist' : tq_worklist'[i] = tq_worklist[i + 1]
      /\ Head(tq_worklist) = tq_worklist[1]
      /\ \A i \in DOMAIN tq_worklist : tq_worklist[i] \in Tasks
  BY SMTT(30) DEF Lists
<1>2. \A i, j \in DOMAIN tq_worklist' : tq_worklist'[i] = tq_worklist'[j] => i = j
  BY SMTT(30), <1>1 DEF Lists, ListInv
<1>3. 1 \in DOMAIN tq_worklist  BY SMTT(30), <1>1
<1>4. tq_worklist[1] \in t_flags /\ tq_worklist[1] \in Tasks  BY <1>1, <1>3 DEF Lists, ListInv
<1>5. ASSUME NEW x \in Tasks
      PROVE  x \in t_flags' <=> \E i \in DOMAIN tq_worklist' : tq_worklist'[i] = x
  <2>1. ASSUME x \in t_flags'
        PROVE  \E i \in DOMAIN tq_worklist' : tq_worklist'[i] = x
    <3>1. PICK j \in DOMAIN tq_worklist : tq_worklist[j] = x  BY <2>1 DEF Lists, ListInv
    <3>2. j # 1  BY <1>1, <2>1, <3>1
    <3>3. j - 1 \in DOMAIN tq_worklist' /\ tq_worklist'[j - 1] = x  BY SMTT(30), <1>1, <3>1, <3>2
    <3>. QED  BY <3>3
  <2>2. ASSUME NEW i \in DOMAIN tq_worklist', tq_worklist'[i] = x
        PROVE  x \in t_flags'
    <3>1. i + 1 \in DOMAIN tq_worklist /\ tq_worklist[i + 1] = x /\ i + 1 # 1  BY SMTT(30), <1>1, <2>2
    <3>2. x # tq_worklist[1] /\ x \in t_flags  BY <1>3, <3>1 DEF Lists, ListInv
    <3>. QED  BY <1>1, <3>2
  <2>. QED  BY <2>1, <2>2
<1>. QED  BY <1>1, <1>2, <1>4, <1>5 DEF Lists, ListInv

\* A task is taken out of the list.
LEMMA ListWithout ==
  ASSUME Lists, NEW t \in Tasks, t \in t_flags,
         t_flags' = t_flags \ {t}, tq_worklist' = Without(tq_worklist, t)
  PROVE  Lists'
<1> DEFINE n == Len(tq_worklist)
           k == CHOOSE i \in DOMAIN tq_worklist : tq_worklist[i] = t
           at(i) == IF i < k THEN i ELSE i + 1
<1>1. n \in Nat /\ DOMAIN tq_worklist = 1 .. n /\ \A i \in 1 .. n : tq_worklist[i] \in Tasks
  BY SMTT(30) DEF Lists
<1>2. k \in 1 .. n /\ tq_worklist[k] = t  BY <1>1 DEF Lists, ListInv
<1>3. tq_worklist' = [i \in 1 .. n - 1 |-> tq_worklist[at(i)]]  BY DEF Without
<1> HIDE DEF k
<1>4. \A i \in 1 .. n - 1 : at(i) \in 1 .. n /\ at(i) # k  BY SMTT(30), <1>1, <1>2
<1>5. \A i, j \in 1 .. n - 1 : at(i) = at(j) => i = j  BY SMTT(30), <1>1, <1>2
<1>6. \A j \in 1 .. n : j # k => \E i \in 1 .. n - 1 : at(i) = j
  <2> SUFFICES ASSUME NEW j \in 1 .. n, j # k PROVE \E i \in 1 .. n - 1 : at(i) = j
    OBVIOUS
  <2>1. CASE j < k
    <3>1. j \in 1 .. n - 1 /\ at(j) = j  BY SMTT(30), <1>1, <1>2, <2>1
    <3>. QED  BY <3>1
  <2>2. CASE ~(j < k)
    <3>1. j - 1 \in 1 .. n - 1 /\ at(j - 1) = j  BY SMTT(30), <1>1, <1>2, <2>2
    <3>. QED  BY <3>1
  <2>. QED  BY <2>1, <2>2
<1> HIDE DEF at
<1>7. /\ tq_worklist' \in Seq(Tasks) /\ DOMAIN tq_worklist' = 1 .. n - 1
      /\ \A i \in 1 .. n - 1 : tq_worklist'[i] = tq_worklist[at(i)]
  <2>1. CASE n = 0  BY SMTT(30), <1>2, <2>1
  <2>2. CASE n # 0
    <3>1. n - 1 \in Nat  BY SMTT(30), <1>1, <2>2
    <3>. QED  BY SMTT(30), <1>1, <1>3, <1>4, <3>1
  <2>. QED  BY <2>1, <2>2
<1>8. ASSUME NEW i \in DOMAIN tq_worklist', NEW j \in DOMAIN tq_worklist',
             tq_worklist'[i] = tq_worklist'[j]
      PROVE  i = j
  <2>1. i \in 1 .. n - 1 /\ j \in 1 .. n - 1  BY <1>7
  <2>2. at(i) \in 1 .. n /\ at(j) \in 1 .. n /\ tq_worklist[at(i)] = tq_worklist[at(j)]
    BY <1>4, <1>7, <1>8, <2>1
  <2>3. at(i) = at(j)  BY <1>1, <2>2 DEF Lists, ListInv
  <2>. QED  BY <1>5, <2>1, <2>3
<1>9. ASSUME NEW x \in Tasks
      PROVE  x \in t_flags' <=> \E i \in DOMAIN tq_worklist' : tq_worklist'[i] = x
  <2>1. ASSUME x \in t_flags'
        PROVE  \E i \in DOMAIN tq_worklist' : tq_worklist'[i] = x
    <3>1. PICK j \in DOMAIN tq_worklist : tq_worklist[j] = x  BY <2>1 DEF Lists, ListInv
    <3>2. j # k  BY <1>2, <2>1, <3>1
    <3>. QED  BY <1>1, <1>6, <1>7, <3>1, <3>2
  <2>2. ASSUME NEW i \in DOMAIN tq_worklist', tq_worklist'[i] = x
        PROVE  x \in t_flags'
    <3>0. i \in 1 .. n - 1  BY <1>7, <2>2
    <3>1. at(i) \in 1 .. n /\ at(i) # k /\ tq_worklist[at(i)] = x
      BY <1>4, <1>7, <2>2, <3>0
    <3>2. x # t /\ x \in t_flags  BY <1>1, <1>2, <3>1 DEF Lists, ListInv
    <3>. QED  BY <3>2
  <2>. QED  BY <2>1, <2>2
<1>. QED  BY <1>7, <1>8, <1>9 DEF Lists, ListInv

-----------------------------------------------------------------------------
(* Callers. *)

\* A step that leaves list, flags and counts alone.
LEMMA ListsSame ==
  ASSUME Lists, UNCHANGED <<tq_worklist, t_flags>>
  PROVE  Lists'
BY DEF Lists, ListInv

\* What a caller's move means for the locals and for what the workers do.
LEMMA CallerLocals ==
  ASSUME IInv, NEW p \in Callers, NEW l \in CallerLabels, NEW t \in Tasks \cup {NoTask},
         l # "idle" => t \in Tasks,
         pc' = [pc EXCEPT ![p] = l], task' = [task EXCEPT ![p] = t], UNCHANGED last,
         added' \in [Tasks -> Nat], deleted' \in [Tasks -> Nat], ran' \in [Tasks -> Nat]
  PROVE  Locals' /\ \A x : Busy(x)' = Busy(x)
<1>1. /\ pc'[p] = l /\ task'[p] = t
      /\ \A q \in Procs : q # p => pc'[q] = pc[q] /\ task'[q] = task[q]
      /\ task' \in [Procs -> Tasks \cup {NoTask}]
  BY Apart DEF IInv, PcInv, TypeOK
<1>2. Locals'  BY <1>1, Apart DEF Locals, TaskInv, IInv
<1>. QED  BY <1>1, <1>2, Apart, BusySame

\* task_add() and task_del() keep the invariant.
LEMMA CallerKeeps ==
  ASSUME IInv, NEW p \in Callers,
         CallerStep(p) \/ \E t \in Tasks : task_add(p, t) \/ task_del(p, t)
  PROVE  IInv'
<1>1. /\ SleepTypeOK /\ Fields /\ Lists /\ Locals /\ RunsOncePerAdd /\ Control
      /\ PcInv /\ StateInv /\ TaskInv /\ p \in Procs
      /\ added \in [Tasks -> Nat] /\ deleted \in [Tasks -> Nat] /\ ran \in [Tasks -> Nat]
  BY Parts, Apart DEF Control, Locals, TaskInv
<1>2. pc[p] # "idle" => pc[destroyer] = "idle" /\ task[p] \in Tasks
  BY <1>1 DEF StateInv, TaskInv
<1>3. ASSUME NEW t \in Tasks, task_add(p, t) \/ task_del(p, t)
      PROVE  IInv'
  <2>1. PICK l \in {"add", "del"} : pc' = [pc EXCEPT ![p] = l]
    BY <1>3 DEF task_add, task_del, Goto
  <2>2. /\ task' = [task EXCEPT ![p] = t] /\ pc[destroyer] = "idle"
        /\ UNCHANGED <<tq_state, tq_running, tq_worklist, t_flags, freed, tq_flags,
                       kernel_lock, last, added, deleted, ran, sleepVars>>
    BY <1>3 DEF task_add, task_del, Goto, queueVars, ghosts
  <2>3. Locals' /\ \A x : Busy(x)' = Busy(x)
    BY <1>1, <2>1, <2>2, CallerLocals DEF CallerLabels
  <2>4. Control'  BY <1>1, <2>1, <2>2, CallerFrame DEF CallerLabels
  <2>5. Lists' /\ RunsOncePerAdd'  BY <1>1, <2>2, <2>3, ListsSame, RunsSame
  <2>6. SleepTypeOK' /\ Fields'  BY <1>1, <2>2, SleepKept DEF Fields
  <2>. QED  BY <2>3, <2>4, <2>5, <2>6, PartsNext
<1>4. CASE task_add_wakeup(p)
  <2>1. /\ pc' = [pc EXCEPT ![p] = "idle"] /\ pc[p] = "add_wakeup" /\ wakeup_one(tq)
        /\ task' = [task EXCEPT ![p] = NoTask]
        /\ UNCHANGED <<tq_state, tq_running, tq_worklist, t_flags, freed, tq_flags,
                       kernel_lock, last, added, deleted, ran>>
    BY <1>4 DEF task_add_wakeup, Goto, queueVars, ghosts
  <2>2. Locals' /\ \A x : Busy(x)' = Busy(x)
    BY <1>1, <2>1, CallerLocals DEF CallerLabels
  <2>3. Control'  BY <1>1, <1>2, <2>1, CallerFrame DEF CallerLabels
  <2>4. Lists' /\ RunsOncePerAdd'  BY <1>1, <2>1, <2>2, ListsSame, RunsSame
  <2>5. SleepTypeOK' /\ Fields'  BY <1>1, <2>1, SleepKept DEF Fields
  <2>. QED  BY <2>2, <2>3, <2>4, <2>5, PartsNext
<1>5. CASE task_add_locked(p)
  <2>1. pc[p] = "add" /\ UNCHANGED <<tq_state, tq_running, freed, tq_flags, kernel_lock, last,
                                     deleted, ran, sleepVars>>
    BY <1>5 DEF task_add_locked, Goto
  <2>2. SleepTypeOK' /\ Fields'  BY <1>1, <2>1, SleepKept DEF Fields
  <2>3. CASE task[p] \notin t_flags
    <3>1. /\ t_flags' = t_flags \cup {task[p]}
          /\ tq_worklist' = Append(tq_worklist, task[p])
          /\ added' = [added EXCEPT ![task[p]] = @ + 1]
          /\ pc' = [pc EXCEPT ![p] = "add_wakeup"] /\ UNCHANGED task
      BY <1>5, <2>3 DEF task_add_locked, Goto
    <3>2. Lists'  BY <1>1, <1>2, <2>1, <2>3, <3>1, ListAppend
    <3>3. task' = [task EXCEPT ![p] = task[p]]  BY <1>1, <3>1 DEF Locals
    <3>4. added' \in [Tasks -> Nat]  BY SMTT(30), <1>1, <1>2, <2>1, <3>1
    <3>5. Locals' /\ \A x : Busy(x)' = Busy(x)
      BY <1>1, <1>2, <2>1, <3>1, <3>3, <3>4, CallerLocals DEF CallerLabels
    <3>6. Control'  BY <1>1, <1>2, <2>1, <3>1, CallerFrame DEF CallerLabels
    <3>7. RunsOncePerAdd'
      <4> SUFFICES ASSUME NEW t \in Tasks
                   PROVE  added'[t] = ran'[t] + deleted'[t] + Cardinality(Busy(t)')
                                        + (IF t \in t_flags' THEN 1 ELSE 0)
        BY DEF RunsOncePerAdd
      <4>1. added[t] = ran[t] + deleted[t] + Cardinality(Busy(t))
                          + (IF t \in t_flags THEN 1 ELSE 0)
        BY <1>1 DEF RunsOncePerAdd
      <4>2. Cardinality(Busy(t)) \in Nat  BY Finite
      <4>3. Busy(t)' = Busy(t)  BY <3>5
      <4>. QED  BY SMTT(30), <1>1, <1>2, <2>1, <2>3, <3>1, <4>1, <4>2, <4>3
    <3>. QED  BY <2>2, <3>2, <3>5, <3>6, <3>7, PartsNext
  <2>4. CASE task[p] \in t_flags
    <3>1. /\ pc' = [pc EXCEPT ![p] = "idle"] /\ task' = [task EXCEPT ![p] = NoTask]
          /\ UNCHANGED <<t_flags, tq_worklist, added>>
      BY <1>5, <2>4 DEF task_add_locked, Goto
    <3>2. Locals' /\ \A x : Busy(x)' = Busy(x)
      BY <1>1, <2>1, <3>1, CallerLocals DEF CallerLabels
    <3>3. Control'  BY <1>1, <1>2, <2>1, <3>1, CallerFrame DEF CallerLabels
    <3>4. Lists' /\ RunsOncePerAdd'  BY <1>1, <2>1, <3>1, <3>2, ListsSame, RunsSame
    <3>. QED  BY <2>2, <3>2, <3>3, <3>4, PartsNext
  <2>. QED  BY <2>3, <2>4
<1>6. CASE task_del_locked(p)
  <2>1. /\ pc[p] = "del" /\ pc' = [pc EXCEPT ![p] = "idle"]
        /\ task' = [task EXCEPT ![p] = NoTask]
        /\ UNCHANGED <<tq_state, tq_running, freed, tq_flags, kernel_lock, last, added, ran,
                       sleepVars>>
    BY <1>6 DEF task_del_locked, Goto
  <2>2. SleepTypeOK' /\ Fields'  BY <1>1, <2>1, SleepKept DEF Fields
  <2>3. Control'  BY <1>1, <1>2, <2>1, CallerFrame DEF CallerLabels
  <2>4. CASE task[p] \in t_flags
    <3>1. /\ t_flags' = t_flags \ {task[p]}
          /\ tq_worklist' = Without(tq_worklist, task[p])
          /\ deleted' = [deleted EXCEPT ![task[p]] = @ + 1]
      BY <1>6, <2>4 DEF task_del_locked
    <3>2. Lists'  BY <1>1, <1>2, <2>1, <2>4, <3>1, ListWithout
    <3>3. deleted' \in [Tasks -> Nat]  BY SMTT(30), <1>1, <1>2, <2>1, <3>1
    <3>4. Locals' /\ \A x : Busy(x)' = Busy(x)
      BY <1>1, <2>1, <3>3, CallerLocals DEF CallerLabels
    <3>5. RunsOncePerAdd'
      <4> SUFFICES ASSUME NEW t \in Tasks
                   PROVE  added'[t] = ran'[t] + deleted'[t] + Cardinality(Busy(t)')
                                        + (IF t \in t_flags' THEN 1 ELSE 0)
        BY DEF RunsOncePerAdd
      <4>1. added[t] = ran[t] + deleted[t] + Cardinality(Busy(t))
                          + (IF t \in t_flags THEN 1 ELSE 0)
        BY <1>1 DEF RunsOncePerAdd
      <4>2. Cardinality(Busy(t)) \in Nat  BY Finite
      <4>3. Busy(t)' = Busy(t)  BY <3>4
      <4>. QED  BY SMTT(30), <1>1, <1>2, <2>1, <2>4, <3>1, <4>1, <4>2, <4>3
    <3>. QED  BY <2>2, <2>3, <3>2, <3>4, <3>5, PartsNext
  <2>5. CASE task[p] \notin t_flags
    <3>1. UNCHANGED <<t_flags, tq_worklist, deleted>>  BY <1>6, <2>5 DEF task_del_locked
    <3>2. Locals' /\ \A x : Busy(x)' = Busy(x)
      BY <1>1, <2>1, <3>1, CallerLocals DEF CallerLabels
    <3>3. Lists' /\ RunsOncePerAdd'  BY <1>1, <2>1, <3>1, <3>2, ListsSame, RunsSame
    <3>. QED  BY <2>2, <2>3, <3>2, <3>3, PartsNext
  <2>. QED  BY <2>4, <2>5
<1>. QED  BY <1>3, <1>4, <1>5, <1>6 DEF CallerStep

-----------------------------------------------------------------------------
(* The other threads, and the theorems. *)

-----------------------------------------------------------------------------
(* taskq_create_thread() and taskq_destroy(). *)

\* A step that begins, finishes and calls nothing.
LEMMA LocalsSame ==
  ASSUME IInv, UNCHANGED <<task, added, deleted, ran, t_flags>>,
         last' \in [Procs -> BOOLEAN],
         \A q \in Callers : pc'[q] = pc[q],
         \A w \in Workers : pc'[w] \in {"work_wakeup", "work"} <=> pc[w] \in {"work_wakeup", "work"}
  PROVE  Locals' /\ RunsOncePerAdd'
<1>1. Locals'  BY DEF Locals, TaskInv, IInv, TypeOK
<1>2. \A t : Busy(t)' = Busy(t)  BY BusySame
<1>. QED  BY <1>1, <1>2, RunsSame DEF IInv

\* The kernel lock passes only between the thread that moves and nobody.
LEMMA LockStep ==
  ASSUME LockInv, NEW p \in Procs, UNCHANGED tq_flags,
         kernel_lock' = kernel_lock \/ kernel_lock \in {NoProc, p},
         \A q \in Procs : q # p => pc'[q] = pc[q] \/ pc'[q] = "start",
         p = creator /\ pc'[p] \in {"created", "not_created"} => kernel_lock' = p,
         p = destroyer /\ pc'[p] = "msleep" => kernel_lock' = p,
         p \in Workers /\ (pc'[p] = "exit" \/ (pc'[p] = "flags" /\ ~MPSAFE)) => kernel_lock' = p
  PROVE  LockInv'
<1>1. p # NoProc  BY Apart
<1>2. pc'[creator] \in {"created", "not_created"} => kernel_lock' = creator
  BY <1>1, Apart DEF LockInv
<1>3. pc'[destroyer] = "msleep" => kernel_lock' = destroyer
  BY <1>1, Apart DEF LockInv
<1>4. \A w \in Workers : pc'[w] = "exit" \/ (pc'[w] = "flags" /\ ~MPSAFE) => kernel_lock' = w
  BY <1>1, Apart DEF LockInv
<1>5. MPSAFE' <=> MPSAFE  BY DEF MPSAFE
<1>. QED  BY <1>2, <1>3, <1>4, <1>5 DEF LockInv

\* What a thread has that frees the queue: under the kernel lock no worker is
\* between its last --tq_running and its last look at the queue.
LEMMA FreeSafe ==
  ASSUME IInv, NEW p \in {creator, destroyer}, kernel_lock \in {NoProc, p}, tq_running = 0
  PROVE  /\ \A w \in Workers : pc[w] = "none" \/ (pc[w] = "flags" /\ MPSAFE)
         /\ pc[creator] \in {"create", "done"} \/ p = creator
<1>1. /\ \A w \in Workers : pc[w] \notin CountedLabels
      /\ pc[creator] \notin {"kthread_create", "not_created"}
  BY NoneCounted DEF IInv
<1>2. \A w \in Workers : kernel_lock # w  BY Apart
<1>3. \A w \in Workers : pc[w] = "none" \/ (pc[w] = "flags" /\ MPSAFE)
  BY <1>1, <1>2 DEF IInv, PcInv, WorkerLabels, LockInv
<1>4. pc[creator] = "created" => p = creator
  BY Apart DEF IInv, LockInv
<1>. QED  BY <1>1, <1>3, <1>4 DEF IInv, PcInv, CreatorLabels

\* taskq_create_thread() and kthread_create() keep the invariant.
LEMMA CreatorKeeps ==
  ASSUME IInv, CreatorStep(creator)
  PROVE  IInv'
<1> DEFINE p == creator
<1>1. /\ SleepTypeOK /\ Fields /\ Lists /\ Locals /\ RunsOncePerAdd /\ Control
      /\ PcInv /\ StateInv /\ LockInv /\ CountInv /\ FreedInv /\ p \in Procs
      /\ NThreads \in Nat \ {0} /\ tq_running \in 0 .. NThreads
  BY Parts, Apart, TaskqAssumption DEF Control, Fields
<1>2. /\ UNCHANGED <<tq_worklist, t_flags, task, last, added, deleted, ran, tq_flags>>
      /\ kernel_lock \in {NoProc, p} /\ kernel_lock' \in {NoProc, p}
      /\ pc[p] # "done" /\ pc[p] \in CreatorLabels
  BY <1>1 DEF CreatorStep, taskq_create_thread, kthread_create, taskq_thread_created, Keep,
       taskq_thread_not_created, Goto, ghosts, queueVars, Locked, PcInv
<1>3. ~freed /\ last' \in [Procs -> BOOLEAN]
  BY <1>1, <1>2 DEF FreedInv, Locals, TaskInv
<1>4. UNCHANGED sleepVars \/ wakeup_one(running)
  BY DEF CreatorStep, taskq_create_thread, kthread_create, taskq_thread_created,
       taskq_thread_not_created
<1>5. SleepTypeOK' /\ Lists'  BY <1>1, <1>2, <1>4, SleepKept, ListsSame
<1>6. ASSUME NEW l \in CreatorLabels, pc' = [pc EXCEPT ![p] = l]
      PROVE  /\ PcInv' /\ Locals' /\ RunsOncePerAdd' /\ Counted' = Counted
             /\ pc'[p] = l /\ \A q \in Procs : q # p => pc'[q] = pc[q]
  <2>1. pc'[p] = l /\ \A q \in Procs : q # p => pc'[q] = pc[q]  BY <1>1, <1>6 DEF PcInv
  <2>2. PcInv'  BY <1>1, <1>6, <2>1, Apart DEF PcInv
  <2>3. Counted' = Counted  BY <2>1, Apart, CountedSame
  <2>4. Locals' /\ RunsOncePerAdd'  BY <1>2, <1>3, <2>1, Apart, LocalsSame
  <2>. QED  BY <2>1, <2>2, <2>3, <2>4
<1>7. Cardinality(Counted) \in Nat  BY Finite
<1>8. CASE taskq_create_thread(p)
  <2>1. /\ pc[p] = "create" /\ tq_running = 0
        /\ pc[destroyer] \notin {"msleep", "waiting"}
        /\ pc[destroyer] \in DestroyerLabels
    BY <1>1, <1>8 DEF taskq_create_thread, StateInv, PcInv
  <2>2. Cardinality(Counted) = 0  BY SMTT(30), <1>1, <1>7, <2>1 DEF CountInv
  <2>3. CASE tq_state = "DESTROYED"
    <3>1. freed' = TRUE /\ UNCHANGED <<tq_state, tq_running>> /\ pc' = [pc EXCEPT ![p] = "done"]
      BY <1>8, <2>3 DEF taskq_create_thread, Goto
    <3>2. /\ PcInv' /\ Locals' /\ RunsOncePerAdd' /\ Counted' = Counted
          /\ pc'[p] = "done" /\ \A q \in Procs : q # p => pc'[q] = pc[q]
      BY <1>6, <3>1 DEF CreatorLabels
    <3>3. CountInv'  BY <1>1, <2>1, <3>1, <3>2 DEF CountInv
    <3>4. StateInv'  BY <1>1, <2>1, <2>3, <3>1, <3>2, Apart DEF StateInv
    <3>5. LockInv'  BY <1>1, <1>2, <3>2, LockStep, Apart
    <3>6. pc[destroyer] = "done"
      BY <1>1, <2>1, <2>3 DEF StateInv, DestroyerLabels
    <3>7. \A w \in Workers : pc[w] = "none" \/ (pc[w] = "flags" /\ MPSAFE)
      BY <1>1, <1>2, <2>1, FreeSafe
    <3>8. FreedInv'  BY <1>2, <2>1, <3>1, <3>2, <3>6, <3>7, Apart DEF FreedInv, MPSAFE
    <3>9. Fields'  BY <1>1, <1>2, <3>1 DEF Fields
    <3>. QED  BY <1>5, <3>2, <3>3, <3>4, <3>5, <3>8, <3>9, PartsNext DEF Control
  <2>4. CASE tq_state = "CREATED"
    <3>1. /\ freed' = freed /\ tq_state' = "RUNNING" /\ tq_running' = tq_running + 1
          /\ pc' = [pc EXCEPT ![p] = "kthread_create"]
      BY <1>8, <2>4 DEF taskq_create_thread, Goto
    <3>2. /\ PcInv' /\ Locals' /\ RunsOncePerAdd' /\ Counted' = Counted
          /\ pc'[p] = "kthread_create" /\ \A q \in Procs : q # p => pc'[q] = pc[q]
      BY <1>6, <3>1 DEF CreatorLabels
    <3>3. CountInv'  BY <2>1, <2>2, <3>1, <3>2 DEF CountInv
    <3>4. StateInv'  BY <1>1, <2>1, <2>4, <3>1, <3>2, Apart DEF StateInv
    <3>5. LockInv'  BY <1>1, <1>2, <3>2, LockStep, Apart
    <3>6. FreedInv'  BY <1>3, <3>1 DEF FreedInv
    <3>7. Fields'  BY SMTT(30), <1>1, <1>2, <2>1, <3>1 DEF Fields
    <3>. QED  BY <1>5, <3>2, <3>3, <3>4, <3>5, <3>6, <3>7, PartsNext DEF Control
  <2>. QED  BY <1>8, <2>3, <2>4 DEF taskq_create_thread
<1>9. CASE kthread_create(p)
  <2>1. /\ pc[p] = "kthread_create" /\ kernel_lock' = p
        /\ UNCHANGED <<tq_state, tq_running, freed>>
    BY <1>9 DEF kthread_create, Keep, queueVars
  <2>2. Fields' /\ FreedInv'  BY <1>1, <1>2, <1>3, <2>1 DEF Fields, FreedInv
  <2>3. CASE pc' = [pc EXCEPT ![p] = "not_created"]
    <3>2. /\ PcInv' /\ Locals' /\ RunsOncePerAdd' /\ Counted' = Counted
          /\ pc'[p] = "not_created" /\ \A q \in Procs : q # p => pc'[q] = pc[q]
      BY <1>6, <2>3 DEF CreatorLabels
    <3>3. CountInv'  BY <1>1, <2>1, <3>2 DEF CountInv
    <3>4. StateInv'  BY <1>1, <2>1, <3>2, Apart DEF StateInv
    <3>5. LockInv'  BY <1>1, <1>2, <2>1, <3>2, LockStep, Apart
    <3>. QED  BY <1>5, <2>2, <3>2, <3>3, <3>4, <3>5, PartsNext DEF Control
  <2>4. ASSUME NEW w \in Workers, pc[w] = "none",
               pc' = [pc EXCEPT ![p] = "created", ![w] = "start"]
        PROVE  IInv'
    <3>1. /\ pc'[p] = "created" /\ pc'[w] = "start"
          /\ \A q \in Procs : q # p /\ q # w => pc'[q] = pc[q]
      BY <1>1, <2>4, Apart DEF PcInv
    <3>2. PcInv'
      BY <1>1, <2>4, <3>1, Apart DEF PcInv, WorkerLabels, CountedLabels, CreatorLabels
    <3>3. Cardinality(Counted') = Cardinality(Counted) + 1
      BY <2>4, <3>1, Apart, CountedMore DEF CountedLabels
    <3>4. CountInv'  BY SMTT(30), <1>1, <1>7, <2>1, <3>1, <3>3 DEF CountInv
    <3>5. Locals' /\ RunsOncePerAdd'  BY <1>2, <1>3, <2>4, <3>1, Apart, LocalsSame
    <3>6. StateInv'  BY <1>1, <2>1, <3>1, Apart DEF StateInv
    <3>7. LockInv'  BY <1>1, <1>2, <2>1, <3>1, LockStep, Apart
    <3>. QED  BY <1>5, <2>2, <3>2, <3>4, <3>5, <3>6, <3>7, PartsNext DEF Control
  <2>. QED  BY <1>9, <2>3, <2>4 DEF kthread_create, Goto
<1>10. CASE taskq_thread_created(p)
  <2>1. pc[p] = "created" /\ UNCHANGED <<tq_state, freed>>
    BY <1>10 DEF taskq_thread_created
  <2>2. FreedInv'  BY <1>3, <2>1 DEF FreedInv
  <2>3. ASSUME NEW l \in {"kthread_create", "done"}, pc' = [pc EXCEPT ![p] = l],
               tq_running' = tq_running + (IF l = "done" THEN 0 ELSE 1),
               tq_running' <= NThreads
        PROVE  IInv'
    <3>2. /\ PcInv' /\ Locals' /\ RunsOncePerAdd' /\ Counted' = Counted
          /\ pc'[p] = l /\ \A q \in Procs : q # p => pc'[q] = pc[q]
      BY <1>6, <2>3 DEF CreatorLabels
    <3>3. CountInv'  BY SMTT(30), <1>1, <1>7, <2>1, <2>3, <3>2 DEF CountInv
    <3>4. StateInv'  BY <1>1, <2>1, <3>2, Apart DEF StateInv
    <3>5. LockInv'  BY <1>1, <1>2, <2>3, <3>2, LockStep, Apart
    <3>6. Fields'  BY SMTT(30), <1>1, <1>2, <2>1, <2>3 DEF Fields
    <3>. QED  BY <1>5, <2>2, <3>2, <3>3, <3>4, <3>5, <3>6, PartsNext DEF Control
  <2>4. CASE MoreThreads
    <3>1. pc' = [pc EXCEPT ![p] = "kthread_create"] /\ tq_running' = tq_running + 1
      BY <1>10, <2>4 DEF taskq_thread_created, Goto
    <3>2. tq_running' <= NThreads  BY SMTT(30), <1>1, <2>4, <3>1 DEF MoreThreads
    <3>. QED  BY <2>3, <3>1, <3>2
  <2>5. CASE ~MoreThreads
    <3>1. pc' = [pc EXCEPT ![p] = "done"] /\ tq_running' = tq_running
      BY <1>10, <2>5 DEF taskq_thread_created, Goto
    <3>2. tq_running' <= NThreads /\ tq_running' = tq_running + 0  BY SMTT(30), <1>1, <3>1
    <3>. QED  BY <2>3, <3>1, <3>2
  <2>. QED  BY <2>4, <2>5
<1>11. CASE taskq_thread_not_created(p)
  <2>1. /\ pc[p] = "not_created" /\ UNCHANGED <<tq_state, freed>>
        /\ pc' = [pc EXCEPT ![p] = "done"] /\ tq_running' = tq_running - 1
    BY <1>11 DEF taskq_thread_not_created, Goto
  <2>2. FreedInv'  BY <1>3, <2>1 DEF FreedInv
  <2>3. /\ PcInv' /\ Locals' /\ RunsOncePerAdd' /\ Counted' = Counted
        /\ pc'[p] = "done" /\ \A q \in Procs : q # p => pc'[q] = pc[q]
    BY <1>6, <2>1 DEF CreatorLabels
  <2>4. CountInv' /\ tq_running > 0  BY SMTT(30), <1>1, <1>7, <2>1, <2>3 DEF CountInv
  <2>5. StateInv'  BY <1>1, <2>1, <2>3, Apart DEF StateInv
  <2>6. LockInv'  BY <1>1, <1>2, <2>1, <2>3, LockStep, Apart
  <2>7. Fields'  BY SMTT(30), <1>1, <1>2, <2>1, <2>4 DEF Fields
  <2>. QED  BY <1>5, <2>2, <2>3, <2>4, <2>5, <2>6, <2>7, PartsNext DEF Control
<1>. QED  BY <1>8, <1>9, <1>10, <1>11 DEF CreatorStep

\* taskq_destroy(), its sleep and its loop keep the invariant.
LEMMA DestroyerKeeps ==
  ASSUME IInv, taskq_destroy(destroyer) \/ DestroyerStep(destroyer)
  PROVE  IInv'
<1> DEFINE p == destroyer
<1>1. /\ SleepTypeOK /\ Fields /\ Lists /\ Locals /\ RunsOncePerAdd /\ Control
      /\ PcInv /\ StateInv /\ LockInv /\ CountInv /\ FreedInv /\ p \in Procs
      /\ tq_running \in Nat
  BY SMTT(30), Parts, Apart, TaskqAssumption DEF Control, Fields
<1>2. /\ UNCHANGED <<tq_worklist, t_flags, task, last, added, deleted, ran, tq_flags, tq_running>>
      /\ pc[p] # "done" /\ pc[p] \in DestroyerLabels
  BY <1>1 DEF DestroyerStep, taskq_destroy, taskq_destroy_msleep, taskq_destroy_woken,
       WaitOrFree, Goto, ghosts, queueVars, PcInv
<1>3. ~freed /\ last' \in [Procs -> BOOLEAN]
  BY <1>1, <1>2 DEF FreedInv, Locals, TaskInv
<1>0. freed = FALSE  BY <1>1, <1>3 DEF Fields
<1>4. /\ UNCHANGED sleepVars \/ wakeup(tq) \/ msleep(p, running)
      /\ kernel_lock \in {NoProc, p} /\ kernel_lock' \in {NoProc, p}
  BY <1>1 DEF DestroyerStep, taskq_destroy, taskq_destroy_msleep, taskq_destroy_woken,
       WaitOrFree, Locked, Keep, LockInv
<1>5. SleepTypeOK' /\ Lists'  BY <1>1, <1>2, <1>4, SleepKept, ListsSame
<1>6. /\ tq_state' = "DESTROYED" /\ \A c \in Callers : pc[c] = "idle"
      /\ tq_state = "CREATED" => /\ pc' = [pc EXCEPT ![p] = "done"]
                                 /\ UNCHANGED freed /\ pc[creator] = "create"
      /\ tq_state # "CREATED" => pc[creator] # "create" \/ pc[p] = "idle"
  BY <1>1, Apart DEF DestroyerStep, taskq_destroy, taskq_destroy_msleep, taskq_destroy_woken,
       Goto, queueVars, StateInv
<1>7. ASSUME NEW l \in DestroyerLabels, pc' = [pc EXCEPT ![p] = l], l # "idle",
             l \in {"msleep", "waiting"} => pc[creator] # "create",
             l = "msleep" => kernel_lock' = p,
             freed' \in BOOLEAN,
             freed' => tq_running = 0 /\ pc[creator] # "create" /\ l = "done"
      PROVE  IInv'
  <2>1. pc'[p] = l /\ \A q \in Procs : q # p => pc'[q] = pc[q]  BY <1>1, <1>7 DEF PcInv
  <2>2. PcInv'  BY <1>1, <1>7, <2>1, Apart DEF PcInv
  <2>3. CountInv'  BY <1>1, <1>2, <2>1, Apart, CountedSame DEF CountInv
  <2>4. Locals' /\ RunsOncePerAdd'  BY <1>2, <1>3, <2>1, Apart, LocalsSame
  <2>5. StateInv'  BY <1>1, <1>2, <1>6, <1>7, <2>1, Apart DEF StateInv
  <2>6. LockInv'  BY <1>1, <1>2, <1>4, <1>7, <2>1, LockStep, Apart
  <2>7. FreedInv'
    <3> SUFFICES ASSUME freed' PROVE FreedInv'  BY DEF FreedInv
    <3>1. /\ \A w \in Workers : pc[w] = "none" \/ (pc[w] = "flags" /\ MPSAFE)
          /\ pc[creator] = "done"
      BY <1>4, <1>7, FreeSafe, Apart
    <3>. QED  BY <1>2, <1>7, <2>1, <3>1, Apart DEF FreedInv, MPSAFE
  <2>8. Fields'  BY <1>1, <1>2, <1>4, <1>6, <1>7 DEF Fields
  <2>. QED  BY <1>5, <2>2, <2>3, <2>4, <2>5, <2>6, <2>7, <2>8, PartsNext DEF Control
<1>8. ASSUME WaitOrFree(p), pc[creator] # "create"
      PROVE  IInv'
  <2>1. CASE tq_running > 0
    <3>1. pc' = [pc EXCEPT ![p] = "msleep"] /\ kernel_lock' = p /\ UNCHANGED freed
      BY SMTT(30), <1>1, <1>8, <2>1 DEF WaitOrFree, Goto, Keep
    <3>2. freed' = FALSE  BY <1>0, <3>1
    <3>. QED  BY <1>7, <1>8, <3>1, <3>2 DEF DestroyerLabels
  <2>2. CASE tq_running = 0
    <3>1. pc' = [pc EXCEPT ![p] = "done"] /\ freed' = TRUE
      BY SMTT(30), <1>1, <1>8, <2>2 DEF WaitOrFree, Goto
    <3>. QED  BY <1>7, <1>8, <2>2, <3>1 DEF DestroyerLabels
  <2>. QED  BY SMTT(30), <1>1, <2>1, <2>2
<1>9. CASE taskq_destroy(p)
  <2>1. CASE tq_state = "CREATED"
    <3>1. pc' = [pc EXCEPT ![p] = "done"] /\ freed' = FALSE  BY <1>6, <1>0, <2>1
    <3>. QED  BY <1>7, <3>1 DEF DestroyerLabels
  <2>2. CASE tq_state = "RUNNING"
    <3>1. WaitOrFree(p) /\ pc[creator] # "create"
      BY <1>1, <1>9, <2>2 DEF taskq_destroy, StateInv
    <3>. QED  BY <1>8, <3>1
  <2>. QED  BY <1>9, <2>1, <2>2 DEF taskq_destroy
<1>10. CASE taskq_destroy_msleep(p)
  <2>1. pc' = [pc EXCEPT ![p] = "waiting"] /\ UNCHANGED freed /\ pc[creator] # "create"
    BY <1>1, <1>10 DEF taskq_destroy_msleep, Goto, queueVars, StateInv
  <2>2. freed' = FALSE  BY <1>0, <2>1
  <2>. QED  BY <1>7, <2>1, <2>2 DEF DestroyerLabels
<1>11. CASE taskq_destroy_woken(p)
  <2>1. WaitOrFree(p) /\ pc[creator] # "create"
    BY <1>1, <1>11 DEF taskq_destroy_woken, StateInv
  <2>. QED  BY <1>8, <2>1
<1>. QED  BY <1>9, <1>10, <1>11 DEF DestroyerStep

-----------------------------------------------------------------------------
(* taskq_thread(). *)

\* A worker takes the first task: it is answered by this worker, no longer by
\* its place on the list.
LEMMA RunsTaken ==
  ASSUME IInv, NEW p \in Workers, NEW t \in t_flags, t \in Tasks,
         pc[p] \notin {"work_wakeup", "work"}, pc'[p] \in {"work_wakeup", "work"},
         \A w \in Workers : w # p => pc'[w] = pc[w] /\ task'[w] = task[w],
         task'[p] = t, t_flags' = t_flags \ {t}, UNCHANGED <<added, deleted, ran>>
  PROVE  RunsOncePerAdd'
<1>1. Busy(t)' = Busy(t) \cup {p} /\ p \notin Busy(t)  BY DEF Busy
<1>2. Cardinality(Busy(t)') = Cardinality(Busy(t)) + 1
  <2>1. Cardinality(Busy(t) \cup {p}) = Cardinality(Busy(t)) + 1
    BY <1>1, Finite, FS_AddElement
  <2>. QED  BY <1>1, <2>1
<1>3. ASSUME NEW x \in Tasks, x # t PROVE Busy(x)' = Busy(x)  BY <1>3 DEF Busy
<1>4. ASSUME NEW x \in Tasks
      PROVE  added'[x] = ran'[x] + deleted'[x] + Cardinality(Busy(x)') + (IF x \in t_flags' THEN 1 ELSE 0)
  <2>0. /\ ran[x] \in Nat /\ deleted[x] \in Nat /\ Cardinality(Busy(x)) \in Nat
        /\ added[x] = ran[x] + deleted[x] + Cardinality(Busy(x)) + (IF x \in t_flags THEN 1 ELSE 0)
    BY Finite DEF IInv, TaskInv, RunsOncePerAdd
  <2>1. CASE x = t  BY SMTT(30), <1>2, <2>0, <2>1
  <2>2. CASE x # t  BY <1>3, <2>0, <2>2
  <2>. QED  BY <2>1, <2>2
<1>. QED  BY <1>4 DEF RunsOncePerAdd

\* A worker calls its task: the run it stood for has happened.
LEMMA RunsCalled ==
  ASSUME IInv, NEW p \in Workers, NEW t \in Tasks, task[p] = t,
         pc[p] = "work", pc'[p] \notin {"work_wakeup", "work"},
         \A w \in Workers : w # p => pc'[w] = pc[w] /\ task'[w] = task[w],
         ran' = [ran EXCEPT ![t] = @ + 1], UNCHANGED <<added, deleted, t_flags>>
  PROVE  RunsOncePerAdd'
<1>1. Busy(t)' = Busy(t) \ {p} /\ p \in Busy(t)  BY DEF Busy
<1>2. Cardinality(Busy(t)') = Cardinality(Busy(t)) - 1
  <2>1. Cardinality(Busy(t) \ {p}) = Cardinality(Busy(t)) - 1
    BY <1>1, Finite, FS_RemoveElement
  <2>. QED  BY <1>1, <2>1
<1>3. ASSUME NEW x \in Tasks, x # t PROVE Busy(x)' = Busy(x)  BY <1>3 DEF Busy
<1>4. ASSUME NEW x \in Tasks
      PROVE  added'[x] = ran'[x] + deleted'[x] + Cardinality(Busy(x)') + (IF x \in t_flags' THEN 1 ELSE 0)
  <2>0. /\ ran \in [Tasks -> Nat] /\ deleted[x] \in Nat /\ Cardinality(Busy(x)) \in Nat
        /\ added[x] = ran[x] + deleted[x] + Cardinality(Busy(x)) + (IF x \in t_flags THEN 1 ELSE 0)
    BY Finite DEF IInv, TaskInv, RunsOncePerAdd
  <2>1. CASE x = t  BY SMTT(30), <1>2, <2>0, <2>1
  <2>2. CASE x # t  BY <1>3, <2>0, <2>2
  <2>. QED  BY <2>1, <2>2
<1>. QED  BY <1>4 DEF RunsOncePerAdd

\* The loop of taskq_thread() and its end keep the invariant.
LEMMA WorkerKeeps ==
  ASSUME IInv, NEW p \in Workers, WorkerStep(p)
  PROVE  IInv'
<1>1. /\ SleepTypeOK /\ Fields /\ Lists /\ Locals /\ RunsOncePerAdd /\ Control
      /\ PcInv /\ StateInv /\ LockInv /\ CountInv /\ FreedInv /\ p \in Procs
      /\ tq_running \in 0 .. NThreads /\ NThreads \in Nat
      /\ task \in [Procs -> Tasks \cup {NoTask}] /\ last \in [Procs -> BOOLEAN]
  BY Parts, Apart, TaskqAssumption DEF Control, Fields, Locals, TaskInv
<1>2. UNCHANGED <<tq_flags, tq_state, freed, added, deleted>>
  BY DEF WorkerStep, taskq_thread, taskq_next_work, taskq_work_wakeup, taskq_work, taskq_pause,
       taskq_leave, taskq_flags, taskq_exit, Goto, queueVars, ghosts
<1>3. UNCHANGED sleepVars \/ wakeup_one(tq) \/ wakeup_one(running) \/ msleep(p, tq)
  BY DEF WorkerStep, taskq_thread, taskq_next_work, taskq_work_wakeup, taskq_work, taskq_pause,
       taskq_leave, taskq_flags, taskq_exit
<1>4. SleepTypeOK'  BY <1>1, <1>3, SleepKept
<1>5. ASSUME NEW l, pc' = [pc EXCEPT ![p] = l]
      PROVE  pc'[p] = l /\ \A q \in Procs : q # p => pc'[q] = pc[q]
  BY <1>1, <1>5 DEF PcInv
<1>6. /\ kernel_lock' = kernel_lock \/ kernel_lock \in {NoProc, p}
      /\ kernel_lock' \in Procs \cup {NoProc}
  BY <1>1 DEF WorkerStep, taskq_thread, taskq_next_work, taskq_work_wakeup, taskq_work, taskq_pause,
       taskq_leave, taskq_flags, taskq_exit, CanRun, Run, Keep, Locked, LockInv, Fields
<1>7. ASSUME NEW l \in CountedLabels \ {"work_wakeup", "work"}, pc' = [pc EXCEPT ![p] = l],
             pc[p] \in CountedLabels \ {"work_wakeup", "work"},
             UNCHANGED <<tq_running, tq_worklist, t_flags, task, last, ran>>
      PROVE  IInv'
  <2>1. Control'  BY <1>1, <1>2, <1>6, <1>7, WorkerFrame
  <2>2. Locals' /\ RunsOncePerAdd'  BY <1>1, <1>2, <1>5, <1>7, Apart, LocalsSame
  <2>3. Fields'  BY <1>1, <1>2, <1>6, <1>7 DEF Fields
  <2>. QED  BY <1>1, <1>4, <1>7, <2>1, <2>2, <2>3, ListsSame, PartsNext
<1>8. CASE taskq_thread(p)
  BY <1>7, <1>8 DEF taskq_thread, Goto, queueVars, ghosts, CountedLabels
<1>9. CASE taskq_next_work(p)
  <2>1. CASE tq_worklist = <<>>
    <3>1. \E l \in {"leave", "next_work"} : pc' = [pc EXCEPT ![p] = l]
      BY <1>9, <2>1 DEF taskq_next_work, Goto
    <3>2. pc[p] = "next_work" /\ UNCHANGED <<tq_running, tq_worklist, t_flags, task, last, ran>>
      BY <1>9, <2>1 DEF taskq_next_work, ghosts
    <3>. QED  BY <1>7, <3>1, <3>2 DEF CountedLabels
  <2>2. CASE tq_worklist # <<>>
    <3> DEFINE t == Head(tq_worklist)
    <3>1. /\ pc[p] = "next_work" /\ UNCHANGED <<tq_running, last, ran>>
          /\ \E l \in {"work_wakeup", "work"} : pc' = [pc EXCEPT ![p] = l]
          /\ task' = [task EXCEPT ![p] = t]
          /\ tq_worklist' = Tail(tq_worklist) /\ t_flags' = t_flags \ {t}
      BY <1>9, <2>2 DEF taskq_next_work, Goto, ghosts
    <3>2. Lists' /\ t \in t_flags /\ t \in Tasks  BY <1>1, <2>2, <3>1, ListTail
    <3> HIDE DEF t
    <3>3. PICK l \in {"work_wakeup", "work"} : pc' = [pc EXCEPT ![p] = l]  BY <3>1
    <3>4. pc'[p] = l /\ \A q \in Procs : q # p => pc'[q] = pc[q]  BY <1>5, <3>3
    <3>5. task'[p] = t /\ \A q \in Procs : q # p => task'[q] = task[q]  BY <1>1, <3>1
    <3>6. Control'  BY <1>1, <1>2, <1>6, <3>1, <3>3, WorkerFrame DEF CountedLabels
    <3>7. RunsOncePerAdd'  BY <1>2, <3>1, <3>2, <3>4, <3>5, Apart, RunsTaken
    <3>8. Locals'  BY <1>1, <1>2, <3>1, <3>2, <3>4, <3>5, Apart DEF Locals, TaskInv
    <3>9. Fields'  BY <1>1, <1>2, <1>6, <3>1 DEF Fields
    <3>. QED  BY <1>4, <3>2, <3>6, <3>7, <3>8, <3>9, PartsNext
  <2>. QED  BY <2>1, <2>2
<1>10. CASE taskq_work_wakeup(p)
  <2>1. /\ pc[p] = "work_wakeup" /\ pc' = [pc EXCEPT ![p] = "work"]
        /\ UNCHANGED <<tq_running, tq_worklist, t_flags, task, last, ran>>
    BY <1>10 DEF taskq_work_wakeup, Goto, queueVars, ghosts
  <2>2. pc'[p] = "work" /\ \A q \in Procs : q # p => pc'[q] = pc[q]  BY <1>5, <2>1
  <2>3. Control'  BY <1>1, <1>2, <1>6, <2>1, WorkerFrame DEF CountedLabels
  <2>4. Locals' /\ RunsOncePerAdd'  BY <1>1, <1>2, <2>1, <2>2, Apart, LocalsSame
  <2>5. Fields'  BY <1>1, <1>2, <1>6, <2>1 DEF Fields
  <2>. QED  BY <1>1, <1>4, <2>1, <2>3, <2>4, <2>5, ListsSame, PartsNext
<1>11. CASE taskq_work(p)
  <2>1. /\ pc[p] = "work" /\ pc' = [pc EXCEPT ![p] = "working"]
        /\ ran' = [ran EXCEPT ![task[p]] = @ + 1] /\ task' = [task EXCEPT ![p] = NoTask]
        /\ UNCHANGED <<tq_running, tq_worklist, t_flags, last>>
    BY <1>11 DEF taskq_work, Goto, queueVars
  <2>2. task[p] \in Tasks  BY <1>1, <2>1 DEF Locals, TaskInv
  <2>3. pc'[p] = "working" /\ \A q \in Procs : q # p => pc'[q] = pc[q]  BY <1>5, <2>1
  <2>4. task'[p] = NoTask /\ \A q \in Procs : q # p => task'[q] = task[q]  BY <1>1, <2>1
  <2>5. Control'  BY <1>1, <1>2, <1>6, <2>1, WorkerFrame DEF CountedLabels
  <2>6. RunsOncePerAdd'  BY <1>2, <2>1, <2>2, <2>3, <2>4, Apart, RunsCalled
  <2>7. ran' \in [Tasks -> Nat]  BY SMTT(30), <1>1, <2>1, <2>2 DEF Locals, TaskInv
  <2>8. Locals'  BY SMTT(30), <1>1, <1>2, <2>1, <2>3, <2>4, <2>7, Apart DEF Locals, TaskInv
  <2>9. Fields'  BY <1>1, <1>2, <1>6, <2>1 DEF Fields
  <2>. QED  BY <1>1, <1>4, <2>1, <2>5, <2>6, <2>8, <2>9, ListsSame, PartsNext
<1>12. CASE taskq_pause(p)
  BY <1>7, <1>12 DEF taskq_pause, Goto, queueVars, ghosts, CountedLabels
<1>13. ASSUME NEW l \in {"none", "flags", "exit"}, pc' = [pc EXCEPT ![p] = l],
              pc[p] \in {"leave", "flags", "exit"}, last' \in [Procs -> BOOLEAN],
              UNCHANGED <<tq_worklist, t_flags, task, ran>>,
              tq_running' = tq_running - (IF pc[p] = "leave" THEN 1 ELSE 0),
              l = "exit" \/ (l = "flags" /\ ~MPSAFE) => kernel_lock' = p,
              l = "flags" => pc[p] = "leave"
       PROVE  IInv'
  <2>1. pc'[p] = l /\ \A q \in Procs : q # p => pc'[q] = pc[q]  BY <1>5, <1>13
  <2>2. PcInv'  BY <1>1, <1>13, <2>1, Apart DEF PcInv, WorkerLabels
  <2>3. Locals' /\ RunsOncePerAdd'  BY <1>1, <1>2, <1>13, <2>1, Apart, LocalsSame
  <2>4. CountInv' /\ tq_running' \in 0 .. tq_running
    <3>1. CASE pc[p] = "leave"
      <4>1. Cardinality(Counted') = Cardinality(Counted) - 1 /\ Cardinality(Counted) > 0
        BY <1>13, <2>1, <3>1, Apart, CountedLess DEF CountedLabels
      <4>. QED  BY SMTT(30), <1>1, <1>13, <2>1, <3>1, <4>1, Finite, Apart DEF CountInv
    <3>2. CASE pc[p] # "leave"
      <4>1. Counted' = Counted  BY <1>13, <2>1, <3>2, Apart, CountedSame DEF CountedLabels
      <4>. QED  BY SMTT(30), <1>1, <1>13, <2>1, <3>2, <4>1, Apart DEF CountInv
    <3>. QED  BY <3>1, <3>2
  <2>5. StateInv'  BY SMTT(30), <1>1, <1>2, <2>1, <2>4, Apart DEF StateInv
  <2>6. LockInv'  BY <1>1, <1>2, <1>6, <1>13, <2>1, LockStep, Apart
  <2>7. FreedInv'  BY SMTT(30), <1>1, <1>2, <1>13, <2>1, Apart DEF FreedInv, MPSAFE
  <2>8. Fields'  BY SMTT(30), <1>1, <1>2, <1>6, <2>4 DEF Fields
  <2>. QED  BY <1>1, <1>4, <1>13, <2>2, <2>3, <2>4, <2>5, <2>6, <2>7, <2>8, ListsSame, PartsNext DEF Control
<1>14. CASE taskq_leave(p)
  <2>1. /\ pc[p] = "leave" /\ pc' = [pc EXCEPT ![p] = "flags"] /\ tq_running' = tq_running - 1
        /\ last' = [last EXCEPT ![p] = (tq_running' = 0)]
        /\ ~MPSAFE => kernel_lock' = p
        /\ UNCHANGED <<tq_worklist, t_flags, task, ran>>
    BY <1>14 DEF taskq_leave, Goto, Run, Keep, ghosts
  <2>2. last' \in [Procs -> BOOLEAN]  BY <1>1, <2>1
  <2>. QED  BY <1>13, <2>1, <2>2
<1>15. CASE taskq_flags(p)
  <2>1. /\ pc[p] = "flags" /\ pc' = [pc EXCEPT ![p] = "exit"] /\ kernel_lock' = p
        /\ UNCHANGED <<tq_running, tq_worklist, t_flags, task, last, ran>>
    BY <1>15 DEF taskq_flags, Goto, Keep, queueVars, ghosts
  <2>2. tq_running' = tq_running - 0  BY SMTT(30), <1>1, <2>1
  <2>. QED  BY <1>1, <1>13, <2>1, <2>2
<1>16. CASE taskq_exit(p)
  <2>1. /\ pc[p] = "exit" /\ pc' = [pc EXCEPT ![p] = "none"]
        /\ last' = [last EXCEPT ![p] = FALSE]
        /\ UNCHANGED <<tq_running, tq_worklist, t_flags, task, ran>>
    BY <1>16 DEF taskq_exit, Goto, queueVars, ghosts
  <2>2. tq_running' = tq_running - 0 /\ last' \in [Procs -> BOOLEAN]  BY SMTT(30), <1>1, <2>1
  <2>. QED  BY <1>13, <2>1, <2>2
<1>. QED  BY <1>8, <1>9, <1>10, <1>11, <1>12, <1>14, <1>15, <1>16 DEF WorkerStep

-----------------------------------------------------------------------------
(* The invariant and what follows from it. *)

\* A queue that was created satisfies the invariant.
LEMMA InitIInv == Init => IInv
<1> SUFFICES ASSUME Init PROVE IInv  OBVIOUS
<1>1. SleepTypeOK  BY SleepAssumption DEF Init, SleepInit, SleepTypeOK
<1>2. PcInv
  BY Apart DEF Init, PcInv, WorkerLabels, CallerLabels, CreatorLabels, DestroyerLabels
<1>3. \A w \in Workers : pc[w] = "none"  BY Apart DEF Init
<1>4. pc[creator] = "create" /\ pc[destroyer] = "idle" /\ \A c \in Callers : pc[c] = "idle"
  BY Apart DEF Init
<1>5. Counted = {} /\ \A t : Busy(t) = {}  BY <1>3 DEF Counted, Busy, CountedLabels
<1>6. Cardinality({}) = 0  BY FS_EmptySet
<1>7. CountInv  BY SMTT(30), <1>4, <1>5, <1>6 DEF Init, CountInv
<1>8. RunsOncePerAdd
  <2>1. \A t \in Tasks : /\ added[t] = 0 /\ ran[t] = 0 /\ deleted[t] = 0
                         /\ Cardinality(Busy(t)) = 0 /\ t \notin t_flags
    BY <1>5, <1>6 DEF Init
  <2>. QED  BY SMTT(30), <2>1 DEF RunsOncePerAdd
<1>9. Lists  BY SMTT(30) DEF Init, Lists, ListInv
<1>10. Locals
  <2>1. /\ added \in [Tasks -> Nat] /\ deleted \in [Tasks -> Nat] /\ ran \in [Tasks -> Nat]
        /\ task \in [Procs -> Tasks \cup {NoTask}]
    BY DEF Init
  <2>2. last \in [Procs -> BOOLEAN]  BY DEF Init
  <2>3. /\ \A p \in Workers : pc[p] \in {"work_wakeup", "work"} => task[p] \in Tasks
        /\ \A p \in Callers : pc[p] # "idle" => task[p] \in Tasks
    BY <1>3, <1>4
  <2>. QED  BY <2>1, <2>2, <2>3 DEF Locals, TaskInv
<1>11. Fields
  <2>1. /\ tq_state = "CREATED" /\ tq_running = 0 /\ freed = FALSE
        /\ tq_flags \in SUBSET {"MPSAFE"} /\ kernel_lock = NoProc
    BY DEF Init
  <2>2. tq_running \in 0 .. NThreads  BY SMTT(30), <2>1, TaskqAssumption
  <2>. QED  BY <2>1, <2>2 DEF Fields
<1>12. StateInv /\ LockInv /\ FreedInv
  BY <1>3, <1>4 DEF Init, StateInv, LockInv, FreedInv
<1>. QED  BY <1>1, <1>2, <1>7, <1>8, <1>9, <1>10, <1>11, <1>12, Parts DEF Control

\* Every step keeps it.
LEMMA NextIInv == IInv /\ [Next]_vars => IInv'
<1> SUFFICES ASSUME IInv, [Next]_vars PROVE IInv'  OBVIOUS
<1>1. CASE UNCHANGED vars
  <2>1. UNCHANGED <<tq_state, tq_running, tq_worklist, t_flags, freed, tq_flags, kernel_lock, pc,
                    task, last, added, deleted, ran, sleepVars>>
    BY <1>1 DEF vars, queueVars, ghosts
  <2>2. Counted' = Counted /\ \A t : Busy(t)' = Busy(t)  BY <2>1 DEF Counted, Busy
  <2>3. RunsOncePerAdd'  BY <2>1, <2>2, RunsSame DEF IInv
  <2>. QED
    BY <2>1, <2>2, <2>3 DEF IInv, TypeOK, SleepTypeOK, sleepVars, PcInv, ListInv, TaskInv,
      CountInv, StateInv, LockInv, FreedInv, MPSAFE
<1>2. CASE \E p \in Callers : CallerStep(p) \/ \E t \in Tasks : task_add(p, t) \/ task_del(p, t)
  BY <1>2, CallerKeeps
<1>3. CASE CreatorStep(creator)  BY <1>3, CreatorKeeps
<1>4. CASE \E p \in Workers : WorkerStep(p)  BY <1>4, WorkerKeeps
<1>5. CASE taskq_destroy(destroyer) \/ DestroyerStep(destroyer)  BY <1>5, DestroyerKeeps
<1>. QED  BY <1>1, <1>2, <1>3, <1>4, <1>5 DEF Next

\* It holds in every state that can be reached.
LEMMA Inductive == Spec => []IInv
BY InitIInv, NextIInv, PTL DEF Spec

\* The fields of a task queue keep their types; tq_running stays within
\* tq_nthreads however threads fail to be created, leave and are replaced.
THEOREM TaskqTypeCorrect == Spec => []TypeOK
<1>1. IInv => TypeOK  BY DEF IInv
<1>. QED  BY <1>1, Inductive, PTL

\* For any number of callers and workers, every task_add() that returned 1 is
\* answered once: by a run, a task_del(), a worker that has the task, or the list.
THEOREM OneAnswerPerAdd == Spec => []RunsOncePerAdd
<1>1. IInv => RunsOncePerAdd  BY DEF IInv
<1>. QED  BY <1>1, Inductive, PTL

\* Without TASKQ_MPSAFE, a queue that taskq_destroy() or taskq_create_thread()
\* freed has no user left.
THEOREM FreedQueueUnused == Spec => []FreedIsUnused
<1>1. IInv => FreedIsUnused
  <2> SUFFICES ASSUME IInv, freed, ~MPSAFE, NEW p \in Procs PROVE ~Uses(p)
    BY DEF FreedIsUnused
  <2>1. /\ pc[creator] = "done" /\ pc[destroyer] = "done"
        /\ \A w \in Workers : pc[w] \in {"none", "exit"}
        /\ \A c \in Callers : pc[c] = "idle"
    BY DEF IInv, FreedInv, StateInv
  <2>. QED  BY <2>1, Apart DEF Uses
<1>. QED  BY <1>1, Inductive, PTL
=============================================================================
