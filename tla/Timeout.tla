------------------------------ MODULE Timeout ------------------------------
(***************************************************************************)
(* The timeouts of sys/kern/kern_timeout.c: a hierarchical timing wheel of *)
(* four levels over wrapping integers.  timeout_add() only puts a timeout  *)
(* on timeout_todo; softclock() puts it into the bucket of its level, and  *)
(* hardclock() takes the buckets of the present tick back to timeout_todo. *)
(*                                                                         *)
(* A section under timeout_mutex is one step.  An int is its bits, a       *)
(* number below IntRange, which stands for 2^32.                           *)
(* to_time is not read while TIMEOUT_ONQUEUE is clear, and is 0 then;      *)
(* TIMEOUT_TRIGGERED, which only drivers read, is left out.                *)
(* Buckets are sets: the order in which CIRCQ_APPEND moves the timeouts of *)
(* one tick is left open.                                                  *)
(***************************************************************************)
EXTENDS Integers, Sequences, FiniteSets

CONSTANTS WHEELSIZE,      \* buckets of a level
          IntRange,       \* the ints there are
          Timeouts,
          NoTimeout,
          Durations,      \* to_ticks of timeout_add()
          Adjustments,    \* adj of timeout_adjust_ticks()
          MaxLate         \* bound: ticks that softclock() may be behind

INT_MAX == IntRange \div 2 - 1

ASSUME TimeoutAssumption ==
  /\ {WHEELSIZE, IntRange} \subseteq Nat \ {0} /\ IntRange % 2 = 0
  /\ NoTimeout \notin Timeouts /\ IsFiniteSet(Timeouts)
  /\ Durations \subseteq 0 .. INT_MAX /\ Adjustments \subseteq 1 .. INT_MAX
  /\ MaxLate \in Nat \ {0} /\ \A adj \in {1} \cup Adjustments : MaxLate + adj < INT_MAX

VARIABLES
  ticks,          \* the clock, as the bits of an int
  to_time,        \* to_time[t]: the tick at which t is due
  to_flags,       \* the timeouts with TIMEOUT_ONQUEUE
  bucket,         \* bucket[t]: its place in timeout_wheel, or NoBucket
  timeout_todo,   \* the worklist
  softclock_si,   \* has "scheduled" (sih_pending) and "running"
  called          \* the timeout whose function runs, or NoTimeout

vars == <<ticks, to_time, to_flags, bucket, timeout_todo, softclock_si, called>>

NoBucket == -1

Init ==
  /\ ticks = 0
  /\ to_time = [t \in Timeouts |-> 0]
  /\ to_flags = {}
  /\ bucket = [t \in Timeouts |-> NoBucket]
  /\ timeout_todo = <<>>
  /\ softclock_si = {}
  /\ called = NoTimeout

-----------------------------------------------------------------------------
(* Arithmetic. *)

\* The int that has the low bits of n.
Signed(n) == LET bits == n % IntRange IN IF bits > INT_MAX THEN bits - IntRange ELSE bits

\* to_time - ticks
Rel(time) == Signed(time - ticks)

\* 1 << wheel * WHEELBITS: the ticks that a bucket of a level stands for.
Span == [wheel \in 0 .. 3 |-> CASE wheel = 0 -> 1 [] wheel = 1 -> WHEELSIZE
                                [] wheel = 2 -> WHEELSIZE * WHEELSIZE
                                [] wheel = 3 -> WHEELSIZE * WHEELSIZE * WHEELSIZE]

MASKWHEEL(wheel, time) == (time \div Span[wheel]) % WHEELSIZE

Slot(wheel, time) == MASKWHEEL(wheel, time) + wheel * WHEELSIZE

BUCKET(rel, abs) ==
  Slot(IF rel <= Span[1] THEN 0 ELSE IF rel <= Span[2] THEN 1
       ELSE IF rel <= Span[3] THEN 2 ELSE 3, abs)

OnQueue(t) == t \in to_flags

-----------------------------------------------------------------------------
(* The interface. *)

\* seq without t, which is on it at most once.
CIRCQ_REMOVE(seq, t) ==
  LET i == CHOOSE i \in DOMAIN seq : seq[i] = t IN
  IF \E j \in DOMAIN seq : seq[j] = t
    THEN SubSeq(seq, 1, i - 1) \o SubSeq(seq, i + 1, Len(seq)) ELSE seq

\* Mutant: a timeout that is moved earlier stays where it is.
timeout_add_InPlace(t, to_ticks) ==
  /\ to_time' = [to_time EXCEPT ![t] = (to_ticks + ticks) % IntRange]
  /\ to_flags' = to_flags \cup {t}
  /\ timeout_todo' = IF OnQueue(t) THEN timeout_todo ELSE Append(timeout_todo, t)
  /\ UNCHANGED <<ticks, bucket, softclock_si, called>>

timeout_add(t, to_ticks) ==
  LET new_time == (to_ticks + ticks) % IntRange IN
  /\ to_time' = [to_time EXCEPT ![t] = new_time]
  /\ to_flags' = to_flags \cup {t}
  /\ \/ /\ OnQueue(t) /\ Rel(new_time) >= Rel(to_time[t])
        /\ UNCHANGED <<bucket, timeout_todo>>
     \/ /\ ~OnQueue(t) \/ Rel(new_time) < Rel(to_time[t])
        /\ bucket' = [bucket EXCEPT ![t] = NoBucket]
        /\ timeout_todo' = Append(CIRCQ_REMOVE(timeout_todo, t), t)
  /\ UNCHANGED <<ticks, softclock_si, called>>

\* Mutant: the flag is cleared and the timeout stays on its list.
timeout_del_Linked(t) ==
  /\ to_time' = [to_time EXCEPT ![t] = 0]
  /\ to_flags' = to_flags \ {t}
  /\ UNCHANGED <<ticks, bucket, timeout_todo, softclock_si, called>>

timeout_del(t) ==
  /\ to_time' = [to_time EXCEPT ![t] = 0]
  /\ to_flags' = to_flags \ {t}
  /\ bucket' = [bucket EXCEPT ![t] = NoBucket]
  /\ timeout_todo' = CIRCQ_REMOVE(timeout_todo, t)
  /\ UNCHANGED <<ticks, softclock_si, called>>

-----------------------------------------------------------------------------
(* The clock. *)

\* The timeouts of ts leave the wheel and join timeout_todo in some order.
MoveToTodo(ts) ==
  /\ bucket' = [t \in Timeouts |-> IF t \in ts THEN NoBucket ELSE bucket[t]]
  /\ \E order \in [1 .. Cardinality(ts) -> ts] :
       /\ \A t \in ts : \E i \in DOMAIN order : order[i] = t
       /\ timeout_todo' = timeout_todo \o order

\* The buckets that the MOVEBUCKET calls of one tick empty.
MovedBuckets(time) ==
  {Slot(w, time) : w \in {v \in 0 .. 3 : \A u \in 0 .. v - 1 : MASKWHEEL(u, time) = 0}}

\* No timeout is more than MaxLate ticks overdue.
NotLate == \A t \in Timeouts : OnQueue(t) => Rel(to_time[t]) > -MaxLate

\* Mutant: only a bucket that was moved schedules softclock().
timeout_hardclock_update_IfMoved ==
  /\ softclock_si = {} \/ NotLate
  /\ ticks' = (ticks + 1) % IntRange
  /\ MoveToTodo({t \in Timeouts : bucket[t] \in MovedBuckets(ticks')})
  /\ softclock_si' = IF bucket' = bucket THEN softclock_si
                                        ELSE softclock_si \cup {"scheduled"}
  /\ UNCHANGED <<to_time, to_flags, called>>

\* hardclock() on the primary CPU.  A softclock() that was scheduled gets at
\* most MaxLate ticks behind.
timeout_hardclock_update ==
  /\ softclock_si = {} \/ NotLate
  /\ ticks' = (ticks + 1) % IntRange
  /\ MoveToTodo({t \in Timeouts : bucket[t] \in MovedBuckets(ticks')})
  /\ softclock_si' = IF timeout_todo' = <<>> THEN softclock_si
                                             ELSE softclock_si \cup {"scheduled"}
  /\ UNCHANGED <<to_time, to_flags, called>>

\* A machine resumes: ticks jumps.
timeout_adjust_ticks(adj) ==
  LET onwheel == {t \in Timeouts : bucket[t] # NoBucket} IN
  /\ NotLate
  /\ ticks' = (ticks + adj) % IntRange
  /\ to_time' = [t \in Timeouts |-> IF t \in onwheel /\ Rel(to_time[t]) < adj
                                      THEN ticks' ELSE to_time[t]]
  /\ MoveToTodo(onwheel)
  /\ UNCHANGED <<to_flags, softclock_si, called>>

-----------------------------------------------------------------------------
(* softclock(). *)

\* Mutant: a timeout is called in the tick before it is due.
Runs_Early(t) == Rel(to_time[t]) <= 1

\* softclock() calls the function of t instead of moving t to its bucket.
Runs(t) == Rel(to_time[t]) <= 0

\* A section of softclock(), the first one after softintr_dispatch() or one
\* after a call: the timeouts before the first that is due go to their
\* buckets; that one is called, or the list is empty and softclock() returns.
softclock ==
  LET todo == timeout_todo
      due == {i \in DOMAIN todo : Runs(todo[i])}
      Place(n) == bucket' = [t \in Timeouts |->
                               IF \E i \in 1 .. n : todo[i] = t
                                 THEN BUCKET(Rel(to_time[t]), to_time[t]) ELSE bucket[t]]
      Si(now) == softclock_si' = now \cup (IF "running" \in softclock_si
                                             THEN softclock_si \ {"running"} ELSE {})
  IN
  /\ softclock_si # {} /\ called = NoTimeout
  /\ \/ /\ due = {}
        /\ Place(Len(todo))
        /\ timeout_todo' = <<>>
        /\ Si({})
        /\ UNCHANGED <<to_time, to_flags, called>>
     \/ \E i \in due :
          /\ \A j \in due : i <= j
          /\ Place(i - 1)
          /\ timeout_todo' = SubSeq(todo, i + 1, Len(todo))
          /\ to_time' = [to_time EXCEPT ![todo[i]] = 0]
          /\ to_flags' = to_flags \ {todo[i]}
          /\ called' = todo[i]
          /\ Si({"running"})
  /\ UNCHANGED ticks

\* The function returns.  What it does with timeouts are steps of their own.
fn_returns ==
  /\ called # NoTimeout
  /\ called' = NoTimeout
  /\ UNCHANGED <<ticks, to_time, to_flags, bucket, timeout_todo, softclock_si>>

-----------------------------------------------------------------------------

Next ==
  \/ \E t \in Timeouts : timeout_del(t) \/ \E n \in Durations : timeout_add(t, n)
  \/ timeout_hardclock_update \/ (\E adj \in Adjustments : timeout_adjust_ticks(adj))
  \/ softclock \/ fn_returns

\* The clock ticks, a scheduled soft interrupt is dispatched and functions
\* return.  Nobody has to add or delete a timeout.
Spec ==
  /\ Init /\ [][Next]_vars
  /\ WF_vars(timeout_hardclock_update) /\ WF_vars(softclock) /\ WF_vars(fn_returns)

-----------------------------------------------------------------------------
(* Properties. *)

Todo == {timeout_todo[i] : i \in DOMAIN timeout_todo}

\* Every field has its type, and a timeout with TIMEOUT_ONQUEUE is in exactly
\* one place, a bucket or timeout_todo: the list operations neither lose nor
\* double it.
TypeOK ==
  /\ ticks \in 0 .. IntRange - 1
  /\ to_time \in [Timeouts -> 0 .. IntRange - 1]
  /\ to_flags \subseteq Timeouts
  /\ bucket \in [Timeouts -> {NoBucket} \cup 0 .. 4 * WHEELSIZE - 1]
  /\ softclock_si \subseteq {"scheduled", "running"}
  /\ called \in Timeouts \cup {NoTimeout}
  /\ \A t \in Timeouts : OnQueue(t) <=> (bucket[t] # NoBucket \/ t \in Todo)
  /\ \A t \in Todo : bucket[t] = NoBucket
  /\ Cardinality(Todo) = Len(timeout_todo)

Left(t) == IF ~OnQueue(t) THEN -1 ELSE IF Rel(to_time[t]) > 0 THEN Rel(to_time[t]) ELSE 0

Abs == INSTANCE TimeoutSpec WITH left <- [t \in Timeouts |-> Left(t)]

\* The wheel implements timeout(9): whatever is added, moved earlier or later,
\* deleted or skipped by a resume, a function is called only when the ticks
\* last asked for have passed, although ticks and to_time wrap around.
Implements == Abs!TimeoutsSpec

\* No timeout is forgotten in a bucket: in the tick in which it is due it is
\* on timeout_todo, whichever levels it came through and wherever the latest
\* timeout_add() left it.
OnTime == \A t \in Timeouts : OnQueue(t) /\ Rel(to_time[t]) <= 0 => t \in Todo

\* A timeout that was added is called or deleted, unless it is added again and
\* again; also one that timeout_add(to, 0) made due when no softclock() was
\* scheduled.  Timeouts are interchangeable, so one of them stands for all.
Served ==
  LET t == CHOOSE x \in Timeouts : TRUE IN
  (OnQueue(t) ~> ~OnQueue(t)) \/ []<><<\E n \in Durations : timeout_add(t, n)>>_vars
=============================================================================
