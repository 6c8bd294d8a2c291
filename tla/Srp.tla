-------------------------------- MODULE Srp --------------------------------
(***************************************************************************)
(* Shared reference pointers, sys/kern/kern_srp.c with MULTIPROCESSOR:     *)
(* readers announce the value they use in a hazard record of their CPU,    *)
(* and a value that was replaced is destroyed once no record names it.     *)
(*                                                                         *)
(* A step is one access to memory that another CPU reads or writes;        *)
(* sequential consistency is assumed.  Uses on a CPU are nested: level 2   *)
(* interrupts level 1 and is done before level 1 goes on.  Procs update    *)
(* the pointers, and one of them calls srp_finalize(); their caller        *)
(* updates no pointer after that, and never hands out a value twice.       *)
(* srp_v_gc() runs in softclock(), one call at a time.                     *)
(***************************************************************************)
EXTENDS Sleep

CONSTANTS ncpu,            \* CPUs are 1 .. ncpu
          levels,          \* nested uses on a CPU
          SRP_HAZARD_NUM,  \* hazard records of a CPU
          Srps, Values,
          NULL,
          gc,              \* the address of srp_gc_refcount
          SameSrp          \* may an interrupt enter what it interrupts?

Cpus == 1 .. ncpu
Levels == 1 .. levels
Slots == 1 .. SRP_HAZARD_NUM
softclock == "softclock"
Collectors == Procs \cup {softclock}

ASSUME SrpAssumption ==
  /\ ncpu \in Nat \ {0} /\ levels \in Nat
  /\ SRP_HAZARD_NUM \in Nat \ {0} /\ levels <= SRP_HAZARD_NUM
  /\ IsFiniteSet(Values)
  /\ NULL \notin Srps \cup Values
  /\ softclock \notin Procs /\ Idents = {gc}
  /\ SameSrp \in BOOLEAN

VARIABLES
  ref,         \* ref[s]: the value of srp s
  sh_p, sh_v,  \* the hazard records, by CPU and slot
  use,         \* use[c][l]: what level l of CPU c does
  refcount,    \* srp_gc_refcount
  pc, loc,     \* the collectors, and their locals
  ticks,       \* srp_gc_ctx with a pending timeout
  home,        \* home[v]: the srp that v was made for, or NULL
  destroyed    \* values that srp_gc_dtor() was called for

hazards == <<sh_p, sh_v>>
gcVars == <<refcount, pc, loc, ticks, destroyed>>
vars == <<ref, hazards, use, gcVars, home, sleepVars>>

\* at: "idle", inside srp_enter() ("read", "store", "check"), "use", or inside
\* srp_leave() ("clear"); i: the slot.
NoUse == [at |-> "idle", srp |-> NULL, i |-> 0, v |-> NULL]
NoLocals == [srp |-> NULL, v |-> NULL, nv |-> NULL, c |-> 1, i |-> 1, r |-> 0]

\* The values nobody was given yet.
fresh == {v \in Values : home[v] = NULL}

Finalizing == {"sleep_setup", "recheck", "sleep_finish", "asleep", "finalized"}

Init ==
  /\ SleepInit
  /\ ref = [s \in Srps |-> NULL]
  /\ sh_p = [c \in Cpus |-> [i \in Slots |-> NULL]]
  /\ sh_v = [c \in Cpus |-> [i \in Slots |-> NULL]]
  /\ use = [c \in Cpus |-> [l \in Levels |-> NoUse]]
  /\ refcount = 1
  /\ pc = [k \in Collectors |-> "idle"]
  /\ loc = [k \in Collectors |-> NoLocals]
  /\ ticks = {}
  /\ home = [v \in Values |-> NULL]
  /\ destroyed = {}

-----------------------------------------------------------------------------
(* Readers. *)

\* Level l runs: whatever interrupted it has returned.
Runs(c, l) == \A m \in Levels : m > l => use[c][m] = NoUse

Entered(c) == {use[c][l].srp : l \in Levels}

\* The first record whose sh_p is p.
FirstSlot(c, p) ==
  CHOOSE i \in Slots : sh_p[c][i] = p /\ \A j \in Slots : sh_p[c][j] = p => i <= j

Become(c, l, u) == use' = [use EXCEPT ![c][l] = u]

\* srp_enter() up to the loop.
srp_enter(c, l) ==
  /\ use[c][l] = NoUse /\ Runs(c, l)
  /\ \E s \in Srps, i \in Slots :
       /\ SameSrp \/ s \notin Entered(c)
       /\ sh_p[c][i] = NULL /\ i = FirstSlot(c, NULL)
       /\ sh_p' = [sh_p EXCEPT ![c][i] = s]
       /\ Become(c, l, [NoUse EXCEPT !.at = "read", !.srp = s, !.i = i])
  /\ UNCHANGED <<ref, sh_v, gcVars, home, sleepVars>>

srp_enter_read(c, l) ==
  /\ use[c][l].at = "read" /\ Runs(c, l)
  /\ Become(c, l, [use[c][l] EXCEPT !.at = "store", !.v = ref[use[c][l].srp]])
  /\ UNCHANGED <<ref, hazards, gcVars, home, sleepVars>>

srp_enter_store(c, l) ==
  /\ use[c][l].at = "store" /\ Runs(c, l)
  /\ sh_v' = [sh_v EXCEPT ![c][use[c][l].i] = use[c][l].v]
  /\ Become(c, l, [use[c][l] EXCEPT !.at = "check"])
  /\ UNCHANGED <<ref, sh_p, gcVars, home, sleepVars>>

\* Mutant: the value is not read again after the hazard is visible.
srp_enter_check_Once(c, l) ==
  /\ use[c][l].at = "check" /\ Runs(c, l)
  /\ Become(c, l, [use[c][l] EXCEPT !.at = "use"])
  /\ UNCHANGED <<ref, hazards, gcVars, home, sleepVars>>

srp_enter_check(c, l) ==
  /\ use[c][l].at = "check" /\ Runs(c, l)
  /\ Become(c, l, [use[c][l] EXCEPT
                     !.at = IF use[c][l].v = ref[use[c][l].srp] THEN "use" ELSE "read"])
  /\ UNCHANGED <<ref, hazards, gcVars, home, sleepVars>>

\* Mutant: a record is left with its sh_p.
srp_leave_Kept(c, l) ==
  LET s == use[c][l].srp IN
  /\ use[c][l].at = "use" /\ Runs(c, l)
  /\ \E i \in Slots :
       /\ sh_p[c][i] = s /\ i = FirstSlot(c, s)
       /\ Become(c, l, [use[c][l] EXCEPT !.at = "clear", !.i = i, !.v = NULL])
  /\ UNCHANGED <<ref, hazards, gcVars, home, sleepVars>>

\* srp_leave(): the record is found by its sh_p alone.
srp_leave(c, l) ==
  LET s == use[c][l].srp IN
  /\ use[c][l].at = "use" /\ Runs(c, l)
  /\ \E i \in Slots :
       /\ sh_p[c][i] = s /\ i = FirstSlot(c, s)
       /\ sh_p' = [sh_p EXCEPT ![c][i] = NULL]
       /\ Become(c, l, [use[c][l] EXCEPT !.at = "clear", !.i = i, !.v = NULL])
  /\ UNCHANGED <<ref, sh_v, gcVars, home, sleepVars>>

srp_leave_clear(c, l) ==
  /\ use[c][l].at = "clear" /\ Runs(c, l)
  /\ sh_v' = [sh_v EXCEPT ![c][use[c][l].i] = NULL]
  /\ Become(c, l, NoUse)
  /\ UNCHANGED <<ref, sh_p, gcVars, home, sleepVars>>

ReadStep(c, l) ==
  \/ srp_enter_read(c, l) \/ srp_enter_store(c, l) \/ srp_enter_check(c, l) \/ srp_leave(c, l) \/ srp_leave_clear(c, l)
-----------------------------------------------------------------------------
(* Updates and the collection of what they replaced. *)

Goto(k, label) == pc' = [pc EXCEPT ![k] = label]
Set(k, r) == loc' = [loc EXCEPT ![k] = r]

\* srp_v_referenced(s, v) starts with the first record of the first CPU.
Scan(k, s, v) ==
  /\ Goto(k, "scan_p")
  /\ Set(k, [NoLocals EXCEPT !.srp = s, !.v = v])

\* Mutant: a value that replaces another is not counted.
srp_update_Uncounted(p) ==
  /\ pc[p] = "idle" /\ \A q \in Procs : pc[q] \notin Finalizing
  /\ \E s \in Srps, nv \in fresh \cup {NULL} :
       /\ home' = [v \in Values |-> IF v = nv THEN s ELSE home[v]]
       /\ refcount' = IF nv = NULL \/ ref[s] # NULL THEN refcount ELSE refcount + 1
       /\ Set(p, [NoLocals EXCEPT !.srp = s, !.nv = nv])
  /\ Goto(p, "swap")
  /\ UNCHANGED <<ref, hazards, use, ticks, destroyed, sleepVars>>

\* srp_update(): the new value counts before it can be seen.
srp_update(p) ==
  /\ pc[p] = "idle" /\ \A q \in Procs : pc[q] \notin Finalizing
  /\ \E s \in Srps, nv \in fresh \cup {NULL} :
       /\ home' = [v \in Values |-> IF v = nv THEN s ELSE home[v]]
       /\ refcount' = IF nv = NULL THEN refcount ELSE refcount + 1
       /\ Set(p, [NoLocals EXCEPT !.srp = s, !.nv = nv])
  /\ Goto(p, "swap")
  /\ UNCHANGED <<ref, hazards, use, ticks, destroyed, sleepVars>>

\* atomic_swap_ptr(); srp_update_locked() comes to the same, because its caller
\* excludes other updates.
srp_update_swap(p) ==
  LET s == loc[p].srp IN
  /\ pc[p] = "swap"
  /\ ref' = [ref EXCEPT ![s] = loc[p].nv]
  /\ IF ref[s] = NULL THEN Goto(p, "idle") /\ Set(p, NoLocals) ELSE Scan(p, s, ref[s])
  /\ UNCHANGED <<hazards, use, refcount, ticks, destroyed, home, sleepVars>>

\* On to the next record, or to the end of srp_v_referenced().
NextRecord(k) ==
  LET c == loc[k].c
      i == loc[k].i IN
  IF i < SRP_HAZARD_NUM THEN Goto(k, "scan_p") /\ Set(k, [loc[k] EXCEPT !.i = i + 1])
  ELSE IF c < ncpu THEN Goto(k, "scan_p") /\ Set(k, [loc[k] EXCEPT !.c = c + 1, !.i = 1])
  ELSE Goto(k, "dtor") /\ UNCHANGED loc

srp_v_referenced_p(k) ==
  /\ pc[k] = "scan_p"
  /\ IF sh_p[loc[k].c][loc[k].i] # loc[k].srp THEN NextRecord(k)
     ELSE Goto(k, "scan_v") /\ UNCHANGED loc
  /\ UNCHANGED <<ref, hazards, use, refcount, ticks, destroyed, home, sleepVars>>

\* Mutant: the timeout does not schedule itself again.
srp_v_referenced_v_Once(k) ==
  /\ pc[k] = "scan_v"
  /\ IF sh_v[loc[k].c][loc[k].i] # loc[k].v
       THEN NextRecord(k) /\ UNCHANGED ticks
       ELSE /\ ticks' = IF k = softclock THEN ticks
                        ELSE ticks \cup {[srp |-> loc[k].srp, v |-> loc[k].v]}
            /\ Goto(k, "idle") /\ Set(k, NoLocals)
  /\ UNCHANGED <<ref, hazards, use, refcount, destroyed, home, sleepVars>>

\* In use: srp_v_gc_start() and srp_v_gc() try again a tick later.
srp_v_referenced_v(k) ==
  /\ pc[k] = "scan_v"
  /\ IF sh_v[loc[k].c][loc[k].i] # loc[k].v
       THEN NextRecord(k) /\ UNCHANGED ticks
       ELSE /\ ticks' = ticks \cup {[srp |-> loc[k].srp, v |-> loc[k].v]}
            /\ Goto(k, "idle") /\ Set(k, NoLocals)
  /\ UNCHANGED <<ref, hazards, use, refcount, destroyed, home, sleepVars>>

\* softclock() calls srp_v_gc().
srp_v_gc ==
  /\ pc[softclock] = "idle"
  /\ \E x \in ticks : ticks' = ticks \ {x} /\ Scan(softclock, x.srp, x.v)
  /\ UNCHANGED <<ref, hazards, use, refcount, destroyed, home, sleepVars>>

\* srp_v_dtor(): destroy the value, count it, and wake srp_finalize().
srp_v_dtor(k) ==
  /\ pc[k] = "dtor"
  /\ destroyed' = destroyed \cup {loc[k].v}
  /\ Goto(k, "dec")
  /\ UNCHANGED <<ref, hazards, use, refcount, loc, ticks, home, sleepVars>>

srp_v_dtor_dec(k) ==
  /\ pc[k] = "dec"
  /\ refcount' = refcount - 1
  /\ IF refcount' = 0 THEN Goto(k, "wake") /\ UNCHANGED loc
     ELSE Goto(k, "idle") /\ Set(k, NoLocals)
  /\ UNCHANGED <<ref, hazards, use, ticks, destroyed, home, sleepVars>>

srp_v_dtor_wake(k) ==
  /\ pc[k] = "wake"
  /\ wakeup_one(gc)
  /\ Goto(k, "idle") /\ Set(k, NoLocals)
  /\ UNCHANGED <<ref, hazards, use, refcount, ticks, destroyed, home>>

Collect(k) ==
  \/ srp_v_referenced_p(k) \/ srp_v_referenced_v(k)
  \/ srp_v_dtor(k) \/ srp_v_dtor_dec(k) \/ srp_v_dtor_wake(k)

-----------------------------------------------------------------------------
(* srp_finalize(), after the pointers were cleared. *)

srp_finalize(p) ==
  /\ pc[p] = "idle"
  /\ \A s \in Srps : ref[s] = NULL
  /\ \A q \in Procs : pc[q] \notin Finalizing \cup {"swap"}
  /\ refcount' = refcount - 1
  /\ Set(p, [NoLocals EXCEPT !.r = refcount'])
  /\ Goto(p, IF refcount' > 0 THEN "sleep_setup" ELSE "finalized")
  /\ UNCHANGED <<ref, hazards, use, ticks, destroyed, home, sleepVars>>

srp_finalize_setup(p) ==
  /\ pc[p] = "sleep_setup"
  /\ sleep_setup(p, gc)
  /\ Goto(p, "recheck")
  /\ UNCHANGED <<ref, hazards, use, refcount, loc, ticks, destroyed, home, p_stat, p_sintr,
                 p_siglist>>

\* Mutant: the count is not read again once the proc is on the sleep queue.
srp_finalize_recheck_Stale(p) ==
  /\ pc[p] = "recheck"
  /\ Goto(p, "sleep_finish")
  /\ UNCHANGED <<ref, hazards, use, refcount, loc, ticks, destroyed, home, sleepVars>>

srp_finalize_recheck(p) ==
  /\ pc[p] = "recheck"
  /\ Set(p, [loc[p] EXCEPT !.r = refcount])
  /\ Goto(p, "sleep_finish")
  /\ UNCHANGED <<ref, hazards, use, refcount, ticks, destroyed, home, sleepVars>>

\* sleep_finish(&sls, r) up to mi_switch(), or to its end.
srp_finalize_sleep(p) ==
  /\ pc[p] = "sleep_finish"
  /\ \/ /\ loc[p].r > 0
        /\ mi_switch(p, "SSLEEP") /\ UNCHANGED p_wchan
        /\ Goto(p, "asleep")
     \/ /\ loc[p].r = 0
        /\ unsleep(p) /\ sched_lock' = NoProc /\ UNCHANGED p_stat
        /\ Goto(p, "finalized")
  /\ UNCHANGED <<ref, hazards, use, refcount, loc, ticks, destroyed, home, p_sintr, p_siglist>>

srp_finalize_resumed(p) ==
  /\ pc[p] = "asleep" /\ Resumed(p)
  /\ Goto(p, "sleep_setup")
  /\ UNCHANGED <<ref, hazards, use, refcount, loc, ticks, destroyed, home, sleepVars>>

FinalizeStep(p) ==
  \/ srp_finalize_setup(p) \/ srp_finalize_recheck(p) \/ srp_finalize_sleep(p)
  \/ srp_finalize_resumed(p)
-----------------------------------------------------------------------------

Next ==
  \/ \E c \in Cpus, l \in Levels : srp_enter(c, l) \/ ReadStep(c, l)
  \/ \E p \in Procs : srp_update(p) \/ srp_update_swap(p) \/ srp_finalize(p) \/ FinalizeStep(p)
  \/ \E k \in Collectors : Collect(k)
  \/ srp_v_gc

Spec == Init /\ [][Next]_vars

\* CPUs keep running, and interrupts leave them time; whoever uses a value
\* leaves it; timeouts are called.  Nobody has to enter, update or finalize.
FairSpec ==
  /\ Spec
  /\ \A c \in Cpus, l \in Levels : SF_vars(ReadStep(c, l))
  /\ \A p \in Procs : WF_vars(srp_update_swap(p)) /\ WF_vars(FinalizeStep(p))
  /\ \A k \in Collectors : WF_vars(Collect(k))
  /\ WF_vars(srp_v_gc)

-----------------------------------------------------------------------------
(* Properties. *)

Ats == {"idle", "read", "store", "check", "use", "clear"}
Labels == {"idle", "swap", "scan_p", "scan_v", "dtor", "dec", "wake"} \cup Finalizing

Uses == [at : Ats, srp : Srps \cup {NULL}, i : Slots \cup {0}, v : Values \cup {NULL}]
Locals == [srp : Srps \cup {NULL}, v : Values \cup {NULL}, nv : Values \cup {NULL},
           c : Cpus, i : Slots, r : Nat]

TypeOK ==
  /\ ref \in [Srps -> Values \cup {NULL}]
  /\ sh_p \in [Cpus -> [Slots -> Srps \cup {NULL}]]
  /\ sh_v \in [Cpus -> [Slots -> Values \cup {NULL}]]
  /\ use \in [Cpus -> [Levels -> Uses]]
  /\ refcount \in Nat
  /\ pc \in [Collectors -> Labels]
  /\ loc \in [Collectors -> Locals]
  /\ ticks \subseteq [srp : Srps, v : Values]
  /\ home \in [Values -> Srps \cup {NULL}] /\ destroyed \subseteq Values
  /\ SleepTypeOK

\* srp_v_gc_start(): "we win" only when nobody uses the value.  What
\* srp_enter() returned is not destroyed before srp_leave(), however the
\* stores of the hazard, the swap and the scan fall between each other.
NoUseAfterFree ==
  \A c \in Cpus, l \in Levels : use[c][l].at = "use" => use[c][l].v \notin destroyed

\* When srp_finalize() returns every value was destroyed and nobody reads the
\* srp_gc again: its owner may free it.
FinalizedIsUnused ==
  \A p \in Procs : pc[p] = "finalized" =>
    /\ ticks = {} /\ destroyed = Values \ fresh
    /\ \A k \in Collectors : pc[k] \in {"idle", "wake", "finalized"}

\* Neither panic() is reached: with as many records as nested uses,
\* srp_enter() finds a free one and srp_leave() the one it looks for.
HazardsSuffice ==
  \A c \in Cpus, l \in Levels : Runs(c, l) =>
    /\ use[c][l] = NoUse => \E i \in Slots : sh_p[c][i] = NULL
    /\ use[c][l].at = "use" => \E i \in Slots : sh_p[c][i] = use[c][l].srp

\* srp_finalize() returns: the wakeup of the last srp_v_dtor() is not lost.
FinalizeReturns == \A p \in Procs : pc[p] \in Finalizing ~> pc[p] = "finalized"

\* A value that was replaced is destroyed in the end.
Reclaimed ==
  \A v \in Values :
    (v \notin fresh /\ \A s \in Srps : ref[s] # v) /\ (\A p \in Procs : loc[p].nv # v)
      ~> v \in destroyed
=============================================================================
