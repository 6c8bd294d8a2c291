------------------------------ MODULE LockMgr ------------------------------
(***************************************************************************)
(* The recursive lock rrw_*() of sys/kern/kern_rwlock.c and lockmgr() of   *)
(* sys/kern/kern_lock.c, which vnode locks use, on top of what the         *)
(* reader/writer lock promises (RwLockSpec).  The recursion count          *)
(* rrwl_wcnt is a plain integer that readers and writers store into after  *)
(* rw_enter() has returned.                                                *)
(***************************************************************************)
EXTENDS RwLockSpec, Naturals

CONSTANT MaxDepth     \* bound: how deep a thread nests its lockmgr() calls

ASSUME DepthAssumption == MaxDepth \in Nat \ {0}

VARIABLES
  rrwl_wcnt,  \* the recursion count
  pc, mode,   \* where each thread is, and whether it wants LK_SHARED
  depth       \* ghost: lockmgr() acquisitions minus LK_RELEASEs

vars == <<held, rrwl_wcnt, pc, mode, depth>>

TypeOK ==
  /\ held \in [Procs -> {"none", "read", "write"}]
  /\ rrwl_wcnt \in 0 .. MaxDepth
  /\ pc \in [Procs -> {"idle", "rw_enter", "set_wcnt", "rw_exit", "panic"}]
  /\ mode \in [Procs -> {"LK_SHARED", "LK_EXCLUSIVE"}]
  /\ depth \in [Procs -> 0 .. MaxDepth]

\* rrw_init().
Init ==
  /\ SpecInit
  /\ rrwl_wcnt = 0
  /\ pc = [p \in Procs |-> "idle"]
  /\ mode = [p \in Procs |-> "LK_SHARED"]
  /\ depth = [p \in Procs |-> 0]

Goto(p, label) == pc' = [pc EXCEPT ![p] = label]

\* RWLOCK_OWNER(&rrwl->rrwl_lock) == curproc
IsOwner(p) == held[p] = "write"

\* lockmgr() to acquire: an exclusive holder nests, or gets EDEADLK if it
\* asked for LK_RECURSEFAIL; a shared holder does not ask again.
rrw_enter(p) ==
  /\ pc[p] = "idle"
  /\ \E m \in {"LK_SHARED", "LK_EXCLUSIVE"}, recursefail \in BOOLEAN :
       /\ mode' = [mode EXCEPT ![p] = m]
       /\ \/ /\ IsOwner(p) /\ recursefail
             /\ UNCHANGED <<rrwl_wcnt, pc, depth>>
          \/ /\ IsOwner(p) /\ ~recursefail /\ depth[p] < MaxDepth
             /\ rrwl_wcnt' = rrwl_wcnt + 1
             /\ depth' = [depth EXCEPT ![p] = @ + 1]
             /\ UNCHANGED pc
          \/ /\ held[p] = "none"
             /\ Goto(p, "rw_enter")
             /\ UNCHANGED <<rrwl_wcnt, depth>>
  /\ UNCHANGED held

\* rw_enter() returns 0.
rrw_entered(p) ==
  /\ pc[p] = "rw_enter"
  /\ IF mode[p] = "LK_SHARED" THEN AcquireRead(p) ELSE AcquireWrite(p)
  /\ Goto(p, "set_wcnt")
  /\ UNCHANGED <<rrwl_wcnt, mode, depth>>

\* rw_enter() returns EBUSY to an LK_NOWAIT request.
rrw_busy(p) ==
  /\ pc[p] = "rw_enter"
  /\ \E q \in Procs : held[q] = "write" \/ (mode[p] = "LK_EXCLUSIVE" /\ held[q] # "none")
  /\ Goto(p, "idle")
  /\ UNCHANGED <<held, rrwl_wcnt, mode, depth>>

rrw_set_wcnt(p) ==
  /\ pc[p] = "set_wcnt"
  /\ rrwl_wcnt' = 1
  /\ depth' = [depth EXCEPT ![p] = 1]
  /\ Goto(p, "idle")
  /\ UNCHANGED <<held, mode>>

\* Mutant: the last nested release counts one too few.
rrw_exit_Early(p) ==
  /\ pc[p] = "idle" /\ depth[p] > 0
  /\ rrwl_wcnt' = IF IsOwner(p) THEN rrwl_wcnt - 1 ELSE rrwl_wcnt
  /\ depth' = [depth EXCEPT ![p] = @ - 1]
  /\ Goto(p, IF rrwl_wcnt' <= 1 THEN "rw_exit" ELSE "idle")
  /\ UNCHANGED <<held, mode>>

\* lockmgr(LK_RELEASE) by a thread that owes a release.
rrw_exit(p) ==
  /\ pc[p] = "idle" /\ depth[p] > 0
  /\ \/ /\ IsOwner(p) /\ rrwl_wcnt = 0
        /\ Goto(p, "panic")
        /\ UNCHANGED <<rrwl_wcnt, depth>>
     \/ /\ IsOwner(p) /\ rrwl_wcnt > 0
        /\ rrwl_wcnt' = rrwl_wcnt - 1
        /\ depth' = [depth EXCEPT ![p] = @ - 1]
        /\ Goto(p, IF rrwl_wcnt' = 0 THEN "rw_exit" ELSE "idle")
     \/ /\ ~IsOwner(p)
        /\ depth' = [depth EXCEPT ![p] = @ - 1]
        /\ Goto(p, "rw_exit")
        /\ UNCHANGED rrwl_wcnt
  /\ UNCHANGED <<held, mode>>

rrw_release(p) ==
  /\ pc[p] = "rw_exit"
  /\ Release(p)
  /\ Goto(p, "idle")
  /\ UNCHANGED <<rrwl_wcnt, mode, depth>>

\* lockstatus(), as p sees it.
lockstatus(p) ==
  IF \E q \in Procs : held[q] = "write"
    THEN IF IsOwner(p) THEN "LK_EXCLUSIVE" ELSE "LK_EXCLOTHER"
    ELSE IF \E q \in Procs : held[q] = "read" THEN "LK_SHARED" ELSE "none"

Next ==
  \E p \in Procs :
    \/ rrw_enter(p) \/ rrw_entered(p) \/ rrw_busy(p) \/ rrw_set_wcnt(p)
    \/ rrw_exit(p) \/ rrw_release(p)

Spec == Init /\ [][Next]_vars

-----------------------------------------------------------------------------
(* Properties. *)

\* A thread that still owes releases still has the lock, and a thread that
\* owes none does not, however rrw_enter() and rrw_exit() nest and whatever
\* other threads store into rrwl_wcnt meanwhile.
HeldWhileNested ==
  \A p \in Procs : pc[p] = "idle" => (depth[p] > 0 <=> held[p] # "none")

\* rrw_exit()'s KASSERT(rrwl_wcnt > 0) never fails.
WcntPositive == \A p \in Procs : pc[p] # "panic"

\* While anyone inside LK_EXCLUSIVE rests between calls, lockstatus() tells
\* every other thread LK_EXCLOTHER, and none of them owes a release.
ExclusiveIsAlone ==
  \A p, q \in Procs :
    (p # q /\ lockstatus(p) = "LK_EXCLUSIVE") =>
      /\ lockstatus(q) = "LK_EXCLOTHER"
      /\ depth[q] = 0
=============================================================================
