----------------------------- MODULE RwLockSpec -----------------------------
(***************************************************************************)
(* What a reader/writer lock promises its callers, with no lock word, no   *)
(* sleep queue and no signals: who holds it, and which changes of that are *)
(* allowed.  RwLock implements this specification; LockMgr is built on it. *)
(***************************************************************************)
CONSTANT Procs
VARIABLE held

Free(p) == held[p] = "none"

AcquireRead(p) ==
  /\ Free(p)
  /\ \A q \in Procs : held[q] # "write"
  /\ held' = [held EXCEPT ![p] = "read"]

AcquireWrite(p) ==
  /\ \A q \in Procs : Free(q)
  /\ held' = [held EXCEPT ![p] = "write"]

Downgrade(p) ==
  /\ held[p] = "write"
  /\ held' = [held EXCEPT ![p] = "read"]

Release(p) ==
  /\ ~Free(p)
  /\ held' = [held EXCEPT ![p] = "none"]

SpecInit == held = [p \in Procs |-> "none"]

SpecNext ==
  \E p \in Procs : AcquireRead(p) \/ AcquireWrite(p) \/ Downgrade(p) \/ Release(p)

LockSpec == SpecInit /\ [][SpecNext]_held
=============================================================================
