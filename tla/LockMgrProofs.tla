--------------------------- MODULE LockMgrProofs ---------------------------
(***************************************************************************)
(* Theorems about lockmgr(), for every set of threads and every depth of   *)
(* nesting.                                                                *)
(***************************************************************************)
EXTENDS LockMgr, TLAPS

\* What the lock under rrw_*() promises.
WriterIsAlone ==
  \A p, q \in Procs : held[p] = "write" /\ q # p => held[q] = "none"

\* rrwl_wcnt counts the calls of an exclusive holder; a shared holder does not
\* look at it, so it may hold anything that readers left.
ThreadInv(p) ==
  /\ pc[p] = "idle" => /\ depth[p] > 0 <=> held[p] # "none"
                       /\ held[p] = "read" => depth[p] = 1
                       /\ held[p] = "write" => rrwl_wcnt = depth[p]
  /\ pc[p] = "rw_enter" => held[p] = "none" /\ depth[p] = 0
  /\ pc[p] \in {"set_wcnt", "rw_exit"} => held[p] # "none" /\ depth[p] = 0
  /\ pc[p] # "panic"

IInv == TypeOK /\ WriterIsAlone /\ \A p \in Procs : ThreadInv(p)

\* rrw_init() leaves the lock free and nobody inside.
LEMMA InitIInv == Init => IInv
  BY DepthAssumption DEF Init, SpecInit, IInv, TypeOK, WriterIsAlone, ThreadInv

\* A thread that does not move keeps what it knows, unless it holds the lock
\* exclusively and another thread stores into rrwl_wcnt.
LEMMA OthersKeep ==
  ASSUME IInv, NEW p \in Procs, NEW q \in Procs, q # p,
         pc'[q] = pc[q], held'[q] = held[q], depth'[q] = depth[q],
         rrwl_wcnt' = rrwl_wcnt \/ held[p] # "none"
  PROVE  ThreadInv(q)'
<1>1. ThreadInv(q)  BY DEF IInv
<1>2. rrwl_wcnt' = rrwl_wcnt \/ held[q] # "write"  BY DEF IInv, WriterIsAlone
<1>. QED  BY <1>1, <1>2 DEF ThreadInv

\* Every step of rrw_enter() and rrw_exit() keeps the invariant.
LEMMA NextIInv ==
  ASSUME IInv, [Next]_vars
  PROVE  IInv'
<1>1. CASE UNCHANGED vars
  BY <1>1 DEF vars, IInv, TypeOK, WriterIsAlone, ThreadInv
<1>2. ASSUME NEW p \in Procs,
             \/ rrw_enter(p) \/ rrw_entered(p) \/ rrw_busy(p) \/ rrw_set_wcnt(p)
             \/ rrw_exit(p) \/ rrw_release(p)
      PROVE  IInv'
  <2> USE DEF Goto
  <2>1. /\ pc \in [Procs -> {"idle", "rw_enter", "set_wcnt", "rw_exit", "panic"}]
        /\ held \in [Procs -> {"none", "read", "write"}]
        /\ mode \in [Procs -> {"LK_SHARED", "LK_EXCLUSIVE"}]
        /\ depth \in [Procs -> 0 .. MaxDepth] /\ rrwl_wcnt \in 0 .. MaxDepth
        /\ MaxDepth \in Nat \ {0} /\ ThreadInv(p)
    BY DepthAssumption DEF IInv, TypeOK
  <2>2. CASE rrw_enter(p)
    <3>1. TypeOK'  BY <2>1, <2>2 DEF rrw_enter, TypeOK, IsOwner, ThreadInv
    <3>2. WriterIsAlone'  BY <2>2 DEF rrw_enter, IInv, WriterIsAlone
    <3>3. ThreadInv(p)'  BY <2>1, <2>2 DEF rrw_enter, IsOwner, ThreadInv
    <3>4. \A q \in Procs : q # p => ThreadInv(q)'
      BY <2>1, <2>2, OthersKeep DEF rrw_enter, IsOwner
    <3>. QED  BY <3>1, <3>2, <3>3, <3>4 DEF IInv
  <2>3. CASE rrw_entered(p)
    <3>1. TypeOK'  BY <2>1, <2>3 DEF rrw_entered, TypeOK, AcquireRead, AcquireWrite
    <3>2. WriterIsAlone'
      BY <2>1, <2>3 DEF rrw_entered, IInv, WriterIsAlone, AcquireRead, AcquireWrite, Free
    <3>3. ThreadInv(p)'
      BY <2>1, <2>3 DEF rrw_entered, ThreadInv, AcquireRead, AcquireWrite
    <3>4. \A q \in Procs : q # p => ThreadInv(q)'
      BY <2>1, <2>3, OthersKeep DEF rrw_entered, AcquireRead, AcquireWrite
    <3>. QED  BY <3>1, <3>2, <3>3, <3>4 DEF IInv
  <2>4. CASE rrw_busy(p)
    <3>1. TypeOK' /\ WriterIsAlone'
      BY <2>1, <2>4 DEF rrw_busy, TypeOK, IInv, WriterIsAlone
    <3>2. ThreadInv(p)'  BY <2>1, <2>4 DEF rrw_busy, ThreadInv
    <3>3. \A q \in Procs : q # p => ThreadInv(q)'  BY <2>1, <2>4, OthersKeep DEF rrw_busy
    <3>. QED  BY <3>1, <3>2, <3>3 DEF IInv
  <2>5. CASE rrw_set_wcnt(p)
    <3>1. TypeOK'  BY <2>1, <2>5 DEF rrw_set_wcnt, TypeOK
    <3>2. WriterIsAlone'  BY <2>5 DEF rrw_set_wcnt, IInv, WriterIsAlone
    <3>3. ThreadInv(p)'  BY <2>1, <2>5 DEF rrw_set_wcnt, ThreadInv
    <3>4. \A q \in Procs : q # p => ThreadInv(q)'
      BY <2>1, <2>5, OthersKeep DEF rrw_set_wcnt, ThreadInv
    <3>. QED  BY <3>1, <3>2, <3>3, <3>4 DEF IInv
  <2>6. CASE rrw_exit(p)
    <3>1. IsOwner(p) => rrwl_wcnt = depth[p]  BY <2>1, <2>6 DEF rrw_exit, IsOwner, ThreadInv
    <3>2. TypeOK'  BY <2>1, <2>6, <3>1 DEF rrw_exit, TypeOK
    <3>3. WriterIsAlone'  BY <2>6 DEF rrw_exit, IInv, WriterIsAlone
    <3>4. ThreadInv(p)'  BY <2>1, <2>6, <3>1 DEF rrw_exit, IsOwner, ThreadInv
    <3>5. \A q \in Procs : q # p => ThreadInv(q)'
      BY <2>1, <2>6, OthersKeep DEF rrw_exit, ThreadInv
    <3>. QED  BY <3>2, <3>3, <3>4, <3>5 DEF IInv
  <2>7. CASE rrw_release(p)
    <3>1. TypeOK'  BY <2>1, <2>7 DEF rrw_release, TypeOK, Release
    <3>2. WriterIsAlone'  BY <2>1, <2>7 DEF rrw_release, IInv, WriterIsAlone, Release
    <3>3. ThreadInv(p)'  BY <2>1, <2>7 DEF rrw_release, ThreadInv, Release
    <3>4. \A q \in Procs : q # p => ThreadInv(q)'
      BY <2>1, <2>7, OthersKeep DEF rrw_release, Release
    <3>. QED  BY <3>1, <3>2, <3>3, <3>4 DEF IInv
  <2>. QED  BY <1>2, <2>2, <2>3, <2>4, <2>5, <2>6, <2>7
<1>. QED  BY <1>1, <1>2 DEF Next

\* The invariant holds in every reachable state.
LEMMA Inductive == Spec => []IInv
  BY InitIInv, NextIInv, PTL DEF Spec

\* lockmgr() keeps its types: the recursion count stays within the nesting.
THEOREM LockMgrTypeCorrect == Spec => []TypeOK
<1>1. IInv => TypeOK  BY DEF IInv
<1>. QED  BY <1>1, Inductive, PTL

\* However lockmgr() calls nest and whatever readers store into rrwl_wcnt, a
\* thread has the lock exactly while it owes a release.
THEOREM NestingKeepsLock == Spec => []HeldWhileNested
<1>1. IInv => HeldWhileNested  BY DEF IInv, ThreadInv, HeldWhileNested
<1>. QED  BY <1>1, Inductive, PTL

\* rrw_exit()'s KASSERT(rrwl_wcnt > 0) holds.
THEOREM CountIsPositive == Spec => []WcntPositive
<1>1. IInv => WcntPositive  BY DEF IInv, ThreadInv, WcntPositive
<1>. QED  BY <1>1, Inductive, PTL

\* lockstatus() says LK_EXCLUSIVE to a thread only while all others are told
\* LK_EXCLOTHER and owe nothing.
THEOREM StatusIsExclusive == Spec => []ExclusiveIsAlone
<1>1. IInv => ExclusiveIsAlone
  <2> SUFFICES ASSUME IInv, NEW p \in Procs, NEW q \in Procs, p # q,
                      lockstatus(p) = "LK_EXCLUSIVE"
               PROVE  lockstatus(q) = "LK_EXCLOTHER" /\ depth[q] = 0
    BY DEF ExclusiveIsAlone
  <2>1. held[p] = "write"  BY DEF lockstatus, IsOwner
  <2>2. held[q] = "none"  BY <2>1 DEF IInv, WriterIsAlone
  <2>3. lockstatus(q) = "LK_EXCLOTHER"  BY <2>1, <2>2 DEF lockstatus, IsOwner
  <2>4. depth[q] = 0
    BY <2>2, DepthAssumption DEF IInv, TypeOK, ThreadInv
  <2>. QED  BY <2>3, <2>4
<1>. QED  BY <1>1, Inductive, PTL
=============================================================================
