------------------------------ MODULE MCRwLock ------------------------------
(* The threads of the model-checked instances and what they ask for. *)
EXTENDS RwLock

CONSTANTS p1, p2, p3

\* p1 waits interruptibly, p2 may sleep for a read or a write lock, and p3
\* reads if it need not sleep.
MCCalls ==
  {<<p1, "RW_WRITE", {"RW_INTR"}>>,
   <<p2, "RW_READ", {}>>, <<p2, "RW_READ", {"RW_SLEEPFAIL"}>>,
   <<p2, "RW_WRITE", {}>>, <<p2, "RW_DOWNGRADE", {}>>,
   <<p3, "RW_READ", {"RW_NOSLEEP"}>>}

\* Two threads that wait interruptibly.
MCStopCalls == {p1, p2} \X {"RW_READ", "RW_WRITE"} \X {{"RW_INTR"}}
=============================================================================
