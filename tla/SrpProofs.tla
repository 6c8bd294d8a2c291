----------------------------- MODULE SrpProofs -----------------------------
(***************************************************************************)
(* Theorems about shared reference pointers, for any number of CPUs,       *)
(* hazard records, nested uses, pointers, values and updating procs, as    *)
(* long as no interrupt enters a pointer that its CPU is using (~SameSrp). *)
(***************************************************************************)
EXTENDS Srp, TLAPS, FiniteSetTheorems

\* Leaves are first-order steps for Zenon, unless they cite SMT.
USE ZenonT(30)

(* The inductive invariant, and the readers: srp_enter() and srp_leave(). *)

Reading(c, l) == use[c][l].at \in {"read", "store", "check", "use"}

\* What a level of a CPU knows of its hazard record.
UseInv(c, l) ==
  LET u == use[c][l] IN
  /\ u.at = "idle" => u = NoUse
  /\ u.at # "idle" => u.srp \in Srps /\ u.i \in Slots
  /\ Reading(c, l) => sh_p[c][u.i] = u.srp
  /\ u.at \in {"check", "use"} => sh_v[c][u.i] = u.v
  /\ u.at \in {"store", "check", "use"} /\ u.v # NULL => home[u.v] = u.srp

\* Two levels of a CPU use different pointers and different records; the record
\* that l is clearing can only be taken by what interrupts l.
ApartInv(c, l, m) ==
  Reading(c, m) =>
    /\ use[c][l].at # "idle" => use[c][m].srp # use[c][l].srp
    /\ Reading(c, l) => use[c][m].i # use[c][l].i
    /\ use[c][l].at = "clear" /\ use[c][m].i = use[c][l].i => m > l

ReaderInv ==
  /\ \A c \in Cpus, l \in Levels : UseInv(c, l)
  /\ \A c \in Cpus, l, m \in Levels : l # m => ApartInv(c, l, m)
  /\ \A c \in Cpus, i \in Slots :
       sh_p[c][i] # NULL => \E l \in Levels : Reading(c, l) /\ use[c][l].i = i

\* Collector k decides about a value that was replaced.
Busy(k) == pc[k] \in {"scan_p", "scan_v", "dtor"}

\* Collector k will not look at record i of CPU c again.
Passed(k, c, i) == pc[k] = "dtor" \/ c < loc[k].c \/ (c = loc[k].c /\ i < loc[k].i)

Replaced(v) ==
  /\ \A s \in Srps : ref[s] # v
  /\ \A p \in Procs : pc[p] = "swap" => loc[p].nv # v

\* A value is in one place: about to be published, published, with one
\* collector, with a timeout, or destroyed.
SwapInv(p) ==
  pc[p] = "swap" =>
    /\ loc[p].srp \in Srps
    /\ loc[p].nv # NULL =>
         /\ home[loc[p].nv] = loc[p].srp /\ loc[p].nv \notin destroyed
         /\ \A s \in Srps : ref[s] # loc[p].nv
         /\ \A q \in Procs : q # p /\ pc[q] = "swap" => loc[q].nv # loc[p].nv

BusyInv(k) ==
  Busy(k) =>
    /\ loc[k].v \in Values /\ loc[k].srp \in Srps /\ home[loc[k].v] = loc[k].srp
    /\ Replaced(loc[k].v) /\ loc[k].v \notin destroyed
    /\ \A x \in ticks : x.v # loc[k].v
    /\ \A j \in Collectors : j # k /\ Busy(j) => loc[j].v # loc[k].v

DecInv(k) ==
  pc[k] = "dec" =>
    /\ loc[k].v \in destroyed
    /\ \A j \in Collectors : j # k /\ pc[j] = "dec" => loc[j].v # loc[k].v

ValueInv ==
  /\ \A s \in Srps : ref[s] # NULL => home[ref[s]] = s /\ ref[s] \notin destroyed
  /\ \A p \in Procs : SwapInv(p)
  /\ \A k \in Collectors : BusyInv(k) /\ DecInv(k)
  /\ \A x \in ticks : home[x.v] = x.srp /\ Replaced(x.v) /\ x.v \notin destroyed
  /\ \A v \in destroyed : home[v] # NULL
  /\ pc[softclock] \in {"idle", "scan_p", "scan_v", "dtor", "dec", "wake"}

\* No collector has passed the record of a use of its value.
HazardInv ==
  \A c \in Cpus, l \in Levels : use[c][l].at = "use" /\ use[c][l].v # NULL =>
    /\ use[c][l].v \notin destroyed
    /\ \A k \in Collectors : Busy(k) /\ loc[k].v = use[c][l].v => ~Passed(k, c, use[c][l].i)

\* The values that srp_gc_refcount counts.
Live == {v \in Values : home[v] # NULL /\
                        (v \notin destroyed \/ \E k \in Collectors : pc[k] = "dec" /\ loc[k].v = v)}

Owned == IF \E p \in Procs : pc[p] \in Finalizing THEN 0 ELSE 1

CountInv ==
  /\ refcount = Owned + Cardinality(Live)
  /\ \A p, q \in Procs : p # q /\ pc[p] \in Finalizing => pc[q] \notin Finalizing \cup {"swap"}
  /\ \A p \in Procs :
       pc[p] = "finalized" \/ (pc[p] = "sleep_finish" /\ loc[p].r = 0) => refcount = 0

IInv == TypeOK /\ ReaderInv /\ ValueInv /\ HazardInv /\ CountInv

\* What the procs in srp_update() know.
LEMMA SwapsHold == ASSUME IInv PROVE \A p \in Procs : SwapInv(p)
  BY DEF IInv, ValueInv

\* What srp_v_referenced() and srp_v_dtor() know of their value.
LEMMA BusyHold == ASSUME IInv PROVE \A k \in Collectors : BusyInv(k)
  BY DEF IInv, ValueInv

\* What is known of a value until it is no longer counted.
LEMMA DecsHold == ASSUME IInv PROVE \A k \in Collectors : DecInv(k)
  BY DEF IInv, ValueInv

\* No proc in srp_update() is new, and nothing it knows of has changed.
LEMMA SwapFrame ==
  ASSUME \A q \in Procs : SwapInv(q), UNCHANGED <<ref, home, destroyed>>,
         \A q \in Procs : pc'[q] = "swap" => pc[q] = "swap" /\ loc'[q] = loc[q]
  PROVE  /\ \A q \in Procs : SwapInv(q)'
         /\ \A v : Replaced(v) => Replaced(v)'
<1>1. ASSUME NEW q \in Procs PROVE SwapInv(q)'
  <2>1. SwapInv(q)  OBVIOUS
  <2>. QED  BY <2>1 DEF SwapInv
<1>2. \A v : Replaced(v) => Replaced(v)'  BY DEF Replaced
<1>. QED  BY <1>1, <1>2

\* No collector has a new value, and nothing it knows of has changed.
LEMMA BusyFrame ==
  ASSUME NEW j \in Collectors, BusyInv(j), UNCHANGED <<home, destroyed>>,
         \A v : Replaced(v) => Replaced(v)',
         Busy(j) => \A x \in ticks' : x \in ticks \/ x.v # loc[j].v,
         \A n \in Collectors :
           Busy(n)' => Busy(n) /\ loc'[n].v = loc[n].v /\ loc'[n].srp = loc[n].srp
  PROVE  BusyInv(j)'
BY DEF BusyInv

\* No collector has destroyed a value that is still counted.
LEMMA DecFrame ==
  ASSUME \A k \in Collectors : DecInv(k), destroyed \subseteq destroyed',
         \A k \in Collectors : pc'[k] = "dec" => pc[k] = "dec" /\ loc'[k].v = loc[k].v
  PROVE  \A k \in Collectors : DecInv(k)'
BY DEF DecInv

-----------------------------------------------------------------------------
(* Functions of two arguments. *)

\* An update of one hazard record, or of one level, changes nothing else.
LEMMA Update2 ==
  ASSUME NEW A, NEW B, NEW V, NEW f \in [A -> [B -> V]], NEW a \in A, NEW b \in B, NEW v \in V,
         NEW g, g = [f EXCEPT ![a][b] = v]
  PROVE  /\ g \in [A -> [B -> V]]
         /\ g[a][b] = v
         /\ \A x \in A, y \in B : x # a \/ y # b => g[x][y] = f[x][y]
  OBVIOUS

\* What a step of srp_enter() or srp_leave() makes of the levels of the CPUs.
LEMMA BecomeUpdates ==
  ASSUME TypeOK, NEW c \in Cpus, NEW l \in Levels, NEW u \in Uses, Become(c, l, u)
  PROVE  /\ use' \in [Cpus -> [Levels -> Uses]]
         /\ use'[c][l] = u
         /\ \A d \in Cpus, m \in Levels : d # c \/ m # l => use'[d][m] = use[d][m]
  BY SMTT(30), Update2 DEF TypeOK, Become

\* What a step of a collector makes of the collectors.
LEMMA GotoUpdates ==
  ASSUME TypeOK, NEW k \in Collectors, NEW label \in Labels, Goto(k, label)
  PROVE  /\ pc' \in [Collectors -> Labels]
         /\ pc'[k] = label
         /\ \A j \in Collectors : j # k => pc'[j] = pc[j]
  BY DEF TypeOK, Goto

\* What a step makes of a collector's locals in kern_srp.c.
LEMMA SetUpdates ==
  ASSUME TypeOK, NEW k \in Collectors, NEW r \in Locals, Set(k, r)
  PROVE  /\ loc' \in [Collectors -> Locals]
         /\ loc'[k] = r
         /\ \A j \in Collectors : j # k => loc'[j] = loc[j]
  BY DEF TypeOK, Set

\* A level outside srp_enter() and srp_leave() has the type of a use.
LEMMA NoUseType == NoUse \in Uses /\ NoUse.at = "idle"
  BY DEF NoUse, Uses, Ats

\* The locals that srp_update() and srp_v_referenced() start with have their type.
LEMMA NoLocalsType ==
  /\ NoLocals \in Locals
  /\ \A s \in Srps, v \in Values : [NoLocals EXCEPT !.srp = s, !.v = v] \in Locals
  /\ \A s \in Srps, v \in Values \cup {NULL} : [NoLocals EXCEPT !.srp = s, !.nv = v] \in Locals
  /\ \A r \in Nat : [NoLocals EXCEPT !.r = r] \in Locals
<1>1. 1 \in Cpus /\ 1 \in Slots  BY SMTT(30), SrpAssumption DEF Cpus, Slots
<1>2. NoLocals = [srp |-> NULL, v |-> NULL, nv |-> NULL, c |-> 1, i |-> 1, r |-> 0]
  BY DEF NoLocals
<1>3. NoLocals \in Locals  BY <1>1, <1>2 DEF Locals
<1>4. \A s \in Srps, v \in Values : [NoLocals EXCEPT !.srp = s, !.v = v] \in Locals
  BY <1>3 DEF Locals
<1>5. \A s \in Srps, v \in Values \cup {NULL} : [NoLocals EXCEPT !.srp = s, !.nv = v] \in Locals
  BY <1>3 DEF Locals
<1>6. \A r \in Nat : [NoLocals EXCEPT !.r = r] \in Locals  BY <1>3 DEF Locals
<1>. QED  BY <1>3, <1>4, <1>5, <1>6

-----------------------------------------------------------------------------
(* Readers. *)

\* The part of the type invariant that readers may change.
ReaderType ==
  /\ sh_p \in [Cpus -> [Slots -> Srps \cup {NULL}]]
  /\ sh_v \in [Cpus -> [Slots -> Values \cup {NULL}]]
  /\ use \in [Cpus -> [Levels -> Uses]]

\* srp_enter() takes a record that nobody has.
LEMMA EnterReader ==
  ASSUME TypeOK, ReaderInv, ~SameSrp, NEW c \in Cpus, NEW l \in Levels, srp_enter(c, l)
  PROVE  ReaderType' /\ ReaderInv'
<1>1. PICK s \in Srps, i \in Slots :
        /\ s \notin Entered(c) /\ sh_p[c][i] = NULL
        /\ sh_p' = [sh_p EXCEPT ![c][i] = s]
        /\ Become(c, l, [NoUse EXCEPT !.at = "read", !.srp = s, !.i = i])
  BY DEF srp_enter
<1> DEFINE u == [NoUse EXCEPT !.at = "read", !.srp = s, !.i = i]
<1>2. u \in Uses /\ u.at = "read" /\ u.srp = s /\ u.i = i  BY DEF NoUse, Uses, Ats
<1>3. /\ use' \in [Cpus -> [Levels -> Uses]] /\ use'[c][l] = u
      /\ \A d \in Cpus, m \in Levels : d # c \/ m # l => use'[d][m] = use[d][m]
  BY SMTT(30), <1>1, <1>2, BecomeUpdates
<1> HIDE DEF u
<1>4. /\ sh_p' \in [Cpus -> [Slots -> Srps \cup {NULL}]] /\ sh_p'[c][i] = s
      /\ \A d \in Cpus, j \in Slots : d # c \/ j # i => sh_p'[d][j] = sh_p[d][j]
  BY SMTT(30), <1>1, Update2 DEF TypeOK
<1>5. /\ use[c][l] = NoUse /\ Runs(c, l)
      /\ sh_v' = sh_v /\ home' = home
  BY DEF srp_enter
<1>6. NULL \notin Srps  BY SrpAssumption
<1>7. \A m \in Levels : Reading(c, m) => use[c][m].i # i /\ use[c][m].srp # s /\ use[c][m].i \in Slots
  BY SMTT(30), <1>1, <1>6 DEF ReaderInv, UseInv, Reading, Entered
<1>8. \A d \in Cpus, m \in Levels : UseInv(d, m)'
  <2> TAKE d \in Cpus, m \in Levels
  <2>1. CASE d = c /\ m = l  BY <2>1, <1>2, <1>3, <1>4 DEF UseInv, Reading
  <2>2. CASE d # c \/ m # l
    <3>1. UseInv(d, m) /\ use'[d][m] = use[d][m]  BY <2>2, <1>3 DEF ReaderInv
    <3>2. Reading(d, m) => sh_p'[d][use[d][m].i] = use[d][m].srp
      BY <3>1, <1>4, <1>7 DEF UseInv, Reading
    <3>. QED  BY <3>1, <3>2, <1>5 DEF UseInv, Reading
  <2>. QED  BY <2>1, <2>2
<1>9. \A d \in Cpus, m, n \in Levels : m # n => ApartInv(d, m, n)'
  <2> TAKE d \in Cpus, m, n \in Levels
  <2> HAVE m # n
  <2>1. CASE d = c /\ n = l
    <3>1. use[c][m].at # "idle" => use[c][m].srp # s  BY <1>1 DEF Entered
    <3>2. use[c][m].at # "idle" => l > m
      BY SMTT(30), <2>1, <1>5, NoUseType, SrpAssumption DEF Runs, Levels
    <3>. QED  BY <2>1, <3>1, <3>2, <1>2, <1>3, <1>7 DEF ApartInv, Reading
  <2>2. CASE d = c /\ m = l  BY <2>2, <1>2, <1>3, <1>7 DEF ApartInv, Reading
  <2>3. CASE d # c \/ (m # l /\ n # l)
    BY SMTT(30), <2>3, <1>3 DEF ReaderInv, ApartInv, Reading
  <2>. QED  BY <2>1, <2>2, <2>3
<1>10. \A d \in Cpus, j \in Slots :
         sh_p'[d][j] # NULL => \E m \in Levels : Reading(d, m)' /\ use'[d][m].i = j
  <2> TAKE d \in Cpus, j \in Slots
  <2> HAVE sh_p'[d][j] # NULL
  <2>1. CASE d = c /\ j = i  BY <2>1, <1>2, <1>3 DEF Reading
  <2>2. CASE d # c \/ j # i
    <3>1. PICK m \in Levels : Reading(d, m) /\ use[d][m].i = j  BY SMTT(30), <2>2, <1>4 DEF ReaderInv
    <3>2. d # c \/ m # l  BY <3>1, <1>5, NoUseType DEF Reading
    <3>. QED  BY <3>1, <3>2, <1>3 DEF Reading
  <2>. QED  BY <2>1, <2>2
<1>. QED  BY <1>3, <1>4, <1>5, <1>8, <1>9, <1>10 DEF ReaderInv, ReaderType, TypeOK

\* A step inside srp_enter() changes at most the value of its own record.
LEMMA StayReader ==
  ASSUME TypeOK, ReaderInv, NEW c \in Cpus, NEW l \in Levels, NEW u \in Uses,
         Become(c, l, u), Reading(c, l),
         u.at \in {"read", "store", "check", "use"},
         u.srp = use[c][l].srp, u.i = use[c][l].i,
         sh_p' = sh_p, home' = home,
         sh_v' \in [Cpus -> [Slots -> Values \cup {NULL}]],
         \A d \in Cpus, j \in Slots : d # c \/ j # u.i => sh_v'[d][j] = sh_v[d][j],
         u.at \in {"check", "use"} => sh_v'[c][u.i] = u.v,
         u.at \in {"store", "check", "use"} /\ u.v # NULL => home[u.v] = u.srp
  PROVE  ReaderType' /\ ReaderInv'
<1>1. /\ use' \in [Cpus -> [Levels -> Uses]] /\ use'[c][l] = u
      /\ \A d \in Cpus, m \in Levels : d # c \/ m # l => use'[d][m] = use[d][m]
  BY BecomeUpdates
<1>2. \A d \in Cpus, m \in Levels : Reading(d, m)' <=> Reading(d, m)
  BY <1>1 DEF Reading
<1>3. \A d \in Cpus, m \in Levels : UseInv(d, m)'
  <2> TAKE d \in Cpus, m \in Levels
  <2>1. CASE d = c /\ m = l  BY SMTT(30), <2>1, <1>1 DEF UseInv, Reading, ReaderInv
  <2>2. CASE d # c \/ m # l
    <3>1. UseInv(d, m) /\ use'[d][m] = use[d][m]  BY <2>2, <1>1 DEF ReaderInv
    <3>2. use[d][m].at \in {"check", "use"} => sh_v'[d][use[d][m].i] = use[d][m].v
      BY SMTT(30), <2>2, <3>1 DEF ReaderInv, UseInv, ApartInv, Reading
    <3>. QED  BY <3>1, <3>2 DEF UseInv, Reading
  <2>. QED  BY <2>1, <2>2
<1>4. \A d \in Cpus, m, n \in Levels : m # n => ApartInv(d, m, n)'
  <2> TAKE d \in Cpus, m, n \in Levels
  <2>1. /\ use'[d][m].srp = use[d][m].srp /\ use'[d][m].i = use[d][m].i
        /\ use'[d][n].srp = use[d][n].srp /\ use'[d][n].i = use[d][n].i
    BY <1>1
  <2>2. /\ use'[d][m].at = "clear" <=> use[d][m].at = "clear"
        /\ use'[d][m].at # "idle" <=> use[d][m].at # "idle"
    BY <1>1 DEF Reading
  <2>. QED  BY SMTT(30), <2>1, <2>2, <1>2 DEF ReaderInv, ApartInv
<1>5. \A d \in Cpus, j \in Slots :
         sh_p'[d][j] # NULL => \E m \in Levels : Reading(d, m)' /\ use'[d][m].i = j
  <2> TAKE d \in Cpus, j \in Slots
  <2> HAVE sh_p'[d][j] # NULL
  <2>1. PICK m \in Levels : Reading(d, m) /\ use[d][m].i = j  BY DEF ReaderInv
  <2>2. use'[d][m].i = j  BY <2>1, <1>1
  <2>. QED  BY <2>1, <2>2, <1>2
<1>. QED  BY <1>1, <1>3, <1>4, <1>5 DEF ReaderInv, ReaderType, TypeOK

\* The read of srp->ref in srp_enter() keeps what the readers know.
LEMMA ReadReader ==
  ASSUME TypeOK, ReaderInv, ValueInv, NEW c \in Cpus, NEW l \in Levels, srp_enter_read(c, l)
  PROVE  ReaderType' /\ ReaderInv'
<1> DEFINE x == use[c][l]
           u == [x EXCEPT !.at = "store", !.v = ref[x.srp]]
<1>1. x \in Uses /\ x.at = "read" /\ x.srp \in Srps
  BY DEF srp_enter_read, TypeOK, ReaderInv, UseInv
<1>2. ref[x.srp] \in Values \cup {NULL}  BY <1>1 DEF TypeOK
<1>3. u \in Uses /\ u.at = "store" /\ u.srp = x.srp /\ u.i = x.i /\ u.v = ref[x.srp]
  BY <1>1, <1>2 DEF Uses, Ats
<1>4. u.v # NULL => home[u.v] = u.srp  BY <1>1, <1>3 DEF ValueInv
<1>5. Become(c, l, u) /\ sh_p' = sh_p /\ sh_v' = sh_v /\ home' = home
  BY DEF srp_enter_read, hazards
<1> HIDE DEF u
<1>. QED  BY <1>1, <1>3, <1>4, <1>5, StayReader DEF Reading, TypeOK

\* The store of the hazard in srp_enter() keeps what the readers know.
LEMMA StoreReader ==
  ASSUME TypeOK, ReaderInv, NEW c \in Cpus, NEW l \in Levels, srp_enter_store(c, l)
  PROVE  ReaderType' /\ ReaderInv'
<1> DEFINE x == use[c][l]
           u == [x EXCEPT !.at = "check"]
<1>1. x \in Uses /\ x.at = "store" /\ x.i \in Slots /\ x.v \in Values \cup {NULL}
  BY SMTT(30) DEF srp_enter_store, TypeOK, ReaderInv, UseInv, Uses
<1>2. u \in Uses /\ u.at = "check" /\ u.srp = x.srp /\ u.i = x.i /\ u.v = x.v
  BY <1>1 DEF Uses, Ats
<1>3. u.v # NULL => home[u.v] = u.srp  BY SMTT(30), <1>1, <1>2 DEF ReaderInv, UseInv
<1>4. Become(c, l, u) /\ sh_p' = sh_p /\ home' = home
  BY DEF srp_enter_store
<1>5. /\ sh_v' \in [Cpus -> [Slots -> Values \cup {NULL}]] /\ sh_v'[c][x.i] = x.v
      /\ \A d \in Cpus, j \in Slots : d # c \/ j # x.i => sh_v'[d][j] = sh_v[d][j]
  BY SMTT(30), <1>1, Update2 DEF srp_enter_store, TypeOK
<1> HIDE DEF u
<1>. QED  BY SMTT(30), <1>1, <1>2, <1>3, <1>4, <1>5, StayReader DEF Reading

\* The second read of srp->ref in srp_enter() keeps what the readers know.
LEMMA CheckReader ==
  ASSUME TypeOK, ReaderInv, NEW c \in Cpus, NEW l \in Levels, srp_enter_check(c, l)
  PROVE  ReaderType' /\ ReaderInv'
<1> DEFINE x == use[c][l]
           at == IF x.v = ref[x.srp] THEN "use" ELSE "read"
           u == [x EXCEPT !.at = at]
<1>1. x \in Uses /\ x.at = "check" /\ x.i \in Slots /\ sh_v[c][x.i] = x.v
  BY SMTT(30) DEF srp_enter_check, TypeOK, ReaderInv, UseInv, Uses
<1>2. u \in Uses /\ u.at \in {"use", "read"} /\ u.srp = x.srp /\ u.i = x.i /\ u.v = x.v
  BY <1>1 DEF Uses, Ats
<1>3. u.v # NULL => home[u.v] = u.srp  BY SMTT(30), <1>1, <1>2 DEF ReaderInv, UseInv
<1>4. Become(c, l, u) /\ sh_p' = sh_p /\ sh_v' = sh_v /\ home' = home
  BY DEF srp_enter_check, hazards
<1> HIDE DEF u
<1>. QED  BY <1>1, <1>2, <1>3, <1>4, StayReader DEF Reading, TypeOK

\* srp_leave() finds the record of the use it ends.
LEMMA LeaveReader ==
  ASSUME TypeOK, ReaderInv, NEW c \in Cpus, NEW l \in Levels, srp_leave(c, l)
  PROVE  ReaderType' /\ ReaderInv'
<1> DEFINE x == use[c][l]
<1>1. PICK i \in Slots :
        /\ sh_p[c][i] = x.srp /\ sh_p' = [sh_p EXCEPT ![c][i] = NULL]
        /\ Become(c, l, [x EXCEPT !.at = "clear", !.i = i, !.v = NULL])
  BY DEF srp_leave
<1> DEFINE u == [x EXCEPT !.at = "clear", !.i = i, !.v = NULL]
<1>2. /\ x \in Uses /\ x.at = "use" /\ Reading(c, l) /\ x.srp \in Srps
      /\ sh_v' = sh_v /\ home' = home
  BY SMTT(30) DEF srp_leave, TypeOK, ReaderInv, UseInv, Reading
<1>3. u \in Uses /\ u.at = "clear" /\ u.srp = x.srp /\ u.i = i  BY <1>2 DEF Uses, Ats
<1>4. i = x.i
  <2>1. PICK m \in Levels : Reading(c, m) /\ use[c][m].i = i
    BY <1>1, <1>2, SrpAssumption DEF ReaderInv
  <2>2. use[c][m].srp = x.srp  BY <1>1, <2>1 DEF ReaderInv, UseInv
  <2>3. m = l  BY <1>2, <2>1, <2>2 DEF ReaderInv, ApartInv
  <2>. QED  BY <2>1, <2>3
<1>5. /\ use' \in [Cpus -> [Levels -> Uses]] /\ use'[c][l] = u
      /\ \A d \in Cpus, m \in Levels : d # c \/ m # l => use'[d][m] = use[d][m]
  BY SMTT(30), <1>1, <1>3, BecomeUpdates
<1> HIDE DEF u
<1>6. /\ sh_p' \in [Cpus -> [Slots -> Srps \cup {NULL}]] /\ sh_p'[c][i] = NULL
      /\ \A d \in Cpus, j \in Slots : d # c \/ j # i => sh_p'[d][j] = sh_p[d][j]
  BY <1>1, Update2 DEF TypeOK
<1>7. \A m \in Levels : m # l /\ Reading(c, m) =>
        use[c][m].i # i /\ use[c][m].i \in Slots /\ use[c][m].srp # x.srp
  BY SMTT(30), <1>2, <1>4 DEF ReaderInv, ApartInv, UseInv, Reading
<1>8. \A d \in Cpus, m \in Levels : UseInv(d, m)'
  <2> TAKE d \in Cpus, m \in Levels
  <2>1. CASE d = c /\ m = l  BY <2>1, <1>2, <1>3, <1>5 DEF UseInv, Reading
  <2>2. CASE d # c \/ m # l
    <3>1. UseInv(d, m) /\ use'[d][m] = use[d][m]  BY <2>2, <1>5 DEF ReaderInv
    <3>2. Reading(d, m) => sh_p'[d][use[d][m].i] = use[d][m].srp
      BY <2>2, <3>1, <1>6, <1>7 DEF UseInv, Reading
    <3>. QED  BY <3>1, <3>2, <1>2 DEF UseInv, Reading
  <2>. QED  BY <2>1, <2>2
<1>9. \A d \in Cpus, m, n \in Levels : m # n => ApartInv(d, m, n)'
  <2> TAKE d \in Cpus, m, n \in Levels
  <2> HAVE m # n
  <2>1. CASE d = c /\ n = l  BY <2>1, <1>3, <1>5 DEF ApartInv, Reading
  <2>2. CASE d = c /\ m = l  BY <2>2, <1>3, <1>5, <1>7 DEF ApartInv, Reading
  <2>3. CASE d # c \/ (m # l /\ n # l)
    BY SMTT(30), <2>3, <1>5 DEF ReaderInv, ApartInv, Reading
  <2>. QED  BY <2>1, <2>2, <2>3
<1>10. \A d \in Cpus, j \in Slots :
         sh_p'[d][j] # NULL => \E m \in Levels : Reading(d, m)' /\ use'[d][m].i = j
  <2> TAKE d \in Cpus, j \in Slots
  <2> HAVE sh_p'[d][j] # NULL
  <2>1. d # c \/ j # i  BY <1>6
  <2>2. PICK m \in Levels : Reading(d, m) /\ use[d][m].i = j  BY SMTT(30), <2>1, <1>6 DEF ReaderInv
  <2>3. d # c \/ m # l  BY <2>1, <2>2, <1>4
  <2>. QED  BY <2>2, <2>3, <1>5 DEF Reading
<1>. QED  BY <1>2, <1>5, <1>6, <1>8, <1>9, <1>10 DEF ReaderInv, ReaderType, TypeOK

\* srp_leave() clears the value of a record that nobody took meanwhile.
LEMMA ClearReader ==
  ASSUME TypeOK, ReaderInv, NEW c \in Cpus, NEW l \in Levels, srp_leave_clear(c, l)
  PROVE  ReaderType' /\ ReaderInv'
<1> DEFINE i == use[c][l].i
<1>1. /\ use[c][l].at = "clear" /\ Runs(c, l) /\ i \in Slots
      /\ sh_p' = sh_p /\ home' = home /\ Become(c, l, NoUse)
  BY DEF srp_leave_clear, ReaderInv, UseInv
<1>2. /\ use' \in [Cpus -> [Levels -> Uses]] /\ use'[c][l] = NoUse
      /\ \A d \in Cpus, m \in Levels : d # c \/ m # l => use'[d][m] = use[d][m]
  BY <1>1, NoUseType, BecomeUpdates
<1>3. /\ sh_v' \in [Cpus -> [Slots -> Values \cup {NULL}]]
      /\ \A d \in Cpus, j \in Slots : d # c \/ j # i => sh_v'[d][j] = sh_v[d][j]
  BY SMTT(30), <1>1, Update2 DEF srp_leave_clear, TypeOK
<1>4. \A m \in Levels : m # l /\ Reading(c, m) => use[c][m].i # i
  BY SMTT(30), <1>1, NoUseType DEF ReaderInv, ApartInv, Runs, Reading
<1>5. \A d \in Cpus, m \in Levels : UseInv(d, m)'
  <2> TAKE d \in Cpus, m \in Levels
  <2>1. CASE d = c /\ m = l  BY <2>1, <1>2, NoUseType DEF UseInv, Reading
  <2>2. CASE d # c \/ m # l
    <3>1. UseInv(d, m) /\ use'[d][m] = use[d][m]  BY <2>2, <1>2 DEF ReaderInv
    <3>2. use[d][m].at \in {"check", "use"} => sh_v'[d][use[d][m].i] = use[d][m].v
      BY SMTT(30), <2>2, <3>1, <1>3, <1>4 DEF UseInv, Reading
    <3>. QED  BY <3>1, <3>2, <1>1 DEF UseInv, Reading
  <2>. QED  BY <2>1, <2>2
<1>6. \A d \in Cpus, m, n \in Levels : m # n => ApartInv(d, m, n)'
  <2> TAKE d \in Cpus, m, n \in Levels
  <2> HAVE m # n
  <2>1. CASE d = c /\ n = l  BY <2>1, <1>2, NoUseType DEF ApartInv, Reading
  <2>2. CASE d = c /\ m = l  BY <2>2, <1>2, NoUseType DEF ApartInv, Reading
  <2>3. CASE d # c \/ (m # l /\ n # l)
    BY SMTT(30), <2>3, <1>2 DEF ReaderInv, ApartInv, Reading
  <2>. QED  BY <2>1, <2>2, <2>3
<1>7. \A d \in Cpus, j \in Slots :
         sh_p'[d][j] # NULL => \E m \in Levels : Reading(d, m)' /\ use'[d][m].i = j
  <2> TAKE d \in Cpus, j \in Slots
  <2> HAVE sh_p'[d][j] # NULL
  <2>1. PICK m \in Levels : Reading(d, m) /\ use[d][m].i = j  BY <1>1 DEF ReaderInv
  <2>2. d # c \/ m # l  BY <2>1, <1>1 DEF Reading
  <2>. QED  BY <2>1, <2>2, <1>2 DEF Reading
<1>. QED  BY <1>1, <1>2, <1>3, <1>5, <1>6, <1>7 DEF ReaderInv, ReaderType, TypeOK

\* Readers leave everything else alone, and what starts to be used is current.
LEMMA ReadersKeep ==
  ASSUME IInv, ~SameSrp, NEW c \in Cpus, NEW l \in Levels,
         srp_enter(c, l) \/ ReadStep(c, l)
  PROVE  IInv'
<1>1. /\ ref' = ref /\ home' = home /\ pc' = pc /\ loc' = loc /\ ticks' = ticks
      /\ destroyed' = destroyed /\ refcount' = refcount /\ UNCHANGED sleepVars
  BY DEF ReadStep, srp_enter, srp_enter_read, srp_enter_store, srp_enter_check, srp_leave,
         srp_leave_clear, gcVars
<1>2. ReaderType' /\ ReaderInv'
  BY EnterReader, ReadReader, StoreReader, CheckReader, LeaveReader, ClearReader
     DEF IInv, ReadStep
<1>3. TypeOK'  BY <1>1, <1>2 DEF IInv, TypeOK, ReaderType, SleepTypeOK, sleepVars
<1>4. ValueInv'
  <2>1. \A k \in Collectors : Busy(k)' <=> Busy(k)  BY <1>1 DEF Busy
  <2>2. (\A p \in Procs : SwapInv(p)') /\ \A v : Replaced(v) => Replaced(v)'
    BY <1>1, SwapsHold, SwapFrame
  <2>3. \A k \in Collectors : BusyInv(k)'  BY <1>1, <2>1, <2>2, BusyHold, BusyFrame
  <2>4. \A k \in Collectors : DecInv(k)'  BY <1>1, DecsHold, DecFrame
  <2>. QED  BY <1>1, <2>2, <2>3, <2>4 DEF IInv, ValueInv
<1>5. CountInv'  BY <1>1 DEF IInv, CountInv, Owned, Live
<1>6. HazardInv'
  <2> SUFFICES ASSUME NEW d \in Cpus, NEW m \in Levels, use'[d][m].at = "use",
                      use'[d][m].v # NULL
               PROVE  /\ use'[d][m].v \notin destroyed
                      /\ \A k \in Collectors : Busy(k) /\ loc[k].v = use'[d][m].v =>
                           ~Passed(k, d, use'[d][m].i)
    BY <1>1 DEF HazardInv, Busy, Passed
  <2>1. CASE use'[d][m] = use[d][m]  BY <2>1 DEF IInv, HazardInv
  <2>2. CASE use'[d][m] # use[d][m]
    <3>1. /\ use \in [Cpus -> [Levels -> Uses]]
          /\ \E u : use' = [use EXCEPT ![c][l] = u]
      BY DEF IInv, TypeOK, ReadStep, srp_enter, srp_enter_read, srp_enter_store,
             srp_enter_check, srp_leave, srp_leave_clear, Become
    <3>2. d = c /\ m = l  BY <2>2, <3>1
    <3>3. use[c][l] \in Uses /\ use[c] \in [Levels -> Uses]  BY <3>1
    <3>4. \A u : Become(c, l, u) => u.at = "use"  BY <3>2, <3>3, <3>1 DEF Become
    <3>5. ~srp_enter(c, l)
      <4>1. \A s, i : [NoUse EXCEPT !.at = "read", !.srp = s, !.i = i].at = "read"  BY DEF NoUse
      <4>. QED  BY <3>4, <4>1 DEF srp_enter
    <3>6. ~srp_enter_read(c, l) /\ ~srp_enter_store(c, l) /\ ~srp_leave(c, l)
          /\ ~srp_leave_clear(c, l)
      <4> DEFINE x == use[c][l]
      <4>1. \A i, v : /\ [x EXCEPT !.at = "store", !.v = v].at = "store"
                      /\ [x EXCEPT !.at = "check"].at = "check"
                      /\ [x EXCEPT !.at = "clear", !.i = i, !.v = NULL].at = "clear"
        BY <3>3 DEF Uses
      <4>. QED  BY <3>4, <4>1, NoUseType DEF srp_enter_read, srp_enter_store, srp_leave,
                                             srp_leave_clear
    <3>7. srp_enter_check(c, l)  BY <3>5, <3>6 DEF ReadStep
    <3>8. use'[c][l].v = ref[use[c][l].srp]
      BY <3>1, <3>2, <3>3, <3>7 DEF srp_enter_check, Become, Uses
    <3>9. use[c][l].srp \in Srps  BY <3>7 DEF IInv, ReaderInv, UseInv, srp_enter_check
    <3>. QED  BY SMTT(30), <3>2, <3>8, <3>9 DEF IInv, ValueInv, BusyInv, Replaced
  <2>. QED  BY <2>1, <2>2
<1>. QED  BY <1>2, <1>3, <1>4, <1>5, <1>6 DEF IInv

-----------------------------------------------------------------------------
(* The collectors: srp_v_referenced(), srp_v_dtor(), srp_v_gc(), srp_finalize(). *)

(* Procs and the collection. *)

\* srp_gc_refcount counts a finite set.
LEMMA LiveFinite == IsFiniteSet(Live) /\ Cardinality(Live) \in Nat
<1>1. Live \subseteq Values /\ IsFiniteSet(Values)  BY SrpAssumption DEF Live
<1>. QED  BY <1>1, FS_Subset, FS_CardinalityType

\* Readers see of the others only ref and, in the proof, home.
LEMMA ReaderFrame ==
  ASSUME TypeOK, ReaderInv, UNCHANGED <<hazards, use>>,
         \A v \in Values : home[v] # NULL => home'[v] = home[v]
  PROVE  ReaderInv'
<1>1. sh_p' = sh_p /\ sh_v' = sh_v /\ use' = use  BY DEF hazards
<1>2. \A c \in Cpus, l \in Levels : UseInv(c, l)'
  <2> TAKE c \in Cpus, l \in Levels
  <2> DEFINE u == use[c][l]
  <2>1. UseInv(c, l) /\ u.v \in Values \cup {NULL}  BY SMTT(30) DEF ReaderInv, TypeOK, Uses
  <2>2. u.at \in {"store", "check", "use"} /\ u.v # NULL => home'[u.v] = u.srp
    BY <2>1, SrpAssumption DEF UseInv
  <2>. QED  BY <1>1, <2>1, <2>2 DEF UseInv, Reading
<1>3. \A c \in Cpus, l, m \in Levels : l # m => ApartInv(c, l, m)'
  BY SMTT(30), <1>1 DEF ReaderInv, ApartInv, Reading
<1>. QED  BY SMTT(30), <1>1, <1>2, <1>3 DEF ReaderInv, Reading

\* A use has a hazard record.
LEMMA UseHasSlot ==
  ASSUME IInv, NEW c \in Cpus, NEW l \in Levels, use[c][l].at = "use"
  PROVE  /\ use[c][l].i \in Slots /\ use[c][l].i \in Nat /\ ~(use[c][l].i < 1)
         /\ sh_p[c][use[c][l].i] = use[c][l].srp /\ sh_v[c][use[c][l].i] = use[c][l].v
         /\ use[c][l].v # NULL => home[use[c][l].v] = use[c][l].srp
<1>1. UseInv(c, l) /\ Reading(c, l)  BY DEF IInv, ReaderInv, Reading
<1>2. use[c][l].i \in Slots  BY <1>1 DEF UseInv
<1>3. use[c][l].i \in Nat /\ ~(use[c][l].i < 1)  BY SMTT(30), <1>2, SrpAssumption DEF Slots
<1>. QED  BY <1>1, <1>2, <1>3 DEF UseInv

Active == {"swap", "scan_p", "scan_v", "dtor", "dec"}

\* A step of k that starts and ends without a value in its hands.
LEMMA QuietKeeps ==
  ASSUME IInv, NEW k \in Collectors,
         \A j \in Collectors : j # k => pc'[j] = pc[j] /\ loc'[j] = loc[j],
         pc[k] \notin Active, pc'[k] \notin Active,
         k = softclock => pc'[k] \in {"idle", "wake"},
         UNCHANGED <<ref, hazards, use, home, ticks, destroyed>>
  PROVE  ReaderInv' /\ ValueInv' /\ HazardInv' /\ Live' = Live
<1>1. ReaderInv'  BY ReaderFrame DEF IInv
<1>2. \A j \in Collectors : /\ Busy(j)' <=> Busy(j)
                            /\ (pc'[j] = "swap" <=> pc[j] = "swap")
                            /\ (pc'[j] = "dec" <=> pc[j] = "dec")
                            /\ pc[j] \in Active => loc'[j] = loc[j] /\ pc'[j] = pc[j]
  BY DEF Busy, Active
<1>3. Procs \subseteq Collectors /\ softclock \in Collectors  BY DEF Collectors
<1>4. \A j \in Collectors : /\ pc'[j] = "swap" => loc'[j] = loc[j]
                            /\ pc'[j] = "dec" => loc'[j] = loc[j]
                            /\ Busy(j)' => loc'[j] = loc[j]
  BY <1>2 DEF Active, Busy
<1>5. (\A p \in Procs : SwapInv(p)') /\ \A v : Replaced(v) => Replaced(v)'
  BY <1>2, <1>3, <1>4, SwapsHold, SwapFrame
<1>6. \A j \in Collectors : BusyInv(j)'  BY <1>2, <1>4, <1>5, BusyHold, BusyFrame
<1>7. \A j \in Collectors : DecInv(j)'  BY <1>2, <1>4, DecsHold, DecFrame
<1>8. pc'[softclock] \in {"idle", "scan_p", "scan_v", "dtor", "dec", "wake"}
  BY <1>3 DEF IInv, ValueInv
<1>9. ValueInv'  BY <1>5, <1>6, <1>7, <1>8 DEF IInv, ValueInv
<1>10. HazardInv'
  BY SMTT(30), <1>2 DEF IInv, HazardInv, Passed, Busy, Active
<1>11. Live' = Live  BY <1>2 DEF Live, Active
<1>. QED  BY <1>1, <1>9, <1>10, <1>11

\* The sleep queues keep their type.
LEMMA SleepTypes ==
  ASSUME SleepTypeOK, NEW p \in Procs, UNCHANGED <<p_sintr, p_siglist>>,
         \/ wakeup_one(gc)
         \/ sleep_setup(p, gc) /\ UNCHANGED p_stat
         \/ mi_switch(p, "SSLEEP") /\ UNCHANGED p_wchan
         \/ unsleep(p) /\ sched_lock' = NoProc /\ UNCHANGED p_stat
         \/ UNCHANGED sleepVars
  PROVE  SleepTypeOK'
<1>1. gc \in Idents  BY SrpAssumption
<1>2. CASE wakeup_one(gc)  BY <1>2 DEF SleepTypeOK, wakeup_one, WakeAll
<1>3. CASE sleep_setup(p, gc) /\ UNCHANGED p_stat  BY <1>1, <1>3 DEF SleepTypeOK, sleep_setup
<1>4. CASE mi_switch(p, "SSLEEP") /\ UNCHANGED p_wchan  BY <1>4 DEF SleepTypeOK, mi_switch
<1>5. CASE unsleep(p) /\ sched_lock' = NoProc /\ UNCHANGED p_stat
  BY <1>5 DEF SleepTypeOK, unsleep
<1>6. CASE UNCHANGED sleepVars  BY <1>6 DEF SleepTypeOK, sleepVars
<1>. QED  BY <1>2, <1>3, <1>4, <1>5, <1>6

\* srp_finalize() gives its own count back.
LEMMA FinalizeKeeps ==
  ASSUME IInv, NEW p \in Procs, srp_finalize(p)
  PROVE  IInv'
<1>1. p \in Collectors /\ p # softclock /\ pc[p] = "idle"
  BY SrpAssumption DEF Collectors, srp_finalize
<1>2. \A q \in Procs : pc[q] \notin Finalizing \cup {"swap"}  BY DEF srp_finalize
<1>3. Owned = 1 /\ refcount = 1 + Cardinality(Live)  BY <1>2 DEF Owned, IInv, CountInv
<1>4. refcount' = Cardinality(Live) /\ refcount' \in Nat
  BY SMTT(30), <1>3, LiveFinite DEF srp_finalize
<1> DEFINE label == IF refcount' > 0 THEN "sleep_setup" ELSE "finalized"
           r == [NoLocals EXCEPT !.r = refcount']
<1>5. label \in Labels /\ label \in Finalizing /\ label # "sleep_finish"
  BY DEF Labels, Finalizing
<1>6. r \in Locals  BY <1>4, NoLocalsType
<1>7. Goto(p, label) /\ Set(p, r)  BY DEF srp_finalize
<1>8. label = "finalized" => refcount' = 0  BY SMTT(30), <1>4
<1> HIDE DEF label, r
<1>9. /\ pc' \in [Collectors -> Labels] /\ pc'[p] = label
      /\ \A j \in Collectors : j # p => pc'[j] = pc[j]
  BY <1>1, <1>5, <1>7, GotoUpdates DEF IInv
<1>10. /\ loc' \in [Collectors -> Locals]
       /\ \A j \in Collectors : j # p => loc'[j] = loc[j]
  BY <1>1, <1>6, <1>7, SetUpdates DEF IInv
<1>11. TypeOK'
  BY <1>4, <1>9, <1>10 DEF srp_finalize, IInv, TypeOK, SleepTypeOK, hazards, sleepVars
<1>12. pc[p] \notin Active /\ pc'[p] \notin Active  BY <1>1, <1>5, <1>9 DEF Active, Finalizing
<1>13. ReaderInv' /\ ValueInv' /\ HazardInv' /\ Live' = Live
  BY <1>1, <1>9, <1>10, <1>12, QuietKeeps DEF srp_finalize
<1>14. CountInv'
  <2>1. Owned' = 0  BY <1>5, <1>9 DEF Owned
  <2>2. refcount' = Owned' + Cardinality(Live')  BY SMTT(30), <1>4, <1>13, <2>1, LiveFinite
  <2>3. \A q \in Procs : q # p => pc'[q] \notin Finalizing \cup {"swap"}
    BY <1>2, <1>9 DEF Collectors
  <2>4. \A q \in Procs : pc'[q] = "finalized" \/ (pc'[q] = "sleep_finish" /\ loc'[q].r = 0) =>
          refcount' = 0
    BY <2>3, <1>5, <1>8, <1>9 DEF Finalizing
  <2>. QED  BY <2>2, <2>3, <2>4, <1>5, <1>9 DEF CountInv, Finalizing
<1>. QED  BY <1>11, <1>13, <1>14 DEF IInv

\* It returns only when it read a count of zero, and then nothing is left.
LEMMA FinalizeStepKeeps ==
  ASSUME IInv, NEW p \in Procs, FinalizeStep(p)
  PROVE  IInv'
<1>1. p \in Collectors /\ p # softclock  BY SrpAssumption DEF Collectors
<1>2. /\ pc[p] \in Finalizing /\ pc[p] # "finalized" /\ refcount' = refcount
      /\ UNCHANGED <<ref, hazards, use, home, ticks, destroyed, p_sintr, p_siglist>>
  BY DEF FinalizeStep, srp_finalize_setup, srp_finalize_recheck, srp_finalize_sleep,
         srp_finalize_resumed, Finalizing, sleepVars
<1>3. PICK label \in Finalizing : Goto(p, label)
  BY DEF FinalizeStep, srp_finalize_setup, srp_finalize_recheck, srp_finalize_sleep,
         srp_finalize_resumed, Finalizing
<1>4. label \in Labels /\ label \notin Active  BY <1>3 DEF Labels, Active, Finalizing
<1>5. /\ pc' \in [Collectors -> Labels] /\ pc'[p] = label
      /\ \A j \in Collectors : j # p => pc'[j] = pc[j]
  BY <1>1, <1>3, <1>4, GotoUpdates DEF IInv
<1>6. /\ loc' \in [Collectors -> Locals]
      /\ \A j \in Collectors : j # p => loc'[j] = loc[j]
      /\ label = "finalized" \/ (label = "sleep_finish" /\ loc'[p].r = 0) => refcount = 0
  <2>1. CASE srp_finalize_recheck(p)
    <3> DEFINE r == [loc[p] EXCEPT !.r = refcount]
    <3>1. r \in Locals /\ r.r = refcount  BY <1>1 DEF IInv, TypeOK, Locals
    <3>2. Set(p, r) /\ Goto(p, "sleep_finish")  BY <2>1 DEF srp_finalize_recheck
    <3> HIDE DEF r
    <3>3. /\ loc' \in [Collectors -> Locals] /\ loc'[p] = r
          /\ \A j \in Collectors : j # p => loc'[j] = loc[j]
      BY <1>1, <3>1, <3>2, SetUpdates DEF IInv
    <3>4. label = "sleep_finish"  BY <3>2, <1>1, <1>5 DEF Goto, IInv, TypeOK
    <3>. QED  BY <3>1, <3>3, <3>4
  <2>2. CASE srp_finalize_sleep(p)
    <3>1. loc' = loc /\ pc[p] = "sleep_finish"  BY <2>2 DEF srp_finalize_sleep
    <3>2. pc'[p] = "asleep" \/ (pc'[p] = "finalized" /\ loc[p].r = 0)
      BY <2>2, <1>1 DEF srp_finalize_sleep, Goto, IInv, TypeOK
    <3>. QED  BY <3>1, <3>2, <1>5 DEF IInv, TypeOK, CountInv
  <2>3. CASE srp_finalize_setup(p) \/ srp_finalize_resumed(p)
    <3>1. loc' = loc  BY <2>3 DEF srp_finalize_setup, srp_finalize_resumed
    <3>2. pc'[p] \in {"recheck", "sleep_setup"}
      BY <2>3, <1>1 DEF srp_finalize_setup, srp_finalize_resumed, Goto, IInv, TypeOK
    <3>. QED  BY <3>1, <3>2, <1>5 DEF IInv, TypeOK
  <2>. QED  BY <2>1, <2>2, <2>3 DEF FinalizeStep
<1>7. SleepTypeOK'
  <2>1. SleepTypeOK  BY DEF IInv, TypeOK
  <2>. QED  BY <2>1, <1>2, SleepTypes
            DEF FinalizeStep, srp_finalize_setup, srp_finalize_recheck, srp_finalize_sleep,
                srp_finalize_resumed
<1>8. TypeOK'  BY <1>2, <1>5, <1>6, <1>7 DEF IInv, TypeOK, hazards
<1>9. pc[p] \notin Active  BY <1>2 DEF Active, Finalizing
<1>10. ReaderInv' /\ ValueInv' /\ HazardInv' /\ Live' = Live
  BY <1>1, <1>2, <1>4, <1>5, <1>6, <1>9, QuietKeeps
<1>11. CountInv'
  <2>1. \A q \in Procs : pc'[q] \in Finalizing <=> pc[q] \in Finalizing
    BY <1>2, <1>3, <1>5 DEF Collectors
  <2>2. Owned' = Owned  BY <2>1 DEF Owned
  <2>3. \A q \in Procs : pc'[q] = "swap" => pc[q] = "swap"
    BY <1>4, <1>5 DEF Collectors, Active
  <2>4. \A q \in Procs : pc'[q] = "finalized" \/ (pc'[q] = "sleep_finish" /\ loc'[q].r = 0) =>
          refcount = 0
    BY <1>5, <1>6 DEF Collectors, IInv, CountInv
  <2>. QED  BY <1>2, <1>10, <2>1, <2>2, <2>3, <2>4 DEF IInv, CountInv
<1>. QED  BY <1>8, <1>10, <1>11 DEF IInv

\* A step of a scan.
LEMMA StayBusy ==
  ASSUME IInv, NEW k \in Collectors, Busy(k), Busy(k)',
         pc' \in [Collectors -> Labels], loc' \in [Collectors -> Locals],
         \A j \in Collectors : j # k => pc'[j] = pc[j] /\ loc'[j] = loc[j],
         loc'[k].v = loc[k].v, loc'[k].srp = loc[k].srp,
         UNCHANGED <<ref, hazards, use, refcount, home, ticks, destroyed, sleepVars>>,
         \A c \in Cpus, l \in Levels :
           /\ use[c][l].at = "use" /\ use[c][l].v = loc[k].v
           /\ Passed(k, c, use[c][l].i)'
           => Passed(k, c, use[c][l].i)
  PROVE  IInv'
<1>1. ReaderInv'  BY ReaderFrame DEF IInv
<1>2. TypeOK'  BY DEF IInv, TypeOK, SleepTypeOK, sleepVars, hazards
<1>3. \A j \in Collectors : /\ Busy(j)' <=> Busy(j)
                            /\ (pc'[j] = "swap" <=> pc[j] = "swap")
                            /\ (pc'[j] = "dec" <=> pc[j] = "dec")
                            /\ loc'[j].v = loc[j].v /\ loc'[j].srp = loc[j].srp
                            /\ pc'[j] = "swap" => loc'[j] = loc[j]
  BY DEF Busy
<1>4. Procs \subseteq Collectors /\ softclock \in Collectors  BY DEF Collectors
<1>6. (\A p \in Procs : SwapInv(p)') /\ \A v : Replaced(v) => Replaced(v)'
  BY <1>3, <1>4, SwapsHold, SwapFrame
<1>7. \A j \in Collectors : BusyInv(j)'  BY <1>3, <1>6, BusyHold, BusyFrame
<1>8. \A j \in Collectors : DecInv(j)'  BY <1>3, DecsHold, DecFrame
<1>9. pc'[softclock] \in {"idle", "scan_p", "scan_v", "dtor", "dec", "wake"}
  BY <1>4 DEF IInv, ValueInv, Busy
<1>10. ValueInv'  BY <1>6, <1>7, <1>8, <1>9 DEF IInv, ValueInv
<1>11. HazardInv'
  <2> SUFFICES ASSUME NEW c \in Cpus, NEW l \in Levels, use[c][l].at = "use",
                      use[c][l].v # NULL, NEW j \in Collectors, Busy(j),
                      loc[j].v = use[c][l].v
               PROVE  ~Passed(j, c, use[c][l].i)'
    BY SMTT(30), <1>3 DEF IInv, HazardInv
  <2>1. ~Passed(j, c, use[c][l].i)  BY DEF IInv, HazardInv
  <2>2. CASE j = k  BY <2>1, <2>2
  <2>3. CASE j # k  BY <2>1, <2>3 DEF Passed
  <2>. QED  BY <2>2, <2>3
<1>12. CountInv'
  <2>1. Live' = Live  BY SMTT(30), <1>3 DEF Live
  <2>2. \A q \in Procs : /\ pc'[q] \in Finalizing <=> pc[q] \in Finalizing
                         /\ pc[q] \in Finalizing => pc'[q] = pc[q] /\ loc'[q] = loc[q]
    BY <1>4 DEF Busy, Finalizing
  <2>3. Owned' = Owned  BY <2>2 DEF Owned
  <2>4. \A q \in Procs : pc'[q] = "finalized" \/ (pc'[q] = "sleep_finish" /\ loc'[q].r = 0) =>
          refcount = 0
    BY <2>2 DEF IInv, CountInv, Finalizing
  <2>. QED  BY <2>1, <2>2, <2>3, <2>4, <1>3, <1>4 DEF IInv, CountInv
<1>. QED  BY <1>1, <1>2, <1>10, <1>11, <1>12 DEF IInv

\* Going to the next record passes the one that was looked at, and no other.
LEMMA NextRecordPasses ==
  ASSUME TypeOK, NEW k \in Collectors, Busy(k), NextRecord(k)
  PROVE  /\ Busy(k)' /\ pc' \in [Collectors -> Labels] /\ loc' \in [Collectors -> Locals]
         /\ \A j \in Collectors : j # k => pc'[j] = pc[j] /\ loc'[j] = loc[j]
         /\ loc'[k].v = loc[k].v /\ loc'[k].srp = loc[k].srp
         /\ \A c \in Cpus, i \in Slots : Passed(k, c, i)' =>
              Passed(k, c, i) \/ (c = loc[k].c /\ i = loc[k].i)
<1> DEFINE x == loc[k]
<1>1. x \in Locals /\ x.c \in Cpus /\ x.i \in Slots  BY DEF TypeOK, Locals
<1>2. /\ ncpu \in Nat /\ SRP_HAZARD_NUM \in Nat
      /\ \A c : c \in Cpus <=> c \in Nat /\ 1 <= c /\ c <= ncpu
      /\ \A i : i \in Slots <=> i \in Nat /\ 1 <= i /\ i <= SRP_HAZARD_NUM
  BY SMTT(30), SrpAssumption DEF Cpus, Slots
<1>3. {"scan_p", "dtor"} \subseteq Labels  BY DEF Labels
<1>4. CASE x.i < SRP_HAZARD_NUM
  <2> DEFINE r == [x EXCEPT !.i = x.i + 1]
  <2>1. x.i + 1 \in Slots  BY SMTT(30), <1>1, <1>2, <1>4
  <2>2. /\ r \in Locals /\ r.v = x.v /\ r.srp = x.srp /\ r.c = x.c /\ r.i = x.i + 1
    BY <1>1, <2>1 DEF Locals
  <2>3. Goto(k, "scan_p") /\ Set(k, r)  BY <1>4 DEF NextRecord
  <2> HIDE DEF r
  <2>4. /\ pc' \in [Collectors -> Labels] /\ pc'[k] = "scan_p"
        /\ loc' \in [Collectors -> Locals] /\ loc'[k] = r
        /\ \A j \in Collectors : j # k => pc'[j] = pc[j] /\ loc'[j] = loc[j]
    BY <1>3, <2>2, <2>3, GotoUpdates, SetUpdates
  <2>. QED  BY SMTT(30), <1>1, <1>2, <2>2, <2>4 DEF Busy, Passed
<1>5. CASE ~(x.i < SRP_HAZARD_NUM) /\ x.c < ncpu
  <2> DEFINE r == [x EXCEPT !.c = x.c + 1, !.i = 1]
  <2>1. x.c + 1 \in Cpus /\ 1 \in Slots  BY SMTT(30), <1>1, <1>2, <1>5
  <2>2. /\ r \in Locals /\ r.v = x.v /\ r.srp = x.srp /\ r.c = x.c + 1 /\ r.i = 1
    BY <1>1, <2>1 DEF Locals
  <2>3. Goto(k, "scan_p") /\ Set(k, r)  BY <1>5 DEF NextRecord
  <2> HIDE DEF r
  <2>4. /\ pc' \in [Collectors -> Labels] /\ pc'[k] = "scan_p"
        /\ loc' \in [Collectors -> Locals] /\ loc'[k] = r
        /\ \A j \in Collectors : j # k => pc'[j] = pc[j] /\ loc'[j] = loc[j]
    BY <1>3, <2>2, <2>3, GotoUpdates, SetUpdates
  <2>. QED  BY SMTT(30), <1>1, <1>2, <1>5, <2>2, <2>4 DEF Busy, Passed
<1>6. CASE ~(x.i < SRP_HAZARD_NUM) /\ ~(x.c < ncpu)
  <2>1. Goto(k, "dtor") /\ loc' = loc  BY <1>6 DEF NextRecord
  <2>2. /\ pc' \in [Collectors -> Labels] /\ pc'[k] = "dtor"
        /\ \A j \in Collectors : j # k => pc'[j] = pc[j]
    BY <1>3, <2>1, GotoUpdates
  <2>3. \A c \in Cpus, i \in Slots : c < x.c \/ (c = x.c /\ i < x.i) \/ (c = x.c /\ i = x.i)
    BY SMTT(30), <1>1, <1>2, <1>6
  <2>4. \A c \in Cpus, i \in Slots : Passed(k, c, i) \/ (c = loc[k].c /\ i = loc[k].i)
    BY <2>3 DEF Passed
  <2>. QED  BY <2>1, <2>2, <2>4 DEF Busy, TypeOK
<1>. QED  BY <1>4, <1>5, <1>6

\* A record of another pointer is no use of the value.
LEMMA ScanPKeeps ==
  ASSUME IInv, NEW k \in Collectors, srp_v_referenced_p(k)
  PROVE  IInv'
<1>1. /\ Busy(k) /\ pc[k] = "scan_p"
      /\ UNCHANGED <<ref, hazards, use, refcount, home, ticks, destroyed, sleepVars>>
  BY DEF srp_v_referenced_p, Busy
<1>2. CASE sh_p[loc[k].c][loc[k].i] # loc[k].srp
  <2>1. NextRecord(k)  BY <1>2 DEF srp_v_referenced_p
  <2>2. \A c \in Cpus, l \in Levels :
          use[c][l].at = "use" /\ use[c][l].v = loc[k].v =>
            use[c][l].i \in Slots /\ ~(c = loc[k].c /\ use[c][l].i = loc[k].i)
    <3>1. loc[k].v # NULL /\ home[loc[k].v] = loc[k].srp
      BY <1>1, BusyHold, SrpAssumption DEF BusyInv
    <3>. QED  BY SMTT(30), <1>2, <3>1, UseHasSlot
  <2>. QED  BY <1>1, <2>1, <2>2, NextRecordPasses, StayBusy DEF IInv
<1>3. CASE sh_p[loc[k].c][loc[k].i] = loc[k].srp
  <2>1. Goto(k, "scan_v") /\ loc' = loc  BY <1>3 DEF srp_v_referenced_p
  <2>2. /\ pc' \in [Collectors -> Labels] /\ pc'[k] = "scan_v"
        /\ \A j \in Collectors : j # k => pc'[j] = pc[j]
    BY <2>1, GotoUpdates DEF Labels, IInv
  <2>. QED  BY <1>1, <2>1, <2>2, StayBusy DEF IInv, TypeOK, Busy, Passed
<1>. QED  BY <1>2, <1>3

\* A record with another value is no use of this one; a record with the value
\* sends it to the timeout.
LEMMA ScanVKeeps ==
  ASSUME IInv, NEW k \in Collectors, srp_v_referenced_v(k)
  PROVE  IInv'
<1>1. /\ Busy(k) /\ pc[k] = "scan_v"
      /\ UNCHANGED <<ref, hazards, use, refcount, home, destroyed, sleepVars>>
  BY DEF srp_v_referenced_v, Busy
<1>2. CASE sh_v[loc[k].c][loc[k].i] # loc[k].v
  <2>1. NextRecord(k) /\ ticks' = ticks  BY <1>2 DEF srp_v_referenced_v
  <2>2. \A c \in Cpus, l \in Levels :
          use[c][l].at = "use" /\ use[c][l].v = loc[k].v =>
            use[c][l].i \in Slots /\ ~(c = loc[k].c /\ use[c][l].i = loc[k].i)
    BY <1>2, UseHasSlot
  <2>. QED  BY <1>1, <2>1, <2>2, NextRecordPasses, StayBusy DEF IInv
<1>3. CASE sh_v[loc[k].c][loc[k].i] = loc[k].v
  <2> DEFINE x == [srp |-> loc[k].srp, v |-> loc[k].v]
  <2>1. ticks' = ticks \cup {x} /\ Goto(k, "idle") /\ Set(k, NoLocals)
    BY <1>3 DEF srp_v_referenced_v
  <2>2. /\ pc' \in [Collectors -> Labels] /\ pc'[k] = "idle"
        /\ loc' \in [Collectors -> Locals]
        /\ \A j \in Collectors : j # k => pc'[j] = pc[j] /\ loc'[j] = loc[j]
    BY ZenonT(30), <2>1, NoLocalsType, GotoUpdates, SetUpdates DEF Labels, IInv
  <2>3. BusyInv(k)  BY DEF IInv, ValueInv
  <2>4. x \in [srp : Srps, v : Values] /\ x.v = loc[k].v /\ x.srp = loc[k].srp
    BY <1>1, <2>3 DEF BusyInv
  <2> HIDE DEF x
  <2>5. TypeOK'
    BY <1>1, <2>1, <2>2, <2>4 DEF IInv, TypeOK, SleepTypeOK, sleepVars, hazards
  <2>6. ReaderInv'  BY <1>1, ReaderFrame DEF IInv
  <2>7. Procs \subseteq Collectors /\ softclock \in Collectors  BY DEF Collectors
  <2>8. \A j \in Collectors : /\ Busy(j)' <=> Busy(j) /\ j # k
                              /\ (pc'[j] = "swap" <=> pc[j] = "swap")
                              /\ (pc'[j] = "dec" <=> pc[j] = "dec")
                              /\ j # k => loc'[j] = loc[j]
    BY <1>1, <2>2 DEF Busy
  <2>9. \A j \in Collectors : pc'[j] \in {"swap", "dec"} \/ Busy(j)' => loc'[j] = loc[j]
    BY <1>1, <2>2, <2>8
  <2>10. (\A p \in Procs : SwapInv(p)') /\ \A v : Replaced(v) => Replaced(v)'
    BY <1>1, <2>7, <2>8, <2>9, SwapsHold, SwapFrame
  <2>11. \A j \in Collectors : BusyInv(j)'
    <3> TAKE j \in Collectors
    <3>1. CASE j = k  BY <3>1, <2>8 DEF BusyInv
    <3>2. CASE j # k
      <4>1. BusyInv(j)  BY BusyHold
      <4>2. Busy(j) => \A y \in ticks' : y \in ticks \/ y.v # loc[j].v
        BY <3>2, <4>1, <1>1, <2>1, <2>4 DEF BusyInv
      <4>. QED  BY <4>1, <4>2, <1>1, <2>8, <2>9, <2>10, BusyFrame
    <3>. QED  BY <3>1, <3>2
  <2>12. \A j \in Collectors : DecInv(j)'  BY <1>1, <2>8, <2>9, DecsHold, DecFrame
  <2>13. \A y \in ticks' : home[y.v] = y.srp /\ Replaced(y.v)' /\ y.v \notin destroyed
    BY <1>1, <2>1, <2>3, <2>4, <2>10 DEF IInv, ValueInv, BusyInv
  <2>14. pc'[softclock] \in {"idle", "scan_p", "scan_v", "dtor", "dec", "wake"}
    BY <2>2, <2>7 DEF IInv, ValueInv
  <2>15. ValueInv'
    BY <1>1, <2>10, <2>11, <2>12, <2>13, <2>14 DEF IInv, ValueInv
  <2>16. HazardInv'  BY SMTT(30), <1>1, <2>2, <2>8 DEF IInv, HazardInv, Passed
  <2>17. Live' = Live  BY <1>1, <2>2, <2>8 DEF Live
  <2>18. \A q \in Procs : /\ pc'[q] \in Finalizing <=> pc[q] \in Finalizing
                          /\ pc[q] \in Finalizing => pc'[q] = pc[q] /\ loc'[q] = loc[q]
    BY <1>1, <2>2, <2>7 DEF Finalizing
  <2>19. CountInv'
    <3>1. Owned' = Owned  BY <2>18 DEF Owned
    <3>2. \A q \in Procs : pc'[q] = "finalized" \/ (pc'[q] = "sleep_finish" /\ loc'[q].r = 0) =>
            refcount = 0
      BY <2>18 DEF IInv, CountInv, Finalizing
    <3>. QED  BY <1>1, <2>7, <2>8, <2>17, <2>18, <3>1, <3>2 DEF IInv, CountInv
  <2>. QED  BY <2>5, <2>6, <2>15, <2>16, <2>19 DEF IInv
<1>. QED  BY <1>2, <1>3

\* A step that neither counts nor belongs to srp_finalize().
LEMMA CountFrame ==
  ASSUME CountInv, refcount' = refcount, Live' = Live,
         \A q \in Procs : /\ pc'[q] \in Finalizing <=> pc[q] \in Finalizing
                          /\ pc[q] \in Finalizing => pc'[q] = pc[q] /\ loc'[q] = loc[q]
                          /\ pc'[q] = "swap" => pc[q] = "swap"
  PROVE  CountInv'
<1>1. Owned' = Owned  BY DEF Owned
<1>2. \A q \in Procs : pc'[q] = "finalized" \/ (pc'[q] = "sleep_finish" /\ loc'[q].r = 0) =>
        refcount = 0
  BY DEF CountInv, Finalizing
<1>. QED  BY <1>1, <1>2 DEF CountInv

\* The timeout takes a value over.
LEMMA GcKeeps ==
  ASSUME IInv, srp_v_gc
  PROVE  IInv'
<1> DEFINE k == softclock
<1>1. PICK x \in ticks : ticks' = ticks \ {x} /\ Scan(k, x.srp, x.v)  BY DEF srp_v_gc
<1>2. /\ pc[k] = "idle" /\ k \in Collectors /\ k \notin Procs /\ Procs \subseteq Collectors
      /\ UNCHANGED <<ref, hazards, use, refcount, home, destroyed, sleepVars>>
  BY SrpAssumption DEF srp_v_gc, Collectors
<1>3. x.srp \in Srps /\ x.v \in Values  BY <1>1 DEF IInv, TypeOK
<1> DEFINE r == [NoLocals EXCEPT !.srp = x.srp, !.v = x.v]
<1>4. r \in Locals  BY <1>3, NoLocalsType DEF Locals
<1>5. r.srp = x.srp /\ r.v = x.v /\ r.c = 1 /\ r.i = 1  BY DEF NoLocals
<1>6. Goto(k, "scan_p") /\ Set(k, r)  BY <1>1 DEF Scan
<1> HIDE DEF r, k
<1>7. /\ pc' \in [Collectors -> Labels] /\ pc'[k] = "scan_p"
      /\ loc' \in [Collectors -> Locals] /\ loc'[k] = r
      /\ \A j \in Collectors : j # k => pc'[j] = pc[j] /\ loc'[j] = loc[j]
  BY SMTT(30), <1>2, <1>4, <1>6, GotoUpdates, SetUpdates DEF Labels, IInv
<1>8. TypeOK'  BY <1>1, <1>2, <1>7 DEF IInv, TypeOK, SleepTypeOK, sleepVars, hazards
<1>9. ReaderInv'  BY <1>2, ReaderFrame DEF IInv
<1>10. \A j \in Collectors : /\ Busy(j)' <=> Busy(j) \/ j = k
                             /\ (pc'[j] = "swap" <=> pc[j] = "swap")
                             /\ (pc'[j] = "dec" <=> pc[j] = "dec")
  BY <1>2, <1>7 DEF Busy
<1>11. ~Busy(k)  BY <1>2 DEF Busy
<1>12. \A j \in Collectors : pc'[j] \in {"swap", "dec"} => loc'[j] = loc[j]  BY <1>7
<1>13. (\A p \in Procs : SwapInv(p)') /\ \A v : Replaced(v) => Replaced(v)'
  BY <1>2, <1>10, <1>12, SwapsHold, SwapFrame
<1>14. \A y \in ticks' : y \in ticks /\ y.v # x.v
  <2> TAKE y \in ticks'
  <2>1. y \in ticks /\ y # x  BY <1>1
  <2>2. x \in [srp : Srps, v : Values] /\ y \in [srp : Srps, v : Values]
    BY <2>1 DEF IInv, TypeOK
  <2>3. home[y.v] = y.srp /\ home[x.v] = x.srp  BY <2>1 DEF IInv, ValueInv
  <2>. QED  BY SMTT(30), <2>1, <2>2, <2>3
<1>15. \A j \in Collectors : BusyInv(j)'
  <2> TAKE j \in Collectors
  <2>1. CASE j = k
    <3>1. /\ home[x.v] = x.srp /\ Replaced(x.v)' /\ x.v \notin destroyed
          /\ \A n \in Collectors : Busy(n) => loc[n].v # x.v
      BY <1>13 DEF IInv, ValueInv, BusyInv
    <3>. QED  BY <2>1, <3>1, <1>2, <1>3, <1>5, <1>7, <1>10, <1>14 DEF BusyInv
  <2>2. CASE j # k
    <3>1. BusyInv(j)  BY DEF IInv, ValueInv
    <3>. QED  BY SMTT(30), <2>2, <3>1, <1>1, <1>2, <1>5, <1>7, <1>10, <1>13 DEF BusyInv
  <2>. QED  BY <2>1, <2>2
<1>16. \A j \in Collectors : DecInv(j)'  BY <1>2, <1>10, <1>12, DecsHold, DecFrame
<1>17. \A y \in ticks' : home[y.v] = y.srp /\ Replaced(y.v)' /\ y.v \notin destroyed
  BY <1>13, <1>14 DEF IInv, ValueInv
<1>18. ValueInv'
  BY <1>2, <1>7, <1>13, <1>15, <1>16, <1>17 DEF IInv, ValueInv, k
<1>19. HazardInv'
  <2> SUFFICES ASSUME NEW c \in Cpus, NEW l \in Levels, use[c][l].at = "use",
                      use[c][l].v # NULL, NEW j \in Collectors, Busy(j)',
                      loc'[j].v = use[c][l].v
               PROVE  ~Passed(j, c, use[c][l].i)'
    BY <1>2 DEF IInv, HazardInv
  <2>1. CASE j = k
    <3>1. c \in Nat /\ ~(c < 1)  BY SMTT(30), SrpAssumption DEF Cpus
    <3>2. use[c][l].i \in Nat /\ ~(use[c][l].i < 1)  BY UseHasSlot
    <3>. QED  BY <2>1, <3>1, <3>2, <1>2, <1>5, <1>7 DEF Passed
  <2>2. CASE j # k  BY <2>2, <1>2, <1>7, <1>10 DEF IInv, HazardInv, Passed
  <2>. QED  BY <2>1, <2>2
<1>20. Live' = Live  BY <1>2, <1>7, <1>10 DEF Live
<1>21. CountInv'  BY <1>2, <1>7, <1>20, CountFrame DEF IInv
<1>. QED  BY <1>8, <1>9, <1>18, <1>19, <1>21 DEF IInv

\* A value is destroyed when every record was passed, so that nobody uses it.
LEMMA DtorKeeps ==
  ASSUME IInv, NEW k \in Collectors, srp_v_dtor(k)
  PROVE  IInv'
<1> DEFINE v == loc[k].v
<1>1. /\ pc[k] = "dtor" /\ destroyed' = destroyed \cup {v} /\ Goto(k, "dec")
      /\ UNCHANGED <<ref, hazards, use, refcount, loc, home, ticks, sleepVars>>
  BY DEF srp_v_dtor
<1>2. Busy(k) /\ BusyInv(k)  BY <1>1 DEF IInv, ValueInv, Busy
<1>3. v \in Values /\ home[v] \in Srps /\ Replaced(v) /\ v \notin destroyed  BY <1>2 DEF BusyInv
<1>4. /\ pc' \in [Collectors -> Labels] /\ pc'[k] = "dec"
      /\ \A j \in Collectors : j # k => pc'[j] = pc[j]
  BY <1>1, GotoUpdates DEF Labels, IInv
<1>5. Procs \subseteq Collectors /\ softclock \in Collectors  BY DEF Collectors
<1>6. TypeOK'  BY <1>1, <1>3, <1>4 DEF IInv, TypeOK, SleepTypeOK, sleepVars, hazards
<1>7. ReaderInv'  BY <1>1, ReaderFrame DEF IInv
<1>8. \A j \in Collectors : /\ Busy(j)' <=> Busy(j) /\ j # k
                            /\ (pc'[j] = "swap" <=> pc[j] = "swap")
                            /\ (pc'[j] = "dec" <=> pc[j] = "dec" \/ j = k)
  BY <1>1, <1>4 DEF Busy
<1>9. \A w : Replaced(w) => Replaced(w)'  BY <1>1, <1>5, <1>8 DEF Replaced
<1>10. \A s \in Srps : ref[s] # NULL => home[ref[s]] = s /\ ref[s] \notin destroyed'
  BY <1>1, <1>3 DEF IInv, ValueInv, Replaced
<1>11. \A p \in Procs : SwapInv(p)'
  BY SMTT(30), <1>1, <1>3, <1>5, <1>8 DEF IInv, ValueInv, SwapInv, Replaced
<1>12. \A j \in Collectors : BusyInv(j)'
  BY <1>1, <1>2, <1>8, <1>9 DEF IInv, ValueInv, BusyInv
<1>13. \A j \in Collectors : DecInv(j)'
  BY SMTT(30), <1>1, <1>3, <1>8, DecsHold DEF DecInv
<1>14. \A x \in ticks : home[x.v] = x.srp /\ Replaced(x.v)' /\ x.v \notin destroyed'
  BY <1>1, <1>2, <1>9 DEF IInv, ValueInv, BusyInv
<1>15. \A w \in destroyed' : home[w] # NULL  BY <1>1, <1>3, SrpAssumption DEF IInv, ValueInv
<1>16. pc'[softclock] \in {"idle", "scan_p", "scan_v", "dtor", "dec", "wake"}
  BY <1>4, <1>5 DEF IInv, ValueInv
<1>17. ValueInv'
  BY <1>1, <1>10, <1>11, <1>12, <1>13, <1>14, <1>15, <1>16 DEF ValueInv
<1>18. HazardInv'
  <2>1. \A c \in Cpus, l \in Levels :
          use[c][l].at = "use" /\ use[c][l].v # NULL => use[c][l].v # v
    BY <1>1, <1>2 DEF IInv, HazardInv, Passed
  <2>. QED  BY <1>1, <1>4, <1>8, <2>1 DEF IInv, HazardInv, Passed
<1>19. Live' = Live  BY <1>1, <1>3, <1>8 DEF Live
<1>20. CountInv'  BY <1>1, <1>4, <1>5, <1>19, CountFrame DEF IInv, Finalizing
<1>. QED  BY <1>6, <1>7, <1>17, <1>18, <1>20 DEF IInv

\* A destroyed value is no longer counted.
LEMMA DecKeeps ==
  ASSUME IInv, NEW k \in Collectors, srp_v_dtor_dec(k)
  PROVE  IInv'
<1> DEFINE v == loc[k].v
<1>1. /\ pc[k] = "dec" /\ refcount' = refcount - 1
      /\ UNCHANGED <<ref, hazards, use, home, ticks, destroyed, sleepVars>>
  BY DEF srp_v_dtor_dec
<1>2. v \in destroyed /\ v \in Values /\ home[v] # NULL
  BY <1>1 DEF IInv, TypeOK, ValueInv, DecInv
<1>3. PICK label \in {"wake", "idle"} :
        Goto(k, label) /\ \E r \in {loc[k], NoLocals} : Set(k, r)
  <2>1. loc' = loc => Set(k, loc[k])  BY DEF Set, IInv, TypeOK
  <2>. QED  BY <2>1 DEF srp_v_dtor_dec
<1>4. /\ pc' \in [Collectors -> Labels] /\ pc'[k] = label /\ loc' \in [Collectors -> Locals]
      /\ \A j \in Collectors : j # k => pc'[j] = pc[j] /\ loc'[j] = loc[j]
  <2>1. loc[k] \in Locals  BY DEF IInv, TypeOK
  <2>. QED  BY ZenonT(30), <1>3, <2>1, NoLocalsType, GotoUpdates, SetUpdates DEF Labels, IInv
<1>5. Procs \subseteq Collectors /\ softclock \in Collectors  BY DEF Collectors
<1>6. v \in Live /\ Live' = Live \ {v}
  <2>1. v \in Live  BY <1>1, <1>2 DEF Live
  <2>2. ASSUME NEW w \in Values PROVE w \in Live' <=> w \in Live /\ w # v
    <3>1. (\E j \in Collectors : pc'[j] = "dec" /\ loc'[j].v = w) <=>
            w # v /\ \E j \in Collectors : pc[j] = "dec" /\ loc[j].v = w
      BY <1>1, <1>3, <1>4, DecsHold DEF DecInv
    <3>. QED  BY <3>1, <1>1, <1>2 DEF Live
  <2>. QED  BY <2>1, <2>2 DEF Live
<1>7. /\ Cardinality(Live') = Cardinality(Live) - 1 /\ Cardinality(Live') \in Nat
      /\ Cardinality(Live) \in Nat
  BY <1>6, LiveFinite, FS_RemoveElement, FS_CardinalityType
<1>8. refcount = Owned + Cardinality(Live) /\ Owned \in {0, 1}
  BY DEF IInv, CountInv, Owned
<1>9. refcount' \in Nat  BY SMTT(30), <1>1, <1>7, <1>8
<1>10. TypeOK'  BY <1>1, <1>4, <1>9 DEF IInv, TypeOK, SleepTypeOK, sleepVars, hazards
<1>11. ReaderInv'  BY <1>1, ReaderFrame DEF IInv
<1>12. \A j \in Collectors : /\ Busy(j)' <=> Busy(j)
                             /\ (pc'[j] = "swap" <=> pc[j] = "swap")
                             /\ (pc'[j] = "dec" <=> pc[j] = "dec" /\ j # k)
                             /\ Busy(j) => j # k
  BY <1>1, <1>3, <1>4 DEF Busy
<1>13. \A j \in Collectors : pc'[j] \in {"swap", "dec"} \/ Busy(j)' => loc'[j] = loc[j]
  BY <1>1, <1>4, <1>12
<1>14. (\A p \in Procs : SwapInv(p)') /\ \A w : Replaced(w) => Replaced(w)'
  BY <1>1, <1>5, <1>12, <1>13, SwapsHold, SwapFrame
<1>15. \A j \in Collectors : BusyInv(j)'  BY <1>1, <1>12, <1>13, <1>14, BusyHold, BusyFrame
<1>16. \A j \in Collectors : DecInv(j)'  BY <1>1, <1>12, <1>13, DecsHold, DecFrame
<1>17. pc'[softclock] \in {"idle", "scan_p", "scan_v", "dtor", "dec", "wake"}
  BY <1>3, <1>4, <1>5 DEF IInv, ValueInv
<1>18. ValueInv'
  BY <1>1, <1>14, <1>15, <1>16, <1>17 DEF IInv, ValueInv
<1>19. HazardInv'  BY SMTT(30), <1>1, <1>4, <1>12 DEF IInv, HazardInv, Passed
<1>20. CountInv'
  <2>1. \A q \in Procs : /\ pc'[q] \in Finalizing <=> pc[q] \in Finalizing
                         /\ pc[q] \in Finalizing => pc'[q] = pc[q] /\ loc'[q] = loc[q]
    BY <1>1, <1>3, <1>4, <1>5 DEF Finalizing
  <2>2. Owned' = Owned  BY <2>1 DEF Owned
  <2>3. refcount' = Owned' + Cardinality(Live')  BY SMTT(30), <2>2, <1>1, <1>7, <1>8
  <2>4. refcount # 0  BY SMTT(30), <1>7, <1>8
  <2>5. \A q \in Procs : ~(pc'[q] = "finalized" \/ (pc'[q] = "sleep_finish" /\ loc'[q].r = 0))
    BY <2>1, <2>4 DEF IInv, CountInv, Finalizing
  <2>. QED  BY <2>1, <2>3, <2>5, <1>5, <1>12 DEF IInv, CountInv
<1>. QED  BY <1>10, <1>11, <1>18, <1>19, <1>20 DEF IInv

\* wakeup_one() in srp_v_dtor() keeps the invariant: it touches sleepers only.
LEMMA WakeKeeps ==
  ASSUME IInv, NEW k \in Collectors, srp_v_dtor_wake(k)
  PROVE  IInv'
<1>1. /\ pc[k] = "wake" /\ Goto(k, "idle") /\ Set(k, NoLocals) /\ refcount' = refcount
      /\ UNCHANGED <<ref, hazards, use, home, ticks, destroyed>>
  BY DEF srp_v_dtor_wake
<1>2. /\ pc' \in [Collectors -> Labels] /\ pc'[k] = "idle" /\ loc' \in [Collectors -> Locals]
      /\ \A j \in Collectors : j # k => pc'[j] = pc[j] /\ loc'[j] = loc[j]
  BY <1>1, NoLocalsType, GotoUpdates, SetUpdates DEF Labels, IInv
<1>3. SleepTypeOK'
  BY DEF srp_v_dtor_wake, IInv, TypeOK, SleepTypeOK, wakeup_one, WakeAll
<1>4. TypeOK'  BY <1>1, <1>2, <1>3 DEF IInv, TypeOK, hazards
<1>5. ReaderInv' /\ ValueInv' /\ HazardInv' /\ Live' = Live
  BY <1>1, <1>2, QuietKeeps DEF Active
<1>6. CountInv'
  BY <1>1, <1>2, <1>5, CountFrame DEF IInv, Finalizing, Collectors
<1>. QED  BY <1>4, <1>5, <1>6 DEF IInv

-----------------------------------------------------------------------------
(* srp_update(), and the theorems. *)

-----------------------------------------------------------------------------
(* srp_update(). *)

\* A new value is counted before it is published.
LEMMA UpdateKeeps ==
  ASSUME IInv, NEW p \in Procs, srp_update(p)
  PROVE  IInv'
<1>1. PICK s \in Srps, nv \in fresh \cup {NULL} :
        /\ home' = [v \in Values |-> IF v = nv THEN s ELSE home[v]]
        /\ refcount' = IF nv = NULL THEN refcount ELSE refcount + 1
        /\ Set(p, [NoLocals EXCEPT !.srp = s, !.nv = nv])
  BY DEF srp_update
<1>2. /\ pc[p] = "idle" /\ Goto(p, "swap")
      /\ \A q \in Procs : pc[q] \notin Finalizing
      /\ UNCHANGED <<ref, hazards, use, ticks, destroyed, sleepVars>>
  BY DEF srp_update
<1>3. p \in Collectors /\ p # softclock /\ Procs \subseteq Collectors /\ softclock \in Collectors
  BY SrpAssumption DEF Collectors
<1>4. /\ nv \in Values \cup {NULL} /\ (nv # NULL => home[nv] = NULL) /\ NULL \notin Values
      /\ NULL \notin Srps
  BY SrpAssumption DEF fresh
<1> DEFINE r == [NoLocals EXCEPT !.srp = s, !.nv = nv]
<1>5. r \in Locals  BY <1>4, NoLocalsType DEF Locals
<1>6. r.srp = s /\ r.nv = nv  BY DEF NoLocals
<1>7. Set(p, r)  BY <1>1
<1> HIDE DEF r
<1>8. /\ pc' \in [Collectors -> Labels] /\ pc'[p] = "swap"
      /\ loc' \in [Collectors -> Locals] /\ loc'[p] = r
      /\ \A j \in Collectors : j # p => pc'[j] = pc[j] /\ loc'[j] = loc[j]
  BY <1>2, <1>3, <1>5, <1>7, GotoUpdates, SetUpdates DEF Labels, IInv
<1>9. /\ home' \in [Values -> Srps \cup {NULL}] /\ refcount' \in Nat
      /\ \A v \in Values : home[v] # NULL => home'[v] = home[v]
      /\ nv # NULL => home'[nv] = s
      /\ \A v \in Values : v # nv => home'[v] = home[v]
  BY SMTT(30), <1>1, <1>4 DEF IInv, TypeOK
<1>10. TypeOK'  BY <1>2, <1>8, <1>9 DEF IInv, TypeOK, SleepTypeOK, sleepVars, hazards
<1>11. ReaderInv'  BY <1>2, <1>9, ReaderFrame DEF IInv
<1>12. \A j \in Collectors : /\ Busy(j)' <=> Busy(j)
                             /\ (pc'[j] = "swap" <=> pc[j] = "swap" \/ j = p)
                             /\ (pc'[j] = "dec" <=> pc[j] = "dec")
                             /\ Busy(j) \/ pc[j] = "swap" \/ pc[j] = "dec" => j # p
  BY <1>2, <1>8 DEF Busy
<1>13. \A v \in Values : home[v] # NULL /\ Replaced(v) => Replaced(v)'
  BY <1>2, <1>3, <1>4, <1>6, <1>8, <1>12 DEF Replaced
<1>14. \A q \in Procs : pc[q] = "swap" => loc[q].nv = NULL \/ (loc[q].nv # nv /\ loc[q].nv \in Values)
  BY SMTT(30), <1>3, <1>4 DEF IInv, TypeOK, Locals, ValueInv, SwapInv
<1>15. \A t \in Srps : ref[t] # NULL => ref[t] # nv /\ ref[t] \in Values /\ home[ref[t]] # NULL
  BY SMTT(30), <1>4 DEF IInv, TypeOK, ValueInv
<1>16. \A q \in Procs : SwapInv(q)'
  <2> TAKE q \in Procs
  <2>1. CASE q = p
    <3>1. nv # NULL => nv \notin destroyed  BY <1>4 DEF IInv, ValueInv
    <3>2. nv # NULL => \A t \in Srps : ref[t] # nv  BY <1>15
    <3>3. nv # NULL => \A n \in Procs : n # p /\ pc[n] = "swap" => loc[n].nv # nv  BY <1>14
    <3>. QED  BY SMTT(30), <2>1, <3>1, <3>2, <3>3, <1>2, <1>3, <1>6, <1>8, <1>9, <1>12 DEF SwapInv
  <2>2. CASE q # p
    <3>1. SwapInv(q)  BY DEF IInv, ValueInv
    <3>2. pc'[q] = pc[q] /\ loc'[q] = loc[q]  BY <2>2, <1>3, <1>8
    <3>3. pc[q] = "swap" /\ loc[q].nv # NULL => home'[loc[q].nv] = loc[q].srp
      BY <3>1, <1>4, <1>9, <1>14 DEF SwapInv
    <3>4. pc[q] = "swap" /\ loc[q].nv # NULL =>
            \A n \in Procs : n # q /\ pc'[n] = "swap" => loc'[n].nv # loc[q].nv
      BY <3>1, <1>3, <1>6, <1>8, <1>12, <1>14 DEF SwapInv
    <3>. QED  BY <3>1, <3>2, <3>3, <3>4, <1>2 DEF SwapInv
  <2>. QED  BY <2>1, <2>2
<1>17. \A j \in Collectors : BusyInv(j)'
  <2> TAKE j \in Collectors
  <2>1. BusyInv(j)  BY DEF IInv, ValueInv
  <2>2. Busy(j) => /\ loc[j].v \in Values /\ home[loc[j].v] # NULL
                   /\ home'[loc[j].v] = loc[j].srp /\ Replaced(loc[j].v)'
                   /\ loc'[j] = loc[j]
    <3> HAVE Busy(j)
    <3>1. /\ loc[j].v \in Values /\ loc[j].srp \in Srps /\ home[loc[j].v] = loc[j].srp
          /\ Replaced(loc[j].v)
      BY <2>1 DEF BusyInv
    <3>2. home[loc[j].v] # NULL  BY <3>1, <1>4
    <3>3. loc'[j] = loc[j]  BY <1>8, <1>12
    <3>4. \A v \in Values : home[v] # NULL /\ Replaced(v) => Replaced(v)'  BY <1>13
    <3>. QED  BY SMTT(30), <3>1, <3>2, <3>3, <3>4, <1>9 DEF Replaced
  <2>. QED  BY <2>1, <2>2, <1>2, <1>8, <1>12 DEF BusyInv
<1>18. \A j \in Collectors : DecInv(j)'
  <2>1. destroyed \subseteq destroyed'  BY <1>2
  <2>2. \A j \in Collectors : pc'[j] = "dec" => pc[j] = "dec" /\ loc'[j].v = loc[j].v
    BY <1>8, <1>12
  <2>. QED  BY <2>1, <2>2, DecsHold, DecFrame
<1>19. \A x \in ticks : home'[x.v] = x.srp /\ Replaced(x.v)' /\ x.v \notin destroyed
  BY SMTT(30), <1>4, <1>9, <1>13 DEF IInv, TypeOK, ValueInv
<1>20. \A v \in destroyed : home'[v] # NULL  BY <1>9 DEF IInv, TypeOK, ValueInv
<1>21. \A t \in Srps : ref[t] # NULL => home'[ref[t]] = t /\ ref[t] \notin destroyed
  BY <1>9, <1>15 DEF IInv, ValueInv
<1>22. ValueInv'
  BY <1>2, <1>3, <1>8, <1>16, <1>17, <1>18, <1>19, <1>20, <1>21 DEF IInv, ValueInv
<1>23. HazardInv'  BY SMTT(30), <1>2, <1>8, <1>12 DEF IInv, HazardInv, Passed
<1>24. CountInv'
  <2>1. \A q \in Procs : pc'[q] \notin Finalizing  BY <1>2, <1>3, <1>8 DEF Finalizing
  <2>2. Owned = 1 /\ Owned' = 1  BY <2>1, <1>2 DEF Owned
  <2>3. \A v : (\E j \in Collectors : pc'[j] = "dec" /\ loc'[j].v = v) <=>
               \E j \in Collectors : pc[j] = "dec" /\ loc[j].v = v
    <3>1. \A j \in Collectors : pc'[j] = "dec" => pc[j] = "dec" /\ loc'[j] = loc[j]
      BY <1>8, <1>12
    <3>2. \A j \in Collectors : pc[j] = "dec" => pc'[j] = "dec" /\ loc'[j] = loc[j]
      BY <1>8, <1>12
    <3>. QED  BY <3>1, <3>2
  <2>4. CASE nv = NULL
    <3>0. home \in [Values -> Srps \cup {NULL}]  BY DEF IInv, TypeOK
    <3>1. home' = home  BY SMTT(30), <2>4, <3>0, <1>4, <1>9
    <3>2. Live' = Live  BY SMTT(30), <3>1, <2>3, <1>2 DEF Live
    <3>. QED  BY <2>1, <2>2, <2>4, <3>2, <1>1 DEF IInv, CountInv, Finalizing
  <2>5. CASE nv # NULL
    <3>1. nv \notin destroyed  BY <2>5, <1>4 DEF IInv, ValueInv
    <3>2. Live' = Live \cup {nv} /\ nv \notin Live
      BY SMTT(30), <2>3, <2>5, <3>1, <1>2, <1>4, <1>9 DEF Live
    <3>3. Cardinality(Live') = Cardinality(Live) + 1
      BY <3>2, LiveFinite, FS_AddElement
    <3>. QED  BY SMTT(30), <2>1, <2>2, <2>5, <3>3, <1>1, LiveFinite DEF IInv, CountInv, Finalizing
  <2>. QED  BY <2>4, <2>5
<1>. QED  BY <1>10, <1>11, <1>22, <1>23, <1>24 DEF IInv

\* The swap publishes one value and hands the other to a collector.
LEMMA SwapKeeps ==
  ASSUME IInv, NEW p \in Procs, srp_update_swap(p)
  PROVE  IInv'
<1> DEFINE s == loc[p].srp
           nv == loc[p].nv
           ov == ref[s]
<1>1. /\ pc[p] = "swap" /\ ref' = [ref EXCEPT ![s] = nv]
      /\ UNCHANGED <<hazards, use, refcount, ticks, destroyed, home, sleepVars>>
  BY DEF srp_update_swap
<1>2. p \in Collectors /\ p # softclock /\ Procs \subseteq Collectors /\ softclock \in Collectors
  BY SrpAssumption DEF Collectors
<1>3. SwapInv(p) /\ s \in Srps /\ nv \in Values \cup {NULL} /\ ov \in Values \cup {NULL}
  BY <1>1, <1>2 DEF IInv, ValueInv, SwapInv, TypeOK, Locals
<1>4. PICK label \in {"idle", "scan_p"}, r \in Locals :
        /\ Goto(p, label) /\ Set(p, r)
        /\ label = "scan_p" => ov # NULL /\ r.srp = s /\ r.v = ov /\ r.c = 1 /\ r.i = 1
  <2>1. CASE ov = NULL  BY <2>1, NoLocalsType DEF srp_update_swap
  <2>2. CASE ov # NULL
    <3> DEFINE x == [NoLocals EXCEPT !.srp = s, !.v = ov]
    <3>1. x \in Locals  BY <2>2, <1>3, NoLocalsType DEF Locals
    <3>2. x.srp = s /\ x.v = ov /\ x.c = 1 /\ x.i = 1  BY DEF NoLocals
    <3>3. Goto(p, "scan_p") /\ Set(p, x)  BY <2>2 DEF srp_update_swap, Scan
    <3> HIDE DEF x
    <3>. QED  BY <2>2, <3>1, <3>2, <3>3
  <2>. QED  BY <2>1, <2>2
<1>5. /\ pc' \in [Collectors -> Labels] /\ pc'[p] = label
      /\ loc' \in [Collectors -> Locals] /\ loc'[p] = r
      /\ \A j \in Collectors : j # p => pc'[j] = pc[j] /\ loc'[j] = loc[j]
  BY <1>2, <1>4, GotoUpdates, SetUpdates DEF Labels, IInv
<1>6. /\ ref' \in [Srps -> Values \cup {NULL}] /\ ref'[s] = nv
      /\ \A t \in Srps : t # s => ref'[t] = ref[t]
  BY <1>1, <1>3 DEF IInv, TypeOK
<1>7. TypeOK'  BY <1>1, <1>5, <1>6 DEF IInv, TypeOK, SleepTypeOK, sleepVars, hazards
<1>8. ReaderInv'  BY <1>1, ReaderFrame DEF IInv
<1>9. \A j \in Collectors : /\ Busy(j)' <=> Busy(j) \/ (j = p /\ label = "scan_p")
                            /\ (pc'[j] = "swap" <=> pc[j] = "swap" /\ j # p)
                            /\ (pc'[j] = "dec" <=> pc[j] = "dec")
                            /\ Busy(j) \/ pc[j] = "dec" => j # p
  BY <1>1, <1>4, <1>5 DEF Busy
<1>10. \A v \in Values : Replaced(v) => Replaced(v)'
  BY <1>1, <1>2, <1>5, <1>6, <1>9 DEF Replaced
<1>11. \A t \in Srps : ref'[t] # NULL => home[ref'[t]] = t /\ ref'[t] \notin destroyed
  BY SMTT(30), <1>1, <1>3, <1>6 DEF IInv, ValueInv, SwapInv
<1>12. \A q \in Procs : SwapInv(q)'
  <2> TAKE q \in Procs
  <2>1. CASE q = p  BY <2>1, <1>2, <1>9 DEF SwapInv
  <2>2. CASE q # p
    <3>1. SwapInv(q) /\ pc'[q] = pc[q] /\ loc'[q] = loc[q]
      BY <2>2, <1>2, <1>5 DEF IInv, ValueInv
    <3>2. pc[q] = "swap" /\ loc[q].nv # NULL => \A t \in Srps : ref'[t] # loc[q].nv
      BY <2>2, <3>1, <1>1, <1>6 DEF SwapInv
    <3>3. \A n \in Procs : pc'[n] = "swap" => pc[n] = "swap" /\ loc'[n] = loc[n]
      BY <1>2, <1>5, <1>9
    <3>. QED  BY <3>1, <3>2, <3>3, <1>1 DEF SwapInv
  <2>. QED  BY <2>1, <2>2
<1>13. \A j \in Collectors : Busy(j) => loc[j].v # ov
  BY SMTT(30), <1>3 DEF IInv, ValueInv, BusyInv, Replaced
<1>14. \A x \in ticks : x.v # ov  BY <1>3 DEF IInv, ValueInv, Replaced
<1>15. \A j \in Collectors : BusyInv(j)'
  <2> TAKE j \in Collectors
  <2>1. CASE j = p
    <3> SUFFICES ASSUME label = "scan_p" PROVE BusyInv(j)'  BY <2>1, <1>9 DEF BusyInv
    <3>1. /\ ov # NULL /\ ov \in Values /\ home[ov] = s /\ ov \notin destroyed
          /\ loc'[p].srp = s /\ loc'[p].v = ov
      BY <1>3, <1>4, <1>5 DEF IInv, ValueInv
    <3>2. \A t \in Srps : ref'[t] # ov
      <4>1. nv # ov  BY <3>1, <1>1, <1>3 DEF SwapInv
      <4>2. \A t \in Srps : ref[t] # NULL => home[ref[t]] = t  BY DEF IInv, ValueInv
      <4>. QED  BY SMTT(30), <3>1, <4>1, <4>2, <1>3, <1>6
    <3>3. \A q \in Procs : pc'[q] = "swap" => loc'[q].nv # ov
      <4> TAKE q \in Procs
      <4> HAVE pc'[q] = "swap"
      <4>1. pc[q] = "swap" /\ loc'[q] = loc[q]  BY <1>2, <1>5, <1>9
      <4>. QED  BY <4>1, <3>1, <1>3, SwapsHold DEF SwapInv
    <3>4. \A n \in Collectors : n # p /\ Busy(n)' => loc'[n].v # ov  BY <1>5, <1>9, <1>13
    <3>. QED  BY <2>1, <3>1, <3>2, <3>3, <3>4, <1>1, <1>3, <1>14 DEF BusyInv, Replaced
  <2>2. CASE j # p
    <3>1. BusyInv(j) /\ pc'[j] = pc[j] /\ loc'[j] = loc[j] /\ (Busy(j)' <=> Busy(j))
      BY <2>2, <1>5, <1>9 DEF IInv, ValueInv
    <3>2. Busy(j) => \A n \in Collectors : n # j /\ Busy(n)' => loc'[n].v # loc[j].v
      BY SMTT(30), <2>2, <3>1, <1>4, <1>5, <1>9, <1>13 DEF BusyInv
    <3>. QED  BY <3>1, <3>2, <1>1, <1>10 DEF BusyInv
  <2>. QED  BY <2>1, <2>2
<1>16. \A j \in Collectors : DecInv(j)'
  <2>1. destroyed \subseteq destroyed'  BY <1>1
  <2>2. \A j \in Collectors : pc'[j] = "dec" => pc[j] = "dec" /\ loc'[j].v = loc[j].v
    BY <1>5, <1>9
  <2>. QED  BY <2>1, <2>2, DecsHold, DecFrame
<1>17. \A x \in ticks : home[x.v] = x.srp /\ Replaced(x.v)' /\ x.v \notin destroyed
  BY <1>10 DEF IInv, TypeOK, ValueInv
<1>18. ValueInv'
  BY SMTT(30), <1>1, <1>2, <1>5, <1>11, <1>12, <1>15, <1>16, <1>17 DEF IInv, ValueInv
<1>19. HazardInv'
  <2> SUFFICES ASSUME NEW c \in Cpus, NEW l \in Levels, use[c][l].at = "use",
                      use[c][l].v # NULL, NEW j \in Collectors, Busy(j)',
                      loc'[j].v = use[c][l].v
               PROVE  ~Passed(j, c, use[c][l].i)'
    BY <1>1 DEF IInv, HazardInv
  <2>1. CASE j = p
    <3>1. c \in Nat /\ ~(c < 1)  BY SMTT(30), SrpAssumption DEF Cpus
    <3>2. use[c][l].i \in Nat /\ ~(use[c][l].i < 1)  BY UseHasSlot
    <3>3. pc'[p] = "scan_p" /\ loc'[p].c = 1 /\ loc'[p].i = 1  BY <2>1, <1>4, <1>5, <1>9
    <3>4. use' = use  BY <1>1
    <3>. QED  BY <2>1, <3>1, <3>2, <3>3, <3>4 DEF Passed
  <2>2. CASE j # p
    <3>1. Busy(j) /\ pc'[j] = pc[j] /\ loc'[j] = loc[j]  BY <2>2, <1>5, <1>9
    <3>2. ~Passed(j, c, use[c][l].i)  BY <3>1 DEF IInv, HazardInv
    <3>3. use' = use  BY <1>1
    <3>. QED  BY <3>1, <3>2, <3>3 DEF Passed
  <2>. QED  BY <2>1, <2>2
<1>20. Live' = Live
  <2>1. \A j \in Collectors : pc'[j] = "dec" => pc[j] = "dec" /\ loc'[j] = loc[j]
    BY <1>5, <1>9
  <2>2. \A j \in Collectors : pc[j] = "dec" => pc'[j] = "dec" /\ loc'[j] = loc[j]
    BY <1>5, <1>9
  <2>. QED  BY <2>1, <2>2, <1>1 DEF Live
<1>21. CountInv'
  BY <1>1, <1>2, <1>4, <1>5, <1>9, <1>20, CountFrame DEF IInv, Finalizing
<1>. QED  BY <1>7, <1>8, <1>18, <1>19, <1>21 DEF IInv

-----------------------------------------------------------------------------
(* The theorems. *)

\* Nothing is published, announced or collected at the start.
LEMMA InitIInv == Init => IInv
<1> SUFFICES ASSUME Init PROVE IInv
  OBVIOUS
<1>1. Collectors = Procs \cup {softclock} /\ softclock \notin Procs /\ gc \in Idents
      /\ 1 \in Cpus /\ 1 \in Slots /\ NULL \notin Srps \cup Values
  BY SMTT(30), SrpAssumption DEF Collectors, Cpus, Slots
<1>2. TypeOK
  <2>1. SleepTypeOK  BY SleepAssumption DEF Init, SleepInit, SleepTypeOK
  <2>2. use \in [Cpus -> [Levels -> Uses]]  BY NoUseType DEF Init
  <2>3. loc \in [Collectors -> Locals]  BY NoLocalsType DEF Init
  <2>. QED  BY <2>1, <2>2, <2>3 DEF Init, TypeOK, Labels
<1>3. ReaderInv  BY NoUseType DEF Init, ReaderInv, UseInv, ApartInv, Reading, NoUse
<1>4. ValueInv
  BY <1>1 DEF Init, ValueInv, SwapInv, BusyInv, DecInv, Busy
<1>5. HazardInv  BY NoUseType DEF Init, HazardInv
<1>6. CountInv
  <2>1. Live = {}  BY DEF Init, Live
  <2>2. Cardinality(Live) = 0  BY <2>1, FS_EmptySet
  <2>3. Owned = 1 /\ \A p \in Procs : pc[p] = "idle"  BY <1>1 DEF Init, Owned, Finalizing
  <2>. QED  BY SMTT(30), <2>2, <2>3 DEF Init, CountInv, Finalizing
<1>. QED  BY <1>2, <1>3, <1>4, <1>5, <1>6 DEF IInv

\* Every step of readers, updates, collectors and srp_finalize() keeps IInv, if
\* no CPU enters an srp that it has entered and not left.
LEMMA NextIInv ==
  ASSUME ~SameSrp, IInv, [Next]_vars
  PROVE  IInv'
<1>1. CASE \E c \in Cpus, l \in Levels : srp_enter(c, l) \/ ReadStep(c, l)
  BY <1>1, ReadersKeep
<1>2. CASE \E p \in Procs : srp_update(p) \/ srp_update_swap(p) \/ srp_finalize(p) \/ FinalizeStep(p)
  BY <1>2, UpdateKeeps, SwapKeeps, FinalizeKeeps, FinalizeStepKeeps
<1>3. CASE \E k \in Collectors : Collect(k)
  BY <1>3, ScanPKeeps, ScanVKeeps, DtorKeeps, DecKeeps, WakeKeeps DEF Collect
<1>4. CASE srp_v_gc  BY <1>4, GcKeeps
<1>5. CASE UNCHANGED vars
  <2>1. UNCHANGED <<ref, sh_p, sh_v, use, refcount, pc, loc, ticks, destroyed, home, sleepVars>>
    BY <1>5 DEF vars, hazards, gcVars
  <2>2. TypeOK'  BY <2>1 DEF IInv, TypeOK, SleepTypeOK, sleepVars
  <2>3. ReaderInv'  BY <2>1, ReaderFrame DEF IInv, hazards
  <2>4. ValueInv'
    <3>1. \A k \in Collectors : Busy(k)' <=> Busy(k)  BY <2>1 DEF Busy
    <3>2. (\A p \in Procs : SwapInv(p)') /\ \A v : Replaced(v) => Replaced(v)'
      BY <2>1, SwapsHold, SwapFrame
    <3>3. \A k \in Collectors : BusyInv(k)'  BY <2>1, <3>1, <3>2, BusyHold, BusyFrame
    <3>4. \A k \in Collectors : DecInv(k)'  BY <2>1, DecsHold, DecFrame
    <3>. QED  BY <2>1, <3>2, <3>3, <3>4 DEF IInv, ValueInv
  <2>5. HazardInv'  BY <2>1 DEF IInv, HazardInv, Busy, Passed
  <2>6. CountInv'  BY <2>1 DEF IInv, CountInv, Owned, Live
  <2>. QED  BY <2>2, <2>3, <2>4, <2>5, <2>6 DEF IInv
<1>. QED  BY <1>1, <1>2, <1>3, <1>4, <1>5 DEF Next

\* When srp_finalize() is done the count is zero, so nothing it counts is left.
LEMMA CountedOut == IInv => FinalizedIsUnused
<1> SUFFICES ASSUME IInv, NEW p \in Procs, pc[p] = "finalized"
             PROVE  /\ ticks = {} /\ destroyed = Values \ fresh
                    /\ \A k \in Collectors : pc[k] \in {"idle", "wake", "finalized"}
  BY DEF FinalizedIsUnused
<1>1. Live = {}
  <2>1. refcount = 0 /\ Owned \in {0, 1}  BY DEF IInv, CountInv, Owned
  <2>2. Cardinality(Live) = 0  BY SMTT(30), <2>1, LiveFinite DEF IInv, CountInv
  <2>. QED  BY <2>2, LiveFinite, FS_EmptySet
<1>2. \A v \in Values : home[v] # NULL => v \in destroyed  BY <1>1 DEF Live
<1>3. ticks = {}
  <2> SUFFICES ASSUME NEW x \in ticks PROVE FALSE  OBVIOUS
  <2>1. x.v \in Values /\ x.srp \in Srps /\ home[x.v] = x.srp /\ x.v \notin destroyed
    BY DEF IInv, TypeOK, ValueInv
  <2>. QED  BY <2>1, <1>2, SrpAssumption
<1>4. destroyed = Values \ fresh  BY <1>2 DEF IInv, TypeOK, ValueInv, fresh
<1>5. \A k \in Collectors : ~Busy(k) /\ pc[k] # "dec"
  <2> TAKE k \in Collectors
  <2>1. Busy(k) => /\ loc[k].v \in Values /\ home[loc[k].v] \in Srps
                   /\ loc[k].v \notin destroyed
    BY DEF IInv, ValueInv, BusyInv
  <2>2. pc[k] = "dec" => loc[k].v \in Live
    BY DEF IInv, ValueInv, DecInv, TypeOK, Live
  <2>. QED  BY <2>1, <2>2, <1>1, <1>2, SrpAssumption
<1>6. \A q \in Procs : q # p => pc[q] \notin Finalizing \cup {"swap"}
  BY DEF IInv, CountInv, Finalizing
<1>7. ASSUME NEW k \in Collectors PROVE pc[k] \in {"idle", "wake", "finalized"}
  <2>1. pc[k] \in Labels  BY DEF IInv, TypeOK
  <2>2. CASE k = softclock  BY <2>2, <1>5 DEF IInv, ValueInv, Busy
  <2>3. CASE k \in Procs /\ k # p  BY <2>1, <2>3, <1>5, <1>6 DEF Labels, Busy
  <2>. QED  BY <2>2, <2>3 DEF Collectors
<1>. QED  BY <1>3, <1>4, <1>7

\* A level that is not in use leaves a record for it: the other levels hold one
\* record each.
LEMMA RecordsLeft == IInv => HazardsSuffice
<1> SUFFICES ASSUME IInv, NEW c \in Cpus, NEW l \in Levels
             PROVE  /\ use[c][l] = NoUse => \E i \in Slots : sh_p[c][i] = NULL
                    /\ use[c][l].at = "use" => \E i \in Slots : sh_p[c][i] = use[c][l].srp
  BY DEF HazardsSuffice
<1>1. use[c][l].at = "use" => \E i \in Slots : sh_p[c][i] = use[c][l].srp
  BY DEF IInv, ReaderInv, UseInv, Reading
<1>2. ASSUME use[c][l] = NoUse, \A i \in Slots : sh_p[c][i] # NULL PROVE FALSE
  <2> DEFINE f == [i \in Slots |-> CHOOSE m \in Levels : Reading(c, m) /\ use[c][m].i = i]
             Others == Levels \ {l}
  <2>1. \A i \in Slots : f[i] \in Levels /\ Reading(c, f[i]) /\ use[c][f[i]].i = i
    BY <1>2 DEF IInv, ReaderInv
  <2>2. ~Reading(c, l)  BY <1>2, NoUseType DEF Reading
  <2>3. f \in [Slots -> Others]  BY SMTT(30), <2>1, <2>2
  <2>4. IsFiniteSet(Slots) /\ Cardinality(Slots) = SRP_HAZARD_NUM
    BY SMTT(30), SrpAssumption, FS_Interval DEF Slots
  <2>5. IsFiniteSet(Levels) /\ Cardinality(Levels) = levels
    BY SMTT(30), SrpAssumption, FS_Interval DEF Levels
  <2>6. IsFiniteSet(Others) /\ Cardinality(Others) = levels - 1
    BY <2>5, FS_RemoveElement
  <2>7. Cardinality(Others) < Cardinality(Slots)  BY SMTT(30), <2>4, <2>6, SrpAssumption
  <2> HIDE DEF f, Others
  <2>8. \E x, y \in Slots : x # y /\ f[x] = f[y]  BY <2>3, <2>4, <2>6, <2>7, FS_PigeonHole
  <2>. QED  BY <2>1, <2>8
<1>. QED  BY <1>1, <1>2

\* The invariant holds in every reachable state.
LEMMA Inductive ==
  ASSUME ~SameSrp
  PROVE  Spec => []IInv
BY InitIInv, NextIInv, PTL DEF Spec

\* kern_srp.c keeps its types: the scan of srp_v_referenced() stays inside the
\* hazard records, and srp_gc_refcount does not go below zero.
THEOREM SrpTypeCorrect ==
  ASSUME ~SameSrp
  PROVE  Spec => []TypeOK
<1>1. IInv => TypeOK  BY DEF IInv
<1>. QED  BY <1>1, Inductive, PTL

\* srp_v_gc_start() and srp_v_gc() destroy no value that a CPU got from
\* srp_enter() and has not given back with srp_leave().
THEOREM NothingUsedAfterFree ==
  ASSUME ~SameSrp
  PROVE  Spec => []NoUseAfterFree
<1>1. IInv => NoUseAfterFree
  BY SrpAssumption DEF IInv, HazardInv, TypeOK, NoUseAfterFree
<1>. QED  BY <1>1, Inductive, PTL

\* srp_finalize() returns only when every value was destroyed and no collector
\* will touch the srp_gc.
THEOREM FinalizeIsLast ==
  ASSUME ~SameSrp
  PROVE  Spec => []FinalizedIsUnused
BY CountedOut, Inductive, PTL

\* With SRP_HAZARD_NUM records for as many nested uses, neither srp_enter() nor
\* srp_leave() panics.
THEOREM NoHazardPanic ==
  ASSUME ~SameSrp
  PROVE  Spec => []HazardsSuffice
BY RecordsLeft, Inductive, PTL
=============================================================================
