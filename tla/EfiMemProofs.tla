---------------------------- MODULE EfiMemProofs ----------------------------
(***************************************************************************)
(* Proofs about EfiMem, for any number of pages, any map of the firmware   *)
(* and any number of edits.  MemInv is the inductive invariant.  What is   *)
(* typed may be negative; from then on MemInv says nothing of the map that *)
(* is edited, and the same as before of the one that is read.              *)
(*                                                                         *)
(* Reading a range (Merged): it either extends one entry, the type of      *)
(* which it has, by the pages next to it, or is an entry of its own, and   *)
(* it shares no page with any entry because ranges of the firmware do not  *)
(* overlap.  Editing (Edits): a function of the "memory" command adds free *)
(* pages only among those it was told to add, and loses only those next to *)
(* or in what it was told to remove.  mem_limit() is that for each round   *)
(* of its loop, and so for all of them, by induction on the rounds.        *)
(***************************************************************************)
EXTENDS EfiMem, SequenceTheorems, WellFoundedInduction, TLAPS

\* The entries of bios_memmap: none is empty, and none wraps around.
Areas == {bm \in [type : BiosTypes, addr : Nat, size : Nat \ {0}] : end(bm) <= LLONG_MAX}

\* The pages of type t that an entry gives, and that the entries other than
\* the one at p give.
Put(bm, t) == IF bm.type = t THEN PagesOf(bm) ELSE {}
Rest(m, p, t) == {x \in Int : \E k \in 1 .. Len(m) : k # p /\ x \in Put(m[k], t)}

\* A map with another entry at p, and a free area.
With(m, p, e) == [m EXCEPT ![p] = e]
Free(a, z) == Area("FREE", a, z - a)

\* n is m with e at p; m with e inserted at p; and what they cover.
IsWith(n, m, p, e) ==
  /\ n \in Seq(Areas) /\ Len(n) = Len(m)
  /\ \A k \in 1 .. Len(m) : n[k] = IF k = p THEN e ELSE m[k]
IsInsert(n, m, p, e) ==
  /\ n \in Seq(Areas) /\ Len(n) = Len(m) + 1
  /\ \A k \in 1 .. Len(m) + 1 : n[k] = IF k < p THEN m[k] ELSE IF k = p THEN e ELSE m[k - 1]
CoversWith(n, m, p, e) == \A t : Cover(n, t) = Rest(m, p, t) \cup Put(e, t)
CoversMore(n, m, e) == \A t : Cover(n, t) = Cover(m, t) \cup Put(e, t)

-----------------------------------------------------------------------------
(* What an edit of a map does to the pages it covers. *)

\* Fields of an entry.
LEMMA AreaFields ==
  ASSUME NEW bm \in Areas
  PROVE  /\ bm.type \in BiosTypes /\ bm.addr \in Nat /\ bm.size \in Nat \ {0}
         /\ end(bm) \in Nat /\ end(bm) = bm.addr + bm.size /\ end(bm) <= LLONG_MAX
         /\ bm = Area(bm.type, bm.addr, bm.size)
  BY DEF Areas, end, Area

\* A number that an int64_t can hold is the same as an u_int64_t.
LEMMA U64Is ==
  ASSUME NEW x \in Nat, x <= LLONG_MAX
  PROVE  u64(x) = x /\ int64(x) = x
<1>1. LLONG_MAX \in Nat  BY MemAssumption
<1>2. PICK b \in Nat \ {0} : b = 2 * LLONG_MAX + 2 /\ x < b  BY <1>1
<1>3. PICK r, q \in Int : r = x % b /\ q = x \div b  OBVIOUS
<1>4. r \in 0 .. b - 1 /\ x = b * q + r  BY <1>3
<1>5. r = x
  <2>1. CASE q <= -1
    <3>1. b * q <= -b  BY SMTT(30), <2>1
    <3> QED  BY SMTT(30), <1>4, <3>1
  <2>2. CASE q >= 1
    <3>1. b * q >= b  BY SMTT(30), <2>2
    <3> QED  BY SMTT(30), <1>2, <1>4, <3>1
  <2>3. CASE q = 0  BY SMTT(30), <1>4, <2>3
  <2> QED  BY SMTT(30), <2>1, <2>2, <2>3
<1> QED  BY <1>2, <1>3, <1>5, Zenon DEF u64, int64

\* The pages of an entry, between two addresses.
LEMMA AreaPages ==
  ASSUME NEW bm \in Areas
  PROVE  \E a, z \in Nat :
           /\ bm.addr = a /\ end(bm) = z /\ a < z /\ z <= LLONG_MAX /\ PagesOf(bm) = a .. z - 1
           /\ sp(bm) = a /\ ep(bm) = z /\ bm.size = z - a
<1>1. PICK a, z \in Nat :
        bm.addr = a /\ end(bm) = z /\ a < z /\ z <= LLONG_MAX /\ bm.size = z - a
  BY AreaFields
<1>2. PagesOf(bm) = a .. z - 1  BY <1>1, Zenon DEF PagesOf
<1>3. a <= LLONG_MAX /\ bm.addr + bm.size = z  BY SMTT(30), <1>1, MemAssumption DEF end
<1>4. sp(bm) = a  BY <1>1, <1>3, U64Is, Zenon DEF sp
<1>5. ep(bm) = z  BY <1>1, <1>3, U64Is, Zenon DEF ep
<1> QED  BY <1>1, <1>2, <1>4, <1>5, Zenon

\* A free area that does not wrap around is an entry.
LEMMA FreeIs ==
  ASSUME NEW a \in Nat, NEW z \in Nat, a < z, z <= LLONG_MAX
  PROVE  /\ Free(a, z) \in Areas /\ Free(a, z).type = "FREE"
         /\ PagesOf(Free(a, z)) = a .. z - 1
  BY MemAssumption DEF Areas, end, Area, PagesOf, Free, BiosTypes

\* It is the entry that the functions of the "memory" command write for it.
LEMMA SpanIs ==
  ASSUME NEW a \in Nat, NEW z \in Nat, a < z, z <= LLONG_MAX
  PROVE  u64(z - a) = z - a /\ Span(a, z) = Free(a, z)
<1>1. /\ a <= LLONG_MAX /\ z - a \in Nat /\ z - a <= LLONG_MAX  BY MemAssumption
<1>2. u64(a) = a /\ u64(z - a) = z - a  BY <1>1, U64Is, Zenon
<1> QED  BY <1>2, Zenon DEF Span, Free

\* Entries of a map, by index.
LEMMA MapEntries ==
  ASSUME NEW m \in Seq(Areas)
  PROVE  Len(m) \in Nat /\ DOMAIN m = 1 .. Len(m) /\ \A k \in 1 .. Len(m) : m[k] \in Areas
  OBVIOUS

\* A page is covered if an entry of the type has it.
LEMMA CoverIs ==
  ASSUME NEW m \in Seq(Areas), NEW t
  PROVE  Cover(m, t) = {x \in Int : \E k \in 1 .. Len(m) : x \in Put(m[k], t)}
<1>1. \A k \in 1 .. Len(m) : PagesOf(m[k]) \subseteq Int
  BY SMTT(30), MapEntries, AreaFields DEF PagesOf
<1>2. DOMAIN m = 1 .. Len(m)  OBVIOUS
<1>3. ASSUME NEW x PROVE x \in Cover(m, t) <=> \E k \in 1 .. Len(m) : x \in Put(m[k], t)
  BY <1>2, Zenon DEF Cover, Put
<1>4. \A x : (\E k \in 1 .. Len(m) : x \in Put(m[k], t)) => x \in Int
  BY <1>1, Zenon DEF Put
<1> QED
  BY <1>3, <1>4, Zenon

\* The map splits into one entry and the others.
LEMMA CoverAt ==
  ASSUME NEW m \in Seq(Areas), NEW t, NEW p \in 1 .. Len(m)
  PROVE  Cover(m, t) = Rest(m, p, t) \cup Put(m[p], t)
<1>1. Put(m[p], t) \subseteq Int
  BY MapEntries, AreaFields DEF Put, PagesOf
<1> QED
  BY <1>1, CoverIs, Zenon DEF Rest

\* Every other entry is among the others.
LEMMA RestHas ==
  ASSUME NEW m \in Seq(Areas), NEW t, NEW p \in 1 .. Len(m), NEW q \in 1 .. Len(m), p # q
  PROVE  Put(m[q], t) \subseteq Rest(m, p, t)
<1>1. Put(m[q], t) \subseteq Int
  BY MapEntries, AreaFields DEF Put, PagesOf
<1> QED
  BY <1>1, Zenon DEF Rest

\* Another entry at p.
LEMMA WithIs ==
  ASSUME NEW m \in Seq(Areas), NEW p \in 1 .. Len(m), NEW e \in Areas
  PROVE  IsWith(With(m, p, e), m, p, e)
  BY ExceptSeq DEF With, IsWith

LEMMA Replaced ==
  ASSUME NEW m \in Seq(Areas), NEW p \in 1 .. Len(m), NEW e \in Areas
  PROVE  CoversWith(With(m, p, e), m, p, e)
<1> SUFFICES ASSUME NEW t PROVE Cover(With(m, p, e), t) = Rest(m, p, t) \cup Put(e, t)
  BY Zenon DEF CoversWith
<1>1. PICK n : n = With(m, p, e)  OBVIOUS
<1>2. /\ n \in Seq(Areas) /\ Len(n) = Len(m)
      /\ \A k \in 1 .. Len(m) : n[k] = IF k = p THEN e ELSE m[k]
  <2>1. IsWith(n, m, p, e)
    BY <1>1, WithIs, Zenon
  <2> QED
    BY <2>1, Zenon DEF IsWith
<1>3. Cover(n, t) = {x \in Int : \E k \in 1 .. Len(m) : x \in Put(n[k], t)}
  BY <1>2, CoverIs, Zenon
<1>4. Put(e, t) \subseteq Int
  BY AreaFields DEF Put, PagesOf
<1>5. Cover(n, t) = Rest(m, p, t) \cup Put(e, t)
  BY <1>2, <1>3, <1>4, Zenon DEF Rest
<1> QED
  BY <1>1, <1>5, Zenon

\* One entry more, at the end.
LEMMA Appended ==
  ASSUME NEW m \in Seq(Areas), NEW e \in Areas
  PROVE  CoversMore(Append(m, e), m, e)
<1> SUFFICES ASSUME NEW t PROVE Cover(Append(m, e), t) = Cover(m, t) \cup Put(e, t)
  BY Zenon DEF CoversMore
<1>1. PICK n : n = Append(m, e)  BY Zenon
<1>2. /\ n \in Seq(Areas) /\ Len(n) = Len(m) + 1
      /\ \A k \in 1 .. Len(m) : n[k] = m[k]
      /\ n[Len(m) + 1] = e
  BY <1>1
<1>3. \A k : k \in 1 .. Len(m) + 1 <=> k \in 1 .. Len(m) \/ k = Len(m) + 1
  OBVIOUS
<1>4. Cover(n, t) = {x \in Int : \E k \in 1 .. Len(m) + 1 : x \in Put(n[k], t)}
  BY <1>2, CoverIs, Zenon
<1>5. Put(e, t) \subseteq Int
  BY AreaFields DEF Put, PagesOf
<1>6. Cover(m, t) = {x \in Int : \E k \in 1 .. Len(m) : x \in Put(m[k], t)}
  BY CoverIs, Zenon
<1>7. ASSUME NEW x PROVE x \in Cover(n, t) <=> x \in Cover(m, t) \/ x \in Put(e, t)
  <2>1. x \in Cover(n, t) => x \in Cover(m, t) \/ x \in Put(e, t)
    BY <1>2, <1>3, <1>4, <1>6, Zenon
  <2>2. x \in Cover(m, t) => x \in Cover(n, t)
    BY <1>2, <1>3, <1>4, <1>6, Zenon
  <2>3. x \in Put(e, t) => x \in Cover(n, t)
    BY <1>2, <1>3, <1>4, <1>5, Zenon
  <2> QED
    BY SMTT(30), <2>1, <2>2, <2>3
<1>8. Cover(n, t) = Cover(m, t) \cup Put(e, t)
  BY <1>7, Zenon
<1> QED
  BY <1>1, <1>8, Zenon

\* One entry more, at p.
LEMMA InsertIs ==
  ASSUME NEW m \in Seq(Areas), NEW p \in 1 .. Len(m) + 1, NEW e \in Areas
  PROVE  IsInsert(InsertAt(m, p, e), m, p, e)
<1>1. PICK a : a = SubSeq(m, 1, p - 1)  BY Zenon
<1>2. PICK b : b = SubSeq(m, p, Len(m))  BY Zenon
<1>3. /\ a \in Seq(Areas) /\ Len(a) = p - 1 /\ \A k \in 1 .. p - 1 : a[k] = m[k]
  BY <1>1
<1>4. /\ b \in Seq(Areas) /\ Len(b) = Len(m) - p + 1
      /\ \A k \in 1 .. Len(m) - p + 1 : b[k] = m[p + k - 1]
  <2>1. \A k \in p .. Len(m) : m[k] \in Areas
    OBVIOUS
  <2>2. p \in Int /\ Len(m) \in Int
    OBVIOUS
  <2> QED
    BY SMTT(30), <1>2, <2>1, <2>2, SubSeqProperties
<1>5. PICK c : c = a \o <<e>>  BY Zenon
<1>6. /\ c \in Seq(Areas) /\ Len(c) = p
      /\ \A k \in 1 .. p : c[k] = IF k < p THEN m[k] ELSE e
  BY SMTT(30), <1>3, <1>5
<1>7. InsertAt(m, p, e) = c \o b
  BY SMTT(30), <1>1, <1>2, <1>5 DEF InsertAt
<1>8. /\ c \o b \in Seq(Areas) /\ Len(c \o b) = Len(m) + 1
      /\ \A k \in 1 .. Len(m) + 1 : (c \o b)[k] = IF k <= p THEN c[k] ELSE b[k - p]
  <2>1. /\ c \o b \in Seq(Areas) /\ Len(c \o b) = Len(c) + Len(b)
        /\ \A k \in 1 .. Len(c) + Len(b) :
             (c \o b)[k] = IF k <= Len(c) THEN c[k] ELSE b[k - Len(c)]
    BY <1>4, <1>6, ConcatProperties, Zenon
  <2>2. Len(c) = p /\ Len(c) + Len(b) = Len(m) + 1
    BY SMTT(30), <1>4, <1>6
  <2> QED
    BY <2>1, <2>2, Zenon
<1> QED
  BY SMTT(30), <1>4, <1>6, <1>7, <1>8 DEF IsInsert

LEMMA Inserted ==
  ASSUME NEW m \in Seq(Areas), NEW p \in 1 .. Len(m) + 1, NEW e \in Areas
  PROVE  CoversMore(InsertAt(m, p, e), m, e)
<1> SUFFICES ASSUME NEW t PROVE Cover(InsertAt(m, p, e), t) = Cover(m, t) \cup Put(e, t)
  BY Zenon DEF CoversMore
<1>1. PICK n : n = InsertAt(m, p, e)  OBVIOUS
<1>2. /\ n \in Seq(Areas) /\ Len(n) = Len(m) + 1
      /\ \A k \in 1 .. Len(m) + 1 : n[k] = IF k < p THEN m[k] ELSE IF k = p THEN e ELSE m[k - 1]
  <2>1. IsInsert(n, m, p, e)
    BY <1>1, InsertIs, Zenon
  <2> QED
    BY <2>1, Zenon DEF IsInsert
<1>3. Cover(n, t) = {x \in Int : \E k \in 1 .. Len(m) + 1 : x \in Put(n[k], t)}
  BY <1>2, CoverIs, Zenon
<1>4. Put(e, t) \subseteq Int
  BY AreaFields DEF Put, PagesOf
<1>5. \A k \in 1 .. Len(m) + 1 : n[k] = e \/ \E j \in 1 .. Len(m) : n[k] = m[j]
  BY <1>2
<1>6. \A j \in 1 .. Len(m) : \E k \in 1 .. Len(m) + 1 : n[k] = m[j]
  <2> TAKE j \in 1 .. Len(m)
  <2>1. CASE j < p
    BY SMTT(30), <1>2, <2>1
  <2>2. CASE ~(j < p)
    <3>1. j + 1 \in 1 .. Len(m) + 1 /\ n[j + 1] = m[j]
      BY <1>2, <2>2
    <3> QED
      BY <3>1, Zenon
  <2> QED
    BY SMTT(30), <2>1, <2>2
<1>7. p \in 1 .. Len(m) + 1 /\ n[p] = e
  BY <1>2
<1>8. Cover(m, t) = {x \in Int : \E k \in 1 .. Len(m) : x \in Put(m[k], t)}
  BY CoverIs, Zenon
<1>9. ASSUME NEW x PROVE x \in Cover(n, t) <=> x \in Cover(m, t) \/ x \in Put(e, t)
  <2>1. x \in Cover(n, t) => x \in Cover(m, t) \/ x \in Put(e, t)
    BY <1>3, <1>5, <1>8, Zenon
  <2>2. x \in Cover(m, t) => x \in Cover(n, t)
    BY <1>3, <1>6, <1>8, Zenon
  <2>3. x \in Put(e, t) => x \in Cover(n, t)
    BY <1>3, <1>4, <1>7, Zenon
  <2> QED
    BY SMTT(30), <2>1, <2>2, <2>3
<1>10. Cover(n, t) = Cover(m, t) \cup Put(e, t)
  BY <1>9, Zenon
<1> QED
  BY <1>1, <1>10, Zenon

\* One entry less.
LEMMA Removed ==
  ASSUME NEW m \in Seq(Areas), NEW p \in 1 .. Len(m), NEW t
  PROVE  /\ RemoveAt(m, p) \in Seq(Areas)
         /\ Cover(RemoveAt(m, p), t) = Rest(m, p, t)
<1>1. PICK n : n = RemoveAt(m, p)  OBVIOUS
<1>2. /\ n \in Seq(Areas) /\ Len(n) = Len(m) - 1
      /\ \A k \in 1 .. Len(m) - 1 : n[k] = IF k < p THEN m[k] ELSE m[k + 1]
  <2>1. PICK a : a = SubSeq(m, 1, p - 1)  BY Zenon
  <2>2. PICK b : b = SubSeq(m, p + 1, Len(m))  BY Zenon
  <2>3. /\ a \in Seq(Areas) /\ Len(a) = p - 1 /\ \A k \in 1 .. p - 1 : a[k] = m[k]
    BY <2>1
  <2>4. /\ b \in Seq(Areas) /\ Len(b) = Len(m) - p
        /\ \A k \in 1 .. Len(m) - p : b[k] = m[p + k]
    BY <2>2
  <2>5. n = a \o b
    BY SMTT(30), <1>1, <2>1, <2>2 DEF RemoveAt
  <2>6. /\ n \in Seq(Areas) /\ Len(n) = Len(a) + Len(b)
        /\ \A k \in 1 .. Len(a) + Len(b) : n[k] = IF k <= Len(a) THEN a[k] ELSE b[k - Len(a)]
    BY <2>3, <2>4, <2>5, ConcatProperties, Zenon
  <2>7. Len(a) + Len(b) = Len(m) - 1
    BY <2>3, <2>4
  <2>8. ASSUME NEW k \in 1 .. Len(m) - 1 PROVE n[k] = IF k < p THEN m[k] ELSE m[k + 1]
    <3>1. n[k] = IF k <= Len(a) THEN a[k] ELSE b[k - Len(a)]
      BY <2>6, <2>7, Zenon
    <3>2. CASE k < p
      <4>1. k <= Len(a) /\ a[k] = m[k]
        BY <2>3, <3>2
      <4> QED
        BY <3>1, <3>2, <4>1, Zenon
    <3>3. CASE ~(k < p)
      <4>1. ~(k <= Len(a)) /\ b[k - Len(a)] = m[k + 1]
        <5>1. PICK j \in 1 .. Len(m) - p : j = k - Len(a) /\ p + j = k + 1
          BY <2>3, <3>3
        <5>2. b[j] = m[p + j]
          BY <2>4, Zenon
        <5>3. ~(k <= Len(a))
          BY <2>3, <3>3
        <5> QED
          BY <5>1, <5>2, <5>3, Zenon
      <4> QED
        BY <3>1, <3>3, <4>1, Zenon
    <3> QED
      BY <3>2, <3>3, Zenon
  <2> QED
    BY <2>6, <2>7, <2>8, Zenon
<1>3. Cover(n, t) = {x \in Int : \E k \in 1 .. Len(n) : x \in Put(n[k], t)}
  BY <1>2, CoverIs, Zenon
<1>4. \A k \in 1 .. Len(n) : \E j \in 1 .. Len(m) : j # p /\ n[k] = m[j]
  <2> TAKE k \in 1 .. Len(n)
  <2>1. CASE k < p
    BY <1>2, <2>1
  <2>2. CASE ~(k < p)
    <3>1. k + 1 \in 1 .. Len(m) /\ k + 1 # p /\ n[k] = m[k + 1]
      BY <1>2, <2>2
    <3> QED
      BY <3>1, Zenon
  <2> QED
    BY SMTT(30), <2>1, <2>2
<1>5. \A j \in 1 .. Len(m) : j # p => \E k \in 1 .. Len(n) : n[k] = m[j]
  <2> SUFFICES ASSUME NEW j \in 1 .. Len(m), j # p PROVE \E k \in 1 .. Len(n) : n[k] = m[j]
    OBVIOUS
  <2>1. CASE j < p
    BY <1>2, <2>1
  <2>2. CASE ~(j < p)
    <3>1. j - 1 \in 1 .. Len(n) /\ ~(j - 1 < p) /\ j - 1 + 1 = j
      BY <1>2, <2>2
    <3>2. n[j - 1] = m[j]
      BY <1>2, <3>1
    <3> QED
      BY <3>1, <3>2, Zenon
  <2> QED
    BY <2>1, <2>2
<1>6. Cover(n, t) = Rest(m, p, t)
  BY <1>3, <1>4, <1>5, Zenon DEF Rest
<1> QED
  BY <1>1, <1>2, <1>6, Zenon
-----------------------------------------------------------------------------
(* mem_limit(), mem_delete() and mem_add(). *)

\* An edit frees no page outside of add, and loses none outside of del.
Edits(m, n, add, del) ==
  /\ n \in Seq(Areas)
  /\ Cover(n, "FREE") \subseteq Cover(m, "FREE") \cup add
  /\ Cover(m, "FREE") \ del \subseteq Cover(n, "FREE")

\* A FREE entry in place of one.
Swap(bm, e, add, del) ==
  /\ bm.type = "FREE" /\ e.type = "FREE"
  /\ PagesOf(e) \subseteq PagesOf(bm) \cup add
  /\ PagesOf(bm) \ del \subseteq PagesOf(e)
LEMMA ReplaceEdits ==
  ASSUME NEW m \in Seq(Areas), NEW p \in 1 .. Len(m), NEW e \in Areas, NEW add, NEW del,
         Swap(m[p], e, add, del)
  PROVE  Edits(m, With(m, p, e), add, del)
<1>1. PICK n : n = With(m, p, e)  OBVIOUS
<1>2. n \in Seq(Areas) /\ Cover(n, "FREE") = Rest(m, p, "FREE") \cup Put(e, "FREE")
  <2>1. IsWith(n, m, p, e) /\ CoversWith(n, m, p, e)
    BY <1>1, WithIs, Replaced, Zenon
  <2>2. n \in Seq(Areas)
    BY <2>1, Zenon DEF IsWith
  <2>3. Cover(n, "FREE") = Rest(m, p, "FREE") \cup Put(e, "FREE")
    BY <2>1, Zenon DEF CoversWith
  <2> QED
    BY <2>2, <2>3, Zenon
<1>3. Cover(m, "FREE") = Rest(m, p, "FREE") \cup Put(m[p], "FREE")
  BY CoverAt, Zenon
<1>4. Put(e, "FREE") = PagesOf(e) /\ Put(m[p], "FREE") = PagesOf(m[p])
  BY Zenon DEF Put, Swap
<1> QED
  BY <1>1, <1>2, <1>3, <1>4, Zenon DEF Edits, Swap

\* A FREE entry less.
Gone(bm, del) == bm.type = "FREE" /\ PagesOf(bm) \subseteq del
LEMMA RemoveEdits ==
  ASSUME NEW m \in Seq(Areas), NEW p \in 1 .. Len(m), NEW add, NEW del,
         Gone(m[p], del)
  PROVE  Edits(m, RemoveAt(m, p), add, del)
<1>1. PICK n : n = RemoveAt(m, p)  OBVIOUS
<1>2. n \in Seq(Areas) /\ Cover(n, "FREE") = Rest(m, p, "FREE")
  BY <1>1, Removed, Zenon
<1>3. Cover(m, "FREE") = Rest(m, p, "FREE") \cup Put(m[p], "FREE")
  BY CoverAt, Zenon
<1>4. Put(m[p], "FREE") = PagesOf(m[p])
  BY Zenon DEF Put, Gone
<1> QED
  BY <1>1, <1>2, <1>3, <1>4, Zenon DEF Edits, Gone

\* The size of an entry.
LEMMA SizeIs ==
  ASSUME NEW m \in Seq(Areas), NEW p \in 1 .. Len(m), NEW v
  PROVE  [m EXCEPT ![p].size = v] = With(m, p, Area(m[p].type, m[p].addr, v))
<1>1. m[p] \in Areas  OBVIOUS
<1>2. [m[p] EXCEPT !.size = v] = Area(m[p].type, m[p].addr, v)
  BY SMTT(30), <1>1 DEF Areas, Area
<1> QED
  BY <1>2, Zenon DEF With

\* SelectInSeq() finds an entry if there is one.
LEMMA MinIsIn ==
  ASSUME NEW n \in Nat, NEW I \in SUBSET (1 .. n), I # {}
  PROVE  Min(I) \in I
<1> DEFINE R == {ss \in Nat \X Nat : ss[1] < ss[2]}
<1>1. IsWellFoundedOn(R, Nat)
  BY NatLessThanWellFounded, Zenon DEF OpToRel
<1>2. \A x, y \in Nat : y < x => <<y, x>> \in R
  OBVIOUS
<1> HIDE DEF R
<1>3. I \subseteq Nat
  OBVIOUS
<1>4. PICK x \in I : \A y \in I : ~(<<y, x>> \in R)
  BY <1>1, <1>3, WFMin, Zenon
<1>5. \A y \in I : x <= y
  <2>1. \A y \in I : ~(y < x)
    BY <1>2, <1>3, <1>4, Zenon
  <2>2. \A y \in Nat : ~(y < x) => x <= y
    BY <1>3
  <2> QED
    BY <1>3, <2>1, <2>2, Zenon
<1> QED
  BY <1>5, Zenon DEF Min

\* A round of mem_limit() takes only what is above the limit.
LEMMA LimitRoundEdits ==
  ASSUME NEW m \in Seq(Areas), NEW p \in Nat \ {0}, NEW ml \in Nat \ {0}
  PROVE  Edits(m, LimitRound(m, p, ml), {}, ml .. LLONG_MAX)
<1>1. CASE p > Len(m) \/ m[p].type # "FREE" \/ ep(m[p]) < ml
  <2>1. LimitRound(m, p, ml) = m
    BY <1>1, Zenon DEF LimitRound
  <2> QED
    BY <2>1, Zenon DEF Edits
<1>2. CASE ~(p > Len(m) \/ m[p].type # "FREE" \/ ep(m[p]) < ml)
  <2>1. p \in 1 .. Len(m)
    BY <1>2
  <2>2. PICK bm \in Areas : bm = m[p]
    BY <2>1
  <2>3. PICK a, z \in Nat :
          /\ bm.addr = a /\ a < z /\ z <= LLONG_MAX /\ PagesOf(bm) = a .. z - 1
          /\ sp(bm) = a /\ ep(bm) = z /\ bm.size = z - a
    BY AreaPages, Zenon
  <2>4. bm.type = "FREE" /\ ~(z < ml)
    BY <1>2, <2>2, <2>3, Zenon
  <2>5. CASE a >= ml
    <3>1. LimitRound(m, p, ml) = RemoveAt(m, p)
      BY <1>2, <2>2, <2>3, <2>5, Zenon DEF LimitRound
    <3>2. a .. z - 1 \subseteq ml .. LLONG_MAX
      BY SMTT(30), <2>3, <2>5, MemAssumption
    <3>3. Gone(m[p], ml .. LLONG_MAX)
      BY <2>2, <2>3, <2>4, <3>2, Zenon DEF Gone
    <3> QED
      BY <2>1, <3>1, <3>3, RemoveEdits, Zenon
  <2>6. CASE ~(a >= ml)
    <3>4. a < ml /\ ml <= LLONG_MAX /\ ml \in Nat
      BY SMTT(30), <2>3, <2>4, <2>6, MemAssumption
    <3>0. PICK v : v = u64(m[p].size - (ep(m[p]) - ml))
      OBVIOUS
    <3>1. LimitRound(m, p, ml) = [m EXCEPT ![p].size = v]
      BY <1>2, <2>2, <2>3, <2>6, <3>0, Zenon DEF LimitRound
    <3>2. v = ml - a
      <4>1. (z - a) - (z - ml) = ml - a
        BY SMTT(30), <2>3
      <4>2. v = u64((z - a) - (z - ml))
        BY <2>2, <2>3, <3>0, Zenon
      <4> QED
        BY <2>3, <3>4, <4>1, <4>2, SpanIs, Zenon
    <3>3. LimitRound(m, p, ml) = With(m, p, Free(a, ml))
      <4>1. [m EXCEPT ![p].size = v] = With(m, p, Area(m[p].type, m[p].addr, v))
        BY <2>1, SizeIs, Zenon
      <4> QED
        BY <2>2, <2>3, <2>4, <3>1, <3>2, <4>1, Zenon DEF Free
    <3>5. /\ Free(a, ml) \in Areas /\ Free(a, ml).type = "FREE"
          /\ PagesOf(Free(a, ml)) = a .. ml - 1
      BY SMTT(30), <3>4, FreeIs
    <3>6. a .. ml - 1 \subseteq a .. z - 1 /\ (a .. z - 1) \ (ml .. LLONG_MAX) \subseteq a .. ml - 1
      <4>1. a \in Nat /\ z \in Nat /\ ~(z < ml) /\ z <= LLONG_MAX
        BY <2>3, <2>4, Zenon
      <4> QED
        BY SMTT(30), <3>4, <4>1, MemAssumption
    <3>7. Swap(m[p], Free(a, ml), {}, ml .. LLONG_MAX)
      BY <2>2, <2>3, <2>4, <3>5, <3>6, Zenon DEF Swap
    <3> QED
      BY <2>1, <3>3, <3>5, <3>7, ReplaceEdits, Zenon
  <2> QED
    BY <2>5, <2>6, Zenon
<1> QED
  BY <1>1, <1>2, Zenon

\* mem_delete() takes only the range, and a page on either side.
LEMMA DeleteEdits ==
  ASSUME NEW m \in Seq(Areas), NEW sa \in Nat \ {0}, NEW ea \in Nat, sa < ea, ea <= LLONG_MAX
  PROVE  Edits(m, mem_delete(m, sa, ea), {}, sa - PAGE_SIZE .. ea + PAGE_SIZE - 1)
<1> DEFINE T(bm) == /\ bm.type = "FREE"
                    /\ \/ Eaten(bm, sa, ea) \/ EatsHead(bm, sa, ea)
                       \/ EatsLegs(bm, sa, ea) \/ InHalf(bm, sa, ea)
           I == {k \in 1 .. Len(m) : T(m[k])}
<1>1. PICK p : p = SelectInSeq(m, LAMBDA bm : T(bm))
  BY Zenon
<1>2. p = IF I # {} THEN Min(I) ELSE 0
  BY <1>1, Zenon DEF SelectInSeq
<1>3. mem_delete(m, sa, ea) =
        IF p = 0 THEN m
        ELSE IF Eaten(m[p], sa, ea) THEN RemoveAt(m, p)
        ELSE IF EatsHead(m[p], sa, ea) THEN [m EXCEPT ![p] = Span(ea, ep(@))]
        ELSE IF EatsLegs(m[p], sa, ea) THEN [m EXCEPT ![p].size = u64(sa - sp(m[p]))]
        ELSE [InsertAt(m, p + 1, Span(ea, ep(m[p]))) EXCEPT ![p].size = u64(sa - sp(m[p]))]
  BY <1>1, Zenon DEF mem_delete
<1>4. PICK del : del = sa - PAGE_SIZE .. ea + PAGE_SIZE - 1
  OBVIOUS
<1>5. del = sa - 1 .. ea
  BY SMTT(30), <1>4 DEF PAGE_SIZE
<1>6. CASE I = {}
  <2>1. mem_delete(m, sa, ea) = m
    BY <1>2, <1>3, <1>6, Zenon
  <2> QED
    BY <2>1, Zenon DEF Edits
<1>7. CASE I # {}
  <2>1. p \in I
    BY <1>2, <1>7, MapEntries, MinIsIn, Zenon
  <2>2. p \in 1 .. Len(m) /\ T(m[p]) /\ p # 0
    BY <2>1
  <2>3. PICK bm \in Areas : bm = m[p]
    BY <2>2
  <2>4. PICK a, z \in Nat :
          /\ bm.addr = a /\ a < z /\ z <= LLONG_MAX /\ PagesOf(bm) = a .. z - 1
          /\ sp(bm) = a /\ ep(bm) = z /\ bm.size = z - a
    BY AreaPages, Zenon
  <2>5. bm.type = "FREE"
    BY <2>2, <2>3, Zenon
  <2>6. CASE Eaten(bm, sa, ea)
    <3>1. mem_delete(m, sa, ea) = RemoveAt(m, p)
      BY <1>3, <2>2, <2>3, <2>6, Zenon
    <3>2. a .. z - 1 \subseteq del
      BY SMTT(30), <1>5, <2>4, <2>6 DEF Eaten, PAGE_SIZE
    <3>3. Gone(m[p], del)
      BY <2>3, <2>4, <2>5, <3>2, Zenon DEF Gone
    <3> QED
      BY <1>4, <2>2, <3>1, <3>3, RemoveEdits, Zenon
  <2>7. CASE ~Eaten(bm, sa, ea) /\ EatsHead(bm, sa, ea)
    <3>2. sa <= a /\ a < ea /\ ea < z
      BY SMTT(30), <2>4, <2>7 DEF Eaten, EatsHead, PAGE_SIZE
    <3>1. mem_delete(m, sa, ea) = With(m, p, Free(ea, z))
      <4>1. mem_delete(m, sa, ea) = With(m, p, Span(ea, z))
        BY <1>3, <2>2, <2>3, <2>4, <2>7, Zenon DEF With
      <4> QED
        BY <2>4, <3>2, <4>1, SpanIs, Zenon
    <3>3. /\ Free(ea, z) \in Areas /\ Free(ea, z).type = "FREE"
          /\ PagesOf(Free(ea, z)) = ea .. z - 1
      BY SMTT(30), <2>4, <3>2, FreeIs
    <3>4. ea .. z - 1 \subseteq a .. z - 1 /\ (a .. z - 1) \ del \subseteq ea .. z - 1
      BY SMTT(30), <1>5, <2>4, <3>2
    <3>5. Swap(m[p], Free(ea, z), {}, del)
      BY <2>3, <2>4, <2>5, <3>3, <3>4, Zenon DEF Swap
    <3> QED
      BY <1>4, <2>2, <3>1, <3>3, <3>5, ReplaceEdits, Zenon
  <2>8. CASE ~Eaten(bm, sa, ea) /\ ~EatsHead(bm, sa, ea) /\ EatsLegs(bm, sa, ea)
    <3>4. a < sa /\ sa < z /\ z <= ea /\ sa \in Nat /\ sa <= LLONG_MAX
      BY SMTT(30), <2>4, <2>8, MemAssumption DEF Eaten, EatsLegs, PAGE_SIZE
    <3>1. PICK v : v = u64(sa - sp(m[p])) /\ v = sa - a
      BY <2>3, <2>4, <3>4, SpanIs, Zenon
    <3>2. mem_delete(m, sa, ea) = [m EXCEPT ![p].size = v]
      BY <1>3, <2>2, <2>3, <2>8, <3>1, Zenon
    <3>3. mem_delete(m, sa, ea) = With(m, p, Free(a, sa))
      <4>1. [m EXCEPT ![p].size = v] = With(m, p, Area(m[p].type, m[p].addr, v))
        BY <2>2, SizeIs, Zenon
      <4> QED
        BY <2>3, <2>4, <2>5, <3>1, <3>2, <4>1, Zenon DEF Free
    <3>5. /\ Free(a, sa) \in Areas /\ Free(a, sa).type = "FREE"
          /\ PagesOf(Free(a, sa)) = a .. sa - 1
      BY <3>4, FreeIs
    <3>6. a .. sa - 1 \subseteq a .. z - 1 /\ (a .. z - 1) \ del \subseteq a .. sa - 1
      BY SMTT(30), <1>5, <2>4, <3>4
    <3>7. Swap(m[p], Free(a, sa), {}, del)
      BY <2>3, <2>4, <2>5, <3>5, <3>6, Zenon DEF Swap
    <3> QED
      BY <1>4, <2>2, <3>3, <3>5, <3>7, ReplaceEdits, Zenon
  <2>9. CASE ~Eaten(bm, sa, ea) /\ ~EatsHead(bm, sa, ea) /\ ~EatsLegs(bm, sa, ea)
    <3>1. a < sa /\ ea < z /\ sa \in Nat /\ sa <= LLONG_MAX
      <4>1. InHalf(bm, sa, ea)
        BY <2>2, <2>3, <2>9, Zenon
      <4> QED
        BY SMTT(30), <2>4, <4>1, MemAssumption DEF InHalf
    <3>2. PICK n : n = InsertAt(m, p + 1, Free(ea, z))
      OBVIOUS
    <3>3. /\ Free(ea, z) \in Areas /\ Free(ea, z).type = "FREE"
          /\ PagesOf(Free(ea, z)) = ea .. z - 1
      BY SMTT(30), <2>4, <3>1, FreeIs
    <3>4. /\ Free(a, sa) \in Areas /\ Free(a, sa).type = "FREE"
          /\ PagesOf(Free(a, sa)) = a .. sa - 1
      BY SMTT(30), <3>1, FreeIs
    <3>5. p + 1 \in 1 .. Len(m) + 1 /\ p < p + 1 /\ p \in 1 .. Len(m) + 1
          /\ ~(p + 1 < p + 1) /\ p # p + 1
      BY <2>2
    <3>6. /\ n \in Seq(Areas) /\ Len(n) = Len(m) + 1 /\ n[p] = bm /\ n[p + 1] = Free(ea, z)
          /\ Cover(n, "FREE") = Cover(m, "FREE") \cup Put(Free(ea, z), "FREE")
      <4>1. PICK q \in 1 .. Len(m) + 1 : q = p + 1
        BY <3>5
      <4>2. PICK e \in Areas : e = Free(ea, z)
        BY <3>3
      <4>3. IsInsert(n, m, q, e) /\ CoversMore(n, m, e)
        BY <3>2, <4>1, <4>2, InsertIs, Inserted, Zenon
      <4>4. n[p] = bm /\ n[p + 1] = e
        BY <2>3, <3>5, <4>1, <4>3, Zenon DEF IsInsert
      <4> QED
        BY <4>2, <4>3, <4>4, Zenon DEF IsInsert, CoversMore
    <3>7. mem_delete(m, sa, ea) = [n EXCEPT ![p].size = sa - a]
      <4>1. Span(ea, z) = Free(ea, z) /\ u64(sa - a) = sa - a
        BY <2>4, <3>1, SpanIs, Zenon
      <4> QED
        BY <1>3, <2>2, <2>3, <2>4, <2>9, <3>2, <4>1, Zenon
    <3>8. [n EXCEPT ![p].size = sa - a] = With(n, p, Area(n[p].type, n[p].addr, sa - a))
      BY <3>5, <3>6, SizeIs, Zenon
    <3>9. mem_delete(m, sa, ea) = With(n, p, Free(a, sa))
      BY <2>4, <2>5, <3>6, <3>7, <3>8, Zenon DEF Free
    <3>10. PICK r : r = With(n, p, Free(a, sa))
      OBVIOUS
    <3>11. r \in Seq(Areas)
      BY <3>4, <3>5, <3>6, <3>10, WithIs, Zenon DEF IsWith
    <3>12. Cover(r, "FREE") = Rest(n, p, "FREE") \cup a .. sa - 1
      <4>1. Cover(r, "FREE") = Rest(n, p, "FREE") \cup Put(Free(a, sa), "FREE")
        <5>1. p \in 1 .. Len(n)
          BY <3>5, <3>6, Zenon
        <5>2. PICK e \in Areas : e = Free(a, sa)
          BY <3>4
        <5>3. CoversWith(With(n, p, e), n, p, e)
          BY <3>6, <5>1, Replaced, Zenon
        <5> QED
          BY <3>10, <5>2, <5>3, Zenon DEF CoversWith
      <4> QED
        BY <3>4, <4>1, Zenon DEF Put
    <3>13. ea .. z - 1 \subseteq Rest(n, p, "FREE")
      <4>1. Put(n[p + 1], "FREE") \subseteq Rest(n, p, "FREE")
        BY <3>5, <3>6, RestHas, Zenon
      <4> QED
        BY <3>3, <3>6, <4>1, Zenon DEF Put
    <3>14. Cover(n, "FREE") = Rest(n, p, "FREE") \cup a .. z - 1
      <4>1. Cover(n, "FREE") = Rest(n, p, "FREE") \cup Put(n[p], "FREE")
        BY <3>5, <3>6, CoverAt, Zenon
      <4> QED
        BY <2>4, <2>5, <3>6, <4>1, Zenon DEF Put
    <3>15. Cover(n, "FREE") = Cover(m, "FREE") \cup ea .. z - 1
      BY <3>3, <3>6, Zenon DEF Put
    <3>16. a .. z - 1 \subseteq Cover(m, "FREE")
      <4>1. Cover(m, "FREE") = Rest(m, p, "FREE") \cup Put(m[p], "FREE")
        BY <2>2, CoverAt, Zenon
      <4> QED
        BY <2>3, <2>4, <2>5, <4>1, Zenon DEF Put
    <3>17. /\ a .. sa - 1 \subseteq a .. z - 1 /\ ea .. z - 1 \subseteq a .. z - 1
           /\ (a .. z - 1) \ del \subseteq (a .. sa - 1) \cup ea .. z - 1
      BY SMTT(30), <1>5, <2>4, <3>1
    <3>18. Cover(r, "FREE") \subseteq Cover(m, "FREE")
      BY <3>12, <3>14, <3>15, <3>16, <3>17, Zenon
    <3>19. Cover(m, "FREE") \ del \subseteq Cover(r, "FREE")
      BY <3>12, <3>13, <3>14, <3>15, <3>17, Zenon
    <3> QED
      BY <1>4, <3>9, <3>10, <3>11, <3>18, <3>19, Zenon DEF Edits
  <2> QED
    BY <2>6, <2>7, <2>8, <2>9, Zenon
<1> QED
  BY <1>6, <1>7, Zenon

\* Another FREE entry.
LEMMA InsertEdits ==
  ASSUME NEW m \in Seq(Areas), NEW n \in Seq(Areas), NEW e, NEW add,
         CoversMore(n, m, e), Put(e, "FREE") \subseteq add
  PROVE  Edits(m, n, add, {})
  BY Zenon DEF Edits, CoversMore

\* mem_add() frees only the range, and loses nothing.
LEMMA AddEdits ==
  ASSUME NEW m \in Seq(Areas), NEW sa \in Nat, NEW ea \in Nat, sa < ea, ea <= LLONG_MAX
  PROVE  Edits(m, mem_add(m, sa, ea), sa .. ea - 1, {})
<1> DEFINE T(bm) == /\ bm.type = "FREE"
                    /\ \/ Holds(bm, sa, ea) \/ JoinsHead(bm, sa, ea)
                       \/ JoinsLegs(bm, sa, ea) \/ ea < sp(bm)
           I == {k \in 1 .. Len(m) : T(m[k])}
<1>1. PICK p : p = SelectInSeq(m, LAMBDA bm : T(bm))
  BY Zenon
<1>2. p = IF I # {} THEN Min(I) ELSE 0
  BY <1>1, Zenon DEF SelectInSeq
<1>3. mem_add(m, sa, ea) =
        IF p = 0 THEN Append(m, Span(sa, ea))
        ELSE IF Holds(m[p], sa, ea) THEN m
        ELSE IF JoinsHead(m[p], sa, ea) THEN [m EXCEPT ![p] = Span(sa, ep(@))]
        ELSE IF JoinsLegs(m[p], sa, ea) THEN [m EXCEPT ![p].size = u64(ea - sp(m[p]))]
        ELSE InsertAt(m, p, Span(sa, ea))
  BY <1>1, Zenon DEF mem_add
<1>4. PICK e \in Areas : e = Span(sa, ea) /\ e.type = "FREE" /\ PagesOf(e) = sa .. ea - 1
  BY FreeIs, SpanIs, Zenon
<1>5. Put(e, "FREE") \subseteq sa .. ea - 1
  BY <1>4, Zenon DEF Put
<1>6. CASE I = {}
  <2>1. mem_add(m, sa, ea) = Append(m, e)
    BY <1>2, <1>3, <1>4, <1>6, Zenon
  <2>2. Append(m, e) \in Seq(Areas)
    OBVIOUS
  <2>3. CoversMore(Append(m, e), m, e)
    BY Appended, Zenon
  <2> QED
    BY <1>5, <2>1, <2>2, <2>3, InsertEdits, Zenon
<1>7. CASE I # {}
  <2>1. p \in I
    BY <1>2, <1>7, MapEntries, MinIsIn, Zenon
  <2>2. p \in 1 .. Len(m) /\ T(m[p]) /\ p # 0
    BY <2>1
  <2>3. PICK bm \in Areas : bm = m[p]
    BY <2>2
  <2>4. PICK a, z \in Nat :
          /\ bm.addr = a /\ a < z /\ z <= LLONG_MAX /\ PagesOf(bm) = a .. z - 1
          /\ sp(bm) = a /\ ep(bm) = z /\ bm.size = z - a
    BY AreaPages, Zenon
  <2>5. bm.type = "FREE"
    BY <2>2, <2>3, Zenon
  <2>6. CASE Holds(bm, sa, ea)
    <3>1. mem_add(m, sa, ea) = m
      BY <1>3, <2>2, <2>3, <2>6, Zenon
    <3> QED
      BY <3>1, Zenon DEF Edits
  <2>7. CASE ~Holds(bm, sa, ea) /\ JoinsHead(bm, sa, ea)
    <3>2. sa < a /\ a <= ea /\ sa < z
      BY SMTT(30), <2>4, <2>7 DEF JoinsHead
    <3>1. mem_add(m, sa, ea) = With(m, p, Free(sa, z))
      <4>1. mem_add(m, sa, ea) = With(m, p, Span(sa, z))
        BY <1>3, <2>2, <2>3, <2>4, <2>7, Zenon DEF With
      <4> QED
        BY <2>4, <3>2, <4>1, SpanIs, Zenon
    <3>3. /\ Free(sa, z) \in Areas /\ Free(sa, z).type = "FREE"
          /\ PagesOf(Free(sa, z)) = sa .. z - 1
      BY SMTT(30), <2>4, <3>2, FreeIs
    <3>4. /\ sa .. z - 1 \subseteq (a .. z - 1) \cup sa .. ea - 1
          /\ (a .. z - 1) \ {} \subseteq sa .. z - 1
      BY SMTT(30), <2>4, <3>2
    <3>5. Swap(m[p], Free(sa, z), sa .. ea - 1, {})
      BY <2>3, <2>4, <2>5, <3>3, <3>4, Zenon DEF Swap
    <3> QED
      BY <2>2, <3>1, <3>3, <3>5, ReplaceEdits, Zenon
  <2>8. CASE ~Holds(bm, sa, ea) /\ ~JoinsHead(bm, sa, ea) /\ JoinsLegs(bm, sa, ea)
    <3>4. sa <= z /\ z < ea /\ a < ea
      BY SMTT(30), <2>4, <2>8 DEF JoinsLegs
    <3>1. PICK v : v = u64(ea - sp(m[p])) /\ v = ea - a
      BY <2>3, <2>4, <3>4, SpanIs, Zenon
    <3>2. mem_add(m, sa, ea) = [m EXCEPT ![p].size = v]
      BY <1>3, <2>2, <2>3, <2>8, <3>1, Zenon
    <3>3. mem_add(m, sa, ea) = With(m, p, Free(a, ea))
      <4>1. [m EXCEPT ![p].size = v] = With(m, p, Area(m[p].type, m[p].addr, v))
        BY <2>2, SizeIs, Zenon
      <4> QED
        BY <2>3, <2>4, <2>5, <3>1, <3>2, <4>1, Zenon DEF Free
    <3>5. /\ Free(a, ea) \in Areas /\ Free(a, ea).type = "FREE"
          /\ PagesOf(Free(a, ea)) = a .. ea - 1
      BY <3>4, FreeIs
    <3>6. /\ a .. ea - 1 \subseteq (a .. z - 1) \cup sa .. ea - 1
          /\ (a .. z - 1) \ {} \subseteq a .. ea - 1
      BY SMTT(30), <2>4, <3>4
    <3>7. Swap(m[p], Free(a, ea), sa .. ea - 1, {})
      BY <2>3, <2>4, <2>5, <3>5, <3>6, Zenon DEF Swap
    <3> QED
      BY <2>2, <3>3, <3>5, <3>7, ReplaceEdits, Zenon
  <2>9. CASE ~Holds(bm, sa, ea) /\ ~JoinsHead(bm, sa, ea) /\ ~JoinsLegs(bm, sa, ea)
    <3>1. mem_add(m, sa, ea) = InsertAt(m, p, e)
      BY <1>3, <1>4, <2>2, <2>3, <2>9, Zenon
    <3>2. p \in 1 .. Len(m) + 1
      BY <2>2
    <3>3. IsInsert(InsertAt(m, p, e), m, p, e) /\ CoversMore(InsertAt(m, p, e), m, e)
      BY <3>2, InsertIs, Inserted, Zenon
    <3>4. InsertAt(m, p, e) \in Seq(Areas)
      BY <3>3, Zenon DEF IsInsert
    <3> QED
      BY <1>5, <3>1, <3>3, <3>4, InsertEdits, Zenon
  <2> QED
    BY <2>6, <2>7, <2>8, <2>9, Zenon
<1> QED
  BY <1>6, <1>7, Zenon

-----------------------------------------------------------------------------
(* The loops over the map. *)

\* From here on leaves are first-order steps for Zenon, unless they cite SMT.
USE ZenonT(30)

\* Induction up to n, from a least counterexample.
LEMMA UpTo ==
  ASSUME NEW n \in Nat, NEW T, 0 \in T, \A k \in 0 .. n - 1 : k \in T => k + 1 \in T
  PROVE  \A k \in 0 .. n : k \in T
<1>1. SUFFICES ASSUME NEW bad, bad = {k \in 0 .. n : k \notin T}, bad # {} PROVE FALSE
  OBVIOUS
<1>2. \A k \in bad : k \in 0 .. n /\ k \notin T  BY <1>1
<1>3. bad \subseteq Nat
  <2>1. \A k \in 0 .. n : k \in Nat  BY SMTT(30)
  <2>. QED  BY <1>2, <2>1
<1>. DEFINE R == {ss \in Nat \X Nat : ss[1] < ss[2]}
<1>4. IsWellFoundedOn(R, Nat)  BY NatLessThanWellFounded DEF OpToRel
<1>5. \A x, y \in Nat : y < x => <<y, x>> \in R  BY SMTT(30)
<1>. HIDE DEF R
<1>6. PICK x \in bad : \A y \in bad : ~(<<y, x>> \in R)  BY <1>1, <1>3, <1>4, WFMin
<1>7. x \in 0 .. n /\ x \notin T /\ x # 0 /\ x \in Nat  BY <1>2, <1>3
<1>8. /\ x - 1 \in 0 .. n - 1 /\ x - 1 \in Nat /\ x - 1 < x /\ x - 1 + 1 = x
      /\ x - 1 \in 0 .. n
  BY SMTT(30), <1>7
<1>9. x - 1 \notin bad  BY <1>5, <1>6, <1>7, <1>8
<1>10. x - 1 \in T  BY <1>1, <1>8, <1>9
<1>. QED  BY <1>7, <1>8, <1>10

\* A loop of n rounds that starts with x; F[k] is round k, and stays in S.
Rounds(F, n, S) == \A k \in 0 .. n - 1 : \A v \in S : F[k][v] \in S
Loop(g, n, S, x, F) ==
  g \in [0 .. n -> S] /\ g[0] = x /\ \A k \in 0 .. n - 1 : g[k + 1] = F[k][g[k]]

\* There is the function of its values.
LEMMA LoopExists ==
  ASSUME NEW n \in Nat, NEW S, NEW x \in S, NEW F, Rounds(F, n, S)
  PROVE  \E g : Loop(g, n, S, x, F)
<1>. DEFINE P(m, g) == g[0] = x /\ \A k \in 0 .. n - 1 : k < m => g[k + 1] = F[k][g[k]]
            T == {m \in 0 .. n : \E g \in [0 .. m -> S] : P(m, g)}
<1>1. 0 \in T
  <2>1. PICK g : g = [k \in 0 .. 0 |-> x]  OBVIOUS
  <2>2. 0 \in 0 .. 0 /\ 0 \in 0 .. n /\ \A k \in 0 .. n - 1 : ~(k < 0)  BY SMTT(30)
  <2>3. g \in [0 .. 0 -> S] /\ g[0] = x  BY <2>1, <2>2
  <2>. QED  BY <2>2, <2>3
<1>2. ASSUME NEW m \in 0 .. n - 1, m \in T PROVE m + 1 \in T
  <2>1. PICK g \in [0 .. m -> S] : P(m, g)  BY <1>2
  <2>2. PICK q \in 0 .. n : q = m + 1  BY SMTT(30)
  <2>3. PICK h : h = [k \in 0 .. q |-> IF k = q THEN F[m][g[m]] ELSE g[k]]  OBVIOUS
  <2>4. /\ m \in 0 .. m /\ 0 \in 0 .. q /\ 0 # q /\ q \in 0 .. q
        /\ \A k \in 0 .. q : k # q => k \in 0 .. m
        /\ \A k \in 0 .. n - 1 : k < q =>
             /\ k \in 0 .. q /\ k # q /\ k + 1 \in 0 .. q
             /\ (k = m /\ k + 1 = q) \/ (k < m /\ k + 1 # q)
    BY SMTT(30), <2>2
  <2>5. F[m][g[m]] \in S  BY <2>1, <2>4 DEF Rounds
  <2>6. h \in [0 .. q -> S]  BY <2>1, <2>3, <2>4, <2>5
  <2>7. h[0] = x  BY <2>1, <2>3, <2>4
  <2>8. ASSUME NEW k \in 0 .. n - 1, k < q PROVE h[k + 1] = F[k][h[k]]
    <3>1. h[k] = g[k]  BY <2>3, <2>4, <2>8
    <3>2. CASE k = m /\ k + 1 = q  BY <2>3, <2>4, <3>1, <3>2
    <3>3. CASE k < m /\ k + 1 # q
      <4>1. h[k + 1] = g[k + 1]  BY <2>3, <2>4, <2>8, <3>3
      <4>2. g[k + 1] = F[k][g[k]]  BY <2>1, <3>3
      <4>. QED  BY <3>1, <4>1, <4>2
    <3>. QED  BY <2>4, <2>8, <3>2, <3>3
  <2>9. P(q, h)  BY <2>7, <2>8
  <2>. HIDE DEF P
  <2>10. q \in T  BY <2>6, <2>9
  <2>. QED  BY <2>2, <2>10
<1>3. n \in T
  <2>. HIDE DEF T
  <2>1. \A k \in 0 .. n : k \in T  BY <1>1, <1>2, UpTo
  <2>2. n \in 0 .. n  BY SMTT(30)
  <2>. QED  BY <2>1, <2>2
<1>4. \A k \in 0 .. n - 1 : k < n  BY SMTT(30)
<1>. QED  BY <1>3, <1>4 DEF Loop

\* mem_limit() takes only what is above the limit.
LEMMA LimitEdits ==
  ASSUME NEW m \in Seq(Areas), NEW ml \in Nat \ {0}
  PROVE  Edits(m, mem_limit(m, ml), {}, ml .. LLONG_MAX)
<1>. DEFINE n == Len(m)
            S == {v \in Seq(Areas) : Edits(m, v, {}, ml .. LLONG_MAX)}
            next(k, v) == LimitRound(v, k, ml)
            Is(g) == g = [k \in 0 .. n |-> IF k = 0 THEN m ELSE next(k, g[k - 1])]
<1>1. n \in Nat /\ m \in S
  <2>1. Edits(m, m, {}, ml .. LLONG_MAX)  BY DEF Edits
  <2>. QED  BY <2>1, MapEntries
<1>2. ASSUME NEW k \in 1 .. n, NEW v \in S PROVE next(k, v) \in S
  <2>1. k \in Nat \ {0}  BY SMTT(30), MapEntries
  <2>2. Edits(v, next(k, v), {}, ml .. LLONG_MAX)  BY <2>1, LimitRoundEdits
  <2>3. Edits(m, v, {}, ml .. LLONG_MAX)  OBVIOUS
  <2>4. Edits(m, next(k, v), {}, ml .. LLONG_MAX)  BY <2>2, <2>3 DEF Edits
  <2>. QED  BY <2>2, <2>4 DEF Edits
<1>. HIDE DEF next, S
<1>3. \E g : Is(g)
  <2>1. PICK F : F = [k \in 0 .. n - 1 |-> [v \in S |-> next(k + 1, v)]]  OBVIOUS
  <2>2. Rounds(F, n, S)
    <3>1. \A k \in 0 .. n - 1 : k + 1 \in 1 .. n  BY SMTT(30), <1>1
    <3>. QED  BY <1>2, <2>1, <3>1 DEF Rounds
  <2>3. PICK g \in [0 .. n -> S] : g[0] = m /\ \A k \in 0 .. n - 1 : g[k + 1] = F[k][g[k]]
    <3>1. \E g : Loop(g, n, S, m, F)  BY <1>1, <2>2, LoopExists
    <3>. QED  BY <3>1 DEF Loop
  <2>4. ASSUME NEW k \in 0 .. n, k # 0 PROVE g[k] = next(k, g[k - 1])
    <3>1. k - 1 \in 0 .. n - 1 /\ k - 1 \in 0 .. n /\ k - 1 + 1 = k  BY SMTT(30), <1>1, <2>4
    <3>2. g[k] = F[k - 1][g[k - 1]] /\ g[k - 1] \in S  BY <2>3, <3>1
    <3>. QED  BY <2>1, <3>1, <3>2
  <2>5. g = [k \in 0 .. n |-> IF k = 0 THEN m ELSE next(k, g[k - 1])]  BY <2>3, <2>4
  <2>. QED  BY <2>5
<1>4. PICK g : Is(g) /\ mem_limit(m, ml) = g[n]
  <2>1. PICK h : h = CHOOSE g : Is(g)  OBVIOUS
  <2>2. mem_limit(m, ml) = h[n]  BY <1>1, <2>1 DEF mem_limit, next
  <2>. HIDE DEF Is
  <2>. QED  BY <1>3, <2>1, <2>2
<1>5. \A k \in 0 .. n : g[k] = IF k = 0 THEN m ELSE next(k, g[k - 1])
  <2>1. PICK f : f = [k \in 0 .. n |-> IF k = 0 THEN m ELSE next(k, g[k - 1])]  OBVIOUS
  <2>2. \A k \in 0 .. n : f[k] = IF k = 0 THEN m ELSE next(k, g[k - 1])  BY <2>1
  <2>3. f = g  BY <1>4, <2>1
  <2>. QED  BY <2>2, <2>3
<1>6. PICK T : T = {k \in 0 .. n : g[k] \in S}  OBVIOUS
<1>7. 0 \in T
  <2>1. 0 \in 0 .. n  BY SMTT(30), <1>1
  <2>. QED  BY <1>1, <1>5, <1>6, <2>1
<1>8. ASSUME NEW k \in 0 .. n - 1, k \in T PROVE k + 1 \in T
  <2>1. PICK j \in 0 .. n : j = k + 1 /\ j # 0 /\ j - 1 = k /\ j \in 1 .. n  BY SMTT(30), <1>1
  <2>2. g[j] = next(j, g[k])  BY <1>5, <2>1
  <2>. QED  BY <1>2, <1>6, <1>8, <2>1, <2>2
<1>9. n \in T
  <2>1. \A k \in 0 .. n : k \in T  BY <1>1, <1>7, <1>8, UpTo
  <2>2. n \in 0 .. n  BY SMTT(30), <1>1
  <2>. QED  BY <2>1, <2>2
<1>. QED  BY <1>4, <1>6, <1>9 DEF S

\* cnvmem is at most the size of memory.
LEMMA ConventionalType ==
  ASSUME NEW m \in Seq(Areas), \A k \in 1 .. Len(m) : end(m[k]) <= Pages
  PROVE  Conventional(m) \in 0 .. Pages
<1>. DEFINE n == Len(m)
            S == 0 .. Pages
            next(k, v) == IF m[k].addr < IOM_BEGIN /\ end(m[k]) > v THEN end(m[k]) ELSE v
            Is(g) == g = [k \in 0 .. n |-> IF k = 0 THEN 0 ELSE next(k, g[k - 1])]
<1>1. n \in Nat /\ 0 \in S
  <2>1. 0 \in S  BY SMTT(30), MemAssumption
  <2>. QED  BY <2>1, MapEntries
<1>2. ASSUME NEW k \in 1 .. n, NEW v \in S PROVE next(k, v) \in S
  <2>1. m[k] \in Areas  BY MapEntries
  <2>2. end(m[k]) \in Nat /\ end(m[k]) <= Pages  BY <2>1, AreaFields
  <2>3. end(m[k]) \in S  BY SMTT(30), <2>2, MemAssumption
  <2>. QED  BY <2>3
<1>. HIDE DEF next, S
<1>3. \E g : Is(g)
  <2>1. PICK F : F = [k \in 0 .. n - 1 |-> [v \in S |-> next(k + 1, v)]]  OBVIOUS
  <2>2. Rounds(F, n, S)
    <3>1. \A k \in 0 .. n - 1 : k + 1 \in 1 .. n  BY SMTT(30), <1>1
    <3>. QED  BY <1>2, <2>1, <3>1 DEF Rounds
  <2>3. PICK g \in [0 .. n -> S] : g[0] = 0 /\ \A k \in 0 .. n - 1 : g[k + 1] = F[k][g[k]]
    <3>1. \E g : Loop(g, n, S, 0, F)  BY <1>1, <2>2, LoopExists
    <3>. QED  BY <3>1 DEF Loop
  <2>4. ASSUME NEW k \in 0 .. n, k # 0 PROVE g[k] = next(k, g[k - 1])
    <3>1. k - 1 \in 0 .. n - 1 /\ k - 1 \in 0 .. n /\ k - 1 + 1 = k  BY SMTT(30), <1>1, <2>4
    <3>2. g[k] = F[k - 1][g[k - 1]] /\ g[k - 1] \in S  BY <2>3, <3>1
    <3>. QED  BY <2>1, <3>1, <3>2
  <2>5. g = [k \in 0 .. n |-> IF k = 0 THEN 0 ELSE next(k, g[k - 1])]  BY <2>3, <2>4
  <2>. QED  BY <2>5
<1>4. PICK g : Is(g) /\ Conventional(m) = g[n]
  <2>1. PICK h : h = CHOOSE g : Is(g)  OBVIOUS
  <2>2. Conventional(m) = h[n]  BY <1>1, <2>1 DEF Conventional, next
  <2>. HIDE DEF Is
  <2>. QED  BY <1>3, <2>1, <2>2
<1>5. \A k \in 0 .. n : g[k] = IF k = 0 THEN 0 ELSE next(k, g[k - 1])
  <2>1. PICK f : f = [k \in 0 .. n |-> IF k = 0 THEN 0 ELSE next(k, g[k - 1])]  OBVIOUS
  <2>2. \A k \in 0 .. n : f[k] = IF k = 0 THEN 0 ELSE next(k, g[k - 1])  BY <2>1
  <2>3. f = g  BY <1>4, <2>1
  <2>. QED  BY <2>2, <2>3
<1>6. PICK T : T = {k \in 0 .. n : g[k] \in S}  OBVIOUS
<1>7. 0 \in T
  <2>1. 0 \in 0 .. n  BY SMTT(30), <1>1
  <2>. QED  BY <1>1, <1>5, <1>6, <2>1
<1>8. ASSUME NEW k \in 0 .. n - 1, k \in T PROVE k + 1 \in T
  <2>1. PICK j \in 0 .. n : j = k + 1 /\ j # 0 /\ j - 1 = k /\ j \in 1 .. n  BY SMTT(30), <1>1
  <2>2. g[j] = next(j, g[k])  BY <1>5, <2>1
  <2>. QED  BY <1>2, <1>6, <1>8, <2>1, <2>2
<1>9. n \in T
  <2>1. \A k \in 0 .. n : k \in T  BY <1>1, <1>7, <1>8, UpTo
  <2>2. n \in 0 .. n  BY SMTT(30), <1>1
  <2>. QED  BY <2>1, <2>2
<1>. QED  BY <1>4, <1>6, <1>9 DEF S

\* extmem: the pages from 1M on are pages of the map.
PagesIn(m) == {x \in Int : \E k \in 1 .. Len(m) : x \in PagesOf(m[k])}
Reach(e) == IOM_END .. IOM_END + e - 1
LEMMA ExtendedIs ==
  ASSUME NEW m \in Seq(Areas), \A k \in 1 .. Len(m) : end(m[k]) <= Pages
  PROVE  /\ Extended(m) \in 0 .. Pages - IOM_END
         /\ Reach(Extended(m)) \subseteq PagesIn(m)
<1>. DEFINE n == Len(m)
            S == {e \in 0 .. Pages - IOM_END : Reach(e) \subseteq PagesIn(m)}
            next(k, v) == IF m[k].addr = v + IOM_END THEN v + m[k].size ELSE v
            Is(g) == g = [k \in 0 .. n |-> IF k = 0 THEN 0 ELSE next(k, g[k - 1])]
<1>1. n \in Nat /\ 0 \in S
  <2>1. 0 \in 0 .. Pages - IOM_END /\ Reach(0) = {}  BY SMTT(30), MemAssumption DEF Reach
  <2>. QED  BY <2>1, MapEntries
<1>2. ASSUME NEW k \in 1 .. n, NEW v \in S PROVE next(k, v) \in S
  <2>1. PICK bm \in Areas : bm = m[k]  BY MapEntries
  <2>2. v \in 0 .. Pages - IOM_END /\ Reach(v) \subseteq PagesIn(m)  OBVIOUS
  <2>3. CASE bm.addr = v + IOM_END
    <3>1. PICK a, z \in Nat :
            bm.addr = a /\ end(bm) = z /\ a < z /\ z <= Pages /\ PagesOf(bm) = a .. z - 1
      <4>1. end(bm) <= Pages  BY <2>1
      <4>. QED  BY <4>1, AreaPages
    <3>2. PICK e : e = v + bm.size  OBVIOUS
    <3>3. bm.size = z - a
      <4>1. bm.addr \in Nat /\ bm.size \in Nat \ {0} /\ end(bm) = bm.addr + bm.size  BY AreaFields
      <4>. QED  BY SMTT(30), <3>1, <4>1
    <3>4. /\ e \in 0 .. Pages - IOM_END
          /\ Reach(e) = Reach(v) \cup a .. z - 1 /\ a .. z - 1 \subseteq Int
      <4>1. IOM_END \in Nat /\ Pages \in Nat /\ v \in Nat  BY SMTT(30), MemAssumption, <2>2
      <4>2. a = v + IOM_END  BY <2>3, <3>1
      <4>3. e \in Nat /\ e = z - IOM_END /\ e <= Pages - IOM_END
        <5>1. e = v + (z - a)  BY <3>2, <3>3
        <5>. QED  BY SMTT(30), <3>1, <4>1, <4>2, <5>1
      <4>4. IOM_END .. z - 1 = (IOM_END .. a - 1) \cup a .. z - 1  BY SMTT(30), <3>1, <4>1, <4>2
      <4>5. IOM_END + e - 1 = z - 1 /\ IOM_END + v - 1 = a - 1  BY SMTT(30), <3>1, <4>1, <4>2, <4>3
      <4>6. e \in 0 .. Pages - IOM_END /\ a .. z - 1 \subseteq Int  BY SMTT(30), <4>1, <4>3
      <4>. QED  BY <4>4, <4>5, <4>6 DEF Reach
    <3>5. a .. z - 1 \subseteq PagesIn(m)  BY <2>1, <3>1, <3>4 DEF PagesIn
    <3>6. e \in S  BY <2>2, <3>4, <3>5
    <3>. QED  BY <2>1, <2>3, <3>2, <3>6
  <2>4. CASE bm.addr # v + IOM_END  BY <2>1, <2>4
  <2>. QED  BY <2>3, <2>4
<1>. HIDE DEF next, S
<1>3. \E g : Is(g)
  <2>1. PICK F : F = [k \in 0 .. n - 1 |-> [v \in S |-> next(k + 1, v)]]  OBVIOUS
  <2>2. Rounds(F, n, S)
    <3>1. \A k \in 0 .. n - 1 : k + 1 \in 1 .. n  BY SMTT(30), <1>1
    <3>. QED  BY <1>2, <2>1, <3>1 DEF Rounds
  <2>3. PICK g \in [0 .. n -> S] : g[0] = 0 /\ \A k \in 0 .. n - 1 : g[k + 1] = F[k][g[k]]
    <3>1. \E g : Loop(g, n, S, 0, F)  BY <1>1, <2>2, LoopExists
    <3>. QED  BY <3>1 DEF Loop
  <2>4. ASSUME NEW k \in 0 .. n, k # 0 PROVE g[k] = next(k, g[k - 1])
    <3>1. k - 1 \in 0 .. n - 1 /\ k - 1 \in 0 .. n /\ k - 1 + 1 = k  BY SMTT(30), <1>1, <2>4
    <3>2. g[k] = F[k - 1][g[k - 1]] /\ g[k - 1] \in S  BY <2>3, <3>1
    <3>. QED  BY <2>1, <3>1, <3>2
  <2>5. g = [k \in 0 .. n |-> IF k = 0 THEN 0 ELSE next(k, g[k - 1])]  BY <2>3, <2>4
  <2>. QED  BY <2>5
<1>4. PICK g : Is(g) /\ Extended(m) = g[n]
  <2>1. PICK h : h = CHOOSE g : Is(g)  OBVIOUS
  <2>2. Extended(m) = h[n]  BY <1>1, <2>1 DEF Extended, next
  <2>. HIDE DEF Is
  <2>. QED  BY <1>3, <2>1, <2>2
<1>5. \A k \in 0 .. n : g[k] = IF k = 0 THEN 0 ELSE next(k, g[k - 1])
  <2>1. PICK f : f = [k \in 0 .. n |-> IF k = 0 THEN 0 ELSE next(k, g[k - 1])]  OBVIOUS
  <2>2. \A k \in 0 .. n : f[k] = IF k = 0 THEN 0 ELSE next(k, g[k - 1])  BY <2>1
  <2>3. f = g  BY <1>4, <2>1
  <2>. QED  BY <2>2, <2>3
<1>6. PICK T : T = {k \in 0 .. n : g[k] \in S}  OBVIOUS
<1>7. 0 \in T
  <2>1. 0 \in 0 .. n  BY SMTT(30), <1>1
  <2>. QED  BY <1>1, <1>5, <1>6, <2>1
<1>8. ASSUME NEW k \in 0 .. n - 1, k \in T PROVE k + 1 \in T
  <2>1. PICK j \in 0 .. n : j = k + 1 /\ j # 0 /\ j - 1 = k /\ j \in 1 .. n  BY SMTT(30), <1>1
  <2>2. g[j] = next(j, g[k])  BY <1>5, <2>1
  <2>. QED  BY <1>2, <1>6, <1>8, <2>1, <2>2
<1>9. n \in T
  <2>1. \A k \in 0 .. n : k \in T  BY <1>1, <1>7, <1>8, UpTo
  <2>2. n \in 0 .. n  BY SMTT(30), <1>1
  <2>. QED  BY <2>1, <2>2
<1>. QED  BY <1>4, <1>6, <1>9 DEF S
-----------------------------------------------------------------------------
(* efi_memprobe_internal(). *)

\* An area of any type within memory is an entry.
LEMMA AreaIs ==
  ASSUME NEW t \in BiosTypes, NEW a \in Nat, NEW z \in Nat, a < z, z <= LLONG_MAX
  PROVE  /\ Area(t, a, z - a) \in Areas /\ Area(t, a, z - a).type = t
         /\ PagesOf(Area(t, a, z - a)) = a .. z - 1
BY SMTT(30), MemAssumption DEF Areas, end, Area, PagesOf

\* No page of b is in the map; and n is m with the pages of b.
Out(m, b) == \A k \in 1 .. Len(m) : PagesOf(m[k]) \cap PagesOf(b) = {}
Merged(n, m, b) == n \in Seq(Areas) /\ CoversMore(n, m, b) /\ Disjoint(n)

\* A range that touches no entry.
LEMMA AppendMerges ==
  ASSUME NEW m \in Seq(Areas), NEW b \in Areas, Out(m, b), Disjoint(m)
  PROVE  Merged(Append(m, b), m, b)
<1>1. PICK n : n = Append(m, b)  OBVIOUS
<1>2. /\ n \in Seq(Areas) /\ DOMAIN n = 1 .. Len(m) + 1 /\ DOMAIN m = 1 .. Len(m)
      /\ \A k \in 1 .. Len(m) : n[k] = m[k]
      /\ n[Len(m) + 1] = b
      /\ \A k \in 1 .. Len(m) + 1 : k \in 1 .. Len(m) \/ k = Len(m) + 1
  BY SMTT(30), <1>1
<1>3. CoversMore(n, m, b)  BY <1>1, Appended
<1>4. ASSUME NEW j \in DOMAIN n, NEW k \in DOMAIN n, j # k PROVE PagesOf(n[j]) \cap PagesOf(n[k]) = {}
  <2>1. CASE j \in 1 .. Len(m) /\ k \in 1 .. Len(m)
    <3>1. PagesOf(m[j]) \cap PagesOf(m[k]) = {}  BY <1>2, <1>4, <2>1 DEF Disjoint
    <3>. QED  BY <1>2, <2>1, <3>1
  <2>2. CASE j \in 1 .. Len(m) /\ k = Len(m) + 1
    <3>1. PagesOf(m[j]) \cap PagesOf(b) = {}  BY <2>2 DEF Out
    <3>. QED  BY <1>2, <2>2, <3>1
  <2>3. CASE j = Len(m) + 1 /\ k \in 1 .. Len(m)
    <3>1. PagesOf(m[k]) \cap PagesOf(b) = {}  BY <2>3 DEF Out
    <3>2. n[j] = b /\ n[k] = m[k]  BY <1>2, <2>3
    <3>. QED  BY <3>1, <3>2
  <2>. QED  BY <1>2, <1>4, <2>1, <2>2, <2>3
<1>5. Disjoint(n)  BY <1>4 DEF Disjoint
<1>. QED  BY <1>1, <1>2, <1>3, <1>5 DEF Merged

\* A range that is joined to the entry at p: e has the pages of both.
Joined(e, bm, b) ==
  e.type = bm.type /\ b.type = bm.type /\ PagesOf(e) = PagesOf(bm) \cup PagesOf(b)
LEMMA JoinMerges ==
  ASSUME NEW m \in Seq(Areas), NEW b \in Areas, NEW p \in 1 .. Len(m), NEW e \in Areas,
         Out(m, b), Disjoint(m), Joined(e, m[p], b)
  PROVE  Merged(With(m, p, e), m, b)
<1>1. PICK n : n = With(m, p, e)  OBVIOUS
<1>2. IsWith(n, m, p, e) /\ CoversWith(n, m, p, e)  BY <1>1, WithIs, Replaced
<1>3. ASSUME NEW t PROVE Cover(n, t) = Cover(m, t) \cup Put(b, t)
  <2>1. Cover(n, t) = Rest(m, p, t) \cup Put(e, t)  BY <1>2 DEF CoversWith
  <2>2. Cover(m, t) = Rest(m, p, t) \cup Put(m[p], t)  BY CoverAt
  <2>3. Put(e, t) = Put(m[p], t) \cup Put(b, t)  BY DEF Joined, Put
  <2>. QED  BY <2>1, <2>2, <2>3
<1>4. /\ n \in Seq(Areas) /\ \A k \in 1 .. Len(m) : n[k] = IF k = p THEN e ELSE m[k]
      /\ DOMAIN n = 1 .. Len(m) /\ DOMAIN m = 1 .. Len(m)
  <2>1. n \in Seq(Areas) /\ Len(n) = Len(m)  BY <1>2 DEF IsWith
  <2>2. \A k \in 1 .. Len(m) : n[k] = IF k = p THEN e ELSE m[k]  BY <1>2 DEF IsWith
  <2>3. DOMAIN n = 1 .. Len(n) /\ DOMAIN m = 1 .. Len(m)  BY <2>1, MapEntries
  <2>. QED  BY <2>1, <2>2, <2>3
<1>5. ASSUME NEW j \in 1 .. Len(m), j # p PROVE PagesOf(e) \cap PagesOf(m[j]) = {}
  <2>1. PagesOf(m[j]) \cap PagesOf(b) = {}  BY DEF Out
  <2>2. PagesOf(m[j]) \cap PagesOf(m[p]) = {}  BY <1>4, <1>5 DEF Disjoint
  <2>3. PagesOf(e) = PagesOf(m[p]) \cup PagesOf(b)  BY DEF Joined
  <2>. QED  BY <2>1, <2>2, <2>3
<1>6. ASSUME NEW j \in 1 .. Len(m), NEW k \in 1 .. Len(m), j # k
      PROVE  PagesOf(n[j]) \cap PagesOf(n[k]) = {}
  <2>1. CASE j = p
    <3>1. n[j] = e /\ n[k] = m[k] /\ k # p  BY <1>4, <1>6, <2>1
    <3>. QED  BY <1>5, <3>1
  <2>2. CASE k = p
    <3>1. n[k] = e /\ n[j] = m[j] /\ j # p  BY <1>4, <1>6, <2>2
    <3>. QED  BY <1>5, <3>1
  <2>3. CASE j # p /\ k # p
    <3>1. n[k] = m[k] /\ n[j] = m[j]  BY <1>4, <2>3
    <3>. QED  BY <1>4, <1>6, <3>1 DEF Disjoint
  <2>. QED  BY <2>1, <2>2, <2>3
<1>7. Disjoint(n)  BY <1>4, <1>6 DEF Disjoint
<1>8. CoversMore(n, m, b)  BY <1>3 DEF CoversMore
<1>. QED  BY <1>1, <1>4, <1>7, <1>8 DEF Merged

\* The address and the size of an entry.
Moved(m, p, a, v) == [m EXCEPT ![p].addr = a, ![p].size = v]
LEMMA AddrSizeIs ==
  ASSUME NEW m \in Seq(Areas), NEW p \in 1 .. Len(m), NEW a, NEW v
  PROVE  Moved(m, p, a, v) = With(m, p, Area(m[p].type, a, v))
<1>1. m[p] \in Areas /\ p \in DOMAIN m  BY MapEntries
<1>2. PICK t, x, y : m[p] = Area(t, x, y) /\ m[p].type = t  BY <1>1, AreaFields
<1>3. PICK q : q = Area(t, a, y)  OBVIOUS
<1>4. [m[p] EXCEPT !.addr = a] = q
  <2>1. [Area(t, x, y) EXCEPT !.addr = a] = Area(t, a, y)  BY SMTT(30) DEF Area
  <2>. QED  BY <1>2, <1>3, <2>1
<1>5. [q EXCEPT !.size = v] = Area(t, a, v)
  <2>1. [Area(t, a, y) EXCEPT !.size = v] = Area(t, a, v)  BY SMTT(30) DEF Area
  <2>. QED  BY <1>3, <2>1
<1>6. PICK n : n = [m EXCEPT ![p].addr = a]  OBVIOUS
<1>7. n = [m EXCEPT ![p] = q]  BY <1>4, <1>6
<1>8. n[p] = q /\ p \in DOMAIN n  BY <1>1, <1>7
<1>9. PICK e : e = Area(t, a, v)  OBVIOUS
<1>10. [n EXCEPT ![p].size = v] = [n EXCEPT ![p] = e]  BY <1>5, <1>8, <1>9
<1>11. [n EXCEPT ![p] = e] = [m EXCEPT ![p] = e]  BY <1>7
<1>12. Moved(m, p, a, v) = [n EXCEPT ![p].size = v]  BY <1>6 DEF Moved
<1>. QED  BY <1>2, <1>9, <1>10, <1>11, <1>12 DEF With

Resized(m, p, v) == [m EXCEPT ![p].size = v]
LEMMA ResizedIs ==
  ASSUME NEW m \in Seq(Areas), NEW p \in 1 .. Len(m), NEW v
  PROVE  Resized(m, p, v) = With(m, p, Area(m[p].type, m[p].addr, v))
<1>1. m[p] \in Areas  BY MapEntries
<1>2. [m[p] EXCEPT !.size = v] = Area(m[p].type, m[p].addr, v)  BY SMTT(30), <1>1 DEF Areas, Area
<1>. QED  BY <1>2 DEF With, Resized

\* One more range, which is in no entry yet.
LEMMA MergeIs ==
  ASSUME NEW m \in Seq(Areas), NEW b \in Areas, Out(m, b), Disjoint(m)
  PROVE  Merged(Merge(m, b), m, b)
<1>. DEFINE T(bm) == Follows(bm, b) \/ Precedes(bm, b)
            I == {k \in 1 .. Len(m) : T(m[k])}
<1>1. PICK p : p = SelectInSeq(m, LAMBDA bm : T(bm))  OBVIOUS
<1>2. p = IF I # {} THEN Min(I) ELSE 0  BY <1>1 DEF SelectInSeq
<1>. DEFINE after == Resized(m, p, end(b) - m[p].addr)
            before == Moved(m, p, b.addr, end(m[p]) - b.addr)
<1>3. Merge(m, b) =
        IF p = 0 THEN Append(m, b) ELSE IF Follows(m[p], b) THEN after ELSE before
  BY <1>1 DEF Merge, Resized, Moved
<1>4. CASE I = {}
  <2>1. Merge(m, b) = Append(m, b)  BY <1>2, <1>3, <1>4
  <2>. QED  BY <2>1, AppendMerges
<1>5. CASE I # {}
  <2>1. p \in I  BY <1>2, <1>5, MapEntries, MinIsIn
  <2>2. p \in 1 .. Len(m) /\ T(m[p])  BY <2>1
  <2>3. p # 0  BY SMTT(30), <2>2, MapEntries
  <2>4. PICK bm \in Areas : bm = m[p]  BY <2>2, MapEntries
  <2>5. PICK a, z \in Nat :
          bm.addr = a /\ end(bm) = z /\ a < z /\ z <= LLONG_MAX /\ PagesOf(bm) = a .. z - 1
    BY AreaPages
  <2>6. PICK c, y \in Nat :
          b.addr = c /\ end(b) = y /\ c < y /\ y <= LLONG_MAX /\ PagesOf(b) = c .. y - 1
    BY AreaPages
  <2>7. (a .. z - 1) \cap (c .. y - 1) = {}
    <3>1. PagesOf(m[p]) \cap PagesOf(b) = {}  BY <2>2 DEF Out
    <3>. QED  BY <2>4, <2>5, <2>6, <3>1
  <2>8. bm.type \in BiosTypes  BY AreaFields
  <2>9. CASE Follows(bm, b)
    <3>1. b.type = bm.type /\ a <= c /\ c <= z  BY <2>5, <2>6, <2>9 DEF Follows
    <3>2. c = z
      <4>1. c < z => c \in a .. z - 1 /\ c \in c .. y - 1  BY SMTT(30), <2>5, <2>6, <3>1
      <4>2. ~(c < z)  BY <2>7, <4>1
      <4>. QED  BY SMTT(30), <3>1, <4>2
    <3>3. a < y /\ a .. y - 1 = (a .. z - 1) \cup c .. y - 1  BY SMTT(30), <2>5, <2>6, <3>2
    <3>4. PICK e \in Areas : /\ e = Area(bm.type, a, y - a) /\ e.type = bm.type
                             /\ PagesOf(e) = a .. y - 1
      <4>1. PICK t \in BiosTypes : t = bm.type  BY <2>8
      <4>2. /\ Area(t, a, y - a) \in Areas /\ Area(t, a, y - a).type = t
            /\ PagesOf(Area(t, a, y - a)) = a .. y - 1
        <5>1. a < y /\ y <= LLONG_MAX  BY <2>6, <3>3
        <5>. QED  BY <5>1, AreaIs
      <4>. QED  BY <4>1, <4>2
    <3>5. Merge(m, b) = With(m, p, e)
      <4>1. after = With(m, p, Area(m[p].type, m[p].addr, end(b) - m[p].addr))  BY <2>2, ResizedIs
      <4>. HIDE DEF after, before
      <4>2. Merge(m, b) = after  BY <1>3, <2>3, <2>4, <2>9
      <4>3. m[p].type = bm.type /\ m[p].addr = a /\ end(b) - m[p].addr = y - a  BY <2>4, <2>5, <2>6
      <4>4. e = Area(m[p].type, m[p].addr, end(b) - m[p].addr)  BY <3>4, <4>3
      <4>. QED  BY <4>1, <4>2, <4>4
    <3>6. Joined(e, m[p], b)  BY <2>4, <2>5, <2>6, <3>1, <3>3, <3>4 DEF Joined
    <3>. QED  BY <2>2, <3>5, <3>6, JoinMerges
  <2>10. CASE ~Follows(bm, b)
    <3>1. b.type = bm.type /\ c <= a /\ a <= y  BY <2>2, <2>4, <2>5, <2>6, <2>10 DEF Precedes
    <3>2. a = y
      <4>1. a < y => a \in a .. z - 1 /\ a \in c .. y - 1  BY SMTT(30), <2>5, <2>6, <3>1
      <4>2. ~(a < y)  BY <2>7, <4>1
      <4>. QED  BY SMTT(30), <3>1, <4>2
    <3>3. c < z /\ c .. z - 1 = (a .. z - 1) \cup c .. y - 1  BY SMTT(30), <2>5, <2>6, <3>2
    <3>4. PICK e \in Areas : /\ e = Area(bm.type, c, z - c) /\ e.type = bm.type
                             /\ PagesOf(e) = c .. z - 1
      <4>1. PICK t \in BiosTypes : t = bm.type  BY <2>8
      <4>2. /\ Area(t, c, z - c) \in Areas /\ Area(t, c, z - c).type = t
            /\ PagesOf(Area(t, c, z - c)) = c .. z - 1
        <5>1. c < z /\ z <= LLONG_MAX  BY <2>5, <3>3
        <5>. QED  BY <5>1, AreaIs
      <4>. QED  BY <4>1, <4>2
    <3>5. Merge(m, b) = With(m, p, e)
      <4>1. before = With(m, p, Area(m[p].type, b.addr, end(m[p]) - b.addr))  BY <2>2, AddrSizeIs
      <4>. HIDE DEF after, before
      <4>2. Merge(m, b) = before  BY <1>3, <2>3, <2>4, <2>10
      <4>3. m[p].type = bm.type /\ b.addr = c /\ end(m[p]) - b.addr = z - c  BY <2>4, <2>5, <2>6
      <4>4. e = Area(m[p].type, b.addr, end(m[p]) - b.addr)  BY <3>4, <4>3
      <4>. QED  BY <4>1, <4>2, <4>4
    <3>6. Joined(e, m[p], b)  BY <2>4, <2>5, <2>6, <3>1, <3>3, <3>4 DEF Joined
    <3>. QED  BY <2>2, <3>5, <3>6, JoinMerges
  <2>. QED  BY <2>9, <2>10
<1>. QED  BY <1>4, <1>5
-----------------------------------------------------------------------------
(* The invariant. *)

\* The entry of a range, and those of the first n ranges.
BiosEntry(bm) == [bm EXCEPT !.type = BiosType(@)]
Entries(f, n) == [k \in 1 .. n |-> BiosEntry(f[k])]

Typed ==
  /\ firmware \in Seq(Ranges(EfiTypes))
  /\ pc \in {"memprobe", "shell", "memory", "cleanup", "kernel"} /\ i \in 0 .. Len(firmware)
  /\ cnvmem \in 0 .. Pages /\ extmem \in 0 .. Pages - IOM_END
  /\ plain \/ pc \notin {"shell", "memory"} => bios_memmap \in Seq(Areas)
  /\ plain => passed \in Seq(Areas)

\* Between two commands shown is what the map covers until it is passed, and
\* then what was passed, unless a command was given up.
Told == pc \notin {"memprobe", "memory"} /\ ~unshown => shown = Cover(Table, "FREE")

MemInv ==
  /\ Typed /\ Disjoint(firmware) /\ ProbeIsExact
  /\ NoInventedMemory /\ NoLostMemory /\ Told /\ ExtmemStopsAtGap

\* An entry has the pages of its range.
LEMMA BiosEntryIs ==
  ASSUME NEW bm \in Ranges(EfiTypes)
  PROVE  BiosEntry(bm) \in Areas /\ PagesOf(BiosEntry(bm)) = PagesOf(bm)
<1>1. PICK t \in BiosTypes : t = BiosType(bm.type)
  <2>1. BiosType(bm.type) \in BiosTypes  BY SMTT(30) DEF BiosType, BiosTypes
  <2>. QED  BY <2>1
<1>2. BiosEntry(bm) = [bm EXCEPT !.type = t]  BY <1>1 DEF BiosEntry
<1>3. [bm EXCEPT !.type = t] \in Areas
  <2>1. Pages <= LLONG_MAX  BY SMTT(30), MemAssumption
  <2>2. PICK e : e = [bm EXCEPT !.type = t]  OBVIOUS
  <2>3. e \in [type : BiosTypes, addr : Nat, size : Nat \ {0}] /\ end(e) <= Pages
    BY SMTT(30), MemAssumption, <2>2 DEF Ranges, end
  <2>4. end(e) \in Int  BY SMTT(30), <2>3 DEF end
  <2>5. end(e) <= LLONG_MAX  BY SMTT(30), <2>1, <2>3, <2>4, MemAssumption
  <2>. QED  BY <2>2, <2>3, <2>5 DEF Areas
<1>4. PagesOf([bm EXCEPT !.type = t]) = PagesOf(bm)  BY SMTT(30) DEF Ranges, PagesOf, end
<1>. QED  BY <1>2, <1>3, <1>4

\* Entries of ranges are a map.
LEMMA EntriesAre ==
  ASSUME NEW f \in Seq(Ranges(EfiTypes)), NEW n \in 0 .. Len(f)
  PROVE  /\ Entries(f, n) \in Seq(Areas) /\ Len(Entries(f, n)) = n
         /\ \A k \in 1 .. n : Entries(f, n)[k] = BiosEntry(f[k])
<1>1. ASSUME NEW k \in 1 .. n PROVE BiosEntry(f[k]) \in Areas
  <2>1. f[k] \in Ranges(EfiTypes)  BY SMTT(30)
  <2>. QED  BY <2>1, BiosEntryIs
<1>2. PICK g : g = Entries(f, n)  OBVIOUS
<1>3. g \in [1 .. n -> Areas] /\ \A k \in 1 .. n : g[k] = BiosEntry(f[k])  BY <1>1, <1>2 DEF Entries
<1>4. n \in Nat  BY SMTT(30)
<1>5. g \in Seq(Areas) /\ Len(g) = n  BY SMTT(30), <1>3, <1>4
<1>. QED  BY <1>2, <1>3, <1>5

\* One range more is one entry more.
LEMMA MoreEntries ==
  ASSUME NEW f \in Seq(Ranges(EfiTypes)), NEW n \in Nat, NEW j \in 1 .. Len(f), j = n + 1
  PROVE  CoversMore(Entries(f, j), Entries(f, n), BiosEntry(f[j]))
<1>1. n \in 0 .. Len(f) /\ j \in 0 .. Len(f)  BY SMTT(30)
<1>2. PICK g, h : g = Entries(f, n) /\ h = Entries(f, j)  OBVIOUS
<1>3. g \in Seq(Areas) /\ Len(g) = n /\ \A k \in 1 .. n : g[k] = BiosEntry(f[k])
  BY <1>1, <1>2, EntriesAre
<1>4. h \in Seq(Areas) /\ Len(h) = j /\ \A k \in 1 .. j : h[k] = BiosEntry(f[k])
  BY <1>1, <1>2, EntriesAre
<1>5. PICK e \in Areas : e = BiosEntry(f[j])
  <2>1. f[j] \in Ranges(EfiTypes)  BY SMTT(30)
  <2>. QED  BY <2>1, BiosEntryIs
<1>6. h = Append(g, e)
  <2>1. \A k \in 1 .. j : h[k] = IF k = j THEN e ELSE g[k]
    <3>1. \A k \in 1 .. j : k = j \/ k \in 1 .. n  BY SMTT(30)
    <3>. QED  BY <1>3, <1>4, <1>5, <3>1
  <2>2. /\ Append(g, e) \in Seq(Areas) /\ Len(Append(g, e)) = j
        /\ \A k \in 1 .. j : Append(g, e)[k] = IF k = j THEN e ELSE g[k]
    BY SMTT(30), <1>3
  <2>3. \A k \in 1 .. j : h[k] = Append(g, e)[k]  BY <2>1, <2>2
  <2>. QED  BY SMTT(30), <1>4, <2>2, <2>3, SeqEqual
<1>7. CoversMore(Append(g, e), g, e)  BY <1>3, Appended
<1>. QED  BY <1>2, <1>5, <1>6, <1>7
\* What was read, and what the firmware calls free, in those terms.
LEMMA ReadIs == Read = Entries(firmware, i)
BY DEF Read, Entries, BiosEntry

LEMMA FirmwareFreeIs ==
  ASSUME firmware \in Seq(Ranges(EfiTypes))
  PROVE  FirmwareFree = Cover(Entries(firmware, Len(firmware)), "FREE")
<1>1. DOMAIN firmware = 1 .. Len(firmware)  BY SMTT(30)
<1>. QED  BY <1>1 DEF FirmwareFree, Entries, BiosEntry

\* The pages of the firmware's ranges.
Ram == UNION {PagesOf(firmware[k]) : k \in DOMAIN firmware}

\* A page of an entry that was read is in a range that was read.
LEMMA ReadPages ==
  ASSUME Typed, NEW m \in Seq(Areas), \A t \in BiosTypes : Cover(m, t) = Cover(Read, t),
         NEW k \in 1 .. Len(m), NEW x \in PagesOf(m[k])
  PROVE  \E j \in 1 .. i : x \in PagesOf(firmware[j])
<1>1. m[k] \in Areas  BY MapEntries
<1>2. m[k].type \in BiosTypes  BY <1>1, AreaFields
<1>3. PICK t \in BiosTypes : t = m[k].type  BY <1>2
<1>4. x \in Cover(m, t)
  <2>1. x \in Put(m[k], t)  BY <1>3 DEF Put
  <2>2. Cover(m, t) = Rest(m, k, t) \cup Put(m[k], t)  BY CoverAt
  <2>. QED  BY <2>1, <2>2
<1>5. x \in Cover(Entries(firmware, i), t)  BY <1>4, ReadIs
<1>6. PICK f : f = firmware  OBVIOUS
<1>7. f \in Seq(Ranges(EfiTypes)) /\ i \in 0 .. Len(f)  BY <1>6 DEF Typed
<1>8. PICK g : g = Entries(f, i)  OBVIOUS
<1>9. g \in Seq(Areas) /\ Len(g) = i /\ \A j \in 1 .. i : g[j] = BiosEntry(f[j])
  BY <1>7, <1>8, EntriesAre
<1>10. PICK j \in 1 .. Len(g) : x \in Put(g[j], t)
  <2>1. Cover(g, t) = {y \in Int : \E j \in 1 .. Len(g) : y \in Put(g[j], t)}  BY <1>9, CoverIs
  <2>. QED  BY <1>5, <1>6, <1>8, <2>1
<1>11. j \in 1 .. i /\ x \in PagesOf(BiosEntry(f[j]))  BY <1>9, <1>10 DEF Put
<1>12. f[j] \in Ranges(EfiTypes)  BY SMTT(30), <1>7, <1>11
<1>13. x \in PagesOf(f[j])  BY <1>11, <1>12, BiosEntryIs
<1>. QED  BY <1>6, <1>11, <1>13

\* The program starts with an empty map.
LEMMA InitMem == Init => MemInv
<1>1. SUFFICES ASSUME Init PROVE MemInv  OBVIOUS
<1>2. firmware \in Seq(Ranges(EfiTypes)) /\ Disjoint(firmware)
  <2>1. PICK n \in 1 .. MaxRanges : firmware \in [1 .. n -> Ranges(EfiTypes)]
    BY <1>1 DEF Init, FirmwareMaps
  <2>2. n \in Nat  BY SMTT(30), MemAssumption
  <2>3. firmware \in Seq(Ranges(EfiTypes))  BY SMTT(30), <2>1, <2>2
  <2>. QED  BY <1>1, <2>3 DEF Init, FirmwareMaps
<1>3. bios_memmap = <<>> /\ passed = <<>> /\ pc = "memprobe" /\ i = 0 /\ cnvmem = 0 /\ extmem = 0
  BY <1>1 DEF Init
<1>4. /\ <<>> \in Seq(Areas) /\ 0 \in 0 .. Len(firmware) /\ 0 \in 0 .. Pages
      /\ 0 \in 0 .. Pages - IOM_END
  BY SMTT(30), <1>2, MemAssumption
<1>5. Typed  BY <1>2, <1>3, <1>4 DEF Typed
<1>6. \A t : Cover(<<>>, t) = {} /\ Disjoint(<<>>)
  <2>1. DOMAIN <<>> = {}  BY SMTT(30)
  <2>. QED  BY <2>1 DEF Cover, Disjoint
<1>7. \A t : Cover(Read, t) = {}
  <2>1. PICK g : g = Read  OBVIOUS
  <2>2. DOMAIN g = 1 .. i  BY <2>1 DEF Read
  <2>3. 1 .. i = {}  BY SMTT(30), <1>3
  <2>4. \A t : Cover(g, t) = {}  BY <2>2, <2>3 DEF Cover
  <2>. QED  BY <2>1, <2>4
<1>8. ProbeIsExact  BY <1>3, <1>6, <1>7 DEF ProbeIsExact
<1>9. pc # "kernel"  BY SMTT(30), <1>3
<1>. QED
  BY <1>2, <1>3, <1>5, <1>8, <1>9
  DEF MemInv, NoInventedMemory, NoLostMemory, Told, ExtmemStopsAtGap

\* Another range is read.
LEMMA ProbeStep == ASSUME MemInv, efi_memprobe_internal PROVE MemInv'
<1>1. Typed /\ Disjoint(firmware) /\ ProbeIsExact  BY DEF MemInv
<1>2. /\ pc \in {"memprobe", "cleanup"} /\ i < Len(firmware) /\ i' = i + 1
      /\ firmware' = firmware /\ cnvmem' = cnvmem /\ extmem' = extmem /\ pc' = pc
      /\ passed' = passed /\ given' = given /\ taken' = taken /\ plain' = plain
      /\ shown' = shown /\ unshown' = unshown
  BY DEF efi_memprobe_internal, ghosts
<1>19. pc \notin {"shell", "memory"} /\ pc # "kernel"  BY SMTT(30), <1>2
<1>3. PICK m \in Seq(Areas) : m = bios_memmap  BY <1>1, <1>19 DEF Typed
<1>4. PICK f \in Seq(Ranges(EfiTypes)) : f = firmware  BY <1>1 DEF Typed
<1>5. i \in 0 .. Len(f)  BY <1>1, <1>4 DEF Typed
<1>6. PICK j \in 1 .. Len(f) : j = i + 1 /\ i \in Nat /\ \A k \in 1 .. i : k \in 1 .. Len(f) /\ k # j
  BY SMTT(30), <1>2, <1>4, <1>5
<1>7. f[j] \in Ranges(EfiTypes) /\ DOMAIN f = 1 .. Len(f)  BY SMTT(30)
<1>8. PICK b \in Areas : b = BiosEntry(f[j]) /\ PagesOf(b) = PagesOf(f[j])  BY <1>7, BiosEntryIs
<1>9. bios_memmap' = Merge(m, b)
  BY <1>2, <1>3, <1>4, <1>6, <1>8 DEF efi_memprobe_internal, BiosEntry
<1>10. /\ \A t \in BiosTypes : Cover(m, t) = Cover(Read, t)
       /\ Disjoint(m)
  BY <1>1, <1>2, <1>3 DEF ProbeIsExact
<1>11. Out(m, b)
  <2>1. SUFFICES ASSUME NEW k \in 1 .. Len(m), NEW x \in PagesOf(m[k]), x \in PagesOf(b) PROVE FALSE
    BY DEF Out
  <2>2. PICK l \in 1 .. i : x \in PagesOf(firmware[l])  BY <1>1, <1>10, ReadPages
  <2>3. l \in 1 .. Len(f) /\ l # j  BY <1>6
  <2>4. PagesOf(f[l]) \cap PagesOf(f[j]) = {}  BY <1>1, <1>4, <1>7, <2>3 DEF Disjoint
  <2>. QED  BY <1>4, <1>8, <2>1, <2>2, <2>4
<1>12. Merged(Merge(m, b), m, b)  BY <1>10, <1>11, MergeIs
<1>13. PICK n \in Seq(Areas) : n = bios_memmap' /\ CoversMore(n, m, b) /\ Disjoint(n)
  BY <1>9, <1>12 DEF Merged
<1>14. CoversMore(Entries(f, j), Entries(f, i), b)  BY <1>6, <1>8, MoreEntries
<1>15. Read' = Entries(f, j)
  <2>1. Read' = Entries(firmware', i')  BY DEF Read, Entries, BiosEntry
  <2>. QED  BY <1>2, <1>4, <1>6, <2>1
<1>16. ASSUME NEW t \in BiosTypes PROVE Cover(n, t) = Cover(Entries(f, j), t)
  <2>1. Cover(n, t) = Cover(m, t) \cup Put(b, t)  BY <1>13 DEF CoversMore
  <2>2. Cover(Entries(f, j), t) = Cover(Entries(f, i), t) \cup Put(b, t)  BY <1>14 DEF CoversMore
  <2>3. Cover(m, t) = Cover(Entries(f, i), t)  BY <1>4, <1>10, ReadIs
  <2>. QED  BY <2>1, <2>2, <2>3
<1>17. ProbeIsExact'
  <2>1. \A t \in BiosTypes : Cover(bios_memmap', t) = Cover(Read', t)  BY <1>13, <1>15, <1>16
  <2>2. Disjoint(bios_memmap')  BY <1>13
  <2>. QED  BY <2>1, <2>2 DEF ProbeIsExact, BiosTypes
<1>18. Typed'
  <2>1. i' \in 0 .. Len(firmware')  BY SMTT(30), <1>2, <1>4, <1>6
  <2>. QED  BY <1>1, <1>2, <1>13, <2>1 DEF Typed
<1>20. Table' = Table /\ FirmwareFree' = FirmwareFree  BY <1>2, <1>19 DEF Table, FirmwareFree
<1>21. NoInventedMemory' /\ NoLostMemory' /\ Told'
  BY <1>2, <1>20 DEF MemInv, NoInventedMemory, NoLostMemory, Told
<1>22. ExtmemStopsAtGap'  BY <1>2, <1>19 DEF ExtmemStopsAtGap
<1>23. Disjoint(firmware)'  BY <1>1, <1>2 DEF Disjoint
<1>. QED  BY <1>17, <1>18, <1>21, <1>22, <1>23 DEF MemInv
\* All ranges are read: what the totals are.
LEMMA TotalsAre ==
  ASSUME MemInv, Totals, pc \in {"memprobe", "cleanup"}
  PROVE  /\ bios_memmap \in Seq(Areas)
         /\ cnvmem' \in 0 .. Pages /\ extmem' \in 0 .. Pages - IOM_END
         /\ Reach(extmem') \subseteq Ram
         /\ Cover(bios_memmap, "FREE") = FirmwareFree
<1>1. Typed /\ ProbeIsExact /\ i = Len(firmware)  BY DEF MemInv, Totals
<1>2. pc \notin {"shell", "memory"}  BY SMTT(30)
<1>3. PICK m \in Seq(Areas) : m = bios_memmap  BY <1>1, <1>2 DEF Typed
<1>4. PICK f \in Seq(Ranges(EfiTypes)) : f = firmware  BY <1>1 DEF Typed
<1>5. cnvmem' = Conventional(m) /\ extmem' = Extended(m)  BY <1>3 DEF Totals
<1>6. \A t \in BiosTypes : Cover(m, t) = Cover(Read, t)  BY <1>1, <1>3 DEF ProbeIsExact
<1>7. PagesIn(m) \subseteq Ram
  <2>1. SUFFICES ASSUME NEW k \in 1 .. Len(m), NEW x \in PagesOf(m[k]) PROVE x \in Ram
    BY DEF PagesIn
  <2>2. PICK j \in 1 .. i : x \in PagesOf(firmware[j])  BY <1>1, <1>6, ReadPages
  <2>3. DOMAIN f = 1 .. Len(f)  BY SMTT(30)
  <2>4. j \in DOMAIN firmware  BY <1>1, <1>4, <2>3
  <2>. QED  BY <2>2, <2>4 DEF Ram
<1>8. \A k \in 1 .. Len(m) : end(m[k]) <= Pages
  <2>1. SUFFICES ASSUME NEW k \in 1 .. Len(m) PROVE end(m[k]) <= Pages  OBVIOUS
  <2>2. PICK bm \in Areas : bm = m[k]  BY MapEntries
  <2>3. PICK a, z \in Nat : end(bm) = z /\ a < z /\ PagesOf(bm) = a .. z - 1  BY AreaPages
  <2>4. z - 1 \in a .. z - 1  BY SMTT(30), <2>3
  <2>5. PICK x \in PagesOf(m[k]) : x = z - 1  BY <2>2, <2>3, <2>4
  <2>6. PICK j \in 1 .. i : x \in PagesOf(firmware[j])  BY <1>1, <1>6, ReadPages
  <2>7. PICK b \in Ranges(EfiTypes) : b = firmware[j]
    <3>1. f[j] \in Ranges(EfiTypes)  BY SMTT(30), <1>1, <1>4
    <3>. QED  BY <1>4, <3>1
  <2>8. z - 1 \in PagesOf(b)  BY <2>5, <2>6, <2>7
  <2>9. z <= Pages  BY SMTT(30), <2>8, MemAssumption DEF Ranges, PagesOf, end
  <2>. QED  BY <2>2, <2>3, <2>9
<1>9. cnvmem' \in 0 .. Pages  BY <1>5, <1>8, ConventionalType
<1>10. extmem' \in 0 .. Pages - IOM_END /\ Reach(extmem') \subseteq PagesIn(m)
  BY <1>5, <1>8, ExtendedIs
<1>11. Cover(m, "FREE") = FirmwareFree
  <2>1. "FREE" \in BiosTypes  BY SMTT(30) DEF BiosTypes
  <2>2. Cover(m, "FREE") = Cover(Read, "FREE")  BY <1>6, <2>1
  <2>3. Read = Entries(firmware, Len(firmware))  BY <1>1, ReadIs
  <2>. QED  BY <1>4, <2>2, <2>3, FirmwareFreeIs
<1>. QED  BY <1>3, <1>7, <1>9, <1>10, <1>11

\* The map is read for the first time.
LEMMA FirstStep == ASSUME MemInv, efi_memprobe PROVE MemInv'
<1>1. Typed /\ Disjoint(firmware)  BY DEF MemInv
<1>2. /\ pc = "memprobe" /\ firmware' = firmware /\ bios_memmap' = bios_memmap /\ i' = i
      /\ passed' = passed /\ given' = given /\ taken' = taken /\ plain' = plain
      /\ unshown' = unshown /\ pc' = "shell" /\ shown' = Cover(bios_memmap, "FREE") /\ Totals
  BY DEF efi_memprobe
<1>3. /\ bios_memmap \in Seq(Areas)
      /\ cnvmem' \in 0 .. Pages /\ extmem' \in 0 .. Pages - IOM_END
      /\ Cover(bios_memmap, "FREE") = FirmwareFree
  BY <1>2, TotalsAre
<1>4. pc' # "memprobe" /\ pc' # "cleanup" /\ pc' # "kernel"  BY SMTT(30), <1>2
<1>5. Typed'  BY <1>1, <1>2, <1>3 DEF Typed
<1>6. FirmwareFree' = FirmwareFree /\ Table' = bios_memmap  BY <1>2 DEF FirmwareFree, Table
<1>7. NoInventedMemory' /\ NoLostMemory' /\ Told'
  BY <1>2, <1>3, <1>6 DEF NoInventedMemory, NoLostMemory, Told
<1>8. ProbeIsExact' /\ ExtmemStopsAtGap'  BY <1>4 DEF ProbeIsExact, ExtmemStopsAtGap
<1>9. Disjoint(firmware)'  BY <1>1, <1>2 DEF Disjoint
<1>. QED  BY <1>5, <1>7, <1>8, <1>9 DEF MemInv

\* It is read for the second time.
LEMMA SecondStep == ASSUME MemInv, efi_cleanup PROVE MemInv'
<1>1. Typed /\ Disjoint(firmware)  BY DEF MemInv
<1>2. /\ pc = "cleanup" /\ firmware' = firmware /\ bios_memmap' = bios_memmap /\ i' = i
      /\ passed' = passed /\ given' = given /\ taken' = taken /\ plain' = plain
      /\ unshown' = unshown /\ pc' = "kernel" /\ shown' = shown /\ Totals
  BY DEF efi_cleanup, ghosts
<1>3. /\ bios_memmap \in Seq(Areas) /\ Reach(extmem') \subseteq Ram
      /\ cnvmem' \in 0 .. Pages /\ extmem' \in 0 .. Pages - IOM_END
  BY <1>2, TotalsAre
<1>4. /\ pc' # "memprobe" /\ pc' # "cleanup" /\ pc' \notin {"shell", "memory"}
      /\ pc # "memprobe" /\ pc \notin {"memprobe", "memory"} /\ pc \notin {"shell", "memory"}
  BY SMTT(30), <1>2
<1>5. Typed'  BY <1>1, <1>2, <1>3 DEF Typed
<1>6. FirmwareFree' = FirmwareFree /\ Table' = Table  BY <1>2, <1>4 DEF FirmwareFree, Table
<1>7. NoInventedMemory' /\ NoLostMemory' /\ Told'
  BY <1>2, <1>4, <1>6 DEF MemInv, NoInventedMemory, NoLostMemory, Told
<1>8. ExtmemStopsAtGap'
  <2>1. Ram' = Ram  BY <1>2 DEF Ram
  <2>2. Reach(extmem') \subseteq Ram'  BY <1>3, <2>1
  <2>. QED  BY <2>2 DEF ExtmemStopsAtGap, Reach, Ram
<1>9. ProbeIsExact'  BY <1>4 DEF ProbeIsExact
<1>10. Disjoint(firmware)'  BY <1>1, <1>2 DEF Disjoint
<1>. QED  BY <1>5, <1>7, <1>8, <1>9, <1>10 DEF MemInv

\* While the numbers are positive, an argument of the command is an edit within
\* what the user asked for.
LEMMA XmemoryEdits ==
  ASSUME Typed, Xmemory, plain'
  PROVE  \E add, del : /\ plain /\ Edits(bios_memmap, bios_memmap', add, del)
                       /\ given' = given \cup add /\ taken' = taken \cup del
<1>. DEFINE Edited == \E add, del : /\ plain /\ Edits(bios_memmap, bios_memmap', add, del)
                                   /\ given' = given \cup add /\ taken' = taken \cup del
<1>1. ASSUME NEW size \in Numbers,
             bios_memmap' = mem_limit(bios_memmap, size),
             taken' = taken \cup size .. LLONG_MAX,
             plain' = (plain /\ size > 0),
             given' = given
      PROVE  Edited
  <2>1. plain /\ size > 0  BY <1>1
  <2>2. PICK m \in Seq(Areas) : m = bios_memmap  BY <2>1 DEF Typed
  <2>3. size \in Nat \ {0}  BY SMTT(30), <2>1, MemAssumption
  <2>4. Edits(m, mem_limit(m, size), {}, size .. LLONG_MAX)  BY <2>3, LimitEdits
  <2>5. Edits(bios_memmap, bios_memmap', {}, size .. LLONG_MAX)  BY <1>1, <2>2, <2>4
  <2>6. given' = given \cup {}  BY <1>1
  <2>. QED  BY <1>1, <2>1, <2>5, <2>6
<1>2. ASSUME NEW size \in Numbers, NEW addr \in Numbers, plain' = (plain /\ size > 0 /\ addr > 0)
      PROVE  /\ plain /\ \E ea \in Nat : /\ ea = addr + size /\ addr + size - 1 = ea - 1
                                        /\ addr \in Nat \ {0} /\ addr < ea /\ ea <= LLONG_MAX
             /\ bios_memmap \in Seq(Areas)
  <2>1. plain /\ size > 0 /\ addr > 0  BY <1>2
  <2>2. /\ size \in Int /\ addr \in Int /\ LLONG_MAX \in Nat
        /\ 4 * size <= LLONG_MAX /\ 4 * addr <= LLONG_MAX
    BY MemAssumption
  <2>3. PICK ea : ea = addr + size  OBVIOUS
  <2>4. /\ ea \in Nat /\ addr + size - 1 = ea - 1
        /\ addr \in Nat \ {0} /\ addr < ea /\ ea <= LLONG_MAX
    BY SMTT(30), <2>1, <2>2, <2>3
  <2>. QED  BY <2>1, <2>3, <2>4 DEF Typed
<1>3. ASSUME NEW size \in Numbers, NEW addr \in Numbers, plain' = (plain /\ size > 0 /\ addr > 0),
             bios_memmap' = mem_delete(bios_memmap, addr, addr + size),
             taken' = taken \cup addr - PAGE_SIZE .. addr + size + PAGE_SIZE - 1,
             given' = given
      PROVE  Edited
  <2>1. PICK ea \in Nat : ea = addr + size /\ addr \in Nat \ {0} /\ addr < ea /\ ea <= LLONG_MAX
    BY <1>2, <1>3
  <2>2. PICK m \in Seq(Areas) : m = bios_memmap  BY <1>2, <1>3
  <2>3. PICK del : del = addr - PAGE_SIZE .. ea + PAGE_SIZE - 1  OBVIOUS
  <2>4. Edits(m, mem_delete(m, addr, ea), {}, del)  BY <2>1, <2>3, DeleteEdits
  <2>5. given' = given \cup {} /\ taken' = taken \cup del  BY <1>3, <2>1, <2>3
  <2>6. Edits(bios_memmap, bios_memmap', {}, del)  BY <1>3, <2>1, <2>2, <2>4
  <2>7. plain  BY <1>2, <1>3
  <2>. QED  BY <2>5, <2>6, <2>7
<1>4. ASSUME NEW size \in Numbers, NEW addr \in Numbers, plain' = (plain /\ size > 0 /\ addr > 0),
             bios_memmap' = mem_add(bios_memmap, addr, addr + size),
             given' = given \cup addr .. addr + size - 1,
             taken' = taken
      PROVE  Edited
  <2>1. PICK ea \in Nat : /\ ea = addr + size /\ addr + size - 1 = ea - 1
                          /\ addr \in Nat /\ addr < ea /\ ea <= LLONG_MAX
    BY <1>2, <1>4
  <2>2. PICK m \in Seq(Areas) : m = bios_memmap  BY <1>2, <1>4
  <2>3. PICK add : add = addr .. ea - 1  OBVIOUS
  <2>4. Edits(m, mem_add(m, addr, ea), add, {})  BY <2>1, <2>3, AddEdits
  <2>5. taken' = taken \cup {} /\ given' = given \cup add
    <3>1. addr .. addr + size - 1 = add  BY <2>1, <2>3
    <3>. QED  BY <1>4, <3>1
  <2>6. Edits(bios_memmap, bios_memmap', add, {})  BY <1>4, <2>1, <2>2, <2>4
  <2>7. plain  BY <1>2, <1>4
  <2>. QED  BY <2>5, <2>6, <2>7
<1>. HIDE DEF Edited
<1>5. Edited  BY <1>1, <1>3, <1>4 DEF Xmemory
<1>. QED  BY <1>5 DEF Edited

\* An argument keeps the invariant.
LEMMA EditStep == ASSUME MemInv, Xmemory PROVE MemInv'
<1>1. Typed /\ Disjoint(firmware)  BY DEF MemInv
<1>2. /\ pc \in {"shell", "memory"} /\ firmware' = firmware /\ cnvmem' = cnvmem
      /\ extmem' = extmem /\ pc' = "memory" /\ i' = i /\ passed' = passed
  BY DEF Xmemory
<1>3. /\ pc # "memprobe" /\ pc' \in {"shell", "memory"}
      /\ pc' # "memprobe" /\ pc' # "cleanup" /\ pc' # "kernel"
  BY SMTT(30), <1>2
<1>4. Table = bios_memmap /\ Table' = bios_memmap'  BY <1>2, <1>3 DEF Table
<1>5. FirmwareFree' = FirmwareFree  BY <1>2 DEF FirmwareFree
<1>6. ASSUME plain' PROVE Typed' /\ NoInventedMemory' /\ NoLostMemory'
  <2>1. PICK add, del : /\ plain /\ Edits(bios_memmap, bios_memmap', add, del)
                        /\ given' = given \cup add /\ taken' = taken \cup del
    BY <1>1, <1>6, XmemoryEdits
  <2>2. /\ Cover(bios_memmap', "FREE") \subseteq Cover(bios_memmap, "FREE") \cup add
        /\ Cover(bios_memmap, "FREE") \ del \subseteq Cover(bios_memmap', "FREE")
        /\ bios_memmap' \in Seq(Areas)
    BY <2>1 DEF Edits
  <2>3. /\ Cover(bios_memmap, "FREE") \subseteq FirmwareFree \cup given
        /\ FirmwareFree \ taken \subseteq Cover(bios_memmap, "FREE")
    BY <1>3, <1>4, <2>1 DEF MemInv, NoInventedMemory, NoLostMemory
  <2>4. Typed'  BY <1>1, <1>2, <2>1, <2>2 DEF Typed
  <2>5. Cover(bios_memmap', "FREE") \subseteq FirmwareFree' \cup given'  BY <1>5, <2>1, <2>2, <2>3
  <2>6. FirmwareFree' \ taken' \subseteq Cover(bios_memmap', "FREE")  BY <1>5, <2>1, <2>2, <2>3
  <2>. QED  BY <1>4, <2>4, <2>5, <2>6 DEF NoInventedMemory, NoLostMemory
<1>7. ASSUME ~plain' PROVE Typed' /\ NoInventedMemory' /\ NoLostMemory'
  <2>1. Typed'  BY <1>1, <1>2, <1>3, <1>7 DEF Typed
  <2>. QED  BY <1>7, <2>1 DEF NoInventedMemory, NoLostMemory
<1>8. Typed' /\ NoInventedMemory' /\ NoLostMemory'  BY <1>6, <1>7
<1>9. Told' /\ ProbeIsExact' /\ ExtmemStopsAtGap'
  BY <1>2, <1>3 DEF Told, ProbeIsExact, ExtmemStopsAtGap
<1>10. Disjoint(firmware)'  BY <1>1, <1>2 DEF Disjoint
<1>. QED  BY <1>8, <1>9, <1>10 DEF MemInv

\* The end of a command, whether it is given up or carried out.
LEMMA ReturnStep == ASSUME MemInv, Xmemory_bad \/ Xmemory_done PROVE MemInv'
<1>1. Typed /\ Disjoint(firmware)  BY DEF MemInv
<1>2. /\ pc \in {"shell", "memory"} /\ firmware' = firmware /\ bios_memmap' = bios_memmap
      /\ cnvmem' = cnvmem /\ extmem' = extmem /\ pc' = "shell" /\ i' = i /\ passed' = passed
      /\ given' = given /\ taken' = taken /\ plain' = plain
  BY DEF Xmemory_bad, Xmemory_done
<1>3. /\ pc # "memprobe" /\ pc' \in {"shell", "memory"}
      /\ pc' # "memprobe" /\ pc' # "cleanup" /\ pc' # "kernel"
      /\ pc \notin {"memprobe", "memory"} \/ pc = "memory"
  BY SMTT(30), <1>2
<1>4. Table = bios_memmap /\ Table' = bios_memmap  BY <1>2, <1>3 DEF Table
<1>5. FirmwareFree' = FirmwareFree  BY <1>2 DEF FirmwareFree
<1>6. Typed'  BY <1>1, <1>2, <1>3 DEF Typed
<1>7. NoInventedMemory' /\ NoLostMemory'
  BY <1>2, <1>3, <1>4, <1>5 DEF MemInv, NoInventedMemory, NoLostMemory
<1>8. Told'
  <2>1. CASE Xmemory_bad
    <3>1. shown' = shown /\ (~unshown' => ~unshown /\ pc # "memory")  BY <2>1 DEF Xmemory_bad
    <3>2. ~unshown /\ pc # "memory" => shown = Cover(Table, "FREE")  BY <1>3 DEF MemInv, Told
    <3>. QED  BY <1>4, <3>1, <3>2 DEF Told
  <2>2. CASE Xmemory_done
    <3>1. shown' = Cover(bios_memmap, "FREE")  BY <2>2 DEF Xmemory_done
    <3>. QED  BY <1>4, <3>1 DEF Told
  <2>. QED  BY <2>1, <2>2
<1>9. ProbeIsExact' /\ ExtmemStopsAtGap'  BY <1>3 DEF ProbeIsExact, ExtmemStopsAtGap
<1>10. Disjoint(firmware)'  BY <1>1, <1>2 DEF Disjoint
<1>. QED  BY <1>6, <1>7, <1>8, <1>9, <1>10 DEF MemInv

\* The map is passed, and is empty again before it is read once more.
LEMMA LoadStep == ASSUME MemInv, run_loadfile PROVE MemInv'
<1>1. Typed /\ Disjoint(firmware)  BY DEF MemInv
<1>2. /\ pc = "shell" /\ passed' = bios_memmap /\ bios_memmap' = <<>> /\ cnvmem' = 0
      /\ extmem' = 0 /\ i' = 0 /\ pc' = "cleanup" /\ firmware' = firmware
      /\ given' = given /\ taken' = taken /\ plain' = plain
      /\ shown' = shown /\ unshown' = unshown
  BY DEF run_loadfile, ghosts
<1>3. /\ pc # "memprobe" /\ pc \notin {"memprobe", "memory"} /\ pc \in {"shell", "memory"}
      /\ pc' # "memprobe" /\ pc' # "kernel" /\ pc' \notin {"shell", "memory"}
      /\ <<>> \in Seq(Areas) /\ 0 \in 0 .. Pages /\ 0 \in 0 .. Pages - IOM_END
  BY SMTT(30), <1>2, MemAssumption
<1>4. 0 \in 0 .. Len(firmware)  BY SMTT(30), <1>1 DEF Typed
<1>5. Typed'  BY <1>1, <1>2, <1>3, <1>4 DEF Typed
<1>6. Table = bios_memmap /\ Table' = bios_memmap  BY <1>2, <1>3 DEF Table
<1>7. FirmwareFree' = FirmwareFree  BY <1>2 DEF FirmwareFree
<1>8. NoInventedMemory' /\ NoLostMemory' /\ Told'
  BY <1>2, <1>3, <1>6, <1>7 DEF MemInv, NoInventedMemory, NoLostMemory, Told
<1>9. \A t : Cover(<<>>, t) = {} /\ Disjoint(<<>>)
  <2>1. DOMAIN <<>> = {}  BY SMTT(30)
  <2>. QED  BY <2>1 DEF Cover, Disjoint
<1>10. \A t : Cover(Read', t) = {}
  <2>1. PICK g : g = Read'  OBVIOUS
  <2>2. DOMAIN g = 1 .. i'  BY <2>1 DEF Read
  <2>3. 1 .. i' = {}  BY SMTT(30), <1>2
  <2>4. \A t : Cover(g, t) = {}  BY <2>2, <2>3 DEF Cover
  <2>. QED  BY <2>1, <2>4
<1>11. ProbeIsExact'
  <2>1. \A t \in BiosTypes : Cover(bios_memmap', t) = Cover(Read', t)  BY <1>2, <1>9, <1>10
  <2>2. Disjoint(bios_memmap')  BY <1>2, <1>9
  <2>. QED  BY <2>1, <2>2 DEF ProbeIsExact, BiosTypes
<1>12. ExtmemStopsAtGap'  BY <1>3 DEF ExtmemStopsAtGap
<1>13. Disjoint(firmware)'  BY <1>1, <1>2 DEF Disjoint
<1>. QED  BY <1>5, <1>8, <1>11, <1>12, <1>13 DEF MemInv

\* Every step of efiboot keeps the invariant.
LEMMA NextMem == MemInv /\ [Next]_vars => MemInv'
<1>1. SUFFICES ASSUME MemInv, [Next]_vars PROVE MemInv'  OBVIOUS
<1>2. CASE UNCHANGED vars
  <2>1. /\ firmware' = firmware /\ bios_memmap' = bios_memmap /\ cnvmem' = cnvmem
        /\ extmem' = extmem /\ pc' = pc /\ i' = i /\ passed' = passed /\ given' = given
        /\ taken' = taken /\ plain' = plain /\ shown' = shown /\ unshown' = unshown
    BY <1>2 DEF vars, ghosts
  <2>2. Table' = Table /\ Read' = Read /\ FirmwareFree' = FirmwareFree
    BY <2>1 DEF Table, Read, FirmwareFree
  <2>3. Typed' /\ Told' /\ Disjoint(firmware)'  BY <1>1, <2>1, <2>2 DEF MemInv, Typed, Told
  <2>4. ProbeIsExact'  BY <1>1, <2>1, <2>2 DEF MemInv, ProbeIsExact, BiosTypes
  <2>5. NoInventedMemory' /\ NoLostMemory'
    BY <1>1, <2>1, <2>2 DEF MemInv, NoInventedMemory, NoLostMemory
  <2>6. ExtmemStopsAtGap'  BY <1>1, <2>1 DEF MemInv, ExtmemStopsAtGap
  <2>. QED  BY <2>3, <2>4, <2>5, <2>6 DEF MemInv
<1>. QED  BY <1>1, <1>2, ProbeStep, FirstStep, SecondStep, EditStep, ReturnStep, LoadStep
  DEF Next

LEMMA MemInvariant == Spec => []MemInv
BY InitMem, NextMem, PTL DEF Spec

\* No size in bios_memmap or in what the kernel gets becomes zero or wraps
\* around while every number typed is positive, and none that is read from the
\* firmware does whatever was typed.
THEOREM TypeOKHolds == Spec => []TypeOK
<1>1. MemInv => TypeOK
  <2>1. SUFFICES ASSUME MemInv PROVE TypeOK  OBVIOUS
  <2>2. Typed  BY <2>1 DEF MemInv
  <2>3. ASSUME NEW m \in {bios_memmap, passed}, NEW k \in DOMAIN m,
               plain \/ (m = bios_memmap /\ pc \notin {"shell", "memory"})
        PROVE  /\ m[k].type \in BiosTypes /\ m[k].addr \in Nat /\ m[k].size \in Nat \ {0}
               /\ end(m[k]) <= LLONG_MAX
    <3>1. m \in Seq(Areas)  BY <2>2, <2>3 DEF Typed
    <3>2. PICK bm \in Areas : bm = m[k]  BY <3>1, MapEntries
    <3>3. /\ bm.type \in BiosTypes /\ bm.addr \in Nat /\ bm.size \in Nat \ {0}
          /\ end(bm) <= LLONG_MAX
      BY AreaFields
    <3>. QED  BY <3>2, <3>3
  <2>. QED  BY <2>2, <2>3 DEF TypeOK, Typed
<1>. QED  BY <1>1, MemInvariant, PTL

\* The table that efi_memprobe_internal() builds gives every page the type the
\* firmware gave it, once, whatever the order of the ranges.
THEOREM ProbeIsExactHolds == Spec => []ProbeIsExact
<1>1. MemInv => ProbeIsExact  BY DEF MemInv
<1>. QED  BY <1>1, MemInvariant, PTL

\* No sequence of mem_limit(), mem_delete() and mem_add() with positive numbers
\* frees a page that neither the firmware nor the user said is memory, whether
\* the commands are carried out or given up.
THEOREM NoInventedMemoryHolds == Spec => []NoInventedMemory
<1>1. MemInv => NoInventedMemory  BY DEF MemInv
<1>. QED  BY <1>1, MemInvariant, PTL

\* No such sequence loses a page that the user did not ask to remove, up to the page on
\* either side of what mem_delete() deletes.
THEOREM NoLostMemoryHolds == Spec => []NoLostMemory
<1>1. MemInv => NoLostMemory  BY DEF MemInv
<1>. QED  BY <1>1, MemInvariant, PTL

\* The kernel gets the free pages that "machine memory" showed last, whatever the
\* numbers and although efi_cleanup() reads the firmware's map again in between,
\* unless a command was given up after an edit.
THEOREM KernelGetsWhatWasShownHolds == Spec => []KernelGetsWhatWasShown
<1>1. MemInv => KernelGetsWhatWasShown
  <2>1. SUFFICES ASSUME MemInv, pc = "kernel", ~unshown PROVE Cover(passed, "FREE") = shown
    BY DEF KernelGetsWhatWasShown
  <2>2. pc \notin {"memprobe", "memory"} /\ pc \notin {"shell", "memory"}  BY SMTT(30), <2>1
  <2>. QED  BY <2>1, <2>2 DEF MemInv, Told, Table
<1>. QED  BY <1>1, MemInvariant, PTL

\* extmem names no page above 1M that is in no range of the firmware.
THEOREM ExtmemStopsAtGapHolds == Spec => []ExtmemStopsAtGap
<1>1. MemInv => ExtmemStopsAtGap  BY DEF MemInv
<1>. QED  BY <1>1, MemInvariant, PTL
=============================================================================
