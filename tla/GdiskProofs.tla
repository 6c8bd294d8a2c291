---------------------------- MODULE GdiskProofs ----------------------------
(***************************************************************************)
(* Proofs about GptFill, Gdisk and EfiGpt, for any number of entries, any  *)
(* width of block numbers, any size of the disk and any number of edits,   *)
(* crashes and write errors: GPT_fillremaining() takes only free, usable   *)
(* blocks, and what a store leaves on the disk.                            *)
(***************************************************************************)
EXTENDS EfiGpt, GptFill, WellFoundedInduction, TLAPS

(* The loops of GPT_fillremaining().  The invariant says that the entry is *)
(* apart from the entries the loop has passed.  It is kept because a round *)
(* only ever moves start up or end down, so that what was apart stays      *)
(* apart.  That takes entries whose end has a successor: behind the last   *)
(* block number of all, start would wrap around to 0.                      *)

Apart(a, b) == a.end < b.start \/ b.end < a.start

PassedApart ==
  loop # "align" /\ EndsHaveSuccessor =>
    /\ newpart.start >= FirstLba /\ newpart.end <= LastLba
    /\ \A j \in 0 .. count - 1 : j # slot => Apart(newpart, table[j])

FillInv == FillTypeOK /\ PassedApart /\ (loop = "done" => count = N)

-----------------------------------------------------------------------------

\* Unsigned arithmetic that does not wrap is plain arithmetic.
LEMMA NoWrap == ASSUME NEW x \in Block PROVE x % Wrap = x
  BY TableAssumption DEF Block

\* A round leaves the entry apart from the one it is compared with, and moves
\* its start only up and its end only down.
LEMMA ShrinkLemma ==
  ASSUME NEW a \in Entry, NEW p \in Entry, p.end < Wrap - 1
  PROVE  /\ Shrink(a, p) \in Entry
         /\ Apart(Shrink(a, p), p)
         /\ Shrink(a, p).start >= a.start
         /\ Shrink(a, p).end <= a.end
<1>0. /\ a.start \in Nat /\ a.end \in Nat /\ p.start \in Nat /\ p.end \in Nat /\ Wrap \in Nat
      /\ a.start < Wrap /\ a.end < Wrap /\ p.start < Wrap /\ p.end < Wrap
  BY TableAssumption DEF Entry, Block
<1>1. CASE ~PRT_overlap(a, p)
  BY <1>0, <1>1 DEF Shrink, PRT_overlap, Apart
<1>2. CASE PRT_overlap(a, p) /\ p.start > a.start
  <2>1. p.start - 1 \in Block
    BY <1>0, <1>2 DEF Block
  <2>2. Shrink(a, p) = [a EXCEPT !.end = p.start - 1]
    BY <1>2, <2>1, NoWrap DEF Shrink
  <2>3. Shrink(a, p) \in Entry /\ Shrink(a, p).start = a.start /\ Shrink(a, p).end = p.start - 1
    BY <2>1, <2>2 DEF Entry
  <2> QED
    BY <1>0, <1>2, <2>3 DEF PRT_overlap, Apart
<1>3. CASE PRT_overlap(a, p) /\ ~(p.start > a.start)
  <2>1. p.end + 1 \in Block
    BY <1>0 DEF Block
  <2>2. Shrink(a, p) = [a EXCEPT !.start = p.end + 1]
    BY <1>3, <2>1, NoWrap DEF Shrink
  <2>3. Shrink(a, p) \in Entry /\ Shrink(a, p).start = p.end + 1 /\ Shrink(a, p).end = a.end
    BY <2>1, <2>2 DEF Entry
  <2> QED
    BY <1>0, <1>3, <2>3 DEF PRT_overlap, Apart
<1> QED
  BY <1>1, <1>2, <1>3

\* Quotient and remainder.
LEMMA Division ==
  ASSUME NEW x \in Int, NEW b \in Nat \ {0}
  PROVE  x % b \in 0 .. b - 1 /\ x \div b \in Int /\ x = b * (x \div b) + (x % b)
BY SMTT(30)

\* Unsigned arithmetic gives block numbers.
LEMMA WrapType == ASSUME NEW x \in Int PROVE x % Wrap \in Block
<1>1. Wrap \in Nat \ {0}  BY TableAssumption
<1>. QED  BY <1>1, Division DEF Block

\* A block number is a natural number.
LEMMA BlockType == ASSUME NEW x \in Block PROVE x \in Nat /\ x \in Int
BY SMTT(30), TableAssumption DEF Block

\* A round of the second loop leaves an entry.
LEMMA ShrinkType ==
  ASSUME NEW e \in Entry, NEW p \in Entry
  PROVE  Shrink(e, p) \in Entry
<1>1. PICK s, f : s = (p.start - 1) % Wrap /\ f = (p.end + 1) % Wrap  OBVIOUS
<1>2. s \in Block /\ f \in Block
  <2>1. p.start \in Block /\ p.end \in Block  BY SMTT(30) DEF Entry
  <2>2. p.start \in Int /\ p.end \in Int  BY <2>1, BlockType
  <2>3. p.start - 1 \in Int /\ p.end + 1 \in Int  BY SMTT(30), <2>2
  <2>. QED  BY <1>1, <2>3, WrapType
<1>3. [e EXCEPT !.end = s] \in Entry  BY SMTT(30), <1>2 DEF Entry
<1>4. [e EXCEPT !.start = f] \in Entry  BY SMTT(30), <1>2 DEF Entry
<1>. QED  BY <1>1, <1>3, <1>4 DEF Shrink

\* What is apart from an entry stays apart when it shrinks.
LEMMA ApartKept ==
  ASSUME NEW a \in Entry, NEW b \in Entry, NEW p \in Entry,
         b.start >= a.start, b.end <= a.end, Apart(a, p)
  PROVE  Apart(b, p)
  BY DEF Entry, Block, Apart

\* The invariant holds when GPT_fillremaining() starts.
LEMMA InitInv == FillInit => FillInv
  BY TableAssumption, FillAssumption DEF FillInit, FillInv, FillTypeOK, PassedApart, Slots, Block

\* The entries of a table.
LEMMA TableEntries ==
  ASSUME FillTypeOK, NEW j \in Slots
  PROVE  table[j] \in Entry
  BY FillAssumption DEF FillTypeOK

\* Each step of the two loops of GPT_fillremaining() keeps the invariant.
LEMMA StepInv == FillInv /\ [FillNext]_fillVars => FillInv'
<1> SUFFICES ASSUME FillInv, [FillNext]_fillVars PROVE FillInv'
  OBVIOUS
<1> USE TableAssumption, FillAssumption
<1>1. CASE Align
  <2>1. count \in Nat /\ 2 * FirstLba <= Wrap /\ count < FirstLba /\ FirstLba \in Nat /\ Wrap \in Nat
    BY <1>1 DEF Align, FillInv, FillTypeOK, Block
  <2>2. count * 2 \in Block
    BY <2>1 DEF Block
  <2>3. count' = count * 2
    BY <1>1, <2>2, NoWrap DEF Align
  <2> QED
    BY <1>1, <2>2, <2>3 DEF Align, FillInv, FillTypeOK, PassedApart
<1>2. CASE Aligned
  <2>1. count \in Block /\ newpart \in Entry
    BY <1>2 DEF Aligned, FillInv, FillTypeOK
  <2>2. newpart' \in Entry /\ newpart'.start = count /\ newpart'.end = LastLba
    BY Zenon, <1>2, <2>1 DEF Aligned, Entry
  <2>3. FillTypeOK'
    BY <1>2, <2>2 DEF Aligned, FillInv, FillTypeOK
  <2> QED
    BY <1>2, <2>1, <2>2, <2>3 DEF Aligned, FillInv, PassedApart, Block
<1>3. CASE Round
  <2>1. count \in Slots /\ count \in Nat /\ slot \in Slots /\ newpart \in Entry /\ FillTypeOK /\ loop = "shrink"
    BY <1>3 DEF Round, FillInv, FillTypeOK, Slots
  <2>2. table[count] \in Entry
    BY <2>1, TableEntries
  <2>a. newpart' \in Entry
    BY <1>3, <2>1, <2>2, ShrinkType DEF Round
  <2>4. FillTypeOK'
    BY <1>3, <2>1, <2>a DEF Round, FillTypeOK, Slots
  <2>3. ASSUME EndsHaveSuccessor
        PROVE  /\ newpart'.start >= newpart.start /\ newpart'.end <= newpart.end
               /\ count # slot => Apart(newpart', table[count])
    <3>1. CASE count = slot
      BY <1>3, <2>1, <3>1 DEF Round, Entry, Block
    <3>2. CASE count # slot
      <4>1. table[count].end < Wrap - 1
        BY <2>1, <2>3, <3>2 DEF EndsHaveSuccessor
      <4> QED
        BY <1>3, <2>1, <2>2, <3>2, <4>1, ShrinkLemma DEF Round
    <3> QED
      BY <3>1, <3>2
  <2>5. ASSUME EndsHaveSuccessor, NEW j \in 0 .. (count + 1) - 1, j # slot
        PROVE  Apart(newpart', table[j])
    <3>1. CASE j = count
      BY <2>3, <2>5, <3>1
    <3>2. CASE j # count
      <4>1. j \in 0 .. count - 1 /\ j \in Slots
        BY <2>1, <3>2 DEF Slots
      <4>2. Apart(newpart, table[j])
        BY <2>1, <2>5, <4>1 DEF FillInv, PassedApart
      <4>3. table[j] \in Entry
        BY <2>1, <4>1, TableEntries
      <4> QED
        BY <2>1, <2>a, <2>3, <2>5, <4>2, <4>3, ApartKept
    <3> QED
      BY <3>1, <3>2
  <2>6. EndsHaveSuccessor => newpart'.start >= FirstLba /\ newpart'.end <= LastLba
    BY <2>1, <2>a, <2>3 DEF FillInv, PassedApart, Entry, Block
  <2>7. table' = table /\ slot' = slot /\ loop' = loop /\ count' = count + 1
    BY <1>3 DEF Round
  <2>8. PassedApart'
    BY <2>5, <2>6, <2>7 DEF PassedApart, EndsHaveSuccessor, Apart
  <2> QED
    BY <2>1, <2>4, <2>7, <2>8 DEF FillInv
<1>4. CASE Return
  BY <1>4 DEF Return, FillInv, FillTypeOK, PassedApart, EndsHaveSuccessor, Apart
<1>5. CASE UNCHANGED fillVars
  BY <1>5 DEF fillVars, FillInv, FillTypeOK, PassedApart, EndsHaveSuccessor, Apart
<1> QED
  BY <1>1, <1>2, <1>3, <1>4, <1>5 DEF FillNext, Done

\* The invariant holds throughout GPT_fillremaining().
LEMMA FillInvariant == FillSpec => []FillInv
  BY InitInv, StepInv, PTL DEF FillSpec

-----------------------------------------------------------------------------

\* The partition GPT_fillremaining() leaves shares no block with another one,
\* if no other one ends with the last block number there is.
THEOREM FillTakesOnlyFreeSpace == FillSpec => []TakesOnlyFreeSpace
<1>1. FillInv => TakesOnlyFreeSpace
  <2> SUFFICES ASSUME FillInv, loop = "done", EndsHaveSuccessor, NEW j \in Slots \ {slot}
               PROVE  Blocks(newpart) \cap Blocks(table[j]) = {}
    BY DEF TakesOnlyFreeSpace
  <2>1. Apart(newpart, table[j])
    BY TableAssumption DEF FillInv, PassedApart, Slots
  <2>2. newpart \in Entry /\ table[j] \in Entry
    BY TableEntries DEF FillInv, FillTypeOK
  <2> QED
    BY <2>1, <2>2 DEF Apart, Blocks, Entry, Block
<1> QED
  BY <1>1, FillInvariant, PTL

\* Under the same condition it is within the usable blocks.
THEOREM FillStaysUsable == FillSpec => []StaysUsable
<1>1. FillInv => StaysUsable
  <2> SUFFICES ASSUME FillInv, loop = "done", EndsHaveSuccessor
               PROVE  Blocks(newpart) \subseteq FirstLba .. LastLba
    BY DEF StaysUsable
  <2>1. newpart.start >= FirstLba /\ newpart.end <= LastLba /\ newpart \in Entry
    BY DEF FillInv, PassedApart, FillTypeOK
  <2> QED
    BY <2>1, FillAssumption DEF Blocks, Entry, Block
<1> QED
  BY <1>1, FillInvariant, PTL

-----------------------------------------------------------------------------
(* What a store leaves on the disk. *)

\* Leaves are first-order steps for Zenon, unless they cite SMT.
USE ZenonT(30)

Table == [Slots -> Entry]

HeaderSector(sums) ==
  [kind : {"header"}, current_lba : Int, backup_lba : Int, partitions_lba : Int,
   end_lba : Block, sum : sums]

Sector == {Data} \cup HeaderSector(Table) \cup [kind : {"entries"}, e : [0 .. PerSector - 1 -> Entry]]

\* The write n of GPT_store(): where it goes, and what it puts there.
Place(n) == IF n <= need THEN n ELSE IF n = need + 1 THEN Size - 1 ELSE n + Size - 2 * need - 2
What(t, n) ==
  IF n = 1 THEN Primary(t) ELSE IF n <= need THEN EntrySector(t, n - 2)
  ELSE IF n = need + 1 THEN Backup(t) ELSE EntrySector(t, n - need - 2)

\* The first n writes of a store of t are on the disk d.
Holds(d, t, n) == \A m \in 1 .. n : d[Place(m)] = What(t, m)

\* The disk has room for both copies.
Fits == Size >= need + need + 1

\* The backup copy holds t, and the header that leads to it is there.
BackupGood(d, t) ==
  /\ Size - 1 <= INT_MAX
  /\ d[1].kind = "header" /\ d[1].backup_lba = Size - 1 /\ Good(d, Size - 1, t)

TypesOK ==
  /\ disk \in [Lbas -> Sector]
  /\ pc \in {"off", "prompt", "storing", "quit", "exit"}
  /\ part \in Table
  /\ modified \in BOOLEAN
  /\ Running => header \in HeaderSector(Table \cup {NoTable})
  /\ written \in Nat
  /\ store = NoStore \/ store \in [backed : BOOLEAN, before : Table \cup {NoTable},
                                    new : Table, done : BOOLEAN]

\* A header is only ever in the first or the last sector of the disk as it was
\* when it was written, and leads to the entries of its copy; what is behind
\* the last entry is zero.
DiskOK ==
  /\ disk[1].kind = "header" => Fits /\ disk[1].partitions_lba = 2
  /\ disk[Size - 1].kind = "header" => Fits /\ disk[Size - 1].partitions_lba = Size - need
  /\ Fits => \A k \in 0 .. SectorsNeeded - 1 :
       disk[2 + k].kind = "entries" =>
         \A j \in 0 .. PerSector - 1 : k * PerSector + j >= N => disk[2 + k].e[j] = Zero

\* A store in progress: the writes so far are on the disk.
Progress ==
  pc = "storing" =>
    /\ Fits /\ written < 2 * need /\ Holds(disk, part, written)
    /\ store # NoStore /\ store.new = part /\ ~store.done
    /\ saving \in {"write", "quit", "init"}
    /\ \A i \in Slots : part[i].type # "nil" => ~OutOfBounds(part[i])

\* A store that returned 0: all of it is on the disk.
Stored ==
  store.done =>
    /\ Fits /\ store # NoStore /\ Holds(disk, store.new, 2 * need)
    /\ \A i \in Slots : store.new[i].type # "nil" => ~OutOfBounds(store.new[i])

\* Until the primary copy is complete, the backup copy is the old one.
OldOrNew ==
  store.backed =>
    \/ /\ BackupGood(disk, store.before)
       /\ GPT_load(disk, FALSE).kind = "header" => disk[1].sum \in {store.before, store.new}
    \/ Good(disk, 1, store.new) /\ ~(pc = "storing" /\ written < need)

Quit == pc = "quit" /\ modified => store.done /\ store.new = part

IInv == TypesOK /\ DiskOK /\ Progress /\ Stored /\ OldOrNew /\ Quit

-----------------------------------------------------------------------------
(* Numbers. *)

\* What the assumptions say of the constants.
LEMMA Constants ==
  /\ N \in Nat \ {0} /\ Wrap \in Nat \ {0} /\ Size \in Nat \ {0} /\ PerSector \in Nat \ {0}
  /\ Size < Wrap /\ InitTables \subseteq Table /\ Answers \subseteq Block
  /\ 1 \in Lbas /\ Size - 1 \in Lbas
<1>1. Size \in Nat /\ Size - 1 \in Nat \ {0}  BY DiskAssumption
<1>2. Size \in Nat \ {0} /\ 1 \in Lbas /\ Size - 1 \in Lbas  BY SMTT(30), <1>1 DEF Lbas
<1>. QED  BY <1>2, TableAssumption, DiskAssumption DEF Table

\* The entries need at least one sector; all sectors but the last are full.
LEMMA SectorsType ==
  /\ SectorsNeeded \in Nat \ {0} /\ need = SectorsNeeded + 1 /\ need \in Nat
  /\ N <= PerSector * SectorsNeeded /\ PerSector * (SectorsNeeded - 1) < N
  /\ UsableStart = need + 1
<1>. DEFINE q == SectorsNeeded
<1>1. N \in Nat \ {0} /\ PerSector \in Nat \ {0} /\ N + PerSector - 1 \in Int  BY SMTT(30), Constants
<1>2. PICK r \in 0 .. PerSector - 1 : q \in Int /\ N + PerSector - 1 = PerSector * q + r
  BY <1>1, Division DEF SectorsNeeded
<1>. HIDE DEF q
<1>3. q >= 1
  <2>1. ASSUME q <= 0 PROVE FALSE
    <3>1. PerSector * q <= 0  BY SMTT(30), <1>1, <1>2, <2>1
    <3>. QED  BY SMTT(30), <1>1, <1>2, <3>1
  <2>. QED  BY SMTT(30), <1>2, <2>1
<1>4. PerSector * (q - 1) = PerSector * q - PerSector /\ PerSector * q \in Int  BY SMTT(30), <1>1, <1>2
<1>5. N <= PerSector * q /\ PerSector * (q - 1) < N  BY SMTT(30), <1>1, <1>2, <1>4
<1>6. q \in Nat \ {0} /\ need = q + 1 /\ need \in Nat  BY SMTT(30), <1>2, <1>3 DEF need, q
<1>. QED  BY <1>5, <1>6 DEF q, UsableStart

\* Where the last usable block is.
LEMMA UsableEndIs ==
  UsableEnd \in Block /\ (Fits => UsableEnd = Size - need - 1)
<1>1. Size \in Nat /\ need \in Nat /\ Size < Wrap /\ Wrap \in Nat \ {0}  BY Constants, SectorsType
<1>2. UsableEnd \in Block
  <2>1. Size - (need + 1) \in Int  BY SMTT(30), <1>1
  <2>. QED  BY <2>1, WrapType DEF UsableEnd
<1>3. ASSUME Fits PROVE UsableEnd = Size - need - 1
  <2>1. Size - (need + 1) \in 0 .. Wrap - 1  BY SMTT(30), <1>1, <1>3 DEF Fits
  <2>2. \A x \in 0 .. Wrap - 1 : x % Wrap = x  BY SMTT(30), <1>1
  <2>3. UsableEnd = Size - (need + 1)  BY <2>1, <2>2 DEF UsableEnd
  <2>. QED  BY SMTT(30), <1>1, <2>3
<1>. QED  BY <1>2, <1>3

\* The sector of entry i, and its place there.
LEMMA SectorOf ==
  ASSUME NEW i \in Slots
  PROVE  /\ i \div PerSector \in 0 .. SectorsNeeded - 1 /\ i % PerSector \in 0 .. PerSector - 1
         /\ (i \div PerSector) * PerSector + (i % PerSector) = i
<1>. DEFINE q == i \div PerSector
            r == i % PerSector
<1>1. PerSector \in Nat \ {0} /\ i \in Nat /\ i \in Int /\ i < N /\ N \in Nat
  BY SMTT(30), Constants DEF Slots
<1>2. r \in 0 .. PerSector - 1 /\ q \in Int /\ i = PerSector * q + r  BY <1>1, Division
<1>. HIDE DEF q, r
<1>3. q >= 0
  <2>1. ASSUME q <= -1 PROVE FALSE
    <3>1. PerSector * q <= -PerSector  BY SMTT(30), <1>1, <1>2, <2>1
    <3>. QED  BY SMTT(30), <1>1, <1>2, <3>1
  <2>. QED  BY SMTT(30), <1>2, <2>1
<1>4. q <= SectorsNeeded - 1
  <2>1. ASSUME q >= SectorsNeeded PROVE FALSE
    <3>1. PerSector * q >= PerSector * SectorsNeeded
      BY SMTT(30), <1>1, <1>2, <2>1, SectorsType
    <3>2. PerSector * SectorsNeeded \in Nat  BY SMTT(30), <1>1, SectorsType
    <3>. QED  BY SMTT(30), <1>1, <1>2, <3>1, <3>2, SectorsType
  <2>. QED  BY SMTT(30), <1>2, <2>1, SectorsType
<1>5. q * PerSector = PerSector * q  BY SMTT(30), <1>1, <1>2
<1>6. q * PerSector + r = i  BY <1>2, <1>5
<1>7. q \in 0 .. SectorsNeeded - 1  BY SMTT(30), <1>2, <1>3, <1>4, SectorsType
<1>. QED  BY <1>2, <1>6, <1>7 DEF q, r

-----------------------------------------------------------------------------
(* The sectors GPT_store() writes. *)

\* An entry that is not used is an entry.
LEMMA ZeroType == Zero \in Entry
<1>1. 0 \in Block  BY SMTT(30), Constants DEF Block
<1>. QED  BY SMTT(30), <1>1 DEF Zero, Entry, Types

\* The k-th sector of the entries of a table.
LEMMA EntrySectorType ==
  ASSUME NEW t \in Table, NEW k \in Nat
  PROVE  /\ EntrySector(t, k) \in Sector /\ EntrySector(t, k).kind = "entries"
         /\ \A j \in 0 .. PerSector - 1 :
              /\ k * PerSector + j \in Slots => EntrySector(t, k).e[j] = t[k * PerSector + j]
              /\ k * PerSector + j >= N => EntrySector(t, k).e[j] = Zero
<1>. DEFINE f == [j \in 0 .. PerSector - 1 |->
                    IF k * PerSector + j < N THEN t[k * PerSector + j] ELSE Zero]
<1>1. EntrySector(t, k) = [kind |-> "entries", e |-> f]  BY DEF EntrySector
<1>2. \A j \in 0 .. PerSector - 1 :
        /\ k * PerSector + j < N => k * PerSector + j \in Slots
        /\ k * PerSector + j \in Slots => k * PerSector + j < N
        /\ k * PerSector + j >= N => ~(k * PerSector + j < N)
  <2>. TAKE j \in 0 .. PerSector - 1
  <2>1. PerSector \in Nat /\ N \in Nat  BY Constants
  <2>2. k * PerSector \in Nat  BY SMTT(30), <2>1
  <2>. QED  BY SMTT(30), <2>1, <2>2 DEF Slots
<1>3. f \in [0 .. PerSector - 1 -> Entry]  BY <1>2, ZeroType DEF Table
<1>4. \A j \in 0 .. PerSector - 1 :
        f[j] = IF k * PerSector + j < N THEN t[k * PerSector + j] ELSE Zero  OBVIOUS
<1>. HIDE DEF f
<1>5. EntrySector(t, k).kind = "entries" /\ EntrySector(t, k).e = f  BY SMTT(30), <1>1
<1>6. EntrySector(t, k) \in [kind : {"entries"}, e : [0 .. PerSector - 1 -> Entry]]
  BY SMTT(30), <1>1, <1>3
<1>7. EntrySector(t, k) \in Sector  BY <1>6 DEF Sector
<1>8. \A j \in 0 .. PerSector - 1 :
              /\ k * PerSector + j \in Slots => EntrySector(t, k).e[j] = t[k * PerSector + j]
              /\ k * PerSector + j >= N => EntrySector(t, k).e[j] = Zero
  BY <1>2, <1>4, <1>5
<1>. QED  BY <1>5, <1>7, <1>8

\* The headers GPT_store() writes.
LEMMA HeadersAre ==
  ASSUME NEW t
  PROVE  /\ Primary(t).kind = "header" /\ Primary(t).current_lba = 1
         /\ Primary(t).backup_lba = Size - 1 /\ Primary(t).partitions_lba = 2
         /\ Primary(t).sum = t /\ Primary(t).end_lba = UsableEnd
         /\ Backup(t).kind = "header" /\ Backup(t).current_lba = Size - 1
         /\ Backup(t).partitions_lba = UsableEnd + 1
         /\ Backup(t).sum = t /\ Backup(t).end_lba = UsableEnd
         /\ \A sums : t \in sums => /\ Primary(t) \in HeaderSector(sums)
                                    /\ Backup(t) \in HeaderSector(sums)
<1>1. UsableEnd \in Block /\ UsableEnd \in Int /\ Size \in Nat
  BY UsableEndIs, BlockType, Constants
<1>2. Size - 1 \in Int /\ UsableEnd + 1 \in Int  BY SMTT(30), <1>1
<1>. HIDE DEF UsableEnd
<1>3. /\ Primary(t).kind = "header" /\ Primary(t).current_lba = 1
      /\ Primary(t).backup_lba = Size - 1 /\ Primary(t).partitions_lba = 2
      /\ Primary(t).sum = t /\ Primary(t).end_lba = UsableEnd
  BY SMTT(30) DEF Primary, Header
<1>4. /\ Backup(t).kind = "header" /\ Backup(t).current_lba = Size - 1
      /\ Backup(t).partitions_lba = UsableEnd + 1
      /\ Backup(t).sum = t /\ Backup(t).end_lba = UsableEnd
  BY SMTT(30) DEF Backup, Header
<1>5. ASSUME NEW sums, t \in sums PROVE Primary(t) \in HeaderSector(sums) /\ Backup(t) \in HeaderSector(sums)
  <2>1. Primary(t) \in HeaderSector(sums)  BY SMTT(30), <1>1, <1>2, <1>5 DEF Primary, Header, HeaderSector
  <2>2. Backup(t) \in HeaderSector(sums)  BY SMTT(30), <1>1, <1>2, <1>5 DEF Backup, Header, HeaderSector
  <2>. QED  BY <2>1, <2>2
<1>. QED  BY <1>3, <1>4, <1>5

\* Two sequences, one after the other.
LEMMA Concat ==
  ASSUME NEW S, NEW a \in Seq(S), NEW b \in Seq(S)
  PROVE  a \o b \in Seq(S)
BY SMTT(30)

\* A function on 1 .. n is a sequence.
LEMMA IsSequence ==
  ASSUME NEW S, NEW n \in Nat, NEW f \in [1 .. n -> S]
  PROVE  f \in Seq(S) /\ Len(f) = n
BY SMTT(30)

\* The entry writes of a copy.
LEMMA EntryWritesAre ==
  ASSUME NEW t \in Table, NEW h, h.partitions_lba \in Int
  PROVE  /\ EntryWrites(h, t) \in [1 .. SectorsNeeded -> Int \X Sector]
         /\ \A k \in 1 .. SectorsNeeded :
              EntryWrites(h, t)[k] = <<h.partitions_lba + k - 1, EntrySector(t, k - 1)>>
<1>1. PICK plba \in Int : plba = h.partitions_lba  OBVIOUS
<1>2. ASSUME NEW k \in 1 .. SectorsNeeded
      PROVE  <<plba + k - 1, EntrySector(t, k - 1)>> \in Int \X Sector
  <2>1. plba + k - 1 \in Int /\ k - 1 \in Nat  BY SMTT(30), SectorsType
  <2>2. EntrySector(t, k - 1) \in Sector  BY <2>1, EntrySectorType
  <2>. QED  BY SMTT(30), <2>1, <2>2
<1>3. EntryWrites(h, t) \in [1 .. SectorsNeeded -> Int \X Sector]  BY <1>1, <1>2 DEF EntryWrites
<1>4. \A k \in 1 .. SectorsNeeded :
        EntryWrites(h, t)[k] = <<h.partitions_lba + k - 1, EntrySector(t, k - 1)>>
  BY DEF EntryWrites
<1>. QED  BY <1>3, <1>4

\* The header write of a copy.
LEMMA HeaderWriteIs ==
  ASSUME NEW h \in Sector, h.current_lba \in Int
  PROVE  /\ HeaderWrite(h) \in [1 .. 1 -> Int \X Sector]
         /\ HeaderWrite(h)[1] = <<h.current_lba, h>>
<1>1. PICK l \in Int : l = h.current_lba  OBVIOUS
<1>2. HeaderWrite(h) = <<<<l, h>>>>  BY <1>1 DEF HeaderWrite
<1>3. <<<<l, h>>>> \in [1 .. 1 -> Int \X Sector] /\ <<<<l, h>>>>[1] = <<l, h>>
  BY SMTT(30)
<1>. QED  BY <1>1, <1>2, <1>3

\* The sequence of writes is the one Place and What describe.
LEMMA WritesAre ==
  ASSUME NEW t \in Table, Fits
  PROVE  /\ Len(Writes(t)) = 2 * need
         /\ \A n \in 1 .. 2 * need : Writes(t)[n] = <<Place(n), What(t, n)>>
<1>. DEFINE q == SectorsNeeded
            a == HeaderWrite(Primary(t))
            b == EntryWrites(Primary(t), t)
            c == HeaderWrite(Backup(t))
            d == EntryWrites(Backup(t), t)
<1>1. q \in Nat \ {0} /\ need = q + 1 /\ Size \in Nat /\ UsableEnd \in Int
  BY SectorsType, Constants, UsableEndIs, BlockType
<1>2. Primary(t) \in Sector /\ Backup(t) \in Sector
  BY HeadersAre DEF Sector
<1>3. Primary(t).current_lba \in Int /\ Backup(t).current_lba \in Int
      /\ Primary(t).partitions_lba \in Int /\ Backup(t).partitions_lba \in Int
  <2>1. 1 \in Int /\ 2 \in Int /\ Size - 1 \in Int /\ UsableEnd + 1 \in Int  BY SMTT(30), <1>1
  <2>. QED  BY <2>1, HeadersAre
<1>4. a \in [1 .. 1 -> Int \X Sector] /\ a[1] = <<1, Primary(t)>>
  BY <1>2, <1>3, HeaderWriteIs, HeadersAre
<1>5. c \in [1 .. 1 -> Int \X Sector] /\ c[1] = <<Size - 1, Backup(t)>>
  BY <1>2, <1>3, HeaderWriteIs, HeadersAre
<1>6. b \in [1 .. q -> Int \X Sector]
      /\ \A k \in 1 .. q : b[k] = <<2 + k - 1, EntrySector(t, k - 1)>>
  <2>1. b \in [1 .. q -> Int \X Sector]
        /\ \A k \in 1 .. q : b[k] = <<Primary(t).partitions_lba + k - 1, EntrySector(t, k - 1)>>
    BY <1>3, EntryWritesAre
  <2>. QED  BY <2>1, HeadersAre
<1>7. d \in [1 .. q -> Int \X Sector]
      /\ \A k \in 1 .. q : d[k] = <<UsableEnd + 1 + k - 1, EntrySector(t, k - 1)>>
  <2>1. d \in [1 .. q -> Int \X Sector]
        /\ \A k \in 1 .. q : d[k] = <<Backup(t).partitions_lba + k - 1, EntrySector(t, k - 1)>>
    BY <1>3, EntryWritesAre
  <2>. QED  BY <2>1, HeadersAre
<1>8. Writes(t) = a \o b \o c \o d  BY DEF Writes
<1>. HIDE DEF a, b, c, d, q
<1>9. /\ q \in Nat \ {0} /\ a \in [1 .. 1 -> Int \X Sector] /\ b \in [1 .. q -> Int \X Sector]
      /\ c \in [1 .. 1 -> Int \X Sector] /\ d \in [1 .. q -> Int \X Sector]
  BY <1>1, <1>4, <1>5, <1>6, <1>7
<1>10. PICK w : /\ w = a \o b \o c \o d
                /\ Len(w) = 2 * q + 2
                /\ w[1] = a[1]
                /\ \A n \in 2 .. q + 1 : w[n] = b[n - 1]
                /\ w[q + 2] = c[1]
                /\ \A n \in q + 3 .. 2 * q + 2 : w[n] = d[n - q - 2]
  <2>0. PICK S : S = Int \X Sector  OBVIOUS
  <2>. a \in Seq(S) /\ b \in Seq(S) /\ c \in Seq(S) /\ d \in Seq(S)
    BY <2>0, <1>9, IsSequence, 1 \in Nat
  <2>1. PICK u \in Seq(S) : u = a \o b  BY Concat
  <2>2. PICK v \in Seq(S) : v = u \o c  BY Concat
  <2>3. PICK w \in Seq(S) : w = v \o d  BY Concat
  <2>4. /\ Len(u) = Len(a) + Len(b)
        /\ \A n \in 1 .. Len(a) : u[n] = a[n]
        /\ \A n \in 1 .. Len(b) : u[n + Len(a)] = b[n]
    BY SMTT(30), <2>1
  <2>5. /\ Len(v) = Len(u) + Len(c)
        /\ \A n \in 1 .. Len(u) : v[n] = u[n]
        /\ \A n \in 1 .. Len(c) : v[n + Len(u)] = c[n]
    BY SMTT(30), <2>2
  <2>6. /\ Len(w) = Len(v) + Len(d)
        /\ \A n \in 1 .. Len(v) : w[n] = v[n]
        /\ \A n \in 1 .. Len(d) : w[n + Len(v)] = d[n]
    BY SMTT(30), <2>3
  <2>7. Len(a) = 1 /\ Len(b) = q /\ Len(c) = 1 /\ Len(d) = q  BY <1>9, IsSequence, 1 \in Nat
  <2>8. /\ Len(w) = 2 * q + 2
        /\ w[1] = a[1]
        /\ \A n \in 2 .. q + 1 : w[n] = b[n - 1]
        /\ w[q + 2] = c[1]
        /\ \A n \in q + 3 .. 2 * q + 2 : w[n] = d[n - q - 2]
    <3>0. PICK lu, lv, lw :
            /\ lu = Len(u) /\ lu = 1 + q /\ lv = Len(v) /\ lv = lu + 1
            /\ lw = Len(w) /\ lw = lv + q
      BY <2>4, <2>5, <2>6, <2>7
    <3>1. Len(u) = q + 1 /\ Len(v) = q + 2 /\ Len(w) = 2 * q + 2
      <4>1. lu = q + 1 /\ lv = q + 2 /\ lw = 2 * q + 2  BY SMTT(30), <1>1, <3>0
      <4>. QED  BY <3>0, <4>1
    <3>2. w[1] = a[1]
      <4>1. 1 \in 1 .. Len(a) /\ 1 \in 1 .. Len(u) /\ 1 \in 1 .. Len(v)  BY SMTT(30), <2>7, <3>1
      <4>2. u[1] = a[1]  BY <4>1, <2>4
      <4>3. v[1] = u[1]  BY <4>1, <2>5
      <4>4. w[1] = v[1]  BY <4>1, <2>6
      <4>. QED  BY <4>2, <4>3, <4>4
    <3>3. ASSUME NEW n \in 2 .. q + 1 PROVE w[n] = b[n - 1]
      <4>1. /\ n - 1 \in 1 .. Len(b) /\ n \in 1 .. Len(u) /\ n \in 1 .. Len(v)
            /\ n = (n - 1) + Len(a)
        BY SMTT(30), <2>7, <3>1
      <4>. QED  BY <4>1, <2>4, <2>5, <2>6
    <3>4. w[q + 2] = c[1]
      <4>1. 1 \in 1 .. Len(c) /\ q + 2 = 1 + Len(u) /\ q + 2 \in 1 .. Len(v)  BY SMTT(30), <2>7, <3>1
      <4>. QED  BY <4>1, <2>5, <2>6
    <3>5. ASSUME NEW n \in q + 3 .. 2 * q + 2 PROVE w[n] = d[n - q - 2]
      <4>1. n - q - 2 \in 1 .. Len(d) /\ n = (n - q - 2) + Len(v)  BY SMTT(30), <1>1, <2>7, <3>1
      <4>. QED  BY <4>1, <2>6
    <3>. QED  BY <3>1, <3>2, <3>3, <3>4, <3>5
  <2>9. w = a \o b \o c \o d  BY <2>1, <2>2, <2>3
  <2>. QED  BY <2>8, <2>9
<1>11. Len(w) = 2 * need  BY SMTT(30), <1>1, <1>10
<1>12. UsableEnd = Size - need - 1  BY UsableEndIs
<1>13. ASSUME NEW n \in 1 .. 2 * need PROVE w[n] = <<Place(n), What(t, n)>>
  <2>1. CASE n = 1
    <3>1. n <= need  BY SMTT(30), <1>1, <2>1
    <3>2. Place(n) = 1 /\ What(t, n) = Primary(t)  BY <2>1, <3>1 DEF Place, What
    <3>. QED  BY <2>1, <3>2, <1>4, <1>10
  <2>2. CASE n \in 2 .. q + 1
    <3>1. n <= need /\ n # 1 /\ n - 1 \in 1 .. q /\ n - 1 - 1 = n - 2 /\ 2 + (n - 1) - 1 = n
      BY SMTT(30), <1>1, <2>2
    <3>2. Place(n) = n /\ What(t, n) = EntrySector(t, n - 2)  BY <3>1 DEF Place, What
    <3>. QED  BY <2>2, <3>1, <3>2, <1>6, <1>10
  <2>3. CASE n = q + 2
    <3>1. ~(n <= need) /\ n # 1 /\ n = need + 1  BY SMTT(30), <1>1, <2>3
    <3>2. Place(n) = Size - 1 /\ What(t, n) = Backup(t)  BY <3>1 DEF Place, What
    <3>. QED  BY <2>3, <3>2, <1>5, <1>10
  <2>4. CASE n \in q + 3 .. 2 * q + 2
    <3>1. /\ ~(n <= need) /\ n # 1 /\ n # need + 1 /\ n - q - 2 \in 1 .. q
          /\ n - q - 2 - 1 = n - need - 2
          /\ UsableEnd + 1 + (n - q - 2) - 1 = n + Size - 2 * need - 2
      BY SMTT(30), <1>1, <2>4, <1>12
    <3>2. Place(n) = n + Size - 2 * need - 2 /\ What(t, n) = EntrySector(t, n - need - 2)
      BY <3>1 DEF Place, What
    <3>. QED  BY <2>4, <3>1, <3>2, <1>7, <1>10
  <2>5. n = 1 \/ n \in 2 .. q + 1 \/ n = q + 2 \/ n \in q + 3 .. 2 * q + 2  BY SMTT(30), <1>1
  <2>. QED  BY <2>1, <2>2, <2>3, <2>4, <2>5
<1>. QED  BY <1>8, <1>10, <1>11, <1>13

-----------------------------------------------------------------------------
(* What a store leaves where. *)

\* GPT_store() writes inside the disk and outside the usable blocks.
LEMMA PlaceType ==
  ASSUME Fits, NEW n \in 1 .. 2 * need
  PROVE  Place(n) \in Lbas /\ Place(n) \notin Usable
<1>1. need \in Nat /\ need >= 2 /\ Size \in Nat /\ Size >= need + need + 1
  BY SMTT(30), SectorsType, Constants DEF Fits
<1>2. UsableEnd = Size - need - 1 /\ UsableStart = need + 1  BY UsableEndIs, SectorsType
<1>3. CASE n <= need
  <2>1. Place(n) = n  BY <1>3 DEF Place
  <2>. QED  BY SMTT(30), <1>1, <1>2, <1>3, <2>1 DEF Lbas, Usable
<1>4. CASE ~(n <= need) /\ n = need + 1
  <2>1. Place(n) = Size - 1  BY <1>4 DEF Place
  <2>. QED  BY SMTT(30), <1>1, <1>2, <2>1 DEF Lbas, Usable
<1>5. CASE ~(n <= need) /\ n # need + 1
  <2>1. Place(n) = n + Size - 2 * need - 2  BY <1>5 DEF Place
  <2>. QED  BY SMTT(30), <1>1, <1>2, <1>5, <2>1 DEF Lbas, Usable
<1>. QED  BY <1>3, <1>4, <1>5

\* No sector is written twice.
LEMMA PlaceOnce ==
  ASSUME Fits, NEW n \in 1 .. 2 * need, NEW m \in 1 .. 2 * need, m # n
  PROVE  Place(m) # Place(n)
<1>1. need \in Nat /\ need >= 2 /\ Size \in Nat /\ Size >= need + need + 1
  BY SMTT(30), SectorsType, Constants DEF Fits
<1>. DEFINE Is(i) == \/ i <= need /\ Place(i) = i
                     \/ i = need + 1 /\ Place(i) = Size - 1
                     \/ i > need + 1 /\ Place(i) = i + Size - 2 * need - 2
<1>2. \A i \in 1 .. 2 * need : Is(i)
  <2>. TAKE i \in 1 .. 2 * need
  <2>1. i <= need \/ (~(i <= need) /\ i = need + 1)
        \/ (~(i <= need) /\ i # need + 1 /\ i > need + 1)  BY SMTT(30), <1>1
  <2>. QED  BY <2>1 DEF Place
<1>3. Is(n) /\ Is(m)  BY <1>2
<1>4. PICK pn, pm : pn = Place(n) /\ pm = Place(m)  OBVIOUS
<1>5. pn # pm
  <2>1. /\ \/ n <= need /\ pn = n
           \/ n = need + 1 /\ pn = Size - 1
           \/ n > need + 1 /\ pn = n + Size - 2 * need - 2
        /\ \/ m <= need /\ pm = m
           \/ m = need + 1 /\ pm = Size - 1
           \/ m > need + 1 /\ pm = m + Size - 2 * need - 2
    BY <1>3, <1>4
  <2>. QED  BY SMTT(30), <1>1, <2>1
<1>. QED  BY <1>4, <1>5

\* Where the sectors of the two copies are.
LEMMA Copies ==
  ASSUME Fits, NEW t
  PROVE  /\ 1 \in 1 .. need /\ Place(1) = 1 /\ What(t, 1) = Primary(t)
         /\ need + 1 \in 1 .. 2 * need /\ Place(need + 1) = Size - 1
         /\ What(t, need + 1) = Backup(t) /\ UsableEnd + 1 = Size - need
         /\ \A k \in 0 .. SectorsNeeded - 1 :
              /\ 2 + k \in 1 .. need /\ Place(2 + k) = 2 + k
              /\ 2 + k \in Lbas /\ Size - need + k \in Lbas
              /\ What(t, 2 + k) = EntrySector(t, k)
              /\ need + 2 + k \in 1 .. 2 * need /\ Place(need + 2 + k) = Size - need + k
              /\ What(t, need + 2 + k) = EntrySector(t, k)
<1>1. /\ need \in Nat /\ need >= 2 /\ Size \in Nat /\ Size >= need + need + 1
      /\ need = SectorsNeeded + 1 /\ SectorsNeeded \in Nat
      /\ UsableEnd = Size - need - 1
  BY SMTT(30), SectorsType, Constants, UsableEndIs DEF Fits
<1>2. 1 \in 1 .. need /\ Place(1) = 1 /\ What(t, 1) = Primary(t)
  <2>1. 1 \in 1 .. need /\ 1 <= need  BY SMTT(30), <1>1
  <2>. QED  BY <2>1 DEF Place, What
<1>3. need + 1 \in 1 .. 2 * need /\ Place(need + 1) = Size - 1 /\ What(t, need + 1) = Backup(t)
  <2>1. need + 1 \in 1 .. 2 * need /\ ~(need + 1 <= need) /\ need + 1 # 1  BY SMTT(30), <1>1
  <2>. QED  BY <2>1 DEF Place, What
<1>4. UsableEnd + 1 = Size - need  BY SMTT(30), <1>1
<1>5. ASSUME NEW k \in 0 .. SectorsNeeded - 1
      PROVE  /\ 2 + k \in 1 .. need /\ Place(2 + k) = 2 + k
             /\ 2 + k \in Lbas /\ Size - need + k \in Lbas
             /\ What(t, 2 + k) = EntrySector(t, k)
             /\ need + 2 + k \in 1 .. 2 * need /\ Place(need + 2 + k) = Size - need + k
             /\ What(t, need + 2 + k) = EntrySector(t, k)
  <2>1. /\ 2 + k \in 1 .. need /\ 2 + k <= need /\ 2 + k # 1 /\ (2 + k) - 2 = k
        /\ 2 + k \in Lbas /\ Size - need + k \in Lbas
    BY SMTT(30), <1>1 DEF Lbas
  <2>2. /\ need + 2 + k \in 1 .. 2 * need /\ ~(need + 2 + k <= need)
        /\ need + 2 + k # need + 1 /\ need + 2 + k # 1
        /\ (need + 2 + k) + Size - 2 * need - 2 = Size - need + k
        /\ (need + 2 + k) - need - 2 = k
    BY SMTT(30), <1>1
  <2>3. Place(2 + k) = 2 + k /\ What(t, 2 + k) = EntrySector(t, k)  BY <2>1 DEF Place, What
  <2>4. Place(need + 2 + k) = Size - need + k  BY <2>2 DEF Place
  <2>5. What(t, need + 2 + k) = EntrySector(t, k)  BY <2>2 DEF What
  <2>. QED  BY <2>1, <2>2, <2>3, <2>4, <2>5
<1>. QED  BY <1>2, <1>3, <1>4, <1>5

\* A copy whose sectors are all there reads as the table it was made of.
LEMMA CopyReads ==
  ASSUME NEW d, NEW t \in Table, NEW plba \in Int,
         \A k \in 0 .. SectorsNeeded - 1 :
           plba + k \in Lbas /\ d[plba + k] = EntrySector(t, k)
  PROVE  ReadEntries(d, plba) = t
<1>1. ASSUME NEW i \in Slots
      PROVE  /\ plba + i \div PerSector \in Lbas /\ d[plba + i \div PerSector].kind = "entries"
             /\ d[plba + i \div PerSector].e[i % PerSector] = t[i]
  <2>1. PICK k, j : k = i \div PerSector /\ j = i % PerSector  OBVIOUS
  <2>2. k \in 0 .. SectorsNeeded - 1 /\ j \in 0 .. PerSector - 1 /\ k * PerSector + j = i
    BY <2>1, SectorOf
  <2>3. k \in Nat  BY SMTT(30), <2>2, SectorsType
  <2>4. EntrySector(t, k).kind = "entries" /\ EntrySector(t, k).e[j] = t[i]
    <3>1. /\ EntrySector(t, k).kind = "entries"
          /\ k * PerSector + j \in Slots => EntrySector(t, k).e[j] = t[k * PerSector + j]
      BY <2>2, <2>3, EntrySectorType
    <3>. QED  BY <3>1, <2>2
  <2>. QED  BY <2>1, <2>2, <2>4
<1>2. ReadEntries(d, plba) = [i \in Slots |-> t[i]]  BY <1>1 DEF ReadEntries
<1>3. t = [i \in Slots |-> t[i]]  BY DEF Table
<1>. QED  BY <1>2, <1>3

\* What is read depends on the sectors of the copy only.
LEMMA SameReads ==
  ASSUME NEW d, NEW d2, NEW plba \in Int,
         \A k \in 0 .. SectorsNeeded - 1 : plba + k \in Lbas => d2[plba + k] = d[plba + k]
  PROVE  ReadEntries(d2, plba) = ReadEntries(d, plba)
<1>1. \A i \in Slots : plba + i \div PerSector \in Lbas =>
                         d2[plba + i \div PerSector] = d[plba + i \div PerSector]
  BY SectorOf
<1>. QED  BY <1>1 DEF ReadEntries

\* Three kinds of sectors.
LEMMA Kinds ==
  /\ Data.kind # "header" /\ Data.kind # "entries"
  /\ \A s \in Sector : /\ s.kind = "header" => s \in HeaderSector(Table)
                       /\ s.kind = "entries" => s.e \in [0 .. PerSector - 1 -> Entry]
<1>1. Data.kind # "header" /\ Data.kind # "entries"  BY SMTT(30) DEF Data
<1>2. \A s \in HeaderSector(Table) : s.kind = "header"  BY SMTT(30) DEF HeaderSector
<1>3. \A s \in [kind : {"entries"}, e : [0 .. PerSector - 1 -> Entry]] :
         s.kind = "entries" /\ s.e \in [0 .. PerSector - 1 -> Entry]  BY SMTT(30)
<1>4. "header" # "entries"  BY SMTT(30)
<1>. QED  BY <1>1, <1>2, <1>3, <1>4 DEF Sector

\* The fields of a header.
LEMMA HeaderFields ==
  ASSUME NEW sums, NEW h \in HeaderSector(sums)
  PROVE  /\ h.kind = "header" /\ h.current_lba \in Int /\ h.backup_lba \in Int
         /\ h.partitions_lba \in Int /\ h.end_lba \in Block /\ h.sum \in sums
BY SMTT(30) DEF HeaderSector

\* Loading the primary copy.
LEMMA PrimaryLoad ==
  ASSUME NEW d
  PROVE  /\ GPT_load(d, FALSE).kind = "header" <=> Good(d, 1, d[1].sum)
         /\ GPT_load(d, FALSE).kind = "header" => GPT_load(d, FALSE) = d[1]
<1>1. GPT_load(d, FALSE) =
        IF d[1].kind = "header" /\ ReadEntries(d, d[1].partitions_lba) = d[1].sum THEN d[1] ELSE Data
  BY Constants DEF GPT_load
<1>. QED  BY <1>1, Kinds DEF Good

\* GPT_load()'s int holds the number of the last sector if it is small enough.
LEMMA LastOffset == ASSUME Size - 1 <= INT_MAX PROVE offset(Size - 1) = Size - 1
<1>1. PICK x : x = Size - 1  OBVIOUS
<1>2. PICK b : b = 2 * INT_MAX + 2  OBVIOUS
<1>3. x \in Nat /\ b \in Nat \ {0} /\ x < b
  <2>1. x \in Nat /\ INT_MAX \in Nat  BY <1>1, DiskAssumption
  <2>. QED  BY SMTT(30), <1>1, <1>2, <2>1
<1>4. x % b = x
  <2>1. PICK r, q : r = x % b /\ q = x \div b  OBVIOUS
  <2>2. x \in Int  BY SMTT(30), <1>3
  <2>3. r \in 0 .. b - 1 /\ q \in Int /\ x = b * q + r  BY <1>3, <2>1, <2>2, Division
  <2>4. r = x
    <3>1. CASE q <= -1
      <4>1. b * q <= -b  BY SMTT(30), <1>3, <2>3, <3>1
      <4>. QED  BY SMTT(30), <1>3, <2>3, <4>1
    <3>2. CASE q >= 1
      <4>1. b * q >= b  BY SMTT(30), <1>3, <2>3, <3>2
      <4>. QED  BY SMTT(30), <1>3, <2>3, <4>1
    <3>3. CASE q = 0  BY SMTT(30), <1>3, <2>3, <3>3
    <3>. QED  BY SMTT(30), <2>3, <3>1, <3>2, <3>3
  <2>. QED  BY <2>1, <2>4
<1>. QED  BY <1>1, <1>2, <1>4 DEF offset

\* Loading the backup copy that the primary header leads to.
LEMMA BackupLoad ==
  ASSUME NEW d, d[1].kind = "header", d[1].backup_lba = Size - 1, Size - 1 <= INT_MAX
  PROVE  /\ GPT_load(d, TRUE).kind = "header" <=> Good(d, Size - 1, d[Size - 1].sum)
         /\ GPT_load(d, TRUE).kind = "header" => GPT_load(d, TRUE) = d[Size - 1]
<1>1. GPT_load(d, TRUE) =
        IF d[Size - 1].kind = "header" /\ ReadEntries(d, d[Size - 1].partitions_lba) = d[Size - 1].sum
          THEN d[Size - 1] ELSE Data
  BY Constants, LastOffset DEF GPT_load
<1>. QED  BY <1>1, Kinds DEF Good

\* A good primary copy is the table that loads.
LEMMA PrimaryTable ==
  ASSUME NEW d, NEW t, Good(d, 1, t)
  PROVE  GPT_load(d, FALSE).kind = "header" /\ LoadTable(d) = t
<1>1. d[1].sum = t  BY DEF Good
<1>2. GPT_load(d, FALSE).kind = "header" /\ GPT_load(d, FALSE) = d[1]  BY <1>1, PrimaryLoad
<1>. QED  BY <1>1, <1>2 DEF LoadTable, LoadHeader

\* A good backup copy is, if the primary one is not good.
LEMMA BackupTable ==
  ASSUME NEW d, NEW t, BackupGood(d, t)
  PROVE  /\ GPT_load(d, TRUE).kind = "header" /\ GPT_load(d, TRUE).sum = t
         /\ GPT_load(d, FALSE).kind # "header" => LoadTable(d) = t
<1>1. /\ Size - 1 <= INT_MAX
      /\ d[1].kind = "header" /\ d[1].backup_lba = Size - 1 /\ Good(d, Size - 1, t)
  BY DEF BackupGood
<1>2. d[Size - 1].sum = t  BY <1>1 DEF Good
<1>3. GPT_load(d, TRUE).kind = "header" /\ GPT_load(d, TRUE) = d[Size - 1]
  BY <1>1, <1>2, BackupLoad
<1>. QED  BY <1>2, <1>3 DEF LoadTable, LoadHeader

\* Both copies good, for the same table.
LEMMA BothGood ==
  ASSUME NEW d, NEW t, Good(d, 1, t), BackupGood(d, t)
  PROVE  BackedUp(d)
<1>1. LoadTable(d) = t  BY PrimaryTable
<1>2. GPT_load(d, TRUE).kind = "header" /\ GPT_load(d, TRUE).sum = t  BY BackupTable
<1>. QED  BY <1>1, <1>2 DEF BackedUp, BackupGood

\* What loads is a header of a table, or nothing.
LEMMA LoadType ==
  ASSUME NEW d \in [Lbas -> Sector]
  PROVE  /\ LoadHeader(d).kind = "header" => /\ LoadHeader(d) \in HeaderSector(Table)
                                             /\ LoadTable(d) \in Table
         /\ LoadTable(d) \in Table \cup {NoTable}
<1>1. ASSUME NEW alt \in BOOLEAN, GPT_load(d, alt).kind = "header"
      PROVE  GPT_load(d, alt) \in HeaderSector(Table)
  <2>. DEFINE l == IF alt /\ d[1].kind = "header" THEN offset(d[1].backup_lba) ELSE 1
              h == IF l \in Lbas THEN d[l] ELSE Data
  <2>1. GPT_load(d, alt) =
          IF h.kind = "header" /\ ReadEntries(d, h.partitions_lba) = h.sum THEN h ELSE Data
    BY DEF GPT_load
  <2>. HIDE DEF l
  <2>2. l \in Lbas /\ GPT_load(d, alt) = d[l]
    <3>1. GPT_load(d, alt) = h /\ h # Data
      <4>. HIDE DEF h
      <4>. QED  BY <1>1, <2>1, Kinds
    <3>. QED  BY <3>1
  <2>3. d[l] \in Sector  BY <2>2
  <2>. QED  BY <1>1, <2>2, <2>3, Kinds
<1>2. LoadHeader(d).kind = "header" => LoadHeader(d) \in HeaderSector(Table)
  BY <1>1 DEF LoadHeader
<1>3. LoadHeader(d).kind = "header" => LoadTable(d) \in Table
  BY <1>2, HeaderFields DEF LoadTable
<1>. QED  BY <1>2, <1>3 DEF LoadTable

\* Once the primary copy is written it is good.
LEMMA PrimaryStored ==
  ASSUME Fits, NEW d, NEW t \in Table, NEW n \in Nat, n >= need, Holds(d, t, n)
  PROVE  d[1] = Primary(t) /\ Good(d, 1, t)
<1>1. \A m \in 1 .. need : m \in 1 .. n  BY SMTT(30), SectorsType
<1>2. d[1] = Primary(t)  BY <1>1, Copies DEF Holds
<1>3. \A k \in 0 .. SectorsNeeded - 1 : 2 + k \in Lbas /\ d[2 + k] = EntrySector(t, k)
  <2>. TAKE k \in 0 .. SectorsNeeded - 1
  <2>1. 2 + k \in 1 .. need /\ Place(2 + k) = 2 + k /\ 2 + k \in Lbas
        /\ What(t, 2 + k) = EntrySector(t, k)  BY Copies
  <2>2. d[Place(2 + k)] = What(t, 2 + k)  BY <1>1, <2>1 DEF Holds
  <2>. QED  BY <2>1, <2>2
<1>4. 2 \in Int  BY SMTT(30)
<1>5. ReadEntries(d, 2) = t  BY <1>3, <1>4, CopyReads
<1>6. Primary(t).kind = "header" /\ Primary(t).sum = t /\ Primary(t).partitions_lba = 2
  BY HeadersAre
<1>. QED  BY <1>2, <1>5, <1>6 DEF Good

\* Once all is written both copies are good.
LEMMA BothStored ==
  ASSUME Fits, NEW d, NEW t \in Table, Holds(d, t, 2 * need)
  PROVE  /\ Good(d, 1, t) /\ Good(d, Size - 1, t)
         /\ Size - 1 <= INT_MAX => BackupGood(d, t)
<1>1. 2 * need \in Nat /\ 2 * need >= need  BY SMTT(30), SectorsType
<1>2. d[1] = Primary(t) /\ Good(d, 1, t)  BY <1>1, PrimaryStored
<1>3. d[Size - 1] = Backup(t)  BY Copies DEF Holds
<1>4. \A k \in 0 .. SectorsNeeded - 1 :
        Size - need + k \in Lbas /\ d[Size - need + k] = EntrySector(t, k)
  <2>. TAKE k \in 0 .. SectorsNeeded - 1
  <2>1. /\ need + 2 + k \in 1 .. 2 * need /\ Place(need + 2 + k) = Size - need + k
        /\ Size - need + k \in Lbas /\ What(t, need + 2 + k) = EntrySector(t, k)  BY Copies
  <2>2. d[Place(need + 2 + k)] = What(t, need + 2 + k)  BY <2>1 DEF Holds
  <2>. QED  BY <2>1, <2>2
<1>5. Size - need \in Int  BY SMTT(30), Constants, SectorsType
<1>6. ReadEntries(d, Size - need) = t  BY <1>4, <1>5, CopyReads
<1>7. UsableEnd + 1 = Size - need  BY Copies
<1>8. /\ Backup(t).kind = "header" /\ Backup(t).sum = t
      /\ Backup(t).partitions_lba = UsableEnd + 1
      /\ Primary(t).kind = "header" /\ Primary(t).backup_lba = Size - 1
  BY HeadersAre
<1>9. Good(d, Size - 1, t)  BY <1>3, <1>6, <1>7, <1>8 DEF Good
<1>. QED  BY <1>2, <1>8, <1>9 DEF BackupGood

\* The last store, if there was one.
LEMMA StoreType ==
  ASSUME TypesOK
  PROVE  /\ store # NoStore => /\ store.new \in Table /\ store.before \in Table \cup {NoTable}
                               /\ store.done \in BOOLEAN /\ store.backed \in BOOLEAN
         /\ store = NoStore => ~store.done /\ ~store.backed
<1>1. NoStore.done = FALSE /\ NoStore.backed = FALSE  BY SMTT(30) DEF NoStore
<1>2. ASSUME store \in [backed : BOOLEAN, before : Table \cup {NoTable}, new : Table, done : BOOLEAN]
      PROVE  /\ store.new \in Table /\ store.before \in Table \cup {NoTable}
             /\ store.done \in BOOLEAN /\ store.backed \in BOOLEAN
  BY SMTT(30), <1>2
<1>. QED  BY <1>1, <1>2 DEF TypesOK

\* The invariant says what the properties say.
LEMMA InvariantSays ==
  ASSUME IInv
  PROVE  SurvivesInterruptedStore /\ StoreRepairs /\ StoredWithinBounds /\ QuitWrites
<1>. USE DEF IInv
<1>1. ASSUME store.done
      PROVE  /\ Good(disk, 1, store.new) /\ Good(disk, Size - 1, store.new)
             /\ GPT_load(disk, FALSE).kind = "header"
             /\ LoadTable(disk) = store.new /\ store.new \in Table
             /\ Size - 1 <= INT_MAX => BackedUp(disk)
  <2>1. Fits /\ store.new \in Table /\ Holds(disk, store.new, 2 * need)
    BY <1>1, StoreType DEF Stored
  <2>2. /\ Good(disk, 1, store.new) /\ Good(disk, Size - 1, store.new)
        /\ Size - 1 <= INT_MAX => BackupGood(disk, store.new)
    BY <2>1, BothStored
  <2>3. GPT_load(disk, FALSE).kind = "header" /\ LoadTable(disk) = store.new
    BY <2>2, PrimaryTable
  <2>4. Size - 1 <= INT_MAX => BackedUp(disk)  BY <2>2, BothGood
  <2>. QED  BY <2>1, <2>2, <2>3, <2>4
<1>2. StoreRepairs  BY <1>1 DEF StoreRepairs
<1>3. QuitWrites  BY <1>1 DEF QuitWrites, Quit
<1>4. SurvivesInterruptedStore
  <2>1. SUFFICES ASSUME store.backed PROVE LoadTable(disk) \in {store.before, store.new}
    BY DEF SurvivesInterruptedStore
  <2>2. CASE Good(disk, 1, store.new)  BY <2>2, PrimaryTable
  <2>3. CASE BackupGood(disk, store.before)
             /\ (GPT_load(disk, FALSE).kind = "header" => disk[1].sum \in {store.before, store.new})
    <3>1. CASE GPT_load(disk, FALSE).kind = "header"
      <4>1. Good(disk, 1, disk[1].sum)  BY <3>1, PrimaryLoad
      <4>2. LoadTable(disk) = disk[1].sum  BY <4>1, PrimaryTable
      <4>. QED  BY <2>3, <3>1, <4>2
    <3>2. CASE GPT_load(disk, FALSE).kind # "header"  BY <2>3, <3>2, BackupTable
    <3>. QED  BY <3>1, <3>2
  <2>. QED  BY <2>1, <2>2, <2>3 DEF OldOrNew
<1>5. StoredWithinBounds
  <2>1. SUFFICES ASSUME store.done, NEW i \in Slots, LoadTable(disk)[i].type # "nil"
                 PROVE  /\ LoadTable(disk)[i].start <= LoadTable(disk)[i].end
                        /\ LoadTable(disk)[i].start .. LoadTable(disk)[i].end \subseteq Usable
    BY DEF StoredWithinBounds
  <2>2. PICK e : e = LoadTable(disk)[i]  OBVIOUS
  <2>3. e = store.new[i] /\ e \in Entry  BY <1>1, <2>1, <2>2 DEF Table
  <2>4. ~OutOfBounds(e)  BY <2>1, <2>2, <2>3 DEF Stored
  <2>5. PICK s, f : s = e.start /\ f = e.end  OBVIOUS
  <2>6. s \in Block /\ f \in Block  BY SMTT(30), <2>3, <2>5 DEF Entry
  <2>7. s \in Int /\ f \in Int /\ UsableStart \in Int /\ UsableEnd \in Int
    <3>1. UsableStart \in Int  BY SMTT(30), SectorsType
    <3>. QED  BY <2>6, <3>1, BlockType, UsableEndIs
  <2>8. ~(s < UsableStart) /\ ~(s > f) /\ ~(f > UsableEnd)  BY <2>4, <2>5 DEF OutOfBounds
  <2>. HIDE DEF UsableStart, UsableEnd
  <2>9. s <= f /\ s .. f \subseteq Usable  BY SMTT(30), <2>7, <2>8 DEF Usable
  <2>. QED  BY <2>2, <2>5, <2>9
<1>. QED  BY <1>2, <1>3, <1>4, <1>5

-----------------------------------------------------------------------------
(* The loops of GPT_fillremaining(). *)

\* Induction up to n, from a least counterexample.
LEMMA UpTo ==
  ASSUME NEW n \in Nat, NEW T, 0 \in T, \A k \in 0 .. n - 1 : k \in T => k + 1 \in T
  PROVE  \A k \in 0 .. n : k \in T
<1>1. SUFFICES ASSUME NEW bad, bad = {k \in 0 .. n : k \notin T}, bad # {} PROVE FALSE
  OBVIOUS
<1>2. \A k \in bad : k \in 0 .. n /\ k \notin T  BY <1>1
<1>3. bad \subseteq Nat
  <2>1. \A k \in 0 .. n : k \in Nat  BY SMTT(30)
  <2>. QED  BY <1>2, <2>1
<1>. DEFINE R == {ss \in Nat \X Nat : ss[1] < ss[2]}
<1>4. IsWellFoundedOn(R, Nat)  BY NatLessThanWellFounded DEF OpToRel
<1>5. \A x, y \in Nat : y < x => <<y, x>> \in R  BY SMTT(30)
<1>. HIDE DEF R
<1>6. PICK x \in bad : \A y \in bad : ~(<<y, x>> \in R)  BY <1>1, <1>3, <1>4, WFMin
<1>7. x \in 0 .. n /\ x \notin T /\ x # 0 /\ x \in Nat  BY <1>2, <1>3
<1>8. /\ x - 1 \in 0 .. n - 1 /\ x - 1 \in Nat /\ x - 1 < x /\ x - 1 + 1 = x
      /\ x - 1 \in 0 .. n
  BY SMTT(30), <1>7
<1>9. x - 1 \notin bad  BY <1>5, <1>6, <1>7, <1>8
<1>10. x - 1 \in T  BY <1>1, <1>8, <1>9
<1>. QED  BY <1>7, <1>8, <1>10

\* A loop of n rounds that starts with x; F[k] is round k, and stays in S.
Rounds(F, n, S) == \A k \in 0 .. n - 1 : \A v \in S : F[k][v] \in S
Loop(g, n, S, x, F) ==
  g \in [0 .. n -> S] /\ g[0] = x /\ \A k \in 0 .. n - 1 : g[k + 1] = F[k][g[k]]

\* There is the function of its values.
LEMMA LoopExists ==
  ASSUME NEW n \in Nat, NEW S, NEW x \in S, NEW F, Rounds(F, n, S)
  PROVE  \E g : Loop(g, n, S, x, F)
<1>. DEFINE P(m, g) == g[0] = x /\ \A k \in 0 .. n - 1 : k < m => g[k + 1] = F[k][g[k]]
            T == {m \in 0 .. n : \E g \in [0 .. m -> S] : P(m, g)}
<1>1. 0 \in T
  <2>1. PICK g : g = [k \in 0 .. 0 |-> x]  OBVIOUS
  <2>2. 0 \in 0 .. 0 /\ 0 \in 0 .. n /\ \A k \in 0 .. n - 1 : ~(k < 0)  BY SMTT(30)
  <2>3. g \in [0 .. 0 -> S] /\ g[0] = x  BY <2>1, <2>2
  <2>. QED  BY <2>2, <2>3
<1>2. ASSUME NEW m \in 0 .. n - 1, m \in T PROVE m + 1 \in T
  <2>1. PICK g \in [0 .. m -> S] : P(m, g)  BY <1>2
  <2>2. PICK q \in 0 .. n : q = m + 1  BY SMTT(30)
  <2>3. PICK h : h = [k \in 0 .. q |-> IF k = q THEN F[m][g[m]] ELSE g[k]]  OBVIOUS
  <2>4. /\ m \in 0 .. m /\ 0 \in 0 .. q /\ 0 # q /\ q \in 0 .. q
        /\ \A k \in 0 .. q : k # q => k \in 0 .. m
        /\ \A k \in 0 .. n - 1 : k < q =>
             /\ k \in 0 .. q /\ k # q /\ k + 1 \in 0 .. q
             /\ (k = m /\ k + 1 = q) \/ (k < m /\ k + 1 # q)
    BY SMTT(30), <2>2
  <2>5. F[m][g[m]] \in S  BY <2>1, <2>4 DEF Rounds
  <2>6. h \in [0 .. q -> S]  BY <2>1, <2>3, <2>4, <2>5
  <2>7. h[0] = x  BY <2>1, <2>3, <2>4
  <2>8. ASSUME NEW k \in 0 .. n - 1, k < q PROVE h[k + 1] = F[k][h[k]]
    <3>1. h[k] = g[k]  BY <2>3, <2>4, <2>8
    <3>2. CASE k = m /\ k + 1 = q  BY <2>3, <2>4, <3>1, <3>2
    <3>3. CASE k < m /\ k + 1 # q
      <4>1. h[k + 1] = g[k + 1]  BY <2>3, <2>4, <2>8, <3>3
      <4>2. g[k + 1] = F[k][g[k]]  BY <2>1, <3>3
      <4>. QED  BY <3>1, <4>1, <4>2
    <3>. QED  BY <2>4, <2>8, <3>2, <3>3
  <2>9. P(q, h)  BY <2>7, <2>8
  <2>. HIDE DEF P
  <2>10. q \in T  BY <2>6, <2>9
  <2>. QED  BY <2>2, <2>10
<1>3. n \in T
  <2>. HIDE DEF T
  <2>1. \A k \in 0 .. n : k \in T  BY <1>1, <1>2, UpTo
  <2>2. n \in 0 .. n  BY SMTT(30)
  <2>. QED  BY <2>1, <2>2
<1>4. \A k \in 0 .. n - 1 : k < n  BY SMTT(30)
<1>. QED  BY <1>3, <1>4 DEF Loop

\* The first loop, round by round; i stays an unsigned number.
Double(s, v) == IF v < s THEN (v * 2) % Wrap ELSE v
LEMMA DoubledIs ==
  ASSUME NEW s \in Nat, 1 \in Block
  PROVE  /\ Doubled(s)[0] = 1
         /\ \A k \in 0 .. s : Doubled(s)[k] \in Block
         /\ \A k \in 0 .. s - 1 : Doubled(s)[k + 1] = Double(s, Doubled(s)[k])
<1>. DEFINE Is(g) == g = [k \in 0 .. s |-> IF k = 0 THEN 1 ELSE Double(s, g[k - 1])]
<1>1. 1 \in Block  OBVIOUS
<1>2. ASSUME NEW v \in Block PROVE Double(s, v) \in Block
  <2>1. v * 2 \in Int  BY SMTT(30), BlockType
  <2>2. (v * 2) % Wrap \in Block  BY <2>1, WrapType
  <2>. QED  BY <2>2 DEF Double
<1>3. \E g : Is(g)
  <2>1. PICK F : F = [k \in 0 .. s - 1 |-> [v \in Block |-> Double(s, v)]]  OBVIOUS
  <2>2. Rounds(F, s, Block)  BY <1>2, <2>1 DEF Rounds
  <2>3. PICK g \in [0 .. s -> Block] : g[0] = 1 /\ \A k \in 0 .. s - 1 : g[k + 1] = F[k][g[k]]
    <3>1. \E g : Loop(g, s, Block, 1, F)  BY <1>1, <2>2, LoopExists
    <3>. QED  BY <3>1 DEF Loop
  <2>4. ASSUME NEW k \in 0 .. s, k # 0 PROVE g[k] = Double(s, g[k - 1])
    <3>1. k - 1 \in 0 .. s - 1 /\ k - 1 \in 0 .. s /\ k - 1 + 1 = k  BY SMTT(30), <2>4
    <3>2. g[k] = F[k - 1][g[k - 1]] /\ g[k - 1] \in Block  BY <2>3, <3>1
    <3>. QED  BY <2>1, <3>1, <3>2
  <2>5. g = [k \in 0 .. s |-> IF k = 0 THEN 1 ELSE Double(s, g[k - 1])]  BY <2>3, <2>4
  <2>. QED  BY <2>5
<1>4. Is(Doubled(s))
  <2>1. Doubled(s) = CHOOSE g : Is(g)  BY DEF Doubled, Double
  <2>. HIDE DEF Is
  <2>. QED  BY <1>3, <2>1
<1>5. PICK g : g = Doubled(s) /\ Is(g)  BY <1>4
<1>6. PICK T : T = {k \in 0 .. s : g[k] \in Block}  OBVIOUS
<1>7. \A k \in 0 .. s : g[k] = IF k = 0 THEN 1 ELSE Double(s, g[k - 1])
  <2>1. PICK f : f = [k \in 0 .. s |-> IF k = 0 THEN 1 ELSE Double(s, g[k - 1])]  OBVIOUS
  <2>2. \A k \in 0 .. s : f[k] = IF k = 0 THEN 1 ELSE Double(s, g[k - 1])  BY <2>1
  <2>3. f = g  BY <1>5, <2>1
  <2>. QED  BY <2>2, <2>3
<1>8. 0 \in T
  <2>1. 0 \in 0 .. s  BY SMTT(30)
  <2>2. g[0] = 1  BY <1>7, <2>1
  <2>. QED  BY <1>1, <1>6, <2>1, <2>2
<1>9. ASSUME NEW k \in 0 .. s - 1, k \in T PROVE k + 1 \in T
  <2>1. PICK j \in 0 .. s : j = k + 1 /\ j # 0 /\ j - 1 = k  BY SMTT(30)
  <2>2. g[j] = Double(s, g[k])  BY <1>7, <2>1
  <2>. QED  BY <1>2, <1>6, <1>9, <2>1, <2>2
<1>10. \A k \in 0 .. s : k \in T  BY <1>8, <1>9, UpTo
<1>11. g[0] = 1
  <2>1. 0 \in 0 .. s  BY SMTT(30)
  <2>. QED  BY <1>7, <2>1
<1>12. ASSUME NEW k \in 0 .. s - 1 PROVE g[k + 1] = Double(s, g[k])
  <2>1. PICK j \in 0 .. s : j = k + 1 /\ j # 0 /\ j - 1 = k  BY SMTT(30)
  <2>. QED  BY <1>7, <2>1
<1>. QED  BY <1>5, <1>6, <1>10, <1>11, <1>12

\* The second loop, round by round.
ShrinkRound(t, pn, k, v) == IF k = pn THEN v ELSE Shrink(v, t[k])
LEMMA ShrunkIs ==
  ASSUME NEW t \in Table, NEW pn \in Slots, NEW whole \in Entry
  PROVE  /\ Shrunk(t, pn, whole)[0] = whole
         /\ \A k \in 0 .. N : Shrunk(t, pn, whole)[k] \in Entry
         /\ \A k \in 0 .. N - 1 :
              Shrunk(t, pn, whole)[k + 1] = ShrinkRound(t, pn, k, Shrunk(t, pn, whole)[k])
<1>. DEFINE next(k, v) == ShrinkRound(t, pn, k, v)
            Is(g) == g = [k \in 0 .. N |-> IF k = 0 THEN whole ELSE next(k - 1, g[k - 1])]
<1>1. N \in Nat  BY TableAssumption
<1>2. ASSUME NEW k \in 0 .. N - 1, NEW v \in Entry PROVE next(k, v) \in Entry
  <2>1. t[k] \in Entry  BY DEF Table, Slots
  <2>. QED  BY <2>1, ShrinkType DEF ShrinkRound
<1>. HIDE DEF next
<1>3. \E g : Is(g)
  <2>1. PICK F : F = [k \in 0 .. N - 1 |-> [v \in Entry |-> next(k, v)]]  OBVIOUS
  <2>2. Rounds(F, N, Entry)  BY <1>2, <2>1 DEF Rounds
  <2>3. PICK g \in [0 .. N -> Entry] :
          g[0] = whole /\ \A k \in 0 .. N - 1 : g[k + 1] = F[k][g[k]]
    <3>1. \E g : Loop(g, N, Entry, whole, F)  BY <1>1, <2>2, LoopExists
    <3>. QED  BY <3>1 DEF Loop
  <2>4. ASSUME NEW k \in 0 .. N, k # 0 PROVE g[k] = next(k - 1, g[k - 1])
    <3>1. k - 1 \in 0 .. N - 1 /\ k - 1 \in 0 .. N /\ k - 1 + 1 = k  BY SMTT(30), <1>1, <2>4
    <3>2. g[k] = F[k - 1][g[k - 1]] /\ g[k - 1] \in Entry  BY <2>3, <3>1
    <3>. QED  BY <2>1, <3>1, <3>2
  <2>5. g = [k \in 0 .. N |-> IF k = 0 THEN whole ELSE next(k - 1, g[k - 1])]  BY <2>3, <2>4
  <2>. QED  BY <2>5
<1>4. Is(Shrunk(t, pn, whole))
  <2>1. Shrunk(t, pn, whole) = CHOOSE g : Is(g)  BY DEF Shrunk, next, ShrinkRound
  <2>. HIDE DEF Is
  <2>. QED  BY <1>3, <2>1
<1>5. PICK g : g = Shrunk(t, pn, whole) /\ Is(g)  BY <1>4
<1>6. PICK T : T = {k \in 0 .. N : g[k] \in Entry}  OBVIOUS
<1>7. \A k \in 0 .. N : g[k] = IF k = 0 THEN whole ELSE next(k - 1, g[k - 1])
  <2>1. PICK f : f = [k \in 0 .. N |-> IF k = 0 THEN whole ELSE next(k - 1, g[k - 1])]  OBVIOUS
  <2>2. \A k \in 0 .. N : f[k] = IF k = 0 THEN whole ELSE next(k - 1, g[k - 1])  BY <2>1
  <2>3. f = g  BY <1>5, <2>1
  <2>. QED  BY <2>2, <2>3
<1>8. 0 \in T
  <2>1. 0 \in 0 .. N  BY SMTT(30), <1>1
  <2>. QED  BY <1>6, <1>7, <2>1
<1>9. ASSUME NEW k \in 0 .. N - 1, k \in T PROVE k + 1 \in T
  <2>1. PICK j \in 0 .. N : j = k + 1 /\ j # 0 /\ j - 1 = k  BY SMTT(30), <1>1
  <2>2. g[j] = next(k, g[k])  BY <1>7, <2>1
  <2>. QED  BY <1>2, <1>6, <1>9, <2>1, <2>2
<1>10. \A k \in 0 .. N : k \in T  BY <1>1, <1>8, <1>9, UpTo
<1>11. g[0] = whole
  <2>1. 0 \in 0 .. N  BY SMTT(30), <1>1
  <2>. QED  BY <1>7, <2>1
<1>12. ASSUME NEW k \in 0 .. N - 1 PROVE g[k + 1] = next(k, g[k])
  <2>1. PICK j \in 0 .. N : j = k + 1 /\ j # 0 /\ j - 1 = k  BY SMTT(30), <1>1
  <2>. QED  BY <1>7, <2>1
<1>. QED  BY <1>5, <1>6, <1>10, <1>11, <1>12 DEF next

\* An entry with other ends is an entry.
LEMMA ResizeType ==
  ASSUME NEW e \in Entry, NEW s \in Block, NEW f \in Block
  PROVE  [e EXCEPT !.start = s, !.end = f] \in Entry
<1>1. PICK a \in Entry : a = [e EXCEPT !.start = s]
  <2>1. [e EXCEPT !.start = s] \in Entry  BY SMTT(30) DEF Entry
  <2>. QED  BY <2>1
<1>2. [a EXCEPT !.end = f] \in Entry  BY SMTT(30) DEF Entry
<1>3. [e EXCEPT !.start = s, !.end = f] = [a EXCEPT !.end = f]  BY <1>1
<1>. QED  BY <1>2, <1>3

\* GPT_fillremaining() leaves a table.
LEMMA FillType ==
  ASSUME NEW t \in Table, NEW pn \in Slots, NEW s \in Nat, NEW f \in Block
  PROVE  GPT_fillremaining(t, pn, s, f) \in Table
<1>1. PICK b \in Block : b = Doubled(s)[s]
  <2>1. 1 \in Block /\ s \in 0 .. s  BY SMTT(30), Constants DEF Block, Lbas
  <2>. QED  BY <2>1, DoubledIs
<1>2. t[pn] \in Entry  BY DEF Table
<1>3. PICK whole \in Entry : whole = [t[pn] EXCEPT !.start = Doubled(s)[s], !.end = f]
  <2>1. [t[pn] EXCEPT !.start = b, !.end = f] \in Entry  BY <1>2, ResizeType
  <2>. QED  BY <1>1, <2>1
<1>4. PICK e \in Entry : e = Shrunk(t, pn, whole)[N]
  <2>1. N \in 0 .. N  BY SMTT(30), TableAssumption
  <2>. QED  BY <1>3, <2>1, ShrunkIs
<1>5. GPT_fillremaining(t, pn, s, f) = [t EXCEPT ![pn] = e]
  BY <1>3, <1>4 DEF GPT_fillremaining
<1>6. [t EXCEPT ![pn] = e] \in Table  BY DEF Table
<1>. QED  BY <1>5, <1>6

-----------------------------------------------------------------------------
(* What the rounds of GPT_fillremaining() compute. *)

\* The entry that the second loop starts with.
Whole == [table[slot] EXCEPT !.start = Doubled(FirstLba)[FirstLba], !.end = LastLba]

\* After k rounds of the first loop i is at least k + 1, so that FirstLba rounds
\* are enough; the rounds of the second loop are those of Shrunk.
Computed ==
  /\ loop = "align" =>
       /\ newpart = table[slot]
       /\ \E k \in 0 .. FirstLba : count = Doubled(FirstLba)[k] /\ k + 1 <= count
  /\ loop # "align" => Whole \in Entry /\ newpart = Shrunk(table, slot, Whole)[count]

\* Once i is large enough it stays so.
LEMMA DoubledEnds ==
  ASSUME NEW s \in Nat, 1 \in Block, NEW k \in 0 .. s, NEW v \in Nat, v = Doubled(s)[k], v >= s
  PROVE  Doubled(s)[s] = v
<1>1. PICK g : g = Doubled(s)  OBVIOUS
<1>2. \A j \in 0 .. s - 1 : g[j + 1] = Double(s, g[j])  BY <1>1, DoubledIs
<1>3. Double(s, v) = v
  <2>1. ~(v < s)  BY SMTT(30)
  <2>. QED  BY <2>1 DEF Double
<1>4. PICK T : T = {j \in 0 .. s : j >= k => g[j] = v}  OBVIOUS
<1>5. 0 \in T
  <2>1. 0 \in 0 .. s /\ (0 >= k => k = 0)  BY SMTT(30)
  <2>. QED  BY <1>1, <1>4, <2>1
<1>6. ASSUME NEW j \in 0 .. s - 1, j \in T PROVE j + 1 \in T
  <2>1. j + 1 \in 0 .. s /\ (j + 1 >= k => j >= k \/ j + 1 = k)  BY SMTT(30)
  <2>2. j >= k => g[j + 1] = v  BY <1>2, <1>3, <1>4, <1>6
  <2>. QED  BY <1>1, <1>4, <2>1, <2>2
<1>7. \A j \in 0 .. s : j \in T  BY <1>5, <1>6, UpTo
<1>8. s \in 0 .. s /\ s >= k  BY SMTT(30)
<1>. QED  BY <1>1, <1>4, <1>7, <1>8

\* 1 is a block, and the table is one.
LEMMA OneIsBlock == 1 \in Block
BY SMTT(30), FillAssumption, TableAssumption DEF Block

LEMMA FillTable == ASSUME FillTypeOK PROVE table \in Table /\ slot \in Slots
<1>1. table \in [Slots -> Entry]  BY FillAssumption DEF FillTypeOK
<1>. QED  BY <1>1 DEF FillTypeOK, Table

\* The first loop starts with 1.
LEMMA InitComputed == FillInit => Computed
<1>1. SUFFICES ASSUME FillInit PROVE Computed  OBVIOUS
<1>2. loop = "align" /\ newpart = table[slot] /\ count = 1  BY <1>1 DEF FillInit
<1>3. FirstLba \in Nat  BY SMTT(30), FillAssumption DEF Block
<1>4. 0 \in 0 .. FirstLba /\ 0 + 1 <= 1  BY SMTT(30), <1>3
<1>5. Doubled(FirstLba)[0] = 1  BY <1>3, OneIsBlock, DoubledIs
<1>6. count = Doubled(FirstLba)[0] /\ 0 + 1 <= count  BY <1>2, <1>4, <1>5
<1>. QED  BY <1>2, <1>4, <1>6 DEF Computed

\* Every step of the loops is one of the rounds.
LEMMA StepComputed == FillInv /\ Computed /\ [FillNext]_fillVars => Computed'
<1>1. SUFFICES ASSUME FillInv, Computed, [FillNext]_fillVars PROVE Computed'  OBVIOUS
<1>2. FirstLba \in Nat /\ LastLba \in Block /\ N \in Nat
  BY SMTT(30), FillAssumption, TableAssumption DEF Block
<1>3. FillTypeOK  BY <1>1 DEF FillInv
<1>4. PICK d : d = Doubled(FirstLba)  OBVIOUS
<1>5. \A j \in 0 .. FirstLba - 1 : d[j + 1] = Double(FirstLba, d[j])  BY <1>2, <1>4, OneIsBlock, DoubledIs
<1>6. CASE Align
  <2>1. loop = "align" /\ count < FirstLba /\ count' = (count * 2) % Wrap  BY <1>6 DEF Align
  <2>2. table' = table /\ slot' = slot /\ loop' = loop /\ newpart' = newpart  BY <1>6 DEF Align
  <2>3. PICK k \in 0 .. FirstLba : count = d[k] /\ k + 1 <= count  BY <1>1, <1>4, <2>1 DEF Computed
  <2>4. count \in Block  BY <1>3, <2>1 DEF FillTypeOK
  <2>5. count \in Nat /\ count * 2 \in Block /\ count * 2 \in Nat
    BY SMTT(30), <1>2, <2>1, <2>4, FillAssumption, TableAssumption DEF Block
  <2>6. count' = count * 2  BY <2>1, <2>5, NoWrap
  <2>7. k \in 0 .. FirstLba - 1 /\ k + 1 \in 0 .. FirstLba /\ (k + 1) + 1 <= count * 2
    BY SMTT(30), <1>2, <2>1, <2>3, <2>5
  <2>8. d[k + 1] = (count * 2) % Wrap  BY <1>5, <2>1, <2>3, <2>7 DEF Double
  <2>9. count' = d[k + 1] /\ (k + 1) + 1 <= count'  BY <2>1, <2>6, <2>7, <2>8
  <2>10. \E j \in 0 .. FirstLba : count' = Doubled(FirstLba)[j] /\ j + 1 <= count'
    BY <1>4, <2>7, <2>9
  <2>. QED  BY <1>1, <2>1, <2>2, <2>10 DEF Computed
<1>7. CASE Aligned
  <2>1. /\ loop = "align" /\ count >= FirstLba /\ count' = 0 /\ loop' = "shrink"
        /\ newpart' = [newpart EXCEPT !.start = count, !.end = LastLba]
    BY <1>7 DEF Aligned
  <2>2. table' = table /\ slot' = slot  BY <1>7 DEF Aligned
  <2>3. PICK k \in 0 .. FirstLba : count = Doubled(FirstLba)[k]  BY <1>1, <2>1 DEF Computed
  <2>4. count \in Block  BY <1>3, <2>1 DEF FillTypeOK
  <2>5. count \in Nat  BY SMTT(30), <2>4, TableAssumption DEF Block
  <2>6. Doubled(FirstLba)[FirstLba] = count
    <3>1. PICK v \in Nat : v = count  BY <2>5
    <3>2. v = Doubled(FirstLba)[k] /\ v >= FirstLba  BY <2>1, <2>3, <3>1
    <3>3. Doubled(FirstLba)[FirstLba] = v  BY <1>2, <3>2, OneIsBlock, DoubledEnds
    <3>. QED  BY <3>1, <3>3
  <2>7. newpart = table[slot]  BY <1>1, <2>1 DEF Computed
  <2>8. newpart' = Whole  BY <2>1, <2>6, <2>7 DEF Whole
  <2>9. newpart' \in Entry
    <3>1. FillTypeOK'  BY <1>1, StepInv DEF FillInv
    <3>. QED  BY <3>1 DEF FillTypeOK
  <2>10. Whole' = Whole  BY <2>2 DEF Whole
  <2>11. Shrunk(table, slot, Whole)[0] = Whole  BY <1>3, <2>8, <2>9, FillTable, ShrunkIs
  <2>12. "shrink" # "align"  BY SMTT(30)
  <2>. QED  BY <2>1, <2>2, <2>8, <2>9, <2>10, <2>11, <2>12 DEF Computed
<1>8. CASE Round
  <2>1. /\ loop = "shrink" /\ count < N /\ count' = count + 1
        /\ newpart' = IF count = slot THEN newpart ELSE Shrink(newpart, table[count])
    BY <1>8 DEF Round
  <2>2. table' = table /\ slot' = slot /\ loop' = loop /\ Whole' = Whole  BY <1>8 DEF Round, Whole
  <2>3. loop # "align"  BY SMTT(30), <2>1
  <2>4. count \in 0 .. N  BY <1>3, <2>3 DEF FillTypeOK
  <2>5. count \in 0 .. N - 1  BY SMTT(30), <1>2, <2>1, <2>4
  <2>6. Whole \in Entry /\ newpart = Shrunk(table, slot, Whole)[count]  BY <1>1, <2>3 DEF Computed
  <2>7. Shrunk(table, slot, Whole)[count + 1] =
          ShrinkRound(table, slot, count, Shrunk(table, slot, Whole)[count])
    <3>1. table \in Table /\ slot \in Slots  BY <1>3, FillTable
    <3>2. PICK whole \in Entry : whole = Whole  BY <2>6
    <3>3. \A k \in 0 .. N - 1 :
            Shrunk(table, slot, whole)[k + 1] = ShrinkRound(table, slot, k, Shrunk(table, slot, whole)[k])
      BY <3>1, ShrunkIs
    <3>. QED  BY <2>5, <3>2, <3>3
  <2>8. newpart' = Shrunk(table, slot, Whole)[count']  BY <2>1, <2>6, <2>7 DEF ShrinkRound
  <2>. QED  BY <2>2, <2>3, <2>6, <2>8 DEF Computed
<1>9. CASE Return
  <2>1. loop # "align" /\ loop' # "align"  BY SMTT(30), <1>9 DEF Return
  <2>2. table' = table /\ slot' = slot /\ count' = count /\ newpart' = newpart /\ Whole' = Whole
    BY <1>9 DEF Return, Whole
  <2>. QED  BY <1>1, <2>1, <2>2 DEF Computed
<1>10. CASE UNCHANGED fillVars
  <2>1. table' = table /\ slot' = slot /\ loop' = loop /\ count' = count /\ newpart' = newpart
    BY <1>10 DEF fillVars
  <2>2. Whole' = Whole  BY <2>1 DEF Whole
  <2>. QED  BY <1>1, <2>1, <2>2 DEF Computed
<1>. QED  BY <1>1, <1>6, <1>7, <1>8, <1>9, <1>10 DEF FillNext, Done

\* The operator by which the session fills an entry in one step is what the
\* loops of GPT_fillremaining() compute.
THEOREM FillComputesFill == FillSpec => []ComputesFill
<1>1. FillSpec => []Computed
  <2>1. FillInit => Computed  BY InitComputed
  <2>2. FillInv /\ Computed /\ [FillNext]_fillVars => Computed'  BY StepComputed
  <2>. QED  BY <2>1, <2>2, FillInvariant, PTL DEF FillSpec
<1>2. FillInv /\ Computed => ComputesFill
  <2>1. SUFFICES ASSUME FillInv, Computed, loop = "done"
                 PROVE  newpart = GPT_fillremaining(table, slot, FirstLba, LastLba)[slot]
    BY DEF ComputesFill
  <2>2. loop # "align"  BY SMTT(30), <2>1
  <2>3. newpart = Shrunk(table, slot, Whole)[N]  BY <2>1, <2>2 DEF Computed, FillInv
  <2>4. slot \in Slots /\ DOMAIN table = Slots
    <3>1. table \in [Slots -> Entry]
      BY <2>1, FillAssumption DEF FillInv, FillTypeOK
    <3>. QED  BY <2>1, <3>1 DEF FillInv, FillTypeOK
  <2>5. PICK e : e = Shrunk(table, slot, Whole)[N]  OBVIOUS
  <2>6. GPT_fillremaining(table, slot, FirstLba, LastLba) = [table EXCEPT ![slot] = e]
    BY <2>5 DEF GPT_fillremaining, Whole
  <2>. QED  BY <2>3, <2>4, <2>5, <2>6
<1>. QED  BY <1>1, <1>2, FillInvariant, PTL

-----------------------------------------------------------------------------
(* The commands leave a table. *)

\* An empty table is one.
LEMMA BlankType == Blank \in Table
BY ZeroType DEF Blank, Table

\* Setting the type of an entry.
LEMMA SetPidType ==
  ASSUME NEW e \in Entry, NEW pid \in Pids
  PROVE  /\ PRT_set_type_by_pid(e, pid) \in Entry /\ SetPid(e, pid) \in Entry
         /\ PidDirty(e, pid) \in BOOLEAN
<1>1. e.type \in Types  BY SMTT(30) DEF Entry
<1>2. \A y \in Types : [e EXCEPT !.type = y] \in Entry  BY SMTT(30) DEF Entry
<1>3. PICK y : y = IF pid = "0" THEN "nil" ELSE IF pid = "other" THEN e.type ELSE pid  OBVIOUS
<1>4. y \in Types  BY SMTT(30), <1>1, <1>3 DEF Pids, Types
<1>5. PRT_set_type_by_pid(e, pid) = [e EXCEPT !.type = y]  BY <1>3 DEF PRT_set_type_by_pid
<1>. QED  BY <1>2, <1>4, <1>5 DEF SetPid, PidDirty

\* What the user answers is a block number.
LEMMA GetuintType ==
  ASSUME NEW o \in Block, NEW m \in Block
  PROVE  getuint(Answers, o, m) \subseteq Block
BY Constants DEF getuint

\* What Xedit() can leave in a slot.
LEMMA ResizedType ==
  ASSUME NEW t \in Table, NEW pn \in Slots, NEW f \in Block
  PROVE  Resized(t, pn, f) \subseteq Entry
<1>. DEFINE e == t[pn]
            size(s) == getuint(Answers, (e.end - s + 1) % Wrap, (f - s + 1) % Wrap)
            entry(s, z) == IF s > (z + s - 1) % Wrap THEN Zero
                           ELSE [e EXCEPT !.start = s, !.end = (z + s - 1) % Wrap]
<1>1. Resized(t, pn, f) = UNION {{entry(s, z) : z \in size(s)} : s \in getuint(Answers, e.start, f)}
  BY DEF Resized
<1>2. e \in Entry  BY DEF Table
<1>. HIDE DEF e
<1>3. e.start \in Block /\ e.end \in Block  BY SMTT(30), <1>2 DEF Entry
<1>4. ASSUME NEW s \in Block, NEW z \in size(s) PROVE entry(s, z) \in Entry
  <2>1. e.end - s + 1 \in Int /\ f - s + 1 \in Int  BY SMTT(30), <1>3, BlockType
  <2>2. (e.end - s + 1) % Wrap \in Block /\ (f - s + 1) % Wrap \in Block  BY <2>1, WrapType
  <2>3. z \in Block  BY <2>2, GetuintType
  <2>4. z + s - 1 \in Int  BY SMTT(30), <2>3, BlockType
  <2>5. (z + s - 1) % Wrap \in Block  BY <2>4, WrapType
  <2>6. [e EXCEPT !.start = s, !.end = (z + s - 1) % Wrap] \in Entry  BY <1>2, <2>5, ResizeType
  <2>. QED  BY <2>6, ZeroType
<1>5. getuint(Answers, e.start, f) \subseteq Block  BY <1>3, GetuintType
<1>. HIDE DEF size, entry
<1>6. ASSUME NEW x \in Resized(t, pn, f) PROVE x \in Entry
  <2>1. PICK s \in getuint(Answers, e.start, f) : x \in {entry(s, z) : z \in size(s)}  BY <1>1
  <2>2. PICK z \in size(s) : x = entry(s, z)  BY <2>1
  <2>3. s \in Block  BY <1>5
  <2>. QED  BY <1>4, <2>2, <2>3
<1>. QED  BY <1>6

\* The table of GPT_init().
LEMMA InitTableType ==
  InitTable \in Table /\ InitHeader \in HeaderSector(Table \cup {NoTable})
<1>1. UsableStart \in Nat /\ UsableEnd \in Block /\ 0 \in Slots /\ Size - 1 \in Int
  <2>1. UsableStart \in Nat /\ 0 \in Slots /\ Size - 1 \in Int  BY SMTT(30), SectorsType, Constants DEF Slots
  <2>. QED  BY <2>1, UsableEndIs
<1>2. PICK t \in Table : t = GPT_fillremaining(Blank, 0, UsableStart, UsableEnd)
  <2>1. GPT_fillremaining(Blank, 0, UsableStart, UsableEnd) \in Table
    BY <1>1, BlankType, FillType
  <2>. QED  BY <2>1
<1>3. PICK e \in Entry : e = PRT_set_type_by_pid(t[0], "OPENBSD")
  <2>1. t[0] \in Entry /\ "OPENBSD" \in Pids  BY <1>1 DEF Table, Pids
  <2>. QED  BY <2>1, SetPidType
<1>4. InitTable = [t EXCEPT ![0] = e]  BY <1>1, <1>2, <1>3 DEF InitTable
<1>5. [t EXCEPT ![0] = e] \in Table  BY <1>1 DEF Table
<1>6. InitHeader \in HeaderSector(Table \cup {NoTable})
  <2>. HIDE DEF UsableEnd
  <2>. QED  BY SMTT(30), <1>1 DEF InitHeader, Header, HeaderSector
<1>. QED  BY <1>4, <1>5, <1>6

-----------------------------------------------------------------------------
(* The invariant. *)

\* A disk that was partitioned.
LEMMA FormattedIs ==
  ASSUME NEW t \in Table, NEW last \in {Size - 1, Size - 2}, last >= 2 * need,
         disk = Formatted(t, last)
  PROVE  disk \in [Lbas -> Sector] /\ DiskOK /\ Good(disk, 1, t) /\ Fits
<1>. DEFINE end == last - need
            copy(l) == {x \in 1 .. Size - 1 : l <= x /\ x < l + SectorsNeeded}
            h1 == Header(1, last, 2, end, t)
            h2 == Header(last, 1, end + 1, end, t)
            at(l) == IF l = 1 THEN h1 ELSE IF l = last THEN h2
                     ELSE IF l \in copy(2) THEN EntrySector(t, l - 2)
                     ELSE IF l \in copy(end + 1) THEN EntrySector(t, l - end - 1) ELSE Data
<1>1. disk = [l \in Lbas |-> at(l)]  BY DEF Formatted
<1>2. /\ Size \in Nat /\ Size < Wrap /\ Wrap \in Nat /\ need \in Nat /\ need = SectorsNeeded + 1
      /\ SectorsNeeded \in Nat \ {0}
  BY Constants, SectorsType
<1>3. /\ last \in Int /\ end \in Block /\ end + 1 \in Int /\ Fits /\ last # 1 /\ Size - 1 # 1
      /\ last = Size - 1 => end + 1 = Size - need
  BY SMTT(30), <1>2 DEF Block, Fits
<1>4. /\ \A l \in copy(2) : l - 2 \in Nat
      /\ \A l \in copy(end + 1) : l - end - 1 \in Nat
      /\ \A k \in 0 .. SectorsNeeded - 1 : 2 + k # 1 /\ 2 + k # last /\ 2 + k \in copy(2)
                                          /\ 2 + k - 2 = k /\ 2 + k \in Lbas /\ k \in Nat
  BY SMTT(30), <1>2 DEF Lbas
<1>. HIDE DEF end
<1>5. h1.kind = "header" /\ h1.partitions_lba = 2 /\ h1.sum = t /\ h2.kind = "header" /\ h2.partitions_lba = end + 1
  BY SMTT(30) DEF Header
<1>6. h1 \in HeaderSector(Table) /\ h2 \in HeaderSector(Table)
  BY SMTT(30), <1>3 DEF Header, HeaderSector
<1>. HIDE DEF h1, h2, copy
<1>7. /\ Data \in Sector /\ h1 \in Sector /\ h2 \in Sector
      /\ \A l \in copy(2) : EntrySector(t, l - 2) \in Sector
      /\ \A l \in copy(end + 1) : EntrySector(t, l - end - 1) \in Sector
  <2>1. Data \in Sector /\ h1 \in Sector /\ h2 \in Sector  BY <1>6 DEF Sector
  <2>. QED  BY <1>4, <2>1, EntrySectorType
<1>8. disk \in [Lbas -> Sector] /\ \A l \in Lbas : disk[l] = at(l)
  <2>1. \A l \in Lbas : at(l) \in Sector  BY <1>7
  <2>. HIDE DEF at
  <2>. QED  BY <1>1, <2>1
<1>9. disk[1] = h1
  <2>1. at(1) = h1  OBVIOUS
  <2>. HIDE DEF at
  <2>. QED  BY <1>8, <2>1, Constants
<1>10. disk[Size - 1].kind = "header" => last = Size - 1 /\ disk[Size - 1] = h2
  <2>1. disk[Size - 1] = at(Size - 1)
    <3>. HIDE DEF at
    <3>. QED  BY <1>8, Constants
  <2>2. CASE last = Size - 1  BY <1>3, <2>1, <2>2
  <2>3. CASE last # Size - 1
    <3>1. \/ disk[Size - 1] = Data \/ \E k \in Nat : disk[Size - 1] = EntrySector(t, k)
      BY <1>3, <1>4, <2>1, <2>3
    <3>2. \A k \in Nat : EntrySector(t, k).kind = "entries"  BY EntrySectorType
    <3>3. "entries" # "header"  BY SMTT(30)
    <3>. QED  BY <3>1, <3>2, <3>3, Kinds
  <2>. QED  BY <2>2, <2>3
<1>11. ASSUME NEW k \in 0 .. SectorsNeeded - 1
       PROVE  2 + k \in Lbas /\ disk[2 + k] = EntrySector(t, k)
  <2>1. disk[2 + k] = at(2 + k)
    <3>. HIDE DEF at
    <3>. QED  BY <1>4, <1>8
  <2>2. PICK l : l = 2 + k /\ l - 2 = k  BY SMTT(30)
  <2>3. l # 1 /\ l # last /\ l \in copy(2)  BY <1>4, <2>2
  <2>4. at(l) = EntrySector(t, k)  BY <2>2, <2>3
  <2>. QED  BY <1>4, <2>1, <2>2, <2>4
<1>12. ASSUME NEW k \in 0 .. SectorsNeeded - 1, NEW j \in 0 .. PerSector - 1,
              k * PerSector + j >= N
       PROVE  disk[2 + k].e[j] = Zero
  <2>1. EntrySector(t, k).e[j] = Zero  BY <1>4, <1>12, EntrySectorType
  <2>. QED  BY <1>11, <2>1
<1>13. DiskOK  BY <1>3, <1>5, <1>9, <1>10, <1>12 DEF DiskOK
<1>14. Good(disk, 1, t)
  <2>1. 2 \in Int  BY SMTT(30)
  <2>2. ReadEntries(disk, 2) = t  BY <1>11, <2>1, CopyReads
  <2>. QED  BY <1>5, <1>9, <2>2 DEF Good
<1>. QED  BY <1>3, <1>8, <1>13, <1>14

\* It holds initially.
LEMMA InitIInv == Init => IInv
<1>. SUFFICES ASSUME Init PROVE IInv  OBVIOUS
<1>1. disk \in [Lbas -> Sector] /\ DiskOK
  <2>1. CASE disk = [l \in Lbas |-> Data]
    <3>1. disk[1] = Data /\ disk[Size - 1] = Data  BY <2>1, Constants
    <3>2. Fits => \A k \in 0 .. SectorsNeeded - 1 : disk[2 + k] = Data
      <4>1. Fits => \A k \in 0 .. SectorsNeeded - 1 : 2 + k \in Lbas  BY Copies
      <4>. QED  BY <2>1, <4>1
    <3>. QED  BY <2>1, <3>1, <3>2, Kinds DEF DiskOK, Sector
  <2>2. CASE \E t \in InitTables, last \in {Size - 1, Size - 2} :
               last >= 2 * need /\ disk = Formatted(t, last)
    BY <2>2, FormattedIs, Constants
  <2>. QED  BY <2>1, <2>2 DEF Init
<1>2. "off" # "prompt" /\ "off" # "storing" /\ "off" # "quit"  BY SMTT(30)
<1>3. 0 \in Nat  BY SMTT(30)
<1>4. TypesOK  BY <1>1, <1>2, <1>3, BlankType DEF Init, TypesOK, Running
<1>5. ~store.done /\ ~store.backed
  <2>1. store = NoStore  BY DEF Init
  <2>. QED  BY <1>4, <2>1, StoreType
<1>. QED  BY <1>1, <1>2, <1>4, <1>5 DEF Init, IInv, Progress, Stored, OldOrNew, Quit

\* Steps that neither write nor start a store.
LEMMA QuietStep ==
  ASSUME IInv, disk' = disk, store' = store, pc' # "storing", pc' = "quit" => ~modified', TypesOK'
  PROVE  IInv'
<1>1. DiskOK'  BY DEF IInv, DiskOK, Fits
<1>2. Stored'  BY DEF IInv, Stored, Holds
<1>3. OldOrNew'  BY DEF IInv, OldOrNew, BackupGood, Good
<1>. QED  BY <1>1, <1>2, <1>3 DEF IInv, Progress, Quit

\* Types, after a step that changes neither the disk nor the store.
LEMMA QuietTypes ==
  ASSUME TypesOK, disk' = disk, store' = store,
         pc' \in {"off", "prompt", "storing", "quit", "exit"}, part' \in Table,
         modified' \in BOOLEAN, Running' => header' \in HeaderSector(Table \cup {NoTable}),
         written' \in Nat
  PROVE  TypesOK'
BY DEF TypesOK

\* Forgetting the table in memory.
LEMMA ForgetTypes ==
  ASSUME Forget
  PROVE  part' \in Table /\ modified' \in BOOLEAN /\ written' \in Nat
<1>1. 0 \in Nat  BY SMTT(30)
<1>. QED  BY <1>1, BlankType DEF Forget

\* Starting and leaving a session.
LEMMA SessionStep ==
  ASSUME IInv, USER_modify \/ Xexit \/ Crash \/ Xquit
  PROVE  IInv'
<1>. TypesOK  BY DEF IInv
<1>1. /\ "exit" \notin {"prompt", "storing"} /\ "off" \notin {"prompt", "storing"}
      /\ "quit" \notin {"prompt", "storing"} /\ "quit" # "exit" /\ "quit" # "off"
      /\ "prompt" # "storing" /\ "prompt" # "quit"
  BY SMTT(30)
<1>2. ASSUME pc' \in {"exit", "off"}, Forget, disk' = disk, store' = store PROVE IInv'
  <2>1. ~Running' /\ pc' # "storing" /\ pc' # "quit"  BY <1>1, <1>2 DEF Running
  <2>2. TypesOK'  BY <1>2, <2>1, ForgetTypes, QuietTypes
  <2>. QED  BY <1>2, <2>1, <2>2, QuietStep
<1>3. CASE USER_modify
  <2>1. disk' = disk /\ store' = store  BY <1>3 DEF USER_modify
  <2>2. CASE LoadHeader(disk).kind # "header"
    <3>1. pc' = "exit" /\ Forget  BY <1>3, <2>2 DEF USER_modify
    <3>. QED  BY <1>2, <2>1, <3>1
  <2>3. CASE LoadHeader(disk).kind = "header"
    <3>1. /\ header' = LoadHeader(disk) /\ part' = LoadTable(disk) /\ pc' = "prompt"
          /\ modified' = FALSE /\ written' = 0
      BY <1>3, <2>3 DEF USER_modify
    <3>2. LoadHeader(disk) \in HeaderSector(Table) /\ LoadTable(disk) \in Table
      BY <2>3, LoadType DEF TypesOK
    <3>3. header' \in HeaderSector(Table \cup {NoTable})
      <4>1. PICK h \in HeaderSector(Table) : h = header'  BY <3>1, <3>2
      <4>2. h \in HeaderSector(Table \cup {NoTable})  BY SMTT(30) DEF HeaderSector
      <4>. QED  BY <4>1, <4>2
    <3>4. 0 \in Nat  BY SMTT(30)
    <3>5. TypesOK'  BY <2>1, <3>1, <3>2, <3>3, <3>4, QuietTypes
    <3>. QED  BY <1>1, <2>1, <3>1, <3>5, QuietStep
  <2>. QED  BY <2>2, <2>3
<1>4. CASE Xexit  BY <1>2, <1>4 DEF Xexit
<1>5. CASE Crash  BY <1>2, <1>5 DEF Crash
<1>6. CASE Xquit
  <2>1. /\ disk' = disk /\ store' = store /\ pc' = "quit" /\ part' = part /\ modified' = modified
        /\ written' = written /\ ~modified
    BY <1>6 DEF Xquit, memVars
  <2>2. ~Running' /\ pc' # "storing"  BY <1>1, <2>1 DEF Running
  <2>3. TypesOK'  BY <2>1, <2>2 DEF TypesOK
  <2>. QED  BY <2>1, <2>2, <2>3, QuietStep
<1>. QED  BY <1>3, <1>4, <1>5, <1>6

\* A command that leaves a table.
LEMMA CommandStep ==
  ASSUME IInv, Command, part' \in Table, modified' \in BOOLEAN,
         header' = header \/ header' \in HeaderSector(Table \cup {NoTable})
  PROVE  IInv'
<1>1. TypesOK /\ pc = "prompt" /\ pc' = pc /\ disk' = disk /\ store' = store /\ written' = written
  BY DEF IInv, Command
<1>2. "prompt" # "storing" /\ "prompt" # "quit"  BY SMTT(30)
<1>3. header' \in HeaderSector(Table \cup {NoTable})  BY <1>1 DEF TypesOK, Running
<1>4. TypesOK'
  <2>1. pc' \in {"off", "prompt", "storing", "quit", "exit"} /\ written' \in Nat
    BY <1>1 DEF TypesOK
  <2>. QED  BY <1>1, <1>3, <2>1, QuietTypes
<1>. QED  BY <1>1, <1>2, <1>4, QuietStep

\* reinit, swap and flag.
LEMMA TableStep ==
  ASSUME IInv, Xreinit \/ Xswap \/ Xflags
  PROVE  IInv'
<1>. part \in Table  BY DEF IInv, TypesOK
<1>1. CASE Xreinit
  <2>1. Command /\ header' = InitHeader /\ part' = InitTable /\ modified' = TRUE
    BY <1>1 DEF Xreinit
  <2>. QED  BY <2>1, InitTableType, CommandStep
<1>2. CASE Xswap
  <2>1. Command /\ modified' = TRUE /\ header' = header  BY <1>2 DEF Xswap
  <2>2. PICK pf \in Slots, pt \in Slots : part' = [part EXCEPT ![pf] = part[pt], ![pt] = part[pf]]
    BY <1>2 DEF Xswap
  <2>3. part' \in Table  BY <2>2 DEF Table
  <2>. QED  BY <2>1, <2>3, CommandStep
<1>3. CASE Xflags
  <2>1. Command /\ modified' = TRUE /\ header' = header  BY <1>3 DEF Xflags
  <2>2. PICK pn \in Slots, active \in BOOLEAN :
          part' = IF active THEN [i \in Slots |-> [part[i] EXCEPT !.boot = (i = pn)]] ELSE part
    BY <1>3 DEF Xflags
  <2>3. ASSUME NEW e \in Entry, NEW b \in BOOLEAN PROVE [e EXCEPT !.boot = b] \in Entry
    BY SMTT(30) DEF Entry
  <2>4. \A i \in Slots : [part[i] EXCEPT !.boot = (i = pn)] \in Entry
    <3>. TAKE i \in Slots
    <3>1. part[i] \in Entry /\ (i = pn) \in BOOLEAN  BY DEF Table
    <3>. QED  BY <2>3, <3>1
  <2>5. [i \in Slots |-> [part[i] EXCEPT !.boot = (i = pn)]] \in Table  BY <2>4 DEF Table
  <2>6. part' \in Table  BY <2>2, <2>5
  <2>. QED  BY <2>1, <2>6, CommandStep
<1>. QED  BY <1>1, <1>2, <1>3

\* setpid and edit.
LEMMA EntryStep ==
  ASSUME IInv, NEW pn \in Slots, NEW pid \in Pids, Xsetpid(pn, pid) \/ Xedit(pn, pid)
  PROVE  IInv'
<1>1. /\ part \in Table /\ part[pn] \in Entry /\ modified \in BOOLEAN
      /\ pc = "prompt" => header \in HeaderSector(Table \cup {NoTable})
  BY DEF IInv, TypesOK, Running, Table
<1>2. SetPid(part[pn], pid) \in Entry /\ PidDirty(part[pn], pid) \in BOOLEAN
  BY <1>1, SetPidType
<1>3. PICK t \in Table : t = [part EXCEPT ![pn] = SetPid(part[pn], pid)]  BY <1>1, <1>2 DEF Table
<1>4. (modified \/ PidDirty(part[pn], pid)) \in BOOLEAN  OBVIOUS
<1>5. \A e \in Entry : [part EXCEPT ![pn] = e] \in Table  BY <1>1 DEF Table
<1>6. CASE Xsetpid(pn, pid)
  <2>1. /\ Command /\ part' = [part EXCEPT ![pn] = SetPid(part[pn], pid)]
        /\ modified' = (modified \/ PidDirty(part[pn], pid)) /\ header' = header
    BY <1>6 DEF Xsetpid
  <2>. QED  BY <1>3, <1>4, <2>1, CommandStep
<1>7. CASE Xedit(pn, pid)
  <2>. DEFINE filled == IF part[pn].type = "nil"
                          THEN GPT_fillremaining(t, pn, UsableStart, header.end_lba) ELSE t
  <2>1. /\ Command /\ modified' = (modified \/ PidDirty(part[pn], pid)) /\ header' = header
        /\ pc = "prompt"
    BY <1>7 DEF Xedit, Command
  <2>2. IF t[pn].type = "nil" THEN part' = [part EXCEPT ![pn] = Zero]
        ELSE \E e \in Resized(filled, pn, header.end_lba) : part' = [part EXCEPT ![pn] = e]
    BY <1>3, <1>7 DEF Xedit
  <2>3. header.end_lba \in Block  BY <1>1, <2>1, HeaderFields
  <2>4. UsableStart \in Nat  BY SMTT(30), SectorsType
  <2>5. filled \in Table  BY <2>3, <2>4, FillType
  <2>. HIDE DEF filled
  <2>6. Resized(filled, pn, header.end_lba) \subseteq Entry  BY <2>3, <2>5, ResizedType
  <2>7. part' \in Table  BY <1>5, <2>2, <2>6, ZeroType
  <2>. QED  BY <1>4, <2>1, <2>7, CommandStep
<1>. QED  BY <1>6, <1>7

\* A sector that does not hold entries is not part of a table.
LEMMA NoTableIsNone == NoTable \notin Table
<1>1. 0 \in Slots  BY SMTT(30), Constants DEF Slots
<1>2. [type |-> "garbage"].type = "garbage"  BY SMTT(30)
<1>3. "garbage" \notin Types  BY SMTT(30) DEF Types
<1>4. \A e \in Entry : e.type \in Types  BY SMTT(30) DEF Entry
<1>5. NoTable[0] = [type |-> "garbage"]  BY <1>1 DEF NoTable
<1>. QED  BY <1>1, <1>2, <1>3, <1>4, <1>5 DEF Table

\* What a good backup looks like from the primary header.
LEMMA BackedUpMeans ==
  ASSUME NEW d, BackedUp(d)
  PROVE  /\ BackupGood(d, LoadTable(d))
         /\ GPT_load(d, FALSE).kind = "header" => d[1].sum = LoadTable(d)
<1>1. d[1].kind = "header" /\ d[1].backup_lba = Size - 1 /\ Size - 1 <= INT_MAX  BY DEF BackedUp
<1>2. GPT_load(d, TRUE).kind = "header" /\ GPT_load(d, TRUE).sum = LoadTable(d)  BY DEF BackedUp
<1>3. Good(d, Size - 1, d[Size - 1].sum) /\ GPT_load(d, TRUE) = d[Size - 1]
  BY <1>1, <1>2, BackupLoad
<1>4. BackupGood(d, LoadTable(d))  BY <1>1, <1>2, <1>3 DEF BackupGood
<1>5. ASSUME GPT_load(d, FALSE).kind = "header" PROVE d[1].sum = LoadTable(d)
  <2>1. Good(d, 1, d[1].sum)  BY <1>5, PrimaryLoad
  <2>. QED  BY <2>1, PrimaryTable
<1>. QED  BY <1>4, <1>5

\* A store that passed its checks.
LEMMA StartStep ==
  ASSUME IInv, NEW h, NEW t \in Table, NEW how \in {"write", "quit", "init"},
         ~StoreRefused(h, t), StartStore(t, how), part' = t, disk' = disk, modified' \in BOOLEAN
  PROVE  IInv'
<1>1. /\ header' = Primary(t) /\ written' = 0 /\ saving' = how /\ pc' = "storing"
      /\ store' = [backed |-> BackedUp(disk), before |-> LoadTable(disk), new |-> t, done |-> FALSE]
  BY DEF StartStore
<1>2. disk \in [Lbas -> Sector] /\ DiskOK  BY DEF IInv, TypesOK
<1>3. BackedUp(disk) \in BOOLEAN /\ LoadTable(disk) \in Table \cup {NoTable}
  BY <1>2, LoadType DEF BackedUp
<1>4. /\ store'.new = t /\ store'.done = FALSE /\ store'.backed = BackedUp(disk)
      /\ store'.before = LoadTable(disk)
      /\ store' \in [backed : BOOLEAN, before : Table \cup {NoTable}, new : Table, done : BOOLEAN]
  BY SMTT(30), <1>1, <1>3
<1>5. store' # NoStore
  <2>1. NoStore.new = NoTable  BY SMTT(30) DEF NoStore
  <2>. QED  BY <1>4, <2>1, NoTableIsNone
<1>6. header' \in HeaderSector(Table \cup {NoTable})  BY <1>1, HeadersAre
<1>7. 0 \in Nat /\ 0 < 2 * need /\ \A m \in 1 .. 0 : FALSE  BY SMTT(30), SectorsType
<1>8. TypesOK'  BY <1>1, <1>2, <1>4, <1>6, <1>7 DEF TypesOK
<1>9. Fits /\ \A i \in Slots : t[i].type # "nil" => ~OutOfBounds(t[i])
  <2>1. ~(Size < need + need + 1) /\ \A i \in Slots : ~(t[i].type # "nil" /\ OutOfBounds(t[i]))
    BY DEF StoreRefused
  <2>2. Fits  BY SMTT(30), <2>1, Constants, SectorsType DEF Fits
  <2>. QED  BY <2>1, <2>2
<1>10. Progress'
  <2>1. Fits'  BY <1>9 DEF Fits
  <2>2. Holds(disk', part', written')  BY <1>1, <1>7 DEF Holds
  <2>. QED  BY <1>1, <1>4, <1>5, <1>7, <1>9, <2>1, <2>2 DEF Progress, OutOfBounds
<1>11. OldOrNew'
  <2>1. SUFFICES ASSUME BackedUp(disk)
                 PROVE  /\ BackupGood(disk, LoadTable(disk))
                        /\ GPT_load(disk, FALSE).kind = "header" =>
                             disk[1].sum \in {LoadTable(disk), t}
    BY <1>4 DEF OldOrNew
  <2>. QED  BY <2>1, BackedUpMeans
<1>12. Stored' /\ Quit'
  <2>1. "storing" # "quit"  BY SMTT(30)
  <2>. QED  BY <1>1, <1>4, <2>1 DEF Stored, Quit
<1>13. DiskOK'  BY <1>2 DEF DiskOK, Fits
<1>. QED  BY <1>8, <1>10, <1>11, <1>12, <1>13 DEF IInv

\* write, quit with changes, and gdisk -i.
LEMMA WriteCommandStep ==
  ASSUME IInv, USER_init \/ (\E how \in {"write", "quit"} : Xwrite(how))
  PROVE  IInv'
<1>. TypesOK  BY DEF IInv
<1>1. CASE USER_init
  <2>1. disk' = disk /\ part' = InitTable /\ modified' = FALSE  BY <1>1 DEF USER_init
  <2>2. CASE /\ StoreRefused(InitHeader, InitTable) /\ pc' = "exit" /\ header' = InitHeader
             /\ written' = written /\ store' = store
    <3>1. "exit" # "storing" /\ "exit" # "quit" /\ "exit" \notin {"prompt", "storing"}  BY SMTT(30)
    <3>2. ~Running'  BY <2>2, <3>1 DEF Running
    <3>3. TypesOK'  BY <2>1, <2>2, <3>2, InitTableType DEF TypesOK
    <3>. QED  BY <2>1, <2>2, <3>1, <3>3, QuietStep
  <2>3. CASE ~StoreRefused(InitHeader, InitTable) /\ StartStore(InitTable, "init")
    BY <2>1, <2>3, InitTableType, StartStep
  <2>. QED  BY <1>1, <2>2, <2>3 DEF USER_init
<1>2. ASSUME NEW how \in {"write", "quit"}, Xwrite(how) PROVE IInv'
  <2>1. disk' = disk /\ part' = part /\ modified' = modified /\ pc = "prompt" /\ Running
    BY <1>2 DEF Xwrite, Running
  <2>2. header \in HeaderSector(Table \cup {NoTable})  BY <2>1 DEF TypesOK
  <2>3. ASSUME header' \in HeaderSector(Table \cup {NoTable}), pc' = pc, written' = written,
               store' = store
        PROVE  IInv'
    <3>1. "prompt" # "storing" /\ "prompt" # "quit"  BY SMTT(30)
    <3>2. TypesOK'  BY <2>1, <2>3 DEF TypesOK
    <3>. QED  BY <2>1, <2>3, <3>1, <3>2, QuietStep
  <2>4. CASE GPT_verify_asks /\ header' = header /\ pc' = pc /\ written' = written /\ store' = store
    BY <2>2, <2>3, <2>4
  <2>5. CASE /\ header' = IF NotAtLba1(header) THEN header ELSE [header EXCEPT !.end_lba = UsableEnd]
             /\ pc' = pc /\ written' = written /\ store' = store
    <3>1. UsableEnd \in Block  BY UsableEndIs
    <3>2. [header EXCEPT !.end_lba = UsableEnd] \in HeaderSector(Table \cup {NoTable})
      <4>. HIDE DEF UsableEnd
      <4>. QED  BY SMTT(30), <2>2, <3>1 DEF HeaderSector
    <3>3. header' \in HeaderSector(Table \cup {NoTable})  BY <2>2, <2>5, <3>2
    <3>. QED  BY <2>3, <2>5, <3>3
  <2>6. CASE ~StoreRefused(header, part) /\ StartStore(part, how)
    <3>1. part \in Table /\ modified \in BOOLEAN /\ how \in {"write", "quit", "init"}
      BY DEF TypesOK
    <3>. QED  BY <2>1, <2>6, <3>1, StartStep
  <2>. QED  BY <1>2, <2>4, <2>5, <2>6 DEF Xwrite
<1>. QED  BY <1>1, <1>2

\* What GPT_store() writes is a sector.
LEMMA WhatType ==
  ASSUME NEW t \in Table, NEW n \in 1 .. 2 * need
  PROVE  What(t, n) \in Sector
<1>1. Primary(t) \in Sector /\ Backup(t) \in Sector  BY HeadersAre DEF Sector
<1>2. need \in Nat  BY SectorsType
<1>3. CASE n = 1  BY <1>1, <1>3 DEF What
<1>4. CASE n # 1 /\ n <= need
  <2>1. n - 2 \in Nat  BY SMTT(30), <1>2, <1>4
  <2>. QED  BY <1>4, <2>1, EntrySectorType DEF What
<1>5. CASE n # 1 /\ ~(n <= need) /\ n = need + 1  BY <1>1, <1>5 DEF What
<1>6. CASE n # 1 /\ ~(n <= need) /\ n # need + 1
  <2>1. n - need - 2 \in Nat  BY SMTT(30), <1>2, <1>6
  <2>. QED  BY <1>6, <2>1, EntrySectorType DEF What
<1>. QED  BY <1>3, <1>4, <1>5, <1>6

\* The write n changes one sector.
LEMMA OneWrite ==
  ASSUME IInv, GPT_write
  PROVE  \E n \in 1 .. 2 * need :
           /\ n = written + 1 /\ Fits /\ part' = part /\ part \in Table
           /\ disk' \in [Lbas -> Sector] /\ disk'[Place(n)] = What(part, n)
           /\ \A l \in Lbas : l # Place(n) => disk'[l] = disk[l]
           /\ Holds(disk', part, n)
           /\ header' = IF n = need THEN Backup(part) ELSE header
           /\ n < 2 * need => /\ written' = n /\ pc' = pc /\ modified' = modified
                              /\ saving' = saving /\ store' = store
           /\ ~(n < 2 * need) =>
                /\ written' = 0
                /\ pc' = CASE saving = "write" -> "prompt" [] saving = "quit" -> "quit"
                           [] saving = "init" -> "exit"
                /\ modified' = (modified /\ saving # "write")
                /\ store' = [store EXCEPT !.done = TRUE]
<1>1. /\ disk \in [Lbas -> Sector] /\ part \in Table /\ written \in Nat /\ Fits
      /\ written < 2 * need /\ Holds(disk, part, written)
  BY DEF IInv, TypesOK, Progress, GPT_write
<1>2. PICK n \in 1 .. 2 * need : n = written + 1  BY SMTT(30), <1>1, SectorsType
<1>3. Len(Writes(part)) = 2 * need /\ Writes(part)[n] = <<Place(n), What(part, n)>>
  BY <1>1, WritesAre
<1>4. <<Place(n), What(part, n)>>[1] = Place(n) /\ <<Place(n), What(part, n)>>[2] = What(part, n)
  OBVIOUS
<1>5. PICK w : w = Writes(part)  OBVIOUS
<1>6. /\ disk' = [disk EXCEPT ![w[n][1]] = w[n][2]]
      /\ header' = IF n = 1 + SectorsNeeded THEN Backup(part) ELSE header
      /\ IF n < Len(w)
           THEN written' = n /\ UNCHANGED <<pc, modified, saving, store>>
           ELSE /\ written' = 0 /\ saving' = "no"
                /\ pc' = CASE saving = "write" -> "prompt" [] saving = "quit" -> "quit"
                           [] saving = "init" -> "exit"
                /\ modified' = (modified /\ saving # "write")
                /\ store' = [store EXCEPT !.done = TRUE]
      /\ part' = part
  BY <1>2, <1>5 DEF GPT_write
<1>7. disk' = [disk EXCEPT ![Place(n)] = What(part, n)]  BY <1>3, <1>4, <1>5, <1>6
<1>8. Place(n) \in Lbas /\ What(part, n) \in Sector  BY <1>1, PlaceType, WhatType
<1>9. /\ disk' \in [Lbas -> Sector] /\ disk'[Place(n)] = What(part, n)
      /\ \A l \in Lbas : l # Place(n) => disk'[l] = disk[l]
  BY <1>1, <1>7, <1>8
<1>10. Holds(disk', part, n)
  <2>1. SUFFICES ASSUME NEW m \in 1 .. n PROVE disk'[Place(m)] = What(part, m)  BY DEF Holds
  <2>2. m = n \/ (m # n /\ m \in 1 .. written /\ m \in 1 .. 2 * need)  BY SMTT(30), <1>1, <1>2, SectorsType
  <2>3. CASE m = n  BY <1>9, <2>3
  <2>4. CASE m # n /\ m \in 1 .. written /\ m \in 1 .. 2 * need
    <3>1. Place(m) # Place(n) /\ Place(m) \in Lbas  BY <1>1, <2>4, PlaceOnce, PlaceType
    <3>2. disk[Place(m)] = What(part, m)  BY <1>1, <2>4 DEF Holds
    <3>. QED  BY <1>9, <3>1, <3>2
  <2>. QED  BY <2>2, <2>3, <2>4
<1>11. header' = IF n = need THEN Backup(part) ELSE header  BY <1>6 DEF need
<1>12. (n < Len(w)) <=> (n < 2 * need)  BY <1>3, <1>5
<1>. QED  BY <1>1, <1>2, <1>6, <1>9, <1>10, <1>11, <1>12

\* A write leaves the headers and the rests of the last sectors as they have
\* to be.
LEMMA WriteDisk == ASSUME IInv, GPT_write PROVE DiskOK'
<1>1. PICK n \in 1 .. 2 * need :
        /\ Fits /\ part \in Table /\ disk'[Place(n)] = What(part, n)
        /\ \A l \in Lbas : l # Place(n) => disk'[l] = disk[l]
  BY OneWrite
<1>2. DiskOK  BY DEF IInv
<1>3. \A m \in 1 .. need : m \in 1 .. 2 * need  BY SMTT(30), SectorsType
<1>4. ASSUME NEW m \in 1 .. 2 * need
      PROVE  disk'[Place(m)] = disk[Place(m)] \/ disk'[Place(m)] = What(part, m)
  <2>1. CASE m = n  BY <1>1, <2>1
  <2>2. CASE m # n
    <3>1. Place(m) # Place(n) /\ Place(m) \in Lbas  BY <1>1, <2>2, PlaceOnce, PlaceType
    <3>. QED  BY <1>1, <3>1
  <2>. QED  BY <2>1, <2>2
<1>5. disk'[1].kind = "header" => disk'[1].partitions_lba = 2
  <2>1. disk'[1] = disk[1] \/ disk'[1] = Primary(part)  BY <1>1, <1>3, <1>4, Copies
  <2>2. Primary(part).partitions_lba = 2  BY HeadersAre
  <2>. QED  BY <1>2, <2>1, <2>2 DEF DiskOK
<1>6. disk'[Size - 1].kind = "header" => disk'[Size - 1].partitions_lba = Size - need
  <2>1. disk'[Size - 1] = disk[Size - 1] \/ disk'[Size - 1] = Backup(part)
    <3>1. need + 1 \in 1 .. 2 * need /\ Place(need + 1) = Size - 1
          /\ What(part, need + 1) = Backup(part)
      BY <1>1, Copies
    <3>. QED  BY <1>4, <3>1
  <2>2. Backup(part).partitions_lba = UsableEnd + 1  BY HeadersAre
  <2>3. UsableEnd + 1 = Size - need  BY <1>1, Copies
  <2>. QED  BY <1>2, <2>1, <2>2, <2>3 DEF DiskOK
<1>7. ASSUME NEW k \in 0 .. SectorsNeeded - 1, disk'[2 + k].kind = "entries",
             NEW j \in 0 .. PerSector - 1, k * PerSector + j >= N
      PROVE  disk'[2 + k].e[j] = Zero
  <2>1. 2 + k \in 1 .. need /\ Place(2 + k) = 2 + k /\ What(part, 2 + k) = EntrySector(part, k)
    BY <1>1, Copies
  <2>2. disk'[2 + k] = disk[2 + k] \/ disk'[2 + k] = EntrySector(part, k)
    BY <1>3, <1>4, <2>1
  <2>3. k \in Nat  BY SMTT(30), SectorsType
  <2>4. EntrySector(part, k).e[j] = Zero  BY <1>1, <1>7, <2>3, EntrySectorType
  <2>5. CASE disk'[2 + k] = disk[2 + k]  BY <1>1, <1>2, <1>7, <2>5 DEF DiskOK
  <2>. QED  BY <2>2, <2>4, <2>5
<1>8. Fits'  BY <1>1 DEF Fits
<1>. QED  BY <1>5, <1>6, <1>7, <1>8 DEF DiskOK

\* From d to d2 one sector of the primary copy is written.
PrimaryWrite(d, d2, n) ==
  /\ d[Size - 1].partitions_lba = Size - need
  /\ \A l \in Lbas : l # n => d2[l] = d[l]
  /\ d2[1].kind = "header" /\ d2[1].backup_lba = Size - 1

\* The backup copy is left alone.
LEMMA BackupKept ==
  ASSUME Fits, NEW d, NEW d2, NEW t, NEW n \in 1 .. need,
         BackupGood(d, t), PrimaryWrite(d, d2, n)
  PROVE  BackupGood(d2, t)
<1>. USE DEF PrimaryWrite
<1>1. /\ need \in Nat /\ Size \in Nat /\ Size >= need + need + 1 /\ SectorsNeeded \in Nat
      /\ need = SectorsNeeded + 1
  BY Constants, SectorsType DEF Fits
<1>2. Size - 1 # n /\ Size - need \in Int /\ \A k \in 0 .. SectorsNeeded - 1 : Size - need + k # n
  BY SMTT(30), <1>1
<1>3. d2[Size - 1] = d[Size - 1]  BY <1>2, Constants
<1>4. ReadEntries(d2, Size - need) = ReadEntries(d, Size - need)  BY <1>2, SameReads
<1>. QED  BY <1>3, <1>4 DEF BackupGood, Good

\* Until the primary copy is complete the old backup is there; then the new
\* primary copy is.
LEMMA WriteOldOrNew == ASSUME IInv, GPT_write PROVE OldOrNew'
<1>1. PICK n \in 1 .. 2 * need :
        /\ n = written + 1 /\ Fits /\ part' = part /\ part \in Table
        /\ disk'[Place(n)] = What(part, n)
        /\ \A l \in Lbas : l # Place(n) => disk'[l] = disk[l]
        /\ Holds(disk', part, n)
        /\ n < 2 * need => written' = n /\ pc' = pc /\ store' = store
        /\ ~(n < 2 * need) => /\ written' = 0
                              /\ pc' = CASE saving = "write" -> "prompt" [] saving = "quit" -> "quit"
                                         [] saving = "init" -> "exit"
                              /\ store' = [store EXCEPT !.done = TRUE]
  BY OneWrite
<1>2. /\ pc = "storing" /\ store # NoStore /\ store.new = part /\ Holds(disk, part, written)
      /\ saving \in {"write", "quit", "init"} /\ written \in Nat /\ DiskOK
  BY DEF IInv, Progress, TypesOK, GPT_write
<1>3. store \in [backed : BOOLEAN, before : Table \cup {NoTable}, new : Table, done : BOOLEAN]
  BY <1>2 DEF IInv, TypesOK
<1>4. store'.backed = store.backed /\ store'.before = store.before /\ store'.new = part
  <2>1. CASE n < 2 * need  BY <1>1, <1>2, <2>1
  <2>2. CASE ~(n < 2 * need)
    <3>1. store' = [store EXCEPT !.done = TRUE]  BY <1>1, <2>2
    <3>2. store'.backed = store.backed /\ store'.before = store.before /\ store'.new = store.new
      BY SMTT(30), <1>3, <3>1
    <3>. QED  BY <1>2, <3>2
  <2>. QED  BY <2>1, <2>2
<1>5. SUFFICES ASSUME store.backed
      PROVE  \/ /\ BackupGood(disk', store.before)
                /\ GPT_load(disk', FALSE).kind = "header" => disk'[1].sum \in {store.before, part}
             \/ Good(disk', 1, part) /\ ~(pc' = "storing" /\ written' < need)
  BY <1>4 DEF OldOrNew
<1>6. CASE written < need
  <2>1. n \in 1 .. need /\ n <= need  BY SMTT(30), <1>1, <1>2, <1>6, SectorsType
  <2>2. Place(n) = n  BY <2>1 DEF Place
  <2>3. /\ BackupGood(disk, store.before)
        /\ GPT_load(disk, FALSE).kind = "header" => disk[1].sum \in {store.before, part}
    BY <1>2, <1>5, <1>6 DEF IInv, OldOrNew
  <2>4. disk[Size - 1].partitions_lba = Size - need
    BY <1>2, <2>3 DEF DiskOK, BackupGood, Good
  <2>5. disk'[1] = Primary(part)
    <3>1. 1 \in 1 .. n  BY SMTT(30)
    <3>2. Place(1) = 1 /\ What(part, 1) = Primary(part)  BY <1>1, Copies
    <3>. QED  BY <1>1, <3>1, <3>2 DEF Holds
  <2>6. Primary(part).kind = "header" /\ Primary(part).backup_lba = Size - 1 /\ Primary(part).sum = part
    BY HeadersAre
  <2>7. PICK d2 : d2 = disk'  OBVIOUS
  <2>8. BackupGood(d2, store.before)
    <3>1. \A l \in Lbas : l # n => d2[l] = disk[l]  BY <1>1, <2>2, <2>7
    <3>2. d2[1].kind = "header" /\ d2[1].backup_lba = Size - 1  BY <2>5, <2>6, <2>7
    <3>3. PICK d : d = disk  OBVIOUS
    <3>4. Fits /\ BackupGood(d, store.before) /\ PrimaryWrite(d, d2, n)
      BY <1>1, <2>3, <2>4, <3>1, <3>2, <3>3 DEF PrimaryWrite
    <3>. QED  BY <2>1, <3>4, BackupKept
  <2>. QED  BY <2>5, <2>6, <2>7, <2>8
<1>7. CASE ~(written < need)
  <2>1. n \in Nat /\ n >= need /\ ~(n < need) /\ (n < 2 * need => ~(written' < need))
    <3>1. n \in Nat /\ n >= need /\ ~(n < need)  BY SMTT(30), <1>1, <1>2, <1>7, SectorsType
    <3>. QED  BY <1>1, <3>1
  <2>2. Good(disk', 1, part)  BY <1>1, <2>1, PrimaryStored
  <2>3. ~(n < 2 * need) => pc' # "storing"
    <3>1. "prompt" # "storing" /\ "quit" # "storing" /\ "exit" # "storing"
          /\ "write" # "quit" /\ "write" # "init" /\ "quit" # "init"  BY SMTT(30)
    <3>. QED  BY <1>1, <1>2, <3>1
  <2>. QED  BY <2>1, <2>2, <2>3
<1>. QED  BY <1>6, <1>7

\* A store that is done.
LEMMA DoneType ==
  ASSUME NEW A, NEW B, NEW C, NEW D, NEW b \in D,
         NEW s \in [backed : C, before : A, new : B, done : D]
  PROVE  /\ [s EXCEPT !.done = b] \in [backed : C, before : A, new : B, done : D]
         /\ [s EXCEPT !.done = b].new = s.new /\ [s EXCEPT !.done = b].done = b
BY SMTT(30)

\* One sector written.
LEMMA WriteStep == ASSUME IInv, GPT_write PROVE IInv'
<1>1. PICK n \in 1 .. 2 * need :
        /\ n = written + 1 /\ Fits /\ part' = part /\ part \in Table
        /\ disk' \in [Lbas -> Sector] /\ Holds(disk', part, n)
        /\ header' = IF n = need THEN Backup(part) ELSE header
        /\ n < 2 * need => /\ written' = n /\ pc' = pc /\ modified' = modified
                           /\ saving' = saving /\ store' = store
        /\ ~(n < 2 * need) =>
             /\ written' = 0
             /\ pc' = CASE saving = "write" -> "prompt" [] saving = "quit" -> "quit"
                        [] saving = "init" -> "exit"
             /\ modified' = (modified /\ saving # "write")
             /\ store' = [store EXCEPT !.done = TRUE]
  BY OneWrite
<1>2. /\ pc = "storing" /\ store # NoStore /\ store.new = part /\ ~store.done
      /\ saving \in {"write", "quit", "init"} /\ modified \in BOOLEAN
      /\ \A i \in Slots : part[i].type # "nil" => ~OutOfBounds(part[i])
  BY DEF IInv, Progress, TypesOK, GPT_write
<1>3. header \in HeaderSector(Table \cup {NoTable})  BY <1>2 DEF IInv, TypesOK, Running
<1>4. Backup(part) \in HeaderSector(Table \cup {NoTable})  BY <1>1, HeadersAre
<1>5. header' \in HeaderSector(Table \cup {NoTable})  BY <1>1, <1>3, <1>4
<1>6. store \in [backed : BOOLEAN, before : Table \cup {NoTable}, new : Table, done : BOOLEAN]
  BY <1>2 DEF IInv, TypesOK
<1>7. Fits' /\ DiskOK' /\ OldOrNew'  BY <1>1, WriteDisk, WriteOldOrNew DEF Fits
<1>8. \A i \in Slots : part'[i].type # "nil" => ~OutOfBounds(part'[i])  BY <1>1, <1>2
<1>9. "storing" # "quit"  BY SMTT(30)
<1>10. CASE n < 2 * need
  <2>1. /\ written' = n /\ pc' = pc /\ modified' = modified /\ saving' = saving /\ store' = store
    BY <1>1, <1>10
  <2>2. n \in Nat  BY SMTT(30), SectorsType
  <2>3. TypesOK'  BY <1>1, <1>2, <1>5, <1>6, <2>1, <2>2 DEF TypesOK
  <2>4. Progress'  BY <1>1, <1>2, <1>7, <1>8, <1>10, <2>1 DEF Progress
  <2>. QED  BY <1>2, <1>7, <1>9, <2>1, <2>3, <2>4 DEF IInv, Stored, Quit
<1>11. CASE ~(n < 2 * need)
  <2>1. /\ written' = 0 /\ modified' = (modified /\ saving # "write")
        /\ store' = [store EXCEPT !.done = TRUE]
    BY <1>1, <1>11
  <2>2. pc' \in {"prompt", "quit", "exit"} /\ pc' # "storing"
    <3>1. "prompt" # "storing" /\ "quit" # "storing" /\ "exit" # "storing"
          /\ "write" # "quit" /\ "write" # "init" /\ "quit" # "init"  BY SMTT(30)
    <3>. QED  BY <1>1, <1>2, <1>11, <3>1
  <2>3. /\ store' \in [backed : BOOLEAN, before : Table \cup {NoTable}, new : Table, done : BOOLEAN]
        /\ store'.new = store.new /\ store'.done = TRUE
    BY <1>6, <2>1, DoneType, TRUE \in BOOLEAN
  <2>4. 0 \in Nat /\ n = 2 * need  BY SMTT(30), <1>11, SectorsType
  <2>5. TypesOK'  BY <1>1, <1>2, <1>5, <2>1, <2>2, <2>3, <2>4 DEF TypesOK
  <2>6. store' # NoStore
    <3>1. NoStore.new = NoTable  BY SMTT(30) DEF NoStore
    <3>. QED  BY <1>1, <1>2, <2>3, <3>1, NoTableIsNone
  <2>7. Stored'  BY <1>1, <1>2, <1>7, <1>8, <2>3, <2>4, <2>6 DEF Stored
  <2>. QED  BY <1>1, <1>2, <1>7, <2>2, <2>3, <2>5, <2>7 DEF IInv, Progress, Quit
<1>. QED  BY <1>10, <1>11

\* A write that fails.
LEMMA ErrorStep == ASSUME IInv, GPT_write_error PROVE IInv'
<1>1. /\ disk' = disk /\ store' = store /\ pc' \in {"exit", "prompt"} /\ written' = 0
      /\ header' = header /\ part' = part /\ modified' = modified /\ pc = "storing"
  BY DEF GPT_write_error
<1>2. /\ "exit" # "storing" /\ "prompt" # "storing" /\ "exit" # "quit" /\ "prompt" # "quit"
      /\ 0 \in Nat
  BY SMTT(30)
<1>3. TypesOK'  BY <1>1, <1>2 DEF IInv, TypesOK, Running
<1>. QED  BY <1>1, <1>2, <1>3, QuietStep

\* No step breaks it.
LEMMA NextIInv == IInv /\ [Next]_vars => IInv'
<1>. SUFFICES ASSUME IInv, [Next]_vars PROVE IInv'  OBVIOUS
<1>1. CASE USER_modify \/ Xexit \/ Crash \/ Xquit  BY <1>1, SessionStep
<1>2. CASE Xreinit \/ Xswap \/ Xflags  BY <1>2, TableStep
<1>3. CASE \E pn \in Slots, pid \in Pids : Xsetpid(pn, pid) \/ Xedit(pn, pid)  BY <1>3, EntryStep
<1>4. CASE USER_init \/ (\E how \in {"write", "quit"} : Xwrite(how))  BY <1>4, WriteCommandStep
<1>5. CASE GPT_write  BY <1>5, WriteStep
<1>6. CASE GPT_write_error  BY <1>6, ErrorStep
<1>7. CASE UNCHANGED vars
  <2>1. /\ disk' = disk /\ pc' = pc /\ header' = header /\ part' = part /\ modified' = modified
        /\ saving' = saving /\ written' = written /\ store' = store
    BY <1>7 DEF vars, memVars
  <2>2. TypesOK' /\ DiskOK'  BY <2>1 DEF IInv, TypesOK, DiskOK, Running, Fits
  <2>3. Progress' /\ Stored'  BY <2>1 DEF IInv, Progress, Stored, Holds, OutOfBounds
  <2>4. OldOrNew' /\ Quit'  BY <2>1 DEF IInv, OldOrNew, Quit, BackupGood, Good
  <2>. QED  BY <2>2, <2>3, <2>4 DEF IInv
<1>. QED  BY <1>1, <1>2, <1>3, <1>4, <1>5, <1>6, <1>7 DEF Next

\* The invariant holds in every behaviour.
LEMMA Invariance == Spec => []IInv
BY InitIInv, NextIInv, PTL DEF Spec

-----------------------------------------------------------------------------
(* What gdisk promises. *)

\* Power lost or a write failed anywhere in a GPT_store() that found a good
\* backup in the last sector, one that GPT_load()'s int can number: the next
\* session loads the old table or the new one, for any disk that has room for
\* both copies and any number of interruptions.
THEOREM SurvivesHolds == Spec => []SurvivesInterruptedStore
BY Invariance, InvariantSays, PTL

\* A GPT_store() that returned 0 has left both copies good and equal, whatever
\* was on the disk; gdisk loads the first, and can load the second if an int
\* can number the last sector.
THEOREM StoreRepairsHolds == Spec => []StoreRepairs
BY Invariance, InvariantSays, PTL

\* The partitions it stored are in the usable blocks.
THEOREM WithinBoundsHolds == Spec => []StoredWithinBounds
BY Invariance, InvariantSays, PTL

\* quit leaves only with the changes on the disk.
THEOREM QuitWritesHolds == Spec => []QuitWrites
BY Invariance, InvariantSays, PTL

\* No step writes into the blocks that partitions may use.
LEMMA UsableKept ==
  IInv /\ [Next]_vars => [\A l \in Usable \cap Lbas : disk'[l] = disk[l]]_vars
<1>. SUFFICES ASSUME IInv, [Next]_vars, NEW l \in Usable \cap Lbas PROVE disk'[l] = disk[l]
  OBVIOUS
<1>1. CASE GPT_write
  <2>1. PICK n \in 1 .. 2 * need : Fits /\ \A x \in Lbas : x # Place(n) => disk'[x] = disk[x]
    BY <1>1, OneWrite
  <2>2. l # Place(n)  BY <2>1, PlaceType
  <2>. QED  BY <2>1, <2>2
<1>2. CASE disk' = disk  BY <1>2
<1>. QED
  BY <1>1, <1>2 DEF Next, vars, USER_modify, USER_init, Xexit, Xquit, Crash, Xreinit, Xswap,
    Xflags, Xsetpid, Xedit, Xwrite, GPT_write_error, Command

\* GPT_store() leaves the contents of the partitions alone.
THEOREM UsableBlocksKeptHolds == Spec => UsableBlocksKept
BY Invariance, UsableKept, PTL DEF Spec, UsableBlocksKept

-----------------------------------------------------------------------------
(* What efiboot finds. *)

\* A set of numbers has a least one.
LEMMA Least ==
  ASSUME NEW S, S \subseteq Nat, S # {}
  PROVE  \E n \in S : \A m \in S : n <= m
<1>. DEFINE R == {ss \in Nat \X Nat : ss[1] < ss[2]}
<1>1. IsWellFoundedOn(R, Nat)  BY NatLessThanWellFounded DEF OpToRel
<1>2. \A x, y \in Nat : y < x => <<y, x>> \in R  BY SMTT(30)
<1>. HIDE DEF R
<1>3. PICK x \in S : \A y \in S : ~(<<y, x>> \in R)  BY <1>1, WFMin
<1>4. \A y \in S : ~(y < x)  BY <1>2, <1>3
<1>5. \A y \in Nat : x \in Nat /\ ~(y < x) => x <= y  BY SMTT(30)
<1>. QED  BY <1>4, <1>5

\* Two sequences have entries of these types at the same places, and they are
\* the same.
SameFound(s, u, types, found) ==
  /\ found \subseteq Nat
  /\ found = {n \in DOMAIN s : s[n].type \in types}
  /\ found = {n \in DOMAIN u : u[n].type \in types}
  /\ \A n \in found : s[n] = u[n]

\* The first entry depends on the entries of that type only.
LEMMA FirstOfSame ==
  ASSUME NEW s, NEW u, NEW types, NEW found, SameFound(s, u, types, found)
  PROVE  FirstOf(s, types) = FirstOf(u, types)
<1>. USE DEF SameFound
<1>1. PICK c : c = CHOOSE n \in found : \A m \in found : n <= m  OBVIOUS
<1>2. found # {} => c \in found  BY <1>1, Least
<1>3. FirstOf(s, types) = IF found = {} THEN None ELSE s[c].start
  <2>. DEFINE f == {n \in DOMAIN s : s[n].type \in types}
  <2>1. FirstOf(s, types) =
          IF f = {} THEN None ELSE s[CHOOSE n \in f : \A m \in f : n <= m].start
    BY DEF FirstOf
  <2>2. f = found  OBVIOUS
  <2>. HIDE DEF f
  <2>. QED  BY <1>1, <2>1, <2>2
<1>4. FirstOf(u, types) = IF found = {} THEN None ELSE u[c].start
  <2>. DEFINE f == {n \in DOMAIN u : u[n].type \in types}
  <2>1. FirstOf(u, types) =
          IF f = {} THEN None ELSE u[CHOOSE n \in f : \A m \in f : n <= m].start
    BY DEF FirstOf
  <2>2. f = found  OBVIOUS
  <2>. HIDE DEF f
  <2>. QED  BY <1>1, <2>1, <2>2
<1>5. CASE found = {}  BY <1>3, <1>4, <1>5
<1>6. CASE found # {}
  <2>1. s[c] = u[c]  BY <1>2, <1>6
  <2>2. FirstOf(s, types) = s[c].start /\ FirstOf(u, types) = u[c].start  BY <1>3, <1>4, <1>6
  <2>. QED  BY <2>1, <2>2
<1>. QED  BY <1>5, <1>6

\* The sector of entry i, the ones behind the last of the table included.
LEMMA SectorOfAny ==
  ASSUME NEW i \in 0 .. SectorsNeeded * PerSector - 1
  PROVE  /\ i \div PerSector \in 0 .. SectorsNeeded - 1 /\ i % PerSector \in 0 .. PerSector - 1
         /\ (i \div PerSector) * PerSector + (i % PerSector) = i
<1>. DEFINE q == i \div PerSector
            r == i % PerSector
<1>1. PICK sn \in Nat, ps \in Nat \ {0} : sn = SectorsNeeded /\ ps = PerSector
  BY Constants, SectorsType
<1>2. i \in Int /\ i >= 0 /\ i < sn * ps /\ sn * ps \in Nat
  <2>1. sn * ps \in Nat /\ i \in 0 .. sn * ps - 1  BY SMTT(30), <1>1
  <2>. QED  BY SMTT(30), <2>1
<1>3. r \in 0 .. ps - 1 /\ q \in Int /\ i = ps * q + r  BY <1>1, <1>2, Division
<1>. HIDE DEF q, r
<1>4. q >= 0
  <2>1. ASSUME q <= -1 PROVE FALSE
    <3>1. ps * q <= -ps  BY SMTT(30), <1>3, <2>1
    <3>. QED  BY SMTT(30), <1>2, <1>3, <3>1
  <2>. QED  BY SMTT(30), <1>3, <2>1
<1>5. q <= sn - 1
  <2>1. ASSUME q >= sn PROVE FALSE
    <3>1. ps * q >= ps * sn /\ ps * sn = sn * ps  BY SMTT(30), <1>3, <2>1
    <3>. QED  BY SMTT(30), <1>2, <1>3, <3>1
  <2>. QED  BY SMTT(30), <1>3, <2>1
<1>6. q * ps = ps * q  BY SMTT(30), <1>3
<1>7. q * ps + r = i  BY <1>3, <1>6
<1>8. q \in 0 .. sn - 1  BY SMTT(30), <1>3, <1>4, <1>5
<1>. QED  BY <1>1, <1>3, <1>7, <1>8 DEF q, r

\* The header that GPT_store() writes passes efiboot's checks.
LEMMA HeaderPasses ==
  ASSUME Fits, NEW h, h.kind = "header", h.partitions_lba = 2
  PROVE  ~BadHeader(h)
<1>1. PICK sn \in Nat \ {0}, ps \in Nat \ {0}, x \in Nat, q \in Int :
        sn = SectorsNeeded /\ ps = PerSector /\ x = N /\ q = N \div PerSector
  <2>1. N \in Int /\ N \in Nat  BY SMTT(30), Constants
  <2>. QED  BY <2>1, Constants, SectorsType, Division
<1>2. x <= ps * sn  BY <1>1, SectorsType
<1>3. PICK r \in 0 .. ps - 1 : x = ps * q + r
  <2>1. x \in Int  BY SMTT(30)
  <2>2. x % ps \in 0 .. ps - 1 /\ x = ps * (x \div ps) + (x % ps)  BY <2>1, Division
  <2>3. q = x \div ps  BY <1>1
  <2>. QED  BY <2>2, <2>3
<1>4. q <= sn
  <2>1. ASSUME q >= sn + 1 PROVE FALSE
    <3>1. ps * q >= ps * (sn + 1) /\ ps * (sn + 1) = ps * sn + ps  BY SMTT(30), <2>1
    <3>2. ps * sn \in Nat /\ ps * q \in Int  BY SMTT(30)
    <3>. QED  BY SMTT(30), <1>2, <1>3, <3>1, <3>2
  <2>. QED  BY SMTT(30), <2>1
<1>5. UsableStart = sn + 2 /\ Size \in Nat /\ Size >= 2 * sn + 3
  BY SMTT(30), <1>1, SectorsType, Constants DEF Fits
<1>6. ~(sn + 2 >= Size - 1) /\ ~(2 >= sn + 2) /\ ~(q > sn + 2 - 2)  BY SMTT(30), <1>4, <1>5
<1>7. gh_lba_start = sn + 2 /\ LastBlock = Size - 1  BY <1>5 DEF gh_lba_start, LastBlock
<1>8. gh_lba_start - h.partitions_lba = sn + 2 - 2  BY SMTT(30), <1>7
<1>9. ~(gh_lba_start >= LastBlock)  BY <1>6, <1>7
<1>10. ~(h.partitions_lba >= gh_lba_start)  BY <1>6, <1>7
<1>11. ~(N \div PerSector > gh_lba_start - h.partitions_lba)  BY <1>1, <1>6, <1>8
<1>. QED  BY <1>9, <1>10, <1>11 DEF BadHeader

\* Entry i of the primary copy as efiboot reads it.
EntryAt(d, i) ==
  LET l == 2 + i \div PerSector
  IN IF d[l].kind = "entries" THEN d[l].e[i % PerSector] ELSE Zero

\* Those of a good copy are the entries of the table.
LEMMA GoodEntries ==
  ASSUME NEW d, NEW t \in Table, Good(d, 1, t), d[1].partitions_lba = 2, NEW i \in Slots
  PROVE  EntryAt(d, i) = t[i]
<1>. DEFINE l == 2 + i \div PerSector
<1>1. ReadEntries(d, 2) = t  BY DEF Good
<1>2. t[i] = IF l \in Lbas /\ d[l].kind = "entries" THEN d[l].e[i % PerSector]
             ELSE [type |-> "garbage"]
  <2>1. PICK f : f = ReadEntries(d, 2)  OBVIOUS
  <2>2. f[i] = IF l \in Lbas /\ d[l].kind = "entries" THEN d[l].e[i % PerSector]
               ELSE [type |-> "garbage"]
    BY <2>1 DEF ReadEntries
  <2>. QED  BY <1>1, <2>1, <2>2
<1>3. t[i] # [type |-> "garbage"]
  <2>1. t[i] \in Entry  BY DEF Table
  <2>2. t[i].type \in Types  BY SMTT(30), <2>1 DEF Entry
  <2>3. [type |-> "garbage"].type = "garbage" /\ "garbage" \notin Types  BY SMTT(30) DEF Types
  <2>. QED  BY <2>2, <2>3
<1>. HIDE DEF l
<1>4. d[l].kind = "entries" /\ t[i] = d[l].e[i % PerSector]  BY <1>2, <1>3
<1>. QED  BY <1>4 DEF EntryAt, l

\* efiboot reads the entries of the copy, and behind them only ones that are
\* not used.
LEMMA EntriesRead ==
  ASSUME DiskOK, Fits, NEW s, s = Entries(disk, 2, SectorsNeeded)
  PROVE  /\ DOMAIN s = 1 .. SectorsNeeded * PerSector
         /\ \A n \in 1 .. N : n \in 1 .. SectorsNeeded * PerSector /\ s[n] = EntryAt(disk, n - 1)
         /\ \A n \in 1 .. SectorsNeeded * PerSector : n \notin 1 .. N => s[n] = Zero
<1>1. s = [n \in 1 .. SectorsNeeded * PerSector |-> EntryAt(disk, n - 1)]  BY DEF Entries, EntryAt
<1>2. /\ DOMAIN s = 1 .. SectorsNeeded * PerSector
      /\ \A n \in 1 .. SectorsNeeded * PerSector : s[n] = EntryAt(disk, n - 1)
  BY <1>1
<1>3. PICK top \in Nat : top = SectorsNeeded * PerSector /\ N <= top /\ N \in Nat
  <2>1. PICK sn \in Nat, ps \in Nat : sn = SectorsNeeded /\ ps = PerSector /\ N <= ps * sn /\ N \in Nat
    BY Constants, SectorsType
  <2>2. sn * ps \in Nat /\ N <= sn * ps  BY SMTT(30), <2>1
  <2>. QED  BY <2>1, <2>2
<1>4. \A n \in 1 .. N : n \in 1 .. top  BY SMTT(30), <1>3
<1>5. ASSUME NEW n \in 1 .. top, n \notin 1 .. N PROVE EntryAt(disk, n - 1) = Zero
  <2>1. PICK i \in 0 .. top - 1 : i = n - 1 /\ i >= N  BY SMTT(30), <1>3, <1>5
  <2>2. i \in 0 .. SectorsNeeded * PerSector - 1  BY <1>3
  <2>3. PICK k, j : k = i \div PerSector /\ j = i % PerSector  OBVIOUS
  <2>4. k \in 0 .. SectorsNeeded - 1 /\ j \in 0 .. PerSector - 1 /\ k * PerSector + j = i
    BY <2>2, <2>3, SectorOfAny
  <2>5. k * PerSector + j >= N  BY <2>1, <2>4
  <2>6. disk[2 + k].kind = "entries" => disk[2 + k].e[j] = Zero  BY <2>4, <2>5 DEF DiskOK
  <2>7. EntryAt(disk, i) = Zero  BY <2>3, <2>6 DEF EntryAt
  <2>. QED  BY <2>1, <2>7
<1>. QED  BY <1>2, <1>3, <1>4, <1>5

\* While the primary copy is good, efiboot finds what gdisk loads.
LEMMA FindsWhatLoads == ASSUME IInv PROVE BootsWhatLoads
<1>1. SUFFICES ASSUME GPT_load(disk, FALSE).kind = "header"
               PROVE  findopenbsd_gpt(disk) = FirstOf(InOrder(LoadTable(disk)), {"OPENBSD"})
  BY DEF BootsWhatLoads
<1>2. Good(disk, 1, disk[1].sum)  BY <1>1, PrimaryLoad
<1>3. PICK t : t = disk[1].sum  OBVIOUS
<1>4. LoadTable(disk) = t /\ Good(disk, 1, t)  BY <1>2, <1>3, PrimaryTable
<1>5. t \in Table
  <2>1. disk[1] \in Sector /\ disk[1].kind = "header"  BY <1>4, Constants DEF IInv, TypesOK, Good
  <2>. QED  BY <1>3, <2>1, Kinds, HeaderFields
<1>6. Fits /\ disk[1].kind = "header" /\ disk[1].partitions_lba = 2
  BY <1>4 DEF IInv, DiskOK, Good
<1>7. ~BadHeader(disk[1])  BY <1>6, HeaderPasses
<1>8. PICK s : s = Entries(disk, 2, SectorsNeeded)  OBVIOUS
<1>9. PICK u : u = InOrder(t)  OBVIOUS
<1>10. DOMAIN u = 1 .. N /\ \A n \in 1 .. N : u[n] = t[n - 1]  BY <1>9 DEF InOrder
<1>11. /\ DOMAIN s = 1 .. SectorsNeeded * PerSector
       /\ \A n \in 1 .. N : n \in 1 .. SectorsNeeded * PerSector /\ s[n] = t[n - 1]
       /\ \A n \in 1 .. SectorsNeeded * PerSector : n \notin 1 .. N => s[n] = Zero
  <2>1. /\ DOMAIN s = 1 .. SectorsNeeded * PerSector
        /\ \A n \in 1 .. N :
             n \in 1 .. SectorsNeeded * PerSector /\ s[n] = EntryAt(disk, n - 1)
        /\ \A n \in 1 .. SectorsNeeded * PerSector : n \notin 1 .. N => s[n] = Zero
    BY <1>6, <1>8, EntriesRead DEF IInv
  <2>2. \A n \in 1 .. N : EntryAt(disk, n - 1) = t[n - 1]
    <3>. TAKE n \in 1 .. N
    <3>1. n - 1 \in Slots  BY SMTT(30), Constants DEF Slots
    <3>. QED  BY <1>4, <1>5, <1>6, <3>1, GoodEntries
  <2>. QED  BY <2>1, <2>2
<1>12. Zero.type \notin {"OPENBSD"}  BY SMTT(30) DEF Zero
<1>13. PICK found : found = {n \in DOMAIN u : u[n].type \in {"OPENBSD"}}  OBVIOUS
<1>14. \A n : n \in found <=> (n \in 1 .. N /\ t[n - 1].type \in {"OPENBSD"})
  BY <1>10, <1>13
<1>15. found = {n \in DOMAIN s : s[n].type \in {"OPENBSD"}}
  <2>1. ASSUME NEW n \in found PROVE n \in DOMAIN s /\ s[n].type \in {"OPENBSD"}
    BY <1>11, <1>14
  <2>2. ASSUME NEW n \in DOMAIN s, s[n].type \in {"OPENBSD"} PROVE n \in found
    <3>1. n \in 1 .. N  BY <1>11, <1>12, <2>2
    <3>2. s[n] = t[n - 1]  BY <1>11, <3>1
    <3>. QED  BY <1>14, <2>2, <3>1, <3>2
  <2>. QED  BY <2>1, <2>2
<1>16. \A n \in found : s[n] = u[n]  BY <1>10, <1>11, <1>14
<1>17. found \subseteq Nat
  <2>1. \A n \in 1 .. N : n \in Nat  BY SMTT(30), Constants
  <2>. QED  BY <1>14, <2>1
<1>18. FirstOf(s, {"OPENBSD"}) = FirstOf(u, {"OPENBSD"})
  <2>1. SameFound(s, u, {"OPENBSD"}, found)  BY <1>13, <1>15, <1>16, <1>17 DEF SameFound
  <2>. QED  BY <2>1, FirstOfSame
<1>19. findopenbsd_gpt(disk) = FirstOf(s, {"OPENBSD"})  BY <1>6, <1>7, <1>8 DEF findopenbsd_gpt
<1>. QED  BY <1>4, <1>9, <1>18, <1>19

\* The table that gdisk loads from the primary copy is the one efiboot boots
\* from, for any number of entries, to a sector or in the table.
THEOREM BootsWhatLoadsHolds == Spec => []BootsWhatLoads
BY Invariance, FindsWhatLoads, PTL


-----------------------------------------------------------------------------
(* What efiboot finds after a crash. *)

\* Every entry of the primary copy is not used, or one of a or b.
Mixed(d, a, b) == \A i \in Slots : EntryAt(d, i) \in {Zero, a[i], b[i]}

\* As long as nothing went wrong the primary copy holds the table that loads,
\* between stores; the first crash or error leaves it with entries of two
\* tables.
BootInv ==
  /\ crashes \in Nat /\ errors \in Nat
  /\ Fits /\ crashes + errors = 0 /\ pc # "storing" =>
       Mixed(disk, LoadTable(disk), LoadTable(disk))
  /\ store # NoStore /\ crashes + errors <= (IF pc = "storing" THEN 0 ELSE 1) =>
       Mixed(disk, store.before, store.new)

\* A good primary copy.
LEMMA GoodMixed ==
  ASSUME NEW d, NEW t \in Table, Good(d, 1, t), d[1].partitions_lba = 2
  PROVE  LoadTable(d) = t /\ \A a : Mixed(d, t, t) /\ Mixed(d, a, t)
<1>1. LoadTable(d) = t  BY PrimaryTable
<1>2. \A i \in Slots : EntryAt(d, i) = t[i]  BY GoodEntries
<1>. QED  BY <1>1, <1>2 DEF Mixed

\* It holds initially.
LEMMA InitBoot == Init => BootInv
<1>. SUFFICES ASSUME Init PROVE BootInv  OBVIOUS
<1>1. crashes = 0 /\ errors = 0 /\ store = NoStore  BY DEF Init
<1>2. 0 \in Nat  BY SMTT(30)
<1>3. ASSUME Fits PROVE Mixed(disk, LoadTable(disk), LoadTable(disk))
  <2>1. CASE disk = [l \in Lbas |-> Data]
    <3>1. \A k \in 0 .. SectorsNeeded - 1 : disk[2 + k] = Data
      <4>1. \A k \in 0 .. SectorsNeeded - 1 : 2 + k \in Lbas  BY <1>3, Copies
      <4>. QED  BY <2>1, <4>1
    <3>2. ASSUME NEW i \in Slots PROVE EntryAt(disk, i) = Zero
      <4>1. i \div PerSector \in 0 .. SectorsNeeded - 1  BY SectorOf
      <4>. QED  BY <3>1, <4>1, Kinds DEF EntryAt
    <3>. QED  BY <3>2 DEF Mixed
  <2>2. CASE \E t \in InitTables, last \in {Size - 1, Size - 2} :
               last >= 2 * need /\ disk = Formatted(t, last)
    <3>1. PICK t \in InitTables, last \in {Size - 1, Size - 2} :
            last >= 2 * need /\ disk = Formatted(t, last)
      BY <2>2
    <3>2. t \in Table  BY Constants
    <3>3. DiskOK /\ Good(disk, 1, t)  BY <3>1, <3>2, FormattedIs
    <3>4. disk[1].partitions_lba = 2  BY <3>3 DEF DiskOK, Good
    <3>. QED  BY <3>2, <3>3, <3>4, GoodMixed
  <2>. QED  BY <2>1, <2>2 DEF Init
<1>. QED  BY <1>1, <1>2, <1>3 DEF BootInv

\* Steps that neither write nor start a store.
LEMMA QuietBoot ==
  ASSUME BootInv, disk' = disk, store' = store, crashes' = crashes, errors' = errors,
         pc = "storing" <=> pc' = "storing"
  PROVE  BootInv'
BY DEF BootInv, Mixed, Fits

\* A crash, or a write that fails.
LEMMA DamageBoot ==
  ASSUME BootInv, disk' = disk, store' = store, pc' # "storing",
         \/ crashes' = crashes + 1 /\ errors' = errors
         \/ crashes' = crashes /\ errors' = errors + 1
  PROVE  BootInv'
<1>1. crashes \in Nat /\ errors \in Nat  BY DEF BootInv
<1>2. /\ crashes' \in Nat /\ errors' \in Nat /\ crashes' + errors' # 0
      /\ crashes' + errors' <= 1 => crashes + errors <= 0 /\ crashes + errors <= 1
  BY SMTT(30), <1>1
<1>3. ASSUME store' # NoStore, crashes' + errors' <= 1
      PROVE  Mixed(disk', store'.before, store'.new)
  BY <1>2, <1>3 DEF BootInv
<1>. QED  BY <1>2, <1>3 DEF BootInv

\* A store that starts.
LEMMA StartBoot ==
  ASSUME BootInv, Fits, NEW t, NEW how, StartStore(t, how), pc # "storing", disk' = disk,
         crashes' = crashes, errors' = errors
  PROVE  BootInv'
<1>1. /\ pc' = "storing"
      /\ store' = [backed |-> BackedUp(disk), before |-> LoadTable(disk), new |-> t, done |-> FALSE]
  BY DEF StartStore
<1>2. store'.before = LoadTable(disk) /\ store'.new = t  BY SMTT(30), <1>1
<1>3. crashes + errors <= 0 => crashes + errors = 0  BY SMTT(30) DEF BootInv
<1>4. ASSUME crashes' + errors' <= 0 PROVE Mixed(disk', store'.before, store'.new)
  <2>1. Mixed(disk, LoadTable(disk), LoadTable(disk))  BY <1>3, <1>4 DEF BootInv
  <2>. QED  BY <1>2, <2>1 DEF Mixed
<1>. QED  BY <1>1, <1>4 DEF BootInv

\* A sector written: after the last one all entries are the new ones.
LEMMA WriteBoot == ASSUME IInv, BootInv, GPT_write PROVE BootInv'
<1>1. PICK n \in 1 .. 2 * need :
        /\ Fits /\ part \in Table
        /\ disk'[Place(n)] = What(part, n)
        /\ \A l \in Lbas : l # Place(n) => disk'[l] = disk[l]
        /\ Holds(disk', part, n)
        /\ n < 2 * need => pc' = pc /\ store' = store
        /\ ~(n < 2 * need) => /\ pc' = CASE saving = "write" -> "prompt" [] saving = "quit" -> "quit"
                                         [] saving = "init" -> "exit"
                              /\ store' = [store EXCEPT !.done = TRUE]
  BY OneWrite
<1>2. /\ pc = "storing" /\ store # NoStore /\ store.new = part
      /\ saving \in {"write", "quit", "init"} /\ crashes' = crashes /\ errors' = errors
  BY DEF IInv, Progress, GPT_write, bounds
<1>3. crashes' \in Nat /\ errors' \in Nat  BY <1>2 DEF BootInv
<1>4. CASE n < 2 * need
  <2>1. pc' = "storing" /\ store' = store  BY <1>1, <1>2, <1>4
  <2>2. ASSUME crashes' + errors' <= 0 PROVE Mixed(disk', store.before, store.new)
    <3>1. Mixed(disk, store.before, store.new)  BY <1>2, <2>2 DEF BootInv
    <3>2. ASSUME NEW i \in Slots PROVE EntryAt(disk', i) = EntryAt(disk, i) \/ EntryAt(disk', i) = part[i]
      <4>1. PICK k, j : k = i \div PerSector /\ j = i % PerSector  OBVIOUS
      <4>2. k \in 0 .. SectorsNeeded - 1 /\ j \in 0 .. PerSector - 1 /\ k * PerSector + j = i
        BY <4>1, SectorOf
      <4>3. 2 + k \in 1 .. need /\ Place(2 + k) = 2 + k /\ What(part, 2 + k) = EntrySector(part, k)
            /\ 2 + k \in Lbas
        BY <1>1, <4>2, Copies
      <4>4. \A m \in 1 .. need : m \in 1 .. 2 * need  BY SMTT(30), SectorsType
      <4>5. disk'[2 + k] = disk[2 + k] \/ disk'[2 + k] = EntrySector(part, k)
        <5>1. CASE n = 2 + k  BY <1>1, <4>3, <5>1
        <5>2. CASE n # 2 + k
          <6>1. Place(2 + k) # Place(n)  BY <1>1, <4>3, <4>4, <5>2, PlaceOnce
          <6>. QED  BY <1>1, <4>3, <6>1
        <5>. QED  BY <5>1, <5>2
      <4>6. k \in Nat  BY SMTT(30), <4>2, SectorsType
      <4>7. EntrySector(part, k).kind = "entries" /\ EntrySector(part, k).e[j] = part[i]
        <5>1. /\ EntrySector(part, k).kind = "entries"
              /\ k * PerSector + j \in Slots => EntrySector(part, k).e[j] = part[k * PerSector + j]
          BY <1>1, <4>2, <4>6, EntrySectorType
        <5>. QED  BY <4>2, <5>1
      <4>. QED  BY <4>1, <4>5, <4>7 DEF EntryAt
    <3>. QED  BY <1>2, <3>1, <3>2 DEF Mixed
  <2>. QED  BY <1>3, <2>1, <2>2 DEF BootInv
<1>5. CASE ~(n < 2 * need)
  <2>1. n \in Nat /\ n >= need  BY SMTT(30), <1>5, SectorsType
  <2>2. PICK d : d = disk'  OBVIOUS
  <2>3. d[1] = Primary(part) /\ Good(d, 1, part)  BY <1>1, <2>1, <2>2, PrimaryStored
  <2>4. d[1].partitions_lba = 2
    <3>1. Primary(part).partitions_lba = 2  BY <1>1, HeadersAre
    <3>. QED  BY <2>3, <3>1
  <2>5. LoadTable(d) = part /\ \A a : Mixed(d, part, part) /\ Mixed(d, a, part)
    BY <1>1, <2>3, <2>4, GoodMixed
  <2>6. store'.new = part
    <3>1. store \in [backed : BOOLEAN, before : Table \cup {NoTable}, new : Table, done : BOOLEAN]
      BY <1>2 DEF IInv, TypesOK
    <3>2. store' = [store EXCEPT !.done = TRUE]  BY <1>1, <1>5
    <3>3. store'.new = store.new  BY SMTT(30), <3>1, <3>2
    <3>. QED  BY <1>2, <3>3
  <2>7. Mixed(disk', LoadTable(disk'), LoadTable(disk')) /\ Mixed(disk', store'.before, store'.new)
    BY <2>2, <2>5, <2>6
  <2>. QED  BY <1>3, <2>7 DEF BootInv
<1>. QED  BY <1>4, <1>5


\* Every step keeps it.
LEMMA NextBoot == IInv /\ BootInv /\ [Next]_vars => BootInv'
<1>. SUFFICES ASSUME IInv, BootInv, [Next]_vars PROVE BootInv'  OBVIOUS
<1>1. /\ "exit" # "storing" /\ "off" # "storing" /\ "quit" # "storing" /\ "prompt" # "storing"
  BY SMTT(30)
<1>2. CASE USER_modify \/ Xexit \/ Xquit
  <2>1. disk' = disk /\ store' = store /\ crashes' = crashes /\ errors' = errors
    BY <1>2 DEF USER_modify, Xexit, Xquit, bounds
  <2>2. pc # "storing" /\ pc' # "storing"
    BY <1>1, <1>2 DEF USER_modify, Xexit, Xquit, Running
  <2>. QED  BY <2>1, <2>2, QuietBoot
<1>3. CASE Xreinit \/ Xswap \/ Xflags \/ \E pn \in Slots, pid \in Pids : Xsetpid(pn, pid) \/ Xedit(pn, pid)
  <2>1. Command  BY <1>3 DEF Xreinit, Xswap, Xflags, Xsetpid, Xedit
  <2>2. disk' = disk /\ store' = store /\ crashes' = crashes /\ errors' = errors /\ pc' = pc
    BY <2>1 DEF Command
  <2>. QED  BY <2>2, QuietBoot
<1>4. CASE Crash
  <2>1. disk' = disk /\ store' = store /\ pc' = "off" /\ crashes' = crashes + 1 /\ errors' = errors
    BY <1>4 DEF Crash
  <2>. QED  BY <1>1, <2>1, DamageBoot
<1>5. CASE GPT_write_error
  <2>1. /\ disk' = disk /\ store' = store /\ pc' \in {"exit", "prompt"} /\ crashes' = crashes
        /\ errors' = errors + 1
    BY <1>5 DEF GPT_write_error
  <2>. QED  BY <1>1, <2>1, DamageBoot
<1>6. ASSUME NEW h, NEW t PROVE ~StoreRefused(h, t) => Fits
  <2>1. ~(Size < need + need + 1) => Fits  BY SMTT(30), Constants, SectorsType DEF Fits
  <2>. QED  BY <2>1 DEF StoreRefused
<1>7. CASE USER_init
  <2>1. /\ disk' = disk /\ crashes' = crashes /\ errors' = errors /\ pc # "storing"
        /\ \/ pc' = "exit" /\ store' = store
           \/ ~StoreRefused(InitHeader, InitTable) /\ StartStore(InitTable, "init")
    BY <1>7 DEF USER_init, Running
  <2>2. CASE pc' = "exit" /\ store' = store  BY <1>1, <2>1, <2>2, QuietBoot
  <2>3. CASE ~StoreRefused(InitHeader, InitTable) /\ StartStore(InitTable, "init")
    BY <1>6, <2>1, <2>3, StartBoot
  <2>. QED  BY <2>1, <2>2, <2>3
<1>8. ASSUME NEW how \in {"write", "quit"}, Xwrite(how) PROVE BootInv'
  <2>1. /\ disk' = disk /\ crashes' = crashes /\ errors' = errors /\ pc = "prompt"
        /\ \/ pc' = pc /\ store' = store
           \/ ~StoreRefused(header, part) /\ StartStore(part, how)
    BY <1>8 DEF Xwrite, bounds
  <2>2. CASE pc' = pc /\ store' = store  BY <2>1, <2>2, QuietBoot
  <2>3. CASE ~StoreRefused(header, part) /\ StartStore(part, how)
    BY <1>1, <1>6, <2>1, <2>3, StartBoot
  <2>. QED  BY <2>1, <2>2, <2>3
<1>9. CASE GPT_write  BY <1>9, WriteBoot
<1>10. CASE UNCHANGED vars
  <2>1. disk' = disk /\ store' = store /\ crashes' = crashes /\ errors' = errors /\ pc' = pc
    BY <1>10 DEF vars, bounds
  <2>. QED  BY <2>1, QuietBoot
<1>. QED  BY <1>2, <1>3, <1>4, <1>5, <1>7, <1>8, <1>9, <1>10 DEF Next

\* The first entry of a type, if there is one, is one of that type.
LEMMA FirstOfIs ==
  ASSUME NEW s, NEW types, NEW D, D = DOMAIN s, D \subseteq Nat
  PROVE  FirstOf(s, types) = None
         \/ \E n \in D : s[n].type \in types /\ FirstOf(s, types) = s[n].start
<1>1. PICK found : found = {n \in D : s[n].type \in types}  OBVIOUS
<1>2. PICK c : c = CHOOSE n \in found : \A m \in found : n <= m  OBVIOUS
<1>3. found # {} => c \in found
  <2>1. found \subseteq Nat  BY <1>1
  <2>. QED  BY <1>2, <2>1, Least
<1>4. FirstOf(s, types) = IF found = {} THEN None ELSE s[c].start
  <2>. DEFINE f == {n \in DOMAIN s : s[n].type \in types}
  <2>1. FirstOf(s, types) =
          IF f = {} THEN None ELSE s[CHOOSE n \in f : \A m \in f : n <= m].start
    BY DEF FirstOf
  <2>2. f = found  BY <1>1
  <2>. HIDE DEF f
  <2>. QED  BY <1>2, <2>1, <2>2
<1>5. CASE found = {}  BY <1>4, <1>5
<1>6. CASE found # {}  BY <1>1, <1>3, <1>4, <1>6
<1>. QED  BY <1>5, <1>6

\* efiboot finds nothing, or a partition of one of the two tables.
LEMMA FindsOldOrNew == ASSUME IInv, BootInv PROVE BootsOldOrNew
<1>1. SUFFICES ASSUME Mixed(disk, store.before, store.new)
               PROVE  findopenbsd_gpt(disk) \in {None} \cup Starts(store.before) \cup Starts(store.new)
  BY DEF BootsOldOrNew, BootInv
<1>2. CASE BadHeader(disk[1])  BY <1>2 DEF findopenbsd_gpt
<1>3. CASE ~BadHeader(disk[1])
  <2>1. Fits /\ disk[1].partitions_lba = 2 /\ DiskOK  BY <1>3 DEF BadHeader, IInv, DiskOK
  <2>2. PICK s : s = Entries(disk, 2, SectorsNeeded)  OBVIOUS
  <2>3. findopenbsd_gpt(disk) = FirstOf(s, {"OPENBSD"})  BY <1>3, <2>1, <2>2 DEF findopenbsd_gpt
  <2>4. PICK D : D = 1 .. SectorsNeeded * PerSector  OBVIOUS
  <2>5. /\ D = DOMAIN s
        /\ \A n \in 1 .. N : s[n] = EntryAt(disk, n - 1)
        /\ \A n \in D : n \notin 1 .. N => s[n] = Zero
    BY <2>1, <2>2, <2>4, EntriesRead
  <2>6. D \subseteq Nat
    <3>1. PICK top : top = SectorsNeeded * PerSector  OBVIOUS
    <3>2. \A n \in 1 .. top : n \in Nat  BY SMTT(30)
    <3>. QED  BY <2>4, <3>1, <3>2
  <2>7. CASE FirstOf(s, {"OPENBSD"}) = None  BY <2>3, <2>7
  <2>8. ASSUME NEW n \in D, s[n].type \in {"OPENBSD"}, FirstOf(s, {"OPENBSD"}) = s[n].start
        PROVE  findopenbsd_gpt(disk) \in Starts(store.before) \cup Starts(store.new)
    <3>1. Zero.type \notin {"OPENBSD"}  BY SMTT(30) DEF Zero
    <3>2. n \in 1 .. N  BY <2>5, <2>8, <3>1
    <3>3. PICK i \in Slots : i = n - 1  BY SMTT(30), <3>2, Constants DEF Slots
    <3>4. s[n] \in {Zero, store.before[i], store.new[i]}  BY <1>1, <2>5, <3>2, <3>3 DEF Mixed
    <3>5. CASE s[n] = store.before[i]  BY <2>3, <2>8, <3>5 DEF Starts
    <3>6. CASE s[n] = store.new[i]  BY <2>3, <2>8, <3>6 DEF Starts
    <3>. QED  BY <2>8, <3>1, <3>4, <3>5, <3>6
  <2>9. FirstOf(s, {"OPENBSD"}) = None
        \/ \E n \in D : s[n].type \in {"OPENBSD"} /\ FirstOf(s, {"OPENBSD"}) = s[n].start
    BY <2>5, <2>6, FirstOfIs
  <2>. QED  BY <2>7, <2>8, <2>9
<1>. QED  BY <1>2, <1>3

\* A crash or write error in the middle of a store of a machine that has seen
\* no other leaves efiboot with a partition of the old or the new table, or with
\* none, on a disk of any size.
THEOREM BootsOldOrNewHolds == Spec => []BootsOldOrNew
<1>1. Spec => []BootInv
  <2>1. Init => BootInv  BY InitBoot
  <2>2. IInv /\ BootInv /\ [Next]_vars => BootInv'  BY NextBoot
  <2>. QED  BY <2>1, <2>2, Invariance, PTL DEF Spec
<1>2. IInv /\ BootInv => BootsOldOrNew  BY FindsOldOrNew
<1>. QED  BY <1>1, <1>2, Invariance, PTL
=============================================================================
