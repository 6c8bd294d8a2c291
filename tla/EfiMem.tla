------------------------------- MODULE EfiMem -------------------------------
(***************************************************************************)
(* The memory map of efiboot: read from the firmware (efi_memprobe()),     *)
(* edited with "machine memory" (libsa/cmd_i386.c, memprobe.c), passed to  *)
(* the kernel and read again (run_loadfile(), efi_cleanup()).              *)
(*                                                                         *)
(* Addresses count pages; what a user types is a number of pages too, and  *)
(* may be negative.  The firmware's map does not change, its ranges are    *)
(* disjoint and in any order, and its calls succeed.  The 64 entries of    *)
(* bios_memmap suffice, and what bcopy() does behind them is left out.     *)
(***************************************************************************)
EXTENDS Integers, SequencesExt

CONSTANTS Pages,       \* the machine has the pages 0 .. Pages - 1
          EfiTypes,    \* memory types of the firmware
          MaxRanges,   \* bound: ranges in the firmware's map
          IOM_BEGIN,   \* the page at 640K
          IOM_END,     \* the page at 1M
          LLONG_MAX,
          Numbers,     \* what strtoll() and the suffix make of a number, but 0
          MaxEdits     \* bound: arguments of "machine memory"

PAGE_SIZE == 1

\* Numbers are so far from LLONG_MAX that no signed sum or difference overflows.
ASSUME MemAssumption ==
  /\ {Pages, MaxRanges, IOM_BEGIN, MaxEdits, LLONG_MAX} \subseteq Nat
  /\ IOM_END \in IOM_BEGIN + 1 .. Pages - 1
  /\ 4 * Pages <= LLONG_MAX
  /\ \A n \in Numbers : n \in Int \ {0} /\ 4 * n <= LLONG_MAX /\ -LLONG_MAX <= 4 * n

VARIABLES
  firmware,      \* what GetMemoryMap() returns
  bios_memmap,
  cnvmem, extmem,
  pc,            \* "memprobe", "shell", "memory" (in Xmemory()), "cleanup" or "kernel"
  i,             \* descriptors read by efi_memprobe_internal()
  passed,        \* the copy that BOOTARG_MEMMAP holds
  given, taken,  \* ghosts: pages the user asked to add, to remove
  plain,         \* ghost: no number was negative
  shown,         \* ghost: the free pages of the map when all of it was read or shown last
  unshown,       \* ghost: a command was given up since, after an edit
  edits          \* bound used up

ghosts == <<given, taken, plain, shown, unshown>>
vars == <<firmware, bios_memmap, cnvmem, extmem, pc, i, passed, ghosts, edits>>

-----------------------------------------------------------------------------
(* Maps. *)

Area(type, addr, size) == [type |-> type, addr |-> addr, size |-> size]
end(bm) == bm.addr + bm.size

\* A number as an u_int64_t, and an u_int64_t as an int64_t.
u64(n) == n % (2 * LLONG_MAX + 2)
int64(n) == IF n <= LLONG_MAX THEN n ELSE n - (2 * LLONG_MAX + 2)

\* The ends of an entry as the functions of the "memory" command read them.
sp(bm) == int64(bm.addr)
ep(bm) == int64(u64(bm.addr + bm.size))

\* The entry that they write for a range.
Span(sa, ea) == Area("FREE", u64(sa), u64(ea - sa))

PagesOf(bm) == bm.addr .. end(bm) - 1

\* The pages that map m gives type t.
Cover(m, t) == UNION {PagesOf(m[n]) : n \in {k \in DOMAIN m : m[k].type = t}}

Disjoint(m) == \A j, k \in DOMAIN m : j # k => PagesOf(m[j]) \cap PagesOf(m[k]) = {}

Ranges(types) ==
  {bm \in [type : types, addr : 0 .. Pages, size : 1 .. Pages] : end(bm) <= Pages}

FirmwareMaps ==
  {m \in UNION {[1 .. n -> Ranges(EfiTypes)] : n \in 1 .. MaxRanges} : Disjoint(m)}

BiosType(t) ==
  CASE t \in {"EfiLoaderCode", "EfiLoaderData", "EfiBootServicesCode", "EfiBootServicesData",
              "EfiConventionalMemory"} -> "FREE"
    [] t = "EfiACPIReclaimMemory" -> "ACPI"
    [] t = "EfiACPIMemoryNVS" -> "NVS"
    [] OTHER -> "RES"

Read == [k \in 1 .. i |-> [firmware[k] EXCEPT !.type = BiosType(@)]]

Init ==
  /\ firmware \in FirmwareMaps
  /\ bios_memmap = <<>> /\ cnvmem = 0 /\ extmem = 0
  /\ pc = "memprobe" /\ i = 0
  /\ passed = <<>>
  /\ given = {} /\ taken = {} /\ plain = TRUE
  /\ shown = {} /\ unshown = FALSE
  /\ edits = 0

-----------------------------------------------------------------------------
(* efi_memprobe_internal(). *)

Follows(bm, b) == bm.type = b.type /\ bm.addr <= b.addr /\ b.addr <= end(bm)
Precedes(bm, b) == bm.type = b.type /\ b.addr <= bm.addr /\ bm.addr <= end(b)

\* Mutant: an entry that the range precedes keeps its size.
Merge_KeepsSize(m, b) ==
  LET p == SelectInSeq(m, LAMBDA bm : Follows(bm, b) \/ Precedes(bm, b)) IN
  IF p = 0 THEN Append(m, b)
  ELSE IF Follows(m[p], b) THEN [m EXCEPT ![p].size = end(b) - m[p].addr]
  ELSE [m EXCEPT ![p].addr = b.addr]

\* One more range: joined to the first entry it touches, or at the end.
Merge(m, b) ==
  LET p == SelectInSeq(m, LAMBDA bm : Follows(bm, b) \/ Precedes(bm, b)) IN
  IF p = 0 THEN Append(m, b)
  ELSE IF Follows(m[p], b) THEN [m EXCEPT ![p].size = end(b) - m[p].addr]
  ELSE [m EXCEPT ![p].addr = b.addr, ![p].size = end(m[p]) - b.addr]

\* cnvmem after k entries, and after the last.
Conventional(m) ==
  LET c[k \in 0 .. Len(m)] ==
        IF k = 0 THEN 0
        ELSE IF m[k].addr < IOM_BEGIN /\ end(m[k]) > c[k - 1] THEN end(m[k]) ELSE c[k - 1]
  IN c[Len(m)]

\* Mutant: it is not asked where the entry begins.
Extended_Anywhere(m) ==
  LET e[k \in 0 .. Len(m)] ==
        IF k = 0 THEN 0 ELSE IF m[k].addr >= IOM_END THEN e[k - 1] + m[k].size ELSE e[k - 1]
  IN e[Len(m)]

\* extmem, in the order of the table and whatever the type.
Extended(m) ==
  LET e[k \in 0 .. Len(m)] ==
        IF k = 0 THEN 0
        ELSE IF m[k].addr = e[k - 1] + IOM_END THEN e[k - 1] + m[k].size ELSE e[k - 1]
  IN e[Len(m)]

efi_memprobe_internal ==
  /\ pc \in {"memprobe", "cleanup"} /\ i < Len(firmware)
  /\ i' = i + 1
  /\ bios_memmap' =
       Merge(bios_memmap, [firmware[i'] EXCEPT !.type = BiosType(@)])
  /\ UNCHANGED <<firmware, cnvmem, extmem, pc, passed, ghosts, edits>>

\* Its last loop.
Totals ==
  /\ i = Len(firmware)
  /\ cnvmem' = Conventional(bios_memmap) /\ extmem' = Extended(bios_memmap)

efi_memprobe ==
  /\ pc = "memprobe" /\ Totals
  /\ pc' = "shell"
  /\ shown' = Cover(bios_memmap, "FREE")
  /\ UNCHANGED <<firmware, bios_memmap, i, passed, given, taken, plain, unshown, edits>>

\* The boot services are left and the kernel is entered.
efi_cleanup ==
  /\ pc = "cleanup" /\ Totals
  /\ pc' = "kernel"
  /\ UNCHANGED <<firmware, bios_memmap, i, passed, ghosts, edits>>

-----------------------------------------------------------------------------
(* machine memory. *)

\* A round of mem_limit(): the next is about p + 1, also when another entry
\* has moved to p.
LimitRound(m, p, ml) ==
  IF p > Len(m) \/ m[p].type # "FREE" \/ ep(m[p]) < ml THEN m
  ELSE IF sp(m[p]) >= ml THEN RemoveAt(m, p)
  ELSE [m EXCEPT ![p].size = u64(@ - (ep(m[p]) - ml))]

mem_limit(m, ml) ==
  LET map[k \in 0 .. Len(m)] == IF k = 0 THEN m ELSE LimitRound(map[k - 1], k, ml)
  IN map[Len(m)]

\* mem_delete(): what the first entry it is about becomes.
Eaten(bm, sa, ea) == sa - sp(bm) <= PAGE_SIZE /\ ep(bm) - ea <= PAGE_SIZE
EatsHead(bm, sa, ea) == sa <= sp(bm) /\ sp(bm) < ea
EatsLegs_Inside(bm, sa, ea) == sa < ep(bm)  \* Mutant: the range may end inside the entry.
EatsLegs(bm, sa, ea) == sa < ep(bm) /\ ep(bm) <= ea
InHalf(bm, sa, ea) == sp(bm) < sa /\ ea < ep(bm)

\* Mutant: an entry is bitten in half although it ends before the range.
mem_delete_Bites(m, sa, ea) ==
  LET p == SelectInSeq(m, LAMBDA bm : /\ bm.type = "FREE"
                                      /\ \/ Eaten(bm, sa, ea) \/ EatsHead(bm, sa, ea)
                                         \/ EatsLegs(bm, sa, ea) \/ sp(bm) < sa)
  IN IF p = 0 THEN m
     ELSE IF Eaten(m[p], sa, ea) THEN RemoveAt(m, p)
     ELSE IF EatsHead(m[p], sa, ea) THEN [m EXCEPT ![p] = Span(ea, ep(@))]
     ELSE IF EatsLegs(m[p], sa, ea) THEN [m EXCEPT ![p].size = u64(sa - sp(m[p]))]
     ELSE [InsertAt(m, p + 1, Span(ea, ep(m[p]))) EXCEPT ![p].size = u64(sa - sp(m[p]))]

mem_delete(m, sa, ea) ==
  LET p == SelectInSeq(m, LAMBDA bm : /\ bm.type = "FREE"
                                      /\ \/ Eaten(bm, sa, ea) \/ EatsHead(bm, sa, ea)
                                         \/ EatsLegs(bm, sa, ea) \/ InHalf(bm, sa, ea))
  IN IF p = 0 THEN m
     ELSE IF Eaten(m[p], sa, ea) THEN RemoveAt(m, p)
     ELSE IF EatsHead(m[p], sa, ea) THEN [m EXCEPT ![p] = Span(ea, ep(@))]
     ELSE IF EatsLegs(m[p], sa, ea) THEN [m EXCEPT ![p].size = u64(sa - sp(m[p]))]
     ELSE [InsertAt(m, p + 1, Span(ea, ep(m[p]))) EXCEPT ![p].size = u64(sa - sp(m[p]))]

Holds(bm, sa, ea) == sp(bm) <= sa /\ ea <= ep(bm)
JoinsHead(bm, sa, ea) == sa < sp(bm) /\ sp(bm) <= ea
JoinsLegs(bm, sa, ea) == sa <= ep(bm) /\ ep(bm) < ea

\* Mutant: a range is joined to an entry above it that it does not reach.
mem_add_JoinsFar(m, sa, ea) ==
  LET p == SelectInSeq(m, LAMBDA bm : bm.type = "FREE" /\ (Holds(bm, sa, ea) \/ sa < sp(bm)))
  IN IF p = 0 THEN Append(m, Span(sa, ea))
     ELSE IF Holds(m[p], sa, ea) THEN m
     ELSE [m EXCEPT ![p] = Span(sa, ep(@))]

mem_add(m, sa, ea) ==
  LET p == SelectInSeq(m, LAMBDA bm : /\ bm.type = "FREE"
                                      /\ \/ Holds(bm, sa, ea) \/ JoinsHead(bm, sa, ea)
                                         \/ JoinsLegs(bm, sa, ea) \/ ea < sp(bm))
  IN IF p = 0 THEN Append(m, Span(sa, ea))
     ELSE IF Holds(m[p], sa, ea) THEN m
     ELSE IF JoinsHead(m[p], sa, ea) THEN [m EXCEPT ![p] = Span(sa, ep(@))]
     ELSE IF JoinsLegs(m[p], sa, ea) THEN [m EXCEPT ![p].size = u64(ea - sp(m[p]))]
     ELSE InsertAt(m, p, Span(sa, ea))

\* The next argument of the command: =size, -size@addr or +size@addr.
Xmemory ==
  /\ pc \in {"shell", "memory"} /\ edits < MaxEdits
  /\ pc' = "memory"
  /\ edits' = edits + 1
  /\ \E size \in Numbers :
       \/ /\ bios_memmap' = mem_limit(bios_memmap, size)
          /\ taken' = taken \cup size .. LLONG_MAX
          /\ plain' = (plain /\ size > 0)
          /\ UNCHANGED given
       \/ \E addr \in Numbers :
            /\ plain' = (plain /\ size > 0 /\ addr > 0)
            /\ \/ /\ bios_memmap' = mem_delete(bios_memmap, addr, addr + size)
                  /\ taken' = taken \cup addr - PAGE_SIZE .. addr + size + PAGE_SIZE - 1
                  /\ UNCHANGED given
               \/ /\ bios_memmap' = mem_add(bios_memmap, addr, addr + size)
                  /\ given' = given \cup addr .. addr + size - 1
                  /\ UNCHANGED taken
  /\ UNCHANGED <<firmware, cnvmem, extmem, i, passed, shown, unshown>>

\* An argument without a number or an operation: "bad language" or "bad OP".
\* What the ones before it did stays, and is not shown.
Xmemory_bad ==
  /\ pc \in {"shell", "memory"}
  /\ pc' = "shell"
  /\ unshown' = (unshown \/ pc = "memory")
  /\ UNCHANGED <<firmware, bios_memmap, cnvmem, extmem, i, passed, given, taken, plain, shown,
                 edits>>

\* There are no more arguments: dump_biosmem().
Xmemory_done ==
  /\ pc \in {"shell", "memory"}
  /\ pc' = "shell"
  /\ shown' = Cover(bios_memmap, "FREE")
  /\ unshown' = FALSE
  /\ UNCHANGED <<firmware, bios_memmap, cnvmem, extmem, i, passed, given, taken, plain, edits>>

\* Mutant: the map is passed after it was read again.
run_loadfile_Late ==
  /\ pc = "shell"
  /\ passed' = [k \in DOMAIN firmware |-> [firmware[k] EXCEPT !.type = BiosType(@)]]
  /\ bios_memmap' = <<>> /\ cnvmem' = 0 /\ extmem' = 0 /\ i' = 0
  /\ pc' = "cleanup"
  /\ UNCHANGED <<firmware, ghosts, edits>>

\* mem_pass() copies the map, then efi_cleanup() reads it again.
run_loadfile ==
  /\ pc = "shell"
  /\ passed' = bios_memmap
  /\ bios_memmap' = <<>> /\ cnvmem' = 0 /\ extmem' = 0 /\ i' = 0
  /\ pc' = "cleanup"
  /\ UNCHANGED <<firmware, ghosts, edits>>

Next ==
  \/ efi_memprobe_internal \/ efi_memprobe \/ efi_cleanup
  \/ Xmemory \/ Xmemory_bad \/ Xmemory_done
  \/ run_loadfile

Spec == Init /\ [][Next]_vars

-----------------------------------------------------------------------------
(* Properties. *)

BiosTypes == {"FREE", "RES", "ACPI", "NVS"}

\* No entry that is read becomes empty or wraps around, nor one that is edited
\* with positive numbers: an unsigned size below 0 would be nearly all of memory.
TypeOK ==
  /\ pc \in {"memprobe", "shell", "memory", "cleanup", "kernel"} /\ i \in 0 .. Len(firmware)
  /\ cnvmem \in 0 .. Pages /\ extmem \in 0 .. Pages - IOM_END
  /\ \A m \in {bios_memmap, passed} :
       plain \/ (m = bios_memmap /\ pc \notin {"shell", "memory"}) =>
         \A k \in DOMAIN m :
           /\ m[k].type \in BiosTypes /\ m[k].addr \in Nat /\ m[k].size \in Nat \ {0}
           /\ end(m[k]) <= LLONG_MAX

\* efi_memprobe_internal(): however the ranges lie and in whatever order they
\* come, the table gives every page the type the firmware gave it, once.
ProbeIsExact ==
  pc \in {"memprobe", "cleanup"} =>
    /\ \A t \in BiosTypes : Cover(bios_memmap, t) = Cover(Read, t)
    /\ Disjoint(bios_memmap)

FirmwareFree == Cover([k \in DOMAIN firmware |-> [firmware[k] EXCEPT !.type = BiosType(@)]], "FREE")
Table == IF pc \in {"shell", "memory"} THEN bios_memmap ELSE passed

\* mem_limit(), mem_delete(), mem_add(): no sequence of them, in commands that
\* are carried out or given up, makes a page free that neither the firmware nor
\* the user said is memory, as long as every number typed was positive.
\* Xmemory() refuses only 0, and a negative size ends as a huge unsigned one.
NoInventedMemory ==
  pc # "memprobe" /\ plain => Cover(Table, "FREE") \subseteq FirmwareFree \cup given

\* And none loses a free page that the user did not ask to remove, up to the
\* page on either side of a deleted range that mem_delete() may take with it.
NoLostMemory == pc # "memprobe" /\ plain => FirmwareFree \ taken \subseteq Cover(Table, "FREE")

\* The map in the boot arguments is the one "machine memory" showed last (the
\* firmware's if it never ran), although efi_cleanup() reads the firmware's map
\* again before the kernel runs.  The exception is a command that was given up
\* at a bad argument: Xmemory() returns without dump_biosmem(), and the edits
\* before that argument reach the kernel unseen.
KernelGetsWhatWasShown == pc = "kernel" /\ ~unshown => Cover(passed, "FREE") = shown

\* efi_memprobe_internal(): extmem grows only by an entry that begins where it
\* ends, so the kernel is told of no page above 1M that is in no range of the
\* firmware.  The ranges may be of any type: unlike the BIOS's memprobe.c the
\* loop does not ask for free ones.
ExtmemStopsAtGap ==
  pc = "kernel" =>
    IOM_END .. IOM_END + extmem - 1 \subseteq UNION {PagesOf(firmware[k]) : k \in DOMAIN firmware}
=============================================================================
