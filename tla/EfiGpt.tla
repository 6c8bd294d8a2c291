------------------------------- MODULE EfiGpt -------------------------------
(***************************************************************************)
(* What efiboot finds on the disk that gdisk leaves: findopenbsd_gpt() in  *)
(* arch/amd64/stand/efiboot/efidev.c.  It reads the primary header and its *)
(* entries, looks at no checksum and never at the backup.  Its reads       *)
(* succeed and the blocks of the disk are 512 bytes, as they are for       *)
(* gdisk; the MBR has the entry that makes findopenbsd() call it.          *)
(***************************************************************************)
EXTENDS Gdisk

None == Wrap   \* stands for (uint64_t)-1

LastBlock == Size - 1

\* The header's gh_lba_start, which GPT_init() and GPT_store() set.
gh_lba_start == UsableStart

\* The checks "not to read random place".
BadHeader(h) ==
  \/ h.kind # "header"
  \/ gh_lba_start >= LastBlock \/ h.partitions_lba >= gh_lba_start
  \/ N \div PerSector > gh_lba_start - h.partitions_lba

\* The entries in the order of the loop: all those of a sector, also the ones
\* after the last of the table.
Entries(d, plba, sectors) ==
  [n \in 1 .. sectors * PerSector |->
     LET l == plba + (n - 1) \div PerSector IN
     IF d[l].kind = "entries" THEN d[l].e[(n - 1) % PerSector] ELSE Zero]

\* The start of the first entry of s that has one of the types, or None.
FirstOf(s, types) ==
  LET found == {n \in DOMAIN s : s[n].type \in types}
  IN IF found = {} THEN None ELSE s[CHOOSE n \in found : \A m \in found : n <= m].start

\* Mutants: the last, uneven sector is not read; any entry in use is taken.
findopenbsd_gpt_Even(d) ==
  IF BadHeader(d[1]) THEN None
  ELSE FirstOf(Entries(d, d[1].partitions_lba, N \div PerSector), {"OPENBSD"})
findopenbsd_gpt_Any(d) ==
  IF BadHeader(d[1]) THEN None
  ELSE FirstOf(Entries(d, d[1].partitions_lba, SectorsNeeded), Types \ {"nil"})

findopenbsd_gpt(d) ==
  IF BadHeader(d[1]) THEN None
  ELSE FirstOf(Entries(d, d[1].partitions_lba, SectorsNeeded), {"OPENBSD"})

-----------------------------------------------------------------------------
(* Properties. *)

\* The entries of a table in their order, and the starts of its OpenBSD ones.
InOrder(t) == [n \in 1 .. N |-> t[n - 1]]
Starts(t) == {t[i].start : i \in {j \in Slots : t[j].type = "OPENBSD"}}

\* While the primary copy is good, whatever sessions, crashes and errors came
\* before, efiboot boots from the first OpenBSD partition of the table that
\* gdisk loads, and finds none if it has none.
BootsWhatLoads ==
  GPT_load(disk, FALSE).kind = "header" =>
    findopenbsd_gpt(disk) = FirstOf(InOrder(LoadTable(disk)), {"OPENBSD"})

\* A single crash or write error in GPT_store() leaves a primary copy that is
\* part old and part new.  efiboot, which does not check it, may then find no
\* partition, but what it finds is an OpenBSD partition of one of the two.
BootsOldOrNew ==
  (store # NoStore /\ crashes + errors <= IF pc = "storing" THEN 0 ELSE 1) =>
    findopenbsd_gpt(disk) \in {None} \cup Starts(store.before) \cup Starts(store.new)
=============================================================================
