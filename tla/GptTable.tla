------------------------------ MODULE GptTable ------------------------------
(***************************************************************************)
(* The entries of a GUID partition table as gdisk(8) computes with them:   *)
(* sbin/gdisk/part.c, and the parts of gpt.c and misc.c that only compute. *)
(* Block numbers are unsigned and wrap at Wrap, which stands for 2^64.     *)
(* Names, GUIDs and the boot priority fields are left out of an entry.     *)
(***************************************************************************)
EXTENDS Integers, Sequences

CONSTANTS N,      \* partitions_num
          Wrap    \* block numbers wrap here

ASSUME TableAssumption == N \in Nat \ {0} /\ Wrap \in Nat \ {0}

Slots == 0 .. N - 1
Block == 0 .. Wrap - 1

\* "nil" is the nil UUID; "foreign" is a UUID that part_types[] does not have.
Types == {"nil", "OPENBSD", "FAT", "foreign"}
Entry == [type : Types, start : Block, end : Block, boot : BOOLEAN]
Zero == [type |-> "nil", start |-> 0, end |-> 0, boot |-> FALSE]

\* What ask_pid() can return: '0' to disable, ids the table has, one it has not.
Pids == {"0", "OPENBSD", "FAT", "other"}

PRT_pid_for_type(type) == IF type \in {"nil", "foreign"} THEN "0" ELSE type

PRT_set_type_by_pid(e, pid) ==
  [e EXCEPT !.type = IF pid = "0" THEN "nil" ELSE IF pid = "other" THEN @ ELSE pid]

\* Mutant: only one side is compared.
PRT_overlap_OneSided(p1, p2) == p1.end >= p2.start

PRT_overlap(p1, p2) == p1.end >= p2.start /\ p2.end >= p1.start

\* Mutant: the first block of the other entry stays in.
Shrink_OffByOne(part, p) ==
  IF ~PRT_overlap(part, p) THEN part
  ELSE IF p.start > part.start THEN [part EXCEPT !.end = p.start]
  ELSE [part EXCEPT !.start = (p.end + 1) % Wrap]

\* One round of the loop that shrinks a new partition to the free space.
Shrink(part, p) ==
  IF ~PRT_overlap(part, p) THEN part
  ELSE IF p.start > part.start THEN [part EXCEPT !.end = (p.start - 1) % Wrap]
  ELSE [part EXCEPT !.start = (p.end + 1) % Wrap]

\* i after k rounds of the loop that looks for a power of two: start_lba rounds
\* are enough, as long as i does not wrap around.
Doubled(start_lba) ==
  LET i[k \in 0 .. start_lba] ==
        IF k = 0 THEN 1 ELSE IF i[k - 1] < start_lba THEN (i[k - 1] * 2) % Wrap ELSE i[k - 1]
  IN i

\* The entry after k rounds of the loop that shrinks it.
Shrunk(part, pn, whole) ==
  LET entry[k \in 0 .. N] ==
        IF k = 0 THEN whole
        ELSE IF k - 1 = pn THEN entry[k - 1] ELSE Shrink(entry[k - 1], part[k - 1])
  IN entry

GPT_fillremaining(part, pn, start_lba, end_lba) ==
  LET whole == [part[pn] EXCEPT !.start = Doubled(start_lba)[start_lba], !.end = end_lba]
  IN [part EXCEPT ![pn] = Shrunk(part, pn, whole)[N]]

\* getuint(): any answer from 0 to maxval, the default clipped to maxval.
getuint(answers, oval, maxval) ==
  {IF oval > maxval THEN maxval ELSE oval, maxval} \cup {a \in answers : a <= maxval}
=============================================================================
