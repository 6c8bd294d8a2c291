------------------------------ MODULE GptFill ------------------------------
(***************************************************************************)
(* GPT_fillremaining() of sbin/gdisk/gpt.c, one round of its loops a step: *)
(* it gives a new partition the free space between FirstLba and LastLba.   *)
(* GPT_fillremaining of GptTable is what these rounds compute.             *)
(***************************************************************************)
EXTENDS GptTable

CONSTANTS FirstLba, LastLba,   \* header.start_lba, header.end_lba
          Tables         \* the entries it may be called with

\* Doubling reaches FirstLba without wrapping around.
ASSUME FillAssumption ==
  /\ FirstLba \in Block /\ LastLba \in Block /\ 2 * FirstLba <= Wrap /\ Wrap > 1
  /\ Tables \subseteq [Slots -> Entry]

VARIABLES table, slot,   \* the entries, and pn, the one to fill
          loop, count,   \* which loop, and its counter i
          newpart        \* part, the entry being filled

fillVars == <<table, slot, loop, count, newpart>>

\* Mutant: the search for a power of two starts at zero.
FillInit_FromZero ==
  /\ table \in Tables /\ slot \in Slots
  /\ loop = "align" /\ count = 0
  /\ newpart = table[slot]

FillInit ==
  /\ table \in Tables /\ slot \in Slots
  /\ loop = "align" /\ count = 1
  /\ newpart = table[slot]

\* while (i < start_lba) i *= 2, the i being count
Align ==
  /\ loop = "align" /\ count < FirstLba
  /\ count' = (count * 2) % Wrap
  /\ UNCHANGED <<table, slot, loop, newpart>>

Aligned ==
  /\ loop = "align" /\ count >= FirstLba
  /\ newpart' = [newpart EXCEPT !.start = count, !.end = LastLba]
  /\ count' = 0
  /\ loop' = "shrink"
  /\ UNCHANGED <<table, slot>>

\* Mutant: the entry is shrunk by itself too.
Round_Itself ==
  /\ loop = "shrink" /\ count < N
  /\ newpart' = Shrink(newpart, IF count = slot THEN newpart ELSE table[count])
  /\ count' = count + 1
  /\ UNCHANGED <<table, slot, loop>>

Round ==
  /\ loop = "shrink" /\ count < N
  /\ newpart' = IF count = slot THEN newpart ELSE Shrink(newpart, table[count])
  /\ count' = count + 1
  /\ UNCHANGED <<table, slot, loop>>

Return ==
  /\ loop = "shrink" /\ count = N
  /\ loop' = "done"
  /\ UNCHANGED <<table, slot, count, newpart>>

Done == loop = "done" /\ UNCHANGED fillVars

FillNext == Align \/ Aligned \/ Round \/ Return \/ Done

FillSpec == FillInit /\ [][FillNext]_fillVars

FillFairSpec == FillSpec /\ WF_fillVars(FillNext)

-----------------------------------------------------------------------------
(* Properties. *)

Blocks(e) == e.start .. e.end

FillTypeOK ==
  /\ table \in Tables /\ slot \in Slots
  /\ loop \in {"align", "shrink", "done"}
  /\ count \in IF loop = "align" THEN Block ELSE 0 .. N
  /\ newpart \in Entry

\* No other entry ends with the last block that an unsigned number can name,
\* as the one does that edit leaves for offset 0 and size 0 (cmd.c).  Behind it
\* part->start = p->end + 1 is 0.
EndsHaveSuccessor == \A j \in Slots \ {slot} : table[j].end < Wrap - 1

\* The partition it leaves shares no block with any other entry, whatever
\* their order and even where they overlap one another, if none of them ends
\* with the last number there is.
TakesOnlyFreeSpace ==
  loop = "done" /\ EndsHaveSuccessor =>
    \A j \in Slots \ {slot} : Blocks(newpart) \cap Blocks(table[j]) = {}

\* Under the same condition it stays between the first and the last usable
\* block, so that a store refuses it only if it is empty.
StaysUsable ==
  loop = "done" /\ EndsHaveSuccessor => Blocks(newpart) \subseteq FirstLba .. LastLba

\* The rounds compute what the model of the session uses in one step, wrapped
\* or not.
ComputesFill ==
  loop = "done" => newpart = GPT_fillremaining(table, slot, FirstLba, LastLba)[slot]

\* Both loops end.
Terminates == <>(loop = "done")
=============================================================================
