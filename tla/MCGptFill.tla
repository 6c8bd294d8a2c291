----------------------------- MODULE MCGptFill -----------------------------
(***************************************************************************)
(* GptFill on three entries in eight blocks; used entries may overlap, and *)
(* one may be what edit makes of offset 0 and size 0.                      *)
(***************************************************************************)
EXTENDS GptFill

MCRanges ==
  {Zero, [type |-> "FAT", start |-> 0, end |-> Wrap - 1, boot |-> FALSE]} \cup
  {[type |-> "FAT", start |-> s, end |-> e, boot |-> FALSE] :
     <<s, e>> \in {x \in (3 .. 10) \X (3 .. 10) : x[1] <= x[2]}}

MCTables == [Slots -> MCRanges]
=============================================================================
