------------------------------ MODULE MCGdisk ------------------------------
(***************************************************************************)
(* Gdisk on a disk of nine sectors: three entries, two to a sector, so     *)
(* that the last sector of entries is not full, and two usable blocks.     *)
(***************************************************************************)
EXTENDS EfiGpt

E(type, start, end, boot) == [type |-> type, start |-> start, end |-> end, boot |-> boot]

\* One bootable partition, and a partition of a type gdisk does not know.
MCInitTables ==
  {[Blank EXCEPT ![0] = E("OPENBSD", 4, 4, TRUE)],
   [Blank EXCEPT ![0] = E("foreign", 5, 5, FALSE), ![2] = E("FAT", 4, 4, TRUE)]}
=============================================================================
