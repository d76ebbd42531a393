------------------------------ MODULE MCSpace ------------------------------
(* AddressSpace for TLC, with a program whose two segments are far enough  *)
(* apart to need two page tables, below the same level 0 directory.        *)
EXTENDS AddressSpace

Wide == { << [start |-> 0, end |-> 1], [start |-> PTSIZE, end |-> PTSIZE + 1] >> }

=============================================================================
