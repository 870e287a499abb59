------------------------ MODULE MCRegisterAllocationData ------------------------
(* Two heap blocks, objects of 0 or 2 nodes, a SpillSlotCount that needs *)
(* two bytes, and a cache with room for two records of two nodes.        *)
EXTENDS RegisterAllocationData

CONSTANTS h1, h2

MCHandles == {h1, h2}
=============================================================================
