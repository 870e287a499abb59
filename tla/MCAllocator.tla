---------------------------- MODULE MCAllocator ----------------------------
(* Pages 0 .. 11; the range [2, 10) is blocked; mappings start and end on  *)
(* the points below, so some straddle Begin or End, some touch, and some   *)
(* lie beyond End.                                                         *)
EXTENDS Allocator

Points == {1, 3, 5, 8, 10, 12}
Intervals == {r \in [b : Points, e : Points] : r.b < r.e}

Ordered(m) == \A n \in 1 .. Len(m) - 1 : m[n].e <= m[n + 1].b

MCLayouts ==
  {m \in {<<i>> : i \in Intervals}
          \cup {<<i, j>> : i, j \in Intervals}
          \cup {<<i, j, k>> : i, j, k \in Intervals} : Ordered(m)}
=============================================================================
