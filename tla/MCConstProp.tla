---------------------------- MODULE MCConstProp ----------------------------
(* Blocks of three kinds: a binary op over two leaves, a same-operand op, *)
(* a BFE of a leaf, and a load or store whose address is an ADD of a base *)
(* and an index expression.  Leaves are inputs or constants of the op's   *)
(* size, or with Mixed of the full register size.                         *)
EXTENDS ConstProp

CONSTANTS OpSizes, ConstVals, ShiftVals, AddrShifts, MulVals, LoadSizes, Mixed

N(op, s, args) == [NewNode(op, s, 0) EXCEPT !.args = args]
K(c, s) == NewNode("Constant", s, c)
In(s) == NewNode("Input", s, 0)
Store(a) == N("Store", 8, <<a>>)
Field(op, lsb, w, a) == [N(op, 8, <<a>>) EXCEPT !.lsb = lsb, !.width = w]

LeafSizes(s) == IF Mixed THEN {s, 8} ELSE {s}
Leaves(s, vals) ==
  UNION {{In(t)} \cup {K(c, t) : c \in {v \in vals : v < 2^Bits(t)}} : t \in LeafSizes(s)}

Binary ==
  UNION {{<<l1, l2, N(o, s, <<1, 2>>), Store(3)>> :
            o \in FoldOps \ {"Lshl"}, l1 \in Leaves(s, ConstVals), l2 \in Leaves(s, ConstVals)}
         \cup {<<l1, l2, N("Lshl", s, <<1, 2>>), Store(3)>> :
            l1 \in Leaves(s, ConstVals), l2 \in Leaves(s, ShiftVals)} : s \in OpSizes}

SameOp ==
  UNION {{<<l, N(o, s, <<1, 1>>), Store(2)>> :
            o \in {"And", "Or", "Xor"}, l \in Leaves(s, ConstVals)} : s \in OpSizes}

Pooled ==
  {<<K(c, s), In(s), K(c, s), N(o, s, <<2, 3>>), Store(4)>> :
     s \in OpSizes, c \in ConstVals, o \in {"Add", "Or"}}

Bfes ==
  UNION {{<<l, Field("Bfe", lsb, w, 1), Store(2)>> :
            l \in Leaves(8, ConstVals), w \in {IntBits, RegBits - lsb}} : lsb \in {0, 2}}

(* base, index, index expression, ADD, access *)
IndexExprs ==
  {N("Mul", 8, <<2, 3>>)} \X {K(c, 8) : c \in MulVals}
    \cup {N("Lshl", 8, <<2, 3>>)} \X {K(k, 8) : k \in AddrShifts}
    \cup {Field("Bfe", 0, IntBits, 2), Field("Sbfe", 0, IntBits, 2)} \X {In(8)}
Access(ls) == {N("LoadMem", ls, <<5, 0>>), N("StoreMem", ls, <<5, 1, 0>>)}

Addressed ==
  {<<In(8), ix, e[2], e[1], N("Add", as, <<4, 1>>), acc>> :
     ix \in {In(8), K(3, 8)}, e \in IndexExprs, as \in {4, 8},
     acc \in UNION {Access(ls) : ls \in LoadSizes}}

MCPrograms == Binary \cup SameOp \cup Pooled \cup Bfes \cup Addressed
=============================================================================
