----------------------------- MODULE ConstProp -----------------------------
(***************************************************************************)
(* The constant-propagation pass ConstProp::Run (ConstProp.cpp) over one   *)
(* IR block: a folding walk that pools constants, folds ops whose          *)
(* arguments are constants, rewrites same-operand ops and turns            *)
(* ADD-addressed loads and stores into extended addressing; then, unless   *)
(* the block is interpreted, a walk that inlines encodable constants.      *)
(*                                                                         *)
(* Data abstraction.  A node is a record; an argument is a node index (0   *)
(* for none).  Widths are scaled: an op of Size s has s * BPB bits, so a   *)
(* register (8 bytes) has RegBits bits and a C++ int (4 bytes) IntBits.    *)
(* A memory access is observed by its address, which is what the          *)
(* addressing rewrite can get wrong.                                       *)
(***************************************************************************)
EXTENDS Integers, Sequences, SequencesExt, Bitwise, TLC

CONSTANTS
  Programs,    \* IR blocks the pass may be run on
  InputVals,   \* values a non-constant node may hold
  BPB          \* bits per scaled byte

VARIABLES
  ir,        \* the block as the pass leaves it so far
  orig,      \* the block the pass was given
  inline,    \* ConstProp::InlineConstants
  interp,    \* Header->ShouldInterpret
  pc,        \* "fold", "inline", "done"
  i,         \* the node the walk is at
  consts,    \* Consts: constant value -> first node holding it
  changed    \* Changed

vars == <<ir, orig, inline, interp, pc, i, consts, changed>>

RegBits == 8 * BPB
IntBits == 4 * BPB
Bits(s) == s * BPB
Wrap(v) == v % 2^RegBits
Signed(v, w) == IF v >= 2^(w - 1) THEN v - 2^w ELSE v

-----------------------------------------------------------------------------
(* IR semantics, as the backends execute a node: a 4- or 8-byte op leaves *)
(* its Size-byte result zero-extended; a shift count is taken modulo the  *)
(* operation's width class.                                                *)

ShiftRange(s) == IF s <= 4 THEN IntBits ELSE RegBits
IdxSlot(x) == IF x.op = "LoadMem" THEN 2 ELSE 3

RECURSIVE Val(_, _, _)
Val(g, n, env) ==
  LET x    == g[n]
      a    == Val(g, x.args[1], env)
      b    == Val(g, x.args[2], env)
      m    == 2^Bits(x.size)
      fld  == (a \div 2^x.lsb) % 2^x.width
      base == Val(g, x.args[1], env)
      ix   == Val(g, x.args[IdxSlot(x)], env)
      addr == CASE x.offType = "none" -> base
                [] x.offType = "SXTX" -> Wrap(base + ix * x.scale)
                [] x.offType = "UXTW" -> Wrap(base + (ix % 2^IntBits) * x.scale)
                [] x.offType = "SXTW" ->
                     Wrap(base + Wrap(Signed(ix % 2^IntBits, IntBits)) * x.scale)
  IN CASE x.op \in {"Constant", "InlineConstant"} -> x.c
       [] x.op = "Input" -> env[n]
       [] x.op = "Add"   -> (a + b) % m
       [] x.op = "Sub"   -> (a - b) % m
       [] x.op = "Mul"   -> (a * b) % m
       [] x.op = "And"   -> (a & b) % m
       [] x.op = "Or"    -> (a | b) % m
       [] x.op = "Xor"   -> (a ^^ b) % m
       [] x.op = "Lshl"  -> (a * 2^(b % ShiftRange(x.size))) % m
       [] x.op = "Bfe"   -> fld
       [] x.op = "Sbfe"  -> Wrap(Signed(fld, x.width)) % m
       [] x.op = "Store" -> a
       [] x.op \in {"LoadMem", "StoreMem"} -> addr

(* What the block does: the value of every context store, the address of *)
(* every load and the address and value of every store.                  *)
Roots == {n \in DOMAIN orig : orig[n].op \in {"Store", "LoadMem", "StoreMem"}}
Observe(g, n, env) ==
  IF g[n].op = "StoreMem" THEN <<Val(g, n, env), Val(g, g[n].args[2], env)>>
  ELSE <<Val(g, n, env)>>

Envs ==
  LET inputs == {n \in DOMAIN orig : orig[n].op = "Input"}
  IN {e \in [inputs -> InputVals] : \A n \in inputs : e[n] < 2^Bits(orig[n].size)}

-----------------------------------------------------------------------------
(* IREmitter operations *)

IsValueConstant(g, n) == n # 0 /\ g[n].op = "Constant"

ReplaceAllUsesWith(g, old, new) ==
  [k \in DOMAIN g |-> [g[k] EXCEPT !.args = [j \in DOMAIN @ |-> IF @[j] = old THEN new ELSE @[j]]]]

ReplaceWithConstant(g, n, c) ==
  [g EXCEPT ![n] = [@ EXCEPT !.op = "Constant", !.c = c, !.args = <<>>]]

NewNode(op, s, c) ==
  [op |-> op, size |-> s, args |-> <<>>, c |-> c, lsb |-> 0, width |-> 0,
   offType |-> "none", scale |-> 1]

(* _InlineConstant(c) in place of argument j of node n. *)
InlineArg(g, n, j, c) ==
  LET k == Len(g) + 1
  IN [Append(g, NewNode("InlineConstant", 8, c)) EXCEPT ![n].args[j] = k]

-----------------------------------------------------------------------------
(* Folding *)

getMask(s) == (2^RegBits - 1) \div 2^(RegBits - Bits(s))

(* Fault: the sum is not masked to the op's size. *)
FoldAddUnmasked(s, c1, c2) == Wrap(c1 + c2)

FoldAdd(s, c1, c2) == Wrap(c1 + c2) & getMask(s)
FoldSub(s, c1, c2) == Wrap(c1 - c2) & getMask(s)
FoldAnd(s, c1, c2) == (c1 & c2) & getMask(s)
FoldOr(s, c1, c2)  == c1 | c2
FoldXor(s, c1, c2) == c1 ^^ c2
(* Constant1 << Constant2 on uint64: the host masks the count to 63. *)
FoldLshl(s, c1, c2) == Wrap(c1 * 2^(c2 % RegBits)) & getMask(s)
FoldMul(s, c1, c2) == Wrap(c1 * c2) & getMask(s)

FoldBinary(op, s, c1, c2) ==
  CASE op = "Add"  -> FoldAdd(s, c1, c2)
    [] op = "Sub"  -> FoldSub(s, c1, c2)
    [] op = "And"  -> FoldAnd(s, c1, c2)
    [] op = "Or"   -> FoldOr(s, c1, c2)
    [] op = "Xor"  -> FoldXor(s, c1, c2)
    [] op = "Lshl" -> FoldLshl(s, c1, c2)
    [] op = "Mul"  -> FoldMul(s, c1, c2)

FoldBfe(lsb, width, c) ==
  LET SourceMask == IF width = RegBits THEN 2^RegBits - 1 ELSE 2^width - 1
  IN (c & Wrap(SourceMask * 2^lsb)) \div 2^lsb

(* `1 << Constant2` in int: a count of IntBits or more is undefined; the  *)
(* hosts' shift instructions take it modulo IntBits.                       *)
IntShl1(k) == 2^(k % IntBits)

(* MemExtendedAddressing: offset type, scale, base and index for an       *)
(* access of Op_Size bytes whose address is the ADD node ad.              *)
MemExtendedAddressing(g, opSize, ad) ==
  LET src0  == g[g[ad].args[1]]
      c2    == g[src0.args[2]].c
      scaled(t, sc) == [offType |-> t, scale |-> sc, arg0 |-> g[ad].args[2], arg1 |-> src0.args[1]]
      plain == [offType |-> "SXTX", scale |-> 1, arg0 |-> g[ad].args[1], arg1 |-> g[ad].args[2]]
  IN IF src0.size # 8 THEN plain
     ELSE IF src0.op = "Mul" /\ IsValueConstant(g, src0.args[2])
       THEN IF c2 = opSize THEN scaled("SXTX", opSize)
            ELSE IF c2 = 1 THEN scaled("SXTX", 1) ELSE plain
     ELSE IF src0.op = "Lshl" /\ IsValueConstant(g, src0.args[2])
       THEN IF IntShl1(c2) = opSize THEN scaled("SXTX", opSize)
            ELSE IF c2 = 0 THEN scaled("SXTX", 1) ELSE plain
     ELSE IF src0.op = "Bfe" /\ src0.lsb = 0 /\ src0.width = IntBits THEN scaled("UXTW", 1)
     ELSE IF src0.op = "Sbfe" /\ src0.lsb = 0 /\ src0.width = IntBits THEN scaled("SXTW", 1)
     ELSE plain

-----------------------------------------------------------------------------
(* The folding walk: one action per case of the switch. *)

Node == ir[i]
BothConstant == IsValueConstant(ir, Node.args[1]) /\ IsValueConstant(ir, Node.args[2])
MemRewrite ==
  /\ Node.op \in {"LoadMem", "StoreMem"}
  /\ ir[Node.args[1]].op = "Add" /\ ir[Node.args[1]].size = 8
  /\ ~interp
SameOperand == Node.op \in {"And", "Or", "Xor"} /\ ~BothConstant /\ Node.args[1] = Node.args[2]
ShiftByZero ==
  /\ Node.op = "Lshl" /\ ~BothConstant
  /\ IsValueConstant(ir, Node.args[2]) /\ ir[Node.args[2]].c = 0
BfeConstant == Node.op = "Bfe" /\ IsValueConstant(ir, Node.args[1])
FoldOps == {"Add", "Sub", "And", "Or", "Xor", "Lshl", "Mul"}

Walk == pc = "fold" /\ i <= Len(ir)
Next1 == i' = i + 1

(* Fault: a duplicate constant is redirected without setting Changed. *)
VisitConstantUnreported ==
  /\ Walk /\ Node.op = "Constant"
  /\ IF Node.c \in DOMAIN consts
     THEN /\ ir' = ReplaceAllUsesWith(ir, i, consts[Node.c])
          /\ UNCHANGED <<consts, changed>>
     ELSE /\ consts' = consts @@ (Node.c :> i)
          /\ UNCHANGED <<ir, changed>>
  /\ Next1 /\ UNCHANGED <<orig, inline, interp, pc>>

(* OP_CONSTANT: pool the constant, or redirect uses to the pooled node. *)
VisitConstant ==
  /\ Walk /\ Node.op = "Constant"
  /\ IF Node.c \in DOMAIN consts
     THEN /\ ir' = ReplaceAllUsesWith(ir, i, consts[Node.c])
          /\ changed' = TRUE
          /\ UNCHANGED consts
     ELSE /\ consts' = consts @@ (Node.c :> i)
          /\ UNCHANGED <<ir, changed>>
  /\ Next1 /\ UNCHANGED <<orig, inline, interp, pc>>

(* OP_LOADMEM / OP_STOREMEM over an 8-byte ADD: extended addressing. *)
VisitMem ==
  /\ Walk /\ MemRewrite
  /\ LET r == MemExtendedAddressing(ir, Node.size, Node.args[1])
     IN ir' = [ir EXCEPT ![i].offType = r.offType, ![i].scale = r.scale,
                         ![i].args[1] = r.arg0, ![i].args[IdxSlot(Node)] = r.arg1]
  /\ changed' = TRUE
  /\ Next1 /\ UNCHANGED <<orig, inline, interp, pc, consts>>

(* A binary op whose arguments are both constants becomes a constant. *)
VisitFold ==
  /\ Walk /\ Node.op \in FoldOps /\ BothConstant
  /\ ir' = ReplaceWithConstant(ir, i,
             FoldBinary(Node.op, Node.size, ir[Node.args[1]].c, ir[Node.args[2]].c))
  /\ changed' = TRUE
  /\ Next1 /\ UNCHANGED <<orig, inline, interp, pc, consts>>

(* AND/OR x, x is x; XOR x, x is a new constant 0. *)
VisitSameOperand ==
  /\ Walk /\ SameOperand
  /\ ir' = IF Node.op = "Xor"
           THEN ReplaceAllUsesWith(Append(ir, NewNode("Constant", 8, 0)), i, Len(ir) + 1)
           ELSE ReplaceAllUsesWith(ir, i, Node.args[1])
  /\ changed' = TRUE
  /\ Next1 /\ UNCHANGED <<orig, inline, interp, pc, consts>>

(* LSHL by a constant 0 is its first argument. *)
VisitShiftByZero ==
  /\ Walk /\ ShiftByZero
  /\ ir' = ReplaceAllUsesWith(ir, i, Node.args[1])
  /\ changed' = TRUE
  /\ Next1 /\ UNCHANGED <<orig, inline, interp, pc, consts>>

(* BFE of a constant is a constant. *)
VisitBfe ==
  /\ Walk /\ BfeConstant
  /\ ir' = ReplaceWithConstant(ir, i, FoldBfe(Node.lsb, Node.width, ir[Node.args[1]].c))
  /\ changed' = TRUE
  /\ Next1 /\ UNCHANGED <<orig, inline, interp, pc, consts>>

(* Every other node is left as it is. *)
VisitOther ==
  /\ Walk
  /\ Node.op # "Constant" /\ ~MemRewrite /\ ~(Node.op \in FoldOps /\ BothConstant)
  /\ ~SameOperand /\ ~ShiftByZero /\ ~BfeConstant
  /\ Next1 /\ UNCHANGED <<ir, orig, inline, interp, pc, consts, changed>>

(* The walk is over: inline constants unless interpreting or disabled. *)
FoldDone ==
  /\ pc = "fold" /\ i > Len(ir)
  /\ IF ~interp /\ inline THEN pc' = "inline" /\ i' = 1 ELSE pc' = "done" /\ i' = i
  /\ UNCHANGED <<ir, orig, inline, interp, consts, changed>>

-----------------------------------------------------------------------------
(* The inlining walk (x86-64 host heuristics). *)

IsImmAddSub(imm) == imm < 2^(IntBits - 1)
IsImmLogical(imm, width) == imm < 2^(IntBits - 1)
IsImmMemory(imm, opSize) ==
  \/ -255 <= Signed(imm, RegBits) /\ Signed(imm, RegBits) <= 256
  \/ imm % opSize = 0 /\ imm \div opSize <= 4095

InlineWalk == pc = "inline" /\ i <= Len(ir)
ArgConst(j) == IsValueConstant(ir, Node.args[j])
C(j) == ir[Node.args[j]].c

(* A constant shift count is masked to the op's width and inlined. *)
InlineShift ==
  /\ InlineWalk /\ Node.op = "Lshl" /\ ArgConst(2)
  /\ ir' = InlineArg(ir, i, 2, C(2) & (IF Node.size <= 4 THEN IntBits - 1 ELSE RegBits - 1))
  /\ changed' = TRUE
  /\ Next1 /\ UNCHANGED <<orig, inline, interp, pc, consts>>

(* The second operand of ADD/SUB, AND/OR/XOR, or the constant offset of *)
(* an SXTX load or store, is inlined when the host can encode it.       *)
Inlinable ==
  \/ Node.op \in {"Add", "Sub"} /\ ArgConst(2) /\ IsImmAddSub(C(2))
  \/ Node.op \in {"Or", "Xor", "And"} /\ ArgConst(2) /\ IsImmLogical(C(2), Bits(Node.size))
  \/ /\ Node.op \in {"LoadMem", "StoreMem"} /\ Node.offType = "SXTX"
     /\ ArgConst(IdxSlot(Node)) /\ IsImmMemory(C(IdxSlot(Node)), Node.size)

InlineOperand ==
  /\ InlineWalk /\ Inlinable
  /\ LET j == IF Node.op \in {"LoadMem", "StoreMem"} THEN IdxSlot(Node) ELSE 2
     IN ir' = InlineArg(ir, i, j, C(j))
  /\ changed' = TRUE
  /\ Next1 /\ UNCHANGED <<orig, inline, interp, pc, consts>>

InlineOther ==
  /\ InlineWalk /\ ~(Node.op = "Lshl" /\ ArgConst(2)) /\ ~Inlinable
  /\ Next1 /\ UNCHANGED <<ir, orig, inline, interp, pc, consts, changed>>

InlineDone ==
  /\ pc = "inline" /\ i > Len(ir)
  /\ pc' = "done"
  /\ UNCHANGED <<ir, orig, inline, interp, i, consts, changed>>

-----------------------------------------------------------------------------

Init ==
  /\ orig \in Programs
  /\ ir = orig
  /\ inline \in BOOLEAN
  /\ interp \in BOOLEAN
  /\ pc = "fold"
  /\ i = 1
  /\ consts = [v \in {} |-> 0]
  /\ changed = FALSE

Next ==
  \/ VisitConstant \/ VisitMem \/ VisitFold \/ VisitSameOperand
  \/ VisitShiftByZero \/ VisitBfe \/ VisitOther \/ FoldDone
  \/ InlineShift \/ InlineOperand \/ InlineOther \/ InlineDone

Spec == Init /\ [][Next]_vars

-----------------------------------------------------------------------------
(* Properties *)

(* Every rewrite the pass makes, folding, pooling, same-operand rules,  *)
(* extended addressing and inlining, keeps what the block does: for      *)
(* every input, every context store writes the same value and every     *)
(* load and store touches the same address.                              *)
SemanticsPreserved ==
  \A env \in Envs, n \in Roots : Observe(ir, n, env) = Observe(orig, n, env)

(* Run returns false only when it left the block exactly as it was, so  *)
(* the pass manager may stop iterating.                                  *)
ChangeReported == pc = "done" /\ ~changed => ir = orig
=============================================================================
