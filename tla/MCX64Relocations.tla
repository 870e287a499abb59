------------------------- MODULE MCX64Relocations -------------------------
(***************************************************************************)
(* Model-checking instance of X64Relocations: two JIT threads, two guest   *)
(* blocks whose emission covers all four relocation kinds, one thunk, two  *)
(* builds.  The blocks are 19 and 20 bytes and the buffer 38: two copies   *)
(* of block 16 fill it exactly, block 33 after block 16 would end one     *)
(* byte past it, so ClearCodeCache happens in the middle of installs and  *)
(* the capacity test is exercised at its boundary.                        *)
(*                                                                         *)
(* Addresses live in 0..63 (a scaled 2^64) with 8 as the scaled 2^32:      *)
(* 5 needs the 5-byte mov (6 for r9), 30 and 40 the 10-byte movabs, and    *)
(* NotFound = 63 (~0ULL) the 7-byte sign-extended form.                    *)
(***************************************************************************)
EXTENDS X64Relocations, TLC

CONSTANTS t1, t2, h1

MCThreads == {t1, t2}
MCThunkHashes == {h1}
MCThunkAddrs == {5, 30}
MCHostAddrs == {20, 40}
MCEntries == {16, 33}

(* Block 16 (19 bytes): an instruction, the exit-linker literal, a thunk  *)
(* call through r0; the thunk relocation comes after the literal's, so an *)
(* unresolved thunk leaves the literal already patched.  Block 33 (20     *)
(* bytes): a guest-RIP move into r9 that targets an address below the     *)
(* entry (negative delta), a guest-RIP literal, two instructions.         *)
MCProgram ==
  16 :> << [op |-> "Code"],
           [op |-> "SymLit"],
           [op |-> "ThunkMove", sym |-> h1, reg |-> 0] >>
  @@ 33 :> << [op |-> "RipMove", rip |-> 30, reg |-> 9],
              [op |-> "RipLit", rip |-> 4],
              [op |-> "Code"],
              [op |-> "Code"] >>

MCSymmetry == Permutations(MCThreads)
=============================================================================
