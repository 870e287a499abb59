----------------------------- MODULE SbrkGuard -----------------------------
(***************************************************************************)
(* DisableSBRKAllocations and ReenableSBRKAllocations (Allocator.cpp).     *)
(* FEX maps a PROT_NONE page at the page-aligned program break and then    *)
(* consumes what is left of the break's page with sbrk calls of 1024,      *)
(* 512, ..., 1 bytes, so that glibc's later sbrk calls fail and malloc     *)
(* falls back to mmap.                                                     *)
(*                                                                         *)
(* The break follows Linux's brk(): growing within the break's page       *)
(* always succeeds; growing into a new page needs the new page-aligned     *)
(* break plus one page to stay below the next mapping.  Addresses are      *)
(* bytes; PageSize and FirstIncrement are a scaled 4096 and 1024.          *)
(***************************************************************************)
EXTENDS Integers, FiniteSets, FiniteSetsExt

CONSTANTS
  PageSize,        \* FHU::FEX_PAGE_SIZE
  FirstIncrement,  \* the first IncrementAmount, 1024
  AddrTop,         \* end of the address space
  Brks,            \* program breaks the process may start main with
  OtherPages,      \* page addresses other mappings may occupy
  MaxGrow          \* largest sbrk increment glibc's malloc asks for

VARIABLES
  sbrkWorks, \* FALSE when sbrk(0) already returns (void*)-1
  brk,     \* the program break (glibc's __curbrk)
  others,  \* page addresses mapped by something else than FEX's guard
  guard,   \* the guard page FEX mapped, or NoPage
  inc,     \* IncrementAmount
  ret,     \* what DisableSBRKAllocations returned
  pc       \* "start", "consume", "returned", "trap", "reenabled"

vars == <<sbrkWorks, brk, others, guard, inc, ret, pc>>

INVALID_PTR == -1
NoPage == -1

AlignUp(a) == ((a + PageSize - 1) \div PageSize) * PageSize

(* The lowest mapping at or above address a. *)
NextVma(a) ==
  Min({p \in others \cup {guard} : p >= a} \cup {AddrTop})

(* sbrk(n) with n > 0: brk() keeps the break within its page, or needs a *)
(* page of gap between the new page-aligned break and the next mapping.   *)
SbrkSucceeds(cur, n) ==
  /\ sbrkWorks
  /\ \/ AlignUp(cur + n) = AlignUp(cur)
     \/ AlignUp(cur + n) + PageSize <= NextVma(AlignUp(cur))

(* Fault: the halving loop stops before the 1-byte step. *)
LoopContinuesAboveOne(i) == i > 1

(* Fault: the halving loop also runs with an increment of 0, for which  *)
(* sbrk never fails.                                                     *)
LoopContinuesAtZero(i) == i >= 0

(* for (; IncrementAmount != 0; IncrementAmount >>= 1) *)
LoopContinues(i) == i # 0

(* Fault: the step shifts the wrong way, IncrementAmount <<= 1. *)
ShiftIncrementLeft(i) == i * 2

ShiftIncrement(i) == i \div 2

-----------------------------------------------------------------------------

(* sbrk(0), then the guard mmap with MAP_FIXED_NOREPLACE at the aligned    *)
(* break; a failed mmap ends in FEX_TRAP_EXECUTION.                         *)
DisableSBRKAllocations ==
  /\ pc = "start"
  /\ IF ~sbrkWorks
     THEN ret' = INVALID_PTR /\ pc' = "returned" /\ UNCHANGED <<guard, inc>>
     ELSE IF AlignUp(brk) \in others
     THEN pc' = "trap" /\ UNCHANGED <<guard, inc, ret>>
     ELSE /\ guard' = AlignUp(brk)
          /\ ret' = AlignUp(brk)
          /\ inc' = FirstIncrement
          /\ pc' = "consume"
  /\ UNCHANGED <<sbrkWorks, brk, others>>

(* One turn of the consuming loops: while (sbrk(IncrementAmount) !=       *)
(* INVALID_PTR); then IncrementAmount >>= 1, until it is 0.               *)
ConsumeBreak ==
  /\ pc = "consume"
  /\ IF ~LoopContinues(inc)
     THEN pc' = "returned" /\ UNCHANGED <<brk, inc>>
     ELSE IF SbrkSucceeds(brk, inc)
     THEN brk' = brk + inc /\ UNCHANGED <<inc, pc>>
     ELSE inc' = ShiftIncrement(inc) /\ UNCHANGED <<brk, pc>>
  /\ UNCHANGED <<sbrkWorks, others, guard, ret>>

(* ReenableSBRKAllocations: munmap the guard page unless none was made. *)
ReenableSBRKAllocations ==
  /\ pc = "returned"
  /\ guard' = IF ret # INVALID_PTR THEN NoPage ELSE guard
  /\ pc' = "reenabled"
  /\ UNCHANGED <<sbrkWorks, brk, others, inc, ret>>

(* glibc's malloc extends the heap with sbrk(n); a failed call leaves   *)
(* the break as it is.                                                  *)
GlibcSbrk ==
  /\ pc \in {"returned", "reenabled"}
  /\ \E n \in 1 .. MaxGrow :
       /\ SbrkSucceeds(brk, n)
       /\ brk' = brk + n
  /\ UNCHANGED <<sbrkWorks, others, guard, inc, ret, pc>>

Init ==
  /\ sbrkWorks \in BOOLEAN
  /\ brk \in Brks
  /\ others \in SUBSET OtherPages
  /\ guard = NoPage
  /\ inc = 0
  /\ ret = INVALID_PTR
  /\ pc = "start"

Next ==
  \/ DisableSBRKAllocations
  \/ ConsumeBreak
  \/ ReenableSBRKAllocations
  \/ GlibcSbrk

(* DisableSBRKAllocations runs to completion on the thread that calls  *)
(* it; glibc and the later re-enabling are under no obligation to run.  *)
Spec == Init /\ [][Next]_vars /\ WF_vars(DisableSBRKAllocations \/ ConsumeBreak)

-----------------------------------------------------------------------------

(* The break stays in the address space, the guard is a page, and the    *)
(* increment only ever shrinks from its first value.                     *)
TypeOK ==
  /\ brk \in 0 .. AddrTop
  /\ guard \in {NoPage} \cup {p \in 0 .. AddrTop : p % PageSize = 0}
  /\ inc \in 0 .. FirstIncrement
  /\ pc \in {"start", "consume", "returned", "trap", "reenabled"}

(* Once DisableSBRKAllocations has returned a guard page, and until it   *)
(* is unmapped again, the break sits exactly at the guard and no sbrk of *)
(* any size glibc may ask for can succeed, so no heap byte is handed out *)
(* from above the break FEX found.                                        *)
SbrkDisabled ==
  pc = "returned" /\ ret # INVALID_PTR =>
    /\ guard = ret
    /\ brk = ret
    /\ \A n \in 1 .. MaxGrow : ~SbrkSucceeds(brk, n)

(* DisableSBRKAllocations returns: each inner while (sbrk(n) !=          *)
(* INVALID_PTR) loop ends because the break cannot pass the guard page,  *)
(* and the halving loop ends after its 1-byte step.                       *)
DisableSBRKReturns == <>(pc \in {"returned", "trap", "reenabled"})
=============================================================================
