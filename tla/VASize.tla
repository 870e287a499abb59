------------------------------- MODULE VASize -------------------------------
(***************************************************************************)
(* DetermineVASize (Allocator.cpp): FEX finds the host's virtual address   *)
(* width by trying, for each width in TLBSizes from the widest down, to    *)
(* map one of the 64 pages just below 2^Bits with MAP_FIXED_NOREPLACE.     *)
(* The first width for which a page is mapped at the address asked for is *)
(* cached in HostVASize and returned.                                      *)
(*                                                                         *)
(* A probe is <<bits, i>>: the page at 2^bits - i * FEX_PAGE_SIZE.  The    *)
(* host has hostBits of user address space, of which its top `reserved` *)
(* pages are not mappable (x86-64 keeps the last page below 2^47).  On a   *)
(* kernel older than 4.17 MAP_FIXED_NOREPLACE is an unknown flag: the      *)
(* address is only a hint and the page may be placed elsewhere.            *)
(***************************************************************************)
EXTENDS Integers, Sequences

CONSTANTS
  TLBSizes,      \* the widths tried, widest first
  Probes,        \* the 64 pages tried below each 2^Bits
  HostWidths,    \* address widths a host may have
  BusyWidths,    \* widths below whose top the process may already have mappings
  TopReserved,   \* most pages at the top of a host's space that are not mappable
  MaxCalls       \* calls of DetermineVASize in one process

VARIABLES
  hostBits,    \* the host's user address width
  reserved,    \* pages at the top of it that are not mappable
  noReplace,   \* the kernel honours MAP_FIXED_NOREPLACE
  occupied,    \* probe pages already mapped by the process
  leaked,      \* pages a probe mapped and left mapped
  HostVASize,  \* the cached result, 0 while unknown
  idx, i,      \* the width being tried and the page index
  result,      \* what the current call returned
  calls,       \* calls made
  pc,          \* "idle", "probe", "abort"
  caller,      \* "steal" while Steal48BitVA waits for the call, else "other"
  stolen       \* Steal48BitVA reserved [2^47, 2^48)

vars == <<hostBits, reserved, noReplace, occupied, leaked, HostVASize, idx, i, result, calls, pc, caller, stolen>>

Page(b, k) == <<b, k>>
Elsewhere == <<0, 0>>
MAP_FAILED == <<-1, -1>>

(* The page 2^b - k pages lies in the host's user address space. *)
Mappable(b, k) ==
  \/ b < hostBits
  \/ b = hostBits /\ k > reserved

(* What ::mmap returns for the probe <<b, k>>. *)
MmapResults(b, k) ==
  IF Mappable(b, k) /\ Page(b, k) \notin occupied THEN {Page(b, k)}
  ELSE IF noReplace THEN {MAP_FAILED}
  ELSE {Elsewhere}

(* Fault: the probe returns true for any successful mmap, wherever it   *)
(* placed the page.                                                      *)
FoundAnywhere(ptr, b, k) == ptr # MAP_FAILED

(* The page was placed at Size - FEX_PAGE_SIZE * i, the address asked for. *)
Found(ptr, b, k) == ptr = Page(b, k)

(* A successful mmap is always unmapped again. *)
Unmap(ptr, b, k, lk) == lk

(* Steal48BitVA: if (Bits < 48) return {}. *)
Steals(bits) == ~(bits < 48)

-----------------------------------------------------------------------------

(* DetermineVASize is called: the cached width is returned at once, or  *)
(* the probing starts at the widest size.                                *)
Call(from) ==
  /\ pc = "idle"
  /\ caller = "other"
  /\ calls < MaxCalls
  /\ calls' = calls + 1
  /\ caller' = from
  /\ IF HostVASize # 0
     THEN result' = HostVASize /\ UNCHANGED <<idx, i, pc>>
     ELSE idx' = 1 /\ i' = 0 /\ pc' = "probe" /\ UNCHANGED result
  /\ UNCHANGED <<hostBits, reserved, noReplace, occupied, leaked, HostVASize, stolen>>

(* One iteration of Find's loop: mmap the probe page, munmap what was   *)
(* mapped, and return Bits when it was placed where asked.              *)
ProbePage ==
  /\ pc = "probe"
  /\ idx <= Len(TLBSizes)
  /\ i < Probes
  /\ LET b == TLBSizes[idx] IN
     \E ptr \in MmapResults(b, i) :
       /\ leaked' = IF ptr # MAP_FAILED THEN Unmap(ptr, b, i, leaked) ELSE leaked
       /\ IF ptr # MAP_FAILED /\ Found(ptr, b, i)
          THEN /\ HostVASize' = b
               /\ result' = b
               /\ pc' = "idle"
               /\ UNCHANGED <<idx, i>>
          ELSE /\ i' = i + 1
               /\ UNCHANGED <<HostVASize, result, idx, pc>>
  /\ UNCHANGED <<hostBits, reserved, noReplace, occupied, calls, caller, stolen>>

(* Find returned false: try the next width in TLBSizes. *)
NextWidth ==
  /\ pc = "probe"
  /\ idx <= Len(TLBSizes)
  /\ i = Probes
  /\ idx' = idx + 1
  /\ i' = 0
  /\ UNCHANGED <<hostBits, reserved, noReplace, occupied, leaked, HostVASize, result, calls, pc, caller, stolen>>

(* No width worked: LOGMAN_MSG_A_FMT("Couldn't determine host VA size"). *)
NoWidth ==
  /\ pc = "probe"
  /\ idx > Len(TLBSizes)
  /\ pc' = "abort"
  /\ UNCHANGED <<hostBits, reserved, noReplace, occupied, leaked, HostVASize, idx, i, result, calls, caller, stolen>>

(* Steal48BitVA, once its DetermineVASize call has returned: nothing on *)
(* a host narrower than 48 bits, else StealMemoryRegion(2^47, 2^48).     *)
Steal48BitVA ==
  /\ pc = "idle"
  /\ caller = "steal"
  /\ stolen' = (stolen \/ Steals(result))
  /\ caller' = "other"
  /\ UNCHANGED <<hostBits, reserved, noReplace, occupied, leaked, HostVASize, idx, i, result, calls, pc>>

Init ==
  /\ hostBits \in HostWidths
  /\ reserved \in 0 .. TopReserved
  /\ noReplace \in BOOLEAN
  /\ occupied \in SUBSET {Page(b, k) : b \in BusyWidths, k \in 0 .. Probes - 1}
  /\ leaked = {}
  /\ HostVASize = 0
  /\ idx = 1
  /\ i = 0
  /\ result = 0
  /\ calls = 0
  /\ pc = "idle"
  /\ caller = "other"
  /\ stolen = FALSE

Next ==
  \/ \E from \in {"other", "steal"} : Call(from)
  \/ ProbePage \/ NextWidth \/ NoWidth
  \/ Steal48BitVA

Spec == Init /\ [][Next]_vars

-----------------------------------------------------------------------------

(* Every call returns the host's width whenever one of the pages probed *)
(* below 2^hostBits was free, and never a width wider than the host's,  *)
(* on kernels that honour MAP_FIXED_NOREPLACE and on those that do not. *)
VASizeCorrect ==
  result # 0 =>
    /\ result <= hostBits
    /\ (\E k \in 0 .. Probes - 1 : Mappable(hostBits, k) /\ Page(hostBits, k) \notin occupied)
         => result = hostBits
=============================================================================
