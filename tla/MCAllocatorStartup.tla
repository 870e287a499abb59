------------------------- MODULE MCAllocatorStartup -------------------------
(***************************************************************************)
(* The two host probes of Allocator.cpp that FEX runs while it starts a   *)
(* process: DisableSBRKAllocations (SbrkGuard) and DetermineVASize         *)
(* (VASize).  They share no state, so one model checks both: a behaviour *)
(* runs one of them, chosen in Init, from every initial state of that     *)
(* routine, while the other routine's variables keep a fixed initial      *)
(* state.  The states are the union of the two routines' state spaces,   *)
(* not their product.                                                     *)
(***************************************************************************)
EXTENDS Integers

CONSTANTS
  PageSize, FirstIncrement, AddrTop, Brks, OtherPages, MaxGrow,
  Probes, HostWidths, BusyWidths, TopReserved, MaxCalls

VARIABLES
  routine,                                          \* "sbrk" or "vasize"
  sbrkWorks, brk, others, guard, inc, ret, sbrkPc,  \* SbrkGuard's state
  hostBits, reserved, noReplace, occupied, leaked,  \* VASize's state
  HostVASize, idx, i, result, calls, vaPc, caller, stolen

sbrkVars == <<sbrkWorks, brk, others, guard, inc, ret, sbrkPc>>
vaVars == <<hostBits, reserved, noReplace, occupied, leaked, HostVASize, idx, i, result, calls, vaPc, caller, stolen>>
vars == <<routine, sbrkVars, vaVars>>

(* The TLBSizes array of Allocator.cpp. *)
MCTLBSizes == <<57, 52, 48, 47, 42, 39, 36>>

S == INSTANCE SbrkGuard WITH pc <- sbrkPc
V == INSTANCE VASize WITH TLBSizes <- MCTLBSizes, pc <- vaPc

(* A fixed initial state of each routine, for the behaviours that run    *)
(* the other one.                                                         *)
SbrkAtStart ==
  /\ sbrkWorks = TRUE /\ brk = (CHOOSE b \in Brks : TRUE) /\ others = {}
  /\ guard = S!NoPage /\ inc = 0 /\ ret = S!INVALID_PTR /\ sbrkPc = "start"

VASizeAtStart ==
  /\ hostBits = (CHOOSE w \in HostWidths : TRUE) /\ reserved = 0
  /\ noReplace = TRUE /\ occupied = {} /\ leaked = {} /\ HostVASize = 0
  /\ idx = 1 /\ i = 0 /\ result = 0 /\ calls = 0 /\ vaPc = "idle"
  /\ caller = "other" /\ stolen = FALSE

Init ==
  \/ routine = "sbrk" /\ S!Init /\ VASizeAtStart
  \/ routine = "vasize" /\ SbrkAtStart /\ V!Init

SbrkStep == routine = "sbrk" /\ S!Next /\ UNCHANGED <<routine, vaVars>>
VASizeStep == routine = "vasize" /\ V!Next /\ UNCHANGED <<routine, sbrkVars>>

Next == SbrkStep \/ VASizeStep

(* SbrkGuard's fairness: DisableSBRKAllocations runs to completion. *)
Spec ==
  /\ Init /\ [][Next]_vars
  /\ WF_vars(routine = "sbrk" /\ (S!DisableSBRKAllocations \/ S!ConsumeBreak)
               /\ UNCHANGED <<routine, vaVars>>)

-----------------------------------------------------------------------------
(* The properties of the two modules, stated there. *)
TypeOK == S!TypeOK
SbrkDisabled == S!SbrkDisabled
DisableSBRKReturns == routine = "sbrk" => S!DisableSBRKReturns
VASizeCorrect == V!VASizeCorrect
=============================================================================
