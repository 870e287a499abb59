------------------------------- MODULE Hangover -------------------------------
(***************************************************************************)
(* The Hangover glue (Hangover.cpp): Wine's WoW64 layer runs 32-bit guest *)
(* code by calling hangover_fex_run(WowTeb, Context) on each of its        *)
(* threads.  FEX creates the thread's InternalThreadState on the first     *)
(* call, loads the Windows I386_CONTEXT into the CPUState                  *)
(* (LoadStateFromWinContext), runs guest code until it leaves the JIT,     *)
(* and stores the CPUState back into the same context                      *)
(* (StoreWinContextFromState).  Between calls Wine handles the system      *)
(* call or exception that stopped the guest and may rewrite the context.  *)
(*                                                                         *)
(* Register contents, the XMM and MMX register files, the control and tag  *)
(* words are model values, copied as they are.  Selectors and the x87      *)
(* status word are numbers, because the conversion masks and shifts them.  *)
(* EFlags and FloatSave.TagWord go through Context helpers that are not    *)
(* in this repository and are left out.                                    *)
(***************************************************************************)
EXTENDS Integers, Bitwise

CONSTANTS
  Threads,     \* Wine threads that call hangover_fex_run
  WowTeb,      \* WowTeb[t]: the 32-bit TEB address Wine passes for thread t
  Contexts,    \* the contexts Wine may pass in
  GuestSteps,  \* the CPUState changes one stretch of guest code may make
  MaxCalls     \* calls of hangover_fex_run per thread

VARIABLES
  Thread,    \* Thread[t]: the thread_local InternalThreadState exists
  state,     \* state[t]: Thread->CurrentFrame->State
  ctx,       \* ctx[t]: the I386_CONTEXT Wine owns for thread t
  given,     \* given[t]: the context the current call was given
  changed,   \* changed[t]: guest code changed the state in this call
  calls,     \* calls[t]: calls made on thread t
  pc         \* pc[t]: "wine" or "guest"

vars == <<Thread, state, ctx, given, changed, calls, pc>>

Segs == {"es", "cs", "ss", "ds", "fs", "gs"}
Regs == {"Eax", "Ebx", "Ecx", "Edx", "Esi", "Edi", "Ebp", "Esp"}
GdtEntries == 0 .. 15

(* Context::CreateThread: a zeroed CPUState with an empty GDT. *)
NewThreadState ==
  [gregs |-> [r \in Regs |-> 0], rip |-> 0,
   idx |-> [g \in Segs |-> 0], cached |-> [g \in Segs |-> 0],
   gdt |-> [e \in GdtEntries |-> 0],
   xmm |-> 0, mm |-> 0, FCW |-> 0, AbridgedFTW |-> 0,
   C0 |-> 0, C1 |-> 0, C2 |-> 0, C3 |-> 0, TOP |-> 0]

(* The GDT entry a selector names: selector >> 3. *)
Entry(sel) == shiftR(sel, 3)

(* Fault: TOP read with a 4-bit mask, taking C3 (bit 14) along. *)
TopOfMask15(sw) == shiftR(sw, 11) & 15

(* (StatusWord >> 11) & 0b111 *)
TopOf(sw) == shiftR(sw, 11) & 7

(* LoadStateFromWinContext.  Only the TEB's GDT entry is written; the     *)
(* cached bases of es, cs, ss and ds are set to 0, that of fs to the TEB,  *)
(* and gs_cached is left as it is.                                        *)
LoadStateFromWinContext(s, teb, c) ==
  LET idx == [g \in Segs |-> c.Seg[g] & 65535]
      sw  == c.XSave.StatusWord
  IN [s EXCEPT
        !.gregs = c.R,
        !.rip = c.Eip,
        !.idx = idx,
        !.gdt = [@ EXCEPT ![Entry(idx["fs"])] = teb],
        !.cached = [g \in Segs |-> CASE g = "fs" -> teb
                                     [] g = "gs" -> s.cached["gs"]
                                     [] OTHER    -> 0],
        !.xmm = c.XSave.XmmRegisters,
        !.mm = c.XSave.FloatRegisters,
        !.FCW = c.XSave.ControlWord,
        !.C0 = shiftR(sw, 8) & 1,
        !.C1 = shiftR(sw, 9) & 1,
        !.C2 = shiftR(sw, 10) & 1,
        !.C3 = shiftR(sw, 14) & 1,
        !.TOP = TopOf(sw),
        !.AbridgedFTW = c.XSave.TagWord]

(* Fault: C3 shifted to bit 13, into TOP's top bit. *)
StatusWordC3At13(s) ==
  (s.TOP * 2^11) | (s.C0 * 2^8) | (s.C1 * 2^9) | (s.C2 * 2^10) | (s.C3 * 2^13)

(* The x87 status word StoreWinContextFromState rebuilds: TOP and C0-C3. *)
StatusWordOf(s) ==
  (s.TOP * 2^11) | (s.C0 * 2^8) | (s.C1 * 2^9) | (s.C2 * 2^10) | (s.C3 * 2^14)

(* StoreWinContextFromState; FloatSave mirrors the XSAVE area.  The     *)
(* 32-bit Cr0NpxState, StatusWord | 0xffff0000, is kept as its halves.  *)
StoreWinContextFromState(s, c) ==
  LET sw == StatusWordOf(s)
      xs == [c.XSave EXCEPT !.XmmRegisters = s.xmm, !.FloatRegisters = s.mm,
                            !.ControlWord = s.FCW, !.StatusWord = sw,
                            !.TagWord = s.AbridgedFTW]
  IN [c EXCEPT
        !.R = s.gregs,
        !.Eip = s.rip,
        !.Seg = s.idx,
        !.XSave = xs,
        !.FloatSave = [@ EXCEPT
                         !.ControlWord = xs.ControlWord,
                         !.StatusWord = sw,
                         !.ErrorSelector = xs.ErrorSelector | (xs.ErrorOpcode * 2^16),
                         !.Cr0NpxState = [hi |-> 65535, lo |-> sw]]]

-----------------------------------------------------------------------------

(* hangover_fex_run up to CTX->ExecutionThread: create the thread's state *)
(* on its first call, then load the context.  The ContextFlags check only *)
(* prints a warning.                                                      *)
Enter(t) ==
  /\ pc[t] = "wine"
  /\ calls[t] < MaxCalls
  /\ LET s == IF Thread[t] THEN state[t] ELSE NewThreadState
     IN state' = [state EXCEPT ![t] = LoadStateFromWinContext(s, WowTeb[t], ctx[t])]
  /\ Thread' = [Thread EXCEPT ![t] = TRUE]
  /\ given' = [given EXCEPT ![t] = ctx[t]]
  /\ changed' = [changed EXCEPT ![t] = FALSE]
  /\ calls' = [calls EXCEPT ![t] = @ + 1]
  /\ pc' = [pc EXCEPT ![t] = "guest"]
  /\ UNCHANGED ctx

(* What guest code does to the CPU state, by the x86 semantics the JIT   *)
(* implements: write a register, move the x87 stack top, set a condition *)
(* flag, or load a segment register, whose cached base then comes from    *)
(* the GDT entry the selector names.                                      *)
GuestEffect(s, g) ==
  CASE g.op = "reg"  -> [s EXCEPT !.gregs[g.r] = g.v]
    [] g.op = "top"  -> [s EXCEPT !.TOP = g.v]
    [] g.op = "flag" -> [s EXCEPT ![g.r] = g.v]
    [] g.op = "seg"  -> [s EXCEPT !.idx[g.r] = g.v, !.cached[g.r] = s.gdt[Entry(g.v)]]

(* Guest code runs in the JIT and changes the CPU state. *)
GuestRuns(t, g) ==
  /\ pc[t] = "guest"
  /\ state' = [state EXCEPT ![t] = GuestEffect(@, g)]
  /\ changed' = [changed EXCEPT ![t] = TRUE]
  /\ UNCHANGED <<Thread, ctx, given, calls, pc>>

(* The guest leaves the JIT; hangover_fex_run stores the state back. *)
Leave(t) ==
  /\ pc[t] = "guest"
  /\ ctx' = [ctx EXCEPT ![t] = StoreWinContextFromState(state[t], @)]
  /\ pc' = [pc EXCEPT ![t] = "wine"]
  /\ UNCHANGED <<Thread, state, given, changed, calls>>

(* Between calls Wine handles what stopped the guest and may give the    *)
(* next call another context.                                            *)
WineSetContext(t, c) ==
  /\ pc[t] = "wine"
  /\ ctx' = [ctx EXCEPT ![t] = c]
  /\ UNCHANGED <<Thread, state, given, changed, calls, pc>>

Init ==
  /\ Thread = [t \in Threads |-> FALSE]
  /\ state = [t \in Threads |-> NewThreadState]
  /\ ctx \in [Threads -> Contexts]
  /\ given = ctx
  /\ changed = [t \in Threads |-> FALSE]
  /\ calls = [t \in Threads |-> 0]
  /\ pc = [t \in Threads |-> "wine"]

Next ==
  \E t \in Threads :
    \/ Enter(t)
    \/ \E g \in GuestSteps : GuestRuns(t, g)
    \/ Leave(t)
    \/ \E c \in Contexts : WineSetContext(t, c)

Spec == Init /\ [][Next]_vars

-----------------------------------------------------------------------------

TypeOK ==
  /\ Thread \in [Threads -> BOOLEAN]
  /\ calls \in [Threads -> 0 .. MaxCalls]
  /\ pc \in [Threads -> {"wine", "guest"}]
  /\ \A t \in Threads :
       /\ state[t].TOP \in 0 .. 7
       /\ {state[t].C0, state[t].C1, state[t].C2, state[t].C3} \subseteq {0, 1}
       /\ ctx[t].XSave.StatusWord \in 0 .. 65535

(* The bits of the x87 status word that CPUState holds: C0, C1, C2, TOP *)
(* and C3 (bits 8-14).  The exception flags and the busy bit have no     *)
(* place in CPUState.                                                    *)
X87StatusKept == 32512

(* The context a call returns when its guest code changed nothing: the   *)
(* one it was given, with the selectors cut to 16 bits and the status    *)
(* word to the bits CPUState holds.                                      *)
RoundTripOf(c) ==
  [c EXCEPT !.Seg = [g \in Segs |-> @[g] & 65535],
            !.XSave.StatusWord = @ & X87StatusKept]

(* Everything but FloatSave, which StoreWinContextFromState derives from *)
(* the XSAVE area.                                                       *)
Carried(c) == [c EXCEPT !.FloatSave = 0]

(* LoadStateFromWinContext and StoreWinContextFromState are inverse on   *)
(* what CPUState can hold: every return of hangover_fex_run whose guest  *)
(* code left the state alone hands Wine back the context it was given,   *)
(* less the x87 exception and busy bits, whatever earlier calls on the    *)
(* thread left in its CPUState.                                           *)
ContextRoundTrip ==
  [][\A t \in Threads :
       pc[t] = "guest" /\ pc'[t] = "wine" /\ ~changed[t]
         => Carried(ctx'[t]) = Carried(RoundTripOf(given[t]))]_vars
=============================================================================
