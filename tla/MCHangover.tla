------------------------------ MODULE MCHangover ------------------------------
(* One Wine thread with its TEB (MCWowTeb gives a second thread another  *)
(* one), called repeatedly with contexts that differ in                  *)
(* every field the conversion treats differently: distinct values in all  *)
(* registers, two selector layouts, and x87 status words with only kept   *)
(* bits, with C1 apart from C2 and TOP not 0 and 7, and with exception    *)
(* and busy bits.                                                          *)
EXTENDS Hangover

MCWowTeb == [t \in Threads |-> IF t = CHOOSE u \in Threads : TRUE THEN 2130563072 ELSE 2130558976]

(* es, cs, ss, ds, fs, gs: WoW64's flat selectors 0x2b and 0x23, the TEB *)
(* selector 0x53, and the null selector.                                  *)
SegLayouts ==
  { [es |-> 43, cs |-> 35, ss |-> 43, ds |-> 43, fs |-> 83, gs |-> 43],
    [es |-> 83, cs |-> 35, ss |-> 43, ds |-> 43, fs |-> 83, gs |-> 0] }

(* 0, C3 C2 C0 (0x4500), TOP=5 C1 and the low exception bits (0x2A7F),   *)
(* and the busy bit with TOP=1 (0x8800).                                 *)
StatusWords == {0, 17664, 10879, 34816}

MCContexts ==
  { [R |-> [r \in Regs |-> CASE r = "Eax" -> 1 [] r = "Ebx" -> 2 [] r = "Ecx" -> 3
                              [] r = "Edx" -> 4 [] r = "Esi" -> 5 [] r = "Edi" -> 6
                              [] r = "Ebp" -> 7 [] r = "Esp" -> 8],
     Eip |-> 4096,
     Seg |-> seg,
     XSave |-> [XmmRegisters |-> 1, FloatRegisters |-> 1, ControlWord |-> 895,
                StatusWord |-> sw, TagWord |-> 15, ErrorSelector |-> 35,
                ErrorOpcode |-> 473],
     FloatSave |-> [ControlWord |-> 895, StatusWord |-> sw, ErrorSelector |-> 35,
                    Cr0NpxState |-> [hi |-> 65535, lo |-> sw]]]
    : seg \in SegLayouts, sw \in StatusWords }

(* Guest code writes a register, pushes the x87 stack, sets C1, loads gs *)
(* with the TEB selector or es with the flat one.                         *)
MCGuestSteps ==
  { [op |-> "reg", r |-> "Eax", v |-> 9],
    [op |-> "top", r |-> "TOP", v |-> 4],
    [op |-> "flag", r |-> "C1", v |-> 1],
    [op |-> "seg", r |-> "gs", v |-> 83],
    [op |-> "seg", r |-> "es", v |-> 43] }
=============================================================================
