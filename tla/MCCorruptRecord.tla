-------------------------- MODULE MCCorruptRecord --------------------------
(***************************************************************************)
(* The model of MCX64Relocations with one more event: a relocation record  *)
(* in the object-cache data file has its type byte damaged while both     *)
(* file cookies stay intact (a torn write or a flipped bit on disk; the   *)
(* cache has no checksum).  The spec requires an unrecognized relocation  *)
(* kind to be fatal and partially relocated code never to run.            *)
(***************************************************************************)
EXTENDS MCX64Relocations

(* The type field of relocation j of the record for e no longer names any *)
(* of the four relocation types.                                           *)
CorruptRelocationType(e) ==
  /\ store.recs[e] # NoRecord
  /\ \E j \in DOMAIN store.recs[e].relocs :
       store' = [store EXCEPT !.recs[e].relocs[j].type = "Corrupt"]
  /\ UNCHANGED <<buffer, cursor, lookup, thunks, linker, version, runs>>

CorruptSpec ==
  Init /\ [][Next \/ \E e \in Entries : CorruptRelocationType(e)]_vars
=============================================================================
