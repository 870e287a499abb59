------------------------ MODULE RegisterAllocationData ------------------------
(***************************************************************************)
(* RegisterAllocationData (RegisterAllocationData.h): the packed result of *)
(* register allocation, owned through a UniquePtr whose deleter frees it   *)
(* only when IsShared is false.  Create and CreateCopy malloc one;         *)
(* Serialize writes it to the IR cache with IsShared forced to true; an    *)
(* object loaded from the cache is a pointer into the cache's mapping,     *)
(* owned by a UniquePtr of the same type.                                  *)
(*                                                                         *)
(* An object is referred to by a pointer: <<"heap", h>> for an allocation  *)
(* of FEXCore::Allocator::malloc, <<"file", o>> for the record at byte o   *)
(* of the cache.  The cache is a sequence of bytes.  A byte read before    *)
(* it is written (malloc does not initialise, and no constructor runs) is  *)
(* any byte the process may have left there: UninitBytes.                  *)
(***************************************************************************)
EXTENDS Integers, Sequences, SequencesExt, FiniteSets

CONSTANTS
  Handles,       \* heap blocks malloc may return
  NodeCounts,    \* NodeCount arguments of Create
  SpillCounts,   \* SpillSlotCount values the allocator may store
  Regs,          \* PhysicalRegister raw bytes the allocator may store
  InvalidRaw,    \* PhysicalRegister::Invalid().Raw
  UninitBytes,   \* bytes a fresh malloc block may hold
  CopyFromCache, \* callers may CreateCopy an object loaded from the cache
  MaxFile        \* bound on the cache's length in bytes

VARIABLES
  heap,    \* heap[h]: Free or the object stored in block h
  file,    \* the IR cache's bytes
  records, \* records[o]: the object whose Serialize wrote the record at o
  live,    \* pointers held by live UniquePtrs
  badFree  \* the deleter has passed a pointer into the cache to free

vars == <<heap, file, records, live, badFree>>

Free == [free |-> TRUE]
HeapPtr(h) == <<"heap", h>>
FilePtr(o) == <<"file", o>>

(* Little-endian bytes of a uint32_t, and back. *)
U32Bytes(v) == [k \in 1 .. 4 |-> (v \div (256 ^ (k - 1))) % 256]
U32At(bs, o) == FoldLeft(LAMBDA acc, k : acc * 256 + bs[o + k], 0, <<4, 3, 2, 1>>)

(* sizeof(RegisterAllocationData) with FEX_PACKED: two uint32_t and a bool. *)
HeaderSize == 9

Size(nodeCount) == HeaderSize + nodeCount

(* The object a pointer refers to: a heap block, or the packed record in  *)
(* the cache read field by field.                                        *)
Obj(p) ==
  IF p[1] = "heap" THEN heap[p[2]]
  ELSE LET o == p[2] IN
       [spill    |-> U32At(file, o),
        mapCount |-> U32At(file, o + 4),
        shared   |-> file[o + 9] # 0,
        map      |-> SubSeq(file, o + 10, o + 9 + U32At(file, o + 4))]

-----------------------------------------------------------------------------

(* In file, IsShared is always set. *)
SerializedShared(r) == 1

(* Fault: MapCount is written before SpillSlotCount. *)
EncodeSwapped(r) ==
  U32Bytes(r.mapCount) \o U32Bytes(r.spill) \o <<SerializedShared(r)>> \o r.map

(* Serialize: SpillSlotCount, MapCount, IsShared, then MapCount bytes of Map. *)
Encode(r) ==
  U32Bytes(r.spill) \o U32Bytes(r.mapCount) \o <<SerializedShared(r)>> \o r.map

(* RegisterAllocationDataDeleter: free only what is not shared. *)
Deleter(p) ==
  /\ IF ~Obj(p).shared
     THEN IF p[1] = "heap"
          THEN heap' = [heap EXCEPT ![p[2]] = Free] /\ UNCHANGED badFree
          ELSE badFree' = TRUE /\ UNCHANGED heap
     ELSE UNCHANGED <<heap, badFree>>

-----------------------------------------------------------------------------

(* Create(NodeCount): malloc, Map filled with Invalid, MapCount set;     *)
(* SpillSlotCount and IsShared keep whatever the block held.             *)
Create(h, n) ==
  /\ heap[h] = Free
  /\ \E spill \in SpillCounts, b \in UninitBytes :
       heap' = [heap EXCEPT ![h] =
                  [spill |-> spill, mapCount |-> n, shared |-> b # 0,
                   map |-> [k \in 1 .. n |-> InvalidRaw]]]
  /\ live' = live \cup {HeapPtr(h)}
  /\ UNCHANGED <<file, records, badFree>>

(* The register allocator fills in the object it created. *)
Allocate(h) ==
  /\ HeapPtr(h) \in live
  /\ \E spill \in SpillCounts, m \in [1 .. heap[h].mapCount -> Regs] :
       heap' = [heap EXCEPT ![h].spill = spill, ![h].map = m]
  /\ UNCHANGED <<file, records, live, badFree>>

(* CreateCopy: a fresh block with Map, SpillSlotCount, MapCount and     *)
(* IsShared copied from the object p.                                   *)
CreateCopy(p, h) ==
  /\ p \in live
  /\ p[1] = "heap" \/ CopyFromCache
  /\ heap[h] = Free
  /\ heap' = [heap EXCEPT ![h] = Obj(p)]
  /\ live' = live \cup {HeapPtr(h)}
  /\ UNCHANGED <<file, records, badFree>>

(* Serialize(stream) appends the record to the IR cache. *)
Serialize(p) ==
  /\ p \in live
  /\ Len(file) + Size(Obj(p).mapCount) <= MaxFile
  /\ file' = file \o Encode(Obj(p))
  /\ records' = records @@ (Len(file) :> Obj(p))
  /\ UNCHANGED <<heap, live, badFree>>

(* The IR cache hands out a record as a RegisterAllocationData pointing *)
(* into its mapping.                                                    *)
LoadFromCache(o) ==
  /\ o \in DOMAIN records
  /\ FilePtr(o) \notin live
  /\ live' = live \cup {FilePtr(o)}
  /\ UNCHANGED <<heap, file, records, badFree>>

(* A UniquePtr goes out of scope. *)
Release(p) ==
  /\ p \in live
  /\ live' = live \ {p}
  /\ Deleter(p)
  /\ UNCHANGED <<file, records>>

Init ==
  /\ heap = [h \in Handles |-> Free]
  /\ file = <<>>
  /\ records = <<>>
  /\ live = {}
  /\ badFree = FALSE

Next ==
  \/ \E h \in Handles, n \in NodeCounts : Create(h, n)
  \/ \E h \in Handles : Allocate(h)
  \/ \E p \in live, h \in Handles : CreateCopy(p, h)
  \/ \E p \in live : Serialize(p)
  \/ \E o \in DOMAIN records : LoadFromCache(o)
  \/ \E p \in live : Release(p)

Spec == Init /\ [][Next]_vars

-----------------------------------------------------------------------------

(* Every record in the cache reads back with the SpillSlotCount,        *)
(* MapCount and Map of the object it was serialized from, and is        *)
(* lies, all Size(MapCount) bytes of it, within the cache.             *)
RecordsRoundTrip ==
  \A o \in DOMAIN records :
    /\ U32At(file, o) = records[o].spill
    /\ U32At(file, o + 4) = records[o].mapCount
    /\ o + Size(records[o].mapCount) <= Len(file)
    /\ SubSeq(file, o + 10, o + 9 + records[o].mapCount) = records[o].map

(* No heap block stays allocated once no UniquePtr holds it. *)
NoLeak == \A h \in Handles : heap[h] # Free => HeapPtr(h) \in live
=============================================================================
