----------------------------- MODULE Allocator -----------------------------
(***************************************************************************)
(* Blocking a range of the host address space (Allocator.cpp):            *)
(* CollectMemoryGaps reads /proc/self/maps through a fixed buffer and     *)
(* lists the unmapped gaps of [Begin, End); StealMemoryRegion maps the    *)
(* gap below the stack read/write and every other gap PROT_NONE;          *)
(* ReclaimMemoryRegion unmaps what was stolen.                            *)
(*                                                                         *)
(* Data abstraction.  Addresses are page numbers.  A byte of the maps     *)
(* text is the index i of the line it belongs to, or NL; from_chars on    *)
(* line i yields the begin and end of the i-th mapping.  Buffer, Cursor   *)
(* and Remaining are kept as the one sequence of buffered bytes not yet   *)
(* parsed, which is all the loop reads of them.                           *)
(***************************************************************************)
EXTENDS Integers, Sequences, SequencesExt, FiniteSets

CONSTANTS
  Layouts,     \* memory maps a process may have: sorted <<[b, e), ...>>
  LineLens,    \* lengths of a maps line in bytes, its newline included
  BufSize,     \* sizeof(Buffer), a scaled 2048
  AddrTop,     \* addresses are 0 .. AddrTop - 1
  Begin, End,  \* the range StealMemoryRegion blocks
  ShortReads,  \* TRUE when read(2) may return fewer bytes than are left
  ReadErrors   \* TRUE when read(2) may fail with an errno other than EAGAIN

VARIABLES
  maps,       \* the process's mappings, in address order
  text,       \* the bytes /proc/self/maps reads as
  stack,      \* StackLocation
  off,        \* file offset of MapsFD
  data,       \* Buffer[Cursor .. Cursor + Remaining)
  eof,        \* EndOfFileReached
  regionEnd,  \* RegionEnd: end of the last mapping parsed
  regions,    \* Regions: the gaps found, as [ptr, size]
  space,      \* space[a]: "orig" (mapped before), "free", "none", "rw"
  lost,       \* lines that lost a buffered byte to a failed read
  pc          \* "collect", "steal", "done", "reclaimed", "abort"

vars == <<maps, text, stack, off, data, eof, regionEnd, regions, space, lost, pc>>

NL == 0
Addrs == 0 .. AddrTop - 1
Mapped(m, a) == \E i \in DOMAIN m : m[i].b <= a /\ a < m[i].e

(* The maps text: line i is lens[i] - 1 bytes followed by its newline. *)
MapsText(m, lens) ==
  FlattenSeq([i \in DOMAIN m |-> [j \in 1 .. lens[i] - 1 |-> i] \o <<NL>>])

Gap(lo, hi) == [ptr |-> lo, size |-> hi - lo]
AddGap(rs, lo, hi) == IF hi > lo THEN Append(rs, Gap(lo, hi)) ELSE rs
GapEnd(r) == r.ptr + r.size
InGap(a, r) == r.ptr <= a /\ a < GapEnd(r)

-----------------------------------------------------------------------------
(* CollectMemoryGaps *)

(* Fault: a gap is started at the previous mapping's end, unclipped. *)
GapStartUnclipped(re) == re

(* std::max(RegionEnd, Begin): a gap starts no lower than Begin. *)
GapStart(re) == Max({re, Begin})

(* Fault: the read asks for the whole buffer, forgetting the pending bytes. *)
ReadRequestWhole(pending) == BufSize

(* The byte count asked of read(): what is left of the buffer. *)
ReadRequest(pending) == BufSize - pending

(* Fault: only a failed read (-1) ends the file. *)
ReachedEOFOnError(n, pending) == n < 0

(* Remaining < sizeof(Buffer) - PendingBytes: a read that does not fill   *)
(* the buffer is taken as the end of the file.  The comparison is of      *)
(* size_t, so the -1 of a failed read is never less.                      *)
ReachedEOF(n, pending) == n >= 0 /\ n < ReadRequest(pending)

(* What read() may return: all that is asked or left, or with ShortReads *)
(* any positive part of it, or with ReadErrors -1 (ENOMEM, EINTR, ...).  *)
ReadResults(pending) ==
  LET full == Min({ReadRequest(pending), Len(text) - off})
  IN (IF ShortReads /\ full > 0 THEN 1 .. full ELSE {full})
       \cup (IF ReadErrors THEN {-1} ELSE {})

(* The line is not all buffered and the file is not at its end: move the *)
(* pending bytes to the front and read into the rest of the buffer.      *)
(* Remaining += PendingBytes after a failed read keeps one pending byte  *)
(* too few: the last is overwritten by the next read.  With none pending  *)
(* Remaining is -1, and the next copy and find run over a negative range; *)
(* the process does not survive it.                                       *)
Refill ==
  /\ pc = "collect"
  /\ SelectInSeq(data, LAMBDA c : c = NL) = 0
  /\ ~eof
  /\ \E n \in ReadResults(Len(data)) :
       IF n >= 0
       THEN /\ data' = data \o SubSeq(text, off + 1, off + n)
            /\ off' = off + n
            /\ eof' = ReachedEOF(n, Len(data))
            /\ UNCHANGED <<lost, pc>>
       ELSE IF data = <<>>
       THEN pc' = "abort" /\ UNCHANGED <<data, off, eof, lost>>
       ELSE /\ data' = Front(data)
            /\ lost' = lost \cup {data[1]}
            /\ eof' = ReachedEOF(n, Len(data))
            /\ UNCHANGED <<off, pc>>
  /\ UNCHANGED <<maps, text, stack, regionEnd, regions, space>>

(* End of file: the gap from the last mapping to End closes the list. *)
FinishGaps ==
  /\ pc = "collect"
  /\ SelectInSeq(data, LAMBDA c : c = NL) = 0
  /\ eof
  /\ regions' = AddGap(regions, GapStart(regionEnd), End)
  /\ pc' = "steal"
  /\ UNCHANGED <<maps, text, stack, off, data, eof, regionEnd, space, lost>>

(* What from_chars reads from line i: its mapping, or, when the line lost *)
(* a byte, a begin or end with a digit missing (another address), or a    *)
(* line that fails the format check (Malformed).                          *)
Malformed == [b |-> -1, e |-> -1]
Parsed(i) ==
  IF i \in lost
  THEN {maps[i], Malformed}
         \cup {[maps[i] EXCEPT !.b = a] : a \in Addrs}
         \cup {[maps[i] EXCEPT !.e = a] : a \in Addrs}
  ELSE {maps[i]}

(* A whole line is buffered: parse its begin and end, add the gap before *)
(* it, and return early once a mapping reaches End; a malformed line      *)
(* trips LogMan::Throw::AFmt.                                              *)
ParseLine ==
  /\ pc = "collect"
  /\ SelectInSeq(data, LAMBDA c : c = NL) # 0
  /\ LET lineEnd == SelectInSeq(data, LAMBDA c : c = NL) IN
     \E m \in Parsed(data[1]) :
       IF m = Malformed
       THEN pc' = "abort" /\ UNCHANGED <<regions, regionEnd, data>>
       ELSE /\ regions' = AddGap(regions, GapStart(regionEnd), Min({m.b, End}))
            /\ regionEnd' = m.e
            /\ IF m.e >= End
               THEN pc' = "steal" /\ data' = data
               ELSE pc' = pc /\ data' = SubSeq(data, lineEnd + 1, Len(data))
  /\ UNCHANGED <<maps, text, stack, off, eof, space, lost>>

-----------------------------------------------------------------------------
(* StealMemoryRegion *)

(* Index of the first gap ending above the stack pointer; Len(rs) + 1    *)
(* stands for Regions.end().                                             *)
StackRegionIndexInclusive(rs, sp) ==
  LET j == SelectInSeq(rs, LAMBDA r : GapEnd(r) >= sp)
  IN IF j = 0 THEN Len(rs) + 1 ELSE j

StackRegionIndex(rs, sp) ==
  LET j == SelectInSeq(rs, LAMBDA r : GapEnd(r) > sp)
  IN IF j = 0 THEN Len(rs) + 1 ELSE j

(* The index of the gap left read/write for the stack to grow into, or 0. *)
StackGapIndex(rs, sp) ==
  LET it == StackRegionIndex(rs, sp)
  IN IF (it <= Len(rs) \/ sp <= End) /\ it # 1 /\ GapEnd(rs[it - 1]) <= End
     THEN it - 1 ELSE 0

(* mmap over a gap: MAP_FIXED replaces whatever is there; *)
(* MAP_FIXED_NOREPLACE fails if any page of it is mapped. *)
MapFixed(sp, r, prot) == [a \in Addrs |-> IF InGap(a, r) THEN prot ELSE sp[a]]
NoReplaceFails(sp, r) == \E a \in Addrs : InGap(a, r) /\ sp[a] # "free"

(* The whole of StealMemoryRegion after CollectMemoryGaps: the stack gap *)
(* is mapped RW and erased from the list, every other gap PROT_NONE; a    *)
(* failed mmap trips LogMan::Throw::AFmt.                                *)
StealMemoryRegion ==
  /\ pc = "steal"
  /\ LET k     == StackGapIndex(regions, stack)
         withRW == IF k # 0 THEN MapFixed(space, regions[k], "rw") ELSE space
         rest  == IF k # 0 THEN RemoveAt(regions, k) ELSE regions
         final == FoldLeft(LAMBDA sp, r : MapFixed(sp, r, "none"), withRW, rest)
     IN IF \E i \in DOMAIN rest :
             NoReplaceFails(FoldLeft(LAMBDA sp, r : MapFixed(sp, r, "none"),
                                     withRW, SubSeq(rest, 1, i - 1)), rest[i])
        THEN pc' = "abort" /\ UNCHANGED <<regions, space>>
        ELSE pc' = "done" /\ regions' = rest /\ space' = final
  /\ UNCHANGED <<maps, text, stack, off, data, eof, regionEnd, lost>>

(* ReclaimMemoryRegion: munmap every region the steal returned. *)
ReclaimMemoryRegion ==
  /\ pc = "done"
  /\ space' = [a \in Addrs |-> IF \E i \in DOMAIN regions : InGap(a, regions[i])
                               THEN "free" ELSE space[a]]
  /\ pc' = "reclaimed"
  /\ UNCHANGED <<maps, text, stack, off, data, eof, regionEnd, regions, lost>>

-----------------------------------------------------------------------------

(* A process with some memory map and its stack pointer in a mapping. *)
Init ==
  /\ maps \in Layouts
  /\ \E lens \in [DOMAIN maps -> LineLens] : text = MapsText(maps, lens)
  /\ stack \in {a \in Addrs : Mapped(maps, a)}
  /\ off = 0
  /\ data = <<>>
  /\ eof = FALSE
  /\ regionEnd = 0
  /\ regions = <<>>
  /\ space = [a \in Addrs |-> IF Mapped(maps, a) THEN "orig" ELSE "free"]
  /\ lost = {}
  /\ pc = "collect"

Next ==
  \/ Refill
  \/ FinishGaps
  \/ ParseLine
  \/ StealMemoryRegion
  \/ ReclaimMemoryRegion

(* The routine runs on one thread to completion. *)
Spec == Init /\ [][Next]_vars /\ WF_vars(Next)

-----------------------------------------------------------------------------
(* Properties *)

TypeOK ==
  /\ data \in Seq({NL} \cup DOMAIN maps)
  /\ Len(data) <= BufSize
  /\ off \in 0 .. Len(text)
  /\ eof \in BOOLEAN
  /\ space \in [Addrs -> {"orig", "free", "none", "rw"}]
  /\ pc \in {"collect", "steal", "done", "reclaimed", "abort"}

(* The maximal unmapped runs of [Begin, End), in address order. *)
FreeRuns ==
  {Gap(lo, hi) : lo \in Begin .. End, hi \in Begin .. End}
    \cap {r \in [ptr : Addrs, size : 1 .. AddrTop] :
            /\ \A a \in r.ptr .. GapEnd(r) - 1 : ~Mapped(maps, a)
            /\ r.ptr = Begin \/ Mapped(maps, r.ptr - 1)
            /\ GapEnd(r) = End \/ Mapped(maps, GapEnd(r))}

(* The gap the stack grows into: the highest free run ending at or below *)
(* the stack pointer, when the stack pointer is within the range.        *)
StackGap ==
  LET below == {r \in FreeRuns : GapEnd(r) <= stack}
  IN IF stack <= End /\ below # {}
     THEN {r \in below : \A s \in below : GapEnd(s) <= GapEnd(r)} ELSE {}

(* When CollectMemoryGaps returns, its list is exactly the unmapped runs *)
(* of [Begin, End) in increasing order, however the reads split lines.   *)
GapsExact ==
  pc = "steal" =>
    /\ Range(regions) = FreeRuns
    /\ \A i, j \in DOMAIN regions : i < j => GapEnd(regions[i]) < regions[j].ptr

(* StealMemoryRegion never aborts; when it returns, every page of        *)
(* [Begin, End) the process had mapped is untouched, the gap below the   *)
(* stack is read/write and every other page PROT_NONE, and after         *)
(* ReclaimMemoryRegion only the stack gap stays mapped.                  *)
LayoutAfterSteal ==
  /\ pc # "abort"
  /\ pc \in {"done", "reclaimed"} =>
       \A a \in Addrs :
         space[a] =
           IF Mapped(maps, a) THEN "orig"
           ELSE IF \E r \in StackGap : InGap(a, r) THEN "rw"
           ELSE IF pc = "done" /\ Begin <= a /\ a < End THEN "none"
           ELSE "free"

(* CollectMemoryGaps returns for every maps file. *)
Termination == <>(pc \in {"done", "reclaimed", "abort"})
=============================================================================
