--------------------------- MODULE X64Relocations ---------------------------
(***************************************************************************)
(* The relocation ledger and the object-code cache of the x86-64 JIT       *)
(* (x64Relocations.cpp, ObjCache.h).                                       *)
(*                                                                         *)
(* Each JIT thread owns an X86JITCore with a code buffer and a cursor      *)
(* (getSize()).  Compiling a guest block emits host code at the cursor and *)
(* records, for every value not known before run time, a relocation whose  *)
(* offset is relative to the block's start (CursorEntry).  The block's     *)
(* bytes and relocation list are kept in the object cache, which survives  *)
(* the process.  RelocateJITObjectCode copies a cached block into a        *)
(* thread's buffer and ApplyRelocations re-patches every recorded site     *)
(* with the value of the installing thread and process.                    *)
(*                                                                         *)
(* Data abstraction.  A buffer byte is a cell: <<"code", v>> is a byte of  *)
(* an ordinary instruction emitted by build version v, <<"mov", r, x>> a   *)
(* byte of xbyak's encoding of `mov r, x`, <<"nop">> a padding byte,       *)
(* <<"lit", x>> a byte of the 8-byte word x (dq), <<"zero">> a byte never  *)
(* written.  Addresses are integers modulo AddrSpace, a scaled 2^64;       *)
(* ImmBound is the matching scaled 2^32 that decides xbyak's encoding.     *)
(***************************************************************************)
EXTENDS Integers, Sequences, SequencesExt

CONSTANTS
  Threads,      \* JIT threads, each with its own X86JITCore and code buffer
  Entries,      \* guest entry addresses of the blocks (the cache keys)
  Program,      \* [Entries -> Seq(Op)]: the emission steps of each block
  ThunkHashes,  \* SHA256 sums naming thunked host functions
  ThunkAddrs,   \* addresses a loaded host thunk may have in a process
  HostAddrs,    \* addresses ExitFunctionLinker may have in a thread
  Versions,     \* OBJ_CACHE_VERSION of the builds that may run
  Capacity,     \* CurrentCodeBuffer->Size
  AddrSpace,    \* scaled 2^64: all addresses are taken modulo it
  ImmBound,     \* scaled 2^32: the range of a zero-extended imm32
  MaxRuns       \* bound on process runs sharing the cache files

VARIABLES
  buffer,   \* buffer[t][i]: byte i of thread t's code buffer
  cursor,   \* cursor[t]: getSize() of thread t's code buffer
  lookup,   \* lookup[t][e]: host offset of the block for e, or NoEntry
  store,    \* the object-cache index/data files: cookies and records
  thunks,   \* thunks[h]: host address of thunk h, NotFound if not loaded
  linker,   \* linker[t]: ExitFunctionLinker of thread t in this process
  version,  \* OBJ_CACHE_VERSION of the running build
  runs      \* number of process runs so far

vars == <<buffer, cursor, lookup, store, thunks, linker, version, runs>>

NoEntry == -1
NoRecord == [none |-> TRUE]
Zero == <<"zero">>

(* The byte length constants of the emitter. *)
MAX_MOVE_SIZE == 10
LiteralSize == 8

(* ~0ULL, the value LookupThunk's failure is compared against. *)
NotFound == AddrSpace - 1

MoveTypes == {"NamedThunkMove", "GuestRIPMove"}
RelocationTypes == MoveTypes \cup {"NamedSymbolLiteral", "GuestRIPLiteral"}

Cookie(tag, v) == <<tag, v>>
OBJ_CACHE_INDEX_COOKIE(v) == Cookie("FXOI", v)
OBJ_CACHE_DATA_COOKIE(v) == Cookie("FXOD", v)

EmptyStore(v) ==
  [indexCookie |-> OBJ_CACHE_INDEX_COOKIE(v),
   dataCookie  |-> OBJ_CACHE_DATA_COOKIE(v),
   recs        |-> [e \in Entries |-> NoRecord]]

(* The thunk resolver of a process: each host thunk library loaded at  *)
(* some address, or not loaded at all.                                  *)
ThunkTables == [ThunkHashes -> ThunkAddrs \cup {NotFound}]

EmptyBuffer == [i \in 0 .. Capacity - 1 |-> Zero]
NoBlocks == [e \in Entries |-> NoEntry]

(* The buffer b with the bytes s written from offset p on. *)
WriteAt(b, p, s) ==
  [i \in DOMAIN b |-> IF p <= i /\ i < p + Len(s) THEN s[i - p + 1] ELSE b[i]]

Fill(n, cell) == [i \in 1 .. n |-> cell]

-----------------------------------------------------------------------------
(***************************************************************************)
(* Emission.                                                               *)
(***************************************************************************)

(* Bytes of xbyak's mov(Reg64(reg), x): B8+r imm32 (a REX prefix for r8-  *)
(* r15) when x fits 32 bits, REX.W C7 imm32 when x is a sign-extended     *)
(* imm32, REX.W B8+r imm64 otherwise.                                     *)
MovSize(reg, x) ==
  IF x < ImmBound THEN IF reg >= 8 THEN 6 ELSE 5
  ELSE IF x >= AddrSpace - ImmBound \div 2 THEN 7
  ELSE 10

(* Fault: the move is emitted without its NOP slide, so its length       *)
(* depends on the value patched in.                                      *)
LoadConstantUnpadded(reg, x) == Fill(MovSize(reg, x), <<"mov", reg, x>>)

(* mov(Reg, Constant) followed by a NOP slide up to MAX_MOVE_SIZE. *)
LoadConstantWithPadding(reg, x) ==
  Fill(MovSize(reg, x), <<"mov", reg, x>>)
    \o Fill(MAX_MOVE_SIZE - MovSize(reg, x), <<"nop">>)

(* dq(Value): one 8-byte word. *)
Dq(x) == Fill(LiteralSize, <<"lit", x>>)

(* The closed set of named symbols has one member. *)
GetNamedSymbolLiteral(t, sym) == linker[t]

LookupThunk(sum) == thunks[sum]

(* An emission step sees the block emitted so far: acc.bytes from         *)
(* CursorEntry on, and the relocations acc.relocs.                         *)
GetSize(c, acc) == c + Len(acc.bytes)

InsertNamedThunkRelocation(c, acc, reg, sum) ==
  [bytes  |-> acc.bytes \o LoadConstantWithPadding(reg, LookupThunk(sum)),
   relocs |-> Append(acc.relocs,
                [type |-> "NamedThunkMove", offset |-> GetSize(c, acc) - c,
                 sym |-> sum, reg |-> reg])]

InsertGuestRIPMove(c, entry, acc, reg, rip) ==
  [bytes  |-> acc.bytes \o LoadConstantWithPadding(reg, rip),
   relocs |-> Append(acc.relocs,
                [type |-> "GuestRIPMove", offset |-> GetSize(c, acc) - c,
                 delta |-> (rip - entry) % AddrSpace, reg |-> reg])]

InsertNamedSymbolLiteral(sym) ==
  [type |-> "NamedSymbolLiteral", sym |-> sym, offset |-> 0]

InsertGuestRIPLiteral(entry, rip) ==
  [type |-> "GuestRIPLiteral", offset |-> 0, delta |-> (rip - entry) % AddrSpace]

(* Binds the literal's label at the cursor and emits its current value. *)
PlaceRelocatedLiteral(t, c, entry, acc, lit) ==
  LET value == IF lit.type = "NamedSymbolLiteral"
               THEN GetNamedSymbolLiteral(t, lit.sym)
               ELSE (lit.delta + entry) % AddrSpace
  IN [bytes  |-> acc.bytes \o Dq(value),
      relocs |-> Append(acc.relocs, [lit EXCEPT !.offset = GetSize(c, acc) - c])]

(* One emission step of the block at entry, compiled by thread t at c. *)
EmitOp(t, entry, c, v, acc, op) ==
  CASE op.op = "Code"      -> [acc EXCEPT !.bytes = @ \o <<<<"code", v>>>>]
    [] op.op = "ThunkMove" -> InsertNamedThunkRelocation(c, acc, op.reg, op.sym)
    [] op.op = "RipMove"   -> InsertGuestRIPMove(c, entry, acc, op.reg, op.rip)
    [] op.op = "SymLit"    -> PlaceRelocatedLiteral(t, c, entry, acc,
                                InsertNamedSymbolLiteral("ExitFunctionLinker"))
    [] op.op = "RipLit"    -> PlaceRelocatedLiteral(t, c, entry, acc,
                                InsertGuestRIPLiteral(entry, op.rip))

(* The host code and relocation list of the block at e, emitted by thread *)
(* t of build v with CursorEntry = c.                                      *)
EmitBlock(t, e, c, v) ==
  FoldLeft(LAMBDA acc, op : EmitOp(t, e, c, v, acc, op),
           [bytes |-> <<>>, relocs |-> <<>>], Program[e])

BlockSize(e) == Len(EmitBlock(CHOOSE t \in Threads : TRUE, e, 0, version).bytes)

-----------------------------------------------------------------------------
(***************************************************************************)
(* Relocation.                                                             *)
(***************************************************************************)

(* The value a relocation resolves to for thread t at guest entry g. *)
Resolve(t, g, r) ==
  CASE r.type = "NamedSymbolLiteral" -> GetNamedSymbolLiteral(t, r.sym)
    [] r.type = "NamedThunkMove"     -> LookupThunk(r.sym)
    [] r.type \in {"GuestRIPLiteral", "GuestRIPMove"} -> (g + r.delta) % AddrSpace

PatchBytes(t, g, r) ==
  IF r.type \in MoveTypes THEN LoadConstantWithPadding(r.reg, Resolve(t, g, r))
  ELSE Dq(Resolve(t, g, r))

(* Fault: the patch is placed at the recorded offset from the start of   *)
(* the buffer instead of from CursorEntry.                               *)
ApplyRelocationAtOffset(t, g, cursorEntry, acc, r) ==
  IF ~acc.ok \/ r.type \notin RelocationTypes THEN acc
  ELSE IF r.type = "NamedThunkMove" /\ Resolve(t, g, r) = NotFound
       THEN [acc EXCEPT !.ok = FALSE]
       ELSE [acc EXCEPT !.buf = WriteAt(@, r.offset, PatchBytes(t, g, r))]

(* One iteration of ApplyRelocations' loop; acc.ok turns FALSE at the      *)
(* `return false` of an unresolved thunk and the rest is skipped.  The     *)
(* switch has no default: a type outside the four is passed over.          *)
ApplyRelocation(t, g, cursorEntry, acc, r) ==
  IF ~acc.ok \/ r.type \notin RelocationTypes THEN acc
  ELSE IF r.type = "NamedThunkMove" /\ Resolve(t, g, r) = NotFound
       THEN [acc EXCEPT !.ok = FALSE]
       ELSE [acc EXCEPT !.buf = WriteAt(@, cursorEntry + r.offset, PatchBytes(t, g, r))]

ApplyRelocations(t, g, cursorEntry, buf, relocs) ==
  FoldLeft(LAMBDA acc, r : ApplyRelocation(t, g, cursorEntry, acc, r),
           [buf |-> buf, ok |-> TRUE], relocs)

(* Fault: the capacity test lets a block end one byte past the buffer. *)
NeedsClearOffByOne(t, bytes) == cursor[t] + bytes > Capacity + 1

(* The capacity test at the top of RelocateJITObjectCode. *)
NeedsClear(t, bytes) == cursor[t] + bytes > Capacity

(* ClearCodeCache: the thread's buffer starts over and every block it had *)
(* installed is forgotten.                                                *)
ClearCodeCache(t, clear) == IF clear THEN NoBlocks ELSE lookup[t]

(* ObjCacheEntry::GetFiller: the record keeps the bytes and relocations. *)
ObjCacheEntry(frag) == [code |-> frag.bytes, relocs |-> frag.relocs]

(* Fault: the cookie is compared without its version field, so the      *)
(* files of every build are accepted.                                     *)
LoadObjCacheUnversioned(s, v) == s

(* LoadObjCache: the files are used only when both cookies are those of   *)
(* the running build; otherwise the cache is absent.                      *)
LoadObjCache(s, v) ==
  IF s.indexCookie = OBJ_CACHE_INDEX_COOKIE(v) /\ s.dataCookie = OBJ_CACHE_DATA_COOKIE(v)
  THEN s ELSE EmptyStore(v)

-----------------------------------------------------------------------------
(***************************************************************************)
(* Actions.                                                                *)
(***************************************************************************)

(* Thread t compiles the block at e afresh, installs it at its cursor and *)
(* adds its record to the object cache when the cache has none.           *)
CompileBlock(t, e) ==
  /\ lookup[t][e] = NoEntry
  /\ LET clear == cursor[t] + BlockSize(e) > Capacity
         c     == IF clear THEN 0 ELSE cursor[t]
         frag  == EmitBlock(t, e, c, version)
     IN /\ buffer' = [buffer EXCEPT ![t] = WriteAt(@, c, frag.bytes)]
        /\ cursor' = [cursor EXCEPT ![t] = c + Len(frag.bytes)]
        /\ lookup' = [lookup EXCEPT ![t] = [ClearCodeCache(t, clear) EXCEPT ![e] = c]]
        /\ store' = IF store.recs[e] = NoRecord
                    THEN [store EXCEPT !.recs[e] = ObjCacheEntry(frag)]
                    ELSE store
  /\ UNCHANGED <<thunks, linker, version, runs>>

(* Thread t installs the cached block for e: the whole of                 *)
(* RelocateJITObjectCode with the ApplyRelocations it calls.              *)
RelocateJITObjectCode(t, e) ==
  /\ lookup[t][e] = NoEntry
  /\ store.recs[e] # NoRecord
  /\ LET rec         == store.recs[e]
         clear       == NeedsClear(t, Len(rec.code))
         cursorBegin == IF clear THEN 0 ELSE cursor[t]
         copied      == WriteAt(buffer[t], cursorBegin, rec.code)
         result      == ApplyRelocations(t, e, cursorBegin, copied, rec.relocs)
         live        == ClearCodeCache(t, clear)
     IN /\ buffer' = [buffer EXCEPT ![t] = result.buf]
        /\ cursor' = [cursor EXCEPT ![t] =
                        IF result.ok THEN cursorBegin + Len(rec.code) ELSE cursorBegin]
        /\ lookup' = [lookup EXCEPT ![t] =
                        IF result.ok THEN [live EXCEPT ![e] = cursorBegin] ELSE live]
  /\ UNCHANGED <<store, thunks, linker, version, runs>>

(* hangover_fex_invalidate_code_range over the block at e: no thread      *)
(* keeps it and its cache record is evicted.                              *)
InvalidateGuestCodeRange(e) ==
  /\ lookup' = [t \in Threads |-> [lookup[t] EXCEPT ![e] = NoEntry]]
  /\ store' = [store EXCEPT !.recs[e] = NoRecord]
  /\ UNCHANGED <<buffer, cursor, thunks, linker, version, runs>>

(* A process starts, possibly of another build, with its own thunk        *)
(* libraries and dispatcher addresses; only the cache files persist and   *)
(* LoadObjCache decides whether they are used.                            *)
StartProcess(s) ==
  /\ \E v \in Versions, th \in ThunkTables, lk \in [Threads -> HostAddrs] :
       /\ version' = v
       /\ thunks' = th
       /\ linker' = lk
       /\ store' = LoadObjCache(s, v)
  /\ buffer' = [t \in Threads |-> EmptyBuffer]
  /\ cursor' = [t \in Threads |-> 0]
  /\ lookup' = [t \in Threads |-> NoBlocks]

Init ==
  /\ version \in Versions
  /\ thunks \in ThunkTables
  /\ linker \in [Threads -> HostAddrs]
  /\ store = EmptyStore(version)
  /\ buffer = [t \in Threads |-> EmptyBuffer]
  /\ cursor = [t \in Threads |-> 0]
  /\ lookup = [t \in Threads |-> NoBlocks]
  /\ runs = 1

Restart ==
  /\ runs < MaxRuns
  /\ StartProcess(store)
  /\ runs' = runs + 1

Next ==
  \/ \E t \in Threads, e \in Entries : CompileBlock(t, e)
  \/ \E t \in Threads, e \in Entries : RelocateJITObjectCode(t, e)
  \/ \E e \in Entries : InvalidateGuestCodeRange(e)
  \/ Restart

Spec == Init /\ [][Next]_vars

-----------------------------------------------------------------------------
(***************************************************************************)
(* Properties.                                                             *)
(***************************************************************************)

Cell == {Zero, <<"nop">>}
          \cup {<<"code", v>> : v \in Versions}
          \cup {<<"mov", r, x>> : r \in 0 .. 15, x \in 0 .. AddrSpace - 1}
          \cup {<<"lit", x>> : x \in 0 .. AddrSpace - 1}

TypeOK ==
  /\ buffer \in [Threads -> [0 .. Capacity - 1 -> Cell]]
  /\ cursor \in [Threads -> Nat]
  /\ lookup \in [Threads -> [Entries -> {NoEntry} \cup Nat]]
  /\ store.indexCookie = OBJ_CACHE_INDEX_COOKIE(version)
  /\ thunks \in ThunkTables
  /\ linker \in [Threads -> HostAddrs]
  /\ version \in Versions
  /\ runs \in 1 .. MaxRuns

(* Every block a thread has installed, whether compiled by it, compiled   *)
(* by another thread, or copied from a cache written by an earlier        *)
(* process, holds exactly the bytes a fresh compile by this thread in     *)
(* this process would emit at that place.  Breaks if a relocation is      *)
(* missed or resolved against the wrong thread or entry, if a patch is    *)
(* wider or narrower than the placeholder, if the cursor is not restored  *)
(* after patching, or if a stale cache or generation is used.             *)
InstalledBlocksExact ==
  \A t \in Threads, e \in Entries :
    lookup[t][e] # NoEntry =>
      LET c     == lookup[t][e]
          fresh == EmitBlock(t, e, c, version).bytes
      IN /\ c + Len(fresh) <= Capacity
         /\ \A i \in 1 .. Len(fresh) : buffer[t][c + i - 1] = fresh[i]

(* Every relocation of a cached record patches a window that lies inside  *)
(* the record's code, starts at an encoding of the kind it records, and   *)
(* is disjoint from every other relocation's window, so the ledger stays  *)
(* valid wherever the record is installed.                                *)
Width(r) == IF r.type \in MoveTypes THEN MAX_MOVE_SIZE ELSE LiteralSize

RecordsWellFormed ==
  \A e \in Entries : store.recs[e] # NoRecord =>
    LET rec == store.recs[e] IN
    \A j \in DOMAIN rec.relocs :
      LET r == rec.relocs[j] IN
      /\ 0 <= r.offset /\ r.offset + Width(r) <= Len(rec.code)
      /\ rec.code[r.offset + 1][1] = IF r.type \in MoveTypes THEN "mov" ELSE "lit"
      /\ \A k \in DOMAIN rec.relocs : k # j =>
           rec.relocs[k].offset + Width(rec.relocs[k]) <= r.offset
             \/ r.offset + Width(r) <= rec.relocs[k].offset
=============================================================================
