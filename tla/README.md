# TLA+ models of FEX: object-code cache, host allocator, constant propagation, register allocation data

This directory holds TLA+ models of parts of FEX (an x86/x86-64 emulator
for ARM64 hosts) as found under `src/`, and the TLC configurations that check
them. `PROJECT.json` maps every modelled definition to the source lines it
translates, lists the runs, the mutants that show each property can fail,
the findings and the hazards.

## 1. The system and its parts

The files under `src/` are a slice of FEX. They fall into these parts:

| Part | Source | State and operations |
|---|---|---|
| Relocation ledger and constant emission | `x64Relocations.cpp` 19-137 | Per-thread code buffer, cursor, `CursorEntry`, `Relocations` vector. `InsertNamedThunkRelocation`, `InsertGuestRIPMove`, `InsertNamedSymbolLiteral`, `InsertGuestRIPLiteral`, `PlaceRelocatedLiteral`, `LoadConstantWithPadding`. |
| Fragment installer | `x64Relocations.cpp` 139-229 | `RelocateJITObjectCode` (capacity test, `ClearCodeCache`, copy, patch, cursor restore or reset) and `ApplyRelocations` (one patch per relocation; early return on a failed thunk lookup). |
| Cache record format | `ObjCache.h` | `ObjCacheEntry` lays out `Bytes`, `Code[]`, `Count`, `Relocations[]`; `LoadObjCache` opens a store with the build's index and data cookies. |
| Hangover glue | `Hangover.cpp` | `hangover_fex_run`: lazy thread creation, `LoadStateFromWinContext`, guest execution, `StoreWinContextFromState`; `hangover_fex_invalidate_code_range`. |
| Host allocator | `Allocator.cpp` | sbrk blocking, VA-size probe, `Steal48BitVA`, reading `/proc/self/maps` to find gaps and mapping them away. |
| Constant propagation | `ConstProp.cpp` | Constant folding of IR ops and inlining of constants into memory operands. |
| Register allocation data | `RegisterAllocationData.h` | Packed `PhysicalRegister`, `Create`, `CreateCopy`, `Serialize`, deleter honouring `IsShared`. |
| JIT perf-map writer | `JitSymbols.cpp` | One raw descriptor to `/tmp/perf-<pid>.map`; `InitFile`, the `Register*` overloads, the destructor. |
| Source map, syscalls, FEXServer, thunk headers, tests | other files | Lookups, formatting and I/O; see `PROJECT.json` for each. |

How they interact: a JIT thread compiles a guest block. Every host constant
that depends on the process (a thunk address, the thread's exit-linker, a
guest RIP) is emitted as a fixed-width slot and noted in the relocation
ledger. The block's bytes and relocations are stored in the object cache.
In a later run of the process, or in another thread, the installer copies the
cached bytes into that thread's code buffer and rewrites every slot for the
current process. Hangover's invalidation evicts a range from every thread's
lookup and from the cache.

The hard behaviours are these:
- several JIT threads share one persistent store;
- process restarts keep the store but change thunk addresses (ASLR) and
  exit-linker addresses;
- a store written by another build survives a restart;
- the buffer fills up and is cleared in the middle of an install;
- a thunk lookup fails after earlier relocations are already written;
- a constant's encoding length depends on its value.

## 2. Modules

### `X64Relocations.tla`: relocation ledger, installer, cache and store

**State**

| Variable | Models |
|---|---|
| `buffer[t]` | thread `t`'s code buffer, as a sequence of `Capacity` abstract cells |
| `cursor[t]` | xbyak's `getSize()` |
| `lookup[t][e]` | the host offset of installed block `e`, or `NoEntry` |
| `store` | the persistent object cache, with its cookies and one record per entry |
| `thunks` | this process's `LookupThunk` table |
| `linker[t]` | `ExitFunctionLinker` of `t`'s frame |
| `version` | the running build's `OBJ_CACHE_VERSION` |
| `runs` | the number of process starts |

**Data abstraction**

An instruction byte run is a cell:
- `<<"mov", reg, x>>` is a move of `x` into `reg`, followed by NOP cells up to `MAX_MOVE_SIZE`;
- `<<"lit", x>>` is the start of an 8-byte `dq`;
- `<<"code", v>>` is code that does not move;
- `<<"zero">>` is unwritten buffer.

`MovSize` gives xbyak's encoding length by value class, with `ImmBound`
standing for 2^32:

| Value | Length |
|---|---|
| below 2^32 | 5 bytes, or 6 for r8-r15 |
| sign-extendable imm32 | 7 bytes |
| anything else | 10 bytes |

Addresses are taken modulo `AddrSpace` (a scaled 2^64), so `GuestRip - Entry`
wraps as the `uint64_t` does. `NotFound = AddrSpace - 1` is `~0ULL`.

**Operations**

- `EmitBlock` folds the ledger routines (`EmitOp`) over a block's ops. It is
  spec-modelled, because the op handlers that call the ledger are not under
  `src/`.
- `RelocateJITObjectCode(t, e)` is the whole installer in one action:
  1. the capacity test;
  2. `ClearCodeCache`;
  3. the copy;
  4. `ApplyRelocations`, a fold that stops at the first failed thunk lookup;
  5. the cursor restore on success, or the reset to `CursorBegin` and no
     lookup entry on failure.
- `CompileBlock(t, e)` is the compile path. It emits fresh code at the cursor
  and stores the record if the entry has none.
- `InvalidateGuestCodeRange(e)` is Hangover's entry point, with no guard: it
  clears `e` in every thread's lookup and evicts it from the store.
  `hangover_fex_invalidate_code_range` only forwards the range to
  `Context::InvalidateGuestCodeRange`, which is not under `src/`, so what the
  action does is modelled from the spec (`spec_modelled` in `PROJECT.json`).
- `Restart` starts a new process, while `runs < MaxRuns`. It picks a build
  `Versions`, a thunk table and per-thread linkers, then runs `LoadObjCache`,
  which keeps the store only when both cookies match. `LoadObjCache` passes
  the build's cookies to `CodeCache::LoadFile`, which does the comparison;
  that function is not under `src/`, so the comparison is modelled from the
  spec.

### `MCX64Relocations.tla` / `.cfg`

The model has:
- two threads, with symmetry over them;
- one thunk hash;
- thunk addresses {5, 30} or not found, and linker addresses {20, 40};
- two builds, `Capacity = 38` and `MaxRuns = 3`.

It has two blocks, and between them they use every relocation kind:
- block 16 (19 bytes) has code, an exit-linker literal and then a thunk
  move into r0;
- block 33 (20 bytes) has a guest-RIP move into r9 whose target 30 lies
  below the entry 33, a guest-RIP literal whose target 4 lies further below
  (the `uint64_t` delta wraps), and two code cells.

These bounds make the interesting cases happen:
- two copies of block 16 (after an invalidation) fill the 38-byte buffer
  exactly, so the test's `>` is exercised at equality;
- block 33 after block 16 would end at byte 39, one past the buffer, so that
  install clears the buffer, and an off-by-one in the test overruns it;
- the thunk relocation of block 16 comes after the literal's, so an
  unresolved thunk (`NotFound`) fails an install after the literal was
  already patched, leaving a partial patch behind the cursor;
- the thunk address 30 falls below `ImmBound = 8` only under the modulus, so
  values of different length classes occur;
- `NotFound = 63` takes the 7-byte encoding, which differs from the address it replaces;
- three runs are enough for a restart to move to another build and back.

### `MCCorruptRecord.tla` / `.cfg`

This adds one environment action, which damages the type of one relocation of
one stored record. It stands for a cache file with valid cookies and a bad
record.

### `Allocator.tla`: `CollectMemoryGaps`, `StealMemoryRegion`, `ReclaimMemoryRegion`

**State.** The model keeps the following (`Allocator.cpp` 192-360):
- `maps`, the process's mappings;
- `text`, the bytes `/proc/self/maps` reads as;
- `stack`, the stack pointer;
- the file offset `off`;
- `data`, the buffered bytes not yet parsed (`Buffer`, `Cursor` and `Remaining` collapsed into one sequence);
- `eof`, `regionEnd` and `regions`;
- `space`, the protection of every page;
- `pc`.

A byte of the maps text is the index of the line it belongs to, or `NL`.
Parsing line `i` with `from_chars` yields mapping `i`.

**Actions**
- `Refill`: no newline is buffered and the file is not at its end. The action reads `sizeof(Buffer) - PendingBytes` bytes, or with `ShortReads` any positive part of them, and sets `EndOfFileReached` when the read is short (line 240).
  - With `ReadErrors`, `read` may also return -1. The `size_t` comparison then does not set EOF, and `Remaining += PendingBytes` keeps one pending byte too few. The line being read is recorded in `lost`.
  - With nothing pending, `Remaining` is -1, and the next `std::copy` and `std::find` run over a negative range. This undefined behaviour is taken as the process dying (`"abort"`).
- `ParseLine`: adds the gap before the line's mapping, clipped to `[Begin, End)`, and returns early once a mapping reaches `End`.
  - A line in `lost` parses (`Parsed`) as its mapping, as a mapping with another begin or end (a digit missing), or as a malformed line, which trips `LogMan::Throw::AFmt`.
- `FinishGaps`: the end-of-file path. It adds the last gap.
- `StealMemoryRegion`: the whole steal.
  1. Find the first gap ending above the stack pointer.
  2. Map the gap before it RW with `MAP_FIXED` and erase it from the list.
  3. Map every other gap `PROT_NONE` with `MAP_FIXED_NOREPLACE`.
  4. A failed mmap ends in `"abort"`, which stands for `LogMan::Throw::AFmt`.
- `ReclaimMemoryRegion`: munmaps the stolen list.

**Bounds.** `MCAllocator` enumerates every layout of 1 to 3 sorted,
disjoint mappings with ends in {1,3,5,8,10,12}. It also covers:
- every stack pointer inside a mapping;
- line lengths {3,5} against a 5-byte buffer, so a line can be split across two reads, or fill the buffer exactly;
- `Begin = 2` and `End = 10`, so mappings straddle both ends of the range.

**Fairness.** `WF_vars(Next)`. The routine runs on one thread and nothing
else takes its steps, so an enabled step is eventually taken.

### `ConstProp.tla`: the constant-propagation pass over one IR block

**State.**

| Variable | Models |
|---|---|
| `ir` | the block: a function from node index to a record `[op, size, args, c, ...]` |
| `orig` | the block as it was before the pass, for comparison |
| `inline` | the pass's `InlineConstants` flag |
| `consts` | `ConstPool` |
| `changed` | `Changed` |
| `pc`, `i` | the walk being run and the node it is at |

Values are integers of `RegBits` bits (a scaled 64, with `BPB` bits per
byte of an op size).

**Reference semantics.** `Val` (RECURSIVE) evaluates a node the way the
backends execute it:
- 4- and 8-byte results are masked to their size;
- shift counts are taken modulo the op width;
- loads and stores are observed by their address and size.

`Observe` compares every store, load and root of the block. `Val`, the
`IREmitter` operations and the shift semantics are modelled from the
emitter and the backends, which are not under `src/`.

**Actions of the first walk** (lines 111-363), one per branch of the `switch`:
- `VisitConstant`: constant pooling;
- `VisitMem`: `MemExtendedAddressing` on a load or store;
- `VisitFold`: the ADD/SUB/AND/OR/XOR/LSHL/MUL folds of two constants;
- `VisitSameOperand`: AND/OR x,x to x and XOR x,x to 0;
- `VisitShiftByZero`;
- `VisitBfe`: fold of a constant;
- `VisitOther`;
- `FoldDone`.

**Actions of the second walk** (lines 363-487):
- `InlineShift`: the shift count, masked with 31 or 63;
- `InlineOperand`: the ADD/SUB/logical/memory operands, with the x86-64 host immediate tests;
- `InlineOther`;
- `InlineDone`.

The action is nondeterministic over every node index of the walk order, so
no scheduling is assumed.

**Bounds.** `MCConstProp` generates blocks of these kinds:
- one binary op of two constants or an input and a constant, for every op, size and value class;
- same-operand ops;
- BFEs;
- blocks with repeated constants, for the pool;
- loads and stores whose address is `base + (index << s)` or `base + index * m`.

The constants cover zero, in-range and wrapping values. The shift counts
cover 0 and in-range counts, and the address shifts cover scales that do
and do not match the access size. `InputVals` gives every input value
enough bits that masks and wraps differ.

**Fairness.** None is assumed; the run checks safety only.

### `SbrkGuard.tla`: `DisableSBRKAllocations` and `ReenableSBRKAllocations`

`Allocator.cpp` 86-123. State: `brk`, the other mappings `others`, the
`guard` page, `IncrementAmount` as `inc`, the returned pointer `ret`, and
whether `sbrk` works at all (`sbrkWorks`).

The break follows Linux's `brk()`:
- growing within the break's page always succeeds;
- growing into a new page needs the aligned new break plus one page to lie
  below the next mapping.

Actions:
- `DisableSBRKAllocations`: `sbrk(0)`; returns `INVALID_PTR` when `sbrk`
  does not work; traps when the page at the aligned break is taken;
  otherwise maps the guard there;
- `ConsumeBreak`: one turn of the halving `sbrk` loops;
- `ReenableSBRKAllocations`: unmaps the guard;
- `GlibcSbrk`: the environment, glibc's malloc growing the heap.

Bounds: `PageSize = 8` and `FirstIncrement = 2` (a scaled 4096 and 1024),
breaks at page starts, inside pages and one byte before a page end, and
other mappings right after the break's page or further up.

**Fairness.** `WF_vars(DisableSBRKAllocations \/ ConsumeBreak)`: the
function runs to completion on its caller's thread. glibc's `sbrk` and the
re-enabling get no fairness; nothing obliges them to happen.

### `JitSymbols.tla`: the perf-map writer

`JitSymbols.cpp`. State:
- `table`, the process's descriptor table, shared by FEX and the guest;
- `fd`, `JITSymbols::fd`;
- `touched`, the files FEX has written perf lines to or closed;
- `pc`.

A file is a model value: `PerfMap` or one of `GuestFiles`. `open()` returns
the lowest free number, as POSIX requires.

Actions:
- `InitFile`: opens the perf map;
- `Register`: stands for all five `Register*` overloads, which differ only
  in the line they format. It returns without a descriptor, forgets the
  descriptor on `EBADF`, and otherwise writes to whatever file the number
  now names;
- `Destroy`: the destructor's `close`;
- `GuestOpen` and `GuestClose`: the guest's own calls. Closing
  descriptors it does not own is what a forked child, or `closefrom`, does.

`MCJitSymbols.cfg` has three descriptor numbers and two guest files.

### `VASize.tla`: `DetermineVASize`

`Allocator.cpp` 152-194. A probe `<<b, k>>` is the page `2^b - k` pages.
The host has a width `hostBits`, its top `reserved` pages are not mappable,
some probe pages may already be mapped, and the kernel may ignore
`MAP_FIXED_NOREPLACE` (before 4.17), in which case a page lands elsewhere.

Actions: `Call` (returns the cached `HostVASize`, or starts the search),
`ProbePage` (one `mmap`/`munmap` of `Find`), `NextWidth`, and `NoWidth`
(the `LOGMAN_MSG_A_FMT` abort). `Call(from)` records whether the call
is made by `Steal48BitVA`. `Steal48BitVA` (lines 345-354) then takes
`[2^47, 2^48)` unless the width is below 48. `StealMemoryRegion` itself
is modelled in `Allocator.tla`; here `stolen` records only that the range
was taken.

`MCAllocatorStartup` checks `SbrkGuard` and `VASize` in one run. Each
behaviour runs one of the two routines, chosen in `Init`, from every
initial state of that routine. The other routine's variables keep one
fixed initial state. The routines share no state, so the states are the
union of the two state spaces, not their product. For `VASize` it uses the real `TLBSizes` list, 3 probes instead of 64, host
widths 39, 47 and 48, and busy pages at every width, so that a whole
width's probes can be taken and the search can fall through to an
unrelated narrower width.

### `Hangover.tla`: `hangover_fex_run`

`Hangover.cpp` 66-180. Per Wine thread `t`:

| Variable | Models |
|---|---|
| `Thread[t]` | the `thread_local` `InternalThreadState` exists |
| `state[t]` | `Thread->CurrentFrame->State`: registers, `rip`, selectors, cached segment bases, the GDT, `FCW`, TOP, C0-C3, `AbridgedFTW`, the XMM and MMX files |
| `ctx[t]` | the `I386_CONTEXT` Wine owns: registers, `Eip`, selectors, the XSAVE area, `FloatSave` |
| `given[t]`, `changed[t]` | the context the current call was given, and whether guest code changed the state since |

Actions:
- `Enter(t)`: lines 165-177. The first call creates the state
  (`NewThreadState`, a zeroed `CPUState`; `CreateThread` is not under
  `src/`). `LoadStateFromWinContext` then masks the selectors to 16 bits,
  writes the TEB into the GDT entry `fs >> 3`, sets `fs_cached` to the TEB
  and the es/cs/ss/ds bases to 0, leaves `gs_cached` alone, and decodes C0,
  C1, C2, C3 and TOP from bits 8, 9, 10, 14 and 11-13 of the status word.
  The `ContextFlags` test only prints.
- `GuestRuns(t, g)`: guest code writes a register, moves TOP, sets a
  condition flag, or loads a segment register (its cached base comes from
  the GDT). This is the guest's x86 semantics, run by `ExecutionThread`,
  which is not under `src/`.
- `Leave(t)`: line 179, `StoreWinContextFromState`. It rebuilds the status
  word from TOP and C0-C3 with Bitwise `|`, copies everything else back, and
  derives `FloatSave` from the XSAVE area. `Cr0NpxState` is kept as its two
  16-bit halves, because TLC's integers are 32-bit signed.
- `WineSetContext(t, c)`: between calls Wine may hand in another context.

EFlags and `FloatSave.TagWord` go through `Context` helpers that are not
under `src/`, so they are left out.

`MCHangover` has one Wine thread. Every variable is thread-local, so a
second thread only multiplies the states. Its contexts:
- registers with 8 distinct values, so any swap shows;
- two selector layouts, one with `es` holding the TEB selector and `gs`
  null;
- status words 0, 0x4500, 0x2A7F and 0x8800, so that C1 differs from C2,
  TOP is neither 0 nor 7, and the exception and busy bits are set.

Guest code may change `Eax`, TOP, C1, `gs` or `es`. There are two calls
per thread, so a call runs on state a previous call left.

### `RegisterAllocationData.tla`: ownership and serialization

`RegisterAllocationData.h`. An object is `<<"heap", h>>` (a malloc block) or
`<<"file", o>>` (a record at byte `o` of the IR cache). The cache is a byte
sequence. A record is decoded field by field with little-endian `uint32_t`s
and the 9-byte packed header.

Actions:
- `Create(h, n)`: `SpillSlotCount` and `IsShared` are any byte the block
  held (`UninitBytes`), because malloc does not initialise them;
- `Allocate(h)`: the register allocator fills the object (spec-modelled);
- `CreateCopy(p, h)`: copies every field, `IsShared` included;
- `Serialize(p)`: appends `Encode(Obj(p))`, with `IsShared` written as 1;
- `LoadFromCache(o)`: the IR cache hands out a pointer into its mapping
  (spec-modelled);
- `Release(p)`: the `UniquePtr` deleter frees only what is not shared.

## 3. Runs

| Run | Expect | Checks |
|---|---|---|
| `relocations` | pass | `TypeOK`, `RecordsWellFormed`, `InstalledBlocksExact` |
| `corrupt_record` | violation | `InstalledBlocksExact` |
| `gaps` | pass | `TypeOK`, `GapsExact`, `LayoutAfterSteal`, `Termination` |
| `gaps_short_read` | violation | `GapsExact` |
| `gaps_long_line` | violation | `Termination` |
| `constprop` | pass | `SemanticsPreserved`, `ChangeReported` |
| `constprop_widths` | violation | `SemanticsPreserved` |
| `allocator_startup` | pass | `TypeOK`, `SbrkDisabled`, `DisableSBRKReturns`, `VASizeCorrect` |
| `ra_data` | pass | `RecordsRoundTrip` |
| `ra_leak` | violation | `NoLeak` |
| `jit_symbols_fd_reuse` | violation | `OnlyPerfMapTouched` |
| `hangover_round_trip` | pass | `TypeOK`, `ContextRoundTrip` |

**The properties**

- `RecordsWellFormed`: every stored relocation's window lies inside the
  record's code, begins on the slot it must patch, and does not overlap
  another window. This is what the NOP padding guarantees.
- `InstalledBlocksExact`: for every installed block, the bytes at its host
  offset are exactly what a fresh compile of that block, by that thread, in
  this process, would place there, and lie inside the buffer. The
  installer clears the buffer once and does not re-test, so this holds
  only if the capacity test counts the whole block. The property covers:
  - installs by another thread, and after a restart;
  - installs after a mid-install clear, and after a failed install left
    partial patches;
  - wrapping guest offsets;
  - constants whose length class changed.

**What the runs show**

- `relocations` passes. Each property has a mutant that TLC catches:
  - patching at the relative offset, not `CursorEntry + Offset`;
  - emitting a move without NOP padding;
  - a capacity test that lets a block end one byte past the buffer;
  - `LoadObjCache` accepting the files of another build (caught by
    `TypeOK`, which requires the store's cookies to be the running build's).
- `corrupt_record` fails. `ApplyRelocations`' `switch` has no `default`, so a
  relocation of unknown type is skipped. The block is installed with the
  compiling thread's exit-linker (see the finding in `PROJECT.json`).

- `GapsExact`: when `CollectMemoryGaps` returns, its list is exactly the
  maximal unmapped runs of `[Begin, End)`, in increasing order, however the
  reads split the lines.
- `LayoutAfterSteal`: the steal never aborts. Afterwards:
  - pages the process had mapped are untouched;
  - the gap below the stack is RW;
  - every other page of the range is `PROT_NONE`;
  - after reclaim only the stack gap stays mapped.
- `Termination`: `CollectMemoryGaps` returns.
- `SemanticsPreserved`: at every step of the pass, every load, store and
  root of the block computes what it computed before the pass, for every
  input.
- `ChangeReported`: if the pass ends with `Changed` false, the block is
  unchanged.

More mutants that TLC catches:
- for `gaps`: a gap not clipped to `Begin`; a read asking for the whole buffer; a stack-gap test with `>=`; EOF only on error;
- for `constprop`: an ADD fold not masked to its size; constant pooling without setting `Changed`.

Violations found, each a finding in `PROJECT.json`:
- `gaps_short_read` (`ShortReads` and `ReadErrors` both TRUE) fails in two ways:
  - a short read of `/proc/self/maps`, which the kernel gives at page
    boundaries, is taken as the end of the file (line 240), and the gaps
    after it are lost;
  - a failed read (-1, for example `ENOMEM`) is not taken as the end of the
    file, and it drops the last buffered byte of a split line, which then
    parses as another address. `ReadErrors` alone reproduces this.
- `gaps_long_line`: a line longer than the buffer makes `read` ask for 0
  bytes (line 237). The zero return is not taken as EOF when the buffer is
  full, so the loop never ends.
- `constprop_widths` (`MCConstPropWidths.cfg`) shows three width bugs at
  once; `PROJECT.json` names the single constant that isolates each:
  - folding a 4-byte LSHL by 32 or more gives 0, while the op shifts by the
    count modulo 32. The pass's own inline phase masks the count with 31.
  - `1 << Constant2` in `int` with a count of 32 or more is undefined. On the
    hosts it wraps modulo 32, so an index shifted by 33 is taken as scaled by 2.
  - AND/OR x,x is replaced by a wider x, and the OR/XOR folds are unmasked,
    dropping the op's zero-extension.
- `ra_leak` (`MCRALeak.cfg`): `NoLeak` fails in two ways. `Create` leaves
  `IsShared` as malloc found it, so a block created over a nonzero byte is
  never freed (`RegisterAllocationData.h:92`); `CreateCopy` of an object
  loaded from the cache copies `IsShared = 1`, so the copy is never freed
  (line 103).
- `jit_symbols_fd_reuse`: the comment on `InitFile` says the writer must
  survive the guest closing its descriptor. Only `EBADF` makes it let go.
  In five steps:
  1. FEX opens the perf map.
  2. The guest closes FEX's descriptor.
  3. The guest opens a file of its own and gets the same number.
  4. `Register` writes perf lines into the guest's file.
  5. At exit, the destructor closes the guest's file.

- `SbrkDisabled`: whenever `DisableSBRKAllocations` has returned a guard,
  the break sits exactly at the guard and no `sbrk` glibc may ask for
  succeeds. `DisableSBRKReturns`: the function returns, because its
  `while (sbrk(n) != INVALID_PTR)` loops end at the guard page. Mutants:
  - the halving loop stopping before the 1-byte step;
  - shifting the increment the wrong way;
  - the loop also running with an increment of 0, which never fails.
- `VASizeCorrect`: every call returns at most the host's width, and the
  host's width whenever one of its probe pages was free, on either kind of
  kernel, whether it probes or answers from its cache. Mutant: taking any
  successful mmap as found, which on an old kernel that places the page
  elsewhere returns a width the host does not have. When every probe page
  of the host's width is taken, a narrower width is returned by design;
  on a 48-bit host `Steal48BitVA` then reserves nothing (a hazard in
  `PROJECT.json`).
- `ContextRoundTrip`, an action property: every return of
  `hangover_fex_run` whose guest code changed nothing hands Wine back the
  context it was given, with the selectors cut to 16 bits and the status
  word cut to bits 8-14, whatever earlier calls left in the state. Mutant:
  the store shifting C3 to bit 13, into TOP. The run's `TypeOK` (TOP in
  0..7) catches a load that masks TOP with 0b1111 and takes C3 along.
  The exception flags and the
  busy bit are lost on every call, because `CPUState` has no place for them.
  `gs_cached` is not reset by `LoadStateFromWinContext`: a base the guest
  gave `gs` outlives a context Wine changes. The selectors carry no bases,
  so the round trip cannot see this; it is a hazard in `PROJECT.json`.
- `RecordsRoundTrip`: every record reads back with the fields of the object
  it was serialized from and lies within the cache. Mutant: writing
  `MapCount` before `SpillSlotCount`.

**Fairness.** Only `gaps` and the `SbrkGuard` half of `allocator_startup` assume fairness, each for a
routine that runs to completion on one thread. The other runs check safety
only. The JIT has no obligation to compile or install any
block, and restarts are bounded. Nothing obliges glibc or the callers of
`DetermineVASize` and of the register allocation data to take a step.

## 4. Not modelled, and why

Modelled in part:
- the Hangover glue: EFlags and `FloatSave.TagWord` (helpers not under
  `src/`); `hangover_fex_init` only sets configuration and creates the
  `Context`.
- the host allocator: `FEX_mmap`, `FEX_munmap`, `SetupHooks` and
  `ClearHooks` only forward to the 64-bit allocator, which is not under
  `src/`.

Not modelled at all:
- `SourcecodeResolver.h`: `Find` and `IterateLineMappings` are
  `std::lower_bound` over vectors sorted by the map generator, which is not
  under `src/`, followed by a containment test or an overlap scan. A model
  would have to assume the sortedness it depends on, and would then check
  the library's binary search. `SymName` is formatting. The one numeric
  edge, `FileBegin + Size` wrapping in `IterateLineMappings`, needs a block
  ending at 2^64.
- FEXServer's bootstrap, the syscall pass-through handlers, and the
  thunk/guest headers. These are I/O and declarations, with no state of
  their own.
- `NamedRegionObjectHandler.cpp`, which is compiled out (`#if FIXME`).
- ConstProp's LSHR/ASHR/ROL/ROR/.../SEXT cases (lines 129-175), which are
  commented out, and the AArch64 immediate heuristics, which call vixl
  (not under `src/`). The model takes the x86-64 host's heuristics.
- the guest signal test.
