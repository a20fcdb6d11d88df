# Model checking the MP/M II system generator

This directory holds TLA+ models of the Python tools in `src/tools/`, the
TLC configurations that check them, and `PROJECT.json`, which maps every
definition to the source lines it models and lists the runs, mutants,
findings and hazards.

## The system

`src/tools/gensys.py` builds `MPM.SYS`, the image the MP/M II boot loader
(MPMLDR) reads. It is one sequential Python call,
`SystemGenerator.generate()`, made of these parts:

| Part | Code | State it changes |
|---|---|---|
| Module loader | `SPRModule.load`, `get_bitmap`, `RSPModule.load`, `load_modules` | the module records (`code`, `psize`, `dsize`); the RSP list, which skips RSP files that do not exist |
| Relocator | `SPRModule.relocate` | `code` (MSB-first bitmap, `(b + page) & 0xFF`) and `base` |
| Layout planner | `calculate_memory_layout`, `load_and_relocate_module`, the lock and console steps of `generate`, `setup_memory_segments` | `cur_base`, which grows downward from `mem_top`; the region bases; SYSTEM.DAT page fields |
| Cross-reference patcher | `generate` | slices copied between modules after relocation (`resbdos009/012`, `xdos003`, `sysdatadr`, the BNKXDOS jump table, `bnkxios000`); the RSP list (`pd_link`) and the BRS list (RSPBASE, link, INITSP to `pd_stkptr`) |
| SYSTEM.DAT builder | `setup_system_data` and the stores of `generate` | the 256-byte `system_data` |
| Image assembler | `write_module`, the end of `generate` | `mem_image`, the record count, the reversed 128-byte records, `output` |
| Configuration and CLI | `SystemConfig.from_json`, `create_default_config`, `main` | the configuration: defaults overwritten by the JSON's known keys, then `-o` |
| Output | `main` | MPM.SYS written under `spr_dir`, then SYSTEM.DAT |

The parts interact only through the order of `generate()`. Each module is
placed at `cur_base` minus its pages and relocated there. Blocks are then
captured from its relocated code and patched into modules loaded later.
The BRS loop runs after every RSP has its final address. The image is built
last, once every address is fixed.

Other tools:
- `mkmpm.py` builds a fixed image from hard-coded addresses, with its own
  SPR reader and relocator.
- `dri_patch.py` overlays a base file, Intel HEX files, binary patches and
  copied byte ranges onto one address map, and writes a window of it as a
  binary or Intel HEX file. `build.py` runs it once, to put LDRBDOS at
  D00H over the linked MPMLDR.
- `imd2raw.py` converts ImageDisk files to raw images.
- `build.py` builds the binaries from source. It finds each source
  (a local override first), assembles or compiles it with `um80` and
  `uplm80`, and links with `ul80`. The CP/M runtime object is built once
  and cached. For MPMLDR it extracts LDRBDOS from DRI's MPMLDR.COM into
  a cached `ldrbdos.bin`, then runs `dri_patch.py` over the linked
  loader and that file.

## What is hard here

The program is single-threaded, so nothing interleaves. The hard parts are
the order of steps and the edge cases of Python's byte handling:

- **Slices resize.** `buf[lo:hi] = v` grows or shrinks `buf` when the slot
  and `v` differ in length, or when `lo` is negative. A patch can therefore
  silently change a module's length or SYSTEM.DAT's length, where the spec
  wants PatchOutOfRange.
- **Errors come late.** There is no LayoutOverflow check. A negative
  `cur_base` surfaces only when a page number is next stored into a
  `bytearray` (ValueError) or packed as a word (struct.error). Modules are
  already relocated at negative bases by then.
- **Read-before-write.** INITSP must be read from the BRS word that the
  list link overwrites.
- **Lists across loops.** The RSP and BRS lists are built with loop-carried
  variables (`prev_rsp_addr`, `rsp_link`, `brspl`, `brsp_base`) over RSP
  lists in which a BRS may be missing.
- **Region sizes.** The sizes are constants (1 or 2 pages) where the format
  needs `ceil(n/4)`, and the user stacks are derived from the wrong region.

## Modules

### `PrlRelocate` (+ `MCPrlRelocate`)

Models `SPRModule.load`, `get_bitmap` and `relocate` at byte level.

- A file is abstracted to `hdr` (whether the file has 256 header bytes),
  `psize` and `body` (the bytes after the header).
- `Load` raises ValueError when the header or the code is cut short.
  Otherwise it keeps the code.
- `RelocateModule` re-reads the bitmap from the file, as `get_bitmap` does.
  It then applies `Relocate`, a translation of the loop with its
  `bitmap_byte < len(bitmap)` test and `& (1 << (7 - idx % 8))`.
- The reference `SpecRelocated` is written from spec 4.2, with bit
  arithmetic (`\div`, `%`) rather than `&`.

### `GenSys` (+ `MCGenSys`)

Models the whole of `generate()`, with one action per step:

- `LoadModules`, `SetupSystemData`, `CalculateMemoryLayout`
- `LoadResbdos`, `LoadXdos`
- `LoadRsp` (one loop iteration) and `EndRsps`
- `LoadBnkxios`, `LoadBnkbdos`, `LoadBnkxdos`, `LoadTmp`
- `LoadBrs` (one loop iteration) and `EndBrs`
- `AllocLock`, `AllocConsole`, `SetupMemorySegments`, `BuildImage`

`pc` names the next step. Each action ends in the next `pc` or in `Fail`,
which models the exception reaching `main`'s handler. The error disjuncts
come from the Python semantics:
- `ByteOK`: a `bytearray` item store raises ValueError for a value outside
  0..255, and IndexError past the end;
- `WordOK` and `PackOK`: `struct.pack_into('<H')` raises struct.error;
- `UnpackOK`: a short `unpack` raises.

Data abstraction:

- A module is its `psize`, `dsize` and `len` (the length of `code`), its
  `base`, and `reloc` (how many times it was relocated).
- A module also carries `bad` (set when a slice resized it) and `fld`, the
  words and blocks at offsets the program reads or patches.
- A copied block is a token naming its source module, offset and length,
  and whether the source had been relocated when it was read. Copying a
  block is therefore modelled by what it carries, and patching it by where
  it lands.
- `PutSlice` implements Python's slice-assignment rules on lengths
  (`PyIdx` normalises negative and past-the-end bounds).
- `RelocWord` is the effect of the relocation loop on a word whose high
  byte the bitmap marks.
- SYSTEM.DAT is its length `sdLen` plus the fields the properties read.

`BuildImage` keeps `write_module`'s fit check and the final stores as
guards, not failure disjuncts. No reachable layout makes them raise. If one
did, the model would deadlock and the run would report it.

### `MemoryImage`

The abstract specification of the image (spec 4.5):
- `plan`: the memory the layout intends, from `image_base` up to the
  SYSTEM.DAT page.
- `mem`: what the boot loader leaves in memory. It is empty until loaded.
- `Build`: while nothing is loaded, the plan may still change, so that an
  implementation whose plan is computed as it goes can be mapped to it.
- `Load`: the whole image arrives in one step, exactly as planned. Nothing
  changes afterwards.

### `ImageAssembly` (+ `MCImageAssembly`)

Models gensys `main` around `generate()`, and the end of `generate()`
cell by cell.

`main` comes first:
- `Main` takes the branches that never call `generate()`:
  - `--init`: `create_default_config` writes the defaults. That call is
    outside the `try`, so a failed write ends Python with a traceback and
    status 1.
  - no configuration: the help, and 1.
  - a configuration that is missing or not JSON: caught, and 1.
- `Generate` loads the configuration (`LoadConfig`). `FromJson` overwrites
  the defaults with every key that is a field and ignores the others. `-o`
  then replaces `output`. `generate()` may raise, and the handler returns
  1; otherwise the assembly below runs.

A configuration is kept as the three fields that name files: `spr_dir`,
`output` and `system_dat`. The other fields only reach `generate()`, whose
results are the `Layouts`. A file is a `<<directory, name>>` pair.
`OutPath` and `DatPath` are `spr_dir / output` and `spr_dir / system_dat`.

A byte is the cell it holds:
- `<<module, offset>>` for a code byte;
- `Zero` for the fill;
- `<<"SD", i>>` for a SYSTEM.DAT byte.

One action per step:
- `Alloc` creates `bytearray(image_size)`.
- `WriteModule` is `write_module` for `modules_to_write[i]`.
- `CopyXiosTbl` copies `bnkxios000` with Python's resizing slice
  (`Splice`).
- `Finalize` computes the record count from the unpadded length, pads,
  reverses the 128-byte records and prepends SYSTEM.DAT.
- `WriteOutput` and `WriteSystemDat` are the two `Path.write_bytes` calls,
  to `OutPath` and `DatPath`. Each can raise before the file is touched or
  after truncating it, and the handler returns 1.

The layout is an input. `MCImageAssembly` builds the layouts the way
`calculate_memory_layout` does: SYSTEM.DAT, TMPD.DAT when there are
consoles, XIOSJMP.TBL, then RESBDOS, XDOS, BNKXIOS and TMP downward, and a
page of LCKLSTS.DAT at `image_base`.

The refinement mapping translates the output file into memory the way
MPMLDR loads it (spec 4.5; the loader is not in this repository). File
record `r >= 2` goes to the 128 bytes ending `128*(r-2)` below
`mem_top*256`, for `r` below the record count stored at SYSTEM.DAT 120.
`ImplementsMemoryImage` (`MI!Spec`) then says the file reproduces the
planned memory.

### `Mkmpm` (+ `MCMkmpm`)

Models `mkmpm.py`. Its 25 KB image is kept as the log of writes made to
it, in order.

A module file is abstracted to its first four header bytes and the number
of bytes after the header. `ReadSpr` translates `read_spr`:
- base from bytes 0-1 and a page count from bytes 2-3;
- the code is `data[256 : 256 + pages*256]`;
- the page delta is `((target - base) // 256) & 0xFF`, or no relocation
  when the base is 0 or the target.

The actions follow `main`:
- `LoadSpr` is one iteration of the `spr_files` loop: a missing file is
  skipped, otherwise `place` (which skips out-of-range writes);
- `PlaceBnkxios`, `FillXiosRet`, `CopyHeader`, `SetRecordCount`;
- `WriteComplete` and `WriteMpmSys`, whose exceptions nothing catches.

Not checked, for lack of a stated contract for this secondary tool:
- that a missing or skipped module stops the build (spec 7's rule for
  gensys);
- that the file is ordered for MPMLDR's downward load, which the comment
  at `mkmpm.py:237` and the docstring name as its loader; `Mkmpm` keeps
  the image as a log of writes, not the file's record order;
- that no module overruns into the next one: `place` checks only the
  end of `mem`, and the files `MCMkmpm` enumerates do overrun.

All three are listed as hazards.

`MCMkmpm` gives files in two header layouts:
- `Based`: the layout `read_spr` expects;
- `Prl`: the layout of spec 4.1, with `psize` at bytes 1-2.

### `DriPatch`

Models `dri_patch.py`'s `main`, one action per step. `Extract` is the
`--extract` mode: it writes `data[start:end]` of the first input, clamped
like a Python slice. The rest is build mode (lines 326-510):
- `LoadBase`: a missing base is an error; Intel HEX if it parses, else
  binary at `@OFFSET` (the bare `except` falls back on any error);
- `AddHex`, `AddPatch`, `AddCopy`, `AddInput`: one iteration of each loop.
  Each loads a dict and overlays it with `ApplyPatch` (copy, then assign
  the patch's bytes), and `update_bounds` widens `gmin`/`gmax`. A missing
  file, or a `--hex` that does not parse, ends `main` with 1. `--copy`
  reads what is left of the file (`CopyLen`), and a short read only warns.
- `EndLoop`: the end of one of the four loops;
- `OutputParams`: the empty check, then `start_addr` (`--start`, or
  `global_min or 0` when it is the string `'0'`) and `output_size`;
- `RangeCheck`: any address outside `[start, start + size)` is fatal under
  `--overflow error`, and passes under `warn` and `ignore`;
- `WriteOutput`: `dict_to_binary` (fill, then the bytes inside the
  window) or `write_intel_hex` (addresses folded to 16 bits). The open or
  the write may raise.

A byte is the cell `<<file, index>>` it was read from. An Intel HEX file
is abstracted to the address map `parse_intel_hex` returns, or to "does
not parse". Command-line string parsing is left out.

`DriPatch` has no MC module of its own. `Build` instantiates it, and
`MCBuild` gives it the command lines run by hand.

### `Build` (+ `MCBuild`)

Models `build.py`. The variables split in two groups.

`dri_patch.py`'s variables are those of `DriPatch`, plus `dfiles`, the
file system it reads. `DP(F) == INSTANCE DriPatch WITH Files <- F` is
used as `\E F \in {dfiles} : DP(F)!Next`. `Files` is a constant of
`DriPatch`, and the files do not change while one `dri_patch.py` runs.

The build's variables:
- `bpc`: where the build is;
- `sel`, `k`, `j`: the targets, the target, the source;
- `rels`, `allOk`, `succ`, `fail`: the code's locals;
- `brc`: main's exit status;
- `outputs`: each target's file in `bin/src`, with the run that wrote it;
- `runtime`: `cpm_runtime.rel` exists;
- `ldr`: `ldrbdos.bin`;
- `layout`: which tree holds each source.

The file system outlives a run of `build.py`, and the model runs it
`MaxMains` times. Its actions:
- `Main`: `--clean` (removes both trees, caches included), `--list`,
  `--asm-only`, target names (no match exits 1), or everything;
- `BeginTarget`, `EndBuildAll`: `build_all`'s loop and exit status;
- `Concat`: the concatenated path, where any missing or unreadable
  source returns False;
- `CompileSource`: one source of the normal path. A missing source is
  skipped with `all_success = False`; `.ASM` goes through `um80`, `.PLM`
  through `uplm80` then `um80`;
- `EndSources`: no object means no link;
- `Runtime`: the cached runtime;
- `Link`: `ul80`. A failed link leaves the old file or a partial one;
- `Post`: `post_build_mpmldr`. It extracts `data[0C00H:0C00H+0A80H]` only
  when `ldrbdos.bin` does not exist; a write can fail at the open or
  part-way. It then starts `dri_patch.py` with the exact command
  (`PostBuild`);
- `DriStep`: one step of `dri_patch.py`;
- `DriDone`: the return code, and the file `dri_patch.py` left.

External tools and file writes fail nondeterministically, at most
`MaxFaults` times in all. When `bpc = "cli"`, the same variables run
`dri_patch.py` by hand instead, over `Invocations`.

### `Imd2Raw` (+ `MCImd2Raw`)

Models `imd2raw.py`:
- `NoTerminator`: a header without 1AH raises.
- `ParseTrack` is one pass of `parse_imd`'s while loop. An invalid size
  code, or a file that ends inside the sector map, ends the loop silently.
  The sector loop stops where the file ends. A compressed sector whose
  fill byte is missing raises IndexError. `sectors` is a Python dict, kept
  as an insertion-ordered list (`DictSet`), so a repeated sector number
  keeps its place and takes the new data.
- `ParseEmpty` handles a file with no track records.
- `Geometry` takes the highest cylinder and head, and the first track's
  size and sector count. With no tracks it returns and writes nothing.
- `CopyTrack` copies one track's sectors in dict order, at
  `((cyl*heads + head)*spt + sec_idx)*size`. A sector that would end past
  the image is skipped.
- `WriteRaw` writes the image; the write may fail.

The file is given as track records, not as bytes. Lengths are counted in
128-byte units, so size code `c` is `2^c` units.

## Runs

| Run | Checks | Shows |
|---|---|---|
| `prl_relocate` (pass) | `TypeOK`, `RelocatedAsFormatDefines` | For code sizes 0..16 across the bitmap-byte boundary, seven bitmap bytes (single bits at both ends, mixed, all ones) and two base pages (one wraps), the relocated code is exactly the format's definition. |
| `prl_truncated_bitmap` (violation) | `LoadRejectsMissingBitmap` | A file cut short inside its bitmap is loaded and relocated (finding). |
| `gensys_pass` (pass) | `TypeOK`, `LayoutDisjoint`, `ForegroundListWellFormed`, `CompanionListWellFormed`, `StackPointerHandOff`, `CrossReferencesResolved` | See below. |
| `gensys_tmpd_consoles` (violation) | `LayoutDisjoint` | 9 or 12 consoles: TMPD.DAT is placed at `mem_top - 2` but needs 3 pages, so its third page is SYSTEM.DAT's page `mem_top` (finding). |
| `gensys_xios_offset` (violation) | `CrossReferencesResolved` | An XIOS with an absolute common-memory JP target, or with COMMONBASE in its last 17 bytes: BNKXIOS grows by 14 bytes or is left unpatched, and generation still completes (finding). |
| `image_assembly` (pass) | `TypeOK`, `ModulesIntactInImage`, `ExitStatusHonest`, `ImplementsMemoryImage` | Covers 24 layouts, every branch of gensys `main` and every failure of the two writes. The file loaded downward is exactly the planned memory. `main` returns 0 exactly when the files the user named hold this run's output. |
| `image_short_xios` (violation) | `ImplementsMemoryImage` | A 90-byte BNKXIOS shrinks `mem_image` in the XIOSJMP.TBL copy, and the loader, which loads the records downward from the top, puts the pages below the table and above it at wrong addresses (finding). |
| `mkmpm_pass` (pass) | `TypeOK`, `OutputsInStep` | For 240 combinations of SPR files and every failure of the two writes, a failed write is never a normal return, and MPM.SYS is never ahead of MPM_complete.SYS. |
| `mkmpm_header_offsets` (violation) | `PlacedAsFormatDefines` | Files in the spec 4.1 format are cut or overrun and not relocated to their target (finding). |
| `build_pass` (pass) | `TypeOK`, `OutputIsOverlay`, `BuildStatusHonest` | `dri_patch.py` is run by hand over 8649 command lines, and by two runs of `build.py` with up to two faults. A binary output reported as written is the in-order overlay of the inputs through the window. `build.py` exits 0 only when every target it walked was built whole by that run. |
| `build_mpmldr_layout` (violation) | `MpmldrIntact` | With no fault at all, a run that selects MPMLDR exits 0 although its 25-byte linked loader (longer than the 24 bytes below LDRBDOS in the scaled layout, 0C00H in the real one) has lost its last byte under LDRBDOS (finding). A short `ldrbdos.bin` left by a failed write breaks it the same way in every later build. |
| `imd2raw_pass` (pass) | `TypeOK`, `CHSLayout` | For usual and unusual 2x2x2 disks, every disk of the usual shape becomes the cylinder-head-sector image. |

`gensys_pass` checks the union of two sets of configurations. The layout
set covers:
- consoles 1, 4, 5 and 8 with segments 1, 4, 5 and 8, with and without
  per-segment stacks;
- zero consoles, with one and with four segments, with and without stacks;
- every `mem_top` from 0 to 44, which makes each allocation step in turn
  the first to run out of memory, and includes the layout that ends exactly
  at page 0;
- `mem_top` 256;
- a BNKXIOS too short for its JP, an RSP too short for `pd_link`, a BRS
  too short for INITSP, a common base above BNKXIOS, and a RESBDOS of 100
  or 230 bytes, whose copyright and serial slices shorten SYSTEM.DAT (the
  next store past its new end raises IndexError).

These configurations fire every action and every disjunct of `Next`. Every
run that completes has all regions disjoint and within `[0, mem_top]`.

The cross-reference set covers every RSP list of up to three entries
drawn from:
- an RSP with a BRS,
- an RSP without one,
- an RSP with a large BRS,
- an RSP whose file is missing.

Each list is checked with zero or two consoles and with the standard and
the emulator XIOS, 340 configurations in all.

### The properties

- `LayoutDisjoint`: when generation completes, every region lies in
  `[0, mem_top]` and no two share a page. The regions are SYSTEM.DAT,
  TMPD.DAT, USERSYS.STK, XIOSJMP.TBL, each module, LCKLSTS.DAT and
  CONSOLE.DAT, each sized by the spec's formula. It is stated only for
  completed runs, because the code relocates modules at negative bases
  before a later store raises.
- `ForegroundListWellFormed`: from `rspl` the `pd_link` words visit every
  loaded RSP exactly once, lowest first, and end at 0. `nmb_rsps` and
  `rsp_base` agree with them. `ChainFrom` follows the links with a fuel
  bound, so a cycle shows up as a chain that is too long.
- `CompanionListWellFormed`: the same for the BRS list from `brspl`. In
  addition, every BRS's RSPBASE is its own RSP's address, and `nmb_brsps`
  and `brsp_base` agree.
- `StackPointerHandOff`: every RSP with a BRS has, at offset 6, the
  relocated INITSP that its BRS held at offset 2 before the link
  overwrote it.
- `CrossReferencesResolved`: every fixed patch of spec 4.4 holds with
  blocks read after relocation. No module and no SYSTEM.DAT byte was
  resized, and XIOSJMP.TBL received exactly 256 bytes.

- `ModulesIntactInImage`: after every write and the table copy, each
  module's code is intact at `base - image_base`.
- `ImplementsMemoryImage`: the downward load of the output file is the
  planned memory at every address, including the XIOSJMP.TBL page, which
  holds BNKXIOS's first page.
- `ExitStatusHonest`: `main` returns 0 exactly when it did what it was
  asked. With `--init`, the named file holds the default configuration.
  Otherwise the configuration could be read, and under its `spr_dir` two
  files hold this run's bytes:
  - MPM.SYS, at the name `-o` gives, or else the file's `output`, or the
    default;
  - SYSTEM.DAT, at its `system_dat`.

  What the user asked for (`Asked`) is stated from the arguments and the
  JSON directly. An override applied in the wrong order therefore shows up
  as a 0 with the asked-for file untouched.
- `OutputsInStep` (mkmpm): `main` returns normally only when both output
  files hold this run's image. MPM.SYS is touched only after
  MPM_complete.SYS was written whole, because the writes run in that
  order and nothing catches a failure.
- `OutputIsOverlay` (dri_patch): a binary output that `main` reports as
  written equals the reference overlay through `[start, start + size)`,
  with the fill byte in the gaps. The reference overlay (`Overlay`) lists
  the loaders' dicts in command-line order and takes, at each address,
  the last dict that defines it.
- `BuildStatusHonest` (build): when `main` exits 0, every target it
  walked has a file written by this run. That file is linked from an
  object of every source, taken from the override tree where there is
  one, plus the runtime unless `skip_runtime`. For MPMLDR it is then
  patched by `dri_patch.py`. The property needs `all_success`, the early
  returns, the post-build result and `build_all`'s count to agree across
  several steps. A file left by an earlier run does not count.
- `MpmldrIntact` (build, violation run): when `build.py` has exited 0 for
  a run that selected MPMLDR, its MPMLDR.COM holds every linked byte at
  100H and all 0A80H LDRBDOS bytes at 0D00H, as `post_build_mpmldr`'s
  comment lays out.
- `CHSLayout` (imd2raw): for a disk of the usual shape (`Standard`: every
  track has the first track's size and count, sectors numbered within
  1..spt, no two tracks on the same cylinder and head), each sector's
  units sit at `((c*heads + h)*spt + s - 1)*size`, and every slot no
  sector fills is E5H.
- The `TypeOK` of `DriPatch` also says that every byte of `combined` is a
  byte its file really has. The `TypeOK` of `Imd2Raw` says that the image
  keeps the size the geometry gives it.

Each property of a passing run is broken by a mutant of the code it is
about (`PROJECT.json` "mutants"):
- relocation without `& 0xFF`, and with the bitmap read LSB-first;
- XDOS relocated twice;
- pages counted without `dsize`;
- `prev_rsp_addr` updated before the pack;
- `brspl` stored as a page;
- INITSP read after the overwrite;
- the SWTUSER and PDISP blocks swapped;
- `write_module` one byte off;
- the jump table copied a page low;
- the records written unreversed;
- `-o` applied before `from_json`, so the file's `output` wins;
- mkmpm's `place` without its end check;
- a failed mkmpm output write caught and ignored;
- `--copy` taking the requested length as read;
- `apply_patch` keeping the base's byte over the patch's;
- `build_target` returning the post-build result without `all_success`;
- imd2raw copying a sector without the fit check (the bytearray grows);
- the sector number used as the index without `- 1`.

### Bounds

- Code lengths in `PrlRelocate` reach 16, so two bitmap bytes and both
  partial-byte cases occur. Base pages 64 and 192 make `b + page` wrap for
  the code patterns used (0x10, 0xF0, alternating).
- Module sizes in `MCGenSys` are the size class of the DRI files, 2 to 13
  pages. XDOS's `dsize` crosses a page, so forgetting `dsize` changes the
  layout.
- Three RSPs give two links in each list plus the skipped cases.
- Consoles and segments are taken on both sides of 4 and at 8, the points
  where the code's region sizes change. Every `mem_top` below the required
  43 pages is tried.

- `MCImageAssembly` takes RESBDOS of 200 and 256 bytes, BNKXIOS of 256,
  300 and 512 bytes, TMP of 100 and 256 bytes, with and without TMPD.DAT.
  These are the cases where a module ends mid-page and where the jump
  table is a whole module or a part of one. Real byte counts are kept, so
  the 128-byte record arithmetic is exact.
  Six argument lists reach every branch of `main`: `--init`, nothing, an
  unreadable file, and three configuration files:
  - one as `--init` writes it;
  - one with another `spr_dir` and `output`, run with `-o`;
  - one whose misspelt key `from_json` ignores.

  No file names MPM.SYS and SYSTEM.DAT alike; see the hazards.
- `MCMkmpm` uses mkmpm's own hard-coded addresses. RESBDOS takes five
  shapes: its exact slot, one page into XIOSJMP.TBL, a spec-format file
  that reads as 4108 pages, one page past the end of `mem`, and missing.

- `MCBuild` has three targets, one of each shape:
  - MPMLDR: PL/M and assembly, no runtime, with the post-build step;
  - RESBDOS: two assembly sources, concatenated;
  - GENSYS: PL/M and assembly, with the runtime.

  It has three source trees:
  - the distributed tree;
  - an override, with a missing source in a normal and in a concatenated
    target;
  - an override, with GENSYS left with no source and no DRI MPMLDR.COM.

  `build.py` runs twice, with every kind of argument, so a cache written
  or damaged by the first run is used by the second. `MaxFaults = 2` lets
  any two tool runs or writes fail. An example is a damaged cache in the
  first run and a failed link in the second.

  Lengths are in units of 80H bytes:
  - the loader links at 2 (100H) and is 23 or 25 long, the latter past
    0C00H;
  - LDRBDOS is 21 (0A80H) at 26 (0D00H);
  - DRI's MPMLDR.COM is 45 long;
  - a failed write leaves 8.

  The builds give about 35,000 states; `dri_patch.py` run by hand gives
  the rest.
- The hand-run `dri_patch.py` command lines (`MCInvocations` in
  `MCBuild`) use seven files:
  - a 4-byte binary, a 2-byte LDRBDOS and an empty binary;
  - two HEX files that overlap each other and the binaries;
  - a corrupt HEX file;
  - a missing file.

  Command lines combine the base (none, binary, HEX, corrupt, missing),
  `--hex`, `--patch`, `--copy` (a short read, a missing source) and input
  files. They are taken with and without `--start 2` and `--size 3`, in
  error and warn mode, in binary and HEX output. Nine `--extract`
  lines take slices inside, past the end of, and reversed in a file, with
  no input and with a missing one. One HEX byte lies at
  exactly `start + size`, the first address the range check must
  reject. Every action and every error branch fires.
- `MCImd2Raw` has 2 cylinders, 2 heads and 2 sectors a track. It includes
  interleaved maps, every sector type (0-9), tracks out of order or
  missing, 256-byte sectors with a short last sector, and the unusual
  disks: 0-based numbering, a repeated number, a first track of another
  density, a sector number above spt, a bad size code mid-file, a cut
  sector map, a file ending in a track, a missing fill byte, no tracks,
  and no terminator.

### Fairness

`generate()`, like the `main` of mkmpm, dri_patch and imd2raw, is
straight-line code with bounded loops, run once. Their specifications
carry weak fairness on every non-final step (`WF_vars(Next /\ pc \notin
{"done", "failed"})`), which says only that the program keeps executing;
`Build`'s specification has none. `Terminated` stutters once the call has
returned or raised, so deadlock checking stays on and catches any state
where the model has no step the code would take.

No run checks a liveness property. The loops are bounded, so their
termination shows nothing, and what could keep `build.py` from returning,
a tool that never exits, is outside the model (see below).

## Not modelled, and the plan

Modelled: `PrlRelocate`, `GenSys`, `ImageAssembly` with `MemoryImage`
and gensys `main`'s configuration handling, `Mkmpm`, `DriPatch` (build
and extract modes), `Build` and `Imd2Raw`.

Hazards that `PROJECT.json` lists without a property, and why:
- The mkmpm header copy, taken before the record count is set. It can be
  stated once the SYSTEM.DAT fields that MPMLDR reads from memory are known.
- `write_intel_hex`'s 16-bit addresses. This is modelled in
  `WriteIntelHex`, but every build.py call writes binary, and the
  configurations stay below 10000H.
- The base-HEX fallback to binary. This is modelled, but no document says
  what a corrupt HEX base should do.
- imd2raw's 0-based sectors, mixed density, repeated sector numbers and
  early end of parsing. These are modelled, and `MCImd2Raw` has such
  disks, but `CHSLayout` is stated for disks of the usual shape only, and
  no contract for the others is written down.
- The atomicity of writing MPM.SYS and SYSTEM.DAT (spec 5): a failed
  second write leaves the two files out of step. No kept run checks it;
  `ExitStatusHonest` checks only that the failure is reported.

- gensys `main`'s output paths. `config.output`, or `-o`, may name the
  same file as `config.system_dat`. SYSTEM.DAT then overwrites MPM.SYS,
  and the exit status is 0. `ImageAssembly` models the paths. With such a
  file in `MCJson`, TLC reports `ExitStatusHonest` violated. No run keeps
  that file.
- An unchecked `num_mem_segments`, listed with USERSYS.STK's size.
  `from_json` takes any value, and `setup_memory_segments` drops the user
  segments past the eighth table entry. Spec 3 calls such a configuration
  invalid, but does not say what generation should then do.
- The user stacks of a zero-console configuration. `calculate_memory_layout`
  derives them from `tmpd_base`, which it sets only when there are
  consoles. With one segment and stacks on, `MCGenSys` reaches a completed
  generation with the stack at address 0, outside USERSYS.STK; with more
  segments the second address is negative and `pack_into` raises. Spec 3
  allows zero consoles. A property stating where the stacks belong would
  be violated there, and no kept run states it.
- The termination of `build.py`. `Builder.run` waits for every tool
  through `subprocess.run` without a timeout, so `build.py` returns only
  if each tool does; the model can only assume that, and its own loops
  are bounded.
- Overruns between mkmpm's modules, and its output's record order (see
  `Mkmpm`).

Left out:
- In `build.py`:
  - the unknown-source-type branch: no target of `ALL_TARGETS` reaches it;
  - the `dri_patch.py` existence check: the file sits beside `build.py`;
  - exceptions the code does not catch (`shutil.copy`, the write of the
    concatenated file), which end `build.py` with a traceback and status 1;
  - a stale or partial `cpm_runtime.rel`. File contents are not modelled,
    and `um80` is taken to write its output only on success.
- `dri_patch.py`'s `--info` mode, which only prints.
- Intel HEX text parsing, abstracted to its result.
- The configuration fields that do not name files. They reach `GenSys`
  as its `cfg` constants. Also `to_json`'s text, and argparse's help and
  errors.
- `build.py`'s `ALL_TARGETS` table, which is data. `MCBuild` takes one
  target of each shape: concatenated, with the runtime, and with the
  post-build step. Running all of them would multiply the states without
  reaching a new branch.
- `_relocate_by_instruction` (never called).
- Logging.
- The constant SYSTEM.DAT flag bytes, which cannot fail and which no
  property reads.
