# A verification project for lxgr-dump and il2cpp-dumper-rs

The repository holds two programs. `lxgr_dump` (C, `src/main.c`, `lxgr_dump.c`,
`lxgr_il2cpp.c`) runs on an Android device and copies the memory of a running game to
a file, converts virtual to physical addresses, follows pointer chains and resolves
names through a generated index. `il2cpp-dumper-rs` (Rust) takes a game binary and its
metadata, finds the two registration structures, loads their tables and writes C#, C
headers, JSON and assemblies. `il2cpp_index.py` turns the JSON of the second into the
index of the first.

This directory models what in them has control worth checking: TLA+ modules, TLC
configurations for small instances, and TLAPS proofs for all instances.
`PROJECT.json` maps every definition to the source lines it stands for.

## 1. The system

### Components, their state and operations

| component | state | operations | hard behaviour | what makes it correct |
|---|---|---|---|---|
| dump engine (`lxgr_read`, `lxgr_dump_range`) | counters, a 64 KiB buffer, the output file | chunk loop, `process_vm_readv`, fallback to `/proc/<pid>/mem`, `pwrite` | the target unmaps pages meanwhile; short reads and writes; EINTR | every byte at its place, nothing outside the range, a returned count is the whole range, it returns |
| physical addresses (`lxgr_va_to_pa`, `lxgr_pa_to_va`, `lxgr_pamap_range`) | scan position, open files | one `pread` of the pagemap per page | pages move between reads, reads are short, the target exits, the scan limit, page sizes | an answer was true at some time of the call; nothing below the limit is missed; files are closed |
| pointer chains (`lxgr_resolve_chain`) | pointer so far, tokens left | one read per token | pointers change between reads; parts that do not parse | the result is a linked walk over the tokens |
| command line (`main.c`) | argv, segment array, output and pamap files | option lookup, `dump_lib`, `dump_range`, queries | one segment of several fails; overlapping file offsets; the 512-segment array | with status 0 the image is complete and right |
| name index (`lxgr_il2cpp.c`) | static blobs, the cached path pointer, mappings | `ensure_loaded`, `load_block`, `lookup` | a load that fails half way; a file cut short or corrupt; a caller that reuses its path buffer | an answer comes from the named index |
| index builder (`il2cpp_index.py`) | rows, seen hashes | `build`, `emit_bin` | equal hashes, truncated addresses | what `lookup` relies on: sorted, unique, first entry wins |
| physical map import (`pamap.rs`, flags of `run`) | entries, base | `load`, `pa_from_rva` | gaps, duplicates, wrap-around | an annotation is what was captured |
| registration layout (`base.rs`, `structures.rs`, `section_helper.rs`) | version, address | step back of the scan, AutoPlus heuristics, retry as 29 | versions that are known only roughly; empty tables | the tables read are the binary's |
| registration search (`main.rs`, `elf.rs`, `base.rs`) | strategies left, the object and its tables | strategies per format, `init_with_auto_plus`, table loads | a failed attempt on an object that is used again; loads passed over in CODM mode | tables, lookup and modules belong to the accepted candidate |
| type order (`cpp_type_dependency_graph.rs`) | queue, edges, order | `add_types_bulk`, `derive_dependency_order` | cycles, types mentioned but not declared | dependency order, nothing lost, cycles found and real |
| header emission (`cpp_ast.rs`, `struct_generator.rs`) | types written, recursion, cache | `emit_all_with_groups`, `recursion_struct_info` | two orders, groups, recursion with a cache | every type once, after what it holds by value |
| addresses of the binary (`base.rs`, `elf.rs`) | segments | `map_vatr`, `map_rtva`, `fix_program_segments` | segments that touch, memory that is not in the file, memory dumps | the byte read for an address is the one the loader puts there |
| struct infos (`struct_generator.rs`) | names, struct list, array classes, worklist | `build_struct_name_dic`, the parallel map, the merge, the fixpoint loop | results in any order; the first array class of a name wins; a list that grows while it is processed | the result of a loop over the types; every name defined once; an end |
| `dump.cs` and `DiffableCs` (`decompiler.rs`) | text, cache of method bodies, files | the parallel map, the merge, the parallel writes | methods that share code, types that fail half way, two types with one path, failing writes | the result of a loop over the types; each file its own type's |
| `run` (`main.rs`) | `Dump{n}`, stages, files, warnings | the choice of `n`, one stage after the other | two processes at once, a kill in the middle, failures that are warnings | finished dumps are left alone; success means written or warned |
| metadata, streams, format parsers, executor, disassembler, text of the outputs | tables, text | sequential parsing and generation | see section 8 | not modelled |

### How they interact

`main.c` calls the dump engine once per segment, `lxgr_pamap_range` after it,
`lxgr_resolve_chain` before it, and the index for `--il2cpp-resolve`; all of them look
at a process that goes on running. The `.pamap` file is read by `pamap.rs`.
`script.json` of the Rust program is the input of `il2cpp_index.py`, whose rows and
file are searched by `lxgr_il2cpp.c`. In the Rust program the metadata version starts
the registration search; the heuristics change version and address; the loaded tables
feed all outputs; `run` makes them one after the other, each in parallel over the types
with an executor per thread; the struct generator gives its declarations to the type
graph and writes the header in the order it gets back. Two processes of the Rust
program meet only in the output directory.

## 2. The modules

| module | models | composition |
|---|---|---|
| `LxgrDump`, `LxgrDumpProofs`, `MCLxgrDump` | dump engine and its target | |
| `IndexNames` | names, their hash and the width of a word | shared by the next two |
| `IndexPipeline`, `IndexPipelineProofs` | `build` then `lookup` | Python and C together |
| `IndexFile`, `IndexFileProofs`, `MCIndexFile` | file format, loading, cache, queries | the writer's layout and the reader's offsets |
| `LxgrPagemap` | pagemap functions, page table, kernel | |
| `LxgrChain` | pointer chains and the target's memory | |
| `LxgrCli` | `main.c` | uses the promise of `lxgr_dump_range` that `LxgrDumpProofs` proves |
| `PhysMap` | `pamap.rs` and the flags | reads what `LxgrPagemap` writes |
| `LxgrToolProofs` | theorems about LxgrPagemap, LxgrChain, PhysMap and LxgrCli | extends all four |
| `MCLxgrTool` | IndexPipeline, IndexFile, LxgrPagemap, LxgrChain, PhysMap and LxgrCli (extended); another instance of IndexFile (any caller, any index) | a behaviour belongs to one part |
| `AutoPlus` | version and address of the code registration | |
| `RegistrationInit` | strategies and table loads | takes from AutoPlus the versions a refinement can leave |
| `AddressMap` | addresses and offsets of a loaded binary | |
| `RegistrationProofs` | theorems about RegistrationInit and AddressMap | extends both |
| `MCRegistration` | RegistrationInit and AddressMap (extended), instance of AutoPlus | a behaviour belongs to one part |
| `TypeGraph` | dependency order | |
| `HeaderEmit`, `HeaderProofs` | header emission; theorems about the order and the header | extends TypeGraph, whose steps are its first phase |
| `MCHeader` | instance of TypeGraph alone and of HeaderEmit | a behaviour belongs to one part |
| `DumpRun`, `DumpRunProofs` | `run` as several processes, their directories and files | |
| `DumpTypes`, `DumpTypesProofs` | the types of `dump.cs` and `DiffableCs`, by a thread pool | one stage of DumpRun |
| `StructInfos` | the structs of `il2cpp.h`, by a thread pool | its result is what HeaderEmit writes |
| `InOrder` | abstract: a loop over jobs | implemented by DumpTypes and by StructInfos |
| `MCOutput` | instance of DumpRun, DumpTypes, StructInfos, with both refinement mappings | a behaviour belongs to one part |

### State and actions against the code

* **LxgrDump.** Memory is counted in cells; a cell of the file or the buffer holds the
  address its content came from, `Zero`, `Junk` (uninitialised heap) or `Old` (before
  the call). An action is one system call with the code around it: `ReadvSome`,
  `ReadvFault`, `OpenMem`, `PreadSome`, `PreadFault`, `WriteOk`, `WriteShort`,
  `Interrupted`. `Unmap`, `Protect`, `Map` and `Exit` are the target, between any two
  of them. `Protect` takes a page away from `process_vm_readv` only, since
  `/proc/<pid>/mem` ignores protection.
* **IndexPipeline.** `Take` is one turn of `build`, `Sort` its end, `Probe` one turn of
  `lookup`. Names are model values with an arbitrary function `Hash`, so collisions are
  in the model. Addresses are truncated modulo `Word` (32 bits in the code).
* **IndexFile.** A file is any sequence of words; `File` is the one that `emit_bin` would
  write, `Whole` a file that is that one and `CutShort` a beginning of it. The reader's
  offsets are arithmetic on whatever is there: `WordAt` reads the file, the zeros up to the
  end of its last page, or `Outside`, which stands for a signal or foreign memory. `AsInt`
  is the conversion of a count. `Ptrs` are the caller's path buffers, `str` what they
  spell; `cached` is a pointer, as in the code.
* **LxgrPagemap.** Two units, the constant 4096 of the shifts and the page size of the
  system, which may differ; `Joined` is the `|` of a shifted frame and an offset for
  either size. `held` is a history of which page was in which frame, `missed` one of the
  entries that could not be read. `Wholes` are the outcomes of a `pread`: of a process that
  is gone nothing can be read, and of a living one any read may be short.
* **LxgrChain.** A part of a specification is its parse result. `reads` is a history.
* **LxgrCli.** A word is a string; `Numbers` says what parses. `file` is a sequence of
  cells as in LxgrDump.
* **PhysMap.** A line is a pair of numbers, a dash or a comment.
* **AutoPlus.** Versions in hundredths. Addresses in pointers from the true start of
  the structure: 0 is right. A word of the image is "zero", "few" or "big", which is
  what the heuristics tell apart. `AllFields` is the field list of
  `Il2CppCodeRegistration::read`; layout and positions follow from it.
* **RegistrationInit.** `owner` says for each table from which strategy's candidate it
  was filled; `plan` is the list of loads of an `init`; each load is absent, succeeds or
  fails.
* **TypeGraph.** A turn of the inner loop is `PushBack` or `Emit`, a turn of the outer
  one `StartRound` to `EndRound`. Reference edges only choose forward declarations and
  are left out.
* **HeaderEmit.** A node is a type with a suffix. `Frame` is an activation of
  `recursion_struct_info` with what it still visits. All the structures of one type are
  written by one step.
* **AddressMap.** A segment is four numbers; `Ask` is one call of one of the functions.
* **DumpRun.** `Stages` is `run` from `decompile` on: which option turns a stage on,
  which files it writes, whether a failed write ends the process or is a warning. One
  name stands for files that are written alike. A file holds the process that wrote it,
  or is absent, empty, of an older dump or a mixture of two. `Open` and `Write` are the
  two halves of `fs::write`, so a kill or another process can come between them. `met`
  is a history: which processes ran at the same time.
* **DumpTypes.** A line of text is a type, the number of a method and the method its
  body was disassembled for, so that a body taken from the cache can be told from the
  method's own. `Take` and `Finish` are a thread of the pool at any two moments of a job;
  a job reads only what does not change during the map, so its result is computed in one
  step.
* **StructInfos.** A name is a sequence, `List_1` with the suffix 2 being the same as a
  type called `List_1_2`. `Process` is one turn of the inner loop over generic classes,
  `Drain` the end of a turn of the outer one.
* **InOrder.** One step per job: its text is appended, of its keyed fragments those with
  a new key are kept. DumpTypes implements it with `buf` as the output and the number of
  merged results; StructInfos with the struct list and the array classes, over the merge
  and the worklist.

## 3. Runs

| run | shows |
|---|---|
| `dump` | With short and failing calls, interruptions and a target that changes, the file holds the right bytes or zeros (`RightPlace`), nothing outside the range is touched (the same property), a returned count covers the range (`Complete`), a zero has a reason (`ZeroOnlyBehindHole`), finished chunks are final (`ChunksStay`), and the call returns. |
| `dump_holes` (violation) | A readable page behind an unreadable one in the same chunk is lost. |
| `index_half` (violation) | An index without fields, refused half way, changes what the cached index answers. |
| `tool` | The parts of the C tool. For every list of up to three entries, `build` keeps the first valid entry of a hash (`RowsOfFirsts`) and `lookup` finds it (`LookupCorrect`). Callers that leave the remembered string alone and headers that announce entries of both kinds: answers come from the named index, whole or cut (`CacheCoherent`, `OwnIndex`). Without these conditions a call that maps the file answers from it whatever happened before (`MappedLoadsRight`). A blob leaves its file, and a search the mapping, only where the file ends before the last row its header announces (`BlobsInside`). An address that was given was right at some time of the call, a range has a line for exactly the pages whose entry could be read, no file stays open (`LookupsRight`); a scan returns the first match up to its cap among the entries it could read (`P2VFirst`); chains are linked walks and, where the memory stands still, the dereference of their tokens (`ChainFollowed`); annotations are what was captured (`ImportRight`); with status 0 the image is the wanted segments, as many as the array holds, each cell that of the last segment covering it, and every exit closes its files (`CommandRight`). |
| `segment_cap` (violation) | Readable segments behind the end of the array are not dumped, and the status is 0. |
| `physmap_dash` (violation) | One page that was not present makes the import drop the capture. |
| `chain_doc` (violation) | A chain written as the documentation writes it is never followed. |
| `registration` | Of all binaries exactly those that `ReadRight` lists are read right (`TablesRight`), a statement in both directions: every other combination is read wrong; the lookup agrees with the tables (`LookupCurrent`); nothing of a rejected candidate is used outside ELF (`OnlyAccepted`); addresses and offsets of the binary lead to each other (`AddressesRight`); the search ends. |
| `layout_31` (violation) | Metadata 31 is not read right: over a 29 layout when the scan finds it, over its own in either way. |
| `header` | The graph and both ways of writing the header: order, completeness, real cycles, an end. |
| `header_order` (violation) | The topological header is not in dependency order. |
| `output` | Two processes with failures and kills: what is complete is left alone by whoever comes later (`FinishedDumpsStay`), and success means that every wanted file is there or was warned of (`SuccessMeansWritten`). The two parallel maps implement a plain loop (`MapsInOrder`, a refinement of `InOrder`), the files of `DiffableCs` are right whatever the order of the writes (`SplitFilesRight`), every struct name is defined once (`StructsComplete`), and everything ends (`AllEnd`). |

Every property of a passing run has a mutant of the modelled code in `PROJECT.json`
that breaks it.

### Bounds and why they are enough

* `dump`: pages of 2 cells, chunks of 4, three pages, requests of one to three chunks,
  aligned and not; at most 2 changes of the target and 1 interruption. A chunk with two
  pages is the smallest in which a hole has a page before and one behind it; two chunks
  are the smallest number in which a buffer is used again. The proofs lift these.
* `tool`: scripts of three entries, five names of which two collide and one is empty, an
  address that is truncated to 0; intervals of 0 to 3 rows include all cases of the
  midpoint. Five index files (two indexes, one cut between its rvas, one that is missing or
  has fewer than 8 bytes, a foreign one), two buffers, three queries: load, evict or fail,
  ask again. In the second instance two queries with indexes that lack a block, that end in
  the header or in the hashes, with arbitrary words behind the magic and with a count that
  is negative as an `int`; pages of four words, so that a read behind the end of a file
  gives zeros or leaves the mapping. Three pages that may be present, with holes before and
  between them, and two frames, scan limit 3 with four pages to scan, two changes and two
  short reads; pages of 4 KiB (two cells). Chains of three tokens over four pointers;
  captures of up to three lines, duplicates included; all 1024 combinations of the options,
  with `SegCap = 2` where one list has three segments of a library.
* `registration`: all 19 pairs of claimed and true version with all 32 combinations of
  the empty tables that can mislead, both ways to find the address and any words around
  the structure. For the search, all formats, one version below 27 and 31, four tables
  (the three of the lookup and the one whose failure skips it) and one module. Other
  tables are loaded in the same way and appear in no property but `OnlyAccepted`. For
  the addresses, segments that touch, contain one another or are larger in memory than
  in the file, in any order.
* `header`: all graphs over three declared types in several orders and all over four
  without self edges; declarations with two value types and two classes, a parent, up to
  two value fields, static fields that point at their own type or in a circle, three
  assignments of groups, both layouts.

* `output`: two processes with three sets of options that have every stage between
  them, numbers 0 and 2 taken, one failure or kill (`MaxFaults = 1`); any property of the
  directory is about two processes, and the proofs are for any number of faults. Four types in one or two images, of which types fail before,
  between and after their methods and share code with themselves, with a nested type and
  with another one; two threads. For the structs four types in three orders, with names
  that clash with each other's suffixes, arrays whose names coincide, and instances that
  refer to each other, repeat, are null or unreadable.

Symmetry is not used: orders and names matter in all of them, and liveness is checked.

### Fairness

All liveness properties assume weak fairness of the program's own step only: a
single-threaded program that is not stopped goes on. Nothing is assumed of the target.
In `dump` the changes of the target and the interruptions by signals are bounded by
`MaxEnv` and `MaxIntr`; a process that is interrupted before every read for ever would
indeed never end. In `output` every process has weak fairness of its own, and so have
the pools: rayon's threads go on as long as there is a job. A kill is the only way a
process can stop for good, and it counts as an end. In `registration` the fairness is that of the search alone, since the
layout part has no loop.

## 4. Findings

Each is shown by a run and quoted in `PROJECT.json`.

1. `dump_holes`: after the first unreadable page the rest of its 64 KiB chunk is zeroed.
2. `index_half`: `ensure_loaded` replaces the method block before it knows whether the
   field block loads.
3. `physmap_dash`: `?` on the parse of "-" drops the whole capture.
4. `chain_doc`: the first token must be exactly `B` or a hex number; `B+0x10` gives 0.
   The last offset would be dereferenced where the documentation adds it.
5. `layout_31`: the step back of 31 is that of 29.1, and the heuristic that makes it 29
   does not move the address back. The same heuristic takes 31 over its own layout for 29
   whenever the count is plausible, that is, in every ordinary game.
6. `header_order`: value fields are known to the graph by `X_o`, types by `X`, so only
   parents order anything; the groups then reorder across that.
7. `segment_cap`: `dump_lib` stops reading maps when its array of 512 is full
   (`main.c:71`), dumps that much and exits with 0, where `README:27` and the usage message
   (`main.c:183`) say every readable segment. `CommandRight` states what is there in that
   case: exactly the first segments, as many as the array holds.

Against a line of the documentation, but without a run of its own:

* Two types of one namespace whose names differ only in replaced characters (`<A>` and
  `_A_`) have the same file in `DiffableCs` (`decompiler.rs:271`), and their parallel
  writes may leave the end of the longer text behind the shorter one, where line 98 of the
  README of il2cpp-dumper-rs speaks of individual `.cs` files. `SplitFilesRight` leaves
  such types out; the model has the collision.
* Line 140 of the same README lists versions 16 to 39 as supported. `TablesRight` says
  exactly which are: besides 31, the model finds read wrong, by scan, metadata given as
  24.3, 24.5, 27.1 or 27.2, and 24.2, 24.3 and 27 where a table that a heuristic counts is
  or is not empty; and at an exact address 24.4, 24.2 over 24.3, 29 over 29.1. Only what
  the README says of 31 in so many words has the run `layout_31`.

Met while modelling, without a run because no line of the repository promises
otherwise, or because the outcome is outside the model:

* `cached = path` keeps the caller's pointer (`lxgr_il2cpp.c:140`). `CacheCoherent` and
  `OwnIndex` assume a caller that leaves it alone (`Careful`); `MappedLoadsRight` does
  not.
* The pagemap functions shift by 12 where the page size may be 16 KiB
  (`lxgr_dump.c:230`). LxgrPagemap has the page size as a constant; with `K = 2` TLC
  finds `LookupsRight` violated. The run has 4 KiB pages, like the documentation.
* A failed or short `pread` leaves out a line and the call returns 0 (`lxgr_dump.c:236`).
  `LinesCover` says so: a page has a line if and only if its entry could be read.
* The result of `lxgr_pamap_range` is ignored (`main.c:128`).
* `ensure_loaded` compares the counts of a header neither with the size of the file nor
  with the range of an `int` (`lxgr_il2cpp.c:128-137`). An index that a killed
  `il2cpp_index.py` left short is loaded, remembered and searched: a name may be missing,
  have an address made of a cut word, or the search leaves the mapping. `BlobsInside` and
  `OwnIndex` say that this is all, and that it needs such a file.
* `Elf::init` leaves tables with a count of 0 as they are, and `init_elf` tries all
  strategies on one object: generic method pointers or modules of a rejected candidate
  can stay. `OnlyAccepted` therefore claims of ELF only the tables that are always
  assigned.
* `add_parent` uses `klass_index()` of the parent's type whatever its kind
  (`struct_generator.rs:1673`); for a generic instance that is an address.
* Two processes started together choose the same `Dump{n}` (`main.rs:933`) and mix their
  files. `FinishedDumpsStay` and `SuccessMeansWritten` leave out processes that share a
  directory, and hold for all others.
* The report of `run` lists `il2cpp-functions.h` whether it was asked for or not, and
  lists files whose write was a warning, under "All tasks completed successfully!"
  (`main.rs:1134`, `1172`).
* For an array of a type parameter `get_il2cpp_struct_name` takes the parameter's index
  in the table of all parameters for its number in the class, `parse_type` the number
  (`struct_generator.rs:1250`): name and element of the array class can differ. Arrays
  of pointers have the name of arrays of what they point to. The first one wins.
* The worklist of generic classes never grows: what `parse_type` could discover and
  the initial list both come from `il2cpp.types`. `StructsComplete` says so.
* Generic method instances and array classes are written in the order of a `HashMap`
  (`struct_generator.rs:1646`), which differs from run to run.
* `Il2Cpp::map_rtva` goes by the size in memory where `Elf::map_rtva` goes by that in the
  file, and both ends of a segment count as inside (`base.rs:774`). `AddressesRight` says
  exactly when the answer is right nevertheless.
* The fallback to the recursive order can only be reached through a cycle of parents.

## 5. Proofs

All are checked by `tlapm`, for every value of the constants.

* **LxgrDumpProofs.** `TypeCorrect`, `DumpPlacesBytes` (`RightPlace`), `DumpComplete`,
  `ZerosHaveReason` (`ZeroOnlyBehindHole`) and, as an action property, `DumpChunksStay`.
  None of them is inductive: that a byte lands at its place needs to know that the buffer
  up to what `lxgr_read` reported holds the bytes of the current chunk, and that `pos`,
  `total` and `done` agree. That is `Bookkeeping`; the inductive invariant `DumpInv` is
  the conjunction. For the zeros `HoleInv` adds where they can be while a chunk is still
  in the buffer: only behind an address of that chunk that could not be read at some time
  of the call, which stays true because what was lost is never forgotten (`LostGrows`).
  Assumed: sizes are positive and requests fit the file, which `dump_lib` and
  `dump_range` make sure of with `ftruncate`.
* **IndexPipelineProofs.** `LookupIsCorrect` and `BuildKeepsFirsts` from `Inv`: `RowsOfFirsts` (the rows are
  exactly those of the first valid entries) and `Narrowing` (a matching row stays in the
  interval). The sort appears by what it promises, an ascending permutation; that two
  rows never have one hash makes it unique. `SearchShrinks` is the variant of the loop;
  with it every query makes at most as many probes as there are rows.
* **IndexFileProofs.** `CacheIsCoherent` under `Disciplined` (a careful caller, indexes
  with entries of both kinds; run `index_half` shows that the second cannot be dropped)
  and `BlobsStayInside` without it, for any file of less than 4 GiB: the unchecked probes
  of `lookup` stay in the mapped file if it is as long as its header says. The invariant
  is `Shape`: a blob is empty or a block of a file with the magic, at the place the counts
  of that file give; whether it lies inside (`ShapeInside`) is then arithmetic on the
  header. That a search ends in a row, in nothing or outside (`LookupOutcome`) is shown
  for arbitrary words, sorted or not. `AnswersAreOwn`
  (`OwnIndex`) under `Disciplined` and `Sorted` (what `build` guarantees, see
  `BuildKeepsFirsts`), and `FreshAnswers` (`FreshLoadsRight`, the first half of
  `MappedLoadsRight`) under `Sorted` alone. The first follows from the second's argument
  and from coherence: as far as a file agrees with what `emit_bin` would write, its blobs
  hold the hashes and rvas of the rows (`FileWords`, `BlockAt`, `RowAt`); in a whole file
  `lookup` finds what is there (`LookupRight`, `WholeAnswers`), and in a cut one a row it
  ends in is the name's own, or its address lies at or behind the end (`CutAnswers`).
  `Lookup` is a recursive function, that is, some solution of its
  equation. That there is a solution is shown by writing one down (`SearchExists`); that
  every solution is right by induction on the length of the interval (`LookupInduction`).
* **LxgrToolProofs.** Four parts, each about one component.

  `ChainCorrect` (`ChainFollowed`) from `WalkIsLinked` (`LinkedWalk`),
  `NoReadThroughNull` and `ResultIsDereference` (`Dereferenced`), next to
  `ChainTypeCorrect`. `ChainInv` ties the reads so far to the tokens: `Linked` for those
  made, `Position` for what is left and for the pointer in hand. It says nothing of the
  memory, so the target may do what it likes. For a memory that stands still, `Still`
  compares the pointer with any walk `w` of dereferences; that a failed step gives 0
  needs that a walk does not leave 0 (`ZeroStays`).

  `ImportCorrect` (`ImportRight`) from `ImportInv`: every entry is a line of the capture,
  and as long as no line was refused every line taken is an entry. Sorting appears by
  what it promises, so the theorem holds whichever of two entries for one page the
  unstable sort puts first and the binary search lands on.

  `CommandCorrect` (`CommandRight`) from `CliInv`. `Flow` says for every label of the
  program what has been collected and opened by then; `Written` that the file is the
  image of the first `next - 1` segments (`Image`, `Cell`). `ImageStep` is the step of
  the loop: writing the next segment at its offset gives the image of one segment more,
  where overlaps go to the later one. It needs that no segment ends behind `Total`, the
  largest end of all (`TotalIs`), so that a write never lengthens the file. `SegsSoFar`
  counts the segments against the lines read (`LinesCounted`), and `Stopped` says why the
  loop over maps ended: at the end of the file, or at a line for which the array had no
  room. `SegsWanted` follows from the two.

  `LookupsCorrect` (`LookupsRight`) from `PagemapInv`: what the page table holds has been
  recorded (`held` only grows), so that an answer computed from one read stays true
  whatever the pages do afterwards; `Listing` says of every page
  gone through that it has a line or is in `missed`, and not both; `RangePages` is the arithmetic of the
  rounding, that the pages from `va >> 12` to before `(end + ps - 1) >> 12` are those the
  range touches. The proof showed an exception the run did not have: an empty range
  inside a page gets a line (no caller asks for one); `LinesCover` says so and the run now
  includes it. Assumed besides types: pages of 4 KiB (`K = 1`), without which the property
  is false.

  `ScanCorrect` (`P2VFirst`) from `P2VInv`, under the same assumptions: `scanned` counts
  the pages before the place the scan has reached (`Place`: a page of a line, or the
  beginning of the next line), and while the page table has not changed none of them maps
  the frame (`Scanning`) unless its entry could not be read. `BeforeNext` and `BeforeLine` say what a step of the inner and
  of the outer loop adds to those pages, empty lines included; `CapMissesNone` is the case
  of the cap: a match that is left has at least `MaxScan` pages before it.

  Assumed of the others: the types of the constants, of a line of maps that it is not
  empty, and that the array of segments has room for one.
* **HeaderProofs.** `OrderCorrect`, `CycleCorrect`, `NothingLost` from `IInv`. The
  strengthening has two parts. `OutInv`: an edge is gone only if its target has been put
  out, so a type that is not blocked has all its declared dependencies in the order.
  `RoundInv`: if nothing was put out in this round, every type turned over so far is
  blocked, so a round without progress leaves a set of types each of which holds another.
  Assumed: a name is added once (`add_type` keeps the first).

  On top of it `HeaderCorrect` (`HeaderRight`) and `GroupsOrDepth` (`NeverFallsBack`) from
  `HInv`. `WayInv` follows the graph into the emission: the edges of the graph lead to
  parents, parents are acyclic, hence the sort cannot end in a cycle and the fallback is
  not reached. `GroupInv`: the body written so far is exactly the types of the groups
  behind the section and those already seen of the current one (`Reached`), in the order
  of the sort. `DepthInv`, for the recursive layout: every activation was made for a type
  its caller holds, `struct_cache` is what is written and what is active, and all a type
  holds is either still to be visited or in the cache. A type is written when it has
  nothing left to visit; if one it holds were still active, the activations between the
  two would be a cycle, which `Orderable` excludes. Assumed
  (`HeadersAssumption`): every type is declared once, parents and value fields are
  declared, a type is no value field of itself, and parents are acyclic.
* **RegistrationProofs.** `AcceptedOnly` (`OnlyAccepted`), `LookupIsCurrent`
  (`LookupCurrent`) and `TypeCorrect`, for every set of tables and every version. Both
  are about what a rejected attempt left behind, so `RegInv` says at every point of an
  `init` which tables are already of the candidate tried and which may still be older.
  That is a statement about the plan: the loads not yet done are a suffix of a list in
  which the tables come in a fixed order (`Rank`), the lookup after the tables it is made
  of and the modules behind it. `PlanOk` proves this order of the plan of every format
  and version, by adding its parts one after the other.

  `AddressesCorrect` (`AddressesRight`) for every list of segments in which two are alike
  or share neither addresses nor file (`ImagesAssumption`), which is what a linker
  writes. The functions answer from the first segment that fits; that there is a first
  one is the least number principle (`FirstHitFacts`), and that it does not matter which
  comes first follows because two that contain one address are alike.
* **DumpRunProofs.** `DumpsStay`, for any number of processes, options, faults and
  directories that are there before. That a later run keeps away from the directory of
  one that succeeded needs that this directory exists, since `exists()` is all the probe
  sees and a failed `create_dir_all` is passed over. It does exist because `dump.cs` is in
  every run and its write may not fail; `Local` carries that from stage to stage. The
  other parts of `Inv`: processes that are active have met (`MetInv`), whoever can
  still write where a process succeeded has met it (`OkInv`), and none has a directory
  with older files (`NotOlder`). `SuccessIsWritten` (`SuccessMeansWritten`) rests on
  `OwnInv`: as long as no process shares a process's directory, the files of the stages
  behind it (`Sofar`, `Reached`) are its own or warned of, those of the stage it is in
  are in one of the states a write goes through, and no others have changed
  (`Elsewhere`). A process that shares the directory has met it and is let off by the
  property itself, so sharing only has to be known to last (`SharesGrow`). Assumed:
  finitely many processes and directories, that the content of an older dump is told from
  that of a new one, and a file that is absent from one that is empty.
* **DumpTypesProofs.** `MapImplementsLoop`: the parallel map implements `InOrder`, the
  half of `MapsInOrder` that is about `dump.cs`, step by step with `merged` as the number
  of jobs done and `buf` as the output. `MapInv`: what a finished job returned is the
  text of its type alone (`FlatIsAlone`: with an empty cache, the body found for a method
  is that of the first method of the type with the same code), and the merge has all
  results before it. Every job is of a type of the program, which needs what `FlattenSeq`
  gives (`FlattenType`). Assumed: images that lie within the types.

  `WritesComplete`: the half of `SplitFilesRight` that is about the parallel writes
  (`FilesWritten`). `WriteInv`: a file that a thread has opened and not written is empty,
  a finished one that was not warned of holds its text, as far as no second output has
  the path; opening and writing another file leaves both alone (`OtherFiles`). It needs no
  assumption.

Induction over data. The library's induction theorems take an operator, which the
provers cannot instantiate. Where a proof needs one, it uses the form for sets, derived
from the well-foundedness of the naturals (`SetInduction`, `AllNaturals`, `AllNumbers`),
and shows for each recursive function that its equation has a solution.

Only model-checked: liveness everywhere; what is only in AutoPlus and StructInfos; of
DumpTypes that the text of a file of `DiffableCs` is the type with its nested types, which
is computed by a fold (`FileOf`); and what is stated only of the composed instances
`MCLxgrTool`, `MCHeader`, `MCRegistration` and `MCOutput` (their type invariants;
`MappedLoadsRight`, whose two halves are `FreshAnswers` and `BlobsStayInside`).
Termination of `derive_dependency_order` and of `lookup` is checked for small instances;
for `lookup`, `SearchShrinks` proves the bound.

## 6. Abstractions a reader should know

* Bytes are cells that name their origin; a torn read of a page is not represented, and
  neither is a byte that changes its value (only that it can be read).
* The contents of tables, names, texts and messages are left out. The search through
  sections is an oracle that finds anything or nothing.
* In AutoPlus the reading of a table that is not the one expected may or may not fail.
* In HeaderEmit a value field of an undeclared type, for which the code writes a stub,
  does not occur.
* `LxgrCli` takes `/proc/<pid>/maps` as it was when read.
* In DumpTypes and StructInfos a job of the parallel map is one step: jobs share nothing
  that changes (each has its own executor and its own cache). In DumpRun what happens
  inside a stage before its first write is one step.
* Unity headers and the `cpp_project` directory, both optional, are not among the files
  of DumpRun.

## 7. Plan

Done: the C tool and the index, the registrations, the addresses, the order of the
header, the parallel stages of the output and their directories, with the theorems
above. Left, in this order:

1. Theorems: that the text of a file of `DiffableCs` is the type with its nested types; the
   struct list of StructInfos as a refinement of `InOrder`.
2. `MetadataVersion`: `detect_subversion`, the version steps in `load_metadata` and the
   decryption probes of `main.rs`, composed with AutoPlus so that claimed versions are
   computed instead of given.
3. ELF relocations and Mach-O fixups applied in order; the search of `section_helper.rs`.
4. Pure algorithms against references: compressed integers, field layout, header
   selection, the substitution table of the name mangler, the recovery of control flow.
5. An abstract specification "an image of the library" that LxgrCli over LxgrDump
   implements.

## 8. Not modelled

Headers and sections of the binary formats, metadata tables, the executor, attribute
blobs, decoding of instructions, and all text generation: sequential code from bytes to
text, whose errors are in the data and not in an order of steps. Parts of it with
control of their own are modelled (the stages, the pools, the cache of bodies) or in the
plan. The vendored `dotnetdll-main`, the Unity headers
under `assets`, the scripts for other tools, the generated `il2cpp_index.h` and `.bin`
and the build files have no logic of this system; they are by far most of the C lines of
the repository, so that the modelled lines are a small share of all. Not represented at all: what the
kernel shows to a process without privileges, index files that are rewritten while they
are mapped, index files of 4 GiB and more, where `lo + hi` of `lookup` could overflow, and
the use of CPU or memory.
