------------------------------ MODULE LxgrCli ------------------------------
(***************************************************************************)
(* The lxgr_dump command line, main.c: option lookup, the choice of an     *)
(* operation, dump_lib, dump_range, and the address queries, from argv to  *)
(* the exit status.                                                        *)
(*                                                                         *)
(* The library calls appear by their contracts: lxgr_dump_range writes     *)
(* all of its range and nothing else, or fails after part of it (proved of *)
(* LxgrDump); lxgr_pamap_range and lxgr_resolve_chain may fail (LxgrPagemap *)
(* and LxgrChain).  A cell of the output file holds the virtual address    *)
(* its content was taken from, standing for the byte or the zero the dump  *)
(* engine put there.                                                       *)
(***************************************************************************)
EXTENDS Naturals, Integers, Sequences, SequencesExt, FiniteSetsExt

CONSTANTS
  Argvs,    \* command lines: sequences of words, without argv[0]
  Numbers,  \* what parse_u64 makes of a word; words outside its domain do not parse
  MapsFiles,\* contents of /proc/<pid>/maps; of a line, the names strstr finds in it
  SegCap,   \* sizeof(segs) / sizeof(segs[0]): 512
  Zero, Absent

MapsLine == [has : SUBSET STRING, start : Nat, size : Nat \ {0}, off : Nat, readable : BOOLEAN]

(* What the constants are assumed to be. *)
CliAssumption ==
  /\ SegCap \in Nat \ {0}
  /\ Numbers \in [DOMAIN Numbers -> Nat]
  /\ MapsFiles \subseteq Seq(MapsLine)

VARIABLES
  argv, procMaps,
  label,
  at,      \* lines of maps read
  segs,    \* dump_lib: segs (one segment in dump_range)
  next,    \* the next segment to dump or to map
  file,    \* the output file: a sequence of cells, or Absent when not yet opened
  pamap,   \* the segments with lines in the .pamap file, or Absent
  mf, fd, pf, \* open files: maps, output, pamap
  exit     \* exit status, -1 while running

cliVars == <<argv, procMaps, label, at, segs, next, file, pamap, mf, fd, pf, exit>>

-----------------------------------------------------------------------------
(* find_arg and has_flag: the first occurrence that has a word after it,   *)
(* whatever that word is.                                                  *)
Args(name) == {k \in 1 .. Len(argv) - 1 : argv[k] = name}
Given(name) == Args(name) # {}
FindArg(name) == argv[Min(Args(name)) + 1]
HasFlag(name) == name \in ToSet(argv)
Parses(name) == FindArg(name) \in DOMAIN Numbers
ParseU64(name) == Numbers[FindArg(name)]

Lib == IF Given("--lib") THEN FindArg("--lib") ELSE "libil2cpp.so"
WantsLib == Given("--lib") \/ HasFlag("--il2cpp")

CliInit ==
  /\ argv \in Argvs /\ procMaps \in MapsFiles
  /\ label = "main"
  /\ at = 0 /\ segs = << >> /\ next = 1
  /\ file = Absent /\ pamap = Absent
  /\ mf = FALSE /\ fd = FALSE /\ pf = FALSE
  /\ exit = -1

Exit(status) == label' = "exit" /\ exit' = status
Goto(l) == label' = l /\ exit' = exit

(* find_il2cpp_base, and the same loop in main for --chain: the first line *)
(* of the library at file offset 0.                                        *)
BaseLines == {k \in 1 .. Len(procMaps) : "libil2cpp.so" \in procMaps[k].has /\ procMaps[k].off = 0}
Il2cppBase == IF BaseLines = {} THEN 0 ELSE procMaps[Min(BaseLines)].start

(* dump_range's arguments as its one segment. *)
RangeSeg(base, size) == <<[start |-> base, size |-> size, off |-> 0]>>
RangeOrRefuse(base, size) ==
  \/ size = 0 /\ Exit(1) /\ segs' = segs
  \/ size > 0 /\ Goto("open") /\ segs' = RangeSeg(base, size)

-----------------------------------------------------------------------------
(* main: the options are tried in this order.                              *)

Chain ==        \* lxgr_resolve_chain gives an address or 0
  /\ Given("--chain")
  /\ \/ Exit(1) /\ segs' = segs
     \/ /\ ~(Given("--out") /\ Given("--size"))
        /\ Exit(0) /\ segs' = segs
     \/ /\ Given("--out") /\ Given("--size")
        /\ \/ ~Parses("--size") /\ Exit(1) /\ segs' = segs
           \/ Parses("--size") /\ \E va \in {1, Il2cppBase + 1} : RangeOrRefuse(va, ParseU64("--size"))

DumpLib ==
  /\ WantsLib
  /\ \/ ~Given("--out") /\ Exit(1)
     \/ Given("--out") /\ Goto("maps")
  /\ segs' = segs

Convert(name) == Given(name) /\ Exit(IF Parses(name) THEN 0 ELSE 1) /\ segs' = segs

RawRange == Given("--base") /\ Given("--size") /\ Given("--out")

DumpRange ==
  /\ RawRange
  /\ \/ ~(Parses("--base") /\ Parses("--size")) /\ Exit(1) /\ segs' = segs
     \/ Parses("--base") /\ Parses("--size") /\ RangeOrRefuse(ParseU64("--base"), ParseU64("--size"))

ResolveName ==  \* the name is in the index or not
  /\ Given("--il2cpp-resolve") \/ Given("--il2cpp-field")
  /\ \/ Exit(1)
     \/ Il2cppBase # 0 /\ Exit(0)
  /\ segs' = segs

Main ==
  /\ label = "main"
  /\ IF ~Given("--pid") THEN Exit(1) /\ segs' = segs                     \* usage
     ELSE IF Given("--chain") THEN Chain
     ELSE IF WantsLib THEN DumpLib
     ELSE IF Given("--v2p") THEN Convert("--v2p")
     ELSE IF Given("--p2v") THEN Convert("--p2v")
     ELSE IF RawRange THEN DumpRange
     ELSE IF Given("--il2cpp-resolve") \/ Given("--il2cpp-field") THEN ResolveName
     ELSE Exit(1) /\ segs' = segs                                        \* usage
  /\ UNCHANGED <<argv, procMaps, at, next, file, pamap, mf, fd, pf>>

-----------------------------------------------------------------------------
(* dump_lib: collect the readable segments of the lines that contain the   *)
(* name, anywhere.                                                         *)

OpenMaps ==
  /\ label = "maps" /\ ~mf
  /\ \/ mf' = TRUE /\ UNCHANGED <<label, exit>>
     \/ mf' = mf /\ Exit(1)
  /\ UNCHANGED <<argv, procMaps, at, segs, next, file, pamap, fd, pf>>

(* Mutant: segments without read permission are taken too. *)
WantedAny(l) == Lib \in l.has

Wanted(l) == Lib \in l.has /\ l.readable
Seg(l) == [start |-> l.start, size |-> l.size, off |-> l.off]

ReadLine ==
  /\ label = "maps" /\ mf /\ at < Len(procMaps)
  /\ LET l == procMaps[at + 1] IN
       \/ ~Wanted(l) /\ at' = at + 1 /\ UNCHANGED <<segs, mf, label, exit>>
       \/ /\ Wanted(l) /\ Len(segs) < SegCap
          /\ segs' = Append(segs, Seg(l)) /\ at' = at + 1
          /\ UNCHANGED <<mf, label, exit>>
       \/ /\ Wanted(l) /\ Len(segs) >= SegCap               \* break
          /\ mf' = FALSE /\ Goto("open") /\ UNCHANGED <<segs, at>>
  /\ UNCHANGED <<argv, procMaps, next, file, pamap, fd, pf>>

EndOfMaps ==
  /\ label = "maps" /\ mf /\ at = Len(procMaps)
  /\ mf' = FALSE
  /\ IF segs = << >> THEN Exit(1) ELSE Goto("open")
  /\ UNCHANGED <<argv, procMaps, at, segs, next, file, pamap, fd, pf>>

-----------------------------------------------------------------------------
(* The output file, in dump_lib and dump_range. *)

Total == Max({segs[k].off + segs[k].size : k \in 1 .. Len(segs)})

OpenOut ==
  /\ label = "open"
  /\ \/ /\ fd' = TRUE /\ file' = [c \in 1 .. Total |-> Zero] /\ Goto("dump")
     \/ /\ fd' = FALSE /\ Exit(1)           \* open failed, or ftruncate and close
        /\ file' \in {Absent, << >>}
  /\ UNCHANGED <<argv, procMaps, at, segs, next, pamap, mf, pf>>

(* The file after the first n cells of a segment were written at its       *)
(* offset.                                                                 *)
Placed(s, n) ==
  [c \in 1 .. Max({Len(file), s.off + n}) |->
     IF s.off < c /\ c <= s.off + n THEN s.start + (c - 1 - s.off)
     ELSE IF c <= Len(file) THEN file[c] ELSE Zero]

(* Mutant: a failed segment is skipped. *)
DumpSegSkips ==
  /\ label = "dump" /\ next <= Len(segs)
  /\ \E n \in 0 .. segs[next].size : file' = Placed(segs[next], n)
  /\ next' = next + 1 /\ UNCHANGED <<label, exit, fd>>
  /\ UNCHANGED <<argv, procMaps, at, segs, pamap, mf, pf>>

(* Mutant: the output file stays open when a segment fails. *)
DumpSegLeaks ==
  /\ label = "dump" /\ next <= Len(segs)
  /\ Exit(1)
  /\ UNCHANGED <<argv, procMaps, at, segs, next, file, pamap, mf, fd, pf>>

DumpSeg ==
  /\ label = "dump" /\ next <= Len(segs)
  /\ \/ /\ file' = Placed(segs[next], segs[next].size)
        /\ next' = next + 1 /\ UNCHANGED <<label, exit, fd>>
     \/ /\ \E n \in 0 .. segs[next].size - 1 : file' = Placed(segs[next], n)
        /\ fd' = FALSE /\ Exit(1) /\ next' = next
  /\ UNCHANGED <<argv, procMaps, at, segs, pamap, mf, pf>>

CloseOut ==
  /\ label = "dump" /\ next > Len(segs)
  /\ fd' = FALSE /\ next' = 1
  /\ IF HasFlag("--pamap") THEN Goto("pamap") ELSE Exit(0)
  /\ UNCHANGED <<argv, procMaps, at, segs, file, pamap, mf, pf>>

-----------------------------------------------------------------------------
(* The .pamap file. *)

OpenPamap ==
  /\ label = "pamap" /\ ~pf
  /\ \/ pf' = TRUE /\ pamap' = {} /\ UNCHANGED <<label, exit>>
     \/ Exit(1) /\ UNCHANGED <<pf, pamap>>
  /\ UNCHANGED <<argv, procMaps, at, segs, next, file, mf, fd>>

(* lxgr_pamap_range writes the lines of the segment, or returns -1; the    *)
(* callers do not look.                                                    *)
PamapSeg ==
  /\ label = "pamap" /\ pf /\ next <= Len(segs)
  /\ pamap' \in {pamap, pamap \cup {next}}
  /\ next' = next + 1
  /\ UNCHANGED <<argv, procMaps, label, at, segs, file, mf, fd, pf, exit>>

ClosePamap ==
  /\ label = "pamap" /\ pf /\ next > Len(segs)
  /\ pf' = FALSE /\ Exit(0)
  /\ UNCHANGED <<argv, procMaps, at, segs, next, file, pamap, mf, fd>>

CliNext ==
  \/ Main \/ OpenMaps \/ ReadLine \/ EndOfMaps
  \/ OpenOut \/ DumpSeg \/ CloseOut \/ OpenPamap \/ PamapSeg \/ ClosePamap

CliSpec == CliInit /\ [][CliNext]_cliVars /\ WF_cliVars(CliNext)

-----------------------------------------------------------------------------
(* Properties *)

(* The indices stay in their arrays, the array of segments in its bound. *)
CliTypeOK ==
  /\ label \in {"main", "maps", "open", "dump", "pamap", "exit"}
  /\ at \in 0 .. Len(procMaps) /\ Len(segs) <= SegCap /\ next \in 1 .. SegCap + 1
  /\ \A k \in 1 .. Len(segs) : segs[k].size > 0
  /\ exit \in {-1, 0, 1}

(* The segments of the file's cell c. *)
Covering(c) == {k \in 1 .. Len(segs) : segs[k].off < c /\ c <= segs[k].off + segs[k].size}

(* Exit status 0 after a dump: the file ends with the last segment, every  *)
(* cell holds the memory of the last segment that covers its offset, and a *)
(* gap holds zeros.  A failed segment cannot be hidden by a later one.     *)
ImageRight ==
  exit = 0 /\ segs # << >> =>
    /\ Len(file) = Total
    /\ \A c \in 1 .. Len(file) :
         file[c] = IF Covering(c) = {} THEN Zero
                   ELSE LET k == Max(Covering(c)) IN segs[k].start + (c - 1 - segs[k].off)

(* The segments dumped are readable segments of matching lines, in the     *)
(* order of maps and with none between them left out: all of them if the   *)
(* array holds that many, and as many as it holds otherwise.  What is      *)
(* behind the array's end is lost: see EveryReadableSegment.               *)
LinesUpTo(n) == {m \in 1 .. n : Lib \in procMaps[m].has /\ procMaps[m].readable}
LibDump == ~Given("--chain") /\ WantsLib
Collected == label \in {"open", "dump", "pamap"} \/ exit = 0
SegsWanted ==
  LibDump =>
    /\ Len(segs) = Cardinality(LinesUpTo(at))
    /\ \A n \in LinesUpTo(at) : segs[Cardinality(LinesUpTo(n))] = Seg(procMaps[n])
    /\ Collected => IF Cardinality(LinesUpTo(Len(procMaps))) <= SegCap
                    THEN at = Len(procMaps) ELSE Len(segs) = SegCap

(* "dump every readable segment of a mapped library", as the usage message *)
(* and the README put it: exit status 0 means that each of them was        *)
(* dumped, however many there are.                                         *)
EveryReadableSegment ==
  exit = 0 /\ LibDump =>
    \A n \in LinesUpTo(Len(procMaps)) : \E k \in 1 .. Len(segs) : segs[k] = Seg(procMaps[n])

(* The output file, which may be the only copy of an earlier dump, is not  *)
(* opened (and truncated) before there is a segment to dump.               *)
OutputOnlyForDump == file # Absent => segs # << >> /\ Given("--out")

(* Every exit closes maps, the output file and the pamap. *)
FilesClosed == label = "exit" => ~mf /\ ~fd /\ ~pf

(* What a user of the command line relies on, all together. *)
CommandRight == ImageRight /\ SegsWanted /\ OutputOnlyForDump /\ FilesClosed

(* Every invocation ends. *)
CommandEnds == <>(label = "exit")
=============================================================================
