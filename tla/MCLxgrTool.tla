----------------------------- MODULE MCLxgrTool -----------------------------
(***************************************************************************)
(* One instance for the parts of the C tool that run on their own: the     *)
(* index from script.json to lookup, the file-backed index, the pagemap    *)
(* queries, pointer chains, the import of a pamap and the command line.  A *)
(* behaviour belongs to one part, chosen in the initial state; variables   *)
(* with the same name in two parts share a TLC variable, and those of the  *)
(* other parts rest.                                                       *)
(***************************************************************************)
EXTENDS IndexPipeline, IndexFile, LxgrPagemap, LxgrChain, PhysMap, LxgrCli

CONSTANT Idle

VARIABLES part,
  anyStr, anyCached, anySm, anySf, anyMaps, anyQ, anyBlob, anyAns  \* index, any caller

-----------------------------------------------------------------------------
(* The index builder and lookup: four names, two of which collide, and the *)
(* empty name; an address that is not positive, one that fits 32 bits, one *)
(* that is truncated and one that is truncated to 0.  The hash of the      *)
(* empty name needs one word only, as half of another one might.           *)
NameHash == [a |-> 135, b |-> 131, c |-> 135, d |-> 133] @@ ("" :> 3)
SomeAddresses == {0, 1, 64, 66}

(* The file-backed index, twice.  IndexFile itself (its variables are      *)
(* extended) with files of every kind ensure_loaded tells apart, one of    *)
(* them cut between its rvas, and a caller that spares the remembered      *)
(* path; and G, with indexes that lack one of the blocks, end in the       *)
(* hashes or in the header, or hold anything behind the magic, a count     *)
(* that is negative as an int among it, and a caller that rewrites any     *)
(* buffer.  A hash is low + 64 * high.                                     *)
R(h, r) == [hash |-> h, rva |-> r]
Stored(d, m, f) == [disk |-> d, methods |-> m, fields |-> f]
MsA == <<R(131, 21), R(133, 41), R(135, 61)>>
FsA == <<R(133, 42)>>
FsB == <<R(3, 12), R(135, 62)>>
DiskA == <<1, 3, 1, 3, 2, 5, 2, 7, 2, 21, 41, 61, 5, 2, 42>>
FileA == Stored(DiskA, MsA, FsA)
CutA(n, w) == Stored(SubSeq(DiskA, 1, n - 1) \o <<w>>, MsA, FsA)
NotAnIndex(d) == Stored(d, << >>, << >>)
IndexFiles ==
  [a |-> FileA, b |-> Stored(<<1, 1, 2, 5, 2, 43, 3, 0, 7, 2, 12, 62>>, <<R(133, 43)>>, FsB),
   cut |-> CutA(11, 9), stub |-> NotAnIndex(<< >>), elf |-> NotAnIndex(<<2, 3>>)]
AnyFiles ==
  [a |-> FileA, elf |-> NotAnIndex(<<2, 3>>),
   nf |-> Stored(<<1, 3, 0, 3, 2, 5, 2, 7, 2, 21, 41, 61>>, MsA, << >>),
   nm |-> Stored(<<1, 0, 2, 3, 0, 7, 2, 12, 62>>, << >>, FsB),
   cutHeader |-> CutA(2, 3), cutHash |-> CutA(6, 5),
   junk |-> NotAnIndex(<<1, 2, 1, 7, 2, 5, 2, 9, 8, 5, 2, 7>>),
   sign |-> NotAnIndex(<<1, 2, 40, 5, 2, 7, 2, 9>>)]
G == INSTANCE IndexFile WITH Paths <- DOMAIN AnyFiles, Index <- AnyFiles,
       Rewritable <- {"p1"}, Careful <- FALSE, MaxQueries <- 2,
       str <- anyStr, cached <- anyCached, sm <- anySm, sf <- anySf, maps <- anyMaps,
       q <- anyQ, blob <- anyBlob, ans <- anyAns

(* The pagemap: 4 KiB pages of two cells, three of which may be present    *)
(* with holes before and between them, a line of maps the code skips (an   *)
(* empty range), ranges that start and end inside a page, up to two short  *)
(* reads and a scan cap of three pages, which one of the two maps exceeds. *)
V(s, e) == [start |-> s, end |-> e]
Q(o, a, n) == [op |-> o, a |-> a, size |-> n]
SomeVmas == {<<V(2, 4), V(4, 4), V(6, 12)>>, <<V(2, 4), V(8, 10)>>}
Calls == {Q("v2p", 3, 0), Q("v2p", 8, 0), Q("v2p", 4, 0), Q("p2v", 10, 0), Q("p2v", 13, 0),
          Q("pamap", 2, 2), Q("pamap", 3, 4), Q("pamap", 2, 7), Q("pamap", 6, 0), Q("pamap", 3, 0)}

(* Chains of one to three tokens over four pointers, null and unmapped     *)
(* ones among them, and specifications of every rejected form.             *)
T(k, v) == [kind |-> k, v |-> v]
S(s) == [parts |-> s, fits |-> TRUE]
B == T("B", 0)
Tables == [Addrs -> {0, 1, 2, Unmapped}]
Pointers == {0, 3, Unmapped}
Chains == {S(<<B>>), S(<<B, T("hex", 1)>>), S(<<B, T("hex", 1), T("empty", 0), T("hex", 2)>>),
           S(<<T("hex", 2), T("hex", 0), T("hex", 1)>>), S(<<T("hex", 1), T("junk", 0)>>),
           S(<<T("sum", 1), T("hex", 1)>>), S(<<T("sum", 1), T("hex", 0), T("hex", 1)>>),
           S(<<T("empty", 0)>>), S(<< >>),
           [parts |-> <<B>>, fits |-> FALSE]}

(* Captures of up to three pages in any order, duplicates included, behind *)
(* the "# VA PA" line, and a base whose sum with an rva wraps around.      *)
L(v, p) == [va |-> v, pa |-> p]
Pool == {L(4, 40), L(6, 60), L(6, Dash), L(0, 20), L(4, 44)}
SomeBases == {NoFlag, 0, 4, 14}
Pamaps == {<<L(0, Comment)>> \o s : s \in UNION {[1 .. n -> Pool] : n \in 0 .. 3}}

(* Every combination of the options, an option without its value and one   *)
(* taken as the value of another; maps with segments whose file offsets    *)
(* overlap or leave a gap, one more than the array holds in one of them.   *)
Options == <<<<"--out", "f">>, <<"--chain", "B">>, <<"--lib", "libgame.so">>, <<"--il2cpp">>,
             <<"--v2p", "0x4">>, <<"--p2v", "zz">>, <<"--base", "0x4">>, <<"--size", "0x2">>,
             <<"--il2cpp-resolve", "n">>, <<"--pamap">>>>
Words(chosen) == FlattenSeq([k \in 1 .. Len(Options) |-> IF k \in chosen THEN Options[k] ELSE << >>])
SegLine(n, s, z, o, r) == [has |-> {n}, start |-> s, size |-> z, off |-> o, readable |-> r]
Hexes == [x \in {"0x4", "0x2", "0"} |-> CASE x = "0x4" -> 4 [] x = "0x2" -> 2 [] OTHER -> 0]
Commands == {<<"--pid", "7">> \o Words(s) : s \in SUBSET (1 .. Len(Options))}
            \cup {<< >>, <<"--lib", "--out", "f">>, <<"--pid", "7", "--lib">>,
                  <<"--pid", "7", "--base", "0x4", "--size", "0", "--out", "f">>,
                  <<"--pid", "7", "--base", "zz", "--size", "0x2", "--out", "f">>,
                  <<"--pid", "7", "--chain", "B", "--size", "zz", "--out", "f">>}
SegLists == {<< >>,
  <<SegLine("libgame.so", 10, 2, 0, TRUE), SegLine("libil2cpp.so", 20, 2, 0, TRUE),
    SegLine("libil2cpp.so", 22, 1, 2, FALSE), SegLine("libil2cpp.so", 30, 2, 4, TRUE)>>,
  <<SegLine("libil2cpp.so", 20, 3, 1, TRUE), SegLine("libgame.so", 40, 3, 0, TRUE),
    SegLine("libgame.so", 50, 2, 2, TRUE), SegLine("libil2cpp.so", 60, 1, 0, TRUE),
    SegLine("libgame.so", 70, 1, 4, TRUE)>>}

ASSUME Assumptions ==
  /\ NamesAssumption /\ PipelineAssumption /\ FileAssumption /\ G!FileAssumption /\ PagemapAssumption
  /\ ChainAssumption /\ PhysMapAssumption /\ CliAssumption

-----------------------------------------------------------------------------
anyVars == <<anyStr, anyCached, anySm, anySf, anyMaps, anyQ, anyBlob, anyAns>>
toolVars == <<part, pipelineVars, vars, anyVars, pagemapVars, chainVars, importVars, cliVars>>

(* Parts that rest; those whose properties are stated for all behaviours   *)
(* rest as nothing called, read or opened.                                 *)
PipelineIdle ==
  /\ script = << >> /\ i = 0 /\ seen = {} /\ rows = << >> /\ phase = "build"
  /\ key = Idle /\ lo = Idle /\ hi = Idle /\ answer = Idle
IndexIdle ==
  /\ str = [p \in Ptrs |-> "a"] /\ cached = NoPtr /\ sm = Null /\ sf = Null
  /\ maps = 0 /\ q = NoQuery /\ blob = Null /\ ans = 0
AnyIdle ==
  /\ anyStr = Idle /\ anyCached = Idle /\ anySm = Idle /\ anySf = Idle
  /\ anyMaps = Idle /\ anyQ = Idle /\ anyBlob = Idle /\ anyAns = Idle
PagemapIdle ==
  /\ pt = Idle /\ alive = Idle /\ held = Idle /\ changes = Idle /\ vmas = Idle /\ req = Idle
  /\ step = Idle /\ pagemapFd = Idle /\ mapsFd = Idle /\ lineNo = Idle /\ pg = Idle /\ epg = Idle
  /\ scanned = Idle /\ lines = << >> /\ missed = Idle /\ result = Idle
ChainIdle ==
  /\ mem = Idle /\ env = Idle /\ spec = Idle /\ base = Idle /\ pc = Idle
  /\ rest = Idle /\ cur = Idle /\ reads = << >> /\ ret = Idle
ImportIdle ==
  /\ capture = Idle /\ il2cppBase = Idle /\ stage = Idle /\ taken = Idle
  /\ entries = Idle /\ map = Idle /\ rva = Idle /\ pa = None
CliIdle ==
  /\ argv = << >> /\ procMaps = Idle /\ label = Idle /\ at = Idle /\ segs = Idle /\ next = Idle
  /\ file = Absent /\ pamap = Idle /\ mf = Idle /\ fd = Idle /\ pf = Idle /\ exit = Idle

ToolInit ==
  /\ part \in {"pipeline", "index", "index_any", "pagemap", "chain", "import", "cli"}
  /\ IF part = "pipeline" THEN PipelineInit ELSE PipelineIdle
  /\ IF part = "index" THEN Init ELSE IndexIdle
  /\ IF part = "index_any" THEN G!Init ELSE AnyIdle
  /\ IF part = "pagemap" THEN PagemapInit ELSE PagemapIdle
  /\ IF part = "chain" THEN ChainInit ELSE ChainIdle
  /\ IF part = "import" THEN ImportInit ELSE ImportIdle
  /\ IF part = "cli" THEN CliInit ELSE CliIdle

ToolNext ==
  /\ part' = part
  /\ \/ /\ part = "pipeline" /\ PipelineNext
        /\ UNCHANGED <<vars, anyVars, pagemapVars, chainVars, importVars, cliVars>>
     \/ /\ part = "index" /\ Next
        /\ UNCHANGED <<pipelineVars, anyVars, pagemapVars, chainVars, importVars, cliVars>>
     \/ /\ part = "index_any" /\ G!Next
        /\ UNCHANGED <<pipelineVars, vars, pagemapVars, chainVars, importVars, cliVars>>
     \/ /\ part = "pagemap" /\ PagemapNext
        /\ UNCHANGED <<pipelineVars, vars, anyVars, chainVars, importVars, cliVars>>
     \/ /\ part = "chain" /\ ChainNext
        /\ UNCHANGED <<pipelineVars, vars, anyVars, pagemapVars, importVars, cliVars>>
     \/ /\ part = "import" /\ ImportNext
        /\ UNCHANGED <<pipelineVars, vars, anyVars, pagemapVars, chainVars, cliVars>>
     \/ /\ part = "cli" /\ CliNext
        /\ UNCHANGED <<pipelineVars, vars, anyVars, pagemapVars, chainVars, importVars>>

(* The fairness of each part: its own code goes on, its environment need   *)
(* not.                                                                    *)
ToolStep ==
  /\ part \in {"pipeline", "pagemap", "chain", "import", "cli"}
  /\ ToolNext
  /\ \/ part = "pagemap" /\ Lookups
     \/ part = "chain" /\ Tool
     \/ part \in {"pipeline", "import", "cli"}

ToolSpec == ToolInit /\ [][ToolNext]_toolVars /\ WF_toolVars(ToolStep)

-----------------------------------------------------------------------------
(* Properties: IndexPipeline's RowsOfFirsts and LookupCorrect, IndexFile's *)
(* CacheCoherent, OwnIndex and BlobsInside, LxgrPagemap's LookupsRight and *)
(* P2VFirst, LxgrChain's ChainFollowed, PhysMap's ImportRight, LxgrCli's   *)
(* CommandRight, and the following.                                        *)

(* The type invariants of all parts: array indices and counters of the C   *)
(* code stay in range.                                                     *)
ToolTypeOK ==
  /\ part = "pipeline" => PipelineTypeOK
  /\ part = "index" => TypeOK
  /\ part = "index_any" => G!TypeOK
  /\ part = "pagemap" => PagemapTypeOK
  /\ part = "chain" => ChainTypeOK
  /\ part = "import" => ImportTypeOK
  /\ part = "cli" => CliTypeOK

(* A query that maps its file answers from it, whatever went before, and   *)
(* no blob leaves a file that is as long as its header says, also for      *)
(* callers that rewrite their buffers and for any file with the magic.     *)
MappedLoadsRight == part = "index_any" => G!FreshLoadsRight /\ G!BlobsInside

(* A chain "B+0x10>0x8>0x20" is followed as the README and lxgr_dump.h say. *)
ChainAsDocumented == part = "chain" => DocumentedSum

(* Every call of the library and every invocation of the tool returns. *)
Termination ==
  part \in {"pipeline", "pagemap", "chain", "import", "cli"} ~>
    phase = "done" \/ step = "done" \/ pc = "done" \/ stage = "done" \/ label = "exit"
=============================================================================
