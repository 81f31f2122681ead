------------------------------ MODULE MCOutput ------------------------------
(***************************************************************************)
(* The instance for what il2cpp-dumper-rs does in parallel on its way to   *)
(* the output: the processes and their directories (DumpRun), the types of *)
(* dump.cs (DumpTypes) and the structs of il2cpp.h (StructInfos).  A       *)
(* behaviour belongs to one part, chosen in the initial state.  In the     *)
(* other parts no process is started; variables with the same name in the  *)
(* two maps share a TLC variable, and those not used keep the value Idle.  *)
(***************************************************************************)
EXTENDS DumpRun, Integers

CONSTANTS Idle

VARIABLES part,
  md, taken, results, merged, pc,                                  \* both maps
  jobs, buf, outputs, made, files, wrote, warned,                  \* types
  dic, generics, infos, arrays, names, list, processed, round, found  \* structs

-----------------------------------------------------------------------------
(* Two processes, no two options sets of which have all stages, and a gap  *)
(* in the numbers that are taken.                                          *)
SomeConfigs == {{"split", "generics"}, {"struct", "scaffold"}, {"static", "dll"}}
TakenNumbers == {{0, 2}}

(* Four types in one image or in two that are listed in reverse: methods   *)
(* that share code within a type, with a nested type and with another one, *)
(* broken types at every level, two types with the same path.              *)
Ty(ns, n, top, rvas, nested, err) ==
  [ns |-> ns, name |-> n, top |-> top, rvas |-> rvas, nested |-> nested, err |-> err]
TypeLists == {
  <<Ty("N", "<A>", TRUE, <<1, 2, 1>>, <<2, 3>>, 0), Ty("", "B", FALSE, <<2, 3>>, << >>, 0),
    Ty("", "C", FALSE, <<3, 0>>, << >>, 0), Ty("N", "_A_", TRUE, <<1>>, << >>, 0)>>,
  <<Ty("N", "A", TRUE, <<1, 2>>, <<2>>, 2), Ty("", "B", FALSE, <<2>>, <<3>>, 0),
    Ty("", "C", FALSE, <<1>>, << >>, -1), Ty("M", "A", TRUE, <<2>>, << >>, 0)>>,
  <<Ty("N", "A", TRUE, <<1>>, <<2>>, 0), Ty("", "B", FALSE, <<2, 1>>, <<3>>, 2),
    Ty("", "C", FALSE, <<1>>, << >>, 0), Ty("N", "B", TRUE, <<2>>, << >>, -1)>>}
ImageLists == {
  <<[name |-> "X", start |-> 0, count |-> 4]>>,
  <<[name |-> "Y", start |-> 3, count |-> 1], [name |-> "X", start |-> 0, count |-> 3]>>}
TypePrograms ==
  [types : TypeLists, images : ImageLists, split : {TRUE}, target : {"both", "split"}]
  \cup [types : TypeLists, images : ImageLists, split : {FALSE}, target : {"flat", "none"}]
SafeNames == [n \in {"<A>", "_A_", "A", "B", "C"} |-> IF n = "<A>" THEN "_A_" ELSE n]
T == INSTANCE DumpTypes WITH Programs <- TypePrograms, Threads <- 2, Safe <- SafeNames

(* Types of the same name and of one that looks like a suffix, listed in   *)
(* three orders or not at all; arrays whose names coincide; instances that *)
(* refer to each other, share a name with a type or with each other, come  *)
(* twice, are null or unreadable.                                          *)
F(k, o) == [kind |-> k, of |-> o]
D(n, fields) == [name |-> n, fields |-> fields]
X(p, d, a, n, r) == [ptr |-> p, def |-> d, args |-> a, name |-> n, readable |-> r]
DefLists == {
  <<D(<<"A">>, <<F("array", 1), F("generic", 10)>>),
    D(<<"A">>, <<F("ptrarray", 1), F("array", 1)>>),
    D(<<"A", 1>>, <<F("vararray", 0), F("generic", 20), F("other", 1)>>),
    D(<<"B">>, <<F("array", 9)>>)>>,
  <<D(<<"A">>, <<F("array", 9), F("generic", 20), F("array", 4)>>),
    D(<<"A", 1>>, <<F("ptrarray", 4), F("vararray", 2)>>),
    D(<<"A">>, <<F("vararray", 1), F("generic", 10), F("generic", 20)>>),
    D(<<"A", 1>>, << >>)>>}
InstLists == {
  <<X(10, 3, <<4>>, <<"A_B">>, TRUE), X(20, 3, <<1>>, <<"A_A">>, TRUE),
    X(0, 3, <<1>>, <<"Z">>, TRUE), X(10, 3, <<4>>, <<"A_B">>, TRUE)>>,
  <<X(20, 1, <<2, 1>>, <<"A">>, TRUE), X(30, 3, <<1>>, <<"A_A">>, FALSE),
    X(10, 3, <<1, 2>>, <<"A_A">>, TRUE), X(40, 3, <<2, 3>>, <<"A_A">>, TRUE)>>,
  <<X(30, 2, <<3>>, <<"A_C">>, TRUE), X(20, 4, <<3>>, <<"A_C">>, TRUE),
    X(10, 3, <<3, 1>>, <<"A_C">>, TRUE)>>}
StructPrograms ==
  [types : DefLists, listed : {<<1, 2, 3, 4>>, <<3, 4, 1, 2>>, <<2, 3, 1>>},
   insts : InstLists, params : {<<0, 1, 0>>}]
S == INSTANCE StructInfos WITH Programs <- StructPrograms, Threads <- 2, NoType <- 99

ASSUME Assumptions == RunAssumption /\ T!TypesAssumption /\ S!InfosAssumption

-----------------------------------------------------------------------------
typesOnly == <<jobs, buf, outputs, made, files, wrote, warned>>
structsOnly == <<dic, generics, infos, arrays, names, list, processed, round, found>>
mapBoth == <<md, taken, results, merged, pc>>
outvars == <<part, vars, mapBoth, typesOnly, structsOnly>>

TypesIdle ==
  /\ jobs = Idle /\ buf = Idle /\ outputs = Idle /\ made = Idle
  /\ files = Idle /\ wrote = Idle /\ warned = Idle
StructsIdle ==
  /\ dic = Idle /\ generics = Idle /\ infos = Idle /\ arrays = Idle /\ names = Idle
  /\ list = Idle /\ processed = Idle /\ round = Idle /\ found = Idle
MapIdle == md = Idle /\ taken = Idle /\ results = Idle /\ merged = Idle /\ pc = Idle

OutInit ==
  /\ Init
  /\ \/ part = "run" /\ MapIdle /\ TypesIdle /\ StructsIdle
     \/ part = "types" /\ T!Init /\ StructsIdle
     \/ part = "structs" /\ S!Init /\ TypesIdle

OutNext ==
  /\ part' = part
  /\ \/ part = "run" /\ Next /\ UNCHANGED <<mapBoth, typesOnly, structsOnly>>
     \/ part = "types" /\ T!Next /\ UNCHANGED <<vars, structsOnly>>
     \/ part = "structs" /\ S!Next /\ UNCHANGED <<vars, typesOnly>>

(* The fairness of each part: a process that is not killed goes on, and so *)
(* do the threads of a pool.                                               *)
ProcessGoesOn(r) ==
  part = "run" /\ Step(r) /\ UNCHANGED <<part, mapBoth, typesOnly, structsOnly>>
PoolGoesOn == part \in {"types", "structs"} /\ OutNext

OutSpec ==
  /\ OutInit /\ [][OutNext]_outvars
  /\ \A r \in Runs : WF_outvars(ProcessGoesOn(r))
  /\ WF_outvars(PoolGoesOn)

-----------------------------------------------------------------------------
(* Properties: those of the parts, each where its part runs. *)

(* The type invariants of the parts: counters of the two maps stay inside  *)
(* their lists, and no more jobs are under way than there are threads.     *)
OutTypeOK ==
  /\ TypeOK
  /\ part = "types" => T!TypeOK
  /\ part = "structs" => S!TypeOK

(* In the other parts the abstract loops have nothing to do. *)
TextJobs == IF part = "types" THEN T!Sequential ELSE << >>
InfoJobs == IF part = "structs" THEN S!Sequential ELSE << >>
TextLoop == INSTANCE InOrder WITH
  jobs <- TextJobs, kept <- << >>,
  done <- IF part = "types" THEN merged ELSE 0, out <- IF part = "types" THEN buf ELSE << >>
InfoLoop == INSTANCE InOrder WITH
  jobs <- InfoJobs, done <- IF part = "structs" THEN merged + processed ELSE 0,
  out <- IF part = "structs" THEN infos ELSE << >>,
  kept <- IF part = "structs" THEN arrays ELSE << >>

(* The parallel maps implement a loop over their jobs: dump.cs has every   *)
(* type in the order of the images, with bodies annotated for the type     *)
(* itself, and il2cpp.h gets the structs in the order of the tables and    *)
(* the first of every array class.                                         *)
MapsInOrder == TextLoop!Spec /\ InfoLoop!Spec

(* The file of a type in DiffableCs is complete and its own, and agrees    *)
(* with dump.cs, unless its write was reported as failed or another type   *)
(* has the same path.                                                      *)
SplitFilesRight == part = "types" => T!SplitFilesRight /\ T!PassesAgree

(* Every struct name of il2cpp.h is defined once, and the worklist of      *)
(* generic classes has nothing to discover.                                *)
StructsComplete == part = "structs" => S!StructsComplete

(* Every process that is started and both maps come to an end. *)
Quiet ==
  /\ \A r \in Runs : ~Active(r)
  /\ part # "run" => pc \in {"ok", "failed", "done"}
AllEnd == <>[]Quiet
=============================================================================
