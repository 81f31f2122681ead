----------------------------- MODULE DumpTypes -----------------------------
(***************************************************************************)
(* Il2CppDecompiler::decompile from the point where the types are dumped:  *)
(* a thread pool turns every type into its part of dump.cs and, for a      *)
(* top-level type of a split dump, into a file of DiffableCs; the parts    *)
(* are joined, the directories made and the files written, in parallel.    *)
(*                                                                         *)
(* A text is a sequence of lines <<t, k, body>>: the declaration of type t *)
(* (k = 0), its k-th method, or the error comment that ends it (k = -1).   *)
(* The body names the method <<t, k>> it was disassembled for: its fields, *)
(* parameters and vtable annotate the instructions.                        *)
(***************************************************************************)
EXTENDS Naturals, Integers, Sequences, SequencesExt, FiniteSets

CONSTANTS
  Programs,  \* inputs: [images, types, split, target]
  Threads,   \* threads of the rayon pool
  Safe       \* the name with the characters "<>|/\:*?" and the quote replaced

(* What the constants are assumed to be.  The images cover no type twice,  *)
(* a type is nested in a type of lower index, and an rva 0 stands for an   *)
(* abstract method or one without code.  A type can be broken: a name that *)
(* is not in the string table ends it at its k-th method (err = k) or      *)
(* before any (err = -1).                                                  *)
TypesAssumption ==
  /\ Threads \in Nat \ {0}
  /\ \A p \in Programs :
       /\ p.split \in BOOLEAN /\ p.target \in {"both", "flat", "split", "none"}
       /\ Len(p.images) \in Nat /\ DOMAIN p.images = 1 .. Len(p.images)
       /\ Len(p.types) \in Nat /\ DOMAIN p.types = 1 .. Len(p.types)
       /\ \A t \in DOMAIN p.types :
            LET d == p.types[t] IN
              /\ d.top \in BOOLEAN /\ d.name \in DOMAIN Safe
              /\ d.rvas \in Seq(Nat) /\ d.err \in -1 .. Len(d.rvas)
              /\ \A c \in Range(d.nested) : c \in DOMAIN p.types /\ c > t /\ ~p.types[c].top
       /\ \A i, j \in DOMAIN p.images :
            /\ p.images[i].start \in Nat /\ p.images[i].count \in Nat
            /\ p.images[i].start + p.images[i].count <= Len(p.types)
            /\ i # j => \/ p.images[i].start + p.images[i].count <= p.images[j].start
                        \/ p.images[j].start + p.images[j].count <= p.images[i].start

VARIABLES
  md,       \* the input
  jobs,     \* type_jobs
  taken,    \* jobs and writes a thread is at work on
  results,  \* what the finished jobs returned
  merged,   \* how many results are in buf
  buf,      \* the types' part of dump.cs
  outputs,  \* split_file_outputs
  made,     \* the directories of DiffableCs that could be made
  files,    \* DiffableCs: path -> content
  wrote,    \* finished writes
  warned,   \* the ones that failed
  pc

vars == <<md, jobs, taken, results, merged, buf, outputs, made, files, wrote, warned, pc>>

-----------------------------------------------------------------------------
(* type_jobs: the types image by image, whatever the order of the images. *)
TypeJobs(p) ==
  FlattenSeq([i \in DOMAIN p.images |->
    [k \in 1 .. p.images[i].count |->
       [image |-> p.images[i].name, t |-> p.images[i].start + k]]])

Type(t) == md.types[t]
Declared(t) == <<<<t, 0, << >>>>>>

(* The lines of the methods up to the one that fails, and its error. *)
UntilError(t, lines) ==
  CASE Type(t).err = 0 -> lines
    [] Type(t).err = -1 -> <<<<t, -1, << >>>>>>
    [] OTHER -> Append(SubSeq(lines, 1, Type(t).err - 1), <<t, -1, << >>>>)

WantFlat == md.target \in {"both", "flat"}
WantSplit == md.target \in {"both", "split"}
Share == WantFlat /\ WantSplit

(* Mutant: the bodies are found under the number of the method. *)
PrecomputeByNumber(t, cache) ==
  LET rvas == {Type(t).rvas[k] : k \in DOMAIN Type(t).rvas} \ {0}
      First(r) == <<t, SelectInSeq(Type(t).rvas, LAMBDA x : x = r)>>
      number(r) == SelectInSeq(Type(t).rvas, LAMBDA x : x = r)
  IN  [r \in rvas |-> IF number(r) \in DOMAIN cache THEN cache[number(r)] ELSE First(r)]

(* precompute_method_disassembly: one body for each rva of the type, the   *)
(* cached one or that of the first of its methods with this rva.           *)
Precompute(t, cache) ==
  LET rvas == {Type(t).rvas[k] : k \in DOMAIN Type(t).rvas} \ {0}
      First(r) == <<t, SelectInSeq(Type(t).rvas, LAMBDA x : x = r)>>
  IN  [r \in rvas |-> IF r \in DOMAIN cache THEN cache[r] ELSE First(r)]

(* dump_type without the nested types, which adds to the text and, if the  *)
(* two passes share it, to the cache (dump_methods).                       *)
DumpOne(acc, t, disasm) ==
  LET asm == IF disasm THEN Precompute(t, acc.cache) ELSE << >>
      rva(k) == Type(t).rvas[k]
      lines == [k \in DOMAIN Type(t).rvas |->
                  <<t, k, IF rva(k) \in DOMAIN asm THEN asm[rva(k)] ELSE << >>>>]
  IN  [text |-> acc.text \o Declared(t) \o UntilError(t, lines),
       cache |-> IF Share /\ Type(t).err # -1 THEN acc.cache @@ asm ELSE acc.cache]

(* The types dump_type visits with dump_nested: the type itself and, if it *)
(* did not fail, the nested ones in order.                                 *)
Nest ==
  LET visit[t \in DOMAIN md.types] ==
        <<t>> \o (IF Type(t).err = 0
                  THEN FlattenSeq([i \in DOMAIN Type(t).nested |-> visit[Type(t).nested[i]]])
                  ELSE << >>)
  IN  visit

Path(job) == <<job.image, Type(job.t).ns, Safe[Type(job.t).name]>>

(* One job of the parallel map: the flat pass and, for a top-level type of *)
(* a split dump, the pass with the nested types.  The cache lives as long  *)
(* as the job.                                                             *)
DumpJob(job) ==
  LET flat == DumpOne([text |-> << >>, cache |-> << >>], job.t, WantFlat)
      split == FoldLeft(LAMBDA acc, t : DumpOne(acc, t, WantSplit),
                        [text |-> << >>, cache |-> flat.cache], Nest[job.t])
  IN  [flat |-> flat.text,
       split |-> IF md.split /\ Type(job.t).top
                 THEN <<[path |-> Path(job), text |-> split.text]>> ELSE << >>]

Dir(path) == <<path[1], path[2]>>

-----------------------------------------------------------------------------
Init ==
  /\ md \in Programs /\ jobs = TypeJobs(md) /\ outputs = << >>
  /\ taken = {} /\ results = [j \in {} |-> << >>] /\ merged = 0 /\ buf = << >>
  /\ made = {} /\ files = << >> /\ wrote = {} /\ warned = {}
  /\ pc = "map"

(* A thread takes a job, and returns its result; nothing orders them. *)
Take ==
  /\ pc = "map"
  /\ Cardinality(taken) < Threads
  /\ \E j \in DOMAIN jobs \ (taken \cup DOMAIN results) : taken' = taken \cup {j}
  /\ UNCHANGED <<md, jobs, results, merged, buf, outputs, made, files, wrote, warned, pc>>

Finish ==
  /\ pc = "map"
  /\ \E j \in taken :
       /\ taken' = taken \ {j}
       /\ results' = [x \in DOMAIN results \cup {j} |->
                      IF x \in DOMAIN results THEN results[x] ELSE DumpJob(jobs[x])]
  /\ pc' = IF DOMAIN results' = DOMAIN jobs THEN "merge" ELSE "map"
  /\ UNCHANGED <<md, jobs, merged, buf, outputs, made, files, wrote, warned>>

(* Mutant: a result is joined as soon as it is there. *)
MergeAsTheyCome ==
  /\ pc = "map"
  /\ \E j \in DOMAIN results :
       /\ merged + 1 = Cardinality(DOMAIN results)
       /\ merged' = merged + 1
       /\ buf' = buf \o results[j].flat
       /\ outputs' = outputs \o results[j].split
  /\ UNCHANGED <<md, jobs, taken, results, made, files, wrote, warned, pc>>

(* The loop over type_results. *)
Merge ==
  /\ pc = "merge"
  /\ merged < Len(jobs)
  /\ merged' = merged + 1
  /\ buf' = buf \o results[merged + 1].flat
  /\ outputs' = outputs \o results[merged + 1].split
  /\ UNCHANGED <<md, jobs, taken, results, made, files, wrote, warned, pc>>

(* created_dirs: a directory that cannot be made is passed over. *)
MakeDirs ==
  /\ pc = "merge"
  /\ merged = Len(jobs)
  /\ made' \in SUBSET {Dir(outputs[o].path) : o \in DOMAIN outputs}
  /\ pc' = "write"
  /\ UNCHANGED <<md, jobs, taken, results, merged, buf, outputs, files, wrote, warned>>

(* fs::write of one file, first half: it is created, or emptied. *)
Open ==
  /\ pc = "write"
  /\ Cardinality(taken) < Threads
  /\ \E o \in DOMAIN outputs \ (taken \cup wrote) :
       /\ Dir(outputs[o].path) \in made
       /\ taken' = taken \cup {o}
       /\ files' = [x \in DOMAIN files \cup {outputs[o].path} |->
                      IF x = outputs[o].path THEN << >> ELSE files[x]]
  /\ UNCHANGED <<md, jobs, results, merged, buf, outputs, made, wrote, warned, pc>>

(* Second half: the text goes to the beginning of the file; what another   *)
(* write has put there and is longer shows behind it.                      *)
Write ==
  /\ pc = "write"
  /\ \E o \in taken :
       LET path == outputs[o].path
           text == outputs[o].text IN
         /\ files' = [files EXCEPT ![path] =
                        IF @ = << >> THEN text ELSE text \o SubSeq(@, Len(text) + 1, Len(@))]
         /\ taken' = taken \ {o}
         /\ wrote' = wrote \cup {o}
  /\ UNCHANGED <<md, jobs, results, merged, buf, outputs, made, warned, pc>>

(* Either half fails: a warning on stderr. *)
WriteFails ==
  /\ pc = "write"
  /\ \E o \in DOMAIN outputs \ wrote :
       /\ o \notin taken => Cardinality(taken) < Threads
       /\ taken' = taken \ {o}
       /\ wrote' = wrote \cup {o}
       /\ warned' = warned \cup {o}
  /\ UNCHANGED <<md, jobs, results, merged, buf, outputs, made, files, pc>>

(* All files done: dump.cs, whose failure is the only one reported. *)
WriteDump ==
  /\ pc = "write"
  /\ wrote = DOMAIN outputs
  /\ pc' \in {"ok", "failed"}
  /\ UNCHANGED <<md, jobs, taken, results, merged, buf, outputs, made, files, wrote, warned>>

Done == pc \in {"ok", "failed"} /\ UNCHANGED vars

Next ==
  \/ Take \/ Finish \/ Merge \/ MakeDirs \/ Open \/ Write \/ WriteFails \/ WriteDump
  \/ Done

Spec == Init /\ [][Next]_vars /\ WF_vars(Next)

-----------------------------------------------------------------------------
(* Properties *)

(* A thread works on a job that exists and is not finished, at most Threads*)
(* of them at a time, and only files with an output exist.                 *)
TypeOK ==
  /\ md \in Programs
  /\ DOMAIN results \subseteq DOMAIN jobs /\ merged \in 0 .. Len(jobs)
  /\ Cardinality(taken) <= Threads
  /\ taken \subseteq IF pc = "map" THEN DOMAIN jobs \ DOMAIN results
                     ELSE DOMAIN outputs \ wrote
  /\ warned \subseteq wrote
  /\ DOMAIN files \subseteq {outputs[o].path : o \in DOMAIN outputs}
  /\ pc \in {"map", "merge", "write", "ok", "failed"}

(* The k-th line of a type when nothing but the type itself is looked at:  *)
(* its methods with the body of the first method of the type that has the  *)
(* same code.                                                              *)
Alone(t, disasm) ==
  Declared(t) \o UntilError(t,
    [k \in DOMAIN Type(t).rvas |->
       <<t, k, IF ~disasm \/ Type(t).rvas[k] = 0 THEN << >>
               ELSE <<t, CHOOSE f \in 1 .. k :
                           /\ Type(t).rvas[f] = Type(t).rvas[k]
                           /\ \A e \in 1 .. f - 1 : Type(t).rvas[e] # Type(t).rvas[k]>>>>])

(* dump.cs is the loop over the types in the order of the images, each     *)
(* type on its own.                                                        *)
Sequential ==
  [j \in DOMAIN jobs |-> [text |-> Alone(jobs[j].t, WantFlat), keyed |-> << >>]]

(* What a file of DiffableCs holds for the type of job j: the type and its *)
(* nested types in order; every body is that of a method with the same     *)
(* code, and of the type itself unless the flat pass or an enclosing type  *)
(* has put that code into the cache.                                       *)
FileOf(j, text) ==
  LET nest == Nest[jobs[j].t]
      plain == FlattenSeq([i \in DOMAIN nest |-> Alone(nest[i], WantSplit)])
      Code(b) == Type(b[1]).rvas[b[2]]
      Rank(t) == SelectInSeq(nest, LAMBDA x : x = t)
  IN  /\ Len(text) = Len(plain)
      /\ \A i \in DOMAIN text :
           LET line == text[i] IN
             /\ <<line[1], line[2]>> = <<plain[i][1], plain[i][2]>>
             /\ (line[3] = << >>) = (plain[i][3] = << >>)
             /\ line[3] # << >> =>
                  /\ Code(line[3]) = Type(line[1]).rvas[line[2]]
                  /\ Rank(line[3][1]) \in 1 .. Rank(line[1])
                  /\ ~Share => line = plain[i]

Owner(o) == CHOOSE j \in DOMAIN jobs : results[j].split = <<outputs[o]>>
Unshared(o) == \A p \in DOMAIN outputs : p # o => outputs[p].path # outputs[o].path

(* After the parallel writes every file is there and, unless two outputs   *)
(* have its path, holds the text of its output and nothing else, whatever  *)
(* the order of the writes; or its write was reported as failed.           *)
FilesWritten ==
  pc \in {"ok", "failed"} =>
    \A o \in DOMAIN outputs \ warned :
      /\ outputs[o].path \in DOMAIN files
      /\ Unshared(o) => files[outputs[o].path] = outputs[o].text

(* That text is the one of a top-level type and its nested types. *)
SplitFilesRight ==
  /\ FilesWritten
  /\ pc \in {"ok", "failed"} =>
       \A o \in DOMAIN outputs : FileOf(Owner(o), outputs[o].text)

(* dump.cs and the files of a type agree on the type itself: the first     *)
(* lines of its file are its lines of dump.cs, when both are disassembled. *)
PassesAgree ==
  \A j \in DOMAIN results :
    Share /\ results[j].split # << >> => IsPrefix(results[j].flat, results[j].split[1].text)

(* The dump ends, with or without an error. *)
Ends == pc = "map" ~> pc \in {"ok", "failed"}
=============================================================================
