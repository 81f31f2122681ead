------------------------------ MODULE DumpRun ------------------------------
(***************************************************************************)
(* run() of il2cpp-dumper-rs as its processes see the output directory:    *)
(* the number of the Dump directory, the order in which the files are      *)
(* written, which failures end the process and which are warnings, and the *)
(* report at the end.  Several processes may run at the same time, and one *)
(* can be killed at any point; what they have written stays.               *)
(***************************************************************************)
EXTENDS Naturals, Sequences, FiniteSets

CONSTANTS
  Runs,      \* processes, each started once
  Configs,   \* sets of options: what config.json and the flags turn on
  Existing,  \* sets of Dump numbers that are there before the first run
  Absent, Empty, Mixed, Older,  \* contents of a file that are no run's
  MaxFaults  \* bound: failing calls and kills in a behaviour

OptionNames == {"split", "static", "struct", "scaffold", "dll", "generics"}

(* What the constants are assumed to be. *)
RunAssumption ==
  /\ IsFiniteSet(Runs)
  /\ Configs \subseteq SUBSET OptionNames
  /\ IsFiniteSet(UNION Existing) /\ UNION Existing \subseteq Nat
  /\ {Absent, Empty, Mixed, Older} \cap Runs = {}
  /\ Older \notin {Absent, Empty, Mixed} /\ Absent # Empty
  /\ MaxFaults \in Nat

(* One stage of run(): files written at the same time, whether what comes  *)
(* before the writes can fail with ?, and whether a failed write does; if  *)
(* it does not, it is a warning.  One name stands for the files that are   *)
(* written alike: DiffableCs for the files of the types (DumpTypes),       *)
(* script.json for the two JSON files, ida.py for all scripts.             *)
Stage(option, files, build, strict) ==
  [option |-> option, files |-> files, build |-> build, strict |-> strict]
Stages == <<
  Stage("split", {"DiffableCs"}, TRUE, FALSE),
  Stage("always", {"dump.cs"}, FALSE, TRUE),
  Stage("static", {"static_metadata.json"}, TRUE, TRUE),
  Stage("struct", {"script.json", "il2cpp.h"}, TRUE, FALSE),
  Stage("struct", {"ida.py"}, FALSE, TRUE),
  Stage("dll", {"DummyDll/Game.dll"}, TRUE, FALSE),
  Stage("dll", {"DummyDll/Il2CppDummyDll.dll"}, FALSE, TRUE),
  Stage("generics", {"generics_dump.txt"}, FALSE, FALSE) >>

Scaffold == "il2cpp-functions.h"
Files == {Scaffold} \cup (UNION {Stages[s].files : s \in DOMAIN Stages})

(* The files stage s writes under the options c; none if it is off. *)
Wanted(c, s) ==
  IF Stages[s].option \notin c \cup {"always"} THEN {}
  ELSE Stages[s].files
       \cup (IF s = 4 /\ "scaffold" \in c THEN {Scaffold} ELSE {})

(* The next stage that is not off. *)
StageAfter(c, s) ==
  CHOOSE n \in s + 1 .. Len(Stages) + 1 :
    /\ n <= Len(Stages) => Wanted(c, n) # {}
    /\ \A m \in s + 1 .. n - 1 : Wanted(c, m) = {}
AllWanted(c) == UNION {Wanted(c, s) : s \in DOMAIN Stages}

VARIABLES
  dirs,    \* the Dump numbers that exist
  disk,    \* Dump number -> file -> content: the run that wrote it, or another
  run,     \* the processes: see RunState
  met,     \* history: the runs that were active at some time while it was
  faults   \* failures so far

vars == <<dirs, disk, run, met, faults>>

Numbers == 0 .. Cardinality(UNION Existing) + Cardinality(Runs)

RunState ==
  [pc : {"new", "probe", "mkdir", "load", "build", "write", "ok", "error", "killed"},
   config : SUBSET OptionNames, num : Numbers, stage : 0 .. Len(Stages) + 1,
   open : SUBSET Files, left : SUBSET Files, warned : SUBSET Files,
   listed : SUBSET Files]

Active(r) == run[r].pc \notin {"new", "ok", "error", "killed"}

Init ==
  /\ dirs \in Existing
  /\ disk = [n \in Numbers |-> [f \in Files |-> IF n \in dirs THEN Older ELSE Absent]]
  /\ run = [r \in Runs |-> [pc |-> "new", config |-> {}, num |-> 0, stage |-> 0,
                            open |-> {}, left |-> {}, warned |-> {}, listed |-> {}]]
  /\ met = [r \in Runs |-> {}]
  /\ faults = 0

Fault == faults < MaxFaults /\ faults' = faults + 1

Goes(r, to) == run' = [run EXCEPT ![r].pc = to]

-----------------------------------------------------------------------------
(* A process is started with some options. *)
Start(r) ==
  /\ run[r].pc = "new"
  /\ \E c \in Configs : run' = [run EXCEPT ![r].pc = "probe", ![r].config = c]
  /\ LET now == {o \in Runs : Active(o)} IN
       met' = [o \in Runs |-> IF o = r THEN now ELSE IF o \in now THEN met[o] \cup {r} ELSE met[o]]
  /\ UNCHANGED <<dirs, disk, faults>>

(* Mutant: the number is how many Dump directories there are. *)
ProbeCounts(r) ==
  /\ run[r].pc = "probe"
  /\ run' = [run EXCEPT ![r].pc = "mkdir", ![r].num = Cardinality(dirs)]
  /\ UNCHANGED <<dirs, disk, met, faults>>

(* The loop over exists(): the first number that is free.  Directories do  *)
(* not go away, so that the last test of the loop decides.                 *)
Probe(r) ==
  /\ run[r].pc = "probe"
  /\ \E n \in Numbers \ dirs :
       /\ 0 .. n - 1 \subseteq dirs
       /\ run' = [run EXCEPT ![r].pc = "mkdir", ![r].num = n]
  /\ UNCHANGED <<dirs, disk, met, faults>>

(* create_dir_all(...).ok(): a failure is passed over. *)
MakeDir(r) ==
  /\ run[r].pc = "mkdir"
  /\ Goes(r, "load")
  /\ \/ dirs' = dirs \cup {run[r].num} /\ UNCHANGED faults
     \/ Fault /\ UNCHANGED dirs
  /\ UNCHANGED <<disk, met>>

(* The inputs are read and parsed, the binary is recognised and searched. *)
Load(r) ==
  /\ run[r].pc = "load"
  /\ \/ /\ run' = [run EXCEPT ![r].pc = "build", ![r].stage = StageAfter(run[r].config, 0)]
        /\ UNCHANGED faults
     \/ Goes(r, "error") /\ Fault
  /\ UNCHANGED <<dirs, disk, met>>

(* A stage begins.  The first one of a split dump removes DiffableCs and   *)
(* makes it again, with Dump{n} if that is missing.                        *)
Build(r) ==
  LET want == Wanted(run[r].config, run[r].stage)
      n == run[r].num
  IN  /\ run[r].pc = "build"
      /\ run' = [run EXCEPT ![r].pc = "write", ![r].left = want]
      /\ \/ /\ "DiffableCs" \in want
            /\ dirs' = dirs \cup {n}
            /\ disk' = [disk EXCEPT ![n]["DiffableCs"] = Absent]
         \/ "DiffableCs" \notin want /\ UNCHANGED <<dirs, disk>>
      /\ UNCHANGED <<met, faults>>

(* What a stage computes before it writes fails: run() returns the error. *)
BuildFails(r) ==
  /\ run[r].pc = "build"
  /\ Stages[run[r].stage].build
  /\ Goes(r, "error") /\ Fault
  /\ UNCHANGED <<dirs, disk, met>>

(* fs::write, first half: the file is created or emptied. *)
Open(r, f) ==
  /\ run[r].pc = "write" /\ f \in run[r].left \ run[r].open
  /\ run[r].num \in dirs
  /\ run' = [run EXCEPT ![r].open = @ \cup {f}]
  /\ disk' = [disk EXCEPT ![run[r].num][f] = Empty]
  /\ UNCHANGED <<dirs, met, faults>>

(* Mutant: the file is not closed. *)
WriteKeepsOpen(r, f) ==
  /\ run[r].pc = "write" /\ f \in run[r].open \cap run[r].left
  /\ run' = [run EXCEPT ![r].left = @ \ {f}]
  /\ disk' = [disk EXCEPT ![run[r].num][f] = r]
  /\ UNCHANGED <<dirs, met, faults>>

(* Second half: the content, over what another process may have put there  *)
(* since, which shows behind it if it is longer.                           *)
Write(r, f) ==
  /\ run[r].pc = "write" /\ f \in run[r].open
  /\ run' = [run EXCEPT ![r].open = @ \ {f}, ![r].left = @ \ {f}]
  /\ \E content \in IF disk[run[r].num][f] \in {Absent, Empty, r} THEN {r} ELSE {r, Mixed} :
       disk' = [disk EXCEPT ![run[r].num][f] = IF @ = Absent THEN Absent ELSE content]
  /\ UNCHANGED <<dirs, met, faults>>

(* Mutant: the failed write of a parallel group is not even a warning. *)
WriteFailsSilently(r, f) ==
  /\ run[r].pc = "write" /\ f \in run[r].left
  /\ (run[r].num \notin dirs /\ UNCHANGED faults) \/ Fault
  /\ run' = IF Stages[run[r].stage].strict THEN [run EXCEPT ![r].pc = "error"]
            ELSE [run EXCEPT ![r].open = @ \ {f}, ![r].left = @ \ {f}]
  /\ UNCHANGED <<dirs, disk, met>>

(* Either half fails; without the directory it always does. *)
WriteFails(r, f) ==
  /\ run[r].pc = "write" /\ f \in run[r].left
  /\ (run[r].num \notin dirs /\ UNCHANGED faults) \/ Fault
  /\ run' = IF Stages[run[r].stage].strict THEN [run EXCEPT ![r].pc = "error"]
            ELSE [run EXCEPT ![r].open = @ \ {f}, ![r].left = @ \ {f},
                             ![r].warned = @ \cup {f}]
  /\ UNCHANGED <<dirs, disk, met>>

(* Mutant: a stage is over only when all of its files are written. *)
EndStageWaits(r) ==
  LET next == StageAfter(run[r].config, run[r].stage)
  IN  /\ run[r].pc = "write" /\ run[r].left = {} /\ run[r].warned = {}
      /\ run' = [run EXCEPT ![r].pc = IF next > Len(Stages) THEN "ok" ELSE "build",
                            ![r].stage = next]
      /\ UNCHANGED <<dirs, disk, met, faults>>

(* A stage is over: its files go to generated_files, whether they were     *)
(* written or not; only a failed generics dump is left out, and            *)
(* il2cpp-functions.h is always in.  After the last one the process says   *)
(* "All tasks completed successfully!" and ends with status 0.             *)
EndStage(r) ==
  LET s == run[r].stage
      report == CASE s = 4 -> Stages[s].files \cup {Scaffold}
                  [] s = 8 -> Stages[s].files \ run[r].warned
                  [] s \in {1, 5} -> {}
                  [] OTHER -> Stages[s].files
      next == StageAfter(run[r].config, s)
  IN  /\ run[r].pc = "write" /\ run[r].left = {}
      /\ run' = [run EXCEPT ![r].pc = IF next > Len(Stages) THEN "ok" ELSE "build",
                            ![r].stage = next, ![r].listed = @ \cup report]
      /\ UNCHANGED <<dirs, disk, met, faults>>

(* The process is killed. *)
Kill(r) ==
  /\ Active(r)
  /\ Goes(r, "killed") /\ Fault
  /\ UNCHANGED <<dirs, disk, met>>

Step(r) ==
  \/ Probe(r) \/ MakeDir(r) \/ Load(r) \/ Build(r) \/ BuildFails(r) \/ EndStage(r)
  \/ \E f \in Files : Open(r, f) \/ Write(r, f) \/ WriteFails(r, f)

Next == \E r \in Runs : Start(r) \/ Step(r) \/ Kill(r)

Spec == Init /\ [][Next]_vars /\ \A r \in Runs : WF_vars(Step(r))

-----------------------------------------------------------------------------
(* Properties *)

(* The processes' states, and a file only where there is a directory. *)
TypeOK ==
  /\ run \in [Runs -> RunState]
  /\ disk \in [Numbers -> [Files -> Runs \cup {Absent, Empty, Mixed, Older}]]
  /\ \A n \in Numbers \ dirs : \A f \in Files : disk[n][f] = Absent
  /\ \A r \in Runs : run[r].open \subseteq run[r].left

(* Two processes that wrote into one directory ran at the same time. *)
Shares(r) == {o \in met[r] : run[o].pc \notin {"new", "probe"} /\ run[o].num = run[r].num}

(* A dump that is complete is left alone: nothing in a Dump directory that *)
(* was there at the start, or of a process that has succeeded, changes,    *)
(* unless a process that was active at the same time has the same number.  *)
FinishedDumpsStay ==
  [][/\ \A n \in Numbers : disk[n] # disk'[n] => \A f \in Files : disk[n][f] # Older
     /\ \A r \in Runs :
          run[r].pc = "ok" /\ disk[run[r].num] # disk'[run[r].num] => Shares(r) # {}]_vars

(* A process that reports success has written every file it was asked for, *)
(* in a directory no earlier run had, or has warned of the ones it has     *)
(* not, unless it shares the directory.  The same goes for the files its   *)
(* report lists, but for il2cpp-functions.h, which the report always       *)
(* lists.                                                                  *)
SuccessMeansWritten ==
  \A r \in Runs :
    run[r].pc = "ok" =>
      /\ run[r].num \in dirs
      /\ Shares(r) = {} =>
           \A f \in Files :
             /\ f \in AllWanted(run[r].config) \ run[r].warned => disk[run[r].num][f] = r
             /\ f \in run[r].listed \ {Scaffold} => f \in AllWanted(run[r].config)
             /\ f \notin AllWanted(run[r].config) => disk[run[r].num][f] = Absent

(* A process that is not killed ends. *)
Ends == \A r \in Runs : run[r].pc = "probe" ~> run[r].pc \in {"ok", "error", "killed"}
=============================================================================
