--------------------------- MODULE DumpRunProofs ---------------------------
(***************************************************************************)
(* The Dump directories for any number of processes, options, directories  *)
(* that are there before, and faults.                                      *)
(***************************************************************************)
EXTENDS DumpRun, Integers, FiniteSetTheorems, TLAPS

Past(r) == run[r].pc \notin {"new", "probe"}
Contents == Runs \cup {Absent, Empty, Mixed, Older}

Typed ==
  /\ run \in [Runs -> RunState]
  /\ disk \in [Numbers -> [Files -> Contents]]

(* A file only where there is a directory. *)
NoDirNoFile == \A n \in Numbers : n \notin dirs => \A f \in Files : disk[n][f] = Absent

(* What one process knows of its directory.  It is there once dump.cs is   *)
(* written, the one file every run writes and may not fail to write.       *)
Local(v, d) ==
  /\ v.pc \in {"new", "probe"} => v.open = {}
  /\ v.open # {} => v.num \in d
  /\ v.pc \in {"build", "write", "ok"} /\ v.stage > 2 => v.num \in d
  /\ v.pc = "write" /\ v.stage = 2 => "dump.cs" \in v.left \/ v.num \in d
  /\ v.pc = "ok" => v.stage > 2
  /\ v.pc \in {"build", "write"} => v.stage \in 1 .. 8

(* A process never takes a directory with files of before. *)
NotOlder ==
  \A r \in Runs : Active(r) /\ Past(r) => \A f \in Files : disk[run[r].num][f] # Older

(* Processes that are active know each other. *)
MetInv == \A r, o \in Runs : r # o /\ Active(r) /\ Active(o) => o \in met[r]

(* Whoever can still write where a process has succeeded has met it. *)
OkInv ==
  \A r, o \in Runs :
    run[r].pc = "ok" /\ Active(o) /\ Past(o) /\ run[o].num = run[r].num => o \in met[r]

Inv ==
  /\ Typed /\ NoDirNoFile /\ NotOlder /\ MetInv /\ OkInv
  /\ \A r \in Runs : Local(run[r], dirs)

-----------------------------------------------------------------------------
(* The stages *)

(* The list of stages has eight entries; the second one is the dump.cs     *)
(* that no option turns off and whose write ends the process if it fails.  *)
LEMMA StageFacts ==
  /\ Len(Stages) = 8
  /\ DOMAIN Stages = 1 .. 8
  /\ Stages[2].option = "always"
  /\ Stages[2].strict = TRUE
  /\ Stages[2].files = {"dump.cs"}
<1>1. Stages[2] = Stage("always", {"dump.cs"}, FALSE, TRUE)
  BY DEF Stages
<1>2. Len(Stages) = 8 /\ DOMAIN Stages = 1 .. 8
  BY DEF Stages
<1> QED BY <1>1, <1>2 DEF Stage

(* What a stage writes are files of a dump. *)
LEMMA WantedFiles ==
  ASSUME NEW c, NEW s \in 1 .. 8
  PROVE  Wanted(c, s) \in SUBSET Files
<1>1. Stages[s].files \subseteq UNION {Stages[k].files : k \in DOMAIN Stages}
  BY StageFacts
<1>2. Wanted(c, s) \subseteq Stages[s].files \cup {Scaffold}
  BY DEF Wanted
<1> QED BY <1>1, <1>2 DEF Files

(* The second stage always writes dump.cs. *)
LEMMA WantedDump ==
  ASSUME NEW c PROVE "dump.cs" \in Wanted(c, 2)
BY StageFacts DEF Wanted

Follows(c, s, n) ==
  /\ n <= 8 => Wanted(c, n) # {}
  /\ \A m \in s + 1 .. n - 1 : Wanted(c, m) = {}

(* Down from 8. *)
LEMMA Downward ==
  ASSUME NEW G \in SUBSET Int, 8 \in G,
         \A k, j \in Int : 0 <= k /\ k < 8 /\ k = j - 1 /\ j \in G => k \in G
  PROVE  \A k \in 0 .. 8 : k \in G
<1>1. 7 \in G /\ 6 \in G /\ 5 \in G /\ 4 \in G
  OBVIOUS
<1>2. 3 \in G /\ 2 \in G /\ 1 \in G /\ 0 \in G
  BY <1>1
<1> QED BY <1>1, <1>2

(* Whatever the options, there is a next stage or the end. *)
LEMMA SomethingFollows ==
  ASSUME NEW c, NEW s \in 0 .. 8
  PROVE  \E n \in s + 1 .. 9 : Follows(c, s, n)
<1> DEFINE G == {k \in 0 .. 8 : \E n \in k + 1 .. 9 : Follows(c, k, n)}
<1>1. 8 \in G
  BY DEF Follows
<1>2. ASSUME NEW k \in 0 .. 7, k + 1 \in G PROVE k \in G
  <2>1. CASE Wanted(c, k + 1) # {}
    <3>1. Follows(c, k, k + 1)
      BY <2>1 DEF Follows
    <3> QED BY <3>1
  <2>2. CASE Wanted(c, k + 1) = {}
    <3>1. PICK n \in k + 2 .. 9 : Follows(c, k + 1, n)
      BY <1>2
    <3>2. \A m \in k + 1 .. n - 1 : m = k + 1 \/ m \in k + 2 .. n - 1
      OBVIOUS
    <3>3. Follows(c, k, n)
      BY <2>2, <3>1, <3>2 DEF Follows
    <3> QED BY <3>1, <3>3
  <2> QED BY <2>1, <2>2
<1>3. G \in SUBSET Int
  OBVIOUS
<1> HIDE DEF G
<1>4. \A k, j \in Int : 0 <= k /\ k < 8 /\ k = j - 1 /\ j \in G => k \in G
  <2> SUFFICES ASSUME NEW k \in Int, NEW j \in Int, 0 <= k, k < 8, k = j - 1, j \in G
               PROVE  k \in G
    OBVIOUS
  <2>1. k \in 0 .. 7 /\ j = k + 1
    OBVIOUS
  <2> QED BY <1>2, <2>1
<1>5. s \in G
  BY <1>1, <1>3, <1>4, Downward
<1> QED BY <1>5 DEF G

(* StageAfter chooses a stage that follows. *)
LEMMA StageFollows ==
  ASSUME NEW c, NEW s \in 0 .. 8
  PROVE  StageAfter(c, s) \in s + 1 .. 9 /\ Follows(c, s, StageAfter(c, s))
<1>1. StageAfter(c, s) = CHOOSE k \in s + 1 .. 9 : Follows(c, s, k)
  BY StageFacts DEF StageAfter, Follows
<1> QED BY <1>1, SomethingFollows

(* The next stage is a later one, and dump.cs is not passed over. *)
LEMMA NextStage ==
  ASSUME NEW c, NEW s \in 0 .. 8
  PROVE  /\ StageAfter(c, s) \in s + 1 .. 9
         /\ s < 2 => StageAfter(c, s) <= 2
<1> DEFINE n == StageAfter(c, s)
<1>2. n \in s + 1 .. 9 /\ Follows(c, s, n)
  BY StageFollows
<1> HIDE DEF n
<1>3. s < 2 => n <= 2
  <2>1. SUFFICES ASSUME s < 2, n > 2 PROVE FALSE
    BY <1>2
  <2>2. 2 \in s + 1 .. n - 1
    BY <1>2, <2>1
  <2> QED BY <1>2, <2>2, WantedDump DEF Follows
<1> QED BY <1>2, <1>3 DEF n

-----------------------------------------------------------------------------
(* Steps of a process that has its number *)

(* A process that keeps its number, and writes nothing but files that are  *)
(* not of before into that directory, keeps the invariant.                 *)
LEMMA MoveInv ==
  ASSUME Inv, NEW r \in Runs, NEW v \in RunState, Active(r),
         v.num = run[r].num, v.pc \notin {"new", "probe"},
         v.pc # "killed" => Past(r),
         run' = [run EXCEPT ![r] = v], met' = met, dirs \subseteq dirs',
         disk' \in [Numbers -> [Files -> Contents]],
         \A n \in Numbers : \A f \in Files :
           disk'[n][f] = disk[n][f]
           \/ (n = run[r].num /\ n \in dirs' /\ disk'[n][f] # Older),
         Local(v, dirs')
  PROVE  Inv'
<1>1. run'[r] = v /\ \A o \in Runs : o # r => run'[o] = run[o]
  BY DEF Inv, Typed
<1>t. \A o \in Runs : run[o].num \in Numbers
  BY DEF Inv, Typed, RunState
<1>2. Typed'
  BY DEF Inv, Typed
<1>3. NoDirNoFile'
  BY DEF Inv, NoDirNoFile
<1>a. \A o \in Runs : Active(o)' => Active(o)
  BY <1>1 DEF Active
<1>p. \A o \in Runs : Active(o)' /\ Past(o)' => Past(o) /\ run'[o].num = run[o].num
  BY <1>1 DEF Active, Past
<1>4. NotOlder'
  BY <1>a, <1>p, <1>t DEF Inv, NotOlder
<1>5. MetInv'
  BY <1>a DEF Inv, MetInv
<1>6. OkInv'
  <2> SUFFICES ASSUME NEW q \in Runs, NEW o \in Runs, run'[q].pc = "ok", Active(o)', Past(o)',
                      run'[o].num = run'[q].num
               PROVE  o \in met[q]
    BY DEF OkInv
  <2>1. CASE q = r
    <3>1. o # r
      BY <2>1 DEF Active
    <3> QED BY <2>1, <3>1, <1>a DEF Inv, MetInv
  <2>2. CASE q # r
    BY <2>2, <1>1, <1>a, <1>p DEF Inv, OkInv
  <2> QED BY <2>1, <2>2
<1>7. \A o \in Runs : Local(run[o], dirs)'
  <2> SUFFICES ASSUME NEW o \in Runs PROVE Local(run'[o], dirs')
    OBVIOUS
  <2>1. CASE o = r
    BY <1>1, <2>1
  <2>2. CASE o # r
    <3>1. Local(run[o], dirs) /\ run'[o] = run[o]
      BY <1>1, <2>2 DEF Inv
    <3> QED BY <3>1 DEF Local
  <2> QED BY <2>1, <2>2
<1> QED BY <1>2, <1>3, <1>4, <1>5, <1>6, <1>7 DEF Inv

(* A step of a process that changes no file and no directory. *)
LEMMA QuietMove ==
  ASSUME Inv, NEW r \in Runs, NEW v \in RunState, Active(r),
         v.num = run[r].num, v.pc \notin {"new", "probe"},
         v.pc # "killed" => Past(r),
         run' = [run EXCEPT ![r] = v], met' = met, dirs' = dirs, disk' = disk,
         Local(v, dirs)
  PROVE  Inv'
<1>1. disk' \in [Numbers -> [Files -> Contents]]
  BY DEF Inv, Typed
<1>2. dirs \subseteq dirs' /\ Local(v, dirs')
  OBVIOUS
<1> QED BY <1>1, <1>2, MoveInv

(* A process ends with an error or is killed. *)
LEMMA GoesInv ==
  ASSUME Inv, NEW r \in Runs, Active(r), NEW to \in {"error", "killed"},
         to = "error" => Past(r), Goes(r, to), UNCHANGED <<dirs, disk, met>>
  PROVE  Inv'
<1> DEFINE v == [run[r] EXCEPT !.pc = to]
<1>1. run[r] \in RunState /\ Local(run[r], dirs)
  BY DEF Inv, Typed
<1>2. v \in RunState /\ v.num = run[r].num /\ v.pc = to /\ v.open = run[r].open
  BY <1>1 DEF RunState
<1>3. run' = [run EXCEPT ![r] = v]
  BY DEF Goes
<1>4. Local(v, dirs)
  BY <1>1, <1>2 DEF Local
<1> HIDE DEF v
<1> QED BY <1>2, <1>3, <1>4, QuietMove

(* The invariant over create_dir_all, done or failed. *)
LEMMA MakeDirInv ==
  ASSUME Inv, NEW r \in Runs, MakeDir(r) PROVE Inv'
<1> DEFINE v == [run[r] EXCEPT !.pc = "load"]
<1>1. run[r] \in RunState /\ Local(run[r], dirs)
  BY DEF Inv, Typed
<1>2. v \in RunState /\ v.num = run[r].num /\ v.pc = "load" /\ v.open = run[r].open
  BY <1>1 DEF RunState
<1>3. run' = [run EXCEPT ![r] = v] /\ dirs \subseteq dirs' /\ disk' = disk /\ met' = met
  BY DEF MakeDir, Goes
<1>4. Local(v, dirs')
  BY <1>1, <1>2, <1>3 DEF Local
<1>5. Active(r) /\ Past(r)
  BY DEF MakeDir, Active, Past
<1>6. disk' \in [Numbers -> [Files -> Contents]]
  BY <1>3 DEF Inv, Typed
<1> HIDE DEF v
<1> QED BY <1>2, <1>3, <1>4, <1>5, <1>6, MoveInv

(* Over the reading of the inputs: the first stage is dump.cs or before. *)
LEMMA LoadInv ==
  ASSUME Inv, NEW r \in Runs, Load(r) PROVE Inv'
<1>1. run[r] \in RunState /\ Local(run[r], dirs)
  BY DEF Inv, Typed
<1>2. Active(r) /\ Past(r)
  BY DEF Load, Active, Past
<1>3. CASE Goes(r, "error")
  BY <1>2, <1>3, GoesInv DEF Load
<1>4. CASE run' = [run EXCEPT ![r].pc = "build", ![r].stage = StageAfter(run[r].config, 0)]
  <2> DEFINE n == StageAfter(run[r].config, 0)
             v == [run[r] EXCEPT !.pc = "build", !.stage = n]
  <2>1. n \in 1 .. 9 /\ n <= 2
    BY NextStage
  <2> HIDE DEF n
  <2>r. n \in 0 .. Len(Stages) + 1
    BY <2>1, StageFacts
  <2>2. v \in RunState /\ v.num = run[r].num /\ v.pc = "build"
        /\ v.stage = n /\ v.open = run[r].open
    BY <1>1, <2>r DEF RunState
  <2>3. run' = [run EXCEPT ![r] = v]
    <3>1. run' = [run EXCEPT ![r].pc = "build", ![r].stage = n]
      BY <1>4 DEF n
    <3>2. run \in [Runs -> RunState]
      BY DEF Inv, Typed
    <3> QED BY <3>1, <3>2 DEF RunState
  <2>4. Local(v, dirs)
    BY <1>1, <2>1, <2>2 DEF Local
  <2> HIDE DEF v
  <2> QED BY <1>2, <2>2, <2>3, <2>4, QuietMove DEF Load
<1> QED BY <1>3, <1>4 DEF Load

(* Over the begin of a stage, with the DiffableCs that is made anew. *)
LEMMA BuildInv ==
  ASSUME RunAssumption, Inv, NEW r \in Runs, Build(r) PROVE Inv'
<1> DEFINE want == Wanted(run[r].config, run[r].stage)
           n == run[r].num
           v == [run[r] EXCEPT !.pc = "write", !.left = want]
<1>1. run[r] \in RunState /\ Local(run[r], dirs) /\ run[r].pc = "build"
  BY DEF Inv, Typed, Build
<1>2. Active(r) /\ Past(r) /\ n \in Numbers
  BY <1>1 DEF Active, Past, RunState
<1>3. want \in SUBSET Files
  BY <1>1, WantedFiles DEF Local
<1>d. run[r].stage = 2 => "dump.cs" \in want
  BY WantedDump
<1>4. run' = [run EXCEPT ![r] = v] /\ met' = met
  <2>1. run' = [run EXCEPT ![r].pc = "write", ![r].left = want] /\ met' = met
    BY DEF Build
  <2>2. run \in [Runs -> RunState]
    BY DEF Inv, Typed
  <2> HIDE DEF want
  <2> QED BY <2>1, <2>2 DEF RunState
<1>5. \/ "DiffableCs" \in want /\ dirs' = dirs \cup {n}
         /\ disk' = [disk EXCEPT ![n]["DiffableCs"] = Absent]
      \/ dirs' = dirs /\ disk' = disk
  BY DEF Build
<1> HIDE DEF want
<1>6. /\ v \in RunState /\ v.num = n /\ v.pc = "write" /\ v.open = run[r].open
      /\ v.stage = run[r].stage /\ v.left = want
  BY <1>1, <1>3 DEF RunState
<1> HIDE DEF v
<1>7. dirs \subseteq dirs'
  BY <1>5
<1>8. Local(v, dirs')
  BY <1>1, <1>6, <1>7, <1>d DEF Local
<1>9. disk \in [Numbers -> [Files -> Contents]]
  BY DEF Inv, Typed
<1>10. /\ disk' \in [Numbers -> [Files -> Contents]]
       /\ \A k \in Numbers : \A f \in Files :
            disk'[k][f] = disk[k][f] \/ (k = n /\ k \in dirs' /\ disk'[k][f] # Older)
  <2>1. CASE disk' = disk
    BY <1>9, <2>1
  <2>2. CASE /\ "DiffableCs" \in want /\ dirs' = dirs \cup {n}
             /\ disk' = [disk EXCEPT ![n]["DiffableCs"] = Absent]
    BY <1>2, <1>3, <1>9, <2>2 DEF Contents, RunAssumption
  <2> QED BY <1>5, <2>1, <2>2
<1> QED BY <1>2, <1>4, <1>6, <1>7, <1>8, <1>10, MoveInv

(* Both halves of a write put one content, which is not that of an earlier *)
(* dump, into the process's own directory.                                 *)
LEMMA FileMove ==
  ASSUME Inv, NEW r \in Runs, NEW v \in RunState, Active(r), Past(r),
         v.num = run[r].num, v.pc \notin {"new", "probe"},
         run' = [run EXCEPT ![r] = v], met' = met, dirs' = dirs, Local(v, dirs),
         NEW f \in Files, NEW x \in Contents, x # Older, run[r].num \in dirs,
         disk' = [disk EXCEPT ![run[r].num][f] = x]
  PROVE  Inv'
<1>1. disk \in [Numbers -> [Files -> Contents]] /\ run[r].num \in Numbers
  BY DEF Inv, Typed, RunState
<1>2. /\ disk' \in [Numbers -> [Files -> Contents]]
      /\ \A k \in Numbers : \A g \in Files :
           \/ disk'[k][g] = disk[k][g]
           \/ k = run[r].num /\ k \in dirs' /\ disk'[k][g] # Older
  BY <1>1
<1>3. dirs \subseteq dirs' /\ Local(v, dirs')
  OBVIOUS
<1> QED BY <1>2, <1>3, MoveInv

(* Over the creation of a file. *)
LEMMA OpenInv ==
  ASSUME RunAssumption, Inv, NEW r \in Runs, NEW f \in Files, Open(r, f) PROVE Inv'
<1> DEFINE v == [run[r] EXCEPT !.open = @ \cup {f}]
<1>1. /\ run[r] \in RunState /\ Local(run[r], dirs)
      /\ run[r].pc = "write" /\ run[r].num \in dirs
  BY DEF Inv, Typed, Open
<1>2. Active(r) /\ Past(r)
  BY <1>1 DEF Active, Past
<1>3. run' = [run EXCEPT ![r] = v] /\ met' = met /\ dirs' = dirs
  BY DEF Open
<1>4. v \in RunState /\ v.num = run[r].num /\ v.pc = "write" /\ v.stage = run[r].stage
  BY <1>1 DEF RunState
<1> HIDE DEF v
<1>5. Local(v, dirs)
  BY <1>1, <1>4 DEF Local
<1>6. Empty \in Contents /\ Empty # Older /\ disk' = [disk EXCEPT ![run[r].num][f] = Empty]
  BY DEF Open, Contents, RunAssumption
<1> QED BY <1>1, <1>2, <1>3, <1>4, <1>5, <1>6, FileMove

(* Over the writing of its content. *)
LEMMA WriteInv ==
  ASSUME RunAssumption, Inv, NEW r \in Runs, NEW f \in Files, Write(r, f) PROVE Inv'
<1> DEFINE v == [run[r] EXCEPT !.open = @ \ {f}, !.left = @ \ {f}]
<1>1. run[r] \in RunState /\ Local(run[r], dirs) /\ run[r].pc = "write"
  BY DEF Inv, Typed, Write
<1>2. run[r].num \in dirs
  BY <1>1 DEF Write, Local
<1>3. Active(r) /\ Past(r)
  BY <1>1 DEF Active, Past
<1>4. run' = [run EXCEPT ![r] = v] /\ met' = met /\ dirs' = dirs
  <2>1. /\ run' = [run EXCEPT ![r].open = @ \ {f}, ![r].left = @ \ {f}]
        /\ met' = met /\ dirs' = dirs
    BY DEF Write
  <2>2. run \in [Runs -> RunState]
    BY DEF Inv, Typed
  <2> QED BY <2>1, <2>2 DEF RunState
<1>5. v \in RunState /\ v.num = run[r].num /\ v.pc = "write" /\ v.stage = run[r].stage
  BY <1>1 DEF RunState
<1> HIDE DEF v
<1>6. Local(v, dirs)
  BY <1>1, <1>2, <1>5 DEF Local
<1>7. PICK content \in {r, Mixed} :
        disk' = [disk EXCEPT ![run[r].num][f] = IF @ = Absent THEN Absent ELSE content]
  BY DEF Write
<1> DEFINE x == IF disk[run[r].num][f] = Absent THEN Absent ELSE content
<1>8. x \in Contents /\ x # Older
  BY DEF Contents, RunAssumption
<1>9. disk' = [disk EXCEPT ![run[r].num][f] = x]
  BY <1>7
<1> HIDE DEF x
<1> QED BY <1>2, <1>3, <1>4, <1>5, <1>6, <1>8, <1>9, FileMove

(* Over a failed write, which for dump.cs is the end of the process. *)
LEMMA WriteFailsInv ==
  ASSUME Inv, NEW r \in Runs, NEW f \in Files, WriteFails(r, f) PROVE Inv'
<1>1. run[r] \in RunState /\ Local(run[r], dirs) /\ run[r].pc = "write"
  BY DEF Inv, Typed, WriteFails
<1>2. Active(r) /\ Past(r)
  BY <1>1 DEF Active, Past
<1>3. UNCHANGED <<dirs, disk, met>>
  BY DEF WriteFails
<1>4. CASE Stages[run[r].stage].strict
  <2>1. Goes(r, "error")
    BY <1>4 DEF WriteFails, Goes
  <2> QED BY <1>2, <1>3, <2>1, GoesInv
<1>5. CASE ~Stages[run[r].stage].strict
  <2> DEFINE v == [run[r] EXCEPT !.open = @ \ {f}, !.left = @ \ {f}, !.warned = @ \cup {f}]
  <2>1. run[r].stage # 2
    BY <1>5, StageFacts
  <2>2. run' = [run EXCEPT ![r] = v]
    <3>1. run' = [run EXCEPT ![r].open = @ \ {f}, ![r].left = @ \ {f}, ![r].warned = @ \cup {f}]
      BY <1>5 DEF WriteFails
    <3>2. run \in [Runs -> RunState]
      BY DEF Inv, Typed
    <3> QED BY <3>1, <3>2 DEF RunState
  <2>3. /\ v \in RunState /\ v.num = run[r].num /\ v.pc = "write" /\ v.stage = run[r].stage
        /\ v.open \subseteq run[r].open
    BY <1>1 DEF RunState
  <2> HIDE DEF v
  <2>4. Local(v, dirs)
    BY <1>1, <2>1, <2>3 DEF Local
  <2> QED BY <1>2, <1>3, <2>2, <2>3, <2>4, QuietMove
<1> QED BY <1>4, <1>5

(* Over the end of a stage: past dump.cs the directory is there. *)
LEMMA EndStageInv ==
  ASSUME Inv, NEW r \in Runs, EndStage(r) PROVE Inv'
<1> DEFINE s == run[r].stage
           report == CASE s = 4 -> Stages[s].files \cup {Scaffold}
                       [] s = 8 -> Stages[s].files \ run[r].warned
                       [] s \in {1, 5} -> {}
                       [] OTHER -> Stages[s].files
           next == StageAfter(run[r].config, s)
           to == IF next > Len(Stages) THEN "ok" ELSE "build"
           v == [run[r] EXCEPT !.pc = to, !.stage = next, !.listed = @ \cup report]
<1>1. run[r] \in RunState /\ Local(run[r], dirs) /\ run[r].pc = "write" /\ run[r].left = {}
  BY DEF Inv, Typed, EndStage
<1>2. Active(r) /\ Past(r)
  BY <1>1 DEF Active, Past
<1>3. s \in 1 .. 8
  BY <1>1 DEF Local
<1>4. run' = [run EXCEPT ![r].pc = to, ![r].stage = next, ![r].listed = @ \cup report]
      /\ UNCHANGED <<dirs, disk, met>>
  BY DEF EndStage
<1>5. report \subseteq Files
  <2>1. Stages[s].files \subseteq Files /\ Scaffold \in Files
    BY <1>3, StageFacts DEF Files
  <2> HIDE DEF s
  <2> QED BY <2>1
<1>6. next \in s + 1 .. 9 /\ (s < 2 => next <= 2)
  BY <1>3, NextStage
<1>7. to = IF next > 8 THEN "ok" ELSE "build"
  BY StageFacts
<1> HIDE DEF report, next, to
<1>8. next \in 0 .. Len(Stages) + 1
  BY <1>3, <1>6, StageFacts
<1>9. to \in {"ok", "build"}
  BY <1>7
<1>10. run' = [run EXCEPT ![r] = v]
  <2>1. run \in [Runs -> RunState]
    BY DEF Inv, Typed
  <2> QED BY <1>4, <2>1 DEF RunState
<1>11. v \in RunState /\ v.num = run[r].num /\ v.pc = to /\ v.stage = next /\ v.open = run[r].open
  BY <1>1, <1>5, <1>8, <1>9 DEF RunState
<1> HIDE DEF v
<1>12. Local(v, dirs)
  <2>1. s >= 2 => run[r].num \in dirs
    BY <1>1, <1>3 DEF Local
  <2>2. next > 2 => run[r].num \in dirs
    BY <1>3, <1>6, <2>1
  <2>3. to = "ok" => next > 2
    BY <1>3, <1>6, <1>7
  <2>4. to = "build" => next \in 1 .. 8
    BY <1>3, <1>6, <1>7
  <2> HIDE DEF s
  <2> QED BY <1>1, <1>9, <1>11, <2>2, <2>3, <2>4 DEF Local
<1> QED BY <1>2, <1>4, <1>9, <1>10, <1>11, <1>12, QuietMove

-----------------------------------------------------------------------------
(* A process starts, and takes its number *)

(* A new process meets all that are active. *)
LEMMA StartInv ==
  ASSUME RunAssumption, Inv, NEW r \in Runs, Start(r) PROVE Inv'
<1>1. PICK c \in Configs : run' = [run EXCEPT ![r].pc = "probe", ![r].config = c]
  BY DEF Start
<1> DEFINE v == [run[r] EXCEPT !.pc = "probe", !.config = c]
<1>2. run \in [Runs -> RunState] /\ Local(run[r], dirs) /\ run[r].pc = "new"
  BY DEF Inv, Typed, Start
<1>3. run' = [run EXCEPT ![r] = v]
  BY <1>1, <1>2 DEF RunState
<1>4. c \in SUBSET OptionNames
  BY DEF RunAssumption
<1>5. v \in RunState /\ v.pc = "probe" /\ v.open = run[r].open
  BY <1>2, <1>4 DEF RunState
<1> HIDE DEF v
<1>6. run'[r] = v /\ \A o \in Runs : o # r => run'[o] = run[o]
  BY <1>2, <1>3
<1>7. /\ dirs' = dirs /\ disk' = disk
      /\ \A o \in Runs : o # r /\ Active(o) => o \in met'[r] /\ met'[o] = met[o] \cup {r}
      /\ \A o \in Runs : o # r => met[o] \subseteq met'[o]
  BY DEF Start
<1>a. \A o \in Runs : o # r => (Active(o)' <=> Active(o)) /\ (Past(o)' <=> Past(o))
  BY <1>6 DEF Active, Past
<1>p. ~Past(r)' /\ run'[r].pc # "ok"
  BY <1>5, <1>6 DEF Past
<1>8. Typed'
  BY <1>2, <1>3, <1>5, <1>7 DEF Inv, Typed
<1>9. NoDirNoFile'
  BY <1>7 DEF Inv, NoDirNoFile
<1>10. NotOlder'
  BY <1>6, <1>7, <1>a, <1>p DEF Inv, NotOlder
<1>11. MetInv'
  <2> SUFFICES ASSUME NEW q \in Runs, NEW o \in Runs, q # o, Active(q)', Active(o)'
               PROVE  o \in met'[q]
    BY DEF MetInv
  <2>1. CASE q = r
    BY <2>1, <1>7, <1>a
  <2>2. CASE o = r
    BY <2>2, <1>7, <1>a
  <2>3. CASE q # r /\ o # r
    BY <2>3, <1>7, <1>a DEF Inv, MetInv
  <2> QED BY <2>1, <2>2, <2>3
<1>12. OkInv'
  <2> SUFFICES ASSUME NEW q \in Runs, NEW o \in Runs, run'[q].pc = "ok", Active(o)', Past(o)',
                      run'[o].num = run'[q].num
               PROVE  o \in met'[q]
    BY DEF OkInv
  <2>1. q # r /\ o # r
    BY <1>p
  <2> QED BY <2>1, <1>6, <1>7, <1>a DEF Inv, OkInv
<1>13. \A o \in Runs : Local(run'[o], dirs')
  <2>1. Local(v, dirs)
    BY <1>2, <1>5 DEF Local
  <2> QED BY <1>6, <1>7, <2>1 DEF Inv
<1> QED BY <1>8, <1>9, <1>10, <1>11, <1>12, <1>13 DEF Inv

(* The number is that of no directory, so of no process that succeeded. *)
LEMMA ProbeInv ==
  ASSUME RunAssumption, Inv, NEW r \in Runs, Probe(r) PROVE Inv'
<1>1. PICK n \in Numbers \ dirs : run' = [run EXCEPT ![r].pc = "mkdir", ![r].num = n]
  BY DEF Probe
<1> DEFINE v == [run[r] EXCEPT !.pc = "mkdir", !.num = n]
<1>2. /\ run \in [Runs -> RunState] /\ Local(run[r], dirs) /\ run[r].pc = "probe"
      /\ UNCHANGED <<dirs, disk, met>>
  BY DEF Inv, Typed, Probe
<1>3. run' = [run EXCEPT ![r] = v]
  BY <1>1, <1>2 DEF RunState
<1>5. v \in RunState /\ v.pc = "mkdir" /\ v.num = n /\ v.open = run[r].open
  BY <1>2 DEF RunState
<1> HIDE DEF v
<1>6. run'[r] = v /\ \A o \in Runs : o # r => run'[o] = run[o]
  BY <1>2, <1>3
<1>a. \A o \in Runs : Active(o)' <=> Active(o)
  BY <1>2, <1>5, <1>6 DEF Active
<1>p. \A o \in Runs : o # r => (Past(o)' <=> Past(o))
  BY <1>6 DEF Past
<1>8. Typed'
  BY <1>2, <1>3, <1>5 DEF Inv, Typed
<1>9. NoDirNoFile'
  BY <1>2 DEF Inv, NoDirNoFile
<1>10. NotOlder'
  <2> SUFFICES ASSUME NEW o \in Runs, Active(o)', Past(o)', NEW f \in Files
               PROVE  disk'[run'[o].num][f] # Older
    BY DEF NotOlder
  <2>1. CASE o = r
    <3>1. disk[n][f] = Absent
      BY DEF Inv, NoDirNoFile
    <3>2. Absent # Older
      BY DEF RunAssumption
    <3> QED BY <1>2, <1>5, <1>6, <2>1, <3>1, <3>2
  <2>2. CASE o # r
    BY <2>2, <1>2, <1>6, <1>a, <1>p DEF Inv, NotOlder
  <2> QED BY <2>1, <2>2
<1>11. MetInv'
  BY <1>2, <1>a DEF Inv, MetInv
<1>12. OkInv'
  <2> SUFFICES ASSUME NEW q \in Runs, NEW o \in Runs, run'[q].pc = "ok", Active(o)', Past(o)',
                      run'[o].num = run'[q].num
               PROVE  o \in met[q]
    BY <1>2 DEF OkInv
  <2>1. q # r /\ run[q].pc = "ok" /\ run'[q].num = run[q].num
    BY <1>5, <1>6
  <2>2. run[q].num \in dirs
    <3>1. Local(run[q], dirs)
      BY DEF Inv
    <3> QED BY <2>1, <3>1 DEF Local
  <2>3. o # r
    BY <1>5, <1>6, <2>1, <2>2
  <2> QED BY <2>1, <2>3, <1>6, <1>a, <1>p DEF Inv, OkInv
<1>13. \A o \in Runs : Local(run'[o], dirs')
  <2>1. Local(v, dirs)
    BY <1>2, <1>5 DEF Local
  <2> QED BY <1>2, <1>6, <2>1 DEF Inv
<1> QED BY <1>8, <1>9, <1>10, <1>11, <1>12, <1>13 DEF Inv

-----------------------------------------------------------------------------
(* The invariant, for every number of processes, options and faults. *)
LEMMA RunInvariant ==
  ASSUME RunAssumption PROVE Spec => []Inv
<1>1. Init => Inv
  <2> SUFFICES ASSUME Init PROVE Inv
    OBVIOUS
  <2>1. run \in [Runs -> RunState]
    <3>1. 0 \in Numbers
      <4>1. Cardinality(UNION Existing) \in Nat /\ Cardinality(Runs) \in Nat
        BY FS_CardinalityType DEF RunAssumption
      <4> QED BY <4>1 DEF Numbers
    <3>2. 0 \in 0 .. Len(Stages) + 1
      BY StageFacts
    <3> QED BY <3>1, <3>2 DEF Init, RunState
  <2>2. Typed /\ NoDirNoFile
    BY <2>1 DEF Init, Typed, NoDirNoFile, Contents
  <2>3. \A r \in Runs : run[r].pc = "new" /\ run[r].open = {}
    BY DEF Init
  <2>4. NotOlder /\ MetInv /\ OkInv
    BY <2>3 DEF NotOlder, MetInv, OkInv, Past, Active
  <2>5. \A r \in Runs : Local(run[r], dirs)
    BY <2>3 DEF Local
  <2> QED BY <2>2, <2>4, <2>5 DEF Inv
<1>2. Inv /\ [Next]_vars => Inv'
  <2> SUFFICES ASSUME Inv, [Next]_vars PROVE Inv'
    OBVIOUS
  <2>1. CASE UNCHANGED vars
    BY <2>1 DEF vars, Inv, Typed, NoDirNoFile, NotOlder, MetInv, OkInv, Local, Past, Active
  <2>2. ASSUME NEW r \in Runs, Start(r) PROVE Inv'
    BY <2>2, StartInv
  <2>3. ASSUME NEW r \in Runs, Kill(r) PROVE Inv'
    BY <2>3, GoesInv DEF Kill
  <2>4. ASSUME NEW r \in Runs, Probe(r) PROVE Inv'
    BY <2>4, ProbeInv
  <2>5. ASSUME NEW r \in Runs, MakeDir(r) PROVE Inv'
    BY <2>5, MakeDirInv
  <2>6. ASSUME NEW r \in Runs, Load(r) PROVE Inv'
    BY <2>6, LoadInv
  <2>7. ASSUME NEW r \in Runs, Build(r) PROVE Inv'
    BY <2>7, BuildInv
  <2>8. ASSUME NEW r \in Runs, BuildFails(r) PROVE Inv'
    <3>1. Active(r) /\ Past(r)
      BY <2>8 DEF BuildFails, Active, Past
    <3> QED BY <2>8, <3>1, GoesInv DEF BuildFails
  <2>9. ASSUME NEW r \in Runs, EndStage(r) PROVE Inv'
    BY <2>9, EndStageInv
  <2>10. ASSUME NEW r \in Runs, NEW f \in Files, Open(r, f) PROVE Inv'
    BY <2>10, OpenInv
  <2>11. ASSUME NEW r \in Runs, NEW f \in Files, Write(r, f) PROVE Inv'
    BY <2>11, WriteInv
  <2>12. ASSUME NEW r \in Runs, NEW f \in Files, WriteFails(r, f) PROVE Inv'
    BY <2>12, WriteFailsInv
  <2> QED BY <2>1, <2>2, <2>3, <2>4, <2>5, <2>6, <2>7, <2>8, <2>9, <2>10, <2>11, <2>12
          DEF Next, Step
<1> QED BY <1>1, <1>2, PTL DEF Spec

(* A process changes files only while it is active, and in its own         *)
(* directory.                                                              *)
LEMMA StepOwner ==
  ASSUME Inv, NEW r \in Runs, Start(r) \/ Step(r) \/ Kill(r),
         NEW n \in Numbers, disk'[n] # disk[n]
  PROVE  Active(r) /\ Past(r) /\ run[r].num = n
<1>0. run \in [Runs -> RunState] /\ disk \in [Numbers -> [Files -> Contents]]
  BY DEF Inv, Typed
<1>1. Build(r) \/ \E f \in Files : Open(r, f) \/ Write(r, f)
  <2>2. /\ ~Start(r) /\ ~Kill(r) /\ ~Probe(r) /\ ~MakeDir(r)
        /\ ~Load(r) /\ ~BuildFails(r) /\ ~EndStage(r)
    BY DEF Start, Kill, Probe, MakeDir, Load, BuildFails, EndStage
  <2>3. \A f \in Files : ~WriteFails(r, f)
    BY DEF WriteFails
  <2> QED BY <2>2, <2>3 DEF Step
<1>2. run[r].pc \in {"build", "write"}
  BY <1>1 DEF Build, Open, Write
<1>3. run[r].num = n
  <2>1. CASE Build(r)
    BY <1>0, <2>1 DEF Build
  <2>2. ASSUME NEW f \in Files, Open(r, f) PROVE run[r].num = n
    BY <1>0, <2>2 DEF Open
  <2>3. ASSUME NEW f \in Files, Write(r, f) PROVE run[r].num = n
    BY <1>0, <2>3 DEF Write
  <2> QED BY <1>1, <2>1, <2>2, <2>3
<1> QED BY <1>2, <1>3 DEF Active, Past

(* Whoever changes a file is active, and in its own directory. *)
LEMMA DiskOwner ==
  ASSUME Inv, Next, NEW n \in Numbers, disk'[n] # disk[n]
  PROVE  \E o \in Runs : Active(o) /\ Past(o) /\ run[o].num = n
BY StepOwner DEF Next

(* A dump that is complete is left alone, however many processes run and   *)
(* whatever fails: what was there before the first run never changes, and  *)
(* the directory of a run that succeeded changes only by a run that was    *)
(* active at the same time and has the same number.                        *)
THEOREM DumpsStay ==
  ASSUME RunAssumption PROVE Spec => FinishedDumpsStay
<1>1. Inv /\ [Next]_vars =>
        [/\ \A n \in Numbers : disk[n] # disk'[n] => \A f \in Files : disk[n][f] # Older
         /\ \A r \in Runs :
              run[r].pc = "ok" /\ disk[run[r].num] # disk'[run[r].num] => Shares(r) # {}]_vars
  <2> SUFFICES ASSUME Inv, Next
               PROVE  /\ \A n \in Numbers :
                           disk[n] # disk'[n] => \A f \in Files : disk[n][f] # Older
                      /\ \A r \in Runs :
                           run[r].pc = "ok" /\ disk[run[r].num] # disk'[run[r].num] =>
                             Shares(r) # {}
    OBVIOUS
  <2>1. ASSUME NEW n \in Numbers, disk[n] # disk'[n], NEW f \in Files
        PROVE  disk[n][f] # Older
    <3>1. PICK o \in Runs : Active(o) /\ Past(o) /\ run[o].num = n
      BY <2>1, DiskOwner
    <3> QED BY <3>1 DEF Inv, NotOlder
  <2>2. ASSUME NEW r \in Runs, run[r].pc = "ok", disk[run[r].num] # disk'[run[r].num]
        PROVE  Shares(r) # {}
    <3>1. run[r].num \in Numbers
      BY DEF Inv, Typed, RunState
    <3>2. PICK o \in Runs : Active(o) /\ Past(o) /\ run[o].num = run[r].num
      BY <2>2, <3>1, DiskOwner
    <3>3. o \in met[r]
      BY <2>2, <3>2 DEF Inv, OkInv
    <3> QED BY <3>2, <3>3 DEF Shares, Past
  <2> QED BY <2>1, <2>2
<1> QED BY <1>1, RunInvariant, PTL DEF Spec, FinishedDumpsStay
-----------------------------------------------------------------------------
(* What a process has written *)

(* The files of the stages up to n. *)
Sofar(c, n) == {f \in Files : \E k \in 1 .. 8 : k <= n /\ f \in Wanted(c, k)}

(* The last stage a process has begun. *)
Reached(v) == IF v.pc = "write" THEN v.stage ELSE v.stage - 1

(* What a process knows of its own stage and report. *)
Shape(v) ==
  /\ v.pc \in {"new", "probe", "mkdir", "load"} =>
       v.stage = 0 /\ v.left = {} /\ v.open = {} /\ v.listed = {}
  /\ v.pc = "build" => v.left = {} /\ v.open = {}
  /\ v.pc \in {"build", "write"} => v.stage \in 1 .. 8 /\ Wanted(v.config, v.stage) # {}
  /\ v.pc = "write" => v.left \subseteq Wanted(v.config, v.stage) /\ v.open \subseteq v.left
  /\ v.pc = "ok" => v.stage = 9 /\ v.left = {}
  /\ v.pc \in {"build", "write", "ok"} =>
       \A f \in v.listed : f = Scaffold \/ f \in Sofar(v.config, v.stage - 1)

(* What it has put into its directory d if nobody else writes there. *)
Holds(v, d, r) ==
  \A f \in Files :
    /\ f \notin Sofar(v.config, Reached(v)) => d[f] = Absent
    /\ f \in Sofar(v.config, Reached(v)) /\ f \in v.left =>
         d[f] = IF f \in v.open THEN Empty ELSE Absent
    /\ f \in Sofar(v.config, Reached(v)) /\ f \notin v.left => f \in v.warned \/ d[f] = r

Going(v) == v.pc \in {"mkdir", "load", "build", "write", "ok"}

OwnInv ==
  \A r \in Runs :
    /\ Shape(run[r])
    /\ Going(run[r]) /\ Shares(r) = {} => Holds(run[r], disk[run[r].num], r)

(* No two stages write the same file. *)
Home(f) ==
  CASE f = "DiffableCs" -> 1
    [] f = "dump.cs" -> 2
    [] f = "static_metadata.json" -> 3
    [] f \in {"script.json", "il2cpp.h", Scaffold} -> 4
    [] f = "ida.py" -> 5
    [] f = "DummyDll/Game.dll" -> 6
    [] f = "DummyDll/Il2CppDummyDll.dll" -> 7
    [] OTHER -> 8

(* The stage of a file. *)
LEMMA HomeStage ==
  ASSUME NEW c, NEW s \in 1 .. 8, NEW f \in Wanted(c, s)
  PROVE  Home(f) = s
<1>1. Stages[1].files = {"DiffableCs"} /\ Stages[2].files = {"dump.cs"}
  BY DEF Stages, Stage
<1>2. Stages[3].files = {"static_metadata.json"} /\ Stages[4].files = {"script.json", "il2cpp.h"}
  BY DEF Stages, Stage
<1>3. Stages[5].files = {"ida.py"} /\ Stages[6].files = {"DummyDll/Game.dll"}
  BY DEF Stages, Stage
<1>4. /\ Stages[7].files = {"DummyDll/Il2CppDummyDll.dll"}
      /\ Stages[8].files = {"generics_dump.txt"}
  BY DEF Stages, Stage
<1>5. f \in Stages[s].files \/ (s = 4 /\ f = Scaffold)
  BY DEF Wanted
<1>6. CASE s \in {1, 2}
  BY <1>1, <1>5, <1>6 DEF Home, Scaffold
<1>7. CASE s \in {3, 4}
  BY <1>2, <1>5, <1>7 DEF Home, Scaffold
<1>8. CASE s \in {5, 6}
  BY <1>3, <1>5, <1>8 DEF Home, Scaffold
<1>9. CASE s \in {7, 8}
  BY <1>4, <1>5, <1>9 DEF Home, Scaffold
<1> QED BY <1>6, <1>7, <1>8, <1>9

(* The stages that are passed over write nothing. *)
LEMMA SofarNext ==
  ASSUME NEW c, NEW s \in 0 .. 8
  PROVE  Sofar(c, StageAfter(c, s) - 1) = Sofar(c, s)
<1> DEFINE n == StageAfter(c, s)
<1>1. n \in s + 1 .. 9 /\ Follows(c, s, n)
  BY StageFollows
<1> HIDE DEF n
<1>2. \A k \in 1 .. 8 : k <= n - 1 /\ ~(k <= s) => Wanted(c, k) = {}
  <2> SUFFICES ASSUME NEW k \in 1 .. 8, k <= n - 1, ~(k <= s) PROVE Wanted(c, k) = {}
    OBVIOUS
  <2>1. k \in s + 1 .. n - 1
    BY <1>1
  <2> QED BY <1>1, <2>1 DEF Follows
<1>3. \A k \in 1 .. 8 : k <= s => k <= n - 1
  BY <1>1
<1>4. Sofar(c, n - 1) = Sofar(c, s)
  BY <1>2, <1>3 DEF Sofar
<1> QED BY <1>4 DEF n

(* A stage adds its own files, which no stage before it has. *)
LEMMA SofarStage ==
  ASSUME NEW c, NEW s \in 1 .. 8, NEW f \in Files
  PROVE  /\ f \in Sofar(c, s) <=> f \in Sofar(c, s - 1) \/ f \in Wanted(c, s)
         /\ f \in Wanted(c, s) => f \notin Sofar(c, s - 1)
<1>1. \A k \in 1 .. 8 : k <= s <=> (k <= s - 1 \/ k = s)
  OBVIOUS
<1>2. \A k \in 1 .. 8 : f \in Wanted(c, k) => Home(f) = k
  BY HomeStage
<1>3. ~(s <= s - 1)
  OBVIOUS
<1>4. f \in Wanted(c, s) => f \notin Sofar(c, s - 1)
  BY <1>2, <1>3 DEF Sofar
<1> QED BY <1>1, <1>4 DEF Sofar

(* After the last stage nothing is missing. *)
LEMMA SofarAll ==
  ASSUME NEW c PROVE Sofar(c, 8) = AllWanted(c)
<1>1. \A k \in 1 .. 8 : k <= 8 /\ Wanted(c, k) \in SUBSET Files
  BY WantedFiles
<1> QED BY <1>1, StageFacts DEF Sofar, AllWanted

-----------------------------------------------------------------------------
(* One process and its directory *)

(* Over the begin of a stage. *)
LEMMA HoldsBuild ==
  ASSUME NEW u \in RunState, Shape(u), u.pc = "build",
         NEW v, v = [u EXCEPT !.pc = "write", !.left = Wanted(u.config, u.stage)],
         NEW r, NEW d, NEW e \in [Files -> Contents],
         \A f \in Files : e[f] = d[f] \/ (f \in v.left /\ e[f] = Absent)
  PROVE  Shape(v) /\ (Holds(u, d, r) => Holds(v, e, r))
<1> DEFINE c == u.config
           s == u.stage
<1>1. /\ v.pc = "write" /\ v.left = Wanted(c, s) /\ v.open = {} /\ v.config = c
      /\ v.stage = s /\ v.warned = u.warned /\ v.listed = u.listed
  BY DEF RunState, Shape
<1>2. s \in 1 .. 8 /\ Wanted(c, s) # {} /\ u.left = {} /\ u.open = {}
  BY DEF Shape
<1>3. Reached(u) = s - 1 /\ Reached(v) = s
  BY <1>1 DEF Reached
<1>4. Shape(v)
  BY <1>1, <1>2 DEF Shape
<1>5. ASSUME Holds(u, d, r) PROVE Holds(v, e, r)
  <2> SUFFICES ASSUME NEW f \in Files
               PROVE  /\ f \notin Sofar(c, s) => e[f] = Absent
                      /\ f \in Sofar(c, s) /\ f \in Wanted(c, s) => e[f] = Absent
                      /\ f \in Sofar(c, s) /\ f \notin Wanted(c, s) =>
                           f \in u.warned \/ e[f] = r
    BY <1>1, <1>3 DEF Holds
  <2>1. /\ f \in Sofar(c, s) <=> f \in Sofar(c, s - 1) \/ f \in Wanted(c, s)
        /\ f \in Wanted(c, s) => f \notin Sofar(c, s - 1)
    BY <1>2, SofarStage
  <2>2. /\ f \notin Sofar(c, s - 1) => d[f] = Absent
        /\ f \in Sofar(c, s - 1) => f \in u.warned \/ d[f] = r
    BY <1>2, <1>3, <1>5 DEF Holds
  <2> QED BY <1>1, <2>1, <2>2
<1> QED BY <1>4, <1>5

(* Where a process goes whose next stage is n. *)
Then(n) == IF n > 8 THEN "ok" ELSE "build"

Ended(u, v, report) ==
  /\ v = [u EXCEPT !.pc = Then(StageAfter(u.config, u.stage)),
                   !.stage = StageAfter(u.config, u.stage), !.listed = @ \cup report]
  /\ \A f \in report : f = Scaffold \/ f \in Stages[u.stage].files

(* Over the end of a stage: its report lists files of the stage, or the    *)
(* scaffold.                                                               *)
LEMMA HoldsEndStage ==
  ASSUME NEW u \in RunState, Shape(u), u.pc = "write", u.left = {},
         NEW report, NEW v, Ended(u, v, report), NEW r, NEW d
  PROVE  Shape(v) /\ (Holds(u, d, r) => Holds(v, d, r))
<1> DEFINE c == u.config
           s == u.stage
           next == StageAfter(c, s)
           to == Then(next)
<1>1. /\ v.pc = to /\ v.left = {} /\ v.open = u.open /\ v.config = c
      /\ v.stage = next /\ v.warned = u.warned /\ v.listed = u.listed \cup report
  BY DEF RunState, Ended
<1>2. s \in 1 .. 8 /\ Wanted(c, s) # {} /\ u.open = {}
  BY DEF Shape
<1>3. next \in s + 1 .. 9 /\ Follows(c, s, next) /\ Sofar(c, next - 1) = Sofar(c, s)
  BY <1>2, StageFollows, SofarNext
<1> HIDE DEF next
<1>4. to \in {"ok", "build"} /\ (to = "ok" => next = 9) /\ (to = "build" => next \in 1 .. 8)
  BY <1>2, <1>3 DEF Then
<1> HIDE DEF to
<1>5. Reached(u) = s /\ Reached(v) = next - 1
  BY <1>1, <1>4 DEF Reached
<1>6. Stages[s].files \subseteq Wanted(c, s)
  BY <1>2 DEF Wanted
<1>7. \A f \in v.listed : f = Scaffold \/ f \in Sofar(c, next - 1)
  <2> SUFFICES ASSUME NEW f \in v.listed, f # Scaffold PROVE f \in Sofar(c, s)
    BY <1>3
  <2>1. f \in Sofar(c, s - 1) \/ f \in Wanted(c, s)
    BY <1>1, <1>6 DEF Shape, Ended
  <2>2. f \in Files
    BY <1>2, <2>1, WantedFiles DEF Sofar
  <2> QED BY <1>2, <2>1, <2>2, SofarStage
<1>8. Shape(v)
  <2>1. to = "build" => Wanted(c, next) # {}
    BY <1>3, <1>4 DEF Follows
  <2> QED BY <1>1, <1>2, <1>4, <1>7, <2>1 DEF Shape
<1>9. Holds(u, d, r) => Holds(v, d, r)
  BY <1>1, <1>3, <1>5 DEF Holds
<1> QED BY <1>8, <1>9

Wrote(u, v, f) ==
  /\ v.pc = "write" /\ v.config = u.config /\ v.stage = u.stage /\ v.listed = u.listed
  /\ u.warned \subseteq v.warned
  /\ \/ v.left = u.left /\ v.open = u.open \cup {f}
     \/ v.left = u.left \ {f} /\ v.open = u.open \ {f}
Elsewhere(d, e, f) == \A g \in Files : g # f => e[g] = d[g]

(* Over the two halves of a write of f, done or failed: f is opened, or is *)
(* no longer left and was written or is warned of.                         *)
LEMMA HoldsWrite ==
  ASSUME NEW u \in RunState, Shape(u), u.pc = "write", NEW f \in u.left,
         NEW v \in RunState, NEW r, NEW d, NEW e, Wrote(u, v, f), Elsewhere(d, e, f)
  PROVE  /\ Shape(v)
         /\ Holds(u, d, r) =>
              \/ Holds(v, e, r)
              \/ f \in v.left /\ e[f] # Empty
              \/ f \notin v.left /\ f \notin v.warned /\ e[f] # r
<1>1. Shape(v)
  BY DEF Shape, Wrote
<1>2. Reached(v) = Reached(u) /\ Reached(u) = u.stage
  BY DEF Reached, Wrote
<1>3. f \in Files /\ f \in Sofar(u.config, u.stage)
  <2>1. u.stage \in 1 .. 8 /\ f \in Wanted(u.config, u.stage)
    BY DEF Shape
  <2>2. f \in Files
    BY <2>1, WantedFiles
  <2> QED BY <2>1, <2>2, SofarStage
<1>4. ASSUME Holds(u, d, r), f \in v.left => e[f] = Empty,
             f \notin v.left => f \in v.warned \/ e[f] = r
      PROVE  Holds(v, e, r)
  BY <1>2, <1>3, <1>4 DEF Holds, Wrote, Elsewhere
<1> QED BY <1>1, <1>4
-----------------------------------------------------------------------------
(* All processes *)

(* A step of a process leaves the state of the others alone. *)
LEMMA OthersStay ==
  ASSUME NEW r \in Runs, Start(r) \/ Step(r) \/ Kill(r), Inv
  PROVE  /\ \A o \in Runs : o # r => run'[o] = run[o]
         /\ \A o \in Runs : o # r => met[o] \subseteq met'[o]
         /\ Past(r) => met' = met /\ run'[r].num = run[r].num /\ Past(r)'
<1>0. run \in [Runs -> RunState]
  BY DEF Inv, Typed
<1>1. CASE Start(r)
  BY <1>0, <1>1 DEF Start, Past
<1>2. CASE Kill(r) \/ Probe(r) \/ MakeDir(r) \/ Load(r) \/ BuildFails(r)
  BY <1>0, <1>2 DEF Kill, Probe, MakeDir, Load, BuildFails, Goes, Past, RunState
<1>3. CASE Build(r)
  BY <1>0, <1>3 DEF Build, Past, RunState
<1>4. CASE EndStage(r)
  <2>1. \E to \in {"ok", "build"} : \E next, l :
          run' = [run EXCEPT ![r].pc = to, ![r].stage = next, ![r].listed = l]
    BY <1>4 DEF EndStage
  <2> QED BY <1>0, <1>4, <2>1 DEF EndStage, Past, RunState
<1>5. ASSUME NEW f \in Files, Open(r, f) \/ Write(r, f) \/ WriteFails(r, f)
      PROVE  /\ \A o \in Runs : o # r => run'[o] = run[o]
             /\ run'[r].num = run[r].num /\ Past(r)' /\ met' = met
  BY <1>0, <1>5 DEF Open, Write, WriteFails, Past, RunState
<1> QED BY <1>1, <1>2, <1>3, <1>4, <1>5 DEF Step

(* Who shares a directory goes on to share it. *)
LEMMA SharesGrow ==
  ASSUME NEW r \in Runs, Start(r) \/ Step(r) \/ Kill(r), Inv,
         NEW q \in Runs, Past(q), Shares(q)' = {}, \A o \in Runs : met[o] \subseteq Runs
  PROVE  Shares(q) = {}
<1>1. /\ \A o \in Runs : o # r => run'[o] = run[o]
      /\ \A o \in Runs : o # r => met[o] \subseteq met'[o]
      /\ Past(r) => met' = met /\ run'[r].num = run[r].num /\ Past(r)'
  BY OthersStay
<1>2. met[q] \subseteq met'[q] /\ run'[q].num = run[q].num
  BY <1>1
<1>3. \A o \in Runs : Past(o) => Past(o)' /\ run'[o].num = run[o].num
  BY <1>1 DEF Past
<1> QED BY <1>2, <1>3 DEF Shares, Past

(* The directory of another process changes only if it is shared. *)
LEMMA OthersHold ==
  ASSUME Inv, OwnInv, \A o \in Runs : met[o] \subseteq Runs,
         NEW r \in Runs, Start(r) \/ Step(r) \/ Kill(r), NEW q \in Runs, q # r
  PROVE  /\ Shape(run'[q])
         /\ Going(run'[q]) /\ Shares(q)' = {} => Holds(run'[q], disk'[run'[q].num], q)
<1>1. run'[q] = run[q] /\ Shape(run[q])
  BY OthersStay DEF OwnInv
<1>2. ASSUME Going(run[q]), Shares(q)' = {}
      PROVE  Holds(run[q], disk'[run[q].num], q)
  <2>1. Past(q) /\ run[q].num \in Numbers
    BY <1>2 DEF Going, Past, Inv, Typed, RunState
  <2>2. Shares(q) = {}
    BY <1>2, <2>1, SharesGrow
  <2>3. Holds(run[q], disk[run[q].num], q)
    BY <1>2, <2>2 DEF OwnInv
  <2>4. disk'[run[q].num] = disk[run[q].num]
    <3> SUFFICES ASSUME disk'[run[q].num] # disk[run[q].num] PROVE FALSE
      OBVIOUS
    <3>1. Active(r) /\ Past(r) /\ run[r].num = run[q].num
      BY <2>1, StepOwner
    <3>2. r \in met[q]
      <4>1. CASE run[q].pc = "ok"
        BY <3>1, <4>1 DEF Inv, OkInv
      <4>2. CASE run[q].pc # "ok"
        BY <1>2, <3>1, <4>2 DEF Inv, MetInv, Going, Active
      <4> QED BY <4>1, <4>2
    <3> QED BY <2>2, <3>1, <3>2 DEF Shares, Past
  <2> QED BY <2>3, <2>4
<1> QED BY <1>1, <1>2

(* A process keeps account of what it writes. *)
LEMMA OwnHold ==
  ASSUME RunAssumption, Inv, Inv', OwnInv, \A o \in Runs : met[o] \subseteq Runs,
         NEW r \in Runs, Start(r) \/ Step(r) \/ Kill(r)
  PROVE  /\ Shape(run'[r])
         /\ Going(run'[r]) /\ Shares(r)' = {} => Holds(run'[r], disk'[run'[r].num], r)
<1>d. PICK u, v, d, e : u = run[r] /\ v = run'[r] /\ d = disk[run[r].num]
                         /\ e = disk'[run[r].num]
  OBVIOUS
<1> DEFINE Goal == Shape(v) /\ (Going(v) /\ Shares(r)' = {} => Holds(v, disk'[v.num], r))
<1>0. /\ run \in [Runs -> RunState] /\ u \in RunState /\ v \in RunState /\ u.num \in Numbers
      /\ disk \in [Numbers -> [Files -> Contents]] /\ d \in [Files -> Contents]
      /\ disk' \in [Numbers -> [Files -> Contents]] /\ e \in [Files -> Contents]
  <2>1. u \in RunState /\ u.num \in Numbers
    BY <1>d DEF Inv, Typed, RunState
  <2> QED BY <1>d, <2>1 DEF Inv, Typed
<1>1. Shape(u) /\ (Going(u) /\ Shares(r) = {} => Holds(u, d, r))
  BY <1>d DEF OwnInv
<1>2. Going(u) /\ Shares(r)' = {} => Holds(u, d, r)
  <2>1. Going(u) => Past(r)
    BY <1>d DEF Going, Past
  <2> QED BY <1>1, <2>1, SharesGrow
<1>s. SUFFICES Goal
  BY <1>d
<1>3. CASE Start(r)
  <2>1. PICK c \in Configs : run' = [run EXCEPT ![r].pc = "probe", ![r].config = c]
    BY <1>3 DEF Start
  <2>2. /\ u.pc = "new" /\ v.pc = "probe" /\ v.stage = u.stage /\ v.left = u.left
        /\ v.open = u.open /\ v.listed = u.listed
    BY <1>d, <1>0, <1>3, <2>1 DEF Start, RunState
  <2> QED BY <1>1, <2>2 DEF Shape, Going
<1>4. CASE v.pc \in {"error", "killed"}
  BY <1>4 DEF Shape, Going
<1>5. CASE Probe(r)
  <2>1. PICK n \in Numbers \ dirs : run' = [run EXCEPT ![r].pc = "mkdir", ![r].num = n]
    BY <1>5 DEF Probe
  <2>2. /\ u.pc = "probe" /\ v.pc = "mkdir" /\ v.stage = u.stage /\ v.left = u.left
        /\ v.open = u.open /\ v.listed = u.listed /\ v.num = n /\ disk' = disk
    BY <1>d, <1>0, <1>5, <2>1 DEF Probe, RunState
  <2>3. \A f \in Files : disk[n][f] = Absent
    BY DEF Inv, NoDirNoFile
  <2>4. Shape(v) /\ v.stage = 0
    BY <1>1, <2>2 DEF Shape
  <2>5. \A f : f \notin Sofar(v.config, Reached(v))
    <3>1. Reached(v) = -1
      BY <2>2, <2>4 DEF Reached
    <3>2. \A k \in 1 .. 8 : ~(k <= -1)
      OBVIOUS
    <3> QED BY <3>1, <3>2 DEF Sofar
  <2>6. Holds(v, disk'[v.num], r)
    BY <2>2, <2>3, <2>5 DEF Holds
  <2> QED BY <2>4, <2>6
<1>6. CASE MakeDir(r)
  <2>1. /\ u.pc = "mkdir" /\ v = [u EXCEPT !.pc = "load"] /\ disk' = disk
    BY <1>d, <1>0, <1>6 DEF MakeDir, Goes
  <2>2. /\ v.pc = "load" /\ v.stage = u.stage /\ v.left = u.left /\ v.num = u.num
        /\ v.open = u.open /\ v.listed = u.listed /\ v.config = u.config /\ v.warned = u.warned
    BY <1>d, <1>0, <2>1 DEF RunState
  <2>3. Shape(v) /\ Going(u) /\ Reached(v) = Reached(u)
    BY <1>1, <2>1, <2>2 DEF Shape, Going, Reached
  <2>4. Holds(u, d, r) => Holds(v, d, r)
    BY <2>2, <2>3 DEF Holds
  <2> QED BY <1>d, <1>2, <2>1, <2>2, <2>3, <2>4
<1>7. CASE Load(r)
  <2> DEFINE n == StageAfter(u.config, 0)
  <2>1. u.pc = "load" /\ disk' = disk
        /\ (v.pc = "error" \/ v = [u EXCEPT !.pc = "build", !.stage = n])
    <3>1. /\ u.pc = "load" /\ disk' = disk
          /\ \/ run' = [run EXCEPT ![r].pc = "build", ![r].stage = n]
             \/ run' = [run EXCEPT ![r].pc = "error"]
      BY <1>d, <1>7 DEF Load, Goes
    <3> HIDE DEF n
    <3>2. CASE run' = [run EXCEPT ![r].pc = "build", ![r].stage = n]
      <4>1. run'[r] = [run[r] EXCEPT !.pc = "build", !.stage = n]
        BY <1>d, <1>0, <3>2 DEF RunState
      <4> QED BY <1>d, <3>1, <4>1
    <3>3. CASE run' = [run EXCEPT ![r].pc = "error"]
      BY <1>d, <1>0, <3>1, <3>3 DEF RunState
    <3> QED BY <3>1, <3>2, <3>3
  <2>n. n \in 1 .. 9 /\ n <= 2 /\ Follows(u.config, 0, n)
        /\ Sofar(u.config, n - 1) = Sofar(u.config, 0)
    BY NextStage, StageFollows, SofarNext
  <2> HIDE DEF n
  <2>2. CASE v = [u EXCEPT !.pc = "build", !.stage = n]
    <3>1. /\ v.pc = "build" /\ v.stage = n /\ v.left = u.left /\ v.num = u.num
          /\ v.open = u.open /\ v.listed = u.listed /\ v.config = u.config
          /\ v.warned = u.warned
      BY <1>d, <1>0, <2>2 DEF RunState
    <3>2. u.stage = 0 /\ u.left = {} /\ u.open = {} /\ u.listed = {}
      BY <1>1, <2>1 DEF Shape
    <3>3. n \in 1 .. 8 /\ Wanted(u.config, n) # {}
      BY <2>n DEF Follows
    <3>4. Shape(v)
      BY <3>1, <3>2, <3>3 DEF Shape
    <3>5. \A f : f \notin Sofar(u.config, Reached(u)) /\ f \notin Sofar(u.config, 0)
      <4>1. Reached(u) = -1
        BY <2>1, <3>2 DEF Reached
      <4>2. \A k \in 1 .. 8 : ~(k <= -1) /\ ~(k <= 0)
        OBVIOUS
      <4> QED BY <4>1, <4>2 DEF Sofar
    <3>6. Reached(v) = n - 1
      BY <3>1 DEF Reached
    <3>7. Holds(u, d, r) => Holds(v, d, r)
      BY <2>n, <3>1, <3>5, <3>6 DEF Holds
    <3>8. Going(u)
      BY <2>1 DEF Going
    <3> QED BY <1>d, <1>2, <2>1, <3>1, <3>4, <3>7, <3>8
  <2> QED BY <1>4, <2>1, <2>2
<1>8. CASE Build(r)
  <2>1. /\ u.pc = "build" /\ v = [u EXCEPT !.pc = "write", !.left = Wanted(u.config, u.stage)]
        /\ \/ /\ "DiffableCs" \in Wanted(u.config, u.stage)
              /\ disk' = [disk EXCEPT ![u.num]["DiffableCs"] = Absent]
           \/ disk' = disk
    <3>1. run' = [run EXCEPT ![r].pc = "write", ![r].left = Wanted(run[r].config, run[r].stage)]
      BY <1>8 DEF Build
    <3> QED BY <1>d, <1>0, <1>8, <3>1 DEF Build, RunState
  <2>2. \A f \in Files : e[f] = d[f] \/ (f \in Wanted(u.config, u.stage) /\ e[f] = Absent)
    <3>1. CASE disk' = disk
      BY <1>d, <3>1
    <3>2. CASE /\ "DiffableCs" \in Wanted(u.config, u.stage)
               /\ disk' = [disk EXCEPT ![u.num]["DiffableCs"] = Absent]
      BY <1>d, <1>0, <3>2
    <3> QED BY <2>1, <3>1, <3>2
  <2>3. v.num = u.num /\ v.left = Wanted(u.config, u.stage) /\ Going(u)
    BY <1>d, <1>0, <2>1 DEF RunState, Going
  <2>4. Shape(v) /\ (Holds(u, d, r) => Holds(v, e, r))
    <3>1. \A f \in Files : e[f] = d[f] \/ (f \in v.left /\ e[f] = Absent)
      BY <2>2, <2>3
    <3>2. u \in RunState /\ e \in [Files -> Contents] /\ Shape(u)
      BY <1>0, <1>1
    <3>3. u.pc = "build" /\ v = [u EXCEPT !.pc = "write", !.left = Wanted(u.config, u.stage)]
      BY <2>1
    <3> QED BY <3>1, <3>2, <3>3, HoldsBuild, Zenon
  <2> QED BY <1>d, <1>2, <2>3, <2>4
<1>9. CASE EndStage(r)
  <2> DEFINE s == u.stage
             report == CASE s = 4 -> Stages[s].files \cup {Scaffold}
                         [] s = 8 -> Stages[s].files \ u.warned
                         [] s \in {1, 5} -> {}
                         [] OTHER -> Stages[s].files
             next == StageAfter(u.config, u.stage)
             to == Then(next)
  <2>1. /\ u.pc = "write" /\ u.left = {} /\ disk' = disk
        /\ run' = [run EXCEPT ![r].pc = to, ![r].stage = next, ![r].listed = @ \cup report]
    BY <1>d, <1>9, StageFacts DEF EndStage, Then
  <2>2. \A f \in report : f = Scaffold \/ f \in Stages[u.stage].files
    OBVIOUS
  <2> HIDE DEF report, next, to
  <2>3. v = [u EXCEPT !.pc = to, !.stage = next, !.listed = @ \cup report] /\ v.num = u.num
    BY <1>d, <1>0, <2>1 DEF RunState
  <2>4. Shape(v) /\ (Holds(u, d, r) => Holds(v, d, r))
    <3>1. u \in RunState /\ Shape(u) /\ u.pc = "write" /\ u.left = {}
      BY <1>0, <1>1, <2>1
    <3>2. Ended(u, v, report)
      BY <2>2, <2>3 DEF to, next, Ended
    <3> QED BY <3>1, <3>2, HoldsEndStage, Zenon
  <2>5. Going(u)
    BY <2>1 DEF Going
  <2> QED BY <1>d, <1>2, <2>1, <2>3, <2>4, <2>5
<1>10. ASSUME NEW f \in Files, Open(r, f) PROVE Goal
  <2>1. /\ u.pc = "write" /\ f \in u.left /\ v = [u EXCEPT !.open = @ \cup {f}]
        /\ e[f] = Empty /\ \A g \in Files : g # f => e[g] = d[g]
    BY <1>d, <1>0, <1>10 DEF Open
  <2>2. /\ v.pc = "write" /\ v.config = u.config /\ v.stage = u.stage /\ v.listed = u.listed
        /\ v.num = u.num /\ v.warned = u.warned /\ v.left = u.left /\ v.open = u.open \cup {f}
    BY <1>d, <1>0, <2>1 DEF RunState
  <2>3. Shape(v) /\ (Holds(u, d, r) => Holds(v, e, r))
    <3>1. u \in RunState /\ v \in RunState /\ Shape(u)
      BY <1>0, <1>1
    <3>2. f \in v.left /\ u.warned \subseteq v.warned
      BY <2>1, <2>2
    <3>3. u.pc = "write" /\ f \in u.left /\ Wrote(u, v, f) /\ Elsewhere(d, e, f) /\ e[f] = Empty
      BY <2>1, <2>2 DEF Wrote, Elsewhere
    <3> QED BY <3>1, <3>2, <3>3, HoldsWrite, Zenon
  <2>4. Going(u)
    BY <2>1 DEF Going
  <2> QED BY <1>d, <1>2, <2>2, <2>3, <2>4
<1>11. ASSUME NEW f \in Files, Write(r, f) PROVE Goal
  <2>1. /\ u.pc = "write" /\ f \in u.open /\ \A g \in Files : g # f => e[g] = d[g]
        /\ d[f] = Empty => e[f] = r
        /\ run' = [run EXCEPT ![r].open = @ \ {f}, ![r].left = @ \ {f}]
    BY <1>d, <1>0, <1>11 DEF Write, RunAssumption
  <2>2. v = [u EXCEPT !.open = @ \ {f}, !.left = @ \ {f}]
    BY <1>d, <1>0, <2>1 DEF RunState
  <2>3. /\ v.pc = "write" /\ v.config = u.config /\ v.stage = u.stage /\ v.listed = u.listed
        /\ v.num = u.num /\ v.warned = u.warned /\ v.left = u.left \ {f}
        /\ v.open = u.open \ {f}
    BY <1>d, <1>0, <2>1, <2>2 DEF RunState
  <2>4. f \in u.left /\ u.stage \in 1 .. 8 /\ f \in Wanted(u.config, u.stage)
    BY <1>1, <2>1 DEF Shape
  <2>5. Holds(u, d, r) => d[f] = Empty
    <3>1. f \in Sofar(u.config, u.stage) /\ Reached(u) = u.stage
      BY <2>1, <2>4, SofarStage DEF Reached
    <3> QED BY <2>1, <2>4, <3>1 DEF Holds
  <2>6. Shape(v) /\ (Holds(u, d, r) => Holds(v, e, r))
    <3>1. (Holds(u, d, r) => e[f] = r) /\ f \notin v.left
      BY <2>1, <2>3, <2>5
    <3>2. u \in RunState /\ v \in RunState /\ Shape(u)
      BY <1>0, <1>1
    <3>3. u.pc = "write" /\ f \in u.left /\ Wrote(u, v, f) /\ Elsewhere(d, e, f)
      BY <2>1, <2>3, <2>4 DEF Wrote, Elsewhere
    <3> QED BY <3>1, <3>2, <3>3, HoldsWrite, Zenon
  <2>7. Going(u)
    BY <2>1 DEF Going
  <2> QED BY <1>d, <1>2, <2>3, <2>6, <2>7
<1>12. ASSUME NEW f \in Files, WriteFails(r, f) PROVE Goal
  <2>1. /\ u.pc = "write" /\ f \in u.left /\ disk' = disk
        /\ \/ run' = [run EXCEPT ![r].pc = "error"]
           \/ run' = [run EXCEPT ![r].open = @ \ {f}, ![r].left = @ \ {f},
                                 ![r].warned = @ \cup {f}]
    BY <1>d, <1>12 DEF WriteFails
  <2>2. v.pc = "error" \/ v = [u EXCEPT !.open = @ \ {f}, !.left = @ \ {f},
                                        !.warned = @ \cup {f}]
    BY <1>d, <1>0, <2>1 DEF RunState
  <2>d. d = e
    BY <1>d, <2>1
  <2>3. CASE v = [u EXCEPT !.open = @ \ {f}, !.left = @ \ {f}, !.warned = @ \cup {f}]
    <3>1. /\ v.pc = "write" /\ v.config = u.config /\ v.stage = u.stage /\ v.listed = u.listed
          /\ v.num = u.num /\ v.warned = u.warned \cup {f} /\ v.left = u.left \ {f}
          /\ v.open = u.open \ {f}
      BY <1>d, <1>0, <2>1, <2>3 DEF RunState
    <3>2. Shape(v) /\ (Holds(u, d, r) => Holds(v, e, r))
      <4>1. u \in RunState /\ v \in RunState /\ Shape(u)
        BY <1>0, <1>1
      <4>2. f \notin v.left /\ f \in v.warned /\ u.warned \subseteq v.warned
        BY <3>1
      <4>3. u.pc = "write" /\ f \in u.left /\ Wrote(u, v, f) /\ Elsewhere(d, e, f)
        BY <2>1, <2>d, <3>1 DEF Wrote, Elsewhere
      <4> QED BY <4>1, <4>2, <4>3, HoldsWrite, Zenon
    <3>3. Going(u)
      BY <2>1 DEF Going
    <3> QED BY <1>d, <1>2, <3>1, <3>2, <3>3
  <2> QED BY <1>4, <2>2, <2>3
<1>13. CASE Kill(r) \/ BuildFails(r)
  <2>1. v.pc \in {"error", "killed"}
    BY <1>d, <1>0, <1>13 DEF Kill, BuildFails, Goes, RunState
  <2> QED BY <1>4, <2>1
<1> HIDE DEF Goal
<1> QED BY <1>3, <1>5, <1>6, <1>7, <1>8, <1>9, <1>10, <1>11, <1>12, <1>13 DEF Step

(* A process that reports success has written what it was asked for, or    *)
(* has warned of it, in a directory nobody had before; its report lists    *)
(* nothing else but the scaffold; and it wrote nothing it was not asked    *)
(* for.  For any number of processes, options and faults, unless another   *)
(* process was active at the same time and chose the same number.          *)
THEOREM SuccessIsWritten ==
  ASSUME RunAssumption PROVE Spec => []SuccessMeansWritten
<1> DEFINE MetRuns == \A o \in Runs : met[o] \subseteq Runs
           I == MetRuns /\ OwnInv
<1>1. Init => I
  <2> SUFFICES ASSUME Init PROVE I
    OBVIOUS
  <2>1. MetRuns
    BY DEF Init
  <2>2. \A r \in Runs : /\ run[r].pc = "new" /\ run[r].stage = 0 /\ run[r].left = {}
                        /\ run[r].open = {} /\ run[r].listed = {}
    BY DEF Init
  <2>3. OwnInv
    BY <2>2 DEF OwnInv, Shape, Going
  <2> QED BY <2>1, <2>3
<1>2. Inv /\ Inv' /\ I /\ [Next]_vars => I'
  <2> SUFFICES ASSUME Inv, Inv', I, [Next]_vars PROVE I'
    OBVIOUS
  <2>1. CASE UNCHANGED vars
    BY <2>1 DEF vars, OwnInv, Shares
  <2>2. ASSUME NEW r \in Runs, Start(r) \/ Step(r) \/ Kill(r) PROVE I'
    <3>1. MetRuns'
      <4>1. CASE Start(r)
        BY <4>1 DEF Start
      <4>2. CASE ~Start(r)
        <5>1. met' = met
          BY <2>2, <4>2 DEF Step, Kill, Probe, MakeDir, Load, Build, BuildFails, EndStage,
             Open, Write, WriteFails
        <5> QED BY <5>1
      <4> QED BY <4>1, <4>2
    <3>2. ASSUME NEW q \in Runs
          PROVE  /\ Shape(run'[q])
                 /\ Going(run'[q]) /\ Shares(q)' = {} => Holds(run'[q], disk'[run'[q].num], q)
      BY <2>2, OwnHold, OthersHold
    <3>3. OwnInv'
      BY <3>2 DEF OwnInv
    <3> QED BY <3>1, <3>3
  <2> QED BY <2>1, <2>2 DEF Next
<1>3. Inv /\ I => SuccessMeansWritten
  <2> SUFFICES ASSUME Inv, I, NEW r \in Runs, run[r].pc = "ok"
               PROVE  /\ run[r].num \in dirs
                      /\ Shares(r) = {} =>
                           \A f \in Files :
                             /\ f \in AllWanted(run[r].config) \ run[r].warned =>
                                  disk[run[r].num][f] = r
                             /\ f \in run[r].listed \ {Scaffold} =>
                                  f \in AllWanted(run[r].config)
                             /\ f \notin AllWanted(run[r].config) =>
                                  disk[run[r].num][f] = Absent
    BY DEF SuccessMeansWritten
  <2>1. run[r].num \in dirs
    <3>1. Local(run[r], dirs)
      BY DEF Inv
    <3> QED BY <3>1 DEF Local
  <2>2. /\ run[r].stage = 9 /\ run[r].left = {} /\ Reached(run[r]) = 8
        /\ \A f \in run[r].listed : f = Scaffold \/ f \in Sofar(run[r].config, 8)
    <3>1. Shape(run[r])
      BY DEF OwnInv
    <3> QED BY <3>1 DEF Shape, Reached
  <2>3. Shares(r) = {} => Holds(run[r], disk[run[r].num], r)
    BY DEF OwnInv, Going
  <2> QED BY <2>1, <2>2, <2>3, SofarAll DEF Holds
<1> HIDE DEF I
<1> QED BY <1>1, <1>2, <1>3, RunInvariant, PTL DEF Spec
=============================================================================
