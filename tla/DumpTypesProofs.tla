-------------------------- MODULE DumpTypesProofs --------------------------
(***************************************************************************)
(* The parallel map of decompile implements a loop over the types: README, *)
(* "rayon map over types; merge preserves order".  And the parallel writes *)
(* of the files of DiffableCs leave each of them whole.                    *)
(***************************************************************************)
EXTENDS DumpTypes, SequenceTheorems, WellFoundedInduction, TLAPS

(* dump.cs as the loop over the images and their types writes it. *)
Loop == INSTANCE InOrder WITH jobs <- Sequential, done <- merged, out <- buf, kept <- << >>

-----------------------------------------------------------------------------
(* Least elements and recursion over the natural numbers *)

(* Min gives the least element of a set of naturals. *)
LEMMA MinOf ==
  ASSUME NEW I \in SUBSET Nat, I # {}
  PROVE  Min(I) \in I /\ \A y \in I : Min(I) <= y
<1> DEFINE R == OpToRel(<, Nat)
<1>1. IsWellFoundedOn(R, Nat)
  BY NatLessThanWellFounded
<1>2. \A x, y \in Nat : x < y => <<x, y>> \in R
  BY DEF OpToRel
<1> HIDE DEF R
<1>3. PICK x \in I : \A y \in I : ~ (<<y, x>> \in R)
  BY <1>1, WFMin
<1>4. ASSUME NEW y \in I PROVE x <= y
  <2>1. x \in Nat /\ y \in Nat
    OBVIOUS
  <2>2. ~(y < x)
    BY <1>2, <1>3, <2>1
  <2> QED BY <2>1, <2>2
<1> QED BY <1>4 DEF Min

(* A set of naturals that holds 0 and every successor holds them all. *)
LEMMA AllNumbers ==
  ASSUME NEW S, 0 \in S, \A n \in Nat : n \in S => n + 1 \in S
  PROVE  \A n \in Nat : n \in S
<1> DEFINE T == Nat \ S
<1> SUFFICES ASSUME T # {} PROVE FALSE
  OBVIOUS
<1>1. Min(T) \in T /\ \A y \in T : Min(T) <= y
  BY MinOf
<1>2. PICK x \in Nat : x \notin S /\ \A y \in T : x <= y
  BY <1>1
<1>3. x # 0
  BY <1>2
<1>4. x - 1 \in Nat /\ ~(x <= x - 1) /\ x = (x - 1) + 1
  BY <1>3
<1>5. x - 1 \in T
  BY <1>2, <1>4
<1> QED BY <1>2, <1>4, <1>5

-----------------------------------------------------------------------------
(* type_jobs *)

(* f[i] is what the first i sequences of ss give in a row. *)
Joins(ss, n, f) == \A i \in 1 .. n : f[i] = IF i = 1 THEN ss[i] ELSE f[i - 1] \o ss[i]

LEMMA JoinExists ==
  ASSUME NEW E, NEW ss \in Seq(Seq(E))
  PROVE  \E f \in [1 .. Len(ss) -> Seq(E)] : Joins(ss, Len(ss), f)
<1> DEFINE n == Len(ss)
           S == {m \in Nat : m <= n => \E f \in [1 .. m -> Seq(E)] : Joins(ss, m, f)}
<1>0. n \in Nat /\ \A i \in 1 .. n : ss[i] \in Seq(E)
  OBVIOUS
<1> HIDE DEF n
<1>1. 0 \in S
  <2>1. [i \in 1 .. 0 |-> << >>] \in [1 .. 0 -> Seq(E)] /\ Joins(ss, 0, [i \in 1 .. 0 |-> << >>])
    BY DEF Joins
  <2>2. \E f \in [1 .. 0 -> Seq(E)] : Joins(ss, 0, f)
    BY <2>1
  <2> QED BY <2>2
<1>2. ASSUME NEW m \in Nat, m \in S PROVE m + 1 \in S
  <2> SUFFICES ASSUME m + 1 <= n PROVE \E f \in [1 .. m + 1 -> Seq(E)] : Joins(ss, m + 1, f)
    OBVIOUS
  <2>1. PICK e \in [1 .. m -> Seq(E)] : Joins(ss, m, e)
    BY <1>0, <1>2
  <2> DEFINE x == IF m = 0 THEN ss[m + 1] ELSE e[m] \o ss[m + 1]
             f == [i \in 1 .. m + 1 |-> IF i = m + 1 THEN x ELSE e[i]]
  <2>2. x \in Seq(E)
    <3>1. ss[m + 1] \in Seq(E)
      BY <1>0
    <3>2. m # 0 => e[m] \in Seq(E)
      OBVIOUS
    <3> QED BY <3>1, <3>2, ConcatProperties
  <2>3. \A i \in 1 .. m : f[i] = e[i]
    <3> HIDE DEF x
    <3>1. \A i \in 1 .. m : i \in 1 .. m + 1 /\ i # m + 1
      OBVIOUS
    <3> QED BY <3>1
  <2>4. f[m + 1] = x
    OBVIOUS
  <2>5. f \in [1 .. m + 1 -> Seq(E)]
    <3> HIDE DEF x
    <3>1. \A i \in 1 .. m + 1 : i # m + 1 => i \in 1 .. m
      OBVIOUS
    <3> QED BY <2>2, <3>1
  <2> HIDE DEF f
  <2>6. ASSUME NEW i \in 1 .. m + 1 PROVE f[i] = IF i = 1 THEN ss[i] ELSE f[i - 1] \o ss[i]
    <3>1. CASE i = m + 1
      <4>1. i - 1 = m /\ (i = 1 <=> m = 0) /\ (m # 0 => m \in 1 .. m)
        BY <3>1
      <4> QED BY <2>3, <2>4, <3>1, <4>1
    <3>2. CASE i # m + 1
      <4>1. i \in 1 .. m /\ (i # 1 => i - 1 \in 1 .. m)
        BY <3>2
      <4>2. e[i] = IF i = 1 THEN ss[i] ELSE e[i - 1] \o ss[i]
        BY <2>1, <4>1 DEF Joins
      <4> QED BY <2>3, <4>1, <4>2
    <3> QED BY <3>1, <3>2
  <2>7. Joins(ss, m + 1, f)
    BY <2>6 DEF Joins
  <2> QED BY <2>5, <2>7
<1>3. \A m \in Nat : m \in S
  <2> HIDE DEF S
  <2> QED BY <1>1, <1>2, AllNumbers
<1>4. n \in S
  BY <1>0, <1>3
<1> QED BY <1>0, <1>4 DEF n

(* FlattenSeq of sequences over E is one. *)
LEMMA FlattenType == ASSUME NEW E, NEW ss \in Seq(Seq(E)) PROVE FlattenSeq(ss) \in Seq(E)
<1> DEFINE n == Len(ss)
           Solves(u) == u = [i \in 1 .. Len(ss) |-> IF i = 1 THEN ss[i] ELSE u[i - 1] \o ss[i]]
           w == CHOOSE u : Solves(u)
<1>1. CASE Len(ss) = 0
  <2>1. ss = << >>
    BY <1>1, EmptySeq
  <2>2. FlattenSeq(ss) = << >>
    BY <1>1, <2>1 DEF FlattenSeq
  <2> QED BY <2>2
<1>2. CASE Len(ss) # 0
  <2>1. FlattenSeq(ss) = w[n]
    BY <1>2 DEF FlattenSeq
  <2>2. n \in Nat /\ n # 0 /\ \A i \in 1 .. n : ss[i] \in Seq(E)
    BY <1>2
  <2>3. PICK f \in [1 .. n -> Seq(E)] : Joins(ss, n, f)
    BY JoinExists
  <2>4. Solves(f)
    BY <2>3 DEF Joins
  <2>5. Solves(w)
    <3> HIDE DEF Solves
    <3> QED BY <2>4, Zenon
  <2> HIDE DEF w
  <2>6. \A i \in 1 .. n : w[i] = IF i = 1 THEN ss[i] ELSE w[i - 1] \o ss[i]
    BY <2>5
  <2> HIDE DEF n, Solves
  <2> DEFINE S == {m \in Nat : m + 1 <= n => w[m + 1] \in Seq(E)}
  <2>7. 0 \in S
    <3>1. 1 \in 1 .. n /\ 0 + 1 = 1
      BY <2>2
    <3>2. w[1] \in Seq(E)
      BY <2>2, <2>6, <3>1
    <3> QED BY <3>1, <3>2
  <2>8. ASSUME NEW m \in Nat, m \in S PROVE m + 1 \in S
    <3> SUFFICES ASSUME (m + 1) + 1 <= n PROVE w[(m + 1) + 1] \in Seq(E)
      OBVIOUS
    <3>1. (m + 1) + 1 \in 1 .. n /\ (m + 1) + 1 # 1 /\ ((m + 1) + 1) - 1 = m + 1 /\ m + 1 <= n
      BY <2>2
    <3>2. w[m + 1] \in Seq(E) /\ ss[(m + 1) + 1] \in Seq(E)
      BY <2>2, <2>8, <3>1
    <3>3. w[(m + 1) + 1] = w[m + 1] \o ss[(m + 1) + 1]
      BY <2>6, <3>1
    <3> QED BY <3>2, <3>3, ConcatProperties
  <2>9. \A m \in Nat : m \in S
    <3> HIDE DEF S
    <3> QED BY <2>7, <2>8, AllNumbers
  <2>10. n - 1 \in S /\ (n - 1) + 1 = n
    <3>1. n - 1 \in Nat /\ (n - 1) + 1 = n
      BY <2>2
    <3> HIDE DEF S
    <3> QED BY <2>9, <3>1
  <2>11. w[(n - 1) + 1] \in Seq(E)
    BY <2>2, <2>10
  <2> QED BY <2>1, <2>10, <2>11
<1> QED BY <1>1, <1>2

Job(p) == [image : {p.images[i].name : i \in DOMAIN p.images}, t : DOMAIN p.types]

(* The jobs are types of the program. *)
LEMMA JobsType ==
  ASSUME TypesAssumption, NEW p \in Programs
  PROVE  TypeJobs(p) \in Seq(Job(p))
<1> DEFINE im == p.images
           one(i) == [k \in 1 .. im[i].count |-> [image |-> im[i].name, t |-> im[i].start + k]]
           ss == [i \in DOMAIN im |-> one(i)]
<1>1. Len(im) \in Nat /\ DOMAIN im = 1 .. Len(im) /\ Len(p.types) \in Nat /\ DOMAIN p.types = 1 .. Len(p.types)
  BY DEF TypesAssumption
<1>2. ASSUME NEW i \in DOMAIN im PROVE one(i) \in Seq(Job(p))
  <2>1. /\ im[i].start \in Nat /\ im[i].count \in Nat
        /\ im[i].start + im[i].count <= Len(p.types)
    BY <1>2 DEF TypesAssumption
  <2>2. ASSUME NEW k \in 1 .. im[i].count
        PROVE  [image |-> im[i].name, t |-> im[i].start + k] \in Job(p)
    <3>1. im[i].start + k \in DOMAIN p.types
      BY <1>1, <2>1
    <3>2. im[i].name \in {p.images[x].name : x \in DOMAIN p.images}
      BY <1>2
    <3> HIDE DEF im
    <3> QED BY <3>1, <3>2 DEF Job
  <2>3. one(i) \in [1 .. im[i].count -> Job(p)]
    BY <2>2
  <2>4. im[i].count \in Nat
    BY <2>1
  <2> HIDE DEF one, im
  <2> QED BY <2>3, <2>4, SeqDef
<1> HIDE DEF one
<1>3. ss \in [1 .. Len(im) -> Seq(Job(p))]
  BY <1>1, <1>2
<1>4. ss \in Seq(Seq(Job(p)))
  BY <1>1, <1>3, SeqDef
<1>5. FlattenSeq(ss) \in Seq(Job(p))
  <2> HIDE DEF ss
  <2> QED BY <1>4, FlattenType
<1> QED BY <1>5 DEF TypeJobs, one

-----------------------------------------------------------------------------
(* One type *)

(* The first place of a value: SelectInSeq's, which precompute_method_     *)
(* disassembly comes to, is the one of Alone.                              *)
LEMMA FirstPlace ==
  ASSUME NEW s \in Seq(Nat), NEW k \in 1 .. Len(s)
  PROVE  SelectInSeq(s, LAMBDA x : x = s[k])
           = CHOOSE f \in 1 .. k : s[f] = s[k] /\ \A e \in 1 .. f - 1 : s[e] # s[k]
<1> DEFINE I == {i \in 1 .. Len(s) : s[i] = s[k]}
           m == Min(I)
<1>0. Len(s) \in Nat /\ k \in I /\ I \in SUBSET Nat
  OBVIOUS
<1>1. SelectInSeq(s, LAMBDA x : x = s[k]) = m
  BY <1>0 DEF SelectInSeq
<1>2. m \in I /\ \A y \in I : m <= y
  BY <1>0, MinOf
<1> HIDE DEF m
<1>3. m \in 1 .. k /\ m \in 1 .. Len(s) /\ s[m] = s[k]
  <2>1. m <= k /\ m \in 1 .. Len(s) /\ s[m] = s[k]
    BY <1>0, <1>2
  <2> QED BY <1>0, <2>1
<1>4. ASSUME NEW e \in 1 .. m - 1 PROVE s[e] # s[k]
  <2>1. e \in 1 .. Len(s) /\ ~(m <= e)
    BY <1>0, <1>3
  <2> QED BY <1>2, <2>1
<1>5. ASSUME NEW f \in 1 .. k, s[f] = s[k], \A e \in 1 .. f - 1 : s[e] # s[k]
      PROVE  f = m
  <2>1. f \in I
    BY <1>0, <1>5
  <2>2. m <= f
    BY <1>2, <2>1
  <2>3. ~(m <= f - 1)
    <3>1. m \in Nat /\ 1 <= m /\ f \in Nat
      BY <1>3
    <3> QED BY <1>3, <1>5, <3>1
  <2> QED BY <1>3, <2>2, <2>3
<1> DEFINE P(f) == s[f] = s[k] /\ \A e \in 1 .. f - 1 : s[e] # s[k]
<1>6. P(m) /\ \A f \in 1 .. k : P(f) => f = m
  BY <1>3, <1>4, <1>5
<1>7. (CHOOSE f \in 1 .. k : P(f)) = m
  <2> HIDE DEF P
  <2> QED BY <1>3, <1>6
<1> QED BY <1>1, <1>7

(* The flat pass of a job dumps a type as if nothing else were there. *)
LEMMA FlatIsAlone ==
  ASSUME TypesAssumption, md \in Programs, NEW t \in DOMAIN md.types, NEW disasm \in BOOLEAN
  PROVE  DumpOne([text |-> << >>, cache |-> << >>], t, disasm).text = Alone(t, disasm)
<1> DEFINE rvas == Type(t).rvas
           asm == IF disasm THEN Precompute(t, << >>) ELSE << >>
           body(k) == IF rvas[k] \in DOMAIN asm THEN asm[rvas[k]] ELSE << >>
           bare(k) == IF ~disasm \/ rvas[k] = 0 THEN << >>
                      ELSE <<t, CHOOSE f \in 1 .. k :
                                  rvas[f] = rvas[k] /\ \A e \in 1 .. f - 1 : rvas[e] # rvas[k]>>
           lines == [k \in DOMAIN rvas |-> <<t, k, body(k)>>]
           plain == [k \in DOMAIN rvas |-> <<t, k, bare(k)>>]
<1>1. rvas \in Seq(Nat)
  BY DEF TypesAssumption, Type
<1>2. /\ DOMAIN Precompute(t, << >>) = {rvas[k] : k \in DOMAIN rvas} \ {0}
      /\ \A r \in {rvas[k] : k \in DOMAIN rvas} \ {0} :
           Precompute(t, << >>)[r] = <<t, SelectInSeq(rvas, LAMBDA x : x = r)>>
  <2> DEFINE R == {rvas[k] : k \in DOMAIN rvas} \ {0}
             first(r) == <<t, SelectInSeq(rvas, LAMBDA x : x = r)>>
  <2>1. Precompute(t, << >>) = [r \in R |-> IF r \in DOMAIN << >> THEN << >>[r] ELSE first(r)]
    BY DEF Precompute
  <2> HIDE DEF R, first
  <2>2. DOMAIN Precompute(t, << >>) = R /\ \A r \in R : Precompute(t, << >>)[r] = first(r)
    BY <2>1
  <2> QED BY <2>2 DEF R, first
<1>3. ASSUME NEW k \in DOMAIN rvas PROVE body(k) = bare(k)
  <2>1. CASE ~disasm
    BY <2>1
  <2>2. CASE disasm /\ rvas[k] = 0
    BY <1>2, <2>2
  <2>3. CASE disasm /\ rvas[k] # 0
    <3>1. rvas[k] \in DOMAIN asm /\ asm[rvas[k]] = <<t, SelectInSeq(rvas, LAMBDA x : x = rvas[k])>>
      BY <1>2, <1>3, <2>3
    <3>2. k \in 1 .. Len(rvas)
      BY <1>1
    <3> HIDE DEF asm, rvas
    <3>3. SelectInSeq(rvas, LAMBDA x : x = rvas[k])
            = CHOOSE f \in 1 .. k : rvas[f] = rvas[k] /\ \A e \in 1 .. f - 1 : rvas[e] # rvas[k]
      BY <1>1, <3>2, FirstPlace
    <3> QED BY <2>3, <3>1, <3>3
  <2> QED BY <2>1, <2>2, <2>3
<1>4. lines = plain
  <2> HIDE DEF body, bare
  <2> QED BY <1>3
<1>5. Alone(t, disasm) = Declared(t) \o UntilError(t, plain)
  BY DEF Alone
<1>6. DumpOne([text |-> << >>, cache |-> << >>], t, disasm).text
        = << >> \o Declared(t) \o UntilError(t, lines)
  BY DEF DumpOne
<1>7. << >> \o Declared(t) = Declared(t)
  BY DEF Declared
<1> HIDE DEF lines, plain
<1> QED BY <1>4, <1>5, <1>6, <1>7

-----------------------------------------------------------------------------
(* The map *)

(* What a finished job returned does not depend on the other jobs, and the *)
(* merge begins when all of them have finished.                            *)
MapInv ==
  /\ md \in Programs
  /\ jobs \in Seq(Job(md))
  /\ merged \in Nat
  /\ DOMAIN results \subseteq DOMAIN jobs
  /\ \A j \in DOMAIN results : results[j].flat = Alone(jobs[j].t, WantFlat)
  /\ pc = "map" => taken \subseteq DOMAIN jobs
  /\ pc = "merge" => DOMAIN results = DOMAIN jobs

(* Sequential and everything it is made of depend on md and jobs only. *)
LEMMA SameLoop ==
  ASSUME UNCHANGED <<md, jobs>>
  PROVE  Sequential' = Sequential /\ WantFlat' = WantFlat /\ \A t, d : Alone(t, d)' = Alone(t, d)
<1>1. \A t, d : Alone(t, d)' = Alone(t, d)
  BY DEF Alone, UntilError, Type, Declared
<1>2. WantFlat' = WantFlat
  BY DEF WantFlat
<1> QED BY <1>1, <1>2 DEF Sequential

LEMMA MapInit == ASSUME TypesAssumption, Init PROVE MapInv
<1>1. md \in Programs /\ jobs = TypeJobs(md) /\ merged = 0 /\ taken = {} /\ pc = "map" /\ DOMAIN results = {}
  BY DEF Init
<1> QED BY <1>1, JobsType DEF MapInv

LEMMA MapStep == ASSUME TypesAssumption, MapInv, [Next]_vars PROVE MapInv'
<1>1. UNCHANGED <<md, jobs>>
  BY DEF Next, vars, Take, Finish, Merge, MakeDirs, Open, Write, WriteFails, WriteDump, Done
<1>2. WantFlat' = WantFlat /\ \A t, d : Alone(t, d)' = Alone(t, d)
  BY <1>1, SameLoop
<1>3. Job(md)' = Job(md)
  BY <1>1 DEF Job
<1>4. ASSUME UNCHANGED results, merged' \in Nat,
             pc' = "map" => taken' \subseteq DOMAIN jobs,
             pc' = "merge" => DOMAIN results = DOMAIN jobs
      PROVE  MapInv'
  BY <1>1, <1>2, <1>3, <1>4 DEF MapInv
<1>5. CASE Finish
  <2>1. PICK j \in taken :
           /\ taken' = taken \ {j}
           /\ results' = [x \in DOMAIN results \cup {j} |->
                            IF x \in DOMAIN results THEN results[x] ELSE DumpJob(jobs[x])]
    BY <1>5 DEF Finish
  <2>2. j \in DOMAIN jobs /\ taken' \subseteq DOMAIN jobs /\ merged' \in Nat
    BY <1>5, <2>1 DEF MapInv, Finish
  <2>3. DumpJob(jobs[j]).flat = Alone(jobs[j].t, WantFlat)
    <3>1. jobs[j] \in Job(md)
      BY <2>2 DEF MapInv
    <3>2. jobs[j].t \in DOMAIN md.types
      BY <3>1 DEF Job
    <3>3. WantFlat \in BOOLEAN
      BY DEF WantFlat
    <3>4. DumpOne([text |-> << >>, cache |-> << >>], jobs[j].t, WantFlat).text
            = Alone(jobs[j].t, WantFlat)
      BY <3>2, <3>3, FlatIsAlone DEF MapInv
    <3> QED BY <3>4 DEF DumpJob
  <2>4. DOMAIN results' \subseteq DOMAIN jobs
    BY <2>1, <2>2 DEF MapInv
  <2>5. \A x \in DOMAIN results' : results'[x].flat = Alone(jobs[x].t, WantFlat)
    BY <2>1, <2>3 DEF MapInv
  <2>6. pc' = "merge" => DOMAIN results' = DOMAIN jobs
    BY <1>5 DEF Finish
  <2> QED BY <1>1, <1>2, <1>3, <2>2, <2>4, <2>5, <2>6 DEF MapInv
<1>6. CASE Take
  BY <1>4, <1>6 DEF Take, MapInv
<1>7. CASE Merge
  BY <1>4, <1>7 DEF Merge, MapInv
<1>8. CASE MakeDirs \/ Open \/ Write \/ WriteFails \/ WriteDump
  BY <1>4, <1>8 DEF MakeDirs, Open, Write, WriteFails, WriteDump, MapInv
<1>9. CASE Done \/ UNCHANGED vars
  BY <1>4, <1>9 DEF Done, vars, MapInv
<1> QED BY <1>5, <1>6, <1>7, <1>8, <1>9 DEF Next

(* A dictionary without entries stays one. *)
LEMMA NoKeys == << >> = Loop!With(<< >>, << >>)
BY DEF Loop!With

LEMMA LoopStep ==
  ASSUME TypesAssumption, MapInv, [Next]_vars
  PROVE  [Loop!Step]_<<Sequential, merged, buf, << >>>>
<1>1. UNCHANGED <<md, jobs>>
  BY DEF Next, vars, Take, Finish, Merge, MakeDirs, Open, Write, WriteFails, WriteDump, Done
<1>2. Sequential' = Sequential
  BY <1>1, SameLoop
<1>3. CASE Merge
  <2>1. /\ pc = "merge" /\ merged < Len(jobs) /\ merged' = merged + 1
        /\ buf' = buf \o results[merged + 1].flat
    BY <1>3 DEF Merge
  <2>2. DOMAIN jobs = 1 .. Len(jobs) /\ Len(jobs) \in Nat /\ merged \in Nat
    BY DEF MapInv
  <2>3. merged + 1 \in DOMAIN jobs
    BY <2>1, <2>2
  <2>4. results[merged + 1].flat = Alone(jobs[merged + 1].t, WantFlat)
    BY <2>1, <2>3 DEF MapInv
  <2>5. /\ Sequential[merged + 1].text = Alone(jobs[merged + 1].t, WantFlat)
        /\ Sequential[merged + 1].keyed = << >>
    BY <2>3 DEF Sequential
  <2>6. Len(Sequential) = Len(jobs)
    <3>1. DOMAIN Sequential = 1 .. Len(jobs)
      BY <2>2 DEF Sequential
    <3>2. Sequential = [j \in 1 .. Len(jobs) |-> Sequential[j]]
      BY <2>2 DEF Sequential
    <3>3. Sequential \in Seq({Sequential[j] : j \in 1 .. Len(jobs)})
      <4> HIDE DEF Sequential
      <4>1. Sequential \in [1 .. Len(jobs) -> {Sequential[j] : j \in 1 .. Len(jobs)}]
        BY <3>2
      <4> QED BY <2>2, <4>1, SeqDef
    <3> QED BY <2>2, <3>1, <3>3, LenProperties
  <2>7. Loop!Step
    BY <1>2, <2>1, <2>4, <2>5, <2>6, NoKeys DEF Loop!Step
  <2> QED BY <2>7
<1>4. CASE ~Merge
  <2>1. UNCHANGED <<merged, buf>>
    BY <1>4 DEF Next, vars, Take, Finish, MakeDirs, Open, Write, WriteFails, WriteDump, Done
  <2> QED BY <1>2, <2>1
<1> QED BY <1>3, <1>4

(* The parallel map, in whatever order the threads take and finish the     *)
(* types, implements the loop: dump.cs grows type by type in the order of  *)
(* the images, each with the text it has when it is dumped on its own.     *)
THEOREM MapImplementsLoop == ASSUME TypesAssumption PROVE Spec => Loop!Spec
<1>1. Init => Loop!Init
  BY DEF Init, Loop!Init
<1> QED BY <1>1, MapInit, MapStep, LoopStep, PTL DEF Spec, Loop!Spec

-----------------------------------------------------------------------------
(* The files of DiffableCs *)

(* A file a thread has opened is empty, and one that is finished holds its *)
(* text, unless another output has the same path: no other write touches   *)
(* it.                                                                     *)
Opened(o) ==
  outputs[o].path \in DOMAIN files /\ (Unshared(o) => files[outputs[o].path] = << >>)
Finished(o) ==
  outputs[o].path \in DOMAIN files /\ (Unshared(o) => files[outputs[o].path] = outputs[o].text)

WriteInv ==
  /\ pc \in {"map", "merge"} => wrote = {} /\ warned = {}
  /\ pc = "map" => taken \subseteq DOMAIN jobs \ DOMAIN results
  /\ pc = "merge" => taken = {}
  /\ pc \in {"write", "ok", "failed"} =>
       /\ taken \subseteq DOMAIN outputs \ wrote
       /\ wrote \subseteq DOMAIN outputs
       /\ \A o \in taken : Opened(o)
       /\ \A o \in wrote \ warned : Finished(o)
  /\ pc \in {"ok", "failed"} => wrote = DOMAIN outputs
  /\ pc \in {"map", "merge", "write", "ok", "failed"}

(* Opening or writing a file leaves the ones with another path alone. *)
LEMMA OtherFiles ==
  ASSUME outputs' = outputs, NEW o \in DOMAIN outputs,
         DOMAIN files' = DOMAIN files \cup {outputs[o].path},
         \A x \in DOMAIN files : x # outputs[o].path => files'[x] = files[x],
         NEW p \in DOMAIN outputs, p # o
  PROVE  (Opened(p) => Opened(p)') /\ (Finished(p) => Finished(p)')
<1>1. Unshared(p)' <=> Unshared(p)
  BY DEF Unshared
<1>2. Unshared(p) => outputs[p].path # outputs[o].path
  BY DEF Unshared
<1> QED BY <1>1, <1>2 DEF Opened, Finished

LEMMA WriteInvStep ==
  ASSUME WriteInv, [Next]_vars
  PROVE  WriteInv'
<1>1. CASE Take
  BY <1>1 DEF Take, WriteInv
<1>2. CASE Finish
  <2>1. PICK j \in taken :
           /\ taken' = taken \ {j}
           /\ DOMAIN results' = DOMAIN results \cup {j}
    BY <1>2 DEF Finish
  <2>2. /\ pc = "map" /\ pc' = (IF DOMAIN results' = DOMAIN jobs THEN "merge" ELSE "map")
        /\ UNCHANGED <<jobs, wrote, warned>>
    BY <1>2 DEF Finish
  <2>3. taken \subseteq DOMAIN jobs \ DOMAIN results /\ wrote = {} /\ warned = {}
    BY <2>2 DEF WriteInv
  <2>4. taken' \subseteq DOMAIN jobs \ DOMAIN results'
    BY <2>1, <2>3
  <2> QED BY <2>2, <2>3, <2>4 DEF WriteInv
<1>3. CASE Merge
  BY <1>3 DEF Merge, WriteInv
<1>4. CASE MakeDirs
  BY <1>4 DEF MakeDirs, WriteInv
<1>5. CASE Open
  <2>1. PICK o \in DOMAIN outputs \ (taken \cup wrote) :
          /\ taken' = taken \cup {o}
          /\ files' = [x \in DOMAIN files \cup {outputs[o].path} |->
                         IF x = outputs[o].path THEN << >> ELSE files[x]]
    BY <1>5 DEF Open
  <2>2. pc = "write" /\ UNCHANGED <<outputs, wrote, warned, pc>>
    BY <1>5 DEF Open
  <2>3. Opened(o)'
    BY <2>1, <2>2 DEF Opened
  <2>4. \A p \in DOMAIN outputs : p # o => (Opened(p) => Opened(p)') /\ (Finished(p) => Finished(p)')
    <3>1. /\ DOMAIN files' = DOMAIN files \cup {outputs[o].path}
          /\ \A x \in DOMAIN files : x # outputs[o].path => files'[x] = files[x]
      BY <2>1
    <3> QED BY <2>2, <3>1, OtherFiles
  <2>5. taken' \subseteq DOMAIN outputs \ wrote /\ o \notin wrote
    BY <2>1, <2>2 DEF WriteInv
  <2> QED BY <2>1, <2>2, <2>3, <2>4, <2>5 DEF WriteInv
<1>6. CASE Write
  <2> DEFINE New(o) == IF files[outputs[o].path] = << >> THEN outputs[o].text
                       ELSE outputs[o].text \o SubSeq(files[outputs[o].path],
                              Len(outputs[o].text) + 1, Len(files[outputs[o].path]))
  <2>1. PICK o \in taken :
          /\ files' = [files EXCEPT ![outputs[o].path] = New(o)]
          /\ taken' = taken \ {o} /\ wrote' = wrote \cup {o}
    BY <1>6 DEF Write
  <2>2. pc = "write" /\ UNCHANGED <<outputs, warned, pc>>
    BY <1>6 DEF Write
  <2>3. Opened(o) /\ o \in DOMAIN outputs
    BY <2>2 DEF WriteInv
  <2>4. Finished(o)'
    <3>1. Unshared(o)' <=> Unshared(o)
      BY <2>2 DEF Unshared
    <3>2. Unshared(o) => New(o) = outputs[o].text
      BY <2>3 DEF Opened
    <3> HIDE DEF New
    <3>3. outputs[o].path \in DOMAIN files' /\ files'[outputs[o].path] = New(o)
      BY <2>1, <2>3 DEF Opened
    <3> QED BY <2>2, <3>1, <3>2, <3>3 DEF Finished
  <2> HIDE DEF New
  <2>5. \A p \in DOMAIN outputs : p # o => (Opened(p) => Opened(p)') /\ (Finished(p) => Finished(p)')
    <3>1. /\ DOMAIN files' = DOMAIN files \cup {outputs[o].path}
          /\ \A x \in DOMAIN files : x # outputs[o].path => files'[x] = files[x]
      BY <2>1, <2>3 DEF Opened
    <3> QED BY <2>2, <2>3, <3>1, OtherFiles
  <2> QED BY <2>1, <2>2, <2>3, <2>4, <2>5 DEF WriteInv
<1>7. CASE WriteFails
  <2>1. PICK o \in DOMAIN outputs \ wrote :
          taken' = taken \ {o} /\ wrote' = wrote \cup {o} /\ warned' = warned \cup {o}
    BY <1>7 DEF WriteFails
  <2>2. pc = "write" /\ UNCHANGED <<outputs, files, pc>>
    BY <1>7 DEF WriteFails
  <2>3. \A p : (Opened(p)' <=> Opened(p)) /\ (Finished(p)' <=> Finished(p))
    BY <2>2 DEF Opened, Finished, Unshared
  <2> QED BY <2>1, <2>2, <2>3 DEF WriteInv
<1>8. CASE WriteDump \/ Done \/ UNCHANGED vars
  <2>1. UNCHANGED <<jobs, taken, results, outputs, files, wrote, warned>>
    BY <1>8 DEF WriteDump, Done, vars
  <2>2. \A p : (Opened(p)' <=> Opened(p)) /\ (Finished(p)' <=> Finished(p))
    BY <2>1 DEF Opened, Finished, Unshared
  <2>3. \/ pc = "write" /\ wrote = DOMAIN outputs /\ pc' \in {"ok", "failed"}
        \/ pc' = pc
    BY <1>8 DEF WriteDump, Done, vars
  <2> QED BY <2>1, <2>2, <2>3 DEF WriteInv
<1> QED BY <1>1, <1>2, <1>3, <1>4, <1>5, <1>6, <1>7, <1>8 DEF Next

(* For every number of outputs and threads, in whatever order the files of *)
(* DiffableCs are opened, written and failed on: when decompile returns,   *)
(* each file whose write was not reported as failed is there, and holds    *)
(* the whole text of its output and nothing else if no other output has    *)
(* its path.                                                               *)
THEOREM WritesComplete == Spec => []FilesWritten
<1>1. Init => WriteInv
  BY DEF Init, WriteInv
<1>2. WriteInv => FilesWritten
  BY DEF WriteInv, FilesWritten, Finished
<1> QED BY <1>1, <1>2, WriteInvStep, PTL DEF Spec
=============================================================================
