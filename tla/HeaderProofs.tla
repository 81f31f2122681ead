-------------------------- MODULE HeaderProofs --------------------------
(***************************************************************************)
(* TypeGraph, for every set of types and every graph: the order respects   *)
(* the dependencies, nothing is lost or put out twice, and a reported      *)
(* circular dependency is one.  Then HeaderEmit, for every set of          *)
(* declarations: what is written from the order, and depth first.          *)
(***************************************************************************)
EXTENDS HeaderEmit, TLAPS

(* The edges of a queued type are its dependencies without some that were  *)
(* put out before.                                                         *)
OutInv ==
  \A n \in queued : out[n] \subseteq Edges(n) /\ Edges(n) \subseteq out[n] \cup Rng(ordered)

(* While a round has put out nothing, the types it has passed are blocked. *)
RoundInv ==
  pc = "turn" =>
    /\ before > 0 /\ Len(queue) <= before
    /\ Len(queue) = before => \A i \in left + 1 .. Len(queue) : Blocked(queue[i])

(* The result is taken when nothing is left. *)
OkInv == pc = "ok" => queue = << >>

IInv == TypeOK /\ Accounted /\ OutInv /\ OrderRespected /\ RoundInv /\ CycleReal /\ OkInv

-----------------------------------------------------------------------------
(* Sequences *)

LEMMA RngType == ASSUME NEW S, NEW s \in Seq(S) PROVE Rng(s) \subseteq S
BY DEF Rng

LEMMA TailFacts ==
  ASSUME NEW S, NEW s \in Seq(S), s # << >>
  PROVE  /\ Head(s) \in S /\ Head(s) = s[1] /\ Len(s) \in Nat /\ Len(s) > 0
         /\ Tail(s) \in Seq(S) /\ Len(Tail(s)) = Len(s) - 1
         /\ \A i \in 1 .. Len(s) - 1 : Tail(s)[i] = s[i + 1]
OBVIOUS

LEMMA AppendFacts ==
  ASSUME NEW S, NEW s \in Seq(S), NEW e \in S
  PROVE  /\ Append(s, e) \in Seq(S) /\ Len(Append(s, e)) = Len(s) + 1
         /\ Append(s, e)[Len(s) + 1] = e
         /\ \A i \in 1 .. Len(s) : Append(s, e)[i] = s[i]
OBVIOUS

LEMMA RngAppend ==
  ASSUME NEW S, NEW s \in Seq(S), NEW e \in S
  PROVE  Rng(Append(s, e)) = Rng(s) \cup {e}
<1>1. Len(s) \in Nat OBVIOUS
<1>2. 1 .. Len(Append(s, e)) = (1 .. Len(s)) \cup {Len(s) + 1} BY <1>1, AppendFacts
<1>. QED BY <1>1, <1>2, AppendFacts DEF Rng

LEMMA RngTail ==
  ASSUME NEW S, NEW s \in Seq(S), s # << >>,
         \A i, j \in 1 .. Len(s) : s[i] = s[j] => i = j
  PROVE  Rng(Tail(s)) = Rng(s) \ {Head(s)}
<1>1. /\ Len(s) \in Nat /\ Len(s) > 0 /\ Head(s) = s[1] /\ Len(Tail(s)) = Len(s) - 1
      /\ \A i \in 1 .. Len(s) - 1 : Tail(s)[i] = s[i + 1]
  BY TailFacts
<1>2. ASSUME NEW x \in Rng(Tail(s)) PROVE x \in Rng(s) /\ x # Head(s)
  <2>1. PICK i \in 1 .. Len(s) - 1 : x = Tail(s)[i] BY <1>1 DEF Rng
  <2>2. x = s[i + 1] /\ i + 1 \in 1 .. Len(s) /\ i + 1 # 1 /\ 1 \in 1 .. Len(s) BY <1>1, <2>1
  <2>. QED BY <1>1, <2>2 DEF Rng
<1>3. ASSUME NEW x \in Rng(s), x # Head(s) PROVE x \in Rng(Tail(s))
  <2>1. PICK i \in 1 .. Len(s) : x = s[i] BY DEF Rng
  <2>2. i - 1 \in 1 .. Len(s) - 1 /\ (i - 1) + 1 = i BY <1>1, <1>3, <2>1
  <2>3. x = Tail(s)[i - 1] BY <1>1, <2>1, <2>2
  <2>. QED BY <1>1, <2>2, <2>3 DEF Rng
<1>. QED BY <1>2, <1>3

LEMMA RotateInjective ==
  ASSUME NEW S, NEW s \in Seq(S), NEW t \in Seq(S), Len(s) > 0, Len(t) = Len(s),
         t[Len(s)] = s[1], \A i \in 1 .. Len(s) - 1 : t[i] = s[i + 1],
         \A i, j \in 1 .. Len(s) : s[i] = s[j] => i = j
  PROVE  \A i, j \in 1 .. Len(t) : t[i] = t[j] => i = j
<1>. DEFINE From(i) == IF i = Len(s) THEN 1 ELSE i + 1
<1>1. Len(s) \in Nat OBVIOUS
<1>2. ASSUME NEW i \in 1 .. Len(s) PROVE From(i) \in 1 .. Len(s) /\ t[i] = s[From(i)]
  <2>1. CASE i = Len(s) BY <1>1, <2>1
  <2>2. CASE i # Len(s)
    <3>1. i \in 1 .. Len(s) - 1 /\ i + 1 \in 1 .. Len(s) BY <1>1, <2>2
    <3>. QED BY <2>2, <3>1
  <2>. QED BY <2>1, <2>2
<1>3. \A i, j \in 1 .. Len(s) : From(i) = From(j) => i = j
  <2>. SUFFICES ASSUME NEW i \in 1 .. Len(s), NEW j \in 1 .. Len(s), From(i) = From(j) PROVE i = j
    OBVIOUS
  <2>1. i \in Nat /\ j \in Nat /\ i >= 1 /\ j >= 1 BY <1>1
  <2>2. CASE i = Len(s) /\ j # Len(s) BY <2>1, <2>2
  <2>3. CASE i # Len(s) /\ j = Len(s) BY <2>1, <2>3
  <2>4. CASE i # Len(s) /\ j # Len(s) BY <2>1, <2>4
  <2>. QED BY <2>2, <2>3, <2>4
<1>. HIDE DEF From
<1>4. ASSUME NEW i \in 1 .. Len(s), NEW j \in 1 .. Len(s), t[i] = t[j] PROVE i = j
  <2>1. /\ From(i) \in 1 .. Len(s) /\ t[i] = s[From(i)]
        /\ From(j) \in 1 .. Len(s) /\ t[j] = s[From(j)]
    BY <1>2
  <2>2. From(i) = From(j) BY <1>4, <2>1
  <2>. QED BY <1>3, <2>2
<1>. QED BY <1>4

-----------------------------------------------------------------------------
(* The inductive invariant *)

LEMMA StartIInv ==
  ASSUME input \in [types : Seq(Nodes), deps : [Nodes -> SUBSET Nodes]],
         \A i, j \in 1 .. Len(input.types) : input.types[i] = input.types[j] => i = j,
         pc = "round", out = [n \in Nodes |-> Edges(n)], queue = input.types,
         queued = Rng(input.types), ordered = << >>, left = 0, before = 0
  PROVE  IInv
<1>0. /\ input \in [types : Seq(Nodes), deps : [Nodes -> SUBSET Nodes]]
      /\ \A i, j \in 1 .. Len(input.types) : input.types[i] = input.types[j] => i = j
  OBVIOUS
<1>1. /\ input.types \in Seq(Nodes) /\ input.deps \in [Nodes -> SUBSET Nodes]
      /\ Len(input.types) \in Nat
  BY <1>0
<1>2. Rng(input.types) \subseteq Nodes BY <1>1, RngType
<1>3. Rng(<< >>) = {} BY DEF Rng
<1>4. TypeOK BY <1>0, <1>1, <1>2 DEF TypeOK, Edges
<1>5. Accounted BY <1>0, <1>1, <1>3 DEF Accounted, Added
<1>6. OutInv BY <1>1, <1>2 DEF OutInv
<1>7. OrderRespected /\ RoundInv /\ CycleReal /\ OkInv
  BY DEF OrderRespected, RoundInv, CycleReal, OkInv
<1>. QED BY <1>4, <1>5, <1>6, <1>7 DEF IInv

LEMMA InitIInv == Init => IInv
BY InputsAssumption, StartIInv DEF Init

LEMMA StartRoundIInv == IInv /\ StartRound => IInv'
<1>. SUFFICES ASSUME IInv, StartRound PROVE IInv' OBVIOUS
<1>. USE DEF IInv, StartRound
<1>1. Len(queue) \in Nat /\ Len(queue) > 0 BY TailFacts DEF TypeOK
<1>2. TypeOK' BY <1>1 DEF TypeOK
<1>3. Accounted' BY DEF Accounted, Added
<1>4. OutInv' BY DEF OutInv, Edges
<1>5. OrderRespected' BY DEF OrderRespected, Edges, Added
<1>6. RoundInv' BY <1>1 DEF RoundInv
<1>7. CycleReal' /\ OkInv' BY DEF CycleReal, OkInv
<1>. QED BY <1>2, <1>3, <1>4, <1>5, <1>6, <1>7

LEMMA PushBackIInv == IInv /\ PushBack => IInv'
<1>. SUFFICES ASSUME IInv, PushBack PROVE IInv' OBVIOUS
<1>. USE DEF IInv, PushBack
<1>1. queue \in Seq(Nodes) /\ queue # << >> /\ left \in Nat /\ before \in Nat /\ left <= Len(queue)
  BY DEF TypeOK
<1>2. /\ Len(queue) \in Nat /\ Len(queue) > 0 /\ Head(queue) \in Nodes /\ Head(queue) = queue[1]
      /\ Tail(queue) \in Seq(Nodes) /\ Len(Tail(queue)) = Len(queue) - 1
      /\ \A i \in 1 .. Len(queue) - 1 : Tail(queue)[i] = queue[i + 1]
  BY <1>1, TailFacts
<1>3. /\ queue' \in Seq(Nodes) /\ Len(queue') = Len(queue)
      /\ queue'[Len(queue)] = Head(queue)
      /\ \A i \in 1 .. Len(queue) - 1 : queue'[i] = queue[i + 1]
  BY <1>2, AppendFacts
<1>4. TypeOK' BY <1>1, <1>2, <1>3 DEF TypeOK
<1>5. Rng(queue') = Rng(queue)
  <2>1. Rng(Tail(queue)) = Rng(queue) \ {Head(queue)}
    <3>1. \A i, j \in 1 .. Len(queue) : queue[i] = queue[j] => i = j BY Zenon DEF Accounted
    <3>. HIDE DEF IInv, PushBack
    <3>. QED BY <1>1, <3>1, RngTail
  <2>2. Rng(queue') = Rng(Tail(queue)) \cup {Head(queue)}
    <3>1. queue' = Append(Tail(queue), Head(queue)) OBVIOUS
    <3>. HIDE DEF IInv, PushBack
    <3>2. Tail(queue) \in Seq(Nodes) /\ Head(queue) \in Nodes BY <1>2, Zenon
    <3>a. ASSUME NEW t \in Seq(Nodes), NEW e \in Nodes PROVE Rng(Append(t, e)) = Rng(t) \cup {e}
      BY RngAppend
    <3>3. Rng(Append(Tail(queue), Head(queue))) = Rng(Tail(queue)) \cup {Head(queue)}
      BY <3>2, <3>a, Zenon
    <3>. QED BY <3>1, <3>3, Zenon
  <2>3. Head(queue) \in Rng(queue) BY <1>2 DEF Rng
  <2>. QED BY <2>1, <2>2, <2>3
<1>6. Accounted'
  <2>1. \A i, j \in 1 .. Len(queue') : queue'[i] = queue'[j] => i = j
    <3>. HIDE DEF PushBack
    <3>1. \A i, j \in 1 .. Len(queue) : queue[i] = queue[j] => i = j BY DEF Accounted
    <3>2. queue'[Len(queue)] = queue[1] BY <1>2, <1>3
    <3>3. queue' \in Seq(Nodes) /\ Len(queue') = Len(queue) /\ queue \in Seq(Nodes) /\ Len(queue) > 0
      BY <1>1, <1>2, <1>3, Zenon
    <3>4. \A i \in 1 .. Len(queue) - 1 : queue'[i] = queue[i + 1] BY <1>3, Zenon
    <3>. HIDE DEF IInv
    <3>. QED BY <3>1, <3>2, <3>3, <3>4, RotateInjective
  <2>. QED BY <1>5, <2>1 DEF Accounted, Added
<1>7. OutInv' BY DEF OutInv, Edges
<1>8. OrderRespected' BY DEF OrderRespected, Edges, Added
<1>9. RoundInv'
  <2>1. before > 0 /\ Len(queue) <= before BY DEF RoundInv
  <2>2. ASSUME Len(queue) = before, NEW i \in left .. Len(queue) PROVE out[queue'[i]] \cap queued # {}
    <3>1. CASE i = Len(queue) BY <1>3, <3>1 DEF Blocked
    <3>2. CASE i < Len(queue)
      <4>1. i + 1 \in left + 1 .. Len(queue) /\ i \in 1 .. Len(queue) - 1 BY <1>1, <1>2, <2>2, <3>2
      <4>. QED BY <1>3, <2>2, <4>1 DEF RoundInv, Blocked
    <3>. QED BY <1>1, <1>2, <2>2, <3>1, <3>2
  <2>3. (left - 1) + 1 = left BY <1>1
  <2>. QED BY <1>3, <2>1, <2>2, <2>3 DEF RoundInv, Blocked
<1>10. CycleReal' /\ OkInv' BY DEF CycleReal, OkInv
<1>. QED BY <1>4, <1>6, <1>7, <1>8, <1>9, <1>10

LEMMA EmitIInv == IInv /\ Emit => IInv'
<1>. SUFFICES ASSUME IInv, Emit PROVE IInv' OBVIOUS
<1>. USE DEF IInv
<1>. DEFINE n == Head(queue)
<1>1. /\ queue \in Seq(Nodes) /\ queue # << >> /\ ordered \in Seq(Nodes) /\ Len(ordered) \in Nat
      /\ left \in Nat /\ before \in Nat /\ left <= Len(queue) /\ left > 0 /\ pc = "turn"
  BY DEF Emit, TypeOK
<1>2. /\ Len(queue) \in Nat /\ Len(queue) > 0 /\ n \in Nodes /\ n = queue[1]
      /\ Tail(queue) \in Seq(Nodes) /\ Len(Tail(queue)) = Len(queue) - 1
      /\ \A i \in 1 .. Len(queue) - 1 : Tail(queue)[i] = queue[i + 1]
  BY <1>1, TailFacts
<1>3. /\ ordered' = Append(ordered, n) /\ queue' = Tail(queue) /\ queued' = queued \ {n}
      /\ out' = [m \in Nodes |-> IF n \in Edges(m) /\ m \in queued THEN out[m] \ {n} ELSE out[m]]
      /\ left' = left - 1 /\ input' = input /\ pc' = pc /\ before' = before
      /\ out[n] \cap queued = {}
  BY DEF Emit, Blocked
<1>4. /\ ordered' \in Seq(Nodes) /\ Len(ordered') = Len(ordered) + 1
      /\ ordered'[Len(ordered) + 1] = n
      /\ \A i \in 1 .. Len(ordered) : ordered'[i] = ordered[i]
      /\ Rng(ordered') = Rng(ordered) \cup {n}
  BY <1>1, <1>2, <1>3, AppendFacts, RngAppend
<1>5. Rng(queue') = Rng(queue) \ {n} /\ n \in Rng(queue)
  <2>1. n \in Rng(queue) BY <1>2 DEF Rng
  <2>. QED BY <1>1, <1>3, <2>1, RngTail DEF Accounted
<1>6. \A m : Edges(m)' = Edges(m) BY <1>3 DEF Edges
<1>7. Added' = Added BY <1>3 DEF Added
<1>. HIDE DEF n
<1>8. TypeOK'
  <2>1. out' \in [Nodes -> SUBSET Nodes] BY <1>3 DEF TypeOK
  <2>2. left' \in Nat /\ left' <= Len(queue') BY <1>1, <1>2, <1>3
  <2>. QED BY <1>2, <1>3, <1>4, <2>1, <2>2 DEF TypeOK
<1>9. Accounted'
  <2>1. ASSUME NEW i \in 1 .. Len(queue'), NEW j \in 1 .. Len(queue'), queue'[i] = queue'[j] PROVE i = j
    <3>1. i \in 1 .. Len(queue) - 1 /\ j \in 1 .. Len(queue) - 1 BY <1>2, <1>3
    <3>2. queue[i + 1] = queue[j + 1] /\ i + 1 \in 1 .. Len(queue) /\ j + 1 \in 1 .. Len(queue)
      BY <1>2, <1>3, <2>1, <3>1
    <3>3. i + 1 = j + 1 BY <3>2 DEF Accounted
    <3>. QED BY <1>2, <3>1, <3>3
  <2>2. queued' = Rng(queue)' BY <1>3, <1>5 DEF Accounted
  <2>3. Added' = Rng(queue') \cup Rng(ordered') /\ Rng(queue') \cap Rng(ordered') = {}
    BY <1>4, <1>5, <1>7 DEF Accounted
  <2>4. \A i, j \in 1 .. Len(ordered') : ordered'[i] = ordered'[j] => i = j
    <3>1. \A i \in 1 .. Len(ordered) : ordered[i] # n BY <1>5 DEF Accounted, Rng
    <3>2. \A i \in 1 .. Len(ordered') : i \in 1 .. Len(ordered) \/ i = Len(ordered) + 1
      BY <1>1, <1>4
    <3>3. \A i, j \in 1 .. Len(ordered) : ordered[i] = ordered[j] => i = j BY DEF Accounted
    <3>. HIDE DEF IInv
    <3>. QED BY <1>4, <3>1, <3>2, <3>3
  <2>. QED BY <2>1, <2>2, <2>3, <2>4 DEF Accounted
<1>10. OutInv'
  <2>. SUFFICES ASSUME NEW m \in queued'
                PROVE out'[m] \subseteq Edges(m) /\ Edges(m) \subseteq out'[m] \cup Rng(ordered')
    BY <1>6 DEF OutInv
  <2>1. m \in queued /\ m \in Nodes BY <1>3 DEF TypeOK
  <2>2. out[m] \subseteq Edges(m) /\ Edges(m) \subseteq out[m] \cup Rng(ordered) BY <2>1 DEF OutInv
  <2>3. out'[m] \subseteq out[m] /\ out[m] \subseteq out'[m] \cup {n} BY <1>3, <2>1
  <2>. QED BY <1>4, <2>2, <2>3
<1>11. OrderRespected'
  <2>. SUFFICES ASSUME NEW k \in 1 .. Len(ordered'), NEW d \in Edges(ordered'[k]) \cap Added
                PROVE \E j \in 1 .. k - 1 : ordered'[j] = d
    BY <1>6, <1>7 DEF OrderRespected
  <2>1. CASE k \in 1 .. Len(ordered)
    <3>1. PICK j \in 1 .. k - 1 : ordered[j] = d BY <1>4, <2>1 DEF OrderRespected
    <3>2. j \in 1 .. Len(ordered) BY <1>1, <2>1
    <3>. QED BY <1>4, <3>1, <3>2
  <2>2. CASE k = Len(ordered) + 1
    <3>1. n \in queued BY <1>5 DEF Accounted
    <3>2. d \in Edges(n) BY <1>4, <2>2
    <3>3. d \in out[n] \/ d \in Rng(ordered) BY <3>1, <3>2 DEF OutInv
    <3>4. d \in queued \/ d \in Rng(ordered) BY DEF Accounted
    <3>5. d \in Rng(ordered) BY <1>3, <3>3, <3>4
    <3>6. PICK j \in 1 .. Len(ordered) : ordered[j] = d BY <3>5 DEF Rng
    <3>7. j \in 1 .. k - 1 /\ ordered'[j] = d BY <1>1, <1>4, <2>2, <3>6
    <3>. QED BY <3>7
  <2>. QED BY <1>1, <1>4, <2>1, <2>2
<1>12. RoundInv'
  <2>1. before > 0 /\ Len(queue) <= before BY <1>1 DEF RoundInv
  <2>2. Len(queue') = Len(queue) - 1 /\ before' = before BY <1>2, <1>3, Zenon
  <2>3. Len(queue') <= before /\ Len(queue') # before
    <3>0. Len(queue) \in Nat /\ before \in Nat BY <1>1, <1>2
    <3>1. Len(queue) - 1 <= before /\ Len(queue) - 1 # before BY <2>1, <3>0
    <3>. QED BY <2>2, <3>1, Zenon
  <2>. QED BY <1>3, <2>1, <2>2, <2>3 DEF RoundInv
<1>13. CycleReal' /\ OkInv' BY <1>1, <1>3 DEF CycleReal, OkInv
<1>. QED BY <1>8, <1>9, <1>10, <1>11, <1>12, <1>13

LEMMA EndRoundIInv == IInv /\ EndRound => IInv'
<1>. SUFFICES ASSUME IInv, EndRound PROVE IInv' OBVIOUS
<1>. USE DEF IInv, EndRound
<1>1. TypeOK' BY DEF TypeOK
<1>2. Accounted' BY DEF Accounted, Added
<1>3. OutInv' BY DEF OutInv, Edges
<1>4. OrderRespected' BY DEF OrderRespected, Edges, Added
<1>5. RoundInv' /\ OkInv' BY DEF RoundInv, OkInv
<1>6. CycleReal'
  <2>. SUFFICES ASSUME Len(queue) = before
                PROVE queued # {} /\ \A m \in queued : Edges(m) \cap queued # {}
    BY DEF CycleReal, Edges
  <2>1. Len(queue) \in Nat /\ Len(queue) > 0 /\ left = 0 BY DEF RoundInv, TypeOK
  <2>2. \A i \in 1 .. Len(queue) : Blocked(queue[i]) BY <2>1 DEF RoundInv
  <2>3. queued = Rng(queue) BY DEF Accounted
  <2>4. queue[1] \in queued BY <2>1, <2>3 DEF Rng
  <2>5. ASSUME NEW m \in queued PROVE Edges(m) \cap queued # {}
    <3>1. PICK i \in 1 .. Len(queue) : m = queue[i] BY <2>3 DEF Rng
    <3>2. out[m] \cap queued # {} BY <2>2, <3>1 DEF Blocked
    <3>3. out[m] \subseteq Edges(m) BY DEF OutInv
    <3>. QED BY <3>2, <3>3
  <2>. QED BY <2>4, <2>5
<1>. QED BY <1>1, <1>2, <1>3, <1>4, <1>5, <1>6

LEMMA FinishIInv == IInv /\ Finish => IInv'
BY DEF IInv, Finish, TypeOK, Accounted, Added, OutInv, Edges, OrderRespected, RoundInv, CycleReal, OkInv

LEMMA StutterIInv == IInv /\ UNCHANGED vars => IInv'
BY DEF IInv, vars, TypeOK, Accounted, Added, OutInv, Edges, OrderRespected, RoundInv, Blocked, CycleReal, OkInv

LEMMA NextIInv == IInv /\ [Next]_vars => IInv'
BY StartRoundIInv, PushBackIInv, EmitIInv, EndRoundIInv, FinishIInv, StutterIInv
   DEF Next, Step, Stop

LEMMA Inductive == Spec => []IInv
BY InitIInv, NextIInv, PTL DEF Spec

-----------------------------------------------------------------------------
(* Theorems *)

(* derive_dependency_order keeps its bookkeeping within its types for      *)
(* every graph; in particular its round never pops from an empty queue.    *)
THEOREM TypeCorrect == Spec => []TypeOK
<1>. IInv => TypeOK BY DEF IInv
<1>. QED BY Inductive, PTL

(* For every graph, no type added is lost from the queue or put out twice. *)
THEOREM NothingLost == Spec => []Accounted
<1>. IInv => Accounted BY DEF IInv
<1>. QED BY Inductive, PTL

(* For every graph, a type is put out after everything it holds by value.  *)
THEOREM OrderCorrect == Spec => []OrderRespected
<1>. IInv => OrderRespected BY DEF IInv
<1>. QED BY Inductive, PTL

(* For every graph, derive_dependency_order reports a circular dependency  *)
(* only when every type of the report holds another one of it by value.    *)
THEOREM CycleCorrect == Spec => []CycleReal
<1>. IInv => CycleReal BY DEF IInv
<1>. QED BY Inductive, PTL
-----------------------------------------------------------------------------
(* The header *)

LEMMA RngConcat ==
  ASSUME NEW S, NEW s \in Seq(S), NEW t \in Seq(S)
  PROVE  s \o t \in Seq(S) /\ Rng(s \o t) = Rng(s) \cup Rng(t)
<1>1. /\ s \o t \in Seq(S) /\ Len(s) \in Nat /\ Len(t) \in Nat /\ Len(s \o t) = Len(s) + Len(t)
      /\ \A k \in 1 .. Len(s) + Len(t) : (s \o t)[k] = IF k <= Len(s) THEN s[k] ELSE t[k - Len(s)]
  OBVIOUS
<1>2. ASSUME NEW x \in Rng(s \o t) PROVE x \in Rng(s) \cup Rng(t)
  <2>1. PICK k \in 1 .. Len(s) + Len(t) : x = (s \o t)[k] BY <1>1 DEF Rng
  <2>2. CASE k <= Len(s)
    <3>1. k \in 1 .. Len(s) /\ x = s[k] BY <1>1, <2>1, <2>2
    <3>. QED BY <3>1 DEF Rng
  <2>3. CASE k > Len(s)
    <3>1. k - Len(s) \in 1 .. Len(t) /\ x = t[k - Len(s)] BY <1>1, <2>1, <2>3
    <3>. QED BY <3>1 DEF Rng
  <2>. QED BY <1>1, <2>2, <2>3
<1>3. ASSUME NEW x \in Rng(s) PROVE x \in Rng(s \o t)
  <2>1. PICK k \in 1 .. Len(s) : x = s[k] BY DEF Rng
  <2>2. k \in 1 .. Len(s \o t) /\ (s \o t)[k] = x BY <1>1, <2>1
  <2>. QED BY <2>2 DEF Rng
<1>4. ASSUME NEW x \in Rng(t) PROVE x \in Rng(s \o t)
  <2>1. PICK k \in 1 .. Len(t) : x = t[k] BY DEF Rng
  <2>2. Len(s) + k \in 1 .. Len(s \o t) /\ (s \o t)[Len(s) + k] = x BY <1>1, <2>1
  <2>. QED BY <2>2 DEF Rng
<1>. QED BY <1>1, <1>2, <1>3, <1>4

LEMMA ConsFacts ==
  ASSUME NEW S, NEW e \in S, NEW s \in Seq(S)
  PROVE  /\ <<e>> \o s \in Seq(S) /\ Len(<<e>> \o s) = Len(s) + 1 /\ Len(s) \in Nat
         /\ (<<e>> \o s)[1] = e
         /\ \A k \in 2 .. Len(s) + 1 : (<<e>> \o s)[k] = s[k - 1]
OBVIOUS

LEMMA RngHead ==
  ASSUME NEW S, NEW s \in Seq(S), s # << >>
  PROVE  Rng(s) = {Head(s)} \cup Rng(Tail(s))
<1>1. /\ Len(s) \in Nat /\ Len(s) > 0 /\ Head(s) = s[1] /\ Len(Tail(s)) = Len(s) - 1
      /\ \A k \in 1 .. Len(s) - 1 : Tail(s)[k] = s[k + 1]
  BY TailFacts
<1>2. ASSUME NEW x \in Rng(s) PROVE x \in {Head(s)} \cup Rng(Tail(s))
  <2>1. PICK k \in 1 .. Len(s) : x = s[k] BY DEF Rng
  <2>2. CASE k = 1 BY <1>1, <2>1, <2>2
  <2>3. CASE k # 1
    <3>1. k - 1 \in 1 .. Len(s) - 1 /\ (k - 1) + 1 = k BY <1>1, <2>3
    <3>2. k - 1 \in 1 .. Len(Tail(s)) /\ Tail(s)[k - 1] = x BY <1>1, <2>1, <3>1
    <3>. QED BY <3>2 DEF Rng
  <2>. QED BY <2>2, <2>3
<1>3. Head(s) \in Rng(s) BY <1>1 DEF Rng
<1>4. ASSUME NEW x \in Rng(Tail(s)) PROVE x \in Rng(s)
  <2>1. PICK k \in 1 .. Len(s) - 1 : x = Tail(s)[k] BY <1>1 DEF Rng
  <2>2. k + 1 \in 1 .. Len(s) /\ x = s[k + 1] BY <1>1, <2>1
  <2>. QED BY <2>2 DEF Rng
<1>. QED BY <1>2, <1>3, <1>4

-----------------------------------------------------------------------------
Listed == Rng(hdr.types)

(* What the graph is given stays what the declarations say, and the way    *)
(* that is taken is the one that was asked for: the topological sort never *)
(* falls back.                                                             *)
WayInv ==
  /\ hdr \in Headers /\ input = GraphOf(hdr)
  /\ at \in {"graph", "groups", "legacy", "done"}
  /\ at = "graph" => hdr.topo /\ body = << >> /\ turn = 0 /\ section = 1
  /\ at = "groups" => hdr.topo /\ pc = "ok" /\ section \in 1 .. 4 /\ turn \in 0 .. Len(ordered)
  /\ at = "legacy" => ~hdr.topo /\ section = 1 /\ turn \in 0 .. Len(hdr.types)
  /\ at = "done" => section \in 1 .. 5 /\ turn \in 0 .. Len(hdr.types)
  /\ hdr.topo => stack = << >> /\ cache = {}

(* The body, by either way: no type twice, at the end all of them. *)
BodyInv ==
  /\ body \in Seq(Listed)
  /\ \A j, k \in 1 .. Len(body) : body[j] = body[k] => j = k
  /\ at = "done" => Rng(body) = Listed

(* Group by group: the types of the groups before, and those of this group *)
(* among the names gone through; a parent of the same group comes first.   *)
Reached ==
  {t \in Listed : \/ hdr.group[t] < section
                  \/ hdr.group[t] = section /\ \E j \in 1 .. turn : ordered[j] = Plain(t)}
GroupInv ==
  /\ at = "groups" => Rng(body) = Reached
  /\ hdr.topo =>
       \A k \in 1 .. Len(body) :
         hdr.parent[body[k]] # NoType /\ hdr.group[hdr.parent[body[k]]] = hdr.group[body[k]] =>
           \E j \in 1 .. k - 1 : body[j] = hdr.parent[body[k]]

(* Depth first: each call was made for something its caller holds and has  *)
(* visited the rest of what its type holds.                                *)
Frames == [type : Listed, visits : Seq(Listed)]
Calling(st) == {st[k].type : k \in 1 .. Len(st)}
Running(st) ==
  /\ st \in Seq(Frames)
  /\ \A j, k \in 1 .. Len(st) : st[j].type = st[k].type => j = k
  /\ \A k \in 1 .. Len(st) : Rng(st[k].visits) \subseteq Holds(st[k].type)
  /\ \A k \in 2 .. Len(st) : st[k - 1].type \in Holds(st[k].type)
Visited(st, ca) == \A k \in 1 .. Len(st) : Holds(st[k].type) \subseteq Rng(st[k].visits) \cup ca

(* Everything a type holds is written before it, if the types can be      *)
(* ordered.                                                                *)
SoFar == Orderable => \A k \in 1 .. Len(body) : \A u \in Holds(body[k]) \ {body[k]} :
                        \E j \in 1 .. k - 1 : body[j] = u

DepthInv ==
  ~hdr.topo =>
    /\ Running(stack) /\ Visited(stack, cache)
    /\ cache = Rng(body) \cup Calling(stack) /\ Rng(body) \cap Calling(stack) = {}
    /\ at = "legacy" => \A k \in 1 .. turn : hdr.types[k] \in cache
    /\ at = "done" => stack = << >>
    /\ SoFar

HInv == IInv /\ WayInv /\ BodyInv /\ GroupInv /\ DepthInv

-----------------------------------------------------------------------------
(* What a declaration refers to is declared. *)
LEMMA HeaderFacts ==
  ASSUME HeadersAssumption, hdr \in Headers
  PROVE  /\ hdr.topo \in BOOLEAN /\ hdr.types \in Seq(Types) /\ Len(hdr.types) \in Nat
         /\ Listed \subseteq Types /\ NoType \notin Listed
         /\ \A j, k \in 1 .. Len(hdr.types) : hdr.types[j] = hdr.types[k] => j = k
         /\ \A t \in Listed : /\ hdr.parent[t] \in Listed \cup {NoType}
                              /\ hdr.group[t] \in 1 .. 4
                              /\ hdr.vals[t] \in Seq(Listed) /\ t \notin Rng(hdr.vals[t])
                              /\ hdr.statics[t] \in Seq(Listed)
         /\ \A x \in SUBSET Listed : x # {} => \E t \in x : \A u \in x : hdr.parent[t] # u
<1>1. /\ hdr.topo \in BOOLEAN /\ hdr.types \in Seq(Types)
      /\ \A j, k \in 1 .. Len(hdr.types) : hdr.types[j] = hdr.types[k] => j = k
      /\ \A t \in Listed : /\ hdr.parent[t] \in Listed \cup {NoType}
                           /\ hdr.vals[t] \in Seq(Listed \ {t}) /\ hdr.statics[t] \in Seq(Listed)
                           /\ hdr.group[t] \in 1 .. 4
      /\ \A x \in SUBSET Listed : x # {} => \E t \in x : \A u \in x : hdr.parent[t] # u
      /\ NoType \notin Types
  BY DEF HeadersAssumption, Listed, Groups, Acyclic
<1>2. Listed \subseteq Types BY <1>1, RngType DEF Listed
<1>3. ASSUME NEW t \in Listed
      PROVE  hdr.vals[t] \in Seq(Listed) /\ t \notin Rng(hdr.vals[t])
  <2>1. hdr.vals[t] \in Seq(Listed \ {t}) BY <1>1
  <2>2. Rng(hdr.vals[t]) \subseteq Listed \ {t} BY <2>1, RngType
  <2>3. hdr.vals[t] \in Seq(Listed) BY <2>1
  <2>. QED BY <2>2, <2>3
<1>4. Len(hdr.types) \in Nat BY <1>1
<1>. QED BY <1>1, <1>2, <1>3, <1>4

LEMMA HoldsFacts ==
  ASSUME HeadersAssumption, hdr \in Headers, NEW t \in Listed
  PROVE  /\ Frame(t) \in Frames /\ Frame(t).type = t /\ Rng(Frame(t).visits) = Holds(t)
         /\ Holds(t) \subseteq Listed
         /\ hdr.parent[t] # NoType => hdr.parent[t] \in Holds(t)
<1>1. /\ hdr.parent[t] \in Listed \cup {NoType}
      /\ hdr.vals[t] \in Seq(Listed) /\ hdr.statics[t] \in Seq(Listed)
  BY HeaderFacts
<1>2. ParentOf(t) \in Seq(Listed) BY <1>1 DEF ParentOf
<1>. DEFINE front == ParentOf(t) \o hdr.vals[t]
<1>3. front \in Seq(Listed) /\ Rng(front) = Rng(ParentOf(t)) \cup Rng(hdr.vals[t])
  BY <1>1, <1>2, RngConcat
<1>. HIDE DEF front
<1>4. front \o hdr.statics[t] \in Seq(Listed) /\ Rng(front \o hdr.statics[t]) = Holds(t)
  <2>1. /\ front \o hdr.statics[t] \in Seq(Listed)
        /\ Rng(front \o hdr.statics[t]) = Rng(front) \cup Rng(hdr.statics[t])
    BY <1>1, <1>3, RngConcat
  <2>. QED BY <1>3, <2>1 DEF Holds
<1>. USE DEF front
<1>5. hdr.parent[t] # NoType => hdr.parent[t] \in Rng(ParentOf(t)) BY DEF ParentOf, Rng
<1>6. Frame(t) = [type |-> t, visits |-> front \o hdr.statics[t]] BY DEF Frame
<1>. HIDE DEF front
<1>7. Holds(t) \subseteq Listed BY <1>4, RngType
<1>8. hdr.parent[t] # NoType => hdr.parent[t] \in Holds(t) BY <1>5 DEF Holds
<1>. QED BY <1>4, <1>6, <1>7, <1>8 DEF Frames
(* The graph has a node for each type and an edge to its parent. *)
LEMMA GraphFacts ==
  ASSUME HeadersAssumption, hdr \in Headers, input = GraphOf(hdr)
  PROVE  /\ input \in [types : Seq(Nodes), deps : [Nodes -> SUBSET Nodes]]
         /\ \A j, k \in 1 .. Len(input.types) : input.types[j] = input.types[k] => j = k
         /\ Added = {Plain(t) : t \in Listed}
         /\ \A t, u \in Listed : Plain(u) \in Edges(Plain(t)) <=> u = hdr.parent[t] /\ u # t
<1>. USE HeaderFacts
<1>0. \A t \in Types : Plain(t) \in Nodes /\ Obj(t) \in Nodes
  BY DEF HeadersAssumption, Plain, Obj
<1>1. input.types = [k \in 1 .. Len(hdr.types) |-> Plain(hdr.types[k])] BY DEF GraphOf
<1>2. /\ input.types \in Seq(Nodes) /\ Len(input.types) = Len(hdr.types)
      /\ \A k \in 1 .. Len(hdr.types) : input.types[k] = Plain(hdr.types[k])
  <2>1. \A k \in 1 .. Len(hdr.types) : hdr.types[k] \in Types OBVIOUS
  <2>2. \A k \in 1 .. Len(hdr.types) : Plain(hdr.types[k]) \in Nodes BY <1>0, <2>1
  <2>. QED BY <1>1, <2>2
<1>3. \A t, u : Plain(t) = Plain(u) => t = u BY DEF Plain
<1>4. \A j, k \in 1 .. Len(input.types) : input.types[j] = input.types[k] => j = k
  BY <1>2, <1>3
<1>5. Added = {Plain(t) : t \in Listed} BY <1>2 DEF Added, Listed, Rng
<1>. DEFINE From(n) == IF n[2] = "" /\ n[1] \in Rng(hdr.types)
                       THEN ValueEdges(hdr, n[1]) ELSE {}
<1>6. input.deps = [n \in Nodes |-> From(n)] BY DEF GraphOf
<1>7. \A t \in Listed : ValueEdges(hdr, t) \subseteq Nodes
  <2>. SUFFICES ASSUME NEW t \in Listed PROVE ValueEdges(hdr, t) \subseteq Nodes OBVIOUS
  <2>1. Rng(hdr.vals[t]) \cup Rng(hdr.statics[t]) \subseteq Types
    <3>1. hdr.vals[t] \in Seq(Listed) /\ hdr.statics[t] \in Seq(Listed) OBVIOUS
    <3>2. Rng(hdr.vals[t]) \subseteq Listed /\ Rng(hdr.statics[t]) \subseteq Listed
      BY <3>1, RngType
    <3>. QED BY <3>2
  <2>2. {hdr.parent[t]} \ {NoType} \subseteq Types OBVIOUS
  <2>. QED BY <1>0, <2>1, <2>2 DEF ValueEdges
<1>8. input.deps \in [Nodes -> SUBSET Nodes]
  <2>1. \A n \in Nodes : From(n) \subseteq Nodes BY <1>7 DEF Listed
  <2>. HIDE DEF From
  <2>. QED BY <1>6, <2>1
<1>9. input \in [types : Seq(Nodes), deps : [Nodes -> SUBSET Nodes]]
  <2>1. input = [types |-> input.types, deps |-> input.deps] BY DEF GraphOf
  <2>. QED BY <1>2, <1>8, <2>1
<1>10. ASSUME NEW t \in Listed, NEW u \in Listed
       PROVE  Plain(u) \in Edges(Plain(t)) <=> u = hdr.parent[t] /\ u # t
  <2>1. Plain(t) \in Nodes /\ Plain(t)[1] = t /\ Plain(t)[2] = "" BY <1>0 DEF Plain
  <2>2. input.deps[Plain(t)] = ValueEdges(hdr, t)
    <3>1. From(Plain(t)) = ValueEdges(hdr, t) BY <2>1 DEF Listed
    <3>. HIDE DEF From
    <3>. QED BY <1>6, <2>1, <3>1
  <2>3. \A v : Plain(u) # Obj(v) BY DEF Plain, Obj
  <2>4. Plain(u) \in ValueEdges(hdr, t) <=> \E p \in {hdr.parent[t]} \ {NoType} : Plain(u) = Plain(p)
    BY <2>3 DEF ValueEdges
  <2>5. Plain(u) \in ValueEdges(hdr, t) <=> u = hdr.parent[t]
    <3>1. u # NoType OBVIOUS
    <3>. HIDE HeaderFacts
    <3>. QED BY <1>3, <2>4, <3>1
  <2>. QED BY <1>3, <2>2, <2>5 DEF Edges
<1>. QED BY <1>4, <1>5, <1>9, <1>10

(* Parents do not form a cycle, so the graph never reports one. *)
LEMMA NeverCycle ==
  ASSUME HeadersAssumption, IInv, hdr \in Headers, input = GraphOf(hdr)
  PROVE  pc # "cycle"
<1>. SUFFICES ASSUME pc = "cycle" PROVE FALSE OBVIOUS
<1>1. queued # {} /\ \A n \in queued : Edges(n) \cap queued # {} BY DEF IInv, CycleReal
<1>2. \A n \in queued : \E t \in Listed : n = Plain(t)
  <2>1. Added = {Plain(t) : t \in Listed} BY GraphFacts
  <2>2. queued \subseteq Added BY DEF IInv, Accounted
  <2>. QED BY <2>1, <2>2
<1>. DEFINE waiting == {t \in Listed : Plain(t) \in queued}
<1>3. waiting # {} BY <1>1, <1>2
<1>4. PICK t \in waiting : \A u \in waiting : hdr.parent[t] # u
  <2>1. \A x \in SUBSET Listed : x # {} => \E t \in x : \A u \in x : hdr.parent[t] # u
    BY HeaderFacts
  <2>. QED BY <1>3, <2>1
<1>5. PICK n \in queued : n \in Edges(Plain(t)) BY <1>1
<1>6. PICK u \in Listed : n = Plain(u) BY <1>2
<1>7. u = hdr.parent[t] BY <1>5, <1>6, GraphFacts
<1>. QED BY <1>4, <1>5, <1>6, <1>7

LEMMA HeaderInitInv == HeadersAssumption /\ HeaderInit => HInv
<1>. SUFFICES ASSUME HeadersAssumption, HeaderInit PROVE HInv OBVIOUS
<1>. USE DEF HeaderInit
<1>1. hdr \in Headers /\ input = GraphOf(hdr) OBVIOUS
<1>2. IInv BY <1>1, GraphFacts, StartIInv
<1>3. hdr.topo \in BOOLEAN /\ Len(hdr.types) \in Nat BY <1>1, HeaderFacts
<1>4. WayInv BY <1>1, <1>3 DEF WayInv
<1>5. BodyInv BY DEF BodyInv
<1>6. GroupInv BY DEF GroupInv
<1>7. DepthInv
  <2>1. Calling(<< >>) = {} /\ Rng(<< >>) = {} BY DEF Calling, Rng
  <2>. QED BY <2>1 DEF SoFar, DepthInv, Running, Visited
<1>. QED BY <1>2, <1>4, <1>5, <1>6, <1>7 DEF HInv

LEMMA DeriveInv == HInv /\ Derive => HInv'
<1>. SUFFICES ASSUME HInv, Derive PROVE HInv' OBVIOUS
<1>1. IInv' BY NextIInv DEF HInv, Derive, Next
<1>2. input' = input /\ UNCHANGED hvars /\ at = "graph"
  BY DEF Derive, Step, StartRound, PushBack, Emit, EndRound, Finish
<1>3. WayInv' BY <1>2 DEF HInv, WayInv, hvars
<1>4. BodyInv' BY <1>2 DEF HInv, BodyInv, hvars, Listed
<1>5. GroupInv' BY <1>2 DEF HInv, GroupInv, hvars
<1>6. DepthInv' BY <1>2 DEF HInv, DepthInv, WayInv, hvars
<1>. QED BY <1>1, <1>3, <1>4, <1>5, <1>6 DEF HInv

LEMMA TakeOrderInv == HeadersAssumption /\ HInv /\ TakeOrder => HInv'
<1>. SUFFICES ASSUME HeadersAssumption, HInv, TakeOrder PROVE HInv' OBVIOUS
<1>. USE DEF HInv
<1>1. at = "graph" /\ UNCHANGED <<vars, hdr, body, stack, cache, turn, section>>
  BY DEF TakeOrder
<1>2. hdr \in Headers /\ input = GraphOf(hdr) /\ hdr.topo /\ body = << >> /\ turn = 0 /\ section = 1
  BY <1>1 DEF WayInv
<1>3. pc = "ok" /\ at' = "groups"
  <2>1. pc # "cycle" BY <1>2, NeverCycle
  <2>. QED BY <2>1 DEF TakeOrder
<1>4. IInv' BY <1>1, StutterIInv
<1>5. ordered \in Seq(Nodes) BY DEF IInv, TypeOK
<1>6. Len(ordered) \in Nat BY <1>5
<1>7. WayInv' BY <1>1, <1>2, <1>3, <1>6 DEF WayInv, vars
<1>8. BodyInv' BY <1>1, <1>2, <1>3 DEF BodyInv, Listed
<1>9. GroupInv'
  <2>1. \A t \in Listed : hdr.group[t] \in 1 .. 4 BY <1>2, HeaderFacts
  <2>2. \A t \in Listed : ~(hdr.group[t] < 1) BY <2>1
  <2>3. 1 .. turn = {} BY <1>2
  <2>4. Reached = {} BY <1>2, <2>2, <2>3 DEF Reached
  <2>5. Reached' = {} BY <1>1, <2>4 DEF Reached, Listed, vars
  <2>6. Rng(body') = {} /\ Len(body') = 0 BY <1>1, <1>2 DEF Rng
  <2>. QED BY <2>5, <2>6 DEF GroupInv
<1>10. DepthInv' BY <1>1, <1>2 DEF DepthInv
<1>. QED BY <1>4, <1>7, <1>8, <1>9, <1>10
(* A type that is not there yet is added at the end. *)
LEMMA BodyGrows ==
  ASSUME NEW S, NEW s \in Seq(S), NEW t \in S, t \notin Rng(s),
         \A j, k \in 1 .. Len(s) : s[j] = s[k] => j = k
  PROVE  /\ Append(s, t) \in Seq(S) /\ Rng(Append(s, t)) = Rng(s) \cup {t}
         /\ Len(Append(s, t)) = Len(s) + 1 /\ Len(s) \in Nat
         /\ Append(s, t)[Len(s) + 1] = t /\ \A k \in 1 .. Len(s) : Append(s, t)[k] = s[k]
         /\ \A j, k \in 1 .. Len(Append(s, t)) : Append(s, t)[j] = Append(s, t)[k] => j = k
<1>1. /\ Append(s, t) \in Seq(S) /\ Len(Append(s, t)) = Len(s) + 1 /\ Len(s) \in Nat
      /\ Append(s, t)[Len(s) + 1] = t /\ \A k \in 1 .. Len(s) : Append(s, t)[k] = s[k]
  BY AppendFacts
<1>2. Rng(Append(s, t)) = Rng(s) \cup {t} BY RngAppend
<1>3. \A k \in 1 .. Len(s) : s[k] # t BY DEF Rng
<1>4. \A k \in 1 .. Len(s) + 1 : k \in 1 .. Len(s) \/ k = Len(s) + 1 BY <1>1
<1>. QED BY <1>1, <1>2, <1>3, <1>4

LEMMA WriteNameInv == HeadersAssumption /\ HInv /\ WriteName => HInv'
<1>. SUFFICES ASSUME HeadersAssumption, HInv, WriteName PROVE HInv' OBVIOUS
<1>. USE DEF HInv
<1>1. /\ at = "groups" /\ turn < Len(ordered) /\ turn' = turn + 1
      /\ UNCHANGED <<vars, hdr, at, stack, cache, section>>
  BY DEF WriteName
<1>2. /\ hdr \in Headers /\ input = GraphOf(hdr) /\ hdr.topo /\ pc = "ok"
      /\ section \in 1 .. 4 /\ turn \in 0 .. Len(ordered) /\ stack = << >> /\ cache = {}
  BY <1>1 DEF WayInv
<1>3. IInv' BY <1>1, StutterIInv
<1>4. ordered \in Seq(Nodes) BY DEF IInv, TypeOK
<1>5. Len(ordered) \in Nat /\ turn \in Nat /\ turn + 1 \in 1 .. Len(ordered) BY <1>1, <1>2, <1>4
<1>6. WayInv'
  <2>1. turn' \in 0 .. Len(ordered') BY <1>1, <1>5 DEF vars
  <2>. QED BY <1>1, <1>2, <2>1 DEF WayInv, vars
<1>7. PICK t \in Listed : ordered[turn + 1] = Plain(t)
  <2>1. ordered[turn + 1] \in Rng(ordered) BY <1>5 DEF Rng
  <2>2. ordered[turn + 1] \in Added BY <2>1 DEF IInv, Accounted
  <2>3. Added = {Plain(u) : u \in Listed} BY <1>2, GraphFacts
  <2>. QED BY <2>2, <2>3
<1>8. body' = IF hdr.group[t] = section THEN Append(body, t) ELSE body
  <2>0. Plain(t)[1] = t BY DEF Plain
  <2>1. ordered[turn + 1][1] = t BY <1>7, <2>0, Zenon
  <2>. QED BY <2>1 DEF WriteName
<1>9. \A u, v : Plain(u) = Plain(v) => u = v BY DEF Plain
<1>10. Listed' = Listed /\ ordered' = ordered BY <1>1 DEF Listed, vars
<1>11. Reached' = IF hdr.group[t] = section THEN Reached \cup {t} ELSE Reached
  <2>1. \A j : j \in 1 .. turn + 1 <=> j \in 1 .. turn \/ j = turn + 1 BY <1>5
  <2>2. Reached' = {u \in Listed : \/ hdr.group[u] < section
                                   \/ /\ hdr.group[u] = section
                                      /\ \E j \in 1 .. turn + 1 : ordered[j] = Plain(u)}
    BY <1>1, <1>10 DEF Reached
  <2>3. \A u \in Listed : (\E j \in 1 .. turn + 1 : ordered[j] = Plain(u))
                          <=> (\E j \in 1 .. turn : ordered[j] = Plain(u)) \/ u = t
    BY <1>7, <1>9, <2>1
  <2>. HIDE DEF HInv
  <2>4. CASE hdr.group[t] = section
    <3>1. ASSUME NEW u PROVE u \in Reached' <=> u \in Reached \cup {t}
      BY <2>2, <2>3, <2>4 DEF Reached
    <3>. QED BY <2>4, <3>1
  <2>5. CASE hdr.group[t] # section
    <3>1. ASSUME NEW u PROVE u \in Reached' <=> u \in Reached BY <2>2, <2>3, <2>5 DEF Reached
    <3>. QED BY <2>5, <3>1
  <2>. QED BY <2>4, <2>5
<1>12. CASE hdr.group[t] # section
  <2>1. body' = body /\ Reached' = Reached BY <1>8, <1>11, <1>12
  <2>2. BodyInv' BY <1>1, <1>10, <2>1 DEF BodyInv
  <2>3. GroupInv' BY <1>1, <2>1 DEF GroupInv
  <2>4. DepthInv' BY <1>1, <1>2 DEF DepthInv
  <2>. QED BY <1>3, <1>6, <2>2, <2>3, <2>4
<1>13. CASE hdr.group[t] = section
  <2>1. Rng(body) = Reached BY <1>1 DEF GroupInv
  <2>2. t \notin Rng(body)
    <3>1. \A j \in 1 .. turn : ordered[j] # Plain(t)
      <4>1. \A j \in 1 .. turn : j \in 1 .. Len(ordered) /\ j # turn + 1 BY <1>5
      <4>2. \A j, k \in 1 .. Len(ordered) : ordered[j] = ordered[k] => j = k
        BY DEF IInv, Accounted
      <4>. QED BY <1>5, <1>7, <4>1, <4>2
    <3>2. ~(section < section) BY <1>2
    <3>. QED BY <1>13, <2>1, <3>1, <3>2 DEF Reached
  <2>3. body \in Seq(Listed) /\ \A j, k \in 1 .. Len(body) : body[j] = body[k] => j = k
    BY DEF BodyInv
  <2>4. body' = Append(body, t) BY <1>8, <1>13
  <2>5. /\ body' \in Seq(Listed) /\ Rng(body') = Rng(body) \cup {t}
        /\ Len(body') = Len(body) + 1 /\ Len(body) \in Nat
        /\ body'[Len(body) + 1] = t /\ \A k \in 1 .. Len(body) : body'[k] = body[k]
        /\ \A j, k \in 1 .. Len(body') : body'[j] = body'[k] => j = k
    <3>. HIDE DEF HInv
    <3>. QED BY <2>2, <2>3, <2>4, BodyGrows
  <2>6. BodyInv' BY <1>1, <1>10, <2>5 DEF BodyInv
  <2>7. GroupInv'
    <3>1. Rng(body') = Reached' BY <1>11, <1>13, <2>1, <2>5
    <3>2. ASSUME NEW k \in 1 .. Len(body'), hdr.parent[body'[k]] # NoType,
                 hdr.group[hdr.parent[body'[k]]] = hdr.group[body'[k]]
          PROVE  \E j \in 1 .. k - 1 : body'[j] = hdr.parent[body'[k]]
      <4>1. CASE k \in 1 .. Len(body)
        <5>1. PICK j \in 1 .. k - 1 : body[j] = hdr.parent[body[k]]
          BY <1>2, <2>5, <3>2, <4>1 DEF GroupInv
        <5>2. j \in 1 .. Len(body) BY <2>5, <4>1
        <5>. QED BY <2>5, <4>1, <5>1, <5>2
      <4>2. CASE k = Len(body) + 1
        <5>. DEFINE p == hdr.parent[t]
        <5>1. body'[k] = t BY <2>5, <4>2
        <5>2. p \in Listed /\ p # NoType /\ hdr.group[p] = section
          BY <1>2, <1>13, <3>2, <5>1, HeaderFacts
        <5>3. p # t
          <6>1. \E u \in {t} : \A v \in {t} : hdr.parent[u] # v
            <7>1. {t} \in SUBSET Listed /\ {t} # {} OBVIOUS
            <7>. QED BY <1>2, <7>1, HeaderFacts
          <6>. QED BY <6>1
        <5>4. Plain(p) \in Edges(ordered[turn + 1]) BY <1>2, <1>7, <5>2, <5>3, GraphFacts
        <5>5. Plain(p) \in Added BY <1>2, <5>2, GraphFacts
        <5>6. PICK j \in 1 .. (turn + 1) - 1 : ordered[j] = Plain(p)
          BY <1>5, <5>4, <5>5 DEF IInv, OrderRespected
        <5>7. j \in 1 .. turn BY <1>5
        <5>8. p \in Reached BY <5>2, <5>6, <5>7 DEF Reached
        <5>9. PICK m \in 1 .. Len(body) : body[m] = p BY <2>1, <5>8 DEF Rng
        <5>10. m \in 1 .. k - 1 /\ body'[m] = p BY <2>5, <4>2, <5>9
        <5>. QED BY <5>1, <5>10
      <4>3. k \in 1 .. Len(body) \/ k = Len(body) + 1 BY <2>5
      <4>. QED BY <4>1, <4>2, <4>3
    <3>. QED BY <1>1, <3>1, <3>2 DEF GroupInv
  <2>8. DepthInv' BY <1>1, <1>2 DEF DepthInv
  <2>. QED BY <1>3, <1>6, <2>6, <2>7, <2>8
<1>. QED BY <1>12, <1>13

LEMMA NextGroupInv == HeadersAssumption /\ HInv /\ NextGroup => HInv'
<1>. SUFFICES ASSUME HeadersAssumption, HInv, NextGroup PROVE HInv' OBVIOUS
<1>. USE DEF HInv
<1>1. /\ at = "groups" /\ turn = Len(ordered) /\ turn' = 0 /\ section' = section + 1
      /\ at' = IF section = 4 THEN "done" ELSE at
      /\ UNCHANGED <<vars, hdr, body, stack, cache>>
  BY DEF NextGroup
<1>2. /\ hdr \in Headers /\ input = GraphOf(hdr) /\ hdr.topo /\ pc = "ok"
      /\ section \in 1 .. 4 /\ stack = << >> /\ cache = {}
  BY <1>1 DEF WayInv
<1>3. IInv' BY <1>1, StutterIInv
<1>4. ordered \in Seq(Nodes) /\ Len(ordered) \in Nat BY DEF IInv, TypeOK
<1>5. Len(hdr.types) \in Nat /\ \A t \in Listed : hdr.group[t] \in 1 .. 4 BY <1>2, HeaderFacts
<1>6. WayInv'
  <2>1. CASE section = 4 BY <1>1, <1>2, <1>4, <1>5, <2>1 DEF WayInv, vars
  <2>2. CASE section # 4
    <3>1. section + 1 \in 1 .. 4 /\ 0 \in 0 .. Len(ordered) BY <1>2, <1>4, <2>2
    <3>. QED BY <1>1, <1>2, <2>2, <3>1 DEF WayInv, vars
  <2>. QED BY <2>1, <2>2
<1>7. Rng(ordered) = {Plain(t) : t \in Listed}
  <2>1. Added = {Plain(t) : t \in Listed} BY <1>2, GraphFacts
  <2>2. Rng(queue) = {} BY <1>2 DEF IInv, OkInv, Rng
  <2>. QED BY <2>1, <2>2 DEF IInv, Accounted
<1>8. \A t \in Listed : \E j \in 1 .. turn : ordered[j] = Plain(t) BY <1>1, <1>7 DEF Rng
<1>9. Reached = {t \in Listed : hdr.group[t] <= section}
  <2>1. \A t \in Listed : hdr.group[t] < section \/ hdr.group[t] = section <=> hdr.group[t] <= section
    BY <1>2, <1>5
  <2>. HIDE DEF HInv
  <2>. QED BY <1>8, <2>1 DEF Reached
<1>10. Listed' = Listed /\ ordered' = ordered BY <1>1 DEF Listed, vars
<1>11. Rng(body) = {t \in Listed : hdr.group[t] <= section} BY <1>1, <1>9 DEF GroupInv
<1>12. BodyInv'
  <2>1. section = 4 => Rng(body) = Listed BY <1>5, <1>11
  <2>. QED BY <1>1, <1>10, <2>1 DEF BodyInv
<1>13. GroupInv'
  <2>1. Reached' = {t \in Listed : hdr.group[t] <= section}
    <3>1. Reached' = {t \in Listed : \/ hdr.group[t] < section + 1
                                     \/ /\ hdr.group[t] = section + 1
                                        /\ \E j \in 1 .. 0 : ordered[j] = Plain(t)}
      BY <1>1, <1>10 DEF Reached
    <3>2. \A t \in Listed : hdr.group[t] < section + 1 <=> hdr.group[t] <= section BY <1>2, <1>5
    <3>3. 1 .. 0 = {} OBVIOUS
    <3>. HIDE DEF HInv
    <3>. QED BY <3>1, <3>2, <3>3
  <2>. QED BY <1>1, <1>11, <2>1 DEF GroupInv
<1>14. DepthInv' BY <1>1, <1>2 DEF DepthInv
<1>. QED BY <1>3, <1>6, <1>12, <1>13, <1>14
-----------------------------------------------------------------------------
(* Depth first *)

(* A call on top of the ones that run. *)
LEMMA PushCall ==
  ASSUME HeadersAssumption, hdr \in Headers, NEW st, Running(st), NEW t \in Listed,
         t \notin Calling(st), st # << >> => t \in Holds(st[1].type)
  PROVE  /\ Running(<<Frame(t)>> \o st)
         /\ Calling(<<Frame(t)>> \o st) = Calling(st) \cup {t}
         /\ \A ca : Visited(st, ca) => Visited(<<Frame(t)>> \o st, ca)
<1>1. st \in Seq(Frames) BY DEF Running
<1>2. Frame(t) \in Frames /\ Frame(t).type = t /\ Rng(Frame(t).visits) = Holds(t) BY HoldsFacts
<1>. DEFINE up == <<Frame(t)>> \o st
<1>3. /\ up \in Seq(Frames) /\ Len(up) = Len(st) + 1 /\ Len(st) \in Nat /\ up[1] = Frame(t)
      /\ \A k \in 2 .. Len(st) + 1 : up[k] = st[k - 1]
  BY <1>1, <1>2, ConsFacts
<1>. HIDE DEF up
<1>4. \A k \in 1 .. Len(up) : k = 1 \/ (k \in 2 .. Len(st) + 1 /\ k - 1 \in 1 .. Len(st)) BY <1>3
<1>5. \A k \in 1 .. Len(st) : k + 1 \in 2 .. Len(st) + 1 /\ k + 1 \in 1 .. Len(up) /\ (k + 1) - 1 = k
  BY <1>3
<1>6. Calling(up) = Calling(st) \cup {t}
  <2>1. ASSUME NEW x \in Calling(up) PROVE x \in Calling(st) \cup {t}
    <3>1. PICK k \in 1 .. Len(up) : x = up[k].type BY DEF Calling
    <3>. QED BY <1>2, <1>3, <1>4, <3>1 DEF Calling
  <2>2. ASSUME NEW x \in Calling(st) PROVE x \in Calling(up)
    <3>1. PICK k \in 1 .. Len(st) : x = st[k].type BY DEF Calling
    <3>2. x = up[k + 1].type BY <1>3, <1>5, <3>1
    <3>. QED BY <1>5, <3>2 DEF Calling
  <2>3. t \in Calling(up)
    <3>1. 1 \in 1 .. Len(up) BY <1>3
    <3>. QED BY <1>2, <1>3, <3>1 DEF Calling
  <2>. QED BY <2>1, <2>2, <2>3
<1>7. ASSUME NEW j \in 1 .. Len(up), NEW k \in 1 .. Len(up), up[j].type = up[k].type PROVE j = k
  <2>1. \A m \in 1 .. Len(st) : st[m].type # t BY DEF Calling
  <2>2. \A m, n \in 1 .. Len(st) : st[m].type = st[n].type => m = n BY DEF Running
  <2>3. CASE j = 1 /\ k = 1 BY <2>3
  <2>4. CASE j = 1 /\ k # 1 BY <1>2, <1>3, <1>4, <1>7, <2>1, <2>4
  <2>5. CASE j # 1 /\ k = 1 BY <1>2, <1>3, <1>4, <1>7, <2>1, <2>5
  <2>6. CASE j # 1 /\ k # 1
    <3>1. /\ j - 1 \in 1 .. Len(st) /\ k - 1 \in 1 .. Len(st) /\ up[j] = st[j - 1] /\ up[k] = st[k - 1]
      BY <1>3, <1>4, <2>6
    <3>2. j - 1 = k - 1 BY <1>7, <2>2, <3>1
    <3>. QED BY <1>3, <3>2
  <2>. QED BY <2>3, <2>4, <2>5, <2>6
<1>8. \A k \in 1 .. Len(up) : Rng(up[k].visits) \subseteq Holds(up[k].type)
  BY <1>2, <1>3, <1>4 DEF Running
<1>9. ASSUME NEW k \in 2 .. Len(up) PROVE up[k - 1].type \in Holds(up[k].type)
  <2>1. up[k] = st[k - 1] /\ k - 1 \in 1 .. Len(st) BY <1>3
  <2>2. CASE k = 2
    <3>1. st # << >> /\ up[k] = st[1] BY <1>1, <1>3, <2>1, <2>2
    <3>. QED BY <1>2, <1>3, <2>2, <3>1
  <2>3. CASE k # 2
    <3>1. k - 1 \in 2 .. Len(st) + 1 /\ k - 1 \in 2 .. Len(st) BY <1>3, <2>3
    <3>2. up[k - 1] = st[(k - 1) - 1] BY <1>3, <3>1
    <3>. QED BY <2>1, <3>1, <3>2 DEF Running
  <2>. QED BY <2>2, <2>3
<1>10. Running(up) BY <1>3, <1>7, <1>8, <1>9 DEF Running
<1>11. ASSUME NEW ca, Visited(st, ca) PROVE Visited(up, ca)
  BY <1>2, <1>3, <1>4, <1>11 DEF Visited
<1>. QED BY <1>6, <1>10, <1>11 DEF up

(* The header stays as it is. *)
LEMMA SameHeader ==
  ASSUME hdr' = hdr
  PROVE  /\ Listed' = Listed /\ Frames' = Frames /\ (Orderable' <=> Orderable)
         /\ \A t : Holds(t)' = Holds(t)
         /\ \A st : (Running(st)' <=> Running(st)) /\ Calling(st)' = Calling(st)
         /\ \A st, ca : Visited(st, ca)' <=> Visited(st, ca)
BY DEF Listed, Frames, Orderable, Acyclic, Holds, ParentOf, Running, Calling, Visited

(* The invariant of the depth-first way after a step, written out. *)
LEMMA DepthAfter ==
  ASSUME hdr' = hdr, Running(stack'), Visited(stack', cache'),
         cache' = Rng(body') \cup Calling(stack'), Rng(body') \cap Calling(stack') = {}
  PROVE  /\ Running(stack)' /\ Visited(stack, cache)'
         /\ (cache = Rng(body) \cup Calling(stack))' /\ (Rng(body) \cap Calling(stack) = {})'
<1>1. Running(stack)' BY DEF Running, Frames, Listed, Holds, ParentOf
<1>2. Visited(stack, cache)' BY DEF Visited, Holds, ParentOf
<1>3. Calling(stack)' = Calling(stack') BY DEF Calling
<1>. QED BY <1>1, <1>2, <1>3

LEMMA SameOrder ==
  ASSUME hdr' = hdr, body' = body, SoFar PROVE SoFar'
BY SameHeader DEF SoFar

LEMMA OrderAfter ==
  ASSUME hdr' = hdr,
         Orderable => \A k \in 1 .. Len(body') : \A u \in Holds(body'[k]) \ {body'[k]} :
                        \E j \in 1 .. k - 1 : body'[j] = u
  PROVE  SoFar'
<1>1. Orderable' => Orderable BY SameHeader
<1>. QED BY <1>1 DEF SoFar, Holds, ParentOf

(* A call of recursion_struct_info made by the frames st. *)
LEMMA CallKeeps ==
  ASSUME HeadersAssumption, hdr \in Headers, hdr' = hdr, body' = body,
         NEW st, Running(st), NEW t \in Listed, st # << >> => t \in Holds(st[1].type),
         Visited(st, cache \cup {t}), cache = Rng(body) \cup Calling(st),
         Rng(body) \cap Calling(st) = {}, Call(t, st)
  PROVE  /\ Running(stack') /\ Visited(stack', cache') /\ cache' = cache \cup {t}
         /\ cache' = Rng(body') \cup Calling(stack') /\ Rng(body') \cap Calling(stack') = {}
<1>1. CASE t \in cache
  <2>1. stack' = st /\ cache' = cache /\ cache \cup {t} = cache BY <1>1 DEF Call
  <2>. QED BY <2>1
<1>2. CASE t \notin cache
  <2>1. stack' = <<Frame(t)>> \o st /\ cache' = cache \cup {t} BY <1>2 DEF Call
  <2>2. /\ Running(stack') /\ Calling(stack') = Calling(st) \cup {t}
        /\ Visited(stack', cache')
    BY <1>2, <2>1, PushCall
  <2>. QED BY <1>2, <2>1, <2>2
<1>. QED BY <1>1, <1>2

LEMMA CallNextInv == HeadersAssumption /\ HInv /\ CallNext => HInv'
<1>. SUFFICES ASSUME HeadersAssumption, HInv, CallNext PROVE HInv' OBVIOUS
<1>. USE DEF HInv
<1>1. /\ at = "legacy" /\ stack = << >> /\ turn < Len(hdr.types) /\ turn' = turn + 1
      /\ Call(hdr.types[turn + 1], << >>)
      /\ UNCHANGED <<vars, hdr, at, body, section>>
  BY DEF CallNext
<1>2. /\ hdr \in Headers /\ ~hdr.topo /\ section = 1 /\ turn \in 0 .. Len(hdr.types)
  BY <1>1 DEF WayInv
<1>3. IInv' BY <1>1, StutterIInv
<1>4. Len(hdr.types) \in Nat /\ hdr.types \in Seq(Types) BY <1>2, HeaderFacts
<1>5. turn \in Nat /\ turn + 1 \in 1 .. Len(hdr.types) BY <1>1, <1>2, <1>4
<1>6. hdr.types[turn + 1] \in Listed BY <1>5 DEF Listed, Rng
<1>7. WayInv' BY <1>1, <1>2, <1>5 DEF WayInv, vars
<1>8. BodyInv' BY <1>1, SameHeader DEF BodyInv
<1>9. GroupInv' BY <1>1, <1>2 DEF GroupInv
<1>10. /\ Running(<< >>) /\ Visited(<< >>, cache \cup {hdr.types[turn + 1]})
       /\ cache = Rng(body) \cup Calling(<< >>) /\ Rng(body) \cap Calling(<< >>) = {}
  BY <1>1, <1>2 DEF DepthInv, Visited
<1>11. /\ Running(stack') /\ Visited(stack', cache') /\ cache' = cache \cup {hdr.types[turn + 1]}
       /\ cache' = Rng(body') \cup Calling(stack') /\ Rng(body') \cap Calling(stack') = {}
  <2>. HIDE DEF HInv
  <2>. QED BY <1>1, <1>2, <1>6, <1>10, CallKeeps
<1>12. DepthInv'
  <2>1. \A k \in 1 .. turn' : hdr.types[k] \in cache'
    <3>1. \A k \in 1 .. turn' : k \in 1 .. turn \/ k = turn + 1 BY <1>1, <1>5
    <3>2. \A k \in 1 .. turn : hdr.types[k] \in cache BY <1>1, <1>2 DEF DepthInv
    <3>. QED BY <1>11, <3>1, <3>2
  <2>2. SoFar BY <1>2 DEF DepthInv
  <2>3. /\ Running(stack)' /\ Visited(stack, cache)'
        /\ (cache = Rng(body) \cup Calling(stack))' /\ (Rng(body) \cap Calling(stack) = {})'
    BY <1>1, <1>11, SameHeader DEF Running, Visited, Calling
  <2>4. SoFar' BY <1>1, <2>2, SameOrder
  <2>. HIDE DEF HInv
  <2>. QED BY <1>1, <1>2, <2>1, <2>3, <2>4 DEF DepthInv
<1>. QED BY <1>3, <1>7, <1>8, <1>9, <1>12

(* A call that has visited one more type. *)
LEMMA PopVisit ==
  ASSUME NEW S, NEW f \in [type : S, visits : Seq(S)], NEW w \in Seq(S)
  PROVE  /\ [f EXCEPT !.visits = w] \in [type : S, visits : Seq(S)]
         /\ [f EXCEPT !.visits = w].type = f.type
         /\ [f EXCEPT !.visits = w].visits = w
OBVIOUS

LEMMA VisitInv == HeadersAssumption /\ HInv /\ Visit => HInv'
<1>. SUFFICES ASSUME HeadersAssumption, HInv, Visit PROVE HInv' OBVIOUS
<1>. USE DEF HInv
<1>. DEFINE top  == Head(stack)
            t    == Head(top.visits)
            low  == [top EXCEPT !.visits = Tail(@)]
            st   == <<low>> \o Tail(stack)
<1>1. /\ at = "legacy" /\ stack # << >> /\ top.visits # << >> /\ Call(t, st)
      /\ UNCHANGED <<vars, hdr, at, body, turn, section>>
  BY DEF Visit
<1>2. hdr \in Headers /\ ~hdr.topo BY <1>1 DEF WayInv
<1>3. IInv' BY <1>1, StutterIInv
<1>4. WayInv' BY <1>1, <1>2 DEF WayInv, vars
<1>5. BodyInv' BY <1>1, SameHeader DEF BodyInv
<1>6. GroupInv' BY <1>1, <1>2 DEF GroupInv
<1>7. /\ Running(stack) /\ Visited(stack, cache)
      /\ cache = Rng(body) \cup Calling(stack) /\ Rng(body) \cap Calling(stack) = {}
      /\ \A k \in 1 .. turn : hdr.types[k] \in cache
      /\ SoFar
  BY <1>1, <1>2 DEF DepthInv
<1>. HIDE DEF HInv
<1>8. stack \in Seq(Frames) BY <1>7 DEF Running
<1>9. /\ top \in Frames /\ top = stack[1] /\ Len(stack) \in Nat /\ Len(stack) > 0
      /\ Tail(stack) \in Seq(Frames) /\ Len(Tail(stack)) = Len(stack) - 1
      /\ \A k \in 1 .. Len(stack) - 1 : Tail(stack)[k] = stack[k + 1]
  BY <1>1, <1>8, TailFacts
<1>10. top.type \in Listed /\ top.visits \in Seq(Listed) BY <1>9 DEF Frames
<1>11. t \in Listed /\ Tail(top.visits) \in Seq(Listed) /\ Rng(top.visits) = {t} \cup Rng(Tail(top.visits))
  <2>. HIDE DEF top
  <2>. QED BY <1>1, <1>10, TailFacts, RngHead
<1>12. low \in Frames /\ low.type = top.type /\ low.visits = Tail(top.visits)
  <2>. HIDE DEF top
  <2>. QED BY <1>9, <1>11, PopVisit DEF Frames
<1>. HIDE DEF top, low, t
<1>13. /\ st \in Seq(Frames) /\ Len(st) = Len(stack) /\ st[1] = low
       /\ \A k \in 2 .. Len(stack) : st[k] = stack[k]
  <2>1. /\ st \in Seq(Frames) /\ Len(st) = Len(Tail(stack)) + 1 /\ st[1] = low
        /\ \A k \in 2 .. Len(Tail(stack)) + 1 : st[k] = Tail(stack)[k - 1]
    BY <1>9, <1>12, ConsFacts
  <2>. HIDE DEF st
  <2>2. \A k \in 2 .. Len(stack) : k - 1 \in 1 .. Len(stack) - 1 /\ (k - 1) + 1 = k BY <1>9
  <2>. QED BY <1>9, <2>1, <2>2
<1>. HIDE DEF st
<1>14. /\ \A k \in 1 .. Len(st) : st[k].type = stack[k].type
       /\ \A k \in 1 .. Len(st) : Rng(st[k].visits) \subseteq Rng(stack[k].visits)
       /\ \A k \in 1 .. Len(st) : Rng(stack[k].visits) \subseteq Rng(st[k].visits) \cup {t}
  <2>1. \A k \in 1 .. Len(st) : k = 1 \/ k \in 2 .. Len(stack) BY <1>9, <1>13
  <2>. QED BY <1>9, <1>11, <1>12, <1>13, <2>1
<1>15. Running(st)
  <2>1. \A j, k \in 1 .. Len(st) : st[j].type = st[k].type => j = k BY <1>7, <1>13, <1>14 DEF Running
  <2>2. \A k \in 1 .. Len(st) : Rng(st[k].visits) \subseteq Holds(st[k].type)
    BY <1>7, <1>13, <1>14 DEF Running
  <2>3. \A k \in 2 .. Len(st) : k \in 1 .. Len(st) /\ k - 1 \in 1 .. Len(st) BY <1>9, <1>13
  <2>4. \A k \in 2 .. Len(st) : st[k - 1].type \in Holds(st[k].type)
    BY <1>7, <1>13, <1>14, <2>3 DEF Running
  <2>. QED BY <1>13, <2>1, <2>2, <2>4 DEF Running
<1>16. Calling(st) = Calling(stack) BY <1>13, <1>14 DEF Calling
<1>17. Visited(st, cache \cup {t}) BY <1>7, <1>13, <1>14 DEF Visited
<1>18. t \in Holds(st[1].type)
  <2>1. 1 \in 1 .. Len(stack) BY <1>9
  <2>. QED BY <1>7, <1>9, <1>11, <1>12, <1>13, <2>1 DEF Running
<1>19. /\ Running(stack') /\ Visited(stack', cache') /\ cache' = cache \cup {t}
       /\ cache' = Rng(body') \cup Calling(stack') /\ Rng(body') \cap Calling(stack') = {}
  BY <1>1, <1>2, <1>7, <1>11, <1>15, <1>16, <1>17, <1>18, CallKeeps
<1>20. DepthInv'
  <2>1. \A k \in 1 .. turn' : hdr.types[k] \in cache' BY <1>1, <1>7, <1>19
  <2>2. /\ Running(stack)' /\ Visited(stack, cache)'
        /\ (cache = Rng(body) \cup Calling(stack))' /\ (Rng(body) \cap Calling(stack) = {})'
    BY <1>1, <1>19, SameHeader DEF Running, Visited, Calling
  <2>3. SoFar' BY <1>1, <1>7, SameOrder
  <2>. QED BY <1>1, <1>2, <2>1, <2>2, <2>3 DEF DepthInv
<1>. QED BY <1>3, <1>4, <1>5, <1>6, <1>20 DEF HInv

(* What a call that has visited everything holds is written, if the types  *)
(* can be ordered: anything of it that still ran would lead back to it.    *)
LEMMA NoneBelow ==
  ASSUME Orderable, Running(stack), stack # << >>,
         NEW u \in Calling(stack), u \in Holds(stack[1].type), u # stack[1].type
  PROVE  FALSE
<1>1. stack \in Seq(Frames) BY DEF Running
<1>2. Len(stack) \in Nat /\ Len(stack) > 0 /\ \A k \in 1 .. Len(stack) : stack[k].type \in Listed
  <2>1. Len(stack) \in Nat /\ Len(stack) > 0 /\ \A k \in 1 .. Len(stack) : stack[k] \in Frames
    BY <1>1
  <2>. QED BY <2>1 DEF Frames
<1>3. PICK m \in 1 .. Len(stack) : u = stack[m].type BY DEF Calling
<1>. DEFINE x == {stack[k].type : k \in 1 .. m}
<1>4. x \in SUBSET Listed
  <2>1. \A k \in 1 .. m : k \in 1 .. Len(stack) BY <1>2
  <2>. QED BY <1>2, <2>1
<1>5. u \in x
  <2>1. m \in 1 .. m BY <1>2
  <2>. QED BY <1>3, <2>1
<1>6. \A y \in SUBSET Listed : y # {} => \E a \in y : \A b \in y : ~(b # a /\ b \in Holds(a))
  BY DEF Orderable, Acyclic, Listed
<1>7. PICK a \in x : \A b \in x : ~(b # a /\ b \in Holds(a)) BY <1>4, <1>5, <1>6
<1>8. PICK k \in 1 .. m : a = stack[k].type OBVIOUS
<1>9. CASE k = 1 BY <1>5, <1>7, <1>8, <1>9
<1>10. CASE k # 1
  <2>1. k \in 2 .. Len(stack) /\ k - 1 \in 1 .. m /\ k - 1 # k /\ k - 1 \in 1 .. Len(stack)
    BY <1>2, <1>10
  <2>2. stack[k - 1].type \in Holds(a) /\ stack[k - 1].type # a
    BY <1>8, <2>1 DEF Running
  <2>3. stack[k - 1].type \in x BY <2>1
  <2>. QED BY <1>7, <2>2, <2>3
<1>. QED BY <1>9, <1>10

LEMMA WriteInv == HeadersAssumption /\ HInv /\ Write => HInv'
<1>. SUFFICES ASSUME HeadersAssumption, HInv, Write PROVE HInv' OBVIOUS
<1>. USE DEF HInv
<1>. DEFINE t == Head(stack).type
<1>1. /\ at = "legacy" /\ stack # << >> /\ Head(stack).visits = << >>
      /\ body' = Append(body, t) /\ stack' = Tail(stack)
      /\ UNCHANGED <<vars, hdr, at, cache, turn, section>>
  BY DEF Write
<1>2. hdr \in Headers /\ ~hdr.topo BY <1>1 DEF WayInv
<1>3. IInv' BY <1>1, StutterIInv
<1>4. WayInv' BY <1>1, <1>2 DEF WayInv, vars
<1>5. /\ Running(stack) /\ Visited(stack, cache)
      /\ cache = Rng(body) \cup Calling(stack) /\ Rng(body) \cap Calling(stack) = {}
      /\ \A k \in 1 .. turn : hdr.types[k] \in cache
      /\ SoFar
  BY <1>1, <1>2 DEF DepthInv
<1>6. body \in Seq(Listed) /\ \A j, k \in 1 .. Len(body) : body[j] = body[k] => j = k
  BY DEF BodyInv
<1>. HIDE DEF HInv
<1>7. stack \in Seq(Frames) BY <1>5 DEF Running
<1>8. /\ Head(stack) = stack[1] /\ Head(stack) \in Frames /\ Len(stack) \in Nat /\ Len(stack) > 0
      /\ Tail(stack) \in Seq(Frames) /\ Len(Tail(stack)) = Len(stack) - 1
      /\ \A k \in 1 .. Len(stack) - 1 : Tail(stack)[k] = stack[k + 1]
  BY <1>1, <1>7, TailFacts
<1>9. t = stack[1].type /\ t \in Listed /\ 1 \in 1 .. Len(stack) BY <1>8 DEF Frames
<1>10. t \in Calling(stack) /\ t \notin Rng(body) BY <1>5, <1>9 DEF Calling
<1>. HIDE DEF t
<1>11. /\ body' \in Seq(Listed) /\ Rng(body') = Rng(body) \cup {t}
       /\ Len(body') = Len(body) + 1 /\ Len(body) \in Nat
       /\ body'[Len(body) + 1] = t /\ \A k \in 1 .. Len(body) : body'[k] = body[k]
       /\ \A j, k \in 1 .. Len(body') : body'[j] = body'[k] => j = k
  <2>1. body' = Append(body, t) BY <1>1
  <2>. HIDE DEF HInv
  <2>. QED BY <1>6, <1>9, <1>10, <2>1, BodyGrows
<1>12. BodyInv' BY <1>1, <1>11, SameHeader DEF BodyInv
<1>13. GroupInv' BY <1>1, <1>2 DEF GroupInv
<1>14. \A k \in 1 .. Len(stack') : stack'[k] = stack[k + 1] /\ k + 1 \in 2 .. Len(stack)
                                   /\ k + 1 \in 1 .. Len(stack)
  BY <1>1, <1>8
<1>15. Running(stack')
  <2>1. ASSUME NEW j \in 1 .. Len(stack'), NEW k \in 1 .. Len(stack'), stack'[j].type = stack'[k].type
        PROVE  j = k
    <3>1. stack[j + 1].type = stack[k + 1].type BY <1>14, <2>1
    <3>2. \A m, n \in 1 .. Len(stack) : stack[m].type = stack[n].type => m = n
      BY <1>5 DEF Running
    <3>3. j + 1 = k + 1 BY <1>14, <3>1, <3>2
    <3>. QED BY <1>1, <1>8, <3>3
  <2>2. \A k \in 1 .. Len(stack') : Rng(stack'[k].visits) \subseteq Holds(stack'[k].type)
    BY <1>5, <1>14 DEF Running
  <2>3. ASSUME NEW k \in 2 .. Len(stack') PROVE stack'[k - 1].type \in Holds(stack'[k].type)
    <3>1. k \in 1 .. Len(stack') /\ k - 1 \in 1 .. Len(stack') /\ (k - 1) + 1 = (k + 1) - 1
      BY <1>1, <1>8
    <3>2. stack[(k + 1) - 1].type \in Holds(stack[k + 1].type) BY <1>5, <1>14, <3>1 DEF Running
    <3>. QED BY <1>14, <3>1, <3>2
  <2>4. stack' \in Seq(Frames) BY <1>1, <1>8
  <2>. QED BY <2>1, <2>2, <2>3, <2>4 DEF Running
<1>16. Visited(stack', cache) BY <1>5, <1>14 DEF Visited
<1>17. Calling(stack') = Calling(stack) \ {t}
  <2>1. ASSUME NEW x \in Calling(stack') PROVE x \in Calling(stack) /\ x # t
    <3>1. PICK k \in 1 .. Len(stack') : x = stack'[k].type BY DEF Calling
    <3>2. x = stack[k + 1].type /\ k + 1 \in 1 .. Len(stack) /\ k + 1 # 1 BY <1>8, <1>14, <3>1
    <3>3. x # t BY <1>5, <1>9, <3>2 DEF Running
    <3>. QED BY <3>2, <3>3 DEF Calling
  <2>2. ASSUME NEW x \in Calling(stack), x # t PROVE x \in Calling(stack')
    <3>1. PICK k \in 1 .. Len(stack) : x = stack[k].type BY DEF Calling
    <3>2. k - 1 \in 1 .. Len(stack') /\ (k - 1) + 1 = k BY <1>1, <1>8, <1>9, <2>2, <3>1
    <3>3. x = stack'[k - 1].type BY <1>14, <3>1, <3>2
    <3>. QED BY <3>2, <3>3 DEF Calling
  <2>. QED BY <2>1, <2>2
<1>18. ASSUME Orderable, NEW u \in Holds(t) \ {t} PROVE u \in Rng(body)
  <2>1. Rng(stack[1].visits) = {} BY <1>1, <1>8 DEF Rng
  <2>2. Holds(t) \subseteq cache BY <1>5, <1>9, <2>1 DEF Visited
  <2>3. u \notin Calling(stack) BY <1>1, <1>5, <1>9, <1>18, NoneBelow
  <2>. QED BY <1>5, <2>2, <2>3
<1>19. ASSUME Orderable, NEW k \in 1 .. Len(body'), NEW u \in Holds(body'[k]) \ {body'[k]}
       PROVE  \E j \in 1 .. k - 1 : body'[j] = u
  <2>1. CASE k \in 1 .. Len(body)
    <3>1. PICK j \in 1 .. k - 1 : body[j] = u BY <1>5, <1>11, <1>19, <2>1 DEF SoFar
    <3>2. j \in 1 .. Len(body) BY <1>11, <2>1
    <3>. QED BY <1>11, <3>1, <3>2
  <2>2. CASE k = Len(body) + 1
    <3>1. u \in Rng(body) BY <1>11, <1>18, <1>19, <2>2
    <3>2. PICK j \in 1 .. Len(body) : body[j] = u BY <3>1 DEF Rng
    <3>3. j \in 1 .. k - 1 /\ body'[j] = u BY <1>11, <2>2, <3>2
    <3>. QED BY <3>3
  <2>. QED BY <1>11, <2>1, <2>2
<1>20. DepthInv'
  <2>1. /\ Running(stack)' /\ Visited(stack, cache)'
        /\ (cache = Rng(body) \cup Calling(stack))' /\ (Rng(body) \cap Calling(stack) = {})'
    <3>1. cache' = Rng(body') \cup Calling(stack') /\ Rng(body') \cap Calling(stack') = {}
      BY <1>1, <1>5, <1>10, <1>11, <1>17
    <3>. QED BY <1>1, <1>15, <1>16, <3>1, DepthAfter
  <2>2. SoFar' BY <1>1, <1>19, OrderAfter
  <2>. QED BY <1>1, <1>2, <1>5, <2>1, <2>2 DEF DepthInv
<1>. QED BY <1>3, <1>4, <1>12, <1>13, <1>20 DEF HInv

LEMMA EndOfListInv == HeadersAssumption /\ HInv /\ EndOfList => HInv'
<1>. SUFFICES ASSUME HeadersAssumption, HInv, EndOfList PROVE HInv' OBVIOUS
<1>. USE DEF HInv
<1>1. /\ at = "legacy" /\ stack = << >> /\ turn = Len(hdr.types) /\ at' = "done"
      /\ UNCHANGED <<vars, hdr, body, stack, cache, turn, section>>
  BY DEF EndOfList
<1>2. hdr \in Headers /\ ~hdr.topo /\ section = 1 /\ turn \in 0 .. Len(hdr.types)
  BY <1>1 DEF WayInv
<1>3. IInv' BY <1>1, StutterIInv
<1>4. WayInv' BY <1>1, <1>2 DEF WayInv, vars
<1>5. Rng(body) = Listed
  <2>1. cache = Rng(body)
    <3>1. Calling(<< >>) = {} BY DEF Calling
    <3>. QED BY <1>1, <1>2, <3>1 DEF DepthInv
  <2>2. Listed \subseteq cache BY <1>1, <1>2 DEF DepthInv, Listed, Rng
  <2>3. Rng(body) \subseteq Listed BY RngType DEF BodyInv
  <2>. QED BY <2>1, <2>2, <2>3
<1>6. BodyInv' BY <1>1, <1>5, SameHeader DEF BodyInv
<1>7. GroupInv' BY <1>1, <1>2 DEF GroupInv
<1>8. DepthInv'
  <2>1. /\ Running(stack)' /\ Visited(stack, cache)'
        /\ (cache = Rng(body) \cup Calling(stack))' /\ (Rng(body) \cap Calling(stack) = {})'
    BY <1>1, <1>2, SameHeader DEF DepthInv, Running, Visited, Calling
  <2>2. SoFar' BY <1>1, <1>2, SameOrder DEF DepthInv
  <2>. HIDE DEF HInv
  <2>. QED BY <1>1, <1>2, <2>1, <2>2 DEF DepthInv
<1>. QED BY <1>3, <1>4, <1>6, <1>7, <1>8

LEMMA HeaderStutterInv == HInv /\ UNCHANGED <<vars, hvars>> => HInv'
<1>. SUFFICES ASSUME HInv, UNCHANGED <<vars, hvars>> PROVE HInv' OBVIOUS
<1>1. IInv' BY StutterIInv DEF HInv
<1>2. WayInv' BY DEF HInv, WayInv, hvars, vars
<1>3. BodyInv' BY DEF HInv, BodyInv, hvars, Listed
<1>4. GroupInv' BY DEF HInv, GroupInv, Reached, Listed, hvars, vars
<1>5. hdr' = hdr /\ at' = at /\ body' = body /\ stack' = stack /\ cache' = cache /\ turn' = turn
  BY DEF hvars
<1>6. DepthInv'
  <2>. SUFFICES ASSUME ~hdr'.topo PROVE DepthInv' BY DEF DepthInv
  <2>0. ~hdr.topo BY <1>5
  <2>1. /\ Running(stack) /\ Visited(stack, cache)
        /\ cache = Rng(body) \cup Calling(stack) /\ Rng(body) \cap Calling(stack) = {}
        /\ at = "legacy" => \A k \in 1 .. turn : hdr.types[k] \in cache
        /\ at = "done" => stack = << >>
        /\ SoFar
    BY <2>0 DEF HInv, DepthInv
  <2>2. /\ Running(stack)' /\ Visited(stack, cache)'
        /\ (cache = Rng(body) \cup Calling(stack))' /\ (Rng(body) \cap Calling(stack) = {})'
    BY <1>5, <2>1, DepthAfter
  <2>3. SoFar' BY <1>5, <2>1, SameOrder
  <2>4. (at = "legacy" => \A k \in 1 .. turn : hdr.types[k] \in cache)' /\ (at = "done" => stack = << >>)'
    BY <1>5, <2>1
  <2>. QED BY <2>2, <2>3, <2>4 DEF DepthInv
<1>. QED BY <1>1, <1>2, <1>3, <1>4, <1>6 DEF HInv

LEMMA HeaderInductive == ASSUME HeadersAssumption PROVE HeaderSpec => []HInv
<1>1. HInv /\ [Header]_<<vars, hvars>> => HInv'
  BY DeriveInv, TakeOrderInv, WriteNameInv, NextGroupInv, CallNextInv, VisitInv, WriteInv,
     EndOfListInv, HeaderStutterInv
     DEF Header
<1>. QED BY <1>1, HeaderInitInv, PTL DEF HeaderSpec

-----------------------------------------------------------------------------
(* Theorems *)

(* build_header keeps its indices in their lists and its calls in          *)
(* struct_cache, for every set of declarations.                            *)
THEOREM HeaderTypeCorrect ==
  ASSUME HeadersAssumption PROVE HeaderSpec => []HeaderTypeOK
<1>1. HInv => HeaderTypeOK
  <2>. SUFFICES ASSUME HInv PROVE HeaderTypeOK OBVIOUS
  <2>. USE DEF HInv
  <2>1. hdr \in Headers BY DEF WayInv
  <2>2. hdr.topo \in BOOLEAN /\ Len(hdr.types) \in Nat BY <2>1, HeaderFacts
  <2>3. at \in {"graph", "groups", "legacy", "done"} BY DEF WayInv
  <2>4. body \in Seq(Listed) /\ Rng(body) \subseteq Listed BY RngType DEF BodyInv
  <2>5. cache \subseteq Listed /\ \A k \in 1 .. Len(stack) : stack[k].type \in cache
    <3>1. CASE hdr.topo BY <3>1 DEF WayInv
    <3>2. CASE ~hdr.topo
      <4>1. cache = Rng(body) \cup Calling(stack) /\ stack \in Seq(Frames)
        BY <3>2 DEF DepthInv, Running
      <4>2. \A k \in 1 .. Len(stack) : stack[k] \in Frames BY <4>1
      <4>3. Calling(stack) \subseteq Listed BY <4>2 DEF Calling, Frames
      <4>. QED BY <2>4, <4>1, <4>3 DEF Calling
    <3>. QED BY <3>1, <3>2
  <2>6. turn \in 0 .. Len(IF at = "groups" THEN ordered ELSE hdr.types) /\ section \in 1 .. 5
    BY <2>2, <2>3 DEF WayInv
  <2>. QED BY <2>3, <2>4, <2>5, <2>6 DEF HeaderTypeOK, Listed
<1>. QED BY <1>1, HeaderInductive, PTL

(* For every set of declarations il2cpp.h holds every type exactly once;   *)
(* group by group, a parent comes before a type of its group; depth first, *)
(* everything a compiler has to know before a structure comes before it,   *)
(* if there is such an order at all.                                       *)
THEOREM HeaderCorrect ==
  ASSUME HeadersAssumption PROVE HeaderSpec => []HeaderRight
<1>1. HInv => HeaderRight
  <2>. SUFFICES ASSUME HInv PROVE HeaderRight OBVIOUS
  <2>. USE DEF HInv
  <2>1. HeaderComplete BY DEF BodyInv, HeaderComplete, Listed
  <2>2. GroupsKeepOrder BY DEF GroupInv, GroupsKeepOrder
  <2>3. DepthFirstOrder
    <3>. SUFFICES ASSUME ~hdr.topo, Orderable, NEW k \in 1 .. Len(body), NEW u \in Needs(body[k])
                  PROVE  \E j \in 1 .. k - 1 : body[j] = u
      BY DEF DepthFirstOrder, DefinedFirst
    <3>1. \A m \in 1 .. Len(body) : \A v \in Holds(body[m]) \ {body[m]} :
            \E j \in 1 .. m - 1 : body[j] = v
      BY DEF DepthInv, SoFar
    <3>2. hdr \in Headers /\ body \in Seq(Listed) BY DEF WayInv, BodyInv
    <3>. HIDE DEF HInv
    <3>3. Len(body) \in Nat /\ \A m \in 1 .. Len(body) : body[m] \in Listed BY <3>2
    <3>4. ASSUME NEW m \in 1 .. k, NEW v \in Rng(hdr.vals[body[m]])
          PROVE  \E j \in 1 .. k - 1 : body[j] = v
      <4>1. m \in 1 .. Len(body) /\ body[m] \in Listed BY <3>3
      <4>2. v # body[m] BY <3>2, <3>4, <4>1, HeaderFacts
      <4>3. v \in Holds(body[m]) BY <3>4 DEF Holds
      <4>4. PICK j \in 1 .. m - 1 : body[j] = v BY <3>1, <4>1, <4>2, <4>3
      <4>5. j \in 1 .. k - 1 BY <3>3
      <4>. QED BY <4>4, <4>5
    <3>5. ASSUME NEW m \in 1 .. k, hdr.parent[body[m]] # NoType
          PROVE  \E j \in 1 .. m - 1 : body[j] = hdr.parent[body[m]]
      <4>1. m \in 1 .. Len(body) /\ body[m] \in Listed BY <3>3
      <4>2. hdr.parent[body[m]] \in Holds(body[m]) BY <3>2, <3>5, <4>1, HoldsFacts
      <4>3. hdr.parent[body[m]] # body[m]
        <5>1. {body[m]} \in SUBSET Listed /\ {body[m]} # {} BY <4>1
        <5>2. \E a \in {body[m]} : \A b \in {body[m]} : hdr.parent[a] # b
          BY <3>2, <5>1, HeaderFacts
        <5>. QED BY <5>2
      <4>. QED BY <3>1, <4>1, <4>2, <4>3
    <3>6. k \in 1 .. k /\ k \in Nat BY <3>3
    <3>7. CASE u \in Rng(hdr.statics[body[k]]) \ {body[k]} BY <3>1, <3>7 DEF Holds
    <3>8. CASE hdr.layout # "GCC" /\ u \in Rng(hdr.vals[body[k]]) BY <3>4, <3>6, <3>8
    <3>9. CASE hdr.layout # "GCC" /\ u \in Rng(ParentOf(body[k]))
      <4>1. hdr.parent[body[k]] # NoType /\ u = hdr.parent[body[k]] BY <3>9 DEF ParentOf, Rng
      <4>. QED BY <3>5, <3>6, <4>1
    <3>10. CASE hdr.layout = "GCC" /\ \E a \in Ancestry(body[k]) : u \in Rng(hdr.vals[a])
      <4>1. PICK a \in Ancestry(body[k]) : u \in Rng(hdr.vals[a]) BY <3>10
      <4>. DEFINE up == {body[m] : m \in 1 .. k}
      <4>2. up \in SUBSET Listed
        <5>1. \A m \in 1 .. k : m \in 1 .. Len(body) BY <3>3
        <5>. QED BY <3>3, <5>1
      <4>3. body[k] \in up BY <3>6
      <4>4. ASSUME NEW v \in up, hdr.parent[v] # NoType PROVE hdr.parent[v] \in up
        <5>1. PICK m \in 1 .. k : v = body[m] OBVIOUS
        <5>2. PICK j \in 1 .. m - 1 : body[j] = hdr.parent[v] BY <3>5, <4>4, <5>1
        <5>3. j \in 1 .. k BY <3>3
        <5>. QED BY <5>2, <5>3
      <4>5. a \in up BY <4>2, <4>3, <4>4 DEF Ancestry, Listed
      <4>6. PICK m \in 1 .. k : a = body[m] BY <4>5
      <4>. QED BY <3>4, <4>1, <4>6
    <3>. QED BY <3>7, <3>8, <3>9, <3>10 DEF Needs
  <2>. QED BY <2>1, <2>2, <2>3 DEF HeaderRight
<1>. QED BY <1>1, HeaderInductive, PTL

(* The topological sort of declarations never ends in the depth-first way: *)
(* the graph has no value edge but to a parent, and parents form no cycle. *)
NeverFallsBack == at = "legacy" => ~hdr.topo
THEOREM GroupsOrDepth ==
  ASSUME HeadersAssumption PROVE HeaderSpec => []NeverFallsBack
<1>1. HInv => NeverFallsBack BY DEF HInv, WayInv, NeverFallsBack
<1>. QED BY <1>1, HeaderInductive, PTL
=============================================================================
