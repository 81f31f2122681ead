-------------------------- MODULE LxgrToolProofs --------------------------
(***************************************************************************)
(* The parts of the C tool that run on their own: what lxgr_resolve_chain  *)
(* returns, for any memory, any specification and any number of changes of *)
(* the target while it runs; what the Rust dumper makes of a pamap; what a *)
(* command line of lxgr_dump leaves behind; and what the conversions       *)
(* between virtual and physical addresses say of pages that move.          *)
(***************************************************************************)
EXTENDS LxgrPagemap, LxgrChain, PhysMap, LxgrCli, SequenceTheorems, FiniteSetTheorems, WellFoundedInduction, TLAPS

-----------------------------------------------------------------------------
(* Recursion over the natural numbers *)

(* A set of naturals that holds 0 and every successor holds them all. *)
LEMMA AllNaturals ==
  ASSUME NEW S, 0 \in S, \A n \in Nat : n \in S => n + 1 \in S
  PROVE  \A n \in Nat : n \in S
<1> DEFINE R == OpToRel(<, Nat)
           T == Nat \ S
<1>1. IsWellFoundedOn(R, Nat)
  BY NatLessThanWellFounded
<1>2. \A x, y \in Nat : x < y => <<x, y>> \in R
  BY DEF OpToRel
<1> HIDE DEF R
<1>3. SUFFICES ASSUME T # {} PROVE FALSE
  OBVIOUS
<1>4. PICK x \in T : \A y \in T : ~ (<<y, x>> \in R)
  BY <1>1, <1>3, WFMin
<1>5. x \in Nat /\ x # 0
  OBVIOUS
<1>6. x - 1 \in Nat /\ x - 1 < x /\ x = (x - 1) + 1
  BY <1>5
<1>7. x - 1 \in T
  BY <1>6
<1>8. <<x - 1, x>> \in R
  BY <1>2, <1>5, <1>6
<1> QED BY <1>4, <1>7, <1>8

(* A value that is repeatedly transformed: f[k] is what a becomes in k     *)
(* steps, the i-th of them G[<<., i>>].                                    *)
Iterates(a, G, n, f) == f[0] = a /\ \A i \in 1 .. n : f[i] = G[<<f[i - 1], i>>]

LEMMA IterationExists ==
  ASSUME NEW V, NEW a \in V, NEW n \in Nat, NEW G \in [V \X (1 .. n) -> V]
  PROVE  \E f \in [0 .. n -> V] : Iterates(a, G, n, f)
<1> DEFINE S == {m \in Nat : m <= n => \E f \in [0 .. m -> V] : Iterates(a, G, m, f)}
<1>1. 0 \in S
  <2> DEFINE f == [i \in 0 .. 0 |-> a]
  <2>1. f \in [0 .. 0 -> V] /\ Iterates(a, G, 0, f)
    BY DEF Iterates
  <2> HIDE DEF f
  <2> QED BY <2>1
<1>2. ASSUME NEW m \in Nat, m \in S PROVE m + 1 \in S
  <2> SUFFICES ASSUME m + 1 <= n PROVE \E f \in [0 .. m + 1 -> V] : Iterates(a, G, m + 1, f)
    OBVIOUS
  <2>1. PICK e \in [0 .. m -> V] : Iterates(a, G, m, e)
    BY <1>2
  <2> DEFINE x == G[<<e[m], m + 1>>]
             f == [i \in 0 .. m + 1 |-> IF i = m + 1 THEN x ELSE e[i]]
  <2>2. x \in V
    <3>1. e[m] \in V /\ m + 1 \in 1 .. n
      BY <2>1
    <3> QED BY <3>1
  <2>3. \A i \in 0 .. m : f[i] = e[i]
    OBVIOUS
  <2>4. f[m + 1] = x
    OBVIOUS
  <2>5. f \in [0 .. m + 1 -> V]
    <3> HIDE DEF x
    <3>1. \A i \in 0 .. m + 1 : i # m + 1 => i \in 0 .. m
      OBVIOUS
    <3> QED BY <2>2, <3>1
  <2> HIDE DEF f
  <2>6. ASSUME NEW i \in 1 .. m + 1 PROVE f[i] = G[<<f[i - 1], i>>]
    <3>1. CASE i = m + 1
      <4>1. i - 1 = m /\ m \in 0 .. m
        BY <3>1
      <4> QED BY <2>3, <2>4, <3>1, <4>1
    <3>2. CASE i # m + 1
      <4>1. i \in 1 .. m /\ i \in 0 .. m /\ i - 1 \in 0 .. m
        BY <3>2
      <4>2. e[i] = G[<<e[i - 1], i>>]
        BY <2>1, <4>1 DEF Iterates
      <4> QED BY <2>3, <4>1, <4>2
    <3> QED BY <3>1, <3>2
  <2>7. f[0] = a
    BY <2>1, <2>3 DEF Iterates
  <2>8. Iterates(a, G, m + 1, f)
    BY <2>6, <2>7 DEF Iterates
  <2> QED BY <2>5, <2>8
<1>3. \A m \in Nat : m \in S
  <2> HIDE DEF S
  <2> QED BY <1>1, <1>2, AllNaturals
<1>4. n \in S
  BY <1>3
<1> QED BY <1>4

-----------------------------------------------------------------------------
(* The tokens of a specification *)

IsTokens(parts, w) ==
  w = [k \in 0 .. Len(parts) |->
         IF k = 0 THEN << >>
         ELSE IF parts[k].kind = "empty" THEN w[k - 1] ELSE Append(w[k - 1], parts[k])]

LEMMA TokensExist == ASSUME NEW parts \in Seq(Part) PROVE \E w : IsTokens(parts, w)
<1> DEFINE V == Seq(Part)
           n == Len(parts)
           G == [x \in V \X (1 .. n) |->
                   IF parts[x[2]].kind = "empty" THEN x[1] ELSE Append(x[1], parts[x[2]])]
<1>1. n \in Nat /\ << >> \in V
  OBVIOUS
<1>2. \A k \in 1 .. n : parts[k] \in Part
  OBVIOUS
<1>3. G \in [V \X (1 .. n) -> V]
  BY <1>2
<1>4. \A y \in V, k \in 1 .. n :
         G[<<y, k>>] = IF parts[k].kind = "empty" THEN y ELSE Append(y, parts[k])
  OBVIOUS
<1> HIDE DEF G, V, n
<1>5. PICK f \in [0 .. n -> V] : Iterates(<< >>, G, n, f)
  BY <1>1, <1>3, IterationExists
<1>6. ASSUME NEW k \in 0 .. n
      PROVE  f[k] = IF k = 0 THEN << >>
                    ELSE IF parts[k].kind = "empty" THEN f[k - 1] ELSE Append(f[k - 1], parts[k])
  <2>1. CASE k = 0
    BY <2>1, <1>5 DEF Iterates
  <2>2. CASE k # 0
    <3>1. k \in 1 .. n /\ k - 1 \in 0 .. n
      BY <1>1, <2>2
    <3>2. f[k] = G[<<f[k - 1], k>>] /\ f[k - 1] \in V
      BY <1>5, <3>1 DEF Iterates
    <3> QED BY <1>4, <2>2, <3>1, <3>2
  <2> QED BY <2>1, <2>2
<1>7. IsTokens(parts, f)
  BY <1>6 DEF IsTokens, n
<1> QED BY <1>7

(* strtok_r gives at most as many tokens as there are parts. *)
LEMMA TokensType ==
  ASSUME NEW parts \in Seq(Part)
  PROVE  Tokens(parts) \in Seq(Part) /\ Len(Tokens(parts)) <= Len(parts)
<1> DEFINE w == CHOOSE u : IsTokens(parts, u)
           n == Len(parts)
<1>1. Tokens(parts) = w[n]
  BY DEF Tokens, IsTokens
<1>2. IsTokens(parts, w)
  BY TokensExist, Zenon
<1> HIDE DEF w
<1>3. n \in Nat /\ \A k \in 1 .. n : parts[k] \in Part
  OBVIOUS
<1> HIDE DEF n
<1>4. \A k \in 0 .. n :
         w[k] = IF k = 0 THEN << >>
                ELSE IF parts[k].kind = "empty" THEN w[k - 1] ELSE Append(w[k - 1], parts[k])
  BY <1>2 DEF IsTokens, n
<1> DEFINE S == {m \in Nat : m <= n => w[m] \in Seq(Part) /\ Len(w[m]) <= m}
<1>5. 0 \in S
  <2>1. w[0] = << >>
    BY <1>3, <1>4
  <2>2. << >> \in Seq(Part) /\ Len(<< >>) = 0
    OBVIOUS
  <2>3. w[0] \in Seq(Part) /\ Len(w[0]) = 0
    BY <2>1, <2>2, Zenon
  <2>4. w[0] \in Seq(Part) /\ Len(w[0]) <= 0
    BY <2>3
  <2> QED BY <2>4
<1>6. ASSUME NEW m \in Nat, m \in S PROVE m + 1 \in S
  <2> SUFFICES ASSUME m + 1 <= n
               PROVE  w[m + 1] \in Seq(Part) /\ Len(w[m + 1]) <= m + 1
    OBVIOUS
  <2>1. w[m] \in Seq(Part) /\ Len(w[m]) <= m
    BY <1>3, <1>6
  <2>2. m + 1 \in 0 .. n /\ m + 1 \in 1 .. n /\ m + 1 # 0 /\ (m + 1) - 1 = m
    BY <1>3
  <2>3. w[m + 1] = IF parts[m + 1].kind = "empty" THEN w[m] ELSE Append(w[m], parts[m + 1])
    BY <1>4, <2>2
  <2>4. parts[m + 1] \in Part
    BY <1>3, <2>2
  <2>5. /\ Append(w[m], parts[m + 1]) \in Seq(Part)
        /\ Len(Append(w[m], parts[m + 1])) = Len(w[m]) + 1
    BY <2>1, <2>4, AppendProperties
  <2>6. Len(w[m]) \in Nat
    BY <2>1
  <2> QED BY <2>1, <2>3, <2>5, <2>6
<1>7. \A m \in Nat : m \in S
  <2> HIDE DEF S
  <2> QED BY <1>5, <1>6, AllNaturals
<1>8. w[n] \in Seq(Part) /\ Len(w[n]) <= n
  <2>1. n \in S
    BY <1>3, <1>7
  <2> QED BY <1>3, <2>1
<1> QED BY <1>1, <1>8 DEF n

-----------------------------------------------------------------------------
(* The walk *)

Toks == Tokens(spec.parts)
First1 == IF Toks[1].kind = "B" THEN base ELSE Toks[1].v

(* The k-th pointer of the walk. *)
Pointer(k) == IF k = 1 THEN First1 ELSE reads[k - 1][3]

Typed ==
  /\ mem \in [Addrs -> Nat \cup {Unmapped}]
  /\ env \in 0 .. MaxEnv
  /\ spec \in Specs /\ base \in Bases
  /\ pc \in {"start", "loop", "done"}
  /\ rest \in Seq(Part) /\ cur \in Nat /\ ret \in Nat
  /\ reads \in Seq(Nat \X Nat \X Nat)

(* The reads so far are linked, used the tokens in order and went through  *)
(* no null pointer; the tokens not used yet are the rest.                  *)
Linked ==
  \A k \in 1 .. Len(reads) :
    /\ k + 1 \in 1 .. Len(Toks)
    /\ reads[k][1] = Pointer(k) /\ reads[k][1] # 0
    /\ reads[k][2] = Toks[k + 1].v

Position ==
  /\ pc = "start" => rest = << >> /\ reads = << >> /\ ret = 0
  /\ pc = "loop" =>
       /\ spec.fits /\ Toks[1].kind \in {"B", "hex"}
       /\ Len(Toks) = Len(reads) + 1 + Len(rest)
       /\ \A i \in 1 .. Len(rest) : rest[i] = Toks[Len(reads) + 1 + i]
       /\ cur = Pointer(Len(reads) + 1)
  /\ pc = "done" =>
       /\ Len(reads) + Len(rest) <= Len(Toks)
       /\ ret # 0 => Len(Toks) = Len(reads) + 1 /\ ret = Pointer(Len(reads) + 1)

ChainInv == Typed /\ Linked /\ Position

LEMMA ToksType ==
  ASSUME ChainAssumption, Typed
  PROVE  /\ Toks \in Seq(Part) /\ Len(Toks) \in Nat /\ Len(Toks) <= Len(spec.parts)
         /\ \A k \in 1 .. Len(Toks) : Toks[k].v \in Nat
<1>1. spec.parts \in Seq(Part)
  BY DEF ChainAssumption, Typed
<1>2. Toks \in Seq(Part) /\ Len(Toks) <= Len(spec.parts)
  BY <1>1, TokensType DEF Toks
<1>3. \A k \in 1 .. Len(Toks) : Toks[k] \in Part
  BY <1>2
<1>4. \A p \in Part : p.v \in Nat
  BY DEF Part
<1>5. Len(Toks) \in Nat
  BY <1>2
<1> QED BY <1>2, <1>3, <1>4, <1>5

(* The parts of Step. *)
Ended == rest = << >> /\ Return(cur) /\ UNCHANGED <<rest, cur, reads>>
GaveUp ==
  /\ rest # << >>
  /\ Head(rest).kind # "hex" \/ cur = 0 \/ At(cur + Head(rest).v) = Unmapped
  /\ Return(0) /\ UNCHANGED <<rest, cur, reads>>
Hopped ==
  /\ rest # << >> /\ Head(rest).kind = "hex" /\ cur # 0 /\ At(cur + Head(rest).v) # Unmapped
  /\ cur' = At(cur + Head(rest).v)
  /\ reads' = Append(reads, <<cur, Head(rest).v, cur'>>)
  /\ rest' = Tail(rest)
  /\ UNCHANGED <<pc, ret>>

LEMMA InitChain == ASSUME ChainAssumption, ChainInit PROVE ChainInv
<1>1. Typed
  BY DEF ChainAssumption, ChainInit, Typed
<1>2. reads = << >> /\ pc = "start" /\ rest = << >> /\ ret = 0
  BY DEF ChainInit
<1> QED BY <1>1, <1>2 DEF ChainInv, Linked, Position

LEMMA FirstKeeps == ASSUME ChainAssumption, ChainInv, First PROVE ChainInv'
<1>0. Typed /\ Linked /\ Position
  BY DEF ChainInv
<1>1. /\ Toks \in Seq(Part) /\ Len(Toks) \in Nat
      /\ \A k \in 1 .. Len(Toks) : Toks[k].v \in Nat
  BY <1>0, ToksType
<1>2. pc = "start" /\ rest = << >> /\ reads = << >> /\ ret = 0
  BY <1>0 DEF First, Position
<1>3. UNCHANGED <<mem, env, spec, base, reads>>
  BY DEF First
<1>4. Toks' = Toks /\ First1' = First1 /\ reads' = << >> /\ Len(reads') = 0
  BY <1>2, <1>3 DEF Toks, First1
<1>5. Linked'
  BY <1>4 DEF Linked
<1>6. CASE ~spec.fits \/ Toks = << >>
  <2>1. pc' = "done" /\ ret' = 0 /\ rest' = << >> /\ cur' = cur
    BY <1>2, <1>6 DEF First, Return, Toks
  <2>2. Typed'
    BY <1>0, <1>3, <2>1 DEF Typed
  <2>3. Position'
    BY <1>1, <1>4, <2>1 DEF Position
  <2> QED BY <1>5, <2>2, <2>3 DEF ChainInv
<1>7. CASE spec.fits /\ Toks # << >>
  <2>1. /\ Head(Toks) = Toks[1] /\ Tail(Toks) \in Seq(Part) /\ Len(Tail(Toks)) = Len(Toks) - 1
        /\ \A i \in 1 .. Len(Tail(Toks)) : Tail(Toks)[i] = Toks[i + 1]
        /\ 1 \in 1 .. Len(Toks)
    BY <1>1, <1>7, HeadTailProperties, EmptySeq
  <2>2. rest' = Tail(Toks)
    BY <1>7 DEF First, Toks
  <2>3. CASE Toks[1].kind \in {"B", "hex"}
    <3>1. pc' = "loop" /\ ret' = 0 /\ cur' = First1
      BY <1>2, <1>7, <2>1, <2>3 DEF First, Return, Toks, First1
    <3>2. First1 \in Nat
      BY <1>0, <1>1, <2>1 DEF First1, Typed, ChainAssumption
    <3>3. Typed'
      BY <1>0, <1>3, <2>1, <2>2, <3>1, <3>2 DEF Typed
    <3>4. spec'.fits
      BY <1>3, <1>7
    <3>5. \A i \in 1 .. Len(rest') : rest'[i] = Toks'[Len(reads') + 1 + i]
      <4>1. \A i \in 1 .. Len(Tail(Toks)) : 0 + 1 + i = i + 1
        BY <1>1, <2>1
      <4> QED BY <1>4, <2>1, <2>2, <4>1
    <3>6. Len(Toks') = Len(reads') + 1 + Len(rest')
      BY <1>1, <1>4, <2>1, <2>2
    <3>7. cur' = Pointer(Len(reads) + 1)'
      BY <1>4, <3>1 DEF Pointer
    <3>8. Toks'[1].kind \in {"B", "hex"}
      BY <1>4, <2>3
    <3>9. Position'
      BY <3>1, <3>4, <3>5, <3>6, <3>7, <3>8 DEF Position
    <3> QED BY <1>5, <3>3, <3>9 DEF ChainInv
  <2>4. CASE Toks[1].kind \notin {"B", "hex"}
    <3>1. pc' = "done" /\ ret' = 0 /\ cur' = cur
      BY <1>7, <2>1, <2>4 DEF First, Return, Toks
    <3>2. Typed'
      BY <1>0, <1>3, <2>1, <2>2, <3>1 DEF Typed
    <3>3. Position'
      BY <1>1, <1>4, <2>1, <2>2, <3>1 DEF Position
    <3> QED BY <1>5, <3>2, <3>3 DEF ChainInv
  <2> QED BY <2>3, <2>4
<1> QED BY <1>6, <1>7

LEMMA StepKeeps == ASSUME ChainAssumption, ChainInv, Step PROVE ChainInv'
<1>0. Typed /\ Linked /\ Position /\ pc = "loop"
  BY DEF ChainInv, Step
<1>1. /\ Toks \in Seq(Part) /\ Len(Toks) \in Nat
      /\ \A k \in 1 .. Len(Toks) : Toks[k].v \in Nat
  BY <1>0, ToksType
<1>2. UNCHANGED <<mem, env, spec, base>>
  BY DEF Step
<1>3. Toks' = Toks /\ First1' = First1
  BY <1>2 DEF Toks, First1
<1>4. /\ rest \in Seq(Part) /\ Len(rest) \in Nat /\ cur \in Nat /\ ret \in Nat
      /\ reads \in Seq(Nat \X Nat \X Nat) /\ Len(reads) \in Nat
  BY <1>0 DEF Typed
<1>5. /\ spec.fits /\ Toks[1].kind \in {"B", "hex"}
      /\ Len(Toks) = Len(reads) + 1 + Len(rest)
      /\ \A i \in 1 .. Len(rest) : rest[i] = Toks[Len(reads) + 1 + i]
      /\ cur = Pointer(Len(reads) + 1)
  BY <1>0 DEF Position
<1>6. Ended \/ GaveUp \/ Hopped
  BY DEF Step, Ended, GaveUp, Hopped
<1>7. ASSUME UNCHANGED <<rest, cur, reads>>, pc' = "done", ret' \in {0, cur},
             ret' # 0 => rest = << >> /\ ret' = cur
      PROVE  ChainInv'
  <2>1. Typed'
    BY <1>0, <1>2, <1>4, <1>7 DEF Typed
  <2>2. \A k : Pointer(k)' = Pointer(k)
    BY <1>3, <1>7 DEF Pointer
  <2>3. Linked'
    BY <1>0, <1>3, <1>7, <2>2 DEF Linked
  <2>4. rest = << >> => Len(Toks) = Len(reads) + 1
    BY <1>4, <1>5
  <2>5. Len(reads) + Len(rest) <= Len(Toks)
    BY <1>4, <1>5
  <2>6. Position'
    BY <1>3, <1>5, <1>7, <2>2, <2>4, <2>5 DEF Position
  <2> QED BY <2>1, <2>3, <2>6 DEF ChainInv
<1>8. CASE Ended
  BY <1>7, <1>8 DEF Ended, Return
<1>9. CASE GaveUp
  BY <1>7, <1>9 DEF GaveUp, Return
<1>10. CASE Hopped
  <2> DEFINE t == Head(rest)
             v == At(cur + t.v)
  <2>1. /\ Head(rest) = rest[1] /\ Tail(rest) \in Seq(Part) /\ Len(Tail(rest)) = Len(rest) - 1
        /\ \A i \in 1 .. Len(Tail(rest)) : Tail(rest)[i] = rest[i + 1]
        /\ 1 \in 1 .. Len(rest)
    BY <1>4, <1>10, HeadTailProperties, EmptySeq DEF Hopped
  <2>2. t = Toks[Len(reads) + 2] /\ Len(reads) + 2 \in 1 .. Len(Toks)
    BY <1>4, <1>5, <2>1
  <2>3. t.v \in Nat
    BY <1>1, <2>2
  <2>4. v \in Nat
    <3>1. v # Unmapped
      BY <1>10 DEF Hopped
    <3> QED BY <1>0, <3>1 DEF At, Typed
  <2>5. /\ cur' = v /\ rest' = Tail(rest) /\ reads' = Append(reads, <<cur, t.v, v>>)
        /\ pc' = pc /\ ret' = ret /\ cur # 0
    BY <1>10 DEF Hopped
  <2> HIDE DEF t, v
  <2>6. <<cur, t.v, v>> \in Nat \X Nat \X Nat
    BY <1>4, <2>3, <2>4
  <2>7. /\ reads' \in Seq(Nat \X Nat \X Nat) /\ Len(reads') = Len(reads) + 1
        /\ \A k \in 1 .. Len(reads) : reads'[k] = reads[k]
        /\ reads'[Len(reads) + 1] = <<cur, t.v, v>>
    BY <1>4, <2>5, <2>6, AppendProperties
  <2>8. Typed'
    BY <1>0, <1>2, <1>4, <2>1, <2>4, <2>5, <2>7 DEF Typed
  <2>9. \A k \in 1 .. Len(reads) + 1 : Pointer(k)' = Pointer(k)
    <3> SUFFICES ASSUME NEW k \in 1 .. Len(reads) + 1 PROVE Pointer(k)' = Pointer(k)
      OBVIOUS
    <3>1. k # 1 => k - 1 \in 1 .. Len(reads)
      BY <1>4
    <3> QED BY <1>3, <2>7, <3>1 DEF Pointer
  <2>10. Linked'
    <3> SUFFICES ASSUME NEW k \in 1 .. Len(reads')
                 PROVE  /\ k + 1 \in 1 .. Len(Toks')
                        /\ reads'[k][1] = Pointer(k)' /\ reads'[k][1] # 0
                        /\ reads'[k][2] = Toks'[k + 1].v
      BY DEF Linked
    <3>1. k \in 1 .. Len(reads) + 1
      BY <2>7
    <3>2. CASE k \in 1 .. Len(reads)
      BY <1>0, <1>3, <2>7, <2>9, <3>1, <3>2 DEF Linked
    <3>3. CASE k \notin 1 .. Len(reads)
      <4>1. k = Len(reads) + 1 /\ k + 1 = Len(reads) + 2
        BY <1>4, <3>1, <3>3
      <4>2. reads'[k] = <<cur, t.v, v>>
        BY <2>7, <4>1
      <4>3. Pointer(k)' = cur
        BY <1>5, <2>9, <3>1, <4>1
      <4>4. reads'[k][1] = cur /\ reads'[k][2] = t.v
        BY <4>2
      <4> QED BY <1>3, <2>2, <2>5, <4>1, <4>3, <4>4
    <3> QED BY <3>2, <3>3
  <2>11. Pointer(Len(reads) + 1)' = v
    <3>1. Len(reads') + 1 # 1 /\ (Len(reads') + 1) - 1 = Len(reads) + 1
      BY <1>4, <2>7
    <3>2. Pointer(Len(reads) + 1)' = reads'[Len(reads) + 1][3]
      BY <3>1 DEF Pointer
    <3> QED BY <2>7, <3>2
  <2>12. Len(Toks') = Len(reads') + 1 + Len(rest')
    BY <1>3, <1>4, <1>5, <2>1, <2>5, <2>7
  <2>13. \A i \in 1 .. Len(rest') : rest'[i] = Toks'[Len(reads') + 1 + i]
    <3> SUFFICES ASSUME NEW i \in 1 .. Len(Tail(rest)) PROVE Tail(rest)[i] = Toks[Len(reads') + 1 + i]
      BY <1>3, <2>5
    <3>1. i + 1 \in 1 .. Len(rest) /\ Len(reads) + 1 + (i + 1) = Len(reads') + 1 + i
      BY <1>4, <2>1, <2>7
    <3>2. rest[i + 1] = Toks[Len(reads) + 1 + (i + 1)]
      BY <1>5, <3>1
    <3> QED BY <2>1, <3>1, <3>2
  <2>14. Position'
    <3>1. pc' = "loop" /\ spec'.fits /\ Toks'[1].kind \in {"B", "hex"} /\ cur' = Pointer(Len(reads) + 1)'
      BY <1>0, <1>2, <1>3, <1>5, <2>5, <2>11
    <3> QED BY <2>12, <2>13, <3>1 DEF Position
  <2> QED BY <2>8, <2>10, <2>14 DEF ChainInv
<1> QED BY <1>6, <1>8, <1>9, <1>10

LEMMA TargetKeeps == ASSUME ChainAssumption, ChainInv, Target PROVE ChainInv'
<1>1. UNCHANGED <<spec, base, pc, rest, cur, reads, ret>>
  BY DEF Target
<1>2. mem' \in [Addrs -> Nat \cup {Unmapped}] /\ env' \in 0 .. MaxEnv
  BY DEF Target, ChainInv, Typed, ChainAssumption
<1>3. Typed'
  BY <1>1, <1>2 DEF ChainInv, Typed
<1>4. Toks' = Toks /\ \A k : Pointer(k)' = Pointer(k)
  BY <1>1 DEF Toks, First1, Pointer
<1>5. Linked' /\ Position'
  BY <1>1, <1>4 DEF ChainInv, Linked, Position
<1> QED BY <1>3, <1>5 DEF ChainInv

LEMMA ChainStep == ASSUME ChainAssumption, ChainInv, [ChainNext]_chainVars PROVE ChainInv'
<1>1. CASE UNCHANGED chainVars
  <2>1. Toks' = Toks /\ \A k : Pointer(k)' = Pointer(k)
    BY <1>1 DEF chainVars, Toks, First1, Pointer
  <2> QED BY <1>1, <2>1 DEF chainVars, ChainInv, Typed, Linked, Position
<1> QED BY <1>1, FirstKeeps, StepKeeps, TargetKeeps DEF ChainNext, Tool

(* Neither array is left, and the pointers stay addresses. *)
THEOREM ChainTypeCorrect == ASSUME ChainAssumption PROVE ChainSpec => []ChainTypeOK
<1>1. ChainInv => ChainTypeOK
  <2> SUFFICES ASSUME ChainInv PROVE ChainTypeOK
    OBVIOUS
  <2>1. Typed /\ Position
    BY DEF ChainInv
  <2>2. Len(Toks) \in Nat /\ Len(Toks) <= Len(spec.parts) /\ Len(spec.parts) \in Nat
    <3>1. spec.parts \in Seq(Part)
      BY <2>1 DEF ChainAssumption, Typed
    <3> QED BY <2>1, <3>1, ToksType
  <2>3. Len(reads) \in Nat /\ Len(rest) \in Nat
    BY <2>1 DEF Typed
  <2>4. Len(reads) + Len(rest) <= Len(spec.parts)
    <3>1. CASE pc = "start"
      BY <2>1, <2>2, <3>1 DEF Position
    <3>2. CASE pc = "loop" \/ pc = "done"
      BY <2>1, <2>2, <2>3, <3>2 DEF Position
    <3> QED BY <2>1, <3>1, <3>2 DEF Typed
  <2> QED BY <2>1, <2>4 DEF ChainTypeOK, Typed
<1> QED BY <1>1, InitChain, ChainStep, PTL DEF ChainSpec

(* However the target changes its pointers during the call, a non-zero     *)
(* result of lxgr_resolve_chain is the end of a linked walk over values    *)
(* that were there, with every token used in order.                        *)
THEOREM WalkIsLinked == ASSUME ChainAssumption PROVE ChainSpec => []LinkedWalk
<1>1. ChainInv => LinkedWalk
  <2> SUFFICES ASSUME ChainInv, pc = "done", ret # 0
               PROVE  /\ Len(reads) = Len(Toks) - 1
                      /\ \A k \in 1 .. Len(reads) :
                           /\ reads[k][1] = (IF k = 1 THEN First1 ELSE reads[k - 1][3])
                           /\ reads[k][2] = Toks[k + 1].v
                      /\ ret = IF reads = << >> THEN First1 ELSE reads[Len(reads)][3]
    BY DEF LinkedWalk, Toks, First1
  <2>1. Typed /\ Linked /\ Position
    BY DEF ChainInv
  <2>2. reads \in Seq(Nat \X Nat \X Nat) /\ Len(reads) \in Nat /\ Len(Toks) \in Nat
    BY <2>1, ToksType DEF Typed
  <2>3. Len(Toks) = Len(reads) + 1 /\ ret = Pointer(Len(reads) + 1)
    BY <2>1 DEF Position
  <2>4. Pointer(Len(reads) + 1) = IF reads = << >> THEN First1 ELSE reads[Len(reads)][3]
    <3>1. CASE reads = << >>
      BY <3>1 DEF Pointer
    <3>2. CASE reads # << >>
      <4>1. Len(reads) # 0
        BY <2>2, <3>2, EmptySeq
      <4>2. Len(reads) + 1 # 1 /\ (Len(reads) + 1) - 1 = Len(reads)
        BY <2>2, <4>1
      <4> QED BY <3>2, <4>2 DEF Pointer
    <3> QED BY <3>1, <3>2
  <2> QED BY <2>1, <2>2, <2>3, <2>4 DEF Linked, Pointer
<1> QED BY <1>1, InitChain, ChainStep, PTL DEF ChainSpec

(* lxgr_resolve_chain never reads through a null pointer. *)
THEOREM NoReadThroughNull == ASSUME ChainAssumption PROVE ChainSpec => []NoNullRead
<1>1. ChainInv => NoNullRead
  BY DEF ChainInv, Linked, NoNullRead
<1> QED BY <1>1, InitChain, ChainStep, PTL DEF ChainSpec

-----------------------------------------------------------------------------
(* A memory that stands still *)

(* w[k] is the pointer after k dereferences. *)
IsWalk(w) ==
  /\ w \in [0 .. Len(Toks) - 1 -> Nat]
  /\ w[0] = Start(Toks[1])
  /\ \A k \in 1 .. Len(Toks) - 1 : w[k] = Hop(w[k - 1], Toks[k + 1])

Still ==
  env = 0 =>
    /\ pc = "done" /\ (~spec.fits \/ Toks = << >>) => ret = 0
    /\ \A w : IsWalk(w) =>
         /\ pc = "loop" => cur = w[Len(reads)]
         /\ pc = "done" /\ spec.fits /\ Toks # << >> => ret = w[Len(Toks) - 1]

LEMMA HopType == ASSUME Typed, NEW p, NEW t PROVE Hop(p, t) \in Nat
BY DEF Typed, Hop, At

(* From a null pointer the walk goes nowhere. *)
LEMMA ZeroStays ==
  ASSUME ChainAssumption, Typed, NEW w, IsWalk(w), NEW k \in 0 .. Len(Toks) - 1, w[k] = 0
  PROVE  w[Len(Toks) - 1] = 0
<1> DEFINE n == Len(Toks) - 1
           S == {m \in Nat : k + m <= n => w[k + m] = 0}
<1>0. n \in Int /\ k \in 0 .. n
  BY ToksType
<1>1. \A j \in 1 .. n : w[j] = Hop(w[j - 1], Toks[j + 1])
  BY DEF IsWalk
<1> HIDE DEF n
<1>2. 0 \in S
  <2>1. k + 0 = k
    BY <1>0
  <2> QED BY <2>1
<1>3. ASSUME NEW m \in Nat, m \in S PROVE m + 1 \in S
  <2> SUFFICES ASSUME k + (m + 1) <= n PROVE w[k + (m + 1)] = 0
    OBVIOUS
  <2>1. k + (m + 1) \in 1 .. n /\ (k + (m + 1)) - 1 = k + m /\ k + m <= n
    BY <1>0
  <2>2. w[k + m] = 0
    BY <1>3, <2>1
  <2>3. w[k + (m + 1)] = Hop(w[k + m], Toks[(k + (m + 1)) + 1])
    BY <1>1, <2>1
  <2> QED BY <2>2, <2>3 DEF Hop
<1>4. \A m \in Nat : m \in S
  <2> HIDE DEF S
  <2> QED BY <1>2, <1>3, AllNaturals
<1>5. n - k \in Nat /\ k + (n - k) = n
  BY <1>0
<1>6. n - k \in S
  <2> HIDE DEF S
  <2> QED BY <1>4, <1>5
<1>7. w[k + (n - k)] = 0
  BY <1>0, <1>5, <1>6
<1> QED BY <1>5, <1>7 DEF n

(* Dereference is such a walk. *)
LEMMA DereferenceWalks ==
  ASSUME ChainAssumption, Typed, Toks # << >>
  PROVE  \E w : IsWalk(w) /\ Dereference(Toks) = w[Len(Toks) - 1]
<1> DEFINE n == Len(Toks) - 1
           Solves(u) == u = [k \in 0 .. Len(Toks) - 1 |->
                               IF k = 0 THEN Start(Toks[1]) ELSE Hop(u[k - 1], Toks[k + 1])]
           w == CHOOSE u : Solves(u)
           G == [x \in Nat \X (1 .. n) |-> Hop(x[1], Toks[x[2] + 1])]
<1>1. Dereference(Toks) = w[n]
  BY DEF Dereference
<1>2. Len(Toks) \in Nat /\ Len(Toks) # 0 /\ 1 \in 1 .. Len(Toks) /\ n \in Nat
  <2>1. Toks \in Seq(Part) /\ Len(Toks) \in Nat
    BY ToksType
  <2>2. Len(Toks) # 0
    BY <2>1, EmptySeq
  <2> QED BY <2>1, <2>2
<1>3. Start(Toks[1]) \in Nat
  <2>1. Toks[1].v \in Nat /\ base \in Nat
    BY <1>2, ToksType DEF Typed, ChainAssumption
  <2> QED BY <2>1 DEF Start
<1> HIDE DEF n
<1>4. G \in [Nat \X (1 .. n) -> Nat]
  BY HopType
<1>5. \A y \in Nat, k \in 1 .. n : G[<<y, k>>] = Hop(y, Toks[k + 1])
  OBVIOUS
<1> HIDE DEF G
<1>6. PICK f \in [0 .. n -> Nat] : Iterates(Start(Toks[1]), G, n, f)
  BY <1>2, <1>3, <1>4, IterationExists
<1>7. ASSUME NEW k \in 0 .. n
      PROVE  f[k] = IF k = 0 THEN Start(Toks[1]) ELSE Hop(f[k - 1], Toks[k + 1])
  <2>1. CASE k = 0
    BY <2>1, <1>6 DEF Iterates
  <2>2. CASE k # 0
    <3>1. k \in 1 .. n /\ k - 1 \in 0 .. n
      BY <1>2, <2>2
    <3>2. f[k] = G[<<f[k - 1], k>>] /\ f[k - 1] \in Nat
      BY <1>6, <3>1 DEF Iterates
    <3> QED BY <1>5, <2>2, <3>1, <3>2
  <2> QED BY <2>1, <2>2
<1>8. Solves(f)
  BY <1>7 DEF n
<1>9. Solves(w)
  <2> HIDE DEF Solves
  <2> QED BY <1>8, Zenon
<1> HIDE DEF w
<1>10. \A k \in 0 .. n : w[k] = IF k = 0 THEN Start(Toks[1]) ELSE Hop(w[k - 1], Toks[k + 1])
  BY <1>9 DEF n
<1>11. \A k \in 0 .. n : w[k] \in Nat
  BY <1>3, <1>10, HopType
<1>12. w \in [0 .. n -> Nat]
  <2>1. w = [k \in 0 .. n |-> w[k]]
    BY <1>9 DEF n
  <2> QED BY <1>11, <2>1
<1>13. w[0] = Start(Toks[1]) /\ \A k \in 1 .. n : w[k] = Hop(w[k - 1], Toks[k + 1])
  <2>1. 0 \in 0 .. n /\ \A k \in 1 .. n : k \in 0 .. n /\ k # 0
    BY <1>2
  <2> QED BY <1>10, <2>1
<1>14. IsWalk(w)
  BY <1>12, <1>13 DEF IsWalk, n
<1> QED BY <1>1, <1>14 DEF n

LEMMA StillStep ==
  ASSUME ChainAssumption, ChainInv, Still, [ChainNext]_chainVars
  PROVE  Still'
<1>0. Typed /\ Linked /\ Position
  BY DEF ChainInv
<1>1. Toks \in Seq(Part) /\ Len(Toks) \in Nat /\ (Toks # << >> => Len(Toks) # 0)
  BY <1>0, ToksType, EmptySeq
<1>2. /\ rest \in Seq(Part) /\ Len(rest) \in Nat /\ cur \in Nat
      /\ reads \in Seq(Nat \X Nat \X Nat) /\ Len(reads) \in Nat /\ env \in Nat
  BY <1>0 DEF Typed
<1>3. ASSUME UNCHANGED <<mem, env, spec, base>>
      PROVE  Toks' = Toks /\ env' = env /\ spec' = spec /\ \A w : IsWalk(w)' <=> IsWalk(w)
  <2>1. Toks' = Toks
    BY <1>3 DEF Toks
  <2>2. \A p, t : Hop(p, t)' = Hop(p, t)
    BY <1>3 DEF Hop, At
  <2>3. \A t : Start(t)' = Start(t)
    BY <1>3 DEF Start
  <2> QED BY <1>3, <2>1, <2>2, <2>3 DEF IsWalk
<1>4. CASE First
  <2>1. UNCHANGED <<mem, env, spec, base, reads>>
    BY <1>4 DEF First
  <2>2. reads = << >> /\ Len(reads) = 0 /\ ret = 0
    BY <1>0, <1>4 DEF First, Position
  <2>3. CASE ~spec.fits \/ Toks = << >>
    <3>1. pc' = "done" /\ ret' = 0
      BY <1>4, <2>3 DEF First, Return, Toks
    <3> QED BY <1>3, <2>1, <2>3, <3>1 DEF Still
  <2>4. CASE spec.fits /\ Toks # << >>
    <3>1. Head(Toks) = Toks[1] /\ 0 \in 0 .. Len(Toks) - 1
      BY <1>1, <2>4
    <3>2. CASE Toks[1].kind \in {"B", "hex"}
      <4>1. pc' = "loop" /\ cur' = Start(Toks[1])
        BY <1>4, <2>4, <3>1, <3>2 DEF First, Return, Toks, Start
      <4>2. \A w : IsWalk(w) => cur' = w[Len(reads')]
        BY <2>1, <2>2, <4>1 DEF IsWalk
      <4> QED BY <1>3, <2>1, <4>1, <4>2 DEF Still
    <3>3. CASE Toks[1].kind \notin {"B", "hex"}
      <4>1. pc' = "done" /\ ret' = 0
        BY <1>4, <2>4, <3>1, <3>3 DEF First, Return, Toks
      <4>2. Start(Toks[1]) = 0
        BY <3>3 DEF Start
      <4>3. \A w : IsWalk(w) => w[Len(Toks) - 1] = 0
        BY <1>0, <3>1, <4>2, ZeroStays DEF IsWalk
      <4> QED BY <1>3, <2>1, <4>1, <4>3 DEF Still
    <3> QED BY <3>2, <3>3
  <2> QED BY <2>3, <2>4
<1>5. CASE Step
  <2>1. UNCHANGED <<mem, env, spec, base>> /\ pc = "loop"
    BY <1>5 DEF Step
  <2>2. /\ spec.fits /\ Len(Toks) = Len(reads) + 1 + Len(rest)
        /\ \A i \in 1 .. Len(rest) : rest[i] = Toks[Len(reads) + 1 + i]
    BY <1>0, <2>1 DEF Position
  <2>3. Toks # << >>
    BY <1>2, <2>2
  <2>4. env = 0 => \A w : IsWalk(w) => cur = w[Len(reads)]
    BY <2>1 DEF Still
  <2>5. Ended \/ GaveUp \/ Hopped
    BY <1>5 DEF Step, Ended, GaveUp, Hopped
  <2>6. ASSUME rest # << >>
        PROVE  /\ Head(rest) = Toks[Len(reads) + 2]
               /\ Len(reads) + 1 \in 1 .. Len(Toks) - 1 /\ (Len(reads) + 1) - 1 = Len(reads)
               /\ (Len(reads) + 1) + 1 = Len(reads) + 2
    <3>1. Head(rest) = rest[1] /\ 1 \in 1 .. Len(rest)
      BY <1>2, <2>6, EmptySeq
    <3>2. rest[1] = Toks[Len(reads) + 1 + 1] /\ Len(reads) + 1 + 1 = Len(reads) + 2
      BY <1>2, <2>2, <3>1
    <3> QED BY <1>1, <1>2, <2>2, <3>1, <3>2
  <2>7. ASSUME rest # << >>, env = 0, NEW w, IsWalk(w)
        PROVE  w[Len(reads) + 1] = Hop(cur, Head(rest))
    <3>1. cur = w[Len(reads)]
      BY <2>4, <2>7
    <3>2. w[Len(reads) + 1] = Hop(w[(Len(reads) + 1) - 1], Toks[(Len(reads) + 1) + 1])
      BY <2>6, <2>7 DEF IsWalk
    <3> QED BY <2>6, <2>7, <3>1, <3>2
  <2>8. CASE Ended
    <3>1. pc' = "done" /\ ret' = cur /\ Len(reads) = Len(Toks) - 1
      BY <1>2, <2>2, <2>8 DEF Ended, Return
    <3> QED BY <1>3, <2>1, <2>2, <2>3, <2>4, <3>1 DEF Still
  <2>9. CASE GaveUp
    <3>1. pc' = "done" /\ ret' = 0 /\ rest # << >>
      BY <2>9 DEF GaveUp, Return
    <3>2. Hop(cur, Head(rest)) = 0
      BY <2>9 DEF GaveUp, Hop
    <3>3. Len(reads) + 1 \in 0 .. Len(Toks) - 1
      BY <1>1, <1>2, <2>6, <3>1
    <3>4. env = 0 => \A w : IsWalk(w) => w[Len(Toks) - 1] = 0
      BY <1>0, <2>7, <3>1, <3>2, <3>3, ZeroStays
    <3> QED BY <1>3, <2>1, <2>2, <2>3, <3>1, <3>4 DEF Still
  <2>10. CASE Hopped
    <3>1. pc' = "loop" /\ rest # << >> /\ cur' = Hop(cur, Head(rest))
      BY <2>1, <2>10 DEF Hopped, Hop
    <3>2. Len(reads') = Len(reads) + 1
      BY <1>2, <2>10 DEF Hopped
    <3>3. env = 0 => \A w : IsWalk(w) => cur' = w[Len(reads')]
      BY <2>7, <3>1, <3>2
    <3> QED BY <1>3, <2>1, <3>1, <3>3 DEF Still
  <2> QED BY <2>5, <2>8, <2>9, <2>10
<1>6. CASE Target
  <2>1. env' = env + 1
    BY <1>6 DEF Target
  <2>2. env' # 0
    BY <1>2, <2>1
  <2> QED BY <2>2 DEF Still
<1>7. CASE UNCHANGED chainVars
  <2>1. UNCHANGED <<mem, env, spec, base, pc, cur, reads, ret>>
    BY <1>7 DEF chainVars
  <2> QED BY <1>3, <2>1 DEF Still
<1> QED BY <1>4, <1>5, <1>6, <1>7 DEF ChainNext, Tool

(* If the target does not change its memory during the call, the result is *)
(* the repeated dereference of the tokens, and 0 as soon as one part does  *)
(* not parse, a pointer is null or an address cannot be read.              *)
THEOREM ResultIsDereference == ASSUME ChainAssumption PROVE ChainSpec => []Dereferenced
<1>1. ChainInit => Still
  <2> SUFFICES ASSUME ChainInit PROVE Still
    OBVIOUS
  <2>1. pc = "start"
    BY DEF ChainInit
  <2> QED BY <2>1 DEF Still
<1>2. ChainInv /\ Still => Dereferenced
  <2> SUFFICES ASSUME ChainInv, Still, pc = "done", env = 0
               PROVE  ret = IF ~spec.fits \/ Toks = << >> THEN 0 ELSE Dereference(Toks)
    BY DEF Dereferenced, Toks
  <2>1. CASE ~spec.fits \/ Toks = << >>
    BY <2>1 DEF Still
  <2>2. CASE spec.fits /\ Toks # << >>
    <3>1. PICK w : IsWalk(w) /\ Dereference(Toks) = w[Len(Toks) - 1]
      BY <2>2, DereferenceWalks DEF ChainInv
    <3>2. ret = w[Len(Toks) - 1]
      BY <2>2, <3>1 DEF Still
    <3> QED BY <2>2, <3>1, <3>2
  <2> QED BY <2>1, <2>2
<1> QED BY <1>1, <1>2, InitChain, ChainStep, StillStep, PTL DEF ChainSpec

(* For every memory, every specification and any number of changes of the  *)
(* target: a non-zero result is the end of a linked walk, nothing is read  *)
(* through a null pointer, and in a memory that stands still the result is *)
(* the repeated dereference.                                               *)
THEOREM ChainCorrect == ASSUME ChainAssumption PROVE ChainSpec => []ChainFollowed
<1>1. LinkedWalk /\ NoNullRead /\ Dereferenced => ChainFollowed
  BY DEF ChainFollowed
<1> QED BY <1>1, WalkIsLinked, NoReadThroughNull, ResultIsDereference, PTL

-----------------------------------------------------------------------------
(* The import of a pamap *)

(* A line of the file with an address. *)
FromFile(e) == e \in Line /\ e.pa \in Nat /\ \E n \in 1 .. Len(capture) : capture[n] = e

(* Entries come from lines with an address; while load runs none is lost,  *)
(* and what it returns holds them all.                                     *)
ImportInv ==
  /\ capture \in Seq(Line) /\ il2cppBase \in Nat \cup {NoFlag} /\ rva \in Nat
  /\ taken \in 0 .. Len(capture) /\ entries \in Seq(Line)
  /\ \A a \in DOMAIN entries : FromFile(entries[a])
  /\ stage = "flags" => taken = 0
  /\ stage = "load" => \A n \in 1 .. taken :
                         capture[n].pa # Comment => \E a \in DOMAIN entries : entries[a] = capture[n]
  /\ \A a \in DOMAIN map : FromFile(map[a])
  /\ stage \in {"ready", "done"} /\ il2cppBase \notin {NoFlag, 0}
       /\ (\A n \in Lines : capture[n].pa # Dash) =>
     \A n \in Lines : \E a \in DOMAIN map : map[a] = capture[n]
  /\ stage # "done" => pa = None
  /\ ImportRight

LEMMA ImportInitInv == ASSUME PhysMapAssumption, ImportInit PROVE ImportInv
<1>1. /\ capture \in Seq(Line) /\ il2cppBase \in Nat \cup {NoFlag} /\ rva \in Nat
      /\ Len(capture) \in Nat /\ stage = "flags" /\ pa = None
      /\ taken = 0 /\ entries = << >> /\ map = << >>
  BY DEF ImportInit, PhysMapAssumption
<1>2. ImportRight
  BY <1>1 DEF ImportRight, AnnotationTrue, FullCaptureUsed
<1> QED BY <1>1, <1>2 DEF ImportInv

LEMMA FlagsInv == ASSUME PhysMapAssumption, ImportInv, Flags PROVE ImportInv'
<1>1. /\ stage = "flags" /\ UNCHANGED <<capture, il2cppBase, taken, entries, map, rva, pa>>
      /\ stage' = IF il2cppBase = NoFlag \/ il2cppBase = 0 THEN "ready" ELSE "load"
  BY DEF Flags
<1>2. pa' = None /\ stage' # "done" /\ (stage' = "ready" => il2cppBase' \in {NoFlag, 0})
  BY <1>1 DEF ImportInv
<1>3. ImportRight'
  BY <1>2 DEF ImportRight, AnnotationTrue, FullCaptureUsed
<1>4. taken' = 0
  BY <1>1 DEF ImportInv
<1>5. (stage = "load" => \A n \in 1 .. taken :
                          capture[n].pa # Comment => \E a \in DOMAIN entries : entries[a] = capture[n])'
  BY <1>4
<1>6. (/\ \A a \in DOMAIN entries : FromFile(entries[a])
       /\ \A a \in DOMAIN map : FromFile(map[a]))'
  BY <1>1 DEF ImportInv, FromFile
<1> QED BY <1>1, <1>2, <1>3, <1>4, <1>5, <1>6 DEF ImportInv

LEMMA LoadLineInv == ASSUME PhysMapAssumption, ImportInv, LoadLine PROVE ImportInv'
<1> DEFINE l == capture[taken + 1]
<1>1. /\ stage = "load" /\ taken < Len(capture) /\ taken' = taken + 1
      /\ UNCHANGED <<capture, il2cppBase, map, rva, pa>>
      /\ \/ l.pa = Comment /\ entries' = entries /\ stage' = stage
         \/ l.pa \notin {Dash, Comment} /\ entries' = Append(entries, l) /\ stage' = stage
         \/ l.pa = Dash /\ stage' = "ready" /\ entries' = entries
  BY DEF LoadLine
<1>2. /\ capture \in Seq(Line) /\ Len(capture) \in Nat /\ taken \in 0 .. Len(capture)
      /\ entries \in Seq(Line) /\ Len(entries) \in Nat /\ DOMAIN entries = 1 .. Len(entries)
      /\ pa = None /\ taken + 1 \in 1 .. Len(capture)
  BY <1>1 DEF ImportInv
<1>3. l \in Line /\ l.pa \in Nat \cup {Dash, Comment}
  <2>1. l \in Line
    BY <1>2
  <2> QED BY <2>1 DEF Line
<1>4. stage' # "done" /\ stage' # "flags" /\ pa' = None
  BY <1>1, <1>2
<1>5. ImportRight'
  BY <1>4 DEF ImportRight, AnnotationTrue, FullCaptureUsed
<1>6. \A a \in DOMAIN entries : FromFile(entries[a])
  BY DEF ImportInv
<1>7. /\ (\A a \in DOMAIN map : FromFile(map[a]))'
      /\ (capture \in Seq(Line) /\ il2cppBase \in Nat \cup {NoFlag} /\ rva \in Nat)'
      /\ (taken \in 0 .. Len(capture))'
  BY <1>1, <1>2 DEF ImportInv, FromFile
<1> HIDE DEF l
<1>8. /\ entries' \in Seq(Line) /\ DOMAIN entries' = 1 .. Len(entries')
      /\ \A a \in DOMAIN entries : a \in DOMAIN entries' /\ entries'[a] = entries[a]
  <2>1. CASE entries' = entries
    BY <1>2, <2>1
  <2>2. CASE entries' = Append(entries, l)
    BY <1>2, <1>3, <2>2
  <2> QED BY <1>1, <2>1, <2>2
<1>9. (\A a \in DOMAIN entries : FromFile(entries[a]))'
  <2>1. CASE entries' = entries
    BY <1>1, <2>1 DEF ImportInv, FromFile
  <2>2. CASE entries' = Append(entries, l) /\ l.pa \notin {Dash, Comment}
    <3>1. \A a \in DOMAIN entries' : a \in DOMAIN entries \/ entries'[a] = l
      BY <1>2, <1>3, <2>2
    <3>2. l.pa \in Nat /\ \E n \in 1 .. Len(capture) : capture[n] = l
      BY <1>2, <1>3, <2>2 DEF l
    <3> QED BY <1>1, <1>3, <1>6, <1>8, <3>1, <3>2 DEF FromFile
  <2> QED BY <1>1, <2>1, <2>2
<1>10. (stage = "load" => \A n \in 1 .. taken :
                           capture[n].pa # Comment => \E a \in DOMAIN entries : entries[a] = capture[n])'
  <2> SUFFICES ASSUME stage' = "load", NEW n \in 1 .. taken', capture[n].pa # Comment
               PROVE  \E a \in DOMAIN entries' : entries'[a] = capture[n]
    BY <1>1
  <2>1. CASE n \in 1 .. taken
    <3>1. PICK a \in DOMAIN entries : entries[a] = capture[n]
      BY <1>1, <2>1 DEF ImportInv
    <3> QED BY <1>8, <3>1
  <2>2. CASE n = taken + 1
    <3>1. l.pa # Comment /\ capture[n] = l
      BY <2>2 DEF l
    <3>2. entries' = Append(entries, l)
      BY <1>1, <3>1
    <3>3. Len(entries) + 1 \in DOMAIN entries' /\ entries'[Len(entries) + 1] = l
      BY <1>2, <1>3, <3>2
    <3> QED BY <3>1, <3>3
  <2> QED BY <1>1, <1>2, <2>1, <2>2
<1>11. (stage \in {"ready", "done"} /\ il2cppBase \notin {NoFlag, 0}
          /\ (\A n \in Lines : capture[n].pa # Dash) =>
        \A n \in Lines : \E a \in DOMAIN map : map[a] = capture[n])'
  <2>1. CASE stage' = "load"
    BY <2>1
  <2>2. CASE l.pa = Dash
    <3>1. taken + 1 \in Lines' /\ capture'[taken + 1].pa = Dash
      BY <1>1, <1>2, <2>2 DEF Lines, l, PhysMapAssumption
    <3> QED BY <3>1
  <2> QED BY <1>1, <2>1, <2>2
<1> QED BY <1>4, <1>5, <1>7, <1>8, <1>9, <1>10, <1>11 DEF ImportInv

LEMMA LoadEndInv == ASSUME PhysMapAssumption, ImportInv, LoadEnd PROVE ImportInv'
<1>1. /\ stage = "load" /\ taken = Len(capture) /\ stage' = "ready"
      /\ UNCHANGED <<capture, il2cppBase, taken, entries, rva, pa>>
  BY DEF LoadEnd
<1>2. PICK p \in [DOMAIN entries -> DOMAIN entries] :
        /\ \A b \in DOMAIN entries : \E a \in DOMAIN entries : p[a] = b
        /\ map' = [a \in DOMAIN entries |-> entries[p[a]]]
  BY DEF LoadEnd
<1>3. pa' = None
  BY <1>1 DEF ImportInv
<1>4. ImportRight'
  BY <1>1, <1>3 DEF ImportRight, AnnotationTrue, FullCaptureUsed
<1>5. \A e : FromFile(e)' <=> FromFile(e)
  BY <1>1 DEF FromFile
<1>6. \A a \in DOMAIN entries : FromFile(entries[a])
  BY DEF ImportInv
<1>7. (\A a \in DOMAIN map : FromFile(map[a]))'
  BY <1>1, <1>2, <1>6 DEF FromFile
<1>8. (\A a \in DOMAIN entries : FromFile(entries[a]))'
  BY <1>1, <1>6 DEF FromFile
<1>9. (\A n \in Lines : \E a \in DOMAIN map : map[a] = capture[n])'
  <2> SUFFICES ASSUME NEW n \in 1 .. Len(capture), capture[n].pa # Comment
               PROVE  \E a \in DOMAIN map' : map'[a] = capture[n]
    BY <1>1 DEF Lines
  <2>1. PICK b \in DOMAIN entries : entries[b] = capture[n]
    BY <1>1 DEF ImportInv
  <2>2. PICK a \in DOMAIN entries : p[a] = b
    BY <1>2
  <2> QED BY <1>2, <2>1, <2>2
<1> QED BY <1>1, <1>3, <1>4, <1>7, <1>8, <1>9 DEF ImportInv

LEMMA AnnotateInv == ASSUME PhysMapAssumption, ImportInv, Annotate PROVE ImportInv'
<1>1. /\ stage = "ready" /\ stage' = "done"
      /\ UNCHANGED <<capture, il2cppBase, taken, entries, map, rva>>
      /\ \/ (\A a \in DOMAIN map : map[a].va # PageOf(Va)) /\ pa' = None
         \/ \E a \in DOMAIN map : map[a].va = PageOf(Va) /\ pa' = map[a].pa + (Va % Unit)
  BY DEF Annotate
<1>2. Va' = Va /\ PageOf(Va)' = PageOf(Va) /\ Lines' = Lines
  BY <1>1 DEF Va, PageOf, Lines
<1>3. AnnotationTrue'
  <2> SUFFICES ASSUME pa' # None
               PROVE  \E n \in 1 .. Len(capture) :
                        /\ capture[n].pa \notin {Dash, Comment}
                        /\ capture[n].va = PageOf(Va) /\ pa' = capture[n].pa + (Va % Unit)
    BY <1>1, <1>2 DEF AnnotationTrue
  <2>1. PICK a \in DOMAIN map : map[a].va = PageOf(Va) /\ pa' = map[a].pa + (Va % Unit)
    BY <1>1
  <2>2. FromFile(map[a])
    BY DEF ImportInv
  <2>3. map[a].pa \notin {Dash, Comment}
    BY <2>2 DEF FromFile, PhysMapAssumption
  <2> QED BY <2>1, <2>2, <2>3 DEF FromFile
<1>4. FullCaptureUsed'
  <2> SUFFICES ASSUME il2cppBase \notin {NoFlag, 0}, \A n \in Lines : capture[n].pa # Dash, pa' = None
               PROVE  \A n \in Lines : capture[n].va # PageOf(Va)
    BY <1>1, <1>2 DEF FullCaptureUsed
  <2>1. il2cppBase \in Nat /\ rva \in Nat /\ Unit \in Nat \ {0} /\ Width \in Nat \ {0}
    BY DEF ImportInv, PhysMapAssumption
  <2>2. Va \in Nat
    BY <2>1 DEF Va
  <2>3. Va % Unit \in Nat
    BY <2>1, <2>2
  <2>4. \A a \in DOMAIN map : map[a].pa \in Nat
    BY DEF ImportInv, FromFile
  <2>5. \A a \in DOMAIN map : map[a].va # PageOf(Va)
    BY <1>1, <2>3, <2>4 DEF PhysMapAssumption
  <2>6. \A n \in Lines : \E a \in DOMAIN map : map[a] = capture[n]
    BY <1>1 DEF ImportInv
  <2> QED BY <2>5, <2>6
<1>5. (/\ \A a \in DOMAIN entries : FromFile(entries[a])
       /\ \A a \in DOMAIN map : FromFile(map[a]))'
  BY <1>1 DEF ImportInv, FromFile
<1>6. (stage \in {"ready", "done"} /\ il2cppBase \notin {NoFlag, 0}
         /\ (\A n \in Lines : capture[n].pa # Dash) =>
       \A n \in Lines : \E a \in DOMAIN map : map[a] = capture[n])'
  BY <1>1, <1>2 DEF ImportInv
<1> QED BY <1>1, <1>3, <1>4, <1>5, <1>6 DEF ImportInv, ImportRight

(* For every capture, base and address: a physical address in the dump is  *)
(* the one captured for that page, at the method's own offset, and a       *)
(* capture without gaps is used in full.                                   *)
THEOREM ImportCorrect == ASSUME PhysMapAssumption PROVE ImportSpec => []ImportRight
<1>1. ImportInv /\ UNCHANGED importVars => ImportInv'
  <2> SUFFICES ASSUME ImportInv, UNCHANGED importVars PROVE ImportInv'
    OBVIOUS
  <2>1. UNCHANGED <<capture, il2cppBase, stage, taken, entries, map, rva, pa>>
    BY DEF importVars
  <2>2. ImportRight'
    BY <2>1 DEF ImportInv, ImportRight, AnnotationTrue, FullCaptureUsed, Lines, Va, PageOf
  <2> QED BY <2>1, <2>2 DEF ImportInv, FromFile, Lines
<1>2. ImportInv /\ [ImportNext]_importVars => ImportInv'
  BY <1>1, FlagsInv, LoadLineInv, LoadEndInv, AnnotateInv DEF ImportNext
<1>3. ImportInv => ImportRight
  BY DEF ImportInv
<1> QED BY <1>2, <1>3, ImportInitInv, PTL DEF ImportSpec

-----------------------------------------------------------------------------
(* Largest and smallest numbers *)

LEMMA MaxIs ==
  ASSUME NEW T \in SUBSET Int, NEW m \in T, \A y \in T : y <= m
  PROVE  Max(T) = m
<1>1. \A x \in T : (\A y \in T : x >= y) => x = m
  OBVIOUS
<1> QED BY <1>1 DEF Max

LEMMA MinIn ==
  ASSUME NEW T \in SUBSET Nat, T # {}
  PROVE  Min(T) \in T
<1> DEFINE R == OpToRel(<, Nat)
<1>1. IsWellFoundedOn(R, Nat)
  BY NatLessThanWellFounded
<1>2. \A x, y \in Nat : x < y => <<x, y>> \in R
  BY DEF OpToRel
<1> HIDE DEF R
<1>3. PICK m \in T : \A y \in T : ~ (<<y, m>> \in R)
  BY <1>1, WFMin
<1>4. \A y \in T : m <= y
  <2> SUFFICES ASSUME NEW y \in T PROVE m <= y
    OBVIOUS
  <2>1. m \in Nat /\ y \in Nat /\ ~ (<<y, m>> \in R)
    BY <1>3
  <2>2. ~ (y < m)
    BY <1>2, <2>1
  <2> QED BY <2>1, <2>2
<1> QED BY <1>4 DEF Min

(* The largest of finitely many numbers. *)
LEMMA MaxOfList ==
  ASSUME NEW n \in Nat \ {0}, NEW g \in [1 .. n -> Nat]
  PROVE  LET m == Max({g[k] : k \in 1 .. n}) IN m \in Nat /\ \A k \in 1 .. n : g[k] <= m
<1> DEFINE Has(j) == j = 0 \/ \E m \in 1 .. j : \A k \in 1 .. j : g[k] <= g[m]
           S == {j \in Nat : j <= n => Has(j)}
<1>1. 0 \in S
  OBVIOUS
<1>2. ASSUME NEW j \in Nat, j \in S PROVE j + 1 \in S
  <2> SUFFICES ASSUME j + 1 <= n
               PROVE  \E m \in 1 .. j + 1 : \A k \in 1 .. j + 1 : g[k] <= g[m]
    OBVIOUS
  <2>0. \A k \in 1 .. j + 1 : g[k] \in Nat
    OBVIOUS
  <2>1. CASE j = 0
    <3>1. \A k \in 1 .. j + 1 : k = 1
      BY <2>1
    <3>2. 1 \in 1 .. j + 1 /\ g[1] <= g[1]
      BY <2>0, <2>1
    <3> QED BY <3>1, <3>2
  <2>2. CASE j # 0
    <3>1. PICK m \in 1 .. j : \A k \in 1 .. j : g[k] <= g[m]
      BY <1>2, <2>2
    <3>2. m \in 1 .. j + 1 /\ j + 1 \in 1 .. j + 1 /\ g[m] \in Nat /\ g[j + 1] \in Nat
      BY <2>0
    <3>3. \A k \in 1 .. j + 1 : k \in 1 .. j \/ k = j + 1
      OBVIOUS
    <3>4. CASE g[m] <= g[j + 1]
      <4>1. \A k \in 1 .. j + 1 : g[k] <= g[j + 1]
        BY <2>0, <3>1, <3>2, <3>3, <3>4
      <4> QED BY <3>2, <4>1
    <3>5. CASE g[j + 1] <= g[m]
      <4>1. \A k \in 1 .. j + 1 : g[k] <= g[m]
        BY <3>1, <3>3, <3>5
      <4> QED BY <3>2, <4>1
    <3> QED BY <3>2, <3>4, <3>5
  <2> QED BY <2>1, <2>2
<1>3. n \in S
  <2> HIDE DEF S
  <2> QED BY <1>1, <1>2, AllNaturals
<1>4. PICK m \in 1 .. n : \A k \in 1 .. n : g[k] <= g[m]
  BY <1>3
<1> DEFINE T == {g[k] : k \in 1 .. n}
<1>5. T \in SUBSET Int /\ g[m] \in T /\ \A y \in T : y <= g[m]
  BY <1>4
<1>6. Max(T) = g[m]
  <2> HIDE DEF T
  <2> QED BY <1>5, MaxIs
<1> QED BY <1>4, <1>6

-----------------------------------------------------------------------------
(* The command line.  The invariant ties each label of the program to what *)
(* has been collected, opened and written by then.                         *)

SegType == [start : Nat, size : Nat \ {0}, off : Nat]

CliTyped ==
  /\ procMaps \in Seq(MapsLine) /\ at \in 0 .. Len(procMaps)
  /\ segs \in Seq(SegType) /\ Len(segs) <= SegCap
  /\ next \in 1 .. Len(segs) + 1

Flow ==
  /\ label \in {"main", "maps", "open", "dump", "pamap", "exit"}
  /\ label # "exit" => exit = -1
  /\ label = "main" => segs = << >> /\ at = 0
  /\ label \in {"maps", "open", "dump", "pamap"} => Given("--out")
  /\ label \in {"open", "dump", "pamap"} => segs # << >>
  /\ label \in {"main", "maps", "open"} => file = Absent /\ next = 1
  /\ label # "maps" => ~mf
  /\ label # "dump" => ~fd
  /\ label # "pamap" => ~pf

(* The image of the first n segments. *)
CoveringUpTo(n, c) == {k \in 1 .. n : segs[k].off < c /\ c <= segs[k].off + segs[k].size}
Cell(n, c) ==
  IF CoveringUpTo(n, c) = {} THEN Zero
  ELSE LET k == Max(CoveringUpTo(n, c)) IN segs[k].start + (c - 1 - segs[k].off)
Image(n) == Total \in Nat /\ file = [c \in 1 .. Total |-> Cell(n, c)]

Written ==
  /\ label = "dump" => Image(next - 1)
  /\ label = "pamap" => Image(Len(segs))
  /\ exit = 0 /\ segs # << >> => Image(Len(segs))

(* SegsWanted while maps is read: collecting stops at the end of maps, or  *)
(* before a line that does not fit.                                        *)
Stopped ==
  \/ at = Len(procMaps)
  \/ at < Len(procMaps) /\ Wanted(procMaps[at + 1]) /\ Len(segs) >= SegCap

SegsSoFar ==
  LibDump =>
    /\ Len(segs) = Cardinality(LinesUpTo(at))
    /\ \A n \in LinesUpTo(at) : segs[Cardinality(LinesUpTo(n))] = Seg(procMaps[n])
    /\ Collected => Stopped

CliInv == CliTyped /\ Flow /\ Written /\ OutputOnlyForDump /\ SegsSoFar

LEMMA SameArgs ==
  ASSUME argv' = argv
  PROVE  /\ \A x : Given(x)' <=> Given(x)
         /\ WantsLib' <=> WantsLib
         /\ Lib' = Lib
         /\ LibDump' <=> LibDump
<1>1. \A x : Given(x)' <=> Given(x)
  BY DEF Given, Args
<1>2. WantsLib' <=> WantsLib
  BY DEF WantsLib, HasFlag, Given, Args
<1>3. Lib' = Lib
  BY DEF Lib, FindArg, Given, Args
<1>4. LibDump' <=> LibDump
  BY <1>1, <1>2 DEF LibDump
<1> QED BY <1>1, <1>2, <1>3, <1>4

LEMMA SameLines ==
  ASSUME argv' = argv, procMaps' = procMaps
  PROVE  \A n : LinesUpTo(n)' = LinesUpTo(n)
BY SameArgs DEF LinesUpTo

LEMMA SameImage ==
  ASSUME segs' = segs, file' = file, NEW n, Image(n)
  PROVE  Image(n)'
BY DEF Image, Total, Cell, CoveringUpTo

LEMMA SegsKept ==
  ASSUME SegsSoFar, argv' = argv, procMaps' = procMaps, at' = at, segs' = segs,
         LibDump /\ Collected' => Collected \/ Stopped,
         CliAssumption, CliTyped
  PROVE  SegsSoFar'
<1>1. LinesUpTo(at)' = LinesUpTo(at) /\ \A n : LinesUpTo(n)' = LinesUpTo(n)
  BY SameLines DEF LinesUpTo
<1>2. LibDump' <=> LibDump
  BY SameArgs
<1>3. Stopped' <=> Stopped
  BY SameArgs DEF Stopped, Wanted
<1> QED BY <1>1, <1>2, <1>3 DEF SegsSoFar, Seg

(* Lines of maps are counted as they are read. *)
LEMMA LinesCounted ==
  ASSUME NEW n \in Nat
  PROVE  /\ IsFiniteSet(LinesUpTo(n)) /\ Cardinality(LinesUpTo(n)) \in Nat
         /\ LinesUpTo(0) = {} /\ Cardinality(LinesUpTo(0)) = 0
         /\ Wanted(procMaps[n + 1]) =>
              /\ LinesUpTo(n + 1) = LinesUpTo(n) \cup {n + 1}
              /\ Cardinality(LinesUpTo(n + 1)) = Cardinality(LinesUpTo(n)) + 1
         /\ ~Wanted(procMaps[n + 1]) => LinesUpTo(n + 1) = LinesUpTo(n)
         /\ \A m \in LinesUpTo(n) :
              /\ m \in 1 .. n
              /\ Cardinality(LinesUpTo(m)) \in 1 .. Cardinality(LinesUpTo(n))
<1>1. \A m \in Nat : IsFiniteSet(LinesUpTo(m)) /\ Cardinality(LinesUpTo(m)) \in Nat
  <2> SUFFICES ASSUME NEW m \in Nat
               PROVE  IsFiniteSet(LinesUpTo(m)) /\ Cardinality(LinesUpTo(m)) \in Nat
    OBVIOUS
  <2>1. IsFiniteSet(1 .. m)
    BY FS_Interval
  <2>2. LinesUpTo(m) \subseteq 1 .. m
    BY DEF LinesUpTo
  <2>3. IsFiniteSet(LinesUpTo(m))
    BY <2>1, <2>2, FS_Subset
  <2> QED BY <2>3, FS_CardinalityType
<1>2. LinesUpTo(0) = {} /\ Cardinality(LinesUpTo(0)) = 0
  <2>1. LinesUpTo(0) = {}
    BY DEF LinesUpTo
  <2> QED BY <2>1, FS_EmptySet
<1>3. ASSUME Wanted(procMaps[n + 1])
      PROVE  /\ LinesUpTo(n + 1) = LinesUpTo(n) \cup {n + 1}
             /\ Cardinality(LinesUpTo(n + 1)) = Cardinality(LinesUpTo(n)) + 1
  <2>1. LinesUpTo(n + 1) = LinesUpTo(n) \cup {n + 1}
    BY <1>3 DEF LinesUpTo, Wanted
  <2>2. n + 1 \notin LinesUpTo(n)
    BY DEF LinesUpTo
  <2> QED BY <1>1, <2>1, <2>2, FS_AddElement
<1>4. ASSUME ~Wanted(procMaps[n + 1]) PROVE LinesUpTo(n + 1) = LinesUpTo(n)
  BY <1>4 DEF LinesUpTo, Wanted
<1>5. ASSUME NEW m \in LinesUpTo(n)
      PROVE  m \in 1 .. n /\ Cardinality(LinesUpTo(m)) \in 1 .. Cardinality(LinesUpTo(n))
  <2>1. m \in 1 .. n
    BY DEF LinesUpTo
  <2>2. LinesUpTo(m) \subseteq LinesUpTo(n) /\ m \in LinesUpTo(m)
    BY <2>1 DEF LinesUpTo
  <2>3. Cardinality(LinesUpTo(m)) <= Cardinality(LinesUpTo(n))
    BY <1>1, <2>2, FS_Subset
  <2>4. Cardinality(LinesUpTo(m)) # 0
    BY <1>1, <2>1, <2>2, FS_EmptySet
  <2> QED BY <1>1, <2>1, <2>3, <2>4
<1> QED BY <1>1, <1>2, <1>3, <1>4, <1>5

LEMMA SegFacts ==
  ASSUME CliTyped, NEW k \in 1 .. Len(segs)
  PROVE  segs[k].start \in Nat /\ segs[k].size \in Nat \ {0} /\ segs[k].off \in Nat
<1>1. segs[k] \in SegType
  BY DEF CliTyped
<1> QED BY <1>1 DEF SegType

LEMMA TotalIs ==
  ASSUME CliTyped, segs # << >>
  PROVE  Total \in Nat /\ \A k \in 1 .. Len(segs) : segs[k].off + segs[k].size <= Total
<1> DEFINE g == [k \in 1 .. Len(segs) |-> segs[k].off + segs[k].size]
<1>1. Len(segs) \in Nat \ {0}
  BY DEF CliTyped
<1>2. g \in [1 .. Len(segs) -> Nat]
  BY SegFacts
<1>3. {g[k] : k \in 1 .. Len(segs)} = {segs[k].off + segs[k].size : k \in 1 .. Len(segs)}
  OBVIOUS
<1>4. \A k \in 1 .. Len(segs) : g[k] = segs[k].off + segs[k].size
  OBVIOUS
<1> HIDE DEF g
<1> DEFINE n == Len(segs)
<1>5. n \in Nat \ {0} /\ g \in [1 .. n -> Nat]
  BY <1>1, <1>2
<1> HIDE DEF n
<1>6. Max({g[k] : k \in 1 .. n}) \in Nat /\ \A k \in 1 .. n : g[k] <= Max({g[k_1] : k_1 \in 1 .. n})
  BY <1>5, MaxOfList
<1> QED BY <1>3, <1>4, <1>6 DEF Total, n

(* Writing a whole segment turns the image of the first n segments into    *)
(* that of the first n + 1.                                                *)
LEMMA OneMoreCell ==
  ASSUME CliTyped, NEW n \in 0 .. Len(segs) - 1, NEW c \in Nat
  PROVE  Cell(n + 1, c) =
           LET s == segs[n + 1] IN
           IF s.off < c /\ c <= s.off + s.size THEN s.start + (c - 1 - s.off) ELSE Cell(n, c)
<1> DEFINE s == segs[n + 1]
<1>1. CASE s.off < c /\ c <= s.off + s.size
  <2>1. /\ CoveringUpTo(n + 1, c) \in SUBSET Int /\ n + 1 \in CoveringUpTo(n + 1, c)
        /\ \A y \in CoveringUpTo(n + 1, c) : y <= n + 1
    BY <1>1 DEF CoveringUpTo
  <2>2. Max(CoveringUpTo(n + 1, c)) = n + 1
    BY <2>1, MaxIs
  <2> QED BY <1>1, <2>1, <2>2 DEF Cell
<1>2. CASE ~(s.off < c /\ c <= s.off + s.size)
  <2>1. CoveringUpTo(n + 1, c) = CoveringUpTo(n, c)
    BY <1>2 DEF CoveringUpTo
  <2> QED BY <1>2, <2>1 DEF Cell
<1> QED BY <1>1, <1>2

LEMMA LenOfFunction ==
  ASSUME NEW n \in Nat, NEW V, NEW f \in [1 .. n -> V]
  PROVE  Len(f) = n
<1>1. f \in Seq(V)
  OBVIOUS
<1>2. 1 .. Len(f) = 1 .. n /\ Len(f) \in Nat
  BY <1>1
<1> QED BY <1>2

LEMMA ImageStep ==
  ASSUME CliTyped, NEW n \in 0 .. Len(segs) - 1, Image(n),
         file' = Placed(segs[n + 1], segs[n + 1].size), segs' = segs
  PROVE  Image(n + 1)'
<1> DEFINE s == segs[n + 1]
<1>1. n + 1 \in 1 .. Len(segs) /\ segs # << >> /\ Len(segs) \in Nat
  BY DEF CliTyped
<1>2. Total \in Nat /\ s.off + s.size <= Total /\ s.off + s.size \in Nat
  BY <1>1, TotalIs, SegFacts
<1>3. Len(file) = Total
  <2> DEFINE V == {Cell(n, c) : c \in 1 .. Total}
  <2>1. file \in [1 .. Total -> V]
    BY DEF Image
  <2> QED BY <1>2, <2>1, LenOfFunction
<1>4. Max({Len(file), s.off + s.size}) = Total
  <2> DEFINE T == {Total, s.off + s.size}
  <2>1. T \in SUBSET Int /\ Total \in T /\ \A y \in T : y <= Total
    BY <1>2
  <2> HIDE DEF T
  <2>2. Max(T) = Total
    BY <2>1, MaxIs
  <2> QED BY <1>3, <2>2 DEF T
<1>5. \A c \in 1 .. Total : file[c] = Cell(n, c)
  BY DEF Image
<1>6. file' = [c \in 1 .. Total |->
         IF s.off < c /\ c <= s.off + s.size THEN s.start + (c - 1 - s.off)
         ELSE IF c <= Total THEN file[c] ELSE Zero]
  BY <1>3, <1>4 DEF Placed
<1>7. \A c \in 1 .. Total :
        Cell(n + 1, c) = IF s.off < c /\ c <= s.off + s.size THEN s.start + (c - 1 - s.off)
                         ELSE IF c <= Total THEN file[c] ELSE Zero
  BY <1>2, <1>5, OneMoreCell
<1>8. file' = [c \in 1 .. Total |-> Cell(n + 1, c)]
  BY <1>6, <1>7
<1>9. Total' = Total /\ \A c : Cell(n + 1, c)' = Cell(n + 1, c)
  BY DEF Total, Cell, CoveringUpTo
<1> QED BY <1>2, <1>8, <1>9 DEF Image

LEMMA CliInitInv ==
  ASSUME CliAssumption, CliInit
  PROVE  CliInv
<1>1. CliTyped
  BY DEF CliInit, CliAssumption, CliTyped
<1>2. SegsSoFar
  <2>1. LinesUpTo(at) = {} /\ Cardinality(LinesUpTo(at)) = 0
    BY LinesCounted DEF CliInit
  <2>2. Len(segs) = 0 /\ label = "main" /\ exit = -1
    BY DEF CliInit
  <2> QED BY <2>1, <2>2 DEF SegsSoFar, Collected
<1> QED BY <1>1, <1>2 DEF CliInit, CliInv, Flow, Written, OutputOnlyForDump

LEMMA BaseIsNat ==
  ASSUME CliTyped
  PROVE  Il2cppBase \in Nat
<1>1. CASE BaseLines = {}
  BY <1>1 DEF Il2cppBase
<1>2. CASE BaseLines # {}
  <2>1. BaseLines \in SUBSET Nat
    BY DEF BaseLines
  <2>2. Min(BaseLines) \in BaseLines
    BY <1>2, <2>1, MinIn
  <2>3. Min(BaseLines) \in 1 .. Len(procMaps)
    BY <2>2 DEF BaseLines
  <2>4. procMaps[Min(BaseLines)] \in MapsLine
    BY <2>3 DEF CliTyped
  <2> QED BY <1>2, <2>4 DEF Il2cppBase, MapsLine
<1> QED BY <1>1, <1>2

(* main ends, goes on to read maps, or has one range to dump. *)
MainEnds == label' = "exit" /\ segs' = segs /\ (LibDump => exit' # 0)
MainReads == label' = "maps" /\ exit' = exit /\ segs' = segs /\ Given("--out")
MainRanges ==
  /\ label' = "open" /\ exit' = exit /\ Given("--out")
  /\ Given("--chain") \/ ~WantsLib
  /\ \E b \in Nat, z \in Nat \ {0} : segs' = RangeSeg(b, z)

LEMMA RangeCases ==
  ASSUME NEW b \in Nat, NEW z \in Nat, RangeOrRefuse(b, z), Given("--out"),
         Given("--chain") \/ ~WantsLib
  PROVE  MainEnds \/ MainRanges
BY DEF RangeOrRefuse, MainEnds, MainRanges, Exit, Goto

LEMMA MainCases ==
  ASSUME CliAssumption, CliTyped, Main
  PROVE  MainEnds \/ MainReads \/ MainRanges
<1>1. \A name : Parses(name) => ParseU64(name) \in Nat
  BY DEF CliAssumption, Parses, ParseU64
<1>2. CASE ~Given("--pid")
  BY <1>2 DEF Main, MainEnds, Exit
<1>3. CASE Given("--pid") /\ Given("--chain")
  <2>1. Chain
    BY <1>3 DEF Main
  <2>2. CASE Exit(1) /\ segs' = segs
    BY <2>2 DEF MainEnds, Exit
  <2>3. CASE Exit(0) /\ segs' = segs
    BY <1>3, <2>3 DEF MainEnds, LibDump, Exit
  <2>4. CASE /\ Given("--out") /\ Parses("--size")
             /\ \E va \in {1, Il2cppBase + 1} : RangeOrRefuse(va, ParseU64("--size"))
    <3>1. PICK va \in {1, Il2cppBase + 1} : RangeOrRefuse(va, ParseU64("--size"))
      BY <2>4
    <3>2. va \in Nat
      BY BaseIsNat
    <3> QED BY <1>1, <1>3, <2>4, <3>1, <3>2, RangeCases
  <2> QED BY <2>1, <2>2, <2>3, <2>4 DEF Chain
<1>4. CASE Given("--pid") /\ ~Given("--chain") /\ WantsLib
  BY <1>4 DEF Main, DumpLib, MainEnds, MainReads, Exit, Goto
<1>5. CASE Given("--pid") /\ ~Given("--chain") /\ ~WantsLib
  <2>1. CASE Convert("--v2p") \/ Convert("--p2v")
    BY <1>5, <2>1 DEF Convert, MainEnds, LibDump, Exit
  <2>2. CASE DumpRange
    <3>1. CASE Exit(1) /\ segs' = segs
      BY <3>1 DEF MainEnds, Exit
    <3>2. CASE /\ Parses("--base") /\ Parses("--size")
               /\ RangeOrRefuse(ParseU64("--base"), ParseU64("--size"))
      <4>1. Given("--out")
        BY <2>2 DEF DumpRange, RawRange
      <4> QED BY <1>1, <1>5, <3>2, <4>1, RangeCases
    <3> QED BY <2>2, <3>1, <3>2 DEF DumpRange
  <2>3. CASE ResolveName \/ (Exit(1) /\ segs' = segs)
    BY <1>5, <2>3 DEF ResolveName, MainEnds, LibDump, Exit
  <2> QED BY <1>5, <2>1, <2>2, <2>3 DEF Main
<1> QED BY <1>2, <1>3, <1>4, <1>5

LEMMA MainInv ==
  ASSUME CliAssumption, CliInv, Main
  PROVE  CliInv'
<1> USE DEF CliInv
<1>1. /\ label = "main" /\ segs = << >> /\ at = 0 /\ exit = -1 /\ file = Absent /\ next = 1
      /\ ~mf /\ ~fd /\ ~pf
      /\ UNCHANGED <<argv, procMaps, at, next, file, pamap, mf, fd, pf>>
  BY DEF Main, Flow
<1>2. SegCap \in Nat \ {0}
  BY DEF CliAssumption
<1>3. OutputOnlyForDump'
  BY <1>1 DEF OutputOnlyForDump
<1>4. CASE MainEnds
  <2>1. CliTyped'
    BY <1>1, <1>4 DEF CliTyped, MainEnds
  <2>2. Flow'
    BY <1>1, <1>4 DEF Flow, MainEnds
  <2>3. Written'
    BY <1>1, <1>4 DEF Written, MainEnds
  <2>4. SegsSoFar'
    BY <1>1, <1>4, SegsKept DEF MainEnds, Collected
  <2> QED BY <1>3, <2>1, <2>2, <2>3, <2>4
<1>5. CASE MainReads
  <2>1. CliTyped'
    BY <1>1, <1>5 DEF CliTyped, MainReads
  <2>2. Flow'
    BY <1>1, <1>5, SameArgs DEF Flow, MainReads
  <2>3. Written'
    BY <1>1, <1>5 DEF Written, MainReads
  <2>4. SegsSoFar'
    BY <1>1, <1>5, SegsKept DEF MainReads, Collected
  <2> QED BY <1>3, <2>1, <2>2, <2>3, <2>4
<1>6. CASE MainRanges
  <2>1. PICK b \in Nat, z \in Nat \ {0} : segs' = <<[start |-> b, size |-> z, off |-> 0]>>
    BY <1>6 DEF MainRanges, RangeSeg
  <2>2. [start |-> b, size |-> z, off |-> 0] \in SegType
    BY DEF SegType
  <2>3. segs' \in Seq(SegType) /\ Len(segs') = 1 /\ segs' # << >>
    BY <2>1, <2>2
  <2>4. CliTyped'
    BY <1>1, <1>2, <2>3 DEF CliTyped
  <2>5. Flow'
    BY <1>1, <1>6, <2>3, SameArgs DEF Flow, MainRanges
  <2>6. Written'
    BY <1>1, <1>6 DEF Written, MainRanges
  <2>7. SegsSoFar'
    BY <1>1, <1>6, SameArgs DEF SegsSoFar, LibDump, MainRanges
  <2> QED BY <1>3, <2>4, <2>5, <2>6, <2>7
<1> QED BY <1>4, <1>5, <1>6, MainCases

LEMMA OpenMapsInv ==
  ASSUME CliAssumption, CliInv, OpenMaps
  PROVE  CliInv'
<1> USE DEF CliInv
<1>1. /\ label = "maps" /\ label' \in {"maps", "exit"} /\ exit = -1 /\ exit' # 0
      /\ label' # "exit" => exit' = exit
      /\ label' # "maps" => ~mf'
      /\ UNCHANGED <<argv, procMaps, at, segs, next, file, pamap, fd, pf>>
  BY DEF OpenMaps, Flow, Exit
<1>2. CliTyped'
  BY <1>1 DEF CliTyped
<1>3. Flow'
  BY <1>1, SameArgs DEF Flow
<1>4. Written'
  BY <1>1 DEF Written
<1>5. OutputOnlyForDump'
  BY <1>1, SameArgs DEF OutputOnlyForDump
<1>6. SegsSoFar'
  BY <1>1, SegsKept DEF Collected
<1> QED BY <1>2, <1>3, <1>4, <1>5, <1>6

LEMMA ReadLineInv ==
  ASSUME CliAssumption, CliInv, ReadLine
  PROVE  CliInv'
<1> USE DEF CliInv
<1> DEFINE l == procMaps[at + 1]
<1>1. /\ label = "maps" /\ exit = -1 /\ next = 1 /\ file = Absent /\ Given("--out") /\ ~fd /\ ~pf
      /\ UNCHANGED <<argv, procMaps, next, file, pamap, fd, pf>>
  BY DEF ReadLine, Flow
<1>2. at \in Nat /\ at + 1 \in 1 .. Len(procMaps) /\ l \in MapsLine /\ SegCap \in Nat \ {0} /\ Len(segs) \in Nat
  BY DEF ReadLine, CliTyped, CliAssumption
<1>3. OutputOnlyForDump'
  BY <1>1 DEF OutputOnlyForDump
<1>4. CASE ~Wanted(l) /\ at' = at + 1 /\ UNCHANGED <<segs, mf, label, exit>>
  <2>1. CliTyped'
    BY <1>1, <1>2, <1>4 DEF CliTyped
  <2>2. Flow'
    BY <1>1, <1>4, SameArgs DEF Flow
  <2>3. Written'
    BY <1>1, <1>4 DEF Written
  <2>4. LinesUpTo(at + 1) = LinesUpTo(at)
    BY <1>2, <1>4, LinesCounted
  <2>5. LinesUpTo(at)' = LinesUpTo(at) /\ \A n : LinesUpTo(n)' = LinesUpTo(n)
    <3>1. LinesUpTo(at)' = LinesUpTo(at + 1)
      BY <1>1, <1>4, SameArgs DEF LinesUpTo
    <3> QED BY <1>1, <2>4, <3>1, SameLines
  <2>6. LibDump' <=> LibDump
    BY <1>1, SameArgs
  <2>7. SegsSoFar'
    BY <1>1, <1>4, <2>5, <2>6 DEF SegsSoFar, Collected, Seg
  <2> QED BY <1>3, <2>1, <2>2, <2>3, <2>7
<1>5. CASE /\ Wanted(l) /\ Len(segs) < SegCap
           /\ segs' = Append(segs, Seg(l)) /\ at' = at + 1
           /\ UNCHANGED <<mf, label, exit>>
  <2>1. Seg(l) \in SegType
    BY <1>2 DEF Seg, SegType, MapsLine
  <2>2. /\ segs' \in Seq(SegType) /\ Len(segs') = Len(segs) + 1 /\ segs' # << >>
        /\ segs'[Len(segs) + 1] = Seg(l) /\ \A k \in 1 .. Len(segs) : segs'[k] = segs[k]
    BY <1>5, <2>1 DEF CliTyped
  <2>3. CliTyped'
    BY <1>1, <1>2, <1>5, <2>2 DEF CliTyped
  <2>4. Flow'
    BY <1>1, <1>5, SameArgs DEF Flow
  <2>5. Written'
    BY <1>1, <1>5 DEF Written
  <2>6. SegsSoFar'
    <3> SUFFICES ASSUME LibDump'
                 PROVE  /\ Len(segs') = Cardinality(LinesUpTo(at)')
                        /\ \A n \in LinesUpTo(at)' : segs'[Cardinality(LinesUpTo(n)')] = Seg(procMaps[n])
      <4>1. ~Collected'
        BY <1>1, <1>5 DEF Collected
      <4> QED BY <1>1, <1>5, <4>1 DEF SegsSoFar, Seg
    <3>1. /\ Len(segs) = Cardinality(LinesUpTo(at))
          /\ \A n \in LinesUpTo(at) : segs[Cardinality(LinesUpTo(n))] = Seg(procMaps[n])
      BY <1>1, SameArgs DEF SegsSoFar
    <3>2. LinesUpTo(at)' = LinesUpTo(at + 1)
      BY <1>1, <1>5, SameArgs DEF LinesUpTo
    <3>3. \A n : LinesUpTo(n)' = LinesUpTo(n)
      BY <1>1, SameLines
    <3>4. /\ LinesUpTo(at + 1) = LinesUpTo(at) \cup {at + 1}
          /\ Cardinality(LinesUpTo(at + 1)) = Len(segs) + 1
          /\ \A n \in LinesUpTo(at) : Cardinality(LinesUpTo(n)) \in 1 .. Len(segs)
      BY <1>2, <1>5, <3>1, LinesCounted
    <3>5. ASSUME NEW n \in LinesUpTo(at)' PROVE segs'[Cardinality(LinesUpTo(n)')] = Seg(procMaps[n])
      <4>1. CASE n \in LinesUpTo(at)
        BY <2>2, <3>1, <3>3, <3>4, <4>1
      <4>2. CASE n = at + 1
        BY <2>2, <3>3, <3>4, <4>2
      <4> QED BY <3>2, <3>4, <3>5, <4>1, <4>2
    <3> QED BY <2>2, <3>2, <3>4, <3>5
  <2> QED BY <1>3, <2>3, <2>4, <2>5, <2>6
<1>6. CASE /\ Wanted(l) /\ Len(segs) >= SegCap
           /\ mf' = FALSE /\ Goto("open") /\ UNCHANGED <<segs, at>>
  <2>1. CliTyped'
    BY <1>1, <1>6 DEF CliTyped
  <2>2. segs # << >>
    BY <1>2, <1>6
  <2>3. Flow'
    BY <1>1, <1>6, <2>2, SameArgs DEF Flow, Goto
  <2>4. Written'
    BY <1>1, <1>6 DEF Written, Goto
  <2>5. Stopped
    BY <1>2, <1>6 DEF Stopped
  <2>6. SegsSoFar'
    BY <1>1, <1>6, <2>5, SegsKept
  <2> QED BY <1>3, <2>1, <2>3, <2>4, <2>6
<1> QED BY <1>4, <1>5, <1>6 DEF ReadLine

LEMMA EndOfMapsInv ==
  ASSUME CliAssumption, CliInv, EndOfMaps
  PROVE  CliInv'
<1> USE DEF CliInv
<1>1. /\ label = "maps" /\ exit = -1 /\ at = Len(procMaps) /\ ~mf' /\ file = Absent
      /\ \/ label' = "exit" /\ exit' = 1 /\ segs = << >>
         \/ label' = "open" /\ exit' = exit /\ segs # << >>
      /\ UNCHANGED <<argv, procMaps, at, segs, next, file, pamap, fd, pf>>
  BY DEF EndOfMaps, Flow, Exit, Goto
<1>2. CliTyped'
  BY <1>1 DEF CliTyped
<1>3. Flow'
  BY <1>1, SameArgs DEF Flow
<1>4. Written'
  BY <1>1 DEF Written
<1>5. OutputOnlyForDump'
  BY <1>1 DEF OutputOnlyForDump
<1>6. SegsSoFar'
  BY <1>1, SegsKept DEF Stopped
<1> QED BY <1>2, <1>3, <1>4, <1>5, <1>6

LEMMA OpenOutInv ==
  ASSUME CliAssumption, CliInv, OpenOut
  PROVE  CliInv'
<1> USE DEF CliInv
<1>1. /\ label = "open" /\ exit = -1 /\ segs # << >> /\ next = 1 /\ Given("--out") /\ ~mf /\ ~pf
      /\ UNCHANGED <<argv, procMaps, at, segs, next, pamap, mf, pf>>
  BY DEF OpenOut, Flow
<1>2. CliTyped'
  BY <1>1 DEF CliTyped
<1>3. OutputOnlyForDump'
  BY <1>1, SameArgs DEF OutputOnlyForDump
<1>4. SegsSoFar'
  BY <1>1, SegsKept DEF Collected
<1>5. CASE fd' = TRUE /\ file' = [c \in 1 .. Total |-> Zero] /\ Goto("dump")
  <2>1. Flow'
    BY <1>1, <1>5, SameArgs DEF Flow, Goto
  <2>2. \A c : Cell(0, c)' = Zero
    BY DEF Cell, CoveringUpTo
  <2>3. Total' = Total /\ Total \in Nat
    BY <1>1, TotalIs DEF Total
  <2>4. Image(0)'
    BY <1>5, <2>2, <2>3 DEF Image
  <2>5. next' - 1 = 0 /\ label' = "dump" /\ exit' = -1
    BY <1>1, <1>5 DEF Goto
  <2>6. Written'
    BY <2>4, <2>5 DEF Written
  <2> QED BY <1>2, <1>3, <1>4, <2>1, <2>6
<1>6. CASE fd' = FALSE /\ Exit(1)
  <2>1. Flow'
    BY <1>1, <1>6 DEF Flow, Exit
  <2>2. Written'
    BY <1>6 DEF Written, Exit
  <2> QED BY <1>2, <1>3, <1>4, <2>1, <2>2
<1> QED BY <1>5, <1>6 DEF OpenOut

LEMMA DumpSegInv ==
  ASSUME CliAssumption, CliInv, DumpSeg
  PROVE  CliInv'
<1> USE DEF CliInv
<1>1. /\ label = "dump" /\ exit = -1 /\ segs # << >> /\ Given("--out") /\ ~mf /\ ~pf
      /\ next \in 1 .. Len(segs) /\ Image(next - 1)
      /\ UNCHANGED <<argv, procMaps, at, segs, pamap, mf, pf>>
  BY DEF DumpSeg, Flow, Written, CliTyped
<1>2. OutputOnlyForDump'
  BY <1>1, SameArgs DEF OutputOnlyForDump
<1>3. SegsSoFar'
  BY <1>1, SegsKept DEF Collected
<1>4. CASE /\ file' = Placed(segs[next], segs[next].size)
           /\ next' = next + 1 /\ UNCHANGED <<label, exit, fd>>
  <2>1. CliTyped'
    BY <1>1, <1>4 DEF CliTyped
  <2>2. Flow'
    BY <1>1, <1>4, SameArgs DEF Flow
  <2>3. PICK n \in 0 .. Len(segs) - 1 : n + 1 = next
    BY <1>1
  <2>4. n = next - 1 /\ n + 1 = next' - 1 /\ label' = "dump" /\ exit' = -1
    BY <1>1, <1>4, <2>3
  <2>5. Image(n) /\ file' = Placed(segs[n + 1], segs[n + 1].size)
    BY <1>1, <1>4, <2>3, <2>4 DEF Image, Cell, CoveringUpTo
  <2>6. Image(n + 1)'
    BY <1>1, <2>5, ImageStep
  <2>7. Image(next - 1)'
    BY <2>4, <2>6 DEF Image, Cell, CoveringUpTo
  <2>8. Written'
    BY <2>4, <2>7 DEF Written
  <2> QED BY <1>2, <1>3, <2>1, <2>2, <2>8
<1>5. CASE fd' = FALSE /\ Exit(1) /\ next' = next
  <2>1. CliTyped'
    BY <1>1, <1>5 DEF CliTyped
  <2>2. Flow'
    BY <1>1, <1>5 DEF Flow, Exit
  <2>3. Written'
    BY <1>5 DEF Written, Exit
  <2> QED BY <1>2, <1>3, <2>1, <2>2, <2>3
<1> QED BY <1>4, <1>5 DEF DumpSeg

LEMMA CloseOutInv ==
  ASSUME CliAssumption, CliInv, CloseOut
  PROVE  CliInv'
<1> USE DEF CliInv
<1>1. /\ label = "dump" /\ exit = -1 /\ segs # << >> /\ Given("--out") /\ ~mf /\ ~pf /\ ~fd'
      /\ next = Len(segs) + 1 /\ next' = 1 /\ Image(next - 1) /\ Len(segs) \in Nat
      /\ \/ label' = "pamap" /\ exit' = exit
         \/ label' = "exit"
      /\ UNCHANGED <<argv, procMaps, at, segs, file, pamap, mf, pf>>
  BY DEF CloseOut, Flow, Written, CliTyped, Exit, Goto
<1>2. PICK n \in Nat : n = Len(segs)
  BY <1>1
<1>3. n = next - 1 /\ n = Len(segs')
  BY <1>1, <1>2
<1>4. Image(n)
  BY <1>1, <1>3
<1>5. Image(n)'
  BY <1>1, <1>4, SameImage
<1>6. Image(Len(segs))'
  BY <1>3, <1>5
<1>7. CliTyped'
  BY <1>1 DEF CliTyped
<1>8. Flow'
  BY <1>1, SameArgs DEF Flow
<1>9. Written'
  BY <1>1, <1>6 DEF Written
<1>10. OutputOnlyForDump'
  BY <1>1, SameArgs DEF OutputOnlyForDump
<1>11. SegsSoFar'
  BY <1>1, SegsKept DEF Collected
<1> QED BY <1>7, <1>8, <1>9, <1>10, <1>11

(* The steps that write the pamap leave the dump alone. *)
LEMMA PamapInv ==
  ASSUME CliAssumption, CliInv, OpenPamap \/ PamapSeg \/ ClosePamap
  PROVE  CliInv'
<1> USE DEF CliInv
<1>1. /\ label = "pamap" /\ exit = -1 /\ segs # << >> /\ Given("--out") /\ ~mf /\ ~fd
      /\ Image(Len(segs)) /\ Len(segs) \in Nat
      /\ \/ label' = "pamap" /\ exit' = exit
         \/ label' = "exit" /\ ~pf'
      /\ next' = next \/ (next <= Len(segs) /\ next' = next + 1)
      /\ UNCHANGED <<argv, procMaps, at, segs, file, mf, fd>>
  BY DEF OpenPamap, PamapSeg, ClosePamap, Flow, Written, CliTyped, Exit
<1>2. PICK n \in Nat : n = Len(segs)
  BY <1>1
<1>3. Image(n)'
  BY <1>1, <1>2, SameImage
<1>4. Image(Len(segs))'
  BY <1>1, <1>2, <1>3
<1>5. CliTyped'
  BY <1>1 DEF CliTyped
<1>6. Flow'
  BY <1>1, SameArgs DEF Flow
<1>7. Written'
  BY <1>1, <1>4 DEF Written
<1>8. OutputOnlyForDump'
  BY <1>1, SameArgs DEF OutputOnlyForDump
<1>9. SegsSoFar'
  BY <1>1, SegsKept DEF Collected
<1> QED BY <1>5, <1>6, <1>7, <1>8, <1>9

LEMMA CliUnchangedInv ==
  ASSUME CliAssumption, CliInv, UNCHANGED cliVars
  PROVE  CliInv'
<1> USE DEF CliInv
<1>1. UNCHANGED <<argv, procMaps, label, at, segs, next, file, pamap, mf, fd, pf, exit>>
  BY DEF cliVars
<1>2. CliTyped'
  BY <1>1 DEF CliTyped
<1>3. Flow'
  BY <1>1, SameArgs DEF Flow
<1>4. Written'
  <2>1. Total' = Total /\ \A n, c : Cell(n, c)' = Cell(n, c)
    BY <1>1 DEF Total, Cell, CoveringUpTo
  <2>2. \A n : Image(n)' <=> Image(n)
    BY <1>1, <2>1 DEF Image
  <2> QED BY <1>1, <2>2 DEF Written
<1>5. OutputOnlyForDump'
  BY <1>1, SameArgs DEF OutputOnlyForDump
<1>6. SegsSoFar'
  BY <1>1, SegsKept DEF Collected
<1> QED BY <1>2, <1>3, <1>4, <1>5, <1>6

LEMMA CliInvRight ==
  ASSUME CliAssumption, CliInv
  PROVE  CommandRight
<1> USE DEF CliInv
<1>1. ASSUME exit = 0, segs # << >>
      PROVE  /\ Len(file) = Total
             /\ \A c \in 1 .. Len(file) :
                  file[c] = IF Covering(c) = {} THEN Zero
                            ELSE LET k == Max(Covering(c)) IN segs[k].start + (c - 1 - segs[k].off)
  <2>1. Image(Len(segs))
    BY <1>1 DEF Written
  <2>2. Len(file) = Total
    <3> DEFINE V == {Cell(Len(segs), c) : c \in 1 .. Total}
    <3>1. Total \in Nat /\ file \in [1 .. Total -> V]
      BY <2>1 DEF Image
    <3> QED BY <3>1, LenOfFunction
  <2>3. \A c : Covering(c) = CoveringUpTo(Len(segs), c)
    BY DEF Covering, CoveringUpTo
  <2>4. \A c \in 1 .. Len(file) : file[c] = Cell(Len(segs), c)
    BY <2>1, <2>2 DEF Image
  <2> QED BY <2>2, <2>3, <2>4 DEF Cell
<1>2. ImageRight
  BY <1>1 DEF ImageRight
<1>3. FilesClosed
  BY DEF Flow, FilesClosed
<1>4. SegsWanted
  <2>1. ASSUME LibDump, Collected, Cardinality(LinesUpTo(Len(procMaps))) <= SegCap
        PROVE  at = Len(procMaps)
    <3> DEFINE all == LinesUpTo(Len(procMaps))
    <3>1. SUFFICES ASSUME at < Len(procMaps), Wanted(procMaps[at + 1]), Len(segs) >= SegCap
                   PROVE  FALSE
      BY <2>1 DEF SegsSoFar, Stopped
    <3>2. Len(procMaps) \in Nat /\ at \in Nat /\ at + 1 \in Nat /\ SegCap \in Nat
      BY DEF CliTyped, CliAssumption
    <3>3. Cardinality(LinesUpTo(at + 1)) = Len(segs) + 1
      BY <2>1, <3>1, <3>2, LinesCounted DEF SegsSoFar
    <3>4. LinesUpTo(at + 1) \subseteq all
      BY <3>1, <3>2 DEF LinesUpTo
    <3>5. IsFiniteSet(all) /\ Cardinality(all) \in Nat
      BY <3>2, LinesCounted
    <3>6. Cardinality(LinesUpTo(at + 1)) <= Cardinality(all)
      BY <3>4, <3>5, FS_Subset
    <3>7. Len(segs) \in Nat
      BY DEF CliTyped
    <3> QED BY <2>1, <3>1, <3>2, <3>3, <3>5, <3>6, <3>7
  <2>2. ASSUME LibDump, Collected, ~(Cardinality(LinesUpTo(Len(procMaps))) <= SegCap)
        PROVE  Len(segs) = SegCap
    <3>1. Len(segs) \in Nat /\ Len(segs) <= SegCap /\ SegCap \in Nat
      BY DEF CliTyped, CliAssumption
    <3>2. at # Len(procMaps)
      BY <2>2, <3>1 DEF SegsSoFar
    <3> QED BY <2>2, <3>1, <3>2 DEF SegsSoFar, Stopped
  <2> QED BY <2>1, <2>2 DEF SegsWanted, SegsSoFar
<1> QED BY <1>2, <1>3, <1>4 DEF CommandRight

(* For every command line, every maps file and every bound on the number   *)
(* of segments: an exit status of 0 after a dump means a complete and      *)
(* correct image of the segments collected; these are all the readable     *)
(* ones of the matching lines when the array holds that many, and the      *)
(* first SegCap of them otherwise; the output is not truncated before      *)
(* there is something to write, and every way out closes the files.        *)
THEOREM CommandCorrect == ASSUME CliAssumption PROVE CliSpec => []CommandRight
<1>1. CliInv /\ [CliNext]_cliVars => CliInv'
  BY MainInv, OpenMapsInv, ReadLineInv, EndOfMapsInv, OpenOutInv, DumpSegInv, CloseOutInv,
     PamapInv, CliUnchangedInv DEF CliNext
<1>2. CliInv => CommandRight
  BY CliInvRight
<1> QED BY <1>1, <1>2, CliInitInv, PTL DEF CliSpec

-----------------------------------------------------------------------------
(* The pagemap functions, for pages of 4 KiB. *)

LEMMA Division ==
  ASSUME NEW u \in Nat \ {0}, NEW q \in Nat, NEW r \in 0 .. u - 1
  PROVE  (q * u + r) \div u = q /\ (q * u + r) % u = r
<1> DEFINE x == q * u + r
           d == x \div u
           m == x % u
<1>1. x \in Nat
  OBVIOUS
<1>2. d \in Int /\ m \in 0 .. u - 1 /\ x = u * d + m
  BY <1>1
<1>3. ~ (d >= q + 1)
  OBVIOUS
<1>4. ~ (d <= q - 1)
  OBVIOUS
<1> QED BY <1>2, <1>3, <1>4

LEMMA Remainder ==
  ASSUME NEW u \in Nat \ {0}, NEW x \in Nat
  PROVE  x \div u \in Nat /\ x % u \in 0 .. u - 1 /\ x = (x \div u) * u + (x % u)
OBVIOUS

(* Joining a page number and an offset of a page. *)
LEMMA JoinedIs ==
  ASSUME PagemapAssumption, K = 1, NEW n \in Nat, NEW x \in Nat
  PROVE  /\ Joined(n, x % ps) \in Nat
         /\ Joined(n, x % ps) \div ps = n /\ Joined(n, x % ps) % ps = x % ps
<1> DEFINE u == PageUnit
           r == x % u
<1>1. u \in Nat \ {0} /\ ps = u
  BY DEF PagemapAssumption, ps
<1>2. r \in 0 .. u - 1
  BY <1>1, Remainder
<1>3. r \div u = 0 /\ r % u = r
  <2>1. (0 * u + r) \div u = 0 /\ (0 * u + r) % u = r
    <3> HIDE DEF u, r
    <3> QED BY <1>1, <1>2, Division
  <2>2. 0 * u + r = r
    BY <1>1, <1>2
  <2> QED BY <2>1, <2>2
<1>4. Joined(n, r) = u * n + r
  BY <1>3 DEF Joined
<1>5. u * n + r = n * u + r /\ n * u + r \in Nat
  BY <1>1, <1>2
<1>6. (n * u + r) \div u = n /\ (n * u + r) % u = r
  <2> HIDE DEF u, r
  <2> QED BY <1>1, <1>2, Division
<1> QED BY <1>1, <1>4, <1>5, <1>6

FirstPage == req.a \div PageUnit
EndPage == (req.a + req.size + PageUnit - 1) \div PageUnit

PagemapTyped ==
  /\ pt \in [Pages -> Frames \cup {NotPresent}] /\ alive \in BOOLEAN
  /\ vmas \in Seq([start : Nat, end : Nat])
  /\ req \in [op : {"v2p", "p2v", "pamap"}, a : Nat, size : Nat]
  /\ step \in {"open", "v2p", "p2v", "pamap", "line", "scan", "done"}
  /\ lineNo \in 0 .. Len(vmas) /\ pg \in Nat /\ epg \in Nat
  /\ lines \in Seq([va : Nat, pa : Nat \cup {NotPresent}])

(* What has been opened and answered when. *)
Answering ==
  /\ step = "v2p" => req.op = "v2p"
  /\ step \in {"p2v", "line", "scan"} => req.op = "p2v"
  /\ step = "pamap" => req.op = "pamap"
  /\ step # "done" => result = 0
  /\ step = "open" => lines = << >> /\ missed = {} /\ lineNo = 0 /\ ~pagemapFd
  /\ step \notin {"line", "scan"} => ~mapsFd
  /\ step = "done" => ~pagemapFd

(* The lines of a range listed up to page e: a page gone through has a     *)
(* line or was not read, and the lines ascend.                             *)
Listed(e) ==
  /\ \A m \in FirstPage .. e - 1 :
       (\E n \in 1 .. Len(lines) : lines[n].va = m * PageUnit) <=> <<0, m>> \notin missed
  /\ \A n \in 1 .. Len(lines) : \E m \in FirstPage .. e - 1 : lines[n].va = m * PageUnit
  /\ \A n \in 1 .. Len(lines) : n > 1 => lines[n - 1].va < lines[n].va
  /\ \A x \in missed : \E m \in FirstPage .. e - 1 : x = <<0, m>>

Listing ==
  /\ step = "pamap" => epg = EndPage /\ pg \in FirstPage .. EndPage /\ lineNo = 0 /\ Listed(pg)
  /\ Done("pamap") /\ result = 0 => Listed(EndPage)

PagemapInv ==
  /\ PagemapTyped /\ Answering /\ Holding(pt) \subseteq held
  /\ V2PTrue /\ P2VTrue /\ LinesTrue /\ Listing

LEMMA PagemapInitInv ==
  ASSUME PagemapAssumption, PagemapInit
  PROVE  PagemapInv
<1>1. PagemapTyped
  BY DEF PagemapAssumption, PagemapInit, PagemapTyped
<1>2. Len(lines) = 0 /\ step = "open" /\ lines = << >>
  BY DEF PagemapInit
<1>3. LinesTrue
  BY <1>2 DEF LinesTrue
<1>4. Listing
  BY <1>2 DEF Listing, Done
<1>5. V2PTrue /\ P2VTrue
  BY <1>2 DEF V2PTrue, P2VTrue, Done
<1>6. Answering /\ Holding(pt) \subseteq held
  BY DEF PagemapInit, Answering
<1> QED BY <1>1, <1>3, <1>4, <1>5, <1>6 DEF PagemapInv

(* A page that is seen present is one of the pages held. *)
LEMMA SeenIsHeld ==
  ASSUME PagemapAssumption, PagemapInv, NEW k \in Nat, NEW whole, Present(k, whole)
  PROVE  Frame(k) \in Nat /\ <<k, Frame(k)>> \in held
<1>1. k \in Pages /\ pt[k] # NotPresent /\ Frame(k) = pt[k]
  BY DEF Present, Frame
<1>2. <<k, pt[k]>> \in Holding(pt)
  BY <1>1 DEF Holding
<1>3. pt[k] \in Frames
  BY <1>1 DEF PagemapInv, PagemapTyped
<1> QED BY <1>1, <1>2, <1>3 DEF PagemapInv, PagemapAssumption

LEMMA PageFacts ==
  ASSUME PagemapAssumption, PagemapTyped
  PROVE  /\ PageUnit \in Nat \ {0}
         /\ FirstPage \in Nat /\ EndPage \in Nat /\ FirstPage <= EndPage
         /\ req.a \in Nat /\ req.size \in Nat
<1>1. PageUnit \in Nat \ {0}
  BY DEF PagemapAssumption
<1>2. req.a \in Nat /\ req.size \in Nat
  BY DEF PagemapTyped
<1> DEFINE x == req.a
           y == req.a + req.size + PageUnit - 1
           u == PageUnit
           d == x \div u
           e == y \div u
<1>3. x \in Nat /\ y \in Nat /\ y >= x /\ u \in Nat \ {0}
  BY <1>1, <1>2
<1>4. /\ d \in Nat /\ x % u \in 0 .. u - 1 /\ x = d * u + (x % u)
      /\ e \in Nat /\ y % u \in 0 .. u - 1 /\ y = e * u + (y % u)
  <2> HIDE DEF x, y, u
  <2> QED BY <1>3, Remainder DEF d, e
<1>5. d <= e
  <2> HIDE DEF x, y, u, d, e
  <2> SUFFICES ASSUME d >= e + 1 PROVE FALSE
    BY <1>4
  <2>1. d * u >= e * u + u
    BY <1>3, <1>4
  <2> QED BY <1>3, <1>4, <2>1
<1> QED BY <1>1, <1>2, <1>4, <1>5 DEF FirstPage, EndPage

LEMMA OpenPagemapInv ==
  ASSUME PagemapAssumption, K = 1, PagemapInv, OpenPagemap
  PROVE  PagemapInv'
<1> USE DEF PagemapInv
<1>1. /\ step = "open" /\ lines = << >> /\ missed = {} /\ lineNo = 0
      /\ ~pagemapFd /\ ~mapsFd /\ result = 0
      /\ pg' = FirstPage /\ epg' = EndPage
      /\ \/ alive /\ step' = req.op /\ result' = result
         \/ step' = "done" /\ result' = Failed /\ pagemapFd' = pagemapFd
      /\ UNCHANGED <<pt, alive, held, changes, vmas, req, mapsFd, lineNo, scanned, lines, missed>>
  BY DEF OpenPagemap, Answering, target, FirstPage, EndPage, ps, PagemapAssumption
<1>2. FirstPage \in Nat /\ EndPage \in Nat /\ FirstPage <= EndPage
  BY PageFacts
<1>3. req.op \in {"v2p", "p2v", "pamap"}
  BY DEF PagemapTyped
<1>4. FirstPage' = FirstPage /\ EndPage' = EndPage /\ Len(lines') = 0
  BY <1>1 DEF FirstPage, EndPage
<1>5. PagemapTyped'
  BY <1>1, <1>2, <1>3 DEF PagemapTyped
<1>6. Answering'
  BY <1>1, <1>3 DEF Answering
<1>7. step' = "done" => result' = Failed
  BY <1>1, <1>3
<1>8. V2PTrue' /\ P2VTrue'
  BY <1>1, <1>7 DEF V2PTrue, P2VTrue, Done, Failed
<1>9. LinesTrue'
  BY <1>4 DEF LinesTrue
<1>10. Listing'
  <2>1. Listed(FirstPage)'
    BY <1>1, <1>2, <1>4 DEF Listed
  <2>2. ~(Done("pamap") /\ result = 0)'
    BY <1>1, <1>3, <1>7 DEF Done, Failed
  <2>3. step' = "pamap" => pg' = FirstPage' /\ epg' = EndPage' /\ lineNo' = 0
    BY <1>1, <1>4
  <2> QED BY <1>2, <1>4, <2>1, <2>2, <2>3 DEF Listing, Listed
<1>11. (Holding(pt) \subseteq held)'
  BY <1>1 DEF Holding
<1> QED BY <1>5, <1>6, <1>8, <1>9, <1>10, <1>11

LEMMA V2PInv ==
  ASSUME PagemapAssumption, K = 1, PagemapInv, V2P
  PROVE  PagemapInv'
<1> USE DEF PagemapInv
<1>1. /\ step = "v2p" /\ req.op = "v2p" /\ step' = "done" /\ ~pagemapFd' /\ ~mapsFd
      /\ UNCHANGED <<pt, alive, held, changes, vmas, req, mapsFd, lineNo, pg, epg, scanned, lines, missed>>
  BY DEF V2P, Answering, target
<1>2. PagemapTyped'
  BY <1>1 DEF PagemapTyped
<1>3. Answering'
  BY <1>1 DEF Answering
<1>4. P2VTrue' /\ Listing'
  BY <1>1 DEF P2VTrue, Listing, Done
<1>5. LinesTrue'
  BY <1>1 DEF LinesTrue, TrueAt, ps
<1>6. V2PTrue'
  <2> SUFFICES ASSUME result' # 0 PROVE TrueAt(req.a, result)'
    BY DEF V2PTrue
  <2> DEFINE k == req.a \div ps
  <2>1. req.a \in Nat /\ ps \in Nat \ {0}
    BY DEF PagemapTyped, PagemapAssumption, ps
  <2>2. k \in Nat
    BY <2>1, Remainder
  <2>3. PICK whole \in Wholes : Present(k, whole) /\ result' = Joined(Frame(k), req.a % ps)
    BY DEF V2P
  <2>4. Frame(k) \in Nat /\ <<k, Frame(k)>> \in held
    <3> HIDE DEF k
    <3> QED BY <2>2, <2>3, SeenIsHeld
  <2>5. result' \div ps = Frame(k) /\ result' % ps = req.a % ps
    BY <2>1, <2>3, <2>4, JoinedIs
  <2> QED BY <1>1, <2>4, <2>5 DEF TrueAt, ps
<1>7. (Holding(pt) \subseteq held)'
  BY <1>1 DEF Holding
<1> QED BY <1>2, <1>3, <1>4, <1>5, <1>6, <1>7

LEMMA OpenMapsFileInv ==
  ASSUME PagemapAssumption, K = 1, PagemapInv, OpenMapsFile
  PROVE  PagemapInv'
<1> USE DEF PagemapInv
<1>1. /\ step = "p2v" /\ req.op = "p2v" /\ result = 0
      /\ \/ step' = "line"
         \/ step' = "done" /\ ~pagemapFd' /\ ~mapsFd'
      /\ UNCHANGED <<pt, alive, held, changes, vmas, req, lineNo, pg, epg, scanned, lines, missed, result>>
  BY DEF OpenMapsFile, Answering, target
<1>2. PagemapTyped'
  BY <1>1 DEF PagemapTyped
<1>3. Answering'
  BY <1>1 DEF Answering
<1>4. V2PTrue' /\ P2VTrue' /\ Listing'
  BY <1>1 DEF V2PTrue, P2VTrue, Listing, Done
<1>5. LinesTrue'
  BY <1>1 DEF LinesTrue, TrueAt, ps
<1>6. (Holding(pt) \subseteq held)'
  BY <1>1 DEF Holding
<1> QED BY <1>2, <1>3, <1>4, <1>5, <1>6

LEMMA NextLineInv ==
  ASSUME PagemapAssumption, K = 1, PagemapInv, NextLine
  PROVE  PagemapInv'
<1> USE DEF PagemapInv
<1>1. /\ step = "line" /\ req.op = "p2v" /\ result = 0
      /\ UNCHANGED <<pt, alive, held, changes, vmas, req, scanned, lines, missed, result>>
  BY DEF NextLine, Answering, target
<1>2. \/ step' \in {"line", "scan"}
      \/ step' = "done" /\ ~pagemapFd' /\ ~mapsFd'
  BY DEF NextLine, CloseBoth
<1>3. lineNo' \in 0 .. Len(vmas) /\ pg' \in Nat /\ epg' \in Nat
  <2>1. CASE lineNo < Len(vmas) /\ pg' = vmas[lineNo + 1].start \div PageUnit
             /\ epg' = (vmas[lineNo + 1].end + ps - 1) \div PageUnit /\ lineNo' = lineNo + 1
    <3> DEFINE v == vmas[lineNo + 1]
    <3>1. lineNo + 1 \in 1 .. Len(vmas)
      BY <2>1 DEF PagemapTyped
    <3>2. v \in [start : Nat, end : Nat]
      <4>1. vmas \in Seq([start : Nat, end : Nat])
        BY DEF PagemapTyped
      <4> QED BY <3>1, <4>1, ElementOfSeq
    <3>3. PageUnit \in Nat \ {0} /\ v.start \in Nat /\ v.end + ps - 1 \in Nat
      BY <3>2 DEF PagemapAssumption, ps
    <3>4. v.start \div PageUnit \in Nat /\ (v.end + ps - 1) \div PageUnit \in Nat
      BY <3>3, Remainder
    <3> QED BY <2>1, <3>1, <3>4
  <2>2. CASE UNCHANGED <<lineNo, pg, epg>>
    BY <2>2 DEF PagemapTyped
  <2> QED BY <2>1, <2>2 DEF NextLine
<1>4. PagemapTyped'
  BY <1>1, <1>2, <1>3 DEF PagemapTyped
<1>5. Answering'
  BY <1>1, <1>2 DEF Answering
<1>6. V2PTrue' /\ P2VTrue' /\ Listing'
  BY <1>1, <1>2 DEF V2PTrue, P2VTrue, Listing, Done
<1>7. LinesTrue'
  BY <1>1 DEF LinesTrue, TrueAt, ps
<1>8. (Holding(pt) \subseteq held)'
  BY <1>1 DEF Holding
<1> QED BY <1>4, <1>5, <1>6, <1>7, <1>8

LEMMA ScanInv ==
  ASSUME PagemapAssumption, K = 1, PagemapInv, Scan
  PROVE  PagemapInv'
<1> USE DEF PagemapInv
<1>1. /\ step = "scan" /\ req.op = "p2v" /\ result = 0
      /\ UNCHANGED <<pt, alive, held, changes, vmas, req, lineNo, epg, lines>>
  BY DEF Scan, ScanPage, Answering, target
<1>2. /\ \/ step' \in {"line", "scan"} /\ result' = 0
         \/ step' = "done" /\ ~pagemapFd' /\ ~mapsFd'
      /\ pg' \in {pg, pg + 1}
  BY <1>1 DEF Scan, ScanPage, CloseBoth
<1>3. PagemapTyped'
  BY <1>1, <1>2 DEF PagemapTyped
<1>4. Answering'
  BY <1>1, <1>2 DEF Answering
<1>5. V2PTrue' /\ Listing'
  BY <1>1, <1>2 DEF V2PTrue, Listing, Done
<1>6. LinesTrue'
  BY <1>1 DEF LinesTrue, TrueAt, ps
<1>7. P2VTrue'
  <2> SUFFICES ASSUME result' # 0 PROVE TrueAt(result, req.a)'
    BY DEF P2VTrue
  <2>1. PICK whole \in Wholes :
          Present(pg, whole) /\ Frame(pg) = WantPfn /\ result' = Joined(pg, req.a % ps)
    BY <1>1 DEF Scan, ScanPage, Hit
  <2>2. pg \in Nat /\ req.a \in Nat
    BY DEF PagemapTyped
  <2>3. <<pg, WantPfn>> \in held
    BY <2>1, <2>2, SeenIsHeld
  <2>4. result' \div ps = pg /\ result' % ps = req.a % ps
    BY <2>1, <2>2, JoinedIs
  <2>5. WantPfn = req.a \div ps
    BY DEF WantPfn, ps, PagemapAssumption
  <2> QED BY <1>1, <2>3, <2>4, <2>5 DEF TrueAt, ps
<1>8. (Holding(pt) \subseteq held)'
  BY <1>1 DEF Holding
<1> QED BY <1>3, <1>4, <1>5, <1>6, <1>7, <1>8

(* The pages listed so far are all before page e, so that a line or a gap  *)
(* there extends the list.                                                 *)
LEMMA NoLineYet ==
  ASSUME NEW u \in Nat \ {0}, NEW e \in Nat, NEW m \in Nat, m < e
  PROVE  m * u < e * u
<1>1. m * u + u <= e * u /\ m * u \in Nat /\ e * u \in Nat
  <2>1. PICK d \in Nat : e = m + 1 + d
    <3>1. e - m - 1 \in Nat /\ e = m + 1 + (e - m - 1)
      OBVIOUS
    <3> QED BY <3>1
  <2>2. e * u = m * u + u + d * u /\ d * u \in Nat
    BY <2>1
  <2> QED BY <2>2
<1> QED BY <1>1

LEMMA PageSkipped ==
  ASSUME PageUnit \in Nat \ {0}, FirstPage \in Nat, NEW e \in Nat, FirstPage <= e, Listed(e),
         req' = req, lines' = lines, missed' = missed \cup {<<0, e>>}
  PROVE  Listed(e + 1)'
<1>1. FirstPage' = FirstPage /\ FirstPage .. (e + 1) - 1 = (FirstPage .. e - 1) \cup {e}
  BY DEF FirstPage
<1>2. \A n \in 1 .. Len(lines) : lines[n].va # e * PageUnit
  <2> SUFFICES ASSUME NEW n \in 1 .. Len(lines) PROVE lines[n].va # e * PageUnit
    OBVIOUS
  <2>1. PICK m \in FirstPage .. e - 1 : lines[n].va = m * PageUnit
    BY DEF Listed
  <2>2. m \in Nat /\ m < e
    OBVIOUS
  <2>3. m * PageUnit < e * PageUnit /\ m * PageUnit \in Nat /\ e * PageUnit \in Nat
    BY <2>2, NoLineYet
  <2> QED BY <2>1, <2>3
<1>3. e \notin FirstPage .. e - 1
  OBVIOUS
<1> QED BY <1>1, <1>2, <1>3 DEF Listed

LEMMA PageListed ==
  ASSUME PageUnit \in Nat \ {0}, FirstPage \in Nat, NEW e \in Nat, FirstPage <= e, Listed(e),
         req' = req, missed' = missed, Len(lines) \in Nat, Len(lines') = Len(lines) + 1,
         lines'[Len(lines) + 1].va = e * PageUnit, \A n \in 1 .. Len(lines) : lines'[n] = lines[n]
  PROVE  Listed(e + 1)'
<1> DEFINE k == Len(lines)
<1>1. FirstPage' = FirstPage /\ FirstPage .. (e + 1) - 1 = (FirstPage .. e - 1) \cup {e}
  BY DEF FirstPage
<1>2. 1 .. Len(lines') = (1 .. k) \cup {k + 1} /\ k + 1 \in 1 .. Len(lines')
  OBVIOUS
<1>3. \A m \in FirstPage .. e - 1 : m * PageUnit < e * PageUnit /\ m * PageUnit # e * PageUnit
  <2> SUFFICES ASSUME NEW m \in FirstPage .. e - 1
               PROVE  m * PageUnit < e * PageUnit /\ m * PageUnit # e * PageUnit
    OBVIOUS
  <2>1. m \in Nat /\ m < e
    OBVIOUS
  <2>2. m * PageUnit < e * PageUnit /\ m * PageUnit \in Nat /\ e * PageUnit \in Nat
    BY <2>1, NoLineYet
  <2> QED BY <2>2
<1>4. \A n \in 1 .. k : \E m \in FirstPage .. e - 1 : lines'[n].va = m * PageUnit
  BY DEF Listed
<1>5. \A x \in missed : \E m \in FirstPage .. e - 1 : x = <<0, m>>
  BY DEF Listed
<1>6. <<0, e>> \notin missed
  BY <1>5
<1>7. \A m \in FirstPage .. e - 1 :
        (\E n \in 1 .. Len(lines') : lines'[n].va = m * PageUnit) <=> <<0, m>> \notin missed
  BY <1>2, <1>3 DEF Listed
<1>8. \E n \in 1 .. Len(lines') : lines'[n].va = e * PageUnit
  BY <1>2
<1>9. \A n \in 1 .. Len(lines') : n > 1 => lines'[n - 1].va < lines'[n].va
  <2> SUFFICES ASSUME NEW n \in 1 .. Len(lines'), n > 1 PROVE lines'[n - 1].va < lines'[n].va
    OBVIOUS
  <2>1. n - 1 \in 1 .. k
    OBVIOUS
  <2>2. CASE n \in 1 .. k
    BY <2>1, <2>2 DEF Listed
  <2>3. CASE n = k + 1
    BY <1>3, <1>4, <2>1, <2>3
  <2> QED BY <1>2, <2>2, <2>3
<1> HIDE DEF k
<1>10. \A m \in FirstPage .. (e + 1) - 1 :
        (\E n \in 1 .. Len(lines') : lines'[n].va = m * PageUnit) <=> <<0, m>> \notin missed
  BY <1>1, <1>6, <1>7, <1>8
<1>11. \A n \in 1 .. Len(lines') : \E m \in FirstPage .. (e + 1) - 1 : lines'[n].va = m * PageUnit
  BY <1>1, <1>2, <1>4 DEF k
<1> QED BY <1>1, <1>5, <1>9, <1>10, <1>11 DEF Listed

LEMMA EmitInv ==
  ASSUME PagemapAssumption, K = 1, PagemapInv, Emit
  PROVE  PagemapInv'
<1> USE DEF PagemapInv
<1>1. /\ step = "pamap" /\ req.op = "pamap" /\ result = 0 /\ ~mapsFd /\ lineNo = 0
      /\ epg = EndPage /\ pg \in FirstPage .. EndPage /\ Listed(pg)
      /\ UNCHANGED <<pt, alive, held, changes, vmas, req, mapsFd, lineNo, epg, scanned, result>>
  BY DEF Emit, Answering, Listing, target
<1>2. FirstPage' = FirstPage /\ EndPage' = EndPage
  BY <1>1 DEF FirstPage, EndPage
<1>3. /\ FirstPage \in Nat /\ EndPage \in Nat /\ pg \in Nat /\ PageUnit \in Nat \ {0} /\ ps = PageUnit
      /\ lines \in Seq([va : Nat, pa : Nat \cup {NotPresent}]) /\ Len(lines) \in Nat
  BY PageFacts DEF PagemapTyped, ps
<1>4. (Holding(pt) \subseteq held)'
  BY <1>1 DEF Holding
<1>5. V2PTrue' /\ P2VTrue'
  BY <1>1 DEF V2PTrue, P2VTrue, Done
<1>6. ASSUME NEW whole \in Wholes, pg < epg, pg' = pg + 1, Missing(whole),
             IF ~whole THEN lines' = lines
             ELSE AddLine(IF Present(pg, whole) THEN PhysAddr ELSE NotPresent),
             UNCHANGED <<pagemapFd, step>>
      PROVE  PagemapInv'
  <2>1. Answering'
    BY <1>1, <1>6 DEF Answering
  <2>2. pg' \in FirstPage .. EndPage
    BY <1>1, <1>3, <1>6
  <2>3. PICK e \in Nat : e = pg /\ e + 1 = pg' /\ FirstPage <= e /\ Listed(e)
    BY <1>1, <1>3, <1>6
  <2>4. CASE ~whole
    <3>1. lines' = lines /\ missed' = missed \cup {<<0, pg>>}
      BY <1>1, <1>6, <2>4 DEF Missing
    <3>2. PagemapTyped'
      BY <1>1, <1>3, <1>6, <3>1 DEF PagemapTyped
    <3>3. LinesTrue'
      BY <1>1, <3>1 DEF LinesTrue, TrueAt, ps
    <3>4. Listed(e + 1)'
      BY <1>1, <1>3, <2>3, <3>1, PageSkipped
    <3>5. Listed(pg)'
      BY <2>3, <3>4 DEF Listed
    <3>6. Listing'
      BY <1>1, <1>2, <1>6, <2>2, <3>5 DEF Listing, Done
    <3> QED BY <1>4, <1>5, <2>1, <3>2, <3>3, <3>6
  <2>5. CASE whole
    <3> DEFINE l == [va |-> pg * PageUnit,
                     pa |-> IF Present(pg, whole) THEN PhysAddr ELSE NotPresent]
    <3>1. lines' = Append(lines, l) /\ missed' = missed
      BY <1>6, <2>5 DEF AddLine, Missing
    <3>2. pg * PageUnit \in Nat
      BY <1>3
    <3>3. (pg * PageUnit) \div ps = pg /\ (pg * PageUnit) % ps = 0
      <4>1. (pg * PageUnit + 0) \div PageUnit = pg /\ (pg * PageUnit + 0) % PageUnit = 0
        BY <1>3, Division
      <4> QED BY <1>3, <3>2, <4>1
    <3>4. Present(pg, whole) => /\ l.pa \in Nat /\ <<pg, Frame(pg)>> \in held
                                /\ l.pa \div ps = Frame(pg) /\ l.pa % ps = 0
      <4> SUFFICES ASSUME Present(pg, whole)
                   PROVE  /\ l.pa \in Nat /\ <<pg, Frame(pg)>> \in held
                          /\ l.pa \div ps = Frame(pg) /\ l.pa % ps = 0
        OBVIOUS
      <4>1. Frame(pg) \in Nat /\ <<pg, Frame(pg)>> \in held
        BY <1>3, SeenIsHeld
      <4>2. l.pa = Joined(Frame(pg), (pg * PageUnit) % ps)
        BY DEF PhysAddr
      <4>3. /\ Joined(Frame(pg), (pg * PageUnit) % ps) \in Nat
            /\ Joined(Frame(pg), (pg * PageUnit) % ps) \div ps = Frame(pg)
            /\ Joined(Frame(pg), (pg * PageUnit) % ps) % ps = (pg * PageUnit) % ps
        BY <3>2, <4>1, JoinedIs
      <4> HIDE DEF l
      <4> QED BY <3>3, <4>1, <4>2, <4>3
    <3>5. l.va = pg * PageUnit /\ (~Present(pg, whole) => l.pa = NotPresent)
      OBVIOUS
    <3>6. l \in [va : Nat, pa : Nat \cup {NotPresent}]
      BY <3>2, <3>4
    <3> HIDE DEF l
    <3>7. /\ lines' \in Seq([va : Nat, pa : Nat \cup {NotPresent}]) /\ Len(lines') = Len(lines) + 1
          /\ lines'[Len(lines) + 1] = l /\ \A n \in 1 .. Len(lines) : lines'[n] = lines[n]
      BY <1>3, <3>1, <3>6
    <3>8. PagemapTyped'
      BY <1>1, <1>3, <1>6, <3>7 DEF PagemapTyped
    <3>9. LinesTrue'
      <4> SUFFICES ASSUME NEW n \in 1 .. Len(lines'), lines'[n].pa # NotPresent
                   PROVE  TrueAt(lines'[n].va, lines'[n].pa)
        BY <1>1 DEF LinesTrue, TrueAt, ps
      <4>1. CASE n \in 1 .. Len(lines)
        BY <3>7, <4>1 DEF LinesTrue
      <4>2. CASE n = Len(lines) + 1
        <5>1. lines'[n] = l /\ Present(pg, whole)
          BY <3>5, <3>7, <4>2
        <5> QED BY <3>3, <3>4, <3>5, <5>1 DEF TrueAt
      <4> QED BY <1>3, <3>7, <4>1, <4>2
    <3>10. Listed(e + 1)'
      BY <1>1, <1>3, <2>3, <3>1, <3>5, <3>7, PageListed
    <3>11. Listed(pg)'
      BY <2>3, <3>10 DEF Listed
    <3>12. Listing'
      BY <1>1, <1>2, <1>6, <2>2, <3>11 DEF Listing, Done
    <3> QED BY <1>4, <1>5, <2>1, <3>8, <3>9, <3>12
  <2> QED BY <2>4, <2>5
<1>7. CASE EndOfRange
  <2>1. ~pagemapFd' /\ step' = "done" /\ UNCHANGED <<pg, lines, missed>>
    BY <1>7 DEF EndOfRange
  <2>2. pg = EndPage
    BY <1>1, <1>3, <1>7 DEF EndOfRange
  <2>3. PagemapTyped'
    BY <1>1, <2>1 DEF PagemapTyped
  <2>4. Answering'
    BY <1>1, <2>1 DEF Answering
  <2>5. LinesTrue'
    BY <1>1, <2>1 DEF LinesTrue, TrueAt, ps
  <2>6. Listing'
    BY <1>1, <1>2, <2>1, <2>2 DEF Listing, Listed, Done
  <2> QED BY <1>4, <1>5, <2>3, <2>4, <2>5, <2>6
<1> QED BY <1>6, <1>7 DEF Emit

(* What was held is not forgotten, so that what was true stays true. *)
LEMMA PagesChangeInv ==
  ASSUME PagemapAssumption, PagemapInv, PagesChange
  PROVE  PagemapInv'
<1> USE DEF PagemapInv
<1>1. /\ alive /\ alive' \in BOOLEAN
      /\ UNCHANGED <<vmas, req, step, pagemapFd, mapsFd, lineNo, pg, epg, scanned, lines, missed, result>>
      /\ held' = held \cup Holding(pt')
  BY DEF PagesChange, Fault, Reclaim, TargetExits, PagemapTyped
<1>2. pt' \in [Pages -> Frames \cup {NotPresent}]
  BY DEF PagesChange, Fault, Reclaim, TargetExits, PagemapTyped
<1>3. PagemapTyped'
  BY <1>1, <1>2 DEF PagemapTyped
<1>4. Answering'
  BY <1>1 DEF Answering
<1>5. (Holding(pt) \subseteq held)'
  BY <1>1 DEF Holding
<1>6. V2PTrue'
  BY <1>1 DEF V2PTrue, Done, TrueAt, ps
<1>7. P2VTrue'
  BY <1>1 DEF P2VTrue, Done, TrueAt, ps
<1>8. LinesTrue'
  BY <1>1 DEF LinesTrue, TrueAt, ps
<1>9. Listing'
  BY <1>1 DEF Listing, Listed, Done, FirstPage, EndPage
<1> QED BY <1>3, <1>4, <1>5, <1>6, <1>7, <1>8, <1>9

LEMMA PagemapUnchangedInv ==
  ASSUME PagemapInv, UNCHANGED pagemapVars
  PROVE  PagemapInv'
<1>1. /\ UNCHANGED <<pt, alive, held, changes, vmas, req, step, pagemapFd, mapsFd, lineNo, pg, epg>>
      /\ UNCHANGED <<scanned, lines, missed, result>>
  BY DEF pagemapVars, target
<1>2. Listing'
  BY <1>1 DEF PagemapInv, Listing, Listed, Done, FirstPage, EndPage
<1>3. PagemapTyped' /\ Answering' /\ (Holding(pt) \subseteq held)'
  BY <1>1 DEF PagemapInv, PagemapTyped, Answering, Holding
<1>4. V2PTrue' /\ P2VTrue' /\ LinesTrue'
  BY <1>1 DEF PagemapInv, V2PTrue, P2VTrue, LinesTrue, TrueAt, ps, Done
<1> QED BY <1>2, <1>3, <1>4 DEF PagemapInv

(* The pages between FirstPage and EndPage are those of the range. *)
LEMMA RangePages ==
  ASSUME PagemapAssumption, PagemapTyped
  PROVE  /\ \A c \in req.a .. req.a + req.size - 1 : c \div PageUnit \in FirstPage .. EndPage - 1
         /\ req.size > 0 => \A m \in FirstPage .. EndPage - 1 :
                              \E c \in req.a .. req.a + req.size - 1 : c \div PageUnit = m
         /\ req.size = 0 => \A m \in FirstPage .. EndPage - 1 : m = FirstPage
<1> DEFINE u == PageUnit
           x == req.a
           z == req.size
           F == FirstPage
           E == EndPage
<1>1. u \in Nat \ {0} /\ x \in Nat /\ z \in Nat /\ F \in Nat /\ E \in Nat /\ F <= E
  BY PageFacts
<1>2. /\ x % u \in 0 .. u - 1 /\ x = F * u + (x % u)
      /\ (x + z + u - 1) % u \in 0 .. u - 1 /\ x + z + u - 1 = E * u + ((x + z + u - 1) % u)
  <2> DEFINE y == x + z + u - 1
  <2>1. y \in Nat
    BY <1>1
  <2>2. F = x \div u /\ E = y \div u
    BY DEF FirstPage, EndPage
  <2> HIDE DEF u, x, y, F, E
  <2>3. /\ x % u \in 0 .. u - 1 /\ x = (x \div u) * u + (x % u)
        /\ y % u \in 0 .. u - 1 /\ y = (y \div u) * u + (y % u)
    BY <1>1, <2>1, Remainder
  <2>4. /\ x % u \in 0 .. u - 1 /\ x = F * u + (x % u)
        /\ y % u \in 0 .. u - 1 /\ y = E * u + (y % u)
    BY <2>2, <2>3
  <2> QED BY <2>4 DEF y
<1>3. PICK r \in 0 .. u - 1, t \in 0 .. u - 1 : x = F * u + r /\ x + z + u - 1 = E * u + t
  BY <1>2
<1>4. ASSUME NEW c \in x .. x + z - 1 PROVE c \div u \in F .. E - 1
  <2> DEFINE d == c \div u
  <2>1. c \in Nat /\ c >= x /\ c <= x + z - 1
    BY <1>1
  <2>2. d \in Nat /\ c % u \in 0 .. u - 1 /\ c = d * u + (c % u)
    BY <1>1, <2>1, Remainder
  <2>3. PICK s \in 0 .. u - 1 : c = d * u + s
    BY <2>2
  <2> HIDE DEF d, u, x, z, F, E
  <2>4. d >= F
    <3> SUFFICES ASSUME F >= d + 1 PROVE FALSE
      BY <1>1, <2>2
    <3>1. F * u >= d * u + u
      BY <1>1, <2>2
    <3> QED BY <1>1, <1>3, <2>1, <2>2, <2>3, <3>1
  <2>5. d <= E - 1
    <3> SUFFICES ASSUME d >= E PROVE FALSE
      BY <1>1, <2>2
    <3>1. d * u >= E * u
      BY <1>1, <2>2
    <3> QED BY <1>1, <1>3, <2>1, <2>2, <2>3, <3>1
  <2> QED BY <1>1, <2>2, <2>4, <2>5 DEF d
<1>5. ASSUME z > 0, NEW m \in F .. E - 1 PROVE \E c \in x .. x + z - 1 : c \div u = m
  <2>1. m \in Nat /\ m >= F /\ m <= E - 1
    BY <1>1
  <2>2. CASE m = F
    <3>1. x \in x .. x + z - 1 /\ x \div u = F
      BY <1>1, <1>5 DEF FirstPage
    <3> QED BY <2>2, <3>1
  <2>3. CASE m >= F + 1
    <3> DEFINE c == m * u
    <3>1. c \div u = m
      <4>1. (m * u + 0) \div u = m
        <5> HIDE DEF u
        <5> QED BY <1>1, <2>1, Division
      <4> QED BY <1>1, <2>1, <4>1
    <3>2. c \in x .. x + z - 1
      <4> HIDE DEF u, x, z, F, E
      <4>1. m * u >= F * u + u /\ m * u \in Nat /\ F * u \in Nat
        BY <1>1, <2>1, <2>3
      <4>2. m * u + u <= E * u /\ E * u \in Nat
        BY <1>1, <2>1
      <4> QED BY <1>1, <1>3, <4>1, <4>2
    <3> QED BY <3>1, <3>2
  <2> QED BY <1>1, <2>1, <2>2, <2>3
<1>6. ASSUME z = 0, NEW m \in F .. E - 1 PROVE m = F
  <2> HIDE DEF u, x, z, F, E
  <2> SUFFICES ASSUME E >= F + 2 PROVE FALSE
    BY <1>1, <1>6
  <2>1. E * u >= F * u + 2 * u /\ E * u \in Nat /\ F * u \in Nat
    BY <1>1
  <2> QED BY <1>1, <1>3, <1>6, <2>1
<1> QED BY <1>4, <1>5, <1>6

LEMMA LinesComplete ==
  ASSUME PagemapAssumption, K = 1, PagemapInv
  PROVE  LinesCover
<1> SUFFICES ASSUME Done("pamap"), result = 0
             PROVE  /\ \A c \in req.a .. req.a + req.size - 1 :
                         LET va == (c \div PageUnit) * PageUnit IN
                         (\E n \in 1 .. Len(lines) : lines[n].va = va)
                           <=> <<0, va \div PageUnit>> \notin missed
                    /\ \A n \in 1 .. Len(lines) :
                         /\ \/ \E c \in req.a .. req.a + req.size - 1 :
                                 lines[n].va = (c \div PageUnit) * PageUnit
                            \/ req.size = 0 /\ lines[n].va = (req.a \div PageUnit) * PageUnit
                         /\ n > 1 => lines[n - 1].va < lines[n].va
  <2>1. ps = PageUnit
    BY DEF ps, PagemapAssumption
  <2> QED BY <2>1 DEF LinesCover
<1>1. Listed(EndPage)
  BY DEF PagemapInv, Listing
<1>2. /\ PageUnit \in Nat \ {0} /\ FirstPage \in Nat /\ EndPage \in Nat /\ FirstPage <= EndPage
      /\ req.a \in Nat /\ req.size \in Nat /\ PagemapTyped
  BY PageFacts DEF PagemapInv
<1>3. ASSUME NEW c \in req.a .. req.a + req.size - 1, NEW va, va = (c \div PageUnit) * PageUnit
      PROVE  (\E n \in 1 .. Len(lines) : lines[n].va = va) <=> <<0, va \div PageUnit>> \notin missed
  <2>1. PICK m \in FirstPage .. EndPage - 1 : m = c \div PageUnit
    BY <1>2, RangePages
  <2>2. va = m * PageUnit /\ m \in Nat
    BY <1>2, <1>3, <2>1
  <2>3. va \div PageUnit = m
    <3>1. (m * PageUnit + 0) \div PageUnit = m
      BY <1>2, <2>2, Division
    <3>2. m * PageUnit + 0 = m * PageUnit
      BY <1>2, <2>2
    <3> QED BY <2>2, <3>1, <3>2
  <2> QED BY <1>1, <2>1, <2>2, <2>3 DEF Listed
<1>4. ASSUME NEW n \in 1 .. Len(lines)
      PROVE  /\ \/ \E c \in req.a .. req.a + req.size - 1 : lines[n].va = (c \div PageUnit) * PageUnit
                \/ req.size = 0 /\ lines[n].va = (req.a \div PageUnit) * PageUnit
             /\ n > 1 => lines[n - 1].va < lines[n].va
  <2>1. PICK m \in FirstPage .. EndPage - 1 : lines[n].va = m * PageUnit
    BY <1>1 DEF Listed
  <2>2. ASSUME req.size > 0
        PROVE  \E c \in req.a .. req.a + req.size - 1 : lines[n].va = (c \div PageUnit) * PageUnit
    <3>1. PICK c \in req.a .. req.a + req.size - 1 : c \div PageUnit = m
      BY <1>2, <2>2, RangePages
    <3> QED BY <2>1, <3>1
  <2>3. ASSUME req.size = 0 PROVE lines[n].va = (req.a \div PageUnit) * PageUnit
    <3>1. m = req.a \div PageUnit
      BY <1>2, <2>3, RangePages DEF FirstPage
    <3> QED BY <2>1, <3>1
  <2>4. n > 1 => lines[n - 1].va < lines[n].va
    BY <1>1 DEF Listed
  <2> QED BY <1>2, <2>2, <2>3, <2>4
<1> QED BY <1>3, <1>4

(* For every page table, request, number of changes of the target and of   *)
(* short reads, with pages of 4 KiB: whatever address lxgr_va_to_pa,       *)
(* lxgr_pa_to_va or lxgr_pamap_range gives was that of the same byte at    *)
(* some time of the call, the pamap has a line for exactly those pages of  *)
(* the range whose entry could be read, in ascending order, and every      *)
(* return closes what was opened.                                          *)
THEOREM LookupsCorrect == ASSUME PagemapAssumption, K = 1 PROVE PagemapSpec => []LookupsRight
<1>1. PagemapInv /\ [PagemapNext]_pagemapVars => PagemapInv'
  BY OpenPagemapInv, V2PInv, OpenMapsFileInv, NextLineInv, ScanInv, EmitInv, PagesChangeInv,
     PagemapUnchangedInv DEF PagemapNext, Lookups
<1>2. PagemapInv => LookupsRight
  <2>1. PagemapInv => LookupsClose
    BY DEF PagemapInv, Answering, LookupsClose
  <2> QED BY <2>1, LinesComplete DEF PagemapInv, LookupsRight
<1> QED BY <1>1, <1>2, PagemapInitInv, PTL DEF PagemapSpec

-----------------------------------------------------------------------------
(* The scan of lxgr_pa_to_va.  Where it stands is a page of a line, or the *)
(* beginning of the next line; scanned counts the pages before that place, *)
(* and none of them maps the frame, unless it could not be read.           *)

Place == IF step = "scan" THEN <<lineNo, pg>> ELSE <<lineNo + 1, 0>>

ScanLine ==
  /\ lineNo \in 1 .. Len(vmas) /\ vmas[lineNo].start < vmas[lineNo].end
  /\ vmas[lineNo].start \div PageUnit <= pg
  /\ epg = (vmas[lineNo].end + ps - 1) \div PageUnit

Scanning ==
  /\ step \in {"line", "scan"} =>
       /\ scanned = Cardinality(Before(Place)) /\ scanned < MaxScan
       /\ missed \subseteq Before(Place)
       /\ changes = 0 => \A x \in Before(Place) : ~Matches(x)
  /\ step = "scan" => ScanLine

P2VInv ==
  /\ PagemapInv
  /\ changes \in Nat /\ (changes = 0 => alive)
  /\ step \in {"open", "p2v"} => lineNo = 0 /\ scanned = 0 /\ missed = {}
  /\ Scanning /\ P2VFirst

LEMMA LineBounds ==
  ASSUME PagemapAssumption, PagemapTyped, NEW n \in 1 .. Len(vmas)
  PROVE  /\ vmas[n].start \in Nat /\ vmas[n].end \in Nat
         /\ vmas[n].start \div PageUnit \in Nat /\ (vmas[n].end + ps - 1) \div PageUnit \in Nat
<1>1. vmas \in Seq([start : Nat, end : Nat])
  BY DEF PagemapTyped
<1>2. vmas[n] \in [start : Nat, end : Nat]
  BY <1>1, ElementOfSeq
<1>3. PageUnit \in Nat \ {0} /\ ps \in Nat \ {0}
  BY DEF PagemapAssumption, ps
<1>4. vmas[n].start \in Nat /\ vmas[n].end \in Nat /\ vmas[n].end + ps - 1 \in Nat
  BY <1>2, <1>3
<1> QED BY <1>3, <1>4, Remainder

(* What a scan goes through. *)
LEMMA ScanPagesType ==
  ASSUME PagemapAssumption, PagemapTyped
  PROVE  /\ \A x : x \in ScanPages <=>
              \E n \in 1 .. Len(vmas), p \in Nat :
                 /\ x = <<n, p>> /\ vmas[n].start < vmas[n].end
                 /\ vmas[n].start \div PageUnit <= p
                 /\ p < (vmas[n].end + ps - 1) \div PageUnit
         /\ IsFiniteSet(ScanPages)
<1>1. \A n \in 1 .. Len(vmas) :
        /\ vmas[n].start \div PageUnit \in Nat
        /\ (vmas[n].end + ps - 1) \div PageUnit \in Nat
  BY LineBounds
<1>2. ASSUME NEW x
      PROVE  x \in ScanPages <=>
              \E n \in 1 .. Len(vmas), p \in Nat :
                 /\ x = <<n, p>> /\ vmas[n].start < vmas[n].end
                 /\ vmas[n].start \div PageUnit <= p
                 /\ p < (vmas[n].end + ps - 1) \div PageUnit
  <2>1. ASSUME NEW n \in 1 .. Len(vmas), NEW p
        PROVE  p \in LinePages(n) <=>
                 p \in Nat /\ vmas[n].start \div PageUnit <= p
                   /\ p < (vmas[n].end + ps - 1) \div PageUnit
    <3> DEFINE f == vmas[n].start \div PageUnit
               e == (vmas[n].end + ps - 1) \div PageUnit
    <3>1. f \in Nat /\ e \in Nat
      BY <1>1
    <3>2. LinePages(n) = f .. e - 1
      BY DEF LinePages
    <3> HIDE DEF f, e
    <3>3. p \in f .. e - 1 <=> p \in Nat /\ f <= p /\ p < e
      BY <3>1
    <3> QED BY <3>2, <3>3 DEF f, e
  <2>2. x \in ScanPages <=>
          \E n \in 1 .. Len(vmas) : vmas[n].start < vmas[n].end /\ \E p \in LinePages(n) : x = <<n, p>>
    BY DEF ScanPages
  <2> QED BY <2>1, <2>2
<1>3. IsFiniteSet(ScanPages)
  <2>1. Len(vmas) \in Nat
    BY DEF PagemapTyped
  <2>2. CASE Len(vmas) = 0
    <3>1. ScanPages = {}
      BY <1>2, <2>2
    <3> QED BY <3>1, FS_EmptySet
  <2>3. CASE Len(vmas) # 0
    <3> DEFINE g == [n \in 1 .. Len(vmas) |-> (vmas[n].end + ps - 1) \div PageUnit]
    <3>1. g \in [1 .. Len(vmas) -> Nat]
      BY <1>1
    <3>2. PICK m \in Nat : \A k \in 1 .. Len(vmas) : g[k] <= m
      BY <2>1, <2>3, <3>1, MaxOfList
    <3>3. IsFiniteSet((1 .. Len(vmas)) \X (0 .. m))
      <4>1. IsFiniteSet(1 .. Len(vmas)) /\ IsFiniteSet(0 .. m)
        BY <2>1, <3>2, FS_Interval
      <4> QED BY <4>1, FS_Product
    <3>4. ScanPages \subseteq (1 .. Len(vmas)) \X (0 .. m)
      <4> SUFFICES ASSUME NEW x \in ScanPages PROVE x \in (1 .. Len(vmas)) \X (0 .. m)
        OBVIOUS
      <4>1. PICK n \in 1 .. Len(vmas), p \in Nat :
              x = <<n, p>> /\ p < (vmas[n].end + ps - 1) \div PageUnit
        BY <1>2
      <4>2. g[n] <= m /\ g[n] = (vmas[n].end + ps - 1) \div PageUnit /\ g[n] \in Nat
        BY <3>1, <3>2
      <4>3. p \in 0 .. m
        BY <3>2, <4>1, <4>2
      <4> QED BY <4>1, <4>3
    <3> QED BY <3>3, <3>4, FS_Subset
  <2> QED BY <2>2, <2>3
<1> QED BY <1>2, <1>3

(* The pages before a place are finitely many, and places are in a line.   *)
LEMMA BeforeFacts ==
  ASSUME PagemapAssumption, PagemapTyped
  PROVE  /\ \A x : IsFiniteSet(Before(x)) /\ Cardinality(Before(x)) \in Nat
         /\ \A x \in ScanPages : x = <<x[1], x[2]>> /\ x[1] \in 1 .. Len(vmas) /\ x[2] \in Nat
         /\ \A x, y \in ScanPages : x = y \/ Earlier(x, y) \/ Earlier(y, x)
         /\ \A x \in ScanPages : Before(x) \cup {x} \subseteq ScanPages /\ x \notin Before(x)
         /\ \A x, y \in ScanPages : Earlier(x, y) =>
              Cardinality(Before(x) \cup {x}) <= Cardinality(Before(y))
<1>1. IsFiniteSet(ScanPages)
  BY ScanPagesType
<1>2. ASSUME NEW x PROVE IsFiniteSet(Before(x)) /\ Cardinality(Before(x)) \in Nat
  <2>1. Before(x) \in SUBSET ScanPages
    BY DEF Before
  <2>2. IsFiniteSet(Before(x))
    BY <1>1, <2>1, FS_Subset
  <2> QED BY <2>2, FS_CardinalityType
<1>3. \A x \in ScanPages : x = <<x[1], x[2]>> /\ x[1] \in 1 .. Len(vmas) /\ x[2] \in Nat
  BY ScanPagesType
<1>4. Len(vmas) \in Nat
  BY DEF PagemapTyped
<1>5. \A x, y \in ScanPages : x = y \/ Earlier(x, y) \/ Earlier(y, x)
  <2> SUFFICES ASSUME NEW x \in ScanPages, NEW y \in ScanPages
               PROVE  x = y \/ Earlier(x, y) \/ Earlier(y, x)
    OBVIOUS
  <2>1. PICK i \in Nat, j \in Nat, k \in Nat, l \in Nat : x = <<i, j>> /\ y = <<k, l>>
    BY <1>3, <1>4
  <2>2. i < k \/ k < i \/ (i = k /\ (j < l \/ l < j \/ j = l))
    OBVIOUS
  <2> QED BY <2>1, <2>2 DEF Earlier
<1>6. \A x \in ScanPages : Before(x) \cup {x} \subseteq ScanPages /\ x \notin Before(x)
  BY <1>3, <1>4 DEF Before, Earlier
<1>7. ASSUME NEW x \in ScanPages, NEW y \in ScanPages, Earlier(x, y)
      PROVE  Cardinality(Before(x) \cup {x}) <= Cardinality(Before(y))
  <2>1. \A z \in ScanPages : Earlier(z, x) => Earlier(z, y)
    <3> SUFFICES ASSUME NEW z \in ScanPages, Earlier(z, x) PROVE Earlier(z, y)
      OBVIOUS
    <3>1. PICK i \in Nat, j \in Nat, k \in Nat, l \in Nat, n \in Nat, o \in Nat :
            x = <<i, j>> /\ y = <<k, l>> /\ z = <<n, o>>
      BY <1>3, <1>4
    <3>2. (n < i \/ (n = i /\ o < j)) /\ (i < k \/ (i = k /\ j < l))
      BY <1>7, <3>1 DEF Earlier
    <3>3. n < k \/ (n = k /\ o < l)
      BY <3>2
    <3> QED BY <3>1, <3>3 DEF Earlier
  <2>2. Before(x) \cup {x} \in SUBSET Before(y)
    BY <1>7, <2>1 DEF Before
  <2> QED BY <1>2, <2>2, FS_Subset
<1> QED BY <1>2, <1>3, <1>5, <1>6, <1>7

(* A page that does not map the frame is left behind. *)
LEMMA BeforeNext ==
  ASSUME PagemapAssumption, PagemapTyped, NEW n \in 1 .. Len(vmas), NEW p \in Nat,
         <<n, p>> \in ScanPages
  PROVE  /\ Before(<<n, p + 1>>) = Before(<<n, p>>) \cup {<<n, p>>}
         /\ Cardinality(Before(<<n, p + 1>>)) = Cardinality(Before(<<n, p>>)) + 1
<1>1. ASSUME NEW y \in ScanPages
      PROVE  Earlier(y, <<n, p + 1>>) <=> Earlier(y, <<n, p>>) \/ y = <<n, p>>
  <2>0. Len(vmas) \in Nat
    BY DEF PagemapTyped
  <2>1. PICK i \in Nat, j \in Nat : y = <<i, j>>
    <3>1. y = <<y[1], y[2]>> /\ y[1] \in 1 .. Len(vmas) /\ y[2] \in Nat
      BY BeforeFacts
    <3> QED BY <2>0, <3>1
  <2>2. n \in Nat
    BY <2>0
  <2>3. (i < n \/ (i = n /\ j < p + 1)) <=> ((i < n \/ (i = n /\ j < p)) \/ (i = n /\ j = p))
    BY <2>2
  <2> QED BY <2>1, <2>3 DEF Earlier
<1>2. Before(<<n, p + 1>>) = Before(<<n, p>>) \cup {<<n, p>>}
  BY <1>1 DEF Before
<1>3. IsFiniteSet(Before(<<n, p>>)) /\ <<n, p>> \notin Before(<<n, p>>)
  BY BeforeFacts
<1> QED BY <1>2, <1>3, FS_AddElement

(* At the end of a line, and at the beginning of one, nothing is skipped.  *)
LEMMA BeforeLine ==
  ASSUME PagemapAssumption, PagemapTyped, NEW n \in 0 .. Len(vmas)
  PROVE  /\ n = 0 => Before(<<n + 1, 0>>) = {}
         /\ n = Len(vmas) => Before(<<n + 1, 0>>) = ScanPages
         /\ \A p \in Nat :
              n > 0 /\ p >= (vmas[n].end + ps - 1) \div PageUnit =>
                Before(<<n, p>>) = Before(<<n + 1, 0>>)
         /\ n > 0 /\ vmas[n].end <= vmas[n].start => Before(<<n, 0>>) = Before(<<n + 1, 0>>)
         /\ n > 0 => Before(<<n, vmas[n].start \div PageUnit>>) = Before(<<n, 0>>)
<1>1. Len(vmas) \in Nat /\ n \in Nat /\ n <= Len(vmas)
  BY DEF PagemapTyped
<1>2. ASSUME NEW y \in ScanPages, NEW k \in Nat
      PROVE  Earlier(y, <<k, 0>>) <=> y[1] < k
  <2>1. PICK i \in Nat, j \in Nat : y = <<i, j>>
    BY BeforeFacts, <1>1
  <2> QED BY <2>1 DEF Earlier
<1>3. ASSUME n = 0 PROVE Before(<<n + 1, 0>>) = {}
  BY <1>1, <1>2, <1>3, BeforeFacts DEF Before
<1>4. ASSUME n = Len(vmas) PROVE Before(<<n + 1, 0>>) = ScanPages
  BY <1>1, <1>2, <1>4, BeforeFacts DEF Before
<1>5. ASSUME NEW p \in Nat, n > 0, p >= (vmas[n].end + ps - 1) \div PageUnit
      PROVE  Before(<<n, p>>) = Before(<<n + 1, 0>>)
  <2>1. ASSUME NEW y \in ScanPages PROVE Earlier(y, <<n, p>>) <=> Earlier(y, <<n + 1, 0>>)
    <3>1. PICK i \in 1 .. Len(vmas), j \in Nat :
            y = <<i, j>> /\ j < (vmas[i].end + ps - 1) \div PageUnit
      BY ScanPagesType
    <3>2. CASE i = n
      <4> DEFINE e == (vmas[n].end + ps - 1) \div PageUnit
      <4>1. e \in Int
        BY <1>1, <1>5, LineBounds DEF e
      <4>2. j < e /\ p >= e
        BY <1>5, <3>1, <3>2
      <4> HIDE DEF e
      <4>3. j < p
        BY <4>1, <4>2
      <4> QED BY <1>1, <3>1, <3>2, <4>3 DEF Earlier
    <3>3. CASE i # n
      <4>1. i < n <=> i < n + 1
        BY <1>1, <3>3
      <4>2. Earlier(y, <<n, p>>) <=> i < n
        BY <3>1, <3>3 DEF Earlier
      <4>3. Earlier(y, <<n + 1, 0>>) <=> i < n + 1
        BY <1>1, <1>2, <3>1
      <4> QED BY <4>1, <4>2, <4>3
    <3> QED BY <3>2, <3>3
  <2> QED BY <2>1 DEF Before
<1>6. ASSUME n > 0, vmas[n].end <= vmas[n].start PROVE Before(<<n, 0>>) = Before(<<n + 1, 0>>)
  <2>1. ASSUME NEW y \in ScanPages PROVE Earlier(y, <<n, 0>>) <=> Earlier(y, <<n + 1, 0>>)
    <3>1. PICK i \in 1 .. Len(vmas), j \in Nat : y = <<i, j>> /\ vmas[i].start < vmas[i].end
      BY ScanPagesType
    <3>2. vmas[n].start \in Nat /\ vmas[n].end \in Nat
      BY <1>1, <1>6, LineBounds
    <3>3. i # n
      BY <1>6, <3>1, <3>2
    <3>4. i < n <=> i < n + 1
      BY <1>1, <3>3
    <3> QED BY <1>1, <1>2, <3>1, <3>4
  <2> QED BY <2>1 DEF Before
<1>7. ASSUME n > 0 PROVE Before(<<n, vmas[n].start \div PageUnit>>) = Before(<<n, 0>>)
  <2> DEFINE f == vmas[n].start \div PageUnit
  <2>1. f \in Nat
    BY <1>1, <1>7, LineBounds
  <2>2. ASSUME NEW y \in ScanPages PROVE Earlier(y, <<n, f>>) <=> Earlier(y, <<n, 0>>)
    <3>1. PICK i \in 1 .. Len(vmas), j \in Nat :
            y = <<i, j>> /\ vmas[i].start \div PageUnit <= j
      BY ScanPagesType
    <3>2. i = n => ~(j < f)
      BY <2>1, <3>1
    <3> HIDE DEF f
    <3>3. Earlier(y, <<n, f>>) <=> i < n
      BY <3>1, <3>2 DEF Earlier
    <3> QED BY <1>1, <1>2, <3>1, <3>3
  <2> QED BY <2>2 DEF Before
<1> QED BY <1>3, <1>4, <1>5, <1>6, <1>7

(* What the scan depends on beside its own place; the hits when the        *)
(* entries in gaps could not be read.                                      *)
HitsBut(gaps) ==
  {x \in ScanPages : Cardinality(Before(x)) < MaxScan /\ Frame(x[2]) = WantPfn /\ x \notin gaps}

LEMMA ScanSame ==
  ASSUME UNCHANGED <<vmas, req>>
  PROVE  /\ ScanPages' = ScanPages /\ WantPfn' = WantPfn
         /\ \A x : Before(x)' = Before(x)
         /\ UNCHANGED pt => (\A k : Frame(k)' = Frame(k)) /\ Hits' = HitsBut(missed')
BY DEF ScanPages, LinePages, ps, WantPfn, Before, Earlier, Frame, Hits, HitsBut, Matches

(* The first hit, if the pages before it are none. *)
LEMMA HitIsFirst ==
  ASSUME PagemapAssumption, PagemapTyped, NEW gaps, NEW x \in ScanPages, x \notin gaps,
         Frame(x[2]) = WantPfn, Cardinality(Before(x)) < MaxScan,
         \A y \in Before(x) : Frame(y[2]) # WantPfn \/ y \in gaps
  PROVE  x \in HitsBut(gaps) /\ \A y \in HitsBut(gaps) \ {x} : Earlier(x, y)
<1>1. x \in HitsBut(gaps)
  BY DEF HitsBut
<1>2. ASSUME NEW y \in HitsBut(gaps) \ {x} PROVE Earlier(x, y)
  <2>1. y \in ScanPages /\ y \notin Before(x)
    BY DEF HitsBut
  <2>2. ~Earlier(y, x)
    BY <2>1 DEF Before
  <2> QED BY <2>1, <2>2, BeforeFacts
<1> QED BY <1>1, <1>2

(* When the cap is reached behind a page without a hit, there is none. *)
LEMMA CapMissesNone ==
  ASSUME PagemapAssumption, PagemapTyped, NEW gaps, NEW x \in ScanPages,
         Frame(x[2]) # WantPfn \/ x \in gaps, Cardinality(Before(x)) + 1 >= MaxScan,
         \A y \in Before(x) : Frame(y[2]) # WantPfn \/ y \in gaps
  PROVE  HitsBut(gaps) = {}
<1> SUFFICES ASSUME NEW y \in HitsBut(gaps) PROVE FALSE
  OBVIOUS
<1>1. /\ y \in ScanPages /\ Frame(y[2]) = WantPfn /\ y \notin gaps
      /\ Cardinality(Before(y)) < MaxScan
  BY DEF HitsBut
<1>2. Earlier(x, y)
  <2>1. y # x /\ y \notin Before(x)
    BY <1>1
  <2>2. ~Earlier(y, x)
    BY <1>1, <2>1 DEF Before
  <2> QED BY <1>1, <2>1, <2>2, BeforeFacts
<1>3. Cardinality(Before(x) \cup {x}) <= Cardinality(Before(y))
  BY <1>1, <1>2, BeforeFacts
<1>4. /\ IsFiniteSet(Before(x)) /\ x \notin Before(x)
      /\ Cardinality(Before(x)) \in Nat /\ Cardinality(Before(y)) \in Nat
  BY BeforeFacts
<1>5. Cardinality(Before(x) \cup {x}) = Cardinality(Before(x)) + 1
  BY <1>4, FS_AddElement
<1> QED BY <1>1, <1>3, <1>4, <1>5 DEF PagemapAssumption

LEMMA P2VOpenInv ==
  ASSUME PagemapAssumption, K = 1, P2VInv, OpenPagemap
  PROVE  P2VInv'
<1>1. PagemapInv'
  BY OpenPagemapInv DEF P2VInv
<1>2. req.op \in {"v2p", "p2v", "pamap"}
  BY DEF P2VInv, PagemapInv, PagemapTyped
<1>3. /\ step = "open" /\ lineNo' = 0 /\ scanned' = 0 /\ missed' = {} /\ changes' = changes /\ alive' = alive
      /\ step' \in {"v2p", "p2v", "pamap", "done"}
  BY <1>2 DEF OpenPagemap, P2VInv, target
<1> QED BY <1>1, <1>3 DEF P2VInv, Scanning, P2VFirst

LEMMA P2VOtherInv ==
  ASSUME PagemapAssumption, K = 1, P2VInv, V2P \/ Emit
  PROVE  P2VInv'
<1>1. PagemapInv'
  BY V2PInv, EmitInv DEF P2VInv
<1>2. /\ req.op # "p2v" /\ req' = req /\ step' \in {"pamap", "done"}
      /\ changes' = changes /\ alive' = alive
  BY DEF V2P, Emit, EndOfRange, P2VInv, PagemapInv, Answering, target
<1> QED BY <1>1, <1>2 DEF P2VInv, Scanning, P2VFirst, Done

LEMMA P2VOpenMapsInv ==
  ASSUME PagemapAssumption, K = 1, P2VInv, OpenMapsFile
  PROVE  P2VInv'
<1>1. PagemapInv'
  BY OpenMapsFileInv DEF P2VInv
<1>2. /\ lineNo' = 0 /\ scanned' = 0 /\ missed' = {} /\ changes' = changes /\ alive' = alive
      /\ step' \in {"line", "done"} /\ UNCHANGED <<vmas, req, pt>>
  BY DEF OpenMapsFile, P2VInv, target
<1>3. PagemapTyped /\ 0 \in 0 .. Len(vmas)
  BY DEF P2VInv, PagemapInv, PagemapTyped
<1>4. Before(<<0 + 1, 0>>) = {}
  BY <1>3, BeforeLine
<1>5. ASSUME step' = "line" PROVE Before(Place)' = {}
  <2>1. Place' = <<0 + 1, 0>>
    BY <1>2, <1>5 DEF Place
  <2>2. Before(Place)' = Before(Place')
    BY <1>2 DEF Before, ScanPages, LinePages, ps, Earlier
  <2> QED BY <1>4, <2>1, <2>2
<1>6. Cardinality({}) = 0 /\ MaxScan > 0
  BY FS_EmptySet DEF PagemapAssumption
<1>7. Scanning'
  <2>1. ASSUME step' = "line"
        PROVE  /\ scanned' = Cardinality(Before(Place)') /\ scanned' < MaxScan
               /\ missed' \subseteq Before(Place)' /\ \A x \in Before(Place)' : FALSE
    BY <1>2, <1>5, <1>6, <2>1
  <2> QED BY <1>2, <2>1 DEF Scanning
<1> QED BY <1>1, <1>2, <1>7 DEF P2VInv, P2VFirst

LEMMA P2VNextLineInv ==
  ASSUME PagemapAssumption, K = 1, P2VInv, NextLine
  PROVE  P2VInv'
<1> DEFINE n == lineNo + 1
<1>1. PagemapInv'
  BY NextLineInv DEF P2VInv
<1>2. PagemapTyped /\ Len(vmas) \in Nat /\ lineNo \in 0 .. Len(vmas)
  BY DEF P2VInv, PagemapInv, PagemapTyped
<1>3. /\ step = "line" /\ UNCHANGED <<vmas, req, pt, alive, changes, scanned, missed, result>>
      /\ Place = <<lineNo + 1, 0>> /\ result = 0
  BY DEF NextLine, target, Place, P2VInv, PagemapInv, Answering
<1>4. /\ scanned = Cardinality(Before(<<n, 0>>)) /\ scanned < MaxScan
      /\ missed \subseteq Before(<<n, 0>>)
      /\ changes = 0 => \A x \in Before(<<n, 0>>) : ~Matches(x)
      /\ changes \in Nat /\ (changes = 0 => alive)
  BY <1>3 DEF P2VInv, Scanning
<1>5. (\A x : Matches(x)' <=> Matches(x)) /\ Hits' = Hits
  BY <1>3, ScanSame DEF Matches, Hits, HitsBut
<1>6. CASE lineNo < Len(vmas) /\ lineNo' = n
           /\ pg' = vmas[n].start \div PageUnit /\ epg' = (vmas[n].end + ps - 1) \div PageUnit
           /\ step' = IF vmas[n].end <= vmas[n].start THEN "line" ELSE "scan"
  <2>1. n \in 1 .. Len(vmas) /\ n \in 0 .. Len(vmas) /\ n > 0
    BY <1>2, <1>6
  <2>2. /\ vmas[n].start \in Nat /\ vmas[n].end \in Nat
        /\ vmas[n].start \div PageUnit \in Nat /\ (vmas[n].end + ps - 1) \div PageUnit \in Nat
    BY <1>2, <2>1, LineBounds
  <2> HIDE DEF n
  <2>3. Before(Place') = Before(<<n, 0>>) /\ (step' = "scan" => ScanLine')
    <3>1. CASE vmas[n].end <= vmas[n].start
      <4>1. step' = "line" /\ Place' = <<n + 1, 0>>
        BY <1>6, <3>1 DEF Place
      <4> QED BY <1>2, <2>1, <3>1, <4>1, BeforeLine
    <3>2. CASE ~(vmas[n].end <= vmas[n].start)
      <4>1. step' = "scan" /\ Place' = <<n, vmas[n].start \div PageUnit>>
        BY <1>6, <3>2 DEF Place
      <4>2. vmas[n].start < vmas[n].end
        BY <2>2, <3>2
      <4>3. ScanLine'
        BY <1>3, <1>6, <2>1, <2>2, <4>2 DEF ScanLine, ps
      <4> QED BY <1>2, <2>1, <4>1, <4>3, BeforeLine
    <3> QED BY <3>1, <3>2
  <2>4. Before(Place)' = Before(Place')
    BY <1>3 DEF Before, ScanPages, LinePages, ps, Earlier
  <2>5. step' \in {"line", "scan"}
    BY <1>6
  <2>6. Scanning'
    BY <1>3, <1>4, <1>5, <2>3, <2>4 DEF Scanning
  <2>7. P2VFirst'
    BY <2>5 DEF P2VFirst, Done
  <2> QED BY <1>1, <1>3, <1>4, <2>5, <2>6, <2>7 DEF P2VInv
<1>7. CASE (~alive \/ lineNo = Len(vmas)) /\ step' = "done"
  <2>1. Scanning'
    BY <1>7 DEF Scanning
  <2>2. ASSUME changes = 0 PROVE Hits = {}
    <3>1. lineNo = Len(vmas)
      BY <1>4, <1>7, <2>2
    <3>2. Before(<<n, 0>>) = ScanPages
      BY <1>2, <3>1, BeforeLine
    <3> QED BY <1>4, <2>2, <3>2 DEF Hits
  <2>3. P2VFirst'
    BY <1>3, <1>5, <2>2 DEF P2VFirst
  <2> QED BY <1>1, <1>3, <1>4, <1>7, <2>1, <2>3 DEF P2VInv
<1> QED BY <1>6, <1>7 DEF NextLine, CloseBoth

LEMMA P2VScanInv ==
  ASSUME PagemapAssumption, K = 1, P2VInv, Scan
  PROVE  P2VInv'
<1> DEFINE x == <<lineNo, pg>>
<1>1. PagemapInv'
  BY ScanInv DEF P2VInv
<1>2. PagemapTyped /\ Len(vmas) \in Nat /\ pg \in Nat /\ epg \in Nat /\ req.a \in Nat
  BY DEF P2VInv, PagemapInv, PagemapTyped
<1>3. /\ step = "scan" /\ UNCHANGED <<vmas, req, pt, alive, changes, lineNo, epg>>
      /\ Place = x /\ result = 0
  BY DEF Scan, ScanPage, target, Place, P2VInv, PagemapInv, Answering
<1>4. /\ scanned = Cardinality(Before(x)) /\ scanned < MaxScan
      /\ missed \subseteq Before(x)
      /\ changes = 0 => \A y \in Before(x) : Frame(y[2]) # WantPfn \/ y \in missed
      /\ changes \in Nat /\ (changes = 0 => alive) /\ ScanLine
  BY <1>3 DEF P2VInv, Scanning, Matches
<1>5. /\ WantPfn' = WantPfn /\ (\A k : Frame(k)' = Frame(k)) /\ Hits' = HitsBut(missed')
      /\ \A y, z : Earlier(y, z)' = Earlier(y, z)
  BY <1>3, ScanSame DEF Earlier
<1>6. lineNo \in 1 .. Len(vmas) /\ lineNo \in 0 .. Len(vmas) /\ lineNo > 0
  BY <1>2, <1>4 DEF ScanLine
<1>7. pg < epg => x \in ScanPages
  BY <1>2, <1>4, <1>6, ScanPagesType DEF ScanLine
<1>8. Before(Place)' = Before(Place')
  BY <1>3 DEF Before, ScanPages, LinePages, ps, Earlier
<1>9. x[2] = pg
  OBVIOUS
<1>10. CASE /\ pg < epg /\ Frame(pg) = WantPfn /\ result' = Joined(pg, req.a % ps)
            /\ step' = "done" /\ missed' = missed
  <2>1. Scanning'
    BY <1>10 DEF Scanning
  <2>2. result' \div ps = pg /\ ps = PageUnit
    <3>1. result' \div ps = pg
      BY <1>2, <1>10, JoinedIs
    <3>2. ps = PageUnit
      BY DEF ps, PagemapAssumption
    <3> QED BY <3>1, <3>2
  <2>3. ASSUME changes = 0
        PROVE  x \in HitsBut(missed) /\ \A y \in HitsBut(missed) \ {x} : Earlier(x, y)
    <3> HIDE DEF x
    <3>1. x \notin missed
      BY <1>2, <1>4, <1>7, <1>10, BeforeFacts
    <3> QED BY <1>2, <1>4, <1>7, <1>9, <1>10, <2>3, <3>1, HitIsFirst
  <2>4. P2VFirst'
    <3> HIDE DEF x
    <3> SUFFICES ASSUME changes = 0
                 PROVE  /\ HitsBut(missed) # {}
                        /\ \E z \in HitsBut(missed) :
                             /\ \A y \in HitsBut(missed) \ {z} : Earlier(z, y)
                             /\ result' \div PageUnit = z[2]
      BY <1>3, <1>5, <1>10 DEF P2VFirst
    <3> QED BY <1>9, <2>2, <2>3
  <2> QED BY <1>1, <1>3, <1>4, <1>10, <2>1, <2>4 DEF P2VInv
<1>11. ASSUME NEW whole \in Wholes, pg < epg, ~Hit(whole), Missing(whole),
              scanned' = scanned + 1, result' = result,
              \/ scanned + 1 >= MaxScan /\ step' = "done"
              \/ scanned + 1 < MaxScan /\ pg' = pg + 1 /\ step' = step
       PROVE  P2VInv'
  <2>0. WantPfn \in Nat
    BY <1>2, Remainder DEF WantPfn, PagemapAssumption
  <2>1. missed \subseteq missed' /\ missed' \subseteq missed \cup {x}
    BY <1>11 DEF Missing
  <2>2. Frame(pg) # WantPfn \/ x \in missed'
    BY <1>11, <2>0 DEF Hit, Missing, Present, PagemapAssumption
  <2>3. Cardinality(Before(x)) \in Nat
    BY <1>2, BeforeFacts
  <2>4. CASE scanned + 1 >= MaxScan /\ step' = "done"
    <3>1. Scanning'
      BY <2>4 DEF Scanning
    <3>2. ASSUME changes = 0 PROVE HitsBut(missed') = {}
      <4> HIDE DEF x
      <4>1. \A y \in Before(x) : Frame(y[2]) # WantPfn \/ y \in missed'
        BY <1>4, <2>1, <3>2
      <4>2. Frame(x[2]) # WantPfn \/ x \in missed'
        BY <1>9, <2>2
      <4> QED BY <1>2, <1>4, <1>7, <1>11, <2>4, <4>1, <4>2, CapMissesNone
    <3>3. P2VFirst'
      BY <1>3, <1>5, <1>11, <3>2 DEF P2VFirst
    <3> QED BY <1>1, <1>3, <1>4, <2>4, <3>1, <3>3 DEF P2VInv
  <2>5. CASE scanned + 1 < MaxScan /\ pg' = pg + 1 /\ step' = step
    <3>1. Place' = <<lineNo, pg + 1>>
      BY <1>3, <2>5 DEF Place
    <3>2. /\ Before(Place') = Before(x) \cup {x}
          /\ Cardinality(Before(Place')) = Cardinality(Before(x)) + 1
      BY <1>2, <1>6, <1>7, <1>11, <3>1, BeforeNext
    <3>3. ScanLine'
      <4>1. vmas[lineNo].start \div PageUnit \in Nat
        BY <1>2, <1>6, LineBounds
      <4>2. vmas[lineNo].start \div PageUnit <= pg + 1
        BY <1>2, <1>4, <4>1 DEF ScanLine
      <4> QED BY <1>3, <1>4, <2>5, <4>2 DEF ScanLine, ps
    <3>4. /\ missed' \subseteq Before(Place')
          /\ changes = 0 => \A y \in Before(Place') : Frame(y[2]) # WantPfn \/ y \in missed'
      <4> HIDE DEF x
      <4> QED BY <1>4, <1>9, <2>1, <2>2, <3>2
    <3>5. scanned' = Cardinality(Before(Place')) /\ scanned' < MaxScan
      BY <1>4, <1>11, <2>5, <3>2
    <3>6. Scanning'
      BY <1>3, <1>5, <1>8, <3>3, <3>4, <3>5 DEF Scanning, Matches
    <3>7. P2VFirst'
      BY <1>3, <2>5 DEF P2VFirst, Done
    <3> QED BY <1>1, <1>3, <1>4, <2>5, <3>6, <3>7 DEF P2VInv
  <2> QED BY <1>11, <2>4, <2>5
<1>12. CASE pg >= epg /\ step' = "line" /\ UNCHANGED <<scanned, missed>>
  <2>1. Place' = <<lineNo + 1, 0>>
    BY <1>3, <1>12 DEF Place
  <2>2. Before(Place') = Before(x)
    BY <1>2, <1>4, <1>6, <1>12, <2>1, BeforeLine DEF ScanLine
  <2>3. Scanning'
    BY <1>3, <1>4, <1>5, <1>8, <1>12, <2>2 DEF Scanning, Matches
  <2>4. P2VFirst'
    BY <1>12 DEF P2VFirst, Done
  <2> QED BY <1>1, <1>3, <1>4, <1>12, <2>3, <2>4 DEF P2VInv
<1> QED BY <1>10, <1>11, <1>12 DEF Scan, ScanPage, CloseBoth, Hit

LEMMA P2VPagesChangeInv ==
  ASSUME PagemapAssumption, P2VInv, PagesChange
  PROVE  P2VInv'
<1>1. PagemapInv'
  BY PagesChangeInv DEF P2VInv
<1>2. changes' = changes + 1 /\ UNCHANGED <<vmas, req, step, lineNo, pg, epg, scanned, missed>>
  BY DEF PagesChange
<1>3. changes' \in Nat /\ changes' # 0
  BY <1>2 DEF P2VInv
<1>4. Place' = Place /\ (ScanLine' <=> ScanLine)
  BY <1>2 DEF Place, ScanLine, ps
<1>5. Before(Place)' = Before(Place)
  BY <1>2, <1>4 DEF Before, ScanPages, LinePages, ps, Earlier
<1>6. Scanning'
  BY <1>2, <1>3, <1>4, <1>5 DEF P2VInv, Scanning
<1>7. P2VFirst'
  BY <1>3 DEF P2VFirst
<1> QED BY <1>1, <1>2, <1>3, <1>6, <1>7 DEF P2VInv

LEMMA P2VUnchangedInv ==
  ASSUME P2VInv, UNCHANGED pagemapVars
  PROVE  P2VInv'
<1>1. PagemapInv'
  BY PagemapUnchangedInv DEF P2VInv
<1>2. UNCHANGED <<vmas, req, pt, alive, changes, step, lineNo, pg, epg, scanned, missed, result>>
  BY DEF pagemapVars, target
<1>3. Place' = Place /\ (ScanLine' <=> ScanLine)
  BY <1>2 DEF Place, ScanLine, ps
<1>4. Before(Place)' = Before(Place)
  BY <1>2, <1>3 DEF Before, ScanPages, LinePages, ps, Earlier
<1>5. (\A x : Matches(x)' <=> Matches(x)) /\ Hits' = Hits
  BY <1>2, ScanSame DEF Matches, Hits, HitsBut
<1>6. Scanning'
  BY <1>2, <1>3, <1>4, <1>5 DEF P2VInv, Scanning
<1>7. P2VFirst'
  BY <1>2, <1>5 DEF P2VInv, P2VFirst, Done, Earlier
<1> QED BY <1>1, <1>2, <1>6, <1>7 DEF P2VInv

(* For every list of mappings, cap and page table: a scan of               *)
(* lxgr_pa_to_va during which the pages stand still returns the address in *)
(* the first page, in the order of /proc/<pid>/maps, that maps the frame,  *)
(* if it is among the first PAMAP_MAX_PAGES pages and its entry could be   *)
(* read, and 0 if there is none such.                                      *)
THEOREM ScanCorrect == ASSUME PagemapAssumption, K = 1 PROVE PagemapSpec => []P2VFirst
<1>1. PagemapInit => P2VInv
  <2>1. PagemapInit => /\ step = "open" /\ changes = 0 /\ alive /\ lineNo = 0 /\ scanned = 0
                       /\ missed = {}
    BY DEF PagemapInit
  <2> QED BY <2>1, PagemapInitInv DEF P2VInv, Scanning, P2VFirst, Done
<1>2. P2VInv /\ [PagemapNext]_pagemapVars => P2VInv'
  BY P2VOpenInv, P2VOtherInv, P2VOpenMapsInv, P2VNextLineInv, P2VScanInv, P2VPagesChangeInv,
     P2VUnchangedInv DEF PagemapNext, Lookups
<1>3. P2VInv => P2VFirst
  BY DEF P2VInv
<1> QED BY <1>1, <1>2, <1>3, PTL DEF PagemapSpec
=============================================================================
