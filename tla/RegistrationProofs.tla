------------------------- MODULE RegistrationProofs -------------------------
(***************************************************************************)
(* The search for the registrations and the loading of their tables, for   *)
(* every set of tables that is followed, every set of modules and every    *)
(* metadata version; and the way from addresses to file offsets and back,  *)
(* for every list of segments.                                             *)
(***************************************************************************)
EXTENDS RegistrationInit, AddressMap, WellFoundedInduction, TLAPS

Loads ==
  {"cr", "mr", "lookup", "modules", "mp", "gmp", "ip", "cag", "mu", "rpw", "uvc",
   "types", "fo", "sizes", "gi", "gmt", "ms"}

(* The places of the loads in the two inits. *)
ElfRank ==
  [l \in Loads |->
     CASE l = "cr" -> 1 [] l = "mr" -> 2 [] l = "mp" -> 3 [] l = "gmp" -> 4 [] l = "ip" -> 5
       [] l = "cag" -> 6 [] l = "mu" -> 7 [] l = "rpw" -> 8 [] l = "uvc" -> 9
       [] l = "types" -> 10 [] l = "fo" -> 11 [] l = "sizes" -> 12 [] l = "gi" -> 13
       [] l = "gmt" -> 14 [] l = "ms" -> 15 [] l = "lookup" -> 16 [] OTHER -> 17]
BaseRank ==
  [l \in Loads |->
     CASE l = "mr" -> 1 [] l = "types" -> 2 [] l = "gi" -> 3 [] l = "ms" -> 4 [] l = "gmt" -> 5
       [] l = "cr" -> 6 [] l = "mp" -> 7 [] l = "gmp" -> 8 [] l = "ip" -> 9
       [] l = "cag" -> 10 [] l = "mu" -> 11 [] l = "fo" -> 12 [] l = "sizes" -> 13
       [] l = "lookup" -> 14 [] OTHER -> 15]
Rank == IF fmt = "elf" THEN ElfRank ELSE BaseRank

Elems(s) == {s[i] : i \in 1 .. Len(s)}

(* A sequence of loads with ascending places above a, up to b. *)
Between(rk, s, a, b) ==
  /\ s \in Seq(Loads)
  /\ \A i \in 1 .. Len(s) : a < rk[s[i]] /\ rk[s[i]] <= b
  /\ \A i, j \in 1 .. Len(s) : i < j => rk[s[i]] < rk[s[j]]

-----------------------------------------------------------------------------
(* Sequences of loads *)

(* Every load has its place. *)
LEMMA RankType == ElfRank \in [Loads -> Int] /\ BaseRank \in [Loads -> Int] /\ Rank \in [Loads -> Int]
<1>1. ElfRank \in [Loads -> Int]
  BY DEF ElfRank
<1>2. BaseRank \in [Loads -> Int]
  BY DEF BaseRank
<1> QED BY <1>1, <1>2 DEF Rank

(* Two sequences one behind the other. *)
LEMMA Chain ==
  ASSUME NEW rk \in [Loads -> Int], NEW a \in Int, NEW b \in Int, NEW c \in Int, a <= b, b <= c,
         NEW s, NEW t, Between(rk, s, a, b), Between(rk, t, b, c)
  PROVE  /\ Between(rk, s \o t, a, c)
         /\ Elems(s) \subseteq Elems(s \o t) /\ Elems(t) \subseteq Elems(s \o t)
<1>1. /\ s \in Seq(Loads) /\ t \in Seq(Loads) /\ s \o t \in Seq(Loads)
      /\ Len(s) \in Nat /\ Len(t) \in Nat /\ Len(s \o t) = Len(s) + Len(t)
  BY DEF Between
<1>2. \A i \in 1 .. Len(s) : i \in 1 .. Len(s \o t) /\ (s \o t)[i] = s[i]
  BY <1>1
<1>3. \A i \in 1 .. Len(t) : Len(s) + i \in 1 .. Len(s \o t) /\ (s \o t)[Len(s) + i] = t[i]
  BY <1>1
<1>4. \A k \in 1 .. Len(s \o t) :
        k \in 1 .. Len(s) \/ (k - Len(s) \in 1 .. Len(t) /\ (s \o t)[k] = t[k - Len(s)])
  <2> SUFFICES ASSUME NEW k \in 1 .. Len(s \o t), ~(k \in 1 .. Len(s))
               PROVE  k - Len(s) \in 1 .. Len(t) /\ (s \o t)[k] = t[k - Len(s)]
    OBVIOUS
  <2>1. k - Len(s) \in 1 .. Len(t) /\ Len(s) + (k - Len(s)) = k
    BY <1>1
  <2>2. (s \o t)[Len(s) + (k - Len(s))] = t[k - Len(s)]
    BY <1>3, <2>1
  <2> QED BY <2>1, <2>2
<1>5. \A i \in 1 .. Len(s) : rk[s[i]] \in Int /\ a < rk[s[i]] /\ rk[s[i]] <= b
  BY <1>1 DEF Between
<1>6. \A i \in 1 .. Len(t) : rk[t[i]] \in Int /\ b < rk[t[i]] /\ rk[t[i]] <= c
  BY <1>1 DEF Between
<1>7. \A k \in 1 .. Len(s \o t) : a < rk[(s \o t)[k]] /\ rk[(s \o t)[k]] <= c
  <2> SUFFICES ASSUME NEW k \in 1 .. Len(s \o t)
               PROVE  a < rk[(s \o t)[k]] /\ rk[(s \o t)[k]] <= c
    OBVIOUS
  <2>1. CASE k \in 1 .. Len(s)
    BY <1>2, <1>5, <2>1
  <2>2. CASE k - Len(s) \in 1 .. Len(t) /\ (s \o t)[k] = t[k - Len(s)]
    BY <1>6, <2>2
  <2> QED BY <1>4, <2>1, <2>2
<1>8. \A i, j \in 1 .. Len(s \o t) : i < j => rk[(s \o t)[i]] < rk[(s \o t)[j]]
  <2> SUFFICES ASSUME NEW i \in 1 .. Len(s \o t), NEW j \in 1 .. Len(s \o t), i < j
               PROVE  rk[(s \o t)[i]] < rk[(s \o t)[j]]
    OBVIOUS
  <2>1. CASE j \in 1 .. Len(s)
    <3>1. i \in 1 .. Len(s)
      BY <1>1, <2>1
    <3> QED BY <1>2, <2>1, <3>1 DEF Between
  <2>2. CASE i \in 1 .. Len(s) /\ j - Len(s) \in 1 .. Len(t) /\ (s \o t)[j] = t[j - Len(s)]
    <3>1. PICK p \in 1 .. Len(t) : (s \o t)[j] = t[p]
      BY <2>2
    <3>2. rk[s[i]] <= b /\ b < rk[t[p]] /\ rk[s[i]] \in Int /\ rk[t[p]] \in Int
      BY <1>5, <1>6, <2>2
    <3>3. (s \o t)[i] = s[i]
      BY <1>2, <2>2
    <3> QED BY <3>1, <3>2, <3>3
  <2>3. CASE /\ i - Len(s) \in 1 .. Len(t) /\ (s \o t)[i] = t[i - Len(s)]
             /\ j - Len(s) \in 1 .. Len(t) /\ (s \o t)[j] = t[j - Len(s)]
    <3>1. i - Len(s) < j - Len(s)
      BY <1>1
    <3> QED BY <2>3, <3>1 DEF Between
  <2> QED BY <1>1, <1>4, <2>1, <2>2, <2>3
<1>9. Elems(s) \subseteq Elems(s \o t) /\ Elems(t) \subseteq Elems(s \o t)
  BY <1>2, <1>3 DEF Elems
<1> QED BY <1>1, <1>7, <1>8, <1>9 DEF Between

(* A load by itself, or none. *)
LEMMA Single ==
  ASSUME NEW rk \in [Loads -> Int], NEW l \in Loads, NEW a \in Int, NEW b \in Int,
         rk[l] = b, a < b
  PROVE  /\ Between(rk, << l >>, a, b) /\ Between(rk, << >>, a, b)
         /\ Elems(<< l >>) = {l}
<1>1. << l >> \in Seq(Loads) /\ << >> \in Seq(Loads) /\ Len(<< l >>) = 1 /\ << l >>[1] = l
      /\ Len(<< >>) = 0
  OBVIOUS
<1>2. \A i \in 1 .. Len(<< l >>) : i = 1
  BY <1>1
<1>3. \A i \in 1 .. Len(<< >>) : FALSE
  OBVIOUS
<1>4. Elems(<< l >>) = {l}
  BY <1>1, <1>2 DEF Elems
<1> QED BY <1>1, <1>2, <1>3, <1>4 DEF Between

(* What is left after the first load. *)
LEMMA Rest ==
  ASSUME NEW rk \in [Loads -> Int], NEW s, NEW a, NEW b, Between(rk, s, a, b), s # << >>
  PROVE  /\ Between(rk, Tail(s), a, b) /\ Head(s) \in Loads
         /\ Elems(s) = {Head(s)} \cup Elems(Tail(s))
         /\ \A l \in Elems(Tail(s)) : l \in Loads /\ rk[Head(s)] < rk[l]
<1>1. /\ s \in Seq(Loads) /\ Len(s) \in Nat /\ Len(s) > 0 /\ Tail(s) \in Seq(Loads)
      /\ Len(Tail(s)) = Len(s) - 1 /\ Head(s) = s[1]
  BY DEF Between
<1>2. \A i \in 1 .. Len(Tail(s)) : i + 1 \in 1 .. Len(s) /\ Tail(s)[i] = s[i + 1] /\ 1 < i + 1
  BY <1>1
<1>3. \A i \in 1 .. Len(s) : i = 1 \/ (i - 1 \in 1 .. Len(Tail(s)) /\ Tail(s)[i - 1] = s[i])
  BY <1>1
<1>4. 1 \in 1 .. Len(s)
  BY <1>1
<1>5. Elems(s) = {Head(s)} \cup Elems(Tail(s))
  <2>1. ASSUME NEW l \in Elems(s) PROVE l \in {Head(s)} \cup Elems(Tail(s))
    BY <1>1, <1>3 DEF Elems
  <2>2. ASSUME NEW l \in {Head(s)} \cup Elems(Tail(s)) PROVE l \in Elems(s)
    BY <1>1, <1>2, <1>4 DEF Elems
  <2> QED BY <2>1, <2>2
<1>6. \A l \in Elems(Tail(s)) : l \in Loads /\ rk[Head(s)] < rk[l]
  BY <1>1, <1>2, <1>4 DEF Elems, Between
<1>7. Between(rk, Tail(s), a, b)
  <2>1. \A i \in 1 .. Len(Tail(s)) : a < rk[Tail(s)[i]] /\ rk[Tail(s)[i]] <= b
    BY <1>2 DEF Between
  <2>2. \A i, j \in 1 .. Len(Tail(s)) : i < j => rk[Tail(s)[i]] < rk[Tail(s)[j]]
    <3> SUFFICES ASSUME NEW i \in 1 .. Len(Tail(s)), NEW j \in 1 .. Len(Tail(s)), i < j
                 PROVE  rk[Tail(s)[i]] < rk[Tail(s)[j]]
      OBVIOUS
    <3>1. i + 1 < j + 1
      OBVIOUS
    <3> QED BY <1>2, <3>1 DEF Between
  <2> QED BY <1>1, <2>1, <2>2 DEF Between
<1> QED BY <1>1, <1>5, <1>6, <1>7
-----------------------------------------------------------------------------
(* The plans *)

(* A plan with one more load behind it. *)
LEMMA OneMore ==
  ASSUME NEW rk \in [Loads -> Int], NEW s, NEW a \in Nat, Between(rk, s, 0, a),
         NEW l \in Loads, NEW b \in Nat, b = a + 1, rk[l] = b, NEW t, t \in {<< l >>, << >>}
  PROVE  /\ Between(rk, s \o t, 0, b)
         /\ Elems(s) \subseteq Elems(s \o t)
         /\ t = << l >> => l \in Elems(s \o t)
<1>1. Between(rk, t, a, b) /\ (t = << l >> => Elems(t) = {l})
  <2>1. a < b
    OBVIOUS
  <2>2. /\ Between(rk, << l >>, a, b) /\ Between(rk, << >>, a, b)
        /\ Elems(<< l >>) = {l}
    BY <2>1, Single
  <2> QED BY <2>2
<1>2. Between(rk, s \o t, 0, b) /\ Elems(s) \subseteq Elems(s \o t) /\ Elems(t) \subseteq Elems(s \o t)
  <2>1. a \in Int /\ b \in Int /\ 0 <= a /\ a <= b /\ 0 \in Int
    OBVIOUS
  <2> QED BY <1>1, <2>1, Chain
<1> QED BY <1>1, <1>2

(* A plan with the load of a table behind it, if it is due. *)
LEMMA LoadMore ==
  ASSUME NEW rk \in [Loads -> Int], NEW s, NEW a \in Nat, Between(rk, s, 0, a),
         NEW l \in Loads, NEW b \in Nat, b = a + 1, rk[l] = b, NEW when
  PROVE  /\ Between(rk, s \o Load(l, when), 0, b) /\ Between(rk, s \o Always(l), 0, b)
         /\ Elems(s) \subseteq Elems(s \o Load(l, when)) /\ Elems(s) \subseteq Elems(s \o Always(l))
         /\ l \in Tables => l \in Elems(s \o Always(l))
<1>1. /\ Load(l, when) \in {<< l >>, << >>} /\ Always(l) \in {<< l >>, << >>}
      /\ l \in Tables => Always(l) = << l >>
  BY DEF Load, Always
<1> QED BY <1>1, OneMore

(* With a load that is always due. *)
LEMMA FixedMore ==
  ASSUME NEW rk \in [Loads -> Int], NEW s, NEW a \in Nat, Between(rk, s, 0, a),
         NEW l \in Loads, NEW b \in Nat, b = a + 1, rk[l] = b
  PROVE  /\ Between(rk, s \o << l >>, 0, b)
         /\ Elems(s) \subseteq Elems(s \o << l >>)
         /\ l \in Elems(s \o << l >>)
<1>1. << l >> \in {<< l >>, << >>}
  OBVIOUS
<1> QED BY <1>1, OneMore

(* With that of the modules, if the version has them. *)
LEMMA ModulesMore ==
  ASSUME NEW rk \in [Loads -> Int], NEW s, NEW a \in Nat, Between(rk, s, 0, a),
         NEW b \in Nat, b = a + 1, rk["modules"] = b, NEW v
  PROVE  /\ Between(rk, s \o ModulesLoad(v), 0, b)
         /\ Elems(s) \subseteq Elems(s \o ModulesLoad(v))
<1>1. ModulesLoad(v) \in {<< "modules" >>, << >>} /\ "modules" \in Loads
  BY DEF ModulesLoad, Loads
<1> QED BY <1>1, OneMore

(* The places, one by one. *)
LEMMA ElfRanks ==
  /\ ElfRank["cr"] = 1 /\ ElfRank["mr"] = 2 /\ ElfRank["mp"] = 3
  /\ ElfRank["gmp"] = 4 /\ ElfRank["ip"] = 5 /\ ElfRank["cag"] = 6
  /\ ElfRank["mu"] = 7 /\ ElfRank["rpw"] = 8 /\ ElfRank["uvc"] = 9
  /\ ElfRank["types"] = 10 /\ ElfRank["fo"] = 11 /\ ElfRank["sizes"] = 12
  /\ ElfRank["gi"] = 13 /\ ElfRank["gmt"] = 14 /\ ElfRank["ms"] = 15
  /\ ElfRank["lookup"] = 16 /\ ElfRank["modules"] = 17
BY DEF ElfRank, Loads

(* The places, one by one. *)
LEMMA BaseRanks ==
  /\ BaseRank["mr"] = 1 /\ BaseRank["types"] = 2 /\ BaseRank["gi"] = 3
  /\ BaseRank["ms"] = 4 /\ BaseRank["gmt"] = 5 /\ BaseRank["cr"] = 6
  /\ BaseRank["mp"] = 7 /\ BaseRank["gmp"] = 8 /\ BaseRank["ip"] = 9
  /\ BaseRank["cag"] = 10 /\ BaseRank["mu"] = 11 /\ BaseRank["fo"] = 12
  /\ BaseRank["sizes"] = 13 /\ BaseRank["lookup"] = 14 /\ BaseRank["modules"] = 15
BY DEF BaseRank, Loads

(* The loads of Elf::init, in their order. *)
LEMMA ElfPlanOk ==
  ASSUME NEW v
  PROVE  /\ Between(ElfRank, ElfPlan(v), 0, 17)
         /\ "lookup" \in Elems(ElfPlan(v))
         /\ \A t \in {"types", "fo", "gi"} : t \in Tables => t \in Elems(ElfPlan(v))
<1>r. ElfRank \in [Loads -> Int]
  BY RankType
<1> DEFINE p2 == << "cr", "mr" >>
<1>2. Between(ElfRank, p2, 0, 2)
  <2>1. p2 \in Seq(Loads) /\ Len(p2) = 2 /\ p2[1] = "cr" /\ p2[2] = "mr"
    BY DEF Loads
  <2>2. \A i \in 1 .. Len(p2) : i = 1 \/ i = 2
    BY <2>1
  <2> HIDE DEF p2
  <2> QED BY <2>1, <2>2, ElfRanks DEF Between
<1> HIDE DEF p2
<1> DEFINE p3 == p2 \o Load("mp", v <= 2410)
<1>3. Between(ElfRank, p3, 0, 3)
  BY <1>2, <1>r, ElfRanks, LoadMore DEF Loads
<1> HIDE DEF p3
<1> DEFINE p4 == p3 \o Always("gmp")
<1>4. Between(ElfRank, p4, 0, 4)
  BY <1>3, <1>r, ElfRanks, LoadMore DEF Loads
<1> HIDE DEF p4
<1> DEFINE p5 == p4 \o Always("ip")
<1>5. Between(ElfRank, p5, 0, 5)
  BY <1>4, <1>r, ElfRanks, LoadMore DEF Loads
<1> HIDE DEF p5
<1> DEFINE p6 == p5 \o Load("cag", v < 2700)
<1>6. Between(ElfRank, p6, 0, 6)
  BY <1>5, <1>r, ElfRanks, LoadMore DEF Loads
<1> HIDE DEF p6
<1> DEFINE p7 == p6 \o Load("mu", 1600 < v /\ v < 2700)
<1>7. Between(ElfRank, p7, 0, 7)
  BY <1>6, <1>r, ElfRanks, LoadMore DEF Loads
<1> HIDE DEF p7
<1> DEFINE p8 == p7 \o Load("rpw", v >= 2200)
<1>8. Between(ElfRank, p8, 0, 8)
  BY <1>7, <1>r, ElfRanks, LoadMore DEF Loads
<1> HIDE DEF p8
<1> DEFINE p9 == p8 \o Load("uvc", v >= 2200)
<1>9. Between(ElfRank, p9, 0, 9)
  BY <1>8, <1>r, ElfRanks, LoadMore DEF Loads
<1> HIDE DEF p9
<1> DEFINE p10 == p9 \o Always("types")
<1>10. /\ Between(ElfRank, p10, 0, 10)
      /\ ("types" \in Tables => "types" \in Elems(p10))
  BY <1>9, <1>r, ElfRanks, LoadMore DEF Loads
<1> HIDE DEF p10
<1> DEFINE p11 == p10 \o Always("fo")
<1>11. /\ Between(ElfRank, p11, 0, 11)
      /\ ("types" \in Tables => "types" \in Elems(p11))
      /\ ("fo" \in Tables => "fo" \in Elems(p11))
  BY <1>10, <1>r, ElfRanks, LoadMore DEF Loads
<1> HIDE DEF p11
<1> DEFINE p12 == p11 \o Always("sizes")
<1>12. /\ Between(ElfRank, p12, 0, 12)
      /\ ("types" \in Tables => "types" \in Elems(p12))
      /\ ("fo" \in Tables => "fo" \in Elems(p12))
  BY <1>11, <1>r, ElfRanks, LoadMore DEF Loads
<1> HIDE DEF p12
<1> DEFINE p13 == p12 \o Always("gi")
<1>13. /\ Between(ElfRank, p13, 0, 13)
      /\ ("types" \in Tables => "types" \in Elems(p13))
      /\ ("fo" \in Tables => "fo" \in Elems(p13))
      /\ ("gi" \in Tables => "gi" \in Elems(p13))
  BY <1>12, <1>r, ElfRanks, LoadMore DEF Loads
<1> HIDE DEF p13
<1> DEFINE p14 == p13 \o Always("gmt")
<1>14. /\ Between(ElfRank, p14, 0, 14)
      /\ ("types" \in Tables => "types" \in Elems(p14))
      /\ ("fo" \in Tables => "fo" \in Elems(p14))
      /\ ("gi" \in Tables => "gi" \in Elems(p14))
  BY <1>13, <1>r, ElfRanks, LoadMore DEF Loads
<1> HIDE DEF p14
<1> DEFINE p15 == p14 \o Always("ms")
<1>15. /\ Between(ElfRank, p15, 0, 15)
      /\ ("types" \in Tables => "types" \in Elems(p15))
      /\ ("fo" \in Tables => "fo" \in Elems(p15))
      /\ ("gi" \in Tables => "gi" \in Elems(p15))
  BY <1>14, <1>r, ElfRanks, LoadMore DEF Loads
<1> HIDE DEF p15
<1> DEFINE p16 == p15 \o << "lookup" >>
<1>16. /\ Between(ElfRank, p16, 0, 16)
      /\ ("types" \in Tables => "types" \in Elems(p16))
      /\ ("fo" \in Tables => "fo" \in Elems(p16))
      /\ ("gi" \in Tables => "gi" \in Elems(p16))
      /\ "lookup" \in Elems(p16)
  BY <1>15, <1>r, ElfRanks, FixedMore DEF Loads
<1> HIDE DEF p16
<1> DEFINE p17 == p16 \o ModulesLoad(v)
<1>17. /\ Between(ElfRank, p17, 0, 17)
      /\ ("types" \in Tables => "types" \in Elems(p17))
      /\ ("fo" \in Tables => "fo" \in Elems(p17))
      /\ ("gi" \in Tables => "gi" \in Elems(p17))
      /\ "lookup" \in Elems(p17)
  BY <1>16, <1>r, ElfRanks, ModulesMore
<1> HIDE DEF p17
<1> QED
  BY <1>17
  DEF ElfPlan, p2, p3, p4, p5, p6, p7, p8, p9, p10, p11, p12, p13, p14, p15, p16, p17

(* The loads of Il2Cpp::init, in theirs. *)
LEMMA BasePlanOk ==
  ASSUME NEW v
  PROVE  /\ Between(BaseRank, BasePlan(v), 0, 15)
         /\ "lookup" \in Elems(BasePlan(v))
<1>r. BaseRank \in [Loads -> Int]
  BY RankType
<1> DEFINE p1 == << "mr" >>
<1>1. Between(BaseRank, p1, 0, 1)
  <2>1. "mr" \in Loads /\ BaseRank["mr"] = 1 /\ 0 \in Int /\ 1 \in Int /\ 0 < 1
    BY BaseRanks DEF Loads
  <2> QED BY <1>r, <2>1, Single
<1> HIDE DEF p1
<1> DEFINE p2 == p1 \o Always("types")
<1>2. Between(BaseRank, p2, 0, 2)
  BY <1>1, <1>r, BaseRanks, LoadMore DEF Loads
<1> HIDE DEF p2
<1> DEFINE p3 == p2 \o Always("gi")
<1>3. Between(BaseRank, p3, 0, 3)
  BY <1>2, <1>r, BaseRanks, LoadMore DEF Loads
<1> HIDE DEF p3
<1> DEFINE p4 == p3 \o Always("ms")
<1>4. Between(BaseRank, p4, 0, 4)
  BY <1>3, <1>r, BaseRanks, LoadMore DEF Loads
<1> HIDE DEF p4
<1> DEFINE p5 == p4 \o Always("gmt")
<1>5. Between(BaseRank, p5, 0, 5)
  BY <1>4, <1>r, BaseRanks, LoadMore DEF Loads
<1> HIDE DEF p5
<1> DEFINE p6 == p5 \o << "cr" >>
<1>6. Between(BaseRank, p6, 0, 6)
  BY <1>5, <1>r, BaseRanks, FixedMore DEF Loads
<1> HIDE DEF p6
<1> DEFINE p7 == p6 \o Load("mp", v <= 2410)
<1>7. Between(BaseRank, p7, 0, 7)
  BY <1>6, <1>r, BaseRanks, LoadMore DEF Loads
<1> HIDE DEF p7
<1> DEFINE p8 == p7 \o Always("gmp")
<1>8. Between(BaseRank, p8, 0, 8)
  BY <1>7, <1>r, BaseRanks, LoadMore DEF Loads
<1> HIDE DEF p8
<1> DEFINE p9 == p8 \o Always("ip")
<1>9. Between(BaseRank, p9, 0, 9)
  BY <1>8, <1>r, BaseRanks, LoadMore DEF Loads
<1> HIDE DEF p9
<1> DEFINE p10 == p9 \o Load("cag", v < 2700)
<1>10. Between(BaseRank, p10, 0, 10)
  BY <1>9, <1>r, BaseRanks, LoadMore DEF Loads
<1> HIDE DEF p10
<1> DEFINE p11 == p10 \o Load("mu", v < 2700)
<1>11. Between(BaseRank, p11, 0, 11)
  BY <1>10, <1>r, BaseRanks, LoadMore DEF Loads
<1> HIDE DEF p11
<1> DEFINE p12 == p11 \o Always("fo")
<1>12. Between(BaseRank, p12, 0, 12)
  BY <1>11, <1>r, BaseRanks, LoadMore DEF Loads
<1> HIDE DEF p12
<1> DEFINE p13 == p12 \o Always("sizes")
<1>13. Between(BaseRank, p13, 0, 13)
  BY <1>12, <1>r, BaseRanks, LoadMore DEF Loads
<1> HIDE DEF p13
<1> DEFINE p14 == p13 \o << "lookup" >>
<1>14. /\ Between(BaseRank, p14, 0, 14)
      /\ "lookup" \in Elems(p14)
  BY <1>13, <1>r, BaseRanks, FixedMore DEF Loads
<1> HIDE DEF p14
<1> DEFINE p15 == p14 \o ModulesLoad(v)
<1>15. /\ Between(BaseRank, p15, 0, 15)
      /\ "lookup" \in Elems(p15)
  BY <1>14, <1>r, BaseRanks, ModulesMore
<1> HIDE DEF p15
<1> QED
  BY <1>15
  DEF BasePlan, p1, p2, p3, p4, p5, p6, p7, p8, p9, p10, p11, p12, p13, p14, p15
(* The plan of either: it is in order, it has the lookup, and that of ELF  *)
(* has all the tables it empties.                                          *)
LEMMA PlanOk ==
  ASSUME NEW v
  PROVE  /\ Between(Rank, Plan(v), 0, 17)
         /\ "lookup" \in Elems(Plan(v))
         /\ fmt = "elf" => \A t \in Tables : Emptied(t) => t \in Elems(Plan(v))
<1>1. CASE fmt = "elf"
  BY <1>1, ElfPlanOk DEF Rank, Plan, Emptied
<1>2. CASE fmt # "elf"
  <2>1. Between(BaseRank, BasePlan(v), 0, 15) /\ "lookup" \in Elems(BasePlan(v))
    BY BasePlanOk
  <2>2. Between(BaseRank, BasePlan(v), 0, 17)
    <3>1. \A i \in 1 .. Len(BasePlan(v)) : BaseRank[BasePlan(v)[i]] \in Int
      BY <2>1, RankType DEF Between
    <3> QED BY <2>1, <3>1 DEF Between
  <2> QED BY <1>2, <2>1, <2>2 DEF Rank, Plan
<1> QED BY <1>1, <1>2

-----------------------------------------------------------------------------
(* The invariant *)

(* What is in an object that is not ELF's is the current candidate's. *)
OwnObject ==
  fmt # "elf" /\ pc \in {"refine", "load", "done"} =>
    /\ \A t \in Tables : owner[t] \in {by, None}
    /\ \A m \in Modules : mods[m] \in {by, None}

(* The tables that are emptied are still to come, or are the candidate's. *)
EmptiedRight ==
  fmt = "elf" /\ pc = "load" =>
    \A t \in Tables : Emptied(t) =>
      t \in Elems(plan) \/ t \in failed \/ owner[t] \in {by, None}

(* The lookup is still to come, or is built and its tables stay. *)
LookupRight ==
  pc = "load" =>
    \/ "lookup" \in Elems(plan)
    \/ fmt = "elf" /\ "gi" \in failed
    \/ lookup = Built /\ \A t \in {"gmt", "ms", "gmp"} : t \notin Elems(plan)

RegInv ==
  /\ fmt \in Formats /\ todo \in Seq(Strategies) /\ TypeOK
  /\ pc = "load" => Between(Rank, plan, 0, 17)
  /\ OwnObject /\ EmptiedRight /\ LookupRight
  /\ OnlyAccepted /\ LookupCurrent

(* A version that is tried again as 29 is one AutoPlus can leave. *)
LEMMA VersionStays ==
  ASSUME TypeOK, NEW v \in Refined(version) \cup (IF version = 3100 THEN {2900} ELSE {})
  PROVE  v \in {mv} \cup Refined(mv) \cup (IF mv = 3100 THEN {2910} ELSE {})
<1>1. version \in {mv} \cup Refined(mv) \cup (IF mv = 3100 THEN {2910} ELSE {})
  BY DEF TypeOK
<1> QED BY <1>1 DEF Refined

(* A failed init leaves an object that the next attempt puts right. *)
LEMMA FailsInv ==
  ASSUME RegInv, pc = "load", Fails, UNCHANGED <<job, by, attempts>>,
         owner' \in [Tables -> Strategies \cup {None}],
         mods' \in [Modules -> Strategies \cup {None}],
         fmt # "elf" => /\ \A t \in Tables : owner'[t] \in {by, None}
                        /\ \A m \in Modules : mods'[m] \in {by, None}
  PROVE  RegInv'
<1>1. CASE version = 3100 /\ version' = 2900 /\ plan' = Plan(2900) /\ failed' = {}
           /\ UNCHANGED <<pc, todo>>
  <2>1. version' \in {mv} \cup Refined(mv) \cup (IF mv = 3100 THEN {2910} ELSE {})
    BY <1>1, VersionStays DEF RegInv
  <2>2. TypeOK'
    BY <1>1, <2>1 DEF RegInv, TypeOK, job, Refined
  <2>3. /\ Between(Rank, plan', 0, 17) /\ "lookup" \in Elems(plan')
        /\ fmt = "elf" => \A t \in Tables : Emptied(t) => t \in Elems(plan')
    BY <1>1, PlanOk
  <2>4. Rank' = Rank /\ pc' = "load" /\ fmt' = fmt /\ by' = by /\ todo' = todo
        /\ \A t : Emptied(t)' <=> Emptied(t)
    BY <1>1 DEF job, Rank, Emptied
  <2>5. OwnObject'
    BY <2>4 DEF OwnObject
  <2>6. EmptiedRight' /\ LookupRight'
    BY <2>3, <2>4 DEF EmptiedRight, LookupRight
  <2>7. OnlyAccepted' /\ LookupCurrent'
    BY <2>4 DEF OnlyAccepted, LookupCurrent
  <2> QED BY <2>2, <2>3, <2>4, <2>5, <2>6, <2>7 DEF RegInv
<1>2. CASE pc' \in {"search", "error"} /\ todo' \in Seq(Strategies) /\ UNCHANGED <<version, failed>>
  <2>1. TypeOK'
    BY <1>2 DEF RegInv, TypeOK, job, Refined
  <2>2. OwnObject' /\ EmptiedRight' /\ LookupRight' /\ OnlyAccepted' /\ LookupCurrent'
    BY <1>2 DEF OwnObject, EmptiedRight, LookupRight, OnlyAccepted, LookupCurrent
  <2> QED BY <1>2, <2>1, <2>2 DEF RegInv, job
<1>3. << "manual" >> \in Seq(Strategies)
  BY DEF Strategies
<1>4. todo \in Seq(Strategies)
  BY DEF RegInv
<1>5. CASE version = 3100
  BY <1>1, <1>5 DEF Fails
<1>6. CASE version # 3100
  <2>1. (pc' = "search" \/ pc' = "error") /\ (todo' = todo \/ todo' = << "manual" >>)
        /\ UNCHANGED <<version, failed>>
    BY <1>6 DEF Fails
  <2> QED BY <1>2, <1>3, <1>4, <2>1
<1> QED BY <1>5, <1>6
-----------------------------------------------------------------------------
(* The steps *)

(* A load that changes neither the lookup nor the modules. *)
LEMMA PlanMove ==
  ASSUME RegInv, pc = "load", plan # << >>, plan' = rest,
         UNCHANGED <<job, pc, todo, by, attempts, version>>,
         owner' \in [Tables -> Strategies \cup {None}],
         mods' \in [Modules -> Strategies \cup {None}],
         failed \subseteq failed', failed' \subseteq Tables,
         \A t \in Tables : t # cur => owner'[t] = owner[t],
         cur \in Tables =>
           \/ owner'[cur] \in {by, None}
           \/ owner'[cur] = owner[cur] /\ (Emptied(cur) /\ fmt = "elf" => cur \in failed'),
         fmt # "elf" => \A m \in Modules : mods'[m] \in {by, None},
         lookup' = IF cur = "lookup" THEN Built' ELSE lookup,
         TablesAssumption
  PROVE  RegInv'
<1>1. /\ Rank \in [Loads -> Int] /\ Between(Rank, plan, 0, 17)
      /\ fmt' = fmt /\ mv' = mv /\ by' = by /\ pc' = "load" /\ todo' = todo /\ version' = version
  BY RankType DEF RegInv, job
<1>2. /\ Between(Rank, plan', 0, 17) /\ cur \in Loads
      /\ Elems(plan) = {cur} \cup Elems(plan')
      /\ \A l \in Elems(plan') : l \in Loads /\ Rank[cur] < Rank[l]
  BY <1>1, Rest DEF rest, cur
<1>3. Rank' = Rank /\ \A t : Emptied(t)' <=> Emptied(t)
  BY <1>1 DEF Rank, Emptied
<1>4. TypeOK'
  BY <1>1 DEF RegInv, TypeOK, Refined
<1>5. OwnObject'
  <2> SUFFICES ASSUME fmt # "elf"
               PROVE  /\ \A t \in Tables : owner'[t] \in {by, None}
                      /\ \A m \in Modules : mods'[m] \in {by, None}
    BY <1>1 DEF OwnObject
  <2>1. \A t \in Tables : owner[t] \in {by, None}
    BY DEF RegInv, OwnObject
  <2> QED BY <2>1
<1>6. EmptiedRight'
  <2> SUFFICES ASSUME fmt = "elf", NEW t \in Tables, Emptied(t)
               PROVE  t \in Elems(plan') \/ t \in failed' \/ owner'[t] \in {by, None}
    BY <1>1, <1>3 DEF EmptiedRight
  <2>1. t \in Elems(plan) \/ t \in failed \/ owner[t] \in {by, None}
    BY DEF RegInv, EmptiedRight
  <2>2. CASE t = cur
    BY <2>1, <2>2
  <2>3. CASE t # cur
    BY <1>2, <2>1, <2>3
  <2> QED BY <2>2, <2>3
<1>7. LookupRight'
  <2>1. CASE cur = "lookup"
    <3>1. \A t \in {"gmt", "ms", "gmp"} : ~(Rank["lookup"] < Rank[t])
      BY ElfRanks, BaseRanks DEF Rank
    <3> QED BY <1>1, <1>2, <2>1, <3>1 DEF LookupRight
  <2>2. CASE cur # "lookup" /\ "lookup" \in Elems(plan)
    BY <1>1, <1>2, <2>2 DEF LookupRight
  <2>3. CASE fmt = "elf" /\ "gi" \in failed
    BY <1>1, <2>3 DEF LookupRight
  <2>4. CASE lookup = Built /\ cur # "lookup" /\ \A t \in {"gmt", "ms", "gmp"} : t \notin Elems(plan)
    <3>1. \A t \in {"gmt", "ms", "gmp"} : t \in Tables /\ t # cur /\ t \notin Elems(plan')
      BY <1>2, <2>4 DEF TablesAssumption
    <3>2. Built' = Built
      BY <3>1 DEF Built
    <3> QED BY <1>1, <2>4, <3>1, <3>2 DEF LookupRight
  <2> QED BY <2>1, <2>2, <2>3, <2>4 DEF RegInv, LookupRight
<1>8. OnlyAccepted' /\ LookupCurrent'
  BY <1>1 DEF OnlyAccepted, LookupCurrent
<1> QED BY <1>1, <1>2, <1>3, <1>4, <1>5, <1>6, <1>7, <1>8 DEF RegInv

(* A registration is read, or not. *)
LEMMA ReadInv ==
  ASSUME TablesAssumption, RegInv, ReadRegistration PROVE RegInv'
<1>1. /\ owner \in [Tables -> Strategies \cup {None}]
      /\ mods \in [Modules -> Strategies \cup {None}] /\ failed \subseteq Tables
  BY DEF RegInv, TypeOK
<1>2. /\ pc = "load" /\ plan # << >> /\ cur \in {"cr", "mr"}
      /\ UNCHANGED <<job, by, attempts, owner, lookup, mods>>
  BY DEF ReadRegistration, Loading
<1>3. fmt # "elf" => /\ \A t \in Tables : owner[t] \in {by, None}
                     /\ \A m \in Modules : mods[m] \in {by, None}
  BY <1>2 DEF RegInv, OwnObject
<1>4. CASE Fails
  BY <1>1, <1>2, <1>3, <1>4, FailsInv
<1>5. CASE plan' = rest /\ UNCHANGED <<pc, todo, version, failed>>
  <2>1. cur \notin Tables /\ cur # "lookup"
    BY <1>2 DEF TablesAssumption
  <2> QED BY <1>1, <1>2, <1>3, <1>5, <2>1, PlanMove
<1> QED BY <1>4, <1>5 DEF ReadRegistration

(* The lookup is built from the tables as they are. *)
LEMMA LookupInv ==
  ASSUME TablesAssumption, RegInv, BuildLookup PROVE RegInv'
<1>1. /\ owner \in [Tables -> Strategies \cup {None}]
      /\ mods \in [Modules -> Strategies \cup {None}] /\ failed \subseteq Tables
  BY DEF RegInv, TypeOK
<1>2. /\ pc = "load" /\ plan # << >> /\ cur = "lookup" /\ plan' = rest /\ lookup' = Built
      /\ UNCHANGED <<job, pc, todo, by, attempts, version, owner, mods, failed>>
  BY DEF BuildLookup, Loading
<1>3. fmt # "elf" => \A m \in Modules : mods[m] \in {by, None}
  BY <1>2 DEF RegInv, OwnObject
<1>4. Built' = Built /\ cur \notin Tables
  BY <1>2 DEF Built, TablesAssumption
<1> QED BY <1>1, <1>2, <1>3, <1>4, PlanMove

(* Modules are filled with the candidate's. *)
LEMMA ModulesInv ==
  ASSUME TablesAssumption, RegInv, LoadModules PROVE RegInv'
<1>1. /\ owner \in [Tables -> Strategies \cup {None}] /\ by \in Strategies \cup {None}
      /\ mods \in [Modules -> Strategies \cup {None}] /\ failed \subseteq Tables
  BY DEF RegInv, TypeOK
<1>2. /\ pc = "load" /\ plan # << >> /\ cur = "modules"
      /\ UNCHANGED <<job, by, attempts, owner, lookup>>
  BY DEF LoadModules, Loading
<1>3. fmt # "elf" => /\ \A t \in Tables : owner[t] \in {by, None}
                     /\ \A m \in Modules : mods[m] \in {by, None}
  BY <1>2 DEF RegInv, OwnObject
<1>4. PICK names \in SUBSET Modules :
        mods' = [m \in Modules |-> IF m \in names THEN by ELSE mods[m]]
  BY DEF LoadModules
<1>5. /\ mods' \in [Modules -> Strategies \cup {None}]
      /\ fmt # "elf" => \A m \in Modules : mods'[m] \in {by, None}
  BY <1>1, <1>3, <1>4
<1>6. CASE Fails
  BY <1>1, <1>2, <1>3, <1>5, <1>6, FailsInv
<1>7. CASE plan' = rest /\ UNCHANGED <<pc, todo, version, failed>>
  <2>1. cur \notin Tables /\ cur # "lookup"
    BY <1>2 DEF TablesAssumption
  <2> QED BY <1>1, <1>2, <1>5, <1>7, <2>1, PlanMove
<1> QED BY <1>6, <1>7 DEF LoadModules
(* A table is absent, loaded, or fails.  When the generic instances of ELF *)
(* are passed over, the tables that are emptied come before them.          *)
LEMMA TableInv ==
  ASSUME TablesAssumption, RegInv, LoadTable PROVE RegInv'
<1>1. /\ owner \in [Tables -> Strategies \cup {None}] /\ by \in Strategies \cup {None}
      /\ mods \in [Modules -> Strategies \cup {None}] /\ failed \subseteq Tables
  BY DEF RegInv, TypeOK
<1>2. /\ pc = "load" /\ plan # << >> /\ cur \in Tables /\ cur # "lookup"
      /\ UNCHANGED <<job, by, attempts, lookup, mods>>
  BY DEF LoadTable, TablesAssumption
<1>3. fmt # "elf" => /\ \A t \in Tables : owner[t] \in {by, None}
                     /\ \A m \in Modules : mods[m] \in {by, None}
  BY <1>2 DEF RegInv, OwnObject
<1>4. owner' \in {owner, [owner EXCEPT ![cur] = None], [owner EXCEPT ![cur] = by]}
  BY DEF LoadTable
<1>5. /\ owner' \in [Tables -> Strategies \cup {None}]
      /\ \A t \in Tables : t # cur => owner'[t] = owner[t]
      /\ owner'[cur] = owner[cur] \/ owner'[cur] \in {by, None}
  BY <1>1, <1>2, <1>4
<1>6. fmt # "elf" => \A t \in Tables : owner'[t] \in {by, None}
  BY <1>2, <1>3, <1>5
<1>7. CASE Fails
  BY <1>1, <1>2, <1>3, <1>5, <1>6, <1>7, FailsInv
<1>8. CASE /\ plan' = rest /\ UNCHANGED <<pc, todo, version, failed>>
           /\ (owner' = IF Emptied(cur) THEN [owner EXCEPT ![cur] = None] ELSE owner)
              \/ owner' = [owner EXCEPT ![cur] = by]
  <2>1. owner'[cur] \in {by, None} \/ (owner'[cur] = owner[cur] /\ ~Emptied(cur))
    BY <1>1, <1>2, <1>8
  <2> QED BY <1>1, <1>2, <1>3, <1>5, <1>8, <2>1, PlanMove
<1>9. CASE /\ plan' = rest /\ UNCHANGED <<pc, todo, version>> /\ failed' = failed \cup {cur}
  <2>1. failed \subseteq failed' /\ failed' \subseteq Tables /\ cur \in failed'
    BY <1>1, <1>2, <1>9
  <2> QED BY <1>1, <1>2, <1>3, <1>5, <1>9, <2>1, PlanMove
<1>10. CASE /\ fmt = "elf" /\ cur = "gi" /\ plan' = ModulesLoad(version)
            /\ UNCHANGED <<pc, todo, version>> /\ failed' = failed \cup {cur}
  <2>1. /\ Rank \in [Loads -> Int] /\ Between(Rank, plan, 0, 17) /\ Rank' = Rank
        /\ fmt' = fmt /\ mv' = mv /\ by' = by /\ pc' = "load"
    BY <1>2, <1>10, RankType DEF RegInv, job, Rank
  <2>2. TypeOK'
    BY <1>1, <1>2, <1>5, <1>10, <2>1 DEF RegInv, TypeOK, Refined
  <2>3. Between(Rank, plan', 0, 17)
    <3>1. "modules" \in Loads /\ Rank["modules"] = 17 /\ 0 \in Int /\ 17 \in Int /\ 0 < 17
      BY <1>10, ElfRanks DEF Rank, Loads
    <3>2. Between(Rank, << "modules" >>, 0, 17) /\ Between(Rank, << >>, 0, 17)
      BY <2>1, <3>1, Single
    <3> QED BY <1>10, <3>2 DEF ModulesLoad
  <2>4. EmptiedRight'
    <3> SUFFICES ASSUME NEW t \in Tables, Emptied(t), t # "gi"
                 PROVE  t \in failed \/ owner'[t] \in {by, None}
      BY <1>10, <2>1 DEF EmptiedRight, Emptied
    <3>1. t \in {"types", "fo"}
      BY <1>10 DEF Emptied
    <3>2. \A l \in Elems(Tail(plan)) : Rank["gi"] < Rank[l]
      BY <1>2, <1>10, <2>1, Rest DEF cur
    <3>3. ~(Rank["gi"] < Rank[t])
      BY <1>10, <3>1, ElfRanks DEF Rank
    <3>4. t \notin Elems(plan)
      BY <1>2, <1>10, <2>1, <3>1, <3>2, <3>3, Rest DEF cur
    <3>5. t \in failed \/ owner[t] \in {by, None}
      BY <1>2, <1>10, <3>4 DEF RegInv, EmptiedRight
    <3> QED BY <1>5, <1>10, <3>5
  <2>5. LookupRight'
    BY <1>10, <2>1 DEF LookupRight
  <2>6. OwnObject' /\ OnlyAccepted' /\ LookupCurrent'
    BY <1>10, <2>1 DEF OwnObject, OnlyAccepted, LookupCurrent
  <2> QED BY <1>10, <2>1, <2>2, <2>3, <2>4, <2>5, <2>6 DEF RegInv
<1> QED BY <1>7, <1>8, <1>9, <1>10 DEF LoadTable

(* The object is used as it is. *)
LEMMA AcceptInv ==
  ASSUME TablesAssumption, RegInv, Accept PROVE RegInv'
<1>1. /\ pc = "load" /\ plan = << >> /\ pc' = "done"
      /\ owner' = [t \in Tables |-> IF fmt = "elf" /\ t \in {"rpw", "uvc"} THEN None ELSE owner[t]]
      /\ UNCHANGED <<job, todo, by, attempts, version, plan, lookup, mods, failed>>
  BY DEF Accept
<1>2. fmt' = fmt /\ mv' = mv /\ by' = by /\ Elems(plan) = {} /\ \A t : Emptied(t)' <=> Emptied(t)
  BY <1>1 DEF job, Elems, Emptied
<1>3. TypeOK'
  BY <1>1, <1>2 DEF RegInv, TypeOK, Refined
<1>4. OwnObject'
  BY <1>1, <1>2 DEF RegInv, OwnObject
<1>5. EmptiedRight' /\ LookupRight'
  BY <1>1 DEF EmptiedRight, LookupRight
<1>6. OnlyAccepted'
  <2>1. \A t \in Tables : fmt # "elf" \/ (Emptied(t) /\ t \notin failed) => owner[t] \in {by, None}
    BY <1>1, <1>2 DEF RegInv, OwnObject, EmptiedRight
  <2>2. fmt # "elf" => \A m \in Modules : mods[m] \in {by, None}
    BY <1>1 DEF RegInv, OwnObject
  <2> QED BY <1>1, <1>2, <2>1, <2>2 DEF OnlyAccepted
<1>7. LookupCurrent'
  <2>1. Built' = Built
    BY <1>1 DEF Built, TablesAssumption
  <2>2. lookup = Built \/ (fmt = "elf" /\ "gi" \in failed)
    BY <1>1, <1>2 DEF RegInv, LookupRight
  <2> QED BY <1>1, <1>2, <2>1, <2>2 DEF LookupCurrent
<1> QED BY <1>1, <1>2, <1>3, <1>4, <1>5, <1>6, <1>7 DEF RegInv

(* The search takes the next strategy, with a new object but for ELF. *)
LEMMA SearchInv ==
  ASSUME RegInv, FindsNothing \/ Finds PROVE RegInv'
<1>1. /\ todo \in Seq(Strategies) /\ todo # << >>
      /\ Head(todo) \in Strategies /\ Tail(todo) \in Seq(Strategies)
  BY DEF RegInv, FindsNothing, Finds
<1>2. CASE FindsNothing
  <2>1. /\ pc' \in {"error", "search"} /\ todo' = Tail(todo)
        /\ UNCHANGED <<job, by, attempts, version, plan, owner, lookup, mods, failed>>
    BY <1>2 DEF FindsNothing
  <2>2. TypeOK'
    BY <2>1 DEF RegInv, TypeOK, job, Refined
  <2>3. OwnObject' /\ EmptiedRight' /\ LookupRight' /\ OnlyAccepted' /\ LookupCurrent'
    BY <2>1 DEF OwnObject, EmptiedRight, LookupRight, OnlyAccepted, LookupCurrent
  <2> QED BY <1>1, <2>1, <2>2, <2>3 DEF RegInv, job
<1>3. CASE Finds
  <2>1. /\ pc' = "refine" /\ todo' = Tail(todo) /\ by' = Head(todo)
        /\ UNCHANGED <<job, plan, failed>>
        /\ IF fmt = "elf" THEN UNCHANGED <<version, owner, lookup, mods>> ELSE NewObject
    BY <1>3 DEF Finds
  <2>2. /\ version' \in {version, mv}
        /\ owner' \in [Tables -> Strategies \cup {None}]
        /\ mods' \in [Modules -> Strategies \cup {None}]
        /\ fmt # "elf" => /\ \A t \in Tables : owner'[t] = None
                          /\ \A m \in Modules : mods'[m] = None
    BY <2>1 DEF RegInv, TypeOK, NewObject, NoTables
  <2>3. TypeOK'
    BY <1>1, <2>1, <2>2 DEF RegInv, TypeOK, job, Refined
  <2>4. OwnObject'
    BY <2>1, <2>2 DEF OwnObject, job
  <2>5. EmptiedRight' /\ LookupRight' /\ OnlyAccepted' /\ LookupCurrent'
    BY <2>1 DEF EmptiedRight, LookupRight, OnlyAccepted, LookupCurrent
  <2> QED BY <1>1, <2>1, <2>3, <2>4, <2>5 DEF RegInv, job
<1> QED BY <1>2, <1>3

(* An attempt begins with a whole plan. *)
LEMMA RefineInv ==
  ASSUME RegInv, Refine PROVE RegInv'
<1>1. /\ pc = "refine" /\ pc' = "load" /\ plan' = Plan(version') /\ failed' = {}
      /\ version' \in Refined(version)
      /\ UNCHANGED <<job, todo, by, attempts, owner, lookup, mods>>
  BY DEF Refine
<1>2. version' \in {mv} \cup Refined(mv) \cup (IF mv = 3100 THEN {2910} ELSE {})
  BY <1>1, VersionStays DEF RegInv
<1>3. TypeOK'
  BY <1>1, <1>2 DEF RegInv, TypeOK, job, Refined
<1>4. PICK v : v = version'
  OBVIOUS
<1>5. /\ Between(Rank, plan', 0, 17) /\ "lookup" \in Elems(plan')
      /\ fmt = "elf" => \A t \in Tables : Emptied(t) => t \in Elems(plan')
  BY <1>1, <1>4, PlanOk
<1>6. Rank' = Rank /\ fmt' = fmt /\ by' = by /\ \A t : Emptied(t)' <=> Emptied(t)
  BY <1>1 DEF job, Rank, Emptied
<1>7. OwnObject'
  BY <1>1, <1>6 DEF RegInv, OwnObject
<1>8. EmptiedRight' /\ LookupRight' /\ OnlyAccepted' /\ LookupCurrent'
  BY <1>1, <1>5, <1>6 DEF EmptiedRight, LookupRight, OnlyAccepted, LookupCurrent
<1> QED BY <1>1, <1>3, <1>5, <1>6, <1>7, <1>8 DEF RegInv

-----------------------------------------------------------------------------
(* The invariant holds in every reachable state. *)
LEMMA RegInvariant ==
  ASSUME TablesAssumption PROVE Spec => []RegInv
<1>1. Init => RegInv
  <2> SUFFICES ASSUME Init PROVE RegInv
    OBVIOUS
  <2>1. fmt \in {"elf", "pe", "macho", "nso"}
    BY DEF Init, TablesAssumption
  <2>2. /\ ElfOrder \in Seq(Strategies) /\ PeOrder \in Seq(Strategies)
        /\ MachOOrder \in Seq(Strategies) /\ NsoOrder \in Seq(Strategies)
    BY DEF ElfOrder, PeOrder, MachOOrder, NsoOrder, Strategies
  <2>3. todo \in Seq(Strategies)
    BY <2>1, <2>2 DEF Init, Order
  <2>4. TypeOK
    BY DEF Init, TypeOK, NoTables, Refined
  <2>5. OwnObject /\ EmptiedRight /\ LookupRight /\ OnlyAccepted /\ LookupCurrent
    BY DEF Init, OwnObject, EmptiedRight, LookupRight, OnlyAccepted, LookupCurrent
  <2> QED BY <2>3, <2>4, <2>5 DEF Init, RegInv
<1>2. RegInv /\ [Next]_vars => RegInv'
  <2> SUFFICES ASSUME RegInv, [Next]_vars PROVE RegInv'
    OBVIOUS
  <2>1. CASE UNCHANGED vars
    BY <2>1 DEF vars, RegInv, TypeOK, OwnObject, EmptiedRight, LookupRight, OnlyAccepted,
       LookupCurrent, Built, Emptied, Rank, Refined
  <2>2. CASE Step
    BY <2>2, SearchInv, RefineInv, ReadInv, TableInv, LookupInv, ModulesInv, AcceptInv DEF Step
  <2> QED BY <2>1, <2>2 DEF Next, Stop
<1> QED BY <1>1, <1>2, PTL DEF Spec

(* The types of the search, and the versions it can reach, for every       *)
(* metadata version.                                                       *)
THEOREM TypeCorrect ==
  ASSUME TablesAssumption PROVE Spec => []TypeOK
<1>1. RegInv => TypeOK
  BY DEF RegInv
<1> QED BY <1>1, RegInvariant, PTL

(* Nothing is used that a rejected candidate has filled, for every set of  *)
(* tables and modules and every version; in ELF, whose strategies share an *)
(* object, nothing in the tables that are assigned even without entries.   *)
THEOREM AcceptedOnly ==
  ASSUME TablesAssumption PROVE Spec => []OnlyAccepted
<1>1. RegInv => OnlyAccepted
  BY DEF RegInv
<1> QED BY <1>1, RegInvariant, PTL

(* The lookup from method specs to pointers is made of the tables it is    *)
(* used with, whatever was tried before, unless CODM mode of ELF passed    *)
(* over the generic instances.                                             *)
THEOREM LookupIsCurrent ==
  ASSUME TablesAssumption PROVE Spec => []LookupCurrent
<1>1. RegInv => LookupCurrent
  BY DEF RegInv
<1> QED BY <1>1, RegInvariant, PTL

-----------------------------------------------------------------------------
(* Addresses and offsets *)

(* The first segment that is hit. *)
LEMMA FirstHitFacts ==
  ASSUME NEW n \in Nat, NEW hits \in SUBSET (1 .. n)
  PROVE  \/ hits = {} /\ FirstHit(hits) = 0
         \/ /\ FirstHit(hits) \in hits /\ FirstHit(hits) # 0
            /\ \A j \in hits : FirstHit(hits) <= j
<1>. DEFINE R == OpToRel(<, Nat)
<1>1. IsWellFoundedOn(R, Nat)
  BY NatLessThanWellFounded
<1>2. hits \subseteq Nat
  OBVIOUS
<1>. HIDE DEF R
<1>3. CASE hits = {}
  BY <1>3 DEF FirstHit
<1>4. CASE hits # {}
  <2>1. PICK i \in hits : \A j \in hits : <<j, i>> \notin R
    BY <1>1, <1>2, <1>4, WFMin
  <2>2. ASSUME NEW j \in hits PROVE i <= j
    <3>1. j \in Nat /\ i \in Nat
      BY <1>2
    <3>2. j < i => <<j, i>> \in R
      BY <3>1 DEF R, OpToRel
    <3>. QED BY <2>1, <3>1, <3>2
  <2>3. FirstHit(hits) \in hits /\ \A j \in hits : FirstHit(hits) <= j
    BY <1>4, <2>2 DEF FirstHit
  <2>. QED BY <2>3
<1>. QED BY <1>3, <1>4

(* Segments lie in the file as in memory, or apart from each other; none   *)
(* is larger in the file.  fix_program_segments makes them all alike.      *)
MapInv ==
  /\ segs \in Seq(Segments)
  /\ \A i, j \in DOMAIN segs :
       /\ segs[i].filesz <= segs[i].memsz
       /\ i # j => \/ Alike(segs[i], segs[j])
                   \/ Apart(segs[i].vaddr, segs[i].memsz, segs[j].vaddr, segs[j].memsz)
  /\ AddressesRight

LEMMA SegmentFacts ==
  ASSUME MapInv
  PROVE  /\ Len(segs) \in Nat /\ DOMAIN segs = 1 .. Len(segs)
         /\ \A i \in DOMAIN segs :
              /\ segs[i].vaddr \in Nat /\ segs[i].memsz \in Nat
              /\ segs[i].filesz \in Nat /\ segs[i].offset \in Nat
<1>1. segs \in Seq(Segments)
  BY DEF MapInv
<1>2. Len(segs) \in Nat /\ DOMAIN segs = 1 .. Len(segs) /\ \A i \in DOMAIN segs : segs[i] \in Segments
  BY <1>1
<1>. QED BY <1>2 DEF Segments

(* map_vatr reads the byte of the address. *)
LEMMA VatrIsRight ==
  ASSUME MapInv, NEW x \in Nat, found' = MapVatr(x), segs' = segs
  PROVE  VatrRight(x)'
<1>. DEFINE hits == {s \in DOMAIN segs : Within(x, segs[s].vaddr, segs[s].memsz)}
            h == FirstHit(hits)
<1>. USE DEF Within
<1>1. /\ Len(segs) \in Nat /\ DOMAIN segs = 1 .. Len(segs)
      /\ \A i \in DOMAIN segs : /\ segs[i].vaddr \in Nat /\ segs[i].memsz \in Nat
                                /\ segs[i].filesz \in Nat /\ segs[i].offset \in Nat
  BY SegmentFacts
<1>2. found' = IF h = 0 THEN NotMapped ELSE x - segs[h].vaddr + segs[h].offset
  BY DEF MapVatr
<1>3. hits \in SUBSET (1 .. Len(segs))
  BY <1>1
<1>4. \/ hits = {} /\ h = 0
      \/ h \in hits /\ h # 0 /\ \A j \in hits : h <= j
  <2>. HIDE DEF hits
  <2>. QED BY <1>1, <1>3, FirstHitFacts
<1>. HIDE DEF h
<1>5. ASSUME NEW i \in DOMAIN segs, InFile(i, x),
             \A j \in Others(i) : x # segs[j].vaddr + segs[j].memsz
      PROVE  found' = ByteAt(i, x)
  <2>1. segs[i].vaddr <= x /\ x < segs[i].vaddr + segs[i].filesz
    BY <1>5 DEF InFile
  <2>2. segs[i].filesz <= segs[i].memsz
    BY DEF MapInv
  <2>3. i \in hits
    BY <1>1, <2>1, <2>2
  <2>4. h \in DOMAIN segs /\ h # 0 /\ h <= i /\ segs[h].vaddr <= x /\ x <= segs[h].vaddr + segs[h].memsz
    BY <1>4, <2>3
  <2>5. Alike(segs[i], segs[h])
    <3>1. CASE h = i
      BY <3>1 DEF Alike
    <3>2. CASE h # i
      <4>1. h \in 1 .. i - 1
        BY <1>1, <2>4, <3>2
      <4>2. SUFFICES ASSUME ~Alike(segs[i], segs[h]) PROVE FALSE
        OBVIOUS
      <4>3. h \in Others(i)
        BY <4>1, <4>2 DEF Others
      <4>4. x # segs[h].vaddr + segs[h].memsz
        BY <1>5, <4>3
      <4>5. Apart(segs[i].vaddr, segs[i].memsz, segs[h].vaddr, segs[h].memsz)
        BY <2>4, <3>2, <4>2 DEF MapInv
      <4>. QED BY <1>1, <2>1, <2>2, <2>4, <4>4, <4>5 DEF Apart
    <3>. QED BY <3>1, <3>2
  <2>6. found' = x - segs[h].vaddr + segs[h].offset
    BY <1>2, <2>4
  <2>7. segs[i].vaddr - segs[i].offset = segs[h].vaddr - segs[h].offset
    BY <2>5 DEF Alike
  <2>8. /\ segs[i].vaddr \in Nat /\ segs[i].offset \in Nat
        /\ segs[h].vaddr \in Nat /\ segs[h].offset \in Nat
    BY <1>1, <2>4
  <2>. QED BY <2>6, <2>7, <2>8 DEF ByteAt
<1>6. ASSUME found' # NotMapped
      PROVE  \E i \in DOMAIN segs : Within(x, segs[i].vaddr, segs[i].memsz)
  <2>1. h \in hits
    BY <1>2, <1>4, <1>6
  <2>. QED BY <2>1 DEF Within
<1>7. VatrRight(x)' <=>
        /\ \A i \in DOMAIN segs :
             InFile(i, x) /\ (\A j \in Others(i) : x # segs[j].vaddr + segs[j].memsz) =>
               found' = ByteAt(i, x)
        /\ found' # NotMapped => \E i \in DOMAIN segs : Within(x, segs[i].vaddr, segs[i].memsz)
  BY DEF VatrRight, InFile, ByteAt, Others, Alike, NotMapped
<1>. QED BY <1>5, <1>6, <1>7

(* Each map_rtva leads back to the address. *)
LEMMA RtvaIsRight ==
  ASSUME MapInv, NEW x \in Nat, NEW Size \in [DOMAIN segs -> Nat],
         \A s \in DOMAIN segs : segs[s].filesz <= Size[s],
         found' = LET i == FirstHit({s \in DOMAIN segs : Within(x, segs[s].offset, Size[s])})
                  IN  IF i = 0 THEN 0 ELSE x - segs[i].offset + segs[i].vaddr
  PROVE  \A i \in DOMAIN segs : \A a \in segs[i].vaddr .. segs[i].vaddr + segs[i].filesz - 1 :
           ByteAt(i, a) = x /\ (\A j \in Others(i) : ~Within(x, segs[j].offset, Size[j])) =>
             found' = a
<1>. DEFINE hits == {s \in DOMAIN segs : Within(x, segs[s].offset, Size[s])}
            h == FirstHit(hits)
<1>. USE DEF Within
<1>1. /\ Len(segs) \in Nat /\ DOMAIN segs = 1 .. Len(segs)
      /\ \A i \in DOMAIN segs : /\ segs[i].vaddr \in Nat /\ segs[i].memsz \in Nat
                                /\ segs[i].filesz \in Nat /\ segs[i].offset \in Nat
  BY SegmentFacts
<1>2. found' = IF h = 0 THEN 0 ELSE x - segs[h].offset + segs[h].vaddr
  OBVIOUS
<1>3. hits \in SUBSET (1 .. Len(segs))
  BY <1>1
<1>4. \/ hits = {} /\ h = 0
      \/ h \in hits /\ h # 0 /\ \A j \in hits : h <= j
  <2>. HIDE DEF hits
  <2>. QED BY <1>1, <1>3, FirstHitFacts
<1>. HIDE DEF h
<1>. TAKE i \in DOMAIN segs
<1>. TAKE a \in segs[i].vaddr .. segs[i].vaddr + segs[i].filesz - 1
<1>5. HAVE ByteAt(i, a) = x /\ \A j \in Others(i) : ~Within(x, segs[j].offset, Size[j])
<1>6. a \in Nat /\ segs[i].offset + (a - segs[i].vaddr) = x
  BY <1>1, <1>5 DEF ByteAt
<1>7. i \in hits
  BY <1>1, <1>6
<1>8. h \in DOMAIN segs /\ h # 0 /\ h <= i /\ segs[h].offset <= x /\ x <= segs[h].offset + Size[h]
  BY <1>4, <1>7
<1>9. Alike(segs[i], segs[h])
  <2>1. CASE h = i
    BY <2>1 DEF Alike
  <2>2. CASE h # i
    <3>1. h \in 1 .. i - 1
      BY <1>1, <1>8, <2>2
    <3>2. h \notin Others(i)
      BY <1>5, <1>8 DEF Within
    <3>. QED BY <3>1, <3>2 DEF Others
  <2>. QED BY <2>1, <2>2
<1>10. found' = x - segs[h].offset + segs[h].vaddr
  BY <1>2, <1>8
<1>11. segs[i].vaddr - segs[i].offset = segs[h].vaddr - segs[h].offset
  BY <1>9 DEF Alike
<1>12. /\ segs[i].vaddr \in Nat /\ segs[i].offset \in Nat
       /\ segs[h].vaddr \in Nat /\ segs[h].offset \in Nat
  BY <1>1, <1>8
<1>. QED BY <1>6, <1>10, <1>11, <1>12

LEMMA RtvaAnswers ==
  ASSUME MapInv, NEW x \in Nat, segs' = segs
  PROVE  /\ found' = MapRtva(x) => RtvaRight(x, LAMBDA j : segs[j].memsz)'
         /\ found' = ElfMapRtva(x) => RtvaRight(x, LAMBDA j : segs[j].filesz)'
<1>. DEFINE inMemory == [s \in DOMAIN segs |-> segs[s].memsz]
            inFile   == [s \in DOMAIN segs |-> segs[s].filesz]
<1>1. /\ \A i \in DOMAIN segs : segs[i].memsz \in Nat /\ segs[i].filesz \in Nat
      /\ DOMAIN segs = 1 .. Len(segs) /\ Len(segs) \in Nat
  BY SegmentFacts
<1>2. \A i \in DOMAIN segs : segs[i].filesz <= segs[i].memsz
  BY DEF MapInv
<1>3. inMemory \in [DOMAIN segs -> Nat] /\ inFile \in [DOMAIN segs -> Nat]
  BY <1>1
<1>4. \A i \in DOMAIN segs : inMemory[i] = segs[i].memsz /\ inFile[i] = segs[i].filesz
  OBVIOUS
<1>5. \A i \in DOMAIN segs : segs[i].filesz <= inMemory[i] /\ segs[i].filesz <= inFile[i]
  BY <1>1, <1>2
<1>. HIDE DEF inMemory, inFile
<1>6. \A i \in DOMAIN segs : \A j \in Others(i) : j \in DOMAIN segs
  BY <1>1 DEF Others
<1>7. ASSUME found' = MapRtva(x) PROVE RtvaRight(x, LAMBDA j : segs[j].memsz)'
  <2>1. {s \in DOMAIN segs : Within(x, segs[s].offset, segs[s].memsz)}
          = {s \in DOMAIN segs : Within(x, segs[s].offset, inMemory[s])}
    BY <1>4
  <2>2. \A i \in DOMAIN segs : \A a \in segs[i].vaddr .. segs[i].vaddr + segs[i].filesz - 1 :
          ByteAt(i, a) = x /\ (\A j \in Others(i) : ~Within(x, segs[j].offset, inMemory[j])) =>
            found' = a
    BY <1>3, <1>5, <1>7, <2>1, RtvaIsRight DEF MapRtva
  <2>3. \A i \in DOMAIN segs : \A a \in segs[i].vaddr .. segs[i].vaddr + segs[i].filesz - 1 :
          ByteAt(i, a) = x /\ (\A j \in Others(i) : ~Within(x, segs[j].offset, segs[j].memsz)) =>
            found' = a
    BY <1>4, <1>6, <2>2
  <2>. QED BY <2>3 DEF RtvaRight, ByteAt, Others, Within, Alike
<1>8. ASSUME found' = ElfMapRtva(x) PROVE RtvaRight(x, LAMBDA j : segs[j].filesz)'
  <2>1. {s \in DOMAIN segs : Within(x, segs[s].offset, segs[s].filesz)}
          = {s \in DOMAIN segs : Within(x, segs[s].offset, inFile[s])}
    BY <1>4
  <2>2. \A i \in DOMAIN segs : \A a \in segs[i].vaddr .. segs[i].vaddr + segs[i].filesz - 1 :
          ByteAt(i, a) = x /\ (\A j \in Others(i) : ~Within(x, segs[j].offset, inFile[j])) =>
            found' = a
    BY <1>3, <1>5, <1>8, <2>1, RtvaIsRight DEF ElfMapRtva
  <2>3. \A i \in DOMAIN segs : \A a \in segs[i].vaddr .. segs[i].vaddr + segs[i].filesz - 1 :
          ByteAt(i, a) = x /\ (\A j \in Others(i) : ~Within(x, segs[j].offset, segs[j].filesz)) =>
            found' = a
    BY <1>4, <1>6, <2>2
  <2>. QED BY <2>3 DEF RtvaRight, ByteAt, Others, Within, Alike
<1>. QED BY <1>7, <1>8

LEMMA FixInv == ASSUME ImagesAssumption, MapInv, FixSegments PROVE MapInv'
<1>1. stage' = "loaded" /\ Base \in Nat
  BY DEF FixSegments, ImagesAssumption
<1>2. AddressesRight'
  BY <1>1 DEF AddressesRight
<1>3. CASE segs' = segs
  BY <1>2, <1>3 DEF MapInv
<1>4. CASE segs' = [i \in DOMAIN segs |->
                      [vaddr |-> segs[i].vaddr + Base, memsz |-> segs[i].memsz,
                       filesz |-> segs[i].memsz, offset |-> segs[i].vaddr]]
  <2>1. /\ Len(segs) \in Nat /\ DOMAIN segs = 1 .. Len(segs)
        /\ \A i \in DOMAIN segs : segs[i].vaddr \in Nat /\ segs[i].memsz \in Nat
    BY SegmentFacts
  <2>2. /\ DOMAIN segs' = DOMAIN segs
        /\ \A i \in DOMAIN segs :
             segs'[i] = [vaddr |-> segs[i].vaddr + Base, memsz |-> segs[i].memsz,
                         filesz |-> segs[i].memsz, offset |-> segs[i].vaddr]
    BY <1>4
  <2>3. \A i \in DOMAIN segs : /\ segs'[i] \in Segments
                               /\ segs'[i].filesz = segs[i].memsz /\ segs'[i].memsz = segs[i].memsz
                               /\ segs'[i].vaddr - segs'[i].offset = Base
    BY <1>1, <2>1, <2>2 DEF Segments
  <2>4. segs' \in Seq(Segments)
    BY <1>4, <2>1, <2>2, <2>3
  <2>5. \A i, j \in DOMAIN segs' : /\ segs'[i].filesz <= segs'[i].memsz
                                   /\ Alike(segs'[i], segs'[j])
    BY <2>1, <2>2, <2>3 DEF Alike
  <2>. QED BY <1>2, <2>4, <2>5 DEF MapInv, Alike
<1>. QED BY <1>3, <1>4 DEF FixSegments

LEMMA AskInv == ASSUME ImagesAssumption, MapInv, Ask PROVE MapInv'
<1>1. segs' = segs /\ stage' = "done"
  BY DEF Ask
<1>2. PICK x \in 0 .. Limit : \/ ask' = <<"vatr", x>> /\ found' = MapVatr(x)
                              \/ ask' = <<"rtva", x>> /\ found' = MapRtva(x)
                              \/ ask' = <<"elf_rtva", x>> /\ found' = ElfMapRtva(x)
  BY DEF Ask
<1>3. x \in Nat
  BY DEF ImagesAssumption
<1>4. AddressesRight'
  <2>1. CASE ask' = <<"vatr", x>> /\ found' = MapVatr(x)
    <3>1. VatrRight(x)'
      BY <1>1, <1>3, <2>1, VatrIsRight
    <3>. QED BY <2>1, <3>1 DEF AddressesRight, VatrRight
  <2>2. CASE ask' = <<"rtva", x>> /\ found' = MapRtva(x)
    <3>1. RtvaRight(x, LAMBDA j : segs[j].memsz)'
      BY <1>1, <1>3, <2>2, RtvaAnswers
    <3>. QED BY <2>2, <3>1 DEF AddressesRight, RtvaRight
  <2>3. CASE ask' = <<"elf_rtva", x>> /\ found' = ElfMapRtva(x)
    <3>1. RtvaRight(x, LAMBDA j : segs[j].filesz)'
      BY <1>1, <1>3, <2>3, RtvaAnswers
    <3>. QED BY <2>3, <3>1 DEF AddressesRight, RtvaRight
  <2>. QED BY <1>2, <2>1, <2>2, <2>3
<1>. QED BY <1>1, <1>4 DEF MapInv

(* For every list of segments, every base of a memory dump and every       *)
(* address: the byte the loader puts there is the one map_vatr reads, and  *)
(* both map_rtva lead back from its offset, but for the inclusive ends of  *)
(* other segments.                                                         *)
THEOREM AddressesCorrect ==
  ASSUME ImagesAssumption PROVE MapSpec => []AddressesRight
<1>1. MapInit => MapInv
  BY DEF MapInit, MapInv, ImagesAssumption, AddressesRight
<1>2. MapInv /\ [MapStep]_mapVars => MapInv'
  <2>1. MapInv /\ UNCHANGED mapVars => MapInv'
    <3>. SUFFICES ASSUME MapInv, UNCHANGED mapVars PROVE MapInv'
      OBVIOUS
    <3>1. segs' = segs /\ ask' = ask /\ found' = found /\ stage' = stage
      BY DEF mapVars
    <3>2. AddressesRight'
      <4>1. VatrRight(ask[2])' <=> VatrRight(ask[2])
        BY <3>1 DEF VatrRight, InFile, ByteAt, Others, Within, Alike, NotMapped
      <4>2. RtvaRight(ask[2], LAMBDA j : segs[j].memsz)' <=> RtvaRight(ask[2], LAMBDA j : segs[j].memsz)
        BY <3>1 DEF RtvaRight, ByteAt, Others, Within, Alike
      <4>3. RtvaRight(ask[2], LAMBDA j : segs[j].filesz)' <=> RtvaRight(ask[2], LAMBDA j : segs[j].filesz)
        BY <3>1 DEF RtvaRight, ByteAt, Others, Within, Alike
      <4>4. AddressesRight
        BY DEF MapInv
      <4>. QED BY <3>1, <4>1, <4>2, <4>3, <4>4 DEF AddressesRight
    <3>. QED BY <3>1, <3>2 DEF MapInv
  <2>. QED BY <2>1, FixInv, AskInv DEF MapStep
<1>3. MapInv => AddressesRight
  BY DEF MapInv
<1>. QED BY <1>1, <1>2, <1>3, PTL DEF MapSpec
=============================================================================
