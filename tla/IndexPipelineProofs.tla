------------------------ MODULE IndexPipelineProofs ------------------------
(***************************************************************************)
(* lookup finds what build stored, for every script, every hash function   *)
(* and every query.  The inductive invariant is the conjunction of the     *)
(* three invariants TLC checks: the types, RowsOfFirsts (what build has    *)
(* put in rows so far) and Narrowing (what the probes may discard),        *)
(* together with LookupCorrect itself, which holds in the one state where  *)
(* it says something because the search has just ended.                    *)
(***************************************************************************)
EXTENDS IndexPipeline, SequenceTheorems, TLAPS

Inv == PipelineTypeOK /\ RowsOfFirsts /\ Narrowing /\ LookupCorrect

(* A row built from an entry is a (64-bit hash, 32-bit rva) pair. *)
LEMMA RowType == ASSUME NEW e \in Entry PROVE RowOf(e) \in PipelineRow
<1>1. e.addr \in Int /\ Hash[e.name] \in Nat /\ Word \in Nat /\ Word > 0
  <2>1. e.name \in Names /\ e.addr \in Addresses
    BY DEF Entry
  <2>2. Word \in Nat /\ Word > 0
    BY PipelineAssumption, NamesAssumption
  <2>3. Hash[e.name] \in Nat
    BY <2>1, PipelineAssumption, NamesAssumption
  <2>4. e.addr \in Int
    BY <2>1, PipelineAssumption, NamesAssumption
  <2> QED BY <2>2, <2>3, <2>4
<1>2. e.addr % Word \in 0 .. Word - 1
  BY <1>1
<1> QED BY <1>1, <1>2 DEF RowOf, PipelineRow

(* The entries of a script, indexed from 1. *)
LEMMA EntryAt ==
  ASSUME PipelineTypeOK, NEW j \in 1 .. Len(script)
  PROVE  script[j] \in Entry
<1>1. PICK n \in 0 .. MaxEntries : script \in [1 .. n -> Entry]
  BY DEF PipelineTypeOK, Scripts
<1>2. Len(script) = n
  BY <1>1, PipelineAssumption, NamesAssumption
<1> QED BY <1>1, <1>2

(* The initial state satisfies the invariant. *)
LEMMA InitInv == PipelineInit => Inv
<1> SUFFICES ASSUME PipelineInit PROVE Inv
  OBVIOUS
<1>1. Len(script) \in Nat
  BY PipelineAssumption, NamesAssumption DEF PipelineInit, Scripts
<1>2. PipelineTypeOK
  BY <1>1, PipelineAssumption, NamesAssumption DEF PipelineInit, PipelineTypeOK, Mid
<1>3. RowsOfFirsts /\ Narrowing /\ LookupCorrect
  BY DEF PipelineInit, RowsOfFirsts, Narrowing, LookupCorrect
<1> QED BY <1>2, <1>3 DEF Inv

(* One entry consumed by build keeps the invariant. *)
LEMMA TakeInv == Inv /\ Take => Inv'
<1> SUFFICES ASSUME Inv, Take PROVE Inv'
  OBVIOUS
<1> DEFINE e == script[i + 1]
<1>n. /\ i \in Nat /\ Len(script) \in Nat /\ i + 1 \in 1 .. Len(script)
      /\ Len(rows) \in Nat /\ rows \in Seq(PipelineRow)
  BY PipelineAssumption, NamesAssumption DEF Inv, PipelineTypeOK, Scripts, Take
<1>e. e \in Entry
  BY <1>n, EntryAt DEF Inv
<1>h. Hash[e.name] \in Nat /\ RowOf(e) \in PipelineRow
  BY <1>e, RowType, PipelineAssumption, NamesAssumption DEF Entry
<1>u. /\ UNCHANGED <<script, key, lo, hi, answer, phase>> /\ phase = "build" /\ i' = i + 1
  BY DEF Take
<1>s. CASE ~(Valid(e) /\ Hash[e.name] \notin seen)
  <2>1. UNCHANGED <<seen, rows>>
    BY <1>s DEF Take
  <2>2. PipelineTypeOK'
    BY <2>1, <1>u, <1>n DEF Inv, PipelineTypeOK, Mid
  <2>3. ~FirstEntry(i + 1)
    <3>1. SUFFICES ASSUME FirstEntry(i + 1) PROVE FALSE
      OBVIOUS
    <3>2. 1 .. (i + 1) - 1 = 1 .. i
      BY <1>n
    <3>3. Valid(e) /\ Hash[e.name] \in seen
      BY <3>1, <1>s DEF FirstEntry
    <3>4. PICK k \in 1 .. i : Valid(script[k]) /\ Hash[script[k].name] = Hash[e.name]
      BY <3>3, Zenon DEF Inv, RowsOfFirsts
    <3> QED BY <3>1, <3>2, <3>4, Zenon DEF FirstEntry
  <2>4. seen' = {Hash[script[j].name] : j \in {k \in 1 .. i + 1 : Valid(script[k])}}
    <3>1. seen = {Hash[script[j].name] : j \in {k \in 1 .. i : Valid(script[k])}}
      BY DEF Inv, RowsOfFirsts
    <3>2. \A k \in 1 .. i + 1 : k \in 1 .. i \/ k = i + 1
      BY <1>n
    <3>3. \A k \in 1 .. i : k \in 1 .. i + 1
      BY <1>n
    <3> QED BY <3>1, <3>2, <3>3, <1>s, <2>1, Zenon
  <2>5. \A j \in 1 .. i + 1 : FirstEntry(j) => j \in 1 .. i
    BY <2>3, <1>n
  <2>6. \A r \in 1 .. Len(rows) : \E j \in 1 .. i + 1 : FirstEntry(j) /\ rows[r] = RowOf(script[j])
    <3>1. \A j \in 1 .. i : j \in 1 .. i + 1
      BY <1>n
    <3> QED BY <3>1 DEF Inv, RowsOfFirsts
  <2>7. RowsOfFirsts'
    BY <2>1, <2>4, <2>5, <2>6, <1>u, <1>n DEF Inv, RowsOfFirsts, FirstEntry, Ascending
  <2> QED BY <2>2, <2>7, <1>u DEF Inv, Narrowing, LookupCorrect
<1>t. CASE Valid(e) /\ Hash[e.name] \notin seen
  <2>1. seen' = seen \cup {Hash[e.name]} /\ rows' = Append(rows, RowOf(e))
    BY <1>t DEF Take
  <2>2. /\ rows' \in Seq(PipelineRow) /\ Len(rows') = Len(rows) + 1
        /\ \A r \in 1 .. Len(rows) : rows'[r] = rows[r]
        /\ rows'[Len(rows) + 1] = RowOf(e)
    BY <2>1, <1>n, <1>h
  <2>3. PipelineTypeOK'
    <3>1. seen' \subseteq Nat
      BY <2>1, <1>h DEF Inv, PipelineTypeOK
    <3>2. /\ i' \in 0 .. Len(script) /\ Len(rows') <= i'
          /\ lo \in 0 .. Len(rows') /\ hi \in -1 .. Len(rows') - 1
          /\ lo <= hi => Mid \in 0 .. Len(rows') - 1
      BY <2>2, <1>u, <1>n DEF Inv, PipelineTypeOK, Mid
    <3> QED BY <3>1, <3>2, <2>2, <1>u DEF Inv, PipelineTypeOK, Mid
  <2>4. FirstEntry(i + 1)
    <3>1. \A k \in 1 .. i : Valid(script[k]) => Hash[script[k].name] \in seen
      BY Zenon DEF Inv, RowsOfFirsts
    <3>2. 1 .. (i + 1) - 1 = 1 .. i
      BY <1>n
    <3> QED BY <1>t, <3>1, <3>2, Zenon DEF FirstEntry
  <2>5. seen' = {Hash[script[j].name] : j \in {k \in 1 .. i + 1 : Valid(script[k])}}
    <3>1. seen = {Hash[script[j].name] : j \in {k \in 1 .. i : Valid(script[k])}}
      BY DEF Inv, RowsOfFirsts
    <3>2. \A k \in 1 .. i + 1 : k \in 1 .. i \/ k = i + 1
      BY <1>n
    <3>3. (\A k \in 1 .. i : k \in 1 .. i + 1) /\ i + 1 \in 1 .. i + 1
      BY <1>n
    <3> QED BY <3>1, <3>2, <3>3, <1>t, <2>1, Zenon
  <2>6. \A r \in 1 .. Len(rows') :
           \E j \in 1 .. i + 1 : FirstEntry(j) /\ rows'[r] = RowOf(script[j])
    <3> SUFFICES ASSUME NEW r \in 1 .. Len(rows')
                 PROVE  \E j \in 1 .. i + 1 : FirstEntry(j) /\ rows'[r] = RowOf(script[j])
      OBVIOUS
    <3>1. CASE r = Len(rows) + 1
      BY <3>1, <2>2, <2>4, <1>n
    <3>2. CASE r \in 1 .. Len(rows)
      <4>1. PICK j \in 1 .. i : FirstEntry(j) /\ rows[r] = RowOf(script[j])
        BY <3>2 DEF Inv, RowsOfFirsts
      <4> QED BY <4>1, <3>2, <2>2, <1>n
    <3> QED BY <3>1, <3>2, <2>2, <1>n
  <2>7. \A h \in seen' : \E r \in 1 .. Len(rows') : rows'[r].hash = h
    <3> SUFFICES ASSUME NEW h \in seen' PROVE \E r \in 1 .. Len(rows') : rows'[r].hash = h
      OBVIOUS
    <3>1. CASE h = Hash[e.name]
      BY <3>1, <2>2, <1>n DEF RowOf
    <3>2. CASE h \in seen
      <4>1. PICK r \in 1 .. Len(rows) : rows[r].hash = h
        BY <3>2 DEF Inv, RowsOfFirsts
      <4> QED BY <4>1, <2>2, <1>n
    <3> QED BY <3>1, <3>2, <2>1
  <2>8. RowsOfFirsts'
    <3>1. \A j : FirstEntry(j)' = FirstEntry(j)
      BY <1>u DEF FirstEntry
    <3>2. phase' = "build"
      BY <1>u
    <3> QED BY <2>5, <2>6, <2>7, <1>u, <3>1, <3>2 DEF RowsOfFirsts
  <2> QED BY <2>3, <2>8, <1>u DEF Inv, Narrowing, LookupCorrect
<1> QED BY <1>s, <1>t

(* The sort keeps the rows and makes them ascending. *)
LEMMA SortInv == Inv /\ Sort => Inv'
<1> SUFFICES ASSUME Inv, Sort PROVE Inv'
  OBVIOUS
<1>n. Len(rows) \in Nat /\ rows \in Seq(PipelineRow) /\ Len(script) \in Nat /\ i = Len(script)
  BY PipelineAssumption, NamesAssumption DEF Inv, PipelineTypeOK, Scripts, Sort
<1>1. PICK s \in [DOMAIN rows -> {rows[a] : a \in DOMAIN rows}] :
         /\ Ascending(s)
         /\ \A a \in DOMAIN rows : \E b \in DOMAIN rows : s[b] = rows[a]
         /\ rows' = s
  BY DEF Sort
<1>d. DOMAIN rows = 1 .. Len(rows)
  BY <1>n
<1>2. /\ DOMAIN s = 1 .. Len(rows) /\ s \in [1 .. Len(rows) -> PipelineRow]
      /\ \A b \in 1 .. Len(rows) : \E a \in 1 .. Len(rows) : s[b] = rows[a]
      /\ \A a \in 1 .. Len(rows) : \E b \in 1 .. Len(rows) : s[b] = rows[a]
  <2>1. \A a \in 1 .. Len(rows) : rows[a] \in PipelineRow
    BY <1>n
  <2>2. s \in [1 .. Len(rows) -> {rows[a] : a \in 1 .. Len(rows)}]
    BY <1>1, <1>d
  <2>3. \A b \in 1 .. Len(rows) : \E a \in 1 .. Len(rows) : s[b] = rows[a]
    BY <2>2
  <2> QED BY <1>1, <1>d, <2>1, <2>2, <2>3
<1>3. rows' \in Seq(PipelineRow) /\ Len(rows') = Len(rows)
  <2>1. rows' \in [1 .. Len(rows) -> PipelineRow]
    BY <1>1, <1>2
  <2>2. rows' \in Seq(PipelineRow)
    BY <2>1, <1>n, SeqDef
  <2> QED BY <2>1, <2>2, <1>n, LenProperties
<1>u. /\ UNCHANGED <<script, i, seen, key, answer>>
      /\ phase = "build" /\ phase' = "search" /\ lo' = 0 /\ hi' = Len(rows) - 1
  BY DEF Sort
<1>4. PipelineTypeOK'
  BY <1>3, <1>u, <1>n DEF Inv, PipelineTypeOK, Mid
<1>5. \A r \in 1 .. Len(rows') : \E j \in 1 .. i : FirstEntry(j) /\ rows'[r] = RowOf(script[j])
  BY <1>1, <1>2, <1>3 DEF Inv, RowsOfFirsts
<1>6. \A h \in seen : \E r \in 1 .. Len(rows') : rows'[r].hash = h
  <2> SUFFICES ASSUME NEW h \in seen PROVE \E r \in 1 .. Len(rows') : rows'[r].hash = h
    OBVIOUS
  <2>1. PICK a \in 1 .. Len(rows) : rows[a].hash = h
    BY DEF Inv, RowsOfFirsts
  <2> QED BY <2>1, <1>1, <1>2, <1>3
<1>7. RowsOfFirsts'
  BY <1>1, <1>5, <1>6, <1>u, <1>n DEF Inv, RowsOfFirsts, FirstEntry
<1>8. Narrowing'
  BY <1>3, <1>u, <1>n DEF Narrowing
<1> QED BY <1>4, <1>7, <1>8, <1>u DEF Inv, LookupCorrect

(* The middle of an interval of row numbers is a row number.               *)
LEMMA Middle ==
  ASSUME NEW n \in Nat, NEW a \in 0 .. n, NEW b \in -1 .. n - 1, a <= b
  PROVE  (a + b) \div 2 \in 0 .. n - 1
<1>1. (a + b) \div 2 \in a .. b OBVIOUS
<1> DEFINE m == (a + b) \div 2
<1>2. m \in a .. b BY <1>1
<1> HIDE DEF m
<1>3. m \in 0 .. n - 1 BY <1>2
<1> QED BY <1>3 DEF m

(* In an ascending sequence of rows no row before the m-th has a larger    *)
(* hash and none behind it a smaller one.                                  *)
LEMMA AscendingAround ==
  ASSUME NEW s, NEW n \in Nat, DOMAIN s = 1 .. n, Ascending(s), NEW m \in 1 .. n,
         \A r \in 1 .. n : s[r].hash \in Nat
  PROVE  /\ \A r \in 1 .. m : s[r].hash <= s[m].hash
         /\ \A r \in m .. n : s[r].hash >= s[m].hash
<1>0. \A a, b \in 1 .. n : a < b => s[a].hash < s[b].hash
  BY Zenon DEF Ascending
<1>1. ASSUME NEW r \in 1 .. m PROVE s[r].hash <= s[m].hash
  <2>1. r \in 1 .. n /\ (r = m \/ r < m) OBVIOUS
  <2>2. CASE r = m BY <2>1, <2>2
  <2>3. CASE r < m
    <3>1. s[r].hash < s[m].hash BY <1>0, <2>1, <2>3
    <3> QED BY <3>1, <2>1
  <2> QED BY <2>1, <2>2, <2>3
<1>2. ASSUME NEW r \in m .. n PROVE s[r].hash >= s[m].hash
  <2>1. r \in 1 .. n /\ (r = m \/ m < r) OBVIOUS
  <2>2. CASE r = m BY <2>1, <2>2
  <2>3. CASE m < r
    <3>1. s[m].hash < s[r].hash BY <1>0, <2>1, <2>3
    <3> QED BY <3>1, <2>1
  <2> QED BY <2>1, <2>2, <2>3
<1> QED BY <1>1, <1>2

(* A probe reads inside the arrays, discards no match, and a hit returns   *)
(* the rva of the first entry with the hash.                               *)
LEMMA ProbeInv == Inv /\ Probe => Inv'
<1> SUFFICES ASSUME Inv, Probe PROVE Inv'
  OBVIOUS
<1> DEFINE k == rows[Mid + 1].hash
<1>n. /\ Len(rows) \in Nat /\ rows \in Seq(PipelineRow) /\ lo \in Nat /\ hi \in Int /\ lo <= hi
      /\ hi <= Len(rows) - 1 /\ Mid \in lo .. hi /\ Mid + 1 \in 1 .. Len(rows)
  BY DEF Inv, PipelineTypeOK, Probe, Mid
<1>r. rows[Mid + 1] \in PipelineRow /\ k \in Nat /\ Hash[key] \in Nat
  <2>1. rows[Mid + 1] \in PipelineRow
    BY <1>n
  <2> QED BY <2>1, PipelineAssumption, NamesAssumption DEF PipelineRow, Inv, PipelineTypeOK
<1>t. \A r \in 1 .. Len(rows) : rows[r] \in PipelineRow /\ rows[r].hash \in Nat
  <2>1. \A r \in 1 .. Len(rows) : rows[r] \in PipelineRow
    BY <1>n
  <2> QED BY <2>1 DEF PipelineRow
<1>u. UNCHANGED <<script, i, seen, rows, key>> /\ phase = "search"
  BY DEF Probe
<1>a. Ascending(rows) /\ i = Len(script)
  BY <1>u DEF Inv, RowsOfFirsts
<1>o. DOMAIN rows = 1 .. Len(rows)
  BY <1>n
<1>s. /\ \A r \in 1 .. Mid + 1 : rows[r].hash <= k
      /\ \A r \in Mid + 1 .. Len(rows) : rows[r].hash >= k
  <2>1. \A r \in 1 .. Len(rows) : rows[r].hash \in Nat
    BY <1>t, Zenon
  <2> HIDE DEF Inv, Probe
  <2> QED BY <1>a, <1>o, <1>n, <2>1, AscendingAround
<1>R. RowsOfFirsts' \/ ~(phase' \in {"search", "done"})
  BY <1>u, <1>a DEF Inv, RowsOfFirsts, FirstEntry, Ascending
<1>1. CASE k < Hash[key] /\ lo' = Mid + 1 /\ UNCHANGED <<hi, answer, phase>>
  <2>0. lo' = Mid + 1 /\ hi' = hi /\ rows' = rows
    BY <1>1, <1>u, Zenon
  <2>b. lo' \in 0 .. Len(rows) /\ hi' \in -1 .. Len(rows) - 1
    BY <2>0, <1>n
  <2>m. lo' <= hi' => Mid' \in 0 .. Len(rows) - 1
    <3> HIDE DEF Inv, Probe
    <3>1. lo' <= hi' => (lo' + hi') \div 2 \in 0 .. Len(rows) - 1
      BY <2>b, <1>n, Middle
    <3> QED BY <3>1, Zenon DEF Mid
  <2>1. PipelineTypeOK'
    BY <1>1, <1>u, <2>0, <2>b, <2>m DEF Inv, PipelineTypeOK
  <2>2. \A r \in 1 .. Mid + 1 : rows[r].hash <= k
    BY <1>s, Zenon
  <2>3. Narrowing'
    <3> SUFFICES ASSUME NEW r \in 1 .. Len(rows), rows[r].hash = Hash[key]
                 PROVE  r - 1 \in Mid + 1 .. hi
      BY <1>1, <1>u DEF Narrowing
    <3>1. r - 1 \in lo .. hi
      BY <1>u DEF Inv, Narrowing
    <3>2. r > Mid + 1
      BY <2>2, <1>1, <1>r, <1>t, <1>n
    <3> QED BY <3>1, <3>2, <1>n
  <2> QED BY <2>1, <2>3, <1>1, <1>u, <1>R DEF Inv, LookupCorrect
<1>2. CASE k > Hash[key] /\ hi' = Mid - 1 /\ UNCHANGED <<lo, answer, phase>>
  <2>0. lo' = lo /\ hi' = Mid - 1 /\ rows' = rows
    BY <1>2, <1>u, Zenon
  <2>b. lo' \in 0 .. Len(rows) /\ hi' \in -1 .. Len(rows) - 1
    BY <2>0, <1>n
  <2>m. lo' <= hi' => Mid' \in 0 .. Len(rows) - 1
    <3> HIDE DEF Inv, Probe
    <3>1. lo' <= hi' => (lo' + hi') \div 2 \in 0 .. Len(rows) - 1
      BY <2>b, <1>n, Middle
    <3> QED BY <3>1, Zenon DEF Mid
  <2>1. PipelineTypeOK'
    BY <1>2, <1>u, <2>0, <2>b, <2>m DEF Inv, PipelineTypeOK
  <2>2. \A r \in Mid + 1 .. Len(rows) : rows[r].hash >= k
    BY <1>s, Zenon
  <2>3. Narrowing'
    <3> SUFFICES ASSUME NEW r \in 1 .. Len(rows), rows[r].hash = Hash[key]
                 PROVE  r - 1 \in lo .. Mid - 1
      BY <1>2, <1>u DEF Narrowing
    <3>1. r - 1 \in lo .. hi
      BY <1>u DEF Inv, Narrowing
    <3>2. r < Mid + 1
      BY <2>2, <1>2, <1>r, <1>t, <1>n
    <3> QED BY <3>1, <3>2, <1>n
  <2> QED BY <2>1, <2>3, <1>2, <1>u, <1>R DEF Inv, LookupCorrect
<1>3. CASE k = Hash[key] /\ answer' = rows[Mid + 1].rva /\ phase' = "done" /\ UNCHANGED <<lo, hi>>
  <2>1. PipelineTypeOK'
    BY <1>3, <1>u, <1>n, <1>r DEF Inv, PipelineTypeOK, Mid, PipelineRow
  <2>2. PICK j \in 1 .. i : FirstEntry(j) /\ rows[Mid + 1] = RowOf(script[j])
    BY <1>n DEF Inv, RowsOfFirsts
  <2>3. answer' = script[j].addr % Word /\ Hash[script[j].name] = Hash[key]
    BY <2>2, <1>3 DEF RowOf
  <2>4. LookupCorrect'
    BY <2>2, <2>3, <1>u, <1>a DEF LookupCorrect, FirstEntry
  <2> QED BY <2>1, <2>4, <1>3, <1>R DEF Inv, Narrowing
<1> QED BY <1>1, <1>2, <1>3 DEF Probe

(* A miss means that no valid entry has the hash: were there one, its hash *)
(* would have a row, and that row would lie in the empty interval.         *)
LEMMA MissInv == Inv /\ Miss => Inv'
<1> SUFFICES ASSUME Inv, Miss PROVE Inv'
  OBVIOUS
<1>u. /\ UNCHANGED <<script, i, seen, rows, key, lo, hi>>
      /\ phase = "search" /\ phase' = "done" /\ answer' = 0 /\ lo > hi
  BY DEF Miss
<1>n. /\ Len(rows) \in Nat /\ rows \in Seq(PipelineRow)
      /\ lo \in Nat /\ hi \in Int /\ Len(script) \in Nat
  BY PipelineAssumption, NamesAssumption DEF Inv, PipelineTypeOK, Scripts
<1>1. PipelineTypeOK'
  BY <1>u, PipelineAssumption, NamesAssumption DEF Inv, PipelineTypeOK, Mid
<1>2. RowsOfFirsts' /\ Narrowing' /\ i = Len(script)
  BY <1>u DEF Inv, RowsOfFirsts, FirstEntry, Ascending, Narrowing
<1>3. \A r \in 1 .. Len(rows) : rows[r].hash # Hash[key]
  BY <1>u, <1>n DEF Inv, Narrowing
<1>4. Hash[key] \notin seen
  BY <1>3 DEF Inv, RowsOfFirsts
<1>5. \A j \in 1 .. i : Valid(script[j]) => Hash[script[j].name] # Hash[key]
  BY <1>4 DEF Inv, RowsOfFirsts
<1>6. LookupCorrect'
  BY <1>5, <1>2, <1>u DEF LookupCorrect
<1> QED BY <1>1, <1>2, <1>6 DEF Inv

(* The invariant holds in every reachable state. *)
THEOREM PipelineInvariant == PipelineSpec => []Inv
<1>1. PipelineInit => Inv
  BY InitInv
<1>2. Inv /\ [PipelineNext]_pipelineVars => Inv'
  <2> SUFFICES ASSUME Inv, [PipelineNext]_pipelineVars PROVE Inv'
    OBVIOUS
  <2>1. CASE UNCHANGED pipelineVars
    BY <2>1 DEF pipelineVars, Inv, PipelineTypeOK, Mid, RowsOfFirsts, FirstEntry, Ascending,
                Narrowing, LookupCorrect
  <2> QED BY <2>1, TakeInv, SortInv, ProbeInv, MissInv DEF PipelineNext
<1> QED BY <1>1, <1>2, PTL DEF PipelineSpec

(* For every script.json, hash function and query, lookup on the rows of   *)
(* build returns the address of the first valid entry with the name's      *)
(* hash, and 0 when there is none.                                         *)
THEOREM LookupIsCorrect == PipelineSpec => []LookupCorrect
<1>1. Inv => LookupCorrect
  BY DEF Inv
<1> QED BY <1>1, PipelineInvariant, PTL

(* build keeps exactly the first valid entry of every hash, in ascending   *)
(* order of the hashes.                                                    *)
THEOREM BuildKeepsFirsts == PipelineSpec => []RowsOfFirsts
<1>1. Inv => RowsOfFirsts
  BY DEF Inv
<1> QED BY <1>1, PipelineInvariant, PTL

(* Neither loop leaves its arrays: every probe reads an existing row. *)
THEOREM TypeCorrect == PipelineSpec => []PipelineTypeOK
<1>1. Inv => PipelineTypeOK
  BY DEF Inv
<1> QED BY <1>1, PipelineInvariant, PTL

(* Every probe that goes on leaves a strictly smaller interval. *)
THEOREM SearchShrinks == PipelineSpec => Shrinks
<1>1. Inv /\ [PipelineNext]_pipelineVars =>
        [phase = "search" /\ phase' = "search" => hi' - lo' < hi - lo]_pipelineVars
  <2> SUFFICES ASSUME Inv, PipelineNext, phase = "search", phase' = "search"
               PROVE  hi' - lo' < hi - lo
    OBVIOUS
  <2>1. Probe /\ lo \in Nat /\ hi \in Int /\ lo <= hi
    BY DEF PipelineNext, Take, Sort, Miss, Probe, Inv, PipelineTypeOK
  <2>2. Mid \in lo .. hi
    BY <2>1 DEF Mid
  <2>3. \/ lo' = Mid + 1 /\ hi' = hi
        \/ hi' = Mid - 1 /\ lo' = lo
    BY <2>1 DEF Probe
  <2> QED BY <2>1, <2>2, <2>3
<1> QED BY <1>1, PipelineInvariant, PTL DEF PipelineSpec, Shrinks
=============================================================================
