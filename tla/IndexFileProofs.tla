-------------------------- MODULE IndexFileProofs --------------------------
(***************************************************************************)
(* What the statics of ensure_loaded guarantee, for any set of files,      *)
(* names and pointers and any number of calls.                             *)
(***************************************************************************)
EXTENDS IndexFile, SequenceTheorems, WellFoundedInduction, TLAPS

(* The conditions under which the cache is sound: callers leave the        *)
(* characters of the path the library remembers alone (any other buffer    *)
(* they may reuse), and every index on disk, cut or not, announces entries *)
(* of both kinds.  Run index_half shows that the second cannot be dropped; *)
(* without the first, the cached pointer comes to spell another path.      *)
Disciplined ==
  /\ Careful
  /\ \A path \in Paths : IsIndex(path) => Nm(path) > 0 /\ Nf(path) > 0

CInv ==
  /\ str \in [Ptrs -> Paths]
  /\ cached \in Ptrs \cup {NoPtr}
  /\ CacheCoherent

(* A non-empty block gives a blob that is not the NULL blob. *)
LEMMA LoadBlockNull ==
  ASSUME FileAssumption, NEW path \in Paths, NEW at, NEW count, count > 0
  PROVE  LoadBlock(path, at, count) # Null
<1>1. LoadBlock(path, at, count).path = path
  BY DEF LoadBlock
<1>2. Null.path = NoPath
  BY DEF Null
<1> QED BY <1>1, <1>2 DEF FileAssumption

(* Under that discipline the remembered path always names the file both    *)
(* statics were loaded from.                                               *)
THEOREM CacheIsCoherent ==
  ASSUME FileAssumption, Disciplined PROVE Spec => []CacheCoherent
<1>1. Init => CInv
  BY DEF Init, CInv, CacheCoherent
<1>2. CInv /\ [Next]_vars => CInv'
  <2> SUFFICES ASSUME CInv, [Next]_vars PROVE CInv'
    OBVIOUS
  <2>1. CASE UNCHANGED <<str, cached, sm, sf>>
    BY <2>1 DEF CInv, CacheCoherent, Loaded
  <2>2. ASSUME NEW p \in Ptrs, NEW kind \in Kinds, NEW name \in Names, Load(p, kind, name)
        PROVE  CInv'
    <3> DEFINE path == str[p]
               m == Methods(path)
               f == Fields(path)
    <3>1. path \in Paths
      BY DEF CInv
    <3>2. IsIndex(path) /\ Nm(path) > 0 /\ Nf(path) > 0
      BY <2>2, <3>1 DEF Load, Disciplined
    <3>3. m # Null /\ f # Null
      BY <3>1, <3>2, LoadBlockNull DEF Methods, Fields
    <3>4. sm' = m /\ sf' = f /\ cached' = p /\ str' = str
      BY <2>2, <3>3 DEF Load
    <3>5. str'[cached'] = path
      BY <3>4
    <3>6. /\ IsIndex(str'[cached'])
          /\ sm' = Methods(str'[cached']) /\ sf' = Fields(str'[cached'])
      BY <3>2, <3>4, <3>5
    <3>7. CacheCoherent'
      BY <3>6 DEF CacheCoherent, Loaded
    <3> QED BY <3>4, <3>7 DEF CInv
  <2>3. CASE Rewrite
    <3>1. PICK p \in Rewritable, path \in Paths : p # cached /\ str' = [str EXCEPT ![p] = path]
      BY <2>3 DEF Rewrite, Disciplined
    <3>2. cached' = cached /\ sm' = sm /\ sf' = sf
      BY <2>3 DEF Rewrite
    <3>3. str' \in [Ptrs -> Paths]
      BY <3>1 DEF CInv
    <3>4. cached # NoPtr => str'[cached'] = str[cached]
      BY <3>1, <3>2 DEF CInv
    <3> QED BY <3>2, <3>3, <3>4 DEF CInv, CacheCoherent, Loaded
  <2>4. CASE Query
    BY <2>1, <2>2, <2>4 DEF Query, CacheHit, Unreadable, BadMagic
  <2>5. CASE UNCHANGED vars
    BY <2>1, <2>5 DEF vars
  <2> QED BY <2>3, <2>4, <2>5 DEF Next
<1>3. CInv => CacheCoherent
  BY DEF CInv
<1> QED BY <1>1, <1>2, <1>3, PTL DEF Spec

-----------------------------------------------------------------------------
(* What the file of an index holds, word by word *)

(* The two words of a hash make the hash again. *)
LEMMA Halves ==
  ASSUME NEW h \in Nat, NEW w \in Nat \ {0}
  PROVE  h % w \in Nat /\ h \div w \in Nat /\ (h % w) + w * (h \div w) = h
OBVIOUS

(* A block of n rows takes 3n words. *)
LEMMA BlockLen ==
  ASSUME NEW rows \in Seq(Row)
  PROVE  Block(rows) \in Seq(Nat) /\ Len(Block(rows)) = 3 * Len(rows)
<1>1. Len(rows) \in Nat
  OBVIOUS
<1>r. \A k \in 1 .. Len(rows) : rows[k].hash \in Nat /\ rows[k].rva \in Nat
  <2>1. \A k \in 1 .. Len(rows) : rows[k] \in Row
    OBVIOUS
  <2> QED BY <2>1 DEF Row
<1>2. ASSUME NEW k \in 1 .. 3 * Len(rows)
      PROVE  Block(rows)[k] \in Nat
  <2>1. CASE k > 2 * Len(rows)
    <3>1. k - 2 * Len(rows) \in 1 .. Len(rows)
      BY <2>1, <1>1
    <3> QED BY <2>1, <3>1, <1>r DEF Block
  <2>2. CASE ~(k > 2 * Len(rows)) /\ k % 2 = 1
    <3>1. (k + 1) \div 2 \in 1 .. Len(rows)
      BY <2>2, <1>1
    <3>2. rows[(k + 1) \div 2].hash % Word \in Nat
      BY <3>1, <1>r, Halves, NamesAssumption
    <3> QED BY <2>2, <3>2 DEF Block
  <2>3. CASE ~(k > 2 * Len(rows)) /\ k % 2 # 1
    <3>1. k \div 2 \in 1 .. Len(rows)
      BY <2>3, <1>1
    <3>2. rows[k \div 2].hash \div Word \in Nat
      BY <3>1, <1>r, Halves, NamesAssumption
    <3> QED BY <2>3, <3>2 DEF Block
  <2> QED BY <2>1, <2>2, <2>3
<1>3. Block(rows) \in [1 .. 3 * Len(rows) -> Nat]
  <2>1. /\ DOMAIN Block(rows) = 1 .. 3 * Len(rows)
        /\ Block(rows) = [k \in 1 .. 3 * Len(rows) |-> Block(rows)[k]]
    BY DEF Block
  <2> QED BY <2>1, <1>2
<1>4. 3 * Len(rows) \in Nat
  BY <1>1
<1> QED BY <1>3, <1>4, SeqDef, LenProperties

(* What concatenation does to lengths and to the three header words. *)
LEMMA Join ==
  ASSUME NEW s \in Seq(Nat), NEW t \in Seq(Nat), Len(s) >= 3
  PROVE  /\ s \o t \in Seq(Nat)
         /\ Len(s \o t) = Len(s) + Len(t)
         /\ (s \o t)[2] = s[2] /\ (s \o t)[3] = s[3]
<1>1. Len(s) \in Nat /\ Len(t) \in Nat
  BY LenProperties
<1>2. 2 \in 1 .. Len(s) + Len(t) /\ 3 \in 1 .. Len(s) + Len(t)
  BY <1>1
<1> QED BY <1>1, <1>2, ConcatProperties

(* The counts in the header of an index are the lengths of its blocks,     *)
(* and the file ends where the second block does.                          *)
LEMMA FileLayout ==
  ASSUME FileAssumption, NEW path \in Paths
  PROVE  /\ File(path)[2] = Len(Index[path].methods)
         /\ File(path)[3] = Len(Index[path].fields)
         /\ Len(Index[path].methods) \in Nat /\ Len(Index[path].fields) \in Nat
         /\ Len(File(path)) = 3 + 3 * Len(Index[path].methods) + 3 * Len(Index[path].fields)
<1> DEFINE me == Index[path].methods
           fi == Index[path].fields
           hd == <<Magic, Len(me), Len(fi)>>
<1>1. me \in Seq(Row) /\ fi \in Seq(Row)
  BY DEF FileAssumption
<1>2. Len(me) \in Nat /\ Len(fi) \in Nat
  BY <1>1
<1>3. hd \in Seq(Nat) /\ Len(hd) = 3 /\ hd[2] = Len(me) /\ hd[3] = Len(fi)
  BY <1>2 DEF FileAssumption
<1>4. /\ Block(me) \in Seq(Nat) /\ Len(Block(me)) = 3 * Len(me)
      /\ Block(fi) \in Seq(Nat) /\ Len(Block(fi)) = 3 * Len(fi)
  BY <1>1, BlockLen
<1>5. File(path) = hd \o Block(me) \o Block(fi)
  BY DEF File
<1> DEFINE bm == Block(me)
           bf == Block(fi)
           hm == hd \o bm
<1> HIDE DEF me, fi, hd, bm, bf, hm
<1>6. /\ hm \in Seq(Nat) /\ Len(hm) = 3 + 3 * Len(me)
      /\ hm[2] = Len(me) /\ hm[3] = Len(fi)
  <2>1. hd \in Seq(Nat) /\ Len(hd) = 3 /\ bm \in Seq(Nat) /\ Len(bm) = 3 * Len(me)
    BY <1>3, <1>4 DEF bm
  <2>2. /\ hd \o bm \in Seq(Nat) /\ Len(hd \o bm) = Len(hd) + Len(bm)
        /\ (hd \o bm)[2] = hd[2] /\ (hd \o bm)[3] = hd[3]
    <3>1. Len(hd) >= 3
      BY <2>1
    <3> QED BY <3>1, <2>1, Join, Zenon
  <2> QED BY <2>1, <2>2, <1>2, <1>3 DEF hm
<1>7. /\ Len(hm \o bf) = 3 + 3 * Len(me) + 3 * Len(fi)
      /\ (hm \o bf)[2] = Len(me) /\ (hm \o bf)[3] = Len(fi)
  <2>1. Len(hm) \in Nat /\ Len(hm) >= 3 /\ bf \in Seq(Nat) /\ Len(bf) = 3 * Len(fi)
    BY <1>2, <1>4, <1>6 DEF bf
  <2> QED BY <2>1, <1>2, <1>6, Join
<1> QED BY <1>2, <1>5, <1>7 DEF me, fi, hm, bm, bf

-----------------------------------------------------------------------------
(* The binary search *)

(* Induction over the natural numbers, in its first-order form: a set that *)
(* holds 0 and the successor of each of its members holds them all.        *)
LEMMA SetInduction ==
  ASSUME NEW S, 0 \in S, \A n \in Nat : n \in S => n + 1 \in S
  PROVE  \A n \in Nat : n \in S
<1> DEFINE R == OpToRel(<, Nat)
           T == Nat \ S
<1>1. IsWellFoundedOn(R, Nat)
  BY NatLessThanWellFounded
<1>2. \A x, y \in Nat : x < y => <<x, y>> \in R
  BY DEF OpToRel
<1> HIDE DEF R
<1>3. SUFFICES ASSUME T # {} PROVE FALSE
  OBVIOUS
<1>4. PICK x \in T : \A y \in T : ~ (<<y, x>> \in R)
  BY <1>1, <1>3, WFMin
<1>5. x \in Nat /\ x # 0
  OBVIOUS
<1>6. x - 1 \in Nat /\ x - 1 < x /\ x = (x - 1) + 1
  BY <1>5
<1>7. x - 1 \in T
  BY <1>6
<1>8. <<x - 1, x>> \in R
  BY <1>2, <1>5, <1>6
<1> QED BY <1>4, <1>7, <1>8

(* One turn of lookup's loop over the interval r, with s for the rest. *)
Half(b, h, s, r) ==
  LET lo == r[1]
      hi == r[2]
      mid == (lo + hi) \div 2 IN
    IF lo > hi THEN 0
    ELSE IF HashAt(b, mid) = Outside THEN Outside
    ELSE IF HashAt(b, mid) < h THEN s[<<mid + 1, hi>>]
    ELSE IF HashAt(b, mid) > h THEN s[<<lo, mid - 1>>]
    ELSE RvaAt(b, mid)

Intervals(n) == (0 .. n) \X (-1 .. n - 1)

(* s is a search: a solution of lookup's recursion. *)
Search(b, h, s) == s = [r \in Intervals(b.n) |-> Half(b, h, s, r)]

(* A turn looks only at shorter intervals inside its own. *)
LEMMA HalfLocal ==
  ASSUME NEW b, b.n \in Nat, NEW h, NEW s, NEW t,
         NEW lo \in 0 .. b.n, NEW hi \in -1 .. b.n - 1,
         \A l \in 0 .. b.n, j \in -1 .. b.n - 1 :
           l >= lo /\ j <= hi /\ j - l < hi - lo => s[<<l, j>>] = t[<<l, j>>]
  PROVE  Half(b, h, s, <<lo, hi>>) = Half(b, h, t, <<lo, hi>>)
<1> DEFINE mid == (lo + hi) \div 2
<1>1. CASE lo > hi
  BY <1>1 DEF Half
<1>2. CASE lo <= hi
  <2>1. mid \in 0 .. b.n - 1 /\ lo <= mid /\ mid <= hi
    BY <1>2
  <2> HIDE DEF mid
  <2>2. /\ mid + 1 \in 0 .. b.n /\ mid + 1 >= lo /\ hi - (mid + 1) < hi - lo
        /\ mid - 1 \in -1 .. b.n - 1 /\ mid - 1 <= hi /\ (mid - 1) - lo < hi - lo
    BY <2>1
  <2>3. s[<<mid + 1, hi>>] = t[<<mid + 1, hi>>] /\ s[<<lo, mid - 1>>] = t[<<lo, mid - 1>>]
    BY <2>2
  <2> QED BY <2>3 DEF Half, mid
<1> QED BY <1>1, <1>2

(* The recursion has a solution, whatever the blob holds: turn by turn, a  *)
(* function that is right on ever longer intervals.                        *)
LEMMA SearchExists ==
  ASSUME NEW b, b.n \in Nat, NEW h
  PROVE  \E s : Search(b, h, s)
<1> DEFINE D == Intervals(b.n)
           Right(s, len) ==
             \A lo \in 0 .. b.n, hi \in -1 .. b.n - 1 :
               hi - lo < len => s[<<lo, hi>>] = Half(b, h, s, <<lo, hi>>)
           S == {m \in Nat : \E s : s = [r \in D |-> s[r]] /\ Right(s, m - 1 - b.n)}
<1>1. 0 \in S
  <2> DEFINE s == [r \in D |-> 0]
  <2>1. s = [r \in D |-> s[r]] /\ Right(s, 0 - 1 - b.n)
    OBVIOUS
  <2> HIDE DEF s
  <2> QED BY <2>1
<1>2. ASSUME NEW m \in Nat, m \in S PROVE m + 1 \in S
  <2>1. PICK s : s = [r \in D |-> s[r]] /\ Right(s, m - 1 - b.n)
    BY <1>2
  <2> DEFINE t == [r \in D |-> Half(b, h, s, r)]
  <2>2. t = [r \in D |-> t[r]]
    OBVIOUS
  <2>3. \A lo \in 0 .. b.n, hi \in -1 .. b.n - 1 : t[<<lo, hi>>] = Half(b, h, s, <<lo, hi>>)
    BY DEF Intervals
  <2> HIDE DEF t
  <2>4. ASSUME NEW lo \in 0 .. b.n, NEW hi \in -1 .. b.n - 1, hi - lo < (m + 1) - 1 - b.n
        PROVE  t[<<lo, hi>>] = Half(b, h, t, <<lo, hi>>)
    <3>1. ASSUME NEW l \in 0 .. b.n, NEW j \in -1 .. b.n - 1, j - l < hi - lo
          PROVE  s[<<l, j>>] = t[<<l, j>>]
      <4>1. j - l < m - 1 - b.n
        BY <2>4, <3>1
      <4> QED BY <2>1, <2>3, <4>1
    <3>2. Half(b, h, s, <<lo, hi>>) = Half(b, h, t, <<lo, hi>>)
      BY <3>1, HalfLocal
    <3> QED BY <2>3, <3>2
  <2>5. Right(t, (m + 1) - 1 - b.n) /\ m + 1 \in Nat
    BY <2>4
  <2> QED BY <2>2, <2>5
<1>3. \A m \in Nat : m \in S
  <2> HIDE DEF S
  <2> QED BY <1>1, <1>2, SetInduction
<1>4. 2 * b.n + 1 \in S
  <2>1. 2 * b.n + 1 \in Nat
    OBVIOUS
  <2> HIDE DEF S
  <2> QED BY <1>3, <2>1
<1>5. PICK s : s = [r \in D |-> s[r]] /\ Right(s, (2 * b.n + 1) - 1 - b.n)
  BY <1>4
<1>6. ASSUME NEW r \in D PROVE s[r] = Half(b, h, s, r)
  <2>1. PICK lo \in 0 .. b.n, hi \in -1 .. b.n - 1 : r = <<lo, hi>>
    BY DEF Intervals
  <2>2. hi - lo < (2 * b.n + 1) - 1 - b.n
    BY <2>1
  <2> QED BY <1>5, <2>1, <2>2
<1>7. s = [r \in D |-> Half(b, h, s, r)]
  BY <1>5, <1>6
<1> QED BY <1>7 DEF Search

(* So lookup is such a solution. *)
LEMMA LookupSearch ==
  ASSUME NEW b, b.n \in Nat, NEW h
  PROVE  \E s : /\ Lookup(b, h) = s[<<0, b.n - 1>>]
                /\ \A lo \in 0 .. b.n, hi \in -1 .. b.n - 1 :
                     s[<<lo, hi>>] = Half(b, h, s, <<lo, hi>>)
<1> DEFINE s == CHOOSE u : Search(b, h, u)
<1>1. Lookup(b, h) = s[<<0, b.n - 1>>]
  BY DEF Lookup, Search, Half, Intervals
<1>2. Search(b, h, s)
  BY SearchExists, Zenon
<1> HIDE DEF s
<1>3. \A lo \in 0 .. b.n, hi \in -1 .. b.n - 1 : s[<<lo, hi>>] = Half(b, h, s, <<lo, hi>>)
  BY <1>2 DEF Search, Intervals
<1> QED BY <1>1, <1>3

(* In blob b the hash h is at place k0 and nowhere else (nowhere at all if *)
(* k0 is no place of b), and the places before it hold smaller hashes, the *)
(* places after it larger ones.                                            *)
OnlyAt(b, h, k0) ==
  /\ b.n \in Nat /\ h \in Nat /\ k0 \in Int
  /\ \A k \in 0 .. b.n - 1 :
       /\ HashAt(b, k) \in Nat
       /\ HashAt(b, k) = h <=> k = k0
       /\ k0 \in 0 .. b.n - 1 => (HashAt(b, k) < h <=> k < k0)

(* What a search of lo .. hi should give. *)
Hit(b, k0, lo, hi) == IF lo <= k0 /\ k0 <= hi THEN RvaAt(b, k0) ELSE 0

(* A turn of the loop is right if the rest of the search is. *)
LEMMA HalfRight ==
  ASSUME NEW b, NEW h, NEW k0, OnlyAt(b, h, k0), NEW s,
         NEW lo \in 0 .. b.n, NEW hi \in -1 .. b.n - 1,
         \A l \in 0 .. b.n, m \in -1 .. b.n - 1 :
           l >= lo /\ m <= hi /\ m - l < hi - lo => s[<<l, m>>] = Hit(b, k0, l, m)
  PROVE  Half(b, h, s, <<lo, hi>>) = Hit(b, k0, lo, hi)
<1> DEFINE mid == (lo + hi) \div 2
<1>0. b.n \in Nat /\ h \in Nat /\ k0 \in Int /\ lo \in Int /\ hi \in Int
  BY DEF OnlyAt
<1>1. CASE lo > hi
  BY <1>0, <1>1 DEF Half, Hit
<1>2. CASE lo <= hi
  <2>1. mid \in 0 .. b.n - 1 /\ lo <= mid /\ mid <= hi
    BY <1>0, <1>2
  <2> HIDE DEF mid
  <2>2. /\ HashAt(b, mid) \in Nat /\ HashAt(b, mid) # Outside
        /\ HashAt(b, mid) = h <=> mid = k0
        /\ k0 \in 0 .. b.n - 1 => (HashAt(b, mid) < h <=> mid < k0)
    BY <2>1 DEF OnlyAt, Outside
  <2>3. /\ mid + 1 \in 0 .. b.n /\ mid + 1 >= lo /\ hi - (mid + 1) < hi - lo
        /\ mid - 1 \in -1 .. b.n - 1 /\ mid - 1 <= hi /\ (mid - 1) - lo < hi - lo
    BY <1>0, <2>1
  <2>4. /\ s[<<mid + 1, hi>>] = Hit(b, k0, mid + 1, hi)
        /\ s[<<lo, mid - 1>>] = Hit(b, k0, lo, mid - 1)
    BY <1>0, <2>3
  <2>5. Half(b, h, s, <<lo, hi>>) = (IF HashAt(b, mid) < h THEN s[<<mid + 1, hi>>]
                                     ELSE IF HashAt(b, mid) > h THEN s[<<lo, mid - 1>>]
                                     ELSE RvaAt(b, mid))
    BY <1>0, <1>2, <2>2 DEF Half, mid
  <2>6. CASE HashAt(b, mid) < h
    <3>1. Hit(b, k0, mid + 1, hi) = Hit(b, k0, lo, hi)
      BY <1>0, <2>1, <2>2, <2>6 DEF Hit
    <3> QED BY <3>1, <2>4, <2>5, <2>6
  <2>7. CASE HashAt(b, mid) > h
    <3>1. Hit(b, k0, lo, mid - 1) = Hit(b, k0, lo, hi)
      BY <1>0, <2>1, <2>2, <2>7 DEF Hit
    <3>2. ~(HashAt(b, mid) < h)
      BY <1>0, <2>2, <2>7
    <3> QED BY <3>1, <3>2, <2>4, <2>5, <2>7
  <2>8. CASE HashAt(b, mid) = h
    <3>1. ~(HashAt(b, mid) < h) /\ ~(HashAt(b, mid) > h)
      BY <1>0, <2>8
    <3>2. mid = k0
      BY <2>2, <2>8
    <3> QED BY <3>1, <3>2, <2>1, <2>5 DEF Hit
  <2> QED BY <1>0, <2>2, <2>6, <2>7, <2>8
<1> QED BY <1>0, <1>1, <1>2

(* What holds of every turn whenever it holds of the turns on shorter      *)
(* intervals holds of lookup: by induction on the length of the interval.  *)
LEMMA LookupInduction ==
  ASSUME NEW b, b.n \in Nat, NEW h, NEW G,
         \A s : \A lo \in 0 .. b.n, hi \in -1 .. b.n - 1 :
           (\A l \in 0 .. b.n, j \in -1 .. b.n - 1 :
              l >= lo /\ j <= hi /\ j - l < hi - lo => <<l, j, s[<<l, j>>]>> \in G)
           => <<lo, hi, Half(b, h, s, <<lo, hi>>)>> \in G
  PROVE  <<0, b.n - 1, Lookup(b, h)>> \in G
<1>0. PICK s : /\ Lookup(b, h) = s[<<0, b.n - 1>>]
               /\ \A lo \in 0 .. b.n, hi \in -1 .. b.n - 1 :
                    s[<<lo, hi>>] = Half(b, h, s, <<lo, hi>>)
  BY LookupSearch
<1> DEFINE Right(len) ==
             \A lo \in 0 .. b.n, hi \in -1 .. b.n - 1 :
               hi - lo < len => <<lo, hi, s[<<lo, hi>>]>> \in G
           S == {m \in Nat : Right(m - 1 - b.n)}
<1>1. 0 \in S
  OBVIOUS
<1>2. ASSUME NEW m \in Nat, m \in S PROVE m + 1 \in S
  <2>1. ASSUME NEW lo \in 0 .. b.n, NEW hi \in -1 .. b.n - 1, hi - lo < (m + 1) - 1 - b.n
        PROVE  <<lo, hi, s[<<lo, hi>>]>> \in G
    <3>1. ASSUME NEW l \in 0 .. b.n, NEW j \in -1 .. b.n - 1, j - l < hi - lo
          PROVE  <<l, j, s[<<l, j>>]>> \in G
      <4>1. j - l < m - 1 - b.n
        BY <2>1, <3>1
      <4> QED BY <1>2, <4>1
    <3>2. <<lo, hi, Half(b, h, s, <<lo, hi>>)>> \in G
      BY <3>1
    <3> QED BY <1>0, <3>2
  <2>2. Right((m + 1) - 1 - b.n) /\ m + 1 \in Nat
    BY <2>1
  <2> QED BY <2>2
<1>3. \A m \in Nat : m \in S
  <2> HIDE DEF S
  <2> QED BY <1>1, <1>2, SetInduction
<1>4. 2 * b.n + 1 \in S
  <2>1. 2 * b.n + 1 \in Nat
    OBVIOUS
  <2> HIDE DEF S
  <2> QED BY <1>3, <2>1
<1>5. Right(b.n)
  <2>1. (2 * b.n + 1) - 1 - b.n = b.n
    OBVIOUS
  <2> QED BY <1>4, <2>1
<1>6. 0 \in 0 .. b.n /\ b.n - 1 \in -1 .. b.n - 1 /\ (b.n - 1) - 0 < b.n
  OBVIOUS
<1> QED BY <1>0, <1>5, <1>6

(* lookup returns the rva at the place of the hash, 0 if it has none. *)
LEMMA LookupRight ==
  ASSUME NEW b, NEW h, NEW k0, OnlyAt(b, h, k0)
  PROVE  Lookup(b, h) = Hit(b, k0, 0, b.n - 1)
<1> DEFINE G == {<<lo, hi, Hit(b, k0, lo, hi)>> : lo \in 0 .. b.n, hi \in -1 .. b.n - 1}
<1>1. \A x : \A lo \in 0 .. b.n, hi \in -1 .. b.n - 1 :
        <<lo, hi, x>> \in G <=> x = Hit(b, k0, lo, hi)
  OBVIOUS
<1> HIDE DEF G
<1>2. ASSUME NEW s, NEW lo \in 0 .. b.n, NEW hi \in -1 .. b.n - 1,
             \A l \in 0 .. b.n, j \in -1 .. b.n - 1 :
               l >= lo /\ j <= hi /\ j - l < hi - lo => <<l, j, s[<<l, j>>]>> \in G
      PROVE  <<lo, hi, Half(b, h, s, <<lo, hi>>)>> \in G
  <2>1. \A l \in 0 .. b.n, j \in -1 .. b.n - 1 :
          l >= lo /\ j <= hi /\ j - l < hi - lo => s[<<l, j>>] = Hit(b, k0, l, j)
    <3>1. ASSUME NEW l \in 0 .. b.n, NEW j \in -1 .. b.n - 1,
                 l >= lo, j <= hi, j - l < hi - lo
          PROVE  s[<<l, j>>] = Hit(b, k0, l, j)
      <4>1. <<l, j, s[<<l, j>>]>> \in G
        BY <1>2, <3>1
      <4> QED BY <1>1, <4>1, Zenon
    <3> QED BY <3>1
  <2>2. Half(b, h, s, <<lo, hi>>) = Hit(b, k0, lo, hi)
    BY <2>1, HalfRight
  <2> QED BY <1>1, <2>2
<1>3. b.n \in Nat
  BY DEF OnlyAt
<1>4. <<0, b.n - 1, Lookup(b, h)>> \in G
  BY <1>2, <1>3, LookupInduction
<1>5. 0 \in 0 .. b.n /\ b.n - 1 \in -1 .. b.n - 1
  BY <1>3
<1> QED BY <1>1, <1>4, <1>5

(* Whatever the blob holds, sorted or not: lookup returns 0, or the rva of *)
(* a place that has the hash, or a probe left the mapping.                 *)
Outcome(b, h, x) ==
  \/ x = 0
  \/ x = Outside /\ \E k \in 0 .. b.n - 1 : HashAt(b, k) = Outside
  \/ \E k \in 0 .. b.n - 1 : HashAt(b, k) = h /\ x = RvaAt(b, k)

LEMMA LookupOutcome ==
  ASSUME NEW b, b.n \in Nat, NEW h \in Nat,
         \A k \in 0 .. b.n - 1 : HashAt(b, k) \in Nat \cup {Outside}
  PROVE  Outcome(b, h, Lookup(b, h))
<1> DEFINE Vals == {0, Outside} \cup {RvaAt(b, k) : k \in 0 .. b.n - 1}
           X == {x \in Vals : Outcome(b, h, x)}
           G == (0 .. b.n) \X (-1 .. b.n - 1) \X X
<1>1. \A x : \A lo \in 0 .. b.n, hi \in -1 .. b.n - 1 : <<lo, hi, x>> \in G <=> x \in X
  OBVIOUS
<1>2. \A x : x \in X <=> Outcome(b, h, x)
  BY DEF Outcome
<1> HIDE DEF X, G
<1>3. ASSUME NEW s, NEW lo \in 0 .. b.n, NEW hi \in -1 .. b.n - 1,
             \A l \in 0 .. b.n, j \in -1 .. b.n - 1 :
               l >= lo /\ j <= hi /\ j - l < hi - lo => <<l, j, s[<<l, j>>]>> \in G
      PROVE  <<lo, hi, Half(b, h, s, <<lo, hi>>)>> \in G
  <2> DEFINE mid == (lo + hi) \div 2
  <2>1. CASE lo > hi
    <3>1. Half(b, h, s, <<lo, hi>>) = 0
      BY <2>1 DEF Half
    <3> QED BY <3>1, <1>1, <1>2 DEF Outcome
  <2>2. CASE lo <= hi
    <3>1. mid \in 0 .. b.n - 1 /\ lo <= mid /\ mid <= hi
      BY <2>2
    <3> HIDE DEF mid
    <3>2. /\ mid + 1 \in 0 .. b.n /\ mid + 1 >= lo /\ hi - (mid + 1) < hi - lo
          /\ mid - 1 \in -1 .. b.n - 1 /\ mid - 1 <= hi /\ (mid - 1) - lo < hi - lo
      BY <3>1
    <3>3. s[<<mid + 1, hi>>] \in X /\ s[<<lo, mid - 1>>] \in X
      <4>1. hi <= hi /\ lo >= lo
        OBVIOUS
      <4>2. <<mid + 1, hi, s[<<mid + 1, hi>>]>> \in G
        BY <1>3, <3>2, <4>1
      <4>3. <<lo, mid - 1, s[<<lo, mid - 1>>]>> \in G
        BY <1>3, <3>2, <4>1
      <4> QED BY <1>1, <3>2, <4>2, <4>3
    <3>4. Half(b, h, s, <<lo, hi>>) = (IF HashAt(b, mid) = Outside THEN Outside
                                       ELSE IF HashAt(b, mid) < h THEN s[<<mid + 1, hi>>]
                                       ELSE IF HashAt(b, mid) > h THEN s[<<lo, mid - 1>>]
                                       ELSE RvaAt(b, mid))
      BY <2>2 DEF Half, mid
    <3>5. HashAt(b, mid) = Outside => Outcome(b, h, Outside)
      BY <3>1 DEF Outcome
    <3>6. HashAt(b, mid) = h => Outcome(b, h, RvaAt(b, mid))
      BY <3>1 DEF Outcome
    <3>7. HashAt(b, mid) \in Nat \cup {Outside}
      BY <3>1
    <3>8. Half(b, h, s, <<lo, hi>>) \in X
      BY <3>3, <3>4, <3>5, <3>6, <3>7, <1>2
    <3> QED BY <3>8, <1>1
  <2> QED BY <2>1, <2>2
<1>4. <<0, b.n - 1, Lookup(b, h)>> \in G
  BY <1>3, LookupInduction
<1>5. 0 \in 0 .. b.n /\ b.n - 1 \in -1 .. b.n - 1
  OBVIOUS
<1> QED BY <1>1, <1>2, <1>4, <1>5

-----------------------------------------------------------------------------
(* Blobs of files *)

(* Where a block keeps the hash and the rva of its (k + 1)th row. *)
LEMMA BlockAt ==
  ASSUME NEW rows \in Seq(Row), NEW k \in 0 .. Len(rows) - 1
  PROVE  /\ 2 * k + 1 \in 1 .. 3 * Len(rows) /\ 2 * k + 2 \in 1 .. 3 * Len(rows)
         /\ Block(rows)[2 * k + 1] + Word * Block(rows)[2 * k + 2] = rows[k + 1].hash
         /\ Block(rows)[2 * k + 1] \in Nat /\ Block(rows)[2 * k + 2] \in Nat
         /\ 2 * Len(rows) + k + 1 \in 1 .. 3 * Len(rows)
         /\ Block(rows)[2 * Len(rows) + k + 1] = rows[k + 1].rva
<1> DEFINE n == Len(rows)
           i == 2 * k + 1
           j == 2 * n + k + 1
<1>1. n \in Nat /\ k \in Int
  OBVIOUS
<1>r. rows[k + 1].hash \in Nat
  <2>1. rows[k + 1] \in Row
    BY <1>1
  <2> QED BY <2>1 DEF Row
<1> HIDE DEF n
<1>2. k \in 0 .. n - 1
  BY DEF n
<1>3. i \in 1 .. 3 * n /\ ~(i > 2 * n) /\ i % 2 = 1 /\ (i + 1) \div 2 = k + 1
  BY <1>1, <1>2
<1>4. /\ i + 1 \in 1 .. 3 * n /\ ~(i + 1 > 2 * n) /\ (i + 1) % 2 # 1
      /\ (i + 1) \div 2 = k + 1 /\ i + 1 = 2 * k + 2
  BY <1>1, <1>2
<1>5. j \in 1 .. 3 * n /\ j > 2 * n /\ j - 2 * n = k + 1
  BY <1>1, <1>2
<1> HIDE DEF i, j
<1>6. Block(rows)[i] = rows[k + 1].hash % Word
  BY <1>3 DEF Block, n
<1>7. Block(rows)[i + 1] = rows[k + 1].hash \div Word
  BY <1>4 DEF Block, n
<1>8. Block(rows)[j] = rows[k + 1].rva
  BY <1>5 DEF Block, n
<1>9. /\ Block(rows)[i] \in Nat /\ Block(rows)[i + 1] \in Nat
      /\ Block(rows)[i] + Word * Block(rows)[i + 1] = rows[k + 1].hash
  BY <1>r, <1>6, <1>7, Halves, NamesAssumption
<1> QED BY <1>3, <1>4, <1>5, <1>8, <1>9 DEF i, j, n

(* Where the file keeps the words of its two blocks. *)
LEMMA FileWords ==
  ASSUME FileAssumption, NEW path \in Paths
  PROVE  /\ \A i \in 1 .. 3 * Len(Index[path].methods) :
              File(path)[3 + i] = Block(Index[path].methods)[i]
         /\ \A i \in 1 .. 3 * Len(Index[path].fields) :
              File(path)[3 + 3 * Len(Index[path].methods) + i] = Block(Index[path].fields)[i]
<1> DEFINE me == Index[path].methods
           fi == Index[path].fields
           hd == <<Magic, Len(me), Len(fi)>>
           bm == Block(me)
           bf == Block(fi)
           hm == hd \o bm
<1>1. me \in Seq(Row) /\ fi \in Seq(Row)
  BY DEF FileAssumption
<1>2. Len(me) \in Nat /\ Len(fi) \in Nat
  BY <1>1
<1>3. hd \in Seq(Nat) /\ Len(hd) = 3
  BY <1>2 DEF FileAssumption
<1>4. bm \in Seq(Nat) /\ Len(bm) = 3 * Len(me) /\ bf \in Seq(Nat) /\ Len(bf) = 3 * Len(fi)
  BY <1>1, BlockLen
<1>5. File(path) = hm \o bf
  BY DEF File
<1> HIDE DEF me, fi, hd, bm, bf
<1>6. hm \in Seq(Nat) /\ Len(hm) = 3 + 3 * Len(me)
  <2>1. hm \in Seq(Nat) /\ Len(hm) = Len(hd) + Len(bm)
    BY <1>3, <1>4, ConcatProperties, Zenon
  <2> QED BY <2>1, <1>3, <1>4
<1>7. ASSUME NEW i \in 1 .. 3 * Len(me) PROVE (hm \o bf)[3 + i] = bm[i]
  <2>1. 3 + i \in 1 .. Len(hm) /\ 3 + i \in 1 .. Len(hm) + Len(bf) /\ 3 + i <= Len(hm)
    BY <1>2, <1>4, <1>6
  <2>2. (hm \o bf)[3 + i] = hm[3 + i]
    BY <1>4, <1>6, <2>1, ConcatProperties
  <2>3. 3 + i \in 1 .. Len(hd) + Len(bm) /\ ~(3 + i <= Len(hd)) /\ (3 + i) - Len(hd) = i
    BY <1>2, <1>3, <1>4
  <2>4. \A j \in 1 .. Len(hd) + Len(bm) :
           (hd \o bm)[j] = IF j <= Len(hd) THEN hd[j] ELSE bm[j - Len(hd)]
    BY <1>3, <1>4, ConcatProperties, Zenon
  <2>5. hm[3 + i] = bm[i]
    BY <2>3, <2>4
  <2> QED BY <2>2, <2>5
<1>8. ASSUME NEW i \in 1 .. 3 * Len(fi) PROVE (hm \o bf)[3 + 3 * Len(me) + i] = bf[i]
  <2> DEFINE j == 3 + 3 * Len(me) + i
  <2>1. j \in 1 .. Len(hm) + Len(bf) /\ ~(j <= Len(hm)) /\ j - Len(hm) = i
    BY <1>2, <1>4, <1>6
  <2> HIDE DEF hm, j
  <2>2. \A l \in 1 .. Len(hm) + Len(bf) :
           (hm \o bf)[l] = IF l <= Len(hm) THEN hm[l] ELSE bf[l - Len(hm)]
    <3>1. hm \in Seq(Nat) /\ bf \in Seq(Nat)
      BY <1>4, <1>6
    <3> QED BY <3>1, ConcatProperties, Zenon
  <2>3. (hm \o bf)[j] = bf[i]
    BY <2>1, <2>2
  <2> QED BY <2>3 DEF j
<1> QED BY <1>5, <1>7, <1>8 DEF me, fi, bm, bf

(* What a read of the mapping gives, inside the file and behind its end. *)
LEMMA WordType ==
  ASSUME FileAssumption, NEW path \in Paths, NEW k \in Nat \ {0}
  PROVE  /\ Len(Index[path].disk) \in Nat
         /\ WordAt(path, k) \in Nat \cup {Outside}
         /\ k <= Len(Index[path].disk) =>
              WordAt(path, k) = Index[path].disk[k] /\ WordAt(path, k) \in Nat
         /\ k > Len(Index[path].disk) => WordAt(path, k) \in {0, Outside}
<1>1. Index[path].disk \in Seq(0 .. Word - 1)
  BY DEF FileAssumption
<1>2. /\ Len(Index[path].disk) \in Nat
      /\ k <= Len(Index[path].disk) => Index[path].disk[k] \in 0 .. Word - 1
  <2> DEFINE d == Index[path].disk
             T == 0 .. Word - 1
  <2>1. d \in Seq(T)
    BY <1>1
  <2> HIDE DEF d, T
  <2>2. Len(d) \in Nat /\ (k <= Len(d) => d[k] \in T)
    <3>1. Len(d) \in Nat /\ \A i \in 1 .. Len(d) : d[i] \in T
      BY <2>1, LenProperties, ElementOfSeq
    <3> QED BY <3>1
  <2> QED BY <2>2 DEF d, T
<1>3. 0 .. Word - 1 \subseteq Nat
  BY NamesAssumption
<1> QED BY <1>2, <1>3 DEF WordAt

(* The header of an index: nf reads as 0 when the file ends before it. *)
LEMMA HeaderWords ==
  ASSUME FileAssumption, NEW path \in Paths, IsIndex(path)
  PROVE  /\ Len(Index[path].disk) \in Nat /\ Len(Index[path].disk) >= 2
         /\ Nm(path) = Index[path].disk[2] /\ Nm(path) \in Nat /\ Nf(path) \in Nat
         /\ Len(Index[path].disk) >= 3 => Nf(path) = Index[path].disk[3]
<1> DEFINE L == Len(Index[path].disk)
<1>1. L \in Nat /\ L >= 2
  BY WordType DEF IsIndex, Mappable
<1>2. Nm(path) = Index[path].disk[2] /\ Nm(path) \in Nat
  BY <1>1, WordType DEF Nm
<1>3. CASE L >= 3
  BY <1>1, <1>2, <1>3, WordType DEF Nf
<1>4. CASE L = 2
  <2>1. PageWords \in Nat /\ PageWords >= 3
    BY DEF FileAssumption
  <2>2. (2 + PageWords - 1) \div PageWords = 1
    BY <2>1
  <2>3. MappedWords(path) >= 3
    BY <1>4, <2>1, <2>2 DEF MappedWords
  <2>4. Nf(path) = 0
    BY <1>4, <2>1, <2>3 DEF Nf, WordAt
  <2> QED BY <1>1, <1>2, <1>4, <2>4
<1>5. L >= 3 \/ L = 2
  <2> HIDE DEF L
  <2> QED BY <1>1
<1> QED BY <1>3, <1>4, <1>5

(* What load_block makes of an index. *)
LEMMA BlobShape ==
  ASSUME FileAssumption, NEW path \in Paths, IsIndex(path)
  PROVE  /\ Methods(path).n \in Nat /\ Fields(path).n \in Nat
         /\ Nm(path) < Word \div 2 => Methods(path).n = Nm(path)
         /\ Nf(path) < Word \div 2 => Fields(path).n = Nf(path)
         /\ Methods(path).n > 0 => Methods(path) = [path |-> path, at |-> 3, n |-> Nm(path)]
         /\ Fields(path).n > 0 =>
              Fields(path) = [path |-> path, at |-> 3 + 3 * Nm(path), n |-> Nf(path)]
<1>1. Nm(path) \in Nat /\ Nf(path) \in Nat
  BY HeaderWords
<1>2. Methods(path) = IF Nm(path) > 0 THEN [path |-> path, at |-> 3, n |-> AsInt(Nm(path))]
                      ELSE Null
  BY DEF Methods, LoadBlock, MethodsAt
<1>3. Fields(path) = IF Nf(path) > 0
                       THEN [path |-> path, at |-> 3 + 3 * Nm(path), n |-> AsInt(Nf(path))]
                       ELSE Null
  BY DEF Fields, LoadBlock, FieldsAt
<1>4. Null.n = 0
  BY DEF Null
<1>5. \A c \in Nat : /\ AsInt(c) \in {c, 0}
                     /\ c < Word \div 2 => AsInt(c) = c
  BY DEF AsInt
<1>6. /\ Methods(path).n \in {Nm(path), 0} /\ Fields(path).n \in {Nf(path), 0}
      /\ Nm(path) < Word \div 2 => Methods(path).n = Nm(path)
      /\ Nf(path) < Word \div 2 => Fields(path).n = Nf(path)
  BY <1>1, <1>2, <1>3, <1>4, <1>5
<1>7. Methods(path).n > 0 => Methods(path) = [path |-> path, at |-> 3, n |-> Nm(path)]
  BY <1>1, <1>2, <1>4, <1>5, <1>6
<1>8. Fields(path).n > 0 =>
        Fields(path) = [path |-> path, at |-> 3 + 3 * Nm(path), n |-> Nf(path)]
  BY <1>1, <1>3, <1>4, <1>5, <1>6
<1> QED BY <1>1, <1>6, <1>7, <1>8

(* A blob is empty or a block of an index, at the place the counts of its  *)
(* header give.                                                            *)
Shape(b) ==
  /\ b.n \in Nat
  /\ b.n > 0 => \E path \in Paths :
                  /\ IsIndex(path) /\ b.path = path
                  /\ b \in {Methods(path), Fields(path)}

(* Such a blob lies inside a file that is as long as its header says. *)
LEMMA ShapeInside ==
  ASSUME FileAssumption, NEW b, Shape(b)
  PROVE  /\ Inside(b)
         /\ b.n > 0 => b.path \in Paths /\ b.at \in Nat
<1>1. CASE ~(b.n > 0)
  BY <1>1 DEF Inside
<1>2. CASE b.n > 0
  <2>1. PICK path \in Paths :
           IsIndex(path) /\ b.path = path /\ b \in {Methods(path), Fields(path)}
    BY <1>2 DEF Shape
  <2>2. Nm(path) \in Nat /\ Nf(path) \in Nat /\ Len(Index[path].disk) \in Nat
    BY <2>1, HeaderWords
  <2>3. \/ b.n = Nm(path) /\ b.at = 3
        \/ b.n = Nf(path) /\ b.at = 3 + 3 * Nm(path)
    <3>1. CASE b = Methods(path)
      BY <1>2, <2>1, <3>1, BlobShape
    <3>2. CASE b = Fields(path)
      BY <1>2, <2>1, <3>2, BlobShape
    <3> QED BY <2>1, <3>1, <3>2
  <2>4. b.at \in Nat
    BY <2>2, <2>3
  <2>5. Fits(path) => b.at + 3 * b.n <= Len(Index[path].disk)
    <3> DEFINE L == Len(Index[path].disk)
               nm == Nm(path)
               nf == Nf(path)
    <3>1. SUFFICES ASSUME 3 + 3 * nm + 3 * nf <= L PROVE b.at + 3 * b.n <= L
      BY DEF Fits
    <3>2. L \in Nat /\ nm \in Nat /\ nf \in Nat
      BY <2>2
    <3>3. \/ b.n = nm /\ b.at = 3
          \/ b.n = nf /\ b.at = 3 + 3 * nm
      BY <2>3
    <3> HIDE DEF L, nm, nf
    <3> QED BY <3>1, <3>2, <3>3
  <2> QED BY <2>1, <2>4, <2>5 DEF Inside
<1> QED BY <1>1, <1>2

(* Its hashes are numbers or lie outside the mapping, and the words of a   *)
(* row that ends inside the file are numbers.                              *)
LEMMA RowWords ==
  ASSUME FileAssumption, NEW b, b.path \in Paths, b.at \in Nat, b.n \in Nat,
         NEW k \in 0 .. b.n - 1
  PROVE  /\ HashAt(b, k) \in Nat \cup {Outside}
         /\ RvaAt(b, k) \in Nat \cup {Outside}
         /\ b.at + 3 * b.n <= Len(Index[b.path].disk) =>
              HashAt(b, k) \in Nat /\ RvaAt(b, k) \in Nat
<1> DEFINE i == b.at + 2 * k + 1
           j == b.at + 2 * k + 2
           l == b.at + 2 * b.n + k + 1
<1>1. i \in Nat \ {0} /\ j \in Nat \ {0} /\ l \in Nat \ {0}
  OBVIOUS
<1>2. i <= b.at + 3 * b.n /\ j <= b.at + 3 * b.n /\ l <= b.at + 3 * b.n
  OBVIOUS
<1>3. /\ HashAt(b, k) = IF WordAt(b.path, i) = Outside \/ WordAt(b.path, j) = Outside
                          THEN Outside ELSE WordAt(b.path, i) + Word * WordAt(b.path, j)
      /\ RvaAt(b, k) = WordAt(b.path, l)
  BY DEF HashAt, RvaAt
<1> HIDE DEF i, j, l
<1>4. /\ WordAt(b.path, i) \in Nat \cup {Outside} /\ WordAt(b.path, j) \in Nat \cup {Outside}
      /\ WordAt(b.path, l) \in Nat \cup {Outside}
  BY <1>1, WordType
<1>5. ASSUME b.at + 3 * b.n <= Len(Index[b.path].disk)
      PROVE  /\ WordAt(b.path, i) \in Nat /\ WordAt(b.path, j) \in Nat
             /\ WordAt(b.path, l) \in Nat
  <2>1. Len(Index[b.path].disk) \in Nat
    BY <1>1, WordType
  <2>2. /\ i <= Len(Index[b.path].disk) /\ j <= Len(Index[b.path].disk)
        /\ l <= Len(Index[b.path].disk)
    <3> DEFINE L == Len(Index[b.path].disk)
               e == b.at + 3 * b.n
    <3>1. L \in Nat /\ e \in Nat /\ e <= L /\ i <= e /\ j <= e /\ l <= e
      BY <1>2, <1>5, <2>1
    <3> HIDE DEF L, e
    <3>2. i <= L /\ j <= L /\ l <= L
      BY <1>1, <3>1
    <3> QED BY <3>2 DEF L
  <2> QED BY <1>1, <2>2, WordType
<1>6. \A x, y \in Nat : x + Word * y \in Nat /\ x # Outside
  BY NamesAssumption DEF Outside
<1> QED BY <1>3, <1>4, <1>5, <1>6

(* The outcomes of a search of such a blob; it leaves the mapping only     *)
(* through a blob of a file shorter than its header says.                  *)
LEMMA SearchShape ==
  ASSUME FileAssumption, NEW b, Shape(b), NEW h \in Nat
  PROVE  /\ Outcome(b, h, Lookup(b, h))
         /\ Lookup(b, h) \in Nat \cup {Outside}
         /\ Lookup(b, h) = Outside => b.n > 0 /\ ~Fits(b.path)
<1>1. b.n \in Nat
  BY DEF Shape
<1>2. ASSUME NEW k \in 0 .. b.n - 1
      PROVE  /\ HashAt(b, k) \in Nat \cup {Outside} /\ RvaAt(b, k) \in Nat \cup {Outside}
             /\ Fits(b.path) => HashAt(b, k) \in Nat /\ RvaAt(b, k) \in Nat
  <2>1. b.n > 0
    BY <1>1
  <2>2. b.path \in Paths /\ b.at \in Nat
    BY <2>1, ShapeInside
  <2>3. Fits(b.path) => b.at + 3 * b.n <= Len(Index[b.path].disk)
    BY <2>1, ShapeInside DEF Inside
  <2> QED BY <1>1, <2>2, <2>3, RowWords
<1>3. Outcome(b, h, Lookup(b, h))
  BY <1>1, <1>2, LookupOutcome
<1>4. Outside \notin Nat
  BY DEF Outside
<1> QED BY <1>1, <1>2, <1>3, <1>4 DEF Outcome

BInv ==
  /\ str \in [Ptrs -> Paths]
  /\ Shape(sm) /\ Shape(sf) /\ Shape(blob)
  /\ ans = Outside => blob.n > 0 /\ ~Fits(blob.path)

(* The end of a query on two blobs of that shape. *)
LEMMA AnsweredInside ==
  ASSUME FileAssumption, NEW p \in Ptrs, NEW kind, NEW name \in Names, NEW fresh,
         NEW m, Shape(m), NEW f, Shape(f), Answered(p, kind, name, m, f, fresh)
  PROVE  \E b : /\ blob' = b /\ Shape(b)
                /\ ans' = Outside => b.n > 0 /\ ~Fits(b.path)
<1>1. PICK b \in {m, f} : blob' = b /\ ans' = Runtime(Lookup(b, Hash[name]))
  BY DEF Answered
<1>2. Hash[name] \in Nat
  BY NamesAssumption
<1>3. Shape(b)
  BY <1>1
<1>4. /\ Lookup(b, Hash[name]) \in Nat \cup {Outside}
      /\ Lookup(b, Hash[name]) = Outside => b.n > 0 /\ ~Fits(b.path)
  BY <1>2, <1>3, SearchShape
<1>5. \A x \in Nat : Runtime(x) # Outside
  BY DEF Runtime, Outside, FileAssumption
<1> QED BY <1>1, <1>3, <1>4, <1>5

(* Whatever is on disk behind the magic, whatever callers do to their      *)
(* buffers and however many queries they make: blobs lie inside their      *)
(* files, and no search reads outside the mapping, unless the file ends    *)
(* before the last row its header announces.  Unlike coherence, this needs *)
(* no discipline of the callers or of the indexes.                         *)
THEOREM BlobsStayInside == ASSUME FileAssumption PROVE Spec => []BlobsInside
<1>0. Shape(Null)
  BY DEF Shape, Null
<1>1. Init => BInv
  BY <1>0 DEF Init, BInv, Outside
<1>2. BInv /\ [Next]_vars => BInv'
  <2> SUFFICES ASSUME BInv, [Next]_vars PROVE BInv'
    OBVIOUS
  <2>0. ASSUME UNCHANGED <<str, sm, sf, blob, ans>> PROVE BInv'
    BY <2>0 DEF BInv, Shape, Fits
  <2>1. ASSUME NEW p \in Ptrs, NEW kind \in Kinds, NEW name \in Names, Load(p, kind, name)
        PROVE  BInv'
    <3> DEFINE path == str[p]
               m == Methods(path)
               f == Fields(path)
    <3>1. path \in Paths
      BY DEF BInv
    <3>2. IsIndex(path) /\ str' = str
      BY <2>1 DEF Load
    <3>3. Nm(path) \in Nat /\ Nf(path) \in Nat
      BY <3>1, <3>2, HeaderWords
    <3>4. Shape(m) /\ Shape(f)
      BY <3>1, <3>2, <3>3, BlobShape DEF Shape
    <3>5. sm' = m /\ sf' \in {sf, f}
      BY <2>1 DEF Load
    <3>6. \/ Answered(p, kind, name, m, f, TRUE)
          \/ blob' = Null /\ ans' = 0
      BY <2>1 DEF Load, Refused
    <3> HIDE DEF m, f
    <3>7. PICK b : blob' = b /\ Shape(b) /\ (ans' = Outside => b.n > 0 /\ ~Fits(b.path))
      <4>1. CASE Answered(p, kind, name, m, f, TRUE)
        BY <3>4, <4>1, AnsweredInside
      <4>2. CASE blob' = Null /\ ans' = 0
        BY <1>0, <4>2 DEF Outside
      <4> QED BY <3>6, <4>1, <4>2
    <3>8. PICK x, y : sm' = x /\ sf' = y /\ Shape(x) /\ Shape(y)
      BY <3>4, <3>5 DEF BInv
    <3> QED BY <3>2, <3>7, <3>8 DEF BInv, Shape, Fits
  <2>2. ASSUME NEW p \in Ptrs, NEW kind \in Kinds, NEW name \in Names, CacheHit(p, kind, name)
        PROVE  BInv'
    <3>1. UNCHANGED <<str, sm, sf>> /\ Answered(p, kind, name, sm, sf, FALSE)
      BY <2>2 DEF CacheHit
    <3>2. PICK b : blob' = b /\ Shape(b) /\ (ans' = Outside => b.n > 0 /\ ~Fits(b.path))
      BY <3>1, AnsweredInside DEF BInv
    <3> QED BY <3>1, <3>2 DEF BInv, Shape, Fits
  <2>3. ASSUME NEW p \in Ptrs, NEW kind \in Kinds, NEW name \in Names,
               Unreadable(p, kind, name) \/ BadMagic(p, kind, name)
        PROVE  BInv'
    <3>1. UNCHANGED <<str, sm, sf>> /\ blob' = Null /\ ans' = 0
      BY <2>3 DEF Unreadable, BadMagic, Refused
    <3> QED BY <3>1, <1>0 DEF BInv, Shape, Fits, Outside
  <2>4. CASE Query
    BY <2>1, <2>2, <2>3, <2>4 DEF Query
  <2>5. CASE Rewrite
    <3>1. str' \in [Ptrs -> Paths] /\ UNCHANGED <<sm, sf, blob, ans>>
      BY <2>5 DEF FileAssumption, Rewrite, BInv
    <3> QED BY <3>1 DEF BInv, Shape, Fits
  <2>6. CASE UNCHANGED vars
    BY <2>0, <2>6 DEF vars
  <2> QED BY <2>4, <2>5, <2>6 DEF Next
<1>3. BInv => BlobsInside
  BY ShapeInside DEF BInv, BlobsInside
<1> QED BY <1>1, <1>2, <1>3, PTL DEF Spec

-----------------------------------------------------------------------------
(* Answers *)

(* Every index is sorted where it is whole, as build of il2cpp_index.py    *)
(* leaves it: it drops the second of two equal hashes.                     *)
Ascending(rows) == \A i, j \in 1 .. Len(rows) : i < j => rows[i].hash < rows[j].hash

Sorted ==
  \A path \in Paths : Whole(path) =>
    Ascending(Index[path].methods) /\ Ascending(Index[path].fields)

(* A blob that holds the hashes and rvas of ascending rows answers right. *)
LEMMA RowsAnswer ==
  ASSUME NEW rows \in Seq(Row), Ascending(rows), NEW b, b.n = Len(rows), NEW h \in Nat,
         \A k \in 0 .. b.n - 1 : HashAt(b, k) = rows[k + 1].hash /\ RvaAt(b, k) = rows[k + 1].rva
  PROVE  Says(rows, h, Runtime(Lookup(b, h)))
<1>0. b.n \in Nat
  OBVIOUS
<1>1. \A k \in 0 .. b.n - 1 : k + 1 \in 1 .. Len(rows) /\ rows[k + 1].hash \in Nat
  <2>1. \A i \in 1 .. Len(rows) : rows[i].hash \in Nat
    <3>1. \A i \in 1 .. Len(rows) : rows[i] \in Row
      OBVIOUS
    <3> QED BY <3>1 DEF Row
  <2>2. \A k \in 0 .. b.n - 1 : k + 1 \in 1 .. Len(rows)
    BY <1>0
  <2> QED BY <2>1, <2>2
<1>2. \A k, j \in 0 .. b.n - 1 : k < j => HashAt(b, k) < HashAt(b, j)
  <2> SUFFICES ASSUME NEW k \in 0 .. b.n - 1, NEW j \in 0 .. b.n - 1, k < j
               PROVE  HashAt(b, k) < HashAt(b, j)
    OBVIOUS
  <2>1. k + 1 \in 1 .. Len(rows) /\ j + 1 \in 1 .. Len(rows) /\ k + 1 < j + 1
    BY <1>0, <1>1
  <2>2. rows[k + 1].hash < rows[j + 1].hash
    BY <2>1 DEF Ascending
  <2> QED BY <2>2
<1>3. CASE \E k \in 0 .. b.n - 1 : HashAt(b, k) = h
  <2>1. PICK k0 \in 0 .. b.n - 1 : HashAt(b, k0) = h
    BY <1>3
  <2>2. ASSUME NEW k \in 0 .. b.n - 1
        PROVE  /\ HashAt(b, k) \in Nat
               /\ HashAt(b, k) = h <=> k = k0
               /\ HashAt(b, k) < h <=> k < k0
    <3>1. HashAt(b, k) \in Nat /\ k \in Int /\ k0 \in Int
      BY <1>1, <1>0
    <3>2. k < k0 => HashAt(b, k) < h
      BY <1>2, <2>1
    <3>3. k0 < k => h < HashAt(b, k)
      BY <1>2, <2>1
    <3> QED BY <3>1, <3>2, <3>3, <2>1
  <2>3. OnlyAt(b, h, k0)
    BY <1>0, <2>2 DEF OnlyAt
  <2>4. Lookup(b, h) = Hit(b, k0, 0, b.n - 1)
    BY <2>3, LookupRight
  <2>5. Lookup(b, h) = rows[k0 + 1].rva
    <3>1. 0 <= k0 /\ k0 <= b.n - 1
      BY <1>0
    <3> QED BY <2>4, <3>1 DEF Hit
  <2>6. ASSUME NEW i \in 1 .. Len(rows), rows[i].hash = h PROVE i = k0 + 1
    <3>1. i - 1 \in 0 .. b.n - 1 /\ (i - 1) + 1 = i
      BY <1>0
    <3>2. HashAt(b, i - 1) = h
      BY <2>6, <3>1
    <3> QED BY <2>2, <3>1, <3>2
  <2>7. k0 + 1 \in 1 .. Len(rows) /\ rows[k0 + 1].hash = h
    BY <1>1, <2>1
  <2> QED BY <2>5, <2>6, <2>7 DEF Says
<1>4. CASE ~ \E k \in 0 .. b.n - 1 : HashAt(b, k) = h
  <2>1. OnlyAt(b, h, -1)
    BY <1>0, <1>1, <1>4 DEF OnlyAt
  <2>2. Lookup(b, h) = 0
    <3>1. Lookup(b, h) = Hit(b, -1, 0, b.n - 1)
      BY <2>1, LookupRight
    <3> QED BY <3>1 DEF Hit
  <2>3. ASSUME NEW i \in 1 .. Len(rows) PROVE rows[i].hash # h
    <3>1. i - 1 \in 0 .. b.n - 1 /\ (i - 1) + 1 = i
      BY <1>0
    <3> QED BY <1>4, <3>1
  <2>4. Runtime(0) = 0
    BY DEF Runtime
  <2> QED BY <2>2, <2>3, <2>4 DEF Says
<1> QED BY <1>3, <1>4

(* The words of the file of an index up to place e give a blob the rows    *)
(* that end there.                                                         *)
LEMMA RowAt ==
  ASSUME NEW rows \in Seq(Row), NEW b, b.n = Len(rows), b.at \in Nat,
         NEW k \in 0 .. b.n - 1, NEW e \in Int,
         \A i \in 1 .. 3 * Len(rows) : File(b.path)[b.at + i] = Block(rows)[i],
         \A j \in 1 .. e : WordAt(b.path, j) = File(b.path)[j],
         b.at + 2 * b.n + k + 1 <= e
  PROVE  /\ HashAt(b, k) = rows[k + 1].hash
         /\ RvaAt(b, k) = rows[k + 1].rva
<1> DEFINE n == Len(rows)
           i == b.at + (2 * k + 1)
           j == b.at + (2 * k + 2)
           l == b.at + (2 * n + k + 1)
<1>1. n \in Nat /\ k \in 0 .. n - 1
  OBVIOUS
<1>2. /\ i = b.at + 2 * k + 1 /\ j = b.at + 2 * k + 2 /\ l = b.at + 2 * b.n + k + 1
      /\ i \in 1 .. e /\ j \in 1 .. e /\ l \in 1 .. e
  <2> DEFINE at == b.at
  <2>1. b.n = n /\ at \in Nat /\ k \in Nat /\ k + 1 <= n /\ at + 2 * n + k + 1 <= e
    BY <1>1
  <2> HIDE DEF n, at
  <2>2. /\ at + (2 * k + 1) = at + 2 * k + 1 /\ at + (2 * k + 2) = at + 2 * k + 2
        /\ at + (2 * n + k + 1) = at + 2 * n + k + 1
        /\ at + (2 * k + 1) \in 1 .. e /\ at + (2 * k + 2) \in 1 .. e
        /\ at + (2 * n + k + 1) \in 1 .. e
    BY <1>1, <2>1
  <2> QED BY <2>1, <2>2 DEF at
<1>3. /\ HashAt(b, k) = IF WordAt(b.path, i) = Outside \/ WordAt(b.path, j) = Outside
                          THEN Outside ELSE WordAt(b.path, i) + Word * WordAt(b.path, j)
      /\ RvaAt(b, k) = WordAt(b.path, l)
  BY <1>2 DEF HashAt, RvaAt
<1>4. /\ WordAt(b.path, i) = File(b.path)[i] /\ WordAt(b.path, j) = File(b.path)[j]
      /\ WordAt(b.path, l) = File(b.path)[l]
  <2> HIDE DEF i, j, l
  <2> QED BY <1>2
<1>5. /\ 2 * k + 1 \in 1 .. 3 * n /\ 2 * k + 2 \in 1 .. 3 * n /\ 2 * n + k + 1 \in 1 .. 3 * n
      /\ Block(rows)[2 * k + 1] + Word * Block(rows)[2 * k + 2] = rows[k + 1].hash
      /\ Block(rows)[2 * k + 1] \in Nat /\ Block(rows)[2 * k + 2] \in Nat
      /\ Block(rows)[2 * n + k + 1] = rows[k + 1].rva
  BY <1>1, BlockAt
<1>6. /\ File(b.path)[i] = Block(rows)[2 * k + 1] /\ File(b.path)[j] = Block(rows)[2 * k + 2]
      /\ File(b.path)[l] = Block(rows)[2 * n + k + 1]
  BY <1>5
<1>7. \A x \in Nat : x # Outside
  BY DEF Outside
<1> HIDE DEF i, j, l, n
<1> QED BY <1>3, <1>4, <1>5, <1>6, <1>7

(* Both blobs of an index: their rows, and where the file keeps them.      *)
BlobOf(path, kind) == IF kind = "field" THEN Fields(path) ELSE Methods(path)

(* A file that agrees with its index up to the end of the header, and a    *)
(* count that is positive or zero as an int.                               *)
LEMMA BlobRows ==
  ASSUME FileAssumption, NEW path \in Paths, IsIndex(path), NEW kind \in Kinds,
         Nm(path) = File(path)[2], kind = "field" => Nf(path) = File(path)[3],
         BlobOf(path, kind).n > 0 \/ Len(Rows(path, kind)) < Word \div 2
  PROVE  LET b == BlobOf(path, kind)
             rows == Rows(path, kind) IN
           /\ rows \in Seq(Row) /\ b.n = Len(rows) /\ Shape(b)
           /\ b.n > 0 =>
                /\ b.path = path /\ b.at \in Nat /\ b.at >= 3
                /\ \A i \in 1 .. 3 * Len(rows) : File(path)[b.at + i] = Block(rows)[i]
<1> DEFINE me == Index[path].methods
           fi == Index[path].fields
<1>1. me \in Seq(Row) /\ fi \in Seq(Row)
  BY DEF FileAssumption
<1>2. Nm(path) = Len(me) /\ Len(me) \in Nat /\ Len(fi) \in Nat
  BY FileLayout
<1>3. Nm(path) \in Nat /\ Nf(path) \in Nat
  BY HeaderWords
<1>4. Shape(Methods(path)) /\ Shape(Fields(path))
  BY <1>3, BlobShape DEF Shape
<1>5. CASE kind = "field"
  <2>1. BlobOf(path, kind) = Fields(path) /\ Rows(path, kind) = fi
    BY <1>5 DEF BlobOf, Rows
  <2>2. Nf(path) = Len(fi)
    BY <1>5, FileLayout
  <2>3. Fields(path).n = Len(fi)
    <3>1. CASE Fields(path).n > 0
      BY <2>2, <3>1, BlobShape
    <3>2. CASE Nf(path) < Word \div 2
      BY <2>2, <3>2, BlobShape
    <3> QED BY <2>1, <2>2, <3>1, <3>2
  <2>4. Fields(path).n > 0 => Fields(path).path = path /\ Fields(path).at = 3 + 3 * Len(me)
    <3>1. Fields(path).n > 0 =>
            Fields(path) = [path |-> path, at |-> 3 + 3 * Nm(path), n |-> Nf(path)]
      BY BlobShape
    <3> QED BY <1>2, <3>1
  <2>5. \A i \in 1 .. 3 * Len(fi) : File(path)[3 + 3 * Len(me) + i] = Block(fi)[i]
    BY FileWords
  <2>6. 3 + 3 * Len(me) \in Nat /\ 3 + 3 * Len(me) >= 3
    BY <1>2
  <2> HIDE DEF me, fi
  <2> QED BY <1>1, <1>4, <2>1, <2>3, <2>4, <2>5, <2>6
<1>6. CASE kind = "method"
  <2>1. BlobOf(path, kind) = Methods(path) /\ Rows(path, kind) = me
    BY <1>6 DEF BlobOf, Rows
  <2>2. Methods(path).n = Len(me)
    <3>1. CASE Methods(path).n > 0
      BY <1>2, <3>1, BlobShape
    <3>2. CASE Nm(path) < Word \div 2
      BY <1>2, <3>2, BlobShape
    <3> QED BY <1>2, <2>1, <3>1, <3>2
  <2>3. Methods(path).n > 0 => Methods(path).path = path /\ Methods(path).at = 3
    BY BlobShape
  <2>4. \A i \in 1 .. 3 * Len(me) : File(path)[3 + i] = Block(me)[i]
    BY FileWords
  <2> HIDE DEF me
  <2> QED BY <1>1, <1>4, <2>1, <2>2, <2>3, <2>4
<1> QED BY <1>5, <1>6 DEF Kinds

(* A whole index answers from its rows. *)
LEMMA WholeAnswers ==
  ASSUME FileAssumption, Sorted, NEW path \in Paths, IsIndex(path), Whole(path),
         NEW kind \in Kinds, NEW h \in Nat
  PROVE  Says(Rows(path, kind), h, Runtime(Lookup(BlobOf(path, kind), h)))
<1> DEFINE rows == Rows(path, kind)
           b == BlobOf(path, kind)
           e == Len(Index[path].disk)
<1>1. Index[path].disk = File(path)
  BY DEF Whole
<1> DEFINE nm == Len(Index[path].methods)
           nf == Len(Index[path].fields)
<1>2. e \in Nat /\ e = 3 + 3 * nm + 3 * nf
  BY <1>1, HeaderWords, FileLayout
<1>3. e >= 3 /\ nm \in Nat /\ nf \in Nat
  <2>1. nm \in Nat /\ nf \in Nat
    BY FileLayout
  <2> HIDE DEF e, nm, nf
  <2> QED BY <1>2, <2>1
<1>4. Nm(path) = File(path)[2] /\ Nf(path) = File(path)[3]
  BY <1>1, <1>3, HeaderWords
<1>5. /\ rows \in Seq(Row) /\ b.n = Len(rows) /\ Shape(b)
      /\ b.n > 0 =>
           /\ b.path = path /\ b.at \in Nat /\ b.at >= 3
           /\ \A i \in 1 .. 3 * Len(rows) : File(path)[b.at + i] = Block(rows)[i]
  <2>1. nm < Word \div 2 /\ nf < Word \div 2
    <3>1. e < Word \div 4 /\ Word \in Nat
      BY NamesAssumption DEF FileAssumption
    <3> HIDE DEF e, nm, nf
    <3> QED BY <1>2, <1>3, <3>1
  <2>2. Len(rows) < Word \div 2
    BY <2>1 DEF Rows
  <2> QED BY <1>4, <2>2, BlobRows
<1>6. Ascending(rows)
  BY DEF Sorted, Rows
<1>7. Fits(path)
  <2>1. Nm(path) = nm /\ Nf(path) = nf
    BY <1>4, FileLayout
  <2>2. Fits(path) <=> 3 + 3 * nm + 3 * nf <= e
    BY <2>1 DEF Fits
  <2> HIDE DEF e, nm, nf
  <2> QED BY <1>2, <2>2
<1>8. \A j \in 1 .. e : WordAt(path, j) = File(path)[j]
  BY <1>1 DEF WordAt
<1> HIDE DEF rows, b, e
<1>9. ASSUME NEW k \in 0 .. b.n - 1
      PROVE  HashAt(b, k) = rows[k + 1].hash /\ RvaAt(b, k) = rows[k + 1].rva
  <2>1. b.n \in Nat /\ b.n > 0
    BY <1>5
  <2>2. b.at + 3 * b.n <= e
    <3>1. Inside(b) /\ b.path = path
      BY <1>5, <2>1, ShapeInside
    <3> QED BY <1>7, <2>1, <3>1 DEF Inside, e
  <2>3. b.at + 2 * b.n + k + 1 <= e
    <3> DEFINE at == b.at
               n == b.n
    <3>1. at \in Nat /\ n \in Nat /\ k \in 0 .. n - 1 /\ at + 3 * n <= e /\ e \in Nat
      BY <1>2, <1>5, <2>1, <2>2
    <3> HIDE DEF at, n
    <3>2. at + 2 * n + k + 1 <= e
      BY <3>1
    <3> QED BY <3>2 DEF at, n
  <2>4. e \in Int /\ b.path = path
    BY <1>2, <1>5, <2>1
  <2> QED BY <1>5, <1>8, <2>1, <2>3, <2>4, RowAt
<1>10. Says(rows, h, Runtime(Lookup(b, h)))
  BY <1>5, <1>6, <1>9, RowsAnswer
<1> QED BY <1>10 DEF rows, b

(* One that ends early gives no other name's address. *)
LEMMA CutAnswers ==
  ASSUME FileAssumption, NEW path \in Paths, IsIndex(path), CutShort(path),
         NEW kind \in Kinds, NEW h \in Nat
  PROVE  SaysCut(path, Rows(path, kind), h, Runtime(Lookup(BlobOf(path, kind), h)))
<1> DEFINE d == Index[path].disk
           e == Len(d)
           rows == Rows(path, kind)
           b == BlobOf(path, kind)
           x == Lookup(b, h)
<1>1. e \in Nat /\ e >= 2 /\ Nm(path) = d[2] /\ (e >= 3 => Nf(path) = d[3])
  BY HeaderWords
<1>2. \A k \in 1 .. e : k < e \/ k = 2 => d[k] = File(path)[k]
  BY DEF CutShort
<1>3. Nm(path) = File(path)[2] /\ (e > 3 => Nf(path) = File(path)[3])
  BY <1>1, <1>2
<1>4. Shape(b)
  <2>1. Nm(path) \in Nat /\ Nf(path) \in Nat
    BY HeaderWords
  <2> QED BY <2>1, BlobShape DEF Shape, BlobOf
<1>5. Outcome(b, h, x)
  BY <1>4, SearchShape
<1>6. SUFFICES ASSUME NEW k \in 0 .. b.n - 1, HashAt(b, k) = h, x = RvaAt(b, k)
               PROVE  SaysCut(path, rows, h, Runtime(x))
  BY <1>5 DEF Outcome, SaysCut, Runtime
<1> DEFINE pos == b.at + 2 * b.n + k + 1
<1>7. b.n \in Nat /\ b.n > 0 /\ b.path = path /\ b.at \in Nat /\ b.at >= 3
  <2>1. b.n \in Nat /\ b.n > 0
    BY <1>4, <1>6 DEF Shape
  <2>2. Nm(path) \in Nat /\ Nf(path) \in Nat
    BY HeaderWords
  <2>3. CASE kind = "field"
    <3>1. b = Fields(path)
      BY <2>3 DEF BlobOf
    <3>2. b.path = path /\ b.at = 3 + 3 * Nm(path)
      BY <2>1, <3>1, BlobShape
    <3> QED BY <2>1, <2>2, <3>2
  <2>4. CASE kind # "field"
    <3>1. b = Methods(path)
      BY <2>4 DEF BlobOf
    <3>2. b.path = path /\ b.at = 3
      BY <2>1, <3>1, BlobShape
    <3> QED BY <2>1, <3>2
  <2> QED BY <2>3, <2>4
<1>8. pos \in Nat \ {0} /\ pos > 3 /\ x = WordAt(path, pos)
  BY <1>6, <1>7 DEF RvaAt
<1> HIDE DEF rows, b, x, pos
<1>9. CASE pos > e
  <2>1. x \in {0, Outside}
    BY <1>8, <1>9, WordType
  <2> QED BY <2>1 DEF SaysCut, Runtime
<1>10. CASE pos = e
  <2>1. x = d[e]
    BY <1>8, <1>10, WordType
  <2> QED BY <2>1 DEF SaysCut
<1>11. CASE pos < e
  <2>1. e > 3
    BY <1>1, <1>8, <1>11
  <2>2. /\ rows \in Seq(Row) /\ b.n = Len(rows)
        /\ \A i \in 1 .. 3 * Len(rows) : File(path)[b.at + i] = Block(rows)[i]
    BY <1>3, <1>7, <2>1, BlobRows DEF rows, b
  <2>3. \A j \in 1 .. e - 1 : WordAt(path, j) = File(path)[j]
    <3> HIDE DEF e, d
    <3>1. ASSUME NEW j \in 1 .. e - 1 PROVE WordAt(path, j) = File(path)[j]
      <4>1. j \in 1 .. e /\ j < e /\ j <= e
        BY <1>1
      <4> QED BY <1>2, <4>1 DEF WordAt, d, e
    <3> QED BY <3>1
  <2>4. b.at + 2 * b.n + k + 1 <= e - 1 /\ e - 1 \in Int
    BY <1>1, <1>8, <1>11 DEF pos
  <2>5. HashAt(b, k) = rows[k + 1].hash /\ RvaAt(b, k) = rows[k + 1].rva
    <3> HIDE DEF e, d
    <3> QED BY <1>6, <1>7, <2>2, <2>3, <2>4, RowAt
  <2>6. k + 1 \in 1 .. Len(rows) /\ rows[k + 1].hash = h /\ Runtime(x) = Runtime(rows[k + 1].rva)
    BY <1>6, <1>7, <2>2, <2>5
  <2> QED BY <2>6 DEF SaysCut
<1> QED BY <1>1, <1>8, <1>9, <1>10, <1>11

(* A query answered with the blobs of the file it names satisfies          *)
(* OwnIndex.                                                               *)
LEMMA OwnAnswer ==
  ASSUME FileAssumption, Sorted, str \in [Ptrs -> Paths],
         NEW p \in Ptrs, NEW kind \in Kinds, NEW name \in Names, NEW fresh, IsIndex(str[p]),
         NEW m, m = Methods(str[p]), NEW f, f = Fields(str[p]),
         Answered(p, kind, name, m, f, fresh)
  PROVE  OwnIndex'
<1> DEFINE path == str[p]
           a == Runtime(Lookup(BlobOf(path, kind), Hash[name]))
<1>1. path \in Paths /\ Hash[name] \in Nat
  BY NamesAssumption
<1>2. q'.path = path /\ q'.kind = kind /\ q'.name = name
  BY DEF Answered
<1>3. ans' = a
  BY DEF Answered, BlobOf
<1>4. Whole(path) => Says(Rows(path, kind), Hash[name], a)
  BY <1>1, WholeAnswers
<1>5. CutShort(path) => SaysCut(path, Rows(path, kind), Hash[name], a)
  BY <1>1, CutAnswers
<1>6. OwnIndex' <=>
        (q'.ok =>
           /\ IsIndex(q'.path)
           /\ Whole(q'.path) => Says(Rows(q'.path, q'.kind), Hash[q'.name], ans')
           /\ CutShort(q'.path) =>
                SaysCut(q'.path, Rows(q'.path, q'.kind), Hash[q'.name], ans'))
  BY DEF OwnIndex
<1> HIDE DEF a, path
<1> QED BY <1>2, <1>3, <1>4, <1>5, <1>6 DEF path

(* Every call that maps the file itself answers from it, whatever the      *)
(* callers did to their buffers and whatever was loaded before: of a whole *)
(* index it returns the base plus the rva of the row with the name's hash, *)
(* or 0 without such a row, and of a cut one what SaysCut leaves.          *)
THEOREM FreshAnswers == ASSUME FileAssumption, Sorted PROVE Spec => []FreshLoadsRight
<1> DEFINE FInv == str \in [Ptrs -> Paths] /\ FreshLoadsRight
<1>1. Init => FInv
  BY DEF Init, FreshLoadsRight, NoQuery
<1>2. FInv /\ [Next]_vars => FInv'
  <2> SUFFICES ASSUME FInv, [Next]_vars PROVE FInv'
    OBVIOUS
  <2>1. ASSUME NEW p \in Ptrs, NEW kind \in Kinds, NEW name \in Names, Load(p, kind, name)
        PROVE  FInv'
    <3> DEFINE m == Methods(str[p])
               f == Fields(str[p])
    <3>1. str' = str /\ IsIndex(str[p])
      BY <2>1 DEF Load
    <3>2. Answered(p, kind, name, m, f, TRUE) \/ Refused(p, kind, name, TRUE)
      BY <2>1 DEF Load
    <3>3. CASE Answered(p, kind, name, m, f, TRUE)
      <4> HIDE DEF m, f
      <4>1. OwnIndex'
        BY <3>1, <3>3, OwnAnswer DEF m, f
      <4> QED BY <3>1, <4>1 DEF FreshLoadsRight
    <3>4. CASE Refused(p, kind, name, TRUE)
      <4>1. ~q'.ok
        BY <3>4 DEF Refused
      <4> QED BY <3>1, <4>1 DEF FreshLoadsRight, OwnIndex
    <3> QED BY <3>2, <3>3, <3>4
  <2>2. ASSUME NEW p \in Ptrs, NEW kind \in Kinds, NEW name \in Names, CacheHit(p, kind, name)
        PROVE  FInv'
    <3>1. str' = str /\ ~q'.fresh
      BY <2>2 DEF CacheHit, Answered
    <3> QED BY <3>1 DEF FreshLoadsRight
  <2>3. ASSUME NEW p \in Ptrs, NEW kind \in Kinds, NEW name \in Names,
               Unreadable(p, kind, name) \/ BadMagic(p, kind, name)
        PROVE  FInv'
    <3>1. str' = str /\ ~q'.ok
      BY <2>3 DEF Unreadable, BadMagic, Refused
    <3> QED BY <3>1 DEF FreshLoadsRight, OwnIndex
  <2>4. CASE Query
    BY <2>1, <2>2, <2>3, <2>4 DEF Query
  <2>5. CASE Rewrite
    <3>1. str' \in [Ptrs -> Paths] /\ q' = q /\ ans' = ans
      BY <2>5 DEF FileAssumption, Rewrite
    <3> QED BY <3>1 DEF FreshLoadsRight, OwnIndex
  <2>6. CASE UNCHANGED vars
    BY <2>6 DEF vars, FreshLoadsRight, OwnIndex
  <2> QED BY <2>4, <2>5, <2>6 DEF Next
<1> QED BY <1>1, <1>2, PTL DEF Spec

(* Under the discipline that keeps the cache coherent, every successful    *)
(* call answers from the index it names, also one served from the cache.   *)
THEOREM AnswersAreOwn == ASSUME FileAssumption, Disciplined, Sorted PROVE Spec => []OwnIndex
<1> DEFINE OInv == str \in [Ptrs -> Paths] /\ cached \in Ptrs \cup {NoPtr} /\ OwnIndex
<1>1. Init => OInv
  BY DEF Init, OwnIndex, NoQuery
<1>2. OInv /\ CacheCoherent /\ [Next]_vars => OInv'
  <2> SUFFICES ASSUME OInv, CacheCoherent, [Next]_vars PROVE OInv'
    OBVIOUS
  <2>1. ASSUME NEW p \in Ptrs, NEW kind \in Kinds, NEW name \in Names, Load(p, kind, name)
        PROVE  OInv'
    <3> DEFINE m == Methods(str[p])
               f == Fields(str[p])
    <3>1. str' = str /\ cached' \in {p, cached} /\ IsIndex(str[p])
      BY <2>1 DEF Load
    <3>2. Answered(p, kind, name, m, f, TRUE) \/ Refused(p, kind, name, TRUE)
      BY <2>1 DEF Load
    <3>3. CASE Answered(p, kind, name, m, f, TRUE)
      <4> HIDE DEF m, f
      <4>1. OwnIndex'
        BY <3>1, <3>3, OwnAnswer DEF m, f
      <4> QED BY <3>1, <4>1
    <3>4. CASE Refused(p, kind, name, TRUE)
      <4>1. ~q'.ok
        BY <3>4 DEF Refused
      <4> QED BY <3>1, <4>1 DEF OwnIndex
    <3> QED BY <3>2, <3>3, <3>4
  <2>2. ASSUME NEW p \in Ptrs, NEW kind \in Kinds, NEW name \in Names, CacheHit(p, kind, name)
        PROVE  OInv'
    <3>1. str' = str /\ cached' = cached /\ Answered(p, kind, name, sm, sf, FALSE)
      BY <2>2 DEF CacheHit
    <3>2. Loaded(str[p])
      BY <2>2 DEF CacheHit, IsHit, CacheCoherent
    <3>3. IsIndex(str[p]) /\ sm = Methods(str[p]) /\ sf = Fields(str[p])
      BY <3>2 DEF Loaded
    <3>4. OwnIndex'
      BY <3>1, <3>3, OwnAnswer
    <3> QED BY <3>1, <3>4
  <2>3. ASSUME NEW p \in Ptrs, NEW kind \in Kinds, NEW name \in Names,
               Unreadable(p, kind, name) \/ BadMagic(p, kind, name)
        PROVE  OInv'
    <3>1. str' = str /\ cached' = cached /\ ~q'.ok
      BY <2>3 DEF Unreadable, BadMagic, Refused
    <3> QED BY <3>1 DEF OwnIndex
  <2>4. CASE Query
    BY <2>1, <2>2, <2>3, <2>4 DEF Query
  <2>5. CASE Rewrite
    <3>1. str' \in [Ptrs -> Paths] /\ cached' = cached /\ q' = q /\ ans' = ans
      BY <2>5 DEF FileAssumption, Rewrite
    <3> QED BY <3>1 DEF OwnIndex
  <2>6. CASE UNCHANGED vars
    BY <2>6 DEF vars, OwnIndex
  <2> QED BY <2>4, <2>5, <2>6 DEF Next
<1>3. Spec => []CacheCoherent
  BY CacheIsCoherent
<1> QED BY <1>1, <1>2, <1>3, PTL DEF Spec
=============================================================================
