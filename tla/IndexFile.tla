----------------------------- MODULE IndexFile -----------------------------
(***************************************************************************)
(* The file-backed index of lxgr_il2cpp.c in one long-lived process:       *)
(* lxgr_il2cpp_method_file and lxgr_il2cpp_field_file, with the static     *)
(* blobs and the static path pointer of ensure_loaded.                     *)
(*                                                                         *)
(* A file is a sequence of 4-byte words.  An index should be laid out as   *)
(* emit_bin of il2cpp_index.py writes it, a hash in two words and an rva   *)
(* in one; but ensure_loaded takes any file that begins with the magic,    *)
(* also one that a killed writer left short, and compares the counts in    *)
(* its header with nothing.  A blob is what struct index_blob is, a place  *)
(* in a mapped file and a count, and is read at every query.               *)
(***************************************************************************)
EXTENDS IndexNames

CONSTANTS
  Paths,       \* file names
  Index,       \* what is on disk under each name, and what should be
  Ptrs,        \* the char* values callers pass
  Magic,       \* "LX2I" as a word
  PageWords,   \* words on a page: 1024
  Base,        \* il2cpp_base
  Rewritable,  \* pointers whose characters the caller changes between calls
  Careful,     \* whether it spares the one the library remembers
  MaxQueries,  \* bound: calls in one process
  NoPtr, NoPath

Row == [hash : Nat, rva : 0 .. Word - 1]

(* What the constants are assumed to be.  disk is any file: the last word  *)
(* may be a part of one, filled up with zeros as the mapping is, and a     *)
(* file that cannot be opened or has fewer than 8 bytes has no words.  A   *)
(* file has less than 4 GiB: then lookup, before lo + hi could overflow,   *)
(* would have read a hash behind the mapping.                              *)
FileAssumption ==
  /\ Index \in [Paths -> [disk : Seq(0 .. Word - 1), methods : Seq(Row), fields : Seq(Row)]]
  /\ \A path \in Paths :
       LET d == Index[path].disk IN
         Len(d) # 1 /\ Len(d) < Word \div 4
  /\ Magic \in 0 .. Word - 1 /\ PageWords \in Nat /\ PageWords >= 3
  /\ Base \in Nat \ {0}
  /\ Rewritable \subseteq Ptrs
  /\ Careful \in BOOLEAN
  /\ MaxQueries \in Nat
  /\ NoPtr \notin Ptrs /\ NoPath \notin Paths

VARIABLES
  str,     \* the characters each pointer points to
  cached,  \* ensure_loaded: cached
  sm, sf,  \* ensure_loaded: sm, sf
  maps,    \* mappings made and never unmapped
  q,       \* the last query: its arguments, whether it mapped the file (fresh)
           \* and whether ensure_loaded succeeded (ok)
  blob,    \* the blob it searched
  ans      \* what it returned, or Outside

vars == <<str, cached, sm, sf, maps, q, blob, ans>>

-----------------------------------------------------------------------------
(* emit_bin and the header written by main of il2cpp_index.py: what the    *)
(* file of an index should hold.                                           *)

Block(rows) ==
  [k \in 1 .. 3 * Len(rows) |->
     IF k > 2 * Len(rows) THEN rows[k - 2 * Len(rows)].rva
     ELSE IF k % 2 = 1 THEN rows[(k + 1) \div 2].hash % Word
     ELSE rows[k \div 2].hash \div Word]

File(path) ==
  LET x == Index[path] IN
    <<Magic, Len(x.methods), Len(x.fields)>> \o Block(x.methods) \o Block(x.fields)

(* The file is the index it should be, or a beginning of it; of the word   *)
(* at the end a part may be left, but not of the second, by the 8 bytes.   *)
Whole(path) == Index[path].disk = File(path)
CutShort(path) ==
  LET d == Index[path].disk IN
    /\ Len(d) <= Len(File(path))
    /\ \A k \in 1 .. Len(d) : k < Len(d) \/ k = 2 => d[k] = File(path)[k]

(* A word of the mapping: the rest of the file's last page reads as zeros; *)
(* a read behind that page gives a signal or whatever is mapped there.     *)
Outside == -1

MappedWords(path) ==
  PageWords * ((Len(Index[path].disk) + PageWords - 1) \div PageWords)

WordAt(path, k) ==
  IF k <= Len(Index[path].disk) THEN Index[path].disk[k]
  ELSE IF k <= MappedWords(path) THEN 0 ELSE Outside

Null == [path |-> NoPath, at |-> 0, n |-> 0]

(* ensure_loaded: st_size, the magic, nm and nf *)
Mappable(path) == Len(Index[path].disk) >= 2
IsIndex(path) == Mappable(path) /\ WordAt(path, 1) = Magic
Nm(path) == WordAt(path, 2)
Nf(path) == WordAt(path, 3)

(* Mutant: the second block is looked for behind the hashes of the first. *)
FieldsAtBehindHashes(path) == 3 + 2 * Nm(path)

(* Mutant: p is advanced by the byte count on a pointer to words. *)
FieldsAtWordPointer(path) == 3 + 12 * Nm(path)

MethodsAt(path) == 3

FieldsAt(path) == 3 + 3 * Nm(path)

(* load_block.  The count becomes an int: from 2^31 on it is negative, and *)
(* lookup then makes no probe, as for an empty blob.                       *)
AsInt(count) == IF count < Word \div 2 THEN count ELSE 0

LoadBlock(path, at, count) ==
  IF count > 0 THEN [path |-> path, at |-> at, n |-> AsInt(count)] ELSE Null

Methods(path) == LoadBlock(path, MethodsAt(path), Nm(path))
Fields(path) == LoadBlock(path, FieldsAt(path), Nf(path))

HashAt(b, k) ==
  LET low == WordAt(b.path, b.at + 2 * k + 1)
      high == WordAt(b.path, b.at + 2 * k + 2) IN
    IF low = Outside \/ high = Outside THEN Outside ELSE low + Word * high
RvaAt(b, k) == WordAt(b.path, b.at + 2 * b.n + k + 1)

(* lookup, as a recursive function of the interval <<lo, hi>> *)
Lookup(b, h) ==
  LET search[r \in (0 .. b.n) \X (-1 .. b.n - 1)] ==
        LET lo == r[1]
            hi == r[2]
            mid == (lo + hi) \div 2 IN
          IF lo > hi THEN 0
          ELSE IF HashAt(b, mid) = Outside THEN Outside
          ELSE IF HashAt(b, mid) < h THEN search[<<mid + 1, hi>>]
          ELSE IF HashAt(b, mid) > h THEN search[<<lo, mid - 1>>]
          ELSE RvaAt(b, mid)
  IN  search[<<0, b.n - 1>>]

Runtime(rva) == IF rva \in {0, Outside} THEN rva ELSE Base + rva

-----------------------------------------------------------------------------
NoQuery == [path |-> NoPath, kind |-> "method", name |-> NoPath, ok |-> FALSE,
            fresh |-> FALSE, calls |-> 0]

Init ==
  /\ str \in [Ptrs -> Paths]
  /\ cached = NoPtr
  /\ sm = Null /\ sf = Null
  /\ maps = 0
  /\ q = NoQuery
  /\ blob = Null /\ ans = 0

Kinds == {"method", "field"}

(* Mutant: a process that has loaded an index never looks at another. *)
IsHitAny(p) == cached # NoPtr

IsHit(p) == cached # NoPtr /\ str[cached] = str[p]

(* The end of lxgr_il2cpp_method_file / _field_file when ensure_loaded     *)
(* succeeded with blobs m and f.                                           *)
Answered(p, kind, name, m, f, fresh) ==
  /\ blob' = IF kind = "field" THEN f ELSE m
  /\ ans' = Runtime(Lookup(blob', Hash[name]))
  /\ q' = [path |-> str[p], kind |-> kind, name |-> name, ok |-> TRUE,
           fresh |-> fresh, calls |-> q.calls + 1]

(* ... and when it failed. *)
Refused(p, kind, name, fresh) ==
  /\ blob' = Null /\ ans' = 0
  /\ q' = [path |-> str[p], kind |-> kind, name |-> name, ok |-> FALSE,
           fresh |-> fresh, calls |-> q.calls + 1]

CacheHit(p, kind, name) ==
  /\ IsHit(p)
  /\ Answered(p, kind, name, sm, sf, FALSE)
  /\ UNCHANGED <<str, cached, sm, sf, maps>>

(* open, fstat or mmap failed, or the file has fewer than 8 bytes: the     *)
(* only outcome for a missing or a short file, a possible one for any.     *)
Unreadable(p, kind, name) ==
  /\ ~IsHit(p)
  /\ Refused(p, kind, name, FALSE)
  /\ UNCHANGED <<str, cached, sm, sf, maps>>

(* Mutant: the path is remembered before the file is known to be an index. *)
BadMagicCached(p, kind, name) ==
  /\ ~IsHit(p)
  /\ Mappable(str[p]) /\ ~IsIndex(str[p])
  /\ maps' = maps + 1
  /\ Refused(p, kind, name, TRUE)
  /\ cached' = p
  /\ UNCHANGED <<str, sm, sf>>

BadMagic(p, kind, name) ==
  /\ ~IsHit(p)
  /\ Mappable(str[p]) /\ ~IsIndex(str[p])
  /\ maps' = maps + 1
  /\ Refused(p, kind, name, TRUE)
  /\ UNCHANGED <<str, cached, sm, sf>>

(* Mutant: one mapping for each block. *)
LoadTwoMaps(p, kind, name) ==
  LET path == str[p]
      m == Methods(path)
      f == Fields(path)
  IN  /\ ~IsHit(p)
      /\ IsIndex(path)
      /\ maps' = maps + 2
      /\ sm' = m /\ sf' = f
      /\ cached' = p
      /\ Answered(p, kind, name, m, f, TRUE)
      /\ str' = str

(* A mapped file with the magic: both blocks are loaded into the statics,  *)
(* the second only if the first is not empty, and the path is remembered   *)
(* only if neither is.                                                     *)
Load(p, kind, name) ==
  LET path == str[p]
      m == Methods(path)
      f == Fields(path)
  IN  /\ ~IsHit(p)
      /\ IsIndex(path)
      /\ maps' = maps + 1
      /\ sm' = m
      /\ sf' = IF m = Null THEN sf ELSE f
      /\ \/ /\ m # Null /\ f # Null
            /\ cached' = p
            /\ Answered(p, kind, name, m, f, TRUE)
         \/ /\ m = Null \/ f = Null
            /\ cached' = cached
            /\ Refused(p, kind, name, TRUE)
      /\ str' = str

Query ==
  /\ q.calls < MaxQueries
  /\ \E p \in Ptrs, kind \in Kinds, name \in Names :
       \/ CacheHit(p, kind, name) \/ Unreadable(p, kind, name)
       \/ BadMagic(p, kind, name) \/ Load(p, kind, name)

(* A caller that keeps its path in a buffer puts another path into it. *)
Rewrite ==
  /\ q.calls < MaxQueries
  /\ \E p \in Rewritable, path \in Paths :
       /\ Careful => p # cached
       /\ path # str[p]
       /\ str' = [str EXCEPT ![p] = path]
  /\ UNCHANGED <<cached, sm, sf, maps, q, blob, ans>>

Next == Query \/ Rewrite

Spec == Init /\ [][Next]_vars

-----------------------------------------------------------------------------
(* Properties *)

Blobs == [path : Paths \cup {NoPath}, at : Nat, n : Nat]

(* The statics, the caller's strings and the bookkeeping of a query have   *)
(* their types; in particular cached is NULL or one of the pointers        *)
(* passed in, and there are no more mappings than calls.                   *)
TypeOK ==
  /\ str \in [Ptrs -> Paths]
  /\ cached \in Ptrs \cup {NoPtr}
  /\ sm \in Blobs /\ sf \in Blobs /\ blob \in Blobs
  /\ q.calls \in 0 .. MaxQueries /\ maps \in 0 .. q.calls
  /\ q.ok \in BOOLEAN

(* Both blocks of a file, as ensure_loaded finds them. *)
Loaded(path) ==
  /\ IsIndex(path)
  /\ sm = Methods(path) /\ sf = Fields(path)

(* The remembered path names the file the statics were loaded from,        *)
(* whatever files were asked for, with or without success, since.          *)
CacheCoherent == cached # NoPtr => Loaded(str[cached])

Rows(path, kind) == IF kind = "field" THEN Index[path].fields ELSE Index[path].methods

(* What an index says of a hash: base plus rva of a row that has it, or 0  *)
(* if none does.                                                           *)
Says(rows, h, a) ==
  /\ \A k \in 1 .. Len(rows) : rows[k].hash = h => a = Runtime(rows[k].rva)
  /\ (\A k \in 1 .. Len(rows) : rows[k].hash # h) => a = 0

(* What is left of that when the file ends early: nothing, a read outside  *)
(* the mapping, a row's own address all the same, or one made of the word  *)
(* at the end.                                                             *)
SaysCut(path, rows, h, a) ==
  \/ a \in {0, Outside, Runtime(Index[path].disk[Len(Index[path].disk)])}
  \/ \E k \in 1 .. Len(rows) : rows[k].hash = h /\ a = Runtime(rows[k].rva)

(* A query that got as far as searching returns what the named index says  *)
(* about the name: "Returns runtime address (il2cpp_base + RVA) or 0" of   *)
(* lxgr_il2cpp.h.  Even a cut index, which is searched all the same, never *)
(* gives the address of another name, but perhaps a cut one.               *)
OwnIndex ==
  q.ok =>
    /\ IsIndex(q.path)
    /\ Whole(q.path) => Says(Rows(q.path, q.kind), Hash[q.name], ans)
    /\ CutShort(q.path) => SaysCut(q.path, Rows(q.path, q.kind), Hash[q.name], ans)

(* lookup probes the mapped memory without a bounds check, and             *)
(* ensure_loaded does not look for the end of the file.  Whatever is on    *)
(* disk and whatever the caller does to its buffers, a blob reaches behind *)
(* its file, and a search outside the mapping, only if that file ends      *)
(* before the last row its own header announces.                           *)
Fits(path) == 3 + 3 * Nm(path) + 3 * Nf(path) <= Len(Index[path].disk)
Inside(b) ==
  b.n > 0 => /\ b.path \in Paths
             /\ Fits(b.path) => b.at + 3 * b.n <= Len(Index[b.path].disk)
BlobsInside ==
  /\ Inside(sm) /\ Inside(sf) /\ Inside(blob)
  /\ ans = Outside => blob.n > 0 /\ ~Fits(blob.path)

(* A call that maps the file itself answers from that file, whatever       *)
(* happened before.                                                        *)
FreshLoadsRight == q.fresh => OwnIndex

=============================================================================
