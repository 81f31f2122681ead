--------------------------- MODULE LxgrDumpProofs ---------------------------
(***************************************************************************)
(* Invariance proofs for the dump engine, for every page size, buffer      *)
(* size, request and every behaviour of the target process.                *)
(***************************************************************************)
EXTENDS LxgrDump, TLAPS

DumpInv == TypeOK /\ Bookkeeping /\ Placed /\ Contained

LEMMA InitInv == Init => DumpInv
<1> SUFFICES ASSUME Init PROVE DumpInv
  OBVIOUS
<1> USE DumpAssumption DEF Init
<1>0. req.off \in Nat /\ req.size \in Nat /\ req.va \in Nat /\ req.off + req.size <= FileCells
  OBVIOUS
<1>1. TypeOK
  BY <1>0 DEF TypeOK, BufIdx, FileIdx
<1>2. Bookkeeping
  BY <1>0 DEF Bookkeeping, InChunk
<1>3. Placed /\ Contained
  BY <1>0 DEF Placed, Contained, FileIdx
<1> QED
  BY <1>1, <1>2, <1>3 DEF DumpInv

(* The types of the three arguments, used by every step below. *)
LEMMA RequestType ==
  ASSUME TypeOK
  PROVE  /\ req.va \in Nat /\ req.size \in Nat /\ req.off \in Nat
         /\ req.off + req.size <= FileCells
         /\ FileCells \in Nat /\ ChunkCells \in Nat \ {0}
BY DumpAssumption DEF TypeOK

(* Writing the first n cells of the filled buffer keeps the file typed,    *)
(* contained and in the right place.                                       *)
LEMMA WrittenLemma ==
  ASSUME DumpInv, pc = "write", NEW n \in 0 .. chunk
  PROVE  /\ Written(n) \in [FileIdx -> Nat \cup {Zero, Junk, Old}]
         /\ \A j \in FileIdx : (j < req.off \/ j >= req.off + req.size) => Written(n)[j] = Old
         /\ \A k \in 0 .. req.size - 1 : Written(n)[req.off + k] \in {Old, Zero, req.va + k}
         /\ \A k \in 0 .. done + n - 1 : Written(n)[req.off + k] # Old
         /\ Filled \in [BufIdx -> Nat \cup {Zero, Junk}]
<1> USE DumpAssumption DEF DumpInv
<1>1. /\ req.va \in Nat /\ req.size \in Nat /\ req.off \in Nat
      /\ req.off + req.size <= FileCells
      /\ FileCells \in Nat /\ ChunkCells \in Nat \ {0}
  BY RequestType
<1>2. /\ done \in Nat /\ chunk \in Nat /\ rdone \in 0 .. chunk /\ chunk <= ChunkCells
      /\ pos = req.off + done /\ done + chunk <= req.size /\ n <= chunk /\ n \in Nat
  BY <1>1 DEF TypeOK, Bookkeeping, InChunk
<1>3. Filled \in [BufIdx -> Nat \cup {Zero, Junk}]
  BY DEF Filled, TypeOK
<1>4. \A i \in 0 .. chunk - 1 : Filled[i] \in {Zero, req.va + done + i}
  <2> TAKE i \in 0 .. chunk - 1
  <2>1. i \in BufIdx
    BY <1>1, <1>2 DEF BufIdx
  <2>2. CASE rdone <= i
    BY <2>1, <2>2, <1>2 DEF Filled
  <2>3. CASE ~(rdone <= i)
    <3>1. i \in 0 .. rdone - 1
      BY <2>3, <1>2
    <3>2. buf[i] = At(i)
      BY <3>1 DEF Bookkeeping, InChunk
    <3> QED BY <2>1, <2>3, <3>2, <1>2 DEF Filled, At
  <2> QED BY <2>2, <2>3
<1>5. \A j \in FileIdx :
        Written(n)[j] = IF pos <= j /\ j < pos + n THEN Filled[j - pos] ELSE file[j]
  BY DEF Written
<1>6. \A j \in FileIdx : pos <= j /\ j < pos + n => j - pos \in 0 .. chunk - 1
  BY <1>1, <1>2 DEF FileIdx
<1>7. Written(n) \in [FileIdx -> Nat \cup {Zero, Junk, Old}]
  <2>1. ASSUME NEW j \in FileIdx
        PROVE  (IF pos <= j /\ j < pos + n THEN Filled[j - pos] ELSE file[j])
                 \in Nat \cup {Zero, Junk, Old}
    <3>1. CASE pos <= j /\ j < pos + n
      BY <3>1, <1>1, <1>2, <1>4, <1>6
    <3>2. CASE ~(pos <= j /\ j < pos + n)
      BY <3>2 DEF TypeOK
    <3> QED BY <3>1, <3>2
  <2> QED BY <2>1 DEF Written
<1>8. \A j \in FileIdx : (j < req.off \/ j >= req.off + req.size) => Written(n)[j] = Old
  BY <1>1, <1>2, <1>5 DEF Contained, FileIdx
<1>9. \A k \in 0 .. req.size - 1 : Written(n)[req.off + k] \in {Old, Zero, req.va + k}
  <2> TAKE k \in 0 .. req.size - 1
  <2>1. req.off + k \in FileIdx
    BY <1>1 DEF FileIdx
  <2>2. CASE pos <= req.off + k /\ req.off + k < pos + n
    <3>1. (req.off + k) - pos = k - done /\ k - done \in 0 .. chunk - 1
      BY <1>1, <1>2, <2>2
    <3>2. req.va + done + (k - done) = req.va + k
      BY <1>1, <1>2
    <3> QED BY <1>4, <1>5, <2>1, <2>2, <3>1, <3>2
  <2>3. CASE ~(pos <= req.off + k /\ req.off + k < pos + n)
    BY <1>5, <2>1, <2>3 DEF Placed
  <2> QED BY <2>2, <2>3
<1>10. \A k \in 0 .. done + n - 1 : Written(n)[req.off + k] # Old
  <2> TAKE k \in 0 .. done + n - 1
  <2>1. req.off + k \in FileIdx
    BY <1>1, <1>2 DEF FileIdx
  <2>2. CASE k < done
    <3>1. k \in 0 .. done - 1 /\ ~(pos <= req.off + k)
      BY <1>1, <1>2, <2>2
    <3> QED BY <1>5, <2>1, <3>1 DEF Bookkeeping
  <2>3. CASE ~(k < done)
    <3>1. (req.off + k) - pos = k - done /\ k - done \in 0 .. chunk - 1
            /\ pos <= req.off + k /\ req.off + k < pos + n
      BY <1>1, <1>2, <2>3
    <3>2. Filled[k - done] \in {Zero, req.va + done + (k - done)}
      BY <1>4, <3>1
    <3>3. req.va + done + (k - done) \in Nat
      BY <1>1, <1>2, <3>1
    <3> QED BY <1>5, <2>1, <3>1, <3>2, <3>3
  <2> QED BY <2>2, <2>3
<1> QED BY <1>3, <1>7, <1>8, <1>9, <1>10

(* Copying n more cells into the buffer keeps it typed and in order. *)
LEMMA CopiedLemma ==
  ASSUME DumpInv, pc \in {"readv", "pread"}, NEW n \in 1 .. chunk - rdone
  PROVE  /\ Copied(n) \in [BufIdx -> Nat \cup {Zero, Junk}]
         /\ \A i \in 0 .. rdone + n - 1 : Copied(n)[i] = At(i)
         /\ rdone + n \in 0 .. chunk
<1> USE DumpAssumption DEF DumpInv
<1>1. req.va \in Nat /\ ChunkCells \in Nat \ {0}
  BY RequestType
<1>2. /\ done \in Nat /\ chunk \in Nat /\ rdone \in 0 .. chunk /\ chunk <= ChunkCells
      /\ n \in Nat /\ rdone + n <= chunk
  BY <1>1, RequestType DEF TypeOK
<1>3. \A i \in BufIdx : At(i) \in Nat
  BY <1>1, <1>2 DEF At, BufIdx
<1>4. Copied(n) \in [BufIdx -> Nat \cup {Zero, Junk}]
  BY <1>3 DEF Copied, TypeOK
<1>5. \A i \in 0 .. rdone + n - 1 : Copied(n)[i] = At(i)
  <2> TAKE i \in 0 .. rdone + n - 1
  <2>1. i \in BufIdx /\ i < rdone + n
    BY <1>1, <1>2 DEF BufIdx
  <2>2. CASE rdone <= i
    BY <2>1, <2>2 DEF Copied
  <2>3. CASE ~(rdone <= i)
    <3>1. i \in 0 .. rdone - 1
      BY <2>3, <1>2
    <3>2. buf[i] = At(i)
      BY <3>1 DEF Bookkeeping, InChunk
    <3> QED BY <2>1, <2>3, <3>2 DEF Copied
  <2> QED BY <2>2, <2>3
<1>6. rdone + n \in 0 .. chunk
  BY <1>2
<1> QED BY <1>4, <1>5, <1>6

LEMMA StepInv == DumpInv /\ [Next]_vars => DumpInv'
<1> SUFFICES ASSUME DumpInv, [Next]_vars PROVE DumpInv'
  OBVIOUS
<1> USE DumpAssumption
<1>0. /\ TypeOK /\ Bookkeeping /\ Placed /\ Contained
      /\ req.va \in Nat /\ req.size \in Nat /\ req.off \in Nat
      /\ req.off + req.size <= FileCells
      /\ FileCells \in Nat /\ ChunkCells \in Nat \ {0}
  BY RequestType DEF DumpInv
<1>1. CASE Malloc
  <2> USE <1>0, <1>1 DEF Malloc, target
  <2>1. TypeOK'
    BY DEF TypeOK, BufIdx, FileIdx
  <2>2. Bookkeeping'
    BY DEF Bookkeeping, InChunk, At, TypeOK
  <2>3. Placed' /\ Contained'
    BY DEF Placed, Contained
  <2> QED BY <2>1, <2>2, <2>3 DEF DumpInv
<1>2. CASE LoopHead
  <2> USE <1>0, <1>2 DEF LoopHead, target
  <2>0. /\ pc' \in {"readv", "done"}
        /\ chunk' \in 0 .. ChunkCells /\ rdone' \in 0 .. chunk'
        /\ ret' \in -1 .. req.size
        /\ UNCHANGED <<vmr, pmr, memFd, lost, env, req, intr, done, pos, total, buf, file>>
    BY DEF TypeOK, Min2
  <2>1. TypeOK'
    BY <2>0 DEF TypeOK, BufIdx, FileIdx
  <2>2. Bookkeeping'
    BY DEF Bookkeeping, InChunk, At, TypeOK, Min2
  <2>3. Placed' /\ Contained'
    BY DEF Placed, Contained
  <2> QED BY <2>1, <2>2, <2>3 DEF DumpInv
<1>3. CASE WriteOk
  <2> USE <1>0, <1>3 DEF WriteOk, target
  <2>0. chunk \in 0 .. chunk /\ chunk \in Nat /\ done \in Nat /\ rdone \in Nat
        /\ done + chunk <= req.size
    BY DEF TypeOK, Bookkeeping, InChunk
  <2>1. /\ file' \in [FileIdx -> Nat \cup {Zero, Junk, Old}]
        /\ \A j \in FileIdx : (j < req.off \/ j >= req.off + req.size) => file'[j] = Old
        /\ \A k \in 0 .. req.size - 1 : file'[req.off + k] \in {Old, Zero, req.va + k}
        /\ \A k \in 0 .. done + chunk - 1 : file'[req.off + k] # Old
        /\ buf' \in [BufIdx -> Nat \cup {Zero, Junk}]
    BY <2>0, WrittenLemma
  <2>5. /\ done' \in 0 .. req.size /\ total' \in 0 .. req.size /\ pos' \in 0 .. FileCells
        /\ pc' = "loop"
        /\ UNCHANGED <<vmr, pmr, memFd, lost, env, req, intr, chunk, rdone, ret>>
    BY <2>0 DEF Bookkeeping
  <2>2. TypeOK'
    BY <2>1, <2>5 DEF TypeOK, BufIdx, FileIdx
  <2>3. Bookkeeping'
    BY <2>0, <2>1 DEF Bookkeeping, InChunk, TypeOK
  <2>4. Placed' /\ Contained'
    BY <2>1 DEF Placed, Contained
  <2> QED BY <2>2, <2>3, <2>4 DEF DumpInv
<1>4. CASE WriteShort
  <2> USE <1>0, <1>4 DEF WriteShort, target
  <2>0. PICK n \in 0 .. chunk - 1 : file' = Written(n)
    OBVIOUS
  <2>1. n \in 0 .. chunk /\ chunk \in Nat /\ done \in Nat /\ n \in Nat
    BY DEF TypeOK
  <2>2. /\ file' \in [FileIdx -> Nat \cup {Zero, Junk, Old}]
        /\ \A j \in FileIdx : (j < req.off \/ j >= req.off + req.size) => file'[j] = Old
        /\ \A k \in 0 .. req.size - 1 : file'[req.off + k] \in {Old, Zero, req.va + k}
        /\ \A k \in 0 .. done + n - 1 : file'[req.off + k] # Old
        /\ buf' \in [BufIdx -> Nat \cup {Zero, Junk}]
    BY <2>0, <2>1, WrittenLemma
  <2>3. TypeOK'
    BY <2>2 DEF TypeOK, BufIdx, FileIdx
  <2>4. Bookkeeping'
    BY <2>1, <2>2 DEF Bookkeeping, InChunk, TypeOK
  <2>5. Placed' /\ Contained'
    BY <2>2 DEF Placed, Contained
  <2> QED BY <2>3, <2>4, <2>5 DEF DumpInv
<1>5. CASE ReadvSome \/ PreadSome
  <2> USE <1>0, <1>5 DEF ReadvSome, PreadSome, target
  <2>0. PICK n \in 1 .. chunk - rdone :
           /\ buf' = Copied(n)
           /\ rdone' = rdone + n
           /\ pc' \in {"write", "readv", "pread"}
    OBVIOUS
  <2>1. pc \in {"readv", "pread"}
    OBVIOUS
  <2>2. /\ buf' \in [BufIdx -> Nat \cup {Zero, Junk}]
        /\ \A i \in 0 .. rdone' - 1 : buf'[i] = At(i)
        /\ rdone' \in 0 .. chunk
    <3>1. /\ Copied(n) \in [BufIdx -> Nat \cup {Zero, Junk}]
          /\ \A i \in 0 .. rdone + n - 1 : Copied(n)[i] = At(i)
          /\ rdone + n \in 0 .. chunk
      BY ONLY DumpInv, <2>1, <2>0, CopiedLemma
    <3>2. buf' = Copied(n) /\ rdone' = rdone + n
      BY <2>0
    <3>3. rdone \in Nat /\ n \in Nat
      BY <2>0 DEF TypeOK
    <3> QED BY <3>1, <3>2, <3>3
  <2>3. UNCHANGED <<vmr, pmr, memFd, lost, env, req, intr, done, pos, total, chunk, file, ret>>
    OBVIOUS
  <2>4. TypeOK'
    BY <2>0, <2>2, <2>3 DEF TypeOK, BufIdx, FileIdx
  <2>5. Bookkeeping'
    BY <2>0, <2>1, <2>2, <2>3 DEF Bookkeeping, InChunk, At
  <2>6. Placed' /\ Contained'
    BY <2>3 DEF Placed, Contained
  <2> QED BY <2>4, <2>5, <2>6 DEF DumpInv
<1>6. CASE ReadvFault \/ OpenMem \/ PreadFault \/ Interrupted
  <2> USE <1>0, <1>6 DEF ReadvFault, OpenMem, PreadFault, Interrupted, target
  <2>0. /\ pc' \in {"readv", "openmem", "pread", "write"}
        /\ intr' \in 0 .. MaxIntr
        /\ UNCHANGED <<vmr, pmr, memFd, lost, env, req, done, pos, total, chunk, rdone,
                       buf, file, ret>>
    BY DEF TypeOK
  <2>1. TypeOK'
    BY <2>0 DEF TypeOK, BufIdx, FileIdx
  <2>2. Bookkeeping'
    BY DEF Bookkeeping, InChunk, At, TypeOK
  <2>3. Placed' /\ Contained'
    BY DEF Placed, Contained
  <2> QED BY <2>1, <2>2, <2>3 DEF DumpInv
<1>7. CASE Target
  <2> USE <1>0, <1>7 DEF Target
  <2>1. /\ vmr' \subseteq Pages /\ pmr' \subseteq Pages /\ lost' \subseteq Pages
        /\ memFd' \in BOOLEAN
    BY DEF TypeOK, Unmap, Protect, Map, Exit
  <2>2. TypeOK'
    BY <2>1 DEF TypeOK, BufIdx, FileIdx
  <2>3. Bookkeeping'
    BY DEF Bookkeeping, InChunk, At, TypeOK
  <2>4. Placed' /\ Contained'
    BY DEF Placed, Contained
  <2> QED BY <2>2, <2>3, <2>4 DEF DumpInv
<1>8. CASE UNCHANGED vars
  <2> USE <1>0, <1>8 DEF vars, target
  <2>1. TypeOK'
    BY DEF TypeOK, BufIdx, FileIdx
  <2>2. Bookkeeping'
    BY DEF Bookkeeping, InChunk, At
  <2>3. Placed' /\ Contained'
    BY DEF Placed, Contained
  <2> QED BY <2>1, <2>2, <2>3 DEF DumpInv
<1> QED
  BY <1>1, <1>2, <1>3, <1>4, <1>5, <1>6, <1>7, <1>8 DEF Next, Tool

(* The engine's loop bookkeeping, and what the file may hold, in every     *)
(* reachable state of lxgr_dump_range.                                     *)
THEOREM DumpInvariant == Spec => []DumpInv
BY InitInv, StepInv, PTL DEF Spec

(* lxgr_dump_range keeps its types: no counter leaves its range and pos    *)
(* stays inside the file.                                                  *)
THEOREM TypeCorrect == Spec => []TypeOK
<1>1. DumpInv => TypeOK
  BY DEF DumpInv
<1> QED BY <1>1, DumpInvariant, PTL

(* No byte of the wrong address, of an earlier chunk or of uninitialised   *)
(* heap reaches the file, and nothing outside the range is written.        *)
THEOREM DumpPlacesBytes == Spec => []RightPlace
<1>1. DumpInv => RightPlace
  BY DEF DumpInv, RightPlace
<1> QED BY <1>1, DumpInvariant, PTL

(* A count returned by lxgr_dump_range is the whole size, with every cell  *)
(* of the range written.                                                   *)
THEOREM DumpComplete == Spec => []Complete
<1>1. DumpInv => Complete
  BY RequestType DEF DumpInv, Bookkeeping, Complete
<1> QED BY <1>1, DumpInvariant, PTL

(* A write of n cells leaves what lies before pos alone. *)
LEMMA WrittenBehind ==
  ASSUME DumpInv, NEW n, NEW k \in 0 .. req.size - 1, k < done
  PROVE  Written(n)[req.off + k] = file[req.off + k]
<1>1. /\ req.size \in Nat /\ req.off \in Nat /\ FileCells \in Nat
      /\ req.off + req.size <= FileCells /\ done \in Nat /\ pos = req.off + done
  BY RequestType DEF DumpInv, TypeOK, Bookkeeping
<1>2. req.off + k \in FileIdx /\ ~(pos <= req.off + k)
  BY <1>1 DEF FileIdx
<1> QED BY <1>2 DEF Written

(* No later chunk of lxgr_dump_range touches what a completed one wrote. *)
THEOREM DumpChunksStay == Spec => ChunksStay
<1>1. DumpInv /\ [Next]_vars =>
        [\A k \in 0 .. req.size - 1 : k < done => file'[req.off + k] = file[req.off + k]]_vars
  <2> SUFFICES ASSUME DumpInv, Next, NEW k \in 0 .. req.size - 1, k < done
               PROVE  file'[req.off + k] = file[req.off + k]
    OBVIOUS
  <2>1. (\E n : file' = Written(n)) \/ file' = file
    BY DEF Next, Tool, Malloc, LoopHead, WriteOk, WriteShort, ReadvSome, ReadvFault, OpenMem,
           PreadSome, PreadFault, Interrupted, Target
  <2> QED BY <2>1, WrittenBehind
<1> QED BY <1>1, DumpInvariant, PTL DEF Spec, ChunksStay

-----------------------------------------------------------------------------
(* Zeros *)

(* Chunks are cut at multiples of the buffer size, and a read that fell    *)
(* short with /proc/<pid>/mem open stopped at a page that was lost.        *)
Whole == \E q \in Nat : done = q * ChunkCells
HoleInv ==
  /\ Pages \ pmr \subseteq lost
  /\ pc \in {"malloc", "loop"} => done = req.size \/ Whole
  /\ InChunk => Whole /\ chunk = Min2(req.size - done, ChunkCells)
  /\ pc = "write" /\ memFd /\ rdone < chunk => ~Kept(At(rdone))
  /\ ZeroOnlyBehindHole

(* The start of the chunk of a cell inside the chunk that begins at done. *)
LEMMA ChunkOf ==
  ASSUME NEW C \in Nat \ {0}, NEW q \in Nat, NEW k \in Nat, q * C <= k, k < q * C + C
  PROVE  (k \div C) * C = q * C
<1> DEFINE d == k \div C
<1>1. d \in Nat /\ d * C <= k /\ k < d * C + C
  OBVIOUS
<1> HIDE DEF d
<1>2. \A a, b \in Nat : a < b => a * C + C <= b * C
  OBVIOUS
<1>3. ~(d < q)
  BY <1>1, <1>2
<1>4. ~(q < d)
  BY <1>1, <1>2
<1>5. d = q
  BY <1>1, <1>3, <1>4
<1> QED BY <1>5 DEF d

(* What no step undoes: a page that was lost counts as lost, and a target  *)
(* that is gone does not come back.                                        *)
LEMMA LostGrows ==
  ASSUME [Next]_vars, TypeOK, HoleInv
  PROVE  /\ lost \subseteq lost' /\ Pages \ pmr' \subseteq lost'
         /\ (memFd' => memFd) /\ req' = req
<1>1. CASE UNCHANGED vars
  BY <1>1 DEF vars, target, HoleInv
<1>2. CASE Tool
  BY <1>2 DEF HoleInv, target, Tool, Malloc, LoopHead, WriteOk, WriteShort, ReadvSome, ReadvFault,
         OpenMem, PreadSome, PreadFault, Interrupted
<1>3. CASE Target
  BY <1>3 DEF HoleInv, Target, TypeOK, Unmap, Protect, Map, Exit
<1> QED BY <1>1, <1>2, <1>3 DEF Next

(* A file that has not changed keeps its reasons. *)
LEMMA ZerosStay ==
  ASSUME HoleInv, lost \subseteq lost', memFd' => memFd, req' = req, file' = file
  PROVE  ZeroOnlyBehindHole'
BY DEF HoleInv, ZeroOnlyBehindHole, Kept

(* A zero that is written lies behind the end of a short read. *)
LEMMA ZerosWritten ==
  ASSUME DumpInv, HoleInv, pc = "write", NEW n \in 0 .. chunk,
         UNCHANGED <<target, req>>, file' = Written(n)
  PROVE  ZeroOnlyBehindHole'
<1>1. /\ req.va \in Nat /\ req.size \in Nat /\ req.off \in Nat
      /\ req.off + req.size <= FileCells
      /\ FileCells \in Nat /\ ChunkCells \in Nat \ {0}
  BY RequestType DEF DumpInv
<1>2. /\ done \in Nat /\ chunk \in Nat /\ rdone \in 0 .. chunk /\ chunk <= ChunkCells
      /\ pos = req.off + done /\ done + chunk <= req.size /\ n <= chunk /\ n \in Nat
  BY <1>1 DEF DumpInv, TypeOK, Bookkeeping, InChunk
<1> SUFFICES ASSUME NEW k \in 0 .. req.size - 1, file'[req.off + k] = Zero, memFd
             PROVE  \E h \in ChunkStart(k) .. k : ~Kept(req.va + h)
  BY DEF ZeroOnlyBehindHole, Kept, target
<1>3. req.off + k \in FileIdx
  BY <1>1 DEF FileIdx
<1>4. \A j \in FileIdx :
        Written(n)[j] = IF pos <= j /\ j < pos + n THEN Filled[j - pos] ELSE file[j]
  BY DEF Written
<1>5. CASE ~(pos <= req.off + k /\ req.off + k < pos + n)
  <2>1. file[req.off + k] = Zero
    BY <1>3, <1>4, <1>5
  <2> QED BY <2>1 DEF HoleInv, ZeroOnlyBehindHole
<1>6. CASE pos <= req.off + k /\ req.off + k < pos + n
  <2> DEFINE i == k - done
  <2>1. req.off + k - pos = i /\ i \in 0 .. chunk - 1 /\ i \in BufIdx /\ done + i = k
    BY <1>1, <1>2, <1>6 DEF BufIdx
  <2>2. Filled[i] = Zero
    <3>1. \A j \in FileIdx : pos <= j /\ j < pos + n => Written(n)[j] = Filled[j - pos]
      BY <1>4
    <3>2. PICK j \in FileIdx : j = req.off + k
      BY <1>3
    <3>3. pos <= j /\ j < pos + n
      BY <1>6, <3>2
    <3>4. Written(n)[j] = Filled[j - pos]
      BY <3>1, <3>3
    <3>5. j - pos = i
      BY <1>1, <1>2, <3>2
    <3>6. file'[j] = Zero
      BY <3>2
    <3> HIDE DEF i
    <3> QED BY <3>4, <3>5, <3>6
  <2>3. rdone <= i
    <3> SUFFICES ASSUME ~(rdone <= i) PROVE FALSE
      OBVIOUS
    <3>1. i \in 0 .. rdone - 1
      BY <1>2, <2>1
    <3>2. buf[i] = At(i)
      BY <3>1 DEF DumpInv, Bookkeeping, InChunk
    <3>3. At(i) \in Nat
      BY <1>1, <1>2, <2>1 DEF At
    <3>4. Filled[i] = buf[i]
      BY <2>1 DEF Filled
    <3> QED BY <2>2, <3>2, <3>3, <3>4, DumpAssumption
  <2>4. rdone < chunk
    BY <1>2, <2>1, <2>3
  <2>5. ~Kept(At(rdone))
    BY <2>4 DEF HoleInv
  <2>6. ChunkStart(k) = done
    <3>1. PICK q \in Nat : done = q * ChunkCells
      BY DEF HoleInv, InChunk, Whole
    <3>2. k \in Nat /\ q * ChunkCells <= k /\ k < q * ChunkCells + ChunkCells
      BY <1>1, <1>2, <2>1, <3>1
    <3>3. (k \div ChunkCells) * ChunkCells = q * ChunkCells
      BY <1>1, <3>2, ChunkOf
    <3> QED BY <3>1, <3>3 DEF ChunkStart
  <2>7. done + rdone \in ChunkStart(k) .. k /\ At(rdone) = req.va + (done + rdone)
    BY <1>1, <1>2, <2>1, <2>3, <2>6 DEF At
  <2> QED BY <2>5, <2>7
<1> QED BY <1>5, <1>6

(* Every step of the call and of the target preserves it. *)
LEMMA HoleStep == DumpInv /\ HoleInv /\ [Next]_vars => HoleInv'
<1> SUFFICES ASSUME DumpInv, HoleInv, [Next]_vars PROVE HoleInv'
  OBVIOUS
<1>0. /\ req.va \in Nat /\ req.size \in Nat /\ req.off \in Nat /\ ChunkCells \in Nat \ {0}
      /\ done \in 0 .. req.size /\ chunk \in Nat /\ rdone \in 0 .. chunk
  BY RequestType DEF DumpInv, TypeOK
<1>1. /\ lost \subseteq lost' /\ Pages \ pmr' \subseteq lost'
      /\ (memFd' => memFd) /\ req' = req
  BY LostGrows DEF DumpInv
<1>2. CASE Malloc
  <2>1. ZeroOnlyBehindHole'
    BY <1>1, <1>2, ZerosStay DEF Malloc
  <2> QED BY <1>1, <1>2, <2>1 DEF HoleInv, Malloc, InChunk, Whole
<1>3. CASE LoopHead
  <2>1. ZeroOnlyBehindHole'
    BY <1>1, <1>3, ZerosStay DEF LoopHead
  <2>2. CASE done < req.size
    BY <1>0, <1>1, <1>3, <2>1, <2>2 DEF HoleInv, LoopHead, InChunk, Whole
  <2>3. CASE ~(done < req.size)
    BY <1>0, <1>1, <1>3, <2>1, <2>3 DEF HoleInv, LoopHead, InChunk, Whole
  <2> QED BY <2>2, <2>3
<1>4. CASE WriteOk
  <2>1. ZeroOnlyBehindHole'
    <3>1. chunk \in 0 .. chunk /\ pc = "write" /\ file' = Written(chunk) /\ UNCHANGED <<target, req>>
      BY <1>0, <1>4 DEF WriteOk
    <3> QED BY <3>1, ZerosWritten
  <2>2. done' = req.size \/ Whole'
    <3>1. PICK q \in Nat : done = q * ChunkCells
      BY <1>4 DEF HoleInv, WriteOk, InChunk, Whole
    <3>2. chunk = req.size - done \/ chunk = ChunkCells
      BY <1>4 DEF HoleInv, WriteOk, InChunk, Min2
    <3>3. CASE chunk = ChunkCells
      <4>1. done' = (q + 1) * ChunkCells
        BY <1>0, <1>4, <3>1, <3>3 DEF WriteOk
      <4> QED BY <4>1 DEF Whole
    <3>4. CASE chunk = req.size - done
      BY <1>0, <1>4, <3>4 DEF WriteOk
    <3> QED BY <3>2, <3>3, <3>4
  <2> QED BY <1>1, <1>4, <2>1, <2>2 DEF HoleInv, WriteOk, InChunk
<1>5. CASE WriteShort
  <2>1. ZeroOnlyBehindHole'
    <3>1. PICK n \in 0 .. chunk - 1 : file' = Written(n)
      BY <1>5 DEF WriteShort
    <3>2. n \in 0 .. chunk /\ pc = "write" /\ UNCHANGED <<target, req>>
      BY <1>0, <1>5 DEF WriteShort
    <3> QED BY <3>1, <3>2, ZerosWritten
  <2> QED BY <1>1, <1>5, <2>1 DEF HoleInv, WriteShort, InChunk
<1>6. CASE ReadvSome \/ PreadSome
  <2>1. ZeroOnlyBehindHole'
    BY <1>1, <1>6, ZerosStay DEF ReadvSome, PreadSome
  <2>2. /\ pc' \in {"readv", "pread", "write"} /\ InChunk
        /\ UNCHANGED <<req, done, chunk>>
        /\ pc' = "write" => rdone' = chunk'
    BY <1>6 DEF ReadvSome, PreadSome, InChunk
  <2> QED BY <1>0, <1>1, <2>1, <2>2 DEF HoleInv, InChunk, Whole
<1>7. CASE ReadvFault \/ OpenMem \/ PreadFault
  <2>1. ZeroOnlyBehindHole'
    BY <1>1, <1>7, ZerosStay DEF ReadvFault, OpenMem, PreadFault
  <2>2. /\ pc' \in {"openmem", "pread", "write"} /\ InChunk
        /\ UNCHANGED <<req, done, chunk, rdone, lost, memFd>>
    BY <1>7 DEF ReadvFault, OpenMem, PreadFault, InChunk, target
  <2>3. pc' = "write" /\ memFd => ~Kept(At(rdone))
    <3>1. CASE PreadFault
      <4>1. ~(Page(At(rdone)) \in pmr)
        BY <1>0, <3>1 DEF PreadFault, Readable
      <4> QED BY <4>1 DEF Kept, HoleInv
    <3>2. CASE ReadvFault \/ OpenMem
      BY <3>2 DEF ReadvFault, OpenMem
    <3> QED BY <1>7, <3>1, <3>2
  <2> QED BY <1>0, <1>1, <2>1, <2>2, <2>3 DEF HoleInv, InChunk, Whole, Kept, At
<1>8. CASE Interrupted \/ Target \/ UNCHANGED vars
  <2>1. UNCHANGED <<req, pc, done, chunk, rdone, file>>
    BY <1>8 DEF Interrupted, Target, vars
  <2>2. ZeroOnlyBehindHole'
    BY <1>1, <2>1, ZerosStay
  <2> QED BY <1>1, <2>1, <2>2 DEF HoleInv, InChunk, Whole, Kept, At
<1> QED
  BY <1>2, <1>3, <1>4, <1>5, <1>6, <1>7, <1>8 DEF Next, Tool

(* Every zero of the file has its reason: with /proc/<pid>/mem open, a     *)
(* page of the same chunk, at or before it, was unmapped during the call.  *)
THEOREM ZerosHaveReason == Spec => []ZeroOnlyBehindHole
<1>1. Init => HoleInv
  <2> SUFFICES ASSUME Init PROVE HoleInv
    OBVIOUS
  <2>1. Whole
    <3>1. 0 = 0 * ChunkCells
      BY DumpAssumption
    <3> QED BY <3>1 DEF Init, Whole
  <2>2. ZeroOnlyBehindHole
    <3>1. \A k \in 0 .. req.size - 1 : req.off + k \in FileIdx
      BY DumpAssumption DEF Init, FileIdx
    <3> QED BY <3>1, DumpAssumption DEF Init, ZeroOnlyBehindHole
  <2> QED BY <2>1, <2>2 DEF Init, HoleInv, InChunk
<1>2. HoleInv => ZeroOnlyBehindHole
  BY DEF HoleInv
<1> QED BY <1>1, <1>2, HoleStep, DumpInvariant, PTL DEF Spec
=============================================================================
