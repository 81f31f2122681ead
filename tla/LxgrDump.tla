------------------------------ MODULE LxgrDump ------------------------------
(***************************************************************************)
(* The dump engine of lxgr_dump.c: lxgr_read (process_vm_readv with a      *)
(* /proc/<pid>/mem fallback) called chunk by chunk from lxgr_dump_range,   *)
(* while the target process maps, unmaps and protects its own pages.       *)
(*                                                                         *)
(* Addresses and file offsets are counted in cells; PageCells cells make   *)
(* a page and ChunkCells cells make the 64 KiB transfer buffer.  What a    *)
(* buffer or file cell holds is abstracted to where it came from: the      *)
(* target address it was read at, or one of Zero (written by memset or     *)
(* memcpy), Junk (never written since malloc) and Old (in the file before  *)
(* the call).                                                              *)
(***************************************************************************)
EXTENDS Naturals, Integers

CONSTANTS
  PageCells,   \* cells per target page
  ChunkCells,  \* cells per transfer buffer (65536 bytes in the code)
  Pages,       \* the page numbers of the target that are ever mapped
  Requests,    \* the (va, size, off) arguments lxgr_dump_range is called with
  FileCells,   \* length of the output file (ftruncate in the callers)
  MaxIntr,     \* bound: EINTR / EAGAIN answers in one call
  MaxEnv,      \* bound: changes of the target's mappings during one call
  Zero, Junk, Old

ASSUME DumpAssumption ==
  /\ PageCells \in Nat \ {0}
  /\ ChunkCells \in Nat \ {0}
  /\ Pages \subseteq Nat
  /\ FileCells \in Nat
  /\ MaxIntr \in Nat /\ MaxEnv \in Nat
  /\ Requests \subseteq [va : Nat, size : Nat, off : Nat]
  /\ \A r \in Requests : r.off + r.size <= FileCells
  /\ Zero \notin Nat /\ Junk \notin Nat /\ Old \notin Nat
  /\ Zero # Junk /\ Zero # Old /\ Junk # Old

VARIABLES
  vmr,     \* pages process_vm_readv can read
  pmr,     \* pages a pread of /proc/<pid>/mem can read
  memFd,   \* whether open("/proc/<pid>/mem") succeeds
  lost,    \* history: pages that were outside pmr at some time of the call
  env,     \* mapping changes so far
  req,     \* the arguments of this call
  pc,      \* control point
  intr,    \* interrupted system calls so far
  done,    \* lxgr_dump_range: done
  pos,     \* lxgr_dump_range: pos
  total,   \* lxgr_dump_range: total
  chunk,   \* lxgr_dump_range: chunk of the current iteration
  rdone,   \* lxgr_read: done
  buf,     \* the malloc'ed transfer buffer
  file,    \* the output file
  ret      \* the value lxgr_dump_range returned

target == <<vmr, pmr, memFd, lost, env>>
vars == <<target, req, pc, intr, done, pos, total, chunk, rdone, buf, file, ret>>

BufIdx == 0 .. ChunkCells - 1
FileIdx == 0 .. FileCells - 1
Page(a) == a \div PageCells
Min2(a, b) == IF a <= b THEN a ELSE b

Init ==
  /\ pmr \in SUBSET Pages
  /\ vmr \in SUBSET pmr
  /\ memFd \in BOOLEAN
  /\ lost = Pages \ pmr
  /\ env = 0
  /\ req \in Requests
  /\ pc = "malloc"
  /\ intr = 0
  /\ done = 0 /\ pos = req.off /\ total = 0
  /\ chunk = 0 /\ rdone = 0
  /\ buf = [i \in BufIdx |-> Junk]
  /\ file = [i \in FileIdx |-> Old]
  /\ ret = -1

-----------------------------------------------------------------------------
(* lxgr_dump_range *)

Malloc ==
  /\ pc = "malloc"
  /\ \/ pc' = "loop"
     \/ pc' = "done"                             \* malloc failed: return -1
  /\ UNCHANGED <<target, req, intr, done, pos, total, chunk, rdone, buf, file, ret>>

(* Mutant: the last chunk is not cut down to the cells that are left. *)
LoopHeadNoClamp ==
  /\ pc = "loop"
  /\ done < req.size
  /\ pc' = "readv"
  /\ chunk' = ChunkCells
  /\ rdone' = 0
  /\ UNCHANGED <<target, req, intr, done, pos, total, buf, file, ret>>

LoopHead ==
  /\ pc = "loop"
  /\ \/ /\ done < req.size
        /\ pc' = "readv"
        /\ chunk' = Min2(req.size - done, ChunkCells)
        /\ rdone' = 0
        /\ ret' = ret
     \/ /\ done >= req.size
        /\ pc' = "done"
        /\ ret' = total
        /\ UNCHANGED <<chunk, rdone>>
  /\ UNCHANGED <<target, req, intr, done, pos, total, buf, file>>

(* Mutant: a short read is written without the memset of its tail. *)
FilledShort == buf

(* The cells of the buffer after the zero fill of what lxgr_read did not   *)
(* deliver: all of them when it returned -1, the tail when it was short.   *)
Filled == [i \in BufIdx |-> IF rdone <= i /\ i < chunk THEN Zero ELSE buf[i]]

(* The file after n cells of the filled buffer were written at pos. *)
Written(n) == [j \in FileIdx |-> IF pos <= j /\ j < pos + n THEN Filled[j - pos] ELSE file[j]]

(* Mutant: pos is not advanced with done. *)
WriteOkSamePos ==
  /\ pc = "write"
  /\ buf' = Filled
  /\ file' = Written(chunk)
  /\ done' = done + chunk
  /\ total' = total + chunk
  /\ pc' = "loop"
  /\ UNCHANGED <<target, req, intr, pos, chunk, rdone, ret>>

WriteOk ==
  /\ pc = "write"
  /\ buf' = Filled
  /\ file' = Written(chunk)
  /\ done' = done + chunk
  /\ pos' = pos + chunk
  /\ total' = total + chunk
  /\ pc' = "loop"
  /\ UNCHANGED <<target, req, intr, chunk, rdone, ret>>

(* Mutant: a short pwrite is taken for a full one. *)
WriteShortAccepted ==
  /\ pc = "write"
  /\ buf' = Filled
  /\ \E n \in 0 .. chunk - 1 : file' = Written(n)
  /\ done' = done + chunk
  /\ pos' = pos + chunk
  /\ total' = total + chunk
  /\ pc' = "loop"
  /\ UNCHANGED <<target, req, intr, chunk, rdone, ret>>

(* pwrite failed or was short: the call gives up with -1. *)
WriteShort ==
  /\ pc = "write"
  /\ buf' = Filled
  /\ \E n \in 0 .. chunk - 1 : file' = Written(n)
  /\ pc' = "done"
  /\ UNCHANGED <<target, req, intr, done, pos, total, chunk, rdone, ret>>

-----------------------------------------------------------------------------
(* lxgr_read(pid, va + done, buf, chunk) *)

At(i) == req.va + done + i               \* the target address of buffer cell i

Readable(n, ok) == \A i \in rdone .. rdone + n - 1 : Page(At(i)) \in ok

(* Mutant: a continued read stores at the start of the buffer again        *)
(* instead of at dst + done.                                               *)
CopiedAtStart(n) == [i \in BufIdx |-> IF i < n THEN At(rdone + i) ELSE buf[i]]

Copied(n) == [i \in BufIdx |-> IF rdone <= i /\ i < rdone + n THEN At(i) ELSE buf[i]]

ReadvSome ==
  /\ pc = "readv"
  /\ \E n \in 1 .. chunk - rdone :
       /\ Readable(n, vmr)
       /\ buf' = Copied(n)
       /\ rdone' = rdone + n
       /\ pc' = IF rdone + n = chunk THEN "write" ELSE "readv"
  /\ UNCHANGED <<target, req, intr, done, pos, total, chunk, file, ret>>

(* Mutant: EFAULT is retried like EINTR. *)
ReadvFaultRetried ==
  /\ pc = "readv"
  /\ ~Readable(1, vmr)
  /\ UNCHANGED vars

(* Mutant: no /proc/<pid>/mem fallback. *)
ReadvFaultNoFallback ==
  /\ pc = "readv"
  /\ ~Readable(1, vmr)
  /\ pc' = "write"
  /\ UNCHANGED <<target, req, intr, done, pos, total, chunk, rdone, buf, file, ret>>

ReadvFault ==
  /\ pc = "readv"
  /\ ~Readable(1, vmr)
  /\ pc' = "openmem"
  /\ UNCHANGED <<target, req, intr, done, pos, total, chunk, rdone, buf, file, ret>>

OpenMem ==
  /\ pc = "openmem"
  /\ pc' = IF memFd THEN "pread" ELSE "write"
  /\ UNCHANGED <<target, req, intr, done, pos, total, chunk, rdone, buf, file, ret>>

PreadSome ==
  /\ pc = "pread"
  /\ \E n \in 1 .. chunk - rdone :
       /\ Readable(n, pmr)
       /\ buf' = Copied(n)
       /\ rdone' = rdone + n
       /\ pc' = IF rdone + n = chunk THEN "write" ELSE "pread"
  /\ UNCHANGED <<target, req, intr, done, pos, total, chunk, file, ret>>

PreadFault ==
  /\ pc = "pread"
  /\ ~Readable(1, pmr)
  /\ pc' = "write"
  /\ UNCHANGED <<target, req, intr, done, pos, total, chunk, rdone, buf, file, ret>>

(* EINTR or EAGAIN: both loops retry the same call. *)
Interrupted ==
  /\ pc \in {"readv", "pread"}
  /\ intr < MaxIntr
  /\ intr' = intr + 1
  /\ UNCHANGED <<target, req, pc, done, pos, total, chunk, rdone, buf, file, ret>>

-----------------------------------------------------------------------------
(* The target process, running during the dump. *)

Unmap(p) ==
  /\ p \in pmr
  /\ pmr' = pmr \ {p}
  /\ vmr' = vmr \ {p}
  /\ lost' = lost \cup {p}
  /\ memFd' = memFd

Protect(p) ==                            \* PROT_NONE: only FOLL_FORCE reads it
  /\ p \in vmr
  /\ vmr' = vmr \ {p}
  /\ UNCHANGED <<pmr, lost, memFd>>

Map(p) ==
  /\ p \in Pages \ vmr
  /\ vmr' = vmr \cup {p}
  /\ pmr' = pmr \cup {p}
  /\ UNCHANGED <<lost, memFd>>

Exit ==
  /\ pmr # {}
  /\ pmr' = {} /\ vmr' = {}
  /\ lost' = Pages
  /\ memFd' = FALSE

Target ==
  /\ pc # "done"
  /\ env < MaxEnv
  /\ env' = env + 1
  /\ \/ \E p \in Pages : Unmap(p) \/ Protect(p) \/ Map(p)
     \/ Exit
  /\ UNCHANGED <<req, pc, intr, done, pos, total, chunk, rdone, buf, file, ret>>

Tool ==
  \/ Malloc \/ LoopHead \/ WriteOk \/ WriteShort
  \/ ReadvSome \/ ReadvFault \/ OpenMem \/ PreadSome \/ PreadFault \/ Interrupted

Next == Tool \/ Target

Spec == Init /\ [][Next]_vars /\ WF_vars(Tool)
-----------------------------------------------------------------------------
(* Properties *)

(* Every variable holds what the C declarations and the loop bounds allow; *)
(* in particular pos never leaves the file the caller sized with           *)
(* ftruncate.                                                              *)
TypeOK ==
  /\ vmr \subseteq Pages /\ pmr \subseteq Pages /\ lost \subseteq Pages
  /\ memFd \in BOOLEAN
  /\ env \in 0 .. MaxEnv /\ intr \in 0 .. MaxIntr
  /\ req \in Requests
  /\ pc \in {"malloc", "loop", "readv", "openmem", "pread", "write", "done"}
  /\ done \in 0 .. req.size /\ total \in 0 .. req.size /\ pos \in 0 .. FileCells
  /\ chunk \in 0 .. ChunkCells /\ rdone \in 0 .. chunk
  /\ buf \in [BufIdx -> Nat \cup {Zero, Junk}]
  /\ file \in [FileIdx -> Nat \cup {Zero, Junk, Old}]
  /\ ret \in -1 .. req.size

(* File cell off+k holds what was read at va+k, or a zero, or what it held *)
(* before the call.                                                        *)
Placed ==
  \A k \in 0 .. req.size - 1 : file[req.off + k] \in {Old, Zero, req.va + k}

(* The call writes nothing outside [off, off+size). *)
Contained ==
  \A j \in FileIdx : (j < req.off \/ j >= req.off + req.size) => file[j] = Old

(* Whatever short reads, interruptions, fallbacks and short writes happen, *)
(* the file never gets uninitialised heap, a byte left in the buffer by    *)
(* the previous chunk or a byte of another address, and nothing outside    *)
(* the range is written: dump_lib relies on it when it dumps segment after *)
(* segment into one file.                                                  *)
RightPlace == Placed /\ Contained

(* A call that returns a count returns exactly size, and has then written  *)
(* every cell of the range.                                                *)
Complete ==
  ret # -1 => /\ ret = req.size
              /\ \A k \in 0 .. req.size - 1 : file[req.off + k] # Old

(* The control points inside one iteration of the chunk loop. *)
InChunk == pc \in {"readv", "openmem", "pread", "write"}

(* The bookkeeping the chunk loop and the read loop keep between them: the *)
(* three counters agree, the chunk fits what is left of the range, and     *)
(* what lxgr_read reported as done lies in the buffer at its own place.    *)
Bookkeeping ==
  /\ pos = req.off + done /\ total = done
  /\ pc = "malloc" => done = 0
  /\ InChunk => done + chunk <= req.size /\ chunk > 0
  /\ InChunk => \A i \in 0 .. rdone - 1 : buf[i] = At(i)
  /\ ret # -1 => ret = req.size /\ pc = "done" /\ done = req.size
  /\ \A k \in 0 .. done - 1 : file[req.off + k] # Old

(* A page the target kept mapped during the whole call. *)
Kept(a) == Page(a) \in Pages \ lost

ChunkStart(k) == (k \div ChunkCells) * ChunkCells

(* A zero is written only for a reason: when /proc/<pid>/mem can be        *)
(* opened, a zero at va+k means that some page of the same chunk, at or    *)
(* before va+k, was unmapped at some time of the call.                     *)
ZeroOnlyBehindHole ==
  \A k \in 0 .. req.size - 1 :
    file[req.off + k] = Zero /\ memFd =>
      \E h \in ChunkStart(k) .. k : ~Kept(req.va + h)

(* The header's promise, "Writes the raw image (unreadable pages become    *)
(* zero)": a page that stays readable during the whole call is in the      *)
(* file.  The code does not keep it: the rest of a chunk is zeroed after   *)
(* its first unreadable page.                                              *)
ReadablePagesSurvive ==
  (ret # -1 /\ memFd) =>
    \A k \in 0 .. req.size - 1 : Kept(req.va + k) => file[req.off + k] = req.va + k

(* What a completed chunk put in the file is not touched again by the      *)
(* later chunks of the call.                                               *)
ChunksStay ==
  [][\A k \in 0 .. req.size - 1 :
       k < done => file'[req.off + k] = file[req.off + k]]_vars

(* lxgr_dump_range returns, whatever the target does: every fault ends in  *)
(* a zero fill and every interruption in a retry that cannot go on for     *)
(* ever.                                                                   *)
Termination == <>(pc = "done")
=============================================================================
