----------------------------- MODULE AddressMap -----------------------------
(***************************************************************************)
(* Between addresses and file offsets: map_vatr and map_rtva of Il2Cpp and *)
(* of Elf, the latter also for a memory dump, whose program headers        *)
(* fix_program_segments rewrites.  A loaded binary is asked one question.  *)
(***************************************************************************)
EXTENDS Integers, Sequences

CONSTANTS
  Images,  \* lists of segments [vaddr, memsz, filesz, offset]
  Base,    \* image_base of a memory dump
  Limit    \* the largest address or offset asked for

Apart(a, n, b, m) == a + n <= b \/ b + m <= a
Alike(s, t) == s.vaddr - s.offset = t.vaddr - t.offset

Segments == [vaddr : Nat, memsz : Nat, filesz : Nat, offset : Nat]

(* What the constants are assumed to be: no more of a segment is in the    *)
(* file than in memory, and two segments overlap neither here nor there    *)
(* unless they agree (as PT_DYNAMIC or PT_GNU_RELRO with a PT_LOAD).       *)
ImagesAssumption ==
  /\ Base \in Nat \ {0} /\ Limit \in Nat
  /\ \A p \in Images :
       /\ p \in Seq(Segments)
       /\ \A i, j \in DOMAIN p :
            /\ p[i].filesz <= p[i].memsz
            /\ i # j => \/ Alike(p[i], p[j])
                        \/ /\ Apart(p[i].vaddr, p[i].memsz, p[j].vaddr, p[j].memsz)
                           /\ Apart(p[i].offset, p[i].filesz, p[j].offset, p[j].filesz)

VARIABLES
  segs,   \* segments / va_segments
  ask,    \* the question: [of, x]
  found,  \* the answer, NotMapped or 0 if there is none
  stage

mapVars == <<segs, ask, found, stage>>

NotMapped == -1

-----------------------------------------------------------------------------
(* The end counts as inside. *)
Within(x, start, size) == start <= x /\ x <= start + size

(* The first of the segments that are hit; 0 if there is none. *)
FirstHit(hits) == IF hits = {} THEN 0 ELSE CHOOSE i \in hits : \A j \in hits : i <= j

(* Mutant: the end of the segment is taken from its place in the file. *)
MapVatrFileEnd(addr) ==
  LET i == FirstHit({s \in DOMAIN segs : segs[s].vaddr <= addr /\ addr <= segs[s].offset + segs[s].memsz})
  IN  IF i = 0 THEN NotMapped ELSE addr - segs[i].vaddr + segs[i].offset

(* map_vatr of both. *)
MapVatr(addr) ==
  LET i == FirstHit({s \in DOMAIN segs : Within(addr, segs[s].vaddr, segs[s].memsz)})
  IN  IF i = 0 THEN NotMapped ELSE addr - segs[i].vaddr + segs[i].offset

(* map_rtva: Il2Cpp goes by the size in memory, Elf by that in the file. *)
MapRtva(offset) ==
  LET i == FirstHit({s \in DOMAIN segs : Within(offset, segs[s].offset, segs[s].memsz)})
  IN  IF i = 0 THEN 0 ELSE offset - segs[i].offset + segs[i].vaddr
ElfMapRtva(offset) ==
  LET i == FirstHit({s \in DOMAIN segs : Within(offset, segs[s].offset, segs[s].filesz)})
  IN  IF i = 0 THEN 0 ELSE offset - segs[i].offset + segs[i].vaddr

MapInit ==
  /\ segs \in Images
  /\ ask = << >> /\ found = NotMapped
  /\ stage = "headers"

(* fix_program_segments, for a memory dump. *)
FixSegments ==
  /\ stage = "headers"
  /\ \/ segs' = [i \in DOMAIN segs |->
                   [vaddr |-> segs[i].vaddr + Base, memsz |-> segs[i].memsz,
                    filesz |-> segs[i].memsz, offset |-> segs[i].vaddr]]
     \/ UNCHANGED segs
  /\ stage' = "loaded"
  /\ UNCHANGED <<ask, found>>

Ask ==
  /\ stage = "loaded"
  /\ \E x \in 0 .. Limit :
       \/ ask' = <<"vatr", x>> /\ found' = MapVatr(x)
       \/ ask' = <<"rtva", x>> /\ found' = MapRtva(x)
       \/ ask' = <<"elf_rtva", x>> /\ found' = ElfMapRtva(x)
  /\ stage' = "done"
  /\ UNCHANGED segs

MapStep == FixSegments \/ Ask

MapSpec == MapInit /\ [][MapStep]_mapVars

-----------------------------------------------------------------------------
(* Properties *)

(* An answer is an address or an offset of the image, or none. *)
MapTypeOK ==
  /\ stage \in {"headers", "loaded", "done"}
  /\ found \in NotMapped .. 2 * Limit

InFile(i, a) == segs[i].vaddr <= a /\ a < segs[i].vaddr + segs[i].filesz
ByteAt(i, a) == segs[i].offset + (a - segs[i].vaddr)

(* The byte that the loader puts at an address is the one that is read for *)
(* it, and its offset leads back to the address, unless a segment listed   *)
(* before, at another distance from its place in the file, ends exactly    *)
(* there (its end counts as inside) or, for Il2Cpp's map_rtva, covers that *)
(* offset with memory that is not in the file.                             *)
Others(i) == {j \in 1 .. i - 1 : ~Alike(segs[i], segs[j])}
VatrRight(x) ==
  /\ \A i \in DOMAIN segs :
       InFile(i, x) /\ (\A j \in Others(i) : x # segs[j].vaddr + segs[j].memsz) =>
         found = ByteAt(i, x)
  /\ found # NotMapped => \E i \in DOMAIN segs : Within(x, segs[i].vaddr, segs[i].memsz)
RtvaRight(x, Size(_)) ==
  \A i \in DOMAIN segs : \A a \in segs[i].vaddr .. segs[i].vaddr + segs[i].filesz - 1 :
    ByteAt(i, a) = x /\ (\A j \in Others(i) : ~Within(x, segs[j].offset, Size(j))) =>
      found = a
AddressesRight ==
  stage = "done" =>
    /\ ask[1] = "vatr" => VatrRight(ask[2])
    /\ ask[1] = "rtva" => RtvaRight(ask[2], LAMBDA j : segs[j].memsz)
    /\ ask[1] = "elf_rtva" => RtvaRight(ask[2], LAMBDA j : segs[j].filesz)
=============================================================================
