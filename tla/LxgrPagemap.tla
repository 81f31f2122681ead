---------------------------- MODULE LxgrPagemap ----------------------------
(***************************************************************************)
(* Physical addresses in lxgr_dump.c: lxgr_va_to_pa, lxgr_pa_to_va and     *)
(* lxgr_pamap_range, one pread of /proc/<pid>/pagemap per step, while the  *)
(* target's pages are faulted in, swapped out and moved, the target may    *)
(* exit and any of the reads may be short.                                 *)
(*                                                                         *)
(* The code shifts by 12 in some places and divides by the system's page   *)
(* size in others.  PageUnit is 2^12 and ps the page size, K of them; the  *)
(* kernel keeps one pagemap entry, and counts frames, per page of size ps. *)
(* Addresses are counted in cells.                                         *)
(***************************************************************************)
EXTENDS Naturals, Integers, Sequences, SequencesExt, FiniteSets

CONSTANTS
  PageUnit,       \* 1 << 12
  K,              \* page size / 4096
  Pages,          \* the target's pages that may be present
  Frames,         \* physical frames
  AddressSpaces,  \* contents of /proc/<pid>/maps: sequences of [start, end) in cells
  Requests,       \* the calls: [op, a, size]
  MaxScan,        \* PAMAP_MAX_PAGES
  MaxChanges,     \* bound: changes of the page table during one call
  MaxShort,       \* bound: short reads of a living target during one call
  NotPresent

(* What the constants are assumed to be. *)
PagemapAssumption ==
  /\ PageUnit \in Nat \ {0} /\ K \in Nat \ {0}
  /\ Pages \subseteq Nat /\ Frames \subseteq Nat \ {0} /\ NotPresent \notin Nat
  /\ AddressSpaces \subseteq Seq([start : Nat, end : Nat])
  /\ Requests \subseteq [op : {"v2p", "p2v", "pamap"}, a : Nat, size : Nat]
  /\ MaxScan \in Nat \ {0} /\ MaxChanges \in Nat /\ MaxShort \in Nat

VARIABLES
  pt,                \* the page table: frame of each page, or NotPresent
  alive,             \* the target has not exited
  held,              \* history: the (page, frame) pairs that held at some time of the call
  changes,           \* changes so far
  vmas,              \* the lines of maps
  req,               \* this call
  step,
  pagemapFd, mapsFd, \* pagemap and maps are open
  lineNo,            \* lines of maps read
  pg, epg,           \* the loop index and its bound
  scanned,           \* lxgr_pa_to_va: scanned
  lines,             \* the pamap lines written
  missed,            \* history: the entries a scan or a pamap could not read
  result             \* the value returned

target == <<pt, alive, held, changes, vmas>>
pagemapVars ==
  <<target, req, step, pagemapFd, mapsFd, lineNo, pg, epg, scanned, lines, missed, result>>

ps == K * PageUnit

(* (n << 12) | low: the bits below 12 come from low alone, and the others  *)
(* of low, which it has only if pages are larger than 2^12, are added to   *)
(* those of n.                                                             *)
bits[n \in Nat, m \in Nat] ==
  IF m = 0 THEN n
  ELSE 2 * bits[n \div 2, m \div 2] + (IF n % 2 = 1 \/ m % 2 = 1 THEN 1 ELSE 0)
Joined(n, low) ==
  LET high == low \div PageUnit IN
  PageUnit * (IF high = 0 THEN n ELSE bits[n, high]) + (low % PageUnit)

Holding(t) == {<<p, t[p]>> : p \in {x \in Pages : t[x] # NotPresent}}

PagemapInit ==
  /\ pt \in [Pages -> Frames \cup {NotPresent}]
  /\ alive = TRUE
  /\ held = Holding(pt)
  /\ changes = 0
  /\ vmas \in AddressSpaces /\ req \in Requests
  /\ step = "open"
  /\ pagemapFd = FALSE /\ mapsFd = FALSE
  /\ lineNo = 0 /\ pg = 0 /\ epg = 0 /\ scanned = 0
  /\ lines = << >> /\ missed = {}
  /\ result = 0

(* pread of entry k, whole or not: a hole of the address space reads as a  *)
(* zero entry; any read may be short, and nothing can be read of a process *)
(* that is gone.                                                           *)
Wholes ==
  {w \in BOOLEAN : IF w THEN alive ELSE alive => Cardinality(missed) < MaxShort}
Frame(k) == IF k \in Pages THEN pt[k] ELSE NotPresent
Present(k, whole) == whole /\ Frame(k) # NotPresent
Missing(whole) == missed' = IF whole THEN missed ELSE missed \cup {<<lineNo, pg>>}

Failed == IF req.op = "pamap" THEN -1 ELSE 0

-----------------------------------------------------------------------------
(* The open of /proc/<pid>/pagemap all three begin with. *)
OpenPagemap ==
  /\ step = "open"
  /\ \/ /\ alive
        /\ pagemapFd' = TRUE
        /\ step' = req.op
        /\ result' = result
     \/ /\ step' = "done"                      \* no such process, or EACCES
        /\ result' = Failed
        /\ pagemapFd' = pagemapFd
  /\ pg' = req.a \div PageUnit
  /\ epg' = (req.a + req.size + ps - 1) \div PageUnit
  /\ UNCHANGED <<target, req, mapsFd, lineNo, scanned, lines, missed>>

(* lxgr_va_to_pa after its open. *)
V2P ==
  /\ step = "v2p"
  /\ LET k == req.a \div ps IN
       \E whole \in Wholes :
         result' = IF Present(k, whole) THEN Joined(Frame(k), req.a % ps) ELSE 0
  /\ pagemapFd' = FALSE
  /\ step' = "done"
  /\ UNCHANGED <<target, req, mapsFd, lineNo, pg, epg, scanned, lines, missed>>

-----------------------------------------------------------------------------
(* lxgr_pa_to_va after its open. *)

(* Mutant: a failed fopen of maps leaves the pagemap open. *)
OpenMapsLeak ==
  /\ step = "p2v"
  /\ mapsFd' = FALSE /\ pagemapFd' = TRUE /\ step' = "done"
  /\ UNCHANGED <<target, req, lineNo, pg, epg, scanned, lines, missed, result>>

OpenMapsFile ==
  /\ step = "p2v"
  /\ \/ alive /\ mapsFd' = TRUE /\ pagemapFd' = pagemapFd /\ step' = "line"
     \/ mapsFd' = mapsFd /\ pagemapFd' = FALSE /\ step' = "done"
  /\ UNCHANGED <<target, req, lineNo, pg, epg, scanned, lines, missed, result>>

CloseBoth == pagemapFd' = FALSE /\ mapsFd' = FALSE /\ step' = "done"

NextLine ==
  /\ step = "line"
  /\ \/ /\ alive /\ lineNo < Len(vmas)
        /\ LET v == vmas[lineNo + 1] IN
             /\ pg' = v.start \div PageUnit
             /\ epg' = (v.end + ps - 1) \div PageUnit
             /\ step' = IF v.end <= v.start THEN "line" ELSE "scan"
        /\ lineNo' = lineNo + 1
        /\ UNCHANGED <<pagemapFd, mapsFd>>
     \/ /\ ~alive \/ lineNo = Len(vmas)
        /\ CloseBoth
        /\ UNCHANGED <<lineNo, pg, epg>>
  /\ UNCHANGED <<target, req, scanned, lines, missed, result>>

WantPfn == req.a \div PageUnit

Hit(whole) == Present(pg, whole) /\ Frame(pg) = WantPfn

(* One page of the current line: a match ends the scan, and so does the    *)
(* cap, after the page it counts, read or not.                             *)
ScanPage(cap) ==
  /\ step = "scan"
  /\ \/ \E whole \in Wholes :
          /\ pg < epg /\ Hit(whole)
          /\ result' = Joined(pg, req.a % ps)
          /\ CloseBoth
          /\ UNCHANGED <<pg, scanned, missed>>
     \/ \E whole \in Wholes :
          /\ pg < epg /\ ~Hit(whole)
          /\ Missing(whole)
          /\ scanned' = scanned + 1
          /\ \/ scanned + 1 >= cap /\ CloseBoth /\ pg' = pg
             \/ scanned + 1 < cap /\ pg' = pg + 1 /\ UNCHANGED <<step, pagemapFd, mapsFd>>
          /\ result' = result
     \/ /\ pg >= epg
        /\ step' = "line"
        /\ UNCHANGED <<pg, scanned, pagemapFd, mapsFd, missed, result>>
  /\ UNCHANGED <<target, req, lineNo, epg, lines>>

(* Mutants: the cap is tested a page too early or too late. *)
ScanCapEarly == ScanPage(MaxScan - 1)
ScanCapLate == ScanPage(MaxScan + 1)

Scan == ScanPage(MaxScan)

-----------------------------------------------------------------------------
(* lxgr_pamap_range after its open. *)

EndOfRange ==
  /\ pg >= epg
  /\ pagemapFd' = FALSE /\ step' = "done"
  /\ UNCHANGED <<pg, lines, missed>>

AddLine(pa) == lines' = Append(lines, [va |-> pg * PageUnit, pa |-> pa])
PhysAddr == Joined(Frame(pg), (pg * PageUnit) % ps)

(* Mutant: the frame of the page before is kept when a page is not         *)
(* present.                                                                *)
EmitStale ==
  /\ step = "pamap"
  /\ \/ \E whole \in Wholes :
          /\ pg < epg /\ pg' = pg + 1 /\ Missing(whole)
          /\ IF ~whole THEN lines' = lines
             ELSE AddLine(IF Present(pg, whole) THEN PhysAddr
                       ELSE IF lines = << >> THEN NotPresent ELSE Last(lines).pa)
          /\ UNCHANGED <<pagemapFd, step>>
     \/ EndOfRange
  /\ UNCHANGED <<target, req, mapsFd, lineNo, epg, scanned, result>>

(* Mutant: a short read is tried again for ever. *)
EmitRetries ==
  /\ step = "pamap"
  /\ \/ \E whole \in Wholes :
          /\ pg < epg /\ Missing(whole)
          /\ IF ~whole THEN UNCHANGED <<pg, lines>>
             ELSE pg' = pg + 1 /\ AddLine(IF Present(pg, whole) THEN PhysAddr ELSE NotPresent)
          /\ UNCHANGED <<pagemapFd, step>>
     \/ EndOfRange
  /\ UNCHANGED <<target, req, mapsFd, lineNo, epg, scanned, result>>

Emit ==
  /\ step = "pamap"
  /\ \/ \E whole \in Wholes :
          /\ pg < epg /\ pg' = pg + 1 /\ Missing(whole)
          /\ IF ~whole THEN lines' = lines     \* continue: the page has no line
             ELSE AddLine(IF Present(pg, whole) THEN PhysAddr ELSE NotPresent)
          /\ UNCHANGED <<pagemapFd, step>>
     \/ EndOfRange
  /\ UNCHANGED <<target, req, mapsFd, lineNo, epg, scanned, result>>

-----------------------------------------------------------------------------
(* The target during the call. *)

Fault(p, f) ==                              \* demand paging, swap in, migration
  /\ pt[p] # f
  /\ pt' = [pt EXCEPT ![p] = f]
  /\ alive' = alive

Reclaim(p) ==
  /\ pt[p] # NotPresent
  /\ pt' = [pt EXCEPT ![p] = NotPresent]
  /\ alive' = alive

TargetExits ==
  /\ alive' = FALSE
  /\ pt' = [p \in Pages |-> NotPresent]

PagesChange ==
  /\ step # "done" /\ alive
  /\ changes < MaxChanges
  /\ changes' = changes + 1
  /\ \/ \E p \in Pages, f \in Frames : Fault(p, f)
     \/ \E p \in Pages : Reclaim(p)
     \/ TargetExits
  /\ held' = held \cup Holding(pt')
  /\ UNCHANGED <<vmas, req, step, pagemapFd, mapsFd, lineNo, pg, epg, scanned, lines, missed, result>>

Lookups == OpenPagemap \/ V2P \/ OpenMapsFile \/ NextLine \/ Scan \/ Emit

PagemapNext == Lookups \/ PagesChange

PagemapSpec == PagemapInit /\ [][PagemapNext]_pagemapVars /\ WF_pagemapVars(Lookups)

-----------------------------------------------------------------------------
(* Properties *)

(* The types of the C variables. *)
PagemapTypeOK ==
  /\ pt \in [Pages -> Frames \cup {NotPresent}] /\ alive \in BOOLEAN
  /\ held \subseteq Pages \X Frames /\ changes \in 0 .. MaxChanges
  /\ step \in {"open", "v2p", "p2v", "pamap", "line", "scan", "done"}
  /\ pagemapFd \in BOOLEAN /\ mapsFd \in BOOLEAN
  /\ lineNo \in 0 .. Len(vmas) /\ pg \in Nat /\ epg \in Nat
  /\ scanned \in 0 .. MaxScan /\ missed \subseteq (0 .. Len(vmas)) \X Nat
  /\ result \in Int

Done(op) == step = "done" /\ req.op = op

(* The address the memory at va really had at some time of the call. *)
TrueAt(va, pa) == <<va \div ps, pa \div ps>> \in held /\ va % ps = pa % ps

(* lxgr_va_to_pa: a non-zero answer is the physical address of that very   *)
(* byte at some time of the call.                                          *)
V2PTrue == Done("v2p") /\ result # 0 => TrueAt(req.a, result)

(* lxgr_pa_to_va: a non-zero answer did map the physical byte at some time *)
(* of the scan, however the pages moved meanwhile.                         *)
P2VTrue == Done("p2v") /\ result # 0 => TrueAt(result, req.a)

(* The pages of the lines of maps, each with the number of its line, and   *)
(* the order in which a scan goes through them.                            *)
LinePages(n) == vmas[n].start \div PageUnit .. (vmas[n].end + ps - 1) \div PageUnit - 1
ScanPages ==
  UNION {{n} \X LinePages(n) : n \in {m \in 1 .. Len(vmas) : vmas[m].start < vmas[m].end}}
Earlier(x, y) == x[1] < y[1] \/ (x[1] = y[1] /\ x[2] < y[2])
Before(x) == {y \in ScanPages : Earlier(y, x)}

(* The pages that map the wanted frame, among the first MaxScan of all,    *)
(* without those whose entry could not be read.                            *)
Matches(x) == Frame(x[2]) = WantPfn /\ x \notin missed
Hits == {x \in ScanPages : Cardinality(Before(x)) < MaxScan /\ Matches(x)}

(* "returns the first virtual address in pid whose page maps the physical  *)
(* page containing pa, or 0 when none": with a page table that stands      *)
(* still, a completed scan returns the first match in the order of maps,   *)
(* and misses none among the first MaxScan pages, the last one included,   *)
(* but those whose entries could not be read.                              *)
P2VFirst ==
  Done("p2v") /\ changes = 0 /\ lineNo > 0 =>
    IF Hits = {} THEN result = 0
    ELSE \E x \in Hits : /\ \A y \in Hits \ {x} : Earlier(x, y)
                         /\ result \div PageUnit = x[2]

(* Every pamap line with an address tells where its page was at some time  *)
(* of the call: README, "maps every dumped page to its physical address".  *)
LinesTrue ==
  \A n \in 1 .. Len(lines) : lines[n].pa # NotPresent => TrueAt(lines[n].va, lines[n].pa)

(* Every page the range touches has exactly one line, in ascending order,  *)
(* or its entry could not be read, and never both: also for a range that   *)
(* starts or ends inside a page, and when the target exits.  (An empty     *)
(* range inside a page has a line too; neither caller asks for one.)       *)
LinesCover ==
  Done("pamap") /\ result = 0 =>
    /\ \A c \in req.a .. req.a + req.size - 1 :
         LET va == (c \div ps) * ps IN
         (\E n \in 1 .. Len(lines) : lines[n].va = va) <=> <<0, va \div PageUnit>> \notin missed
    /\ \A n \in 1 .. Len(lines) :
         /\ \/ \E c \in req.a .. req.a + req.size - 1 : lines[n].va = (c \div ps) * ps
            \/ req.size = 0 /\ lines[n].va = (req.a \div ps) * ps
         /\ n > 1 => lines[n - 1].va < lines[n].va

(* Every way out of the three functions closes what it opened. *)
LookupsClose == step = "done" => ~pagemapFd /\ ~mapsFd

(* What a caller of the three functions relies on while the pages of the   *)
(* target move: whatever address they give was, at some time of the call,  *)
(* that of the same byte, the lines of a range are complete but for the    *)
(* entries that could not be read, and nothing stays open.                 *)
LookupsRight == V2PTrue /\ P2VTrue /\ LinesTrue /\ LinesCover /\ LookupsClose

(* They return, also from a scan of a process that dies under it. *)
LookupsEnd == <>(step = "done")
=============================================================================
