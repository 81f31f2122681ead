------------------------------ MODULE PhysMap ------------------------------
(***************************************************************************)
(* The hand-over of physical addresses from the C tool to the Rust dumper: *)
(* a .pamap file as lxgr_pamap_range writes it (one line per page, "-" for *)
(* a page that is not present), PhysMap::load of pamap.rs, the flag check  *)
(* of main.rs and pa_from_rva, which annotates the methods of the dump.    *)
(***************************************************************************)
EXTENDS Naturals, Integers, Sequences

CONSTANTS
  Unit,    \* cells per 4 KiB page
  Width,   \* number of addresses: 2^64
  Captures,\* the pamap files: sequences of lines
  BaseFlags, \* values of --il2cpp-base, NoFlag when absent
  Rvas,    \* rvas of the dump
  NoFlag, Dash, Comment, None

(* What a line says: a page and its frame, a page and "-", or a comment. *)
Line == [va : Nat, pa : Nat \cup {Dash, Comment}]

(* What the constants are assumed to be. *)
PhysMapAssumption ==
  /\ Unit \in Nat \ {0} /\ Width \in Nat \ {0} /\ Width % Unit = 0
  /\ Captures \subseteq Seq(Line)
  /\ BaseFlags \subseteq Nat \cup {NoFlag}
  /\ Rvas \subseteq 0 .. Width - 1
  /\ NoFlag \notin Nat /\ None \notin Nat /\ Dash \notin Nat /\ Comment \notin Nat /\ Dash # Comment

VARIABLES
  capture,   \* the lines of the file
  il2cppBase, \* --il2cpp-base
  stage,
  taken,     \* load: lines consumed
  entries,   \* load: entries
  map,       \* the entries of the PhysMap main.rs holds, none if it holds no PhysMap
  rva, pa    \* the last annotation

importVars == <<capture, il2cppBase, stage, taken, entries, map, rva, pa>>

ImportInit ==
  /\ capture \in Captures /\ il2cppBase \in BaseFlags
  /\ stage = "flags"
  /\ taken = 0 /\ entries = << >> /\ map = << >>
  /\ rva \in Rvas /\ pa = None

(* main.rs: annotations need both flags, and load refuses base 0. *)
Flags ==
  /\ stage = "flags"
  /\ stage' = IF il2cppBase = NoFlag \/ il2cppBase = 0 THEN "ready" ELSE "load"
  /\ UNCHANGED <<capture, il2cppBase, taken, entries, map, rva, pa>>

(* Mutant: a line without an address is read as address 0. *)
LoadLineZero ==
  /\ stage = "load" /\ taken < Len(capture)
  /\ taken' = taken + 1
  /\ entries' = IF capture[taken + 1].pa = Comment THEN entries
                ELSE Append(entries, [va |-> capture[taken + 1].va,
                       pa |-> IF capture[taken + 1].pa = Dash THEN 0 ELSE capture[taken + 1].pa])
  /\ UNCHANGED <<capture, il2cppBase, stage, map, rva, pa>>

(* One line of the file: comments are skipped, a token that is not a hex   *)
(* number ends load with None.                                             *)
LoadLine ==
  /\ stage = "load" /\ taken < Len(capture)
  /\ LET l == capture[taken + 1] IN
       \/ l.pa = Comment /\ UNCHANGED <<entries, stage>>
       \/ l.pa \notin {Dash, Comment} /\ entries' = Append(entries, l) /\ stage' = stage
       \/ l.pa = Dash /\ stage' = "ready" /\ entries' = entries
  /\ taken' = taken + 1
  /\ UNCHANGED <<capture, il2cppBase, map, rva, pa>>

Sorted(s) == \A a, b \in DOMAIN s : a < b => s[a].va <= s[b].va

(* The entries in ascending order of va; equal ones in either order        *)
(* (sort_unstable_by_key).  Without an entry load returns None.            *)
LoadEnd ==
  /\ stage = "load" /\ taken = Len(capture)
  /\ stage' = "ready"
  /\ \E p \in {f \in [DOMAIN entries -> DOMAIN entries] :
                 \A b \in DOMAIN entries : \E a \in DOMAIN entries : f[a] = b} :
       LET s == [a \in DOMAIN entries |-> entries[p[a]]] IN Sorted(s) /\ map' = s
  /\ UNCHANGED <<capture, il2cppBase, taken, entries, rva, pa>>

Va == (il2cppBase + rva) % Width
PageOf(a) == (a \div Unit) * Unit

(* pa_from_rva of a method: a binary search for the page of base + rva;    *)
(* pages are aligned, so "| off" adds.                                     *)
Annotate ==
  /\ stage = "ready"
  /\ stage' = "done"
  /\ \/ (\A a \in DOMAIN map : map[a].va # PageOf(Va)) /\ pa' = None
     \/ \E a \in DOMAIN map : map[a].va = PageOf(Va) /\ pa' = map[a].pa + (Va % Unit)
  /\ UNCHANGED <<capture, il2cppBase, taken, entries, map, rva>>

ImportNext == Flags \/ LoadLine \/ LoadEnd \/ Annotate

ImportSpec == ImportInit /\ [][ImportNext]_importVars /\ WF_importVars(ImportNext)

-----------------------------------------------------------------------------
(* Properties *)

(* The entries are lines of the file with an address. *)
ImportTypeOK ==
  /\ stage \in {"flags", "load", "ready", "done"}
  /\ taken \in 0 .. Len(capture)
  /\ Len(entries) <= taken
  /\ \A a \in DOMAIN entries : entries[a].va \in Nat /\ entries[a].pa \in Nat
  /\ pa \in Nat \cup {None}

(* An annotation is the address the capture gives to the page the method   *)
(* is in, at the method's own offset: never the frame of another page or   *)
(* of a page that was not present.                                         *)
AnnotationTrue ==
  pa # None =>
    \E n \in 1 .. Len(capture) :
      /\ capture[n].pa \notin {Dash, Comment}
      /\ capture[n].va = PageOf(Va) /\ pa = capture[n].pa + (Va % Unit)

Lines == {n \in 1 .. Len(capture) : capture[n].pa # Comment}

(* A capture in which every page was present is used in full: a method is  *)
(* left without an address only when its page is not in the file.          *)
FullCaptureUsed ==
  stage = "done" /\ il2cppBase \notin {NoFlag, 0} /\ (\A n \in Lines : capture[n].pa # Dash) /\ pa = None
    => \A n \in Lines : capture[n].va # PageOf(Va)

(* What the dump shows of a capture is true, and nothing is left out. *)
ImportRight == AnnotationTrue /\ FullCaptureUsed

(* pamap.rs: "Load a pamap file produced by lxgr_dump --pamap. Returns     *)
(* None if the file cannot be read or base is 0" (and, in the code, if it  *)
(* has no entry): a file with an entry is loaded.  One "-" line, which     *)
(* lxgr_pamap_range writes for a page that is not present, makes load give *)
(* up on all of them.                                                      *)
CaptureLoads ==
  stage = "done" /\ il2cppBase \notin {NoFlag, 0} /\ (\E n \in Lines : capture[n].pa # Dash)
    => map # << >>

(* Every annotation request ends. *)
ImportEnds == <>(stage = "done")
=============================================================================
