--------------------------- MODULE MCRegistration ---------------------------
(***************************************************************************)
(* The instance for the registrations of a binary: their layout            *)
(* (AutoPlus), the search for them and the loading of their tables         *)
(* (RegistrationInit), or the addresses both go by (AddressMap).           *)
(* A behaviour belongs to one part, chosen in the initial state; the       *)
(* search rests before its first attempt in the behaviours of the others,  *)
(* whose variables keep the value Idle in its own.                         *)
(***************************************************************************)
EXTENDS RegistrationInit, AddressMap

CONSTANTS Idle, Parts

VARIABLES part,
  bin, how, phase, layout, cr, retried, loaded, ok   \* of the layout

layoutVars == <<bin, how, phase, layout, cr, retried, loaded, ok>>
allvars == <<part, layoutVars, mapVars, vars>>

(* Every metadata version of the code with the layouts that occur under    *)
(* it, any combination of the tables whose emptiness can mislead, and      *)
(* anything around the structure.                                          *)
AllClaims ==
  {<<2400, 2400>>, <<2410, 2410>>, <<2420, 2420>>, <<2420, 2430>>, <<2430, 2430>>,
   <<2440, 2440>>, <<2440, 2450>>, <<2450, 2450>>, <<2700, 2700>>, <<2700, 2710>>,
   <<2710, 2710>>, <<2720, 2720>>, <<2900, 2900>>, <<2900, 2910>>, <<2910, 2910>>,
   <<3100, 2900>>, <<3100, 3100>>, <<3110, 3110>>, <<3900, 3900>>}
MayBeEmpty ==
  SUBSET {"interop", "winrt", "reverse_pinvoke", "custom_attributes", "virtual_calls"}
AnyWord == {"zero", "few", "big"}
L == INSTANCE AutoPlus WITH Claims <- AllClaims, Empties <- MayBeEmpty, Borders <- AnyWord,
       by <- how, pc <- phase, version <- layout

(* Every format; a version the heuristics leave below 29 and one that is   *)
(* tried again as 29; the tables of the lookup and one before them.        *)
AllFormats == {"elf", "pe", "macho", "nso"}
SomeVersions == {2420, 3100}
SomeTables == {"gmp", "gi", "gmt", "ms"}
OneModule == {"m"}

(* Two segments in any order, adjacent or apart, with and without memory   *)
(* behind the file, and a third one inside the first as PT_DYNAMIC is.     *)
Segs == [vaddr : {0, 2, 3, 6}, memsz : {2, 3}, filesz : {1, 2, 3}, offset : {0, 1, 2, 4}]
Inner(s) == [vaddr |-> s.vaddr + 1, memsz |-> 1, filesz |-> 1, offset |-> s.offset + 1]
TwoSegs ==
  {p \in Segs \X Segs :
     /\ p[1].filesz <= p[1].memsz /\ p[2].filesz <= p[2].memsz
     /\ Apart(p[1].vaddr, p[1].memsz, p[2].vaddr, p[2].memsz)
     /\ Apart(p[1].offset, p[1].filesz, p[2].offset, p[2].filesz)}
SegLists == TwoSegs \cup {<<p[1], p[2], Inner(p[1])>> : p \in {t \in TwoSegs : t[1].filesz > 1}}

ASSUME Assumptions == TablesAssumption /\ ImagesAssumption

-----------------------------------------------------------------------------
LayoutIdle ==
  /\ bin = Idle /\ how = Idle /\ phase = Idle /\ layout = Idle /\ cr = Idle
  /\ retried = Idle /\ loaded = Idle /\ ok = Idle

MapIdle == segs = Idle /\ ask = Idle /\ found = Idle /\ stage = Idle

SearchIdle == Init /\ fmt = "nso" /\ ~codm /\ mv = 2420

RegInit ==
  /\ part \in Parts
  /\ \/ part = "layout" /\ L!Init /\ SearchIdle /\ MapIdle
     \/ part = "search" /\ Init /\ LayoutIdle /\ MapIdle
     \/ part = "map" /\ MapInit /\ LayoutIdle /\ SearchIdle

LayoutStep ==
  /\ part = "layout"
  /\ L!Locate \/ L!Refine \/ L!InitTables
  /\ UNCHANGED <<part, vars, mapVars>>

SearchStep == part = "search" /\ Step /\ UNCHANGED <<part, layoutVars, mapVars>>

AddressStep == part = "map" /\ MapStep /\ UNCHANGED <<part, layoutVars, vars>>

Ended == pc \in {"done", "error"} \/ phase = "done" \/ stage = "done"

RegNext == LayoutStep \/ SearchStep \/ AddressStep \/ (Ended /\ UNCHANGED allvars)

(* The search runs to its end unless it is stopped from outside.  (The     *)
(* other parts have no loop.)                                              *)
RegSpec == RegInit /\ [][RegNext]_allvars /\ WF_allvars(SearchStep)

-----------------------------------------------------------------------------
(* Properties: RegistrationInit's LookupCurrent and OnlyAccepted,          *)
(* AddressMap's AddressesRight, and those of the layout where it is found. *)

(* The type invariants of all parts: addresses stay close to the          *)
(* structure, and versions are those AutoPlus can reach.                   *)
RegTypeOK ==
  /\ TypeOK
  /\ part = "layout" => L!TypeOK
  /\ part = "map" => MapTypeOK

(* The section scan, or an exact address, and AutoPlus together read the   *)
(* binary's own tables for exactly the binaries ReadRight names.           *)
TablesRight == part = "layout" => L!RightTables

(* Metadata 31 is read rightly, over its own layout and over one of the 29 *)
(* era, as the README of il2cpp-dumper-rs says.                            *)
Layout31Refined == part = "layout" => L!Refined31

(* The search for the registrations comes to an end. *)
Ends == part = "search" => <>(pc \in {"done", "error"})
=============================================================================
