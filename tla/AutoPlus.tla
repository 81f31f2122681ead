------------------------------ MODULE AutoPlus ------------------------------
(***************************************************************************)
(* How il2cpp-dumper-rs settles the address and the layout of a binary's   *)
(* Il2CppCodeRegistration: the section scan finds the code_gen_modules     *)
(* field and steps back a number of pointers that depends on the version   *)
(* (section_helper.rs), the AutoPlus heuristics correct version and        *)
(* address from what they read there (base.rs), and the tables are read.   *)
(*                                                                         *)
(* Versions are written in hundredths (24.15 is 2415).  Addresses are      *)
(* counted in pointers from the true start of the structure, so that 0 is  *)
(* the right address.  A word of the image is a class of values: "zero",   *)
(* "few" (a count up to the AutoPlus limit) or "big" (a pointer, or a      *)
(* count above the limit).                                                 *)
(***************************************************************************)
EXTENDS Integers, Sequences, FiniteSets

CONSTANTS
  Claims,       \* pairs <<metadata version, version of the layout>>
  Empties,      \* sets of tables that may be empty together
  Borders       \* what may stand before and after the structure

VARIABLES
  bin,      \* the binary: [mv, tv, empty, huge, before, after]
  by,       \* how the address was found: "scan" or "exact"
  pc,
  version,  \* stream.version
  cr,       \* the address in use
  retried,
  loaded,   \* what the tables hold: the table they come from
  ok        \* the result of init

vars == <<bin, by, pc, version, cr, retried, loaded, ok>>

(* One field: its table, its part, and the versions that have it. *)
F(table, part, lo, hi) == [table |-> table, part |-> part, lo |-> lo, hi |-> hi]

Pair(table, lo, hi) == << F(table, "count", lo, hi), F(table, "ptr", lo, hi) >>

(* The fields Il2CppCodeRegistration::read reads, in its order. *)
AllFields ==
  Pair("method_pointers", 0, 2410) \o Pair("delegate_native", 0, 2100)
  \o Pair("reverse_pinvoke", 2200, 99900) \o Pair("delegate_managed", 0, 2200)
  \o Pair("marshaling", 0, 2200) \o Pair("ccw", 2100, 2200)
  \o Pair("generic_method_pointers", 0, 99900)
  \o << F("thunks", "ptr", 2450, 99900) >>
  \o Pair("invoker_pointers", 0, 99900) \o Pair("custom_attributes", 0, 2450)
  \o Pair("guids", 2100, 2200) \o Pair("virtual_calls", 2200, 99900)
  \o << F("instance_calls", "ptr", 2910, 99900), F("static_calls", "ptr", 2910, 99900) >>
  \o Pair("interop", 2300, 99900) \o Pair("winrt", 2430, 99900)
  \o Pair("code_gen_modules", 2420, 99900)

Layout(v) == SelectSeq(AllFields, LAMBDA f : f.lo <= v /\ v <= f.hi)

(* The position of a field in the layout of a version, from 0. *)
Position(v, table, part) ==
  (CHOOSE k \in 1 .. Len(Layout(v)) :
     Layout(v)[k].table = table /\ Layout(v)[k].part = part) - 1

(* The tables init reads from the structure. *)
Read(v) == {"generic_method_pointers", "invoker_pointers"}
           \cup (IF v <= 2410 THEN {"method_pointers"} ELSE {})
           \cup (IF v <= 2450 THEN {"custom_attributes"} ELSE {})
           \cup (IF v >= 2420 THEN {"code_gen_modules"} ELSE {})

(* The word at an address: its class, and the table it belongs to. *)
Word(a) ==
  IF a < 0 THEN [table |-> "before", part |-> "none", class |-> bin.before]
  ELSE IF a >= Len(Layout(bin.tv)) THEN [table |-> "after", part |-> "none", class |-> bin.after]
  ELSE LET f == Layout(bin.tv)[a + 1] IN
       [table |-> f.table, part |-> f.part,
        class |-> IF f.table \in bin.empty THEN "zero"
                  ELSE IF f.part = "ptr" \/ f.table \in bin.huge THEN "big" ELSE "few"]

(* What read finds in a field of a structure taken to start at cr. *)
Found(v, a, table, part) == Word(a + Position(v, table, part))

(* Mutant: the scan takes the field it found for the structure. *)
StepBackNone(v) == 0

(* Where the section scan puts the structure (find_code_registration_2019; *)
(* older layouts start with the counter that is searched for).             *)
StepBack(v) == IF v >= 2910 THEN 16 ELSE IF v >= 2900 THEN 14 ELSE 13

ScanAddress(v) ==
  IF v >= 2420 THEN Position(bin.tv, "code_gen_modules", "ptr") - StepBack(v) ELSE 0

Init ==
  /\ bin \in [mv : {p[1] : p \in Claims}, tv : {p[2] : p \in Claims}, empty : Empties,
              huge : {{}, {"generic_method_pointers"}}, before : Borders, after : Borders]
  /\ <<bin.mv, bin.tv>> \in Claims
  /\ by \in {"scan", "exact"}
  /\ pc = "locate" /\ version = bin.mv /\ cr = 0 /\ retried = FALSE
  /\ loaded = << >> /\ ok = FALSE

(* The scan, or a symbol, a code pattern or the user, gives the address. *)
Locate ==
  /\ pc = "locate"
  /\ cr' = IF by = "scan" THEN ScanAddress(version) ELSE 0
  /\ pc' = "refine"
  /\ UNCHANGED <<bin, by, version, retried, loaded, ok>>

Over(v, a, table) == Found(v, a, table, "count").class = "big"

At(v, a) == [v |-> v, a |-> a]

(* Mutant: the pointer for the adjustor thunks of 24.5 is forgotten. *)
Heuristic244NoThunks(a) ==
  IF Over(2440, a, "reverse_pinvoke") THEN At(2450, a - 2) ELSE At(2440, a - 2)

(* Version 24.4 always lies two pointers before the address of the scan; a *)
(* pointer where the count of wrappers is expected means 24.5, whose       *)
(* adjustor thunks put it one pointer further.                             *)
Heuristic244(a) ==
  IF Over(2440, a, "reverse_pinvoke") THEN At(2450, a - 3) ELSE At(2440, a - 2)

(* Too many generic method pointers mean that a word of 29.1 was read. *)
Heuristic29(a) ==
  IF Over(2900, a, "generic_method_pointers") THEN At(2910, a - 2) ELSE At(2900, a)

(* The same test moves 31; a plausible count makes it 29 (whose own test,  *)
(* on the same count, then fails).                                         *)
Heuristic31(a) ==
  IF Over(3100, a, "generic_method_pointers") THEN At(3100, a - 2) ELSE At(2900, a)

Heuristic27(a) ==
  IF Over(2700, a, "reverse_pinvoke") THEN At(2710, a - 1) ELSE At(2700, a)

Heuristic242(a) ==
  IF Found(2420, a, "interop", "count").class = "zero" THEN At(2430, a - 2) ELSE At(2420, a)

(* apply_auto_plus_heuristics: the version and the address it settles on.  *)
(* The structure is read once, in the layout of the version v at a.        *)
Heuristics(v, a) ==
  CASE v = 3100 -> Heuristic31(a)
    [] v = 2900 -> Heuristic29(a)
    [] v = 2700 -> Heuristic27(a)
    [] v = 2440 -> Heuristic244(a)
    [] v = 2420 -> Heuristic242(a)
    [] OTHER    -> At(v, a)

(* refine_code_registration. *)
Refine ==
  /\ pc = "refine"
  /\ LET h == IF version >= 2420 THEN Heuristics(version, cr) ELSE At(version, cr)
     IN  version' = h.v /\ cr' = h.a
  /\ pc' = "init"
  /\ UNCHANGED <<bin, by, retried, loaded, ok>>

(* The table a count and a pointer together deliver: none without entries, *)
(* the table both belong to, or a mixture.                                 *)
Delivered(v, a, table) ==
  LET c == Found(v, a, table, "count")  p == Found(v, a, table, "ptr") IN
    IF c.class = "zero" \/ p.class = "zero" THEN "nothing"
    ELSE IF c.table = p.table /\ c.part = "count" /\ p.part = "ptr" THEN c.table
    ELSE "mixture"

(* The tables only Elf::init reads; from_elf drops them. *)
ReadByElf(v) == IF v >= 2200 THEN {"reverse_pinvoke", "virtual_calls"} ELSE {}

(* init.  Reading what is not the table it is taken for may or may not be  *)
(* noticed; everything else can be read.  A failure under 31 is tried      *)
(* again, at the same address, as 29.                                      *)
InitTables ==
  /\ pc = "init"
  /\ LET read == [t \in Read(version) |-> Delivered(version, cr, t)] IN
       \/ /\ loaded' = read /\ ok' = TRUE /\ pc' = "done"
          /\ UNCHANGED <<version, retried>>
       \/ /\ \E t \in Read(version) \cup ReadByElf(version) :
               Delivered(version, cr, t) \notin {t, "nothing"}
          /\ IF bin.mv = 3100 /\ version # 2900
             THEN version' = 2900 /\ retried' = TRUE /\ UNCHANGED <<pc, loaded, ok>>
             ELSE pc' = "done" /\ loaded' = << >> /\ ok' = FALSE /\ UNCHANGED <<version, retried>>
  /\ UNCHANGED <<bin, by, cr>>

Done == pc = "done" /\ UNCHANGED vars

Next == Locate \/ Refine \/ InitTables \/ Done

Spec == Init /\ [][Next]_vars

-----------------------------------------------------------------------------
(* Properties *)

(* The address in use is always close to the structure. *)
TypeOK ==
  /\ pc \in {"locate", "refine", "init", "done"}
  /\ version \in Nat /\ cr \in -4 .. 3
  /\ ok \in BOOLEAN /\ retried \in BOOLEAN

(* The tables the binary really has. *)
Truth(t) == IF t \in bin.empty THEN "nothing" ELSE t

Right == /\ ok
         /\ DOMAIN loaded = Read(bin.tv)
         /\ \A t \in DOMAIN loaded : loaded[t] = Truth(t)

(* The binaries that are read right.  By scan: layouts older than 24.2;    *)
(* 24.2 if the count of interop data, by which it is told from 24.3, is    *)
(* not 0, and 24.3 under a metadata version of 24.2 if the count read for  *)
(* it, that of the winrt table, is; 24.4 and 29 if the number of generic   *)
(* methods is below the limit; 24.5 under 24.4, and 29.1 under 29; 27 and  *)
(* 27.1 under 27 if there are reverse p/invoke wrappers; and 29.1 and all  *)
(* later versions but 31.  At an exact address: the version the metadata   *)
(* states, unless a heuristic takes it for another one; 27.1 under 27; and *)
(* the 29 era under 31.                                                    *)
(*                                                                         *)
(* What is missing here is read wrong, although the README of              *)
(* il2cpp-dumper-rs lists all versions from 16 to 39 as supported; 31 over *)
(* its own layout, however found, is among it, and so are 24.3, 24.5, 27.1 *)
(* and 27.2 by scan, when the metadata says so, and 24.4 at an exact       *)
(* address.                                                                *)
ReadRight ==
  LET mv == bin.mv  tv == bin.tv  few == bin.huge = {} IN
  IF by = "scan"
  THEN \/ mv < 2420
       \/ mv = 2420 /\ tv = 2420 /\ "interop" \notin bin.empty
       \/ mv = 2420 /\ tv = 2430 /\ "winrt" \in bin.empty
       \/ mv = 2440 /\ (tv = 2450 \/ few)
       \/ mv = 2700 /\ "reverse_pinvoke" \notin bin.empty
       \/ mv = 2900 /\ (tv = 2910 \/ few)
       \/ mv >= 2910 /\ mv # 3100
  ELSE \/ tv = mv /\ mv \notin {2420, 2440, 2900, 3100}
       \/ mv = 2420 /\ tv = 2420 /\ "interop" \notin bin.empty
       \/ mv = 2700 /\ tv = 2710
       \/ tv = 2900 /\ few

(* Exactly these are read right, of all binaries: init succeeds and each   *)
(* table holds the binary's own table, so that the code_gen_modules found  *)
(* by the scan lead to the method pointers of every assembly.  In every    *)
(* other case init fails or a table is not the binary's own.               *)
RightTables == pc = "done" => (Right <=> ReadRight)

(* A metadata version of 31 is supported, over its own layout as over a    *)
(* structure of the 29 era, whatever way the address was found.            *)
Refined31 == pc = "done" /\ bin.mv = 3100 /\ bin.huge = {} => Right
=============================================================================
