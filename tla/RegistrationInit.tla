-------------------------- MODULE RegistrationInit --------------------------
(***************************************************************************)
(* How il2cpp-dumper-rs finds the two registrations of a binary and loads  *)
(* their tables: the strategies of init_elf, init_pe, init_macho, init_nso *)
(* and init_wasm (main.rs), init_with_auto_plus with its second try as     *)
(* version 29, and the table loads of Elf::init (elf.rs) and Il2Cpp::init  *)
(* (base.rs) one by one.                                                   *)
(*                                                                         *)
(* init_elf tries its strategies on one Elf object; the other formats make *)
(* a new Il2Cpp object for an attempt.  A candidate's registrations are    *)
(* whatever lies at the addresses found: each table is absent (no entries),*)
(* loads, or fails to load.  Versions are in hundredths.                   *)
(***************************************************************************)
EXTENDS Naturals, Sequences, FiniteSets

CONSTANTS
  Formats,     \* the formats tried, of "elf", "pe", "macho", "nso"
  Versions,    \* metadata versions
  Tables,      \* the tables followed
  Modules      \* names of code generation modules

(* What the constants are assumed to be. *)
TablesAssumption ==
  /\ Formats \subseteq {"elf", "pe", "macho", "nso"}
  /\ Versions \subseteq Nat
  /\ {"gmp", "gmt", "ms"} \subseteq Tables
  /\ Tables \subseteq {"mp", "gmp", "ip", "cag", "mu", "rpw", "uvc",
                      "types", "fo", "sizes", "gi", "gmt", "ms"}

VARIABLES
  fmt, codm, mv,  \* the binary and the metadata
  pc,
  todo,     \* strategies not tried yet
  by,       \* the strategy of the current attempt
  version,  \* stream.version of the object
  attempts, \* candidates found so far
  plan,     \* the loads left in this init
  owner,    \* the strategy whose candidate each table was filled from
  lookup,   \* owners of the tables the method spec lookup was built from
  mods,     \* the strategy each module name was filled from
  failed    \* loads of this attempt that failed and were passed over

vars == <<fmt, codm, mv, pc, todo, by, attempts, version, plan, owner, lookup, mods, failed>>
job  == <<fmt, codm, mv>>

Strategies == {"scan", "symbol", "pattern", "manual"}

(* The strategies of each format in order: "pattern" stands for the ARM32  *)
(* search of ELF and the __mod_init_func search of Mach-O.  NSO and WASM   *)
(* go the same way.                                                        *)
ElfOrder   == << "scan", "symbol", "pattern", "manual" >>
PeOrder    == << "symbol", "scan", "manual" >>
MachOOrder == << "symbol", "pattern", "scan", "manual" >>
NsoOrder   == << "scan", "manual" >>

Order(f) == CASE f = "elf" -> ElfOrder [] f = "pe" -> PeOrder
              [] f = "macho" -> MachOOrder [] f = "nso" -> NsoOrder

None == "none"

NoTables == [t \in Tables |-> None]

NoLookup == [gmt |-> None, ms |-> None, gmp |-> None]

NewObject ==
  /\ owner' = NoTables /\ lookup' = NoLookup /\ mods' = [m \in Modules |-> None]
  /\ version' = mv

-----------------------------------------------------------------------------
(* The loads of one init, in order.  A load is named for its table; "cr"   *)
(* and "mr" read the registrations, "lookup" builds the lookup.            *)

(* A table that is not followed has no load. *)
Load(name, when) == IF when /\ name \in Tables THEN << name >> ELSE << >>

Always(name) == Load(name, TRUE)

ModulesLoad(v) == IF v >= 2420 THEN << "modules" >> ELSE << >>

ElfPlan(v) ==
  << "cr", "mr" >> \o Load("mp", v <= 2410) \o Always("gmp") \o Always("ip")
  \o Load("cag", v < 2700) \o Load("mu", 1600 < v /\ v < 2700)
  \o Load("rpw", v >= 2200) \o Load("uvc", v >= 2200)
  \o Always("types") \o Always("fo") \o Always("sizes") \o Always("gi")
  \o Always("gmt") \o Always("ms") \o << "lookup" >> \o ModulesLoad(v)

BasePlan(v) ==
  << "mr" >> \o Always("types") \o Always("gi") \o Always("ms") \o Always("gmt") \o << "cr" >>
  \o Load("mp", v <= 2410) \o Always("gmp") \o Always("ip")
  \o Load("cag", v < 2700) \o Load("mu", v < 2700)
  \o Always("fo") \o Always("sizes") \o << "lookup" >> \o ModulesLoad(v)

Plan(v) == IF fmt = "elf" THEN ElfPlan(v) ELSE BasePlan(v)

(* Tables assigned even when the registration has no entries: they are     *)
(* emptied.  The others keep what they hold.                               *)
Emptied(t) == t = "types" \/ (fmt = "elf" /\ t \in {"fo", "gi"})

(* Loads that pass over their failure in CODM mode. *)
LenientElf(t) == t \notin {"cr", "mr", "types", "modules"}

LenientBase(t) == t \in {"mp", "gmp", "ip", "cag", "mu", "fo", "sizes"}

Lenient(t) == codm /\ IF fmt = "elf" THEN LenientElf(t) ELSE LenientBase(t)

(* Tables filled entry by entry after they were cleared: a failure leaves  *)
(* a part of the new table.  CODM mode of ELF replaces an entry it cannot  *)
(* read by an empty one.                                                   *)
Piecewise(t) ==
  /\ t \in {"types", "gi", "sizes", "gmt", "ms"}
  /\ ~(codm /\ fmt = "elf" /\ t \in {"types", "gi"})

-----------------------------------------------------------------------------
Init ==
  /\ fmt \in Formats /\ codm \in BOOLEAN /\ mv \in Versions
  /\ pc = "search" /\ todo = Order(fmt) /\ by = None
  /\ attempts = 0 /\ version = mv /\ plan = << >>
  /\ owner = NoTables /\ lookup = NoLookup /\ mods = [m \in Modules |-> None]
  /\ failed = {}

(* The strategy gives no addresses: the next one is tried.  The prompt is  *)
(* the last, and may fail.                                                 *)
FindsNothing ==
  /\ pc = "search" /\ todo # << >>
  /\ todo' = Tail(todo)
  /\ pc' = IF Head(todo) = "manual" THEN "error" ELSE "search"
  /\ UNCHANGED <<job, by, attempts, version, plan, owner, lookup, mods, failed>>

(* Mutant: every attempt works on the object of the one before. *)
FindsReusing ==
  /\ pc = "search" /\ todo # << >>
  /\ by' = Head(todo) /\ todo' = Tail(todo)
  /\ attempts' = attempts + 1
  /\ pc' = "refine"
  /\ UNCHANGED <<job, version, owner, lookup, mods, plan, failed>>

(* The strategy gives two addresses.  All formats but ELF load them into a *)
(* new object.                                                             *)
Finds ==
  /\ pc = "search" /\ todo # << >>
  /\ by' = Head(todo) /\ todo' = Tail(todo)
  /\ attempts' = attempts + 1
  /\ IF fmt = "elf" THEN UNCHANGED <<version, owner, lookup, mods>> ELSE NewObject
  /\ pc' = "refine"
  /\ UNCHANGED <<job, plan, failed>>

(* The versions apply_auto_plus_heuristics can leave (module AutoPlus). *)
Refined(v) ==
  {v} \cup CASE v = 3100 -> {2900} [] v = 2900 -> {2910} [] v = 2700 -> {2710}
             [] v = 2440 -> {2450} [] v = 2420 -> {2430} [] OTHER -> {}

(* The first half of init_with_auto_plus. *)
Refine ==
  /\ pc = "refine"
  /\ version' \in Refined(version)
  /\ plan' = Plan(version')
  /\ failed' = {}
  /\ pc' = "load"
  /\ UNCHANGED <<job, todo, by, attempts, owner, lookup, mods>>

(* Mach-O: the first candidate was wrong, the user is asked for another. *)
AsksAgain == fmt = "macho" /\ attempts = 1

(* Mutant: every failure is tried again as 29. *)
FailsAlways29 ==
  \/ /\ version # 2900
     /\ version' = 2900 /\ plan' = Plan(2900) /\ failed' = {}
     /\ UNCHANGED <<pc, todo>>
  \/ /\ version = 2900
     /\ \/ fmt = "elf" /\ todo # << >> /\ pc' = "search" /\ todo' = todo
        \/ AsksAgain /\ pc' = "search" /\ todo' = << "manual" >>
        \/ /\ ~(fmt = "elf" /\ todo # << >>) /\ ~AsksAgain
           /\ pc' = "error" /\ todo' = todo
     /\ plan' = << >>
     /\ UNCHANGED <<version, failed>>

(* Mutant: the test that the version is not 29 yet is dropped. *)
FailsForever ==
  \/ /\ mv = 3100
     /\ version' = 2900 /\ plan' = Plan(2900) /\ failed' = {}
     /\ UNCHANGED <<pc, todo>>
  \/ /\ mv # 3100
     /\ \/ fmt = "elf" /\ todo # << >> /\ pc' = "search" /\ todo' = todo
        \/ AsksAgain /\ pc' = "search" /\ todo' = << "manual" >>
        \/ /\ ~(fmt = "elf" /\ todo # << >>) /\ ~AsksAgain
           /\ pc' = "error" /\ todo' = todo
     /\ plan' = << >>
     /\ UNCHANGED <<version, failed>>

(* init has failed.  An attempt that is still 31 is made again as 29, on   *)
(* the same object.  After that ELF goes on with the strategies left,      *)
(* Mach-O asks for the addresses once, and the others end.                 *)
Fails ==
  \/ /\ version = 3100
     /\ version' = 2900 /\ plan' = Plan(2900) /\ failed' = {}
     /\ UNCHANGED <<pc, todo>>
  \/ /\ version # 3100
     /\ \/ fmt = "elf" /\ todo # << >> /\ pc' = "search" /\ todo' = todo
        \/ AsksAgain /\ pc' = "search" /\ todo' = << "manual" >>
        \/ /\ ~(fmt = "elf" /\ todo # << >>) /\ ~AsksAgain
           /\ pc' = "error" /\ todo' = todo
     /\ plan' = << >>
     /\ UNCHANGED <<version, failed>>

rest == Tail(plan)
cur  == Head(plan)

Loading(l) == pc = "load" /\ plan # << >> /\ cur = l

(* One of the registrations is read, or init fails. *)
ReadRegistration ==
  /\ Loading("cr") \/ Loading("mr")
  /\ \/ plan' = rest /\ UNCHANGED <<pc, todo, version, failed>>
     \/ Fails
  /\ UNCHANGED <<job, by, attempts, owner, lookup, mods>>

(* One table is absent, loaded, or fails to load.  In CODM mode ELF gives  *)
(* up the rest of load_generics, the lookup included, when the generic     *)
(* instances fail.                                                         *)
LoadTable ==
  /\ pc = "load" /\ plan # << >> /\ cur \in Tables
  /\ \/ /\ owner' = IF Emptied(cur) THEN [owner EXCEPT ![cur] = None] ELSE owner
        /\ plan' = rest
        /\ UNCHANGED <<pc, todo, version, failed>>
     \/ /\ owner' = [owner EXCEPT ![cur] = by]
        /\ plan' = rest
        /\ UNCHANGED <<pc, todo, version, failed>>
     \/ /\ \/ owner' = owner
           \/ Piecewise(cur) /\ owner' = [owner EXCEPT ![cur] = by]
        /\ \/ /\ Lenient(cur)
              /\ failed' = failed \cup {cur}
              /\ plan' = IF fmt = "elf" /\ cur = "gi" THEN ModulesLoad(version) ELSE rest
              /\ UNCHANGED <<pc, todo, version>>
           \/ ~Lenient(cur) /\ Fails
  /\ UNCHANGED <<job, by, attempts, lookup, mods>>

Built == [gmt |-> owner["gmt"], ms |-> owner["ms"], gmp |-> owner["gmp"]]

(* Mutant: entries of an earlier lookup are kept when there are any. *)
BuildLookupOnce ==
  /\ Loading("lookup")
  /\ lookup' = IF lookup = NoLookup THEN Built ELSE lookup
  /\ plan' = rest
  /\ UNCHANGED <<job, pc, todo, by, attempts, version, owner, mods, failed>>

(* build_method_spec_lookup, the last part of load_generics in ELF: both   *)
(* maps are cleared and made again from the three tables.                  *)
BuildLookup ==
  /\ Loading("lookup")
  /\ lookup' = Built
  /\ plan' = rest
  /\ UNCHANGED <<job, pc, todo, by, attempts, version, owner, mods, failed>>

(* load_code_gen_modules inserts the candidate's modules into the maps one *)
(* by one, without clearing them; a module whose pointers cannot be read   *)
(* is inserted with zeros.  A failure leaves the modules before it.        *)
LoadModules ==
  /\ Loading("modules")
  /\ \E names \in SUBSET Modules :
       mods' = [m \in Modules |-> IF m \in names THEN by ELSE mods[m]]
  /\ \/ plan' = rest /\ UNCHANGED <<pc, todo, version, failed>>
     \/ Fails
  /\ UNCHANGED <<job, by, attempts, owner, lookup>>

(* init returns Ok: the object is used.  from_elf copies all the tables    *)
(* but two.                                                                *)
Accept ==
  /\ pc = "load" /\ plan = << >>
  /\ pc' = "done"
  /\ owner' = [t \in Tables |-> IF fmt = "elf" /\ t \in {"rpw", "uvc"} THEN None ELSE owner[t]]
  /\ UNCHANGED <<job, todo, by, attempts, version, plan, lookup, mods, failed>>

Step == FindsNothing \/ Finds \/ Refine \/ ReadRegistration \/ LoadTable \/ BuildLookup \/ LoadModules \/ Accept

Stop == pc \in {"done", "error"} /\ UNCHANGED vars

Next == Step \/ Stop

Spec == Init /\ [][Next]_vars /\ WF_vars(Step)

-----------------------------------------------------------------------------
(* Properties *)

(* An object is of the metadata's version or of one AutoPlus makes of it. *)
TypeOK ==
  /\ pc \in {"search", "refine", "load", "done", "error"}
  /\ by \in Strategies \cup {None}
  /\ version \in {mv} \cup Refined(mv) \cup (IF mv = 3100 THEN {2910} ELSE {})
  /\ owner \in [Tables -> Strategies \cup {None}]
  /\ mods \in [Modules -> Strategies \cup {None}]
  /\ failed \subseteq Tables

(* Whatever was tried before, the lookup from method specs to pointers     *)
(* agrees with the tables it is used with; in CODM mode of an ELF file it  *)
(* may not, when the generic instances fail.                               *)
LookupCurrent ==
  pc = "done" /\ ~(fmt = "elf" /\ "gi" \in failed) => lookup = Built

(* Nothing is used that a rejected candidate has filled, with the          *)
(* exception of ELF, whose strategies share one object: there it holds of  *)
(* the tables that are assigned even without entries, if their load is not *)
(* passed over.                                                            *)
OnlyAccepted ==
  pc = "done" =>
    /\ \A t \in Tables : fmt # "elf" \/ (Emptied(t) /\ t \notin failed) => owner[t] \in {by, None}
    /\ fmt # "elf" => \A m \in Modules : mods[m] \in {by, None}

(* Every input is accepted or refused after finitely many attempts. *)
Termination == <>(pc \in {"done", "error"})
=============================================================================
