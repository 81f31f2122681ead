--------------------------- MODULE IndexPipeline ---------------------------
(***************************************************************************)
(* From script.json to a runtime address: the row builder of               *)
(* il2cpp_index.py (build) followed by the binary search of                *)
(* lxgr_il2cpp.c (lookup).                                                 *)
(***************************************************************************)
EXTENDS IndexNames

CONSTANTS
  Addresses,  \* the values of an "Address" member
  MaxEntries  \* bound: entries of the script

ASSUME PipelineAssumption == Addresses \subseteq Int /\ MaxEntries \in Nat

VARIABLES
  script,   \* build: entries, the (name, addr) pairs in file order
  i,        \* build: entries consumed
  seen,     \* build: seen
  rows,     \* build: rows, then the emitted (hash, rva) arrays
  key,      \* lookup: name
  lo, hi,   \* lookup: lo, hi (array indices, from 0)
  answer,   \* lookup: the value returned
  phase

pipelineVars == <<script, i, seen, rows, key, lo, hi, answer, phase>>

Entry == [name : Names, addr : Addresses]
PipelineRow == [hash : Nat, rva : 0 .. Word - 1]
Scripts == UNION {[1 .. n -> Entry] : n \in 0 .. MaxEntries}

Valid(e) == e.name # NoName /\ e.addr > 0

RowOf(e) == [hash |-> Hash[e.name], rva |-> e.addr % Word]

PipelineInit ==
  /\ script \in Scripts
  /\ key \in Names
  /\ i = 0 /\ seen = {} /\ rows = << >>
  /\ lo = 0 /\ hi = -1 /\ answer = 0
  /\ phase = "build"

-----------------------------------------------------------------------------
(* build *)

(* Mutant: the last of several entries with one hash wins a place too. *)
TakeDup ==
  /\ phase = "build" /\ i < Len(script)
  /\ i' = i + 1
  /\ LET e == script[i + 1] IN
       IF Valid(e)
         THEN /\ seen' = seen \cup {Hash[e.name]}
              /\ rows' = Append(rows, RowOf(e))
         ELSE UNCHANGED <<seen, rows>>
  /\ UNCHANGED <<script, key, lo, hi, answer, phase>>

Take ==
  /\ phase = "build" /\ i < Len(script)
  /\ i' = i + 1
  /\ LET e == script[i + 1] IN
       IF Valid(e) /\ Hash[e.name] \notin seen
         THEN /\ seen' = seen \cup {Hash[e.name]}
              /\ rows' = Append(rows, RowOf(e))
         ELSE UNCHANGED <<seen, rows>>
  /\ UNCHANGED <<script, key, lo, hi, answer, phase>>

Ascending(s) == \A a, b \in DOMAIN s : a < b => s[a].hash < s[b].hash

(* Mutant: the rows are emitted in script order. *)
SortForgotten ==
  /\ phase = "build" /\ i = Len(script)
  /\ lo' = 0 /\ hi' = Len(rows) - 1
  /\ phase' = "search"
  /\ UNCHANGED <<script, i, seen, rows, key, answer>>

(* Mutant: hi starts at n. *)
SortHiLen ==
  /\ phase = "build" /\ i = Len(script)
  /\ \E s \in [DOMAIN rows -> {rows[a] : a \in DOMAIN rows}] : Ascending(s) /\ rows' = s
  /\ lo' = 0 /\ hi' = Len(rows)
  /\ phase' = "search"
  /\ UNCHANGED <<script, i, seen, key, answer>>

(* rows.sort(key = hash), then the arrays are emitted and lookup is        *)
(* called on them.  The hashes of rows are distinct, so there is one       *)
(* ascending arrangement.                                                  *)
Sort ==
  /\ phase = "build" /\ i = Len(script)
  /\ \E s \in [DOMAIN rows -> {rows[a] : a \in DOMAIN rows}] :
       /\ Ascending(s)
       /\ \A a \in DOMAIN rows : \E b \in DOMAIN rows : s[b] = rows[a]
       /\ rows' = s
  /\ lo' = 0 /\ hi' = Len(rows) - 1
  /\ phase' = "search"
  /\ UNCHANGED <<script, i, seen, key, answer>>

-----------------------------------------------------------------------------
(* lookup *)

Mid == (lo + hi) \div 2

(* Mutant: lo is set to mid. *)
ProbeStuck ==
  /\ phase = "search" /\ lo <= hi
  /\ LET k == rows[Mid + 1].hash IN
       \/ k < Hash[key] /\ lo' = Mid /\ UNCHANGED <<hi, answer, phase>>
       \/ k > Hash[key] /\ hi' = Mid - 1 /\ UNCHANGED <<lo, answer, phase>>
       \/ k = Hash[key] /\ answer' = rows[Mid + 1].rva /\ phase' = "done"
          /\ UNCHANGED <<lo, hi>>
  /\ UNCHANGED <<script, i, seen, rows, key>>

(* Mutant: the two comparisons are swapped. *)
ProbeSwapped ==
  /\ phase = "search" /\ lo <= hi
  /\ LET k == rows[Mid + 1].hash IN
       \/ k > Hash[key] /\ lo' = Mid + 1 /\ UNCHANGED <<hi, answer, phase>>
       \/ k < Hash[key] /\ hi' = Mid - 1 /\ UNCHANGED <<lo, answer, phase>>
       \/ k = Hash[key] /\ answer' = rows[Mid + 1].rva /\ phase' = "done"
          /\ UNCHANGED <<lo, hi>>
  /\ UNCHANGED <<script, i, seen, rows, key>>

Probe ==
  /\ phase = "search" /\ lo <= hi
  /\ LET k == rows[Mid + 1].hash IN
       \/ k < Hash[key] /\ lo' = Mid + 1 /\ UNCHANGED <<hi, answer, phase>>
       \/ k > Hash[key] /\ hi' = Mid - 1 /\ UNCHANGED <<lo, answer, phase>>
       \/ k = Hash[key] /\ answer' = rows[Mid + 1].rva /\ phase' = "done"
          /\ UNCHANGED <<lo, hi>>
  /\ UNCHANGED <<script, i, seen, rows, key>>

Miss ==
  /\ phase = "search" /\ lo > hi
  /\ answer' = 0 /\ phase' = "done"
  /\ UNCHANGED <<script, i, seen, rows, key, lo, hi>>

PipelineNext == Take \/ Sort \/ Probe \/ Miss

PipelineSpec == PipelineInit /\ [][PipelineNext]_pipelineVars /\ WF_pipelineVars(PipelineNext)

-----------------------------------------------------------------------------
(* Properties *)

(* Entry j is the first valid one with its hash. *)
FirstEntry(j) ==
  /\ Valid(script[j])
  /\ \A k \in 1 .. j - 1 : Valid(script[k]) => Hash[script[k].name] # Hash[script[j].name]

(* The loops stay inside their arrays: build's cursor and rows, and        *)
(* lookup's lo and hi, whose midpoint is read without a bounds check.      *)
PipelineTypeOK ==
  /\ script \in Scripts
  /\ key \in Names
  /\ i \in 0 .. Len(script)
  /\ seen \subseteq Nat
  /\ rows \in Seq(PipelineRow) /\ Len(rows) <= i
  /\ lo \in 0 .. Len(rows) /\ hi \in -1 .. Len(rows) - 1
  /\ lo <= hi => Mid \in 0 .. Len(rows) - 1
  /\ answer \in 0 .. Word - 1
  /\ phase \in {"build", "search", "done"}

(* build keeps exactly the first valid entry of every hash: seen is the    *)
(* set of hashes of the valid entries so far, each has a row, every row is *)
(* made from the first entry of its hash, and the emitted rows ascend.     *)
RowsOfFirsts ==
  /\ seen = {Hash[script[j].name] : j \in {k \in 1 .. i : Valid(script[k])}}
  /\ \A r \in 1 .. Len(rows) : \E j \in 1 .. i : FirstEntry(j) /\ rows[r] = RowOf(script[j])
  /\ \A h \in seen : \E r \in 1 .. Len(rows) : rows[r].hash = h
  /\ phase # "build" => Ascending(rows) /\ i = Len(script)

(* The probes discard only rows that cannot match. *)
Narrowing ==
  phase = "search" => \A r \in 1 .. Len(rows) : rows[r].hash = Hash[key] => r - 1 \in lo .. hi

(* What lookup returns for a name of the script or any other: the          *)
(* truncated address of the first valid entry with the name's hash, and 0  *)
(* exactly when there is none or that rva is 0.                            *)
LookupCorrect ==
  phase = "done" =>
    \/ \E j \in 1 .. Len(script) :
         FirstEntry(j) /\ Hash[script[j].name] = Hash[key] /\ answer = script[j].addr % Word
    \/ /\ answer = 0
       /\ \A j \in 1 .. Len(script) : Valid(script[j]) => Hash[script[j].name] # Hash[key]

(* The search interval shrinks with every probe, so lookup makes at most   *)
(* as many probes as there are rows.                                       *)
Shrinks == [][phase = "search" /\ phase' = "search" => hi' - lo' < hi - lo]_pipelineVars

(* Every query ends. *)
PipelineEnds == <>(phase = "done")
=============================================================================
