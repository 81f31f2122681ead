---------------------------- MODULE StructInfos ----------------------------
(***************************************************************************)
(* The first half of StructGenerator::build_header: the unique names of    *)
(* the types, the names of the generic instances, the parallel map that    *)
(* makes a StructInfo of every type, the merge of its array classes, and   *)
(* the worklist of generic instances with what parse_type discovers.       *)
(*                                                                         *)
(* A struct name is a sequence: "List_1" with the suffix "_2" is           *)
(* <<"List_1", 2>>, and so is a type of that very name.                    *)
(***************************************************************************)
EXTENDS Naturals, Integers, Sequences, SequencesExt, FiniteSets

CONSTANTS
  Programs,  \* inputs: [listed, types, insts, params]
  Threads,   \* threads of the rayon pool
  NoType     \* what an unbound type parameter stands for

(* The type of a field, as far as it matters here: an array of a class or  *)
(* of something else (by datapoint, an index or not), of pointers to it or *)
(* of a type parameter (by its index in the table of all parameters); the  *)
(* generic instance at a pointer; anything else.                           *)
Field == [kind : {"array", "ptrarray", "vararray", "generic", "other"}, of : Nat]

(* What the constants are assumed to be: the images list some of the types *)
(* once each, in any order; params gives the number a parameter has in its *)
(* own class; an instance (an entry of il2cpp.types) has its class, its    *)
(* arguments and its specialised name, and may be unreadable; a generic    *)
(* field is of a type of il2cpp.types.                                     *)
InfosAssumption ==
  /\ Threads \in Nat \ {0}
  /\ \A p \in Programs :
       /\ IsInjective(p.listed) /\ Range(p.listed) \subseteq DOMAIN p.types
       /\ p.params \in Seq(Nat)
       /\ \A t \in DOMAIN p.types :
            /\ p.types[t].fields \in Seq(Field)
            /\ \A f \in Range(p.types[t].fields) :
                 /\ f.kind = "generic" => \E x \in Range(p.insts) : x.ptr = f.of
                 /\ f.kind = "vararray" => f.of < Len(p.params)
       /\ \A x \in Range(p.insts) :
            x.ptr \in Nat /\ x.def \in Nat /\ x.args \in Seq(Nat) /\ x.readable \in BOOLEAN
       /\ \A i, j \in DOMAIN p.insts : p.insts[i].ptr = p.insts[j].ptr => p.insts[i] = p.insts[j]

VARIABLES
  md,         \* the input
  dic,        \* struct_name_dic: type -> name
  generics,   \* generic_class_struct_name_dic: pointer -> name
  taken,      \* types a thread is at work on
  results,    \* the finished ones: [infos, arrays]
  merged,     \* how many of them are merged
  infos,      \* struct_info_list
  arrays,     \* array_classes: name -> element type of the first fragment
  names,      \* struct_name_hash_set
  list,       \* generic_class_list
  processed,  \* how many of the list are done
  round,      \* the end of the list when this round of the loop began
  found,      \* newly_discovered
  pc

vars == <<md, dic, generics, taken, results, merged, infos, arrays, names, list, processed,
          round, found, pc>>

-----------------------------------------------------------------------------
(* get_unique_name: the name, or the first suffixed one that is free. *)
UniqueName(name, used) ==
  IF name \notin used THEN name
  ELSE Append(name, CHOOSE i \in 1 .. Cardinality(used) + 1 :
                      /\ Append(name, i) \notin used
                      /\ \A j \in 1 .. i - 1 : Append(name, j) \in used)

(* build_struct_name_dic, over the types in the order of the images *)
StructNameDic(p) ==
  FoldLeft(LAMBDA d, t : d @@ (t :> UniqueName(p.types[t].name, Range(d))),
           [t \in {} |-> << >>], p.listed)

(* The specialised name: the raw name of the class in its unique name is   *)
(* replaced by that of the instance, the suffix stays.                     *)
Specialised(p, d, x) ==
  x.name \o SubSeq(d[x.def], Len(p.types[x.def].name) + 1, Len(d[x.def]))

(* The instances the loop over il2cpp.types gets as far as naming. *)
Named(d, x) == x.ptr # 0 /\ x.readable /\ x.def \in DOMAIN d

Inst(p, ptr) == CHOOSE x \in Range(p.insts) : x.ptr = ptr

GenericNameDic(p, d) ==
  [ptr \in {x.ptr : x \in {y \in Range(p.insts) : Named(d, y)}} |->
     Specialised(p, d, Inst(p, ptr))]

(* resolve_generic_type_var; outside a generic class there are no args. *)
Resolve(args, n) == IF n + 1 \in DOMAIN args THEN args[n + 1] ELSE NoType

IsArray(f) == f.kind \in {"array", "ptrarray", "vararray"}

(* get_il2cpp_struct_name of the element: a pointer has the name of what   *)
(* it points to, a type parameter is looked up under its index in the      *)
(* table of all parameters.                                                *)
ArrayName(f, args) ==
  LET c == IF f.kind = "vararray" THEN Resolve(args, f.of) ELSE f.of IN
    IF c \in DOMAIN dic THEN dic[c] ELSE <<"System_Object">>

(* parse_array_class_struct by its element, which parse_type looks up      *)
(* under the number the parameter has in its class.                        *)
Fragment(f, args) ==
  [element |-> IF f.kind = "vararray" THEN Resolve(args, md.params[f.of + 1]) ELSE f.of,
   pointer |-> f.kind = "ptrarray"]

(* add_fields: the array classes of the fields, the first of a name kept. *)
ArraysOf(fields, args, before) ==
  FoldLeft(LAMBDA acc, f :
             IF IsArray(f) THEN acc @@ (ArrayName(f, args) :> Fragment(f, args)) ELSE acc,
           before, fields)

(* Mutant: a generic instance is put on the list whenever it is met. *)
DiscoverAlways(fields, acc) ==
  FoldLeft(LAMBDA a, f :
             IF f.kind = "generic" /\ f.of \in DOMAIN generics
             THEN [names |-> a.names \cup {generics[f.of]}, found |-> Append(a.found, f.of)]
             ELSE a, acc, fields)

(* parse_type in a generic class: the name of an instance that is not in   *)
(* the set yet is entered and the instance put on newly_discovered.        *)
Discover(fields, acc) ==
  FoldLeft(LAMBDA a, f :
             IF f.kind = "generic" /\ f.of \in DOMAIN generics
                  /\ generics[f.of] \notin a.names
             THEN [names |-> a.names \cup {generics[f.of]}, found |-> Append(a.found, f.of)]
             ELSE a, acc, fields)

(* The job of a type: nothing if no image lists it. *)
BaseJob(t) ==
  IF t \in DOMAIN dic
  THEN [infos |-> <<[name |-> dic[t], of |-> t]>>,
        arrays |-> ArraysOf(md.types[t].fields, << >>, << >>)]
  ELSE [infos |-> << >>, arrays |-> << >>]

-----------------------------------------------------------------------------
Init ==
  /\ md \in Programs /\ dic = StructNameDic(md) /\ generics = GenericNameDic(md, dic)
  /\ taken = {} /\ results = [t \in {} |-> << >>] /\ merged = 0
  /\ infos = << >> /\ arrays = << >>
  /\ names = {} /\ list = << >> /\ processed = 0 /\ round = 0 /\ found = << >>
  /\ pc = "map"

(* A thread takes a type, and returns its StructInfo. *)
Take ==
  /\ pc = "map"
  /\ Cardinality(taken) < Threads
  /\ \E t \in DOMAIN md.types \ (taken \cup DOMAIN results) : taken' = taken \cup {t}
  /\ UNCHANGED <<md, dic, generics, results, merged, infos, arrays, names, list, processed, round, found, pc>>

Finish ==
  /\ pc = "map"
  /\ \E t \in taken :
       /\ taken' = taken \ {t}
       /\ results' = results @@ (t :> BaseJob(t))
  /\ pc' = IF DOMAIN results' = DOMAIN md.types THEN "merge" ELSE "map"
  /\ UNCHANGED <<md, dic, generics, merged, infos, arrays, names, list, processed, round, found>>

(* Mutant: insert in the place of entry().or_insert(). *)
MergeLastWins ==
  /\ pc = "merge"
  /\ merged < Len(md.types)
  /\ merged' = merged + 1
  /\ infos' = infos \o results[merged + 1].infos
  /\ arrays' = results[merged + 1].arrays @@ arrays
  /\ UNCHANGED <<md, dic, generics, taken, results, names, list, processed, round, found, pc>>

(* The loop over base_results. *)
Merge ==
  /\ pc = "merge"
  /\ merged < Len(md.types)
  /\ merged' = merged + 1
  /\ infos' = infos \o results[merged + 1].infos
  /\ arrays' = arrays @@ results[merged + 1].arrays
  /\ UNCHANGED <<md, dic, generics, taken, results, names, list, processed, round, found, pc>>

(* The initial worklist: of the named instances in the order of            *)
(* il2cpp.types, those whose name neither a type nor an earlier one has.   *)
Seed ==
  /\ pc = "merge"
  /\ merged = Len(md.types)
  /\ LET seeded == FoldLeft(LAMBDA acc, x :
                      IF x.ptr \in DOMAIN generics /\ generics[x.ptr] \notin acc.names
                      THEN [names |-> acc.names \cup {generics[x.ptr]},
                            list |-> Append(acc.list, x.ptr)]
                      ELSE acc, [names |-> Range(dic), list |-> << >>], md.insts)
     IN  /\ names' = seeded.names
         /\ list' = seeded.list
         /\ round' = Len(seeded.list)
  /\ pc' = "generics"
  /\ UNCHANGED <<md, dic, generics, taken, results, merged, infos, arrays, processed, found>>

(* One generic class of the round. *)
Process ==
  /\ pc = "generics"
  /\ processed < round
  /\ LET ptr == list[processed + 1]
         inst == Inst(md, ptr)
         fields == md.types[inst.def].fields
         seen == Discover(fields, [names |-> names, found |-> found])
     IN  /\ infos' = Append(infos, [name |-> generics[ptr], of |-> inst.def])
         /\ arrays' = ArraysOf(fields, inst.args, arrays)
         /\ names' = seen.names
         /\ found' = seen.found
  /\ processed' = processed + 1
  /\ UNCHANGED <<md, dic, generics, taken, results, merged, list, round, pc>>

(* The end of a round: the discovered instances make up the next one, and  *)
(* the loop is left when there are none.                                   *)
Drain ==
  /\ pc = "generics"
  /\ processed = round
  /\ list' = list \o found
  /\ found' = << >>
  /\ round' = Len(list')
  /\ pc' = IF processed = round' THEN "done" ELSE "generics"
  /\ UNCHANGED <<md, dic, generics, taken, results, merged, infos, arrays, names, processed>>

Done == pc = "done" /\ UNCHANGED vars

Next == Take \/ Finish \/ Merge \/ Seed \/ Process \/ Drain \/ Done

Spec == Init /\ [][Next]_vars /\ WF_vars(Next)

-----------------------------------------------------------------------------
(* Properties *)

(* The counters stay inside their lists and the loop is never behind the   *)
(* round it began.                                                         *)
TypeOK ==
  /\ md \in Programs
  /\ Cardinality(taken) <= Threads
  /\ DOMAIN results \subseteq DOMAIN md.types /\ merged \in 0 .. Len(md.types)
  /\ processed \in 0 .. round /\ round \in 0 .. Len(list)
  /\ Range(list) \cup Range(found) \subseteq {md.insts[i].ptr : i \in DOMAIN md.insts}
  /\ pc \in {"map", "merge", "generics", "done"}

(* The same by a plain loop: the listed types by index, then the first     *)
(* instance of each name that is not a type's, in the order of the table.  *)
NewName(i) ==
  LET ptr(j) == md.insts[j].ptr IN
    /\ ptr(i) \in DOMAIN generics
    /\ generics[ptr(i)] \notin Range(dic)
    /\ \A j \in 1 .. i - 1 : ptr(j) \in DOMAIN generics => generics[ptr(j)] # generics[ptr(i)]
FirstOf(fields, args) ==
  LET at(n) == {k \in DOMAIN fields : IsArray(fields[k]) /\ ArrayName(fields[k], args) = n}
  IN  [n \in {ArrayName(f, args) : f \in {g \in Range(fields) : IsArray(g)}} |->
         Fragment(fields[CHOOSE k \in at(n) : \A l \in at(n) : k <= l], args)]
Sequential ==
  LET Job(name, t, args) == [text |-> <<[name |-> name, of |-> t]>>,
                             keyed |-> FirstOf(md.types[t].fields, args)]
      new == SelectSeq([i \in DOMAIN md.insts |-> i], NewName)
  IN  [t \in DOMAIN md.types |->
         IF t \in DOMAIN dic THEN Job(dic[t], t, << >>) ELSE [text |-> << >>, keyed |-> << >>]]
      \o [n \in DOMAIN new |->
            LET x == md.insts[new[n]] IN Job(generics[x.ptr], x.def, x.args)]

(* When the loop is left, every name a field of the header can mention has *)
(* exactly one StructInfo: no name is defined twice, every named instance  *)
(* is defined, and the names are those of struct_name_hash_set.  Until     *)
(* then nothing is discovered that the initial list does not have: both    *)
(* come from il2cpp.types, and the loop makes a single round.              *)
StructsComplete ==
  /\ found = << >>
  /\ pc = "done" =>
    /\ \A i, j \in DOMAIN infos : infos[i].name = infos[j].name => i = j
    /\ {infos[i].name : i \in DOMAIN infos} = names
    /\ Range(generics) \subseteq names
    /\ \A t \in Range(md.listed) : \E i \in DOMAIN infos : infos[i].of = t

(* The worklist is exhausted although it may grow while it is processed. *)
Ends == pc = "map" ~> pc = "done"
=============================================================================
