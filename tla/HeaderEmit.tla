----------------------------- MODULE HeaderEmit -----------------------------
(***************************************************************************)
(* How build_header (struct_generator.rs) puts the types of a game into    *)
(* il2cpp.h.  With use_topological_sort, CppHeaderEmitter (cpp_ast.rs)     *)
(* makes a graph of the declarations, takes its order (module TypeGraph)   *)
(* and writes the types group by group; otherwise, and when the graph      *)
(* reports a circular dependency, recursion_struct_info writes them depth  *)
(* first.                                                                  *)
(*                                                                         *)
(* A type T becomes the structures T_Fields, T_c, T_o and T_StaticFields,  *)
(* written together.  A field whose type is a value type V has the C type  *)
(* V_o; a parent is named without the suffix.  A name is a pair of a type  *)
(* and its suffix.                                                         *)
(***************************************************************************)
EXTENDS TypeGraph

CONSTANTS
  Types,     \* the types
  NoType,
  Headers    \* [types, parent, vals, statics, group, layout, topo]: the types in
             \* the order of struct_info_list, the parent, the types of the
             \* value fields and of the static value fields and the group of
             \* each, the compiler layout and use_topological_sort

Groups == 1 .. 4   \* group_order

Plain(t) == <<t, "">>
Obj(t)   == <<t, "_o">>

(* Nothing leads back: of any types, one has no edge to another of them. *)
Acyclic(nodes, Edge(_, _)) ==
  \A x \in SUBSET nodes : x # {} => \E t \in x : \A u \in x : ~Edge(t, u)

(* What the headers are assumed to be: a type is listed once, parents are  *)
(* declared and do not form a cycle, and no type has a value field of its  *)
(* own type (C# has no such types).  The graph knows every name.           *)
HeadersAssumption ==
  /\ NoType \notin Types /\ Types \X {"", "_o"} \subseteq Nodes
  /\ \A h \in Headers :
       /\ h.topo \in BOOLEAN
       /\ h.types \in Seq(Types)
       /\ \A j, k \in 1 .. Len(h.types) : h.types[j] = h.types[k] => j = k
       /\ \A t \in Rng(h.types) :
            /\ h.parent[t] \in Rng(h.types) \cup {NoType}
            /\ h.vals[t] \in Seq(Rng(h.types) \ {t}) /\ h.statics[t] \in Seq(Rng(h.types))
            /\ h.group[t] \in Groups
       /\ Acyclic(Rng(h.types), LAMBDA t, u : h.parent[t] = u)

VARIABLES
  hdr,
  at,      \* "graph", "groups", "legacy" or "done"
  body,    \* the types written
  stack,   \* calls of recursion_struct_info: the type and what it still visits
  cache,   \* struct_cache
  turn,    \* types of the order, or of struct_info_list, gone through
  section  \* the group that is written

hvars == <<hdr, at, body, stack, cache, turn, section>>

ParentOf(t) == IF hdr.parent[t] = NoType THEN << >> ELSE << hdr.parent[t] >>

(* to_graph_type and classify_field: the value edges of a declaration.     *)
(* The name of a field's type is passed on with its suffix.                *)
ValueEdges(h, t) ==
  {Plain(p) : p \in {h.parent[t]} \ {NoType}}
  \cup {Obj(v) : v \in Rng(h.vals[t]) \cup Rng(h.statics[t])}

GraphOf(h) ==
  [types |-> [k \in 1 .. Len(h.types) |-> Plain(h.types[k])],
   deps |-> [n \in Nodes |-> IF n[2] = "" /\ n[1] \in Rng(h.types)
                             THEN ValueEdges(h, n[1]) ELSE {}]]

HeaderInit ==
  /\ hdr \in Headers
  /\ at = IF hdr.topo THEN "graph" ELSE "legacy"
  /\ body = << >> /\ stack = << >> /\ cache = {} /\ turn = 0 /\ section = 1
  /\ input = GraphOf(hdr)
  /\ pc = "round"
  /\ out = [n \in Nodes |-> Edges(n)]
  /\ queue = input.types /\ queued = Rng(input.types) /\ ordered = << >>
  /\ left = 0 /\ before = 0

(* derive_dependency_order runs. *)
Derive == at = "graph" /\ Step /\ UNCHANGED hvars

(* Its result is taken. *)
TakeOrder ==
  /\ at = "graph"
  /\ pc \in {"ok", "cycle"}
  /\ at' = IF pc = "ok" THEN "groups" ELSE "legacy"
  /\ UNCHANGED <<vars, hdr, body, stack, cache, turn, section>>

(* Mutant: the types of a group are written in the order of the list. *)
WriteNameListed ==
  /\ at = "groups" /\ turn < Len(ordered)
  /\ LET t == hdr.types[turn + 1] IN
       body' = IF hdr.group[t] = section THEN Append(body, t) ELSE body
  /\ turn' = turn + 1
  /\ UNCHANGED <<vars, hdr, at, stack, cache, section>>

(* The inner loop of emit_all_with_groups: the next type of the order is   *)
(* written if it is of this group.                                         *)
WriteName ==
  /\ at = "groups" /\ turn < Len(ordered)
  /\ LET t == ordered[turn + 1][1] IN
       body' = IF hdr.group[t] = section THEN Append(body, t) ELSE body
  /\ turn' = turn + 1
  /\ UNCHANGED <<vars, hdr, at, stack, cache, section>>

(* Mutant: the last group is left out. *)
NextGroupShort ==
  /\ at = "groups" /\ turn = Len(ordered)
  /\ section' = section + 1 /\ turn' = 0
  /\ at' = IF section = 3 THEN "done" ELSE at
  /\ UNCHANGED <<vars, hdr, body, stack, cache>>

(* The outer loop over group_order.  Every type has a group                *)
(* (classify_types_for_header), so the part for types without one writes   *)
(* nothing.                                                                *)
NextGroup ==
  /\ at = "groups" /\ turn = Len(ordered)
  /\ section' = section + 1 /\ turn' = 0
  /\ at' = IF section = 4 THEN "done" ELSE at
  /\ UNCHANGED <<vars, hdr, body, stack, cache>>

-----------------------------------------------------------------------------
(* recursion_struct_info *)

(* Mutant: only the parent is visited before a type is written. *)
FrameParent(t) == [type |-> t, visits |-> ParentOf(t)]

(* What a call visits, in its order. *)
Frame(t) == [type |-> t, visits |-> ParentOf(t) \o hdr.vals[t] \o hdr.statics[t]]

Call(t, rest) ==
  IF t \in cache THEN stack' = rest /\ cache' = cache
  ELSE stack' = <<Frame(t)>> \o rest /\ cache' = cache \cup {t}

(* The loop of build_header calls it for the next type of the list. *)
CallNext ==
  /\ at = "legacy" /\ stack = << >> /\ turn < Len(hdr.types)
  /\ Call(hdr.types[turn + 1], << >>)
  /\ turn' = turn + 1
  /\ UNCHANGED <<vars, hdr, at, body, section>>

(* A call visits the next type it depends on. *)
Visit ==
  /\ at = "legacy" /\ stack # << >> /\ Head(stack).visits # << >>
  /\ Call(Head(Head(stack).visits),
          <<[Head(stack) EXCEPT !.visits = Tail(@)]>> \o Tail(stack))
  /\ UNCHANGED <<vars, hdr, at, body, turn, section>>

(* A call that has visited all of them writes its type and returns. *)
Write ==
  /\ at = "legacy" /\ stack # << >> /\ Head(stack).visits = << >>
  /\ body' = Append(body, Head(stack).type)
  /\ stack' = Tail(stack)
  /\ UNCHANGED <<vars, hdr, at, cache, turn, section>>

EndOfList ==
  /\ at = "legacy" /\ stack = << >> /\ turn = Len(hdr.types)
  /\ at' = "done"
  /\ UNCHANGED <<vars, hdr, body, stack, cache, turn, section>>

Header == Derive \/ TakeOrder \/ WriteName \/ NextGroup \/ CallNext \/ Visit \/ Write \/ EndOfList

HeaderSpec == HeaderInit /\ [][Header]_<<vars, hvars>> /\ WF_<<vars, hvars>>(Header)

-----------------------------------------------------------------------------
(* Properties *)

(* Every index is in its list, and a call that is running is in the cache  *)
(* of the types of the list.                                               *)
HeaderTypeOK ==
  /\ at \in {"graph", "groups", "legacy", "done"}
  /\ body \in Seq(Rng(hdr.types)) /\ cache \subseteq Rng(hdr.types)
  /\ \A k \in 1 .. Len(stack) : stack[k].type \in cache
  /\ turn \in 0 .. Len(IF at = "groups" THEN ordered ELSE hdr.types) /\ section \in 1 .. 5

(* At the end the header holds every type exactly once, by either way. *)
HeaderComplete ==
  at = "done" => /\ Rng(body) = Rng(hdr.types)
                 /\ \A j, k \in 1 .. Len(body) : body[j] = body[k] => j = k

(* The types that come with a type when its parents are followed. *)
Ancestry(t) ==
  {u \in Rng(hdr.types) :
     \A a \in SUBSET Rng(hdr.types) :
       t \in a /\ (\A v \in a : hdr.parent[v] # NoType => hdr.parent[v] \in a) => u \in a}

(* The structures a C compiler has to know before those of a type: with    *)
(* the GCC layout the fields of all its ancestors are written into it,     *)
(* with the MSVC layout it is derived from its parent's.                   *)
Needs(t) ==
  (IF hdr.layout = "GCC" THEN UNION {Rng(hdr.vals[u]) : u \in Ancestry(t)}
                         ELSE Rng(hdr.vals[t]) \cup Rng(ParentOf(t)))
  \cup (Rng(hdr.statics[t]) \ {t})

DefinedFirst ==
  \A k \in 1 .. Len(body) : \A u \in Needs(body[k]) : \E j \in 1 .. k - 1 : body[j] = u

(* The types can be ordered: what one refers to never leads back to it. *)
Holds(t) == Rng(ParentOf(t)) \cup Rng(hdr.vals[t]) \cup Rng(hdr.statics[t])
Orderable == Acyclic(Rng(hdr.types), LAMBDA t, u : u # t /\ u \in Holds(t))

(* Depth first, everything a type holds by value is written before it. *)
DepthFirstOrder == at = "done" /\ ~hdr.topo /\ Orderable => DefinedFirst

(* Within a group a type comes after its parent: the order of the graph    *)
(* survives the grouping.                                                  *)
GroupsKeepOrder ==
  at = "done" /\ hdr.topo =>
    \A k \in 1 .. Len(body) :
      LET p == hdr.parent[body[k]] IN
        p # NoType /\ hdr.group[p] = hdr.group[body[k]] => \E j \in 1 .. k - 1 : body[j] = p

(* The header holds every type once, each group in the order of the graph; *)
(* recursion_struct_info writes what a type holds by value before it.      *)
HeaderRight == HeaderComplete /\ GroupsKeepOrder /\ DepthFirstOrder

(* What the README says of the topological sort: types are written in      *)
(* dependency order.                                                       *)
DependencyOrder == at = "done" /\ hdr.topo /\ Orderable => DefinedFirst

HeaderTermination == <>(at = "done")
=============================================================================
