------------------------------ MODULE MCHeader ------------------------------
(***************************************************************************)
(* The instance for the types of il2cpp.h: the graph alone on arbitrary    *)
(* graphs (TypeGraph), and the header on declarations (HeaderEmit).  A     *)
(* behaviour belongs to one part, chosen in the initial state; in the      *)
(* first one the variables of the header keep the value Idle.              *)
(***************************************************************************)
EXTENDS HeaderEmit

CONSTANTS Idle, Parts

VARIABLE part

allvars == <<part, vars, hvars>>

(* Graphs: all over three types that are added, in several orders and      *)
(* numbers, and all over four added in one order.                          *)
AllTypes == {"a", "b", "c", "d"}
AllNodes == AllTypes \X {"", "_o"}
Names(s) == [k \in 1 .. Len(s) |-> Plain(s[k])]
Deps(g) == [n \in Nodes |-> IF n[2] = "" /\ n[1] \in DOMAIN g THEN {Plain(t) : t \in g[n[1]]} ELSE {}]
Three == [{"a", "b", "c"} -> SUBSET {"a", "b", "c"}]
Four == {g \in [AllTypes -> SUBSET AllTypes] : \A t \in AllTypes : t \notin g[t]}
AllGraphs ==
  {[types |-> Names(o), deps |-> Deps(g)] :
     o \in {<<"a">>, <<"a", "b">>, <<"b", "a">>, <<"a", "b", "c">>, <<"c", "b", "a">>, <<"b", "c", "a">>},
     g \in Three}
  \cup {[types |-> Names(<<"a", "b", "c", "d">>), deps |-> Deps(g)] : g \in Four}

(* Declarations: two value types a and b and two classes c and d, which    *)
(* may be derived, with any value fields and some static ones, those of a  *)
(* type's own type and circular ones among them.                           *)
Lists(x, y, z) ==
  [t \in AllTypes |-> CASE t = "a" -> x [] t = "b" -> << >> [] t = "c" -> y [] t = "d" -> z]
Statics(x, y, z) ==
  [t \in AllTypes |-> CASE t = "a" -> x [] t = "b" -> y [] t = "c" -> z [] t = "d" -> << >>]
Values == {<< >>, <<"a">>, <<"b">>, <<"a", "b">>}
OneGroup == {[t \in AllTypes |-> 4]}
SomeGroups == OneGroup \cup {[t \in AllTypes |-> IF t = "c" THEN 1 ELSE 4],
                             [a |-> 3, b |-> 2, c |-> 1, d |-> 1]}
HeadersIn(groups) ==
  {[types |-> o, parent |-> [t \in AllTypes |-> IF t = "c" THEN p ELSE NoType],
    vals |-> Lists(va, vc, vd), statics |-> Statics(sa, sb, sc),
    group |-> g, layout |-> l, topo |-> s] :
     o \in {<<"a", "b", "c", "d">>, <<"d", "c", "b", "a">>, <<"c", "a", "d", "b">>},
     p \in {NoType, "d"}, va \in {<< >>, <<"b">>}, vc \in Values, vd \in Values,
     sa \in {<< >>, <<"a">>, <<"b">>}, sb \in {<< >>, <<"a">>}, sc \in {<< >>, <<"a">>},
     g \in groups, l \in {"GCC", "MSVC"}, s \in BOOLEAN}
AllHeaders == HeadersIn(SomeGroups)

ASSUME Assumptions == HeadersAssumption

-----------------------------------------------------------------------------
HeaderIdle ==
  /\ hdr = Idle /\ at = Idle /\ body = Idle /\ stack = Idle /\ cache = Idle
  /\ turn = Idle /\ section = Idle

MCInit ==
  /\ part \in Parts
  /\ \/ part = "graph" /\ Init /\ HeaderIdle
     \/ part = "header" /\ HeaderInit

Finished ==
  \/ part = "graph" /\ pc \in {"ok", "cycle"}
  \/ part = "header" /\ at = "done"

MCStep ==
  \/ part = "graph" /\ Step /\ UNCHANGED <<part, hvars>>
  \/ part = "header" /\ Header /\ UNCHANGED part

MCNext == MCStep \/ (Finished /\ UNCHANGED allvars)

(* The dumper runs to its end unless it is stopped from outside. *)
MCSpec == MCInit /\ [][MCNext]_allvars /\ WF_allvars(MCStep)

-----------------------------------------------------------------------------
(* Properties.  Those of the graph (TypeGraph's Accounted, OrderRespected  *)
(* and CycleReal) hold in both parts; HeaderEmit's HeaderRight is about    *)
(* the end of a header.                                                    *)

(* A round never outlasts the queue, and what the header keeps is of the   *)
(* types it was given.                                                     *)
MCTypeOK == TypeOK /\ (part = "header" => HeaderTypeOK)

(* The header of the topological sort is in dependency order, as the       *)
(* README of il2cpp-dumper-rs says.                                        *)
HeaderInOrder == part = "header" => DependencyOrder

(* The graph and the header come to an end. *)
Ends == <>Finished
=============================================================================
