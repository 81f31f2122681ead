----------------------------- MODULE TypeGraph -----------------------------
(***************************************************************************)
(* CppTypeDependencyGraph of cpp_type_dependency_graph.rs: the order in    *)
(* which the types of il2cpp.h are declared, so that a type held by value  *)
(* (a parent or a field) comes before the type that holds it.              *)
(* derive_dependency_order goes round a queue: a type with a value         *)
(* dependency still in the queue goes to its end, any other is put out,    *)
(* and a round that puts out nothing is a circular dependency.             *)
(*                                                                         *)
(* Names stand for nodes.  A name that is only mentioned gets a node but   *)
(* is never queued.  References between types do not influence the order.  *)
(***************************************************************************)
EXTENDS Naturals, Sequences, FiniteSets

CONSTANTS
  Nodes,   \* names of types
  Inputs   \* what add_types_bulk is given: [types, deps], the names added in
           \* their order (a name added again keeps its first place) and the
           \* names each name holds by value

ASSUME InputsAssumption ==
  \A x \in Inputs : /\ x \in [types : Seq(Nodes), deps : [Nodes -> SUBSET Nodes]]
                    /\ \A i, j \in 1 .. Len(x.types) : x.types[i] = x.types[j] => i = j

VARIABLES
  input,
  pc,
  out,       \* outgoing_value of each node
  queue,     \* processing_queue
  queued,    \* queued_nodes
  ordered,   \* ordered
  left,      \* turns left in this round
  before     \* remaining_before

vars == <<input, pc, out, queue, queued, ordered, left, before>>

Rng(s) == {s[i] : i \in 1 .. Len(s)}

Added == Rng(input.types)

(* add_edge keeps no edge from a name to itself. *)
Edges(n) == input.deps[n] \ {n}

(* add_type has been called for every type. *)
Init ==
  /\ input \in Inputs
  /\ pc = "round"
  /\ out = [n \in Nodes |-> Edges(n)]
  /\ queue = input.types
  /\ queued = Rng(input.types)
  /\ ordered = << >>
  /\ left = 0 /\ before = 0

(* One turn of the outer loop begins. *)
StartRound ==
  /\ pc = "round" /\ queue # << >>
  /\ pc' = "turn"
  /\ left' = Len(queue) /\ before' = Len(queue)
  /\ UNCHANGED <<input, out, queue, queued, ordered>>

Blocked(n) == out[n] \cap queued # {}

(* The front of the queue has to wait. *)
PushBack ==
  /\ pc = "turn" /\ left > 0
  /\ Blocked(Head(queue))
  /\ queue' = Append(Tail(queue), Head(queue))
  /\ left' = left - 1
  /\ UNCHANGED <<input, pc, out, queued, ordered, before>>

(* Mutant: a type waits only for one of its dependencies to be put out. *)
EmitEager ==
  /\ pc = "turn" /\ left > 0
  /\ ~Blocked(Head(queue)) \/ out[Head(queue)] # Edges(Head(queue))
  /\ LET n == Head(queue) IN
       /\ ordered' = Append(ordered, n)
       /\ out' = [m \in Nodes |-> IF n \in Edges(m) /\ m \in queued THEN out[m] \ {n} ELSE out[m]]
       /\ queued' = queued \ {n}
  /\ queue' = Tail(queue)
  /\ left' = left - 1
  /\ UNCHANGED <<input, pc, before>>

(* Mutant: a type that was put out stays in the set of queued types. *)
EmitStaysQueued ==
  /\ pc = "turn" /\ left > 0
  /\ ~Blocked(Head(queue))
  /\ ordered' = Append(ordered, Head(queue))
  /\ queue' = Tail(queue)
  /\ left' = left - 1
  /\ UNCHANGED <<input, pc, out, queued, before>>

(* Mutant: putting a type out does not use up a turn. *)
EmitForFree ==
  /\ pc = "turn" /\ left > 0
  /\ ~Blocked(Head(queue))
  /\ ordered' = Append(ordered, Head(queue))
  /\ queued' = queued \ {Head(queue)}
  /\ queue' = Tail(queue)
  /\ UNCHANGED <<input, pc, out, left, before>>

(* The front of the queue is put out, and the types in the queue that hold *)
(* it lose the edge to it.                                                 *)
Emit ==
  /\ pc = "turn" /\ left > 0
  /\ ~Blocked(Head(queue))
  /\ LET n == Head(queue) IN
       /\ ordered' = Append(ordered, n)
       /\ out' = [m \in Nodes |-> IF n \in Edges(m) /\ m \in queued THEN out[m] \ {n} ELSE out[m]]
       /\ queued' = queued \ {n}
  /\ queue' = Tail(queue)
  /\ left' = left - 1
  /\ UNCHANGED <<input, pc, before>>

(* Mutant: a round without progress is not noticed. *)
EndRoundBlind ==
  /\ pc = "turn" /\ left = 0
  /\ pc' = "round"
  /\ UNCHANGED <<input, out, queue, queued, ordered, left, before>>

(* Mutant: types left after a round are taken for a circular dependency. *)
EndRoundImpatient ==
  /\ pc = "turn" /\ left = 0
  /\ pc' = IF queue # << >> THEN "cycle" ELSE "round"
  /\ UNCHANGED <<input, out, queue, queued, ordered, left, before>>

(* The round is over: without progress there is a circular dependency. *)
EndRound ==
  /\ pc = "turn" /\ left = 0
  /\ pc' = IF Len(queue) = before THEN "cycle" ELSE "round"
  /\ UNCHANGED <<input, out, queue, queued, ordered, left, before>>

Finish ==
  /\ pc = "round" /\ queue = << >>
  /\ pc' = "ok"
  /\ UNCHANGED <<input, out, queue, queued, ordered, left, before>>

Step == StartRound \/ PushBack \/ Emit \/ EndRound \/ Finish

Stop == pc \in {"ok", "cycle"} /\ UNCHANGED vars

Next == Step \/ Stop

Spec == Init /\ [][Next]_vars /\ WF_vars(Step)

-----------------------------------------------------------------------------
(* Properties *)

(* No round makes more turns than there are types in the queue, and no     *)
(* type is in the queue or in the order twice.                             *)
TypeOK ==
  /\ input \in [types : Seq(Nodes), deps : [Nodes -> SUBSET Nodes]]
  /\ pc \in {"round", "turn", "ok", "cycle"}
  /\ out \in [Nodes -> SUBSET Nodes]
  /\ queue \in Seq(Nodes) /\ ordered \in Seq(Nodes)
  /\ queued \subseteq Nodes
  /\ left \in Nat /\ before \in Nat
  /\ left <= Len(queue)

(* Every type added is either put out, once, or still in the queue, and    *)
(* the set of queued types is that of the queue.                           *)
Accounted ==
  /\ queued = Rng(queue)
  /\ Added = Rng(queue) \cup Rng(ordered)
  /\ \A i, j \in 1 .. Len(queue) : queue[i] = queue[j] => i = j
  /\ \A i, j \in 1 .. Len(ordered) : ordered[i] = ordered[j] => i = j
  /\ Rng(queue) \cap Rng(ordered) = {}

(* A type comes after everything it holds by value that is declared at     *)
(* all: a C compiler accepts the header.                                   *)
OrderRespected ==
  \A k \in 1 .. Len(ordered) : \A d \in Edges(ordered[k]) \cap Added :
    \E j \in 1 .. k - 1 : ordered[j] = d

(* A circular dependency is reported only when there is one: each type in  *)
(* the report holds another one of it.                                     *)
CycleReal ==
  pc = "cycle" => /\ queued # {}
                  /\ \A n \in queued : Edges(n) \cap queued # {}

(* The order or the report comes after finitely many rounds. *)
Termination == <>(pc \in {"ok", "cycle"})
=============================================================================
