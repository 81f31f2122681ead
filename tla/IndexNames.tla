----------------------------- MODULE IndexNames -----------------------------
(***************************************************************************)
(* What il2cpp_index.py and lxgr_il2cpp.c share: the names, their fnv1a64  *)
(* and the width of a stored word.  The hash is a constant function, which *)
(* may collide: nothing in either program depends on its values.           *)
(***************************************************************************)
EXTENDS Naturals, Integers, Sequences

CONSTANTS
  Names,   \* the names of script.json and of the queries
  NoName,  \* the empty name
  Hash,    \* fnv1a64
  Word     \* 2^32

ASSUME NamesAssumption == Hash \in [Names -> Nat] /\ Word \in Nat \ {0}

=============================================================================
