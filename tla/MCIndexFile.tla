---------------------------- MODULE MCIndexFile ----------------------------
(* An index and one without fields, as il2cpp_index.py writes it for a     *)
(* script.json without ScriptMetadata entries, for the run index_half.     *)
EXTENDS IndexFile

R(h, r) == [hash |-> h, rva |-> r]
HalfHash == [x |-> 4, y |-> 6, z |-> 9]
HalfIndex ==
  [a |-> [disk |-> <<1, 3, 1, 2, 0, 4, 0, 6, 0, 21, 41, 61, 4, 0, 42>>,
          methods |-> <<R(2, 21), R(4, 41), R(6, 61)>>, fields |-> <<R(4, 42)>>],
   nf |-> [disk |-> <<1, 2, 0, 4, 0, 6, 0, 47, 67>>,
           methods |-> <<R(4, 47), R(6, 67)>>, fields |-> << >>]]
=============================================================================
