------------------------------ MODULE InOrder ------------------------------
(***************************************************************************)
(* What a parallel map of il2cpp-dumper-rs promises its caller ("rayon map *)
(* over types; merge preserves order", README.md:174): the result is that  *)
(* of a loop over the jobs in their order.  A job adds its text to the     *)
(* output and its keyed fragments to a dictionary in which the first entry *)
(* of a key wins.                                                          *)
(***************************************************************************)
EXTENDS Naturals, Sequences

VARIABLES
  jobs,  \* what each job produces: [text, keyed]
  done,  \* how many of them are in the result
  out,   \* the text so far
  kept   \* the dictionary so far

(* The dictionary with the new entries of another. *)
With(f, g) == [x \in DOMAIN f \cup DOMAIN g |-> IF x \in DOMAIN f THEN f[x] ELSE g[x]]

Init ==
  /\ done = 0
  /\ out = << >>
  /\ kept = << >>

Step ==
  /\ done < Len(jobs)
  /\ done' = done + 1
  /\ out' = out \o jobs[done + 1].text
  /\ kept' = With(kept, jobs[done + 1].keyed)
  /\ UNCHANGED jobs

Spec == Init /\ [][Step]_<<jobs, done, out, kept>>
=============================================================================
