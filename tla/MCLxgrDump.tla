----------------------------- MODULE MCLxgrDump -----------------------------
EXTENDS LxgrDump

(* Aligned and unaligned ranges, one to three chunks, a range that runs    *)
(* past the mapped pages, and the empty range.                             *)
MCRequests ==
  { [va |-> 0, size |-> 6, off |-> 0],
    [va |-> 1, size |-> 5, off |-> 1],
    [va |-> 3, size |-> 4, off |-> 2],
    [va |-> 2, size |-> 0, off |-> 0] }
=============================================================================
