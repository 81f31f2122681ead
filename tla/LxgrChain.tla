----------------------------- MODULE LxgrChain -----------------------------
(***************************************************************************)
(* lxgr_resolve_chain of lxgr_dump.c: a pointer chain "B>0x10>0x8" is      *)
(* followed through the memory of a running process, one lxgr_read of a    *)
(* pointer per token, while the process changes its pointers.              *)
(*                                                                         *)
(* A specification is the sequence of its parts between the '>'s.  A part  *)
(* is "B" alone, a hex number, the sum "B+0x10" of the documentation,      *)
(* empty, or anything else.                                                *)
(***************************************************************************)
EXTENDS Naturals, Integers, Sequences, SequencesExt

CONSTANTS
  Addrs,       \* the target's addresses (0 is never mapped)
  Specs,       \* the specifications: [parts, fits]
  Bases,       \* il2cpp bases, 0 when the library is not mapped
  Memories,    \* initial memories: pointer at each address, or Unmapped
  Values,      \* what the target writes
  MaxEnv,      \* bound: changes of the memory during one call
  Unmapped

Part == [kind : {"B", "hex", "sum", "empty", "junk"}, v : Nat]

(* What the constants are assumed to be. *)
ChainAssumption ==
  /\ Addrs \subseteq Nat \ {0}
  /\ Specs \subseteq [parts : Seq(Part), fits : BOOLEAN]
  /\ Bases \subseteq Nat
  /\ Memories \subseteq [Addrs -> Nat \cup {Unmapped}]
  /\ Values \subseteq Nat \cup {Unmapped}
  /\ MaxEnv \in Nat
  /\ Unmapped \notin Nat

VARIABLES
  mem,    \* the target's memory
  env,    \* changes so far
  spec, base,
  pc,
  rest,   \* the tokens strtok_r has not returned yet
  cur,    \* cur
  reads,  \* history: the (pointer, offset, value) of every read
  ret

chainVars == <<mem, env, spec, base, pc, rest, cur, reads, ret>>

ChainInit ==
  /\ mem \in Memories /\ env = 0
  /\ spec \in Specs /\ base \in Bases
  /\ pc = "start"
  /\ rest = << >> /\ cur = 0 /\ reads = << >>
  /\ ret = 0

(* strtok_r never returns an empty token. *)
Tokens(parts) ==
  LET toks[k \in 0 .. Len(parts)] ==
        IF k = 0 THEN << >>
        ELSE IF parts[k].kind = "empty" THEN toks[k - 1] ELSE Append(toks[k - 1], parts[k])
  IN  toks[Len(parts)]

Return(v) == pc' = "done" /\ ret' = v

(* The length check and the first token. *)
First ==
  /\ pc = "start"
  /\ LET toks == Tokens(spec.parts) IN
       \/ /\ ~spec.fits \/ toks = << >>
          /\ Return(0)
          /\ UNCHANGED <<rest, cur>>
       \/ /\ spec.fits /\ toks # << >>
          /\ \/ /\ Head(toks).kind = "B"
                /\ cur' = base /\ pc' = "loop" /\ ret' = ret
             \/ /\ Head(toks).kind = "hex"
                /\ cur' = Head(toks).v /\ pc' = "loop" /\ ret' = ret
             \/ /\ Head(toks).kind \in {"sum", "junk"}
                /\ Return(0) /\ cur' = cur
          /\ rest' = Tail(toks)
  /\ UNCHANGED <<mem, env, spec, base, reads>>

At(a) == IF a \in Addrs THEN mem[a] ELSE Unmapped

(* Mutant: a failed read ends the chain early with the pointer so far. *)
StepKeepsOnFailure ==
  /\ pc = "loop"
  /\ \/ /\ rest = << >>
        /\ Return(cur) /\ UNCHANGED <<rest, cur, reads>>
     \/ /\ rest # << >>
        /\ cur = 0 \/ At(cur + Head(rest).v) = Unmapped
        /\ Return(cur) /\ UNCHANGED <<rest, cur, reads>>
     \/ /\ rest # << >> /\ cur # 0 /\ At(cur + Head(rest).v) # Unmapped
        /\ cur' = At(cur + Head(rest).v)
        /\ reads' = Append(reads, <<cur, Head(rest).v, cur'>>)
        /\ rest' = Tail(rest)
        /\ UNCHANGED <<pc, ret>>
  /\ UNCHANGED <<mem, env, spec, base>>

(* Mutant: the offset is added after the read. *)
StepAddAfter ==
  /\ pc = "loop"
  /\ \/ /\ rest = << >>
        /\ Return(cur) /\ UNCHANGED <<rest, cur, reads>>
     \/ /\ rest # << >> /\ (cur = 0 \/ At(cur) = Unmapped)
        /\ Return(0) /\ UNCHANGED <<rest, cur, reads>>
     \/ /\ rest # << >> /\ cur # 0 /\ At(cur) # Unmapped
        /\ cur' = At(cur) + Head(rest).v
        /\ reads' = Append(reads, <<cur, Head(rest).v, cur'>>)
        /\ rest' = Tail(rest)
        /\ UNCHANGED <<pc, ret>>
  /\ UNCHANGED <<mem, env, spec, base>>

(* One turn of the loop: parse, null check, read of 8 bytes at cur + off.  *)
(* lxgr_read delivers all 8 bytes or the chain fails.                      *)
Step ==
  /\ pc = "loop"
  /\ \/ /\ rest = << >>
        /\ Return(cur)
        /\ UNCHANGED <<rest, cur, reads>>
     \/ /\ rest # << >>
        /\ Head(rest).kind # "hex" \/ cur = 0 \/ At(cur + Head(rest).v) = Unmapped
        /\ Return(0)
        /\ UNCHANGED <<rest, cur, reads>>
     \/ /\ rest # << >>
        /\ Head(rest).kind = "hex" /\ cur # 0 /\ At(cur + Head(rest).v) # Unmapped
        /\ cur' = At(cur + Head(rest).v)
        /\ reads' = Append(reads, <<cur, Head(rest).v, cur'>>)
        /\ rest' = Tail(rest)
        /\ UNCHANGED <<pc, ret>>
  /\ UNCHANGED <<mem, env, spec, base>>

(* The target stores a pointer or unmaps the page it is in. *)
Target ==
  /\ pc = "loop" /\ env < MaxEnv
  /\ \E a \in Addrs, v \in Values : v # mem[a] /\ mem' = [mem EXCEPT ![a] = v]
  /\ env' = env + 1
  /\ UNCHANGED <<spec, base, pc, rest, cur, reads, ret>>

Tool == First \/ Step

ChainNext == Tool \/ Target

ChainSpec == ChainInit /\ [][ChainNext]_chainVars /\ WF_chainVars(Tool)

-----------------------------------------------------------------------------
(* Properties *)

(* Every token is used at most once and every pointer is an address. *)
ChainTypeOK ==
  /\ env \in 0 .. MaxEnv
  /\ pc \in {"start", "loop", "done"}
  /\ rest \in Seq(Part) /\ cur \in Nat /\ ret \in Nat
  /\ Len(reads) + Len(rest) <= Len(spec.parts)

(* The target is never read through a null pointer. *)
NoNullRead == \A k \in 1 .. Len(reads) : reads[k][1] # 0

(* However the pointers change meanwhile, a non-zero result comes from a   *)
(* linked walk: the first pointer is the first token's, every next one is  *)
(* the value read before, each offset is its token's, every token has been *)
(* used, and the result is the value read last.                            *)
LinkedWalk ==
  pc = "done" /\ ret # 0 =>
    LET toks == Tokens(spec.parts)
        first == IF toks[1].kind = "B" THEN base ELSE toks[1].v IN
      /\ Len(reads) = Len(toks) - 1
      /\ \A k \in 1 .. Len(reads) :
           /\ reads[k][1] = (IF k = 1 THEN first ELSE reads[k - 1][3])
           /\ reads[k][2] = toks[k + 1].v
      /\ ret = IF reads = << >> THEN first ELSE reads[Len(reads)][3]

(* The repeated dereference of the tokens: 0 as soon as one part does not  *)
(* parse, a pointer is null or an address cannot be read.                  *)
Start(t) == CASE t.kind = "B" -> base [] t.kind = "hex" -> t.v [] OTHER -> 0
Hop(p, t) == IF t.kind = "hex" /\ p # 0 /\ At(p + t.v) # Unmapped THEN At(p + t.v) ELSE 0
Dereference(toks) ==
  LET walk[k \in 0 .. Len(toks) - 1] ==
        IF k = 0 THEN Start(toks[1]) ELSE Hop(walk[k - 1], toks[k + 1])
  IN  walk[Len(toks) - 1]

(* In a memory that stands still the result is that dereference. *)
Dereferenced ==
  LET toks == Tokens(spec.parts) IN
    pc = "done" /\ env = 0 =>
      ret = IF ~spec.fits \/ toks = << >> THEN 0 ELSE Dereference(toks)

(* A chain is followed rightly, whatever the target does meanwhile. *)
ChainFollowed == LinkedWalk /\ NoNullRead /\ Dereferenced

(* What lxgr_dump.h and the README promise of "B+0x100>0x8>0x20": read at  *)
(* base + 0x100, then at that pointer + 0x8, and add 0x20 to the last.     *)
DocumentedSum ==
  LET toks == Tokens(spec.parts)
      deref(a) == IF At(a) = Unmapped THEN 0 ELSE At(a)
      hop(p, t) == IF p = 0 THEN 0 ELSE deref(p + t.v)
      walk == FoldLeft(hop, deref(base + toks[1].v), SubSeq(toks, 2, Len(toks) - 1))
  IN  pc = "done" /\ env = 0 /\ base # 0 /\ Len(toks) > 1 /\ toks[1].kind = "sum" =>
        ret = IF walk = 0 THEN 0 ELSE walk + toks[Len(toks)].v

(* A chain ends: each read uses up a token. *)
ChainReturns == <>(pc = "done")
=============================================================================
