---------------------------- MODULE MCIselBlocks ----------------------------
(* Control-flow graphs of four blocks.  LLVM gives the entry block no       *)
(* predecessors.                                                            *)
EXTENDS IselBlocks

MCBlock(calls) ==
  LET B == Blocks \ {Entry}
  IN  [calls : calls, term : {"ret"}, t : {Entry}, f : {Entry}]
        \cup [calls : calls, term : {"br"}, t : B, f : {Entry}]
        \cup [calls : calls, term : {"condbr"}, t : B, f : B]

\* Every graph; the second block may have two calls, the last one a call that is
\* not supported.
MCGraphs ==
  {[g EXCEPT ![2].calls = n] : g \in [Blocks -> MCBlock({0})], n \in {0, 2}}
    \cup {[g EXCEPT ![4] = [calls |-> 0, term |-> "reject", t |-> Entry, f |-> Entry]] :
             g \in [Blocks -> MCBlock({0})]}
=============================================================================
