------------------------------ MODULE MCCalls ------------------------------
(* Modules of three functions. *)
EXTENDS Calls

CallLists(S, n) == UNION {[1 .. k -> S] : k \in 0 .. n}

\* main calls f and g in any order; f calls g in turn.
MCNested ==
  {[main |-> calls, f |-> inner, g |-> <<>>] :
     calls \in CallLists({"f", "g"}, 2), inner \in CallLists({"g"}, 2)}
=============================================================================
