------------------------------- MODULE Calls -------------------------------
(***************************************************************************)
(* The code isel.rs emits around a direct call, run on the processor: the  *)
(* caller stores r31 at link_reg_save_addr, one address for the whole      *)
(* program, `call' puts the address of the continuation into r31, `ret'    *)
(* jumps to r31, and the continuation first loads r31 back.  The           *)
(* instructions call and ret are external, modelled from the comments of   *)
(* regs.rs.                                                                *)
(*                                                                         *)
(* A function is the sequence of the functions it calls, after which it    *)
(* returns; its pieces are numbered from 1.  An address is the piece that  *)
(* begins there.                                                           *)
(***************************************************************************)
EXTENDS Naturals, Sequences

CONSTANTS
  Names,    \* names of the functions of a module
  Main,     \* the function that runs first
  Modules   \* the modules, each a function from names to calls made

VARIABLES
  module,    \* the module that runs
  at,        \* the piece that runs, or Halt
  restored,  \* whether the link register is restored in this piece
  r31,       \* the link register
  save,      \* the contents of link_reg_save_addr
  owed       \* the returns still to be made, innermost first

callVars == <<module, at, restored, r31, save, owed>>

Piece(f, i) == [fn |-> f, piece |-> i]
Halt == Piece(Main, 0)

\* Memory is zero at the start, the address of the first piece.
CallInit ==
  /\ module \in Modules
  /\ at = Piece(Main, 1)
  /\ restored = TRUE
  /\ r31 = Halt
  /\ save = Piece(Main, 1)
  /\ owed = <<Halt>>

Running == at # Halt /\ restored
Callees == module[at.fn]

\* The store before the call.
SaveLink == save' = r31

\* The end of a piece: save the link register and call.
CallFunction ==
  /\ Running
  /\ at.piece <= Len(Callees)
  /\ SaveLink
  /\ r31' = Piece(at.fn, at.piece + 1)
  /\ owed' = <<Piece(at.fn, at.piece + 1)>> \o owed
  /\ at' = Piece(Callees[at.piece], 1)
  /\ UNCHANGED <<module, restored>>

\* `ret': the processor goes where r31 says.
ReturnFrom ==
  /\ Running
  /\ at.piece = Len(Callees) + 1
  /\ at' = r31
  /\ restored' = (r31.piece <= 1)
  /\ owed' = SubSeq(owed, 2, Len(owed))
  /\ UNCHANGED <<module, r31, save>>

\* The load at the top of a continuation.
RestoreLink ==
  /\ at # Halt /\ ~restored
  /\ r31' = save
  /\ restored' = TRUE
  /\ UNCHANGED <<module, at, save, owed>>

Halted == at = Halt /\ UNCHANGED callVars

CallNext == CallFunction \/ ReturnFrom \/ RestoreLink \/ Halted

CallSpec == CallInit /\ [][CallNext]_callVars
-----------------------------------------------------------------------------
(***************************************************************************)
(* Properties.                                                             *)
(***************************************************************************)

\* "The caller saves/restores r31 around each direct call site"
\* (docs/architecture.md): a function returns to the continuation of the call
\* that entered it.
ReturnsMatchCalls ==
  (Running /\ at.piece = Len(Callees) + 1) => owed # <<>> /\ r31 = Head(owed)
=============================================================================
