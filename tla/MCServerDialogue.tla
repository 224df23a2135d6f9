-------------------------- MODULE MCServerDialogue --------------------------
(* Clients that type a known operation with a number that is too large, an  *)
(* unknown operation, or a command without its numbers.  Cut short, the     *)
(* first of them is a plain command, and goes the way of one from there on. *)
EXTENDS ServerDialogue

MCCommands == {[op |-> "add", numbers |-> "overflow"],
               [op |-> "run", numbers |-> "both"],
               [op |-> "sub", numbers |-> "none"]}
=============================================================================
