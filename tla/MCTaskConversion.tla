------------------------- MODULE MCTaskConversion -------------------------
(* A small instance of TaskConversion for TLC. *)
EXTENDS TaskConversion

\* Both ends of the range, both signs, and one that set_static_priority rejects.
SomePriorities == {-20, -3, 19, 20}
=============================================================================
