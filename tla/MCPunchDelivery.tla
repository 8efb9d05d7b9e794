--------------------------- MODULE MCPunchDelivery ---------------------------
(* Small instances of PunchDelivery.                                       *)
EXTENDS PunchDelivery, TLC

\* Users and handlers are interchangeable.
Symmetry == Permutations(User) \cup Permutations(Handler)
==============================================================================
