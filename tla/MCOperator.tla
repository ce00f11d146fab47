----------------------------- MODULE MCOperator -----------------------------
(***************************************************************************)
(* Instances of Operator for TLC.                                          *)
(***************************************************************************)
EXTENDS Operator, TLC

CONSTANTS r1, r2

TwoRequests == {r1, r2}

\* Requests are told apart by name only, and so are passwords and platforms.
Symmetric == Permutations(Requests) \cup Permutations(Passwords) \cup Permutations(Platforms)

AllOperations ==
  {"setup", "login", "logout", "use", "profile", "password", "role", "blocks", "confirm", "toggle"}
BothModes == BOOLEAN
VisitsOnly == {"use"}
InTurn == {FALSE}

=============================================================================
