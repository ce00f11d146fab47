------------------------------ MODULE MCBridge ------------------------------
(***************************************************************************)
(* An instance of Bridge for TLC.                                          *)
(***************************************************************************)
EXTENDS Bridge, TLC

\* Nothing, talk, a mark alone, a whole directive with talk around it, one that opens
\* two objects, one whose text holds a brace, and the ends of what others open.
SomeLines == {
  <<>>,
  <<"word">>,
  <<"mark">>,
  <<"word", "mark", "open", "close", "word">>,
  <<"mark", "open", "open", "close">>,
  <<"mark", "open", "quoted", "close">>,
  <<"open", "close", "close">>,
  <<"close">>}

=============================================================================
