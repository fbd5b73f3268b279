------------------------------- MODULE Recorded -------------------------------
(***************************************************************************)
(* What a row may hold instead of a value.  A time is a number of minutes, *)
(* Absent, or Unreadable when it is recorded and cannot be parsed.         *)
(***************************************************************************)
EXTENDS Integers, FiniteSets

\* Neither a row nor a number nor a record of these models.
None == [none |-> TRUE]
NoNumber == -1
Absent == -2
Unreadable == -1
Parsed(time) == time >= 0
=============================================================================
