---------------------------- MODULE MCContainers ----------------------------
(* An instance of Containers: two numbers, and a string that has the same  *)
(* double as one of them.                                                  *)
EXTENDS Containers

MCValue == {Num(0), Num(1), Str(1)}
MCLiterals == {Num(1), Str(1)}
MCIndex == {-1, 0, 1}
MCJoined(a, b) == 1
=============================================================================
