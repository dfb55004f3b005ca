------------------------------ MODULE MCCalls ------------------------------
(* An instance of Calls: a function with one parameter and one with two.   *)
EXTENDS Calls

MCArity == [f \in Fn |-> IF f = "f" THEN 1 ELSE 2]
MCLists == {<<0, 1>>}
=============================================================================
