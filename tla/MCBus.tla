------------------------------- MODULE MCBus --------------------------------
(***************************************************************************)
(* Values for the TLC instances of Bus.                                    *)
(***************************************************************************)
EXTENDS Bus

(* A string, and an enum value, which the bus keeps as its number. *)
TwoValues == {[type |-> "str", data |-> 1], [type |-> "enum", data |-> 2]}

=============================================================================
