------------------------------ MODULE MC_Binding ------------------------------
(* Two bindings that may read what the other one writes, for TLC.             *)
EXTENDS Binding, TLC
CONSTANTS x, y, z, bx, by, hz

TargetOf == [b \in Bindings |-> IF b = bx THEN x ELSE y]
ReadsOf == [b \in Bindings |-> IF b = bx THEN {y, z} ELSE {x}]
SignalOf == [h \in Handlers |-> z]
Symmetric == Permutations(Guards)
===============================================================================
