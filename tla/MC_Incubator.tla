----------------------------- MODULE MC_Incubator -----------------------------
(* A page, what is nested in it, and what is nested in that, for TLC.          *)
EXTENDS Incubator
CONSTANTS page, item, part

ModeOf == [i \in Incubators |-> IF i = page THEN "async" ELSE "nested"]
ContextsOf == [i \in Incubators |-> CASE i = page -> <<>> [] i = item -> <<page>>
                                      [] OTHER -> <<item, page>>]
==============================================================================
