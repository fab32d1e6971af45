--------------------------- MODULE MC_PixmapCache ---------------------------
(* Pixmaps for TLC: where they come from and how large they are.             *)
EXTENDS PixmapCache
CONSTANTS file, remote

KindOf == [k \in Keys |-> CASE k = file -> "local" [] k = remote -> "network"
                            [] OTHER -> "response"]
CostOf == [k \in Keys |-> IF k = file THEN 8 ELSE 4]
=============================================================================
