----------------------------- MODULE MCHashMap -----------------------------
(***************************************************************************)
(* Two maps, keys that collide and one that does not, and memory for one   *)
(* map and part of another.                                                *)
(***************************************************************************)
EXTENDS HashMap, TLC

MCBucket == "int" :> 0 @@ "x" :> 0 @@ "y" :> 1
MCTypes  == <<[key |-> "int", data |-> "TS_INT"], [key |-> "y", data |-> "TS_INT"]>>

=============================================================================
