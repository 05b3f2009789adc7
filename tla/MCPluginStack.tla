--------------------------- MODULE MCPluginStack ---------------------------
(***************************************************************************)
(* new -auto-> waits -guard-> paid -external, no guard-> shipped -auto->   *)
(* done.  waits fails to the terminal ko, shipped falls back to waits.     *)
(***************************************************************************)
EXTENDS PluginStack, TLC

MCState == {"new", "waits", "paid", "shipped", "done", "ko"}
MCTable(table) == [s \in MCState |-> IF s \in DOMAIN table THEN table[s] ELSE None]
MCAuto == MCTable([new |-> "waits", shipped |-> "done"])
MCExternal == MCTable([waits |-> "paid", paid |-> "shipped"])
MCOnError == MCTable([waits |-> "ko", shipped |-> "waits"])

MCSymmetry == Permutations(Flow) \cup Permutations(Call) \cup Permutations(Command)
=============================================================================
