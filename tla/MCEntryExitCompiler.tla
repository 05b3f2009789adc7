------------------------- MODULE MCEntryExitCompiler -------------------------
(***************************************************************************)
(* All nestings of four states, two transitions anywhere between them.     *)
(***************************************************************************)
EXTENDS EntryExitCompiler

MCState == 1..4

Nestings == {p \in [MCState -> {None} \cup MCState] : \A s \in MCState : p[s] = None \/ p[s] < s}

Arrow == [from : MCState, to : MCState, trigger : Trigger]

MCSpecs == {[parent |-> p, entry |-> e, exit |-> x, initial |-> 4, transitions |-> <<t, u>>] :
              p \in Nestings, e \in {MCState, {3, 4}}, x \in {MCState, {1, 3, 4}},
              t \in Arrow, u \in Arrow}
=============================================================================
