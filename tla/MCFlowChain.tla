---------------------------- MODULE MCFlowChain ----------------------------
(***************************************************************************)
(* Chains of one and of three steps; the second step is taken only when    *)
(* the first flow went well, the third one always.                         *)
(***************************************************************************)
EXTENDS FlowChain

MCState == {"new", "waits", "ok", "ko"}

MCChains == {<<MCState>>, <<MCState, {"ok"}, MCState>>}
=============================================================================
