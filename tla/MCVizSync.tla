----------------------------- MODULE MCVizSync -----------------------------
(***************************************************************************)
(* Two flows that go through three states, one after the other.            *)
(***************************************************************************)
EXTENDS VizSync

MCMoves == {<<"S", "W">>, <<"W", "T">>}
=============================================================================
