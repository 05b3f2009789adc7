----------------------------- MODULE MCPipeline -----------------------------
(***************************************************************************)
(* Steps over two keys, one of them made from a pipeline of two.           *)
(***************************************************************************)
EXTENDS Pipeline

plain(requires, produces) == asStep(requires, <<[requires |-> requires, produces |-> produces]>>)

MCSteps == {plain({}, {"k"}), plain({"k"}, {"l"}), plain({"l"}, {}),
            asStep({"k"}, <<[requires |-> {"k"}, produces |-> {"l"}],
                            [requires |-> {"l"}, produces |-> {"k"}]>>)}
=============================================================================
