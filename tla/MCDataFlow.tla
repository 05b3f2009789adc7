----------------------------- MODULE MCDataFlow -----------------------------
(***************************************************************************)
(* Definitions to analyse: a few shapes, with every choice of data on      *)
(* their transitions, in a given order.                                    *)
(***************************************************************************)
EXTENDS DataFlowGraph, TLC

MCState == {"I", "A", "B", "Z"}
MCKey == {"k", "l"}

(* The data of a transition.                                               *)
data(external, processor, asks, gives, needs, puts) ==
    [external |-> external, processor |-> processor,
     asks |-> asks, gives |-> gives, needs |-> needs, puts |-> puts]

Palette ==
    {data(FALSE, FALSE, {}, {}, {"k"}, {}),
     data(FALSE, TRUE, {}, {}, {}, {"k"}),
     data(FALSE, TRUE, {}, {}, {}, {"l"}),
     data(FALSE, TRUE, {}, {}, {"l"}, {"k"}),
     data(TRUE, FALSE, {"l"}, {"k"}, {}, {}),
     data(TRUE, TRUE, {}, {"k"}, {"k"}, {"l"})}

(* Ways: the pairs <<from, to>>, in the order of declaration.              *)
designs(ways, provided, onError) ==
    {[initial |-> "I", initially |-> {}, provided |-> provided,
      edges |-> [i \in DOMAIN ways |-> [from |-> ways[i][1], to |-> ways[i][2]] @@ c[i]],
      onError |-> onError] : c \in [DOMAIN ways -> Palette]}

noError == [s \in MCState |-> None]
toB == [noError EXCEPT !["I"] = "B"]
fromAtoB == [noError EXCEPT !["A"] = "B"]

Diamond == <<<<"I", "A">>, <<"I", "B">>, <<"A", "Z">>, <<"B", "Z">>>>

(* A join whose state leads back to one of the paths that join in it.      *)
Cycle == <<<<"I", "A">>, <<"I", "B">>, <<"A", "B">>, <<"B", "A">>, <<"B", "Z">>>>

(* A transition from a state to itself, and an error route that joins.     *)
Retry == <<<<"I", "I">>, <<"I", "A">>, <<"A", "B">>, <<"B", "Z">>>>

(* Two ways to the state that asks.                                        *)
Twice == <<<<"I", "A">>, <<"I", "A">>, <<"A", "Z">>>>

(* B is where errors of the second step go, and only they.                 *)
Recovery == <<<<"I", "A">>, <<"A", "Z">>, <<"B", "Z">>>>

MCDesigns ==
    designs(Diamond, {}, noError)
    \cup designs(Cycle, {"l"}, noError)
    \cup designs(Retry, {}, toB)
    \cup designs(Twice, {"l"}, noError)
    \cup designs(Recovery, {}, fromAtoB)

(* The next version of a definition with three transitions: it differs in   *)
(* the data of one of them.                                                 *)
Revised(d) ==
    IF Len(d.edges) # 3 THEN {}
    ELSE {[d EXCEPT !.edges[i] = [from |-> d.edges[i].from, to |-> d.edges[i].to] @@ p] :
            i \in DOMAIN d.edges, p \in Palette}

(* Both branches lead to A, which requires what only the first brings.     *)
JoinDesigns ==
    {[initial |-> "I", initially |-> {}, provided |-> {},
      edges |-> <<[from |-> "I", to |-> "A"] @@ data(FALSE, TRUE, {}, {}, {}, {"k"}),
                  [from |-> "I", to |-> "A"] @@ data(FALSE, FALSE, {}, {}, {}, {}),
                  [from |-> "A", to |-> "Z"] @@ data(FALSE, TRUE, {}, {}, {"k"}, {})>>,
      onError |-> noError]}
=============================================================================
