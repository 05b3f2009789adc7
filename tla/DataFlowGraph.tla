---------------------------- MODULE DataFlowGraph ----------------------------
(***************************************************************************)
(* DataFlowGraph of lang/ts/src/data-flow-graph.ts: what tools and tests   *)
(* ask of the graph once build() has filled it, and the comparison of the  *)
(* graphs of two versions of a definition.                                 *)
(*                                                                         *)
(* The graph is what the second walk of DataFlowAnalysis leaves behind.  A *)
(* guard, branch or processor is named for its kind and transition.        *)
(***************************************************************************)
EXTENDS DataFlowAnalysis, FiniteSets

CONSTANT NextVersions(_)   \* definition -> what its next version may be

ASSUME VersionAssumption == \A d \in Designs : NextVersions(d) \subseteq Design

VARIABLE previous    \* the version analysed before this one, or NoVersion

NoVersion == <<>>

graphVars == <<vars, previous>>

GraphInit == Init /\ previous = NoVersion

(* The next version of the definition is built: both walks start over.     *)
Redefine ==
    /\ Done("graph") /\ previous = NoVersion
    /\ design' \in NextVersions(design)
    /\ previous' = [design |-> design, visited |-> visited["graph"],
                    available |-> available["graph"], errors |-> errors]
    /\ pass' = "check"
    /\ visited' = [p \in Pass |-> IF p = "check" THEN {design'.initial} ELSE {}]
    /\ available' = [p \in Pass |-> [s \in State |->
                        IF p = "check" /\ s = design'.initial THEN design'.initially ELSE {}]]
    /\ taken' = [p \in Pass |-> {}]
    /\ stack' = <<call(design'.initial)>>
    /\ errors' = {}

Analyse == Next /\ UNCHANGED previous

GraphNext == Analyse \/ Redefine

GraphSpec == GraphInit /\ [][GraphNext]_graphVars

FairGraphSpec == GraphSpec /\ WF_graphVars(Analyse)

-----------------------------------------------------------------------------
(* The nodes the walk has met.                                             *)

node(kind, i) ==
    [name |-> <<kind, i>>, from |-> edge(i).from,
     requires |-> IF kind = "guard" THEN edge(i).asks ELSE edge(i).needs,
     produces |-> IF kind = "guard" THEN edge(i).gives ELSE edge(i).puts]

Nodes == {n \in {node(kind, i) : kind \in {"guard", "processor"}, i \in taken["graph"]} :
            n.requires \cup n.produces # {}}

producersOf(k) == {n \in Nodes : k \in n.produces}

consumersOf(k) == {n \in Nodes : k \in n.requires}

allTypes == design.initially \cup UNION {n.requires \cup n.produces : n \in Nodes}

availableAt(s) == available["graph"][s]   \* empty for a state the walk has not met

assertDataFlow(ctx, s) == availableAt(s) \ ctx

(* explain and whyMissing: what is asked for at s and not available there. *)
explain(s) == {k \in allTypes \ availableAt(s) : \E n \in consumersOf(k) : n.from = s}

(* Mistaken: the replacement may ask for more.                             *)
compatibleProduces(a, b) == a.produces \subseteq b.produces

(* Processor b can replace processor a.                                    *)
isCompatible(a, b) == b.requires \subseteq a.requires /\ a.produces \subseteq b.produces

(* Mistaken: any node that is left comes next.                             *)
readyAny(left) == left

ready(left) ==
    {n \in left : n.requires \subseteq design.initially \cup UNION {m.produces : m \in Nodes \ left}}

(* Which ready node is next, and in which order the rest is listed once    *)
(* none is ready, the code leaves to the order of its maps.                *)
nextOf(left) == CHOOSE n \in ready(left) : TRUE

restOf[left \in SUBSET Nodes] ==
    LET n == CHOOSE m \in left : TRUE
    IN  IF left = {} THEN <<>> ELSE <<n>> \o restOf[left \ {n}]

orderOf[left \in SUBSET Nodes] ==
    IF ready(left) = {} THEN restOf[left] ELSE <<nextOf(left)>> \o orderOf[left \ {nextOf(left)}]

migrationOrder == orderOf[Nodes]

(* A key the new version expects at a state of the old one that instances  *)
(* of the old one may not have there.                                      *)
versionIncompatibilities == {x \in previous.visited \X Key :
    x[2] \in availableAt(x[1]) \ previous.available[x[1]]}

-----------------------------------------------------------------------------
(* Every gap the check of build() reports is explained by the graph: the   *)
(* key is listed as missing where the transition starts.  The two are      *)
(* filled by different walks, at different times; the first also follows   *)
(* error routes, so the graph knows only the states without them.          *)
ErrorsAreExplained ==
    (Done("graph") /\ \A s \in State : design.onError[s] = None) =>
        \A x \in errors : x[2] \in explain(edge(x[1]).from)

(* The two walks agree: on what is there at each state, and the graph      *)
(* explains what the check reports.                                        *)
GraphMatchesCheck == WalksAgree /\ ErrorsAreExplained

(* What is there before the i-th node of an order, and is it enough?       *)
before(order, i) == design.initially \cup UNION {order[j].produces : j \in 1..(i - 1)}

fits(order, i) == order[i].requires \subseteq before(order, i)

(* Every node before the i-th has its data, the i-th has not.              *)
firstUnfit(order, i) == ~fits(order, i) /\ \A j \in 1..(i - 1) : fits(order, j)

(* "processors sorted by dependency": the migration order lists each node  *)
(* once, after those it has its data from; and where a first node lacks    *)
(* its data, no node of the rest could have been listed instead of it.     *)
MigrationFollowsData ==
    Done("graph") =>
        LET order == migrationOrder
        IN  /\ {order[i] : i \in DOMAIN order} = Nodes /\ Len(order) = Cardinality(Nodes)
            /\ \A i, j \in DOMAIN order :
                 (firstUnfit(order, i) /\ i < j) => ~(order[j].requires \subseteq before(order, i))

(* A definition that build() accepts can be migrated in the given order:   *)
(* what its processors ask of each other never goes round in a circle, so  *)
(* a node lacks its data only where some node of the rest waits for a key  *)
(* that resumes bring, which the order takes no account of.  The check     *)
(* goes along paths, the order over sets of nodes.                         *)
AcceptedIsOrderable ==
    (Done("graph") /\ errors = {} /\ \A s \in State : design.onError[s] = None) =>
        LET order == migrationOrder
        IN  \A i \in DOMAIN order : firstUnfit(order, i) =>
                \E j \in i..Len(order) :
                    (order[j].requires \cap design.provided) \ before(order, i) # {}

(* The transition of both versions whose processor was replaced, if that   *)
(* and nothing else is the difference between them.                        *)
contract(d, i) == [requires |-> d.edges[i].needs, produces |-> d.edges[i].puts]

replacedAt(i) ==
    /\ previous # NoVersion
    /\ i \in DOMAIN design.edges
    /\ design = [previous.design EXCEPT !.edges[i].needs = design.edges[i].needs,
                                        !.edges[i].puts = design.edges[i].puts]

(* "Check if processor B can replace processor A without breaking          *)
(* data-flow": whatever the check reports of a definition in which only a  *)
(* processor was replaced by a compatible one was a gap before: no         *)
(* guarantee of the old definition accounts for the key.                   *)
CompatibleReplacementIsSafe ==
    \A i \in 1..Len(design.edges) :
        (replacedAt(i) /\ isCompatible(contract(previous.design, i), contract(design, i))) =>
            \A g \in [State -> SUBSET Key] :
                LET old(j) == previous.design.edges[j]
                    guaranteed == /\ g[design.initial] \subseteq design.initially
                                  /\ \A j \in DOMAIN design.edges :
                                       /\ g[old(j).to] \subseteq success(old(j), g[old(j).from])
                                       /\ canFail(old(j)) => g[design.onError[old(j).from]]
                                                             \subseteq failure(old(j), g[old(j).from])
                IN  guaranteed => \A x \in errors : x[2] \in gap(old(x[1]), g[old(x[1]).from])

(* "check if v1 instances can resume on v2 definition": an instance of the *)
(* old version has at a state what the old graph lists there.  A key that  *)
(* a transition of the new version asks for in that state, and that the    *)
(* instance may lack, is among the incompatibilities or was reported when  *)
(* the new version was built.  So instances of an accepted new version     *)
(* with no incompatibility find their data.  Where the new version has     *)
(* error routes the graph leaves out the paths behind them.                *)
VersionCheckCoversInstances ==
    (Done("graph") /\ previous # NoVersion /\ \A s \in State : design.onError[s] = None) =>
        \A i \in DOMAIN design.edges :
            LET s == edge(i).from
            IN  s \in previous.visited \cap visited["graph"] =>
                    \A k \in gap(edge(i), previous.available[s]) :
                        <<s, k>> \in versionIncompatibilities \/ <<i, k>> \in errors
=============================================================================
