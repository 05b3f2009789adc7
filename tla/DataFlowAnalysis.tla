-------------------------- MODULE DataFlowAnalysis --------------------------
(***************************************************************************)
(* The analysis of requires and produces that build() makes:               *)
(* checkRequiresProduces of lang/ts/src/flow-definition.ts, and the copy   *)
(* of it that fills the data-flow graph, traverse of                       *)
(* lang/ts/src/data-flow-graph.ts.                                         *)
(*                                                                         *)
(* Both walk the transitions depth first from the initial state and keep,  *)
(* for every state they have visited, the keys available there.  They are  *)
(* recursive functions with side effects: what a call reads after the call *)
(* it made returns is what that one left behind.  So the walk is a state   *)
(* machine here, with the stack of the recursion as a variable.            *)
(*                                                                         *)
(* The order matters, as transitions are a sequence.  Of a transition only *)
(* what the analysis looks at is kept; a sub-flow transition is one from a *)
(* state to itself without data.                                           *)
(***************************************************************************)
EXTENDS Integers, Sequences

CONSTANTS State, Key,
          None,      \* no error route
          Designs,   \* the definitions that are analysed
          MaxCalls   \* bound: the calls the JavaScript stack has room for

(* asks: what the guard or the branch requires; gives: what the guard      *)
(* produces; needs and puts: the same of the processor.                    *)
Edge == [from: State, to: State, external: BOOLEAN, processor: BOOLEAN,
         asks: SUBSET Key, gives: SUBSET Key, needs: SUBSET Key, puts: SUBSET Key]

Design == [initial: State, initially: SUBSET Key, provided: SUBSET Key,
           edges: Seq(Edge), onError: [State -> State \cup {None}]]

ASSUME DesignAssumption ==
    /\ None \notin State
    /\ MaxCalls \in Nat
    /\ \A d \in Designs : d \in Design

Pass == {"check", "graph"}

VARIABLES
    design,     \* the definition that is analysed
    pass,       \* the walk that is under way: the check, then the graph
    visited,    \* pass -> the states it has visited
    available,  \* pass -> state -> the keys it takes to be available there
    taken,      \* pass -> the transitions it has gone through
    stack,      \* the calls of the recursive function, innermost last
    errors      \* what the check reports: <<transition, missing key>>

vars == <<design, pass, visited, available, taken, stack, errors>>

(* A call works on a state; next is where its loop over the transitions    *)
(* stands; failing is the transition whose error route comes next, or 0.   *)
Frame == [state: State, next: Nat \ {0}, failing: Nat]

call(s) == [state |-> s, next |-> 1, failing |-> 0]

-----------------------------------------------------------------------------
(* One transition, entered with the keys A.                                *)

edge(i) == design.edges[i]

(* Mistaken: only the check knows of keys that resumes provide.            *)
receivedInCheck(e, A) == A \cup (IF e.external /\ pass = "check" THEN design.provided ELSE {})

received(e, A) == A \cup (IF e.external THEN design.provided ELSE {})

propagate(e, A) == received(e, A) \cup e.gives \cup e.puts

(* Mistaken: only guards and branches are asked what they require.         *)
missingAtGuard(e, A) == e.asks \ received(e, A)

missing(e, A) == (e.asks \ received(e, A)) \cup (e.needs \ (received(e, A) \cup e.gives))

(* Mistaken: the processor's keys count although it failed.                *)
rollbackKeepsAll(e, A) == A \cup e.gives \cup e.puts

(* Mistaken: the guard's keys are lost although it accepted.               *)
rollbackForgetsGuard(e, A) == A

(* What is left when the processor fails.                                  *)
rollback(e, A) == A \cup e.gives

-----------------------------------------------------------------------------
(* A call of the recursive function.                                       *)

(* Mistaken: a state is left alone only when it gains nothing.             *)
settledWhenSubset(s, A) == s \in visited[pass] /\ A \subseteq available[pass][s]

(* The call returns at once: nothing is to be done, so the code says, for  *)
(* a state that gains no key and for one that loses none.                  *)
settled(s, A) ==
    /\ s \in visited[pass]
    /\ A \subseteq available[pass][s] \/ available[pass][s] \subseteq A

(* Mistaken: a state that loses keys is not gone through again.            *)
visitOnce(s, A, rest) ==
    LET first == s \notin visited[pass]
    IN  /\ stack' = IF first THEN Append(rest, call(s)) ELSE rest
        /\ visited' = [visited EXCEPT ![pass] = @ \cup {s}]
        /\ available' = [available EXCEPT ![pass][s] = IF first THEN A ELSE @ \cap A]

(* The call for state s with the keys A, made by the calls of rest.  When  *)
(* the stack is full the walk stops for good: RangeError.                  *)
visit(s, A, rest) ==
    IF settled(s, A)
    THEN /\ stack' = rest
         /\ UNCHANGED <<visited, available>>
    ELSE /\ Len(rest) < MaxCalls
         /\ stack' = Append(rest, call(s))
         /\ visited' = [visited EXCEPT ![pass] = @ \cup {s}]
         /\ available' = [available EXCEPT
                ![pass][s] = IF s \in visited[pass] THEN @ \cap A ELSE A]

Top == stack[Len(stack)]

Callers == SubSeq(stack, 1, Len(stack) - 1)

(* The transitions the innermost call has still to go through.             *)
Remaining == {i \in DOMAIN design.edges : edge(i).from = Top.state /\ i >= Top.next}

(* Only the check follows error routes.                                    *)
followsError(e) == pass = "check" /\ e.processor /\ design.onError[e.from] # None

-----------------------------------------------------------------------------
Init ==
    /\ design \in Designs
    /\ pass = "check"
    /\ visited = [p \in Pass |-> IF p = "check" THEN {design.initial} ELSE {}]
    /\ available = [p \in Pass |-> [s \in State |->
                       IF p = "check" /\ s = design.initial THEN design.initially ELSE {}]]
    /\ taken = [p \in Pass |-> {}]
    /\ stack = <<call(design.initial)>>
    /\ errors = {}

TakeEdge ==
    /\ stack # <<>> /\ Top.failing = 0
    /\ \E i \in Remaining :
         LET e == edge(i)
             A == available[pass][Top.state]
         IN  /\ \A j \in Remaining : i <= j
             /\ visit(e.to, propagate(e, A),
                      Append(Callers, [Top EXCEPT !.next = i + 1,
                                                  !.failing = IF followsError(e) THEN i ELSE 0]))
             /\ taken' = [taken EXCEPT ![pass] = @ \cup {i}]
             /\ errors' = IF pass = "check" THEN errors \cup ({i} \X missing(e, A)) ELSE errors
             /\ UNCHANGED <<design, pass>>

TakeErrorRoute ==
    /\ stack # <<>> /\ Top.failing # 0
    /\ LET e == edge(Top.failing)
       IN  visit(design.onError[e.from], rollback(e, available[pass][Top.state]),
                 Append(Callers, [Top EXCEPT !.failing = 0]))
    /\ UNCHANGED <<design, pass, taken, errors>>

Return ==
    /\ stack # <<>> /\ Top.failing = 0
    /\ Remaining = {}
    /\ stack' = Callers
    /\ UNCHANGED <<design, pass, visited, available, taken, errors>>

(* buildAndValidate builds the graph of a definition with errors too.      *)
BuildGraph ==
    /\ pass = "check" /\ stack = <<>>
    /\ pass' = "graph"
    /\ visited' = [visited EXCEPT !["graph"] = {design.initial}]
    /\ available' = [available EXCEPT !["graph"][design.initial] = design.initially]
    /\ stack' = <<call(design.initial)>>
    /\ UNCHANGED <<design, taken, errors>>

Next == TakeEdge \/ TakeErrorRoute \/ Return \/ BuildGraph

Spec == Init /\ [][Next]_vars

Done(p) == stack = <<>> /\ (pass = "graph" \/ p = "check")

-----------------------------------------------------------------------------
TypeOK ==
    /\ design \in Design
    /\ pass \in Pass
    /\ visited \in [Pass -> SUBSET State]
    /\ available \in [Pass -> [State -> SUBSET Key]]
    /\ taken \in [Pass -> SUBSET (Nat \ {0})]
    /\ \A p \in Pass : taken[p] \subseteq DOMAIN design.edges
    /\ stack \in Seq(Frame)
    /\ errors \subseteq (Nat \ {0}) \X Key

(* What a transition means for the keys of a flow, as the documents have   *)
(* it (SPEC.md 5.3): what a step that succeeds leaves, what a step whose   *)
(* processor fails leaves, and which keys a step asks for in vain.         *)
given(e) == IF e.external THEN design.provided ELSE {}

success(e, A) == A \cup given(e) \cup e.gives \cup e.puts

failure(e, A) == A \cup e.gives

canFail(e) == e.processor /\ design.onError[e.from] # None

gap(e, A) == (e.asks \cup (e.needs \ e.gives)) \ (A \cup given(e))

(* g is a guarantee if every key of g[s] is there on every path to s: each *)
(* way into s brings all of them.                                          *)
Guarantee(g) ==
    /\ g[design.initial] \subseteq design.initially
    /\ \A i \in DOMAIN design.edges :
         LET e == edge(i)
         IN  /\ g[e.to] \subseteq success(e, g[e.from])
             /\ canFail(e) => g[design.onError[e.from]] \subseteq failure(e, g[e.from])

(* h is a possibility if no path to s brings a key outside h[s].           *)
Possibility(h) ==
    /\ design.initially \subseteq h[design.initial]
    /\ \A i \in DOMAIN design.edges :
         LET e == edge(i)
         IN  /\ success(e, h[e.from]) \subseteq h[e.to]
             /\ canFail(e) => failure(e, h[e.from]) \subseteq h[design.onError[e.from]]

(* No false alarm: what the check reports is a gap on some path, whatever  *)
(* the order of the transitions, loops and error routes: no guarantee can  *)
(* account for the key.                                                    *)
NoFalseAlarm ==
    \A g \in [State -> SUBSET Key] :
        Guarantee(g) => \A x \in errors : x[2] \in gap(edge(x[1]), g[edge(x[1]).from])

(* A sure gap is reported: when the check is done, a key that a transition *)
(* of a visited state requires and that no path brings is in the report.   *)
SureGapsReported ==
    Done("check") =>
        \A h \in [State -> SUBSET Key] :
            Possibility(h) =>
                \A i \in DOMAIN design.edges :
                    edge(i).from \in visited["check"] =>
                        {i} \X gap(edge(i), h[edge(i).from]) \subseteq errors

(* The two copies of the walk agree where there is no error route.         *)
WalksAgree ==
    (Done("graph") /\ \A s \in State : design.onError[s] = None) =>
        /\ visited["graph"] = visited["check"]
        /\ available["graph"] = available["check"]
        /\ taken["graph"] = taken["check"]

(* The analysis of every definition ends, cycles included, and does so     *)
(* within MaxCalls nested calls: a state is visited anew only while its    *)
(* keys grow fewer, so |State| * (|Key| + 1) of them are enough.           *)
AnalysisEnds == <>Done("graph")

(* SPEC.md I6: what a state of an accepted definition requires is there on *)
(* every path to it.                                                       *)
AcceptedMeansGuaranteed ==
    (Done("check") /\ errors = {}) =>
        \E g \in [State -> SUBSET Key] :
            /\ Guarantee(g)
            /\ \A i \in DOMAIN design.edges :
                 edge(i).from \in visited["check"] => gap(edge(i), g[edge(i).from]) = {}
=============================================================================
