--------------------------- MODULE FlowLifecycle ---------------------------
(***************************************************************************)
(* What a flow looks like from outside, and what FlowEngine implements: it *)
(* is started once, moves along the edges of its definition one at a time, *)
(* and is closed once, in a terminal state under the name of that state,   *)
(* or anywhere under one of the engine's two codes.                        *)
(***************************************************************************)
EXTENDS FlowDefinition

CONSTANTS Flow, Root

VARIABLE life   \* flow -> its definition, where it is, how it ended

Absent == [def |-> None, at |-> None, exit |-> None]

(* Where errors in state s may go.                                         *)
ErrorEdges(d, s) ==
    ({d.onError[s]} \ {None})
    \cup {d.routes[i].to : i \in {j \in DOMAIN d.routes : d.routes[j].from = s}}

(* Every way out of state s: transitions, exits of a sub-flow, error routes. *)
Edges(d, s) == Successors(d, s) \cup ErrorEdges(d, s)

isOpen(f) == life[f].def # None /\ life[f].exit = None

(* Arriving at s closes the flow if s is terminal, unless the call that    *)
(* brought it there is cut off.                                            *)
ExitAt(d, s) == {None} \cup (IF s \in d.terminal THEN {s} ELSE {})

Init == life = [f \in Flow |-> Absent]

Start(f, n) ==
    /\ life[f] = Absent
    /\ \E e \in ExitAt(Def[n], Def[n].initial) :
         life' = [life EXCEPT ![f] = [def |-> n, at |-> Def[n].initial, exit |-> e]]

Move(f) ==
    /\ isOpen(f)
    /\ \E s \in Edges(Def[life[f].def], life[f].at) : \E e \in ExitAt(Def[life[f].def], s) :
         life' = [life EXCEPT ![f] = [@ EXCEPT !.at = s, !.exit = e]]

(* An enter action throws on arrival at s: the flow ends there, or takes   *)
(* an error route of s or of the state it comes from.                      *)
Stumble(f) ==
    /\ isOpen(f)
    /\ LET d  == Def[life[f].def]
           at == life[f].at
       IN  \E s \in Edges(d, at) \cap d.enterActions :
              \/ life' = [life EXCEPT ![f] = [@ EXCEPT !.at = s, !.exit = "TERMINAL_ERROR"]]
              \/ \E t \in ErrorEdges(d, s) \cup ErrorEdges(d, at) : \E e \in ExitAt(d, t) :
                    life' = [life EXCEPT ![f] = [@ EXCEPT !.at = t, !.exit = e]]

Close(f, code) ==
    /\ isOpen(f)
    /\ life' = [life EXCEPT ![f] = [@ EXCEPT !.exit = code]]

Next ==
    \E f \in Flow :
        \/ \E n \in Root : Start(f, n)
        \/ Move(f)
        \/ Stumble(f)
        \/ \E code \in {"EXPIRED", "TERMINAL_ERROR"} : Close(f, code)

Spec == Init /\ [][Next]_life
=============================================================================
