-------------------------- MODULE EntryExitCompiler --------------------------
(***************************************************************************)
(* EntryExitCompiler of ts-plugins/src/hierarchy: flattens nested states.  *)
(* What an outer state handles is copied to the states inside it that do   *)
(* not (synthesizeBubbling), and a transition becomes the exits and the    *)
(* entries on the way from one state to the other (compileTransition).     *)
(*                                                                         *)
(* The actions run a flow of such a specification: they fire a transition  *)
(* of the flattened machine and do what was compiled for it.  The flow     *)
(* itself is no code of the repository; it gives the compiled chains       *)
(* something to be right about.                                            *)
(***************************************************************************)
EXTENDS Naturals, Sequences, FiniteSets

CONSTANTS State, Trigger,
          Specs,     \* the specifications that are compiled
          None       \* the parent of a root state

(* entry and exit: the states with something to produce then.              *)
Spec_ == [parent : [State -> State \cup {None}], entry : SUBSET State, exit : SUBSET State,
          initial : State, transitions : Seq([from : State, to : State, trigger : Trigger])]

(* Nested states are objects within objects: a tree below each root.       *)
Nested(parent) == \A T \in SUBSET State : T # {} => \E s \in T : parent[s] \notin T

ASSUME SpecAssumption ==
    /\ None \notin State /\ IsFiniteSet(State)
    /\ Specs \subseteq Spec_
    /\ \A sp \in Specs : Nested(sp.parent)

VARIABLES
    spec,      \* the specification
    at,        \* the state the flow is in
    active,    \* the states whose entry was run, and not yet their exit
    chain,     \* what was compiled for the last transition
    crashed    \* compileTransition threw a TypeError

vars == <<spec, at, active, chain, crashed>>

-----------------------------------------------------------------------------
children(s) == {c \in State : spec.parent[c] = s}

(* The states from a root to s, each inside the one before.                *)
pathTo[s \in State] ==
    IF spec.parent[s] = None THEN <<s>> ELSE Append(pathTo[spec.parent[s]], s)

(* The common prefix of two paths.                                         *)
lcaIndex(p, q) ==
    Cardinality({i \in DOMAIN p : i <= Len(q) /\ \A j \in 1..i : p[j] = q[j]})

Reversed(p) == [i \in DOMAIN p |-> p[Len(p) + 1 - i]]

(* The states of S on the path p after the l-th, as the loops collect them. *)
collect(S, p, l) ==
    LET out[i \in l..Len(p)] ==
            IF i = l THEN <<>> ELSE IF p[i] \in S THEN Append(out[i - 1], p[i]) ELSE out[i - 1]
    IN  out[Len(p)]

(* Mistaken: the common state itself is left too.                          *)
exitsWithLca(from, to) ==
    LET l == lcaIndex(pathTo[from], pathTo[to])
    IN  Reversed(collect(spec.exit, pathTo[from], IF l = 0 THEN 0 ELSE l - 1))

(* Innermost first, up to the common state and without it.                 *)
exits(from, to) ==
    Reversed(collect(spec.exit, pathTo[from], lcaIndex(pathTo[from], pathTo[to])))

entries(from, to) == collect(spec.entry, pathTo[to], lcaIndex(pathTo[from], pathTo[to]))

(* An entry is named for the state before it on the path, and there is     *)
(* none before a root: reading its name throws.                            *)
readsBeforeRoot(from, to) == \E i \in DOMAIN entries(from, to) : spec.parent[entries(from, to)[i]] = None

compileTransition(from, to) == [exits |-> exits(from, to), entries |-> entries(from, to)]

-----------------------------------------------------------------------------
handles(s, trigger) == \E i \in DOMAIN spec.transitions :
    spec.transitions[i].from = s /\ spec.transitions[i].trigger = trigger

OnPath(s) == {pathTo[s][i] : i \in DOMAIN pathTo[s]}

Around(s) == OnPath(s) \ {s}

(* Mistaken: states inside hear of the trigger even if one between them    *)
(* and the outer state handles it.                                         *)
fallbacksThrough(s, trigger) == {c \in State : s \in Around(c) /\ ~handles(c, trigger)}

(* propagateBubbling: the states that get a copy of what s does on trigger. *)
fallbacks(s, trigger) ==
    LET unhandled(q) == {c \in children(q) : ~handles(c, trigger)}
        propagated[q \in State] == unhandled(q) \cup UNION {propagated[c] : c \in unhandled(q)}
    IN  propagated[s]

synthesizeBubbling ==
    UNION {{<<s, i>> : s \in fallbacks(spec.transitions[i].from, spec.transitions[i].trigger)} :
             i \in DOMAIN spec.transitions}

(* The flat machine: <<state, transition>>, as declared or as a fallback.  *)
flat == {<<spec.transitions[i].from, i>> : i \in DOMAIN spec.transitions} \cup synthesizeBubbling

-----------------------------------------------------------------------------
Both == spec.entry \cap spec.exit

NoChain == [exits |-> <<>>, entries |-> <<>>]

Init ==
    /\ spec \in Specs
    /\ at = spec.initial
    /\ active = OnPath(at) \cap Both
    /\ chain = NoChain
    /\ crashed = FALSE

Image(p) == {p[i] : i \in DOMAIN p}

Fire ==
    /\ ~crashed
    /\ \E x \in flat :
         /\ x[1] = at
         /\ LET to == spec.transitions[x[2]].to
                compiled == compileTransition(at, to)
            IN  IF readsBeforeRoot(at, to)
                THEN crashed' = TRUE /\ UNCHANGED <<at, active, chain>>
                ELSE /\ at' = to
                     /\ active' = (active \ Image(compiled.exits)) \cup (Image(compiled.entries) \cap Both)
                     /\ chain' = compiled
                     /\ UNCHANGED crashed
    /\ UNCHANGED spec

Next == Fire

FlowSpec == Init /\ [][Next]_vars

-----------------------------------------------------------------------------

(* However a flow wanders, the states that were entered and not left are   *)
(* the ones it is in: the state it is at and those around it.  A chain     *)
(* leaves inner states before the ones around them, and enters outer       *)
(* states before the ones inside.                                          *)
EntriesMatchExits ==
    /\ active = OnPath(at) \cap Both
    /\ \A i, j \in DOMAIN chain.exits : i < j => chain.exits[j] \in Around(chain.exits[i])
    /\ \A i, j \in DOMAIN chain.entries : i < j => chain.entries[i] \in Around(chain.entries[j])

(* On every trigger the flat machine does in a state what the innermost of *)
(* the states around it, itself included, does that handles the trigger.   *)
BubblingIsNearest ==
    \A s \in State, g \in Trigger :
        LET handling == {h \in OnPath(s) : handles(h, g)}
            nearest == {h \in handling : handling \subseteq OnPath(h)}
        IN  {x[2] : x \in {y \in flat : y[1] = s /\ spec.transitions[y[2]].trigger = g}}
            = {i \in DOMAIN spec.transitions :
                 spec.transitions[i].trigger = g /\ spec.transitions[i].from \in nearest}
=============================================================================
