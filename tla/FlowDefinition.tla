--------------------------- MODULE FlowDefinition ---------------------------
(***************************************************************************)
(* Flow definitions: lang/ts/src/flow-definition.ts and types.ts.          *)
(*                                                                         *)
(* A definition is immutable once build() has returned it, so this module  *)
(* is constant-level: Def maps the name of a definition to its record, and *)
(* a sub-flow transition names the definition it embeds.  The transitions  *)
(* stay a sequence because the engine takes the first match.               *)
(*                                                                         *)
(* What user code computes is left out; what the engine looks at is kept:  *)
(* which keys a guard requires, which keys a processor says it produces,   *)
(* and so on.                                                              *)
(***************************************************************************)
EXTENDS Integers, Sequences, FiniteSets

CONSTANTS
    State,         \* state names, of all definitions
    Key,           \* FlowKeys
    Label,         \* the labels a branch can return
    ErrorClass,    \* classes of errors user code and the engine throw
    FlowErrorClass,\* the engine's own FlowError
    InstanceOf,    \* the pairs <<class of the error, class of a route>> for which instanceof holds
    DefName,       \* names of definitions
    Def,           \* name -> definition
    None           \* null / undefined

(* exitState is a terminal state or one of the engine's own codes.         *)
ExitCode == {"EXPIRED", "TERMINAL_ERROR", "ERROR"}
Exit == State \cup ExitCode

-----------------------------------------------------------------------------
(* Transition (types.ts).  processor says whether the transition has one,  *)
(* produces is what it declares; requires, trigger and gives belong to the *)
(* guard; exits is the map of onExit.                                      *)
Transition ==
    [from: State, to: State, type: {"auto", "external", "branch", "sub_flow"},
     processor: BOOLEAN, produces: SUBSET Key,
     requires: SUBSET Key, trigger: Key \cup {None}, gives: SUBSET Key,
     timeout: Nat \cup {None}, label: Label \cup {None},
     sub: DefName \cup {None}, exits: [Exit -> State \cup {None}]]

NoExits == [e \in Exit |-> None]

plain(from, to, type) ==
    [from |-> from, to |-> to, type |-> type,
     processor |-> FALSE, produces |-> {},
     requires |-> {}, trigger |-> None, gives |-> {},
     timeout |-> None, label |-> None, sub |-> None, exits |-> NoExits]

(* FromBuilder.auto: the processor is mandatory.                           *)
auto(from, to, produces) ==
    [plain(from, to, "auto") EXCEPT !.processor = TRUE, !.produces = produces]

(* FromBuilder.external: the guard is mandatory, processor and timeout are *)
(* options.                                                                *)
external(from, to, requires, gives) ==
    [plain(from, to, "external") EXCEPT !.requires = requires, !.gives = gives]

withProcessor(t, produces) == [t EXCEPT !.processor = TRUE, !.produces = produces]

withTimeout(t, ms) == [t EXCEPT !.timeout = ms]

externalOn(trigger, from, to, requires, gives) ==
    [external(from, to, requires, gives) EXCEPT !.trigger = trigger]

(* BranchBuilder.to and endBranch: one transition per label.               *)
branch(from, to, label) == [plain(from, to, "branch") EXCEPT !.label = label]

(* SubFlowBuilder.onExit and endSubFlow: the transition leads from a state *)
(* to itself.                                                              *)
subFlow(from, name, exits) ==
    [plain(from, from, "sub_flow") EXCEPT
        !.sub = name,
        !.exits = [e \in Exit |-> IF e \in DOMAIN exits THEN exits[e] ELSE None]]

(* FlowDefinition.  onError is errorTransitions, routes the exceptionRoutes *)
(* of all states in the order onStepError added them.                      *)
Definition ==
    [states: SUBSET State, initial: State, terminal: SUBSET State,
     transitions: Seq(Transition),
     onError: [State -> State \cup {None}],
     routes: Seq([from: State, class: ErrorClass, to: State]),
     enterActions: SUBSET State, exitActions: SUBSET State,
     maxGuardRetries: Nat, ttl: Nat, strictMode: BOOLEAN,
     perpetual: BOOLEAN, allowUnreachable: BOOLEAN]

(* onAnyError: every non-terminal state goes to the error state, the error *)
(* state itself included when it is not terminal; a terminal state keeps   *)
(* the route it may have.                                                  *)
onAnyError(onError, states, terminal, errorState) ==
    [s \in State |-> IF s \in states \ terminal THEN errorState ELSE onError[s]]

-----------------------------------------------------------------------------
(* Look-ups.  A transition is known by its index.                          *)

transitionsFrom(d, s) == {i \in DOMAIN d.transitions : d.transitions[i].from = s}

ofType(d, s, types) == {i \in transitionsFrom(d, s) : d.transitions[i].type \in types}

externalsFrom(d, s) == ofType(d, s, {"external"})

hasSubFlow(d) == \E i \in DOMAIN d.transitions : d.transitions[i].type = "sub_flow"

(* Array.prototype.find                                                    *)
First(I) == CHOOSE i \in I : \A j \in I : i <= j

(* The transitions selectExternalTransition leaves in the running for an   *)
(* event that carries keys: by explicit trigger when the state has one,    *)
(* else the only external, else those of maximal specificity.              *)
Candidates(d, s, keys) ==
    LET ext      == externalsFrom(d, s)
        explicit == {i \in ext : d.transitions[i].trigger # None}
        matches  == {i \in ext : d.transitions[i].requires \subseteq keys}
        size(i)  == Cardinality(d.transitions[i].requires)
    IN  IF explicit # {} THEN {i \in explicit : d.transitions[i].trigger \in keys}
        ELSE IF \E i \in ext : ext = {i} THEN ext
        ELSE {i \in matches : \A j \in matches : size(j) <= size(i)}

(* Mistaken: the routes of all states are looked up, not those of s.       *)
ErrorTargetOfAnyState(d, s, cause) ==
    LET matching == {i \in DOMAIN d.routes : <<cause, d.routes[i].class>> \in InstanceOf}
    IN  IF matching # {} THEN d.routes[First(matching)].to ELSE d.onError[s]

(* Where handleError goes from state s for a cause of a class (None: no    *)
(* cause): the first matching exception route, else onError, else nowhere. *)
ErrorTarget(d, s, cause) ==
    LET matching == {i \in DOMAIN d.routes : /\ d.routes[i].from = s
                                             /\ cause # None
                                             /\ <<cause, d.routes[i].class>> \in InstanceOf}
    IN  IF matching # {} THEN d.routes[First(matching)].to ELSE d.onError[s]

(* withPlugin: the first transition from -> to gives way to a sub-flow, of  *)
(* whose exits each leads to to.  The guard is gone, a processor is kept   *)
(* but never run; flags that Object.assign does not name are undefined.    *)
(* Nothing is checked again.                                               *)
withPlugin(d, from, to, name, terminal) ==
    LET matching == {i \in transitionsFrom(d, from) : d.transitions[i].to = to}
        inserted(t) == [subFlow(from, name, [e \in terminal |-> to])
                           EXCEPT !.processor = t.processor, !.produces = t.produces]
    IN  [d EXCEPT !.transitions = [i \in DOMAIN @ |-> IF matching # {} /\ i = First(matching)
                                                     THEN inserted(@[i]) ELSE @[i]],
                  !.strictMode = FALSE, !.perpetual = FALSE, !.allowUnreachable = FALSE]

-----------------------------------------------------------------------------
(* What build() demands of a definition (Builder.collectErrors), the  *)
(* analysis of requires and produces apart.                                *)

(* The edges checkReachability and canReachTerminal follow: a sub-flow     *)
(* counts by its exits, onError as an edge, exception routes not at all.   *)
Successors(d, s) ==
    (UNION {IF d.transitions[i].type = "sub_flow"
            THEN {d.transitions[i].exits[e] : e \in Exit} \ {None}
            ELSE {d.transitions[i].to} : i \in transitionsFrom(d, s)})
    \cup ({d.onError[s]} \ {None})

Reachable(d) ==
    {s \in d.states :
        \A R \in SUBSET d.states :
            (d.initial \in R /\ \A r \in R : Successors(d, r) \cap d.states \subseteq R) => s \in R}

checkReachability(d) == d.allowUnreachable \/ d.states \ d.terminal \subseteq Reachable(d)

checkPathToTerminal(d) == d.perpetual \/ Reachable(d) \cap d.terminal # {}

(* No set of states can be walked for ever along auto and branch edges.    *)
checkDag(d) ==
    \A R \in (SUBSET d.states) \ {{}} :
        \E s \in R : \A i \in ofType(d, s, {"auto", "branch"}) : d.transitions[i].to \notin R

checkExternalRequiresDistinct(d) ==
    \A s \in d.states : \A i, j \in externalsFrom(d, s) :
        i # j => LET a == d.transitions[i]
                     b == d.transitions[j]
                 IN  /\ a.trigger = None <=> b.trigger = None
                     /\ IF a.trigger = None THEN a.requires # b.requires ELSE a.trigger # b.trigger

checkBranchCompleteness(d) ==
    \A i \in DOMAIN d.transitions : d.transitions[i].type = "branch" => d.transitions[i].to \in d.states

checkAutoExternalConflict(d) ==
    \A s \in d.states : ofType(d, s, {"auto", "branch"}) = {} \/ externalsFrom(d, s) = {}

(* A sub-flow may start from a terminal state: the engine never looks.     *)
checkTerminalNoOutgoing(d) ==
    \A s \in d.terminal : transitionsFrom(d, s) = ofType(d, s, {"sub_flow"})

checkSubFlowExitCompleteness(d) ==
    \A i \in DOMAIN d.transitions :
        d.transitions[i].type = "sub_flow" =>
            \A e \in Def[d.transitions[i].sub].terminal : d.transitions[i].exits[e] # None

(* The sub-flow definitions embedded in any definition of N.               *)
Embedded(N) ==
    UNION {{Def[n].transitions[i].sub : i \in DOMAIN Def[n].transitions} \ {None} : n \in N}

(* checkSubFlowNestingDepth and checkSubFlowCircularRef: three levels of   *)
(* sub-flows, the deepest of which embeds nothing; that also excludes a    *)
(* cycle.                                                                  *)
checkSubFlowNesting(n) == Embedded(Embedded(Embedded(Embedded({n})))) = {}

ValidDefinition(n) ==
    LET d == Def[n]
    IN  /\ d.initial \in d.states
        /\ checkReachability(d)
        /\ checkPathToTerminal(d)
        /\ checkDag(d)
        /\ checkExternalRequiresDistinct(d)
        /\ checkBranchCompleteness(d)
        /\ checkAutoExternalConflict(d)
        /\ checkTerminalNoOutgoing(d)
        /\ checkSubFlowExitCompleteness(d)
        /\ checkSubFlowNesting(n)

-----------------------------------------------------------------------------
ASSUME NamesAssumption ==
    /\ None \notin State /\ None \notin Exit /\ None \notin Key
    /\ None \notin DefName /\ None \notin Label /\ None \notin ErrorClass
    /\ FlowErrorClass \in ErrorClass
    /\ InstanceOf \subseteq ErrorClass \X ErrorClass

ASSUME DefAssumption == Def \in [DefName -> Definition]

ASSUME SubFlowAssumption ==
    \A n \in DefName : \A i \in DOMAIN Def[n].transitions :
        Def[n].transitions[i].type = "sub_flow" => Def[n].transitions[i].sub \in DefName

ASSUME ValidAssumption == \A n \in DefName : ValidDefinition(n)
=============================================================================
