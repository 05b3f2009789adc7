------------------------ MODULE FlowEngineProperties ------------------------
(***************************************************************************)
(* What the engine is meant to guarantee, over the states and the steps of *)
(* module FlowEngine, and the fairness its liveness rests on.              *)
(***************************************************************************)
EXTENDS FlowEngine

Holding == {"guard", "subGuard", "process", "auto", "decide", "branchProcess"}

(* Every variable has its type, and the frame of a call under way fits the *)
(* flow it works on: its auto-chains are those of instances on the path,   *)
(* and the transition it holds is one of the current instance's.           *)
TypeOK ==
    /\ inst \in [Flow -> Seq(Instance)]
    /\ context \in [Flow -> SUBSET Key]
    /\ expiresAt \in [Flow -> Nat]
    /\ stored \in SUBSET Flow
    /\ calls \in [Call -> Frame]
    /\ now \in Nat
    /\ \A c \in Call :
         calls[c].pc # "idle" =>
           /\ calls[c].flow \in Flow
           /\ calls[c].depth # <<>>
           /\ Level(Run(c)) \in DOMAIN inst[calls[c].flow]
           /\ calls[c].pc \in Holding
                => calls[c].t \in DOMAIN definitionOf(Current(Run(c))).transitions

Started(f) == inst[f] # <<>>

AtRest(f) == Started(f) /\ ~Busy(f)

(* The deepest active instance, the one an event has to reach.             *)
Deepest(f) == inst[f][Len(inst[f])]

-----------------------------------------------------------------------------
(* Exit codes tell the truth (SPEC.md I17): an instance that is completed  *)
(* either stands in the terminal state its exit names, or was expired, or  *)
(* had an error with no route.  The engine completes instances in nine     *)
(* places and moves them in eleven; none of these looks at exitState.      *)
ExitConsistent ==
    \A f \in Flow : \A i \in DOMAIN inst[f] :
        LET x == inst[f][i]
        IN  isCompleted(x) => \/ x.exit = x.state /\ isTerminal(x)
                              \/ x.exit \in {"EXPIRED", "TERMINAL_ERROR"}

(* The inductive invariant behind TypeOK and ExitConsistent, for callers   *)
(* that serialise their calls.                                             *)

(* Not completed under the name of a state: a flow whose error has no      *)
(* route is completed, yet a chain may still go on with it.                *)
Unfinished(x) == x.exit \in {None, "EXPIRED", "TERMINAL_ERROR"}

ExitOK(x) == Unfinished(x) \/ (x.exit = x.state /\ isTerminal(x))

RunType(m) ==
    /\ m \in [ins: Seq(Instance), ctx: SUBSET Key, call: Frame]
    /\ \A i \in DOMAIN m.ins : ExitOK(m.ins[i])

(* A run whose chain can take its next turn.                               *)
Ready(m) ==
    /\ RunType(m)
    /\ m.call.flow \in Flow
    /\ Len(m.call.depth) >= 1
    /\ Level(m) \in DOMAIN m.ins
    /\ \A i \in DOMAIN m.ins : i < Level(m) => Unfinished(m.ins[i])

RunInv(m) ==
    /\ RunType(m)
    /\ m.call.pc = "idle" <=> m.call.flow = None
    /\ m.call.pc # "idle" => Ready(m)
    /\ m.call.pc \in {"guard", "process"} => m.call.base = 1 /\ Len(m.call.depth) = 1
    /\ m.call.pc = "subGuard" => m.call.base = 2 /\ Len(m.call.depth) = 1
    /\ m.call.pc \notin {"idle", "chainEnd"} => Unfinished(Current(m))
    /\ m.call.pc \in Holding =>
         /\ m.call.t \in DOMAIN definitionOf(Current(m)).transitions
         /\ Chosen(m).from = Current(m).state

IndInv ==
    /\ inst \in [Flow -> Seq(Instance)]
    /\ context \in [Flow -> SUBSET Key]
    /\ expiresAt \in [Flow -> Nat]
    /\ stored \in SUBSET Flow
    /\ calls \in [Call -> Frame]
    /\ now \in Nat
    /\ \A f \in Flow : \A i \in DOMAIN inst[f] : ExitOK(inst[f][i])
    /\ \A c \in Call : calls[c].pc = "idle" <=> calls[c].flow = None
    /\ \A c \in Call : calls[c].pc # "idle" => RunInv(Run(c))
    /\ \A b, c \in Call : calls[b].flow = calls[c].flow /\ calls[b].pc # "idle" => b = c

(* Each state of d that embeds a sub-flow says where its errors go.  In one *)
(* that does not, an error that bubbles up completes the parent, whose     *)
(* chain goes on all the same and starts the sub-flow again.               *)
RoutesSubFlowErrors(d) ==
    \A i \in DOMAIN d.transitions :
        d.transitions[i].type = "sub_flow" => d.onError[d.transitions[i].from] # None

(* A completed flow is over: no later step of any call changes an instance *)
(* or a key of the context.                                                *)
CompletionIsFinal ==
    [][\A f \in Flow :
          (Started(f) /\ isCompleted(inst[f][1]) /\ RoutesSubFlowErrors(definitionOf(inst[f][1]))) =>
              inst'[f] = inst[f] /\ context'[f] = context[f]]_vars

(* maxGuardRetries bounds the rejections a flow survives: an open instance *)
(* has fewer failures than the maximum, over any number of resumes, self   *)
(* transitions and error routes; the counter passes it at most once.  An   *)
(* error route from a state to itself keeps the counter: there it has no   *)
(* bound.                                                                  *)
GuardRetriesBounded ==
    \A f \in Flow : \A i \in DOMAIN inst[f] :
        LET x   == inst[f][i]
            max == definitionOf(x).maxGuardRetries
        IN  definitionOf(x).onError[x.state] # x.state =>
                /\ ~isCompleted(x) => x.fails < max \/ x.fails = 0
                /\ x.fails <= max \/ x.fails = 1

(* The same bound when callers do not serialise their resumes: rejections  *)
(* that were already under way when the flow failed are counted on top.    *)
RetriesUnderOverlap ==
    \A f \in Flow : \A i \in DOMAIN inst[f] :
        LET x   == inst[f][i]
            max == definitionOf(x).maxGuardRetries
        IN  /\ ~isCompleted(x) => x.fails < max \/ x.fails = 0
            /\ x.fails < max + Cardinality(Call) \/ x.fails <= Cardinality(Call)

(* The log stays one path when calls overlap: a call may act on a choice   *)
(* that went stale while it waited, but its record starts where the flow   *)
(* is by then, which is where the record before it ends, or a state whose  *)
(* enter action threw before its record.                                   *)
LogIsContinuous ==
    [][\A f \in Flow :
          Started(f) => LET x == inst[f][1]
                            y == inst'[f][1]
                        IN  y.last # x.last =>
                                \/ y.last.from = x.last.to
                                \/ y.last.from \in definitionOf(x).enterActions]_vars

(* What RetriesUnderOverlap takes of a definition without sub-flows: the   *)
(* last rejection ends the flow.  Where it leads back to a state that      *)
(* waits, a rejection of another call finds the counter at its maximum.    *)
RejectionsEnd(d) ==
    \A i \in DOMAIN d.transitions :
        LET t == d.transitions[i]
        IN  t.type = "external" => d.onError[t.from] \in d.terminal \cup {None}

RejectionsCount == IsFiniteSet(Call) /\ \A n \in Root : RejectionsEnd(Def[n])

(* The inductive invariant behind both, for calls that overlap: every      *)
(* rejection under way leaves room for itself, and the last record ends    *)
(* where the flow is.                                                      *)

atLeastOne(n) == IF n = 0 THEN 1 ELSE n

maxRejections(x) == atLeastOne(definitionOf(x).maxGuardRetries)

AskedGuards(f) == {c \in Call : calls[c].flow = f /\ calls[c].pc = "guard"}

RoomForRejections(f) ==
    LET x == inst[f][1]
    IN  RejectionsCount =>
            /\ ~isCompleted(x) => x.fails < maxRejections(x)
            /\ x.fails + Cardinality(AskedGuards(f)) < maxRejections(x) + Cardinality(Call)

Recorded(x) == x.last.to = x.state \/ x.state \in definitionOf(x).enterActions

(* The run of a call on a flow without sub-flows.                          *)
Alone(m) ==
    /\ m \in [ins: Seq(Instance), ctx: SUBSET Key, call: Frame]
    /\ Len(m.ins) = 1 /\ m.ins[1].def \in Root
    /\ m.call.base = 1 /\ Len(m.call.depth) = 1

AloneUnderway(m) ==
    /\ Alone(m) /\ m.call.flow \in Flow
    /\ m.call.pc \in {"guard", "process", "auto", "decide", "branchProcess", "chainEnd"}
    /\ m.call.pc # "chainEnd" => m.call.t \in DOMAIN definitionOf(Current(m)).transitions
    /\ m.call.pc = "guard" => Chosen(m).type = "external"

OverlapInv ==
    /\ now \in Nat
    /\ inst \in [Flow -> Seq(Instance)]
    /\ context \in [Flow -> SUBSET Key]
    /\ calls \in [Call -> Frame]
    /\ \A f \in Flow : Started(f) =>
          /\ Len(inst[f]) = 1 /\ inst[f][1].def \in Root
          /\ RoomForRejections(f) /\ Recorded(inst[f][1])
    /\ \A c \in Call :
          IF calls[c].pc = "idle" THEN calls[c].flow = None
          ELSE AloneUnderway(Run(c)) /\ Started(calls[c].flow)

(* The transition log can be replayed: between any two awaits the last     *)
(* record of every instance ends where that instance is, whichever step    *)
(* failed and wherever its error was routed.  Only an enter action that     *)
(* throws comes between the move and its record.                           *)
LogMatchesState ==
    \A f \in Flow : \A i \in DOMAIN inst[f] :
        LET x == inst[f][i]
        IN  x.last.to = x.state \/ x.state \in definitionOf(x).enterActions

(* Nobody is left behind (SPEC.md 10.6): a flow that is open while no call *)
(* works on it waits for an event that resumeAndExecute can deliver.       *)
NeverStranded ==
    \A f \in stored :
        AtRest(f) /\ ~isCompleted(inst[f][1]) =>
            Len(inst[f]) <= 2 /\ waitsForEvent(Deepest(f))

(* What that takes of the definitions.  A flow is left where a chain ends  *)
(* that no event starts again, so a chain has to end in a state that waits *)
(* or is terminal, and nothing may cut it off on its way.                  *)
Automatic == {"auto", "branch", "sub_flow"}

Quiet(d, s) == s \notin d.terminal /\ ofType(d, s, Automatic) = {}

(* A state is terminal or can be left.                                     *)
NoDeadEnd(d) == \A s \in d.states \ d.terminal : transitionsFrom(d, s) # {}

(* The catch blocks end the chain, so errors lead to states that rest.     *)
(* After an error of a sub-flow the chain goes on.                         *)
ErrorsRest(d) ==
    \A s \in d.states, cause \in ErrorClass \cup {None} :
        LET to == ErrorTarget(d, s, cause)
        IN  \/ to = None \/ to \in d.terminal \/ Quiet(d, to)
            \/ cause = None /\ ofType(d, s, {"sub_flow"}) # {}

(* No action can throw while a parent takes the exit of its sub-flow.      *)
ExitsDoNotThrow(d) ==
    \A i \in DOMAIN d.transitions :
        LET t == d.transitions[i]
        IN  t.type = "sub_flow" =>
                /\ t.from \notin d.exitActions
                /\ \A e \in Exit : t.exits[e] # None => t.exits[e] \in d.states \ d.enterActions

(* A sub-flow that was resumed and fails is left by an exit: the parent    *)
(* stays put otherwise.                                                    *)
RoutesErrors(d) ==
    \A s \in d.states :
        s \in d.enterActions \/ ofType(d, s, {"auto", "branch"}) # {} => d.onError[s] # None

FailuresLeave(d) ==
    \A i \in DOMAIN d.transitions :
        LET t == d.transitions[i]
        IN  t.type = "sub_flow" => t.exits["TERMINAL_ERROR"] # None \/ RoutesErrors(Def[t.sub])

(* steps bounds how far a chain can still go: it falls along automatic     *)
(* transitions, and where a sub-flow is left that did not wait.            *)
CountsDown(d, steps) ==
    /\ \A s \in d.states : steps[s] < MaxChainDepth
    /\ \A i \in DOMAIN d.transitions :
          LET t == d.transitions[i]
          IN  /\ t.type \in {"auto", "branch"} => steps[t.to] < steps[t.from]
              /\ t.type = "sub_flow" /\ ~Quiet(Def[t.sub], Def[t.sub].initial) =>
                    /\ \A e \in Exit : t.exits[e] # None => steps[t.exits[e]] < steps[t.from]
                    /\ d.onError[t.from] # None => steps[d.onError[t.from]] < steps[t.from]

(* The definitions that run at level i of a flow.  An event reaches two    *)
(* levels; those below must not wait for one.                              *)
Subs == Embedded(Root)
Inner == Embedded(Subs) \cup Embedded(Embedded(Subs))
Tier(i) == IF i = 1 THEN Root ELSE IF i = 2 THEN Subs ELSE Inner

Delivers(steps) ==
    /\ steps \in [DefName -> [State -> Nat]]
    /\ \A n \in Root \cup Subs \cup Inner :
          /\ NoDeadEnd(Def[n]) /\ ErrorsRest(Def[n]) /\ RoutesSubFlowErrors(Def[n])
          /\ ExitsDoNotThrow(Def[n]) /\ CountsDown(Def[n], steps[n])
    /\ \A n \in Root : FailuresLeave(Def[n])
    /\ \A n \in Inner, s \in State : externalsFrom(Def[n], s) = {}

(* The inductive invariant behind NeverStranded, for such definitions.     *)

subFlowOf(x) ==
    LET d == definitionOf(x)
        T == ofType(d, x.state, {"sub_flow"})
    IN  IF T = {} THEN None ELSE d.transitions[First(T)].sub

Path(ins) ==
    /\ ins # <<>>
    /\ \A i \in DOMAIN ins :
          /\ ins[i].def \in Tier(i) /\ ins[i].state \in definitionOf(ins[i]).states
          /\ i > 1 => ins[i].def = subFlowOf(ins[i - 1])

Waiting(x) ==
    ~isCompleted(x) /\ waitsForEvent(x) /\ ofType(definitionOf(x), x.state, {"sub_flow"}) = {}

Resting(ins) ==
    Path(ins) /\ (isCompleted(ins[1]) \/ (Len(ins) <= 2 /\ Waiting(ins[Len(ins)])))

(* The chain at level i has not used up its turns.                         *)
Counted(m, i, steps) ==
    m.call.depth[i + 1 - m.call.base] + steps[m.ins[i].def][m.ins[i].state] < MaxChainDepth

(* A sub-flow that the call itself has started: if it waits, it waits in   *)
(* its initial state.                                                      *)
Fresh(x) ==
    Quiet(definitionOf(x), definitionOf(x).initial) =>
        ~isCompleted(x) /\ x.state = definitionOf(x).initial

(* The chain of the current instance is over: the instance is completed,   *)
(* and then its parent can go on, or waits; or its sub-flow waits.         *)
Ended(m) ==
    \/ Level(m) = 1 /\ Len(m.ins) = 2 /\ Waiting(m.ins[2])
    \/ /\ Level(m) = Len(m.ins)
       /\ IF isCompleted(Current(m))
          THEN m.call.base = 2 /\ Len(m.call.depth) = 1 =>
                   exitTarget(m.ins[1], Current(m).exit) # None
          ELSE Level(m) <= 2 /\ Waiting(Current(m))

(* The parents of the current instance can go on once it has ended.        *)
Nested(m, steps) ==
    /\ Path(m.ins)
    /\ \A i \in DOMAIN m.ins :
          /\ i < Level(m) => ~isCompleted(m.ins[i])
          /\ i < Level(m) /\ i >= m.call.base => Counted(m, i, steps)
          /\ i > m.call.base /\ i <= Level(m) => Fresh(m.ins[i])

Underway(m, steps) ==
    /\ Nested(m, steps)
    /\ m.call.pc # "chainEnd" => Level(m) = Len(m.ins) /\ ~isCompleted(Current(m))
    /\ m.call.pc \in {"guard", "process", "subGuard"} =>
          m.call.depth = <<0>> /\ Waiting(Current(m))
    /\ m.call.pc \in {"auto", "decide", "branchProcess", "enterSub"} => Counted(m, Level(m), steps)
    /\ m.call.pc = "chainEnd" => Ended(m)

DeliverInv(steps) ==
    /\ \A f \in Flow : Started(f) /\ ~Busy(f) => Resting(inst[f])
    /\ \A c \in Call : calls[c].pc # "idle" => Underway(Run(c), steps)

(* From outside, a flow behaves as module FlowLifecycle says: its root     *)
(* instance only moves along edges its definition declares from the state  *)
(* it is in, and is closed once.  A flow that may be completed and go on   *)
(* (see RoutesSubFlowErrors) is left out.                                  *)
Observed(f) == Started(f) /\ RoutesSubFlowErrors(definitionOf(inst[f][1]))

LifeOf == [f \in Flow |-> IF Observed(f) THEN [def  |-> inst[f][1].def,
                                              at   |-> inst[f][1].state,
                                              exit |-> inst[f][1].exit]
                          ELSE [def |-> None, at |-> None, exit |-> None]]

Lifecycle == INSTANCE FlowLifecycle WITH life <- LifeOf

ImplementsLifecycle == Lifecycle!Spec

-----------------------------------------------------------------------------
(* Data.                                                                   *)

(* The states of d that can follow s.                                      *)
Follows(d, s) ==
    LET next(r) == (Successors(d, r)
                      \cup {d.routes[i].to : i \in {j \in DOMAIN d.routes : d.routes[j].from = r}})
                   \cap d.states
    IN  {x \in d.states : \A R \in SUBSET d.states :
                             (s \in R /\ \A r \in R : next(r) \subseteq R) => x \in R}

(* Transitions and error routes lead to states of their own definition, as  *)
(* the state type of a FlowDefinition<S> makes them.                       *)
ASSUME StatesAssumption ==
    \A n \in DefName :
        /\ \A i \in DOMAIN Def[n].transitions : Def[n].transitions[i].to \in Def[n].states
        /\ \A i \in DOMAIN Def[n].routes : Def[n].routes[i].to \in Def[n].states
        /\ \A s \in State : Def[n].onError[s] \in Def[n].states \cup {None}

FollowsTable == [n \in DefName |-> [s \in Def[n].states |-> Follows(Def[n], s)]]

(* A failed step leaves no data behind (SPEC.md 4.19): between calls, a    *)
(* key that only guards and processors provide is in the context only if   *)
(* the flow is past a transition that provides it.  Data of a guard whose  *)
(* processor then threw, or of a step that was rolled back, is gone.       *)
DataOfTakenSteps ==
    \A f \in Flow :
        AtRest(f) /\ ~hasSubFlow(definitionOf(inst[f][1])) =>
            LET x == inst[f][1]
                d == definitionOf(x)
            IN  \A k \in context[f] \ UNION Event :
                    \E i \in DOMAIN d.transitions :
                        /\ k \in d.transitions[i].produces \cup d.transitions[i].gives
                        /\ x.state \in FollowsTable[x.def][d.transitions[i].to]

(* The transitions of d that lead to s.                                    *)
Into(d, s) == {i \in DOMAIN d.transitions : d.transitions[i].to = s /\ d.transitions[i].type # "sub_flow"}

(* s is entered by transitions only, whole ones: it is not where a flow     *)
(* starts, errors go or sub-flows lead, and no enter action can undo the   *)
(* step that has led there.                                                *)
EnteredByTransition(d, s) ==
    /\ s # d.initial /\ s \notin d.enterActions
    /\ \A r \in State : d.onError[r] # s
    /\ \A i \in DOMAIN d.routes : d.routes[i].to # s
    /\ \A i \in DOMAIN d.transitions : \A e \in Exit : d.transitions[i].exits[e] # s

(* Strict mode (SPEC.md I12) for auto transitions: the declared data is in *)
(* the context of a flow that an auto transition brought to its state, and *)
(* stays there while later steps fail and are rolled back.                 *)
StrictAutoProduces ==
    \A f \in Flow : \A j \in DOMAIN inst[f] :
        LET x == inst[f][j]
            d == definitionOf(x)
            I == Into(d, x.state)
        IN  (/\ d.strictMode
             /\ I # {} /\ \A i \in I : d.transitions[i].type = "auto"
             /\ EnteredByTransition(d, x.state))
            => \E i \in I : d.transitions[i].produces \subseteq context[f]

-----------------------------------------------------------------------------
(* Liveness.  Settles: the promise a call waits for settles, so that the   *)
(* call goes on.  A call that is not idle can always go on and only its    *)
(* own steps change its frame, so the first conjunct is weak fairness of   *)
(* Continue(c), put in terms TLC evaluates fast.  Tick: time passes.       *)
(* AskLate: somebody asks for a flow whose time is over.                   *)
Settles(c) == calls[c].pc # "idle" /\ calls'[c] # calls[c]

AskLate(f) ==
    /\ now > expiresAt[f]
    /\ \E c \in Call, keys \in Event : Resume(c, f, keys)

Fairness ==
    /\ \A c \in Call : []<>(calls[c].pc = "idle") \/ []<><<Settles(c)>>_vars
    /\ WF_vars(Tick)
    /\ \A f \in Flow : WF_vars(AskLate(f))

FairSpec == Spec /\ Fairness

(* Every call of the engine comes back, whatever user code throws and      *)
(* however a chain of automatic steps is wired: maxChainDepth cuts chains  *)
(* that the build's cycle check does not see.                              *)
EveryCallReturns == \A c \in Call : calls[c].pc # "idle" ~> calls[c].pc = "idle"

(* The time to live is a backstop (SPEC.md 10.6): a flow that somebody     *)
(* asks for after it is completed in the end, waiting, stranded or cut off *)
(* in the middle of a chain.  The bound on the clock must leave it time.   *)
EveryFlowCompletes ==
    \A f \in Flow :
        (Started(f) /\ expiresAt[f] < MaxTime) ~> (Started(f) /\ isCompleted(inst[f][1]))
=============================================================================
