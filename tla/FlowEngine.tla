----------------------------- MODULE FlowEngine -----------------------------
(***************************************************************************)
(* The flow engine, lang/ts/src/flow-engine.ts, over the in-memory store,  *)
(* lang/ts/src/in-memory-flow-store.ts.                                    *)
(*                                                                         *)
(* The engine's methods are async.  Code between two awaits runs without   *)
(* interruption, so an action is what happens between two awaits, and a    *)
(* call keeps in calls what its stack frames hold: the transition it chose *)
(* before the await, the context snapshot, the depth of every auto-chain   *)
(* it is in.  What guards, processors, branches and enter/exit actions do  *)
(* is chosen freely from what their declarations allow, throwing included. *)
(*                                                                         *)
(* inst[f] is the path from the flow to its deepest active sub-flow, the   *)
(* chain of activeSubFlow references; all of them share one context.       *)
(***************************************************************************)
EXTENDS FlowInstance

CONSTANTS
    Flow,           \* flow ids
    Call,           \* calls of startFlow / resumeAndExecute that can be under way at once
    Root,           \* definitions a flow can be started with
    UserError,      \* classes of errors that processors and branches throw
    ActionError,    \* classes of errors that enter and exit actions throw
    Event,          \* the key sets that initial or external data can carry
    MaxChainDepth,  \* engine option maxChainDepth
    MaxTime,        \* bound: the clock stops here
    Serialized,     \* callers run one call per flow at a time
    Clearable       \* bound: whether store.clear() is ever called

(* Overlapping calls are modelled for definitions without sub-flows only:  *)
(* a call that outlives the sub-flow it works on holds an instance that is *)
(* on no path any more.                                                    *)
ASSUME OverlapAssumption == Serialized \/ \A n \in Root : ~hasSubFlow(Def[n])

ASSUME EngineAssumption ==
    /\ Root \subseteq DefName
    /\ None \notin Flow
    /\ UserError \subseteq ErrorClass /\ ActionError \subseteq ErrorClass
    /\ Event \subseteq SUBSET Key
    /\ MaxChainDepth \in Nat /\ MaxTime \in Nat
    /\ Serialized \in BOOLEAN /\ Clearable \in BOOLEAN

VARIABLES
    inst,       \* flow -> <<instance, its active sub-flow, ...>>; <<>>: never started
    context,    \* flow -> keys present in its FlowContext
    expiresAt,  \* flow -> end of its time to live
    stored,     \* the flows the store's map holds
    calls,      \* call -> its frame
    now         \* the clock

vars == <<inst, context, expiresAt, stored, calls, now>>

-----------------------------------------------------------------------------
(* Frames.                                                                 *)

PC == {"idle", "guard", "subGuard", "process", "auto", "decide", "branchProcess",
       "enterSub", "chainEnd"}

Result == {"none", "returned", "FLOW_NOT_FOUND", "INVALID_TRANSITION",
           "EXTERNAL_EVENT_NOT_MATCHED", "EXTERNAL_EVENT_AMBIGUOUS",
           "MAX_CHAIN_DEPTH", "GUARD_THREW", "ACTION_THREW"}

(* base is the level of inst[flow] the outermost auto-chain runs at; depth *)
(* has one counter per auto-chain on the stack, innermost last.            *)
Frame == [pc: PC, flow: Flow \cup {None}, base: {1, 2}, depth: Seq(Nat),
          t: Nat, backup: SUBSET Key, result: Result]

Idle(r) == [pc |-> "idle", flow |-> None, base |-> 1, depth |-> <<0>>,
            t |-> 0, backup |-> {}, result |-> r]

(* A run is what a call works on: the instances, the context, its frame.   *)
Run(c) == [ins |-> inst[calls[c].flow], ctx |-> context[calls[c].flow], call |-> calls[c]]

Level(m) == m.call.base + Len(m.call.depth) - 1

Current(m) == m.ins[Level(m)]

Chosen(m) == definitionOf(Current(m)).transitions[m.call.t]

setCurrent(m, x) == [m EXCEPT !.ins[Level(m)] = x]

(* The call throws to its caller: nothing is saved.                        *)
throw(m, code) == [m EXCEPT !.call = Idle(code)]

(* save and return: every return of the engine is preceded by a save.      *)
return(m) == [m EXCEPT !.call = Idle("returned")]

-----------------------------------------------------------------------------
(* What happens to one instance between two awaits, at time now.           *)

(* fireExit, transitionTo, fireEnter, recordTransition; o says whether the *)
(* exit or the enter action throws.                                        *)
moveTo(x, to, o) ==
    CASE o = "ok"    -> recordTransition(transitionTo(x, to, now), x.state, to)
      [] o = "enter" -> transitionTo(x, to, now)
      [] o = "exit"  -> x

Throwing(x, to) ==
    (IF x.state \in definitionOf(x).exitActions THEN {"exit"} ELSE {})
    \cup (IF to \in definitionOf(x).enterActions THEN {"enter"} ELSE {})

(* Mistaken: the missing route is not looked for.                          *)
handleErrorUnchecked(x, fromState, cause) ==
    LET target == ErrorTarget(definitionOf(x), fromState, cause)
        moved  == recordTransition(transitionTo(x, target, now), x.state, target)
    IN  IF target \in definitionOf(x).terminal THEN complete(moved, target) ELSE moved

(* Mistaken: every route ends the flow.                                    *)
handleErrorCompletes(x, fromState, cause) ==
    LET target == ErrorTarget(definitionOf(x), fromState, cause)
        moved  == recordTransition(transitionTo(x, target, now), x.state, target)
    IN  IF target = None THEN complete(x, "TERMINAL_ERROR") ELSE complete(moved, target)

(* Mistaken: the route is taken without a record.                          *)
handleErrorUnrecorded(x, fromState, cause) ==
    LET target == ErrorTarget(definitionOf(x), fromState, cause)
        moved  == transitionTo(x, target, now)
    IN  IF target = None THEN complete(x, "TERMINAL_ERROR")
        ELSE IF target \in definitionOf(x).terminal THEN complete(moved, target)
        ELSE moved

(* handleError: fromState picks the route; the record starts where the     *)
(* instance is.                                                            *)
handleError(x, fromState, cause) ==
    LET target == ErrorTarget(definitionOf(x), fromState, cause)
        moved  == recordTransition(transitionTo(x, target, now), x.state, target)
    IN  IF target = None THEN complete(x, "TERMINAL_ERROR")
        ELSE IF target \in definitionOf(x).terminal THEN complete(moved, target)
        ELSE moved

-----------------------------------------------------------------------------
(* executeAutoChain: one turn of its loop, up to the next await.           *)

(* executeSubFlow: a fresh instance becomes the active sub-flow.           *)
startSubFlow(m) ==
    LET x   == Current(m)
        t   == definitionOf(x).transitions[First(ofType(definitionOf(x), x.state, {"sub_flow"}))]
    IN  [m EXCEPT !.ins = Append(SubSeq(@, 1, Level(m)), NewInstance(t.sub, now)),
                  !.call.depth = Append(@, 0),
                  !.call.pc = "enterSub"]

loop(m) ==
    LET x     == Current(m)
        d     == definitionOf(x)
        steps == ofType(d, x.state, {"auto", "branch"})
    IN  IF m.call.depth[Len(m.call.depth)] >= MaxChainDepth THEN throw(m, "MAX_CHAIN_DEPTH")
        ELSE IF isTerminal(x)
             THEN [setCurrent(m, complete(x, x.state)) EXCEPT !.call.pc = "chainEnd"]
        ELSE IF ofType(d, x.state, {"sub_flow"}) # {} THEN startSubFlow(m)
        ELSE IF steps # {}
             THEN [m EXCEPT !.call.t = First(steps),
                            !.call.backup = m.ctx,
                            !.call.pc = IF d.transitions[First(steps)].type = "auto"
                                        THEN "auto" ELSE "decide"]
        ELSE [m EXCEPT !.call.pc = "chainEnd"]

(* Mistaken: steps are not counted.                                        *)
deeperUncounted(m) == m

(* depth++                                                                 *)
deeper(m) == [m EXCEPT !.call.depth[Len(m.call.depth)] = @ + 1]

(* The catch block of the auto-chain.                                      *)
failStep(m, cause) ==
    [setCurrent(m, handleError(Current(m), Current(m).state, cause))
        EXCEPT !.ctx = m.call.backup, !.call.pc = "chainEnd"]

(* Mistaken: the snapshot is not restored.                                 *)
failExternalKeepsData(m, cause) ==
    return(setCurrent(m, handleError(Current(m), Chosen(m).from, cause)))

(* The catch block of resumeAndExecute: the route is the one of the state  *)
(* the flow was in when the transition was chosen.                         *)
failExternal(m, cause) ==
    return([setCurrent(m, handleError(Current(m), Chosen(m).from, cause))
               EXCEPT !.ctx = m.call.backup])

-----------------------------------------------------------------------------
(* Writing a run back.                                                     *)

Commit(c, f, m) ==
    /\ inst' = [inst EXCEPT ![f] = m.ins]
    /\ context' = [context EXCEPT ![f] = m.ctx]
    /\ calls' = [calls EXCEPT ![c] = m.call]
    /\ stored' = IF m.call.result = "returned" THEN stored \cup {f} ELSE stored
    /\ UNCHANGED <<expiresAt, now>>

Step(c, m) == Commit(c, calls[c].flow, m)

(* The chosen transition (or branch) leads to the state to: the rest of a  *)
(* try block, with its catch block.                                        *)
StepTo(c, m, to) ==
    \/ Step(c, loop(deeper(setCurrent(m, moveTo(Current(m), to, "ok")))))
    \/ \E o \in Throwing(Current(m), to), e \in ActionError :
           Step(c, failStep(setCurrent(m, moveTo(Current(m), to, o)), e))

(* Mistaken: the record starts at the state that was chosen from.          *)
ExternalToRecordsChoice(c, m) ==
    LET to == Chosen(m).to
        x  == moveTo(Current(m), to, "ok")
    IN  \/ Step(c, loop(setCurrent(m, recordTransition(x, Chosen(m).from, to))))
        \/ \E o \in Throwing(Current(m), to), e \in ActionError :
               Step(c, failExternal(setCurrent(m, moveTo(Current(m), to, o)), e))

ExternalTo(c, m) ==
    LET to == Chosen(m).to
    IN  \/ Step(c, loop(setCurrent(m, moveTo(Current(m), to, "ok"))))
        \/ \E o \in Throwing(Current(m), to), e \in ActionError :
               Step(c, failExternal(setCurrent(m, moveTo(Current(m), to, o)), e))

-----------------------------------------------------------------------------
Init ==
    /\ inst = [f \in Flow |-> <<>>]
    /\ context = [f \in Flow |-> {}]
    /\ expiresAt = [f \in Flow |-> 0]
    /\ stored = {}
    /\ calls = [c \in Call |-> Idle("none")]
    /\ now = 0

(* startFlow, up to the first await of its auto-chain.                     *)
StartFlow(c, f, name, keys) ==
    /\ calls[c].pc = "idle"
    /\ inst[f] = <<>>
    /\ LET m == loop([ins  |-> <<NewInstance(name, now)>>,
                      ctx  |-> keys,
                      call |-> [Idle("none") EXCEPT !.flow = f]])
       IN  /\ inst' = [inst EXCEPT ![f] = m.ins]
           /\ context' = [context EXCEPT ![f] = m.ctx]
           /\ calls' = [calls EXCEPT ![c] = m.call]
    /\ stored' = stored \cup {f}
    /\ expiresAt' = [expiresAt EXCEPT ![f] = now + Def[name].ttl]
    /\ UNCHANGED now

Busy(f) == \E c \in Call : calls[c].flow = f

(* The part of resumeAndExecute and of resumeSubFlow that chooses the      *)
(* external transition, for the instance at level base.                    *)
selectExternal(m, keys) ==
    LET x == Current(m)
        d == definitionOf(x)
        cands == Candidates(d, x.state, keys)
    IN  IF externalsFrom(d, x.state) = {} THEN throw(m, "INVALID_TRANSITION")
        ELSE IF cands = {} THEN throw(m, "EXTERNAL_EVENT_NOT_MATCHED")
        ELSE IF \E i \in cands : cands = {i} THEN [m EXCEPT !.call.t = First(cands)]
        ELSE throw(m, "EXTERNAL_EVENT_AMBIGUOUS")

(* Per-state timeout, checked for the flow itself and not in sub-flows.    *)
timedOut(m) ==
    /\ Chosen(m).timeout # None
    /\ now > Current(m).enteredAt + Chosen(m).timeout

beginRootGuard(m) ==
    IF m.call.pc = "idle" THEN m
    ELSE IF timedOut(m) THEN return(setCurrent(m, complete(Current(m), "EXPIRED")))
    ELSE [m EXCEPT !.call.pc = "guard"]

beginSubGuard(m) == IF m.call.pc = "idle" THEN m ELSE [m EXCEPT !.call.pc = "subGuard"]

(* Mistaken: completed flows are found too.                                *)
loadForUpdateAny(f) == f \in stored

(* InMemoryFlowStore.loadForUpdate finds the flow.                         *)
loadForUpdate(f) == f \in stored /\ ~isCompleted(inst[f][1])

(* Mistaken: a flow with an active sub-flow does not expire.               *)
ttlElapsedOutsideSubFlow(f) == Len(inst[f]) = 1 /\ now > expiresAt[f]


ttlElapsed(f) == now > expiresAt[f]

(* resumeAndExecute, up to the await of the guard.  pc is provisional      *)
(* while the transition is selected.                                       *)
Resume(c, f, keys) ==
    /\ calls[c].pc = "idle"
    /\ inst[f] # <<>>
    /\ Serialized => ~Busy(f)
    /\ IF ~loadForUpdate(f)
       THEN /\ calls' = [calls EXCEPT ![c] = Idle("FLOW_NOT_FOUND")]
            /\ UNCHANGED <<inst, context, expiresAt, stored, now>>
       ELSE LET m   == [ins |-> inst[f], ctx |-> context[f] \cup keys,
                        call |-> [Idle("none") EXCEPT !.flow = f, !.pc = "guard"]]
                sub == [m EXCEPT !.call.base = 2]
            IN  Commit(c, f,
                    IF ttlElapsed(f)
                    THEN return(setCurrent(m, complete(Current(m), "EXPIRED")))
                    ELSE IF Len(inst[f]) > 1 THEN beginSubGuard(selectExternal(sub, keys))
                    ELSE beginRootGuard(selectExternal(m, keys)))

-----------------------------------------------------------------------------
(* The guard of the flow's own external transition answers.                *)

GuardAccepted(c) ==
    /\ calls[c].pc = "guard"
    /\ \E data \in SUBSET Chosen(Run(c)).gives :
         LET m == [Run(c) EXCEPT !.call.backup = Run(c).ctx, !.ctx = @ \cup data]
         IN  IF Chosen(m).processor
             THEN Step(c, [m EXCEPT !.call.pc = "process"])
             ELSE ExternalTo(c, m)

(* Mistaken: > for >=.                                                     *)
GuardRejectedOnceMore(c) ==
    /\ calls[c].pc = "guard"
    /\ LET m == Run(c)
           x == incrementGuardFailure(Current(m))
       IN  Step(c, return(setCurrent(m,
               IF x.fails > definitionOf(x).maxGuardRetries
               THEN handleError(x, Chosen(m).from, None) ELSE x)))


GuardRejected(c) ==
    /\ calls[c].pc = "guard"
    /\ LET m == Run(c)
           x == incrementGuardFailure(Current(m))
       IN  Step(c, return(setCurrent(m,
               IF x.fails >= definitionOf(x).maxGuardRetries
               THEN handleError(x, Chosen(m).from, None) ELSE x)))

GuardExpired(c) ==
    /\ calls[c].pc = "guard"
    /\ LET m == Run(c)
       IN  Step(c, return(setCurrent(m, complete(Current(m), "EXPIRED"))))

(* Nothing catches what a guard throws.                                    *)
GuardThrows(c) ==
    /\ calls[c].pc \in {"guard", "subGuard"}
    /\ Step(c, throw(Run(c), "GUARD_THREW"))

(* The processor of the external transition settles.                       *)
ProcessDone(c) ==
    /\ calls[c].pc = "process"
    /\ \E puts \in SUBSET Chosen(Run(c)).produces :
         ExternalTo(c, [Run(c) EXCEPT !.ctx = @ \cup puts])

ProcessThrows(c) ==
    /\ calls[c].pc = "process"
    /\ \E e \in UserError : Step(c, failExternal(Run(c), e))

-----------------------------------------------------------------------------
(* The auto-chain resumes after a processor or a branch settles.           *)

(* Mistaken: what a processor declares is not looked at.                   *)
producesTrusted(m) == TRUE

(* verifyProduces: only in strict mode, only for auto transitions.         *)
producesVerified(m) ==
    definitionOf(Current(m)).strictMode => Chosen(m).produces \subseteq m.ctx

AutoDone(c) ==
    /\ calls[c].pc = "auto"
    /\ \E puts \in SUBSET Chosen(Run(c)).produces :
         LET m == [Run(c) EXCEPT !.ctx = @ \cup puts]
         IN  IF producesVerified(m)
             THEN StepTo(c, m, Chosen(m).to)
             ELSE Step(c, failStep(m, FlowErrorClass))

AutoThrows(c) ==
    /\ calls[c].pc = "auto"
    /\ \E e \in UserError : Step(c, failStep(Run(c), e))

(* The branch transition with the label that decide() returned.            *)
labelled(m, label) ==
    LET d == definitionOf(Current(m))
    IN  {i \in ofType(d, Chosen(m).from, {"branch"}) : d.transitions[i].label = label}

Decide(c) ==
    /\ calls[c].pc = "decide"
    /\ \E label \in Label :
         IF labelled(Run(c), label) = {}
         THEN Step(c, failStep(Run(c), FlowErrorClass))              \* UNKNOWN_BRANCH
         ELSE LET m == [Run(c) EXCEPT !.call.t = First(labelled(Run(c), label))]
              IN  IF Chosen(m).processor
                  THEN Step(c, [m EXCEPT !.call.pc = "branchProcess"])
                  ELSE StepTo(c, m, Chosen(m).to)

DecideThrows(c) ==
    /\ calls[c].pc = "decide"
    /\ \E e \in UserError : Step(c, failStep(Run(c), e))

BranchProcessDone(c) ==
    /\ calls[c].pc = "branchProcess"
    /\ \E puts \in SUBSET Chosen(Run(c)).produces :
         StepTo(c, [Run(c) EXCEPT !.ctx = @ \cup puts], Chosen(Run(c)).to)

BranchProcessThrows(c) ==
    /\ calls[c].pc = "branchProcess"
    /\ \E e \in UserError : Step(c, failStep(Run(c), e))

(* The first turn of a sub-flow's auto-chain.  The code goes straight on;  *)
(* the extra step between only lets the clock tick.                        *)
EnterSubFlow(c) ==
    /\ calls[c].pc = "enterSub"
    /\ Step(c, loop(Run(c)))

-----------------------------------------------------------------------------
(* The end of an auto-chain.                                               *)

(* startFlow and resumeAndExecute: save and return.                        *)
ChainReturns(c) ==
    /\ calls[c].pc = "chainEnd"
    /\ calls[c].base = 1 /\ Len(calls[c].depth) = 1
    /\ Step(c, return(Run(c)))

(* The run seen from the parent of the current instance: activeSubFlow is  *)
(* null again.                                                             *)
leaveSubFlow(m) ==
    [m EXCEPT !.ins = SubSeq(@, 1, Level(m) - 1),
              !.call.base = IF Len(m.call.depth) = 1 THEN 1 ELSE @,
              !.call.depth = IF Len(@) = 1 THEN <<0>> ELSE SubSeq(@, 1, Len(@) - 1)]

(* The state that the parent's exit mapping gives the exit of its sub-flow. *)
exitTarget(parent, exit) ==
    LET d == definitionOf(parent)
        T == ofType(d, parent.state, {"sub_flow"})
    IN  IF T = {} THEN None ELSE d.transitions[First(T)].exits[exit]

(* The parent takes the mapped exit and goes on with its own chain.  No    *)
(* try block surrounds this: a throwing action leaves the engine.          *)
TakeExit(c, m, to, counted) ==
    \/ LET m1 == setCurrent(m, moveTo(Current(m), to, "ok"))
       IN  Step(c, loop(IF counted THEN deeper(m1) ELSE m1))
    \/ \E o \in Throwing(Current(m), to) :
           Step(c, throw(setCurrent(m, moveTo(Current(m), to, o)), "ACTION_THREW"))

(* The end of executeSubFlow, inside the parent's chain.                   *)
SubChainEnds(c) ==
    /\ calls[c].pc = "chainEnd"
    /\ Len(calls[c].depth) > 1
    /\ LET m  == Run(c)
           p  == leaveSubFlow(m)
           to == exitTarget(Current(p), Current(m).exit)
       IN  IF ~isCompleted(Current(m))
           THEN Step(c, [m EXCEPT !.call.depth = SubSeq(@, 1, Len(@) - 1)])
           ELSE IF to # None THEN TakeExit(c, p, to, TRUE)
           ELSE Step(c, loop(deeper(setCurrent(p, handleError(Current(p), Current(p).state, None)))))

(* Mistaken: the parent takes the exit and does not go on from there.      *)
ResumedChainEndsThere(c) ==
    /\ calls[c].pc = "chainEnd"
    /\ calls[c].base = 2 /\ Len(calls[c].depth) = 1
    /\ LET m  == Run(c)
           p  == leaveSubFlow(m)
           to == exitTarget(Current(p), Current(m).exit)
       IN  IF ~isCompleted(Current(m)) THEN Step(c, return(m))
           ELSE IF to # None THEN Step(c, return(setCurrent(p, moveTo(Current(p), to, "ok"))))
           ELSE Step(c, return(p))

(* The end of resumeSubFlow.  Without a mapping the parent stays put.      *)
ResumedChainEnds(c) ==
    /\ calls[c].pc = "chainEnd"
    /\ calls[c].base = 2 /\ Len(calls[c].depth) = 1
    /\ LET m  == Run(c)
           p  == leaveSubFlow(m)
           to == exitTarget(Current(p), Current(m).exit)
       IN  IF ~isCompleted(Current(m)) THEN Step(c, return(m))
           ELSE IF to # None THEN TakeExit(c, p, to, FALSE)
           ELSE Step(c, return(p))

-----------------------------------------------------------------------------
(* resumeSubFlow: the guard of the sub-flow's external transition answers. *)

(* No processor, no actions, no snapshot.                                  *)
SubGuardAccepted(c) ==
    /\ calls[c].pc = "subGuard"
    /\ \E data \in SUBSET Chosen(Run(c)).gives :
         LET m == [Run(c) EXCEPT !.ctx = @ \cup data]
         IN  Step(c, loop(setCurrent(m, moveTo(Current(m), Chosen(m).to, "ok"))))

SubGuardRejected(c) ==
    /\ calls[c].pc = "subGuard"
    /\ LET m  == Run(c)
           x  == incrementGuardFailure(Current(m))
           p  == leaveSubFlow(m)
           to == exitTarget(Current(p), "ERROR")
       IN  IF x.fails < definitionOf(x).maxGuardRetries THEN Step(c, return(setCurrent(m, x)))
           ELSE IF to # None THEN TakeExit(c, p, to, FALSE)
           ELSE Step(c, loop(setCurrent(p, handleError(Current(p), Current(p).state, None))))

SubGuardExpired(c) ==
    /\ calls[c].pc = "subGuard"
    /\ LET m == Run(c)
       IN  Step(c, return([m EXCEPT !.ins[1] = complete(@, "EXPIRED")]))

-----------------------------------------------------------------------------
(* The rest of the world.                                                  *)

Tick ==
    /\ now < MaxTime
    /\ now' = now + 1
    /\ UNCHANGED <<inst, context, expiresAt, stored, calls>>

(* store.clear()                                                           *)
Clear ==
    /\ Clearable
    /\ stored # {}
    /\ stored' = {}
    /\ UNCHANGED <<inst, context, expiresAt, calls, now>>

(* A promise the call awaits settles.                                      *)
Continue(c) ==
    \/ GuardAccepted(c) \/ GuardRejected(c) \/ GuardExpired(c) \/ GuardThrows(c)
    \/ ProcessDone(c) \/ ProcessThrows(c)
    \/ AutoDone(c) \/ AutoThrows(c)
    \/ Decide(c) \/ DecideThrows(c) \/ BranchProcessDone(c) \/ BranchProcessThrows(c)
    \/ EnterSubFlow(c) \/ ChainReturns(c) \/ SubChainEnds(c) \/ ResumedChainEnds(c)
    \/ SubGuardAccepted(c) \/ SubGuardRejected(c) \/ SubGuardExpired(c)

Next ==
    \/ \E c \in Call, f \in Flow :
          \/ \E name \in Root, keys \in Event : StartFlow(c, f, name, keys)
          \/ \E keys \in Event : Resume(c, f, keys)
    \/ \E c \in Call : Continue(c)
    \/ Tick
    \/ Clear

Spec == Init /\ [][Next]_vars
=============================================================================
