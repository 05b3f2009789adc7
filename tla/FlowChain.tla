----------------------------- MODULE FlowChain -----------------------------
(***************************************************************************)
(* useFlowChain (lang/ts-react/src/use-flow-chain.ts): flows one after     *)
(* another in one component.                                               *)
(*                                                                         *)
(* When a call finds its flow ended it goes on to the next step by itself, *)
(* start by start, until a flow rests or a step's condition is not met.    *)
(* The step index moves before the next flow is started, the flow that     *)
(* resume works on after that: in between the two do not belong together.  *)
(* A chain of one step behaves like useFlow (UseFlow).                     *)
(***************************************************************************)
EXTENDS Naturals, Sequences

CONSTANTS
    State, Terminal, Initial,
    Chains,           \* the chains of steps to look at
    MaxCalls          \* bound: the calls of the component

Call == 1..MaxCalls

(* A chain is the sequence of its steps' conditions: the states of the     *)
(* flow before in which the step is taken.  The first one is not asked.    *)
ASSUME ChainAssumption ==
    /\ Terminal \subseteq State /\ Initial \in State \ Terminal
    /\ MaxCalls \in Nat \ {0}
    /\ \A s \in Chains : s \in Seq(SUBSET State) /\ s # <<>>

VARIABLES
    steps,      \* stepsRef: the chain
    stepIndex,  \* stepIndexRef
    call,       \* call -> what it is, how far it is, which flow it works on
    flows,      \* call -> step -> the flow it has started for that step
    effect,     \* the start that is not cancelled, 0 when there is none
    view,       \* what the component shows, with the flow of flowIdRef
    mounted,
    overlapped, \* history: two calls have been in flight at the same time
    origin      \* history: step -> the flow whose end led to it

vars == <<steps, stepIndex, call, flows, effect, view, mounted, overlapped, origin>>

Step == 1..Len(steps)

(* A flow is known by the call that started it and its step.               *)
NoId == <<0, 1>>

flowOf(id) == flows[id[1]][id[2]]

Unused == [kind |-> "none", phase |-> "unused", flow |-> NoId]

NoFlow == [state |-> Initial, ended |-> FALSE]

fresh(c) == call[c] = Unused /\ \A b \in 1..(c - 1) : call[b] # Unused

inFlight(c) == call[c].phase \in {"running", "moved", "failing"}

(* A flow that the engine refuses to resume.                               *)
stuck(f) == f.ended \/ f.state \in Terminal

-----------------------------------------------------------------------------
(* Mistaken: an error stays until the next one.                            *)
waitingKeepsError(v) == [v EXCEPT !.loading = TRUE]

waiting(v) == [v EXCEPT !.loading = TRUE, !.error = FALSE]

(* Mistaken: only a new flow is shown.                                     *)
syncNewFlows(v, id) == IF v.flow = id THEN v ELSE [v EXCEPT !.flow = id, !.state = flowOf(id).state]

syncFromInstance(v, id) == [v EXCEPT !.flow = id, !.state = flowOf(id).state]

counts(c) == mounted /\ (call[c].kind = "resume" \/ effect = c)

(* Mistaken: the condition looked at is that of the step that has ended.   *)
advancesByOwn(c, id) ==
    /\ call[c].kind = "start" /\ id[2] = 1 => counts(c)
    /\ flowOf(id).ended
    /\ stepIndex < Len(steps)
    /\ stepIndex > 1 => flowOf(id).state \in steps[stepIndex]

(* tryAdvance goes on from the flow id; a start that is cancelled does not *)
(* ask, but goes on once it has advanced.                                  *)
advances(c, id) ==
    /\ call[c].kind = "start" /\ id[2] = 1 => counts(c)
    /\ flowOf(id).ended
    /\ stepIndex < Len(steps)
    /\ flowOf(id).state \in steps[stepIndex + 1]

-----------------------------------------------------------------------------
Init ==
    /\ steps \in Chains
    /\ stepIndex = 1
    /\ call = [c \in Call |-> Unused]
    /\ flows = [c \in Call |-> [s \in Step |-> NoFlow]]
    /\ effect = 0
    /\ view = [flow |-> NoId, state |-> Initial, error |-> FALSE, loading |-> TRUE]
    /\ mounted = TRUE
    /\ overlapped = FALSE
    /\ origin = [s \in Step |-> NoId]

(* The effect runs: at the mount, and a second time in strict mode, which  *)
(* cancels the first run.                                                  *)
RunEffect(c) ==
    /\ mounted /\ fresh(c) /\ c <= 2 /\ view.flow = NoId
    /\ \A b \in Call : call[b].phase \in {"unused", "running"}
    /\ effect' = c
    /\ stepIndex' = 1
    /\ call' = [call EXCEPT ![c] = [kind |-> "start", phase |-> "running", flow |-> <<c, 1>>]]
    /\ view' = waiting(view)
    /\ UNCHANGED <<steps, flows, mounted, overlapped, origin>>

Unmount ==
    /\ mounted
    /\ mounted' = FALSE
    /\ effect' = 0
    /\ UNCHANGED <<steps, stepIndex, call, flows, view, overlapped, origin>>

(* A flow is resumed with the definition of the step the index is at: when *)
(* it is another one's, the engine may or may not find a transition in it. *)
Resume(c) ==
    /\ mounted /\ fresh(c) /\ view.flow # NoId
    /\ \E p \in {"running", "failing"} :
         /\ flowOf(view.flow).ended => p = "failing"
         /\ view.flow[2] = stepIndex => (p = "failing" <=> stuck(flowOf(view.flow)))
         /\ call' = [call EXCEPT ![c] = [kind |-> "resume", phase |-> p, flow |-> view.flow]]
    /\ view' = waiting(view)
    /\ overlapped' = (overlapped \/ \E b \in Call : inFlight(b) /\ (call[b].kind = "resume" \/ effect = b))
    /\ UNCHANGED <<steps, stepIndex, flows, effect, mounted, origin>>

(* The engine moves the flow, or ends it where it is (expired, error).  A  *)
(* terminal state that is not completed is one whose enter action threw or, *)
(* at the limit of the chain, left as it was: the call is going to throw.  *)
Move(c) ==
    /\ call[c].phase = "running"
    /\ LET id == call[c].flow
       IN  \E s \in (State \ {Initial}) \cup {flowOf(id).state}, end \in BOOLEAN :
             /\ s = flowOf(id).state => end
             /\ flows' = [flows EXCEPT ![id[1]][id[2]] = [state |-> s, ended |-> @.ended \/ end]]
             /\ call' = [call EXCEPT ![c].phase = IF s \in Terminal /\ ~end THEN "failing" ELSE "moved"]
    /\ UNCHANGED <<steps, stepIndex, effect, view, mounted, overlapped, origin>>

returns(c) == call[c].phase \in {"running", "moved"}

(* A call of the engine returns: the instance is shown, and tryAdvance     *)
(* moves the index and calls the engine again, or the whole call is over.  *)
Return(c) ==
    /\ returns(c)
    /\ LET id == call[c].flow
           next == <<c, stepIndex + 1>>
           synced == IF counts(c) THEN syncFromInstance(view, id) ELSE view
       IN  IF advances(c, id)
           THEN /\ stepIndex' = stepIndex + 1
                /\ call' = [call EXCEPT ![c].phase = "running", ![c].flow = next]
                /\ view' = synced
                /\ origin' = [origin EXCEPT ![stepIndex + 1] = id]
           ELSE /\ call' = [call EXCEPT ![c].phase = "done"]
                /\ view' = IF counts(c) THEN [synced EXCEPT !.loading = FALSE] ELSE synced
                /\ UNCHANGED <<stepIndex, origin>>
    /\ UNCHANGED <<steps, flows, effect, mounted, overlapped>>

(* The catch shows the error and nothing else: the snapshot stays what it  *)
(* is, even if the call had moved the flow, and so does the index, even if *)
(* the start that threw was that of the next step.                         *)
Throw(c) ==
    /\ inFlight(c)
    /\ call' = [call EXCEPT ![c].phase = "done"]
    /\ view' = IF counts(c) THEN [view EXCEPT !.error = TRUE, !.loading = FALSE] ELSE view
    /\ UNCHANGED <<steps, stepIndex, flows, effect, mounted, overlapped, origin>>

Next ==
    \/ \E c \in Call : RunEffect(c) \/ Resume(c) \/ Move(c) \/ Return(c) \/ Throw(c)
    \/ Unmount

Spec == Init /\ [][Next]_vars

-----------------------------------------------------------------------------

Quiet == mounted /\ \A c \in Call : inFlight(c) => ~counts(c)

(* What a quiet component shows: its flow as it is or an error, although   *)
(* the calls share the instance, overlap, answer in any order and throw    *)
(* after they have moved the flow, which leaves the snapshot behind: no    *)
(* later call takes the error away and leaves the old snapshot.  Neither   *)
(* is there a loading flag, which several calls share, once the last of    *)
(* them has answered or thrown, nor ever the flow of a start that strict   *)
(* mode has cancelled.                                                     *)
QuietViewIsTrue ==
    /\ (Quiet /\ view.flow # NoId)
         => view.state = flowOf(view.flow).state \/ view.error
    /\ (Quiet /\ call[1] # Unused) => ~view.loading
    /\ (mounted /\ view.flow # NoId)
         => call[view.flow[1]].kind = "resume" \/ view.flow[1] = effect

(* As long as no two calls overlap, each step is entered from the step     *)
(* before it, from a flow that has ended and meets its condition.          *)
EnteredInOrder ==
    (~overlapped /\ mounted) =>
        \A s \in 2..stepIndex :
            /\ origin[s] # NoId /\ origin[s][2] = s - 1
            /\ flowOf(origin[s]).ended /\ flowOf(origin[s]).state \in steps[s]

(* At rest without an error, and without overlap, a chain stands where it  *)
(* should: it shows the flow of its step, and that one is open, or the     *)
(* next step does not want it, or there is none.                           *)
RestsAtItsStep ==
    (Quiet /\ ~overlapped /\ ~view.error /\ view.flow # NoId) =>
        /\ view.flow[2] = stepIndex
        /\ \/ ~flowOf(view.flow).ended
           \/ stepIndex = Len(steps)
           \/ flowOf(view.flow).state \notin steps[stepIndex + 1]

(* Without overlapping calls tryAdvance takes the steps one after another, *)
(* skips none and stops short of none, through flows that end at once.     *)
StepsInOrder == EnteredInOrder /\ RestsAtItsStep

(* A chain of one step behaves like useFlow; longer ones are mapped to a   *)
(* component that is never mounted.                                        *)
Single == Len(steps) = 1

ownCall == [c \in Call |-> IF Single THEN [call[c] EXCEPT !.flow = @[1]]
                                     ELSE [Unused EXCEPT !.flow = 0]]
ownFlows == [c \in Call |-> IF Single THEN flows[c][1] ELSE NoFlow]
ownEffect == IF Single THEN effect ELSE 0
ownView == IF Single THEN [view EXCEPT !.flow = @[1]]
           ELSE [flow |-> 0, state |-> Initial, error |-> FALSE, loading |-> TRUE]
ownMounted == Single => mounted

UseFlowOfOne == INSTANCE UseFlow WITH
    call <- ownCall, flows <- ownFlows, effect <- ownEffect, view <- ownView, mounted <- ownMounted

ImplementsUseFlow == UseFlowOfOne!Spec
=============================================================================
