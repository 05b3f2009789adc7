--------------------------- MODULE FlowChainProofs ---------------------------
(***************************************************************************)
(* useFlowChain, for every set of states, chain and number of calls: with  *)
(* one step it behaves like useFlow; with any number of steps a component  *)
(* at rest shows the truth, and the steps are taken in order as long as    *)
(* calls do not overlap.                                                   *)
(***************************************************************************)
EXTENDS FlowChain, TLAPS

(* The flows of the only step, and none.                                   *)
Id == (Call \cup {0}) \X {1}

Kind == {"none", "start", "resume"}
Phase == {"unused", "running", "moved", "failing", "done"}

(* With one step the index stays where it is, and every flow is that       *)
(* step's; a call that was made works on the flow of some call.            *)
OneInv ==
    /\ stepIndex = 1
    /\ call \in [Call -> [kind: Kind, phase: Phase, flow: Id]]
    /\ \A c \in Call : call[c].phase # "unused" => call[c].flow[1] \in Call
    /\ flows \in [Call -> [{1} -> [state: State, ended: BOOLEAN]]]
    /\ effect \in Call \cup {0}
    /\ view \in [flow: Id, state: State, error: BOOLEAN, loading: BOOLEAN]
    /\ mounted \in BOOLEAN

Inv == Single => OneInv

-----------------------------------------------------------------------------
LEMMA InitInv == Init => Inv
<1>. SUFFICES ASSUME Init, Single PROVE OneInv
  BY DEF Inv
<1>1. Step = {1}
  BY DEF Single, Step
<1>2. NoId \in Id /\ Initial \in State
  BY ChainAssumption DEF NoId, Id
<1>. QED
  BY <1>1, <1>2 DEF Init, OneInv, Unused, NoFlow, Kind, Phase

(* The only step's flow is the last one: nothing is left to advance to.    *)
LEMMA NoAdvance ==
    ASSUME Single, OneInv, NEW c, NEW id
    PROVE  ~advances(c, id)
BY DEF Single, OneInv, advances

(* What a call may do to the variables, with one step.                     *)
LEMMA NextInv == Inv /\ [Next]_vars => Inv'
<1>. SUFFICES ASSUME Inv, [Next]_vars, Single' PROVE OneInv'
  BY DEF Inv
<1>0. steps' = steps
  BY DEF Next, RunEffect, Resume, Move, Return, Throw, Unmount, vars
<1>1. Single /\ OneInv
  BY <1>0 DEF Inv, Single
<1>2. ASSUME NEW c \in Call, RunEffect(c) PROVE OneInv'
  <2>1. [kind |-> "start", phase |-> "running", flow |-> <<c, 1>>] \in [kind: Kind, phase: Phase, flow: Id]
    BY DEF Kind, Phase, Id
  <2>. QED
    BY <1>1, <1>2, <2>1 DEF OneInv, RunEffect, waiting
<1>3. ASSUME NEW c \in Call, Resume(c) PROVE OneInv'
  <2>1. PICK p \in {"running", "failing"} :
           call' = [call EXCEPT ![c] = [kind |-> "resume", phase |-> p, flow |-> view.flow]]
    BY <1>3 DEF Resume
  <2>2. view.flow \in Id /\ view.flow[1] \in Call
    BY <1>1, <1>3 DEF OneInv, Resume, NoId, Id
  <2>3. [kind |-> "resume", phase |-> p, flow |-> view.flow] \in [kind: Kind, phase: Phase, flow: Id]
    BY <2>2 DEF Kind, Phase
  <2>. QED
    BY <1>1, <1>3, <2>1, <2>2, <2>3 DEF OneInv, Resume, waiting
<1>4. ASSUME NEW c \in Call, Move(c) PROVE OneInv'
  <2>. DEFINE id == call[c].flow
  <2>1. id[1] \in Call /\ id[2] = 1 /\ flowOf(id) \in [state: State, ended: BOOLEAN]
    BY <1>1, <1>4 DEF OneInv, Move, Id, flowOf
  <2>2. PICK s \in (State \ {Initial}) \cup {flowOf(id).state}, end \in BOOLEAN :
           flows' = [flows EXCEPT ![id[1]][id[2]] = [state |-> s, ended |-> @.ended \/ end]]
    BY <1>4 DEF Move
  <2>3. s \in State
    BY <2>1
  <2>4. flows' \in [Call -> [{1} -> [state: State, ended: BOOLEAN]]]
    BY <1>1, <2>1, <2>2, <2>3 DEF OneInv
  <2>5. PICK p \in {"moved", "failing"} : call' = [call EXCEPT ![c].phase = p]
    BY <1>4 DEF Move
  <2>6. /\ call' \in [Call -> [kind: Kind, phase: Phase, flow: Id]]
        /\ \A b \in Call : call'[b].phase # "unused" => call'[b].flow[1] \in Call
    BY <1>1, <1>4, <2>1, <2>5 DEF OneInv, Phase
  <2>. QED
    BY <1>1, <1>4, <2>4, <2>6 DEF OneInv, Move
<1>5. ASSUME NEW c \in Call, Return(c) PROVE OneInv'
  <2>1. call[c].flow \in Id /\ call[c].flow[1] \in Call
    BY <1>1, <1>5 DEF OneInv, Return, returns
  <2>2. flowOf(call[c].flow).state \in State
    BY <1>1, <2>1 DEF OneInv, Id, flowOf
  <2>3. /\ call' = [call EXCEPT ![c].phase = "done"] /\ stepIndex' = stepIndex
        /\ view' = IF counts(c) THEN [syncFromInstance(view, call[c].flow) EXCEPT !.loading = FALSE]
                                ELSE view
    BY <1>1, <1>5, NoAdvance DEF Return
  <2>4. view' \in [flow: Id, state: State, error: BOOLEAN, loading: BOOLEAN]
    BY <1>1, <2>1, <2>2, <2>3 DEF OneInv, syncFromInstance
  <2>. QED
    BY <1>1, <1>5, <2>1, <2>3, <2>4 DEF OneInv, Return, Phase
<1>6. ASSUME NEW c \in Call, Throw(c) PROVE OneInv'
  BY <1>1, <1>6 DEF OneInv, Throw, inFlight, Phase
<1>7. CASE Unmount
  BY <1>1, <1>7 DEF OneInv, Unmount
<1>8. CASE UNCHANGED vars
  BY <1>1, <1>8 DEF OneInv, vars
<1>. QED
  BY <1>2, <1>3, <1>4, <1>5, <1>6, <1>7, <1>8 DEF Next

-----------------------------------------------------------------------------
(* What the mapping makes of a call, and of the primed one.                *)
own(k) == [kind |-> k.kind, phase |-> k.phase, flow |-> k.flow[1]]

LEMMA OwnCall ==
    ASSUME Single, OneInv
    PROVE  ownCall = [c \in Call |-> own(call[c])]
<1>1. \A c \in Call : ownCall[c] = own(call[c])
  BY DEF ownCall, OneInv, Id, own
<1>2. ownCall = [c \in Call |-> ownCall[c]]
  BY DEF ownCall
<1>. QED
  BY <1>1, <1>2

LEMMA OwnView ==
    ASSUME Single, OneInv
    PROVE  ownView = [flow |-> view.flow[1], state |-> view.state,
                      error |-> view.error, loading |-> view.loading]
BY DEF ownView, OneInv, Id

LEMMA OwnRest ==
    ASSUME Single, OneInv
    PROVE  /\ ownFlows = [c \in Call |-> flows[c][1]]
           /\ ownEffect = effect
           /\ ownMounted = mounted
BY DEF ownFlows, ownEffect, ownMounted, OneInv

(* A primed state satisfies the same lemmas.                               *)
LEMMA OwnNext ==
    ASSUME Single', OneInv'
    PROVE  /\ ownCall' = [c \in Call |-> own(call'[c])]
           /\ ownView' = [flow |-> view'.flow[1], state |-> view'.state,
                          error |-> view'.error, loading |-> view'.loading]
           /\ ownFlows' = [c \in Call |-> flows'[c][1]]
           /\ ownEffect' = effect'
           /\ ownMounted' = mounted'
<1>1. \A c \in Call : ownCall'[c] = own(call'[c])
  BY DEF ownCall, OneInv, Id, own
<1>2. ownCall' = [c \in Call |-> ownCall'[c]]
  BY DEF ownCall
<1>3. ownView' = [flow |-> view'.flow[1], state |-> view'.state,
                  error |-> view'.error, loading |-> view'.loading]
  BY DEF ownView, OneInv, Id
<1>. QED
  BY <1>1, <1>2, <1>3 DEF ownFlows, ownEffect, ownMounted, OneInv

(* One call changes in both.                                               *)
LEMMA OneCall ==
    ASSUME Single, OneInv, Single', OneInv', NEW c \in Call, NEW k, call' = [call EXCEPT ![c] = k]
    PROVE  ownCall' = [ownCall EXCEPT ![c] = own(k)]
<1>1. ASSUME NEW b \in Call PROVE own(call'[b]) = IF b = c THEN own(k) ELSE own(call[b])
  <2>1. call'[b] = IF b = c THEN k ELSE call[b]
    BY DEF OneInv
  <2>. QED
    BY <2>1
<1>2. [b \in Call |-> own(call'[b])] = [[b \in Call |-> own(call[b])] EXCEPT ![c] = own(k)]
  BY <1>1
<1>. QED
  BY <1>2, OwnCall, OwnNext

(* A change of one call's phase.                                           *)
LEMMA PhaseMaps ==
    ASSUME Single, OneInv, Single', OneInv', NEW c \in Call, NEW p, call' = [call EXCEPT ![c].phase = p]
    PROVE  ownCall' = [ownCall EXCEPT ![c].phase = p]
<1>1. call' = [call EXCEPT ![c] = [call[c] EXCEPT !.phase = p]]
  BY DEF OneInv
<1>2. own([call[c] EXCEPT !.phase = p]) = [own(call[c]) EXCEPT !.phase = p]
  <2>1. call[c] \in [kind: Kind, phase: Phase, flow: Id]
    BY DEF OneInv
  <2>. QED
    BY <2>1 DEF own
<1>3. ownCall' = [ownCall EXCEPT ![c] = own([call[c] EXCEPT !.phase = p])]
  BY <1>1, OneCall
<1>. QED
  BY <1>2, <1>3, OwnCall

(* A call is unused, and fresh, in both.                                   *)
LEMMA SameFresh ==
    ASSUME Single, OneInv, NEW c \in Call
    PROVE  fresh(c) <=> UseFlowOfOne!fresh(c)
<1>1. ASSUME NEW b \in Call PROVE call[b] = Unused <=> ownCall[b] = UseFlowOfOne!Unused
  <2>1. call[b] \in [kind: Kind, phase: Phase, flow: Id] /\ ownCall[b] = own(call[b])
    BY OwnCall DEF OneInv
  <2>2. call[b].flow = <<call[b].flow[1], 1>>
    BY <2>1 DEF Id
  <2>3. call[b] = [kind |-> call[b].kind, phase |-> call[b].phase, flow |-> call[b].flow]
    BY <2>1
  <2>. QED
    BY <2>1, <2>2, <2>3 DEF own, Unused, NoId, UseFlowOfOne!Unused
<1>2. \A b \in 1 .. (c - 1) : b \in Call
  BY ChainAssumption DEF Call
<1>. QED
  BY <1>1, <1>2 DEF fresh, UseFlowOfOne!fresh

-----------------------------------------------------------------------------
(* Every step of the hook is one of useFlow.                               *)

(* How the updates of a view write its fields.                             *)
LEMMA ViewUpdate ==
    ASSUME Single, OneInv
    PROVE  \A x, y, z :
             /\ [ownView EXCEPT !.loading = x, !.error = y]
                = [flow |-> view.flow[1], state |-> view.state, error |-> y, loading |-> x]
             /\ [ownView EXCEPT !.error = y, !.loading = x]
                = [flow |-> view.flow[1], state |-> view.state, error |-> y, loading |-> x]
             /\ [[ownView EXCEPT !.flow = x, !.state = y] EXCEPT !.loading = z]
                = [flow |-> x, state |-> y, error |-> view.error, loading |-> z]
<1>. DEFINE v == ownView
            f == view.flow[1]
            s == view.state
            e == view.error
            l == view.loading
<1>1. v = [flow |-> f, state |-> s, error |-> e, loading |-> l]
  BY OwnView
<1>. HIDE DEF v, f, s, e, l
<1>2. ASSUME NEW x, NEW y, NEW z
      PROVE  /\ [v EXCEPT !.loading = x, !.error = y]
                = [flow |-> f, state |-> s, error |-> y, loading |-> x]
             /\ [v EXCEPT !.error = y, !.loading = x]
                = [flow |-> f, state |-> s, error |-> y, loading |-> x]
             /\ [[v EXCEPT !.flow = x, !.state = y] EXCEPT !.loading = z]
                = [flow |-> x, state |-> y, error |-> e, loading |-> z]
  <2>. DEFINE a == [v EXCEPT !.loading = x]
              b == [v EXCEPT !.error = y]
              c == [v EXCEPT !.flow = x]
              d == [c EXCEPT !.state = y]
  <2>1. a = [flow |-> f, state |-> s, error |-> e, loading |-> x]
    BY <1>1
  <2>2. b = [flow |-> f, state |-> s, error |-> y, loading |-> l]
    BY <1>1
  <2>3. c = [flow |-> x, state |-> s, error |-> e, loading |-> l]
    BY <1>1
  <2>4. /\ [v EXCEPT !.loading = x, !.error = y] = [a EXCEPT !.error = y]
        /\ [v EXCEPT !.error = y, !.loading = x] = [b EXCEPT !.loading = x]
        /\ [[v EXCEPT !.flow = x, !.state = y] EXCEPT !.loading = z] = [d EXCEPT !.loading = z]
    BY <1>1
  <2>. HIDE DEF a, b, c
  <2>5. d = [flow |-> x, state |-> y, error |-> e, loading |-> l]
    BY <2>3
  <2>. HIDE DEF d
  <2>6. [a EXCEPT !.error = y] = [flow |-> f, state |-> s, error |-> y, loading |-> x]
    BY <2>1
  <2>7. [b EXCEPT !.loading = x] = [flow |-> f, state |-> s, error |-> y, loading |-> x]
    BY <2>2
  <2>8. [d EXCEPT !.loading = z] = [flow |-> x, state |-> y, error |-> e, loading |-> z]
    BY <2>5
  <2>. QED
    BY <2>4, <2>6, <2>7, <2>8
<1>. QED
  BY <1>2 DEF v, f, s, e, l

(* The setters before a call of the engine.                                *)
LEMMA WaitingMaps ==
    ASSUME Single, OneInv, Single', OneInv', view' = waiting(view)
    PROVE  ownView' = [ownView EXCEPT !.loading = TRUE, !.error = FALSE]
<1>1. /\ view'.flow = view.flow /\ view'.state = view.state
      /\ view'.error = FALSE /\ view'.loading = TRUE
  BY DEF waiting, OneInv
<1>2. ownView' = [flow |-> view.flow[1], state |-> view.state, error |-> FALSE, loading |-> TRUE]
  BY <1>1, OwnNext
<1>3. [ownView EXCEPT !.loading = TRUE, !.error = FALSE]
      = [flow |-> view.flow[1], state |-> view.state, error |-> FALSE, loading |-> TRUE]
  BY ViewUpdate, Zenon
<1>. QED
  BY <1>2, <1>3

LEMMA RunEffectMaps ==
    ASSUME Single, OneInv, Single', OneInv', NEW c \in Call, RunEffect(c)
    PROVE  UseFlowOfOne!RunEffect(c)
<1>1. ownMounted /\ UseFlowOfOne!fresh(c) /\ c <= 2 /\ ownView.flow = 0
  <2>1. view.flow[1] = 0
    BY DEF RunEffect, NoId
  <2>. QED
    BY <2>1, OwnView, OwnRest, SameFresh DEF RunEffect
<1>2. \A b \in Call : ownCall[b].phase \in {"unused", "running"}
  <2>1. \A b \in Call : ownCall[b].phase = call[b].phase
    BY OwnCall DEF own
  <2>. QED
    BY <2>1 DEF RunEffect
<1>3. ownCall' = [ownCall EXCEPT ![c] = [kind |-> "start", phase |-> "running", flow |-> c]]
  <2>1. own([kind |-> "start", phase |-> "running", flow |-> <<c, 1>>])
        = [kind |-> "start", phase |-> "running", flow |-> c]
    BY DEF own
  <2>. QED
    BY <2>1, OneCall DEF RunEffect
<1>4. ownView' = [ownView EXCEPT !.loading = TRUE, !.error = FALSE]
  BY WaitingMaps DEF RunEffect
<1>5. ownEffect' = c /\ ownFlows' = ownFlows /\ ownMounted' = ownMounted
  BY OwnRest, OwnNext DEF RunEffect
<1>. QED
  BY <1>1, <1>2, <1>3, <1>4, <1>5 DEF UseFlowOfOne!RunEffect, UseFlowOfOne!waiting, Call, UseFlowOfOne!Call

LEMMA ResumeMaps ==
    ASSUME Single, OneInv, Single', OneInv', NEW c \in Call, Resume(c)
    PROVE  UseFlowOfOne!Resume(c)
<1>. DEFINE f == view.flow[1]
<1>1. PICK p \in {"running", "failing"} :
        /\ flowOf(view.flow).ended => p = "failing"
        /\ view.flow[2] = stepIndex => (p = "failing" <=> stuck(flowOf(view.flow)))
        /\ call' = [call EXCEPT ![c] = [kind |-> "resume", phase |-> p, flow |-> view.flow]]
  BY DEF Resume
<1>2. view.flow \in Id /\ view.flow # NoId
  BY DEF OneInv, Resume
<1>3. f \in Call /\ f # 0 /\ view.flow[2] = 1 /\ view.flow = <<f, 1>>
  BY <1>2, ChainAssumption DEF Id, NoId, Call
<1>4. flowOf(view.flow) = ownFlows[f]
  BY <1>3, OwnRest DEF flowOf
<1>5. p = IF UseFlowOfOne!stuck(ownFlows[f]) THEN "failing" ELSE "running"
  BY <1>1, <1>3, <1>4 DEF OneInv, stuck, UseFlowOfOne!stuck
<1>6. ownCall' = [ownCall EXCEPT ![c] = [kind |-> "resume", phase |-> p, flow |-> f]]
  <2>1. own([kind |-> "resume", phase |-> p, flow |-> view.flow])
        = [kind |-> "resume", phase |-> p, flow |-> f]
    BY DEF own
  <2>. QED
    BY <1>1, <2>1, OneCall
<1>7. ownView' = [ownView EXCEPT !.loading = TRUE, !.error = FALSE]
  BY WaitingMaps DEF Resume
<1>8. ownView.flow = f
  BY OwnView
<1>9. ownMounted /\ UseFlowOfOne!fresh(c)
  BY OwnRest, SameFresh DEF Resume
<1>10. ownFlows' = ownFlows /\ ownEffect' = ownEffect /\ ownMounted' = ownMounted
  BY OwnRest, OwnNext DEF Resume
<1>11. ownCall' = [ownCall EXCEPT ![c] =
          [kind |-> "resume", flow |-> ownView.flow,
           phase |-> IF UseFlowOfOne!stuck(ownFlows[ownView.flow]) THEN "failing" ELSE "running"]]
  BY <1>5, <1>6, <1>8
<1>. QED
  BY <1>3, <1>7, <1>8, <1>9, <1>10, <1>11 DEF UseFlowOfOne!Resume, UseFlowOfOne!waiting

LEMMA MoveMaps ==
    ASSUME Single, OneInv, Single', OneInv', NEW c \in Call, Move(c)
    PROVE  UseFlowOfOne!Move(c)
<1>. DEFINE id == call[c].flow
            f == id[1]
<1>1. id \in Id /\ f \in Call /\ id = <<f, 1>> /\ call[c].phase = "running"
  BY DEF OneInv, Move, Id
<1>2. ownCall[c].flow = f /\ ownCall[c].phase = "running"
  BY <1>1, OwnCall DEF own
<1>3. flowOf(id) = ownFlows[f]
  BY <1>1, OwnRest DEF flowOf
<1>4. PICK s \in (State \ {Initial}) \cup {flowOf(id).state}, end \in BOOLEAN :
        /\ s = flowOf(id).state => end
        /\ flows' = [flows EXCEPT ![id[1]][id[2]] = [state |-> s, ended |-> @.ended \/ end]]
        /\ call' = [call EXCEPT ![c].phase = IF s \in Terminal /\ ~end THEN "failing" ELSE "moved"]
  BY DEF Move
<1>5. ownFlows' = [ownFlows EXCEPT ![f] = [state |-> s, ended |-> @.ended \/ end]]
  <2>1. \A b \in Call : flows'[b][1] = IF b = f THEN [state |-> s, ended |-> flows[f][1].ended \/ end]
                                               ELSE flows[b][1]
    BY <1>1, <1>4 DEF OneInv
  <2>. QED
    BY <1>1, <2>1, OwnRest, OwnNext
<1>6. ownCall' = [ownCall EXCEPT ![c].phase = IF s \in Terminal /\ ~end THEN "failing" ELSE "moved"]
  BY <1>4, PhaseMaps
<1>7. ownEffect' = ownEffect /\ ownView' = ownView /\ ownMounted' = ownMounted
  BY OwnRest, OwnView, OwnNext DEF Move
<1>. QED
  BY <1>2, <1>3, <1>4, <1>5, <1>6, <1>7 DEF UseFlowOfOne!Move

(* An answer counts in both or in neither.                                 *)
LEMMA SameCounts ==
    ASSUME Single, OneInv, NEW c \in Call
    PROVE  counts(c) <=> UseFlowOfOne!counts(c)
<1>1. ownCall[c].kind = call[c].kind
  BY OwnCall DEF own
<1>. QED
  BY <1>1, OwnRest DEF counts, UseFlowOfOne!counts

LEMMA ReturnMaps ==
    ASSUME Single, OneInv, Single', OneInv', NEW c \in Call, Return(c)
    PROVE  UseFlowOfOne!Return(c)
<1>. DEFINE id == call[c].flow
            f == id[1]
<1>1. id \in Id /\ f \in Call /\ id = <<f, 1>> /\ call[c].phase \in {"running", "moved"}
  BY DEF OneInv, Return, returns, Id
<1>2. ownCall[c].flow = f /\ ownCall[c].phase = call[c].phase
  BY <1>1, OwnCall DEF own
<1>3. /\ call' = [call EXCEPT ![c].phase = "done"]
      /\ view' = IF counts(c) THEN [syncFromInstance(view, id) EXCEPT !.loading = FALSE] ELSE view
      /\ UNCHANGED <<flows, effect, mounted>>
  BY NoAdvance DEF Return
<1>4. ownCall' = [ownCall EXCEPT ![c].phase = "done"]
  BY <1>3, PhaseMaps
<1>5. flowOf(id) = ownFlows[f]
  BY <1>1, OwnRest DEF flowOf
<1>6. ownView' = IF counts(c) THEN [UseFlowOfOne!syncFromInstance(ownView, f) EXCEPT !.loading = FALSE]
                              ELSE ownView
  <2>1. CASE counts(c)
    <3>1. /\ view'.flow = id /\ view'.state = ownFlows[f].state
          /\ view'.error = view.error /\ view'.loading = FALSE
      BY <1>3, <1>5, <2>1 DEF syncFromInstance, OneInv
    <3>2. ownView' = [flow |-> f, state |-> ownFlows[f].state, error |-> view.error, loading |-> FALSE]
      BY <3>1, OwnNext
    <3>3. [UseFlowOfOne!syncFromInstance(ownView, f) EXCEPT !.loading = FALSE]
          = [flow |-> f, state |-> ownFlows[f].state, error |-> view.error, loading |-> FALSE]
      BY ViewUpdate, Zenon DEF UseFlowOfOne!syncFromInstance
    <3>. QED
      BY <2>1, <3>2, <3>3
  <2>2. CASE ~counts(c)
    BY <1>3, <2>2, OwnView, OwnNext
  <2>. QED
    BY <2>1, <2>2
<1>7. ownFlows' = ownFlows /\ ownEffect' = ownEffect /\ ownMounted' = ownMounted
  BY <1>3, OwnRest, OwnNext
<1>. QED
  BY <1>1, <1>2, <1>4, <1>6, <1>7, SameCounts DEF UseFlowOfOne!Return

LEMMA ThrowMaps ==
    ASSUME Single, OneInv, Single', OneInv', NEW c \in Call, Throw(c)
    PROVE  UseFlowOfOne!Throw(c)
<1>1. UseFlowOfOne!inFlight(c)
  BY OwnCall DEF Throw, inFlight, UseFlowOfOne!inFlight, own
<1>2. ownCall' = [ownCall EXCEPT ![c].phase = "done"]
  BY PhaseMaps DEF Throw
<1>3. ownView' = IF counts(c) THEN [ownView EXCEPT !.error = TRUE, !.loading = FALSE] ELSE ownView
  <2>1. CASE counts(c)
    <3>1. /\ view'.flow = view.flow /\ view'.state = view.state
          /\ view'.error = TRUE /\ view'.loading = FALSE
      BY <2>1 DEF Throw, OneInv
    <3>2. ownView' = [flow |-> view.flow[1], state |-> view.state, error |-> TRUE, loading |-> FALSE]
      BY <3>1, OwnNext
    <3>3. [ownView EXCEPT !.error = TRUE, !.loading = FALSE]
          = [flow |-> view.flow[1], state |-> view.state, error |-> TRUE, loading |-> FALSE]
      BY ViewUpdate, Zenon
    <3>. QED
      BY <2>1, <3>2, <3>3
  <2>2. CASE ~counts(c)
    BY <2>2, OwnView, OwnNext DEF Throw
  <2>. QED
    BY <2>1, <2>2
<1>4. ownFlows' = ownFlows /\ ownEffect' = ownEffect /\ ownMounted' = ownMounted
  BY OwnRest, OwnNext DEF Throw
<1>. QED
  BY <1>1, <1>2, <1>3, <1>4, SameCounts DEF UseFlowOfOne!Throw

LEMMA UnmountMaps ==
    ASSUME Single, OneInv, Single', OneInv', Unmount
    PROVE  UseFlowOfOne!Unmount
<1>1. ownCall' = ownCall
  BY OwnCall, OwnNext DEF Unmount
<1>. QED
  BY <1>1, OwnView, OwnRest, OwnNext DEF Unmount, UseFlowOfOne!Unmount

-----------------------------------------------------------------------------
(* Longer chains are mapped to a component that is never mounted.          *)
LEMMA LongerStutters ==
    ASSUME ~Single, ~Single'
    PROVE  UNCHANGED UseFlowOfOne!vars
BY DEF UseFlowOfOne!vars, ownCall, ownFlows, ownEffect, ownView, ownMounted, Unused, NoFlow

(* A step of the chain is a step of useFlow or changes nothing of it.      *)
LEMMA StepMaps == Inv /\ Inv' /\ [Next]_vars => [UseFlowOfOne!Next]_(UseFlowOfOne!vars)
<1>. SUFFICES ASSUME Inv, Inv', [Next]_vars PROVE UseFlowOfOne!Next \/ UNCHANGED UseFlowOfOne!vars
  OBVIOUS
<1>1. Single' <=> Single
  BY DEF Single, Next, RunEffect, Resume, Move, Return, Throw, Unmount, vars
<1>2. CASE ~Single
  BY <1>1, <1>2, LongerStutters
<1>3. CASE Single
  <2>1. OneInv /\ OneInv' /\ Single'
    BY <1>1, <1>3 DEF Inv
  <2>2. ASSUME NEW c \in Call, RunEffect(c) \/ Resume(c) \/ Move(c) \/ Return(c) \/ Throw(c)
        PROVE  UseFlowOfOne!Next
    <3>1. UseFlowOfOne!RunEffect(c) \/ UseFlowOfOne!Resume(c) \/ UseFlowOfOne!Move(c)
          \/ UseFlowOfOne!Return(c) \/ UseFlowOfOne!Throw(c)
      BY <1>3, <2>1, <2>2, RunEffectMaps, ResumeMaps, MoveMaps, ReturnMaps, ThrowMaps
    <3>. QED
      BY <3>1 DEF UseFlowOfOne!Next, UseFlowOfOne!Call, Call
  <2>3. CASE Unmount
    BY <1>3, <2>1, <2>3, UnmountMaps DEF UseFlowOfOne!Next
  <2>4. CASE UNCHANGED vars
    <3>1. ownCall' = ownCall
      BY <1>3, <2>1, <2>4, OwnCall, OwnNext DEF vars
    <3>. QED
      BY <1>3, <2>1, <2>4, <3>1, OwnView, OwnRest, OwnNext DEF vars, UseFlowOfOne!vars
  <2>. QED
    BY <2>2, <2>3, <2>4 DEF Next
<1>. QED
  BY <1>2, <1>3

(* A component begins as one with useFlow.                                 *)
LEMMA InitMaps == Init => UseFlowOfOne!Init
<1>. SUFFICES ASSUME Init PROVE UseFlowOfOne!Init
  OBVIOUS
<1>1. CASE Single
  <2>1. OneInv
    BY <1>1, InitInv DEF Inv
  <2>2. 1 \in Step
    BY <1>1 DEF Single, Step
  <2>3. /\ ownCall = [c \in Call |-> own(Unused)] /\ own(Unused) = UseFlowOfOne!Unused
        /\ ownFlows = [c \in Call |-> NoFlow]
    BY <1>1, <2>1, <2>2, OwnCall, OwnRest DEF Init, own, Unused, NoId, UseFlowOfOne!Unused
  <2>. QED
    BY <1>1, <2>1, <2>3, OwnView, OwnRest
       DEF Init, NoId, NoFlow, UseFlowOfOne!Init, UseFlowOfOne!NoFlow, UseFlowOfOne!Call, Call
<1>2. CASE ~Single
  BY <1>2 DEF ownCall, ownFlows, ownEffect, ownView, ownMounted, Unused, NoFlow,
              UseFlowOfOne!Init, UseFlowOfOne!Unused, UseFlowOfOne!NoFlow, UseFlowOfOne!Call, Call
<1>. QED
  BY <1>1, <1>2

(* use-flow-chain.ts of one step is use-flow.ts: whatever a component with *)
(* such a chain shows and whichever calls it makes, one with useFlow may   *)
(* show and make, over mounts, unmounts and answers in any order.          *)
THEOREM ChainOfOneIsUseFlow == Spec => ImplementsUseFlow
<1>1. Spec => []Inv
  BY InitInv, NextInv, PTL DEF Spec
<1>. QED
  BY <1>1, InitMaps, StepMaps, PTL DEF Spec, ImplementsUseFlow, UseFlowOfOne!Spec
-----------------------------------------------------------------------------
(* Chains of any length: what the component shows, and the order of steps. *)

FlowId == (Call \cup {0}) \X Step

ChainTypes ==
    /\ steps \in Chains
    /\ stepIndex \in Step
    /\ call \in [Call -> [kind: Kind, phase: Phase, flow: FlowId]]
    /\ flows \in [Call -> [Step -> [state: State, ended: BOOLEAN]]]
    /\ effect \in Call \cup {0}
    /\ view \in [flow: FlowId, state: State, error: BOOLEAN, loading: BOOLEAN]
    /\ mounted \in BOOLEAN
    /\ overlapped \in BOOLEAN
    /\ origin \in [Step -> FlowId]

(* A flow that a component may show: that of a resume, or of the start     *)
(* that has not been cancelled.                                            *)
shown(id) == id[1] \in Call /\ (call[id[1]].kind = "resume" \/ id[1] = effect)

(* A call works on a flow it has started or on one that is shown; a start  *)
(* that is cancelled, or has not answered yet, is at its first step.       *)
CallsKnowTheirFlow ==
    \A c \in Call :
        /\ call[c].phase = "unused" <=> call[c] = Unused
        /\ call[c].kind = "none" <=> call[c] = Unused
        /\ call[c] # Unused => call[c].flow[1] \in Call
        /\ call[c].kind = "start" => call[c].flow[1] = c
        /\ call[c].kind = "resume" => view.flow # NoId
        /\ (mounted /\ call[c].kind = "resume") => shown(call[c].flow)
        /\ (mounted /\ call[c].kind = "start" /\ (c # effect \/ view.flow = NoId))
             => call[c].flow[2] = 1

(* The view is behind its flow only while a call is still to answer, or    *)
(* with the error of one that threw.                                       *)
ViewKnowsItsFlow ==
    (mounted /\ view.flow # NoId) =>
        /\ shown(view.flow)
        /\ \/ view.state = flowOf(view.flow).state
           \/ view.error
           \/ \E c \in Call : inFlight(c) /\ counts(c)

(* A loading flag is one that a call in flight will take away.             *)
LoadingIsOwed ==
    (mounted /\ call[1] # Unused /\ view.loading) => \E c \in Call : inFlight(c) /\ counts(c)

(* The order of the steps is promised as long as no calls overlap: there   *)
(* is one that counts, and it is at the step of the index.                 *)
Ordered == mounted /\ ~overlapped

OneAtATime ==
    Ordered => \A b, c \in Call : inFlight(b) /\ counts(b) /\ inFlight(c) /\ counts(c) => b = c

CallsFollowTheIndex ==
    Ordered => \A c \in Call : returns(c) /\ counts(c) => call[c].flow[2] = stepIndex

OriginsAreShown == Ordered => \A s \in 2 .. stepIndex : shown(origin[s])

(* Between the move of the index and the answer of the next flow's start,  *)
(* or once that start has thrown, the view shows the flow before it.       *)
ViewFollowsTheIndex ==
    (Ordered /\ view.flow # NoId) =>
        \/ view.flow[2] = stepIndex
        \/ view.flow[2] = stepIndex - 1 /\ flowOf(view.flow).ended

Resting ==
    /\ view.flow[2] = stepIndex
    /\ \/ ~flowOf(view.flow).ended
       \/ stepIndex = Len(steps)
       \/ flowOf(view.flow).state \notin steps[stepIndex + 1]

WorksOrRests ==
    (Ordered /\ view.flow # NoId) =>
        \/ \E c \in Call : inFlight(c) /\ counts(c)
        \/ view.error
        \/ Resting

ShowInv == ChainTypes /\ CallsKnowTheirFlow /\ ViewKnowsItsFlow /\ LoadingIsOwed

OrderInv ==
    /\ OneAtATime
    /\ CallsFollowTheIndex
    /\ EnteredInOrder
    /\ OriginsAreShown
    /\ ViewFollowsTheIndex
    /\ WorksOrRests

LEMMA Steps ==
    ASSUME steps \in Chains
    PROVE  Len(steps) \in Nat \ {0} /\ Step = 1 .. Len(steps) /\ 1 \in Step /\ NoId \in FlowId
<1>1. Len(steps) \in Nat \ {0}
  BY ChainAssumption
<1>. QED
  BY <1>1 DEF Step, NoId, FlowId

LEMMA InitChain == Init => ShowInv /\ OrderInv
<1>. SUFFICES ASSUME Init PROVE ShowInv /\ OrderInv
  OBVIOUS
<1>1. /\ Len(steps) \in Nat \ {0} /\ Step = 1 .. Len(steps) /\ 1 \in Step /\ NoId \in FlowId
      /\ Initial \in State
  BY Steps, ChainAssumption DEF Init
<1>2. Unused \in [kind: Kind, phase: Phase, flow: FlowId] /\ NoFlow \in [state: State, ended: BOOLEAN]
  BY <1>1 DEF Unused, NoFlow, Kind, Phase
<1>3. ChainTypes
  BY <1>1, <1>2 DEF Init, ChainTypes
<1>4. CallsKnowTheirFlow
  BY DEF Init, CallsKnowTheirFlow, Unused
<1>5. 1 \in Call
  BY ChainAssumption DEF Call
<1>6. ViewKnowsItsFlow /\ LoadingIsOwed
  BY <1>5 DEF Init, ViewKnowsItsFlow, LoadingIsOwed
<1>7. \A c \in Call : ~inFlight(c) /\ ~returns(c)
  BY DEF Init, inFlight, returns, Unused
<1>8. stepIndex = 1 /\ view.flow = NoId
  BY DEF Init
<1>. QED
  BY <1>3, <1>4, <1>6, <1>7, <1>8
     DEF ShowInv, OrderInv, OneAtATime, CallsFollowTheIndex, EnteredInOrder, OriginsAreShown,
         ViewFollowsTheIndex, WorksOrRests

(* A change of one call.                                                   *)
LEMMA CallChange ==
    ASSUME ChainTypes, NEW c \in Call, NEW k, call' = [call EXCEPT ![c] = k]
    PROVE  call'[c] = k /\ \A b \in Call : b # c => call'[b] = call[b]
BY DEF ChainTypes

LEMMA PhaseChange ==
    ASSUME ChainTypes, NEW c \in Call, NEW p \in Phase, call' = [call EXCEPT ![c].phase = p]
    PROVE  /\ call'[c] = [kind |-> call[c].kind, phase |-> p, flow |-> call[c].flow]
           /\ \A b \in Call : b # c => call'[b] = call[b]
           /\ call' \in [Call -> [kind: Kind, phase: Phase, flow: FlowId]]
<1>1. call[c] \in [kind: Kind, phase: Phase, flow: FlowId]
  BY DEF ChainTypes
<1>2. call' = [call EXCEPT ![c] = [call[c] EXCEPT !.phase = p]]
  BY DEF ChainTypes
<1>3. [call[c] EXCEPT !.phase = p] = [kind |-> call[c].kind, phase |-> p, flow |-> call[c].flow]
  BY <1>1
<1>. QED
  BY <1>1, <1>2, <1>3 DEF ChainTypes

LEMMA RunEffectKeeps ==
    ASSUME ShowInv, OrderInv, NEW c \in Call, RunEffect(c)
    PROVE  ShowInv' /\ OrderInv'
<1>. DEFINE k == [kind |-> "start", phase |-> "running", flow |-> <<c, 1>>]
<1>1. /\ mounted /\ mounted' /\ view.flow = NoId /\ effect' = c /\ stepIndex' = 1
      /\ view' = waiting(view) /\ UNCHANGED <<steps, flows, overlapped, origin>>
  BY DEF RunEffect
<1>2. ChainTypes /\ CallsKnowTheirFlow
  BY DEF ShowInv
<1>3. Step' = Step /\ FlowId' = FlowId
  BY <1>1 DEF Step, FlowId
<1>4. k \in [kind: Kind, phase: Phase, flow: FlowId] /\ 1 \in Step
  BY <1>2, Steps DEF ChainTypes, Kind, Phase, FlowId
<1>5. call' = [call EXCEPT ![c] = k]
  BY DEF RunEffect
<1>6. call'[c] = k /\ \A b \in Call : b # c => call'[b] = call[b]
  BY <1>2, <1>5, CallChange
<1>7. view'.flow = NoId /\ view' \in [flow: FlowId, state: State, error: BOOLEAN, loading: BOOLEAN]
  BY <1>1, <1>2 DEF ChainTypes, waiting
<1>8. ChainTypes'
  <2>1. call' \in [Call -> [kind: Kind, phase: Phase, flow: FlowId]]
    BY <1>2, <1>4, <1>5 DEF ChainTypes
  <2>. QED
    BY <1>1, <1>2, <1>3, <1>4, <1>7, <2>1 DEF ChainTypes
<1>9. \A b \in Call : call'[b].kind # "resume"
  BY <1>1, <1>2, <1>6 DEF CallsKnowTheirFlow
<1>10. CallsKnowTheirFlow'
  <2>1. k # Unused
    BY DEF Unused
  <2>2. \A b \in Call : call[b].kind = "start" => call[b].flow[2] = 1
    BY <1>1, <1>2 DEF CallsKnowTheirFlow
  <2>. QED
    BY <1>2, <1>6, <1>9, <2>1, <2>2 DEF CallsKnowTheirFlow
<1>11. ViewKnowsItsFlow'
  BY <1>7 DEF ViewKnowsItsFlow
<1>12. LoadingIsOwed'
  BY <1>1, <1>6 DEF LoadingIsOwed, inFlight, counts
<1>13. OneAtATime' /\ CallsFollowTheIndex'
  BY <1>1, <1>6, <1>9 DEF OneAtATime, CallsFollowTheIndex, counts
<1>14. 2 .. stepIndex' = {}
  BY <1>1
<1>15. EnteredInOrder' /\ OriginsAreShown'
  BY <1>14 DEF EnteredInOrder, OriginsAreShown
<1>16. ViewFollowsTheIndex' /\ WorksOrRests'
  BY <1>7 DEF ViewFollowsTheIndex, WorksOrRests
<1>. QED
  BY <1>8, <1>10, <1>11, <1>12, <1>13, <1>15, <1>16 DEF ShowInv, OrderInv

LEMMA UnmountKeeps ==
    ASSUME ShowInv, OrderInv, Unmount
    PROVE  ShowInv' /\ OrderInv'
<1>1. mounted' = FALSE /\ effect' = 0 /\ UNCHANGED <<steps, stepIndex, call, flows, view, overlapped, origin>>
  BY DEF Unmount
<1>2. Step' = Step /\ FlowId' = FlowId
  BY <1>1 DEF Step, FlowId
<1>3. ChainTypes'
  BY <1>1, <1>2 DEF ShowInv, ChainTypes
<1>4. CallsKnowTheirFlow'
  BY <1>1 DEF ShowInv, CallsKnowTheirFlow
<1>. QED
  BY <1>1, <1>3, <1>4
     DEF ShowInv, OrderInv, ViewKnowsItsFlow, LoadingIsOwed, Ordered, OneAtATime, CallsFollowTheIndex,
         EnteredInOrder, OriginsAreShown, ViewFollowsTheIndex, WorksOrRests

(* Without overlap a resume begins alone.  A flow of the step before has   *)
(* ended: the engine refuses to resume it.                                 *)
LEMMA ResumeKeeps ==
    ASSUME ShowInv, OrderInv, NEW c \in Call, Resume(c)
    PROVE  ShowInv' /\ OrderInv'
<1>1. PICK p \in {"running", "failing"} :
        /\ flowOf(view.flow).ended => p = "failing"
        /\ view.flow[2] = stepIndex => (p = "failing" <=> stuck(flowOf(view.flow)))
        /\ call' = [call EXCEPT ![c] = [kind |-> "resume", phase |-> p, flow |-> view.flow]]
  BY DEF Resume
<1>. DEFINE k == [kind |-> "resume", phase |-> p, flow |-> view.flow]
<1>2. /\ mounted /\ mounted' /\ view.flow # NoId /\ call[c] = Unused /\ view' = waiting(view)
      /\ UNCHANGED <<steps, stepIndex, flows, effect, origin>>
      /\ overlapped' = (overlapped \/ \E b \in Call : inFlight(b) /\ (call[b].kind = "resume" \/ effect = b))
  BY DEF Resume, fresh
<1>3. ChainTypes /\ CallsKnowTheirFlow /\ ViewKnowsItsFlow
  BY DEF ShowInv
<1>4. Step' = Step /\ FlowId' = FlowId
  BY <1>2 DEF Step, FlowId
<1>5. /\ view'.flow = view.flow /\ view'.state = view.state
      /\ view' \in [flow: FlowId, state: State, error: BOOLEAN, loading: BOOLEAN]
  BY <1>2, <1>3 DEF ChainTypes, waiting
<1>6. k \in [kind: Kind, phase: Phase, flow: FlowId]
  BY <1>3 DEF ChainTypes, Kind, Phase
<1>7. call'[c] = k /\ \A b \in Call : b # c => call'[b] = call[b]
  BY <1>1, <1>3, CallChange
<1>8. ChainTypes'
  <2>1. call' \in [Call -> [kind: Kind, phase: Phase, flow: FlowId]]
    BY <1>1, <1>3, <1>6 DEF ChainTypes
  <2>2. overlapped' \in BOOLEAN
    BY <1>2
  <2>. QED
    BY <1>2, <1>3, <1>4, <1>5, <2>1, <2>2 DEF ChainTypes
<1>9. ASSUME NEW id, shown(id)
      PROVE  id[1] \in Call /\ (call'[id[1]].kind = "resume" \/ id[1] = effect')
  BY <1>2, <1>7, <1>9 DEF shown, Unused
<1>10. shown(view.flow)
  BY <1>2, <1>3 DEF ViewKnowsItsFlow
<1>11. CallsKnowTheirFlow'
  <2>1. k # Unused /\ k.flow[1] \in Call /\ k.kind = "resume" /\ k.phase # "unused"
    BY <1>10 DEF Unused, shown
  <2>2. ASSUME NEW b \in Call, call'[b].kind = "resume"
        PROVE  call'[b].flow[1] \in Call
               /\ (call'[call'[b].flow[1]].kind = "resume" \/ call'[b].flow[1] = effect')
    <3>1. shown(call'[b].flow)
      BY <1>2, <1>3, <1>7, <1>10, <2>2 DEF CallsKnowTheirFlow
    <3>. QED
      BY <1>9, <3>1
  <2>3. \A b \in Call :
          /\ call'[b].phase = "unused" <=> call'[b] = Unused
          /\ call'[b].kind = "none" <=> call'[b] = Unused
          /\ call'[b] # Unused => call'[b].flow[1] \in Call
          /\ call'[b].kind = "start" => call'[b].flow[1] = b
          /\ call'[b].kind = "resume" => view'.flow # NoId
          /\ (mounted' /\ call'[b].kind = "start" /\ (b # effect' \/ view'.flow = NoId))
                => call'[b].flow[2] = 1
    BY <1>2, <1>3, <1>5, <1>7, <2>1 DEF CallsKnowTheirFlow
  <2>. QED
    BY <2>2, <2>3 DEF CallsKnowTheirFlow, shown
<1>12. flowOf(view.flow)' = flowOf(view.flow)
  BY <1>2, <1>5 DEF flowOf
<1>13. inFlight(c)' /\ counts(c)'
  BY <1>2, <1>7 DEF inFlight, counts
<1>14. ViewKnowsItsFlow'
  <2>1. shown(view.flow)'
    BY <1>5, <1>9, <1>10 DEF shown
  <2>. QED
    BY <1>13, <2>1 DEF ViewKnowsItsFlow
<1>15. LoadingIsOwed'
  BY <1>13 DEF LoadingIsOwed
<1>16. ASSUME Ordered'
       PROVE  Ordered /\ \A b \in Call : inFlight(b)' /\ counts(b)' => b = c
  BY <1>2, <1>7, <1>16 DEF Ordered, inFlight, counts
<1>17. OneAtATime'
  BY <1>16 DEF OneAtATime
<1>18. CallsFollowTheIndex'
  <2>. SUFFICES ASSUME Ordered', NEW b \in Call, returns(b)', counts(b)'
                PROVE  call'[b].flow[2] = stepIndex'
    BY DEF CallsFollowTheIndex
  <2>1. b = c
    BY <1>16 DEF returns, inFlight
  <2>2. p = "running"
    BY <1>7, <2>1 DEF returns
  <2>3. view.flow[2] = stepIndex
    BY <1>1, <1>2, <1>16, <2>2 DEF OrderInv, ViewFollowsTheIndex
  <2>. QED
    BY <1>2, <1>7, <2>1, <2>3
<1>19. EnteredInOrder'
  <2>. SUFFICES ASSUME Ordered' PROVE EnteredInOrder'
    BY DEF EnteredInOrder, Ordered
  <2>1. EnteredInOrder /\ ~overlapped
    BY <1>16 DEF OrderInv, Ordered
  <2>. QED
    BY <1>2, <2>1 DEF EnteredInOrder, flowOf
<1>20. OriginsAreShown'
  <2>. SUFFICES ASSUME Ordered', NEW s \in 2 .. stepIndex' PROVE shown(origin[s])'
    BY DEF OriginsAreShown
  <2>1. shown(origin[s])
    BY <1>2, <1>16 DEF OrderInv, OriginsAreShown
  <2>. QED
    BY <1>2, <1>9, <2>1 DEF shown
<1>21. ViewFollowsTheIndex'
  BY <1>2, <1>5, <1>12, <1>16 DEF OrderInv, ViewFollowsTheIndex
<1>22. WorksOrRests'
  BY <1>13 DEF WorksOrRests
<1>. QED
  BY <1>8, <1>11, <1>14, <1>15, <1>17, <1>18, <1>19, <1>20, <1>21, <1>22 DEF ShowInv, OrderInv

(* The engine changes the flow a call works on.                            *)
LEMMA FlowChange ==
    ASSUME ChainTypes, NEW c \in Call, Move(c), call[c].flow[1] \in Call
    PROVE  \E f \in [state: State, ended: BOOLEAN] :
             flows' = [flows EXCEPT ![call[c].flow[1]][call[c].flow[2]] = f]
<1>. DEFINE id == call[c].flow
<1>1. id[1] \in Call /\ id[2] \in Step /\ flowOf(id) \in [state: State, ended: BOOLEAN]
  BY DEF ChainTypes, FlowId, flowOf
<1>2. PICK s \in (State \ {Initial}) \cup {flowOf(id).state}, end \in BOOLEAN :
        flows' = [flows EXCEPT ![id[1]][id[2]] = [state |-> s, ended |-> @.ended \/ end]]
  BY DEF Move
<1>. DEFINE f == [state |-> s, ended |-> flowOf(id).ended \/ end]
<1>3. f \in [state: State, ended: BOOLEAN]
  BY <1>1
<1>4. flows' = [flows EXCEPT ![id[1]][id[2]] = f]
  BY <1>1, <1>2 DEF ChainTypes, flowOf
<1>. QED
  BY <1>3, <1>4

(* Without overlap the flow that moves is one that no step has been        *)
(* entered from; a cancelled start moves a flow that nobody is shown.      *)
LEMMA MoveKeeps ==
    ASSUME ShowInv, OrderInv, NEW c \in Call, Move(c)
    PROVE  ShowInv' /\ OrderInv'
<1>. DEFINE id == call[c].flow
<1>1. call[c].phase = "running" /\ UNCHANGED <<steps, stepIndex, effect, view, mounted, overlapped, origin>>
  BY DEF Move
<1>2. PICK p \in {"moved", "failing"} : call' = [call EXCEPT ![c].phase = p]
  BY DEF Move
<1>3. ChainTypes /\ CallsKnowTheirFlow /\ ViewKnowsItsFlow /\ LoadingIsOwed
  BY DEF ShowInv
<1>4. Step' = Step /\ FlowId' = FlowId
  BY <1>1 DEF Step, FlowId
<1>5. id \in FlowId /\ id[1] \in Call /\ id[2] \in Step
  BY <1>1, <1>3 DEF ChainTypes, CallsKnowTheirFlow, FlowId, Unused
<1>6. PICK f \in [state: State, ended: BOOLEAN] : flows' = [flows EXCEPT ![id[1]][id[2]] = f]
  BY <1>3, <1>5, FlowChange
<1>7. flows' \in [Call -> [Step -> [state: State, ended: BOOLEAN]]]
  BY <1>3, <1>5, <1>6 DEF ChainTypes
<1>8. ASSUME NEW x \in FlowId, x # id, x[1] \in Call
      PROVE  flows'[x[1]][x[2]] = flowOf(x)
  <2>1. x[1] # id[1] \/ x[2] # id[2]
    BY <1>5, <1>8 DEF FlowId
  <2>. QED
    BY <1>3, <1>5, <1>6, <1>8, <2>1 DEF ChainTypes, flowOf, FlowId
<1>9. /\ call'[c] = [kind |-> call[c].kind, phase |-> p, flow |-> id]
      /\ \A b \in Call : b # c => call'[b] = call[b]
      /\ call' \in [Call -> [kind: Kind, phase: Phase, flow: FlowId]]
  BY <1>2, <1>3, PhaseChange DEF Phase
<1>10. ChainTypes'
  BY <1>1, <1>3, <1>4, <1>7, <1>9 DEF ChainTypes
<1>11. \A b \in Call : call'[b].kind = call[b].kind /\ call'[b].flow = call[b].flow
  BY <1>9
<1>12. ASSUME NEW x PROVE (x[1] \in Call /\ (call'[x[1]].kind = "resume" \/ x[1] = effect')) <=> shown(x)
  BY <1>1, <1>11 DEF shown
<1>13. CallsKnowTheirFlow'
  <2>1. call[c] # Unused /\ call'[c] # Unused /\ call'[c].phase = p /\ call[c].kind # "none"
    <3>1. call[c] # Unused
      BY <1>1 DEF Unused
    <3>2. call'[c].phase = p
      BY <1>9
    <3>. QED
      BY <1>3, <3>1, <3>2 DEF Unused, CallsKnowTheirFlow
  <2>2. ASSUME NEW b \in Call, mounted', call'[b].kind = "resume"
        PROVE  call'[b].flow[1] \in Call
               /\ (call'[call'[b].flow[1]].kind = "resume" \/ call'[b].flow[1] = effect')
    <3>1. shown(call'[b].flow)
      BY <1>1, <1>3, <1>11, <2>2 DEF CallsKnowTheirFlow
    <3>. QED
      BY <1>12, <3>1
  <2>3. \A b \in Call :
          /\ call'[b].phase = "unused" <=> call'[b] = Unused
          /\ call'[b].kind = "none" <=> call'[b] = Unused
          /\ call'[b] # Unused => call'[b].flow[1] \in Call
          /\ call'[b].kind = "start" => call'[b].flow[1] = b
          /\ call'[b].kind = "resume" => view'.flow # NoId
          /\ (mounted' /\ call'[b].kind = "start" /\ (b # effect' \/ view'.flow = NoId))
                => call'[b].flow[2] = 1
    <3>1. ASSUME NEW b \in Call
          PROVE  /\ call[b].phase = "unused" <=> call[b] = Unused
                 /\ call[b].kind = "none" <=> call[b] = Unused
                 /\ call[b] # Unused => call[b].flow[1] \in Call
                 /\ call[b].kind = "start" => call[b].flow[1] = b
                 /\ call[b].kind = "resume" => view.flow # NoId
                 /\ (mounted /\ call[b].kind = "start" /\ (b # effect \/ view.flow = NoId))
                       => call[b].flow[2] = 1
      BY <1>3 DEF CallsKnowTheirFlow
    <3>2. \A b \in Call : b # c => call'[b] = call[b]
      BY <1>9
    <3>3. call'[c].kind = call[c].kind /\ call'[c].flow = call[c].flow
      BY <1>9
    <3>. QED
      BY <1>1, <2>1, <3>1, <3>2, <3>3
  <2>. QED
    BY <2>2, <2>3 DEF CallsKnowTheirFlow, shown
<1>14. \A b \in Call : (inFlight(b)' <=> inFlight(b)) /\ (counts(b)' <=> counts(b)) /\ (returns(b)' => returns(b))
  BY <1>1, <1>9 DEF inFlight, counts, returns
<1>15. ASSUME mounted, ~counts(c), NEW x, shown(x) PROVE x # id
  BY <1>1, <1>3, <1>15 DEF CallsKnowTheirFlow, ChainTypes, Kind, counts, shown, Unused
<1>16. ViewKnowsItsFlow'
  <2>. SUFFICES ASSUME mounted, view.flow # NoId
                PROVE  /\ shown(view.flow)'
                       /\ \/ view'.state = flowOf(view.flow)'.state
                          \/ view'.error
                          \/ \E b \in Call : inFlight(b)' /\ counts(b)'
    BY <1>1 DEF ViewKnowsItsFlow
  <2>1. shown(view.flow)
    BY <1>3 DEF ViewKnowsItsFlow
  <2>2. shown(view.flow)'
    BY <1>1, <1>12, <2>1 DEF shown
  <2>3. CASE counts(c)
    BY <1>1, <1>14, <2>2, <2>3 DEF inFlight
  <2>4. CASE ~counts(c)
    <3>1. view.flow # id
      BY <1>15, <2>1, <2>4
    <3>2. flowOf(view.flow)' = flowOf(view.flow)
      BY <1>1, <1>3, <1>8, <2>1, <3>1 DEF shown, flowOf, ChainTypes
    <3>. QED
      BY <1>1, <1>3, <1>14, <2>2, <3>2 DEF ViewKnowsItsFlow
  <2>. QED
    BY <2>3, <2>4
<1>17. LoadingIsOwed'
  <2>1. call[1] # Unused \/ call'[1] = Unused
    BY <1>1, <1>9, ChainAssumption DEF Call, Unused
  <2>. QED
    BY <1>1, <1>3, <1>14, <2>1 DEF LoadingIsOwed
<1>18. Ordered' <=> Ordered
  BY <1>1 DEF Ordered
<1>19. OneAtATime'
  BY <1>14, <1>18 DEF OrderInv, OneAtATime
<1>20. CallsFollowTheIndex'
  BY <1>1, <1>11, <1>14, <1>18 DEF OrderInv, CallsFollowTheIndex
<1>21. OriginsAreShown'
  BY <1>1, <1>12, <1>18 DEF OrderInv, OriginsAreShown, shown
<1>22. ASSUME Ordered, counts(c) PROVE id[2] = stepIndex
  BY <1>1, <1>22 DEF OrderInv, CallsFollowTheIndex, returns
<1>23. EnteredInOrder'
  <2>. SUFFICES ASSUME Ordered, NEW s \in 2 .. stepIndex
                PROVE  /\ origin[s] # NoId /\ origin[s][2] = s - 1
                       /\ flowOf(origin[s])'.ended /\ flowOf(origin[s])'.state \in steps[s]
    BY <1>1 DEF EnteredInOrder, Ordered
  <2>1. /\ origin[s] # NoId /\ origin[s][2] = s - 1 /\ shown(origin[s])
        /\ flowOf(origin[s]).ended /\ flowOf(origin[s]).state \in steps[s]
    BY DEF OrderInv, EnteredInOrder, OriginsAreShown, Ordered
  <2>2. s \in Step /\ s - 1 # stepIndex
    BY <1>3, Steps DEF ChainTypes
  <2>3. origin[s] # id
    BY <1>15, <1>22, <2>1, <2>2 DEF Ordered
  <2>4. flowOf(origin[s])' = flowOf(origin[s])
    BY <1>1, <1>3, <1>8, <2>1, <2>2, <2>3 DEF ChainTypes, shown, flowOf
  <2>. QED
    BY <2>1, <2>4
<1>24. ASSUME Ordered, view.flow # NoId, view.flow # id PROVE flowOf(view.flow)' = flowOf(view.flow)
  BY <1>1, <1>3, <1>8, <1>24 DEF ViewKnowsItsFlow, Ordered, shown, flowOf, ChainTypes
<1>25. ViewFollowsTheIndex'
  <2>. SUFFICES ASSUME Ordered, view.flow # NoId
                PROVE  view.flow[2] = stepIndex \/ (view.flow[2] = stepIndex - 1 /\ flowOf(view.flow)'.ended)
    BY <1>1, <1>18 DEF ViewFollowsTheIndex
  <2>1. shown(view.flow)
    BY <1>3 DEF ViewKnowsItsFlow, Ordered
  <2>. QED
    BY <1>15, <1>22, <1>24, <2>1 DEF OrderInv, ViewFollowsTheIndex, Ordered
<1>26. WorksOrRests'
  <2>. SUFFICES ASSUME Ordered, view.flow # NoId
                PROVE  \/ \E b \in Call : inFlight(b) /\ counts(b)
                       \/ view.error
                       \/ Resting'
    BY <1>1, <1>14, <1>18 DEF WorksOrRests
  <2>1. CASE counts(c)
    BY <1>1, <2>1 DEF inFlight
  <2>2. CASE ~counts(c)
    <3>1. shown(view.flow)
      BY <1>3 DEF ViewKnowsItsFlow, Ordered
    <3>2. flowOf(view.flow)' = flowOf(view.flow)
      BY <1>15, <1>24, <2>2, <3>1 DEF Ordered
    <3>3. Resting => Resting'
      BY <1>1, <3>2 DEF Resting
    <3>. QED
      BY <3>3 DEF OrderInv, WorksOrRests
  <2>. QED
    BY <2>1, <2>2
<1>. QED
  BY <1>10, <1>13, <1>16, <1>17, <1>19, <1>20, <1>21, <1>23, <1>25, <1>26 DEF ShowInv, OrderInv

(* A call that is over leaves the other calls and the order as they are.   *)
LEMMA CallEnds ==
    ASSUME ShowInv, OrderInv, NEW c \in Call, inFlight(c),
           call' = [call EXCEPT ![c].phase = "done"],
           UNCHANGED <<steps, stepIndex, flows, effect, mounted, overlapped, origin>>,
           view' \in [flow: FlowId, state: State, error: BOOLEAN, loading: BOOLEAN],
           view'.flow = view.flow \/ (view.flow # NoId /\ view'.flow # NoId)
             \/ (counts(c) /\ view'.flow # NoId)
    PROVE  /\ ChainTypes' /\ CallsKnowTheirFlow'
           /\ OneAtATime' /\ CallsFollowTheIndex' /\ EnteredInOrder' /\ OriginsAreShown'
<1>1. ChainTypes /\ CallsKnowTheirFlow
  BY DEF ShowInv
<1>2. Step' = Step /\ FlowId' = FlowId
  BY DEF Step, FlowId
<1>3. /\ call'[c] = [kind |-> call[c].kind, phase |-> "done", flow |-> call[c].flow]
      /\ \A b \in Call : b # c => call'[b] = call[b]
      /\ call' \in [Call -> [kind: Kind, phase: Phase, flow: FlowId]]
  BY <1>1, PhaseChange DEF Phase
<1>4. \A b \in Call : call'[b].kind = call[b].kind /\ call'[b].flow = call[b].flow
  BY <1>3
<1>5. ChainTypes'
  BY <1>1, <1>2, <1>3 DEF ChainTypes
<1>6. ASSUME NEW x PROVE (x[1] \in Call /\ (call'[x[1]].kind = "resume" \/ x[1] = effect')) <=> shown(x)
  BY <1>4 DEF shown
<1>7. \A b \in Call : (inFlight(b)' => inFlight(b)) /\ (counts(b)' <=> counts(b)) /\ (returns(b)' => returns(b))
  BY <1>3 DEF inFlight, counts, returns
<1>8. CallsKnowTheirFlow'
  <2>1. call[c] # Unused /\ call'[c] # Unused /\ call'[c].phase = "done" /\ call[c].kind # "none"
    <3>1. call[c] # Unused
      BY DEF inFlight, Unused
    <3>2. call'[c].phase = "done"
      BY <1>3
    <3>. QED
      BY <1>1, <3>1, <3>2 DEF Unused, CallsKnowTheirFlow
  <2>2. ASSUME NEW b \in Call, mounted', call'[b].kind = "resume"
        PROVE  call'[b].flow[1] \in Call
               /\ (call'[call'[b].flow[1]].kind = "resume" \/ call'[b].flow[1] = effect')
    <3>1. shown(call'[b].flow)
      BY <1>1, <1>4, <2>2 DEF CallsKnowTheirFlow
    <3>. QED
      BY <1>6, <3>1
  <2>3. ASSUME NEW b \in Call
        PROVE  /\ call'[b].phase = "unused" <=> call'[b] = Unused
               /\ call'[b].kind = "none" <=> call'[b] = Unused
               /\ call'[b] # Unused => call'[b].flow[1] \in Call
               /\ call'[b].kind = "start" => call'[b].flow[1] = b
    <3>1. /\ call[b].phase = "unused" <=> call[b] = Unused
          /\ call[b].kind = "none" <=> call[b] = Unused
          /\ call[b] # Unused => call[b].flow[1] \in Call
          /\ call[b].kind = "start" => call[b].flow[1] = b
      BY <1>1 DEF CallsKnowTheirFlow
    <3>2. CASE b = c
      BY <1>4, <2>1, <3>1, <3>2
    <3>3. CASE b # c
      BY <1>3, <3>1, <3>3
    <3>. QED
      BY <3>2, <3>3
  <2>4. ASSUME NEW b \in Call
        PROVE  /\ call'[b].kind = "resume" => view'.flow # NoId
               /\ (mounted' /\ call'[b].kind = "start" /\ (b # effect' \/ view'.flow = NoId))
                    => call'[b].flow[2] = 1
    <3>1. /\ call[b].kind = "resume" => view.flow # NoId
          /\ (mounted /\ call[b].kind = "start" /\ (b # effect \/ view.flow = NoId))
                       => call[b].flow[2] = 1
      BY <1>1 DEF CallsKnowTheirFlow
    <3>. QED
      BY <1>4, <3>1
  <2>. QED
    BY <2>2, <2>3, <2>4 DEF CallsKnowTheirFlow, shown
<1>9. OneAtATime'
  BY <1>7 DEF OrderInv, OneAtATime, Ordered
<1>10. CallsFollowTheIndex'
  BY <1>4, <1>7 DEF OrderInv, CallsFollowTheIndex, Ordered
<1>11. EnteredInOrder'
  BY DEF OrderInv, EnteredInOrder, flowOf
<1>12. OriginsAreShown'
  BY <1>6 DEF OrderInv, OriginsAreShown, Ordered, shown
<1>. QED
  BY <1>5, <1>8, <1>9, <1>10, <1>11, <1>12

LEMMA ThrowKeeps ==
    ASSUME ShowInv, OrderInv, NEW c \in Call, Throw(c)
    PROVE  ShowInv' /\ OrderInv'
<1>1. /\ inFlight(c) /\ call' = [call EXCEPT ![c].phase = "done"]
      /\ view' = IF counts(c) THEN [view EXCEPT !.error = TRUE, !.loading = FALSE] ELSE view
      /\ UNCHANGED <<steps, stepIndex, flows, effect, mounted, overlapped, origin>>
  BY DEF Throw
<1>2. ChainTypes /\ ViewKnowsItsFlow /\ LoadingIsOwed
  BY DEF ShowInv
<1>3. /\ view' \in [flow: FlowId, state: State, error: BOOLEAN, loading: BOOLEAN]
      /\ view'.flow = view.flow /\ view'.state = view.state
      /\ counts(c) => view'.error = TRUE /\ view'.loading = FALSE
  BY <1>1, <1>2 DEF ChainTypes
<1>4. /\ ChainTypes' /\ CallsKnowTheirFlow'
      /\ OneAtATime' /\ CallsFollowTheIndex' /\ EnteredInOrder' /\ OriginsAreShown'
  BY <1>1, <1>3, CallEnds
<1>5. /\ call'[c] = [kind |-> call[c].kind, phase |-> "done", flow |-> call[c].flow]
      /\ \A b \in Call : b # c => call'[b] = call[b]
  BY <1>1, <1>2, PhaseChange DEF Phase
<1>6. \A b \in Call : call'[b].kind = call[b].kind
  BY <1>5
<1>7. \A b \in Call : counts(b)' <=> counts(b)
  BY <1>1, <1>6 DEF counts
<1>8. \A b \in Call : b # c => (inFlight(b)' <=> inFlight(b))
  BY <1>5 DEF inFlight
<1>9. flowOf(view.flow)' = flowOf(view.flow)
  BY <1>1, <1>3 DEF flowOf
<1>10. ViewKnowsItsFlow'
  <2>. SUFFICES ASSUME mounted, view.flow # NoId, ~counts(c)
                PROVE  /\ shown(view.flow)'
                       /\ \/ view'.state = flowOf(view.flow)'.state
                          \/ view'.error
                          \/ \E b \in Call : inFlight(b)' /\ counts(b)'
    BY <1>1, <1>2, <1>3, <1>6 DEF ViewKnowsItsFlow, shown
  <2>1. shown(view.flow)'
    BY <1>1, <1>2, <1>3, <1>6 DEF ViewKnowsItsFlow, shown
  <2>2. (\E b \in Call : inFlight(b) /\ counts(b)) => \E b \in Call : inFlight(b)' /\ counts(b)'
    BY <1>7, <1>8
  <2>. QED
    BY <1>1, <1>2, <1>9, <2>1, <2>2 DEF ViewKnowsItsFlow
<1>11. LoadingIsOwed'
  <2>. SUFFICES ASSUME mounted, call'[1] # Unused, view'.loading, ~counts(c)
                PROVE  \E b \in Call : inFlight(b)' /\ counts(b)'
    BY <1>1, <1>3 DEF LoadingIsOwed
  <2>1. view' = view
    BY <1>1
  <2>2. call[1] # Unused
    <3>1. 1 \in Call
      BY ChainAssumption DEF Call
    <3>2. CASE c = 1
      BY <1>1, <3>2 DEF inFlight, Unused
    <3>3. CASE c # 1
      BY <1>5, <3>1, <3>3
    <3>. QED
      BY <3>2, <3>3
  <2>3. PICK b \in Call : inFlight(b) /\ counts(b)
    BY <1>2, <2>1, <2>2 DEF LoadingIsOwed
  <2>. QED
    BY <1>7, <1>8, <2>3
<1>12. ViewFollowsTheIndex'
  BY <1>1, <1>3, <1>9 DEF OrderInv, ViewFollowsTheIndex, Ordered
<1>13. WorksOrRests'
  <2>1. CASE counts(c)
    BY <1>3, <2>1 DEF WorksOrRests
  <2>2. CASE ~counts(c)
    <3>1. view' = view
      BY <1>1, <2>2
    <3>2. Resting => Resting'
      BY <1>1, <1>9, <3>1 DEF Resting
    <3>3. (\E b \in Call : inFlight(b) /\ counts(b)) => \E b \in Call : inFlight(b)' /\ counts(b)'
      BY <1>7, <1>8, <2>2
    <3>. QED
      BY <1>1, <3>1, <3>2, <3>3 DEF OrderInv, WorksOrRests, Ordered
  <2>. QED
    BY <2>1, <2>2
<1>. QED
  BY <1>4, <1>10, <1>11, <1>12, <1>13 DEF ShowInv, OrderInv

(* The last answer: the flow is shown, and no step wants it any more.      *)
LEMMA ReturnKeeps ==
    ASSUME ShowInv, OrderInv, NEW c \in Call, Return(c), ~advances(c, call[c].flow)
    PROVE  ShowInv' /\ OrderInv'
<1>. DEFINE id == call[c].flow
<1>1. /\ call[c].phase \in {"running", "moved"} /\ call' = [call EXCEPT ![c].phase = "done"]
      /\ view' = IF counts(c) THEN [syncFromInstance(view, id) EXCEPT !.loading = FALSE] ELSE view
      /\ UNCHANGED <<steps, stepIndex, flows, effect, mounted, overlapped, origin>>
  BY DEF Return, returns
<1>2. ChainTypes /\ CallsKnowTheirFlow /\ ViewKnowsItsFlow /\ LoadingIsOwed
  BY DEF ShowInv
<1>3. /\ id \in FlowId /\ id[1] \in Call /\ id[2] \in Step /\ flowOf(id) \in [state: State, ended: BOOLEAN]
  <2>1. id \in FlowId /\ id[1] \in Call
    BY <1>1, <1>2 DEF ChainTypes, CallsKnowTheirFlow, Unused
  <2>2. id[2] \in Step
    BY <2>1 DEF FlowId
  <2>. QED
    BY <1>2, <2>1, <2>2 DEF ChainTypes, flowOf
<1>4. id # NoId
  BY <1>3, ChainAssumption DEF NoId, Call
<1>5. /\ view' \in [flow: FlowId, state: State, error: BOOLEAN, loading: BOOLEAN]
      /\ counts(c) => view'.flow = id /\ view'.state = flowOf(id).state /\ view'.loading = FALSE
      /\ ~counts(c) => view' = view
  BY <1>1, <1>2, <1>3 DEF ChainTypes, syncFromInstance
<1>6. /\ ChainTypes' /\ CallsKnowTheirFlow'
      /\ OneAtATime' /\ CallsFollowTheIndex' /\ EnteredInOrder' /\ OriginsAreShown'
  BY <1>1, <1>4, <1>5, CallEnds DEF inFlight
<1>7. /\ call'[c] = [kind |-> call[c].kind, phase |-> "done", flow |-> id]
      /\ \A b \in Call : b # c => call'[b] = call[b]
  BY <1>1, <1>2, PhaseChange DEF Phase
<1>8. \A b \in Call : call'[b].kind = call[b].kind
  BY <1>7
<1>9. \A b \in Call : counts(b)' <=> counts(b)
  BY <1>1, <1>8 DEF counts
<1>10. \A b \in Call : b # c => (inFlight(b)' <=> inFlight(b))
  BY <1>7 DEF inFlight
<1>11. ASSUME mounted, counts(c) PROVE shown(id)
  BY <1>1, <1>2, <1>3, <1>11 DEF CallsKnowTheirFlow, ChainTypes, Kind, counts, shown, Unused
<1>12. ASSUME mounted, ~counts(c) PROVE ~shown(id)
  BY <1>1, <1>2, <1>12 DEF CallsKnowTheirFlow, ChainTypes, Kind, counts, shown, Unused
<1>13. ViewKnowsItsFlow'
  <2>. SUFFICES ASSUME mounted, view'.flow # NoId
                PROVE  /\ shown(view.flow)'
                       /\ \/ view'.state = flowOf(view.flow)'.state
                          \/ view'.error
                          \/ \E b \in Call : inFlight(b)' /\ counts(b)'
    BY <1>1 DEF ViewKnowsItsFlow
  <2>1. CASE counts(c)
    <3>1. shown(view.flow)'
      BY <1>1, <1>5, <1>8, <1>11, <2>1 DEF shown
    <3>2. view'.state = flowOf(view.flow)'.state
      BY <1>1, <1>5, <2>1 DEF flowOf
    <3>. QED
      BY <3>1, <3>2
  <2>2. CASE ~counts(c)
    <3>1. view' = view /\ view.flow # NoId
      BY <1>5, <2>2
    <3>2. shown(view.flow)
      BY <1>2, <3>1 DEF ViewKnowsItsFlow
    <3>3. shown(view.flow)' /\ flowOf(view.flow)' = flowOf(view.flow)
      BY <1>1, <1>8, <3>1, <3>2 DEF shown, flowOf
    <3>4. (\E b \in Call : inFlight(b) /\ counts(b)) => \E b \in Call : inFlight(b)' /\ counts(b)'
      BY <1>9, <1>10, <2>2
    <3>. QED
      BY <1>1, <1>2, <3>1, <3>3, <3>4 DEF ViewKnowsItsFlow
  <2>. QED
    BY <2>1, <2>2
<1>14. LoadingIsOwed'
  <2>. SUFFICES ASSUME mounted, call'[1] # Unused, view'.loading, ~counts(c)
                PROVE  \E b \in Call : inFlight(b)' /\ counts(b)'
    BY <1>1, <1>5 DEF LoadingIsOwed
  <2>1. view' = view
    BY <1>5
  <2>2. call[1] # Unused
    <3>1. 1 \in Call
      BY ChainAssumption DEF Call
    <3>2. CASE c = 1
      BY <1>1, <3>2 DEF Unused
    <3>3. CASE c # 1
      BY <1>7, <3>1, <3>3
    <3>. QED
      BY <3>2, <3>3
  <2>3. PICK b \in Call : inFlight(b) /\ counts(b)
    BY <1>2, <2>1, <2>2 DEF LoadingIsOwed
  <2>. QED
    BY <1>9, <1>10, <2>3
<1>15. ASSUME Ordered, counts(c) PROVE id[2] = stepIndex
  BY <1>1, <1>15 DEF OrderInv, CallsFollowTheIndex, returns
<1>16. ViewFollowsTheIndex'
  <2>1. CASE counts(c)
    BY <1>1, <1>5, <1>15, <2>1 DEF ViewFollowsTheIndex, Ordered
  <2>2. CASE ~counts(c)
    <3>1. view' = view /\ flowOf(view.flow)' = flowOf(view.flow)
      BY <1>1, <1>5, <2>2 DEF flowOf
    <3>. QED
      BY <1>1, <3>1 DEF OrderInv, ViewFollowsTheIndex, Ordered
  <2>. QED
    BY <2>1, <2>2
<1>17. WorksOrRests'
  <2>1. CASE counts(c)
    <3>1. flowOf(view.flow)' = flowOf(id)
      BY <1>1, <1>5, <2>1 DEF flowOf
    <3>2. Len(steps) \in Nat /\ stepIndex \in 1 .. Len(steps)
      BY <1>2, Steps DEF ChainTypes
    <3>3. ~(flowOf(id).ended /\ stepIndex < Len(steps) /\ flowOf(id).state \in steps[stepIndex + 1])
      BY <2>1 DEF advances
    <3>4. ~flowOf(id).ended \/ stepIndex = Len(steps) \/ flowOf(id).state \notin steps[stepIndex + 1]
      BY <3>2, <3>3
    <3>5. Ordered => Resting'
      BY <1>1, <1>5, <1>15, <2>1, <3>1, <3>4 DEF Resting
    <3>. QED
      BY <1>1, <3>5 DEF WorksOrRests, Ordered
  <2>2. CASE ~counts(c)
    <3>1. view' = view /\ flowOf(view.flow)' = flowOf(view.flow)
      BY <1>1, <1>5, <2>2 DEF flowOf
    <3>2. Resting => Resting'
      BY <1>1, <3>1 DEF Resting
    <3>3. (\E b \in Call : inFlight(b) /\ counts(b)) => \E b \in Call : inFlight(b)' /\ counts(b)'
      BY <1>9, <1>10, <2>2
    <3>. QED
      BY <1>1, <3>1, <3>2, <3>3 DEF OrderInv, WorksOrRests, Ordered
  <2>. QED
    BY <2>1, <2>2
<1>. QED
  BY <1>6, <1>13, <1>14, <1>16, <1>17 DEF ShowInv, OrderInv

(* The call goes on with the next step's flow.                             *)
LEMMA NextStart ==
    ASSUME ChainTypes, NEW c \in Call, Return(c), advances(c, call[c].flow)
    PROVE  call' = [call EXCEPT ![c] = [kind |-> call[c].kind, phase |-> "running",
                                        flow |-> <<c, stepIndex + 1>>]]
<1>. DEFINE x == <<c, stepIndex + 1>>
            p == "running"
            a == [kind |-> call[c].kind, phase |-> p, flow |-> call[c].flow]
            m == [call EXCEPT ![c].phase = p]
<1>0. call' = [call EXCEPT ![c].phase = p, ![c].flow = x]
  BY DEF Return
<1>. HIDE DEF x, p
<1>1. call[c] = [kind |-> call[c].kind, phase |-> call[c].phase, flow |-> call[c].flow]
  BY DEF ChainTypes
<1>2. m = [call EXCEPT ![c] = a]
  <2>1. [call[c] EXCEPT !.phase = p] = a
    BY <1>1
  <2>. QED
    BY <2>1 DEF ChainTypes
<1>3. call' = [m EXCEPT ![c].flow = x]
  BY <1>0
<1>. HIDE DEF m
<1>4. m[c] = a
  BY <1>2 DEF ChainTypes
<1>5. [m EXCEPT ![c].flow = x] = [m EXCEPT ![c] = [a EXCEPT !.flow = x]]
  BY <1>4
<1>6. [a EXCEPT !.flow = x] = [kind |-> call[c].kind, phase |-> p, flow |-> x]
  OBVIOUS
<1>. HIDE DEF a
<1>7. [m EXCEPT ![c] = [a EXCEPT !.flow = x]] = [call EXCEPT ![c] = [a EXCEPT !.flow = x]]
  BY <1>2 DEF ChainTypes
<1>. QED
  BY <1>3, <1>5, <1>6, <1>7 DEF x, p

(* The index moves on, and the next step's flow is started.  Only a call   *)
(* that counts gets here while the component is mounted.                   *)
LEMMA AdvanceKeeps ==
    ASSUME ShowInv, OrderInv, NEW c \in Call, Return(c), advances(c, call[c].flow)
    PROVE  ShowInv' /\ OrderInv'
<1>. DEFINE id == call[c].flow
            k == [kind |-> call[c].kind, phase |-> "running", flow |-> <<c, stepIndex + 1>>]
<1>1. /\ call[c].phase \in {"running", "moved"} /\ stepIndex' = stepIndex + 1
      /\ call' = [call EXCEPT ![c].phase = "running", ![c].flow = <<c, stepIndex + 1>>]
      /\ view' = IF counts(c) THEN syncFromInstance(view, id) ELSE view
      /\ origin' = [origin EXCEPT ![stepIndex + 1] = id]
      /\ UNCHANGED <<steps, flows, effect, mounted, overlapped>>
  BY DEF Return, returns
<1>2. ChainTypes /\ CallsKnowTheirFlow /\ ViewKnowsItsFlow /\ LoadingIsOwed
  BY DEF ShowInv
<1>3. /\ Len(steps) \in Nat /\ stepIndex \in 1 .. Len(steps) /\ Step = 1 .. Len(steps)
      /\ stepIndex < Len(steps) /\ flowOf(id).ended /\ flowOf(id).state \in steps[stepIndex + 1]
  BY <1>2, Steps DEF ChainTypes, advances
<1>4. stepIndex + 1 \in Step /\ stepIndex + 1 # 1
  BY <1>3
<1>5. Step' = Step /\ FlowId' = FlowId
  BY <1>1 DEF Step, FlowId
<1>6. /\ id \in FlowId /\ id[1] \in Call /\ id[2] \in Step /\ flowOf(id) \in [state: State, ended: BOOLEAN]
  <2>1. id \in FlowId /\ id[1] \in Call
    BY <1>1, <1>2 DEF ChainTypes, CallsKnowTheirFlow, Unused
  <2>2. id[2] \in Step
    BY <2>1 DEF FlowId
  <2>. QED
    BY <1>2, <2>1, <2>2 DEF ChainTypes, flowOf
<1>7. id # NoId
  BY <1>6, ChainAssumption DEF NoId, Call
<1>8. mounted => counts(c)
  BY <1>1, <1>2 DEF CallsKnowTheirFlow, ChainTypes, Kind, counts, advances, Unused
<1>9. mounted => shown(id)
  BY <1>1, <1>2, <1>6, <1>8 DEF CallsKnowTheirFlow, ChainTypes, Kind, counts, shown, Unused
<1>10. /\ view' \in [flow: FlowId, state: State, error: BOOLEAN, loading: BOOLEAN]
       /\ mounted => view'.flow = id /\ view'.state = flowOf(id).state
       /\ ~mounted => view' = view
  BY <1>1, <1>2, <1>6, <1>8 DEF ChainTypes, syncFromInstance, counts
<1>11. call[c] \in [kind: Kind, phase: Phase, flow: FlowId]
  BY <1>2 DEF ChainTypes
<1>12. k \in [kind: Kind, phase: Phase, flow: FlowId]
  BY <1>4, <1>11 DEF Phase, FlowId
<1>13. call' = [call EXCEPT ![c] = k]
  BY <1>2, NextStart
<1>14. call'[c] = k /\ \A b \in Call : b # c => call'[b] = call[b]
  BY <1>2, <1>13, CallChange
<1>15. ChainTypes'
  <2>1. call' \in [Call -> [kind: Kind, phase: Phase, flow: FlowId]]
    BY <1>2, <1>12, <1>13 DEF ChainTypes
  <2>2. origin' \in [Step -> FlowId]
    BY <1>1, <1>2, <1>4, <1>6 DEF ChainTypes
  <2>. QED
    BY <1>1, <1>2, <1>4, <1>5, <1>10, <2>1, <2>2 DEF ChainTypes
<1>16. \A b \in Call : call'[b].kind = call[b].kind
  BY <1>14
<1>17. ASSUME NEW x PROVE (x[1] \in Call /\ (call'[x[1]].kind = "resume" \/ x[1] = effect')) <=> shown(x)
  BY <1>1, <1>16 DEF shown
<1>18. \A b \in Call : (inFlight(b)' <=> inFlight(b)) /\ (counts(b)' <=> counts(b)) /\ (returns(b)' <=> returns(b))
  <2>1. \A b \in Call : counts(b)' <=> counts(b)
    BY <1>1, <1>16 DEF counts
  <2>2. returns(c) /\ inFlight(c) /\ returns(c)' /\ inFlight(c)'
    BY <1>1, <1>14 DEF inFlight, returns
  <2>3. \A b \in Call : b # c => (inFlight(b)' <=> inFlight(b)) /\ (returns(b)' <=> returns(b))
    BY <1>14 DEF inFlight, returns
  <2>. QED
    BY <2>1, <2>2, <2>3
<1>19. inFlight(c)'
  BY <1>14 DEF inFlight
<1>20. CallsKnowTheirFlow'
  <2>1. call[c] # Unused /\ call'[c] # Unused /\ call'[c].phase = "running" /\ call[c].kind # "none"
    <3>1. call[c] # Unused
      BY <1>1 DEF Unused
    <3>2. call'[c].phase = "running"
      BY <1>14
    <3>. QED
      BY <1>2, <3>1, <3>2 DEF Unused, CallsKnowTheirFlow
  <2>2. ASSUME NEW b \in Call, mounted', call'[b].kind = "resume"
        PROVE  call'[b].flow[1] \in Call
               /\ (call'[call'[b].flow[1]].kind = "resume" \/ call'[b].flow[1] = effect')
    <3>1. CASE b = c
      BY <1>14, <2>2, <3>1
    <3>2. CASE b # c
      <4>1. shown(call'[b].flow)
        BY <1>1, <1>2, <1>14, <2>2, <3>2 DEF CallsKnowTheirFlow
      <4>. QED
        BY <1>17, <4>1
    <3>. QED
      BY <3>1, <3>2
  <2>3. ASSUME NEW b \in Call
        PROVE  /\ call'[b].phase = "unused" <=> call'[b] = Unused
               /\ call'[b].kind = "none" <=> call'[b] = Unused
               /\ call'[b] # Unused => call'[b].flow[1] \in Call
               /\ call'[b].kind = "start" => call'[b].flow[1] = b
    <3>1. /\ call[b].phase = "unused" <=> call[b] = Unused
          /\ call[b].kind = "none" <=> call[b] = Unused
          /\ call[b] # Unused => call[b].flow[1] \in Call
          /\ call[b].kind = "start" => call[b].flow[1] = b
      BY <1>2 DEF CallsKnowTheirFlow
    <3>2. CASE b = c
      BY <1>14, <2>1, <3>2
    <3>3. CASE b # c
      BY <1>14, <3>1, <3>3
    <3>. QED
      BY <3>2, <3>3
  <2>4. view.flow # NoId => view'.flow # NoId
    BY <1>1, <1>7, <1>10
  <2>5. ASSUME NEW b \in Call
        PROVE  /\ call'[b].kind = "resume" => view'.flow # NoId
               /\ (mounted' /\ call'[b].kind = "start" /\ (b # effect' \/ view'.flow = NoId))
                    => call'[b].flow[2] = 1
    <3>1. /\ call[b].kind = "resume" => view.flow # NoId
          /\ (mounted /\ call[b].kind = "start" /\ (b # effect \/ view.flow = NoId))
                       => call[b].flow[2] = 1
      BY <1>2 DEF CallsKnowTheirFlow
    <3>2. call'[b].kind = "resume" => view'.flow # NoId
      BY <1>16, <2>4, <3>1
    <3>3. ASSUME mounted, call[b].kind = "start", b # effect PROVE b # c
      BY <1>8, <3>3 DEF counts
    <3>4. mounted => view'.flow # NoId
      BY <1>7, <1>10
    <3>. QED
      BY <1>1, <1>14, <1>16, <3>1, <3>2, <3>3, <3>4
  <2>. QED
    BY <2>2, <2>3, <2>5 DEF CallsKnowTheirFlow, shown
<1>22. mounted => flowOf(view.flow)' = flowOf(id)
  BY <1>1, <1>10 DEF flowOf
<1>23. ViewKnowsItsFlow'
  <2>1. mounted => shown(view.flow)'
    BY <1>9, <1>10, <1>17 DEF shown
  <2>. QED
    BY <1>1, <1>10, <1>22, <2>1 DEF ViewKnowsItsFlow
<1>24. mounted => counts(c)'
  BY <1>8, <1>18
<1>25. LoadingIsOwed'
  BY <1>1, <1>19, <1>24 DEF LoadingIsOwed
<1>26. Ordered' <=> Ordered
  BY <1>1 DEF Ordered
<1>27. OneAtATime'
  BY <1>18, <1>26 DEF OrderInv, OneAtATime
<1>28. ASSUME Ordered PROVE id[2] = stepIndex
  BY <1>1, <1>8, <1>28 DEF OrderInv, CallsFollowTheIndex, returns, Ordered
<1>29. CallsFollowTheIndex'
  <2>. SUFFICES ASSUME Ordered, NEW b \in Call, returns(b)', counts(b)'
                PROVE  call'[b].flow[2] = stepIndex'
    BY <1>26 DEF CallsFollowTheIndex
  <2>1. inFlight(b) /\ counts(b) /\ inFlight(c) /\ counts(c)
    BY <1>8, <1>18, <1>19 DEF returns, inFlight, Ordered
  <2>2. b = c
    BY <2>1 DEF OrderInv, OneAtATime
  <2>. QED
    BY <1>1, <1>14, <2>2
<1>30. ASSUME NEW s \in 2 .. stepIndex'
       PROVE  s \in Step /\ (s = stepIndex + 1 => origin'[s] = id)
              /\ (s # stepIndex + 1 => s \in 2 .. stepIndex /\ origin'[s] = origin[s])
  <2>1. s \in Step
    BY <1>1, <1>3
  <2>. QED
    BY <1>1, <1>2, <1>3, <2>1 DEF ChainTypes
<1>31. EnteredInOrder'
  <2>. SUFFICES ASSUME Ordered, NEW s \in 2 .. stepIndex'
                PROVE  /\ origin'[s] # NoId /\ origin'[s][2] = s - 1
                       /\ flowOf(origin[s])'.ended /\ flowOf(origin[s])'.state \in steps[s]
    BY <1>1 DEF EnteredInOrder, Ordered
  <2>1. CASE s = stepIndex + 1
    <3>1. origin'[s] = id
      BY <1>30, <2>1
    <3>2. flowOf(origin[s])' = flowOf(id)
      BY <1>1, <3>1 DEF flowOf
    <3>. QED
      BY <1>3, <1>7, <1>28, <2>1, <3>1, <3>2
  <2>2. CASE s # stepIndex + 1
    <3>1. s \in 2 .. stepIndex /\ origin'[s] = origin[s]
      BY <1>30, <2>2
    <3>2. flowOf(origin[s])' = flowOf(origin[s])
      BY <1>1, <3>1 DEF flowOf
    <3>. QED
      BY <3>1, <3>2 DEF OrderInv, EnteredInOrder, Ordered
  <2>. QED
    BY <2>1, <2>2
<1>32. OriginsAreShown'
  <2>. SUFFICES ASSUME Ordered, NEW s \in 2 .. stepIndex' PROVE shown(origin[s])'
    BY <1>26 DEF OriginsAreShown
  <2>1. shown(origin'[s])
    BY <1>9, <1>30 DEF OrderInv, OriginsAreShown, Ordered
  <2>. QED
    BY <1>17, <2>1 DEF shown
<1>33. ViewFollowsTheIndex'
  <2>. SUFFICES ASSUME Ordered
                PROVE  view'.flow[2] = stepIndex' - 1 /\ flowOf(view.flow)'.ended
    BY <1>26 DEF ViewFollowsTheIndex
  <2>. QED
    BY <1>1, <1>3, <1>10, <1>22, <1>28 DEF Ordered
<1>34. WorksOrRests'
  BY <1>1, <1>19, <1>24 DEF WorksOrRests, Ordered
<1>. QED
  BY <1>15, <1>20, <1>23, <1>25, <1>27, <1>29, <1>31, <1>32, <1>33, <1>34 DEF ShowInv, OrderInv

LEMMA ChainInvariant == Spec => [](ShowInv /\ OrderInv)
<1>1. ShowInv /\ OrderInv /\ [Next]_vars => ShowInv' /\ OrderInv'
  <2>. SUFFICES ASSUME ShowInv, OrderInv, [Next]_vars PROVE ShowInv' /\ OrderInv'
    OBVIOUS
  <2>1. ASSUME NEW c \in Call, Return(c) PROVE ShowInv' /\ OrderInv'
    BY <2>1, ReturnKeeps, AdvanceKeeps
  <2>2. CASE UNCHANGED vars
    <3>1. ShowInv'
      BY <2>2 DEF vars, ShowInv, ChainTypes, CallsKnowTheirFlow, ViewKnowsItsFlow, LoadingIsOwed,
                  shown, inFlight, counts, flowOf, FlowId, Step
    <3>2. OrderInv'
      BY <2>2 DEF vars, OrderInv, OneAtATime, CallsFollowTheIndex, EnteredInOrder, OriginsAreShown,
                  ViewFollowsTheIndex, WorksOrRests, Ordered, Resting, returns,
                  shown, inFlight, counts, flowOf
    <3>. QED
      BY <3>1, <3>2
  <2>. QED
    BY <2>1, <2>2, RunEffectKeeps, ResumeKeeps, MoveKeeps, ThrowKeeps, UnmountKeeps DEF Next
<1>. QED
  BY <1>1, InitChain, PTL DEF Spec

(* What a component that has nothing under way shows is true: whichever    *)
(* calls it made, over a run of the effect that strict mode cancels and    *)
(* answers in any order, it shows its flow as the engine has it, no        *)
(* loading flag stays behind, and a cancelled start's flow is never shown  *)
(* (use-flow-chain.ts, syncFromInstance and the setters around each call). *)
THEOREM ViewIsTrue == Spec => []QuietViewIsTrue
<1>1. ShowInv => QuietViewIsTrue
  <2>. SUFFICES ASSUME ShowInv PROVE QuietViewIsTrue
    OBVIOUS
  <2>1. (Quiet /\ view.flow # NoId) => view.state = flowOf(view.flow).state \/ view.error
    BY DEF ShowInv, ViewKnowsItsFlow, Quiet
  <2>2. (Quiet /\ call[1] # Unused) => ~view.loading
    BY DEF ShowInv, LoadingIsOwed, Quiet
  <2>3. (mounted /\ view.flow # NoId) => call[view.flow[1]].kind = "resume" \/ view.flow[1] = effect
    BY DEF ShowInv, ViewKnowsItsFlow, shown
  <2>. QED
    BY <2>1, <2>2, <2>3 DEF QuietViewIsTrue
<1>. QED
  BY <1>1, ChainInvariant, PTL

(* tryAdvance takes the steps of a chain of any length one after another:  *)
(* as long as the component makes one call at a time, each step is entered *)
(* from the end of the flow before it, in a state its condition accepts,   *)
(* and a chain at rest stands at a flow that is open or that no next step  *)
(* wants (use-flow-chain.ts, tryAdvance and stepIndexRef).                 *)
THEOREM ChainInOrder == Spec => []StepsInOrder
<1>1. ShowInv /\ OrderInv => StepsInOrder
  <2>. SUFFICES ASSUME ShowInv, OrderInv PROVE StepsInOrder
    OBVIOUS
  <2>1. RestsAtItsStep
    <3>. SUFFICES ASSUME Quiet, ~overlapped, ~view.error, view.flow # NoId PROVE Resting
      BY DEF RestsAtItsStep, Resting
    <3>. QED
      BY DEF OrderInv, WorksOrRests, Ordered, Quiet
  <2>. QED
    BY <2>1 DEF OrderInv, StepsInOrder
<1>. QED
  BY <1>1, ChainInvariant, PTL
=============================================================================
