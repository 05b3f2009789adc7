-------------------------- MODULE FlowEngineProofs --------------------------
(***************************************************************************)
(* For every set of definitions build() accepts, every number of flows and *)
(* calls and every maxChainDepth: if callers serialise their calls, the    *)
(* engine keeps TypeOK and ExitConsistent, a failed step leaves no data    *)
(* behind in a flow without sub-flows, and seen from outside a flow lives  *)
(* as FlowLifecycle says: a completed flow is over, the retries of guards  *)
(* are bounded, the log ends where the instance is and strict mode keeps   *)
(* its word.  No flow is stranded, if its definition meets Delivers.  If   *)
(* callers do not, the log is one path all the same, and a bound on the    *)
(* retries is left.                                                        *)
(*                                                                         *)
(* The argument follows the model: what an operator does to one instance,  *)
(* to a run, and what a step of a call does to the state.  For the data,   *)
(* the second part: between two awaits a flow's data is accounted for by   *)
(* the steps it has taken.  While a processor of an external transition    *)
(* runs, the snapshot is, and beside it there is only what the guard gave. *)
(* The third part follows a step of a call from the answer of user code    *)
(* through one turn of the auto-chain to the run that is written back;     *)
(* Lives says what it made of the root.  The fourth part is about the      *)
(* definitions along which a chain never ends in a state no event can      *)
(* leave: DeliverInv says what a call under way has left of its turns, and *)
(* that every parent can go on once its sub-flow has ended.  The last part *)
(* is about calls that overlap, on flows without sub-flows: Eased says     *)
(* what a turn that rejects nothing leaves of the room for rejections.     *)
(***************************************************************************)
EXTENDS FlowEngineProperties, SequenceTheorems, FiniteSetTheorems, WellFoundedInduction, TLAPS

-----------------------------------------------------------------------------
(* Definitions.                                                            *)

(* Array.prototype.find, as First models it, returns an element that       *)
(* passes the test.                                                        *)
LEMMA FirstIn ==
    ASSUME NEW I, I \subseteq Nat, I # {}
    PROVE  First(I) \in I
<1>2. \A i, j \in Nat : j < i => <<j, i>> \in OpToRel(<, Nat) BY DEF OpToRel
<1>3. \A i, j \in Nat : ~(j < i) => i <= j OBVIOUS
<1>4. \E i \in I : \A j \in I : i <= j
  BY NatLessThanWellFounded, WFMin, <1>2, <1>3
<1>. QED BY <1>4 DEF First

(* The parts of a definition have their types.                             *)
LEMMA DefinitionType ==
    ASSUME NEW x \in Instance
    PROVE  /\ definitionOf(x) \in Definition
           /\ DOMAIN definitionOf(x).transitions \subseteq Nat
           /\ \A i \in DOMAIN definitionOf(x).transitions :
                 definitionOf(x).transitions[i] \in Transition
<1>1. definitionOf(x) \in Definition BY DefAssumption DEF definitionOf, Instance
<1>. QED
  BY <1>1, LenProperties, ElementOfSeq DEF Definition

(* An error route leads to a state or nowhere.                             *)
LEMMA ErrorTargetType ==
    ASSUME NEW x \in Instance, NEW s \in State, NEW cause
    PROVE  ErrorTarget(definitionOf(x), s, cause) \in State \cup {None}
<1>. DEFINE d == definitionOf(x)
            M == {i \in DOMAIN d.routes : /\ d.routes[i].from = s
                                          /\ cause # None
                                          /\ <<cause, d.routes[i].class>> \in InstanceOf}
            R == [from: State, class: ErrorClass, to: State]
<1>1. d.routes \in Seq(R) /\ d.onError \in [State -> State \cup {None}]
  BY DefinitionType DEF Definition
<1>2. CASE M = {} BY <1>1, <1>2 DEF ErrorTarget
<1>3. CASE M # {}
  <2>1. DOMAIN d.routes = 1 .. Len(d.routes) /\ Len(d.routes) \in Nat BY <1>1, LenProperties
  <2>2. M \subseteq Nat BY <2>1
  <2>3. First(M) \in M BY <1>3, <2>2, FirstIn
  <2>4. d.routes[First(M)] \in R BY <1>1, <2>1, <2>3, ElementOfSeq
  <2>. QED BY <1>3, <2>4 DEF ErrorTarget
<1>. QED BY <1>2, <1>3

-----------------------------------------------------------------------------
(* Instances.                                                              *)

(* The constructor makes an open instance.                                 *)
LEMMA NewInstanceType ==
    ASSUME NEW n \in DefName, NEW t \in Nat
    PROVE  NewInstance(n, t) \in Instance /\ Unfinished(NewInstance(n, t))
<1>. QED
  BY DefAssumption DEF NewInstance, Instance, LogRecord, Unfinished, Definition

(* Moving an instance, actions throwing or not, keeps its definition and   *)
(* its exit.                                                               *)
LEMMA MoveToType ==
    ASSUME NEW x \in Instance, NEW to \in State, NEW o \in {"ok", "enter", "exit"}, now \in Nat
    PROVE  /\ moveTo(x, to, o) \in Instance
           /\ moveTo(x, to, o).def = x.def
           /\ moveTo(x, to, o).exit = x.exit
BY DEF moveTo, transitionTo, recordTransition, Instance, LogRecord

(* handleError completes an instance under the name of the terminal state  *)
(* it goes to, or as TERMINAL_ERROR, or not at all.                        *)
LEMMA HandleErrorType ==
    ASSUME NEW x \in Instance, NEW s \in State, NEW cause, Unfinished(x), now \in Nat
    PROVE  /\ handleError(x, s, cause) \in Instance
           /\ handleError(x, s, cause).def = x.def
           /\ ExitOK(handleError(x, s, cause))
<1>. DEFINE target == ErrorTarget(definitionOf(x), s, cause)
            moved  == recordTransition(transitionTo(x, target, now), x.state, target)
<1>2. CASE target = None
  BY <1>2 DEF handleError, complete, Instance, Exit, ExitCode, ExitOK, Unfinished
<1>3. CASE target # None
  <2>0. target \in State
    BY ErrorTargetType, <1>3
  <2>1. /\ moved \in Instance /\ moved.def = x.def
        /\ moved.exit = x.exit /\ moved.state = target
    BY <2>0 DEF transitionTo, recordTransition, Instance, LogRecord
  <2>2. CASE target \in definitionOf(x).terminal
    BY <1>3, <2>2, <2>0, <2>1 DEF handleError, complete, Instance, Exit, ExitOK, isTerminal,
       definitionOf
  <2>3. CASE target \notin definitionOf(x).terminal
    BY <1>3, <2>3, <2>1 DEF handleError, ExitOK, Unfinished
  <2>. QED BY <2>2, <2>3
<1>. QED BY <1>2, <1>3

-----------------------------------------------------------------------------
(* Runs.                                                                   *)

(* The pieces of a run that a chain can go on with have their types.       *)
LEMMA ReadyType ==
    ASSUME NEW m, Ready(m)
    PROVE  /\ Level(m) \in Nat /\ Level(m) >= 1
           /\ Current(m) \in Instance /\ ExitOK(Current(m))
           /\ DOMAIN m.ins = 1 .. Len(m.ins) /\ Len(m.ins) \in Nat
           /\ \A i \in DOMAIN m.ins : m.ins[i] \in Instance
           /\ Len(m.call.depth) \in Nat
           /\ m.call.depth[Len(m.call.depth)] \in Nat
<1>1. m.ins \in Seq(Instance) /\ m.call \in Frame BY DEF Ready, RunType
<1>2. DOMAIN m.ins = 1 .. Len(m.ins) /\ Len(m.ins) \in Nat BY <1>1, LenProperties
<1>3. \A i \in DOMAIN m.ins : m.ins[i] \in Instance BY <1>1, <1>2, ElementOfSeq
<1>4. m.call.depth \in Seq(Nat) /\ m.call.base \in {1, 2} BY <1>1 DEF Frame
<1>5. Len(m.call.depth) \in Nat /\ Len(m.call.depth) >= 1 BY <1>4, LenProperties DEF Ready
<1>6. m.call.depth[Len(m.call.depth)] \in Nat BY <1>4, <1>5, ElementOfSeq
<1>. QED BY <1>2, <1>3, <1>4, <1>5, <1>6 DEF Ready, RunType, Level, Current

(* Replacing the current instance of a run replaces that and nothing else. *)
LEMMA SetCurrentType ==
    ASSUME NEW m, Ready(m), NEW x \in Instance, ExitOK(x)
    PROVE  /\ Ready(setCurrent(m, x))
           /\ Current(setCurrent(m, x)) = x
           /\ Level(setCurrent(m, x)) = Level(m)
           /\ setCurrent(m, x).call = m.call
           /\ setCurrent(m, x).ctx = m.ctx
<1>. DEFINE L == Level(m)
            s == [m.ins EXCEPT ![L] = x]
            n == setCurrent(m, x)
<1>1. m \in [ins: Seq(Instance), ctx: SUBSET Key, call: Frame] /\ L \in DOMAIN m.ins
  BY DEF Ready, RunType
<1>2. n = [m EXCEPT !.ins = s] BY DEF setCurrent
<1>3. n.call = m.call /\ n.ctx = m.ctx /\ n.ins = s BY <1>1, <1>2
<1>4. /\ s \in Seq(Instance) /\ DOMAIN s = DOMAIN m.ins
      /\ s[L] = x /\ \A i \in DOMAIN m.ins : i # L => s[i] = m.ins[i]
  BY ReadyType, <1>1, ExceptSeq
<1>5. Level(n) = L BY <1>3 DEF Level
<1>6. n \in [ins: Seq(Instance), ctx: SUBSET Key, call: Frame] BY <1>1, <1>2, <1>4
<1>7. \A i \in DOMAIN n.ins : ExitOK(n.ins[i]) BY <1>3, <1>4 DEF Ready, RunType
<1>8. \A i \in DOMAIN n.ins : i < Level(n) => Unfinished(n.ins[i])
  <2>. SUFFICES ASSUME NEW i \in DOMAIN m.ins, i < L PROVE Unfinished(s[i]) BY <1>3, <1>4, <1>5
  <2>. QED
    BY <1>4, ReadyType DEF Ready
<1>. QED BY <1>1, <1>3, <1>4, <1>5, <1>6, <1>7, <1>8 DEF Ready, RunType, Current

(* n is m, apart from where its call stands and what its context holds.    *)
SameChain(m, n) ==
    /\ n \in [ins: Seq(Instance), ctx: SUBSET Key, call: Frame]
    /\ n.ins = m.ins
    /\ n.call.flow = m.call.flow
    /\ n.call.base = m.call.base
    /\ n.call.depth = m.call.depth

(* Whether a run's chain can go on depends on its chain only.              *)
LEMMA SameChainReady ==
    ASSUME NEW m, Ready(m), NEW n, SameChain(m, n)
    PROVE  /\ Ready(n) /\ Current(n) = Current(m) /\ Level(n) = Level(m)
           /\ n.call.flow # None
<1>. QED
  BY EngineAssumption DEF SameChain, Ready, RunType, Current, Level

(* A call that ends, by return or by throw, leaves a run in order.         *)
LEMMA EndInv ==
    ASSUME NEW m, RunType(m), NEW r \in Result, NEW n, n = [m EXCEPT !.call = Idle(r)]
    PROVE  RunInv(n) /\ n.call.flow = None
<1>3. Idle(r) \in Frame /\ Idle(r).pc = "idle" /\ Idle(r).flow = None
  BY DEF Idle, Frame, PC
<1>. QED
  BY <1>3 DEF RunInv, Holding, RunType

LEMMA ThrowInv ==
    ASSUME NEW m, RunType(m), NEW code \in Result
    PROVE  RunInv(throw(m, code)) /\ throw(m, code).call.flow = None
BY EndInv DEF throw

LEMMA ReturnInv ==
    ASSUME NEW m, RunType(m)
    PROVE  RunInv(return(m)) /\ return(m).call.flow = None
BY EndInv DEF return, Result

(* A run at the end of a chain is in order.                                *)
LEMMA ChainEndInv ==
    ASSUME NEW m, Ready(m), NEW n, n = [m EXCEPT !.call.pc = "chainEnd"]
    PROVE  RunInv(n) /\ n.call.flow = m.call.flow
<1>2. SameChain(m, n) /\ n.call.pc = "chainEnd"
  BY DEF Frame, PC, SameChain, Ready, RunType
<1>. QED
  BY <1>2, SameChainReady DEF RunInv, Ready, Holding, SameChain

(* A run that holds a transition of its current state is in order.         *)
LEMMA HoldingInv ==
    ASSUME NEW m, Ready(m), Unfinished(Current(m)), NEW n, SameChain(m, n),
           n.call.pc \in Holding,
           n.call.pc \in {"guard", "process"} => n.call.base = 1 /\ Len(n.call.depth) = 1,
           n.call.pc = "subGuard" => n.call.base = 2 /\ Len(n.call.depth) = 1,
           n.call.t \in DOMAIN definitionOf(Current(m)).transitions,
           definitionOf(Current(m)).transitions[n.call.t].from = Current(m).state
    PROVE  RunInv(n)
<1>. QED
  BY SameChainReady DEF RunInv, Ready, Holding, Chosen

-----------------------------------------------------------------------------
(* The auto-chain.                                                         *)

(* The first transition of some types that leaves a state is one of them.  *)
LEMMA FirstOfType ==
    ASSUME NEW x \in Instance, NEW s, NEW types, ofType(definitionOf(x), s, types) # {}
    PROVE  LET i == First(ofType(definitionOf(x), s, types))
           IN  /\ i \in DOMAIN definitionOf(x).transitions
               /\ i \in Nat
               /\ definitionOf(x).transitions[i] \in Transition
               /\ definitionOf(x).transitions[i].from = s
               /\ definitionOf(x).transitions[i].type \in types
<1>. DEFINE I == ofType(definitionOf(x), s, types)
<1>1. I \subseteq DOMAIN definitionOf(x).transitions BY DEF ofType, transitionsFrom
<1>2. I \subseteq Nat BY <1>1, DefinitionType
<1>. HIDE DEF I
<1>. QED
  BY FirstIn, <1>1, <1>2, DefinitionType DEF I, ofType, transitionsFrom

(* A sub-flow starts on top of the current instance, whose error has at    *)
(* most been left without a route.                                         *)
LEMMA StartSubFlowInv ==
    ASSUME NEW m, Ready(m), Unfinished(Current(m)), now \in Nat,
           ofType(definitionOf(Current(m)), Current(m).state, {"sub_flow"}) # {}
    PROVE  RunInv(startSubFlow(m)) /\ startSubFlow(m).call.flow = m.call.flow
<1>. DEFINE x    == Current(m)
            L    == Level(m)
            i    == First(ofType(definitionOf(x), x.state, {"sub_flow"}))
            t    == definitionOf(x).transitions[i]
            pre  == SubSeq(m.ins, 1, L)
            new  == NewInstance(t.sub, now)
            s    == Append(pre, new)
            dep  == Append(m.call.depth, 0)
            n    == startSubFlow(m)
<1>1. /\ m \in [ins: Seq(Instance), ctx: SUBSET Key, call: Frame]
      /\ m.call.depth \in Seq(Nat) /\ m.call.base \in {1, 2} /\ m.call.flow \in Flow
  BY DEF Ready, RunType, Frame
<1>2. /\ L \in Nat /\ L >= 1 /\ L \in DOMAIN m.ins
      /\ DOMAIN m.ins = 1 .. Len(m.ins) /\ Len(m.ins) \in Nat
      /\ x \in Instance
      /\ \A j \in DOMAIN m.ins : m.ins[j] \in Instance
  BY ReadyType DEF Ready
<1>3. t.sub \in DefName
  BY <1>2, FirstOfType, SubFlowAssumption DEF Instance, definitionOf
<1>4. new \in Instance /\ Unfinished(new) BY <1>3, NewInstanceType
<1>5. /\ pre \in Seq(Instance) /\ Len(pre) = L
      /\ \A j \in 1 .. L : pre[j] = m.ins[j]
  <2>. HIDE DEF x, L
  <2>. QED
    BY <1>2, SubSeqProperties
<1>6. /\ s \in Seq(Instance) /\ Len(s) = L + 1 /\ DOMAIN s = 1 .. L + 1
      /\ s[L + 1] = new
      /\ \A j \in 1 .. L : s[j] = m.ins[j]
  <2>. HIDE DEF pre, new, L
  <2>. QED
    BY <1>4, AppendProperties, LenProperties, <1>5
<1>7. dep \in Seq(Nat) /\ Len(dep) = Len(m.call.depth) + 1 /\ Len(m.call.depth) \in Nat
  BY <1>1, AppendProperties, LenProperties
<1>8. n = [m EXCEPT !.ins = s, !.call = [m.call EXCEPT !.depth = dep, !.pc = "enterSub"]]
  BY <1>1 DEF startSubFlow, Frame
<1>. HIDE DEF s, dep, n, new, t, pre
<1>9. /\ n \in [ins: Seq(Instance), ctx: SUBSET Key, call: Frame]
      /\ n.ins = s /\ n.call.pc = "enterSub" /\ n.call.depth = dep
      /\ n.call.base = m.call.base /\ n.call.flow = m.call.flow
  <2>. DEFINE k == [m.call EXCEPT !.depth = dep, !.pc = "enterSub"]
  <2>2. /\ k \in Frame /\ k.pc = "enterSub" /\ k.depth = dep
        /\ k.base = m.call.base /\ k.flow = m.call.flow
    BY <1>7, <1>1 DEF Frame, PC
  <2>. HIDE DEF k
  <2>3. n = [m EXCEPT !.ins = s, !.call = k] BY <1>8 DEF k
  <2>. QED BY <1>1, <1>6, <2>2, <2>3
<1>10. Level(n) = L + 1
  <2>2. L = m.call.base + Len(m.call.depth) - 1 BY DEF Level
  <2>3. m.call.base \in Nat BY <1>1 DEF Frame
  <2>4. \A a, b \in Nat : a + (b + 1) - 1 = (a + b - 1) + 1 OBVIOUS
  <2>. HIDE DEF L
  <2>. QED
    BY <1>7, <1>9, <2>2, <2>3, <2>4 DEF Level
<1>11. \A j \in 1 .. L + 1 : ExitOK(s[j]) /\ Unfinished(s[j])
  <2>1. \A j \in 1 .. L : Unfinished(s[j]) BY <1>2, <1>6 DEF Ready, Current
  <2>. QED BY <1>2, <1>4, <1>6, <2>1 DEF ExitOK
<1>12. Ready(n)
  <2>2. DOMAIN n.ins = 1 .. L + 1 /\ L + 1 \in 1 .. L + 1
    <3>. HIDE DEF L
    <3>. QED BY <1>2, <1>6, <1>9
  <2>3. \A j \in DOMAIN n.ins : ExitOK(n.ins[j]) /\ Unfinished(n.ins[j]) BY <1>9, <1>11, <2>2
  <2>. HIDE DEF L
  <2>. QED
    BY <1>9, <1>10, <1>1, <1>7, <2>2, <2>3 DEF Ready, RunType
<1>13. n.call.flow # None /\ Unfinished(Current(n))
  BY <1>1, <1>2, <1>9, <1>10, <1>11, EngineAssumption DEF Current
<1>. QED
  BY <1>9, <1>12, <1>13 DEF n, RunInv, Ready, Holding

(* One turn of the auto-chain: its transition, if there is one, leaves the *)
(* current state of an unfinished instance; an instance it completes is    *)
(* completed under the name of its state.                                  *)
LEMMA LoopInv ==
    ASSUME NEW m, Ready(m), now \in Nat
    PROVE  RunInv(loop(m)) /\ loop(m).call.flow \in {m.call.flow, None}
<1>. DEFINE x     == Current(m)
            d     == definitionOf(x)
            steps == ofType(d, x.state, {"auto", "branch"})
<1>1. x \in Instance /\ ExitOK(x) /\ RunType(m) BY ReadyType DEF Ready
<1>2. CASE m.call.depth[Len(m.call.depth)] >= MaxChainDepth
  BY <1>2, <1>1, ThrowInv DEF loop, Result
<1>3. CASE ~(m.call.depth[Len(m.call.depth)] >= MaxChainDepth) /\ isTerminal(x)
  <2>. DEFINE y == complete(x, x.state)
              k == setCurrent(m, y)
  <2>2. y \in Instance /\ ExitOK(y)
    BY <1>1, <1>3 DEF complete, Instance, Exit, ExitOK, isTerminal, definitionOf
  <2>. QED
    BY <2>2, SetCurrentType, <1>3, ChainEndInv DEF loop
<1>4. CASE /\ ~(m.call.depth[Len(m.call.depth)] >= MaxChainDepth) /\ ~isTerminal(x)
           /\ ofType(d, x.state, {"sub_flow"}) # {}
  BY <1>4, <1>1, StartSubFlowInv DEF loop, ExitOK
<1>5. CASE /\ ~(m.call.depth[Len(m.call.depth)] >= MaxChainDepth) /\ ~isTerminal(x)
           /\ ofType(d, x.state, {"sub_flow"}) = {} /\ steps # {}
  <2>. DEFINE i == First(steps)
              pc == IF d.transitions[i].type = "auto" THEN "auto" ELSE "decide"
              n == [m EXCEPT !.call = [m.call EXCEPT !.t = i, !.backup = m.ctx, !.pc = pc]]
  <2>1. loop(m) = n BY <1>5 DEF loop
  <2>2. Unfinished(x) BY <1>1, <1>5 DEF ExitOK
  <2>3. i \in DOMAIN d.transitions /\ i \in Nat /\ d.transitions[i].from = x.state
    BY <1>1, <1>5, FirstOfType
  <2>. HIDE DEF i
  <2>4. pc \in {"auto", "decide"} OBVIOUS
  <2>. HIDE DEF pc, d, x
  <2>5. SameChain(m, n) /\ n.call.pc = pc /\ n.call.t = i
    BY <1>1, <2>3, <2>4 DEF RunType, Frame, PC, SameChain
  <2>6. RunInv(n) BY <2>2, <2>3, <2>4, <2>5, HoldingInv DEF Holding, x, d
  <2>. QED BY <2>1, <2>5, <2>6 DEF SameChain
<1>6. CASE /\ ~(m.call.depth[Len(m.call.depth)] >= MaxChainDepth) /\ ~isTerminal(x)
           /\ ofType(d, x.state, {"sub_flow"}) = {} /\ steps = {}
  BY <1>6, ChainEndInv DEF loop
<1>. QED BY <1>2, <1>3, <1>4, <1>5, <1>6

-----------------------------------------------------------------------------
(* Steps.                                                                  *)

(* A step of the call c that leaves f and the call as m says, and all else *)
(* as it was.                                                              *)
Written(c, f, m) ==
    /\ inst'[f] = m.ins /\ context'[f] = m.ctx /\ calls'[c] = m.call
    /\ \A g \in Flow : g # f => inst'[g] = inst[g] /\ context'[g] = context[g]
    /\ \A b \in Call : b # c => calls'[b] = calls[b]
    /\ \A b \in Call : b # c /\ calls'[b].pc # "idle" => Run(b)' = Run(b)
    /\ m.call.flow = f => Run(c)' = [ins |-> m.ins, ctx |-> m.ctx, call |-> m.call]

LEMMA CommitRun ==
    ASSUME IndInv, NEW c \in Call, NEW f \in Flow, NEW m,
           \A b \in Call : b # c => calls[b].flow # f,
           inst' = [inst EXCEPT ![f] = m.ins],
           context' = [context EXCEPT ![f] = m.ctx],
           calls' = [calls EXCEPT ![c] = m.call]
    PROVE  Written(c, f, m)
<1>1. /\ inst'[f] = m.ins /\ context'[f] = m.ctx /\ calls'[c] = m.call
      /\ \A g \in Flow : g # f => inst'[g] = inst[g] /\ context'[g] = context[g]
      /\ \A b \in Call : b # c => calls'[b] = calls[b]
  BY DEF IndInv
<1>2. ASSUME NEW b \in Call, b # c, calls'[b].pc # "idle" PROVE Run(b)' = Run(b)
  BY <1>1, <1>2 DEF IndInv, RunInv, Ready, Run
<1>. QED
  BY <1>1, <1>2 DEF Written, Run

(* A call that is alone with its flow and writes back a run in order keeps *)
(* the invariant.                                                          *)
LEMMA CommitInv ==
    ASSUME IndInv, NEW c \in Call, NEW f \in Flow, NEW m,
           \A b \in Call : b # c => calls[b].flow # f,
           RunInv(m), m.call.flow \in {f, None},
           inst' = [inst EXCEPT ![f] = m.ins],
           context' = [context EXCEPT ![f] = m.ctx],
           calls' = [calls EXCEPT ![c] = m.call],
           stored' \in SUBSET Flow, expiresAt' \in [Flow -> Nat], UNCHANGED now
    PROVE  IndInv'
<1>1. /\ m \in [ins: Seq(Instance), ctx: SUBSET Key, call: Frame]
      /\ \A i \in DOMAIN m.ins : ExitOK(m.ins[i])
      /\ m.call.pc # "idle" => m.call.flow = f
  BY DEF RunInv, RunType
<1>3. Written(c, f, m) /\ m = [ins |-> m.ins, ctx |-> m.ctx, call |-> m.call] BY <1>1, CommitRun
<1>5. \A b \in Call : calls'[b].pc = "idle" <=> calls'[b].flow = None
  BY <1>3 DEF IndInv, RunInv, Written
<1>6. ASSUME NEW b \in Call, calls'[b].pc # "idle" PROVE RunInv(Run(b))'
  <2>1. CASE b = c BY <1>1, <1>3, <1>6, <2>1 DEF Written
  <2>2. CASE b # c
    BY <1>3, <1>6, <2>2 DEF IndInv, Written
  <2>. QED BY <2>1, <2>2
<1>7. ASSUME NEW b \in Call, NEW d \in Call,
             calls'[b].flow = calls'[d].flow, calls'[b].pc # "idle"
      PROVE  b = d
  BY <1>1, <1>3, <1>7 DEF IndInv, Written
<1>. QED
  BY <1>1, <1>3, <1>5, <1>6, <1>7 DEF IndInv, Written

(* A call under way has a run in order and its flow to itself.             *)
LEMMA RunOfCall ==
    ASSUME IndInv, NEW c \in Call, calls[c].pc # "idle"
    PROVE  /\ RunInv(Run(c)) /\ Ready(Run(c)) /\ now \in Nat
           /\ Run(c).call = calls[c] /\ calls[c].flow \in Flow
           /\ \A b \in Call : b # c => calls[b].flow # calls[c].flow
<1>. QED
  BY DEF IndInv, RunInv, Ready, Run

(* So what it has to show of a step is the run it writes back.             *)
LEMMA StepInv ==
    ASSUME IndInv, NEW c \in Call, calls[c].pc # "idle", NEW m,
           RunInv(m), m.call.flow \in {calls[c].flow, None}, Step(c, m)
    PROVE  IndInv'
<1>1. /\ calls[c].flow \in Flow
      /\ \A b \in Call : b # c => calls[b].flow # calls[c].flow
  BY RunOfCall
<1>2. stored' \in SUBSET Flow /\ expiresAt' \in [Flow -> Nat] BY <1>1 DEF Step, Commit, IndInv
<1>3. /\ inst' = [inst EXCEPT ![calls[c].flow] = m.ins]
      /\ context' = [context EXCEPT ![calls[c].flow] = m.ctx]
      /\ calls' = [calls EXCEPT ![c] = m.call]
      /\ UNCHANGED now
  BY Zenon DEF Step, Commit
<1>. QED BY <1>1, <1>2, <1>3, CommitInv, Zenon

(* A run that can take the transition it holds.                            *)
Working(m) ==
    /\ Ready(m) /\ Unfinished(Current(m))
    /\ m.call.t \in DOMAIN definitionOf(Current(m)).transitions

LEMMA WorkingChosen ==
    ASSUME NEW m, Working(m)
    PROVE  /\ Chosen(m) \in Transition
           /\ Chosen(m).from \in State /\ Chosen(m).to \in State
           /\ Chosen(m).produces \in SUBSET Key /\ Chosen(m).gives \in SUBSET Key
<1>. QED
  BY ReadyType, DefinitionType DEF Transition, Working, Chosen

LEMMA WorkingSame ==
    ASSUME NEW m, Working(m), NEW n, SameChain(m, n), n.call.t = m.call.t
    PROVE  /\ Working(n) /\ Current(n) = Current(m) /\ Chosen(n) = Chosen(m)
           /\ n.call.flow # None
BY SameChainReady DEF Working, Chosen

(* Guards, processors and branches put data into the context.              *)
LEMMA WorkingPut ==
    ASSUME NEW m, Working(m), NEW puts \in SUBSET Key, NEW n, n = [m EXCEPT !.ctx = @ \cup puts]
    PROVE  /\ Working(n) /\ Current(n) = Current(m) /\ Chosen(n) = Chosen(m)
           /\ n.call = m.call
<1>. QED
  BY WorkingSame DEF SameChain, Working, Ready, RunType

(* Moving the current instance keeps a chain ready and a run working.      *)
LEMMA MoveReady ==
    ASSUME NEW m, Ready(m), Unfinished(Current(m)), now \in Nat,
           NEW to \in State, NEW o \in {"ok", "enter", "exit"},
           NEW n, n = setCurrent(m, moveTo(Current(m), to, o))
    PROVE  /\ Ready(n) /\ Unfinished(Current(n)) /\ n.call = m.call
           /\ definitionOf(Current(n)) = definitionOf(Current(m))
<1>2. /\ moveTo(Current(m), to, o) \in Instance
      /\ moveTo(Current(m), to, o).def = Current(m).def
      /\ Unfinished(moveTo(Current(m), to, o)) /\ ExitOK(moveTo(Current(m), to, o))
  BY ReadyType, MoveToType DEF Unfinished, ExitOK
<1>. QED
  BY <1>2, SetCurrentType DEF definitionOf

LEMMA WorkingMove ==
    ASSUME NEW m, Working(m), NEW to \in State, NEW o \in {"ok", "enter", "exit"}, now \in Nat,
           NEW n, n = setCurrent(m, moveTo(Current(m), to, o))
    PROVE  Working(n) /\ n.call = m.call /\ Chosen(n) = Chosen(m)
<1>2. /\ Ready(n) /\ Unfinished(Current(n)) /\ n.call = m.call
      /\ definitionOf(Current(n)) = definitionOf(Current(m))
  BY MoveReady DEF Working
<1>. QED BY <1>2 DEF Working, Chosen

(* handleError keeps a chain ready.                                        *)
LEMMA HandleErrorReady ==
    ASSUME NEW m, Ready(m), Unfinished(Current(m)), now \in Nat, NEW s \in State, NEW cause,
           NEW n, n = setCurrent(m, handleError(Current(m), s, cause))
    PROVE  Ready(n) /\ n.call = m.call /\ n.ctx = m.ctx
<1>. QED
  BY ReadyType, HandleErrorType, SetCurrentType

LEMMA DeeperReady ==
    ASSUME NEW m, Ready(m)
    PROVE  Ready(deeper(m)) /\ deeper(m).call.flow = m.call.flow
<1>. DEFINE D == Len(m.call.depth)
            dep == [m.call.depth EXCEPT ![D] = m.call.depth[D] + 1]
            n == deeper(m)
<1>1. /\ m \in [ins: Seq(Instance), ctx: SUBSET Key, call: Frame]
      /\ m.call.depth \in Seq(Nat)
  BY DEF Ready, RunType, Frame
<1>3. dep \in Seq(Nat) /\ Len(dep) = D
  BY <1>1, ReadyType, ExceptSeq DEF Ready
<1>4. n = [m EXCEPT !.call = [m.call EXCEPT !.depth = dep]] BY DEF deeper
<1>. HIDE DEF dep, n
<1>5. /\ n \in [ins: Seq(Instance), ctx: SUBSET Key, call: Frame]
      /\ n.ins = m.ins /\ n.call.flow = m.call.flow
      /\ n.call.base = m.call.base /\ n.call.depth = dep
  BY <1>1, <1>3, <1>4 DEF Frame
<1>. QED
  BY <1>5, <1>3 DEF n, Ready, RunType, Level

(* What is left of a run when its context is restored.                     *)
LEMMA RestoredReady ==
    ASSUME NEW m, Ready(m), NEW n, n = [m EXCEPT !.ctx = m.call.backup]
    PROVE  Ready(n) /\ n.call = m.call
<1>. QED
  BY SameChainReady DEF SameChain, Ready, RunType, Frame

(* The two catch blocks.                                                   *)
LEMMA FailStepInv ==
    ASSUME NEW m, Ready(m), Unfinished(Current(m)), now \in Nat, NEW cause
    PROVE  RunInv(failStep(m, cause)) /\ failStep(m, cause).call.flow = m.call.flow
<1>. DEFINE k == setCurrent(m, handleError(Current(m), Current(m).state, cause))
            r == [k EXCEPT !.ctx = k.call.backup]
<1>2. Ready(k) /\ k.call = m.call
  BY ReadyType, HandleErrorReady DEF Instance
<1>. HIDE DEF k
<1>3. Ready(r) /\ r.call = m.call BY <1>2, RestoredReady
<1>4. failStep(m, cause) = [r EXCEPT !.call.pc = "chainEnd"]
  BY <1>2 DEF Ready, RunType, failStep, k
<1>. HIDE DEF r
<1>. QED BY <1>3, <1>4, ChainEndInv, ZenonT(40)

LEMMA FailExternalInv ==
    ASSUME NEW m, Working(m), now \in Nat, NEW cause
    PROVE  RunInv(failExternal(m, cause)) /\ failExternal(m, cause).call.flow = None
<1>. DEFINE k == setCurrent(m, handleError(Current(m), Chosen(m).from, cause))
            r == [k EXCEPT !.ctx = k.call.backup]
<1>1. Ready(k) /\ k.call = m.call BY HandleErrorReady, WorkingChosen DEF Working
<1>. HIDE DEF k
<1>. QED
  BY <1>1, RestoredReady, ReturnInv DEF Ready, failExternal, k

-----------------------------------------------------------------------------
(* Try blocks.                                                             *)

LEMMA ThrowingType ==
    ASSUME NEW x, NEW to
    PROVE  Throwing(x, to) \subseteq {"ok", "enter", "exit"}
BY DEF Throwing

(* A step of the auto-chain to its target.                                 *)
LEMMA StepToInv ==
    ASSUME IndInv, NEW c \in Call, calls[c].pc # "idle", NEW m, Working(m),
           m.call.flow = calls[c].flow, NEW to \in State, StepTo(c, m, to)
    PROVE  IndInv'
<1>0. now \in Nat BY DEF IndInv
<1>1. CASE Step(c, loop(deeper(setCurrent(m, moveTo(Current(m), to, "ok")))))
  <2>. DEFINE k == setCurrent(m, moveTo(Current(m), to, "ok"))
  <2>1. Working(k) /\ k.call = m.call BY <1>0, WorkingMove
  <2>. HIDE DEF k
  <2>2. Ready(deeper(k)) /\ deeper(k).call.flow = m.call.flow BY <2>1, DeeperReady DEF Working
  <2>. QED
    BY <1>0, <2>2, LoopInv, <1>1, StepInv DEF k
<1>2. CASE \E o \in Throwing(Current(m), to), e \in ActionError :
             Step(c, failStep(setCurrent(m, moveTo(Current(m), to, o)), e))
  <2>1. PICK o \in Throwing(Current(m), to), e \in ActionError :
               Step(c, failStep(setCurrent(m, moveTo(Current(m), to, o)), e))
    BY <1>2
  <2>. DEFINE k == setCurrent(m, moveTo(Current(m), to, o))
  <2>2. o \in {"ok", "enter", "exit"} BY ThrowingType
  <2>3. Working(k) /\ k.call = m.call BY <1>0, <2>2, WorkingMove
  <2>4. Step(c, failStep(k, e)) BY <2>1
  <2>. HIDE DEF k
  <2>5. RunInv(failStep(k, e)) /\ failStep(k, e).call.flow = m.call.flow
    BY <1>0, <2>3, FailStepInv DEF Working
  <2>. QED BY <2>4, <2>5, StepInv
<1>. QED BY <1>1, <1>2 DEF StepTo

(* The external transition of the flow itself.                             *)
LEMMA ExternalToInv ==
    ASSUME IndInv, NEW c \in Call, calls[c].pc # "idle", NEW m, Working(m),
           m.call.flow = calls[c].flow, ExternalTo(c, m)
    PROVE  IndInv'
<1>. DEFINE to == Chosen(m).to
<1>0. now \in Nat /\ to \in State BY WorkingChosen DEF IndInv
<1>1. CASE Step(c, loop(setCurrent(m, moveTo(Current(m), to, "ok"))))
  <2>. DEFINE k == setCurrent(m, moveTo(Current(m), to, "ok"))
  <2>1. Working(k) /\ k.call = m.call BY <1>0, WorkingMove
  <2>2. Step(c, loop(k)) BY <1>1
  <2>. HIDE DEF k
  <2>3. RunInv(loop(k)) /\ loop(k).call.flow \in {m.call.flow, None}
    BY <1>0, <2>1, LoopInv DEF Working
  <2>. QED BY <2>2, <2>3, StepInv
<1>2. CASE \E o \in Throwing(Current(m), to), e \in ActionError :
             Step(c, failExternal(setCurrent(m, moveTo(Current(m), to, o)), e))
  <2>1. PICK o \in Throwing(Current(m), to), e \in ActionError :
               Step(c, failExternal(setCurrent(m, moveTo(Current(m), to, o)), e))
    BY <1>2
  <2>. DEFINE k == setCurrent(m, moveTo(Current(m), to, o))
  <2>3. Working(k)
    BY <1>0, ThrowingType, WorkingMove
  <2>4. Step(c, failExternal(k, e)) BY <2>1
  <2>. HIDE DEF k
  <2>5. RunInv(failExternal(k, e)) /\ failExternal(k, e).call.flow = None
    BY <1>0, <2>3, FailExternalInv
  <2>. QED BY <2>4, <2>5, StepInv
<1>. QED BY <1>1, <1>2 DEF ExternalTo

-----------------------------------------------------------------------------
(* Leaving a sub-flow.                                                     *)

(* The parent's run is ready: no instance below the current one is         *)
(* completed under the name of a state.                                    *)
LEMMA LeaveReady ==
    ASSUME NEW m, Ready(m), Len(m.call.depth) > 1 \/ m.call.base = 2
    PROVE  /\ Ready(leaveSubFlow(m)) /\ Unfinished(Current(leaveSubFlow(m)))
           /\ leaveSubFlow(m).call.flow = m.call.flow
<1>. DEFINE L   == Level(m)
            D   == Len(m.call.depth)
            pre == SubSeq(m.ins, 1, L - 1)
            dep == IF D = 1 THEN << 0 >> ELSE SubSeq(m.call.depth, 1, D - 1)
            bas == IF D = 1 THEN 1 ELSE m.call.base
            p   == leaveSubFlow(m)
<1>1. /\ m \in [ins: Seq(Instance), ctx: SUBSET Key, call: Frame]
      /\ m.call.depth \in Seq(Nat) /\ m.call.base \in {1, 2}
  BY DEF Ready, RunType, Frame
<1>2. /\ L \in Nat /\ L \in DOMAIN m.ins /\ D \in Nat /\ D >= 1
      /\ DOMAIN m.ins = 1 .. Len(m.ins) /\ Len(m.ins) \in Nat
      /\ \A j \in DOMAIN m.ins : m.ins[j] \in Instance
      /\ L = m.call.base + D - 1
  BY ReadyType DEF Ready, Level
<1>3. L >= 2 BY <1>1, <1>2
<1>4. /\ pre \in Seq(Instance) /\ Len(pre) = L - 1
      /\ \A j \in 1 .. L - 1 : pre[j] = m.ins[j]
      /\ DOMAIN pre = 1 .. L - 1
  <2>. HIDE DEF L
  <2>2. /\ pre \in Seq(Instance) /\ Len(pre) = L - 1
        /\ \A j \in 1 .. L - 1 : pre[j] = m.ins[j]
    BY <1>2, <1>3, SubSeqProperties
  <2>. QED BY <2>2, LenProperties
<1>5. /\ dep \in Seq(Nat) /\ Len(dep) \in Nat /\ Len(dep) >= 1
      /\ D = 1 => Len(dep) = 1
      /\ D # 1 => Len(dep) = D - 1
  <2>1. CASE D = 1 BY <2>1
  <2>2. CASE D # 1
    <3>1. \A j \in 1 .. D - 1 : m.call.depth[j] \in Nat BY <1>1, <1>2, <2>2, ElementOfSeq, SMTT(30)
    <3>2. SubSeq(m.call.depth, 1, D - 1) \in Seq(Nat) /\ Len(SubSeq(m.call.depth, 1, D - 1)) = D - 1
      <4>. HIDE DEF D
      <4>. QED BY <1>2, <2>2, <3>1, SubSeqProperties
    <3>3. dep \in Seq(Nat) /\ Len(dep) = D - 1 BY <2>2, <3>2
    <3>. HIDE DEF dep, D
    <3>. QED BY <1>2, <2>2, <3>3
  <2>. QED BY <2>1, <2>2
<1>6. p = [m EXCEPT !.ins = pre, !.call = [m.call EXCEPT !.base = bas, !.depth = dep]]
  BY <1>1 DEF leaveSubFlow, Frame
<1>7. bas \in {1, 2} /\ bas + Len(dep) - 1 = L - 1
  <2>. HIDE DEF dep
  <2>1. CASE D = 1 BY <1>1, <1>2, <1>3, <1>5, <2>1
  <2>2. CASE D # 1
    <3>1. bas = m.call.base BY <2>2
    <3>. HIDE DEF D, L, bas
    <3>. QED BY <1>1, <1>2, <1>5, <2>2, <3>1, SMTT(30)
  <2>. QED BY <2>1, <2>2
<1>. HIDE DEF pre, dep, bas, p, L
<1>8. /\ p \in [ins: Seq(Instance), ctx: SUBSET Key, call: Frame]
      /\ p.ins = pre /\ p.call.flow = m.call.flow /\ p.call.base = bas /\ p.call.depth = dep
  BY <1>1, <1>4, <1>5, <1>6, <1>7 DEF Frame
<1>9. Level(p) = L - 1 BY <1>7, <1>8 DEF Level
<1>10. \A j \in 1 .. L - 1 : Unfinished(pre[j]) /\ ExitOK(pre[j])
  BY <1>2, <1>4, SMTT(30) DEF Ready, ExitOK, L
<1>11. Ready(p)
  BY <1>2, <1>5, <1>8, <1>3, <1>4, <1>9, <1>10 DEF Ready, RunType
<1>. QED
  BY <1>8, <1>11, <1>2, <1>3, <1>9, <1>10 DEF p, Current

(* The exit mapping leads to a state, where it leads anywhere.             *)
LEMMA ExitTargetType ==
    ASSUME NEW x \in Instance, NEW e \in Exit
    PROVE  exitTarget(x, e) \in State \cup {None}
<1>. DEFINE T == ofType(definitionOf(x), x.state, {"sub_flow"})
<1>1. CASE T = {} BY <1>1 DEF exitTarget
<1>2. CASE T # {}
  BY <1>2, FirstOfType DEF exitTarget, Transition
<1>. QED BY <1>1, <1>2

LEMMA TakeExitInv ==
    ASSUME IndInv, NEW c \in Call, calls[c].pc # "idle",
           NEW m, Ready(m), Unfinished(Current(m)), m.call.flow = calls[c].flow,
           NEW to \in State, NEW counted \in BOOLEAN, TakeExit(c, m, to, counted)
    PROVE  IndInv'
<1>0. now \in Nat BY DEF IndInv
<1>. DEFINE m1 == setCurrent(m, moveTo(Current(m), to, "ok"))
            m2 == IF counted THEN deeper(m1) ELSE m1
<1>1. CASE Step(c, loop(m2))
  <2>1. Ready(m1) /\ m1.call = m.call BY <1>0, MoveReady
  <2>. HIDE DEF m1
  <2>2. Ready(m2) /\ m2.call.flow = m.call.flow BY <2>1, DeeperReady
  <2>. HIDE DEF m2
  <2>. QED
    BY <1>1, <1>0, <2>2, LoopInv, StepInv
<1>2. CASE \E o \in Throwing(Current(m), to) :
             Step(c, throw(setCurrent(m, moveTo(Current(m), to, o)), "ACTION_THREW"))
  <2>1. PICK o \in Throwing(Current(m), to) :
               Step(c, throw(setCurrent(m, moveTo(Current(m), to, o)), "ACTION_THREW"))
    BY <1>2
  <2>. DEFINE k == setCurrent(m, moveTo(Current(m), to, o))
  <2>3. Ready(k)
    BY <1>0, ThrowingType, MoveReady
  <2>4. Step(c, throw(k, "ACTION_THREW")) BY <2>1
  <2>. HIDE DEF k
  <2>5. RunInv(throw(k, "ACTION_THREW")) /\ throw(k, "ACTION_THREW").call.flow = None
    BY <2>3, ThrowInv DEF Ready, Result
  <2>. QED BY <2>4, <2>5, StepInv
<1>. QED BY <1>1, <1>2 DEF TakeExit

-----------------------------------------------------------------------------
(* The start of a call.                                                    *)

(* A state that waits for an event is not terminal: build() rejects a      *)
(* definition with an external transition out of a terminal state.         *)
LEMMA WaitingUnfinished ==
    ASSUME NEW x \in Instance, ExitOK(x), externalsFrom(definitionOf(x), x.state) # {}
    PROVE  Unfinished(x)
<1>3. PICK i \in externalsFrom(definitionOf(x), x.state) : TRUE OBVIOUS
<1>4. /\ i \in transitionsFrom(definitionOf(x), x.state)
      /\ i \notin ofType(definitionOf(x), x.state, {"sub_flow"})
  BY <1>3 DEF externalsFrom, ofType
<1>. QED
  BY ValidAssumption, <1>4 DEF ExitOK, checkTerminalNoOutgoing, isTerminal, ValidDefinition,
     definitionOf, Instance

(* The candidates for an event are externals of the current state.         *)
LEMMA CandidatesAreExternals ==
    ASSUME NEW d, NEW s, NEW keys
    PROVE  Candidates(d, s, keys) \subseteq externalsFrom(d, s)
BY DEF Candidates

(* Selecting a transition ends the call or gives its run a transition that *)
(* starts where the instance is.                                           *)
LEMMA SelectExternalInv ==
    ASSUME NEW m, Ready(m), m.call.pc # "idle", NEW keys, NEW n, n = selectExternal(m, keys)
    PROVE  /\ n.ins = m.ins /\ n.ctx = m.ctx
           /\ \/ RunInv(n) /\ n.call.pc = "idle" /\ n.call.flow = None
              \/ /\ Working(n) /\ SameChain(m, n) /\ Chosen(n).from = Current(n).state
                 /\ Chosen(n).type = "external" /\ n.call.pc = m.call.pc
<1>. DEFINE x     == Current(m)
            d     == definitionOf(x)
            cands == Candidates(d, x.state, keys)
<1>1. x \in Instance /\ ExitOK(x) /\ RunType(m) BY ReadyType DEF Ready
<1>2. m \in [ins: Seq(Instance), ctx: SUBSET Key, call: Frame] BY <1>1 DEF RunType
<1>3. CASE ~\E i \in cands : cands = {i}
  <2>1. PICK code \in Result : n = throw(m, code) BY <1>3 DEF selectExternal, Result
  <2>. QED BY <1>1, <1>2, <2>1, ThrowInv DEF RunInv, throw
<1>4. CASE \E i \in cands : cands = {i}
  <2>. DEFINE t == First(cands)
  <2>1. cands \subseteq externalsFrom(d, x.state) BY CandidatesAreExternals
  <2>2. n = [m EXCEPT !.call.t = t] BY <1>4, <2>1 DEF selectExternal
  <2>3. /\ externalsFrom(d, x.state) \subseteq DOMAIN d.transitions
        /\ \A i \in externalsFrom(d, x.state) :
              d.transitions[i].from = x.state /\ d.transitions[i].type = "external"
    BY DEF externalsFrom, ofType, transitionsFrom
  <2>5. Unfinished(x) BY <1>1, <1>4, <2>1, WaitingUnfinished
  <2>. HIDE DEF cands
  <2>6. t \in cands /\ t \in Nat
    BY <1>4, <1>1, <2>1, <2>3, DefinitionType, FirstIn
  <2>7. /\ t \in DOMAIN d.transitions
        /\ d.transitions[t].from = x.state /\ d.transitions[t].type = "external"
    BY <2>1, <2>3, <2>6
  <2>. HIDE DEF t, d, x
  <2>8. SameChain(m, n) /\ n.call.t = t /\ n.call.pc = m.call.pc /\ n.ctx = m.ctx
    BY <1>2, <2>2, <2>6, ZenonT(40) DEF Frame, SameChain
  <2>9. Ready(n) /\ Current(n) = Current(m) BY <2>8, SameChainReady
  <2>. QED BY <2>5, <2>7, <2>8, <2>9 DEF Working, Chosen, SameChain, x, d
<1>. QED BY <1>3, <1>4

LEMMA IdleType ==
    ASSUME NEW r \in Result
    PROVE  /\ Idle(r) \in Frame /\ Idle(r).pc = "idle" /\ Idle(r).flow = None
           /\ Idle(r).base = 1 /\ Len(Idle(r).depth) = 1
<1>. QED
  BY DEF Idle, Frame, PC

(* A guard is asked.                                                       *)
LEMMA AskedInv ==
    ASSUME NEW m, Working(m), Chosen(m).from = Current(m).state, Len(m.call.depth) = 1,
           NEW pc \in {"guard", "subGuard"}, m.call.base = (IF pc = "guard" THEN 1 ELSE 2),
           NEW n, n = [m EXCEPT !.call.pc = pc]
    PROVE  /\ RunInv(n) /\ SameChain(m, n) /\ n.call.pc = pc
           /\ n.ctx = m.ctx /\ Chosen(n) = Chosen(m)
<1>2. SameChain(m, n) /\ n.call.t = m.call.t /\ n.call.pc = pc /\ n.ctx = m.ctx
  BY DEF SameChain, Frame, PC, Working, Ready, RunType
<1>. QED
  BY <1>2, HoldingInv, SameChainReady DEF Chosen, Working, SameChain, Holding

(* An instance that is out of time.                                        *)
LEMMA ClosedInv ==
    ASSUME NEW m, Ready(m), NEW n, n = return(setCurrent(m, complete(Current(m), "EXPIRED")))
    PROVE  /\ RunInv(n) /\ n.call.pc = "idle" /\ n.call.flow = None /\ n.ctx = m.ctx
           /\ DOMAIN n.ins = DOMAIN m.ins /\ Len(n.ins) = Len(m.ins)
           /\ n.ins[Level(m)] = complete(Current(m), "EXPIRED")
           /\ \A i \in DOMAIN m.ins : i # Level(m) => n.ins[i] = m.ins[i]
<1>. DEFINE y == complete(Current(m), "EXPIRED")
            k == setCurrent(m, y)
<1>1. m \in [ins: Seq(Instance), ctx: SUBSET Key, call: Frame] /\ Current(m) \in Instance
  BY ReadyType DEF Ready, RunType
<1>2. y \in Instance /\ ExitOK(y) BY <1>1 DEF complete, Instance, Exit, ExitCode, ExitOK, Unfinished
<1>. HIDE DEF y
<1>3. Ready(k) BY <1>2, SetCurrentType
<1>4. /\ k.ctx = m.ctx /\ DOMAIN k.ins = DOMAIN m.ins /\ Len(k.ins) = Len(m.ins)
      /\ k.ins[Level(m)] = y /\ \A i \in DOMAIN m.ins : i # Level(m) => k.ins[i] = m.ins[i]
  BY <1>1 DEF setCurrent, Ready
<1>. HIDE DEF k
<1>6. /\ n.ins = k.ins /\ n.ctx = k.ctx
      /\ RunInv(n) /\ n.call.pc = "idle" /\ n.call.flow = None
  <2>2. return(k).ins = k.ins /\ return(k).ctx = k.ctx BY <1>3 DEF return, Ready, RunType
  <2>. QED
    BY <1>3, ReturnInv, <2>2 DEF y, k, Ready, RunInv
<1>. QED BY <1>4, <1>6 DEF y

(* The run in which a flow starts: a fresh root, whose chain takes its     *)
(* first turn.                                                             *)
Newborn(f, name, m) ==
    /\ Ready(m) /\ Level(m) = 1 /\ Len(m.ins) = 1
    /\ m.call.flow = f /\ m.call.base = 1 /\ m.call.depth = << 0 >> /\ Len(m.call.depth) = 1
    /\ NewInstance(name, now) \in Instance /\ Unfinished(NewInstance(name, now))
    /\ \A i \in DOMAIN m.ins : i = 1 /\ m.ins[i] = NewInstance(name, now)

(* The call c writes back what it has made of f.                           *)
Writes(c, f, m) ==
    /\ RunInv(m) /\ m.call.flow \in {f, None} /\ calls[c].flow = None
    /\ \A b \in Call : b # c => calls[b].flow # f
    /\ inst' = [inst EXCEPT ![f] = m.ins]
    /\ context' = [context EXCEPT ![f] = m.ctx]
    /\ calls' = [calls EXCEPT ![c] = m.call]

LEMMA StartFlowRun ==
    ASSUME IndInv, NEW c \in Call, NEW f \in Flow, NEW name \in Root, NEW keys \in Event,
           StartFlow(c, f, name, keys)
    PROVE  /\ name \in DefName /\ now \in Nat /\ inst[f] = <<>>
           /\ \E m : Newborn(f, name, m) /\ m.ctx = keys /\ Writes(c, f, loop(m))
<1>. DEFINE new == NewInstance(name, now)
            k   == [Idle("none") EXCEPT !.flow = f]
            s   == <<new>>
            m   == [ins |-> s, ctx |-> keys, call |-> k]
<1>1. /\ name \in DefName /\ now \in Nat /\ keys \in SUBSET Key /\ f # None /\ inst[f] = <<>>
      /\ calls[c].flow = None
  BY EngineAssumption, DefAssumption DEF IndInv, Definition, StartFlow
<1>2. new \in Instance /\ Unfinished(new) BY <1>1, NewInstanceType
<1>3. k \in Frame /\ k.flow = f /\ k.base = 1 /\ k.depth = << 0 >> /\ Len(k.depth) = 1
  <2>1. Idle("none").depth = << 0 >> BY DEF Idle
  <2>. QED BY <2>1, IdleType DEF Frame, Result
<1>. HIDE DEF new, k
<1>4. s \in Seq(Instance) /\ DOMAIN s = 1 .. 1 /\ s[1] = new /\ Len(s) = 1 BY <1>2
<1>. HIDE DEF s
<1>5. /\ m \in [ins: Seq(Instance), ctx: SUBSET Key, call: Frame]
      /\ m.ins = s /\ m.ctx = keys /\ m.call = k
  BY <1>1, <1>3, <1>4
<1>. HIDE DEF m
<1>6. Newborn(f, name, m)
  <2>1. Level(m) = 1
    <3>1. m.call.base = 1 /\ Len(m.call.depth) = 1 BY <1>3, <1>5
    <3>. QED BY <3>1 DEF Level
  <2>2. Level(m) \in DOMAIN m.ins /\ \A i \in DOMAIN m.ins : ~(i < Level(m)) BY <1>4, <1>5, <2>1
  <2>3. \A i \in DOMAIN m.ins : i = 1 /\ m.ins[i] = new BY <1>4, <1>5
  <2>4. Ready(m) BY <1>2, <1>3, <1>5, <2>2, <2>3 DEF Ready, RunType, ExitOK
  <2>. QED BY <1>2, <1>3, <1>4, <1>5, <2>1, <2>3, <2>4 DEF Newborn, new
<1>8. \A b \in Call : b # c => calls[b].flow # f
  <2>1. SUFFICES ASSUME NEW b \in Call, calls[b].flow = f PROVE FALSE OBVIOUS
  <2>3. Ready(Run(b)) /\ Run(b).ins = inst[f]
    BY <2>1, <1>1, RunOfCall DEF Run, IndInv
  <2>. QED
    BY <2>3, <1>1 DEF Ready
<1>9. /\ inst' = [inst EXCEPT ![f] = loop(m).ins]
      /\ context' = [context EXCEPT ![f] = loop(m).ctx]
      /\ calls' = [calls EXCEPT ![c] = loop(m).call]
  BY DEF StartFlow, m, s, k, new
<1>10. Writes(c, f, loop(m))
  BY <1>1, <1>6, LoopInv, <1>8, <1>9 DEF Writes, Newborn
<1>. QED BY <1>1, <1>5, <1>6, <1>10

LEMMA StartFlowInv ==
    ASSUME IndInv, NEW c \in Call, NEW f \in Flow, NEW name \in Root, NEW keys \in Event,
           StartFlow(c, f, name, keys)
    PROVE  IndInv'
<1>1. PICK n : name \in DefName /\ Writes(c, f, n) BY StartFlowRun
<1>3. stored' \in SUBSET Flow /\ expiresAt' \in [Flow -> Nat] /\ UNCHANGED now
  BY <1>1, DefAssumption DEF StartFlow, IndInv, Definition
<1>. QED BY <1>1, <1>3, CommitInv DEF Writes

(* What resumeAndExecute does before it awaits a guard: nothing, or it     *)
(* closes the flow, or it has selected the transition to ask.              *)
Opened(f, keys, n) ==
    /\ n.ctx = IF loadForUpdate(f) THEN context[f] \cup keys ELSE context[f]
    /\ \/ n.ins = inst[f] /\ n.call.pc = "idle"
       \/ /\ loadForUpdate(f) /\ n.call.pc = "idle"
          /\ DOMAIN n.ins = DOMAIN inst[f] /\ Len(n.ins) = Len(inst[f])
          /\ n.ins[1] = complete(inst[f][1], "EXPIRED")
          /\ \A i \in DOMAIN inst[f] : i # 1 => n.ins[i] = inst[f][i]
       \/ /\ loadForUpdate(f) /\ n.ins = inst[f] /\ Ready(n) /\ Chosen(n).type = "external"
          /\ n.call.depth = << 0 >> /\ Level(n) = n.call.base
          /\ \/ n.call.pc = "guard" /\ n.call.base = 1 /\ Len(inst[f]) = 1
             \/ n.call.pc = "subGuard" /\ n.call.base = 2 /\ Len(inst[f]) > 1

LEMMA ResumeRun ==
    ASSUME Serialized, IndInv, NEW c \in Call, NEW f \in Flow, NEW keys \in Event,
           Resume(c, f, keys)
    PROVE  \E r : Writes(c, f, r) /\ Opened(f, keys, r)
<1>. DEFINE k   == [Idle("none") EXCEPT !.flow = f, !.pc = "guard"]
            ctx == context[f] \cup keys
            m   == [ins |-> inst[f], ctx |-> ctx, call |-> k]
            sub == [m EXCEPT !.call.base = 2]
<1>1. /\ now \in Nat /\ keys \in SUBSET Key /\ f # None
      /\ inst[f] \in Seq(Instance) /\ inst[f] # <<>>
      /\ \A i \in DOMAIN inst[f] : ExitOK(inst[f][i])
      /\ context[f] \in SUBSET Key
  BY EngineAssumption DEF IndInv, Resume
<1>2. calls[c].flow = None /\ \A b \in Call : b # c => calls[b].flow # f BY DEF Resume, Busy, IndInv
<1>3. /\ k \in Frame /\ k.flow = f /\ k.base = 1 /\ k.pc = "guard"
      /\ k.depth = << 0 >> /\ Len(k.depth) = 1
  <2>1. Idle("none").depth = << 0 >> BY DEF Idle
  <2>. QED BY <2>1, IdleType DEF Frame, Result, PC
<1>. HIDE DEF k
<1>4. DOMAIN inst[f] = 1 .. Len(inst[f]) /\ Len(inst[f]) \in Nat /\ Len(inst[f]) >= 1
  BY <1>1, LenProperties, EmptySeq
<1>5. ASSUME ~loadForUpdate(f) PROVE \E r : Writes(c, f, r) /\ Opened(f, keys, r)
  <2>. DEFINE r == [ins |-> inst[f], ctx |-> context[f], call |-> Idle("FLOW_NOT_FOUND")]
  <2>1. /\ Idle("FLOW_NOT_FOUND") \in Frame /\ Idle("FLOW_NOT_FOUND").pc = "idle"
        /\ Idle("FLOW_NOT_FOUND").flow = None
    BY IdleType DEF Result
  <2>3. RunInv(r) /\ r.call.flow = None BY <1>1, <2>1 DEF RunInv, RunType, Holding
  <2>4. Writes(c, f, r)
    BY <1>2, <1>5, <2>3 DEF Writes, Resume, IndInv
  <2>. QED BY <1>5, <2>1, <2>4 DEF Opened
<1>6. ASSUME loadForUpdate(f) PROVE \E r : Writes(c, f, r) /\ Opened(f, keys, r)
  <2>. DEFINE r == IF ttlElapsed(f)
                   THEN return(setCurrent(m, complete(Current(m), "EXPIRED")))
                   ELSE IF Len(inst[f]) > 1 THEN beginSubGuard(selectExternal(sub, keys))
                   ELSE beginRootGuard(selectExternal(m, keys))
  <2>1. Commit(c, f, r) BY <1>6 DEF Resume, k
  <2>2. /\ m \in [ins: Seq(Instance), ctx: SUBSET Key, call: Frame]
        /\ m.ins = inst[f] /\ m.ctx = ctx /\ m.call = k
        /\ m.call.flow = f /\ m.call.base = 1 /\ m.call.depth = << 0 >>
        /\ Len(m.call.depth) = 1 /\ m.call.pc = "guard"
    BY <1>1, <1>3
  <2>3. /\ sub \in [ins: Seq(Instance), ctx: SUBSET Key, call: Frame]
        /\ sub.ins = inst[f] /\ sub.ctx = ctx /\ sub.call.flow = f /\ sub.call.base = 2
        /\ sub.call.depth = << 0 >> /\ Len(sub.call.depth) = 1 /\ sub.call.pc = "guard"
    BY <1>3, <2>2 DEF Frame
  <2>. HIDE DEF m, sub, ctx
  <2>4. Ready(m) /\ Level(m) = 1 /\ Current(m) = inst[f][1]
    BY <2>2, <1>4, <1>1 DEF Level, Ready, RunType, Current
  <2>5. ASSUME NEW n, Ready(n), Level(n) = 1, n.ins = inst[f], n.ctx = ctx,
               r = return(setCurrent(n, complete(Current(n), "EXPIRED")))
        PROVE  RunInv(r) /\ r.call.flow \in {f, None} /\ Opened(f, keys, r)
    <3>. HIDE DEF r
    <3>. QED
      BY <1>6, <2>5, ClosedInv DEF Opened, ctx, Current
  <2>6. RunInv(r) /\ r.call.flow \in {f, None} /\ Opened(f, keys, r)
    <3>1. CASE ttlElapsed(f) BY <2>2, <2>4, <2>5, <3>1
    <3>2. CASE ~ttlElapsed(f) /\ Len(inst[f]) > 1
      <4>. DEFINE n == selectExternal(sub, keys)
      <4>1. Level(sub) = 2 BY <2>3 DEF Level
      <4>2. Ready(sub)
        BY <1>6, <1>1, <1>4, <2>3, <3>2, <4>1 DEF loadForUpdate, isCompleted,
           Unfinished, Ready, RunType
      <4>3. /\ n.ins = inst[f] /\ n.ctx = ctx
            /\ \/ RunInv(n) /\ n.call.pc = "idle" /\ n.call.flow = None
               \/ /\ Working(n) /\ SameChain(sub, n) /\ Chosen(n).from = Current(n).state
                  /\ Chosen(n).type = "external" /\ n.call.pc = sub.call.pc
        BY <2>3, <4>2, SelectExternalInv
      <4>4. r = beginSubGuard(n) BY <3>2
      <4>. HIDE DEF n, r
      <4>5. CASE n.call.pc = "idle"
        BY <4>4, <4>5, <1>6, <2>3, <4>3 DEF beginSubGuard, Opened, ctx
      <4>6. CASE n.call.pc # "idle"
        <5>2. /\ RunInv(r) /\ SameChain(n, r) /\ r.call.pc = "subGuard"
              /\ r.ctx = n.ctx /\ Chosen(r) = Chosen(n) /\ SameChain(sub, n)
          <6>1. Working(n) /\ SameChain(sub, n) /\ Chosen(n).from = Current(n).state BY <4>3, <4>6
          <6>2. n.call.base = 2 /\ Len(n.call.depth) = 1 BY <2>3, <6>1 DEF SameChain
          <6>. HIDE DEF r
          <6>. QED
            BY <4>4, <4>6, <6>1, <6>2, AskedInv DEF beginSubGuard
        <5>3. Ready(r) /\ r.call.base = 2 /\ Level(r) = 2 /\ r.call.depth = << 0 >>
          BY <2>3, <4>1, <5>2 DEF SameChain, RunInv, Level
        <5>. QED BY <1>6, <2>3, <3>2, <4>3, <4>6, <5>2, <5>3 DEF Opened, SameChain, ctx
      <4>. QED BY <4>5, <4>6
    <3>3. CASE ~ttlElapsed(f) /\ ~(Len(inst[f]) > 1)
      <4>. DEFINE n == selectExternal(m, keys)
      <4>1. /\ n.ins = inst[f] /\ n.ctx = ctx
            /\ \/ RunInv(n) /\ n.call.pc = "idle" /\ n.call.flow = None
               \/ /\ Working(n) /\ SameChain(m, n) /\ Chosen(n).from = Current(n).state
                  /\ Chosen(n).type = "external" /\ n.call.pc = m.call.pc
        BY <2>2, <2>4, SelectExternalInv
      <4>2. r = beginRootGuard(n) BY <3>3
      <4>3. Len(inst[f]) = 1
        <5>1. \A z \in Nat : z >= 1 /\ ~(z > 1) => z = 1 OBVIOUS
        <5>. QED BY <1>4, <3>3, <5>1
      <4>. HIDE DEF n
      <4>4. CASE n.call.pc = "idle"
        <5>. HIDE DEF r
        <5>. QED
          BY <1>6, <2>2, <4>1, <4>4, <4>2 DEF Opened, ctx, beginRootGuard
      <4>5. ASSUME n.call.pc # "idle"
            PROVE  Working(n) /\ SameChain(m, n) /\ Ready(n) /\ Level(n) = 1
        BY <4>1, <4>5, <2>4, SameChainReady
      <4>6. CASE n.call.pc # "idle" /\ timedOut(n)
        <5>. HIDE DEF r
        <5>. QED
          BY <2>5, <4>1, <4>5, <4>6, <4>2 DEF beginRootGuard
      <4>7. CASE n.call.pc # "idle" /\ ~timedOut(n)
        <5>1. r = [n EXCEPT !.call.pc = "guard"] BY <4>2, <4>7 DEF beginRootGuard
        <5>. HIDE DEF r
        <5>2. /\ RunInv(r) /\ SameChain(n, r) /\ r.call.pc = "guard"
              /\ r.ctx = n.ctx /\ Chosen(r) = Chosen(n)
          <6>1. /\ Working(n) /\ Chosen(n).from = Current(n).state
                /\ n.call.base = 1 /\ Len(n.call.depth) = 1
            BY <2>2, <4>1, <4>5, <4>7 DEF SameChain
          <6>. QED
            BY <5>1, <6>1, AskedInv
        <5>3. Ready(r) /\ r.call.base = 1 /\ Level(r) = 1 /\ r.call.depth = << 0 >>
          BY <2>2, <4>5, <4>7, <5>2 DEF SameChain, RunInv, Level
        <5>. QED BY <1>6, <2>2, <4>1, <4>3, <4>5, <4>7, <5>2, <5>3 DEF Opened, SameChain, ctx
      <4>. QED BY <4>4, <4>6, <4>7
    <3>. QED BY <3>1, <3>2, <3>3
  <2>. HIDE DEF r
  <2>. QED
    BY <2>6, <1>2, <2>1 DEF Commit, Writes
<1>. QED BY <1>5, <1>6

LEMMA ResumeInv ==
    ASSUME Serialized, IndInv, NEW c \in Call, NEW f \in Flow, NEW keys \in Event,
           Resume(c, f, keys)
    PROVE  IndInv'
<1>1. PICK r : Writes(c, f, r) BY ResumeRun
<1>2. stored' \in SUBSET Flow /\ expiresAt' \in [Flow -> Nat] /\ UNCHANGED now
  BY DEF Resume, Commit, IndInv
<1>. QED BY <1>1, <1>2, CommitInv DEF Writes

-----------------------------------------------------------------------------
(* The answers of user code, one lemma per action.                         *)

(* A call that holds a transition can take it, at the level it was chosen  *)
(* at.                                                                     *)
LEMMA HoldingWorking ==
    ASSUME IndInv, NEW c \in Call, calls[c].pc \in Holding
    PROVE  /\ calls[c].pc # "idle" /\ now \in Nat
           /\ Working(Run(c)) /\ Run(c).call = calls[c]
           /\ Chosen(Run(c)).from = Current(Run(c)).state
           /\ calls[c].pc \in {"guard", "process"}
                => Run(c).call.base = 1 /\ Len(Run(c).call.depth) = 1
           /\ calls[c].pc = "subGuard"
                => Run(c).call.base = 2 /\ Len(Run(c).call.depth) = 1
<1>. QED
  BY RunOfCall DEF RunInv, Working, Holding

LEMMA GuardAcceptedInv ==
    ASSUME IndInv, NEW c \in Call, GuardAccepted(c)
    PROVE  IndInv'
<1>1. /\ calls[c].pc # "idle" /\ now \in Nat
      /\ Working(Run(c)) /\ Run(c).call = calls[c]
      /\ Chosen(Run(c)).from = Current(Run(c)).state
      /\ Run(c).call.base = 1 /\ Len(Run(c).call.depth) = 1
  BY HoldingWorking DEF Holding, GuardAccepted
<1>2. PICK data \in SUBSET Chosen(Run(c)).gives :
        LET m == [Run(c) EXCEPT !.call.backup = Run(c).ctx, !.ctx = @ \cup data]
        IN  IF Chosen(m).processor
            THEN Step(c, [m EXCEPT !.call.pc = "process"])
            ELSE ExternalTo(c, m)
  BY DEF GuardAccepted
<1>. DEFINE m == [Run(c) EXCEPT !.call.backup = Run(c).ctx, !.ctx = @ \cup data]
            n == [m EXCEPT !.call.pc = "process"]
<1>5. SameChain(Run(c), m) /\ m.call.t = Run(c).call.t
  BY <1>1, WorkingChosen DEF SameChain, Frame, Working, Ready, RunType
<1>6. CASE Chosen(m).processor
  <2>1. Step(c, n) BY <1>2, <1>6
  <2>. HIDE DEF m
  <2>2. SameChain(m, n) /\ n.call.t = m.call.t /\ n.call.pc = "process"
    BY <1>5 DEF SameChain, Frame, PC
  <2>. HIDE DEF n
  <2>3. SameChain(Run(c), n) /\ n.call.t = Run(c).call.t BY <1>5, <2>2 DEF SameChain
  <2>4. RunInv(n) BY <1>1, <2>2, <2>3, HoldingInv DEF Working, Chosen, SameChain, Holding
  <2>. QED BY <1>1, <2>1, <2>3, <2>4, StepInv DEF SameChain
<1>7. CASE ~Chosen(m).processor
  <2>1. ExternalTo(c, m) BY <1>2, <1>7
  <2>. HIDE DEF m
  <2>2. Working(m) /\ m.call.flow = calls[c].flow BY <1>1, <1>5, WorkingSame DEF SameChain
  <2>. QED BY <1>1, <2>1, <2>2, ExternalToInv
<1>. QED BY <1>6, <1>7

LEMMA GuardRejectedInv ==
    ASSUME IndInv, NEW c \in Call, GuardRejected(c)
    PROVE  IndInv'
<1>. DEFINE m == Run(c)
            x == incrementGuardFailure(Current(m))
            y == IF x.fails >= definitionOf(x).maxGuardRetries
                 THEN handleError(x, Chosen(m).from, None) ELSE x
<1>1. calls[c].pc = "guard" /\ Step(c, return(setCurrent(m, y))) BY DEF GuardRejected
<1>2. calls[c].pc # "idle" /\ now \in Nat /\ Working(m) BY <1>1, HoldingWorking DEF Holding
<1>3. Ready(m) /\ Unfinished(Current(m)) /\ Chosen(m).from \in State
  BY <1>2, WorkingChosen DEF Working
<1>. HIDE DEF m
<1>4. x \in Instance /\ Unfinished(x)
  BY <1>3, ReadyType DEF incrementGuardFailure, Instance, Unfinished
<1>. HIDE DEF x
<1>5. y \in Instance /\ ExitOK(y) BY <1>2, <1>3, <1>4, HandleErrorType DEF ExitOK
<1>. HIDE DEF y
<1>. QED
  BY <1>1, <1>2, <1>3, <1>5, SetCurrentType, ReturnInv, StepInv DEF Ready

LEMMA GuardExpiredInv ==
    ASSUME IndInv, NEW c \in Call, GuardExpired(c)
    PROVE  IndInv'
<1>. DEFINE m == Run(c)
            y == complete(Current(m), "EXPIRED")
<1>1. calls[c].pc = "guard" /\ Step(c, return(setCurrent(m, y))) BY DEF GuardExpired
<1>2. calls[c].pc # "idle" /\ Working(m) BY <1>1, HoldingWorking DEF Holding
<1>. HIDE DEF m
<1>3. y \in Instance /\ ExitOK(y)
  BY <1>2, ReadyType DEF Working, complete, Instance, Exit, ExitCode, ExitOK, Unfinished
<1>. HIDE DEF y
<1>5. RunInv(return(setCurrent(m, y))) /\ return(setCurrent(m, y)).call.flow = None
  BY <1>2, <1>3, SetCurrentType, ReturnInv DEF Ready, Working
<1>. QED BY <1>1, <1>2, <1>5, StepInv

LEMMA GuardThrowsInv ==
    ASSUME IndInv, NEW c \in Call, GuardThrows(c)
    PROVE  IndInv'
<1>. QED
  BY RunOfCall, ThrowInv, StepInv DEF Ready, Result, GuardThrows

LEMMA ProcessDoneInv ==
    ASSUME IndInv, NEW c \in Call, ProcessDone(c)
    PROVE  IndInv'
<1>1. PICK puts \in SUBSET Chosen(Run(c)).produces :
        calls[c].pc = "process" /\ ExternalTo(c, [Run(c) EXCEPT !.ctx = @ \cup puts])
  BY DEF ProcessDone
<1>. DEFINE m == [Run(c) EXCEPT !.ctx = @ \cup puts]
<1>2. calls[c].pc # "idle" /\ Working(Run(c)) /\ Run(c).call = calls[c]
  BY <1>1, HoldingWorking DEF Holding
<1>4. Working(m) /\ m.call = calls[c]
  BY <1>2, WorkingChosen, WorkingPut
<1>5. ExternalTo(c, m) BY <1>1
<1>. HIDE DEF m
<1>. QED BY <1>2, <1>4, <1>5, ExternalToInv

LEMMA ProcessThrowsInv ==
    ASSUME IndInv, NEW c \in Call, ProcessThrows(c)
    PROVE  IndInv'
<1>1. PICK e \in UserError : calls[c].pc = "process" /\ Step(c, failExternal(Run(c), e))
  BY DEF ProcessThrows
<1>. QED
  BY <1>1, HoldingWorking, FailExternalInv, StepInv DEF Holding

LEMMA AutoDoneInv ==
    ASSUME IndInv, NEW c \in Call, AutoDone(c)
    PROVE  IndInv'
<1>1. PICK puts \in SUBSET Chosen(Run(c)).produces :
        LET m == [Run(c) EXCEPT !.ctx = @ \cup puts]
        IN  IF producesVerified(m)
            THEN StepTo(c, m, Chosen(m).to)
            ELSE Step(c, failStep(m, FlowErrorClass))
  BY DEF AutoDone
<1>. DEFINE m == [Run(c) EXCEPT !.ctx = @ \cup puts]
<1>2. calls[c].pc # "idle" /\ Working(Run(c)) /\ Run(c).call = calls[c] /\ now \in Nat
  BY HoldingWorking DEF AutoDone, Holding
<1>4. Working(m) /\ m.call = calls[c]
  BY <1>2, WorkingChosen, WorkingPut
<1>5. CASE producesVerified(m)
  <2>1. StepTo(c, m, Chosen(m).to) BY <1>1, <1>5
  <2>. HIDE DEF m
  <2>. QED BY <1>2, <1>4, <2>1, WorkingChosen, StepToInv
<1>6. CASE ~producesVerified(m)
  <2>1. Step(c, failStep(m, FlowErrorClass)) BY <1>1, <1>6
  <2>. HIDE DEF m
  <2>2. RunInv(failStep(m, FlowErrorClass)) /\ failStep(m, FlowErrorClass).call.flow = calls[c].flow
    BY <1>2, <1>4, FailStepInv DEF Working
  <2>. QED BY <1>2, <2>1, <2>2, StepInv
<1>. QED BY <1>5, <1>6

(* The catch block of the auto-chain, whatever the try block did not do.   *)
LEMMA StepFailsInv ==
    ASSUME IndInv, NEW c \in Call, calls[c].pc \in Holding, NEW cause,
           Step(c, failStep(Run(c), cause))
    PROVE  IndInv'
<1>. QED
  BY HoldingWorking, FailStepInv, StepInv DEF Working

LEMMA DecideInv ==
    ASSUME IndInv, NEW c \in Call, Decide(c)
    PROVE  IndInv'
<1>0. calls[c].pc \in Holding BY DEF Decide, Holding
<1>1. PICK label \in Label :
         IF labelled(Run(c), label) = {}
         THEN Step(c, failStep(Run(c), FlowErrorClass))
         ELSE LET m == [Run(c) EXCEPT !.call.t = First(labelled(Run(c), label))]
              IN  IF Chosen(m).processor
                  THEN Step(c, [m EXCEPT !.call.pc = "branchProcess"])
                  ELSE StepTo(c, m, Chosen(m).to)
  BY DEF Decide
<1>2. /\ calls[c].pc # "idle" /\ Working(Run(c)) /\ Run(c).call = calls[c] /\ now \in Nat
      /\ Chosen(Run(c)).from = Current(Run(c)).state
  BY <1>0, HoldingWorking
<1>. DEFINE L == labelled(Run(c), label)
            t == First(L)
            d == definitionOf(Current(Run(c)))
            m == [Run(c) EXCEPT !.call.t = t]
            n == [m EXCEPT !.call.pc = "branchProcess"]
<1>3. CASE L = {} BY <1>0, <1>1, <1>3, StepFailsInv
<1>4. CASE L # {}
  <2>1. L \subseteq DOMAIN d.transitions /\ \A i \in L : d.transitions[i].from = Chosen(Run(c)).from
    BY DEF labelled, ofType, transitionsFrom
  <2>. HIDE DEF L
  <2>3. t \in L /\ t \in Nat
    BY <1>4, <1>2, <2>1, ReadyType, DefinitionType, FirstIn DEF Working
  <2>. HIDE DEF t
  <2>5. SameChain(Run(c), m) /\ m.call.t = t
    BY <2>3, <1>2 DEF SameChain, Frame, Working, Ready, RunType
  <2>6. /\ Ready(m) /\ Current(m) = Current(Run(c))
        /\ Unfinished(Current(m))
    BY <1>2, <2>5, SameChainReady DEF Working
  <2>7. CASE Chosen(m).processor
    <3>1. Step(c, n) BY <1>1, <1>4, <2>7 DEF L, t
    <3>. HIDE DEF m
    <3>2. SameChain(m, n) /\ n.call.t = m.call.t /\ n.call.pc = "branchProcess"
      BY <2>5 DEF SameChain, Frame, PC
    <3>. HIDE DEF n, d
    <3>3. /\ n.call.t \in DOMAIN definitionOf(Current(m)).transitions
          /\ definitionOf(Current(m)).transitions[n.call.t].from = Current(m).state
      BY <1>2, <2>1, <2>3, <2>5, <2>6, <3>2 DEF d
    <3>4. RunInv(n) BY <2>6, <3>2, <3>3, HoldingInv DEF Holding
    <3>. QED BY <1>2, <2>5, <3>1, <3>2, <3>4, StepInv DEF SameChain
  <2>8. CASE ~Chosen(m).processor
    <3>1. StepTo(c, m, Chosen(m).to) BY <1>1, <1>4, <2>8 DEF L, t
    <3>. HIDE DEF m
    <3>2. Working(m) /\ m.call.flow = calls[c].flow
      BY <1>2, <2>1, <2>3, <2>5, <2>6 DEF Working, SameChain
    <3>. QED BY <1>2, <3>1, <3>2, WorkingChosen, StepToInv
  <2>. QED BY <2>7, <2>8
<1>. QED BY <1>3, <1>4

LEMMA BranchProcessDoneInv ==
    ASSUME IndInv, NEW c \in Call, BranchProcessDone(c)
    PROVE  IndInv'
<1>1. PICK puts \in SUBSET Chosen(Run(c)).produces :
         StepTo(c, [Run(c) EXCEPT !.ctx = @ \cup puts], Chosen(Run(c)).to)
  BY DEF BranchProcessDone
<1>. DEFINE m == [Run(c) EXCEPT !.ctx = @ \cup puts]
<1>2. calls[c].pc # "idle" /\ Working(Run(c)) /\ Run(c).call = calls[c]
  BY HoldingWorking DEF BranchProcessDone, Holding
<1>3. puts \in SUBSET Key /\ Chosen(Run(c)).to \in State BY <1>2, WorkingChosen
<1>4. Working(m) /\ m.call = calls[c] BY <1>2, <1>3, WorkingPut
<1>5. StepTo(c, m, Chosen(Run(c)).to) BY <1>1
<1>. HIDE DEF m
<1>. QED BY <1>2, <1>3, <1>4, <1>5, StepToInv

LEMMA EnterSubFlowInv ==
    ASSUME IndInv, NEW c \in Call, EnterSubFlow(c)
    PROVE  IndInv'
<1>. QED
  BY RunOfCall, LoopInv, StepInv DEF EnterSubFlow

-----------------------------------------------------------------------------
(* The ends of auto-chains, and the guards of sub-flows.                   *)

LEMMA ChainReturnsInv ==
    ASSUME IndInv, NEW c \in Call, ChainReturns(c)
    PROVE  IndInv'
<1>. QED
  BY RunOfCall, ReturnInv, StepInv DEF Ready, ChainReturns

(* A sub-flow that waits for an event ends its parents' chains with it.    *)
LEMMA PopInv ==
    ASSUME NEW m, Ready(m), m.call.pc = "chainEnd", Len(m.call.depth) > 1,
           NEW n, n = [m EXCEPT !.call.depth = SubSeq(@, 1, Len(@) - 1)]
    PROVE  RunInv(n) /\ n.call.flow = m.call.flow
<1>. DEFINE D   == Len(m.call.depth)
            dep == SubSeq(m.call.depth, 1, D - 1)
<1>1. /\ m \in [ins: Seq(Instance), ctx: SUBSET Key, call: Frame]
      /\ m.call.depth \in Seq(Nat) /\ m.call.base \in {1, 2} /\ m.call.flow \in Flow
  BY DEF Ready, RunType, Frame
<1>2. D \in Nat /\ D > 1 BY ReadyType
<1>3. \A j \in 1 .. D - 1 : m.call.depth[j] \in Nat BY <1>1, <1>2, ElementOfSeq
<1>4. n = [m EXCEPT !.call = [m.call EXCEPT !.depth = dep]] OBVIOUS
<1>5. dep \in Seq(Nat) /\ Len(dep) = D - 1
  <2>. HIDE DEF D
  <2>. QED BY <1>2, <1>3, SubSeqProperties
<1>. HIDE DEF dep
<1>6. /\ n \in [ins: Seq(Instance), ctx: SUBSET Key, call: Frame]
      /\ n.ins = m.ins /\ n.call.flow = m.call.flow /\ n.call.base = m.call.base
      /\ n.call.depth = dep /\ n.call.pc = "chainEnd"
  <2>. DEFINE k == [m.call EXCEPT !.depth = dep]
  <2>1. /\ k \in Frame /\ k.flow = m.call.flow /\ k.base = m.call.base
        /\ k.depth = dep /\ k.pc = "chainEnd"
    BY <1>1, <1>5 DEF Frame
  <2>. HIDE DEF k
  <2>. QED
    BY <1>1, <1>4, <2>1 DEF k
<1>7. Level(n) \in Nat /\ Level(n) >= 1 /\ Level(n) = Level(m) - 1
  <2>1. Level(m) = m.call.base + D - 1 BY DEF Level
  <2>2. Level(n) = m.call.base + (D - 1) - 1 BY <1>5, <1>6 DEF Level
  <2>. HIDE DEF D
  <2>. QED BY <1>1, <1>2, <2>1, <2>2
<1>8. /\ Level(m) \in Nat /\ Level(m) \in DOMAIN m.ins
      /\ DOMAIN m.ins = 1 .. Len(m.ins) /\ Len(m.ins) \in Nat
  BY ReadyType DEF Ready
<1>9. Level(n) \in DOMAIN n.ins BY <1>6, <1>7, <1>8
<1>10. \A i \in DOMAIN n.ins : i < Level(n) => Unfinished(n.ins[i])
  <2>. SUFFICES ASSUME NEW i \in DOMAIN m.ins, i < Level(n) PROVE Unfinished(m.ins[i]) BY <1>6
  <2>. QED
    BY <1>7, <1>8 DEF Ready
<1>11. Len(n.call.depth) >= 1
  <2>. HIDE DEF D
  <2>. QED BY <1>2, <1>5, <1>6
<1>12. Ready(n) BY <1>1, <1>6, <1>9, <1>10, <1>11 DEF Ready, RunType
<1>. QED
  BY <1>6, <1>12, <1>1, EngineAssumption DEF RunInv, Ready, Holding

(* An error bubbles up to the parent, whose chain goes on.                 *)
LEMMA BubbleInv ==
    ASSUME NEW p, Ready(p), Unfinished(Current(p)), now \in Nat, NEW counted \in BOOLEAN,
           NEW k, k = setCurrent(p, handleError(Current(p), Current(p).state, None)),
           NEW n, n = loop(IF counted THEN deeper(k) ELSE k)
    PROVE  RunInv(n) /\ n.call.flow \in {p.call.flow, None}
<1>2. Ready(k) /\ k.call = p.call
  BY ReadyType, HandleErrorReady DEF Instance
<1>4. CASE counted
  BY <1>2, DeeperReady, <1>4, LoopInv
<1>5. CASE ~counted BY <1>2, <1>5, LoopInv
<1>. QED BY <1>4, <1>5

LEMMA SubChainEndsInv ==
    ASSUME IndInv, NEW c \in Call, SubChainEnds(c)
    PROVE  IndInv'
<1>. DEFINE m  == Run(c)
            p  == leaveSubFlow(m)
            to == exitTarget(Current(p), Current(m).exit)
            k  == setCurrent(p, handleError(Current(p), Current(p).state, None))
<1>1. /\ calls[c].pc = "chainEnd" /\ Len(calls[c].depth) > 1
      /\ IF ~isCompleted(Current(m))
         THEN Step(c, [m EXCEPT !.call.depth = SubSeq(@, 1, Len(@) - 1)])
         ELSE IF to # None THEN TakeExit(c, p, to, TRUE)
         ELSE Step(c, loop(deeper(k)))
  BY DEF SubChainEnds
<1>2. /\ calls[c].pc # "idle" /\ now \in Nat
      /\ Ready(m) /\ m.call = calls[c] /\ Current(m) \in Instance
  BY <1>1, RunOfCall, ReadyType
<1>. HIDE DEF m
<1>3. /\ Ready(p) /\ Unfinished(Current(p)) /\ p.call.flow = calls[c].flow
      /\ Current(p) \in Instance
  BY <1>1, <1>2, LeaveReady, ReadyType
<1>. HIDE DEF p
<1>4. CASE ~isCompleted(Current(m))
  <2>. DEFINE n == [m EXCEPT !.call.depth = SubSeq(@, 1, Len(@) - 1)]
  <2>1. Step(c, n) BY <1>1, <1>4
  <2>2. RunInv(n) /\ n.call.flow = calls[c].flow BY <1>1, <1>2, PopInv
  <2>. HIDE DEF n
  <2>. QED BY <1>2, <2>1, <2>2, StepInv
<1>5. CASE isCompleted(Current(m)) /\ to # None
  <2>2. to \in State
    BY <1>3, <1>5, <1>2, ExitTargetType DEF isCompleted, Instance
  <2>. HIDE DEF to
  <2>. QED
    BY <1>2, <1>3, <2>2, <1>1, <1>5, TakeExitInv
<1>6. CASE isCompleted(Current(m)) /\ to = None
  <2>. HIDE DEF k
  <2>. QED
    BY <1>2, <1>1, <1>6, <1>3, BubbleInv, StepInv DEF k
<1>. QED BY <1>4, <1>5, <1>6

LEMMA ResumedChainEndsInv ==
    ASSUME IndInv, NEW c \in Call, ResumedChainEnds(c)
    PROVE  IndInv'
<1>. DEFINE m  == Run(c)
            p  == leaveSubFlow(m)
            to == exitTarget(Current(p), Current(m).exit)
<1>1. /\ calls[c].pc = "chainEnd" /\ calls[c].base = 2
      /\ IF ~isCompleted(Current(m)) THEN Step(c, return(m))
         ELSE IF to # None THEN TakeExit(c, p, to, FALSE)
         ELSE Step(c, return(p))
  BY DEF ResumedChainEnds
<1>2. /\ calls[c].pc # "idle" /\ Ready(m) /\ m.call = calls[c] /\ Current(m) \in Instance
  BY <1>1, RunOfCall, ReadyType
<1>. HIDE DEF m
<1>3. /\ Ready(p) /\ Unfinished(Current(p)) /\ p.call.flow = calls[c].flow
      /\ Current(p) \in Instance
  BY <1>1, <1>2, LeaveReady, ReadyType
<1>. HIDE DEF p
<1>4. CASE ~isCompleted(Current(m))
  BY <1>2, ReturnInv, <1>1, <1>4, StepInv DEF Ready
<1>5. CASE isCompleted(Current(m)) /\ to # None
  <2>2. to \in State
    BY <1>3, <1>5, <1>2, ExitTargetType DEF isCompleted, Instance
  <2>. HIDE DEF to
  <2>. QED
    BY <1>2, <1>3, <2>2, <1>1, <1>5, TakeExitInv
<1>6. CASE isCompleted(Current(m)) /\ to = None
  BY <1>3, ReturnInv, <1>1, <1>2, <1>6, StepInv DEF Ready
<1>. QED BY <1>4, <1>5, <1>6

LEMMA SubGuardAcceptedInv ==
    ASSUME IndInv, NEW c \in Call, SubGuardAccepted(c)
    PROVE  IndInv'
<1>1. PICK data \in SUBSET Chosen(Run(c)).gives :
         LET m == [Run(c) EXCEPT !.ctx = @ \cup data]
         IN  Step(c, loop(setCurrent(m, moveTo(Current(m), Chosen(m).to, "ok"))))
  BY DEF SubGuardAccepted
<1>. DEFINE m == [Run(c) EXCEPT !.ctx = @ \cup data]
            k == setCurrent(m, moveTo(Current(m), Chosen(m).to, "ok"))
<1>2. calls[c].pc # "idle" /\ now \in Nat /\ Working(Run(c)) /\ Run(c).call = calls[c]
  BY HoldingWorking DEF SubGuardAccepted, Holding
<1>4. Working(m) /\ m.call = calls[c]
  BY <1>2, WorkingChosen, WorkingPut
<1>5. Step(c, loop(k)) BY <1>1
<1>. HIDE DEF m
<1>6. Working(k) /\ k.call = calls[c] BY <1>2, <1>4, WorkingChosen, WorkingMove
<1>. HIDE DEF k
<1>7. RunInv(loop(k)) /\ loop(k).call.flow \in {calls[c].flow, None}
  BY <1>2, <1>6, LoopInv DEF Working
<1>. QED BY <1>2, <1>5, <1>7, StepInv

LEMMA SubGuardRejectedInv ==
    ASSUME IndInv, NEW c \in Call, SubGuardRejected(c)
    PROVE  IndInv'
<1>. DEFINE m  == Run(c)
            x  == incrementGuardFailure(Current(m))
            p  == leaveSubFlow(m)
            to == exitTarget(Current(p), "ERROR")
            k  == setCurrent(p, handleError(Current(p), Current(p).state, None))
<1>1. /\ calls[c].pc = "subGuard"
      /\ IF x.fails < definitionOf(x).maxGuardRetries THEN Step(c, return(setCurrent(m, x)))
         ELSE IF to # None THEN TakeExit(c, p, to, FALSE)
         ELSE Step(c, loop(k))
  BY DEF SubGuardRejected
<1>2. /\ calls[c].pc # "idle" /\ now \in Nat
      /\ Working(m) /\ m.call = calls[c] /\ m.call.base = 2 /\ Current(m) \in Instance
  BY <1>1, HoldingWorking, ReadyType DEF Holding, Working
<1>3. Ready(m) BY <1>2 DEF Working
<1>. HIDE DEF m
<1>4. /\ Ready(p) /\ Unfinished(Current(p)) /\ p.call.flow = calls[c].flow
      /\ Current(p) \in Instance
  BY <1>2, <1>3, LeaveReady, ReadyType
<1>. HIDE DEF p
<1>5. CASE x.fails < definitionOf(x).maxGuardRetries
  <2>1. x \in Instance /\ ExitOK(x)
    BY <1>2 DEF Working, incrementGuardFailure, Instance, Unfinished, ExitOK
  <2>. HIDE DEF x
  <2>4. RunInv(return(setCurrent(m, x))) /\ return(setCurrent(m, x)).call.flow = None
    BY <1>3, <2>1, SetCurrentType, ReturnInv DEF Ready
  <2>. QED
    BY <1>2, <1>1, <1>5, <2>4, StepInv
<1>6. CASE ~(x.fails < definitionOf(x).maxGuardRetries) /\ to # None
  <2>1. to \in State BY <1>4, <1>6, ExitTargetType DEF Exit, ExitCode
  <2>. HIDE DEF to
  <2>. QED
    BY <1>2, <1>4, <2>1, <1>1, <1>6, TakeExitInv
<1>7. CASE ~(x.fails < definitionOf(x).maxGuardRetries) /\ to = None
  <2>. HIDE DEF k
  <2>. QED
    BY <1>2, <1>1, <1>7, <1>4, BubbleInv, StepInv DEF k
<1>. QED BY <1>5, <1>6, <1>7

LEMMA SubGuardExpiredInv ==
    ASSUME IndInv, NEW c \in Call, SubGuardExpired(c)
    PROVE  IndInv'
<1>. DEFINE m == Run(c)
            x == complete(m.ins[1], "EXPIRED")
            s == [m.ins EXCEPT ![1] = x]
            n == [m EXCEPT !.ins = s]
<1>1. calls[c].pc = "subGuard" /\ Step(c, return([m EXCEPT !.ins[1] = complete(@, "EXPIRED")]))
  BY DEF SubGuardExpired
<1>2. calls[c].pc # "idle" /\ Ready(m) BY <1>1, HoldingWorking DEF Holding, Working
<1>. HIDE DEF m
<1>3. Step(c, return(n)) BY <1>1
<1>4. /\ m \in [ins: Seq(Instance), ctx: SUBSET Key, call: Frame]
      /\ DOMAIN m.ins = 1 .. Len(m.ins) /\ Len(m.ins) \in Nat
      /\ 1 \in 1 .. Len(m.ins) /\ m.ins[1] \in Instance
  BY <1>2, ReadyType DEF Ready, RunType
<1>5. x \in Instance /\ ExitOK(x) BY <1>4 DEF complete, Instance, Exit, ExitCode, ExitOK, Unfinished
<1>. HIDE DEF x
<1>6. /\ s \in Seq(Instance) /\ DOMAIN s = DOMAIN m.ins
      /\ \A i \in DOMAIN m.ins : s[i] = IF i = 1 THEN x ELSE m.ins[i]
  BY <1>4, <1>5, ExceptSeq
<1>. HIDE DEF s
<1>7. n \in [ins: Seq(Instance), ctx: SUBSET Key, call: Frame] /\ n.ins = s BY <1>4, <1>6
<1>. HIDE DEF n
<1>8. RunType(n) BY <1>2, <1>5, <1>6, <1>7 DEF RunType, Ready
<1>9. RunInv(return(n)) /\ return(n).call.flow = None BY <1>8, ReturnInv
<1>. QED BY <1>2, <1>3, <1>9, StepInv

-----------------------------------------------------------------------------
(* The invariant.                                                          *)

LEMMA InitInv == Init => IndInv
<1>. SUFFICES ASSUME Init PROVE IndInv OBVIOUS
<1>2. Idle("none") \in Frame /\ Idle("none").pc = "idle" /\ Idle("none").flow = None
  BY IdleType DEF Result
<1>4. inst \in [Flow -> Seq(Instance)]
  BY EmptySeq DEF Init
<1>5. \A f \in Flow : DOMAIN inst[f] = {} BY DEF Init
<1>. QED
  BY <1>2, <1>4, <1>5 DEF IndInv, Init

(* A step that leaves the flows and the calls alone.                       *)
LEMMA UnchangedInv ==
    ASSUME IndInv, UNCHANGED <<inst, context, calls>>,
           expiresAt' \in [Flow -> Nat], stored' \in SUBSET Flow, now' \in Nat
    PROVE  IndInv'
<1>1. ASSUME NEW c \in Call, calls'[c].pc # "idle" PROVE RunInv(Run(c))'
  BY <1>1 DEF Run, IndInv
<1>. QED BY <1>1 DEF IndInv

LEMMA ContinueInv ==
    ASSUME IndInv, NEW c \in Call, Continue(c)
    PROVE  IndInv'
<1>1. CASE GuardAccepted(c) BY <1>1, GuardAcceptedInv
<1>2. CASE GuardRejected(c) BY <1>2, GuardRejectedInv
<1>3. CASE GuardExpired(c) BY <1>3, GuardExpiredInv
<1>4. CASE GuardThrows(c) BY <1>4, GuardThrowsInv
<1>5. CASE ProcessDone(c) BY <1>5, ProcessDoneInv
<1>6. CASE ProcessThrows(c) BY <1>6, ProcessThrowsInv
<1>7. CASE AutoDone(c) BY <1>7, AutoDoneInv
<1>8. CASE AutoThrows(c) BY <1>8, StepFailsInv DEF AutoThrows, Holding
<1>9. CASE Decide(c) BY <1>9, DecideInv
<1>10. CASE DecideThrows(c) BY <1>10, StepFailsInv DEF DecideThrows, Holding
<1>11. CASE BranchProcessDone(c) BY <1>11, BranchProcessDoneInv
<1>12. CASE BranchProcessThrows(c) BY <1>12, StepFailsInv DEF BranchProcessThrows, Holding
<1>13. CASE EnterSubFlow(c) BY <1>13, EnterSubFlowInv
<1>14. CASE ChainReturns(c) BY <1>14, ChainReturnsInv
<1>15. CASE SubChainEnds(c) BY <1>15, SubChainEndsInv
<1>16. CASE ResumedChainEnds(c) BY <1>16, ResumedChainEndsInv
<1>17. CASE SubGuardAccepted(c) BY <1>17, SubGuardAcceptedInv
<1>18. CASE SubGuardRejected(c) BY <1>18, SubGuardRejectedInv
<1>19. CASE SubGuardExpired(c) BY <1>19, SubGuardExpiredInv
<1>. QED BY <1>1, <1>2, <1>3, <1>4, <1>5, <1>6, <1>7, <1>8, <1>9, <1>10, <1>11, <1>12,
     <1>13, <1>14, <1>15, <1>16, <1>17, <1>18, <1>19 DEF Continue

(* Every step of the system keeps the invariant.                           *)
LEMMA NextInv ==
    ASSUME Serialized, IndInv, [Next]_vars
    PROVE  IndInv'
<1>1. ASSUME NEW c \in Call, NEW f \in Flow, NEW name \in Root, NEW keys \in Event,
             StartFlow(c, f, name, keys)
      PROVE  IndInv'
  BY <1>1, StartFlowInv
<1>2. ASSUME NEW c \in Call, NEW f \in Flow, NEW keys \in Event, Resume(c, f, keys)
      PROVE  IndInv'
  BY <1>2, ResumeInv
<1>3. ASSUME NEW c \in Call, Continue(c) PROVE IndInv' BY <1>3, ContinueInv
<1>4. CASE Tick BY <1>4, UnchangedInv DEF Tick, IndInv
<1>5. CASE Clear BY <1>5, UnchangedInv DEF Clear, IndInv
<1>6. CASE UNCHANGED vars BY <1>6, UnchangedInv DEF vars, IndInv
<1>. QED BY <1>1, <1>2, <1>3, <1>4, <1>5, <1>6 DEF Next

(* Reachable states satisfy the invariant.                                 *)
LEMMA Invariance == ASSUME Serialized PROVE Spec => []IndInv
<1>1. Init => IndInv BY InitInv
<1>2. IndInv /\ [Next]_vars => IndInv' BY NextInv
<1>. QED BY <1>1, <1>2, PTL DEF Spec

(* The variables have their types, and the frame of every call under way   *)
(* fits the flow it works on: whatever user code answers or throws, no     *)
(* auto-chain runs on an instance that is not on its flow's path, and no   *)
(* call holds a transition that its current definition does not have.      *)
THEOREM TypeCorrect == ASSUME Serialized PROVE Spec => []TypeOK
<1>1. IndInv => TypeOK
  <2>. SUFFICES ASSUME IndInv PROVE TypeOK OBVIOUS
  <2>1. ASSUME NEW c \in Call, calls[c].pc # "idle"
        PROVE  /\ calls[c].flow \in Flow
               /\ calls[c].depth # <<>>
               /\ Level(Run(c)) \in DOMAIN inst[calls[c].flow]
               /\ calls[c].pc \in Holding
                    => calls[c].t \in DOMAIN definitionOf(Current(Run(c))).transitions
    BY <2>1, RunOfCall DEF Run, Ready, RunInv
  <2>. QED BY <2>1 DEF IndInv, TypeOK
<1>2. Spec => []IndInv BY Invariance
<1>. QED BY <1>1, <1>2, PTL

(* Exit codes tell the truth: an instance completed under the name of a    *)
(* state is in that state, and the state is terminal.                      *)
THEOREM ExitsAreConsistent == ASSUME Serialized PROVE Spec => []ExitConsistent
<1>1. IndInv => ExitConsistent BY DEF IndInv, ExitConsistent, ExitOK, Unfinished, isCompleted
<1>2. Spec => []IndInv BY Invariance
<1>. QED BY <1>1, <1>2, PTL

-----------------------------------------------------------------------------
(* The states that can come after r in one step, error routes included.    *)
Nexts(d, r) ==
    (Successors(d, r) \cup {d.routes[i].to : i \in {j \in DOMAIN d.routes : d.routes[j].from = r}})
        \cap d.states

(* A flow in state s is past transitions that account for the keys K.      *)
Provided(K, d, s) ==
    \A k \in K \ UNION Event :
        \E i \in DOMAIN d.transitions :
            /\ k \in d.transitions[i].produces \cup d.transitions[i].gives
            /\ s \in Follows(d, d.transitions[i].to)

NoSub(ins) == ~hasSubFlow(definitionOf(ins[1]))

(* The same of an instance.                                                *)
Has(K, x) == Provided(K, definitionOf(x), x.state)

DataOK(m) ==
    NoSub(m.ins) =>
        /\ Len(m.ins) = 1
        /\ m.call.pc # "process" => Has(m.ctx, m.ins[1])
        /\ m.call.pc \in {"process", "auto", "decide", "branchProcess"} => Has(m.call.backup, m.ins[1])
        /\ m.call.pc = "process" => m.ctx \subseteq m.call.backup \cup Chosen(m).gives

RestOK(ins, ctx) == NoSub(ins) => Len(ins) = 1 /\ Has(ctx, ins[1])

DataInv ==
    /\ \A c \in Call : calls[c].pc # "idle" => DataOK(Run(c))
    /\ \A f \in Flow : AtRest(f) => RestOK(inst[f], context[f])

-----------------------------------------------------------------------------
(* Definitions.                                                            *)

LEMMA FollowsAll ==
    ASSUME NEW d, NEW s
    PROVE  /\ s \in d.states => s \in Follows(d, s)
           /\ \A x \in Follows(d, s) : \A y : y \in Nexts(d, x) => y \in Follows(d, s)
<1>. QED
  BY DEF Follows, Nexts

(* What accounts for data in a state accounts for it in the next one.      *)
LEMMA ProvidedNext ==
    ASSUME NEW K, NEW d, NEW s, Provided(K, d, s), NEW y \in Nexts(d, s)
    PROVE  Provided(K, d, y)
BY FollowsAll DEF Provided

LEMMA OwnStates ==
    ASSUME NEW x \in Instance, NEW d, d = definitionOf(x)
    PROVE  /\ \A i \in DOMAIN d.transitions : d.transitions[i].to \in d.states
           /\ \A s \in State : d.onError[s] # None => d.onError[s] \in d.states
           /\ \A i \in DOMAIN d.routes : d.routes[i].to \in d.states
BY StatesAssumption DEF Instance, definitionOf

(* Taking a transition accounts for what its guard and processor put.      *)
LEMMA ProvidedTaken ==
    ASSUME NEW x \in Instance, NEW d, d = definitionOf(x), ~hasSubFlow(d),
           NEW i \in DOMAIN d.transitions, NEW K, Provided(K, d, d.transitions[i].from),
           NEW L, L \subseteq K \cup d.transitions[i].produces \cup d.transitions[i].gives
    PROVE  Provided(L, d, d.transitions[i].to)
<1>. DEFINE t == d.transitions[i]
<1>3. t.to \in Nexts(d, t.from) /\ t.to \in Follows(d, t.to)
  BY OwnStates, FollowsAll DEF Nexts, Successors, transitionsFrom, hasSubFlow
<1>. QED
  BY <1>3, ProvidedNext DEF Provided

(* So does taking an error route.                                          *)
LEMMA ProvidedRouted ==
    ASSUME NEW x \in Instance, NEW d, d = definitionOf(x), NEW s \in State, NEW cause,
           ErrorTarget(d, s, cause) # None, NEW K, Provided(K, d, s)
    PROVE  Provided(K, d, ErrorTarget(d, s, cause))
<1>. DEFINE M == {i \in DOMAIN d.routes : /\ d.routes[i].from = s
                                          /\ cause # None
                                          /\ <<cause, d.routes[i].class>> \in InstanceOf}
            target == ErrorTarget(d, s, cause)
<1>1. CASE M = {}
  <2>2. target \in {d.onError[s]} \ {None} /\ target \in d.states
    BY <1>1, OwnStates DEF ErrorTarget
  <2>. HIDE DEF target
  <2>4. target \in Nexts(d, s)
    BY <2>2 DEF Nexts, Successors
  <2>. QED BY <2>4, ProvidedNext DEF target
<1>2. CASE M # {}
  <2>3. M \subseteq Nat
    BY DefinitionType, LenProperties DEF Definition
  <2>5. target = d.routes[First(M)].to BY <1>2 DEF ErrorTarget
  <2>6. First(M) \in {j \in DOMAIN d.routes : d.routes[j].from = s} /\ target \in d.states
    BY <1>2, <2>3, FirstIn, <2>5, OwnStates
  <2>7. target \in {d.routes[i].to : i \in {j \in DOMAIN d.routes : d.routes[j].from = s}}
    BY <2>5, <2>6
  <2>8. target \in Nexts(d, s) BY <2>6, <2>7, Zenon DEF Nexts
  <2>. QED BY <2>8, ProvidedNext
<1>. QED BY <1>1, <1>2

-----------------------------------------------------------------------------
(* Instances.                                                              *)

LEMMA MoveState ==
    ASSUME NEW x \in Instance, NEW to, NEW o \in {"ok", "enter", "exit"}
    PROVE  moveTo(x, to, o).state = IF o = "exit" THEN x.state ELSE to
BY DEF moveTo, transitionTo, recordTransition, Instance

(* After an error the instance is where it was, or where the route leads.  *)
LEMMA HandleErrorState ==
    ASSUME NEW x \in Instance, NEW s, NEW cause
    PROVE  /\ handleError(x, s, cause).state =
                IF ErrorTarget(definitionOf(x), s, cause) = None THEN x.state
                ELSE ErrorTarget(definitionOf(x), s, cause)
           /\ handleError(x, s, cause).def = x.def
BY DEF handleError, complete, transitionTo, recordTransition, Instance

LEMMA HandleErrorHas ==
    ASSUME NEW x \in Instance, NEW s \in State, NEW cause, NEW K,
           Provided(K, definitionOf(x), s), Has(K, x)
    PROVE  Has(K, handleError(x, s, cause))
<1>. DEFINE y == handleError(x, s, cause)
            target == ErrorTarget(definitionOf(x), s, cause)
<1>1. /\ y.state = (IF target = None THEN x.state ELSE target)
      /\ definitionOf(y) = definitionOf(x)
  BY HandleErrorState DEF definitionOf
<1>2. target # None => Provided(K, definitionOf(x), target) BY ProvidedRouted
<1>. HIDE DEF y, target
<1>. QED BY <1>1, <1>2 DEF Has, y

-----------------------------------------------------------------------------
(* Runs.                                                                   *)

(* A flow with one instance runs at the outermost level.                   *)
LEMMA FlatRun ==
    ASSUME NEW m, Ready(m), Len(m.ins) = 1
    PROVE  /\ Level(m) = 1 /\ Current(m) = m.ins[1]
           /\ m.call.base = 1 /\ Len(m.call.depth) = 1
<1>1. m.call.base \in {1, 2} /\ Len(m.call.depth) \in Nat BY ReadyType DEF Ready, RunType, Frame
<1>2. Level(m) = 1 /\ Len(m.call.depth) >= 1 BY ReadyType DEF Ready
<1>3. m.call.base + Len(m.call.depth) - 1 = 1 BY <1>2 DEF Level
<1>4. \A b \in {1, 2}, n \in Nat : n >= 1 /\ b + n - 1 = 1 => b = 1 /\ n = 1 OBVIOUS
<1>5. m.call.base = 1 /\ Len(m.call.depth) = 1 BY <1>1, <1>2, <1>3, <1>4, Zenon
<1>. QED BY <1>2, <1>5 DEF Current

(* Changing the current instance does not change what the flow is.         *)
LEMMA SetRoot ==
    ASSUME NEW m, Ready(m), NEW x, x.def = Current(m).def, NEW n, n = setCurrent(m, x)
    PROVE  /\ Len(n.ins) = Len(m.ins) /\ n.ins[1].def = m.ins[1].def
           /\ n.ctx = m.ctx /\ n.call = m.call
           /\ Len(m.ins) = 1 => n.ins[1] = x
<1>. DEFINE L == Level(m)
            s == [m.ins EXCEPT ![L] = x]
<1>1. m \in [ins: Seq(Instance), ctx: SUBSET Key, call: Frame] BY DEF Ready, RunType
<1>2. /\ DOMAIN m.ins = 1 .. Len(m.ins) /\ Len(m.ins) \in Nat
      /\ L \in 1 .. Len(m.ins)
  BY ReadyType DEF Ready
<1>6. m.ins[L] = Current(m) BY DEF Current
<1>. QED
  BY <1>2, <1>1, <1>6 DEF setCurrent

(* A run whose chain may go on, as far as data is concerned.               *)
Calm(m) == NoSub(m.ins) => Len(m.ins) = 1 /\ Has(m.ctx, m.ins[1])

LEMMA CalmEnds ==
    ASSUME NEW m, Calm(m), NEW n, n.ins = m.ins, n.ctx = m.ctx,
           n.call.pc \notin {"process", "auto", "decide", "branchProcess"}
    PROVE  DataOK(n)
BY DEF Calm, DataOK

(* A call that ends, by return or by throw, leaves the data alone.         *)
LEMMA EndData ==
    ASSUME NEW m, Ready(m), Calm(m)
    PROVE  /\ DataOK(return(m))
           /\ \A code : DataOK(throw(m, code))
<1>2. ASSUME NEW r PROVE DataOK([m EXCEPT !.call = Idle(r)])
  <2>. DEFINE n == [m EXCEPT !.call = Idle(r)]
  <2>. HIDE DEF n
  <2>. QED
    BY CalmEnds DEF n, Idle, Ready, RunType
<1>. QED BY <1>2 DEF return, throw

(* A turn of the auto-chain leaves the data alone; it takes its snapshot.  *)
LEMMA LoopData ==
    ASSUME NEW m, Ready(m), now \in Nat, Calm(m)
    PROVE  DataOK(loop(m))
<1>. DEFINE x     == Current(m)
            d     == definitionOf(x)
            steps == ofType(d, x.state, {"auto", "branch"})
            n     == loop(m)
<1>0. /\ m \in [ins: Seq(Instance), ctx: SUBSET Key, call: Frame]
      /\ x \in Instance
  BY ReadyType DEF Ready, RunType
<1>1. CASE m.call.depth[Len(m.call.depth)] >= MaxChainDepth
  <2>. HIDE DEF n
  <2>. QED
    BY <1>0, <1>1, CalmEnds DEF n, Idle, loop, throw
<1>2. CASE ~(m.call.depth[Len(m.call.depth)] >= MaxChainDepth) /\ isTerminal(x)
  <2>. DEFINE y == complete(x, x.state)
              k == setCurrent(m, y)
  <2>1. n = [k EXCEPT !.call.pc = "chainEnd"] BY <1>2 DEF loop
  <2>2. y \in Instance /\ ExitOK(y) /\ y.def = x.def /\ y.state = x.state
    BY <1>0, <1>2 DEF complete, Instance, Exit, ExitOK, isTerminal, definitionOf
  <2>. HIDE DEF y
  <2>3. /\ Ready(k) /\ Len(k.ins) = Len(m.ins) /\ k.ins[1].def = m.ins[1].def
        /\ k.ctx = m.ctx /\ k.call = m.call
        /\ Len(m.ins) = 1 => k.ins[1] = y
    BY <2>2, SetCurrentType, SetRoot
  <2>. HIDE DEF k
  <2>4. n.ins = k.ins /\ n.ctx = k.ctx /\ n.call.pc = "chainEnd"
    BY <2>1, <2>3 DEF Ready, RunType, Frame
  <2>. HIDE DEF n
  <2>5. Calm(k)
    <3>. SUFFICES ASSUME NoSub(k.ins) PROVE Len(k.ins) = 1 /\ Has(k.ctx, k.ins[1]) BY DEF Calm
    <3>2. Len(m.ins) = 1 /\ Has(m.ctx, m.ins[1]) /\ x = m.ins[1]
      BY <2>3, FlatRun DEF Calm, NoSub, definitionOf
    <3>. HIDE DEF x
    <3>. QED
      BY <2>3, <3>2, <2>2 DEF Has, definitionOf
  <2>. QED BY <2>4, <2>5, CalmEnds DEF n
<1>3. CASE /\ ~(m.call.depth[Len(m.call.depth)] >= MaxChainDepth) /\ ~isTerminal(x)
           /\ ofType(d, x.state, {"sub_flow"}) # {}
  <2>2. n.ins[1] = m.ins[1] /\ (Len(m.ins) = 1 => x = m.ins[1])
    <3>. DEFINE L == Level(m)
                pre == SubSeq(m.ins, 1, L)
                t == d.transitions[First(ofType(d, x.state, {"sub_flow"}))]
                new == NewInstance(t.sub, now)
    <3>1. m.ins \in Seq(Instance) /\ L \in 1 .. Len(m.ins) /\ Len(m.ins) \in Nat
      BY <1>0, ReadyType DEF Ready
    <3>2. n.ins = Append(pre, new)
      BY <1>0, <1>3 DEF startSubFlow, loop
    <3>. HIDE DEF new, n, t
    <3>3. Len(pre) = L /\ \A i \in 1 .. L : pre[i] = m.ins[i] BY <3>1
    <3>. HIDE DEF pre
    <3>. QED
      BY <3>1, <3>2, <3>3, FlatRun
  <2>. HIDE DEF n
  <2>4. ~NoSub(n.ins)
    BY <2>2, <1>3 DEF NoSub, Calm, ofType, transitionsFrom, hasSubFlow
  <2>. QED BY <2>4 DEF DataOK, n
<1>4. CASE /\ ~(m.call.depth[Len(m.call.depth)] >= MaxChainDepth) /\ ~isTerminal(x)
           /\ ofType(d, x.state, {"sub_flow"}) = {} /\ steps # {}
  <2>. DEFINE i == First(steps)
              pc == IF d.transitions[i].type = "auto" THEN "auto" ELSE "decide"
  <2>1. n = [m EXCEPT !.call.t = i, !.call.backup = m.ctx, !.call.pc = pc] BY <1>4 DEF loop
  <2>. HIDE DEF i, pc
  <2>3. n.ins = m.ins /\ n.ctx = m.ctx /\ n.call.backup = m.ctx /\ n.call.pc = pc
    BY <1>0, <2>1, ZenonT(40) DEF Frame
  <2>. HIDE DEF n
  <2>. QED
    BY <2>3 DEF Calm, DataOK, n
<1>5. CASE /\ ~(m.call.depth[Len(m.call.depth)] >= MaxChainDepth) /\ ~isTerminal(x)
           /\ ofType(d, x.state, {"sub_flow"}) = {} /\ steps = {}
  <2>. HIDE DEF n
  <2>. QED
    BY <1>0, <1>5, CalmEnds DEF n, Frame, loop
<1>. QED BY <1>1, <1>2, <1>3, <1>4, <1>5

(* The same of a run whose chain goes on after other changes of its        *)
(* current instance than a change of state.                                *)
LEMMA SameStateCalm ==
    ASSUME NEW m, Ready(m), Calm(m), NEW x, x.def = Current(m).def, x.state = Current(m).state,
           NEW n, n = setCurrent(m, x)
    PROVE  Calm(n) /\ n.ctx = m.ctx /\ n.call = m.call
<1>1. /\ Len(n.ins) = Len(m.ins) /\ n.ins[1].def = m.ins[1].def
      /\ n.ctx = m.ctx /\ n.call = m.call
      /\ Len(m.ins) = 1 => n.ins[1] = x
  BY SetRoot
<1>2. SUFFICES ASSUME NoSub(n.ins) PROVE Len(n.ins) = 1 /\ Has(n.ctx, n.ins[1]) BY <1>1 DEF Calm
<1>. QED
  BY <1>1, <1>2, FlatRun DEF Has, definitionOf, Calm, NoSub

(* An error route taken with the data K in the context.                    *)
LEMMA ErrorData ==
    ASSUME NEW m, Ready(m), NEW x \in Instance, x.def = Current(m).def, NEW s \in State, NEW cause, NEW K,
           NoSub(m.ins) => Len(m.ins) = 1 /\ Has(K, x) /\ Provided(K, definitionOf(x), s),
           NEW n, n = setCurrent(m, handleError(x, s, cause))
    PROVE  /\ NoSub(n.ins) => Len(n.ins) = 1 /\ Has(K, n.ins[1])
           /\ n.ctx = m.ctx /\ n.call = m.call
<1>. DEFINE y == handleError(x, s, cause)
<1>2. Has(K, x) /\ Provided(K, definitionOf(x), s) => Has(K, y) BY HandleErrorHas
<1>. HIDE DEF y
<1>3. /\ Len(n.ins) = Len(m.ins) /\ n.ins[1].def = m.ins[1].def
      /\ n.ctx = m.ctx /\ n.call = m.call
      /\ Len(m.ins) = 1 => n.ins[1] = y
  BY HandleErrorState, SetRoot DEF y
<1>. QED BY <1>2, <1>3 DEF NoSub, definitionOf

(* The snapshot fits the state the flow is in.                             *)
Snapped(m) == NoSub(m.ins) => Len(m.ins) = 1 /\ Has(m.call.backup, m.ins[1])

(* A run about to take the transition it holds: beside data accounted for, *)
(* the context holds what the transition's guard and processor provide.    *)
Taken(m) ==
    /\ Snapped(m)
    /\ Chosen(m).from = Current(m).state
    /\ NoSub(m.ins) =>
         \E K : Has(K, m.ins[1]) /\ m.ctx \subseteq K \cup Chosen(m).produces \cup Chosen(m).gives

LEMMA FailStepData ==
    ASSUME NEW m, Ready(m), Snapped(m), NEW cause
    PROVE  DataOK(failStep(m, cause))
<1>. DEFINE x == Current(m)
            k == setCurrent(m, handleError(x, x.state, cause))
            n == failStep(m, cause)
<1>1. x \in Instance /\ x.state \in State BY ReadyType DEF Instance
<1>2. NoSub(m.ins) => Len(m.ins) = 1 /\ Has(m.call.backup, x)
                      /\ Provided(m.call.backup, definitionOf(x), x.state)
  BY FlatRun DEF Snapped, Has
<1>3. /\ NoSub(k.ins) => Len(k.ins) = 1 /\ Has(m.call.backup, k.ins[1])
      /\ k.ctx = m.ctx /\ k.call = m.call
  <2>1. k = setCurrent(m, handleError(x, x.state, cause)) /\ x.def = Current(m).def OBVIOUS
  <2>. HIDE DEF k, n, x
  <2>. QED BY <1>1, <1>2, <2>1, ErrorData
<1>6. n = [k EXCEPT !.ctx = m.call.backup, !.call.pc = "chainEnd"] BY DEF failStep
<1>. HIDE DEF k, n
<1>7. n.ins = k.ins /\ n.ctx = m.call.backup /\ n.call.pc = "chainEnd"
  BY <1>3, <1>6 DEF Frame, setCurrent, Ready, RunType
<1>. QED BY <1>3, <1>7 DEF DataOK, n

LEMMA FailExternalData ==
    ASSUME NEW m, Working(m), Snapped(m), NEW cause,
           NoSub(m.ins) => Provided(m.call.backup, definitionOf(Current(m)), Chosen(m).from)
    PROVE  DataOK(failExternal(m, cause))
<1>. DEFINE x == Current(m)
            k == setCurrent(m, handleError(x, Chosen(m).from, cause))
            n == failExternal(m, cause)
<1>1. Ready(m) /\ x \in Instance /\ Chosen(m).from \in State BY ReadyType, WorkingChosen DEF Working
<1>2. NoSub(m.ins) => Len(m.ins) = 1 /\ Has(m.call.backup, x)
                      /\ Provided(m.call.backup, definitionOf(x), Chosen(m).from)
  BY <1>1, FlatRun DEF Snapped
<1>3. /\ NoSub(k.ins) => Len(k.ins) = 1 /\ Has(m.call.backup, k.ins[1])
      /\ k.ctx = m.ctx /\ k.call = m.call
  <2>1. k = setCurrent(m, handleError(x, Chosen(m).from, cause)) /\ x.def = Current(m).def OBVIOUS
  <2>. HIDE DEF k, n, x
  <2>. QED BY <1>1, <1>2, <2>1, ErrorData
<1>4. m \in [ins: Seq(Instance), ctx: SUBSET Key, call: Frame] BY <1>1 DEF Ready, RunType
<1>6. n = return([k EXCEPT !.ctx = m.call.backup]) BY DEF failExternal
<1>. HIDE DEF k, n
<1>7. n.ins = k.ins /\ n.ctx = m.call.backup /\ n.call.pc = "idle"
  BY <1>3, <1>4, <1>6 DEF return, Idle, setCurrent
<1>. QED BY <1>3, <1>7 DEF DataOK, n

(* Taking the transition, actions throwing or not.                         *)
LEMMA MoveData ==
    ASSUME NEW m, Working(m), Taken(m), NEW o \in {"ok", "enter", "exit"}, now \in Nat,
           NEW n, n = setCurrent(m, moveTo(Current(m), Chosen(m).to, o))
    PROVE  /\ Working(n) /\ n.call = m.call
           /\ Snapped(n)
           /\ NoSub(n.ins) => Provided(n.call.backup, definitionOf(Current(n)), Chosen(n).from)
           /\ o = "ok" => Calm(n)
<1>. DEFINE x == Current(m)
            to == Chosen(m).to
            y == moveTo(x, to, o)
            B == m.call.backup
<1>1. Ready(m) /\ x \in Instance /\ to \in State BY ReadyType, WorkingChosen DEF Working
<1>2. Working(n) /\ n.call = m.call /\ Chosen(n) = Chosen(m) BY <1>1, WorkingMove
<1>3. y.def = x.def /\ y.state = (IF o = "exit" THEN x.state ELSE to) BY <1>1, MoveToType, MoveState
<1>. HIDE DEF y
<1>4. /\ Len(n.ins) = Len(m.ins) /\ n.ins[1].def = m.ins[1].def
      /\ n.ctx = m.ctx
      /\ Len(m.ins) = 1 => n.ins[1] = y
  BY <1>1, <1>3, SetRoot DEF y
<1>5. CASE ~NoSub(m.ins)
  BY <1>4, <1>5, <1>2 DEF NoSub, definitionOf, Snapped, Calm
<1>6. CASE NoSub(m.ins)
  <2>1. /\ Len(m.ins) = 1 /\ x = m.ins[1] /\ Has(B, x)
        /\ Chosen(m).from = x.state
    BY <1>1, <1>6, FlatRun DEF Taken, Snapped
  <2>2. PICK K : Has(K, x) /\ m.ctx \subseteq K \cup Chosen(m).produces \cup Chosen(m).gives
    BY <1>6, <2>1 DEF Taken
  <2>3. /\ n.ins[1] = y /\ Len(n.ins) = 1 /\ Current(n) = y
        /\ definitionOf(y) = definitionOf(x)
    BY <1>2, <1>3, <1>4, <2>1, FlatRun DEF definitionOf, Working
  <2>. DEFINE d == definitionOf(x)
              i == m.call.t
  <2>4. /\ i \in DOMAIN d.transitions /\ Chosen(m) = d.transitions[i]
        /\ ~hasSubFlow(d)
    BY <1>6, <2>1 DEF Working, Chosen, NoSub
  <2>5. Provided(B, d, x.state) /\ Provided(K, d, x.state) BY <2>1, <2>2 DEF Has
  <2>. HIDE DEF x, B, i
  <2>6. ASSUME NEW J, NEW L, Provided(J, d, x.state),
               L \subseteq J \cup Chosen(m).produces \cup Chosen(m).gives
        PROVE  Provided(L, d, to)
    <3>. HIDE DEF d
    <3>. QED
      BY <2>4, <1>1, <2>6, <2>1, ProvidedTaken DEF d
  <2>. HIDE DEF d, to
  <2>9. Has(B, y)
    BY <1>3, <2>3, <2>5, <2>6 DEF Has, d
  <2>10. o = "ok" => Has(m.ctx, y)
    BY <1>3, <2>3, <2>2, <2>5, <2>6 DEF Has, d
  <2>. QED BY <1>2, <1>4, <2>1, <2>3, <2>5, <2>9, <2>10 DEF Snapped, Calm, d, B
<1>. QED BY <1>5, <1>6

-----------------------------------------------------------------------------
(* Steps.                                                                  *)

LEMMA CommitData ==
    ASSUME IndInv, DataInv, NEW c \in Call, NEW f \in Flow, NEW m,
           \A b \in Call : b # c => calls[b].flow # f,
           calls[c].flow \in {f, None},
           RunInv(m), m.call.flow \in {f, None}, DataOK(m),
           inst' = [inst EXCEPT ![f] = m.ins],
           context' = [context EXCEPT ![f] = m.ctx],
           calls' = [calls EXCEPT ![c] = m.call]
    PROVE  DataInv'
<1>1. Written(c, f, m) /\ m = [ins |-> m.ins, ctx |-> m.ctx, call |-> m.call]
  BY CommitRun DEF RunInv, RunType
<1>2. ASSUME NEW b \in Call, calls'[b].pc # "idle" PROVE DataOK(Run(b))'
  <2>1. CASE b = c
    BY <1>1, <1>2, <2>1 DEF RunInv, Written
  <2>2. CASE b # c
    BY <1>1, <1>2, <2>2 DEF DataInv, Written
  <2>. QED BY <2>1, <2>2
<1>3. ASSUME NEW g \in Flow, AtRest(g)' PROVE RestOK(inst'[g], context'[g])
  <2>1. \A b \in Call : calls'[b].flow # g BY <1>3 DEF AtRest, Busy
  <2>2. CASE g = f
    BY <1>1, <2>1, <2>2 DEF Written, RunInv, DataOK, RestOK
  <2>3. CASE g # f
    BY <2>3, EngineAssumption, <1>1, <1>3, <2>1 DEF AtRest, Busy, Started, Written, DataInv
  <2>. QED BY <2>2, <2>3
<1>. QED BY <1>2, <1>3 DEF DataInv

LEMMA StepData ==
    ASSUME IndInv, DataInv, NEW c \in Call, calls[c].pc # "idle", NEW m,
           RunInv(m), m.call.flow \in {calls[c].flow, None}, DataOK(m), Step(c, m)
    PROVE  DataInv'
<1>1. /\ calls[c].flow \in Flow
      /\ \A b \in Call : b # c => calls[b].flow # calls[c].flow
  BY RunOfCall
<1>2. /\ inst' = [inst EXCEPT ![calls[c].flow] = m.ins]
      /\ context' = [context EXCEPT ![calls[c].flow] = m.ctx]
      /\ calls' = [calls EXCEPT ![c] = m.call]
  BY Zenon DEF Step, Commit
<1>3. calls[c].flow \in {calls[c].flow, None} OBVIOUS
<1>. QED BY <1>1, <1>2, <1>3, CommitData, Zenon

(* A step of the auto-chain to its target.                                 *)
LEMMA StepToData ==
    ASSUME IndInv, DataInv, NEW c \in Call, calls[c].pc # "idle", NEW m, Working(m), Taken(m),
           m.call.flow = calls[c].flow, StepTo(c, m, Chosen(m).to)
    PROVE  DataInv'
<1>. DEFINE to == Chosen(m).to
<1>0. now \in Nat BY DEF IndInv
<1>1. CASE Step(c, loop(deeper(setCurrent(m, moveTo(Current(m), to, "ok")))))
  <2>. DEFINE k == setCurrent(m, moveTo(Current(m), to, "ok"))
              n == deeper(k)
  <2>1. Working(k) /\ k.call = m.call /\ Calm(k) BY <1>0, MoveData
  <2>2. Step(c, loop(n)) BY <1>1
  <2>. HIDE DEF k
  <2>3. Ready(n) /\ n.call.flow = m.call.flow BY <2>1, DeeperReady DEF Working
  <2>4. n.ins = k.ins /\ n.ctx = k.ctx
    BY <2>1 DEF Working, Ready, RunType, deeper
  <2>. HIDE DEF n
  <2>5. Calm(n) BY <2>1, <2>4 DEF Calm
  <2>6. RunInv(loop(n)) /\ loop(n).call.flow \in {m.call.flow, None} /\ DataOK(loop(n))
    BY <1>0, <2>3, <2>5, LoopInv, LoopData
  <2>. QED BY <2>2, <2>6, StepData
<1>2. CASE \E o \in Throwing(Current(m), to), e \in ActionError :
             Step(c, failStep(setCurrent(m, moveTo(Current(m), to, o)), e))
  <2>1. PICK o \in Throwing(Current(m), to), e \in ActionError :
               Step(c, failStep(setCurrent(m, moveTo(Current(m), to, o)), e))
    BY <1>2
  <2>. DEFINE k == setCurrent(m, moveTo(Current(m), to, o))
  <2>3. Working(k) /\ k.call = m.call /\ Snapped(k)
    BY <1>0, ThrowingType, MoveData
  <2>4. Step(c, failStep(k, e)) BY <2>1
  <2>. HIDE DEF k
  <2>5. /\ RunInv(failStep(k, e)) /\ failStep(k, e).call.flow = m.call.flow
        /\ DataOK(failStep(k, e))
    BY <1>0, <2>3, FailStepInv, FailStepData DEF Working
  <2>. QED BY <2>4, <2>5, StepData
<1>. QED BY <1>1, <1>2 DEF StepTo

(* The external transition of the flow itself.                             *)
LEMMA ExternalToData ==
    ASSUME IndInv, DataInv, NEW c \in Call, calls[c].pc # "idle", NEW m, Working(m), Taken(m),
           m.call.flow = calls[c].flow, ExternalTo(c, m)
    PROVE  DataInv'
<1>. DEFINE to == Chosen(m).to
<1>0. now \in Nat BY DEF IndInv
<1>1. CASE Step(c, loop(setCurrent(m, moveTo(Current(m), to, "ok"))))
  <2>. DEFINE k == setCurrent(m, moveTo(Current(m), to, "ok"))
  <2>1. Working(k) /\ k.call = m.call /\ Calm(k) BY <1>0, MoveData
  <2>2. Step(c, loop(k)) BY <1>1
  <2>. HIDE DEF k
  <2>3. RunInv(loop(k)) /\ loop(k).call.flow \in {m.call.flow, None} /\ DataOK(loop(k))
    BY <1>0, <2>1, LoopInv, LoopData DEF Working
  <2>. QED BY <2>2, <2>3, StepData
<1>2. CASE \E o \in Throwing(Current(m), to), e \in ActionError :
             Step(c, failExternal(setCurrent(m, moveTo(Current(m), to, o)), e))
  <2>1. PICK o \in Throwing(Current(m), to), e \in ActionError :
               Step(c, failExternal(setCurrent(m, moveTo(Current(m), to, o)), e))
    BY <1>2
  <2>. DEFINE k == setCurrent(m, moveTo(Current(m), to, o))
  <2>3. /\ Working(k) /\ Snapped(k)
        /\ NoSub(k.ins) => Provided(k.call.backup, definitionOf(Current(k)), Chosen(k).from)
    BY <1>0, ThrowingType, MoveData
  <2>4. Step(c, failExternal(k, e)) BY <2>1
  <2>. HIDE DEF k
  <2>5. /\ RunInv(failExternal(k, e)) /\ failExternal(k, e).call.flow = None
        /\ DataOK(failExternal(k, e))
    BY <1>0, <2>3, FailExternalInv, FailExternalData
  <2>. QED BY <2>4, <2>5, StepData
<1>. QED BY <1>1, <1>2 DEF ExternalTo

-----------------------------------------------------------------------------
(* The answers of user code.                                               *)

(* What the invariant says of a call that holds a transition.              *)
LEMMA HoldingData ==
    ASSUME IndInv, DataInv, NEW c \in Call, calls[c].pc \in Holding
    PROVE  /\ DataOK(Run(c)) /\ Working(Run(c)) /\ Ready(Run(c))
           /\ Run(c).call = calls[c] /\ calls[c].pc # "idle" /\ now \in Nat
           /\ Chosen(Run(c)).from = Current(Run(c)).state
           /\ NoSub(Run(c).ins) => Len(Run(c).ins) = 1 /\ Current(Run(c)) = Run(c).ins[1]
<1>. QED
  BY HoldingWorking, FlatRun DEF DataOK, DataInv, Working

(* The run of a try block whose user code has put data into the context.   *)
LEMMA PutData ==
    ASSUME IndInv, DataInv, NEW c \in Call, calls[c].pc \in {"process", "auto", "branchProcess"},
           NEW puts \in SUBSET Chosen(Run(c)).produces,
           NEW m, m = [Run(c) EXCEPT !.ctx = @ \cup puts]
    PROVE  /\ Working(m) /\ Taken(m) /\ m.call = calls[c] /\ Chosen(m) = Chosen(Run(c))
           /\ calls[c].pc # "idle" /\ now \in Nat
<1>. DEFINE r == Run(c)
<1>1. /\ DataOK(r) /\ Working(r) /\ Ready(r)
      /\ r.call = calls[c] /\ calls[c].pc # "idle" /\ now \in Nat
      /\ Chosen(r).from = Current(r).state
  BY HoldingData DEF Holding
<1>. HIDE DEF r
<1>3. Working(m) /\ Current(m) = Current(r) /\ Chosen(m) = Chosen(r) /\ m.call = r.call
  BY <1>1, WorkingChosen, WorkingPut DEF r
<1>5. m.ins = r.ins /\ m.ctx = r.ctx \cup puts
  BY <1>1 DEF r, Ready, RunType
<1>7. ASSUME NoSub(m.ins)
      PROVE  \E K : Has(K, m.ins[1]) /\ m.ctx \subseteq K \cup Chosen(m).produces \cup Chosen(m).gives
  <2>1. CASE r.call.pc = "process"
    BY <1>1, <1>5, <1>7, <2>1, <1>3 DEF DataOK, r
  <2>2. CASE r.call.pc # "process"
    BY <1>1, <1>5, <1>7, <2>2, <1>3 DEF DataOK, r
  <2>. QED BY <2>1, <2>2
<1>. QED
  BY <1>1, <1>3, <1>5, <1>7 DEF Taken, r, Snapped, DataOK

LEMMA GuardAcceptedData ==
    ASSUME IndInv, DataInv, NEW c \in Call, GuardAccepted(c)
    PROVE  DataInv'
<1>. DEFINE r == Run(c)
<1>0. calls[c].pc = "guard" BY DEF GuardAccepted
<1>1. /\ DataOK(r) /\ Working(r) /\ Ready(r)
      /\ r.call = calls[c] /\ calls[c].pc # "idle" /\ now \in Nat
      /\ Chosen(r).from = Current(r).state
      /\ r.call.base = 1 /\ Len(r.call.depth) = 1
  BY <1>0, HoldingData, HoldingWorking DEF Holding
<1>2. PICK data \in SUBSET Chosen(r).gives :
        LET m == [r EXCEPT !.call.backup = r.ctx, !.ctx = @ \cup data]
        IN  IF Chosen(m).processor
            THEN Step(c, [m EXCEPT !.call.pc = "process"])
            ELSE ExternalTo(c, m)
  BY DEF GuardAccepted
<1>. DEFINE m == [r EXCEPT !.call.backup = r.ctx, !.ctx = @ \cup data]
            n == [m EXCEPT !.call.pc = "process"]
<1>. HIDE DEF r
<1>5. /\ SameChain(r, m) /\ m.call.t = r.call.t
      /\ m.ins = r.ins /\ m.ctx = r.ctx \cup data /\ m.call.backup = r.ctx
  BY <1>1, WorkingChosen DEF SameChain, Frame, Ready, RunType
<1>6. NoSub(r.ins) => Len(r.ins) = 1 /\ Has(r.ctx, r.ins[1]) BY <1>0, <1>1 DEF DataOK
<1>7. CASE Chosen(m).processor
  <2>1. Step(c, n) BY <1>2, <1>7
  <2>. HIDE DEF m
  <2>2. /\ SameChain(m, n) /\ n.call.t = m.call.t /\ n.call.pc = "process"
        /\ n.ins = m.ins /\ n.ctx = m.ctx /\ n.call.backup = m.call.backup
    BY <1>5 DEF SameChain, Frame, PC
  <2>. HIDE DEF n
  <2>3. SameChain(r, n) /\ n.call.t = r.call.t BY <1>5, <2>2 DEF SameChain
  <2>5. RunInv(n) BY <1>1, <2>2, <2>3, HoldingInv DEF Working, Chosen, SameChain, Holding
  <2>6. DataOK(n)
    BY <1>5, <1>6, <2>2, <1>1, <2>3, WorkingSame DEF DataOK
  <2>. QED BY <1>1, <2>1, <2>3, <2>5, <2>6, StepData DEF SameChain
<1>8. CASE ~Chosen(m).processor
  <2>1. ExternalTo(c, m) BY <1>2, <1>8
  <2>. HIDE DEF m
  <2>2. /\ Working(m) /\ m.call.flow = calls[c].flow
        /\ Chosen(m) = Chosen(r) /\ Current(m) = Current(r)
    BY <1>1, <1>5, WorkingSame DEF SameChain
  <2>3. Taken(m) BY <1>1, <1>5, <1>6, <2>2 DEF Taken, Snapped
  <2>. QED BY <1>1, <2>1, <2>2, <2>3, ExternalToData
<1>. QED BY <1>7, <1>8

(* A rejected guard gives no data.                                         *)
LEMMA GuardRejectedData ==
    ASSUME IndInv, DataInv, NEW c \in Call, GuardRejected(c)
    PROVE  DataInv'
<1>. DEFINE m == Run(c)
            x == incrementGuardFailure(Current(m))
            y == IF x.fails >= definitionOf(x).maxGuardRetries
                 THEN handleError(x, Chosen(m).from, None) ELSE x
            k == setCurrent(m, y)
<1>1. calls[c].pc = "guard" /\ Step(c, return(k)) BY DEF GuardRejected
<1>2. /\ DataOK(m) /\ Working(m) /\ Ready(m)
      /\ m.call = calls[c] /\ calls[c].pc # "idle" /\ now \in Nat
      /\ Chosen(m).from = Current(m).state
      /\ NoSub(m.ins) => Len(m.ins) = 1 /\ Current(m) = m.ins[1]
  BY <1>1, HoldingData DEF Holding
<1>3. Unfinished(Current(m)) /\ Chosen(m).from \in State /\ Current(m) \in Instance
  BY <1>2, WorkingChosen, ReadyType DEF Working
<1>. HIDE DEF m
<1>4. /\ x \in Instance /\ Unfinished(x)
      /\ x.def = Current(m).def /\ x.state = Current(m).state
  BY <1>3 DEF incrementGuardFailure, Instance, Unfinished
<1>. HIDE DEF x
<1>5. y \in Instance /\ ExitOK(y) BY <1>2, <1>3, <1>4, HandleErrorType DEF ExitOK
<1>6. Calm(m) BY <1>1, <1>2 DEF Calm, DataOK
<1>7. Calm(k)
  <2>1. CASE y = x BY <1>2, <1>4, <1>6, <2>1, SameStateCalm
  <2>2. CASE y = handleError(x, Chosen(m).from, None)
    <3>1. NoSub(m.ins) => Len(m.ins) = 1 /\ Has(m.ctx, x)
                          /\ Provided(m.ctx, definitionOf(x), Chosen(m).from)
      BY <1>2, <1>4, <1>6 DEF Calm, Has, definitionOf
    <3>2. k = setCurrent(m, handleError(x, Chosen(m).from, None)) BY <2>2
    <3>. HIDE DEF k, y
    <3>3. /\ NoSub(k.ins) => Len(k.ins) = 1 /\ Has(m.ctx, k.ins[1])
          /\ k.ctx = m.ctx
      BY <1>2, <1>3, <1>4, <3>1, <3>2, ErrorData
    <3>. QED BY <3>3 DEF Calm
  <2>. QED BY <2>1, <2>2
<1>. HIDE DEF y
<1>8. Ready(k) BY <1>2, <1>5, SetCurrentType
<1>. HIDE DEF k
<1>10. DataOK(return(k)) BY <1>7, <1>8, EndData
<1>. QED
  BY <1>1, <1>2, <1>8, ReturnInv, <1>10, StepData DEF Ready

LEMMA GuardExpiredData ==
    ASSUME IndInv, DataInv, NEW c \in Call, GuardExpired(c)
    PROVE  DataInv'
<1>. DEFINE m == Run(c)
            y == complete(Current(m), "EXPIRED")
            k == setCurrent(m, y)
<1>1. calls[c].pc = "guard" /\ Step(c, return(k)) BY DEF GuardExpired
<1>2. DataOK(m) /\ Ready(m) /\ m.call = calls[c] /\ calls[c].pc # "idle"
  BY <1>1, HoldingData DEF Holding
<1>. HIDE DEF m
<1>3. y \in Instance /\ ExitOK(y) /\ y.def = Current(m).def /\ y.state = Current(m).state
  BY <1>2, ReadyType DEF complete, Instance, Exit, ExitCode, ExitOK, Unfinished
<1>. HIDE DEF y
<1>5. Ready(k) /\ Calm(k)
  BY <1>2, <1>3, <1>1, SetCurrentType, SameStateCalm DEF Calm, DataOK
<1>. HIDE DEF k
<1>. QED
  BY <1>1, <1>2, <1>5, ReturnInv, EndData, StepData DEF Ready

LEMMA GuardThrowsData ==
    ASSUME IndInv, DataInv, NEW c \in Call, GuardThrows(c)
    PROVE  DataInv'
<1>. DEFINE m == Run(c)
<1>1. calls[c].pc \in {"guard", "subGuard"} /\ Step(c, throw(m, "GUARD_THREW")) BY DEF GuardThrows
<1>2. DataOK(m) /\ Ready(m) /\ m.call = calls[c] /\ calls[c].pc # "idle"
  BY <1>1, HoldingData DEF Holding
<1>. HIDE DEF m
<1>4. /\ RunInv(throw(m, "GUARD_THREW")) /\ throw(m, "GUARD_THREW").call.flow = None
      /\ DataOK(throw(m, "GUARD_THREW"))
  BY <1>2, <1>1, ThrowInv, EndData DEF Ready, Result, Calm, DataOK
<1>. QED BY <1>1, <1>2, <1>4, StepData

LEMMA ProcessDoneData ==
    ASSUME IndInv, DataInv, NEW c \in Call, ProcessDone(c)
    PROVE  DataInv'
<1>1. PICK puts \in SUBSET Chosen(Run(c)).produces :
        calls[c].pc = "process" /\ ExternalTo(c, [Run(c) EXCEPT !.ctx = @ \cup puts])
  BY DEF ProcessDone
<1>. DEFINE m == [Run(c) EXCEPT !.ctx = @ \cup puts]
<1>. HIDE DEF m
<1>. QED
  BY <1>1, PutData, ExternalToData

(* The snapshot of the external step is older than its guard's data.       *)
LEMMA ProcessThrowsData ==
    ASSUME IndInv, DataInv, NEW c \in Call, ProcessThrows(c)
    PROVE  DataInv'
<1>. DEFINE m == Run(c)
<1>1. PICK e \in UserError : calls[c].pc = "process" /\ Step(c, failExternal(m, e))
  BY DEF ProcessThrows
<1>2. /\ DataOK(m) /\ Working(m) /\ m.call = calls[c] /\ calls[c].pc # "idle" /\ now \in Nat
      /\ Chosen(m).from = Current(m).state
      /\ NoSub(m.ins) => Len(m.ins) = 1 /\ Current(m) = m.ins[1]
  BY <1>1, HoldingData DEF Holding
<1>. HIDE DEF m
<1>4. /\ RunInv(failExternal(m, e)) /\ failExternal(m, e).call.flow = None
      /\ DataOK(failExternal(m, e))
  BY <1>2, <1>1, FailExternalInv, FailExternalData DEF Snapped, DataOK, Has
<1>. QED BY <1>1, <1>2, <1>4, StepData

LEMMA AutoDoneData ==
    ASSUME IndInv, DataInv, NEW c \in Call, AutoDone(c)
    PROVE  DataInv'
<1>1. PICK puts \in SUBSET Chosen(Run(c)).produces :
        LET m == [Run(c) EXCEPT !.ctx = @ \cup puts]
        IN  IF producesVerified(m)
            THEN StepTo(c, m, Chosen(m).to)
            ELSE Step(c, failStep(m, FlowErrorClass))
  BY DEF AutoDone
<1>. DEFINE m == [Run(c) EXCEPT !.ctx = @ \cup puts]
<1>2. Working(m) /\ Taken(m) /\ m.call = calls[c] /\ calls[c].pc # "idle" /\ now \in Nat
  BY PutData DEF AutoDone
<1>3. CASE producesVerified(m)
  <2>1. StepTo(c, m, Chosen(m).to) BY <1>1, <1>3
  <2>. HIDE DEF m
  <2>. QED BY <1>2, <2>1, StepToData
<1>4. CASE ~producesVerified(m)
  <2>1. Step(c, failStep(m, FlowErrorClass)) BY <1>1, <1>4
  <2>. HIDE DEF m
  <2>2. /\ RunInv(failStep(m, FlowErrorClass)) /\ failStep(m, FlowErrorClass).call.flow = calls[c].flow
        /\ DataOK(failStep(m, FlowErrorClass))
    BY <1>2, FailStepInv, FailStepData DEF Working, Taken
  <2>. QED BY <1>2, <2>1, <2>2, StepData
<1>. QED BY <1>3, <1>4

LEMMA StepFailsData ==
    ASSUME IndInv, DataInv, NEW c \in Call, calls[c].pc \in {"auto", "decide", "branchProcess"},
           NEW cause, Step(c, failStep(Run(c), cause))
    PROVE  DataInv'
<1>. DEFINE m == Run(c)
<1>1. /\ DataOK(m) /\ Working(m) /\ m.call = calls[c] /\ calls[c].pc # "idle" /\ now \in Nat
  BY HoldingData DEF Holding
<1>2. Step(c, failStep(m, cause)) OBVIOUS
<1>. HIDE DEF m
<1>4. /\ RunInv(failStep(m, cause)) /\ failStep(m, cause).call.flow = calls[c].flow
      /\ DataOK(failStep(m, cause))
  BY <1>1, FailStepInv, FailStepData DEF Working, Snapped, DataOK
<1>. QED BY <1>1, <1>2, <1>4, StepData

LEMMA DecideData ==
    ASSUME IndInv, DataInv, NEW c \in Call, Decide(c)
    PROVE  DataInv'
<1>. DEFINE r == Run(c)
<1>0. calls[c].pc = "decide" BY DEF Decide
<1>1. PICK label \in Label :
         IF labelled(r, label) = {}
         THEN Step(c, failStep(r, FlowErrorClass))
         ELSE LET m == [r EXCEPT !.call.t = First(labelled(r, label))]
              IN  IF Chosen(m).processor
                  THEN Step(c, [m EXCEPT !.call.pc = "branchProcess"])
                  ELSE StepTo(c, m, Chosen(m).to)
  BY DEF Decide
<1>2. /\ DataOK(r) /\ Working(r) /\ Ready(r)
      /\ r.call = calls[c] /\ calls[c].pc # "idle" /\ now \in Nat
      /\ Chosen(r).from = Current(r).state
  BY <1>0, HoldingData DEF Holding
<1>. DEFINE L == labelled(r, label)
            t == First(L)
            d == definitionOf(Current(r))
            m == [r EXCEPT !.call.t = t]
            n == [m EXCEPT !.call.pc = "branchProcess"]
<1>3. CASE L = {} BY <1>0, <1>1, <1>3, StepFailsData
<1>4. CASE L # {}
  <2>. HIDE DEF r
  <2>1. L \subseteq DOMAIN d.transitions /\ \A i \in L : d.transitions[i].from = Chosen(r).from
    BY DEF labelled, ofType, transitionsFrom
  <2>. HIDE DEF L
  <2>3. t \in L /\ t \in Nat
    BY <1>4, <1>2, <2>1, ReadyType, DefinitionType, FirstIn
  <2>. HIDE DEF t
  <2>5. /\ SameChain(r, m) /\ m.call.t = t /\ m.ins = r.ins /\ m.ctx = r.ctx
        /\ m.call.backup = r.call.backup
    BY <2>3, <1>2 DEF SameChain, Frame, Ready, RunType
  <2>6. Ready(m) /\ Current(m) = Current(r) /\ Unfinished(Current(m))
    BY <1>2, <2>5, SameChainReady DEF Working
  <2>7. NoSub(r.ins) => Len(r.ins) = 1 /\ Has(r.ctx, r.ins[1]) /\ Has(r.call.backup, r.ins[1])
    BY <1>0, <1>2 DEF DataOK
  <2>8. CASE Chosen(m).processor
    <3>1. Step(c, n) BY <1>1, <1>4, <2>8 DEF L, t
    <3>. HIDE DEF m
    <3>2. /\ SameChain(m, n) /\ n.call.t = m.call.t /\ n.call.pc = "branchProcess"
          /\ n.ins = m.ins /\ n.ctx = m.ctx /\ n.call.backup = m.call.backup
      BY <2>5 DEF SameChain, Frame, PC
    <3>. HIDE DEF n, d
    <3>3. /\ n.call.t \in DOMAIN definitionOf(Current(m)).transitions
          /\ definitionOf(Current(m)).transitions[n.call.t].from = Current(m).state
      BY <1>2, <2>1, <2>3, <2>5, <2>6, <3>2 DEF d
    <3>4. RunInv(n) BY <2>6, <3>2, <3>3, HoldingInv DEF Holding
    <3>5. DataOK(n) BY <2>5, <2>7, <3>2 DEF DataOK
    <3>. QED BY <1>2, <2>5, <3>1, <3>2, <3>4, <3>5, StepData DEF SameChain
  <2>9. CASE ~Chosen(m).processor
    <3>1. StepTo(c, m, Chosen(m).to) BY <1>1, <1>4, <2>9 DEF L, t
    <3>. HIDE DEF m
    <3>2. /\ Working(m) /\ m.call.flow = calls[c].flow
          /\ Chosen(m).from = Current(m).state
      BY <1>2, <2>1, <2>3, <2>5, <2>6 DEF Working, SameChain, Chosen
    <3>. QED
      BY <1>2, <3>1, <3>2, <2>5, <2>7, StepToData DEF Taken, Snapped
  <2>. QED BY <2>8, <2>9
<1>. QED BY <1>3, <1>4

LEMMA BranchProcessDoneData ==
    ASSUME IndInv, DataInv, NEW c \in Call, BranchProcessDone(c)
    PROVE  DataInv'
<1>1. PICK puts \in SUBSET Chosen(Run(c)).produces :
         StepTo(c, [Run(c) EXCEPT !.ctx = @ \cup puts], Chosen(Run(c)).to)
  BY DEF BranchProcessDone
<1>. DEFINE m == [Run(c) EXCEPT !.ctx = @ \cup puts]
<1>2. /\ Working(m) /\ Taken(m) /\ m.call = calls[c] /\ Chosen(m) = Chosen(Run(c))
      /\ calls[c].pc # "idle"
  BY PutData DEF BranchProcessDone
<1>3. StepTo(c, m, Chosen(Run(c)).to) BY <1>1
<1>. HIDE DEF m
<1>4. StepTo(c, m, Chosen(m).to) BY <1>2, <1>3
<1>. QED BY <1>2, <1>4, StepToData

-----------------------------------------------------------------------------
(* Sub-flows.  The property is about flows without any; what is left to    *)
(* see is that the steps of the others do not turn them into such flows.   *)

(* A run that is, or starts, below its root has sub-flows.                 *)
LEMMA DeepRun ==
    ASSUME NEW m, Ready(m), DataOK(m), m.call.base = 2 \/ Len(m.call.depth) > 1
    PROVE  ~NoSub(m.ins)
<1>. SUFFICES ASSUME NoSub(m.ins) PROVE FALSE OBVIOUS
<1>2. m.call.base = 1 /\ Len(m.call.depth) = 1
  BY FlatRun DEF DataOK
<1>. QED BY <1>2

LEMMA NotFlat ==
    ASSUME NEW m, ~NoSub(m.ins), NEW n, n.ins[1].def = m.ins[1].def
    PROVE  ~NoSub(n.ins) /\ DataOK(n) /\ Calm(n)
BY DEF NoSub, definitionOf, DataOK, Calm

(* Leaving a sub-flow leaves the root where it is.                         *)
LEMMA LeaveRoot ==
    ASSUME NEW m, Ready(m), m.call.base = 2 \/ Len(m.call.depth) > 1
    PROVE  leaveSubFlow(m).ins[1] = m.ins[1]
<1>. DEFINE L == Level(m)
            D == Len(m.call.depth)
            p == leaveSubFlow(m)
<1>1. /\ m \in [ins: Seq(Instance), ctx: SUBSET Key, call: Frame]
      /\ m.call.base \in {1, 2}
  BY DEF Ready, RunType, Frame
<1>2. /\ L \in Nat /\ L \in 1 .. Len(m.ins) /\ D \in Nat /\ D >= 1
      /\ Len(m.ins) \in Nat /\ L = m.call.base + D - 1
  BY ReadyType DEF Ready, Level
<1>3. p.ins = SubSeq(m.ins, 1, L - 1) BY <1>1 DEF leaveSubFlow
<1>. HIDE DEF L, D, p
<1>5. SubSeq(m.ins, 1, L - 1)[1] = m.ins[1]
  BY <1>1, <1>2 DEF D
<1>. QED BY <1>3, <1>5 DEF p

(* The chain of a parent, moved on and counted or not.                     *)
LEMMA ParentChainData ==
    ASSUME IndInv, DataInv, NEW c \in Call, calls[c].pc # "idle",
           NEW p, Ready(p), ~NoSub(p.ins), p.call.flow = calls[c].flow,
           NEW x \in Instance, ExitOK(x), x.def = Current(p).def, NEW counted \in BOOLEAN,
           Step(c, loop(IF counted THEN deeper(setCurrent(p, x)) ELSE setCurrent(p, x)))
    PROVE  DataInv'
<1>. DEFINE k == setCurrent(p, x)
            n == IF counted THEN deeper(k) ELSE k
<1>1. /\ Ready(k) /\ k.call = p.call /\ k.ins[1].def = p.ins[1].def
      /\ now \in Nat
  BY SetCurrentType, SetRoot DEF IndInv
<1>2. Step(c, loop(n)) OBVIOUS
<1>. HIDE DEF k
<1>3. /\ Ready(deeper(k)) /\ deeper(k).call.flow = k.call.flow
      /\ deeper(k).ins = k.ins
  BY <1>1, DeeperReady DEF Ready, RunType, deeper
<1>4. Ready(n) /\ n.call.flow = calls[c].flow /\ n.ins[1].def = p.ins[1].def BY <1>1, <1>3
<1>. HIDE DEF n
<1>6. RunInv(loop(n)) /\ loop(n).call.flow \in {calls[c].flow, None} /\ DataOK(loop(n))
  BY <1>1, <1>4, NotFlat, LoopInv, LoopData
<1>. QED BY <1>2, <1>6, StepData

LEMMA TakeExitData ==
    ASSUME IndInv, DataInv, NEW c \in Call, calls[c].pc # "idle",
           NEW m, Ready(m), Unfinished(Current(m)), ~NoSub(m.ins), m.call.flow = calls[c].flow,
           NEW to \in State, NEW counted \in BOOLEAN, TakeExit(c, m, to, counted)
    PROVE  DataInv'
<1>1. ASSUME NEW o \in {"ok", "enter", "exit"}
      PROVE  /\ moveTo(Current(m), to, o) \in Instance /\ ExitOK(moveTo(Current(m), to, o))
             /\ moveTo(Current(m), to, o).def = Current(m).def
  BY ReadyType, MoveToType DEF Unfinished, ExitOK, IndInv
<1>. DEFINE m1 == setCurrent(m, moveTo(Current(m), to, "ok"))
<1>2. CASE Step(c, loop(IF counted THEN deeper(m1) ELSE m1)) BY <1>1, <1>2, ParentChainData
<1>3. CASE \E o \in Throwing(Current(m), to) :
             Step(c, throw(setCurrent(m, moveTo(Current(m), to, o)), "ACTION_THREW"))
  <2>1. PICK o \in Throwing(Current(m), to) :
               Step(c, throw(setCurrent(m, moveTo(Current(m), to, o)), "ACTION_THREW"))
    BY <1>3
  <2>. DEFINE k == setCurrent(m, moveTo(Current(m), to, o))
  <2>. DEFINE x == moveTo(Current(m), to, o)
  <2>3. x \in Instance /\ ExitOK(x) /\ x.def = Current(m).def
    BY <1>1, ThrowingType
  <2>. HIDE DEF x
  <2>4. Ready(k) /\ k.ins[1].def = m.ins[1].def BY <2>3, SetCurrentType, SetRoot DEF x
  <2>5. Step(c, throw(k, "ACTION_THREW")) BY <2>1
  <2>. HIDE DEF k
  <2>7. /\ RunInv(throw(k, "ACTION_THREW")) /\ throw(k, "ACTION_THREW").call.flow = None
        /\ DataOK(throw(k, "ACTION_THREW"))
    BY <2>4, NotFlat, ThrowInv, EndData DEF Ready, Result
  <2>. QED BY <2>5, <2>7, StepData
<1>. QED BY <1>2, <1>3 DEF TakeExit

(* An error bubbles up to the parent.                                      *)
LEMMA BubbleData ==
    ASSUME IndInv, DataInv, NEW c \in Call, calls[c].pc # "idle",
           NEW p, Ready(p), Unfinished(Current(p)), ~NoSub(p.ins), p.call.flow = calls[c].flow,
           NEW counted \in BOOLEAN, NEW k, k = setCurrent(p, handleError(Current(p), Current(p).state, None)),
           Step(c, loop(IF counted THEN deeper(k) ELSE k))
    PROVE  DataInv'
<1>. DEFINE x == handleError(Current(p), Current(p).state, None)
<1>2. x \in Instance /\ ExitOK(x) /\ x.def = Current(p).def
  BY ReadyType, HandleErrorType DEF IndInv, Instance
<1>. HIDE DEF x
<1>. QED BY <1>2, ParentChainData DEF x

(* What the invariant says of a call at the end of its chain.              *)
LEMMA EndingData ==
    ASSUME IndInv, DataInv, NEW c \in Call, calls[c].pc \in {"enterSub", "chainEnd"}
    PROVE  /\ Calm(Run(c)) /\ DataOK(Run(c)) /\ Ready(Run(c)) /\ Current(Run(c)) \in Instance
           /\ Run(c).call = calls[c] /\ calls[c].pc # "idle" /\ now \in Nat
<1>. QED
  BY RunOfCall, ReadyType DEF DataOK, Calm, DataInv

LEMMA EnterSubFlowData ==
    ASSUME IndInv, DataInv, NEW c \in Call, EnterSubFlow(c)
    PROVE  DataInv'
<1>. DEFINE m == Run(c)
<1>1. calls[c].pc = "enterSub" /\ Step(c, loop(m)) BY DEF EnterSubFlow
<1>2. Calm(m) /\ Ready(m) /\ m.call = calls[c] /\ calls[c].pc # "idle" /\ now \in Nat
  BY <1>1, EndingData
<1>. HIDE DEF m
<1>. QED
  BY <1>1, <1>2, LoopInv, LoopData, StepData

LEMMA ReturnData ==
    ASSUME IndInv, DataInv, NEW c \in Call, calls[c].pc # "idle",
           NEW m, Ready(m), Calm(m), Step(c, return(m))
    PROVE  DataInv'
<1>. QED
  BY ReturnInv, EndData, StepData DEF Ready

LEMMA ChainReturnsData ==
    ASSUME IndInv, DataInv, NEW c \in Call, ChainReturns(c)
    PROVE  DataInv'
<1>. QED
  BY EndingData, ReturnData DEF ChainReturns

LEMMA SubChainEndsData ==
    ASSUME IndInv, DataInv, NEW c \in Call, SubChainEnds(c)
    PROVE  DataInv'
<1>. DEFINE m  == Run(c)
            p  == leaveSubFlow(m)
            to == exitTarget(Current(p), Current(m).exit)
            k  == setCurrent(p, handleError(Current(p), Current(p).state, None))
<1>1. /\ calls[c].pc = "chainEnd" /\ Len(calls[c].depth) > 1
      /\ IF ~isCompleted(Current(m))
         THEN Step(c, [m EXCEPT !.call.depth = SubSeq(@, 1, Len(@) - 1)])
         ELSE IF to # None THEN TakeExit(c, p, to, TRUE)
         ELSE Step(c, loop(deeper(k)))
  BY DEF SubChainEnds
<1>2. /\ DataOK(m) /\ Ready(m) /\ m.call = calls[c] /\ Current(m) \in Instance
      /\ calls[c].pc # "idle" /\ now \in Nat
  BY <1>1, EndingData
<1>. HIDE DEF m
<1>3. ~NoSub(m.ins) BY <1>1, <1>2, DeepRun
<1>4. /\ Ready(p) /\ Unfinished(Current(p)) /\ p.call.flow = calls[c].flow
      /\ Current(p) \in Instance /\ p.ins[1] = m.ins[1]
  BY <1>1, <1>2, LeaveReady, LeaveRoot, ReadyType
<1>. HIDE DEF p
<1>5. ~NoSub(p.ins) BY <1>3, <1>4, NotFlat
<1>6. CASE ~isCompleted(Current(m))
  <2>. DEFINE n == [m EXCEPT !.call.depth = SubSeq(@, 1, Len(@) - 1)]
  <2>1. Step(c, n) BY <1>1, <1>6
  <2>2. RunInv(n) /\ n.call.flow = calls[c].flow BY <1>1, <1>2, PopInv
  <2>3. n.ins = m.ins BY <1>2 DEF Ready, RunType
  <2>. HIDE DEF n
  <2>4. DataOK(n) BY <1>3, <2>3, NotFlat
  <2>. QED BY <1>2, <2>1, <2>2, <2>4, StepData
<1>7. CASE isCompleted(Current(m)) /\ to # None
  <2>2. to \in State
    BY <1>4, <1>7, <1>2, ExitTargetType DEF isCompleted, Instance
  <2>. HIDE DEF to
  <2>. QED
    BY <1>2, <1>4, <1>5, <2>2, <1>1, <1>7, TakeExitData
<1>8. CASE isCompleted(Current(m)) /\ to = None
  <2>. HIDE DEF k
  <2>. QED
    BY <1>2, <1>4, <1>5, <1>1, <1>8, BubbleData DEF k
<1>. QED BY <1>6, <1>7, <1>8

LEMMA ResumedChainEndsData ==
    ASSUME IndInv, DataInv, NEW c \in Call, ResumedChainEnds(c)
    PROVE  DataInv'
<1>. DEFINE m  == Run(c)
            p  == leaveSubFlow(m)
            to == exitTarget(Current(p), Current(m).exit)
<1>1. /\ calls[c].pc = "chainEnd" /\ calls[c].base = 2
      /\ IF ~isCompleted(Current(m)) THEN Step(c, return(m))
         ELSE IF to # None THEN TakeExit(c, p, to, FALSE)
         ELSE Step(c, return(p))
  BY DEF ResumedChainEnds
<1>2. /\ Calm(m) /\ DataOK(m) /\ Ready(m) /\ m.call = calls[c] /\ Current(m) \in Instance
      /\ calls[c].pc # "idle"
  BY <1>1, EndingData
<1>. HIDE DEF m
<1>4. /\ Ready(p) /\ Unfinished(Current(p)) /\ p.call.flow = calls[c].flow
      /\ Current(p) \in Instance /\ p.ins[1] = m.ins[1]
  BY <1>1, <1>2, LeaveReady, LeaveRoot, ReadyType
<1>. HIDE DEF p
<1>5. ~NoSub(p.ins) /\ Calm(p)
  BY <1>1, <1>2, DeepRun, <1>4, NotFlat
<1>6. CASE ~isCompleted(Current(m)) BY <1>1, <1>2, <1>6, ReturnData
<1>7. CASE isCompleted(Current(m)) /\ to # None
  <2>2. to \in State
    BY <1>4, <1>7, <1>2, ExitTargetType DEF isCompleted, Instance
  <2>. HIDE DEF to
  <2>. QED
    BY <1>2, <1>4, <1>5, <2>2, <1>1, <1>7, TakeExitData
<1>8. CASE isCompleted(Current(m)) /\ to = None BY <1>1, <1>2, <1>4, <1>5, <1>8, ReturnData
<1>. QED BY <1>6, <1>7, <1>8

(* What the invariant says of a call that asks a sub-flow's guard.         *)
LEMMA SubGuardData ==
    ASSUME IndInv, DataInv, NEW c \in Call, calls[c].pc = "subGuard"
    PROVE  /\ ~NoSub(Run(c).ins) /\ Calm(Run(c)) /\ Working(Run(c)) /\ Ready(Run(c))
           /\ Run(c).call = calls[c] /\ calls[c].pc # "idle" /\ now \in Nat
           /\ Run(c).call.base = 2 /\ Current(Run(c)) \in Instance
<1>. QED
  BY HoldingData, HoldingWorking, DeepRun, ReadyType DEF Calm, Holding

LEMMA SubGuardAcceptedData ==
    ASSUME IndInv, DataInv, NEW c \in Call, SubGuardAccepted(c)
    PROVE  DataInv'
<1>. DEFINE r == Run(c)
<1>2. PICK data \in SUBSET Chosen(r).gives :
         LET m == [r EXCEPT !.ctx = @ \cup data]
         IN  Step(c, loop(setCurrent(m, moveTo(Current(m), Chosen(m).to, "ok"))))
  BY DEF SubGuardAccepted
<1>3. /\ ~NoSub(r.ins) /\ Working(r) /\ Ready(r) /\ r.call = calls[c]
      /\ calls[c].pc # "idle" /\ now \in Nat
  BY SubGuardData DEF SubGuardAccepted
<1>. DEFINE m == [r EXCEPT !.ctx = @ \cup data]
            x == moveTo(Current(m), Chosen(m).to, "ok")
<1>. HIDE DEF r
<1>5. Working(m) /\ m.call = calls[c]
  BY <1>3, WorkingChosen, WorkingPut
<1>6. m.ins = r.ins BY <1>3 DEF Ready, RunType
<1>7. Step(c, loop(setCurrent(m, x))) BY <1>2
<1>. HIDE DEF m
<1>8. /\ Ready(m) /\ Current(m) \in Instance /\ Unfinished(Current(m)) /\ Chosen(m).to \in State
      /\ ~NoSub(m.ins)
  BY <1>3, <1>5, <1>6, WorkingChosen, ReadyType DEF Working
<1>9. x \in Instance /\ ExitOK(x) /\ x.def = Current(m).def
  BY <1>3, <1>8, MoveToType DEF ExitOK, Unfinished
<1>. HIDE DEF x
<1>10. Step(c, loop(IF FALSE THEN deeper(setCurrent(m, x)) ELSE setCurrent(m, x))) BY <1>7
<1>. QED BY <1>3, <1>5, <1>8, <1>9, <1>10, ParentChainData

LEMMA SubGuardRejectedData ==
    ASSUME IndInv, DataInv, NEW c \in Call, SubGuardRejected(c)
    PROVE  DataInv'
<1>. DEFINE m  == Run(c)
            x  == incrementGuardFailure(Current(m))
            p  == leaveSubFlow(m)
            to == exitTarget(Current(p), "ERROR")
            k  == setCurrent(p, handleError(Current(p), Current(p).state, None))
<1>1. /\ calls[c].pc = "subGuard"
      /\ IF x.fails < definitionOf(x).maxGuardRetries THEN Step(c, return(setCurrent(m, x)))
         ELSE IF to # None THEN TakeExit(c, p, to, FALSE)
         ELSE Step(c, loop(k))
  BY DEF SubGuardRejected
<1>2. /\ ~NoSub(m.ins) /\ Calm(m) /\ Working(m) /\ Ready(m) /\ m.call = calls[c]
      /\ calls[c].pc # "idle" /\ now \in Nat
      /\ m.call.base = 2 /\ Current(m) \in Instance
  BY <1>1, SubGuardData
<1>. HIDE DEF m
<1>3. /\ Ready(p) /\ Unfinished(Current(p)) /\ p.call.flow = calls[c].flow
      /\ Current(p) \in Instance /\ p.ins[1] = m.ins[1]
  BY <1>2, LeaveReady, LeaveRoot, ReadyType
<1>. HIDE DEF p
<1>4. ~NoSub(p.ins) BY <1>2, <1>3, NotFlat
<1>5. CASE x.fails < definitionOf(x).maxGuardRetries
  <2>1. x \in Instance /\ ExitOK(x) /\ x.def = Current(m).def /\ x.state = Current(m).state
    BY <1>2 DEF Working, incrementGuardFailure, Instance, Unfinished, ExitOK
  <2>. HIDE DEF x
  <2>. QED
    BY <1>2, <1>1, <1>5, <2>1, SetCurrentType, SameStateCalm, ReturnData
<1>6. CASE ~(x.fails < definitionOf(x).maxGuardRetries) /\ to # None
  <2>1. to \in State BY <1>3, <1>6, ExitTargetType DEF Exit, ExitCode
  <2>. HIDE DEF to
  <2>. QED
    BY <1>2, <1>3, <1>4, <2>1, <1>1, <1>6, TakeExitData
<1>7. CASE ~(x.fails < definitionOf(x).maxGuardRetries) /\ to = None
  <2>. HIDE DEF k
  <2>. QED
    BY <1>2, <1>3, <1>4, <1>1, <1>7, BubbleData DEF k
<1>. QED BY <1>5, <1>6, <1>7

LEMMA SubGuardExpiredData ==
    ASSUME IndInv, DataInv, NEW c \in Call, SubGuardExpired(c)
    PROVE  DataInv'
<1>. DEFINE m == Run(c)
            x == complete(m.ins[1], "EXPIRED")
            s == [m.ins EXCEPT ![1] = x]
            n == [m EXCEPT !.ins = s]
<1>1. calls[c].pc = "subGuard" /\ Step(c, return([m EXCEPT !.ins[1] = complete(@, "EXPIRED")]))
  BY DEF SubGuardExpired
<1>2. ~NoSub(m.ins) /\ Ready(m) /\ calls[c].pc # "idle" BY <1>1, SubGuardData
<1>. HIDE DEF m
<1>3. Step(c, return(n)) BY <1>1
<1>4. /\ m \in [ins: Seq(Instance), ctx: SUBSET Key, call: Frame]
      /\ DOMAIN m.ins = 1 .. Len(m.ins) /\ Len(m.ins) \in Nat
      /\ 1 \in 1 .. Len(m.ins) /\ m.ins[1] \in Instance
  BY <1>2, ReadyType DEF Ready, RunType
<1>5. x \in Instance /\ ExitOK(x) /\ x.def = m.ins[1].def
  BY <1>4 DEF complete, Instance, Exit, ExitCode, ExitOK, Unfinished
<1>. HIDE DEF x
<1>6. /\ s \in Seq(Instance) /\ DOMAIN s = DOMAIN m.ins
      /\ \A i \in DOMAIN m.ins : s[i] = IF i = 1 THEN x ELSE m.ins[i]
  BY <1>4, <1>5, ExceptSeq
<1>. HIDE DEF s
<1>7. n \in [ins: Seq(Instance), ctx: SUBSET Key, call: Frame] /\ n.ins = s BY <1>4, <1>6
<1>. HIDE DEF n
<1>10. RunInv(return(n)) /\ return(n).call.flow = None
  BY <1>2, <1>5, <1>6, <1>7, ReturnInv DEF RunType, Ready
<1>11. DataOK(return(n))
  BY <1>2, <1>4, <1>5, <1>6, <1>7, NotFlat DEF return
<1>. QED BY <1>2, <1>3, <1>10, <1>11, StepData

-----------------------------------------------------------------------------
(* The start of a call.                                                    *)

(* What the caller gives needs no transition to account for it.            *)
LEMMA StartFlowData ==
    ASSUME IndInv, DataInv, NEW c \in Call, NEW f \in Flow, NEW name \in Root, NEW keys \in Event,
           StartFlow(c, f, name, keys)
    PROVE  DataInv'
<1>1. PICK m : Newborn(f, name, m) /\ m.ctx = keys /\ Writes(c, f, loop(m)) /\ now \in Nat
  BY StartFlowRun
<1>3. DataOK(loop(m))
  BY <1>1, LoopData DEF Newborn, Calm, Has, Provided
<1>. QED BY <1>1, <1>3, CommitData DEF Writes

LEMMA ResumeData ==
    ASSUME Serialized, IndInv, DataInv, NEW c \in Call, NEW f \in Flow, NEW keys \in Event,
           Resume(c, f, keys)
    PROVE  DataInv'
<1>1. PICK r : Writes(c, f, r) /\ Opened(f, keys, r) BY ResumeRun
<1>2. AtRest(f) /\ inst[f] \in Seq(Instance) /\ inst[f] # <<>> /\ keys \subseteq UNION Event
  BY DEF Resume, IndInv, AtRest, Started
<1>3. RestOK(inst[f], context[f]) BY <1>2 DEF DataInv
<1>4. inst[f][1] \in Instance BY <1>2, LenProperties, EmptySeq
<1>5. r.ctx \subseteq context[f] \cup UNION Event BY <1>1, <1>2 DEF Opened
<1>6. /\ Len(r.ins) = Len(inst[f])
      /\ r.ins[1].def = inst[f][1].def /\ r.ins[1].state = inst[f][1].state
  BY <1>1, <1>4 DEF Opened, complete, Instance
<1>7. RestOK(r.ins, r.ctx) BY <1>3, <1>5, <1>6 DEF RestOK, NoSub, Has, Provided, definitionOf
<1>. QED
  BY <1>1, <1>7, CommitData DEF Writes, RestOK, DataOK, Opened

-----------------------------------------------------------------------------
(* The invariant.                                                          *)

LEMMA InitData == Init => DataInv
<1>. SUFFICES ASSUME Init PROVE DataInv OBVIOUS
<1>. QED
  BY DEF DataInv, AtRest, Init, Idle, Started

(* A step that leaves the flows and the calls alone.                       *)
LEMMA UnchangedData ==
    ASSUME DataInv, UNCHANGED <<inst, context, calls>>
    PROVE  DataInv'
<1>. QED
  BY DEF DataInv, Run, AtRest, Started, Busy

LEMMA ContinueData ==
    ASSUME IndInv, DataInv, NEW c \in Call, Continue(c)
    PROVE  DataInv'
<1>1. CASE GuardAccepted(c) BY <1>1, GuardAcceptedData
<1>2. CASE GuardRejected(c) BY <1>2, GuardRejectedData
<1>3. CASE GuardExpired(c) BY <1>3, GuardExpiredData
<1>4. CASE GuardThrows(c) BY <1>4, GuardThrowsData
<1>5. CASE ProcessDone(c) BY <1>5, ProcessDoneData
<1>6. CASE ProcessThrows(c) BY <1>6, ProcessThrowsData
<1>7. CASE AutoDone(c) BY <1>7, AutoDoneData
<1>8. CASE AutoThrows(c) BY <1>8, StepFailsData DEF AutoThrows
<1>9. CASE Decide(c) BY <1>9, DecideData
<1>10. CASE DecideThrows(c) BY <1>10, StepFailsData DEF DecideThrows
<1>11. CASE BranchProcessDone(c) BY <1>11, BranchProcessDoneData
<1>12. CASE BranchProcessThrows(c) BY <1>12, StepFailsData DEF BranchProcessThrows
<1>13. CASE EnterSubFlow(c) BY <1>13, EnterSubFlowData
<1>14. CASE ChainReturns(c) BY <1>14, ChainReturnsData
<1>15. CASE SubChainEnds(c) BY <1>15, SubChainEndsData
<1>16. CASE ResumedChainEnds(c) BY <1>16, ResumedChainEndsData
<1>17. CASE SubGuardAccepted(c) BY <1>17, SubGuardAcceptedData
<1>18. CASE SubGuardRejected(c) BY <1>18, SubGuardRejectedData
<1>19. CASE SubGuardExpired(c) BY <1>19, SubGuardExpiredData
<1>. QED BY <1>1, <1>2, <1>3, <1>4, <1>5, <1>6, <1>7, <1>8, <1>9, <1>10, <1>11, <1>12,
     <1>13, <1>14, <1>15, <1>16, <1>17, <1>18, <1>19 DEF Continue

LEMMA NextData ==
    ASSUME Serialized, IndInv, DataInv, [Next]_vars
    PROVE  DataInv'
<1>1. ASSUME NEW c \in Call, NEW f \in Flow, NEW name \in Root, NEW keys \in Event,
             StartFlow(c, f, name, keys)
      PROVE  DataInv'
  BY <1>1, StartFlowData
<1>2. ASSUME NEW c \in Call, NEW f \in Flow, NEW keys \in Event, Resume(c, f, keys)
      PROVE  DataInv'
  BY <1>2, ResumeData
<1>3. ASSUME NEW c \in Call, Continue(c) PROVE DataInv' BY <1>3, ContinueData
<1>4. CASE Tick BY <1>4, UnchangedData DEF Tick
<1>5. CASE Clear BY <1>5, UnchangedData DEF Clear
<1>6. CASE UNCHANGED vars BY <1>6, UnchangedData DEF vars
<1>. QED BY <1>1, <1>2, <1>3, <1>4, <1>5, <1>6 DEF Next

(* A failed step leaves no data behind: between calls, a key that only     *)
(* guards and processors provide is in the context of a flow only if the   *)
(* flow is past a transition that provides it, whichever steps threw on    *)
(* the way, in the processor, in the branch, in an action, or in the check *)
(* of what was produced.                                                   *)
THEOREM FailedStepsLeaveNoData == ASSUME Serialized PROVE Spec => []DataOfTakenSteps
<1>1. Init => DataInv BY InitData
<1>2. IndInv /\ DataInv /\ [Next]_vars => DataInv' BY NextData
<1>3. IndInv /\ DataInv => DataOfTakenSteps
  <2>. SUFFICES ASSUME IndInv, DataInv, NEW f \in Flow, AtRest(f),
                       ~hasSubFlow(definitionOf(inst[f][1])),
                       NEW key \in context[f] \ UNION Event
                PROVE  LET x == inst[f][1]
                           d == definitionOf(x)
                       IN  \E i \in DOMAIN d.transitions :
                             /\ key \in d.transitions[i].produces \cup d.transitions[i].gives
                             /\ x.state \in FollowsTable[x.def][d.transitions[i].to]
    BY DEF DataOfTakenSteps
  <2>. DEFINE x == inst[f][1]
              d == definitionOf(x)
  <2>1. Len(inst[f]) = 1 /\ Provided(context[f], d, x.state) BY DEF DataInv, RestOK, NoSub, Has
  <2>2. x \in Instance /\ x.def \in DefName /\ d = Def[x.def]
    <3>2. x \in Instance
      BY <2>1, ElementOfSeq DEF IndInv
    <3>. HIDE DEF x
    <3>. QED BY <3>2 DEF Instance, definitionOf
  <2>. HIDE DEF x
  <2>3. \A i \in DOMAIN d.transitions :
          FollowsTable[x.def][d.transitions[i].to] = Follows(d, d.transitions[i].to)
    BY <2>2, OwnStates DEF FollowsTable
  <2>4. \E i \in DOMAIN d.transitions :
           /\ key \in d.transitions[i].produces \cup d.transitions[i].gives
           /\ x.state \in Follows(d, d.transitions[i].to)
    <3>. HIDE DEF d
    <3>. QED BY <2>1 DEF Provided
  <2>5. \E i \in DOMAIN d.transitions :
           /\ key \in d.transitions[i].produces \cup d.transitions[i].gives
           /\ x.state \in FollowsTable[x.def][d.transitions[i].to]
    <3>. HIDE DEF d
    <3>. QED BY <2>3, <2>4
  <2>. QED BY <2>5 DEF x
<1>4. Spec => []IndInv BY Invariance
<1>. QED BY <1>1, <1>2, <1>3, <1>4, PTL DEF Spec

-----------------------------------------------------------------------------
(* What every instance keeps, and what a flow's root does.                 *)
(*                                                                         *)
(* For the log, the retries and strict mode the invariant is about single  *)
(* instances; strict mode needs it of the snapshots as well, since a step  *)
(* that fails puts them back.  For the root, it says where the calls of a  *)
(* flow stand that is completed (at the end of their outermost chain) and  *)
(* of one that has an active sub-flow (in a state that embeds one).        *)

LogOK(x) == x.last.to = x.state \/ x.state \in definitionOf(x).enterActions

RetriesOK(x) ==
    definitionOf(x).onError[x.state] # x.state =>
        /\ ~isCompleted(x) => x.fails < definitionOf(x).maxGuardRetries \/ x.fails = 0
        /\ x.fails <= definitionOf(x).maxGuardRetries \/ x.fails = 1

OnlyByAuto(d, s) ==
    /\ d.strictMode
    /\ Into(d, s) # {} /\ \A i \in Into(d, s) : d.transitions[i].type = "auto"
    /\ EnteredByTransition(d, s)

StrictOK(x, ctx) ==
    OnlyByAuto(definitionOf(x), x.state)
        => \E i \in Into(definitionOf(x), x.state) : definitionOf(x).transitions[i].produces \subseteq ctx

Kept(x, ctx) == LogOK(x) /\ RetriesOK(x) /\ StrictOK(x, ctx)

AllKept(ins, ctx) == \A i \in DOMAIN ins : Kept(ins[i], ctx)

Embeds(x) == ofType(definitionOf(x), x.state, {"sub_flow"}) # {}

Routed(ins) == RoutesSubFlowErrors(definitionOf(ins[1]))

RestsWell(ins, ctx) ==
    /\ 1 \in DOMAIN ins /\ AllKept(ins, ctx)
    /\ (Routed(ins) /\ Len(ins) > 1) => Embeds(ins[1])

(* The root is open and can go on: either it is the only instance, or the  *)
(* chain is that of a sub-flow below it.                                   *)
RootOpen(m) ==
    Routed(m.ins) =>
        /\ ~isCompleted(m.ins[1])
        /\ IF Level(m) = 1 THEN Len(m.ins) = 1 ELSE Embeds(m.ins[1])

(* The type of the transition that a call holds.                           *)
Kind(pc) ==
    IF pc = "auto" THEN "auto"
    ELSE IF pc \in {"decide", "branchProcess"} THEN "branch" ELSE "external"

Snapshot(m) == \A i \in DOMAIN m.ins : StrictOK(m.ins[i], m.call.backup)

WorksWell(m) ==
    /\ m.call.pc \in Holding => Chosen(m).type = Kind(m.call.pc)
    /\ m.call.pc \in {"process", "auto", "decide", "branchProcess"} => Snapshot(m)
    /\ m.call.pc = "guard" => ~isCompleted(m.ins[1])
    /\ m.call.pc = "enterSub" => Level(m) # 1
    /\ m.call.pc # "chainEnd" \/ Level(m) # 1 => RootOpen(m)

(* A run whose chain can take its next turn.                               *)
Goes(m) ==
    /\ AllKept(m.ins, m.ctx)
    /\ Routed(m.ins) =>
         IF Level(m) = 1 THEN Len(m.ins) = 1 /\ (~isCompleted(m.ins[1]) \/ isTerminal(m.ins[1]))
         ELSE ~isCompleted(m.ins[1]) /\ Embeds(m.ins[1])

LifeInv ==
    /\ \A f \in Flow : Started(f) => RestsWell(inst[f], context[f])
    /\ \A c \in Call : calls[c].pc # "idle" => WorksWell(Run(c))

(* What a step may make of the root x: y is x, or x closed, or x moved     *)
(* along an edge, or x after an enter action that threw.                   *)
ErrorWays(d, s) ==
    ({d.onError[s]} \ {None})
    \cup {d.routes[i].to : i \in {j \in DOMAIN d.routes : d.routes[j].from = s}}

Ways(d, s) == Successors(d, s) \cup ErrorWays(d, s)

Arrives(d, y) == y.exit = None \/ (y.exit = y.state /\ y.state \in d.terminal)

Stays(x, y) == y.state = x.state /\ y.exit = x.exit

Closes(x, y) == ~isCompleted(x) /\ y.state = x.state /\ y.exit \in {"EXPIRED", "TERMINAL_ERROR"}

Moves(x, y) ==
    /\ ~isCompleted(x)
    /\ y.state \in Ways(definitionOf(x), x.state)
    /\ Arrives(definitionOf(x), y)

Stumbles(x, y) ==
    LET d == definitionOf(x)
    IN  /\ ~isCompleted(x)
        /\ \E s \in Ways(d, x.state) \cap d.enterActions :
              \/ y.state = s /\ y.exit = "TERMINAL_ERROR"
              \/ y.state \in ErrorWays(d, s) \cup ErrorWays(d, x.state) /\ Arrives(d, y)

Lives(x, y) ==
    /\ y.def = x.def
    /\ RoutesSubFlowErrors(definitionOf(x)) =>
         Stays(x, y) \/ Closes(x, y) \/ Moves(x, y) \/ Stumbles(x, y)

(* The next turn of a chain, in a step that began with the root x.         *)
Turn(m, x) ==
    /\ Goes(m) /\ m.ins[1].def = x.def
    /\ Routed(m.ins) => IF Level(m) = 1 THEN Moves(x, m.ins[1]) ELSE m.ins[1] = x

(* The run n that such a step writes back.                                 *)
Outcome(n, x) ==
    /\ RestsWell(n.ins, n.ctx)
    /\ n.call.pc # "idle" => WorksWell(n)
    /\ Lives(x, n.ins[1])

-----------------------------------------------------------------------------
(* Instances: what they keep.                                              *)

LEMMA NewKept ==
    ASSUME NEW n \in DefName, NEW t \in Nat, NEW ctx
    PROVE  Kept(NewInstance(n, t), ctx)
<1>. DEFINE x == NewInstance(n, t)
<1>1. /\ x.state = Def[n].initial /\ x.last.to = Def[n].initial /\ x.fails = 0
      /\ definitionOf(x) = Def[n] /\ Def[n].maxGuardRetries \in Nat
  BY DefAssumption DEF NewInstance, definitionOf, Definition
<1>. HIDE DEF x
<1>4. StrictOK(x, ctx) BY <1>1 DEF StrictOK, OnlyByAuto, EnteredByTransition
<1>. QED
  BY <1>1, <1>4 DEF Kept, x, LogOK, RetriesOK

(* Completing an instance under any name.                                  *)
LEMMA CompleteKept ==
    ASSUME NEW x \in Instance, NEW ctx, Kept(x, ctx), NEW e, e # None
    PROVE  Kept(complete(x, e), ctx)
<1>. DEFINE y == complete(x, e)
<1>1. /\ y.state = x.state /\ y.fails = x.fails /\ y.last = x.last /\ y.exit = e
      /\ definitionOf(y) = definitionOf(x)
  BY DEF complete, Instance, definitionOf
<1>. HIDE DEF y
<1>4. StrictOK(y, ctx) BY <1>1 DEF Kept, StrictOK
<1>. QED
  BY <1>1, <1>4 DEF Kept, y, LogOK, RetriesOK, isCompleted

(* Keys are only added, between two snapshots.                             *)
LEMMA MoreKept ==
    ASSUME NEW x, NEW ctx, NEW more, ctx \subseteq more
    PROVE  /\ Kept(x, ctx) => Kept(x, more)
           /\ StrictOK(x, ctx) => StrictOK(x, more)
<1>. QED
  BY DEF Kept, StrictOK

(* The fields of an instance that has been moved.                          *)
LEMMA MoveFields ==
    ASSUME NEW x \in Instance, NEW to, NEW o \in {"ok", "enter", "exit"}
    PROVE  /\ definitionOf(moveTo(x, to, o)) = definitionOf(x)
           /\ moveTo(x, to, o).exit = x.exit /\ moveTo(x, to, o).def = x.def
           /\ o = "exit" => moveTo(x, to, o) = x
           /\ o # "exit" => /\ moveTo(x, to, o).state = to
                            /\ moveTo(x, to, o).fails = IF x.state # to THEN 0 ELSE x.fails
           /\ o = "ok" => moveTo(x, to, o).last.to = to
<1>1. CASE o = "exit" BY <1>1 DEF moveTo
<1>2. CASE o = "enter" BY <1>2 DEF moveTo, transitionTo, Instance, definitionOf
<1>3. CASE o = "ok"
  BY <1>3 DEF moveTo, transitionTo, Instance, recordTransition, definitionOf
<1>. QED BY <1>1, <1>2, <1>3

LEMMA MoveKept ==
    ASSUME NEW x \in Instance, LogOK(x), RetriesOK(x), NEW to \in State,
           NEW o \in {"ok", "enter", "exit"}, o = "ok" \/ o \in Throwing(x, to)
    PROVE  LogOK(moveTo(x, to, o)) /\ RetriesOK(moveTo(x, to, o))
<1>. DEFINE y == moveTo(x, to, o)
<1>1. /\ definitionOf(y) = definitionOf(x) /\ y.exit = x.exit
      /\ o = "exit" => y = x
      /\ o # "exit" => y.state = to /\ y.fails = IF x.state # to THEN 0 ELSE x.fails
      /\ o = "ok" => y.last.to = to
  BY MoveFields
<1>. HIDE DEF y
<1>3. LogOK(y)
  BY <1>1 DEF LogOK, Throwing
<1>4. CASE o # "exit" /\ x.state # to
  BY <1>1, DefinitionType, <1>3, <1>4 DEF RetriesOK, y, Definition
<1>5. CASE o # "exit" /\ x.state = to
  BY <1>1, <1>5, <1>3 DEF RetriesOK, isCompleted, y
<1>. QED BY <1>1, <1>3, <1>4, <1>5 DEF y

(* A state that errors lead to, or exits of sub-flows, is not entered by   *)
(* transitions only.                                                       *)
LEMMA ErrorTargetEntered ==
    ASSUME NEW x \in Instance, NEW s \in State, NEW cause,
           ErrorTarget(definitionOf(x), s, cause) # None
    PROVE  /\ ErrorTarget(definitionOf(x), s, cause) \in ErrorWays(definitionOf(x), s)
           /\ ~EnteredByTransition(definitionOf(x), ErrorTarget(definitionOf(x), s, cause))
           /\ cause = None => ErrorTarget(definitionOf(x), s, cause) = definitionOf(x).onError[s]
<1>. DEFINE d == definitionOf(x)
            M == {i \in DOMAIN d.routes : /\ d.routes[i].from = s
                                          /\ cause # None
                                          /\ <<cause, d.routes[i].class>> \in InstanceOf}
            R == [from: State, class: ErrorClass, to: State]
<1>2. CASE M = {}
  BY <1>2 DEF ErrorTarget, ErrorWays, EnteredByTransition
<1>3. CASE M # {}
  <2>0. M \subseteq Nat
    BY DefinitionType, LenProperties DEF Definition
  <2>. QED
    BY <1>3, <2>0, FirstIn DEF ErrorWays, EnteredByTransition, ErrorTarget
<1>. QED BY <1>2, <1>3

(* What handleError makes of an instance.                                  *)
LEMMA HandleErrorFields ==
    ASSUME NEW x \in Instance, NEW s, NEW cause,
           NEW to, to = ErrorTarget(definitionOf(x), s, cause)
    PROVE  LET y == handleError(x, s, cause)
           IN  /\ y.def = x.def /\ definitionOf(y) = definitionOf(x)
               /\ to = None => y = complete(x, "TERMINAL_ERROR")
               /\ to # None => /\ y.state = to /\ y.last.to = to
                               /\ y.fails = IF x.state # to THEN 0 ELSE x.fails
                               /\ y.exit = IF to \in definitionOf(x).terminal THEN to ELSE x.exit
<1>. DEFINE y == handleError(x, s, cause)
            u == recordTransition(transitionTo(x, to, now), x.state, to)
<1>1. CASE to = None
  BY <1>1 DEF handleError, complete, Instance, definitionOf
<1>2. CASE to # None
  <2>1. /\ u.state = to /\ u.last.to = to /\ u.exit = x.exit /\ u.def = x.def
        /\ u.fails = (IF x.state # to THEN 0 ELSE x.fails)
        /\ DOMAIN u = DOMAIN x /\ "exit" \in DOMAIN x
    <3>1. u = moveTo(x, to, "ok") BY DEF moveTo
    <3>2. DOMAIN u = DOMAIN x /\ "exit" \in DOMAIN x BY DEF recordTransition, transitionTo, Instance
    <3>. HIDE DEF u
    <3>. QED BY <3>1, <3>2, MoveFields
  <2>2. y = IF to \in definitionOf(x).terminal THEN complete(u, to) ELSE u BY <1>2 DEF handleError
  <2>. HIDE DEF u, y
  <2>3. CASE to \in definitionOf(x).terminal
    BY <2>2, <2>3, <2>1, <1>2 DEF complete, definitionOf, y
  <2>4. CASE to \notin definitionOf(x).terminal BY <1>2, <2>1, <2>2, <2>4 DEF definitionOf, y
  <2>. QED BY <2>3, <2>4
<1>. QED BY <1>1, <1>2

(* An error, wherever it goes, in an instance that keeps what it should.   *)
LEMMA HandleErrorKept ==
    ASSUME NEW x \in Instance, NEW s \in State, NEW cause, NEW ctx, Kept(x, ctx)
    PROVE  Kept(handleError(x, s, cause), ctx)
<1>. DEFINE to == ErrorTarget(definitionOf(x), s, cause)
            y  == handleError(x, s, cause)
<1>1. /\ definitionOf(y) = definitionOf(x)
      /\ to = None => y = complete(x, "TERMINAL_ERROR")
      /\ to # None => /\ y.state = to /\ y.last.to = to
                      /\ y.fails = IF x.state # to THEN 0 ELSE x.fails
                      /\ y.exit = IF to \in definitionOf(x).terminal THEN to ELSE x.exit
  BY HandleErrorFields
<1>2. CASE to = None
  BY NamesAssumption, <1>1, <1>2, CompleteKept DEF Exit, ExitCode
<1>3. CASE to # None
  <2>1. ~EnteredByTransition(definitionOf(x), to) /\ to \in State
    BY <1>3, ErrorTargetEntered, ErrorTargetType
  <2>. HIDE DEF y, to
  <2>4. StrictOK(y, ctx) BY <1>1, <1>3, <2>1 DEF StrictOK, OnlyByAuto
  <2>5. RetriesOK(y)
    <3>1. CASE x.state # to
      BY <1>1, <1>3, DefinitionType, <3>1 DEF RetriesOK, Definition
    <3>2. CASE x.state = to
      BY <1>1, <1>3, <3>2 DEF isCompleted, Kept, RetriesOK
    <3>. QED BY <3>1, <3>2
  <2>. QED
    BY <1>1, <1>3, <2>4, <2>5 DEF Kept, y, LogOK
<1>. QED BY <1>2, <1>3

(* A rejection in an open instance, which fails at the maximum.            *)
LEMMA RejectedKept ==
    ASSUME NEW x \in Instance, NEW ctx, Kept(x, ctx), ~isCompleted(x),
           NEW u, u = incrementGuardFailure(x),
           NEW y, y = IF u.fails >= definitionOf(u).maxGuardRetries
                      THEN handleError(u, x.state, None) ELSE u
    PROVE  Kept(y, ctx)
<1>. DEFINE d   == definitionOf(x)
            max == d.maxGuardRetries
            to  == ErrorTarget(d, x.state, None)
<1>1. /\ u.state = x.state /\ u.last = x.last /\ u.exit = x.exit /\ u.fails = x.fails + 1
      /\ definitionOf(u) = d /\ u \in Instance
  BY DEF incrementGuardFailure, Instance, definitionOf
<1>2. max \in Nat /\ x.fails \in Nat /\ x.state \in State BY DefinitionType DEF Definition, Instance
<1>3. LogOK(u) /\ StrictOK(u, ctx) BY <1>1 DEF Kept, LogOK, StrictOK
<1>4. d.onError[x.state] # x.state => u.fails <= max \/ u.fails = 1
  <2>. HIDE DEF max
  <2>. QED
    BY <1>1, <1>2 DEF Kept, RetriesOK, max
<1>5. CASE ~(u.fails >= max)
  BY <1>1, <1>5, <1>2, <1>3 DEF RetriesOK, Kept
<1>6. CASE u.fails >= max
  <2>1. /\ definitionOf(y) = d
        /\ to = None => y = complete(u, "TERMINAL_ERROR")
        /\ to # None => /\ y.state = to /\ y.last.to = to
                        /\ y.fails = IF u.state # to THEN 0 ELSE u.fails
    BY <1>1, <1>6, HandleErrorFields
  <2>2. CASE to = None
    BY <1>1, <2>1, <2>2, NamesAssumption, <1>3, <1>4 DEF complete, Instance, Exit, ExitCode,
       isCompleted, LogOK, StrictOK, RetriesOK, Kept
  <2>3. CASE to # None
    <3>1. ~EnteredByTransition(d, to) /\ to = d.onError[x.state] BY <1>2, <2>3, ErrorTargetEntered
    <3>. HIDE DEF to
    <3>3. RetriesOK(y)
      <4>1. CASE x.state # to BY <1>1, <1>2, <2>1, <2>3, <4>1 DEF RetriesOK
      <4>2. CASE x.state = to
        BY <2>1, <2>3, <3>1, <4>2 DEF RetriesOK
      <4>. QED BY <4>1, <4>2
    <3>. QED
      BY <2>1, <2>3, <3>1, <3>3 DEF Kept, LogOK, StrictOK, OnlyByAuto
  <2>. QED BY <2>2, <2>3
<1>. QED BY <1>5, <1>6

(* A rejection in a sub-flow, as long as it does not fail there.           *)
LEMMA SubRejectedKept ==
    ASSUME NEW x \in Instance, NEW ctx, Kept(x, ctx), NEW u, u = incrementGuardFailure(x),
           u.fails < definitionOf(u).maxGuardRetries
    PROVE  Kept(u, ctx) /\ u \in Instance /\ u.def = x.def /\ u.exit = x.exit /\ u.state = x.state
<1>1. /\ u.state = x.state /\ u.last = x.last /\ u.exit = x.exit /\ u.def = x.def
      /\ definitionOf(u) = definitionOf(x) /\ u \in Instance
  BY DEF incrementGuardFailure, Instance, definitionOf
<1>. QED
  BY <1>1, DefinitionType DEF Kept, LogOK, StrictOK, RetriesOK, Definition, Instance

(* A whole step along a transition: strict mode is about those of a state  *)
(* to which only automatic ones lead.                                      *)
LEMMA TakenKept ==
    ASSUME NEW x \in Instance, NEW ctx, LogOK(x), RetriesOK(x),
           NEW i \in DOMAIN definitionOf(x).transitions,
           LET t == definitionOf(x).transitions[i]
           IN  /\ t.type # "sub_flow"
               /\ (t.type = "auto" /\ definitionOf(x).strictMode) => t.produces \subseteq ctx,
           NEW to \in State, to = definitionOf(x).transitions[i].to
    PROVE  Kept(moveTo(x, to, "ok"), ctx)
<1>. DEFINE y == moveTo(x, to, "ok")
            d == definitionOf(x)
<1>2. definitionOf(y) = d /\ y.state = to BY MoveFields
<1>3. i \in Into(d, to) BY DEF Into
<1>. HIDE DEF y
<1>4. StrictOK(y, ctx) BY <1>2, <1>3 DEF StrictOK, OnlyByAuto
<1>. QED
  BY MoveKept, <1>4 DEF Kept, y

(* A parent on its way out of a sub-flow.                                  *)
LEMMA ExitKept ==
    ASSUME NEW x \in Instance, NEW ctx, Kept(x, ctx), NEW e \in Exit,
           NEW to, to = exitTarget(x, e), to # None,
           NEW o \in {"ok", "enter", "exit"}, o = "ok" \/ o \in Throwing(x, to)
    PROVE  /\ Kept(moveTo(x, to, o), ctx)
           /\ to \in State /\ to \in Ways(definitionOf(x), x.state)
<1>. DEFINE d == definitionOf(x)
            T == ofType(d, x.state, {"sub_flow"})
            i == First(T)
            y == moveTo(x, to, o)
<1>1. T # {} /\ to = d.transitions[i].exits[e] BY DEF exitTarget
<1>2. /\ i \in DOMAIN d.transitions /\ d.transitions[i].from = x.state
      /\ d.transitions[i].type = "sub_flow"
  BY <1>1, FirstOfType
<1>. HIDE DEF i
<1>4. to \in Ways(d, x.state)
  BY <1>2, <1>1 DEF transitionsFrom, Successors, Ways
<1>7. definitionOf(y) = d /\ (o = "exit" => y = x) /\ (o # "exit" => y.state = to) BY MoveFields
<1>. HIDE DEF y
<1>8. StrictOK(y, ctx)
  BY <1>1, <1>2, <1>7 DEF StrictOK, OnlyByAuto, Kept, EnteredByTransition
<1>. QED
  BY ExitTargetType, <1>4, MoveKept, <1>8 DEF Kept, y

-----------------------------------------------------------------------------
(* Instances: where the root goes.                                         *)

(* An instance is open, unless its flow may be completed and go on.        *)
Alive(x) == RoutesSubFlowErrors(definitionOf(x)) => ~isCompleted(x)

LEMMA MoveLives ==
    ASSUME NEW x \in Instance, Alive(x), NEW to \in Ways(definitionOf(x), x.state),
           NEW o \in {"ok", "enter", "exit"}
    PROVE  /\ (o # "exit" /\ ~isCompleted(x)) => Moves(x, moveTo(x, to, o))
           /\ Lives(x, moveTo(x, to, o))
<1>. DEFINE y == moveTo(x, to, o)
<1>1. /\ y.exit = x.exit /\ y.def = x.def
      /\ o = "exit" => y = x
      /\ o # "exit" => y.state = to
  BY MoveFields
<1>. HIDE DEF y
<1>2. CASE o = "exit" BY <1>1, <1>2 DEF Lives, Stays, y
<1>3. CASE o # "exit" BY <1>1, <1>3 DEF Alive, Lives, Moves, Arrives, isCompleted, y
<1>. QED BY <1>2, <1>3 DEF y

(* An error that the state of an open instance routes.                     *)
LEMMA RoutedLives ==
    ASSUME NEW x \in Instance, ~isCompleted(x), NEW cause,
           ErrorTarget(definitionOf(x), x.state, cause) # None
    PROVE  Moves(x, handleError(x, x.state, cause))
<1>. DEFINE d  == definitionOf(x)
            to == ErrorTarget(d, x.state, cause)
            y  == handleError(x, x.state, cause)
<1>1. to \in Ways(d, x.state)
  BY ErrorTargetEntered DEF Instance, Ways
<1>2. /\ y.def = x.def /\ y.state = to
      /\ y.exit = IF to \in d.terminal THEN to ELSE x.exit
  BY HandleErrorFields
<1>. HIDE DEF y, to
<1>. QED BY <1>1, <1>2 DEF Moves, Arrives, isCompleted, y

(* A transition or a branch that fails.  u is the instance when the error  *)
(* is caught: where it was, or past an enter action that has thrown.       *)
Caught(x, u) ==
    \/ u = x
    \/ \E to \in Ways(definitionOf(x), x.state) \cap definitionOf(x).enterActions :
          to \in State /\ u = moveTo(x, to, "enter")

LEMMA CaughtIn ==
    ASSUME NEW x \in Instance, NEW to \in State, to \in Ways(definitionOf(x), x.state),
           NEW o \in Throwing(x, to)
    PROVE  Caught(x, moveTo(x, to, o)) /\ o \in {"enter", "exit"}
<1>2. CASE o = "exit" BY <1>2 DEF Caught, moveTo
<1>3. CASE o = "enter" /\ to \in definitionOf(x).enterActions BY <1>3 DEF Caught
<1>. QED
  BY <1>2, <1>3 DEF Throwing

LEMMA CaughtKept ==
    ASSUME NEW x \in Instance, NEW ctx, Kept(x, ctx), now \in Nat, NEW u, Caught(x, u)
    PROVE  u \in Instance /\ u.def = x.def /\ u.exit = x.exit /\ Kept(u, ctx)
<1>1. CASE u = x BY <1>1
<1>2. CASE u # x
  <2>1. PICK to \in Ways(definitionOf(x), x.state) \cap definitionOf(x).enterActions :
               to \in State /\ u = moveTo(x, to, "enter")
    BY <1>2 DEF Caught
  <2>6. StrictOK(u, ctx)
    BY <2>1, MoveFields DEF StrictOK, OnlyByAuto, EnteredByTransition
  <2>. QED
    BY MoveKept, <2>1, MoveToType, <2>6 DEF Kept, Throwing
<1>. QED BY <1>1, <1>2

LEMMA CaughtLives ==
    ASSUME NEW x \in Instance, Alive(x), NEW u, Caught(x, u), now \in Nat,
           NEW s, s \in {x.state, u.state}, NEW cause
    PROVE  Lives(x, handleError(u, s, cause))
<1>. DEFINE d  == definitionOf(x)
            to == ErrorTarget(d, s, cause)
            y  == handleError(u, s, cause)
<1>b. CASE isCompleted(x)
  <2>. HIDE DEF y
  <2>. QED
    BY <1>b, MoveFields, MoveToType, HandleErrorFields DEF Alive, Lives, y, Caught
<1>c. SUFFICES ASSUME ~isCompleted(x) PROVE Lives(x, handleError(u, s, cause)) BY <1>b
<1>1. CASE u = x
  <2>2. CASE to = None
    <3>1. y = complete(x, "TERMINAL_ERROR") /\ y.def = x.def BY <1>1, <2>2, HandleErrorFields
    <3>. HIDE DEF y
    <3>. QED
      BY <1>c, <3>1 DEF Lives, Closes, y, complete, Instance
  <2>3. CASE to # None
    <3>. HIDE DEF y
    <3>. QED
      BY <1>1, <1>c, <2>3, RoutedLives, HandleErrorFields DEF Lives, y
  <2>. QED BY <2>2, <2>3
<1>2. CASE u # x
  <2>1. PICK t \in Ways(d, x.state) \cap d.enterActions : t \in State /\ u = moveTo(x, t, "enter")
    BY <1>2 DEF Caught
  <2>2. /\ definitionOf(u) = d /\ u.state = t /\ u.def = x.def /\ u.exit = x.exit
        /\ u \in Instance
    BY <2>1, MoveFields, MoveToType
  <2>3. s \in State /\ s \in {x.state, t}
    BY <2>1, <2>2 DEF Instance
  <2>4. /\ y.def = u.def
        /\ to = None => y = complete(u, "TERMINAL_ERROR")
        /\ to # None => /\ y.state = to
                        /\ y.exit = IF to \in d.terminal THEN to ELSE u.exit
    BY <2>2, HandleErrorFields
  <2>5. to # None => to \in ErrorWays(d, s) BY <2>2, <2>3, ErrorTargetEntered
  <2>6. CASE to = None
    <3>1. y.state = t /\ y.exit = "TERMINAL_ERROR" BY <2>2, <2>4, <2>6 DEF complete, Instance
    <3>. HIDE DEF y
    <3>. QED BY <1>c, <2>1, <2>2, <2>4, <3>1 DEF Lives, Stumbles, y
  <2>7. CASE to # None
    <3>. HIDE DEF y, to
    <3>1. y.state \in ErrorWays(d, t) \cup ErrorWays(d, x.state) /\ Arrives(d, y)
      BY <1>c, <2>2, <2>3, <2>4, <2>5, <2>7 DEF Arrives, isCompleted
    <3>. QED BY <1>c, <2>1, <2>2, <2>4, <3>1 DEF Lives, Stumbles, y
  <2>. QED BY <2>6, <2>7
<1>. QED BY <1>1, <1>2

(* The target of a transition that starts where the instance is.           *)
LEMMA ChosenWay ==
    ASSUME NEW m, Working(m), Chosen(m).from = Current(m).state, Chosen(m).type # "sub_flow"
    PROVE  Chosen(m).to \in Ways(definitionOf(Current(m)), Current(m).state)
<1>. DEFINE x == Current(m)
            d == definitionOf(x)
<1>. QED
  BY DEF Ways, Successors, Chosen, Working, transitionsFrom

-----------------------------------------------------------------------------
(* Runs.                                                                   *)

(* The instances of n are those of m, the current one replaced by y.       *)
Replaced(m, n, y) ==
    /\ DOMAIN n.ins = DOMAIN m.ins /\ Len(n.ins) = Len(m.ins)
    /\ n.ins[Level(m)] = y
    /\ \A i \in DOMAIN m.ins : i # Level(m) => n.ins[i] = m.ins[i]

LEMMA SetReplaces ==
    ASSUME NEW m, Ready(m), NEW x, NEW n, n = setCurrent(m, x)
    PROVE  /\ Replaced(m, n, x)
           /\ n.ctx = m.ctx /\ n.call = m.call /\ Level(n) = Level(m)
           /\ n.ctx \in SUBSET Key /\ n.call \in Frame /\ DOMAIN n = {"ins", "ctx", "call"}
<1>. DEFINE L == Level(m)
            s == [m.ins EXCEPT ![L] = x]
<1>1. /\ m \in [ins: Seq(Instance), ctx: SUBSET Key, call: Frame]
      /\ L \in DOMAIN m.ins
  BY DEF Ready, RunType
<1>3. n.ins = s /\ n.ctx = m.ctx /\ n.call = m.call /\ DOMAIN n = {"ins", "ctx", "call"}
  BY <1>1 DEF setCurrent
<1>4. /\ DOMAIN s = DOMAIN m.ins /\ s[L] = x
      /\ \A i \in DOMAIN m.ins : i # L => s[i] = m.ins[i]
  BY <1>1
<1>6. Level(n) = L BY <1>3 DEF Level
<1>. HIDE DEF s, L
<1>. QED
  BY <1>1, <1>3, <1>4, ReadyType, <1>6 DEF L, Replaced

LEMMA ReplacedTwice ==
    ASSUME NEW m, NEW k, Level(k) = Level(m), NEW u, Replaced(m, k, u),
           NEW n, NEW y, Replaced(k, n, y)
    PROVE  Replaced(m, n, y)
BY DEF Replaced

LEMMA ReplacedFields ==
    ASSUME NEW m, Ready(m), NEW n, NEW y, Replaced(m, n, y)
    PROVE  /\ 1 \in DOMAIN m.ins
           /\ Level(m) = 1 => n.ins[1] = y /\ Current(m) = m.ins[1]
           /\ Level(m) # 1 => n.ins[1] = m.ins[1]
<1>. QED
  BY ReadyType DEF Replaced, Current, Ready

LEMMA ReplacedKept ==
    ASSUME NEW m, NEW n, NEW y, Replaced(m, n, y), NEW ctx, Kept(y, ctx),
           \A i \in DOMAIN m.ins : i # Level(m) => Kept(m.ins[i], ctx)
    PROVE  AllKept(n.ins, ctx)
BY DEF Replaced, AllKept

(* A step that ends with the current instance replaced: a call that is     *)
(* over, or at the end of its chain.                                       *)
LEMMA ReplaceOutcome ==
    ASSUME NEW m, Ready(m), RootOpen(m), NEW y, Level(m) = 1 => Lives(Current(m), y),
           NEW n, Replaced(m, n, y), AllKept(n.ins, n.ctx),
           n.call.pc = "idle" \/ (n.call.pc = "chainEnd" /\ Level(n) = Level(m))
    PROVE  Outcome(n, m.ins[1])
<1>1. /\ Len(n.ins) = Len(m.ins) /\ 1 \in DOMAIN n.ins
      /\ Level(m) = 1 => n.ins[1] = y /\ Current(m) = m.ins[1]
      /\ Level(m) # 1 => n.ins[1] = m.ins[1]
  BY ReplacedFields DEF Replaced
<1>2. Lives(m.ins[1], n.ins[1]) BY <1>1 DEF Lives, Stays
<1>3. Routed(n.ins) <=> Routed(m.ins) BY <1>2 DEF Lives, Routed, definitionOf
<1>4. Routed(m.ins) => IF Level(m) = 1 THEN Len(n.ins) = 1
                       ELSE ~isCompleted(n.ins[1]) /\ Embeds(n.ins[1])
  BY <1>1 DEF RootOpen
<1>5. RestsWell(n.ins, n.ctx)
  <2>1. ASSUME Routed(n.ins), Len(n.ins) > 1 PROVE Embeds(n.ins[1])
    <3>1. Len(n.ins) \in Nat BY <1>1, ReadyType
    <3>2. \A N \in Nat : N > 1 => N # 1 OBVIOUS
    <3>3. Len(n.ins) # 1 BY <2>1, <3>1, <3>2, Zenon
    <3>. QED BY <1>3, <1>4, <2>1, <3>3
  <2>. QED BY <1>1, <2>1 DEF RestsWell
<1>6. ASSUME n.call.pc # "idle" PROVE WorksWell(n)
  BY <1>6, <1>3, <1>4 DEF RootOpen, WorksWell, Holding
<1>. QED BY <1>2, <1>5, <1>6 DEF Outcome

(* What a run's chain shows of its root does not change with its call,     *)
(* as long as the level stays.                                             *)
LEMMA RestsFrom ==
    ASSUME NEW m, Ready(m), Goes(m), NEW n, n.ins = m.ins, n.ctx = m.ctx
    PROVE  RestsWell(n.ins, n.ctx)
<1>1. ASSUME Routed(m.ins), Len(m.ins) > 1 PROVE Embeds(m.ins[1])
  <2>1. Len(m.ins) \in Nat BY ReadyType
  <2>2. \A N \in Nat : N > 1 => N # 1 OBVIOUS
  <2>3. Len(m.ins) # 1 BY <1>1, <2>1, <2>2, Zenon
  <2>. QED BY <1>1, <2>3 DEF Goes
<1>. QED
  BY <1>1, ReadyType DEF RestsWell, Goes, Ready

(* A sub-flow starts: its parents stay as they are.                        *)
LEMMA StartSubFlowFields ==
    ASSUME NEW m, Ready(m), now \in Nat,
           ofType(definitionOf(Current(m)), Current(m).state, {"sub_flow"}) # {},
           NEW n, n = startSubFlow(m)
    PROVE  /\ n.ctx = m.ctx /\ n.call.pc = "enterSub" /\ n.call.flow = m.call.flow
           /\ Level(n) # 1 /\ n.ins[1] = m.ins[1] /\ 1 \in DOMAIN n.ins
           /\ \A ctx : AllKept(m.ins, ctx) => AllKept(n.ins, ctx)
<1>. DEFINE x    == Current(m)
            L    == Level(m)
            i    == First(ofType(definitionOf(x), x.state, {"sub_flow"}))
            t    == definitionOf(x).transitions[i]
            pre  == SubSeq(m.ins, 1, L)
            new  == NewInstance(t.sub, now)
            s    == Append(pre, new)
            dep  == Append(m.call.depth, 0)
<1>1. /\ m \in [ins: Seq(Instance), ctx: SUBSET Key, call: Frame]
      /\ m.call.depth \in Seq(Nat) /\ m.call.base \in {1, 2}
  BY DEF Ready, RunType, Frame
<1>2. /\ L \in Nat /\ L >= 1 /\ L \in DOMAIN m.ins
      /\ DOMAIN m.ins = 1 .. Len(m.ins) /\ Len(m.ins) \in Nat
      /\ x \in Instance
      /\ \A j \in DOMAIN m.ins : m.ins[j] \in Instance
  BY ReadyType DEF Ready
<1>3. t.sub \in DefName
  BY <1>2, FirstOfType, SubFlowAssumption DEF Instance, definitionOf
<1>4. new \in Instance /\ \A ctx : Kept(new, ctx) BY <1>3, NewInstanceType, NewKept
<1>5. /\ pre \in Seq(Instance) /\ Len(pre) = L
      /\ \A j \in 1 .. L : pre[j] = m.ins[j]
  <2>. HIDE DEF x, L
  <2>. QED
    BY <1>2, SubSeqProperties
<1>6. /\ DOMAIN s = 1 .. L + 1 /\ s[L + 1] = new
      /\ \A j \in 1 .. L : s[j] = m.ins[j]
  <2>. HIDE DEF pre, new, L
  <2>. QED
    BY <1>4, AppendProperties, LenProperties, <1>5
<1>7. dep \in Seq(Nat) /\ Len(dep) = Len(m.call.depth) + 1 /\ Len(m.call.depth) \in Nat
  BY <1>1, AppendProperties, LenProperties
<1>8. n = [m EXCEPT !.ins = s, !.call = [m.call EXCEPT !.depth = dep, !.pc = "enterSub"]]
  BY <1>1 DEF startSubFlow, Frame
<1>. HIDE DEF s, dep, new, t, pre
<1>9. /\ n.ins = s /\ n.ctx = m.ctx /\ n.call.pc = "enterSub" /\ n.call.depth = dep
      /\ n.call.base = m.call.base /\ n.call.flow = m.call.flow
  <2>. DEFINE k == [m.call EXCEPT !.depth = dep, !.pc = "enterSub"]
  <2>1. /\ k.pc = "enterSub" /\ k.depth = dep /\ k.base = m.call.base /\ k.flow = m.call.flow
    BY <1>1 DEF Frame
  <2>2. n = [m EXCEPT !.ins = s, !.call = k] BY <1>8
  <2>. HIDE DEF k
  <2>. QED BY <1>1, <2>1, <2>2
<1>10. Level(n) = L + 1
  <2>2. L = m.call.base + Len(m.call.depth) - 1 BY DEF Level
  <2>3. m.call.base \in Nat BY <1>1 DEF Frame
  <2>4. \A a, b \in Nat : a + (b + 1) - 1 = (a + b - 1) + 1 OBVIOUS
  <2>. HIDE DEF L
  <2>. QED
    BY <1>7, <1>9, <2>2, <2>3, <2>4 DEF Level
<1>11. L + 1 # 1 /\ 1 \in 1 .. L /\ 1 \in 1 .. L + 1 /\ \A j \in 1 .. L + 1 : j \in 1 .. L \/ j = L + 1
  <2>. HIDE DEF L
  <2>. QED BY <1>2
<1>12. \A j \in 1 .. L : j \in DOMAIN m.ins
  <2>. HIDE DEF L
  <2>. QED BY <1>2
<1>. HIDE DEF L
<1>13. ASSUME NEW ctx, AllKept(m.ins, ctx) PROVE AllKept(n.ins, ctx)
  <2>. SUFFICES ASSUME NEW j \in 1 .. L + 1 PROVE Kept(s[j], ctx) BY <1>6, <1>9 DEF AllKept
  <2>1. CASE j \in 1 .. L BY <1>6, <1>12, <1>13, <2>1 DEF AllKept
  <2>2. CASE j = L + 1 BY <1>4, <1>6, <2>2
  <2>. QED BY <1>11, <2>1, <2>2
<1>. QED BY <1>6, <1>9, <1>10, <1>11, <1>13

(* One turn of the auto-chain.                                             *)
LEMMA LoopKeeps ==
    ASSUME NEW m, Ready(m), now \in Nat, Goes(m), NEW n, n = loop(m)
    PROVE  /\ RestsWell(n.ins, n.ctx)
           /\ n.call.pc # "idle" => WorksWell(n)
           /\ \/ n.ins[1] = m.ins[1]
              \/ /\ Level(m) = 1 /\ isTerminal(m.ins[1])
                 /\ n.ins[1] = complete(m.ins[1], m.ins[1].state)
<1>. DEFINE x     == Current(m)
            d     == definitionOf(x)
            steps == ofType(d, x.state, {"auto", "branch"})
<1>0. /\ m \in [ins: Seq(Instance), ctx: SUBSET Key, call: Frame]
      /\ x \in Instance
      /\ Level(m) = 1 => x = m.ins[1]
  BY ReadyType DEF Ready, RunType, Current
<1>1. CASE m.call.depth[Len(m.call.depth)] >= MaxChainDepth
  BY <1>1, <1>0, RestsFrom DEF loop, throw, Idle
<1>2. CASE ~(m.call.depth[Len(m.call.depth)] >= MaxChainDepth) /\ isTerminal(x)
  <2>. DEFINE y == complete(x, x.state)
              k == setCurrent(m, y)
  <2>1. n = [k EXCEPT !.call.pc = "chainEnd"] BY <1>2 DEF loop
  <2>2. /\ y.def = x.def /\ y.state = x.state /\ x.state \in State /\ x.state # None
        /\ x.state \in definitionOf(x).terminal
    BY <1>0, <1>2, NamesAssumption DEF complete, Instance, isTerminal
  <2>3. \A ctx : Kept(x, ctx) => Kept(y, ctx) BY <1>0, <2>2, CompleteKept
  <2>. HIDE DEF y
  <2>5. /\ k.ctx = m.ctx /\ k.call = m.call /\ Level(k) = Level(m) /\ Len(k.ins) = Len(m.ins)
        /\ 1 \in DOMAIN k.ins
        /\ Level(m) = 1 => k.ins[1] = y /\ x = m.ins[1]
        /\ Level(m) # 1 => k.ins[1] = m.ins[1]
    <3>1. Replaced(m, k, y) /\ k.ctx = m.ctx /\ k.call = m.call /\ Level(k) = Level(m)
      BY SetReplaces
    <3>. HIDE DEF k
    <3>. QED BY <3>1, ReplacedFields DEF Replaced
  <2>6. AllKept(k.ins, m.ctx)
    <3>1. Replaced(m, k, y) BY SetReplaces
    <3>. HIDE DEF k
    <3>. QED
      BY <2>3, <3>1, ReplacedKept DEF Goes, AllKept, Ready, Current
  <2>7. k \in [ins: Seq(Instance), ctx: SUBSET Key, call: Frame]
    BY <1>0, <2>2, SetCurrentType DEF y, complete, Instance, Exit, ExitOK, isTerminal,
       definitionOf, Ready, RunType
  <2>. HIDE DEF k
  <2>8. /\ n.ins = k.ins /\ n.ctx = k.ctx /\ n.call.pc = "chainEnd"
        /\ n.call.base = k.call.base /\ n.call.depth = k.call.depth
    BY <2>1, <2>7 DEF Frame
  <2>10. Routed(n.ins) => Routed(m.ins) BY <2>2, <2>5, <2>8 DEF Routed, definitionOf
  <2>11. Routed(m.ins) => IF Level(m) = 1 THEN Len(n.ins) = 1
                          ELSE ~isCompleted(n.ins[1]) /\ Embeds(n.ins[1])
    BY <2>5, <2>8 DEF Goes
  <2>12. ASSUME Routed(n.ins), Len(n.ins) > 1 PROVE Embeds(n.ins[1])
    <3>1. Len(n.ins) \in Nat BY <2>5, <2>8, ReadyType
    <3>2. \A N \in Nat : N > 1 => N # 1 OBVIOUS
    <3>3. Len(n.ins) # 1 BY <2>12, <3>1, <3>2, Zenon
    <3>. QED BY <2>10, <2>11, <2>12, <3>3
  <2>13. RestsWell(n.ins, n.ctx) BY <2>5, <2>6, <2>8, <2>12 DEF RestsWell
  <2>14. WorksWell(n)
    BY <2>8, <2>5, <2>10, <2>11 DEF WorksWell, RootOpen, Holding, Level
  <2>. QED BY <2>2, <2>5, <2>8, <2>13, <2>14 DEF y, isTerminal
<1>3. CASE /\ ~(m.call.depth[Len(m.call.depth)] >= MaxChainDepth) /\ ~isTerminal(x)
           /\ ofType(d, x.state, {"sub_flow"}) # {}
  BY <1>3, StartSubFlowFields, <1>0 DEF loop, Goes, Routed, Embeds, RestsWell, WorksWell,
     RootOpen, Holding
<1>4. CASE /\ ~(m.call.depth[Len(m.call.depth)] >= MaxChainDepth) /\ ~isTerminal(x)
           /\ ofType(d, x.state, {"sub_flow"}) = {} /\ steps # {}
  <2>. DEFINE i == First(steps)
              pc == IF d.transitions[i].type = "auto" THEN "auto" ELSE "decide"
  <2>1. n = [m EXCEPT !.call.t = i, !.call.backup = m.ctx, !.call.pc = pc] BY <1>4 DEF loop
  <2>2. pc \in {"auto", "decide"} /\ d.transitions[i].type = Kind(pc)
    BY <1>0, <1>4, FirstOfType DEF Kind
  <2>. HIDE DEF i, pc
  <2>3. /\ n.ins = m.ins /\ n.ctx = m.ctx /\ n.call.backup = m.ctx /\ n.call.pc = pc
        /\ n.call.t = i /\ n.call.base = m.call.base /\ n.call.depth = m.call.depth
    <3>. DEFINE q == [m.call EXCEPT !.t = i, !.backup = m.ctx, !.pc = pc]
    <3>1. /\ q.t = i /\ q.backup = m.ctx /\ q.pc = pc
          /\ q.base = m.call.base /\ q.depth = m.call.depth
      BY <1>0 DEF Frame
    <3>2. n = [m EXCEPT !.call = q] BY <1>0, <2>1 DEF Frame
    <3>. HIDE DEF q
    <3>. QED BY <1>0, <3>1, <3>2
  <2>4. Level(n) = Level(m) BY <2>3 DEF Level
  <2>5. Chosen(n).type = Kind(n.call.pc) BY <2>2, <2>3, <2>4 DEF Chosen, Current
  <2>6. Snapshot(n) BY <2>3 DEF Snapshot, Goes, AllKept, Kept
  <2>7. RootOpen(n)
    BY <1>0, <1>4, <2>3, <2>4 DEF Goes, RootOpen
  <2>. QED BY <2>2, <2>3, <2>5, <2>6, <2>7, RestsFrom DEF WorksWell
<1>5. CASE /\ ~(m.call.depth[Len(m.call.depth)] >= MaxChainDepth) /\ ~isTerminal(x)
           /\ ofType(d, x.state, {"sub_flow"}) = {} /\ steps = {}
  BY <1>5, <1>0, RestsFrom DEF loop, Frame, Level, Goes, RootOpen, WorksWell, Holding
<1>. QED BY <1>1, <1>2, <1>3, <1>4, <1>5

LEMMA TurnOutcome ==
    ASSUME NEW m, Ready(m), now \in Nat, NEW x, Turn(m, x), NEW n, n = loop(m)
    PROVE  Outcome(n, x)
<1>1. /\ RestsWell(n.ins, n.ctx)
      /\ n.call.pc # "idle" => WorksWell(n)
      /\ \/ n.ins[1] = m.ins[1]
         \/ /\ Level(m) = 1 /\ isTerminal(m.ins[1])
            /\ n.ins[1] = complete(m.ins[1], m.ins[1].state)
  BY LoopKeeps DEF Turn
<1>2. m.ins[1] \in Instance BY ReadyType DEF Ready
<1>3. CASE n.ins[1] = m.ins[1]
  BY <1>3, <1>1 DEF Lives, Turn, Routed, definitionOf, Stays, Outcome
<1>4. CASE /\ Level(m) = 1 /\ isTerminal(m.ins[1])
           /\ n.ins[1] = complete(m.ins[1], m.ins[1].state)
  BY <1>2, <1>4, <1>1 DEF complete, Instance, isTerminal, Turn, Lives, Routed, definitionOf,
     Moves, Arrives, Outcome
<1>. QED BY <1>1, <1>3, <1>4

-----------------------------------------------------------------------------
(* Try blocks.                                                             *)

(* A run in a try block, whose snapshot fits it.                           *)
Held(m) ==
    /\ AllKept(m.ins, m.ctx) /\ Snapshot(m) /\ RootOpen(m)
    /\ Chosen(m).from = Current(m).state /\ Chosen(m).type # "sub_flow"

LEMMA RootAlive ==
    ASSUME NEW m, Ready(m), RootOpen(m), Level(m) = 1
    PROVE  Alive(Current(m)) /\ Current(m) = m.ins[1]
BY DEF RootOpen, Routed, Alive, Current

(* Every instance fits the snapshot.                                       *)
LEMMA SnapshotKept ==
    ASSUME NEW m, Held(m)
    PROVE  AllKept(m.ins, m.call.backup)
BY DEF Held, Snapshot, AllKept, Kept

(* What is common to the parents of the current instance.                  *)
LEMMA ReplacedRouted ==
    ASSUME NEW m, Ready(m), NEW n, NEW y, Replaced(m, n, y), y.def = Current(m).def
    PROVE  n.ins[1].def = m.ins[1].def /\ (Routed(n.ins) <=> Routed(m.ins))
<1>. QED
  BY ReplacedFields DEF Routed, definitionOf

(* Taking the transition that a run holds.                                 *)
LEMMA MovedTurn ==
    ASSUME NEW m, Working(m), AllKept(m.ins, m.ctx), RootOpen(m), now \in Nat,
           Chosen(m).from = Current(m).state, Chosen(m).type # "sub_flow",
           (Chosen(m).type = "auto" /\ definitionOf(Current(m)).strictMode)
                => Chosen(m).produces \subseteq m.ctx,
           NEW n, n = setCurrent(m, moveTo(Current(m), Chosen(m).to, "ok"))
    PROVE  Turn(n, m.ins[1]) /\ Working(n) /\ n.call = m.call
<1>. DEFINE x  == Current(m)
            to == Chosen(m).to
            y  == moveTo(x, to, "ok")
<1>1. Ready(m) /\ x \in Instance /\ to \in State BY ReadyType, WorkingChosen DEF Working
<1>2. Working(n) /\ n.call = m.call BY <1>1, WorkingMove
<1>5. Kept(y, m.ctx)
  BY <1>1, TakenKept DEF Working, Chosen, Kept, Ready, AllKept, Current
<1>6. y.def = x.def BY <1>1, MoveFields
<1>7. Alive(x) /\ ~isCompleted(x) => Moves(x, y)
  BY <1>1, ChosenWay, MoveLives
<1>. HIDE DEF y, x
<1>8. Replaced(m, n, y) /\ n.ctx = m.ctx /\ Level(n) = Level(m) BY <1>1, SetReplaces DEF x, y
<1>9. AllKept(n.ins, n.ctx) BY <1>5, <1>8, ReplacedKept DEF AllKept
<1>10. /\ n.ins[1].def = m.ins[1].def /\ (Routed(n.ins) <=> Routed(m.ins))
       /\ Level(m) = 1 => n.ins[1] = y /\ x = m.ins[1]
       /\ Level(m) # 1 => n.ins[1] = m.ins[1]
       /\ Len(n.ins) = Len(m.ins)
  BY <1>1, <1>6, <1>8, ReplacedRouted, ReplacedFields DEF x, Replaced
<1>11. ASSUME Routed(m.ins), Level(m) = 1
       PROVE  Len(n.ins) = 1 /\ Moves(m.ins[1], n.ins[1]) /\ (~isCompleted(n.ins[1]) \/ isTerminal(n.ins[1]))
  BY <1>10, <1>11, <1>7, <1>6 DEF RootOpen, Alive, definitionOf, Moves, Arrives, isCompleted,
     isTerminal
<1>12. ASSUME Routed(m.ins), Level(m) # 1
       PROVE  ~isCompleted(n.ins[1]) /\ Embeds(n.ins[1])
  BY <1>10, <1>12 DEF RootOpen
<1>. QED BY <1>2, <1>8, <1>9, <1>10, <1>11, <1>12 DEF Turn, Goes

LEMMA DeeperTurn ==
    ASSUME NEW m, Ready(m), NEW x, Turn(m, x), NEW n, n = deeper(m)
    PROVE  Turn(n, x) /\ Ready(n) /\ n.call.flow = m.call.flow
<1>. DEFINE D == Len(m.call.depth)
            dep == [m.call.depth EXCEPT ![D] = m.call.depth[D] + 1]
<1>1. /\ m \in [ins: Seq(Instance), ctx: SUBSET Key, call: Frame]
      /\ m.call.depth \in Seq(Nat)
  BY DEF Ready, RunType, Frame
<1>3. Len(dep) = D
  BY <1>1, ReadyType DEF Ready
<1>4. n = [m EXCEPT !.call = [m.call EXCEPT !.depth = dep]] BY DEF deeper
<1>. HIDE DEF dep
<1>5. /\ n.ins = m.ins /\ n.ctx = m.ctx
      /\ n.call.base = m.call.base /\ n.call.depth = dep
  BY <1>1, <1>4 DEF Frame
<1>6. Level(n) = Level(m) BY <1>3, <1>5 DEF Level
<1>. QED BY <1>5, <1>6, DeeperReady DEF Turn, Goes

(* A step that fails.  k is the run when its error is caught.              *)
Broken(m, k) ==
    /\ Working(k) /\ k.call = m.call
    /\ Replaced(m, k, Current(k)) /\ Caught(Current(m), Current(k))

LEMMA NotMoved ==
    ASSUME NEW m, Working(m)
    PROVE  Broken(m, m)
BY DEF Broken, Replaced, Caught, Current

LEMMA Thrown ==
    ASSUME NEW m, Working(m), Held(m), now \in Nat,
           NEW o \in Throwing(Current(m), Chosen(m).to),
           NEW k, k = setCurrent(m, moveTo(Current(m), Chosen(m).to, o))
    PROVE  Broken(m, k)
<1>. DEFINE x  == Current(m)
            to == Chosen(m).to
            u  == moveTo(x, to, o)
<1>1. Ready(m) /\ x \in Instance /\ to \in State BY ReadyType, WorkingChosen DEF Working
<1>2. Caught(x, u) /\ o \in {"ok", "enter", "exit"} BY <1>1, ChosenWay, CaughtIn DEF Held
<1>3. Working(k) /\ k.call = m.call
  <2>. HIDE DEF to, u
  <2>. QED
    BY <1>1, <1>2, WorkingMove DEF to
<1>. QED
  BY <1>2, <1>3, <1>1, SetReplaces DEF Broken, Replaced, Current

LEMMA BrokenOutcome ==
    ASSUME NEW m, Working(m), Held(m), now \in Nat, NEW k, Broken(m, k), NEW cause,
           NEW s, s \in {Current(m).state, Current(k).state},
           NEW n, n.ins = setCurrent(k, handleError(Current(k), s, cause)).ins, n.ctx = m.call.backup,
           n.call.pc = "idle" \/ (n.call.pc = "chainEnd" /\ Level(n) = Level(m))
    PROVE  Outcome(n, m.ins[1])
<1>. DEFINE x == Current(m)
            u == Current(k)
            B == m.call.backup
            y == handleError(u, s, cause)
            l == setCurrent(k, y)
<1>1. /\ Ready(m) /\ Ready(k) /\ x \in Instance /\ Level(k) = Level(m)
      /\ Replaced(m, k, u) /\ Caught(x, u)
  BY ReadyType DEF Working, Broken, Level
<1>2. AllKept(m.ins, B) /\ Kept(x, B) BY <1>1, SnapshotKept DEF AllKept, Ready, Current
<1>5. Kept(y, B)
  BY <1>2, CaughtKept, <1>1, HandleErrorKept DEF Instance
<1>6. Level(m) = 1 => Lives(x, y)
  <2>1. ASSUME Level(m) = 1 PROVE Alive(x) BY <1>1, <2>1, RootAlive DEF Held
  <2>. QED BY <1>1, <2>1, CaughtLives
<1>. HIDE DEF y
<1>8. Replaced(m, l, y)
  BY <1>1, SetReplaces, ReplacedTwice
<1>9. n.ins = l.ins BY DEF y
<1>. HIDE DEF l
<1>10. Replaced(m, n, y) BY <1>8, <1>9 DEF Replaced
<1>11. AllKept(n.ins, n.ctx) BY <1>2, <1>5, <1>10, ReplacedKept DEF AllKept
<1>. QED BY <1>1, <1>6, <1>10, <1>11, ReplaceOutcome DEF Held

(* The two catch blocks.                                                   *)
LEMMA FailStepOutcome ==
    ASSUME NEW m, Working(m), Held(m), now \in Nat, NEW k, Broken(m, k), NEW cause,
           NEW n, n = failStep(k, cause)
    PROVE  Outcome(n, m.ins[1])
<1>. DEFINE l == setCurrent(k, handleError(Current(k), Current(k).state, cause))
<1>1. Ready(k) /\ k.call = m.call BY DEF Broken, Working
<1>2. l.call = m.call /\ l.call \in Frame /\ DOMAIN l = {"ins", "ctx", "call"} BY <1>1, SetReplaces
<1>3. n = [l EXCEPT !.ctx = m.call.backup, !.call.pc = "chainEnd"] BY <1>1 DEF failStep
<1>4. /\ n.ins = l.ins /\ n.ctx = m.call.backup /\ n.call.pc = "chainEnd"
      /\ n.call.base = m.call.base /\ n.call.depth = m.call.depth
  <2>. HIDE DEF l
  <2>. QED BY <1>2, <1>3 DEF Frame
<1>. QED
  BY <1>4, BrokenOutcome DEF Level

LEMMA FailExternalOutcome ==
    ASSUME NEW m, Working(m), Held(m), now \in Nat, NEW k, Broken(m, k), NEW cause,
           NEW n, n = failExternal(k, cause)
    PROVE  Outcome(n, m.ins[1])
<1>. DEFINE l == setCurrent(k, handleError(Current(k), Chosen(k).from, cause))
<1>1. /\ Ready(k) /\ k.call = m.call /\ Ready(m) /\ Level(k) = Level(m)
      /\ Caught(Current(m), Current(k))
  BY DEF Broken, Working, Level
<1>3. n = return([l EXCEPT !.ctx = m.call.backup]) BY <1>1 DEF failExternal
<1>4. /\ n.ins = l.ins /\ n.ctx = m.call.backup /\ n.call.pc = "idle"
  <2>. HIDE DEF l
  <2>. QED
    BY <1>1, SetReplaces, <1>3 DEF return, Idle
<1>5. Chosen(k).from = Current(m).state
  BY <1>1, ReadyType, MoveFields DEF Caught, Held, Chosen, definitionOf
<1>. QED BY <1>4, <1>5, BrokenOutcome

-----------------------------------------------------------------------------
(* Steps.                                                                  *)

(* What a step of a call makes of the flow f that it works on; it touches  *)
(* no other.                                                               *)
LifeStep(f) ==
    /\ LifeInv'
    /\ \A g \in Flow : g # f => inst'[g] = inst[g] /\ context'[g] = context[g]
    /\ inst'[f] # <<>> /\ Lives(inst[f][1], inst'[f][1])

(* What is said of a call depends on its frame and its instances.          *)
LEMMA WorksSame ==
    ASSUME NEW m, WorksWell(m), NEW n, n.ins = m.ins, n.call = m.call
    PROVE  WorksWell(n)
<1>. QED
  BY DEF WorksWell, Snapshot, RootOpen, Level, Current, Chosen

LEMMA CommitLife ==
    ASSUME IndInv, LifeInv, NEW c \in Call, NEW f \in Flow, NEW m,
           \A b \in Call : b # c => calls[b].flow # f,
           RestsWell(m.ins, m.ctx), m.call.pc # "idle" => WorksWell(m) /\ m.call.flow = f,
           inst' = [inst EXCEPT ![f] = m.ins],
           context' = [context EXCEPT ![f] = m.ctx],
           calls' = [calls EXCEPT ![c] = m.call]
    PROVE  /\ LifeInv' /\ inst'[f] = m.ins /\ inst'[f] # <<>>
           /\ \A g \in Flow : g # f => inst'[g] = inst[g] /\ context'[g] = context[g]
<1>. DEFINE n == [ins |-> m.ins, ctx |-> m.ctx, call |-> m.call]
<1>1. Written(c, f, m) BY CommitRun
<1>3. ASSUME NEW g \in Flow, Started(g)' PROVE RestsWell(inst'[g], context'[g])
  BY <1>1, <1>3 DEF LifeInv, Started, Written
<1>4. ASSUME NEW b \in Call, calls'[b].pc # "idle" PROVE WorksWell(Run(b))'
  <2>1. CASE b = c
    <3>1. WorksWell(m) /\ Run(b)' = n BY <1>1, <1>4, <2>1 DEF Written
    <3>2. n.ins = m.ins /\ n.call = m.call OBVIOUS
    <3>. HIDE DEF n
    <3>3. WorksWell(n) BY <3>1, <3>2, WorksSame
    <3>. QED BY <3>1, <3>3
  <2>2. CASE b # c
    BY <1>1, <1>4, <2>2 DEF LifeInv, Written
  <2>. QED BY <2>1, <2>2
<1>. QED
  BY <1>1, <1>3, <1>4 DEF Written, RestsWell, LifeInv

LEMMA StepLife ==
    ASSUME IndInv, LifeInv, NEW c \in Call, calls[c].pc # "idle", NEW m,
           Outcome(m, Run(c).ins[1]), m.call.pc # "idle" => m.call.flow = calls[c].flow,
           Step(c, m)
    PROVE  LifeStep(calls[c].flow)
<1>. DEFINE f == calls[c].flow
<1>1. /\ f \in Flow
      /\ \A b \in Call : b # c => calls[b].flow # f
  BY RunOfCall
<1>2. /\ inst' = [inst EXCEPT ![f] = m.ins]
      /\ context' = [context EXCEPT ![f] = m.ctx]
      /\ calls' = [calls EXCEPT ![c] = m.call]
  BY Zenon DEF Step, Commit
<1>3. /\ RestsWell(m.ins, m.ctx)
      /\ m.call.pc # "idle" => WorksWell(m) /\ m.call.flow = f
      /\ Lives(inst[f][1], m.ins[1])
  BY DEF Outcome, Run
<1>. HIDE DEF f
<1>4. /\ LifeInv' /\ inst'[f] = m.ins /\ inst'[f] # <<>>
      /\ \A g \in Flow : g # f => inst'[g] = inst[g] /\ context'[g] = context[g]
  BY <1>1, <1>2, <1>3, CommitLife
<1>. QED BY <1>3, <1>4 DEF LifeStep, f

(* A turn of a chain, and a call that returns or throws.                   *)
LEMMA TurnLife ==
    ASSUME IndInv, LifeInv, NEW c \in Call, calls[c].pc # "idle", NEW m, Ready(m),
           Turn(m, Run(c).ins[1]), m.call.flow = calls[c].flow, Step(c, loop(m))
    PROVE  LifeStep(calls[c].flow)
<1>. QED
  BY LoopInv, TurnOutcome, StepLife DEF RunInv, IndInv

LEMMA EndFields ==
    ASSUME NEW m, DOMAIN m = {"ins", "ctx", "call"}
    PROVE  /\ return(m).ins = m.ins /\ return(m).ctx = m.ctx /\ return(m).call.pc = "idle"
           /\ \A code : /\ throw(m, code).ins = m.ins /\ throw(m, code).ctx = m.ctx
                        /\ throw(m, code).call.pc = "idle"
BY DEF return, throw, Idle

(* What is known of a call under way.                                      *)
LEMMA RunLife ==
    ASSUME IndInv, LifeInv, NEW c \in Call, calls[c].pc # "idle"
    PROVE  /\ Ready(Run(c)) /\ now \in Nat /\ Run(c).call = calls[c]
           /\ RestsWell(Run(c).ins, Run(c).ctx) /\ WorksWell(Run(c))
           /\ DOMAIN Run(c) = {"ins", "ctx", "call"}
<1>2. Run(c).ins = inst[calls[c].flow] /\ Run(c).ctx = context[calls[c].flow]
      /\ DOMAIN Run(c) = {"ins", "ctx", "call"}
  BY DEF Run
<1>. QED
  BY RunOfCall, <1>2 DEF LifeInv, Started, Ready

LEMMA HoldingLife ==
    ASSUME IndInv, LifeInv, NEW c \in Call, calls[c].pc \in Holding
    PROVE  /\ calls[c].pc # "idle" /\ now \in Nat
           /\ Working(Run(c)) /\ Ready(Run(c)) /\ Run(c).call = calls[c]
           /\ Chosen(Run(c)).from = Current(Run(c)).state
           /\ Chosen(Run(c)).type = Kind(calls[c].pc) /\ Chosen(Run(c)).type # "sub_flow"
           /\ AllKept(Run(c).ins, Run(c).ctx) /\ RootOpen(Run(c))
           /\ calls[c].pc \in {"process", "auto", "decide", "branchProcess"} => Snapshot(Run(c))
           /\ calls[c].pc = "guard" => ~isCompleted(Run(c).ins[1]) /\ Level(Run(c)) = 1
           /\ calls[c].pc = "subGuard" => Level(Run(c)) # 1 /\ Run(c).call.base = 2
           /\ DOMAIN Run(c) = {"ins", "ctx", "call"}
<1>1. /\ calls[c].pc # "idle" /\ now \in Nat
      /\ Working(Run(c)) /\ Ready(Run(c)) /\ Run(c).call = calls[c]
      /\ Chosen(Run(c)).from = Current(Run(c)).state
      /\ calls[c].pc \in {"guard", "process"}
           => Run(c).call.base = 1 /\ Len(Run(c).call.depth) = 1
      /\ calls[c].pc = "subGuard"
           => Run(c).call.base = 2 /\ Len(Run(c).call.depth) = 1
  BY HoldingWorking DEF Working
<1>3. \A pc : Kind(pc) # "sub_flow" BY DEF Kind
<1>4. ASSUME calls[c].pc \in {"guard", "process"} PROVE Level(Run(c)) = 1
  <2>1. Run(c).call.base = 1 /\ Len(Run(c).call.depth) = 1 BY <1>1, <1>4
  <2>. QED BY <2>1 DEF Level
<1>5. ASSUME calls[c].pc = "subGuard" PROVE Level(Run(c)) # 1
  <2>1. Run(c).call.base = 2 /\ Len(Run(c).call.depth) = 1 BY <1>1, <1>5
  <2>. QED BY <2>1 DEF Level
<1>6. calls[c].pc # "chainEnd" BY DEF Holding
<1>. QED
  BY <1>1, RunLife, <1>3, <1>4, <1>5, <1>6 DEF WorksWell, RestsWell

-----------------------------------------------------------------------------
(* A transition or branch on its way to its target.                        *)

LEMMA StepToLife ==
    ASSUME IndInv, LifeInv, NEW c \in Call, calls[c].pc # "idle", NEW m, Working(m), Held(m),
           m.call.flow = calls[c].flow, m.ins = Run(c).ins,
           (Chosen(m).type = "auto" /\ definitionOf(Current(m)).strictMode)
                => Chosen(m).produces \subseteq m.ctx,
           StepTo(c, m, Chosen(m).to)
    PROVE  LifeStep(calls[c].flow)
<1>. DEFINE to == Chosen(m).to
<1>0. now \in Nat BY DEF IndInv
<1>1. CASE Step(c, loop(deeper(setCurrent(m, moveTo(Current(m), to, "ok")))))
  <2>. DEFINE k == setCurrent(m, moveTo(Current(m), to, "ok"))
              n == deeper(k)
  <2>1. Turn(k, m.ins[1]) /\ Working(k) /\ k.call = m.call BY <1>0, MovedTurn DEF Held
  <2>2. Step(c, loop(n)) BY <1>1
  <2>. HIDE DEF k
  <2>3. Turn(n, m.ins[1]) /\ Ready(n) /\ n.call.flow = calls[c].flow BY <2>1, DeeperTurn DEF Working
  <2>. HIDE DEF n
  <2>. QED BY <2>2, <2>3, TurnLife
<1>2. CASE \E o \in Throwing(Current(m), to), e \in ActionError :
             Step(c, failStep(setCurrent(m, moveTo(Current(m), to, o)), e))
  <2>1. PICK o \in Throwing(Current(m), to), e \in ActionError :
               Step(c, failStep(setCurrent(m, moveTo(Current(m), to, o)), e))
    BY <1>2
  <2>. DEFINE k == setCurrent(m, moveTo(Current(m), to, o))
  <2>2. Broken(m, k) BY <1>0, Thrown
  <2>3. Step(c, failStep(k, e)) BY <2>1
  <2>. HIDE DEF k
  <2>4. Outcome(failStep(k, e), m.ins[1]) BY <1>0, <2>2, FailStepOutcome
  <2>5. failStep(k, e).call.flow = calls[c].flow BY <1>0, <2>2, FailStepInv DEF Working, Broken
  <2>. QED BY <2>3, <2>4, <2>5, StepLife
<1>. QED BY <1>1, <1>2 DEF StepTo

LEMMA ExternalToLife ==
    ASSUME IndInv, LifeInv, NEW c \in Call, calls[c].pc # "idle", NEW m, Working(m), Held(m),
           m.call.flow = calls[c].flow, m.ins = Run(c).ins, Chosen(m).type # "auto",
           ExternalTo(c, m)
    PROVE  LifeStep(calls[c].flow)
<1>. DEFINE to == Chosen(m).to
<1>0. now \in Nat BY DEF IndInv
<1>1. CASE Step(c, loop(setCurrent(m, moveTo(Current(m), to, "ok"))))
  <2>. DEFINE k == setCurrent(m, moveTo(Current(m), to, "ok"))
  <2>1. Turn(k, m.ins[1]) /\ Working(k) /\ k.call = m.call BY <1>0, MovedTurn DEF Held
  <2>2. Step(c, loop(k)) BY <1>1
  <2>. HIDE DEF k
  <2>. QED BY <2>1, <2>2, TurnLife DEF Working
<1>2. CASE \E o \in Throwing(Current(m), to), e \in ActionError :
             Step(c, failExternal(setCurrent(m, moveTo(Current(m), to, o)), e))
  <2>1. PICK o \in Throwing(Current(m), to), e \in ActionError :
               Step(c, failExternal(setCurrent(m, moveTo(Current(m), to, o)), e))
    BY <1>2
  <2>. DEFINE k == setCurrent(m, moveTo(Current(m), to, o))
  <2>2. Broken(m, k) BY <1>0, Thrown
  <2>3. Step(c, failExternal(k, e)) BY <2>1
  <2>. HIDE DEF k
  <2>4. Outcome(failExternal(k, e), m.ins[1]) BY <1>0, <2>2, FailExternalOutcome
  <2>5. RunInv(failExternal(k, e)) /\ failExternal(k, e).call.flow = None
    BY <1>0, <2>2, FailExternalInv DEF Broken
  <2>. QED BY <2>3, <2>4, <2>5, StepLife DEF RunInv
<1>. QED BY <1>1, <1>2 DEF ExternalTo

-----------------------------------------------------------------------------
(* The answers of user code.                                               *)

(* The run of a try block whose user code has put data into the context.   *)
LEMMA PutHeld ==
    ASSUME IndInv, LifeInv, NEW c \in Call, calls[c].pc \in {"process", "auto", "branchProcess"},
           NEW puts \in SUBSET Chosen(Run(c)).produces,
           NEW m, m = [Run(c) EXCEPT !.ctx = @ \cup puts]
    PROVE  /\ Working(m) /\ Held(m) /\ m.ins = Run(c).ins /\ m.call = calls[c]
           /\ Chosen(m) = Chosen(Run(c)) /\ Chosen(m).type = Kind(calls[c].pc)
           /\ calls[c].pc # "idle" /\ now \in Nat
<1>. DEFINE r == Run(c)
<1>1. /\ calls[c].pc # "idle" /\ now \in Nat /\ Working(r) /\ Ready(r) /\ r.call = calls[c]
      /\ Chosen(r).from = Current(r).state
      /\ Chosen(r).type = Kind(calls[c].pc) /\ Chosen(r).type # "sub_flow"
      /\ AllKept(r.ins, r.ctx) /\ RootOpen(r) /\ Snapshot(r)
  BY HoldingLife DEF Holding
<1>. HIDE DEF r
<1>3. Working(m) /\ Current(m) = Current(r) /\ Chosen(m) = Chosen(r) /\ m.call = r.call
  BY <1>1, WorkingChosen, WorkingPut DEF r
<1>5. m.ins = r.ins /\ m.ctx = r.ctx \cup puts
  BY <1>1 DEF r, Ready, RunType
<1>7. Snapshot(m) /\ RootOpen(m) BY <1>1, <1>3, <1>5 DEF Snapshot, RootOpen, Level
<1>. QED
  BY <1>1, <1>3, <1>5, MoreKept, <1>7 DEF Held, r, AllKept

(* A run that goes on, or ends, with the instances and the data it had.    *)
LEMMA SameOutcome ==
    ASSUME NEW m, RestsWell(m.ins, m.ctx), NEW n, n.ins = m.ins, n.ctx = m.ctx,
           n.call.pc # "idle" => WorksWell(n)
    PROVE  Outcome(n, m.ins[1])
<1>. QED
  BY DEF Outcome, Lives, Stays

LEMMA GuardAcceptedLife ==
    ASSUME IndInv, LifeInv, NEW c \in Call, GuardAccepted(c)
    PROVE  LifeStep(calls[c].flow)
<1>. DEFINE r == Run(c)
<1>0. calls[c].pc = "guard" BY DEF GuardAccepted
<1>1. /\ calls[c].pc # "idle" /\ now \in Nat /\ Working(r) /\ Ready(r) /\ r.call = calls[c]
      /\ Chosen(r).from = Current(r).state
      /\ Chosen(r).type = Kind(calls[c].pc) /\ Chosen(r).type # "sub_flow"
      /\ AllKept(r.ins, r.ctx) /\ RootOpen(r)
  BY <1>0, HoldingLife DEF Holding
<1>2. RestsWell(r.ins, r.ctx) BY <1>1, RunLife
<1>3. PICK data \in SUBSET Chosen(r).gives :
        LET m == [r EXCEPT !.call.backup = r.ctx, !.ctx = @ \cup data]
        IN  IF Chosen(m).processor
            THEN Step(c, [m EXCEPT !.call.pc = "process"])
            ELSE ExternalTo(c, m)
  BY DEF GuardAccepted
<1>. DEFINE m == [r EXCEPT !.call.backup = r.ctx, !.ctx = @ \cup data]
            n == [m EXCEPT !.call.pc = "process"]
<1>. HIDE DEF r
<1>6. /\ SameChain(r, m) /\ m.call.t = r.call.t
      /\ m.ins = r.ins /\ m.ctx = r.ctx \cup data /\ m.call.backup = r.ctx
  BY <1>1, WorkingChosen DEF SameChain, Frame, Ready, RunType
<1>7. AllKept(m.ins, m.ctx) BY <1>1, <1>6, MoreKept DEF AllKept
<1>8. Snapshot(m) BY <1>1, <1>6 DEF Snapshot, AllKept, Kept
<1>. HIDE DEF m
<1>9. /\ Working(m) /\ m.call.flow = calls[c].flow /\ Level(m) = Level(r)
      /\ Chosen(m) = Chosen(r) /\ Current(m) = Current(r)
  BY <1>1, <1>6, WorkingSame DEF SameChain, Level
<1>10. RootOpen(m) BY <1>1, <1>6, <1>9 DEF RootOpen
<1>11. Held(m) BY <1>1, <1>7, <1>8, <1>9, <1>10 DEF Held
<1>12. Chosen(m).type = "external" BY <1>0, <1>1, <1>9 DEF Kind
<1>13. CASE Chosen(m).processor
  <2>1. Step(c, n) BY <1>3, <1>13 DEF m
  <2>2. /\ SameChain(m, n) /\ n.call.t = m.call.t /\ n.call.pc = "process"
        /\ n.ins = m.ins /\ n.ctx = m.ctx /\ n.call.backup = m.call.backup
    BY <1>6 DEF SameChain, Frame, PC
  <2>. HIDE DEF n
  <2>3. Chosen(n) = Chosen(m) /\ Current(n) = Current(m) /\ Level(n) = Level(m)
        /\ n.call.flow = m.call.flow
    BY <1>9, <2>2, WorkingSame DEF SameChain, Level
  <2>4. Snapshot(n) /\ RootOpen(n) BY <1>8, <1>10, <2>2, <2>3 DEF Snapshot, RootOpen
  <2>5. WorksWell(n) BY <1>12, <2>2, <2>3, <2>4 DEF WorksWell, Kind
  <2>6. RestsWell(n.ins, n.ctx) BY <1>2, <1>6, <1>7, <2>2 DEF RestsWell
  <2>7. Outcome(n, r.ins[1]) BY <1>6, <2>2, <2>5, <2>6, SameOutcome
  <2>. QED BY <1>1, <1>9, <2>1, <2>3, <2>7, StepLife DEF r
<1>14. CASE ~Chosen(m).processor
  BY <1>3, <1>14, <1>1, <1>6, <1>9, <1>11, <1>12, ExternalToLife DEF m, r
<1>. QED BY <1>13, <1>14

(* What a rejection makes of an open flow.                                 *)
LEMMA RejectedLives ==
    ASSUME NEW x \in Instance, ~isCompleted(x),
           NEW u, u = incrementGuardFailure(x),
           NEW y, y = IF u.fails >= definitionOf(u).maxGuardRetries
                      THEN handleError(u, x.state, None) ELSE u
    PROVE  Lives(x, y)
<1>. DEFINE d  == definitionOf(x)
            to == ErrorTarget(d, x.state, None)
<1>1. /\ u.state = x.state /\ u.exit = x.exit /\ u.def = x.def
      /\ definitionOf(u) = d /\ u \in Instance
  BY DEF incrementGuardFailure, Instance, definitionOf
<1>2. CASE y = u BY <1>1, <1>2 DEF Lives, Stays
<1>3. CASE y = handleError(u, x.state, None)
  <2>1. /\ y.def = x.def
        /\ to = None => y = complete(u, "TERMINAL_ERROR")
        /\ to # None => /\ y.state = to
                        /\ y.exit = IF to \in d.terminal THEN to ELSE u.exit
    BY <1>1, <1>3, HandleErrorFields
  <2>2. CASE to = None
    BY <1>1, <2>1, <2>2 DEF complete, Instance, Lives, Closes
  <2>3. CASE to # None
    <3>2. to \in ErrorWays(d, x.state)
      BY <2>3, ErrorTargetEntered DEF Instance
    <3>. HIDE DEF to
    <3>3. y.state \in Ways(d, x.state) BY <2>1, <2>3, <3>2 DEF Ways
    <3>. QED
      BY <2>1, <3>3, <1>1, <2>3 DEF Lives, Moves, Arrives, isCompleted
  <2>. QED BY <2>2, <2>3
<1>. QED BY <1>2, <1>3

LEMMA GuardRejectedLife ==
    ASSUME IndInv, LifeInv, NEW c \in Call, GuardRejected(c)
    PROVE  LifeStep(calls[c].flow)
<1>. DEFINE m == Run(c)
            u == incrementGuardFailure(Current(m))
            y == IF u.fails >= definitionOf(u).maxGuardRetries
                 THEN handleError(u, Chosen(m).from, None) ELSE u
            k == setCurrent(m, y)
            n == return(k)
<1>1. calls[c].pc = "guard" /\ Step(c, n) BY DEF GuardRejected
<1>2. /\ calls[c].pc # "idle" /\ Ready(m) /\ Chosen(m).from = Current(m).state
      /\ AllKept(m.ins, m.ctx) /\ RootOpen(m)
      /\ ~isCompleted(m.ins[1]) /\ Level(m) = 1
  BY <1>1, HoldingLife DEF Holding
<1>. HIDE DEF m
<1>3. /\ Current(m) \in Instance /\ Level(m) \in DOMAIN m.ins /\ Current(m) = m.ins[1]
  BY <1>2, ReadyType DEF Ready, Current
<1>5. y = IF u.fails >= definitionOf(u).maxGuardRetries
          THEN handleError(u, Current(m).state, None) ELSE u
  BY <1>2
<1>. HIDE DEF y
<1>6. Kept(y, m.ctx)
  BY <1>2, <1>3, <1>5, RejectedKept DEF AllKept, Current
<1>7. Lives(Current(m), y) BY <1>2, <1>3, <1>5, RejectedLives
<1>. HIDE DEF u
<1>8. Replaced(m, k, y) /\ k.ctx = m.ctx /\ DOMAIN k = {"ins", "ctx", "call"} BY <1>2, SetReplaces
<1>. HIDE DEF k
<1>9. n.ins = k.ins /\ n.ctx = m.ctx /\ n.call.pc = "idle" BY <1>8, EndFields
<1>10. Replaced(m, n, y) BY <1>8, <1>9 DEF Replaced
<1>. HIDE DEF n
<1>11. AllKept(n.ins, n.ctx) BY <1>2, <1>6, <1>9, <1>10, ReplacedKept DEF AllKept
<1>12. Outcome(n, m.ins[1]) BY <1>2, <1>7, <1>9, <1>10, <1>11, ReplaceOutcome
<1>. QED BY <1>1, <1>2, <1>9, <1>12, StepLife DEF m

(* The root closes under a code of the engine, and its sub-flows with it.  *)
LEMMA CloseOutcome ==
    ASSUME NEW ins, NEW ctx, RestsWell(ins, ctx), ins[1] \in Instance,
           Routed(ins) => ~isCompleted(ins[1]),
           NEW n, DOMAIN n.ins = DOMAIN ins, Len(n.ins) = Len(ins),
           n.ins[1] = complete(ins[1], "EXPIRED"),
           \A i \in DOMAIN ins : i # 1 => n.ins[i] = ins[i],
           ctx \subseteq n.ctx, n.call.pc = "idle"
    PROVE  Outcome(n, ins[1])
<1>. DEFINE y == n.ins[1]
<1>1. /\ y.def = ins[1].def /\ y.state = ins[1].state /\ y.exit = "EXPIRED"
      /\ definitionOf(y) = definitionOf(ins[1])
  BY DEF complete, Instance, definitionOf
<1>3. AllKept(n.ins, n.ctx)
  <2>. SUFFICES ASSUME NEW i \in DOMAIN ins PROVE Kept(n.ins[i], n.ctx) BY DEF AllKept
  <2>. QED
    BY NamesAssumption, CompleteKept, MoreKept DEF RestsWell, AllKept, Exit, ExitCode
<1>6. Lives(ins[1], y) BY <1>1 DEF Lives, Closes, Routed
<1>. QED
  BY <1>3, <1>1, <1>6 DEF Outcome, RestsWell, Routed, Embeds

LEMMA GuardExpiredLife ==
    ASSUME IndInv, LifeInv, NEW c \in Call, GuardExpired(c)
    PROVE  LifeStep(calls[c].flow)
<1>. DEFINE m == Run(c)
            y == complete(Current(m), "EXPIRED")
            k == setCurrent(m, y)
            n == return(k)
<1>1. calls[c].pc = "guard" /\ Step(c, n) BY DEF GuardExpired
<1>2. /\ calls[c].pc # "idle" /\ Ready(m) /\ ~isCompleted(m.ins[1]) /\ Level(m) = 1
  BY <1>1, HoldingLife DEF Holding
<1>3. RestsWell(m.ins, m.ctx) BY <1>2, RunLife
<1>. HIDE DEF m
<1>4. Current(m) \in Instance /\ Current(m) = m.ins[1] BY <1>2, ReadyType DEF Current
<1>5. Replaced(m, k, y) /\ k.ctx = m.ctx /\ DOMAIN k = {"ins", "ctx", "call"} BY <1>2, SetReplaces
<1>. HIDE DEF k
<1>6. n.ins = k.ins /\ n.ctx = m.ctx /\ n.call.pc = "idle" BY <1>5, EndFields
<1>. HIDE DEF n
<1>7. Outcome(n, m.ins[1]) BY <1>2, <1>3, <1>4, <1>5, <1>6, CloseOutcome DEF Replaced
<1>. QED BY <1>1, <1>2, <1>6, <1>7, StepLife DEF m

LEMMA GuardThrowsLife ==
    ASSUME IndInv, LifeInv, NEW c \in Call, GuardThrows(c)
    PROVE  LifeStep(calls[c].flow)
<1>. DEFINE n == throw(Run(c), "GUARD_THREW")
<1>1. calls[c].pc # "idle" /\ Step(c, n) BY DEF GuardThrows
<1>2. RestsWell(Run(c).ins, Run(c).ctx) /\ DOMAIN Run(c) = {"ins", "ctx", "call"} BY <1>1, RunLife
<1>3. n.ins = Run(c).ins /\ n.ctx = Run(c).ctx /\ n.call.pc = "idle" BY <1>2, EndFields
<1>. HIDE DEF n
<1>. QED
  BY <1>1, <1>3, <1>2, SameOutcome, StepLife

LEMMA ProcessDoneLife ==
    ASSUME IndInv, LifeInv, NEW c \in Call, ProcessDone(c)
    PROVE  LifeStep(calls[c].flow)
<1>1. PICK puts \in SUBSET Chosen(Run(c)).produces :
        calls[c].pc = "process" /\ ExternalTo(c, [Run(c) EXCEPT !.ctx = @ \cup puts])
  BY DEF ProcessDone
<1>. DEFINE m == [Run(c) EXCEPT !.ctx = @ \cup puts]
<1>2. /\ Working(m) /\ Held(m) /\ m.ins = Run(c).ins /\ m.call = calls[c]
      /\ Chosen(m).type = Kind(calls[c].pc) /\ calls[c].pc # "idle"
  BY <1>1, PutHeld
<1>3. ExternalTo(c, m) BY <1>1
<1>. HIDE DEF m
<1>4. Chosen(m).type # "auto" BY <1>1, <1>2 DEF Kind
<1>. QED BY <1>2, <1>3, <1>4, ExternalToLife

(* A processor, or a branch, that throws: it may have put nothing.         *)
LEMMA HeldRun ==
    ASSUME IndInv, LifeInv, NEW c \in Call,
           calls[c].pc \in {"process", "auto", "decide", "branchProcess"}
    PROVE  /\ Working(Run(c)) /\ Held(Run(c)) /\ Run(c).call = calls[c]
           /\ calls[c].pc # "idle" /\ now \in Nat
BY HoldingLife DEF Holding, Held

LEMMA ProcessThrowsLife ==
    ASSUME IndInv, LifeInv, NEW c \in Call, ProcessThrows(c)
    PROVE  LifeStep(calls[c].flow)
<1>. DEFINE m == Run(c)
<1>1. PICK e \in UserError : calls[c].pc = "process" /\ Step(c, failExternal(m, e))
  BY DEF ProcessThrows
<1>2. Working(m) /\ Held(m) /\ calls[c].pc # "idle" /\ now \in Nat BY <1>1, HeldRun
<1>. HIDE DEF m
<1>4. Outcome(failExternal(m, e), m.ins[1]) BY <1>2, NotMoved, FailExternalOutcome
<1>. QED
  BY <1>1, <1>2, FailExternalInv, <1>4, StepLife DEF RunInv, m

LEMMA FailStepLife ==
    ASSUME IndInv, LifeInv, NEW c \in Call, calls[c].pc # "idle", NEW m, Working(m), Held(m),
           m.call.flow = calls[c].flow, m.ins = Run(c).ins, NEW cause, Step(c, failStep(m, cause))
    PROVE  LifeStep(calls[c].flow)
<1>. QED
  BY FailStepInv, NotMoved, FailStepOutcome, StepLife DEF Working, IndInv

LEMMA StepFailsLife ==
    ASSUME IndInv, LifeInv, NEW c \in Call, calls[c].pc \in {"auto", "decide", "branchProcess"},
           NEW cause, Step(c, failStep(Run(c), cause))
    PROVE  LifeStep(calls[c].flow)
BY HeldRun, FailStepLife

LEMMA AutoDoneLife ==
    ASSUME IndInv, LifeInv, NEW c \in Call, AutoDone(c)
    PROVE  LifeStep(calls[c].flow)
<1>1. PICK puts \in SUBSET Chosen(Run(c)).produces :
        LET m == [Run(c) EXCEPT !.ctx = @ \cup puts]
        IN  IF producesVerified(m)
            THEN StepTo(c, m, Chosen(m).to)
            ELSE Step(c, failStep(m, FlowErrorClass))
  BY DEF AutoDone
<1>. DEFINE m == [Run(c) EXCEPT !.ctx = @ \cup puts]
<1>2. Working(m) /\ Held(m) /\ m.ins = Run(c).ins /\ m.call = calls[c] /\ calls[c].pc # "idle"
  BY PutHeld DEF AutoDone
<1>3. CASE producesVerified(m)
  <2>1. StepTo(c, m, Chosen(m).to) BY <1>1, <1>3
  <2>. HIDE DEF m
  <2>2. definitionOf(Current(m)).strictMode => Chosen(m).produces \subseteq m.ctx
    BY <1>3 DEF producesVerified
  <2>. QED BY <1>2, <2>1, <2>2, StepToLife
<1>4. CASE ~producesVerified(m)
  <2>1. Step(c, failStep(m, FlowErrorClass)) BY <1>1, <1>4
  <2>. HIDE DEF m
  <2>. QED BY <1>2, <2>1, FailStepLife
<1>. QED BY <1>3, <1>4

LEMMA DecideLife ==
    ASSUME IndInv, LifeInv, NEW c \in Call, Decide(c)
    PROVE  LifeStep(calls[c].flow)
<1>. DEFINE r == Run(c)
<1>0. calls[c].pc = "decide" BY DEF Decide
<1>1. PICK label \in Label :
         IF labelled(r, label) = {}
         THEN Step(c, failStep(r, FlowErrorClass))
         ELSE LET m == [r EXCEPT !.call.t = First(labelled(r, label))]
              IN  IF Chosen(m).processor
                  THEN Step(c, [m EXCEPT !.call.pc = "branchProcess"])
                  ELSE StepTo(c, m, Chosen(m).to)
  BY DEF Decide
<1>2. /\ Working(r) /\ Held(r) /\ r.call = calls[c] /\ calls[c].pc # "idle" /\ now \in Nat
      /\ Ready(r)
  BY <1>0, HeldRun DEF Working
<1>3. RestsWell(r.ins, r.ctx) BY <1>2, RunLife
<1>. DEFINE L == labelled(r, label)
            t == First(L)
            d == definitionOf(Current(r))
            m == [r EXCEPT !.call.t = t]
            n == [m EXCEPT !.call.pc = "branchProcess"]
<1>4. CASE L = {} BY <1>0, <1>1, <1>4, StepFailsLife
<1>5. CASE L # {}
  <2>. HIDE DEF r
  <2>1. /\ L \subseteq DOMAIN d.transitions
        /\ \A i \in L : d.transitions[i].from = Chosen(r).from /\ d.transitions[i].type = "branch"
    BY DEF labelled, ofType, transitionsFrom
  <2>. HIDE DEF L
  <2>3. t \in L /\ t \in Nat
    BY <1>5, <1>2, <2>1, ReadyType, DefinitionType, FirstIn
  <2>. HIDE DEF t
  <2>5. /\ SameChain(r, m) /\ m.call.t = t /\ m.ins = r.ins /\ m.ctx = r.ctx
        /\ m.call.backup = r.call.backup
    BY <2>3, <1>2 DEF SameChain, Frame, Ready, RunType
  <2>6. /\ Ready(m) /\ Current(m) = Current(r) /\ Unfinished(Current(m)) /\ Level(m) = Level(r)
    BY <1>2, <2>5, SameChainReady DEF Working
  <2>7. CASE Chosen(m).processor
    <3>1. Step(c, n) BY <1>1, <1>5, <2>7 DEF L, t
    <3>. HIDE DEF m
    <3>2. /\ SameChain(m, n) /\ n.call.t = m.call.t /\ n.call.pc = "branchProcess"
          /\ n.ins = m.ins /\ n.ctx = m.ctx /\ n.call.backup = m.call.backup
      BY <2>5 DEF SameChain, Frame, PC
    <3>. HIDE DEF n, d
    <3>3. Current(n) = Current(m) /\ Level(n) = Level(m) /\ n.call.flow = calls[c].flow
      BY <1>2, <2>5, <2>6, <3>2, SameChainReady DEF SameChain
    <3>4. Chosen(n).type = "branch" BY <2>1, <2>3, <2>5, <2>6, <3>2, <3>3 DEF Chosen, d
    <3>5. Snapshot(n) /\ RootOpen(n) BY <1>2, <2>5, <2>6, <3>2, <3>3 DEF Held, Snapshot, RootOpen
    <3>6. WorksWell(n) BY <3>2, <3>4, <3>5 DEF WorksWell, Kind
    <3>7. Outcome(n, r.ins[1]) BY <1>3, <2>5, <3>2, <3>6, SameOutcome
    <3>. QED BY <1>2, <3>1, <3>3, <3>7, StepLife DEF r
  <2>8. CASE ~Chosen(m).processor
    <3>1. StepTo(c, m, Chosen(m).to) BY <1>1, <1>5, <2>8 DEF L, t
    <3>. HIDE DEF m
    <3>2. /\ Working(m) /\ m.call.flow = calls[c].flow
          /\ Chosen(m).from = Current(m).state /\ Chosen(m).type = "branch"
      BY <1>2, <2>1, <2>3, <2>5, <2>6 DEF Working, SameChain, Chosen, Held
    <3>3. Held(m) BY <1>2, <2>5, <2>6, <3>2 DEF Held, Snapshot, RootOpen
    <3>. QED BY <1>2, <2>5, <3>1, <3>2, <3>3, StepToLife DEF r
  <2>. QED BY <2>7, <2>8
<1>. QED BY <1>4, <1>5

LEMMA BranchProcessDoneLife ==
    ASSUME IndInv, LifeInv, NEW c \in Call, BranchProcessDone(c)
    PROVE  LifeStep(calls[c].flow)
<1>1. PICK puts \in SUBSET Chosen(Run(c)).produces :
         StepTo(c, [Run(c) EXCEPT !.ctx = @ \cup puts], Chosen(Run(c)).to)
  BY DEF BranchProcessDone
<1>. DEFINE m == [Run(c) EXCEPT !.ctx = @ \cup puts]
<1>0. calls[c].pc = "branchProcess" BY DEF BranchProcessDone
<1>2. /\ Working(m) /\ Held(m) /\ m.ins = Run(c).ins /\ m.call = calls[c]
      /\ Chosen(m) = Chosen(Run(c)) /\ Chosen(m).type = Kind(calls[c].pc)
      /\ calls[c].pc # "idle"
  BY <1>0, PutHeld
<1>3. StepTo(c, m, Chosen(Run(c)).to) BY <1>1
<1>. HIDE DEF m
<1>4. StepTo(c, m, Chosen(m).to) BY <1>2, <1>3
<1>. QED
  BY <1>2, <1>4, <1>0, StepToLife DEF Kind

-----------------------------------------------------------------------------
(* Sub-flows.                                                              *)

(* The chain that is left of a run whose sub-flow is over.                 *)
LEMMA LeaveFields ==
    ASSUME NEW m, Ready(m), Len(m.call.depth) > 1 \/ m.call.base = 2,
           NEW p, p = leaveSubFlow(m)
    PROVE  /\ Level(m) # 1 /\ p.ctx = m.ctx /\ DOMAIN p = {"ins", "ctx", "call"}
           /\ Level(p) = Len(p.ins) /\ 1 \in DOMAIN p.ins
           /\ DOMAIN p.ins \subseteq DOMAIN m.ins
           /\ \A j \in DOMAIN p.ins : p.ins[j] = m.ins[j]
<1>. DEFINE L   == Level(m)
            D   == Len(m.call.depth)
            pre == SubSeq(m.ins, 1, L - 1)
            dep == IF D = 1 THEN << 0 >> ELSE SubSeq(m.call.depth, 1, D - 1)
            bas == IF D = 1 THEN 1 ELSE m.call.base
<1>1. /\ m \in [ins: Seq(Instance), ctx: SUBSET Key, call: Frame]
      /\ m.call.depth \in Seq(Nat) /\ m.call.base \in {1, 2}
  BY DEF Ready, RunType, Frame
<1>2. /\ L \in Nat /\ L \in DOMAIN m.ins /\ D \in Nat /\ D >= 1
      /\ DOMAIN m.ins = 1 .. Len(m.ins) /\ Len(m.ins) \in Nat
      /\ L = m.call.base + D - 1
  BY ReadyType DEF Ready, Level
<1>3. L >= 2 BY <1>1, <1>2
<1>4. /\ Len(pre) = L - 1 /\ DOMAIN pre = 1 .. L - 1
      /\ \A j \in 1 .. L - 1 : pre[j] = m.ins[j]
  <2>. HIDE DEF L
  <2>. QED BY <1>1, <1>2, <1>3
<1>5. bas + Len(dep) - 1 = L - 1
  <2>1. CASE D = 1
    <3>1. Len(dep) = 1 /\ bas = 1 BY <2>1
    <3>2. L = 2 BY <1>1, <1>2, <1>3, <2>1
    <3>. HIDE DEF dep, bas, L
    <3>. QED BY <3>1, <3>2
  <2>2. CASE D # 1
    <3>1. Len(SubSeq(m.call.depth, 1, D - 1)) = D - 1
      <4>. HIDE DEF L
      <4>. QED BY <1>1, <1>2, <2>2
    <3>2. Len(dep) = D - 1 /\ bas = m.call.base BY <2>2, <3>1
    <3>. HIDE DEF dep, bas, L, D
    <3>. QED BY <1>1, <1>2, <3>2
  <2>. QED BY <2>1, <2>2
<1>6. p = [m EXCEPT !.ins = pre, !.call = [m.call EXCEPT !.base = bas, !.depth = dep]]
  BY <1>1 DEF leaveSubFlow, Frame
<1>. HIDE DEF pre, dep, bas, L
<1>7. /\ p.ins = pre /\ p.ctx = m.ctx /\ p.call.base = bas /\ p.call.depth = dep
      /\ DOMAIN p = {"ins", "ctx", "call"}
  <2>. DEFINE k == [m.call EXCEPT !.base = bas, !.depth = dep]
  <2>1. k.base = bas /\ k.depth = dep BY <1>1 DEF Frame
  <2>2. p = [m EXCEPT !.ins = pre, !.call = k] BY <1>6
  <2>. HIDE DEF k
  <2>. QED BY <1>1, <2>1, <2>2
<1>. QED
  BY <1>2, <1>4, <1>7, <1>5, <1>3 DEF L, Level

LEMMA ParentLife ==
    ASSUME NEW m, Ready(m), RestsWell(m.ins, m.ctx), RootOpen(m),
           Len(m.call.depth) > 1 \/ m.call.base = 2, NEW p, p = leaveSubFlow(m)
    PROVE  /\ Ready(p) /\ Unfinished(Current(p)) /\ Current(p) \in Instance
           /\ p.call.flow = m.call.flow /\ DOMAIN p = {"ins", "ctx", "call"}
           /\ p.ctx = m.ctx /\ p.ins[1] = m.ins[1]
           /\ RestsWell(p.ins, p.ctx) /\ RootOpen(p)
           /\ Routed(p.ins) => Embeds(p.ins[1])
<1>1. /\ Level(m) # 1 /\ p.ctx = m.ctx /\ DOMAIN p = {"ins", "ctx", "call"}
      /\ Level(p) = Len(p.ins) /\ 1 \in DOMAIN p.ins
      /\ DOMAIN p.ins \subseteq DOMAIN m.ins
      /\ \A j \in DOMAIN p.ins : p.ins[j] = m.ins[j]
  BY LeaveFields
<1>2. Ready(p) /\ Unfinished(Current(p)) /\ p.call.flow = m.call.flow BY LeaveReady
<1>4. AllKept(p.ins, p.ctx) BY <1>1 DEF RestsWell, AllKept
<1>5. p.ins[1] = m.ins[1] BY <1>1
<1>6. Routed(p.ins) => ~isCompleted(p.ins[1]) /\ Embeds(p.ins[1]) BY <1>1, <1>5 DEF RootOpen, Routed
<1>7. RootOpen(p) BY <1>1, <1>6 DEF RootOpen
<1>. QED
  BY <1>1, <1>2, ReadyType, <1>4, <1>5, <1>6, <1>7 DEF RestsWell

(* The current instance moves, and its chain goes on.                      *)
LEMMA ReplacedTurn ==
    ASSUME NEW m, Ready(m), RootOpen(m), NEW n, NEW y, Replaced(m, n, y), Level(n) = Level(m),
           y.def = Current(m).def, AllKept(n.ins, n.ctx),
           Alive(Current(m)) /\ Level(m) = 1 /\ Routed(m.ins) => Moves(Current(m), y)
    PROVE  Turn(n, m.ins[1])
<1>1. /\ n.ins[1].def = m.ins[1].def /\ (Routed(n.ins) <=> Routed(m.ins))
      /\ Level(m) = 1 => n.ins[1] = y /\ Current(m) = m.ins[1]
      /\ Level(m) # 1 => n.ins[1] = m.ins[1]
      /\ Len(n.ins) = Len(m.ins)
  BY ReplacedRouted, ReplacedFields DEF Replaced
<1>2. ASSUME Routed(m.ins), Level(m) = 1
      PROVE  Len(n.ins) = 1 /\ Moves(m.ins[1], n.ins[1]) /\ (~isCompleted(n.ins[1]) \/ isTerminal(n.ins[1]))
  BY <1>1, <1>2, RootAlive DEF RootOpen, definitionOf, Moves, Arrives, isCompleted, isTerminal
<1>3. ASSUME Routed(m.ins), Level(m) # 1
      PROVE  ~isCompleted(n.ins[1]) /\ Embeds(n.ins[1])
  BY <1>1, <1>3 DEF RootOpen
<1>. QED BY <1>1, <1>2, <1>3 DEF Turn, Goes

(* A parent takes the exit of its sub-flow.                                *)
LEMMA TakeExitLife ==
    ASSUME IndInv, LifeInv, NEW c \in Call, calls[c].pc # "idle",
           NEW p, Ready(p), Unfinished(Current(p)), RestsWell(p.ins, p.ctx), RootOpen(p),
           p.call.flow = calls[c].flow, p.ins[1] = Run(c).ins[1],
           NEW e \in Exit, NEW to, to = exitTarget(Current(p), e), to # None,
           NEW counted \in BOOLEAN, TakeExit(c, p, to, counted)
    PROVE  LifeStep(calls[c].flow)
<1>. DEFINE x == Current(p)
<1>0. now \in Nat /\ x \in Instance /\ Level(p) \in DOMAIN p.ins BY ReadyType DEF IndInv, Ready
<1>1. Kept(x, p.ctx) /\ AllKept(p.ins, p.ctx) BY <1>0 DEF RestsWell, AllKept, Current
<1>2. Level(p) = 1 => Alive(x) /\ x = p.ins[1] BY RootAlive
<1>. HIDE DEF x
<1>3. ASSUME NEW o \in {"ok", "enter", "exit"}, o = "ok" \/ o \in Throwing(x, to)
      PROVE  /\ Kept(moveTo(x, to, o), p.ctx) /\ to \in State
             /\ moveTo(x, to, o).def = x.def
             /\ Alive(x) => Lives(x, moveTo(x, to, o))
             /\ Alive(x) /\ ~isCompleted(x) /\ o = "ok" => Moves(x, moveTo(x, to, o))
  <2>1. Kept(moveTo(x, to, o), p.ctx) /\ to \in State /\ to \in Ways(definitionOf(x), x.state)
    BY <1>0, <1>1, <1>3, ExitKept DEF x
  <2>3. ASSUME Alive(x)
        PROVE  /\ Lives(x, moveTo(x, to, o))
               /\ ~isCompleted(x) /\ o = "ok" => Moves(x, moveTo(x, to, o))
    BY <1>0, <2>1, <2>3, MoveLives
  <2>. QED
    BY <2>1, <1>0, MoveFields, <2>3
<1>. DEFINE m1 == setCurrent(p, moveTo(x, to, "ok"))
            m2 == IF counted THEN deeper(m1) ELSE m1
<1>4. CASE Step(c, loop(m2))
  <2>. DEFINE y == moveTo(x, to, "ok")
  <2>1. /\ Kept(y, p.ctx) /\ to \in State /\ y.def = x.def
        /\ Alive(x) /\ ~isCompleted(x) => Moves(x, y)
    BY <1>3
  <2>2. Ready(m1) /\ m1.call = p.call BY <1>0, <2>1, MoveReady DEF x
  <2>. HIDE DEF y
  <2>3. Replaced(p, m1, y) /\ m1.ctx = p.ctx /\ Level(m1) = Level(p) BY SetReplaces DEF y
  <2>. HIDE DEF m1
  <2>5. Alive(x) /\ Level(p) = 1 /\ Routed(p.ins) => Moves(x, y) BY <1>2, <2>1 DEF RootOpen
  <2>6. Turn(m1, p.ins[1])
    BY <2>1, <2>3, <1>1, ReplacedKept, <2>5, ReplacedTurn DEF x, AllKept
  <2>7. Turn(m2, p.ins[1]) /\ Ready(m2) /\ m2.call.flow = calls[c].flow BY <2>2, <2>6, DeeperTurn
  <2>. HIDE DEF m2
  <2>. QED BY <1>4, <2>7, TurnLife
<1>5. CASE \E o \in Throwing(x, to) :
             Step(c, throw(setCurrent(p, moveTo(x, to, o)), "ACTION_THREW"))
  <2>1. PICK o \in Throwing(x, to) :
               Step(c, throw(setCurrent(p, moveTo(x, to, o)), "ACTION_THREW"))
    BY <1>5
  <2>. DEFINE y == moveTo(x, to, o)
              k == setCurrent(p, y)
              n == throw(k, "ACTION_THREW")
  <2>3. Kept(y, p.ctx) /\ (Alive(x) => Lives(x, y))
    BY <1>3, ThrowingType
  <2>. HIDE DEF y
  <2>4. Replaced(p, k, y) /\ k.ctx = p.ctx /\ DOMAIN k = {"ins", "ctx", "call"} BY SetReplaces
  <2>5. Step(c, n) BY <2>1 DEF y
  <2>. HIDE DEF k
  <2>6. n.ins = k.ins /\ n.ctx = p.ctx /\ n.call.pc = "idle" BY <2>4, EndFields
  <2>. HIDE DEF n
  <2>7. Replaced(p, n, y) BY <2>4, <2>6 DEF Replaced
  <2>9. Level(p) = 1 => Lives(Current(p), y) BY <1>2, <2>3 DEF x
  <2>10. Outcome(n, p.ins[1])
    BY <2>6, <2>7, <1>1, <2>3, ReplacedKept, <2>9, ReplaceOutcome DEF AllKept
  <2>. QED BY <2>5, <2>6, <2>10, StepLife
<1>. QED BY <1>4, <1>5 DEF TakeExit, x

(* An error bubbles up to a parent, whose chain goes on.                   *)
LEMMA BubbleLife ==
    ASSUME IndInv, LifeInv, NEW c \in Call, calls[c].pc # "idle",
           NEW p, Ready(p), Unfinished(Current(p)), RestsWell(p.ins, p.ctx), RootOpen(p),
           p.call.flow = calls[c].flow, p.ins[1] = Run(c).ins[1],
           Routed(p.ins) => Embeds(p.ins[1]),
           NEW counted \in BOOLEAN, NEW k, k = setCurrent(p, handleError(Current(p), Current(p).state, None)),
           Step(c, loop(IF counted THEN deeper(k) ELSE k))
    PROVE  LifeStep(calls[c].flow)
<1>. DEFINE x == Current(p)
            y == handleError(x, x.state, None)
            n == IF counted THEN deeper(k) ELSE k
<1>0. /\ now \in Nat /\ x \in Instance /\ x.state \in State /\ Level(p) \in DOMAIN p.ins
  BY ReadyType DEF IndInv, Instance, Ready
<1>1. Kept(x, p.ctx) /\ AllKept(p.ins, p.ctx) BY <1>0 DEF RestsWell, AllKept, Current
<1>2. Level(p) = 1 => Alive(x) /\ x = p.ins[1] BY RootAlive
<1>3. Ready(k) /\ k.call = p.call /\ k.ctx = p.ctx BY <1>0, HandleErrorReady
<1>4. Replaced(p, k, y) /\ Level(k) = Level(p) BY SetReplaces
<1>. HIDE DEF x
<1>5. Kept(y, p.ctx) /\ y.def = x.def BY <1>0, <1>1, HandleErrorKept, HandleErrorFields
<1>6. ASSUME Level(p) = 1, Routed(p.ins) PROVE Moves(x, y)
  BY <1>2, <1>6, <1>0, RoutedLives DEF RootOpen, Routed, Embeds, ofType, transitionsFrom,
     RoutesSubFlowErrors, ErrorTarget
<1>. HIDE DEF y
<1>7. AllKept(k.ins, k.ctx) BY <1>1, <1>3, <1>4, <1>5, ReplacedKept DEF AllKept
<1>8. Turn(k, p.ins[1]) BY <1>4, <1>5, <1>6, <1>7, ReplacedTurn DEF x
<1>. HIDE DEF n
<1>. QED
  BY <1>3, <1>8, DeeperTurn, TurnLife

LEMMA EnterSubFlowLife ==
    ASSUME IndInv, LifeInv, NEW c \in Call, EnterSubFlow(c)
    PROVE  LifeStep(calls[c].flow)
<1>. DEFINE m == Run(c)
<1>1. calls[c].pc = "enterSub" /\ Step(c, loop(m)) BY DEF EnterSubFlow
<1>2. /\ Ready(m) /\ m.call = calls[c] /\ RestsWell(m.ins, m.ctx) /\ WorksWell(m) BY <1>1, RunLife
<1>. HIDE DEF m
<1>4. Turn(m, m.ins[1])
  BY <1>2, <1>1 DEF Turn, Goes, RestsWell, RootOpen, WorksWell
<1>. QED BY <1>1, <1>2, <1>4, TurnLife DEF m

(* A call that returns.                                                    *)
LEMMA ReturnLife ==
    ASSUME IndInv, LifeInv, NEW c \in Call, calls[c].pc # "idle",
           NEW m, DOMAIN m = {"ins", "ctx", "call"}, RestsWell(m.ins, m.ctx),
           m.ins[1] = Run(c).ins[1], Step(c, return(m))
    PROVE  LifeStep(calls[c].flow)
<1>. DEFINE n == return(m)
<1>1. n.ins = m.ins /\ n.ctx = m.ctx /\ n.call.pc = "idle" BY EndFields
<1>2. Step(c, n) OBVIOUS
<1>. HIDE DEF n
<1>3. Outcome(n, m.ins[1]) BY <1>1, SameOutcome
<1>. QED BY <1>1, <1>2, <1>3, StepLife

LEMMA ChainReturnsLife ==
    ASSUME IndInv, LifeInv, NEW c \in Call, ChainReturns(c)
    PROVE  LifeStep(calls[c].flow)
<1>. QED
  BY RunLife, ReturnLife DEF ChainReturns

LEMMA SubChainEndsLife ==
    ASSUME IndInv, LifeInv, NEW c \in Call, SubChainEnds(c)
    PROVE  LifeStep(calls[c].flow)
<1>. DEFINE m  == Run(c)
            p  == leaveSubFlow(m)
            to == exitTarget(Current(p), Current(m).exit)
            k  == setCurrent(p, handleError(Current(p), Current(p).state, None))
<1>1. /\ calls[c].pc = "chainEnd" /\ Len(calls[c].depth) > 1
      /\ IF ~isCompleted(Current(m))
         THEN Step(c, [m EXCEPT !.call.depth = SubSeq(@, 1, Len(@) - 1)])
         ELSE IF to # None THEN TakeExit(c, p, to, TRUE)
         ELSE Step(c, loop(deeper(k)))
  BY DEF SubChainEnds
<1>2. /\ Ready(m) /\ m.call = calls[c] /\ calls[c].pc # "idle"
      /\ RestsWell(m.ins, m.ctx) /\ WorksWell(m)
  BY <1>1, RunLife
<1>. HIDE DEF m
<1>3. Level(m) # 1 BY <1>1, <1>2, LeaveFields
<1>4. RootOpen(m) /\ Current(m) \in Instance BY <1>2, <1>3, ReadyType DEF WorksWell
<1>5. /\ Ready(p) /\ Unfinished(Current(p))
      /\ p.call.flow = m.call.flow /\ p.ins[1] = m.ins[1]
      /\ RestsWell(p.ins, p.ctx) /\ RootOpen(p)
      /\ Routed(p.ins) => Embeds(p.ins[1])
  BY <1>1, <1>2, <1>4, ParentLife
<1>. HIDE DEF p
<1>6. CASE ~isCompleted(Current(m))
  <2>. DEFINE n == [m EXCEPT !.call.depth = SubSeq(@, 1, Len(@) - 1)]
  <2>1. Step(c, n) BY <1>1, <1>6
  <2>2. RunInv(n) /\ n.call.flow = calls[c].flow BY <1>1, <1>2, PopInv
  <2>3. n.ins = m.ins /\ n.ctx = m.ctx /\ n.call.pc = "chainEnd"
    BY <1>2, <1>1 DEF Ready, RunType, Frame
  <2>. HIDE DEF n
  <2>5. Outcome(n, m.ins[1])
    BY <1>2, <2>3, <1>3, <1>4, SameOutcome DEF WorksWell, RootOpen, Holding
  <2>. QED BY <1>2, <2>1, <2>2, <2>5, StepLife DEF m
<1>7. CASE isCompleted(Current(m)) /\ to # None
  <2>1. Current(m).exit \in Exit BY <1>4, <1>7 DEF isCompleted, Instance
  <2>. HIDE DEF to
  <2>3. to # None /\ to = exitTarget(Current(p), Current(m).exit) BY <1>7 DEF to
  <2>. QED
    BY <1>2, <1>5, <2>1, <1>1, <1>7, <2>3, TakeExitLife DEF m
<1>8. CASE isCompleted(Current(m)) /\ to = None
  <2>. HIDE DEF k
  <2>. QED
    BY <1>2, <1>5, <1>1, <1>8, BubbleLife DEF m, k
<1>. QED BY <1>6, <1>7, <1>8

LEMMA ResumedChainEndsLife ==
    ASSUME IndInv, LifeInv, NEW c \in Call, ResumedChainEnds(c)
    PROVE  LifeStep(calls[c].flow)
<1>. DEFINE m  == Run(c)
            p  == leaveSubFlow(m)
            to == exitTarget(Current(p), Current(m).exit)
<1>1. /\ calls[c].pc = "chainEnd" /\ calls[c].base = 2
      /\ IF ~isCompleted(Current(m)) THEN Step(c, return(m))
         ELSE IF to # None THEN TakeExit(c, p, to, FALSE)
         ELSE Step(c, return(p))
  BY DEF ResumedChainEnds
<1>2. /\ Ready(m) /\ m.call = calls[c] /\ calls[c].pc # "idle"
      /\ RestsWell(m.ins, m.ctx) /\ WorksWell(m) /\ DOMAIN m = {"ins", "ctx", "call"}
  BY <1>1, RunLife
<1>. HIDE DEF m
<1>4. RootOpen(m) /\ Current(m) \in Instance
  BY <1>2, <1>1, LeaveFields, ReadyType DEF WorksWell
<1>5. /\ Ready(p) /\ Unfinished(Current(p)) /\ DOMAIN p = {"ins", "ctx", "call"}
      /\ p.call.flow = m.call.flow /\ p.ins[1] = m.ins[1]
      /\ RestsWell(p.ins, p.ctx) /\ RootOpen(p)
  BY <1>1, <1>2, <1>4, ParentLife
<1>. HIDE DEF p
<1>6. CASE ~isCompleted(Current(m)) BY <1>1, <1>2, <1>6, ReturnLife DEF m
<1>7. CASE isCompleted(Current(m)) /\ to # None
  <2>1. Current(m).exit \in Exit BY <1>4, <1>7 DEF isCompleted, Instance
  <2>. HIDE DEF to
  <2>3. to # None /\ to = exitTarget(Current(p), Current(m).exit) BY <1>7 DEF to
  <2>. QED
    BY <1>2, <1>5, <2>1, <1>1, <1>7, <2>3, TakeExitLife DEF m
<1>8. CASE isCompleted(Current(m)) /\ to = None BY <1>1, <1>2, <1>5, <1>8, ReturnLife DEF m
<1>. QED BY <1>6, <1>7, <1>8

LEMMA SubGuardAcceptedLife ==
    ASSUME IndInv, LifeInv, NEW c \in Call, SubGuardAccepted(c)
    PROVE  LifeStep(calls[c].flow)
<1>. DEFINE r == Run(c)
<1>0. calls[c].pc = "subGuard" BY DEF SubGuardAccepted
<1>1. /\ calls[c].pc # "idle" /\ now \in Nat /\ Working(r) /\ Ready(r) /\ r.call = calls[c]
      /\ Chosen(r).from = Current(r).state
      /\ Chosen(r).type = Kind(calls[c].pc) /\ Chosen(r).type # "sub_flow"
      /\ AllKept(r.ins, r.ctx) /\ RootOpen(r)
  BY <1>0, HoldingLife DEF Holding
<1>2. PICK data \in SUBSET Chosen(r).gives :
         LET m == [r EXCEPT !.ctx = @ \cup data]
         IN  Step(c, loop(setCurrent(m, moveTo(Current(m), Chosen(m).to, "ok"))))
  BY DEF SubGuardAccepted
<1>. DEFINE m == [r EXCEPT !.ctx = @ \cup data]
            k == setCurrent(m, moveTo(Current(m), Chosen(m).to, "ok"))
<1>. HIDE DEF r
<1>4. Working(m) /\ m.call = calls[c] /\ Current(m) = Current(r) /\ Chosen(m) = Chosen(r)
  BY <1>1, WorkingChosen, WorkingPut
<1>5. m.ins = r.ins /\ m.ctx = r.ctx \cup data BY <1>1 DEF Ready, RunType
<1>6. Step(c, loop(k)) BY <1>2
<1>. HIDE DEF m
<1>7. AllKept(m.ins, m.ctx) /\ RootOpen(m)
  BY <1>1, <1>5, MoreKept, <1>4 DEF AllKept, RootOpen, Level
<1>9. Turn(k, m.ins[1]) /\ Working(k) /\ k.call = m.call
  BY <1>1, <1>4, <1>7, <1>0, MovedTurn DEF Kind
<1>. HIDE DEF k
<1>. QED BY <1>1, <1>4, <1>5, <1>6, <1>9, TurnLife DEF Working, r

LEMMA SubGuardRejectedLife ==
    ASSUME IndInv, LifeInv, NEW c \in Call, SubGuardRejected(c)
    PROVE  LifeStep(calls[c].flow)
<1>. DEFINE m  == Run(c)
            x  == incrementGuardFailure(Current(m))
            p  == leaveSubFlow(m)
            to == exitTarget(Current(p), "ERROR")
            k  == setCurrent(p, handleError(Current(p), Current(p).state, None))
<1>1. /\ calls[c].pc = "subGuard"
      /\ IF x.fails < definitionOf(x).maxGuardRetries THEN Step(c, return(setCurrent(m, x)))
         ELSE IF to # None THEN TakeExit(c, p, to, FALSE)
         ELSE Step(c, loop(k))
  BY DEF SubGuardRejected
<1>2. /\ calls[c].pc # "idle" /\ Ready(m) /\ m.call = calls[c]
      /\ AllKept(m.ins, m.ctx) /\ RootOpen(m) /\ Level(m) # 1 /\ m.call.base = 2
  BY <1>1, HoldingLife DEF Holding
<1>3. RestsWell(m.ins, m.ctx) BY <1>2, RunLife
<1>. HIDE DEF m
<1>5. /\ Ready(p) /\ Unfinished(Current(p))
      /\ p.call.flow = m.call.flow /\ p.ins[1] = m.ins[1]
      /\ RestsWell(p.ins, p.ctx) /\ RootOpen(p)
      /\ Routed(p.ins) => Embeds(p.ins[1])
  BY <1>2, <1>3, ParentLife
<1>. HIDE DEF p
<1>6. CASE x.fails < definitionOf(x).maxGuardRetries
  <2>. DEFINE l == setCurrent(m, x)
              n == return(l)
  <2>1. Step(c, n) BY <1>1, <1>6
  <2>2. Kept(x, m.ctx)
    BY <1>2, ReadyType, <1>6, SubRejectedKept DEF AllKept, Ready, Current
  <2>. HIDE DEF x
  <2>3. Replaced(m, l, x) /\ l.ctx = m.ctx /\ DOMAIN l = {"ins", "ctx", "call"} BY <1>2, SetReplaces
  <2>. HIDE DEF l
  <2>4. n.ins = l.ins /\ n.ctx = m.ctx /\ n.call.pc = "idle" BY <2>3, EndFields
  <2>. HIDE DEF n
  <2>5. Replaced(m, n, x) BY <2>3, <2>4 DEF Replaced
  <2>7. Outcome(n, m.ins[1])
    BY <1>2, <2>4, <2>5, <2>2, ReplacedKept, ReplaceOutcome DEF AllKept
  <2>. QED BY <1>2, <2>1, <2>4, <2>7, StepLife DEF m
<1>7. CASE ~(x.fails < definitionOf(x).maxGuardRetries) /\ to # None
  <2>2. TakeExit(c, p, to, FALSE) BY <1>1, <1>7
  <2>. HIDE DEF to
  <2>3. to # None /\ to = exitTarget(Current(p), "ERROR") BY <1>7 DEF to
  <2>. QED
    BY <1>2, <1>5, <2>2, <2>3, TakeExitLife DEF m, Exit, ExitCode
<1>8. CASE ~(x.fails < definitionOf(x).maxGuardRetries) /\ to = None
  <2>. HIDE DEF k
  <2>. QED
    BY <1>2, <1>5, <1>1, <1>8, BubbleLife DEF m, k
<1>. QED BY <1>6, <1>7, <1>8

LEMMA SubGuardExpiredLife ==
    ASSUME IndInv, LifeInv, NEW c \in Call, SubGuardExpired(c)
    PROVE  LifeStep(calls[c].flow)
<1>. DEFINE m == Run(c)
            y == complete(m.ins[1], "EXPIRED")
            s == [m.ins EXCEPT ![1] = y]
            l == [m EXCEPT !.ins = s]
            n == return(l)
<1>1. calls[c].pc = "subGuard" /\ Step(c, return([m EXCEPT !.ins[1] = complete(@, "EXPIRED")]))
  BY DEF SubGuardExpired
<1>2. calls[c].pc # "idle" /\ Ready(m) /\ RootOpen(m) /\ Level(m) # 1
  BY <1>1, HoldingLife DEF Holding
<1>3. RestsWell(m.ins, m.ctx) BY <1>2, RunLife
<1>. HIDE DEF m
<1>4. Step(c, n) BY <1>1
<1>5. /\ m \in [ins: Seq(Instance), ctx: SUBSET Key, call: Frame]
      /\ DOMAIN m.ins = 1 .. Len(m.ins) /\ Len(m.ins) \in Nat
      /\ 1 \in DOMAIN m.ins /\ m.ins[1] \in Instance
  BY <1>2, <1>3, ReadyType DEF Ready, RunType, RestsWell
<1>. HIDE DEF y
<1>6. /\ DOMAIN s = DOMAIN m.ins /\ s[1] = y
      /\ \A i \in DOMAIN m.ins : i # 1 => s[i] = m.ins[i]
      /\ Len(s) = Len(m.ins)
  BY <1>5
<1>. HIDE DEF s
<1>7. l.ins = s /\ l.ctx = m.ctx /\ DOMAIN l = {"ins", "ctx", "call"} BY <1>5
<1>. HIDE DEF l
<1>8. n.ins = s /\ n.ctx = m.ctx /\ n.call.pc = "idle" BY <1>7, EndFields
<1>. HIDE DEF n
<1>9. Outcome(n, m.ins[1]) BY <1>2, <1>3, <1>5, <1>6, <1>8, CloseOutcome DEF RootOpen, y
<1>. QED BY <1>2, <1>4, <1>8, <1>9, StepLife DEF m

-----------------------------------------------------------------------------
(* The start of a call.                                                    *)

(* A flow that starts: a fresh root, at rest in its initial state, or      *)
(* completed there if that is terminal.                                    *)
Begins(f, n) ==
    /\ LifeInv'
    /\ inst[f] = <<>> /\ inst'[f] # <<>>
    /\ \A g \in Flow : g # f => inst'[g] = inst[g] /\ context'[g] = context[g]
    /\ LET x == inst'[f][1]
       IN  /\ x.def = n /\ x.state = Def[n].initial
           /\ x.exit = None \/ (x.exit = x.state /\ x.state \in Def[n].terminal)

LEMMA StartFlowLife ==
    ASSUME IndInv, LifeInv, NEW c \in Call, NEW f \in Flow, NEW name \in Root, NEW keys \in Event,
           StartFlow(c, f, name, keys)
    PROVE  Begins(f, name)
<1>. DEFINE new == NewInstance(name, now)
<1>1. PICK m : /\ Newborn(f, name, m) /\ m.ctx = keys /\ Writes(c, f, loop(m))
               /\ name \in DefName /\ now \in Nat /\ inst[f] = <<>>
  BY StartFlowRun
<1>. DEFINE n == loop(m)
<1>2. /\ new \in Instance /\ Kept(new, keys) /\ ~isCompleted(new)
      /\ new.def = name /\ new.state = Def[name].initial /\ new.exit = None
  BY <1>1, NewKept DEF NewInstance, isCompleted, Newborn
<1>3. Ready(m) /\ Level(m) = 1 /\ DOMAIN m.ins = {1} /\ m.ins[1] = new /\ Len(m.ins) = 1
  BY <1>1 DEF Newborn, Ready
<1>. HIDE DEF new
<1>. HIDE DEF n
<1>5. /\ RestsWell(n.ins, n.ctx)
      /\ n.call.pc # "idle" => WorksWell(n)
      /\ \/ n.ins[1] = new
         \/ isTerminal(new) /\ n.ins[1] = complete(new, new.state)
  BY <1>1, <1>3, <1>2, LoopKeeps DEF n, Goes, AllKept
<1>6. /\ LifeInv' /\ inst'[f] = n.ins /\ inst'[f] # <<>>
      /\ \A g \in Flow : g # f => inst'[g] = inst[g] /\ context'[g] = context[g]
  BY <1>1, <1>5, CommitLife DEF Writes, RunInv, n
<1>7. /\ n.ins[1].def = name /\ n.ins[1].state = Def[name].initial
      /\ \/ n.ins[1].exit = None
         \/ n.ins[1].exit = n.ins[1].state /\ n.ins[1].state \in Def[name].terminal
  <2>1. CASE n.ins[1] = new BY <1>2, <2>1
  <2>2. CASE isTerminal(new) /\ n.ins[1] = complete(new, new.state)
    BY <1>2, <2>2 DEF isTerminal, definitionOf, complete, Instance
  <2>. QED BY <1>5, <2>1, <2>2
<1>. QED BY <1>1, <1>6, <1>7 DEF Begins

(* A guard that is asked holds a run that it may break off.                *)
LEMMA GuardWorks ==
    ASSUME NEW n, n.call.pc \in {"guard", "subGuard"}, Chosen(n).type = "external",
           ~isCompleted(n.ins[1]), RootOpen(n)
    PROVE  WorksWell(n)
BY DEF WorksWell, Kind

(* An event brings data along.                                             *)
LEMMA RestsWithMore ==
    ASSUME NEW ins, NEW ctx, RestsWell(ins, ctx), NEW more, ctx \subseteq more
    PROVE  RestsWell(ins, more)
<1>. QED
  BY MoreKept DEF RestsWell, AllKept

LEMMA ResumeLife ==
    ASSUME Serialized, IndInv, LifeInv, NEW c \in Call, NEW f \in Flow, NEW keys \in Event,
           Resume(c, f, keys)
    PROVE  /\ LifeStep(f) /\ inst[f] # <<>>
           /\ ~loadForUpdate(f) => inst' = inst /\ context' = context
<1>1. PICK r : Writes(c, f, r) /\ Opened(f, keys, r) BY ResumeRun
<1>2. inst[f] \in Seq(Instance) /\ inst[f] # <<>> /\ RestsWell(inst[f], context[f])
  BY DEF Resume, IndInv, LifeInv, Started
<1>4. RestsWell(inst[f], r.ctx) BY <1>1, <1>2, RestsWithMore DEF Opened
<1>5. Outcome(r, inst[f][1])
  <2>1. CASE r.ins = inst[f] /\ r.call.pc = "idle" BY <1>4, <2>1, SameOutcome
  <2>2. ASSUME loadForUpdate(f), r.ins = inst[f], Ready(r), Chosen(r).type = "external",
               \/ r.call.pc = "guard" /\ Level(r) = 1 /\ Len(inst[f]) = 1
               \/ r.call.pc = "subGuard" /\ Level(r) = 2 /\ Len(inst[f]) > 1
        PROVE  Outcome(r, inst[f][1])
    BY <2>2, <1>4, GuardWorks, SameOutcome DEF loadForUpdate, RootOpen, RestsWell
  <2>3. CASE /\ loadForUpdate(f) /\ r.call.pc = "idle"
             /\ DOMAIN r.ins = DOMAIN inst[f] /\ Len(r.ins) = Len(inst[f])
             /\ r.ins[1] = complete(inst[f][1], "EXPIRED")
             /\ \A i \in DOMAIN inst[f] : i # 1 => r.ins[i] = inst[f][i]
    BY <1>2, LenProperties, EmptySeq, <1>4, <2>3, CloseOutcome DEF loadForUpdate
  <2>. QED BY <1>1, <2>1, <2>2, <2>3 DEF Opened
<1>6. /\ LifeInv' /\ inst'[f] = r.ins /\ inst'[f] # <<>>
      /\ \A g \in Flow : g # f => inst'[g] = inst[g] /\ context'[g] = context[g]
  BY <1>1, <1>5, CommitLife DEF Outcome, Writes, RunInv
<1>. QED
  BY <1>2, <1>5, <1>6 DEF LifeStep, Outcome, Resume

-----------------------------------------------------------------------------
(* The invariant.                                                          *)

LEMMA InitLife == Init => LifeInv
<1>. SUFFICES ASSUME Init PROVE LifeInv OBVIOUS
<1>. QED
  BY DEF LifeInv, Init, Idle, Started

LEMMA UnchangedLife ==
    ASSUME LifeInv, UNCHANGED <<inst, context, calls>>
    PROVE  LifeInv'
<1>. QED
  BY DEF LifeInv, Run, Started

LEMMA ContinueLife ==
    ASSUME IndInv, LifeInv, NEW c \in Call, Continue(c)
    PROVE  LifeStep(calls[c].flow)
<1>1. CASE GuardAccepted(c) BY <1>1, GuardAcceptedLife
<1>2. CASE GuardRejected(c) BY <1>2, GuardRejectedLife
<1>3. CASE GuardExpired(c) BY <1>3, GuardExpiredLife
<1>4. CASE GuardThrows(c) BY <1>4, GuardThrowsLife
<1>5. CASE ProcessDone(c) BY <1>5, ProcessDoneLife
<1>6. CASE ProcessThrows(c) BY <1>6, ProcessThrowsLife
<1>7. CASE AutoDone(c) BY <1>7, AutoDoneLife
<1>8. CASE AutoThrows(c) BY <1>8, StepFailsLife DEF AutoThrows
<1>9. CASE Decide(c) BY <1>9, DecideLife
<1>10. CASE DecideThrows(c) BY <1>10, StepFailsLife DEF DecideThrows
<1>11. CASE BranchProcessDone(c) BY <1>11, BranchProcessDoneLife
<1>12. CASE BranchProcessThrows(c) BY <1>12, StepFailsLife DEF BranchProcessThrows
<1>13. CASE EnterSubFlow(c) BY <1>13, EnterSubFlowLife
<1>14. CASE ChainReturns(c) BY <1>14, ChainReturnsLife
<1>15. CASE SubChainEnds(c) BY <1>15, SubChainEndsLife
<1>16. CASE ResumedChainEnds(c) BY <1>16, ResumedChainEndsLife
<1>17. CASE SubGuardAccepted(c) BY <1>17, SubGuardAcceptedLife
<1>18. CASE SubGuardRejected(c) BY <1>18, SubGuardRejectedLife
<1>19. CASE SubGuardExpired(c) BY <1>19, SubGuardExpiredLife
<1>. QED BY <1>1, <1>2, <1>3, <1>4, <1>5, <1>6, <1>7, <1>8, <1>9, <1>10, <1>11, <1>12,
     <1>13, <1>14, <1>15, <1>16, <1>17, <1>18, <1>19 DEF Continue

(* A flow with a call under way has started.                               *)
LEMMA CallStarted ==
    ASSUME IndInv, NEW c \in Call, calls[c].pc # "idle"
    PROVE  inst[calls[c].flow] # <<>> /\ calls[c].flow \in Flow
<1>1. Ready(Run(c)) /\ calls[c].flow \in Flow /\ Run(c).ins = inst[calls[c].flow]
  BY RunOfCall DEF Run
<1>. QED BY <1>1 DEF Ready

LEMMA ContinuePC ==
    ASSUME NEW c \in Call, Continue(c)
    PROVE  /\ calls[c].pc # "idle"
           /\ calls[c].pc = "chainEnd" /\ Len(calls[c].depth) = 1 /\ calls[c].base = 1
                => Step(c, return(Run(c)))
<1>1. /\ GuardAccepted(c) \/ GuardRejected(c) \/ GuardExpired(c) => calls[c].pc = "guard"
      /\ GuardThrows(c) => calls[c].pc \in {"guard", "subGuard"}
      /\ ProcessDone(c) \/ ProcessThrows(c) => calls[c].pc = "process"
  BY DEF GuardAccepted, GuardRejected, GuardExpired, GuardThrows, ProcessDone, ProcessThrows
<1>2. /\ AutoDone(c) \/ AutoThrows(c) => calls[c].pc = "auto"
      /\ Decide(c) \/ DecideThrows(c) => calls[c].pc = "decide"
      /\ BranchProcessDone(c) \/ BranchProcessThrows(c) => calls[c].pc = "branchProcess"
      /\ EnterSubFlow(c) => calls[c].pc = "enterSub"
  BY DEF AutoDone, AutoThrows, Decide, DecideThrows, BranchProcessDone, BranchProcessThrows,
         EnterSubFlow
<1>3. SubGuardAccepted(c) \/ SubGuardRejected(c) \/ SubGuardExpired(c) => calls[c].pc = "subGuard"
  BY DEF SubGuardAccepted, SubGuardRejected, SubGuardExpired
<1>4. /\ SubChainEnds(c) => calls[c].pc = "chainEnd" /\ Len(calls[c].depth) > 1
      /\ ResumedChainEnds(c) => calls[c].pc = "chainEnd" /\ calls[c].base = 2
      /\ ChainReturns(c) => calls[c].pc = "chainEnd" /\ Step(c, return(Run(c)))
  BY DEF SubChainEnds, ResumedChainEnds, ChainReturns
<1>5. Len(calls[c].depth) = 1 /\ calls[c].base = 1 => ~SubChainEnds(c) /\ ~ResumedChainEnds(c)
  BY <1>4
<1>. QED BY <1>1, <1>2, <1>3, <1>4, <1>5, Zenon DEF Continue

(* What a step does to the flows: nothing, or one of them begins, or one   *)
(* of them lives on.                                                       *)
LEMMA NextLife ==
    ASSUME Serialized, IndInv, LifeInv, [Next]_vars
    PROVE  /\ LifeInv'
           /\ \/ inst' = inst
              \/ \E f \in Flow : inst[f] # <<>> /\ LifeStep(f)
              \/ \E f \in Flow, n \in Root : Begins(f, n)
<1>1. ASSUME NEW c \in Call, NEW f \in Flow, NEW name \in Root, NEW keys \in Event,
             StartFlow(c, f, name, keys)
      PROVE  Begins(f, name) /\ LifeInv'
  BY <1>1, StartFlowLife DEF Begins
<1>2. ASSUME NEW c \in Call, NEW f \in Flow, NEW keys \in Event, Resume(c, f, keys)
      PROVE  inst[f] # <<>> /\ LifeStep(f) /\ LifeInv'
  BY <1>2, ResumeLife DEF LifeStep
<1>3. ASSUME NEW c \in Call, Continue(c)
      PROVE  calls[c].flow \in Flow /\ inst[calls[c].flow] # <<>> /\ LifeStep(calls[c].flow) /\ LifeInv'
  BY <1>3, ContinuePC, CallStarted, ContinueLife DEF LifeStep
<1>4. CASE Tick BY <1>4, UnchangedLife DEF Tick
<1>5. CASE Clear BY <1>5, UnchangedLife DEF Clear
<1>6. CASE UNCHANGED vars BY <1>6, UnchangedLife DEF vars
<1>. QED BY <1>1, <1>2, <1>3, <1>4, <1>5, <1>6 DEF Next, Tick, Clear, vars

-----------------------------------------------------------------------------
(* The theorems.                                                           *)

(* Reachable states satisfy the invariant.                                 *)
LEMMA LifeInvariance == ASSUME Serialized PROVE Spec => []LifeInv
<1>1. Init => LifeInv BY InitLife
<1>2. IndInv /\ LifeInv /\ [Next]_vars => LifeInv' BY NextLife
<1>3. Spec => []IndInv BY Invariance
<1>. QED BY <1>1, <1>2, <1>3, PTL DEF Spec

LEMMA InstancesKept ==
    ASSUME LifeInv, NEW f \in Flow, NEW i \in DOMAIN inst[f], IndInv
    PROVE  Kept(inst[f][i], context[f])
<1>. QED
  BY DEF LifeInv, RestsWell, AllKept, Started, IndInv

(* The transition log can be replayed: between any two awaits the last     *)
(* record of every instance ends in the state the instance is in, unless   *)
(* an enter action of that state may have thrown before the record.        *)
THEOREM LogFollowsState == ASSUME Serialized PROVE Spec => []LogMatchesState
<1>1. IndInv /\ LifeInv => LogMatchesState BY InstancesKept DEF LogMatchesState, Kept, LogOK
<1>2. Spec => []IndInv BY Invariance
<1>3. Spec => []LifeInv BY LifeInvariance
<1>. QED BY <1>1, <1>2, <1>3, PTL

(* maxGuardRetries bounds the rejections that a flow and each of its       *)
(* sub-flows survive, over any number of resumes, moves and error routes.  *)
THEOREM GuardRetriesAreBounded == ASSUME Serialized PROVE Spec => []GuardRetriesBounded
<1>1. IndInv /\ LifeInv => GuardRetriesBounded
  BY InstancesKept DEF GuardRetriesBounded, Kept, RetriesOK
<1>2. Spec => []IndInv BY Invariance
<1>3. Spec => []LifeInv BY LifeInvariance
<1>. QED BY <1>1, <1>2, <1>3, PTL

(* Strict mode: in a state that only auto transitions lead to, the data    *)
(* that one of them declares is in the context, and stays there when later *)
(* steps fail and their snapshots are restored.                            *)
THEOREM StrictDataStays == ASSUME Serialized PROVE Spec => []StrictAutoProduces
<1>1. IndInv /\ LifeInv => StrictAutoProduces
  <2>. SUFFICES ASSUME IndInv, LifeInv, NEW f \in Flow, NEW j \in DOMAIN inst[f]
                PROVE  LET x == inst[f][j]
                           d == definitionOf(x)
                           I == Into(d, x.state)
                       IN  (/\ d.strictMode
                            /\ I # {} /\ \A i \in I : d.transitions[i].type = "auto"
                            /\ EnteredByTransition(d, x.state))
                           => \E i \in I : d.transitions[i].produces \subseteq context[f]
    BY DEF StrictAutoProduces
  <2>. QED
    BY InstancesKept DEF StrictOK, OnlyByAuto, Kept
<1>2. Spec => []IndInv BY Invariance
<1>3. Spec => []LifeInv BY LifeInvariance
<1>. QED BY <1>1, <1>2, <1>3, PTL

-----------------------------------------------------------------------------
(* A completed flow.                                                       *)

LEMMA CompletedStays ==
    ASSUME Serialized, IndInv, LifeInv, [Next]_vars, NEW f \in Flow, Started(f),
           isCompleted(inst[f][1]), RoutesSubFlowErrors(definitionOf(inst[f][1]))
    PROVE  inst'[f] = inst[f] /\ context'[f] = context[f]
<1>1. ASSUME NEW c \in Call, NEW g \in Flow, NEW name \in Root, NEW keys \in Event,
             StartFlow(c, g, name, keys)
      PROVE  inst'[f] = inst[f] /\ context'[f] = context[f]
  BY <1>1, StartFlowLife DEF Begins, Started
<1>2. ASSUME NEW c \in Call, NEW g \in Flow, NEW keys \in Event, Resume(c, g, keys)
      PROVE  inst'[f] = inst[f] /\ context'[f] = context[f]
  <2>1. LifeStep(g) /\ (~loadForUpdate(g) => inst' = inst /\ context' = context) BY <1>2, ResumeLife
  <2>2. CASE g = f BY <2>1, <2>2 DEF loadForUpdate
  <2>3. CASE g # f BY <2>1, <2>3 DEF LifeStep
  <2>. QED BY <2>2, <2>3
<1>3. ASSUME NEW c \in Call, Continue(c)
      PROVE  inst'[f] = inst[f] /\ context'[f] = context[f]
  <2>2. CASE calls[c].flow # f
    BY <1>3, ContinueLife, <2>2 DEF LifeStep
  <2>3. CASE calls[c].flow = f
    <3>. DEFINE m == Run(c)
    <3>2. /\ m.ins = inst[f] /\ m.ctx = context[f] /\ m.call = calls[c]
          /\ DOMAIN m = {"ins", "ctx", "call"}
      BY <2>3 DEF Run
    <3>3. Ready(m) /\ WorksWell(m)
      BY <1>3, ContinuePC, RunOfCall DEF LifeInv
    <3>. HIDE DEF m
    <3>5. m.call.pc = "chainEnd" /\ Level(m) = 1
      BY <3>3, <3>2 DEF WorksWell, RootOpen, Routed
    <3>6. m.call \in Frame /\ Len(m.call.depth) >= 1 BY <3>3 DEF Ready, RunType
    <3>7. m.call.base \in {1, 2} /\ Len(m.call.depth) \in Nat
      BY <3>6 DEF Frame
    <3>8. m.call.base = 1 /\ Len(m.call.depth) = 1
      <4>1. m.call.base + Len(m.call.depth) - 1 = 1 BY <3>5 DEF Level
      <4>2. Len(m.call.depth) >= 1 BY <3>6
      <4>3. \A a \in {1, 2}, b \in Nat : a + b - 1 = 1 /\ b >= 1 => a = 1 /\ b = 1 OBVIOUS
      <4>. QED BY <3>7, <4>1, <4>2, <4>3
    <3>9. Step(c, return(m)) BY <1>3, <3>2, <3>5, <3>8, ContinuePC DEF m
    <3>. QED
      BY <2>3, <3>2, <3>9, EndFields DEF IndInv, Step, Commit
  <2>. QED BY <2>2, <2>3
<1>4. CASE Tick \/ Clear \/ UNCHANGED vars BY <1>4 DEF Tick, Clear, vars
<1>. QED BY <1>1, <1>2, <1>3, <1>4 DEF Next

(* A completed flow is over: no later step of any call, of a resume that   *)
(* still finds it or of a chain that was under way, changes an instance or *)
(* a key of it, if the states that embed sub-flows say where errors go.    *)
THEOREM CompletedIsFinal == ASSUME Serialized PROVE Spec => CompletionIsFinal
<1>1. IndInv /\ LifeInv /\ [Next]_vars
        => [\A f \in Flow :
               (Started(f) /\ isCompleted(inst[f][1])
                  /\ RoutesSubFlowErrors(definitionOf(inst[f][1]))) =>
                   inst'[f] = inst[f] /\ context'[f] = context[f]]_vars
  BY CompletedStays
<1>2. Spec => []IndInv BY Invariance
<1>3. Spec => []LifeInv BY LifeInvariance
<1>. QED BY <1>1, <1>2, <1>3, PTL DEF Spec, CompletionIsFinal

-----------------------------------------------------------------------------
(* The life of a flow, seen from outside.                                  *)

LifeRec(x) == [def |-> x.def, at |-> x.state, exit |-> x.exit]

LEMMA LifeRecUpdate ==
    ASSUME NEW x, NEW y, y.def = x.def
    PROVE  LifeRec(y) = [LifeRec(x) EXCEPT !.at = y.state, !.exit = y.exit]
<1>. DEFINE r == [LifeRec(x) EXCEPT !.at = y.state]
            n == [r EXCEPT !.exit = y.exit]
<1>2. r \in [def : {x.def}, at : {y.state}, exit : {x.exit}]
  BY DEF LifeRec
<1>. HIDE DEF r
<1>3. n \in [def : {y.def}, at : {y.state}, exit : {y.exit}] BY <1>2
<1>. HIDE DEF n
<1>4. n = LifeRec(y) BY <1>3 DEF LifeRec
<1>. QED BY <1>4 DEF n, r

LEMMA WaysAreEdges ==
    ASSUME NEW d, NEW s
    PROVE  /\ Lifecycle!ErrorEdges(d, s) = ErrorWays(d, s)
           /\ Lifecycle!Edges(d, s) = Ways(d, s)
<1>1. Lifecycle!Successors(d, s) = Successors(d, s)
  BY DEF Lifecycle!Successors, Successors, Lifecycle!transitionsFrom, transitionsFrom,
         Lifecycle!Exit, Exit, Lifecycle!ExitCode, ExitCode
<1>. QED
  BY <1>1 DEF Lifecycle!Edges, Ways, Lifecycle!ErrorEdges, ErrorWays

LEMMA ArrivesAtExit ==
    ASSUME NEW d, NEW y, Arrives(d, y)
    PROVE  y.exit \in Lifecycle!ExitAt(d, y.state)
BY DEF Arrives, Lifecycle!ExitAt

LEMMA InitLifecycle == Init => Lifecycle!Init
BY DEF Init, Lifecycle!Init, Lifecycle!Absent, LifeOf, Observed, Started

(* One flow changes.                                                       *)
LEMMA OneLife ==
    ASSUME NEW f \in Flow, \A g \in Flow : g # f => inst'[g] = inst[g]
    PROVE  LifeOf' = [LifeOf EXCEPT ![f] = LifeOf'[f]]
<1>1. \A g \in Flow : g # f => LifeOf'[g] = LifeOf[g] BY DEF LifeOf, Observed, Started, definitionOf
<1>2. LifeOf = [g \in Flow |-> LifeOf[g]] /\ LifeOf' = [g \in Flow |-> LifeOf'[g]] BY DEF LifeOf
<1>. HIDE DEF LifeOf
<1>. QED BY <1>1, <1>2, Zenon

LEMMA LivesObserved ==
    ASSUME IndInv, NEW f \in Flow, inst[f] # <<>>, LifeStep(f)
    PROVE  [Lifecycle!Next]_LifeOf
<1>. DEFINE x == inst[f][1]
            y == inst'[f][1]
<1>1. x \in Instance /\ x.def \in DefName /\ x.def # None
  <2>2. x \in Instance
    BY EmptySeq DEF IndInv
  <2>. QED
    BY <2>2, NamesAssumption DEF Instance
<1>2. Started(f) /\ Started(f)' /\ y.def = x.def /\ Lives(x, y) BY DEF Started, LifeStep, Lives
<1>3. LifeOf' = [LifeOf EXCEPT ![f] = LifeOf'[f]] BY OneLife DEF LifeStep
<1>4. LifeOf = [g \in Flow |-> LifeOf[g]] BY DEF LifeOf
<1>5. CASE ~RoutesSubFlowErrors(definitionOf(x))
  <2>1. LifeOf'[f] = LifeOf[f] BY <1>2, <1>5 DEF LifeOf, Observed, definitionOf
  <2>. HIDE DEF LifeOf
  <2>. QED BY <1>3, <1>4, <2>1, Zenon
<1>6. CASE RoutesSubFlowErrors(definitionOf(x))
  <2>1. LifeOf[f] = LifeRec(x) /\ LifeOf'[f] = LifeRec(y)
    BY <1>2, <1>6 DEF LifeOf, Observed, definitionOf, LifeRec
  <2>. DEFINE d == definitionOf(x)
  <2>2. d = Def[LifeOf[f].def] /\ LifeOf[f].at = x.state /\ LifeOf[f].exit = x.exit
    BY <2>1 DEF LifeRec, definitionOf
  <2>3. ~isCompleted(x) => Lifecycle!isOpen(f)
    <3>. HIDE DEF LifeOf
    <3>. QED
      BY <1>1, <2>1 DEF isCompleted, Lifecycle!isOpen, LifeRec
  <2>4. LifeOf'[f] = [LifeOf[f] EXCEPT !.at = y.state, !.exit = y.exit]
    <3>. HIDE DEF LifeOf, x, y
    <3>2. LifeRec(y) = [LifeRec(x) EXCEPT !.at = y.state, !.exit = y.exit]
      BY <1>2, LifeRecUpdate
    <3>. QED BY <2>1, <3>2
  <2>5. LifeOf' = [LifeOf EXCEPT ![f] = [@ EXCEPT !.at = y.state, !.exit = y.exit]] BY <1>3, <2>4
  <2>6. y.state = x.state =>
            LifeOf' = [LifeOf EXCEPT ![f] = [@ EXCEPT !.exit = y.exit]]
    BY <1>2, <2>1, <1>3 DEF LifeRec
  <2>7. Stays(x, y) => LifeOf'[f] = LifeOf[f] BY <1>2, <2>1 DEF LifeRec, Stays
  <2>. HIDE DEF LifeOf, x, y, d
  <2>9. CASE Stays(x, y) BY <1>3, <1>4, <2>7, <2>9, Zenon
  <2>10. CASE Closes(x, y)
    BY <2>3, <2>6, <2>10 DEF Closes, Lifecycle!Close, Lifecycle!Next
  <2>11. CASE Moves(x, y)
    <3>1. y.state \in Lifecycle!Edges(d, x.state) /\ y.exit \in Lifecycle!ExitAt(d, y.state)
      BY <2>11, WaysAreEdges, ArrivesAtExit DEF Moves, d
    <3>. QED
      BY <2>2, <2>3, <2>5, <2>11, <3>1 DEF Lifecycle!Next, Moves, Lifecycle!Move
  <2>12. CASE Stumbles(x, y)
    <3>1. PICK s \in Ways(d, x.state) \cap d.enterActions :
              \/ y.state = s /\ y.exit = "TERMINAL_ERROR"
              \/ y.state \in ErrorWays(d, s) \cup ErrorWays(d, x.state) /\ Arrives(d, y)
      BY <2>12 DEF Stumbles, d
    <3>2. s \in Lifecycle!Edges(d, x.state) \cap d.enterActions BY WaysAreEdges
    <3>3. CASE y.state = s /\ y.exit = "TERMINAL_ERROR"
      BY <2>2, <2>3, <2>5, <2>12, <3>2, <3>3 DEF Stumbles, Lifecycle!Stumble,
         Lifecycle!Next
    <3>4. CASE y.state \in ErrorWays(d, s) \cup ErrorWays(d, x.state) /\ Arrives(d, y)
      BY <3>4, WaysAreEdges, ArrivesAtExit, <2>2, <2>3, <2>5, <2>12, <3>2 DEF Stumbles,
         Lifecycle!Stumble, Lifecycle!Next
    <3>. QED BY <3>1, <3>3, <3>4
  <2>. QED
    BY <1>2, <1>6, <2>9, <2>10, <2>11, <2>12 DEF Lives
<1>. QED BY <1>5, <1>6

LEMMA BeginsObserved ==
    ASSUME NEW f \in Flow, NEW n \in Root, Begins(f, n)
    PROVE  [Lifecycle!Next]_LifeOf
<1>. DEFINE y == inst'[f][1]
<1>1. /\ ~Started(f) /\ Started(f)' /\ y.def = n /\ y.state = Def[n].initial
      /\ Arrives(Def[n], y)
  BY DEF Begins, Started, Arrives
<1>2. LifeOf' = [LifeOf EXCEPT ![f] = LifeOf'[f]] BY OneLife DEF Begins
<1>3. LifeOf = [g \in Flow |-> LifeOf[g]] BY DEF LifeOf
<1>4. LifeOf[f] = Lifecycle!Absent BY <1>1 DEF LifeOf, Observed, Lifecycle!Absent
<1>5. CASE ~RoutesSubFlowErrors(Def[n])
  <2>1. LifeOf'[f] = LifeOf[f]
    BY <1>1, <1>4, <1>5 DEF LifeOf, Observed, definitionOf, Lifecycle!Absent
  <2>. HIDE DEF LifeOf
  <2>. QED BY <1>2, <1>3, <2>1, Zenon
<1>6. CASE RoutesSubFlowErrors(Def[n])
  <2>1. LifeOf'[f] = [def |-> n, at |-> Def[n].initial, exit |-> y.exit]
    BY <1>1, <1>6 DEF LifeOf, Observed, definitionOf
  <2>. HIDE DEF LifeOf, y
  <2>. QED
    BY <1>2, <1>4, <2>1, <1>1, ArrivesAtExit DEF Lifecycle!Next, Lifecycle!Start
<1>. QED BY <1>5, <1>6

LEMMA NextLifecycle ==
    ASSUME Serialized, IndInv, LifeInv, [Next]_vars
    PROVE  [Lifecycle!Next]_LifeOf
<1>1. CASE inst' = inst BY <1>1 DEF LifeOf, Observed, Started, definitionOf
<1>2. ASSUME NEW f \in Flow, inst[f] # <<>>, LifeStep(f)
      PROVE  [Lifecycle!Next]_LifeOf
  BY <1>2, LivesObserved
<1>3. ASSUME NEW f \in Flow, NEW n \in Root, Begins(f, n)
      PROVE  [Lifecycle!Next]_LifeOf
  BY <1>3, BeginsObserved
<1>. QED BY <1>1, <1>2, <1>3, NextLife

(* Seen from outside, the engine implements the life of a flow: the root   *)
(* of a flow starts once, moves only along edges its definition declares   *)
(* from the state it is in, and is closed once, under the name of the      *)
(* terminal state it is in or under one of the engine's own codes.         *)
THEOREM EngineImplementsLifecycle == ASSUME Serialized PROVE Spec => ImplementsLifecycle
<1>1. Init => Lifecycle!Init BY InitLifecycle
<1>2. IndInv /\ LifeInv /\ [Next]_vars => [Lifecycle!Next]_LifeOf BY NextLifecycle
<1>3. Spec => []IndInv BY Invariance
<1>4. Spec => []LifeInv BY LifeInvariance
<1>. QED BY <1>1, <1>2, <1>3, <1>4, PTL DEF Spec, ImplementsLifecycle, Lifecycle!Spec

-----------------------------------------------------------------------------
(* Who waits can be reached.  From here on the definitions are such that   *)
(* chains end where an event can start them again (Delivers).              *)

(* What is embedded in a set of definitions is embedded in one of them.    *)
LEMMA EmbeddedIn ==
    ASSUME NEW N, NEW x \in Embedded(N)
    PROVE  \E n \in N : x \in Embedded({n})
<1>. DEFINE E(n) == {Def[n].transitions[i].sub : i \in DOMAIN Def[n].transitions} \ {None}
<1>1. PICK n \in N : x \in E(n) BY DEF Embedded
<1>2. \A k : Embedded({k}) = UNION {E(j) : j \in {k}} BY Zenon DEF Embedded
<1>. HIDE DEF E
<1>. QED
  BY <1>1, <1>2

LEMMA EmbeddedMore ==
    ASSUME NEW M, NEW N, M \subseteq N
    PROVE  Embedded(M) \subseteq Embedded(N)
BY DEF Embedded

LEMMA EmbeddedSub ==
    ASSUME NEW N, N \subseteq DefName, NEW n \in N, NEW j \in DOMAIN Def[n].transitions,
           Def[n].transitions[j].type = "sub_flow"
    PROVE  Def[n].transitions[j].sub \in Embedded(N)
<1>. QED
  BY SubFlowAssumption, NamesAssumption DEF Embedded

LEMMA EmbeddedNames ==
    ASSUME NEW N, N \subseteq DefName
    PROVE  Embedded(N) \subseteq DefName
<1>1. ASSUME NEW n \in N, NEW i \in DOMAIN Def[n].transitions
      PROVE  Def[n].transitions[i].sub \in DefName \cup {None}
  <2>3. Def[n].transitions[i] \in Transition
    BY DefAssumption DEF Definition
  <2>. QED BY <2>3 DEF Transition
<1>. QED BY <1>1 DEF Embedded

(* Four levels below a definition nothing is embedded.                     *)
LEMMA NestingEnds ==
    ASSUME NEW N, N \subseteq DefName
    PROVE  Embedded(Embedded(Embedded(Embedded(N)))) = {}
<1>. SUFFICES ASSUME NEW x \in Embedded(Embedded(Embedded(Embedded(N)))) PROVE FALSE OBVIOUS
<1>1. PICK a \in Embedded(Embedded(Embedded(N))) : x \in Embedded({a}) BY EmbeddedIn
<1>2. PICK b \in Embedded(Embedded(N)) : a \in Embedded({b}) BY EmbeddedIn
<1>3. PICK k \in Embedded(N) : b \in Embedded({k}) BY EmbeddedIn
<1>4. PICK n \in N : k \in Embedded({n}) BY EmbeddedIn
<1>7. Embedded({a}) \subseteq Embedded(Embedded(Embedded(Embedded({n}))))
  BY <1>2, <1>3, <1>4, EmbeddedMore
<1>. QED
  BY <1>1, <1>7, ValidAssumption DEF checkSubFlowNesting, ValidDefinition

LEMMA TierNames ==
    ASSUME NEW i, NEW n \in Tier(i)
    PROVE  n \in DefName /\ n \in (Root \cup Subs) \cup Inner
<1>1. Root \subseteq DefName BY EngineAssumption
<1>. QED
  BY <1>1, EmbeddedNames DEF Tier, Inner, Subs

(* A sub-flow runs one level below its parent.                             *)
LEMMA TierStep ==
    ASSUME NEW i \in Nat, i >= 1, NEW n \in Tier(i), NEW j \in DOMAIN Def[n].transitions,
           Def[n].transitions[j].type = "sub_flow"
    PROVE  Def[n].transitions[j].sub \in Tier(i + 1)
<1>. DEFINE x == Def[n].transitions[j].sub
<1>1. Root \subseteq DefName BY EngineAssumption
<1>2. Subs \subseteq DefName BY <1>1, EmbeddedNames DEF Subs
<1>3. Embedded(Subs) \subseteq DefName BY <1>2, EmbeddedNames
<1>5. ASSUME NEW N, N \subseteq DefName, n \in N PROVE x \in Embedded(N) BY <1>5, EmbeddedSub
<1>. HIDE DEF x
<1>6. CASE i = 1
  BY <1>1, <1>5, <1>6 DEF Tier, Subs, x
<1>7. CASE i = 2
  BY <1>7, <1>2, <1>5 DEF Tier, Inner, x
<1>8. CASE i > 2
  <2>1. i # 1 /\ i # 2 /\ i + 1 # 1 /\ i + 1 # 2 BY <1>8
  <2>3. n \notin Embedded(Embedded(Subs))
    BY <1>1, NestingEnds, <1>3, EmbeddedNames, <1>5 DEF Subs
  <2>. QED
    BY <2>1, <1>3, <1>5, <2>3 DEF Tier, x, Inner
<1>. QED BY <1>6, <1>7, <1>8

(* What Delivers asks of the definition of an instance at level i.         *)
LEMMA InTier ==
    ASSUME NEW steps, Delivers(steps), NEW i \in Nat, i >= 1, NEW x, x.def \in Tier(i),
           NEW d, d = definitionOf(x)
    PROVE  /\ x.def \in DefName /\ d \in Definition /\ ValidDefinition(x.def)
           /\ NoDeadEnd(d) /\ ErrorsRest(d) /\ RoutesSubFlowErrors(d) /\ ExitsDoNotThrow(d)
           /\ CountsDown(d, steps[x.def]) /\ steps[x.def] \in [State -> Nat]
           /\ i = 1 => FailuresLeave(d)
           /\ i > 2 => \A s \in State : externalsFrom(d, s) = {}
<1>1. x.def \in DefName /\ x.def \in (Root \cup Subs) \cup Inner BY TierNames
<1>2. d = Def[x.def] BY DEF definitionOf
<1>5. i = 1 => FailuresLeave(d) BY <1>2 DEF Tier, Delivers
<1>6. i > 2 => x.def \in Inner BY DEF Tier
<1>. QED
  BY <1>1, <1>2, DefAssumption, ValidAssumption, <1>5, <1>6 DEF Delivers

(* The transitions of a state, by their types.                             *)
LEMMA TypesOfState ==
    ASSUME NEW x \in Instance, NEW d, d = definitionOf(x), NEW s, transitionsFrom(d, s) # {}
    PROVE  \/ ofType(d, s, {"auto", "branch"}) # {}
           \/ ofType(d, s, {"sub_flow"}) # {}
           \/ externalsFrom(d, s) # {}
<1>1. PICK i \in transitionsFrom(d, s) : TRUE OBVIOUS
<1>. QED
  BY DefinitionType DEF ofType, externalsFrom, Transition, transitionsFrom

LEMMA Automatics ==
    ASSUME NEW d, NEW s
    PROVE  /\ ofType(d, s, {"auto", "branch"}) \subseteq ofType(d, s, Automatic)
           /\ ofType(d, s, {"sub_flow"}) \subseteq ofType(d, s, Automatic)
BY DEF ofType, Automatic

(* An open instance in a state where the chain stops waits for an event.   *)
LEMMA StopsWaiting ==
    ASSUME NEW steps, Delivers(steps), NEW i \in Nat, i >= 1,
           NEW x \in Instance, x.def \in Tier(i), NEW d, d = definitionOf(x),
           x.state \in d.states, ~isCompleted(x), ~isTerminal(x),
           ofType(d, x.state, {"auto", "branch"}) = {}, ofType(d, x.state, {"sub_flow"}) = {}
    PROVE  i <= 2 /\ Waiting(x)
<1>1. NoDeadEnd(d) /\ (i > 2 => \A s \in State : externalsFrom(d, s) = {}) BY InTier
<1>. QED
  BY TypesOfState, <1>1 DEF Waiting, waitsForEvent, Instance, NoDeadEnd, isTerminal

(* Where an error leaves an instance, for an error that ends the chain.    *)
LEMMA ErrorTargetState ==
    ASSUME NEW x \in Instance, NEW d, d = definitionOf(x), NEW s \in State, NEW cause,
           ErrorTarget(d, s, cause) # None
    PROVE  ErrorTarget(d, s, cause) \in d.states
<1>. DEFINE M == {i \in DOMAIN d.routes : /\ d.routes[i].from = s
                                          /\ cause # None
                                          /\ <<cause, d.routes[i].class>> \in InstanceOf}
            target == ErrorTarget(d, s, cause)
<1>1. CASE M = {}
  BY <1>1, OwnStates DEF ErrorTarget
<1>2. CASE M # {}
  <2>3. M \subseteq Nat
    BY DefinitionType, LenProperties DEF Definition
  <2>. QED
    BY <2>3, FirstIn, <1>2, OwnStates DEF ErrorTarget
<1>. QED BY <1>1, <1>2

LEMMA ErrorRests ==
    ASSUME NEW steps, Delivers(steps), NEW i \in Nat, i >= 1,
           NEW x \in Instance, x.def \in Tier(i), NEW d, d = definitionOf(x), ~isCompleted(x),
           x.state \in d.states, NEW s \in d.states, NEW cause \in ErrorClass \cup {None},
           cause = None => ofType(d, s, {"sub_flow"}) = {}, now \in Nat,
           NEW y, y = handleError(x, s, cause)
    PROVE  /\ y.def = x.def /\ y.state \in d.states
           /\ \/ y.exit \in d.terminal
              \/ ErrorTarget(d, s, cause) = None /\ y.exit = "TERMINAL_ERROR"
              \/ i <= 2 /\ Waiting(y)
           /\ y \in Instance
<1>. DEFINE to == ErrorTarget(d, s, cause)
<1>1. /\ d \in Definition /\ ErrorsRest(d) BY InTier
<1>2. s \in State BY <1>1 DEF Definition
<1>3. /\ y.def = x.def /\ definitionOf(y) = d
      /\ to = None => y = complete(x, "TERMINAL_ERROR")
      /\ to # None => y.state = to /\ y.exit = IF to \in d.terminal THEN to ELSE x.exit
  BY HandleErrorFields
<1>4. x.exit = None BY DEF isCompleted
<1>5. y \in Instance BY <1>2, <1>4, HandleErrorType DEF Unfinished
<1>6. to # None => to \in d.states BY <1>2, ErrorTargetState
<1>7. \/ to = None \/ to \in d.terminal \/ Quiet(d, to) BY <1>1 DEF ErrorsRest
<1>. HIDE DEF to
<1>8. CASE to = None
  BY <1>3, <1>8, <1>5 DEF complete, Instance, to
<1>9. CASE to # None /\ to \in d.terminal BY <1>3, <1>5, <1>6, <1>9
<1>10. CASE to # None /\ to \notin d.terminal
  BY <1>3, <1>4, <1>6, <1>7, <1>10, Automatics, <1>5, StopsWaiting DEF isCompleted,
     isTerminal, Quiet
<1>. QED BY <1>8, <1>9, <1>10

(* A sub-flow the call has started and that has gone on, or has ended, was *)
(* not left waiting in its initial state.                                  *)
LEMMA FreshMoves ==
    ASSUME NEW x, NEW d, d = definitionOf(x), Fresh(x),
           \/ isCompleted(x) \/ isTerminal(x)
           \/ ofType(d, x.state, {"auto", "branch"}) # {} \/ ofType(d, x.state, {"sub_flow"}) # {}
    PROVE  /\ ~Quiet(d, d.initial)
           /\ \A y : y.def = x.def => Fresh(y)
<1>1. ~Quiet(d, d.initial)
  <2>. SUFFICES ASSUME Quiet(d, d.initial) PROVE FALSE OBVIOUS
  <2>. QED
    BY Automatics DEF Quiet, isTerminal, Fresh
<1>. QED BY <1>1 DEF Fresh, definitionOf

-----------------------------------------------------------------------------
(* Runs.                                                                   *)

LEMMA PathAt ==
    ASSUME NEW ins, Path(ins), NEW i \in DOMAIN ins
    PROVE  /\ ins[i].def \in Tier(i) /\ ins[i].state \in definitionOf(ins[i]).states
           /\ i > 1 => ins[i].def = subFlowOf(ins[i - 1])
BY DEF Path

(* An instance on the path changes: the deepest one, or any that stays in  *)
(* its state.                                                              *)
LEMMA PathPut ==
    ASSUME NEW ins, Path(ins), NEW N \in Nat, DOMAIN ins = 1 .. N, NEW L \in DOMAIN ins,
           NEW y, y.def = ins[L].def, y.state \in definitionOf(y).states,
           L = N \/ y.state = ins[L].state,
           NEW new, DOMAIN new = 1 .. N, new[L] = y,
           \A i \in DOMAIN ins : i # L => new[i] = ins[i]
    PROVE  Path(new)
<1>1. ASSUME NEW i \in DOMAIN new
      PROVE  /\ new[i].def \in Tier(i) /\ new[i].state \in definitionOf(new[i]).states
             /\ i > 1 => new[i].def = subFlowOf(new[i - 1])
  <2>4. ASSUME i > 1 PROVE subFlowOf(new[i - 1]) = subFlowOf(ins[i - 1])
    <3>1. i - 1 \in DOMAIN ins /\ i - 1 # N BY <1>1, <2>4
    <3>2. CASE i - 1 # L BY <3>1, <3>2
    <3>3. CASE i - 1 = L
      BY <3>1, <3>3 DEF subFlowOf, definitionOf
    <3>. QED BY <3>2, <3>3
  <2>. QED
    BY PathAt, <1>1, <2>4
<1>. QED
  BY <1>1 DEF Path

(* The same instances below the current one, and a current one that can    *)
(* stand in its place.                                                     *)
SameBelow(m, n) ==
    /\ n.call.base = m.call.base /\ Len(n.call.depth) = Len(m.call.depth)
    /\ \A j \in 1 .. Len(m.call.depth) - 1 : n.call.depth[j] = m.call.depth[j]

LEMMA NestedReplaced ==
    ASSUME NEW steps, NEW m, Ready(m), Nested(m, steps), Level(m) = Len(m.ins),
           NEW n, NEW y, Replaced(m, n, y), SameBelow(m, n),
           y.def = Current(m).def, y.state \in definitionOf(y).states,
           Level(m) > m.call.base => Fresh(y)
    PROVE  /\ Nested(n, steps) /\ Level(n) = Level(m) /\ Level(n) = Len(n.ins)
           /\ Current(n) = y
<1>. DEFINE L == Level(m)
            D == Len(m.call.depth)
<1>1. /\ L \in Nat /\ L >= 1 /\ L \in DOMAIN m.ins
      /\ DOMAIN m.ins = 1 .. Len(m.ins) /\ Len(m.ins) \in Nat
      /\ D \in Nat /\ D >= 1 /\ L = m.call.base + D - 1
  BY ReadyType DEF Ready, Level
<1>3. Level(n) = L BY DEF SameBelow, Level
<1>4. /\ DOMAIN n.ins = DOMAIN m.ins /\ Len(n.ins) = Len(m.ins) /\ n.ins[L] = y
      /\ \A i \in DOMAIN m.ins : i # L => n.ins[i] = m.ins[i]
  BY DEF Replaced
<1>5. n.call.base = m.call.base /\ \A j \in 1 .. D - 1 : n.call.depth[j] = m.call.depth[j]
  BY DEF SameBelow
<1>. HIDE DEF L, D
<1>8. Path(n.ins)
  BY <1>1, <1>4, PathPut DEF L, Current, Nested
<1>9. ASSUME NEW i \in DOMAIN n.ins
       PROVE  /\ i < L => ~isCompleted(n.ins[i])
              /\ i < L /\ i >= n.call.base => Counted(n, i, steps)
              /\ i > n.call.base /\ i <= L => Fresh(n.ins[i])
  <2>1. /\ i < L => ~isCompleted(m.ins[i])
        /\ i < L /\ i >= m.call.base => Counted(m, i, steps)
        /\ i > m.call.base /\ i <= L => Fresh(m.ins[i])
    BY <1>4, <1>9 DEF Nested, L
  <2>2. i \in Nat /\ i <= L BY <1>1, <1>4 DEF L
  <2>3. CASE i = L BY <1>4, <1>5, <2>2, <2>3 DEF L
  <2>4. CASE i # L
    <3>1. n.ins[i] = m.ins[i] BY <1>4, <2>4
    <3>2. ASSUME i < L, i >= m.call.base PROVE Counted(n, i, steps)
      <4>1. i + 1 - m.call.base \in 1 .. D - 1
        <5>. DEFINE b == m.call.base
        <5>. HIDE DEF b
        <5>. QED
          BY <1>1, <2>2, <3>2 DEF b, Ready, RunType, Frame
      <4>. QED
        BY <1>5, <2>1, <3>1, <3>2, <4>1 DEF Counted
    <3>. QED BY <1>5, <2>1, <3>1, <3>2
  <2>. QED BY <2>3, <2>4
<1>. QED
  BY <1>3, <1>4, <1>8, <1>9 DEF Current, L, Nested

LEMMA SetBelow ==
    ASSUME NEW m, Ready(m), NEW n, n.call = m.call
    PROVE  SameBelow(m, n)
BY DEF SameBelow

LEMMA DeeperBelow ==
    ASSUME NEW m, Ready(m), NEW n, n = deeper(m)
    PROVE  /\ SameBelow(m, n) /\ n.ins = m.ins /\ Level(n) = Level(m) /\ Current(n) = Current(m)
           /\ n.call.depth[Len(m.call.depth)] = m.call.depth[Len(m.call.depth)] + 1
<1>. DEFINE D   == Len(m.call.depth)
            dep == [m.call.depth EXCEPT ![D] = @ + 1]
<1>1. /\ m \in [ins: Seq(Instance), ctx: SUBSET Key, call: Frame]
      /\ m.call.depth \in Seq(Nat) /\ D >= 1
  BY DEF Ready, RunType, Frame
<1>2. DOMAIN m.call.depth = 1 .. D /\ D \in Nat BY <1>1, LenProperties
<1>3. /\ DOMAIN dep = 1 .. D /\ dep[D] = m.call.depth[D] + 1
      /\ \A j \in 1 .. D - 1 : dep[j] = m.call.depth[j]
  <2>. HIDE DEF D
  <2>. QED BY <1>1, <1>2
<1>5. n = [m EXCEPT !.call = [m.call EXCEPT !.depth = dep]] BY <1>1 DEF deeper, Frame
<1>. HIDE DEF dep
<1>6. n.ins = m.ins /\ n.call.base = m.call.base /\ n.call.depth = dep
  <2>. DEFINE k == [m.call EXCEPT !.depth = dep]
  <2>1. k.base = m.call.base /\ k.depth = dep BY <1>1 DEF Frame
  <2>2. n = [m EXCEPT !.call = k] BY <1>5
  <2>. HIDE DEF k
  <2>. QED BY <1>1, <2>1, <2>2
<1>. QED
  BY <1>3, <1>2, <1>6 DEF SameBelow, Current, Level

(* Transition j starts n in the state of x.                                *)
Starts(x, n, j) ==
    /\ j \in DOMAIN definitionOf(x).transitions
    /\ definitionOf(x).transitions[j].type = "sub_flow"
    /\ definitionOf(x).transitions[j].from = x.state
    /\ definitionOf(x).transitions[j].sub = n
    /\ \A e : exitTarget(x, e) = definitionOf(x).transitions[j].exits[e]

(* The state of a parent embeds the sub-flow above it.                     *)
LEMMA ParentEmbeds ==
    ASSUME NEW ins, Path(ins), NEW i \in DOMAIN ins, i > 1, NEW x \in Instance, x = ins[i - 1]
    PROVE  /\ ofType(definitionOf(x), x.state, {"sub_flow"}) # {}
           /\ \E j : Starts(x, ins[i].def, j)
<1>. DEFINE d == definitionOf(x)
            T == ofType(d, x.state, {"sub_flow"})
            j == First(T)
<1>1. ins[i].def = subFlowOf(x) /\ ins[i].def \in Tier(i) BY PathAt
<1>3. T # {} /\ subFlowOf(x) = d.transitions[j].sub
  BY <1>1, TierNames, NamesAssumption DEF subFlowOf
<1>4. /\ j \in DOMAIN d.transitions
      /\ d.transitions[j].from = x.state
      /\ d.transitions[j].type \in {"sub_flow"}
  BY <1>3, FirstOfType
<1>5. \A e : exitTarget(x, e) = d.transitions[j].exits[e] BY <1>3 DEF exitTarget
<1>. HIDE DEF j
<1>6. Starts(x, ins[i].def, j) BY <1>1, <1>3, <1>4, <1>5 DEF Starts
<1>. QED BY <1>3, <1>6

(* Each end of a sub-flow in a terminal state is mapped.                   *)
LEMMA EndsMapped ==
    ASSUME NEW ins, Path(ins), NEW i \in DOMAIN ins, i > 1, NEW x \in Instance, x = ins[i - 1],
           NEW e \in definitionOf(ins[i]).terminal
    PROVE  exitTarget(x, e) # None
<1>. DEFINE d == definitionOf(x)
<1>1. PICK j : Starts(x, ins[i].def, j) BY ParentEmbeds
<1>2. checkSubFlowExitCompleteness(d) BY ValidAssumption DEF ValidDefinition, definitionOf, Instance
<1>3. e \in Def[d.transitions[j].sub].terminal BY <1>1 DEF definitionOf, Starts
<1>. QED BY <1>1, <1>2, <1>3 DEF checkSubFlowExitCompleteness, Starts

(* A run whose chain can take its next turn, and has turns left.           *)
Onward(m, steps) ==
    /\ Ready(m) /\ Nested(m, steps) /\ Level(m) = Len(m.ins) /\ Counted(m, Level(m), steps)
    /\ ~isCompleted(Current(m)) \/ isTerminal(Current(m))

(* The current instance and its definition.                                *)
LEMMA NestedCurrent ==
    ASSUME NEW steps, Delivers(steps), NEW m, Ready(m), Nested(m, steps), NEW x, x = Current(m),
           NEW d, d = definitionOf(x)
    PROVE  /\ x \in Instance /\ x.def \in Tier(Level(m)) /\ x.state \in d.states
           /\ Level(m) \in Nat /\ Level(m) >= 1 /\ Level(m) \in DOMAIN m.ins /\ x = m.ins[Level(m)]
           /\ DOMAIN m.ins = 1 .. Len(m.ins) /\ Len(m.ins) \in Nat
           /\ steps[x.def] \in [State -> Nat] /\ CountsDown(d, steps[x.def])
           /\ Level(m) > m.call.base => Fresh(x)
           /\ m.call.base \in {1, 2}
<1>2. x = m.ins[Level(m)] BY DEF Current
<1>5. m.call.base \in {1, 2} BY DEF Ready, RunType, Frame
<1>. QED
  BY ReadyType, <1>2, PathAt, InTier, <1>5 DEF Nested, Ready

(* The counter of the current chain is the last one.                       *)
LEMMA CountedCurrent ==
    ASSUME NEW steps, NEW m, Ready(m)
    PROVE  Counted(m, Level(m), steps) <=>
             m.call.depth[Len(m.call.depth)] + steps[Current(m).def][Current(m).state] < MaxChainDepth
<1>. DEFINE b == m.call.base
            D == Len(m.call.depth)
<1>1. b \in Nat /\ D \in Nat BY ReadyType DEF Ready, RunType, Frame
<1>2. Level(m) = b + D - 1 BY DEF Level
<1>. HIDE DEF b, D
<1>3. Level(m) + 1 - b = D BY <1>1, <1>2
<1>. QED BY <1>3 DEF Counted, Current, b, D

(* A sub-flow starts one level above.                                      *)
LEMMA StartSubFlowDelivers ==
    ASSUME NEW steps, Delivers(steps), NEW m, Onward(m, steps), now \in Nat,
           ~isTerminal(Current(m)),
           ofType(definitionOf(Current(m)), Current(m).state, {"sub_flow"}) # {},
           NEW n, n = startSubFlow(m)
    PROVE  n.call.pc = "enterSub" /\ Underway(n, steps)
<1>. DEFINE x    == Current(m)
            d    == definitionOf(x)
            L    == Level(m)
            b    == m.call.base
            D    == Len(m.call.depth)
            i    == First(ofType(d, x.state, {"sub_flow"}))
            t    == d.transitions[i]
            pre  == SubSeq(m.ins, 1, L)
            new  == NewInstance(t.sub, now)
            s    == Append(pre, new)
            dep  == Append(m.call.depth, 0)
<1>1. /\ m \in [ins: Seq(Instance), ctx: SUBSET Key, call: Frame]
      /\ m.call.depth \in Seq(Nat) /\ b \in {1, 2} /\ D \in Nat /\ D >= 1 /\ L = b + D - 1
      /\ Ready(m) /\ Nested(m, steps) /\ L = Len(m.ins) /\ Counted(m, L, steps)
  BY DEF Onward, Ready, RunType, Frame, Level
<1>2. /\ x \in Instance /\ x.def \in Tier(L) /\ L \in Nat /\ L >= 1 /\ x = m.ins[L]
      /\ DOMAIN m.ins = 1 .. L
  BY <1>1, NestedCurrent
<1>3. /\ i \in DOMAIN d.transitions /\ t.type = "sub_flow" /\ subFlowOf(x) = t.sub
  BY <1>2, FirstOfType DEF subFlowOf
<1>4. t.sub \in DefName /\ t.sub \in Tier(L + 1)
  <2>. HIDE DEF x, L, i
  <2>. QED
    BY <1>2, <1>3, TierStep, SubFlowAssumption DEF definitionOf, Instance
<1>5. /\ new \in Instance /\ new.def = t.sub /\ ~isCompleted(new)
      /\ new.state = definitionOf(new).initial /\ new.state \in definitionOf(new).states
  <2>1. new.def = t.sub /\ new.state = Def[t.sub].initial /\ new.exit = None BY DEF NewInstance
  <2>3. Def[t.sub].initial \in Def[t.sub].states BY <1>4, ValidAssumption DEF ValidDefinition
  <2>4. new \in Instance BY <1>4, NewInstanceType
  <2>. HIDE DEF new, t
  <2>. QED
    BY <2>1, <2>3, <2>4 DEF isCompleted, definitionOf
<1>6. /\ pre \in Seq(Instance) /\ Len(pre) = L
      /\ \A j \in 1 .. L : pre[j] = m.ins[j]
  <2>. HIDE DEF x, L
  <2>. QED
    BY <1>2, <1>1, SubSeqProperties
<1>7. /\ DOMAIN s = 1 .. L + 1 /\ Len(s) = L + 1 /\ s[L + 1] = new
      /\ \A j \in 1 .. L : s[j] = m.ins[j]
  <2>. HIDE DEF pre, new, L
  <2>. QED
    BY <1>5, AppendProperties, LenProperties, <1>6
<1>8. /\ dep \in Seq(Nat) /\ Len(dep) = D + 1 /\ dep[D + 1] = 0
      /\ \A j \in 1 .. D : dep[j] = m.call.depth[j]
  <2>. HIDE DEF D
  <2>. QED
    BY <1>1, AppendProperties DEF D
<1>9. n = [m EXCEPT !.ins = s, !.call = [m.call EXCEPT !.depth = dep, !.pc = "enterSub"]]
  BY <1>1 DEF startSubFlow, Frame
<1>. HIDE DEF s, dep, new, t, pre
<1>10. /\ n.ins = s /\ n.call.pc = "enterSub" /\ n.call.depth = dep /\ n.call.base = b
  <2>. DEFINE k == [m.call EXCEPT !.depth = dep, !.pc = "enterSub"]
  <2>1. /\ k.pc = "enterSub" /\ k.depth = dep /\ k.base = b BY <1>1 DEF Frame
  <2>2. n = [m EXCEPT !.ins = s, !.call = k] BY <1>9
  <2>. HIDE DEF k, b
  <2>. QED BY <1>1, <2>1, <2>2
<1>11. Level(n) = L + 1
  <2>. HIDE DEF L, b, D
  <2>. QED
    BY <1>1, <1>8, <1>10 DEF Level
<1>12. \A j \in 1 .. L : m.ins[j].def \in Tier(j) BY <1>1, <1>2, PathAt DEF Nested
<1>. HIDE DEF L, b, D, x, i
<1>14. ASSUME NEW j \in 1 .. L + 1
       PROVE  /\ s[j].def \in Tier(j) /\ s[j].state \in definitionOf(s[j]).states
              /\ j > 1 => s[j].def = subFlowOf(s[j - 1])
  <2>1. CASE j \in 1 .. L
    <3>1. /\ m.ins[j].def \in Tier(j) /\ m.ins[j].state \in definitionOf(m.ins[j]).states
          /\ j > 1 => m.ins[j].def = subFlowOf(m.ins[j - 1])
      BY <1>1, <1>2, <2>1, PathAt DEF Nested
    <3>. QED
      BY <1>7, <2>1, <3>1, <1>2
  <2>2. CASE j = L + 1
    <3>. QED
      BY <1>3, <1>4, <1>5, <2>2, <1>2, <1>7
  <2>. QED
    BY <2>1, <2>2, <1>2
<1>16. ASSUME NEW j \in 1 .. L + 1
       PROVE  /\ j < L + 1 => ~isCompleted(s[j])
              /\ j < L + 1 /\ j >= b => Counted(n, j, steps)
              /\ j > b /\ j <= L + 1 => Fresh(s[j])
  <2>1. CASE j = L + 1
    BY <1>5, <1>2, <1>7, <2>1 DEF Fresh
  <2>2. CASE j # L + 1
    <3>1. j \in 1 .. L /\ s[j] = m.ins[j] BY <1>2, <1>7, <2>2
    <3>2. /\ j < L => ~isCompleted(m.ins[j])
          /\ j < L /\ j >= b => Counted(m, j, steps)
          /\ j > b /\ j <= L => Fresh(m.ins[j])
      BY <1>1, <1>2, <3>1 DEF Nested, L, b
    <3>5. j >= b => Counted(n, j, steps)
      <4>. SUFFICES ASSUME j >= b PROVE Counted(n, j, steps) OBVIOUS
      <4>1. j + 1 - b \in 1 .. D BY <1>1, <1>2, <3>1
      <4>2. dep[j + 1 - b] = m.call.depth[j + 1 - b] BY <1>8, <4>1
      <4>3. Counted(m, j, steps)
        BY <1>1, <1>2, <3>1, <3>2
      <4>. QED BY <1>7, <1>10, <3>1, <4>2, <4>3 DEF Counted, b
    <3>. QED
      BY <3>1, <1>1, NestedCurrent, <3>5, <1>2, <3>2 DEF Onward
  <2>. QED BY <2>1, <2>2
<1>17. Nested(n, steps)
  BY <1>7, <1>10, <1>11, <1>2, <1>14, <1>16 DEF Nested, Path
<1>19. Counted(n, Level(n), steps)
  <2>2. n.call.depth[L + 1 + 1 - n.call.base] = 0
    BY <1>8, <1>10, <1>1, <1>2
  <2>3. steps[new.def][new.state] < MaxChainDepth /\ steps[new.def][new.state] \in Nat
    <3>2. steps[new.def] \in [State -> Nat] /\ CountsDown(definitionOf(new), steps[new.def])
      BY <1>4, <1>5, <1>2, InTier
    <3>. QED
      BY <1>5, <3>2 DEF CountsDown, Instance
  <2>. QED
    BY <1>7, <1>10, <1>11, <2>2, <2>3 DEF Counted
<1>. QED
  BY <1>5, <1>10, <1>17, <1>7, <1>11, <1>19 DEF Underway, Current

(* The chain ends with the current instance completed in a terminal state  *)
(* or by an error the parent has a route for, or with one that waits.      *)
LEMMA ChainEnds ==
    ASSUME NEW steps, Delivers(steps), NEW m, Ready(m), Nested(m, steps), Level(m) = Len(m.ins),
           NEW y \in Instance, NEW n, Replaced(m, n, y), SameBelow(m, n), n.call.pc = "chainEnd",
           y.def = Current(m).def, y.state \in definitionOf(y).states,
           Level(m) > m.call.base => Fresh(y),
           \/ isCompleted(y) /\ (m.call.base = 2 /\ Len(m.call.depth) = 1 =>
                                    exitTarget(m.ins[1], y.exit) # None)
           \/ ~isCompleted(y) /\ Level(m) <= 2 /\ Waiting(y)
    PROVE  Underway(n, steps)
<1>3. m.call.base = 2 /\ Len(m.call.depth) = 1 => n.ins[1] = m.ins[1]
  <2>. SUFFICES ASSUME m.call.base = 2, Len(m.call.depth) = 1 PROVE n.ins[1] = m.ins[1] OBVIOUS
  <2>1. Level(m) = 2 BY DEF Level
  <2>. QED BY <2>1, ReplacedFields
<1>. QED
  BY NestedReplaced, <1>3 DEF Underway, Ended, SameBelow

(* One turn of the auto-chain is not cut off.                              *)
LEMMA LoopDelivers ==
    ASSUME NEW steps, Delivers(steps), NEW m, Onward(m, steps), now \in Nat, NEW n, n = loop(m)
    PROVE  n.call.pc # "idle" /\ Underway(n, steps)
<1>. DEFINE x     == Current(m)
            d     == definitionOf(x)
            L     == Level(m)
            turns == ofType(d, x.state, {"auto", "branch"})
            dep   == m.call.depth[Len(m.call.depth)]
<1>1. /\ Ready(m) /\ Nested(m, steps) /\ L = Len(m.ins)
      /\ ~isCompleted(x) \/ isTerminal(x)
  BY DEF Onward
<1>2. /\ x \in Instance /\ x.def \in Tier(L) /\ L \in Nat /\ L >= 1 /\ x = m.ins[L]
      /\ DOMAIN m.ins = 1 .. L /\ x.state \in d.states
      /\ steps[x.def] \in [State -> Nat]
      /\ L > m.call.base => Fresh(x)
  BY <1>1, NestedCurrent
<1>3. /\ m \in [ins: Seq(Instance), ctx: SUBSET Key, call: Frame] /\ dep \in Nat
      /\ m.call.base \in {1, 2}
  BY <1>1, ReadyType DEF Ready, RunType, Frame
<1>4. ~(dep >= MaxChainDepth)
  <2>1. dep + steps[x.def][x.state] < MaxChainDepth BY CountedCurrent DEF Onward
  <2>2. steps[x.def][x.state] \in Nat /\ MaxChainDepth \in Nat
    BY <1>2, EngineAssumption DEF Instance
  <2>. HIDE DEF dep, x
  <2>. QED BY <1>3, <2>1, <2>2
<1>5. CASE isTerminal(x)
  <2>. DEFINE y == complete(x, x.state)
              k == setCurrent(m, y)
  <2>1. n = [k EXCEPT !.call.pc = "chainEnd"] BY <1>4, <1>5 DEF loop
  <2>2. /\ y \in Instance /\ y.def = x.def /\ y.state = x.state /\ y.exit = x.state
        /\ isCompleted(y) /\ definitionOf(y) = d
    BY <1>2, NamesAssumption DEF Instance, complete, Exit, isCompleted, definitionOf
  <2>. HIDE DEF y
  <2>3. Replaced(m, k, y) /\ k.call = m.call /\ Level(k) = L /\ DOMAIN k = {"ins", "ctx", "call"}
    BY <1>1, SetReplaces
  <2>. HIDE DEF k
  <2>4. n.ins = k.ins /\ n.call = [m.call EXCEPT !.pc = "chainEnd"] BY <2>1, <2>3
  <2>5. n.call.pc = "chainEnd" /\ n.call.base = m.call.base /\ n.call.depth = m.call.depth
    BY <1>3, <2>4 DEF Frame
  <2>6. Replaced(m, n, y) /\ SameBelow(m, n) BY <2>3, <2>4, <2>5 DEF Replaced, SameBelow
  <2>7. L > m.call.base => Fresh(y) BY <1>2, <1>5, <2>2, FreshMoves
  <2>8. m.call.base = 2 /\ Len(m.call.depth) = 1 => exitTarget(m.ins[1], y.exit) # None
    <3>. SUFFICES ASSUME m.call.base = 2, Len(m.call.depth) = 1
                  PROVE  exitTarget(m.ins[1], y.exit) # None
      OBVIOUS
    <3>1. L = 2 BY DEF Level
    <3>2. 2 \in DOMAIN m.ins /\ 2 > 1 /\ 2 - 1 = 1 /\ m.ins[2] = x BY <1>2, <3>1
    <3>3. m.ins[1] \in Instance BY <1>1, <1>2, <3>1, ReadyType
    <3>4. y.exit \in definitionOf(m.ins[2]).terminal BY <1>5, <2>2, <3>2 DEF isTerminal
    <3>. QED
      BY <1>1, <3>2, <3>3, <3>4, EndsMapped DEF Nested
  <2>. QED
    BY <1>1, <2>2, <2>5, <2>6, <2>7, <2>8, <1>2, ChainEnds
<1>6. CASE ~isTerminal(x) /\ ofType(d, x.state, {"sub_flow"}) # {}
  BY <1>4, <1>6, StartSubFlowDelivers DEF loop
<1>7. CASE ~isTerminal(x) /\ ofType(d, x.state, {"sub_flow"}) = {} /\ turns # {}
  <2>. DEFINE i == First(turns)
              p == IF d.transitions[i].type = "auto" THEN "auto" ELSE "decide"
  <2>1. n = [m EXCEPT !.call.t = i, !.call.backup = m.ctx, !.call.pc = p] BY <1>4, <1>7 DEF loop
  <2>. HIDE DEF i, p
  <2>2. /\ n.ins = m.ins /\ n.call = [m.call EXCEPT !.t = i, !.backup = m.ctx, !.pc = p]
    BY <1>3, <2>1 DEF Frame
  <2>3. n.call.pc = p /\ n.call.base = m.call.base /\ n.call.depth = m.call.depth
    BY <1>3, <2>2 DEF Frame
  <2>4. Level(n) = L /\ Current(n) = x BY <2>2, <2>3 DEF Level, Current
  <2>5. \A j \in DOMAIN m.ins : Counted(m, j, steps) => Counted(n, j, steps)
    BY <2>2, <2>3 DEF Counted
  <2>6. Nested(n, steps) BY <1>1, <2>2, <2>3, <2>4, <2>5 DEF Nested
  <2>7. Counted(n, Level(n), steps) BY <1>2, <2>4, <2>5 DEF Onward
  <2>8. p \in {"auto", "decide"} BY DEF p
  <2>. QED BY <1>1, <1>7, <2>2, <2>3, <2>4, <2>6, <2>7, <2>8 DEF Underway
<1>8. CASE ~isTerminal(x) /\ ofType(d, x.state, {"sub_flow"}) = {} /\ turns = {}
  <2>2. /\ n.ins = m.ins /\ n.call = [m.call EXCEPT !.pc = "chainEnd"]
    BY <1>3, <1>4, <1>8 DEF Frame, loop
  <2>3. n.call.pc = "chainEnd" /\ n.call.base = m.call.base /\ n.call.depth = m.call.depth
    BY <1>3, <2>2 DEF Frame
  <2>5. ~isCompleted(x) /\ L <= 2 /\ Waiting(x) BY <1>1, <1>2, <1>8, StopsWaiting
  <2>. QED
    BY <1>1, <1>2, <2>3, <2>2, <2>5, ChainEnds DEF Replaced, SameBelow
<1>. QED BY <1>5, <1>6, <1>7, <1>8


-----------------------------------------------------------------------------
(* How the current instance changes.                                       *)

(* The chain goes on from the state of y.                                  *)
LEMMA GoesOn ==
    ASSUME NEW steps, Delivers(steps), NEW m, Ready(m), Nested(m, steps), Level(m) = Len(m.ins),
           NEW y \in Instance, ExitOK(y), y.def = Current(m).def,
           y.state \in definitionOf(y).states, ~isCompleted(y) \/ isTerminal(y),
           Level(m) > m.call.base => Fresh(y),
           NEW counted \in BOOLEAN,
           IF counted
           THEN m.call.depth[Len(m.call.depth)] + 1 + steps[y.def][y.state] < MaxChainDepth
           ELSE m.call.depth[Len(m.call.depth)] + steps[y.def][y.state] < MaxChainDepth,
           NEW k, k = setCurrent(m, y), NEW n, n = IF counted THEN deeper(k) ELSE k
    PROVE  Onward(n, steps)
<1>1. /\ Ready(k) /\ Current(k) = y /\ Level(k) = Level(m) /\ k.call = m.call BY SetCurrentType
<1>2. Replaced(m, k, y) BY SetReplaces
<1>5. CASE counted
  <2>1. /\ SameBelow(k, n) /\ n.ins = k.ins /\ Level(n) = Level(k) /\ Current(n) = y
        /\ n.call.depth[Len(k.call.depth)] = k.call.depth[Len(k.call.depth)] + 1
    BY <1>1, <1>5, DeeperBelow
  <2>2. Ready(n) BY <1>1, <1>5, DeeperReady
  <2>3. SameBelow(m, n) BY <1>1, <2>1 DEF SameBelow
  <2>7. Counted(n, Level(n), steps)
    BY <1>5, <2>1, <2>2, <1>1, <2>3, CountedCurrent DEF SameBelow
  <2>. QED
    BY <2>1, <2>2, <2>3, <1>2, NestedReplaced, <2>7 DEF Onward, Replaced
<1>6. CASE ~counted
  BY <1>6, <1>1, CountedCurrent, <1>2, SetBelow, NestedReplaced DEF Onward
<1>. QED BY <1>5, <1>6

(* A transition of an open instance leads to a state to.                   *)
LEMMA MovesOn ==
    ASSUME NEW steps, Delivers(steps), NEW m, Ready(m), Nested(m, steps), Level(m) = Len(m.ins),
           now \in Nat, ~isCompleted(Current(m)), NEW to \in definitionOf(Current(m)).states,
           \/ Level(m) = m.call.base
           \/ ~Quiet(definitionOf(Current(m)), definitionOf(Current(m)).initial),
           NEW counted \in BOOLEAN,
           IF counted
           THEN m.call.depth[Len(m.call.depth)] + 1 + steps[Current(m).def][to] < MaxChainDepth
           ELSE m.call.depth[Len(m.call.depth)] + steps[Current(m).def][to] < MaxChainDepth,
           NEW k, k = setCurrent(m, moveTo(Current(m), to, "ok")),
           NEW n, n = IF counted THEN deeper(k) ELSE k
    PROVE  Onward(n, steps)
<1>. DEFINE x == Current(m)
            y == moveTo(x, to, "ok")
<1>1. x \in Instance /\ x.def \in Tier(Level(m)) /\ Level(m) \in Nat /\ Level(m) >= 1
  BY NestedCurrent
<1>3. /\ y \in Instance /\ y.def = x.def /\ y.exit = None /\ y.state = to
      /\ definitionOf(y) = definitionOf(x)
  <2>1. y \in Instance /\ y.def = x.def /\ y.exit = x.exit
    BY <1>1, InTier, MoveToType DEF Definition
  <2>2. y.state = to BY <1>1, MoveState
  <2>3. x.exit = None BY DEF isCompleted
  <2>. HIDE DEF x, y
  <2>. QED BY <2>1, <2>2, <2>3 DEF definitionOf
<1>5. Level(m) > m.call.base => Fresh(y)
  BY NestedCurrent, <1>3 DEF Fresh
<1>. HIDE DEF x, y
<1>. QED
  BY <1>3, <1>5, GoesOn DEF x, y, isCompleted, ExitOK, Unfinished

-----------------------------------------------------------------------------
(* Steps.                                                                  *)

(* What a step leaves: a flow at rest, or a call under way.                *)
Delivered(m, steps) ==
    IF m.call.pc = "idle" THEN Resting(m.ins) ELSE Underway(m, steps)

LEMMA UnderwaySame ==
    ASSUME NEW steps, NEW m, Underway(m, steps), NEW n, n.ins = m.ins, n.call = m.call
    PROVE  Underway(n, steps)
<1>1. Level(n) = Level(m) /\ Current(n) = Current(m) BY DEF Level, Current
<1>. QED
  BY <1>1 DEF Underway, Nested, Counted, Ended

LEMMA CommitDelivers ==
    ASSUME IndInv, NEW steps, DeliverInv(steps), NEW c \in Call, NEW f \in Flow, NEW m,
           \A b \in Call : b # c => calls[b].flow # f, calls[c].flow \in {f, None},
           Delivered(m, steps),
           m.call.pc # "idle" => m.call.flow = f, m.call.pc = "idle" => m.call.flow = None,
           inst' = [inst EXCEPT ![f] = m.ins],
           context' = [context EXCEPT ![f] = m.ctx],
           calls' = [calls EXCEPT ![c] = m.call]
    PROVE  DeliverInv(steps)'
<1>. DEFINE n == [ins |-> m.ins, ctx |-> m.ctx, call |-> m.call]
<1>1. Written(c, f, m) BY CommitRun
<1>2. ASSUME NEW g \in Flow, Started(g)', ~Busy(g)' PROVE Resting(inst'[g])
  <2>1. \A b \in Call : calls'[b].flow # g BY <1>2 DEF Busy
  <2>2. CASE g = f BY <1>1, <2>1, <2>2 DEF Delivered, Written
  <2>3. CASE g # f
    BY <1>1, <1>2, <2>3, EngineAssumption, <2>1 DEF Started, Written, Busy, DeliverInv
  <2>. QED BY <2>2, <2>3
<1>3. ASSUME NEW b \in Call, calls'[b].pc # "idle" PROVE Underway(Run(b), steps)'
  <2>1. CASE b = c
    <3>1. Underway(m, steps) /\ Run(b)' = n BY <1>1, <1>3, <2>1 DEF Delivered, Written
    <3>2. n.ins = m.ins /\ n.call = m.call OBVIOUS
    <3>. HIDE DEF n
    <3>3. Underway(n, steps) BY <3>1, <3>2, UnderwaySame
    <3>. QED BY <3>1, <3>3
  <2>2. CASE b # c
    BY <1>1, <1>3, <2>2 DEF DeliverInv, Written
  <2>. QED BY <2>1, <2>2
<1>. QED BY <1>2, <1>3 DEF DeliverInv

LEMMA StepDelivers ==
    ASSUME IndInv, IndInv', NEW steps, DeliverInv(steps), NEW c \in Call, calls[c].pc # "idle",
           NEW m, Delivered(m, steps), m.call.pc # "idle" => m.call.flow = calls[c].flow, Step(c, m)
    PROVE  DeliverInv(steps)'
<1>. DEFINE f == calls[c].flow
<1>1. /\ f \in Flow
      /\ \A b \in Call : b # c => calls[b].flow # f
  BY RunOfCall
<1>2. /\ inst' = [inst EXCEPT ![f] = m.ins]
      /\ context' = [context EXCEPT ![f] = m.ctx]
      /\ calls' = [calls EXCEPT ![c] = m.call]
  BY Zenon DEF Step, Commit
<1>3. /\ m.call.pc # "idle" => m.call.flow = f
      /\ m.call.pc = "idle" => m.call.flow = None
  BY <1>2 DEF IndInv
<1>4. calls[c].flow \in {f, None} OBVIOUS
<1>. HIDE DEF f
<1>. QED BY <1>1, <1>2, <1>3, <1>4, CommitDelivers

(* The next turn of a chain.                                               *)
LEMMA TurnDelivers ==
    ASSUME IndInv, IndInv', NEW steps, Delivers(steps), DeliverInv(steps), NEW c \in Call,
           calls[c].pc # "idle", NEW m, Onward(m, steps), m.call.flow = calls[c].flow,
           Step(c, loop(m))
    PROVE  DeliverInv(steps)'
<1>1. now \in Nat /\ Ready(m) BY DEF IndInv, Onward
<1>. QED
  BY <1>1, LoopDelivers, LoopInv, StepDelivers DEF Delivered, RunInv

(* A call of the model, under way.                                         *)
LEMMA RunDelivers ==
    ASSUME IndInv, LifeInv, NEW steps, Delivers(steps), DeliverInv(steps), NEW c \in Call,
           calls[c].pc # "idle"
    PROVE  /\ Ready(Run(c)) /\ Nested(Run(c), steps) /\ Underway(Run(c), steps)
           /\ now \in Nat /\ Run(c).call = calls[c] /\ DOMAIN Run(c) = {"ins", "ctx", "call"}
BY RunLife DEF DeliverInv, Underway

-----------------------------------------------------------------------------
(* A transition or a branch of a chain.                                    *)

InStep(m, steps) ==
    /\ Working(m) /\ Nested(m, steps) /\ Level(m) = Len(m.ins) /\ Counted(m, Level(m), steps)
    /\ ~isCompleted(Current(m)) /\ Chosen(m).from = Current(m).state
    /\ Chosen(m).type \in {"auto", "branch"}

LEMMA InStepFields ==
    ASSUME NEW steps, Delivers(steps), NEW m, InStep(m, steps)
    PROVE  /\ Ready(m) /\ ofType(definitionOf(Current(m)), Current(m).state, {"auto", "branch"}) # {}
           /\ Level(m) = m.call.base \/ Level(m) > m.call.base
           /\ Level(m) > m.call.base => /\ ~Quiet(definitionOf(Current(m)), definitionOf(Current(m)).initial)
                                        /\ \A y : y.def = Current(m).def => Fresh(y)
<1>. DEFINE x == Current(m)
            d == definitionOf(x)
<1>1. Working(m) /\ Ready(m) /\ Nested(m, steps) BY DEF InStep, Working
<1>2. m.call.t \in ofType(d, x.state, {"auto", "branch"})
  BY DEF InStep, Working, Chosen, ofType, transitionsFrom
<1>3. Level(m) = m.call.base \/ Level(m) > m.call.base
  <2>. DEFINE b == m.call.base
              D == Len(m.call.depth)
  <2>. HIDE DEF b, D
  <2>. QED
    BY <1>1, ReadyType DEF b, Ready, RunType, Frame, Level
<1>4. Level(m) > m.call.base => Fresh(x) BY <1>1, NestedCurrent
<1>. HIDE DEF x
<1>5. Level(m) > m.call.base => ~Quiet(d, d.initial) /\ \A y : y.def = x.def => Fresh(y)
  BY <1>2, <1>4, FreshMoves
<1>. QED BY <1>1, <1>2, <1>3, <1>5 DEF x

(* A state with a route has somewhere to go.                               *)
LEMMA RouteLeads ==
    ASSUME NEW x \in Instance, NEW d, d = definitionOf(x), NEW s \in State, NEW cause,
           d.onError[s] # None
    PROVE  ErrorTarget(d, s, cause) # None
<1>. DEFINE M == {i \in DOMAIN d.routes : /\ d.routes[i].from = s
                                          /\ cause # None
                                          /\ <<cause, d.routes[i].class>> \in InstanceOf}
<1>1. CASE M = {} BY <1>1 DEF ErrorTarget
<1>2. CASE M # {}
  <2>1. d.routes \in Seq([from: State, class: ErrorClass, to: State])
    BY DefinitionType DEF Definition
  <2>3. M \subseteq Nat
    BY <2>1, LenProperties
  <2>6. \A i \in DOMAIN d.routes : d.routes[i].to \in State
    <3>. DEFINE R == [from: State, class: ErrorClass, to: State]
                r == d.routes
    <3>1. \A z \in R : z.to \in State OBVIOUS
    <3>2. r \in Seq(R) BY <2>1
    <3>. HIDE DEF R, r
    <3>3. \A i \in DOMAIN r : r[i] \in R BY <3>2
    <3>. QED BY <3>1, <3>3 DEF r
  <2>7. First(M) \in DOMAIN d.routes
    BY <1>2, <2>3, FirstIn
  <2>. QED
    BY <1>2, <2>6, <2>7, NamesAssumption DEF ErrorTarget
<1>. QED BY <1>1, <1>2

(* A failed step: k is the run when its error is caught.                   *)
Tripped(m, k) ==
    /\ Ready(k) /\ k.call = m.call /\ Replaced(m, k, Current(k)) /\ Level(k) = Level(m)
    /\ Current(k) \in Instance /\ Current(k).def = Current(m).def
    /\ ~isCompleted(Current(k))
    /\ \/ Current(k).state = Current(m).state
       \/ Current(k).state \in definitionOf(Current(k)).states \cap definitionOf(Current(k)).enterActions

LEMMA NotTripped ==
    ASSUME NEW m, Ready(m), ~isCompleted(Current(m))
    PROVE  Tripped(m, m)
BY ReadyType DEF Tripped, Replaced, Current

LEMMA Trips ==
    ASSUME NEW m, Working(m), ~isCompleted(Current(m)), now \in Nat,
           NEW to, to = Chosen(m).to, NEW o \in Throwing(Current(m), to),
           NEW k, k = setCurrent(m, moveTo(Current(m), to, o))
    PROVE  Tripped(m, k)
<1>. DEFINE x == Current(m)
            d == definitionOf(x)
            u == moveTo(x, to, o)
<1>1. Ready(m) /\ x \in Instance /\ to \in State /\ to \in d.states
  BY ReadyType, WorkingChosen, OwnStates DEF Working, Chosen
<1>2. o = "exit" \/ (o = "enter" /\ to \in d.enterActions) BY DEF Throwing
<1>3. o \in {"ok", "enter", "exit"} BY <1>2
<1>4. u \in Instance /\ u.def = x.def /\ u.exit = x.exit BY <1>1, <1>3, MoveToType
<1>5. u.state = IF o = "exit" THEN x.state ELSE to BY <1>1, <1>3, MoveState
<1>6. Ready(k) BY <1>1, <1>3, MoveReady DEF Working
<1>. HIDE DEF u
<1>7. Replaced(m, k, u) /\ k.call = m.call /\ Level(k) = Level(m) BY <1>1, SetReplaces DEF u
<1>8. Current(k) = u BY <1>7 DEF Replaced, Current
<1>9. definitionOf(u) = d /\ ~isCompleted(u) BY <1>4 DEF definitionOf, isCompleted
<1>. QED BY <1>1, <1>2, <1>4, <1>5, <1>6, <1>7, <1>8, <1>9 DEF Tripped

(* The current instance after the error, and the run.                      *)
LEMMA FailsAt ==
    ASSUME NEW steps, Delivers(steps), NEW m, Ready(m), Nested(m, steps), Level(m) = Len(m.ins),
           NEW k, Tripped(m, k), NEW s \in definitionOf(Current(m)).states, NEW cause \in ErrorClass,
           now \in Nat, NEW y, y = handleError(Current(k), s, cause),
           NEW n, n.ins = setCurrent(k, y).ins
    PROVE  /\ Replaced(m, n, y) /\ y \in Instance /\ y.def = Current(m).def
           /\ y.state \in definitionOf(y).states /\ definitionOf(y) = definitionOf(Current(m))
           /\ \/ isCompleted(y) /\ y.exit \in definitionOf(y).terminal
              \/ isCompleted(y) /\ ErrorTarget(definitionOf(y), s, cause) = None /\ y.exit = "TERMINAL_ERROR"
              \/ ~isCompleted(y) /\ Level(m) <= 2 /\ Waiting(y)
<1>. DEFINE x == Current(m)
            d == definitionOf(x)
            u == Current(k)
            l == setCurrent(k, y)
            L == Level(m)
<1>1. /\ x.def \in Tier(L) /\ L \in Nat /\ L >= 1 /\ x.state \in d.states /\ x \in Instance
  BY NestedCurrent
<1>3. /\ u \in Instance /\ u.def = x.def /\ ~isCompleted(u) /\ Ready(k) /\ Replaced(m, k, u)
      /\ Level(k) = L
  BY DEF Tripped
<1>4. definitionOf(u) = d /\ u.state \in d.states BY <1>1, <1>3 DEF Tripped, definitionOf
<1>. HIDE DEF x, u, L
<1>6. s \in d.states BY DEF x
<1>7. y = handleError(u, s, cause) BY DEF u
<1>8. /\ y.def = u.def /\ y.state \in d.states /\ y \in Instance
      /\ \/ y.exit \in d.terminal
         \/ ErrorTarget(d, s, cause) = None /\ y.exit = "TERMINAL_ERROR"
         \/ L <= 2 /\ Waiting(y)
  <2>. HIDE DEF d
  <2>. QED
    BY <1>1, <1>3, <1>4, NamesAssumption, <1>6, <1>7, ErrorRests
<1>10. /\ y.exit \in d.terminal => isCompleted(y)
       /\ y.exit = "TERMINAL_ERROR" => isCompleted(y)
       /\ Waiting(y) => ~isCompleted(y)
  BY <1>1, InTier, NamesAssumption DEF Definition, Exit, ExitCode, isCompleted, Waiting
<1>11. Replaced(k, l, y) BY <1>3, SetReplaces
<1>12. Replaced(m, l, y)
  <2>1. Level(k) = Level(m) BY <1>3 DEF L
  <2>. HIDE DEF l
  <2>. QED BY <1>3, <1>11, <2>1, ReplacedTwice
<1>13. Replaced(m, n, y) BY <1>12 DEF Replaced
<1>. QED
  BY <1>3, <1>8, <1>10, <1>13 DEF x, L, definitionOf

(* The catch block of the chain: its end is an exit the parent maps.       *)
LEMMA FailStepDelivers ==
    ASSUME NEW steps, Delivers(steps), NEW m, InStep(m, steps), now \in Nat,
           NEW k, Tripped(m, k), NEW cause \in ErrorClass, NEW n, n = failStep(k, cause)
    PROVE  n.call.pc # "idle" /\ Underway(n, steps)
<1>. DEFINE x == Current(m)
            d == definitionOf(x)
            u == Current(k)
            y == handleError(u, u.state, cause)
            l == setCurrent(k, y)
<1>1. /\ Ready(m) /\ Nested(m, steps) /\ Level(m) = Len(m.ins)
      /\ ofType(d, x.state, {"auto", "branch"}) # {}
      /\ Level(m) > m.call.base => \A z : z.def = x.def => Fresh(z)
  BY InStepFields DEF InStep
<1>2. /\ Ready(k) /\ k.call = m.call /\ u \in Instance /\ u.def = x.def /\ definitionOf(u) = d
      /\ u.state = x.state \/ u.state \in d.states \cap d.enterActions
  BY DEF Tripped, definitionOf
<1>3. u.state \in d.states BY <1>1, <1>2, NestedCurrent
<1>4. l.call = m.call /\ l.call \in Frame /\ DOMAIN l = {"ins", "ctx", "call"} BY <1>2, SetReplaces
<1>5. n = [l EXCEPT !.ctx = k.call.backup, !.call.pc = "chainEnd"] BY DEF failStep
<1>6. /\ n.ins = l.ins /\ n.call.pc = "chainEnd"
      /\ n.call.base = m.call.base /\ n.call.depth = m.call.depth
  <2>. HIDE DEF l
  <2>. QED BY <1>4, <1>5 DEF Frame
<1>. HIDE DEF y
<1>8. /\ Replaced(m, n, y) /\ y \in Instance /\ y.def = x.def
      /\ y.state \in definitionOf(y).states /\ definitionOf(y) = d
      /\ \/ isCompleted(y) /\ y.exit \in d.terminal
         \/ isCompleted(y) /\ ErrorTarget(d, u.state, cause) = None /\ y.exit = "TERMINAL_ERROR"
         \/ ~isCompleted(y) /\ Level(m) <= 2 /\ Waiting(y)
  <2>2. y = handleError(Current(k), u.state, cause) BY DEF y
  <2>. HIDE DEF u
  <2>3. /\ Replaced(m, n, y) /\ y \in Instance /\ y.def = Current(m).def
        /\ y.state \in definitionOf(y).states /\ definitionOf(y) = definitionOf(Current(m))
        /\ \/ isCompleted(y) /\ y.exit \in definitionOf(y).terminal
           \/ isCompleted(y) /\ ErrorTarget(definitionOf(y), u.state, cause) = None /\ y.exit = "TERMINAL_ERROR"
           \/ ~isCompleted(y) /\ Level(m) <= 2 /\ Waiting(y)
    BY <1>1, <1>6, <1>3, <2>2, FailsAt
  <2>. QED BY <2>3
<1>10. ASSUME m.call.base = 2, Len(m.call.depth) = 1, isCompleted(y)
       PROVE  exitTarget(m.ins[1], y.exit) # None
  <2>1. Level(m) = 2 BY <1>10 DEF Level
  <2>2. 2 \in DOMAIN m.ins /\ 2 > 1 /\ 2 - 1 = 1 /\ m.ins[2] = x /\ 1 \in DOMAIN m.ins
    BY <1>1, <2>1, NestedCurrent
  <2>3. m.ins[1] \in Instance /\ m.ins[1] = m.ins[2 - 1] /\ Path(m.ins)
    BY <1>1, <2>2, ReadyType DEF Nested
  <2>4. CASE y.exit \in d.terminal BY <2>2, <2>3, <2>4, EndsMapped
  <2>5. CASE ErrorTarget(d, u.state, cause) = None /\ y.exit = "TERMINAL_ERROR"
    <3>1. PICK j : Starts(m.ins[1], x.def, j) BY <2>2, <2>3, ParentEmbeds
    <3>2. FailuresLeave(definitionOf(m.ins[1]))
      BY <2>2, <2>3, PathAt, InTier
    <3>3. ~RoutesErrors(d)
      BY <1>2, <2>5, RouteLeads, <1>1, <1>3 DEF Instance, RoutesErrors
    <3>. QED BY <2>5, <3>1, <3>2, <3>3 DEF FailuresLeave, Starts, definitionOf
  <2>. QED BY <1>8, <1>10, <2>4, <2>5
<1>. HIDE DEF x, d, u
<1>11. Underway(n, steps)
  BY <1>1, <1>6, <1>8, <1>10, ChainEnds DEF x, SameBelow
<1>. QED BY <1>6, <1>11

LEMMA StepToDelivers ==
    ASSUME IndInv, IndInv', NEW steps, Delivers(steps), DeliverInv(steps), NEW c \in Call,
           calls[c].pc # "idle", NEW m, InStep(m, steps), m.call.flow = calls[c].flow,
           StepTo(c, m, Chosen(m).to)
    PROVE  DeliverInv(steps)'
<1>. DEFINE to == Chosen(m).to
            x  == Current(m)
            d  == definitionOf(x)
            D  == Len(m.call.depth)
<1>1. /\ now \in Nat /\ Working(m) /\ Ready(m) /\ Nested(m, steps) /\ Level(m) = Len(m.ins)
      /\ ~isCompleted(x)
  BY InStepFields DEF IndInv, InStep
<1>2. CASE Step(c, loop(deeper(setCurrent(m, moveTo(x, to, "ok")))))
  <2>. DEFINE k == setCurrent(m, moveTo(x, to, "ok"))
              n == deeper(k)
  <2>1. /\ x \in Instance /\ steps[x.def] \in [State -> Nat] /\ CountsDown(d, steps[x.def])
    BY <1>1, NestedCurrent
  <2>2. to \in d.states /\ to \in State BY <1>1, <2>1, OwnStates, WorkingChosen DEF Working, Chosen
  <2>3. steps[x.def][to] < steps[x.def][x.state]
    BY <1>1, <2>1 DEF CountsDown, InStep, Working, Chosen
  <2>4. m.call.depth[D] + 1 + steps[x.def][to] < MaxChainDepth
    <3>2. m.call.depth[D] \in Nat /\ steps[x.def][to] \in Nat /\ steps[x.def][x.state] \in Nat
      BY <1>1, <2>1, <2>2, ReadyType DEF Instance
    <3>4. \A a, p, q, r \in Nat : a + p < r /\ q < p => a + 1 + q < r OBVIOUS
    <3>. QED
      BY <2>3, <1>1, CountedCurrent, <3>2, EngineAssumption, <3>4 DEF InStep
  <2>6. Onward(n, steps)
    BY <1>1, <2>2, <2>4, InStepFields, MovesOn
  <2>7. n.call.flow = calls[c].flow
    BY <1>1, <2>2, MoveReady, DeeperReady DEF Working
  <2>. HIDE DEF n
  <2>. QED
    BY <2>6, <2>7, <1>2, TurnDelivers DEF n
<1>3. CASE \E o \in Throwing(x, to), e \in ActionError :
             Step(c, failStep(setCurrent(m, moveTo(x, to, o)), e))
  <2>1. PICK o \in Throwing(x, to), e \in ActionError :
               Step(c, failStep(setCurrent(m, moveTo(x, to, o)), e))
    BY <1>3
  <2>. DEFINE k == setCurrent(m, moveTo(x, to, o))
  <2>2. Tripped(m, k) BY <1>1, Trips
  <2>3. Step(c, failStep(k, e)) /\ e \in ErrorClass BY <2>1, EngineAssumption
  <2>. HIDE DEF k
  <2>6. failStep(k, e).call.flow = calls[c].flow
    BY <1>1, <2>2, FailStepInv DEF Tripped, isCompleted, Unfinished
  <2>. QED
    BY <2>3, <1>1, <2>2, FailStepDelivers, <2>6, StepDelivers DEF Delivered
<1>. QED BY <1>2, <1>3 DEF StepTo

-----------------------------------------------------------------------------
(* An event that has reached the instance that waits for it.               *)

Reached(m, steps) ==
    /\ Working(m) /\ Nested(m, steps) /\ Level(m) = Len(m.ins) /\ m.call.depth = << 0 >>
    /\ Waiting(Current(m)) /\ Chosen(m).from = Current(m).state

LEMMA ReachedFields ==
    ASSUME NEW steps, NEW m, Reached(m, steps)
    PROVE  /\ Ready(m) /\ Nested(m, steps) /\ Level(m) = Len(m.ins) /\ Level(m) = m.call.base
           /\ Len(m.call.depth) = 1 /\ m.call.depth[Len(m.call.depth)] = 0
           /\ ~isCompleted(Current(m))
<1>1. m.call.depth = << 0 >> /\ Ready(m) BY DEF Reached, Working
<1>2. Len(m.call.depth) = 1 /\ m.call.depth[Len(m.call.depth)] = 0 BY <1>1
<1>4. Level(m) = m.call.base
  BY <1>2, <1>1 DEF Level, Ready, RunType, Frame
<1>. QED BY <1>1, <1>2, <1>4 DEF Reached, Waiting

(* A run whose instances and chains are those of another.                  *)
LEMMA NestedSame ==
    ASSUME NEW steps, NEW m, Nested(m, steps), NEW n, n.ins = m.ins, n.call.base = m.call.base,
           n.call.depth = m.call.depth
    PROVE  /\ Nested(n, steps) /\ Level(n) = Level(m) /\ Current(n) = Current(m)
           /\ \A i : Counted(m, i, steps) <=> Counted(n, i, steps)
<1>. QED
  BY DEF Nested, Level, Current, Counted

(* The call is over, and leaves y for the current instance.                *)
LEMMA RestsAt ==
    ASSUME NEW steps, Delivers(steps), NEW m, Ready(m), Nested(m, steps), Level(m) = Len(m.ins),
           NEW y, y.def = Current(m).def, y.state \in definitionOf(y).states,
           NEW n, Replaced(m, n, y),
           (Level(m) = 1 /\ isCompleted(y)) \/ (Level(m) <= 2 /\ Waiting(y))
    PROVE  Resting(n.ins)
<1>. DEFINE L == Level(m)
<1>1. /\ L \in Nat /\ L >= 1 /\ L \in DOMAIN m.ins /\ DOMAIN m.ins = 1 .. Len(m.ins) /\ L = Len(m.ins)
      /\ y.def = m.ins[L].def /\ Path(m.ins)
  BY NestedCurrent DEF Nested, Current
<1>2. /\ DOMAIN n.ins = DOMAIN m.ins /\ Len(n.ins) = Len(m.ins) /\ n.ins[L] = y
      /\ \A i \in DOMAIN m.ins : i # L => n.ins[i] = m.ins[i]
  BY DEF Replaced
<1>. HIDE DEF L
<1>4. (L = 1 /\ isCompleted(y)) \/ (L <= 2 /\ Waiting(y)) BY DEF L
<1>. QED
  BY <1>1, <1>2, PathPut, <1>4 DEF Resting

LEMMA FailExternalDelivers ==
    ASSUME NEW steps, Delivers(steps), NEW m, Reached(m, steps), m.call.base = 1, now \in Nat,
           NEW k, Tripped(m, k), NEW cause \in ErrorClass, NEW n, n = failExternal(k, cause)
    PROVE  Resting(n.ins) /\ n.call.pc = "idle"
<1>. DEFINE x == Current(m)
            s == Chosen(k).from
            y == handleError(Current(k), s, cause)
            l == setCurrent(k, y)
<1>1. /\ Ready(m) /\ Nested(m, steps) /\ Level(m) = Len(m.ins) /\ Level(m) = 1 BY ReachedFields
<1>3. s \in definitionOf(x).states
  BY <1>1, NestedCurrent DEF Tripped, definitionOf, Chosen, Reached
<1>6. n = return([l EXCEPT !.ctx = k.call.backup]) BY DEF failExternal
<1>7. n.ins = l.ins /\ n.call.pc = "idle"
  <2>. HIDE DEF l
  <2>. QED
    BY SetReplaces, <1>6 DEF return, Idle, Tripped
<1>. HIDE DEF y, s
<1>8. /\ Replaced(m, n, y) /\ y.def = x.def /\ y.state \in definitionOf(y).states
      /\ isCompleted(y) \/ (Level(m) <= 2 /\ Waiting(y))
  BY <1>1, <1>3, <1>7, FailsAt DEF y
<1>. QED BY <1>1, <1>7, <1>8, RestsAt

LEMMA ExternalToDelivers ==
    ASSUME IndInv, IndInv', NEW steps, Delivers(steps), DeliverInv(steps), NEW c \in Call,
           calls[c].pc # "idle", NEW m, Reached(m, steps), m.call.base = 1,
           m.call.flow = calls[c].flow, ExternalTo(c, m)
    PROVE  DeliverInv(steps)'
<1>. DEFINE to == Chosen(m).to
            x  == Current(m)
            d  == definitionOf(x)
            D  == Len(m.call.depth)
<1>1. /\ now \in Nat /\ Working(m) /\ Ready(m) /\ Nested(m, steps) /\ Level(m) = Len(m.ins)
      /\ ~isCompleted(x) /\ Level(m) = m.call.base /\ m.call.depth[D] = 0
  BY ReachedFields DEF IndInv, Reached
<1>2. CASE Step(c, loop(setCurrent(m, moveTo(x, to, "ok"))))
  <2>. DEFINE n == setCurrent(m, moveTo(x, to, "ok"))
  <2>1. /\ x \in Instance /\ steps[x.def] \in [State -> Nat] /\ CountsDown(d, steps[x.def])
    BY <1>1, NestedCurrent
  <2>2. to \in d.states /\ to \in State BY <1>1, <2>1, OwnStates, WorkingChosen DEF Working, Chosen
  <2>3. m.call.depth[D] + steps[x.def][to] < MaxChainDepth
    BY <2>1, <2>2, <1>1 DEF CountsDown
  <2>4. Onward(n, steps)
    <3>. DEFINE no == FALSE
    <3>. QED
      BY <1>1, <2>2, <2>3, MovesOn
  <2>. HIDE DEF n
  <2>. QED
    BY <2>4, <1>1, <2>2, MoveReady, <1>2, TurnDelivers DEF n, Working
<1>3. CASE \E o \in Throwing(x, to), e \in ActionError :
             Step(c, failExternal(setCurrent(m, moveTo(x, to, o)), e))
  <2>1. PICK o \in Throwing(x, to), e \in ActionError :
               Step(c, failExternal(setCurrent(m, moveTo(x, to, o)), e))
    BY <1>3
  <2>. DEFINE k == setCurrent(m, moveTo(x, to, o))
  <2>2. Tripped(m, k) BY <1>1, Trips
  <2>3. Step(c, failExternal(k, e)) /\ e \in ErrorClass BY <2>1, EngineAssumption
  <2>. HIDE DEF k
  <2>4. Resting(failExternal(k, e).ins) /\ failExternal(k, e).call.pc = "idle"
    BY <1>1, <2>2, <2>3, FailExternalDelivers
  <2>. QED BY <2>3, <2>4, StepDelivers DEF Delivered
<1>. QED BY <1>2, <1>3 DEF ExternalTo

(* The call that is under way.                                             *)
LEMMA CallReached ==
    ASSUME IndInv, LifeInv, NEW steps, Delivers(steps), DeliverInv(steps), NEW c \in Call,
           calls[c].pc \in {"guard", "process", "subGuard"}
    PROVE  /\ calls[c].pc # "idle" /\ now \in Nat /\ Working(Run(c)) /\ Run(c).call = calls[c]
           /\ Reached(Run(c), steps) /\ DOMAIN Run(c) = {"ins", "ctx", "call"}
           /\ calls[c].pc # "subGuard" => Run(c).call.base = 1
           /\ calls[c].pc = "subGuard" => Run(c).call.base = 2
<1>1. calls[c].pc \in Holding /\ calls[c].pc # "idle" /\ calls[c].pc # "chainEnd" BY DEF Holding
<1>. QED
  BY <1>1, HoldingWorking, RunDelivers DEF Reached, Underway

LEMMA CallInStep ==
    ASSUME IndInv, LifeInv, NEW steps, Delivers(steps), DeliverInv(steps), NEW c \in Call,
           calls[c].pc \in {"auto", "decide", "branchProcess"}
    PROVE  /\ calls[c].pc # "idle" /\ now \in Nat /\ Working(Run(c)) /\ Run(c).call = calls[c]
           /\ InStep(Run(c), steps)
<1>1. calls[c].pc \in Holding /\ calls[c].pc # "idle" /\ calls[c].pc # "chainEnd" BY DEF Holding
<1>2. /\ now \in Nat /\ Working(Run(c)) /\ Run(c).call = calls[c]
      /\ Chosen(Run(c)).from = Current(Run(c)).state
      /\ Chosen(Run(c)).type = Kind(calls[c].pc)
  BY <1>1, HoldingLife
<1>5. InStep(Run(c), steps)
  BY <1>1, <1>2, RunDelivers DEF InStep, Underway, Kind
<1>. QED BY <1>1, <1>2, <1>5

LEMMA SameReached ==
    ASSUME NEW steps, NEW m, Reached(m, steps), NEW n, SameChain(m, n), n.call.t = m.call.t
    PROVE  Reached(n, steps) /\ Chosen(n) = Chosen(m)
<1>. QED
  BY WorkingSame, NestedSame DEF Reached, SameChain

LEMMA SameInStep ==
    ASSUME NEW steps, NEW m, InStep(m, steps), NEW n, SameChain(m, n), Working(n),
           Chosen(n).from = Current(m).state, Chosen(n).type \in {"auto", "branch"}
    PROVE  InStep(n, steps)
<1>. QED
  BY NestedSame DEF InStep, SameChain

LEMMA PutChain ==
    ASSUME NEW m, Working(m), NEW puts \in SUBSET Chosen(m).produces,
           NEW n, n = [m EXCEPT !.ctx = @ \cup puts]
    PROVE  SameChain(m, n) /\ n.call = m.call /\ Working(n) /\ Chosen(n) = Chosen(m)
<1>. QED
  BY WorkingChosen, WorkingPut DEF SameChain, Working, Ready, RunType

-----------------------------------------------------------------------------
(* The answers of user code.                                               *)

LEMMA GuardAcceptedDelivers ==
    ASSUME IndInv, IndInv', LifeInv, NEW steps, Delivers(steps), DeliverInv(steps), NEW c \in Call,
           GuardAccepted(c)
    PROVE  DeliverInv(steps)'
<1>. DEFINE r == Run(c)
<1>2. /\ calls[c].pc # "idle" /\ Working(r) /\ r.call = calls[c]
      /\ Reached(r, steps) /\ r.call.base = 1
  BY CallReached DEF GuardAccepted
<1>3. PICK data \in SUBSET Chosen(r).gives :
        LET m == [r EXCEPT !.call.backup = r.ctx, !.ctx = @ \cup data]
        IN  IF Chosen(m).processor
            THEN Step(c, [m EXCEPT !.call.pc = "process"])
            ELSE ExternalTo(c, m)
  BY DEF GuardAccepted
<1>. DEFINE m == [r EXCEPT !.call.backup = r.ctx, !.ctx = @ \cup data]
            n == [m EXCEPT !.call.pc = "process"]
<1>. HIDE DEF r
<1>6. SameChain(r, m) /\ m.call.t = r.call.t
  BY <1>2, WorkingChosen DEF SameChain, Frame, Working, Ready, RunType
<1>7. CASE Chosen(m).processor
  <2>1. Step(c, n) BY <1>3, <1>7
  <2>. HIDE DEF m
  <2>2. SameChain(m, n) /\ n.call.t = m.call.t /\ n.call.pc = "process"
    BY <1>6 DEF SameChain, Frame, PC
  <2>. HIDE DEF n
  <2>3. SameChain(r, n) /\ n.call.t = r.call.t BY <1>6, <2>2 DEF SameChain
  <2>5. Underway(n, steps)
    BY <2>2, <1>2, <2>3, SameReached, ReachedFields DEF Reached, Underway
  <2>6. n.call.flow = calls[c].flow BY <1>2, <2>3 DEF SameChain
  <2>. QED BY <1>2, <2>1, <2>2, <2>5, <2>6, StepDelivers DEF Delivered
<1>8. CASE ~Chosen(m).processor
  <2>1. ExternalTo(c, m) BY <1>3, <1>8
  <2>. HIDE DEF m
  <2>2. Reached(m, steps) /\ m.call.base = 1 /\ m.call.flow = calls[c].flow
    BY <1>2, <1>6, SameReached DEF SameChain
  <2>. QED BY <1>2, <2>1, <2>2, ExternalToDelivers
<1>. QED BY <1>7, <1>8

(* A rejection leaves the instance waiting, or ends it by an error.        *)
LEMMA GuardRejectedDelivers ==
    ASSUME IndInv, IndInv', LifeInv, NEW steps, Delivers(steps), DeliverInv(steps), NEW c \in Call,
           GuardRejected(c)
    PROVE  DeliverInv(steps)'
<1>. DEFINE m == Run(c)
            x == Current(m)
            d == definitionOf(x)
            u == incrementGuardFailure(x)
            y == IF u.fails >= definitionOf(u).maxGuardRetries
                 THEN handleError(u, Chosen(m).from, None) ELSE u
            k == setCurrent(m, y)
            n == return(k)
<1>1. calls[c].pc = "guard" /\ Step(c, n) BY DEF GuardRejected
<1>2. /\ calls[c].pc # "idle" /\ Reached(m, steps) /\ m.call.base = 1 /\ now \in Nat
  BY <1>1, CallReached
<1>. HIDE DEF m
<1>3. /\ Ready(m) /\ Nested(m, steps) /\ Level(m) = Len(m.ins) /\ Level(m) = 1
  BY <1>2, ReachedFields
<1>4. /\ x \in Instance /\ x.def \in Tier(1) /\ x.state \in d.states /\ Waiting(x)
      /\ Chosen(m).from = x.state /\ ~isCompleted(x)
  BY <1>2, <1>3, NestedCurrent DEF Reached, Waiting
<1>5. /\ u \in Instance /\ u.def = x.def /\ u.state = x.state /\ u.exit = x.exit
      /\ definitionOf(u) = d
  BY <1>4 DEF incrementGuardFailure, Instance, definitionOf
<1>6. Waiting(u) /\ ~isCompleted(u) BY <1>4, <1>5 DEF Waiting, isCompleted, waitsForEvent
<1>. HIDE DEF u
<1>7. /\ y.def = x.def /\ y.state \in definitionOf(y).states
      /\ isCompleted(y) \/ Waiting(y)
  <2>1. CASE y = u BY <1>4, <1>5, <1>6, <2>1
  <2>2. CASE y = handleError(u, Chosen(m).from, None)
    <3>. DEFINE s == Chosen(m).from
    <3>1. s \in d.states /\ ofType(d, s, {"sub_flow"}) = {} BY <1>4 DEF Waiting
    <3>2. 1 \in Nat /\ 1 >= 1 /\ None \in ErrorClass \cup {None} OBVIOUS
    <3>. HIDE DEF y, s
    <3>3. y = handleError(u, s, None) BY <2>2 DEF s
    <3>5. d \in Definition BY <1>4, <3>2, InTier
    <3>. HIDE DEF d, x
    <3>6. /\ y.def = u.def /\ y.state \in d.states
          /\ \/ y.exit \in d.terminal
             \/ y.exit = "TERMINAL_ERROR"
             \/ Waiting(y)
      BY <1>2, <1>5, <1>6, <3>1, <3>2, <3>3, <1>4, ErrorRests
    <3>7. isCompleted(y) \/ Waiting(y)
      BY <3>5, <3>6, NamesAssumption DEF Definition, Exit, ExitCode, isCompleted
    <3>. QED
      BY <1>5, <3>6, <3>7 DEF definitionOf, d
  <2>. QED BY <2>1, <2>2
<1>. HIDE DEF y, x, d
<1>8. Replaced(m, k, y) /\ DOMAIN k = {"ins", "ctx", "call"} BY <1>3, SetReplaces
<1>. HIDE DEF k
<1>9. n.ins = k.ins /\ n.call.pc = "idle" BY <1>8, EndFields
<1>. HIDE DEF n
<1>10. Replaced(m, n, y) BY <1>8, <1>9 DEF Replaced
<1>11. y.def = Current(m).def /\ ((Level(m) = 1 /\ isCompleted(y)) \/ (Level(m) <= 2 /\ Waiting(y)))
  BY <1>3, <1>7 DEF x
<1>12. Resting(n.ins) BY <1>3, <1>7, <1>10, <1>11, RestsAt
<1>. QED BY <1>1, <1>2, <1>9, <1>12, StepDelivers DEF Delivered

LEMMA GuardExpiredDelivers ==
    ASSUME IndInv, IndInv', LifeInv, NEW steps, Delivers(steps), DeliverInv(steps), NEW c \in Call,
           GuardExpired(c)
    PROVE  DeliverInv(steps)'
<1>. DEFINE m == Run(c)
            x == Current(m)
            y == complete(x, "EXPIRED")
            k == setCurrent(m, y)
            n == return(k)
<1>1. calls[c].pc = "guard" /\ Step(c, n) BY DEF GuardExpired
<1>2. calls[c].pc # "idle" /\ Reached(m, steps) /\ m.call.base = 1 BY <1>1, CallReached
<1>. HIDE DEF m
<1>3. /\ Ready(m) /\ Nested(m, steps) /\ Level(m) = Len(m.ins) /\ Level(m) = 1
  BY <1>2, ReachedFields
<1>4. x \in Instance /\ x.state \in definitionOf(x).states BY <1>3, NestedCurrent
<1>5. y.def = x.def /\ y.state \in definitionOf(y).states /\ isCompleted(y)
  BY <1>4, NamesAssumption DEF complete, Instance, definitionOf, isCompleted, Exit, ExitCode
<1>. HIDE DEF y
<1>6. Replaced(m, k, y) /\ DOMAIN k = {"ins", "ctx", "call"} BY <1>3, SetReplaces
<1>. HIDE DEF k
<1>7. n.ins = k.ins /\ n.call.pc = "idle" BY <1>6, EndFields
<1>. HIDE DEF n
<1>8. Replaced(m, n, y) BY <1>6, <1>7 DEF Replaced
<1>9. Resting(n.ins) BY <1>3, <1>5, <1>8, RestsAt
<1>. QED BY <1>1, <1>2, <1>7, <1>9, StepDelivers DEF Delivered

(* The instance keeps waiting.                                             *)
LEMMA GuardThrowsDelivers ==
    ASSUME IndInv, IndInv', LifeInv, NEW steps, Delivers(steps), DeliverInv(steps), NEW c \in Call,
           GuardThrows(c)
    PROVE  DeliverInv(steps)'
<1>. DEFINE m == Run(c)
            n == throw(m, "GUARD_THREW")
<1>1. calls[c].pc \in {"guard", "process", "subGuard"} /\ Step(c, n) BY DEF GuardThrows
<1>2. calls[c].pc # "idle" /\ Reached(m, steps) /\ DOMAIN m = {"ins", "ctx", "call"}
  BY <1>1, CallReached
<1>. HIDE DEF m
<1>3. n.ins = m.ins /\ n.call.pc = "idle" BY <1>2, EndFields
<1>. HIDE DEF n
<1>4. /\ Nested(m, steps) /\ Level(m) = Len(m.ins) /\ Level(m) = m.call.base
      /\ m.call.base \in {1, 2} /\ Waiting(Current(m))
  BY <1>2, ReachedFields DEF Reached, Ready, RunType, Frame
<1>5. Resting(m.ins) BY <1>4 DEF Nested, Resting, Current
<1>. QED BY <1>1, <1>2, <1>3, <1>5, StepDelivers DEF Delivered

LEMMA ProcessDoneDelivers ==
    ASSUME IndInv, IndInv', LifeInv, NEW steps, Delivers(steps), DeliverInv(steps), NEW c \in Call,
           ProcessDone(c)
    PROVE  DeliverInv(steps)'
<1>. DEFINE r == Run(c)
<1>1. PICK puts \in SUBSET Chosen(r).produces :
        calls[c].pc = "process" /\ ExternalTo(c, [r EXCEPT !.ctx = @ \cup puts])
  BY DEF ProcessDone
<1>2. /\ calls[c].pc # "idle" /\ Working(r) /\ r.call = calls[c]
      /\ Reached(r, steps) /\ r.call.base = 1
  BY <1>1, CallReached
<1>. DEFINE m == [r EXCEPT !.ctx = @ \cup puts]
<1>. HIDE DEF r
<1>3. ExternalTo(c, m) BY <1>1
<1>4. SameChain(r, m) /\ m.call = r.call BY <1>2, PutChain
<1>. HIDE DEF m
<1>5. Reached(m, steps) BY <1>2, <1>4, SameReached
<1>. QED BY <1>2, <1>3, <1>4, <1>5, ExternalToDelivers

LEMMA ProcessThrowsDelivers ==
    ASSUME IndInv, IndInv', LifeInv, NEW steps, Delivers(steps), DeliverInv(steps), NEW c \in Call,
           ProcessThrows(c)
    PROVE  DeliverInv(steps)'
<1>. DEFINE m == Run(c)
<1>1. PICK e \in UserError : calls[c].pc = "process" /\ Step(c, failExternal(m, e))
  BY DEF ProcessThrows
<1>2. calls[c].pc # "idle" /\ Reached(m, steps) /\ m.call.base = 1 /\ now \in Nat
  BY <1>1, CallReached
<1>. HIDE DEF m
<1>5. Resting(failExternal(m, e).ins) /\ failExternal(m, e).call.pc = "idle"
  BY <1>2, EngineAssumption, ReachedFields, NotTripped, FailExternalDelivers
<1>. QED BY <1>1, <1>2, <1>5, StepDelivers DEF Delivered

(* A processor or a branch throws.                                         *)
LEMMA FailHereDelivers ==
    ASSUME IndInv, IndInv', NEW steps, Delivers(steps), DeliverInv(steps), NEW c \in Call,
           calls[c].pc # "idle", NEW m, InStep(m, steps), m.call.flow = calls[c].flow,
           NEW cause \in ErrorClass, Step(c, failStep(m, cause))
    PROVE  DeliverInv(steps)'
<1>1. now \in Nat /\ Ready(m) /\ ~isCompleted(Current(m)) /\ Unfinished(Current(m))
  BY DEF IndInv, InStep, Working
<1>. QED
  BY NotTripped, FailStepDelivers, <1>1, FailStepInv, StepDelivers DEF Delivered

LEMMA StepFailsDelivers ==
    ASSUME IndInv, IndInv', LifeInv, NEW steps, Delivers(steps), DeliverInv(steps), NEW c \in Call,
           calls[c].pc \in {"auto", "decide", "branchProcess"},
           NEW e \in ErrorClass, Step(c, failStep(Run(c), e))
    PROVE  DeliverInv(steps)'
BY CallInStep, FailHereDelivers

LEMMA AutoDoneDelivers ==
    ASSUME IndInv, IndInv', LifeInv, NEW steps, Delivers(steps), DeliverInv(steps), NEW c \in Call,
           AutoDone(c)
    PROVE  DeliverInv(steps)'
<1>. DEFINE r == Run(c)
<1>1. PICK puts \in SUBSET Chosen(r).produces :
        LET m == [r EXCEPT !.ctx = @ \cup puts]
        IN  IF producesVerified(m)
            THEN StepTo(c, m, Chosen(m).to)
            ELSE Step(c, failStep(m, FlowErrorClass))
  BY DEF AutoDone
<1>2. calls[c].pc # "idle" /\ Working(r) /\ r.call = calls[c] /\ InStep(r, steps)
  BY CallInStep DEF AutoDone
<1>. DEFINE m == [r EXCEPT !.ctx = @ \cup puts]
<1>. HIDE DEF r
<1>3. SameChain(r, m) /\ m.call = r.call /\ Working(m) /\ Chosen(m) = Chosen(r) BY <1>2, PutChain
<1>4. \/ StepTo(c, m, Chosen(m).to)
      \/ Step(c, failStep(m, FlowErrorClass))
  BY <1>1
<1>. HIDE DEF m
<1>5. InStep(m, steps) /\ m.call.flow = calls[c].flow
  BY <1>2, <1>3, SameInStep DEF InStep
<1>6. FlowErrorClass \in ErrorClass BY NamesAssumption
<1>. QED BY <1>2, <1>4, <1>5, <1>6, StepToDelivers, FailHereDelivers

LEMMA DecideDelivers ==
    ASSUME IndInv, IndInv', LifeInv, NEW steps, Delivers(steps), DeliverInv(steps), NEW c \in Call,
           Decide(c)
    PROVE  DeliverInv(steps)'
<1>. DEFINE r == Run(c)
<1>0. calls[c].pc = "decide" BY DEF Decide
<1>1. PICK label \in Label :
         IF labelled(r, label) = {}
         THEN Step(c, failStep(r, FlowErrorClass))
         ELSE LET m == [r EXCEPT !.call.t = First(labelled(r, label))]
              IN  IF Chosen(m).processor
                  THEN Step(c, [m EXCEPT !.call.pc = "branchProcess"])
                  ELSE StepTo(c, m, Chosen(m).to)
  BY DEF Decide
<1>2. calls[c].pc # "idle" /\ Working(r) /\ Ready(r) /\ r.call = calls[c] /\ InStep(r, steps)
  BY <1>0, CallInStep DEF Working
<1>. DEFINE L == labelled(r, label)
            t == First(L)
            d == definitionOf(Current(r))
            m == [r EXCEPT !.call.t = t]
            n == [m EXCEPT !.call.pc = "branchProcess"]
<1>3. CASE L = {}
  BY <1>1, <1>3, NamesAssumption, <1>0, StepFailsDelivers
<1>4. CASE L # {}
  <2>. HIDE DEF r
  <2>1. /\ L \subseteq DOMAIN d.transitions
        /\ \A i \in L : d.transitions[i].from = Chosen(r).from /\ d.transitions[i].type = "branch"
    BY DEF labelled, ofType, transitionsFrom
  <2>. HIDE DEF L
  <2>3. t \in L /\ t \in Nat
    BY <1>4, <1>2, <2>1, ReadyType, DefinitionType, FirstIn
  <2>. HIDE DEF t
  <2>5. SameChain(r, m) /\ m.call.t = t
    BY <2>3, <1>2 DEF SameChain, Frame, Ready, RunType
  <2>6. /\ Ready(m) /\ Current(m) = Current(r) /\ Unfinished(Current(m))
    BY <1>2, <2>5, SameChainReady DEF Working
  <2>7. CASE Chosen(m).processor
    <3>1. Step(c, n) BY <1>1, <1>4, <2>7 DEF L, t
    <3>. HIDE DEF m
    <3>2. /\ SameChain(m, n) /\ n.call.t = m.call.t /\ n.call.pc = "branchProcess"
      BY <2>5 DEF SameChain, Frame, PC
    <3>. HIDE DEF n, d
    <3>3. SameChain(r, n) /\ n.call.flow = calls[c].flow BY <1>2, <2>5, <3>2 DEF SameChain
    <3>6. Underway(n, steps)
      BY <3>2, <1>2, <3>3, NestedSame DEF Underway, SameChain, InStep
    <3>. QED BY <1>2, <3>1, <3>2, <3>3, <3>6, StepDelivers DEF Delivered
  <2>8. CASE ~Chosen(m).processor
    <3>1. StepTo(c, m, Chosen(m).to) BY <1>1, <1>4, <2>8 DEF L, t
    <3>. HIDE DEF m
    <3>2. /\ Working(m) /\ m.call.flow = calls[c].flow
          /\ Chosen(m).from = Current(r).state /\ Chosen(m).type \in {"auto", "branch"}
      BY <1>2, <2>1, <2>3, <2>5, <2>6 DEF Working, SameChain, Chosen, InStep
    <3>. QED
      BY <1>2, <3>1, <3>2, <2>5, SameInStep, StepToDelivers
  <2>. QED BY <2>7, <2>8
<1>. QED BY <1>3, <1>4

LEMMA BranchProcessDoneDelivers ==
    ASSUME IndInv, IndInv', LifeInv, NEW steps, Delivers(steps), DeliverInv(steps), NEW c \in Call,
           BranchProcessDone(c)
    PROVE  DeliverInv(steps)'
<1>. DEFINE r == Run(c)
<1>1. PICK puts \in SUBSET Chosen(r).produces : StepTo(c, [r EXCEPT !.ctx = @ \cup puts], Chosen(r).to)
  BY DEF BranchProcessDone
<1>2. calls[c].pc # "idle" /\ Working(r) /\ r.call = calls[c] /\ InStep(r, steps)
  BY CallInStep DEF BranchProcessDone
<1>. DEFINE m == [r EXCEPT !.ctx = @ \cup puts]
<1>. HIDE DEF r
<1>3. SameChain(r, m) /\ m.call = r.call /\ Working(m) /\ Chosen(m) = Chosen(r) BY <1>2, PutChain
<1>4. StepTo(c, m, Chosen(m).to)
  <2>1. StepTo(c, m, Chosen(r).to) BY <1>1
  <2>. HIDE DEF m
  <2>. QED BY <1>3, <2>1
<1>. HIDE DEF m
<1>. QED
  BY <1>2, <1>4, <1>3, SameInStep, StepToDelivers DEF InStep

(* The first turn of a sub-flow.                                           *)
LEMMA EnterSubFlowDelivers ==
    ASSUME IndInv, IndInv', LifeInv, NEW steps, Delivers(steps), DeliverInv(steps), NEW c \in Call,
           EnterSubFlow(c)
    PROVE  DeliverInv(steps)'
<1>. DEFINE m == Run(c)
<1>1. calls[c].pc = "enterSub" /\ Step(c, loop(m)) BY DEF EnterSubFlow
<1>2. Ready(m) /\ Nested(m, steps) /\ Underway(m, steps) /\ m.call = calls[c] BY <1>1, RunDelivers
<1>. HIDE DEF m
<1>. QED
  BY <1>1, <1>2, TurnDelivers DEF Underway, Onward

-----------------------------------------------------------------------------
(* Leaving a sub-flow.                                                     *)

LEMMA LeaveChains ==
    ASSUME NEW m, Ready(m), Len(m.call.depth) > 1 \/ m.call.base = 2,
           NEW p, p = leaveSubFlow(m)
    PROVE  /\ Len(m.call.depth) = 1 => p.call.base = 1 /\ p.call.depth = << 0 >>
           /\ Len(m.call.depth) # 1 =>
                /\ p.call.base = m.call.base
                /\ \A j \in 1 .. Len(m.call.depth) - 1 : p.call.depth[j] = m.call.depth[j]
           /\ Level(p) = Level(m) - 1
           /\ DOMAIN p.ins = 1 .. Level(p) /\ Len(p.ins) = Level(p)
           /\ \A j \in 1 .. Level(p) : p.ins[j] = m.ins[j]
<1>. DEFINE L   == Level(m)
            D   == Len(m.call.depth)
            pre == SubSeq(m.ins, 1, L - 1)
            dep == IF D = 1 THEN << 0 >> ELSE SubSeq(m.call.depth, 1, D - 1)
            bas == IF D = 1 THEN 1 ELSE m.call.base
<1>1. /\ m \in [ins: Seq(Instance), ctx: SUBSET Key, call: Frame]
      /\ m.call.depth \in Seq(Nat) /\ m.call.base \in {1, 2}
  BY DEF Ready, RunType, Frame
<1>2. /\ L \in Nat /\ L \in DOMAIN m.ins /\ D \in Nat /\ D >= 1
      /\ DOMAIN m.ins = 1 .. Len(m.ins) /\ Len(m.ins) \in Nat
      /\ L = m.call.base + D - 1
  BY ReadyType DEF Ready, Level
<1>3. L >= 2 BY <1>1, <1>2
<1>4. /\ Len(pre) = L - 1 /\ DOMAIN pre = 1 .. L - 1
      /\ \A j \in 1 .. L - 1 : pre[j] = m.ins[j]
  <2>. HIDE DEF L
  <2>. QED BY <1>1, <1>2, <1>3
<1>5. ASSUME D # 1
      PROVE  /\ bas = m.call.base /\ Len(dep) = D - 1
             /\ \A j \in 1 .. D - 1 : dep[j] = m.call.depth[j]
  <2>1. /\ Len(SubSeq(m.call.depth, 1, D - 1)) = D - 1
        /\ \A j \in 1 .. D - 1 : SubSeq(m.call.depth, 1, D - 1)[j] = m.call.depth[j]
    <3>. HIDE DEF L
    <3>. QED BY <1>1, <1>2, <1>5
  <2>. QED BY <1>5, <2>1
<1>6. D = 1 => bas = 1 /\ dep = << 0 >> /\ Len(dep) = 1 OBVIOUS
<1>7. p = [m EXCEPT !.ins = pre, !.call = [m.call EXCEPT !.base = bas, !.depth = dep]]
  BY <1>1 DEF leaveSubFlow, Frame
<1>. HIDE DEF pre, dep, bas
<1>8. /\ p.ins = pre /\ p.call.base = bas /\ p.call.depth = dep
  <2>. DEFINE k == [m.call EXCEPT !.base = bas, !.depth = dep]
  <2>1. k.base = bas /\ k.depth = dep BY <1>1 DEF Frame
  <2>2. p = [m EXCEPT !.ins = pre, !.call = k] BY <1>7
  <2>. HIDE DEF k
  <2>. QED BY <1>1, <2>1, <2>2
<1>9. Level(p) = bas + Len(dep) - 1 BY <1>8 DEF Level
<1>10. Level(p) = L - 1
  <2>1. CASE D = 1
    <3>. HIDE DEF L, D
    <3>. QED
      BY <1>6, <1>9, <2>1, <1>1, <1>2, <1>3
  <2>2. CASE D # 1
    <3>. DEFINE b == m.call.base
    <3>. HIDE DEF L, D, b
    <3>. QED
      BY <1>2, <1>1, <1>5, <1>9, <2>2
  <2>. QED BY <2>1, <2>2
<1>. QED BY <1>4, <1>5, <1>6, <1>8, <1>10

LEMMA LeaveNested ==
    ASSUME NEW steps, NEW m, Ready(m), Nested(m, steps), Level(m) = Len(m.ins),
           Len(m.call.depth) > 1 \/ m.call.base = 2, NEW p, p = leaveSubFlow(m)
    PROVE  /\ Ready(p) /\ Nested(p, steps) /\ Level(p) = Len(p.ins) /\ ~isCompleted(Current(p))
           /\ p.call.flow = m.call.flow
           /\ Level(m) \in DOMAIN m.ins /\ Level(m) > 1 /\ Current(p) = m.ins[Level(m) - 1]
           /\ Current(m) = m.ins[Level(m)] /\ Current(p) \in Instance /\ Path(m.ins)
           /\ Len(m.call.depth) > 1 => Counted(p, Level(p), steps)
           /\ Len(m.call.depth) = 1 => p.call.base = 1 /\ Level(p) = 1 /\ p.call.depth = << 0 >>
<1>. DEFINE L == Level(m)
            D == Len(m.call.depth)
<1>1. /\ L \in Nat /\ L \in DOMAIN m.ins /\ D \in Nat /\ D >= 1
      /\ DOMAIN m.ins = 1 .. Len(m.ins) /\ Len(m.ins) \in Nat
      /\ L = m.call.base + D - 1 /\ m.call.base \in {1, 2}
  BY ReadyType DEF Ready, Level, RunType, Frame
<1>2. L >= 2 BY <1>1
<1>3. /\ D = 1 => p.call.base = 1 /\ p.call.depth = << 0 >>
      /\ D # 1 => /\ p.call.base = m.call.base
                  /\ \A j \in 1 .. D - 1 : p.call.depth[j] = m.call.depth[j]
      /\ Level(p) = L - 1
      /\ DOMAIN p.ins = 1 .. L - 1 /\ Len(p.ins) = L - 1
      /\ \A j \in 1 .. L - 1 : p.ins[j] = m.ins[j]
  BY LeaveChains
<1>4. /\ Ready(p) /\ p.call.flow = m.call.flow BY LeaveReady
<1>5. D = 1 => L = 2 BY <1>1, <1>2
<1>6. /\ Path(m.ins) /\ Current(m) = m.ins[L] BY DEF Nested, Current
<1>7. ASSUME NEW i \in DOMAIN m.ins
      PROVE  /\ i < L => ~isCompleted(m.ins[i])
             /\ i < L /\ i >= m.call.base => Counted(m, i, steps)
             /\ i > m.call.base /\ i <= L => Fresh(m.ins[i])
  BY <1>7 DEF Nested
<1>. HIDE DEF L
<1>8. L - 1 \in DOMAIN m.ins /\ L - 1 < L /\ L - 1 \in 1 .. L - 1 BY <1>1, <1>2
<1>9. Current(p) = m.ins[L - 1] BY <1>3, <1>8 DEF Current
<1>10. ~isCompleted(Current(p)) /\ Current(p) \in Instance
  BY <1>7, <1>8, ReadyType, <1>9
<1>11. ASSUME D # 1, NEW i \in 1 .. L - 1, i >= m.call.base
       PROVE  Counted(p, i, steps)
  <2>2. Counted(m, i, steps)
    BY <1>7, <1>11, <1>1
  <2>3. i + 1 - m.call.base \in 1 .. D - 1
    <3>. DEFINE b == m.call.base
    <3>1. b \in Nat /\ L = b + D - 1 /\ b <= i /\ i \in Nat /\ i <= L - 1 BY <1>1, <1>11
    <3>. HIDE DEF b, D
    <3>2. i + 1 - b \in 1 .. D - 1 BY <1>1, <3>1
    <3>. QED BY <3>2 DEF b
  <2>4. p.call.depth[i + 1 - m.call.base] = m.call.depth[i + 1 - m.call.base] /\ p.ins[i] = m.ins[i]
    BY <1>3, <1>11, <2>3
  <2>. HIDE DEF D
  <2>. QED BY <1>3, <1>11, <2>2, <2>4 DEF Counted, D
<1>12. Path(p.ins)
  <2>1. ASSUME NEW i \in 1 .. L - 1
        PROVE  /\ p.ins[i].def \in Tier(i) /\ p.ins[i].state \in definitionOf(p.ins[i]).states
               /\ i > 1 => p.ins[i].def = subFlowOf(p.ins[i - 1])
    <3>1. i \in DOMAIN m.ins /\ p.ins[i] = m.ins[i] BY <1>1, <1>3
    <3>2. i > 1 => i - 1 \in 1 .. L - 1 BY <1>1
    <3>3. i > 1 => p.ins[i - 1] = m.ins[i - 1] BY <1>3, <3>2
    <3>. QED BY <1>6, <3>1, <3>3, PathAt
  <2>. QED
    BY <1>3, <2>1, <1>8 DEF Path
<1>13. ASSUME NEW i \in 1 .. L - 1
       PROVE  /\ i < L - 1 => ~isCompleted(p.ins[i])
              /\ i < L - 1 /\ i >= p.call.base => Counted(p, i, steps)
              /\ i > p.call.base /\ i <= L - 1 => Fresh(p.ins[i])
  <2>1. i \in DOMAIN m.ins /\ i < L /\ p.ins[i] = m.ins[i] /\ i \in Nat /\ i >= 1 /\ i <= L - 1
    BY <1>1, <1>3
  <2>2. CASE D = 1
    BY <1>3, <1>5, <2>1, <2>2
  <2>3. CASE D # 1 BY <1>1, <1>3, <1>7, <1>11, <2>1, <2>3
  <2>. QED BY <2>2, <2>3
<1>14. Nested(p, steps) BY <1>3, <1>12, <1>13 DEF Nested
<1>15. ASSUME D > 1 PROVE Counted(p, Level(p), steps)
  <2>1. D # 1 /\ L - 1 >= m.call.base
    <3>. DEFINE b == m.call.base
    <3>1. b \in Nat /\ L = b + D - 1 BY <1>1
    <3>. HIDE DEF b, D
    <3>2. D # 1 /\ L - 1 >= b BY <1>1, <1>15, <3>1
    <3>. QED BY <3>2 DEF b
  <2>. QED BY <1>3, <1>8, <1>11, <2>1
<1>16. D = 1 => p.call.base = 1 /\ Level(p) = 1 /\ p.call.depth = << 0 >> BY <1>3, <1>5
<1>. QED BY <1>1, <1>2, <1>3, <1>4, <1>6, <1>9, <1>10, <1>14, <1>15, <1>16 DEF L

(* A parent whose state embeds the sub-flow n.                             *)
LEMMA StartsFields ==
    ASSUME NEW steps, Delivers(steps), NEW p, Ready(p), Nested(p, steps),
           NEW n, NEW j, Starts(Current(p), n, j), NEW d, d = definitionOf(Current(p))
    PROVE  /\ ofType(d, Current(p).state, {"sub_flow"}) # {}
           /\ Level(p) = p.call.base \/ ~Quiet(d, d.initial)
           /\ Level(p) > p.call.base => \A y : y.def = Current(p).def => Fresh(y)
<1>. DEFINE x == Current(p)
<1>. HIDE DEF x
<1>4. Level(p) = p.call.base \/ Level(p) > p.call.base
  <2>. DEFINE b == p.call.base
              D == Len(p.call.depth)
  <2>1. b \in Nat /\ D \in Nat /\ D >= 1 /\ Level(p) = b + D - 1
    BY ReadyType DEF Ready, RunType, Frame, Level
  <2>. HIDE DEF b, D
  <2>2. Level(p) = b \/ Level(p) > b BY <2>1
  <2>. QED BY <2>2 DEF b
<1>. QED
  BY NestedCurrent, FreshMoves, <1>4 DEF x, Starts, ofType, transitionsFrom

(* The turns that are left when the parent goes on: fewer by one if the    *)
(* sub-flow did not wait; all of them when an event has been answered.     *)
LEMMA TurnsLeft ==
    ASSUME NEW steps, Delivers(steps), NEW p, Ready(p), Nested(p, steps),
           NEW to \in definitionOf(Current(p)).states, NEW counted \in BOOLEAN,
           counted => /\ Counted(p, Level(p), steps)
                      /\ steps[Current(p).def][to] < steps[Current(p).def][Current(p).state],
           ~counted => p.call.depth = << 0 >>
    PROVE  IF counted
           THEN p.call.depth[Len(p.call.depth)] + 1 + steps[Current(p).def][to] < MaxChainDepth
           ELSE p.call.depth[Len(p.call.depth)] + steps[Current(p).def][to] < MaxChainDepth
<1>. DEFINE x   == Current(p)
            d   == definitionOf(x)
            dep == p.call.depth[Len(p.call.depth)]
<1>1. /\ x \in Instance /\ steps[x.def] \in [State -> Nat] /\ CountsDown(d, steps[x.def])
      /\ x.def \in Tier(Level(p)) /\ Level(p) \in Nat /\ Level(p) >= 1
  BY NestedCurrent
<1>3. to \in State /\ x.state \in State
  BY <1>1, InTier DEF Definition, Instance
<1>4. /\ dep \in Nat /\ steps[x.def][to] \in Nat /\ steps[x.def][x.state] \in Nat
      /\ MaxChainDepth \in Nat /\ steps[x.def][to] < MaxChainDepth
  BY <1>1, <1>3, ReadyType, EngineAssumption DEF CountsDown
<1>5. CASE counted
  <2>1. dep + steps[x.def][x.state] < MaxChainDepth /\ steps[x.def][to] < steps[x.def][x.state]
    BY <1>5, CountedCurrent
  <2>2. \A a, q, r, k \in Nat : a + r < k /\ q < r => a + 1 + q < k OBVIOUS
  <2>. HIDE DEF x, dep
  <2>3. dep + 1 + steps[x.def][to] < MaxChainDepth BY <1>4, <2>1, <2>2
  <2>. QED BY <1>5, <2>3 DEF x, dep
<1>6. CASE ~counted
  <2>1. dep = 0
    <3>2. Len(p.call.depth) = 1 /\ p.call.depth[1] = 0
      BY <1>6
    <3>. QED BY <3>2
  <2>. HIDE DEF x, dep
  <2>. QED
    BY <1>6, <1>4, <2>1 DEF x, dep
<1>. QED BY <1>5, <1>6

(* The parent takes the exit of its sub-flow n: no action can throw.       *)
LEMMA TakeExitDelivers ==
    ASSUME IndInv, IndInv', NEW steps, Delivers(steps), DeliverInv(steps), NEW c \in Call,
           calls[c].pc # "idle",
           NEW p, Ready(p), Nested(p, steps), Level(p) = Len(p.ins), ~isCompleted(Current(p)),
           p.call.flow = calls[c].flow, NEW n, NEW j, Starts(Current(p), n, j),
           NEW e \in Exit, NEW to, to = exitTarget(Current(p), e), to # None,
           NEW counted \in BOOLEAN,
           counted => Counted(p, Level(p), steps) /\ ~Quiet(Def[n], Def[n].initial),
           ~counted => p.call.depth = << 0 >>,
           TakeExit(c, p, to, counted)
    PROVE  DeliverInv(steps)'
<1>. DEFINE x == Current(p)
            d == definitionOf(x)
            t == d.transitions[j]
            k == setCurrent(p, moveTo(x, to, "ok"))
            m == IF counted THEN deeper(k) ELSE k
<1>1. /\ x \in Instance /\ CountsDown(d, steps[x.def])
      /\ x.def \in Tier(Level(p)) /\ Level(p) \in Nat /\ Level(p) >= 1 /\ now \in Nat
  BY NestedCurrent DEF IndInv
<1>2. d \in Definition /\ ExitsDoNotThrow(d) BY <1>1, InTier
<1>3. /\ j \in DOMAIN d.transitions /\ t.type = "sub_flow" /\ t.from = x.state
      /\ t.sub = n /\ to = t.exits[e]
  BY DEF Starts
<1>4. to \in d.states /\ to \notin d.enterActions /\ x.state \notin d.exitActions
  BY <1>2, <1>3 DEF ExitsDoNotThrow
<1>5. to \in State BY <1>2, <1>4 DEF Definition
<1>7. Step(c, loop(m))
  BY <1>4 DEF TakeExit, Throwing
<1>8. counted => steps[x.def][to] < steps[x.def][x.state] BY <1>1, <1>3 DEF CountsDown
<1>. HIDE DEF t, d, x
<1>9. /\ to \in definitionOf(Current(p)).states
      /\ counted => steps[Current(p).def][to] < steps[Current(p).def][Current(p).state]
  BY <1>4, <1>8 DEF x, d
<1>12. k = setCurrent(p, moveTo(Current(p), to, "ok")) BY DEF x
<1>13. Ready(k) /\ k.call = p.call BY <1>1, <1>5, <1>12, MoveReady DEF isCompleted, Unfinished
<1>. HIDE DEF k
<1>14. Onward(m, steps)
  BY <1>1, <1>9, TurnsLeft, StartsFields, <1>12, MovesOn
<1>15. m.call.flow = calls[c].flow BY <1>13, DeeperReady
<1>. HIDE DEF m
<1>. QED BY <1>7, <1>14, <1>15, TurnDelivers

(* The error of a sub-flow: the parent has a route for it.                 *)
LEMMA BubbleDelivers ==
    ASSUME IndInv, IndInv', NEW steps, Delivers(steps), DeliverInv(steps), NEW c \in Call,
           calls[c].pc # "idle",
           NEW p, Ready(p), Nested(p, steps), Level(p) = Len(p.ins), ~isCompleted(Current(p)),
           p.call.flow = calls[c].flow, NEW n, NEW j, Starts(Current(p), n, j),
           NEW counted \in BOOLEAN,
           counted => Counted(p, Level(p), steps) /\ ~Quiet(Def[n], Def[n].initial),
           ~counted => p.call.depth = << 0 >>,
           NEW k, k = setCurrent(p, handleError(Current(p), Current(p).state, None)),
           Step(c, loop(IF counted THEN deeper(k) ELSE k))
    PROVE  DeliverInv(steps)'
<1>. DEFINE x  == Current(p)
            d  == definitionOf(x)
            t  == d.transitions[j]
            to == d.onError[x.state]
            y  == handleError(x, x.state, None)
            m  == IF counted THEN deeper(k) ELSE k
<1>1. /\ x \in Instance /\ CountsDown(d, steps[x.def]) /\ x.state \in State
      /\ x.def \in Tier(Level(p)) /\ Level(p) \in Nat /\ Level(p) >= 1 /\ now \in Nat
  BY NestedCurrent DEF IndInv, Instance
<1>3. /\ j \in DOMAIN d.transitions /\ t.type = "sub_flow" /\ t.from = x.state /\ t.sub = n
  BY DEF Starts
<1>4. to # None /\ to \in d.states /\ to = ErrorTarget(d, x.state, None)
  BY InTier, <1>3, <1>1, OwnStates DEF RoutesSubFlowErrors, ErrorTarget
<1>5. counted => steps[x.def][to] < steps[x.def][x.state] BY <1>1, <1>3, <1>4 DEF CountsDown
<1>6. x.exit = None /\ Unfinished(x) BY DEF isCompleted, Unfinished
<1>7. y \in Instance /\ ExitOK(y) BY <1>1, <1>6, HandleErrorType
<1>8. /\ y.def = x.def /\ definitionOf(y) = d /\ y.state = to
      /\ y.exit = IF to \in d.terminal THEN to ELSE None
  <2>. HIDE DEF to
  <2>. QED BY <1>1, <1>4, <1>6, HandleErrorFields
<1>. HIDE DEF t, to, y
<1>9. ~isCompleted(y) \/ isTerminal(y) BY <1>8 DEF isCompleted, isTerminal
<1>10. k = setCurrent(p, y) BY DEF y
<1>11. Ready(k) /\ k.call = p.call BY <1>1, <1>6, HandleErrorReady
<1>12. Level(p) > p.call.base => Fresh(y) BY <1>8, StartsFields
<1>13. IF counted
       THEN p.call.depth[Len(p.call.depth)] + 1 + steps[Current(p).def][to] < MaxChainDepth
       ELSE p.call.depth[Len(p.call.depth)] + steps[Current(p).def][to] < MaxChainDepth
  BY <1>4, <1>5, TurnsLeft
<1>14. y.def = Current(p).def /\ y.state \in definitionOf(y).states BY <1>4, <1>8
<1>. HIDE DEF x, d
<1>15. Onward(m, steps) BY <1>7, <1>8, <1>9, <1>10, <1>12, <1>13, <1>14, GoesOn
<1>16. m.call.flow = calls[c].flow BY <1>11, DeeperReady
<1>17. Step(c, loop(m)) OBVIOUS
<1>. HIDE DEF m
<1>. QED BY <1>15, <1>16, <1>17, TurnDelivers

(* The level at which a chain runs.                                        *)
LEMMA LevelOf ==
    ASSUME NEW m, Ready(m)
    PROVE  /\ m.call.base \in {1, 2} /\ Level(m) \in Nat /\ Len(m.call.depth) \in Nat
           /\ Len(m.call.depth) = 1 => Level(m) = m.call.base
           /\ Len(m.call.depth) > 1 => Level(m) > m.call.base /\ Level(m) > 1
           /\ Len(m.call.depth) > 1 /\ Level(m) <= 2 =>
                 Level(m) = 2 /\ Len(m.call.depth) = 2 /\ m.call.base = 1
<1>. DEFINE b == m.call.base
            D == Len(m.call.depth)
<1>1. b \in {1, 2} /\ D \in Nat /\ D >= 1 /\ Level(m) = b + D - 1
  BY ReadyType DEF Ready, RunType, Frame, Level
<1>. HIDE DEF b, D
<1>2. /\ b \in {1, 2} /\ Level(m) \in Nat /\ D \in Nat
      /\ D = 1 => Level(m) = b
      /\ D > 1 => Level(m) > b /\ Level(m) > 1
      /\ D > 1 /\ Level(m) <= 2 => Level(m) = 2 /\ D = 2 /\ b = 1
  BY <1>1
<1>. QED BY <1>2 DEF b, D

(* The end of a sub-flow, seen from its parent.                            *)
LEMMA SubEnds ==
    ASSUME NEW steps, Delivers(steps), NEW m, Ready(m), Nested(m, steps), Level(m) = Len(m.ins),
           Len(m.call.depth) > 1 \/ m.call.base = 2, NEW p, p = leaveSubFlow(m)
    PROVE  /\ Ready(p) /\ Nested(p, steps) /\ Level(p) = Len(p.ins) /\ ~isCompleted(Current(p))
           /\ p.call.flow = m.call.flow
           /\ \E j : Starts(Current(p), Current(m).def, j)
           /\ Len(m.call.depth) > 1 /\ isCompleted(Current(m)) =>
                /\ Counted(p, Level(p), steps)
                /\ ~Quiet(Def[Current(m).def], Def[Current(m).def].initial)
           /\ Len(m.call.depth) = 1 => p.call.depth = << 0 >> /\ Current(p) = m.ins[1]
<1>. DEFINE x == Current(m)
            L == Level(m)
<1>1. /\ Ready(p) /\ Nested(p, steps) /\ Level(p) = Len(p.ins) /\ ~isCompleted(Current(p))
      /\ p.call.flow = m.call.flow
      /\ L \in DOMAIN m.ins /\ L > 1 /\ Current(p) = m.ins[L - 1]
      /\ x = m.ins[L] /\ Current(p) \in Instance /\ Path(m.ins)
      /\ Len(m.call.depth) > 1 => Counted(p, Level(p), steps)
      /\ Len(m.call.depth) = 1 => Level(p) = 1 /\ p.call.depth = << 0 >>
  <2>2. /\ L \in DOMAIN m.ins /\ L > 1 /\ Current(p) = m.ins[L - 1]
        /\ x = m.ins[L] /\ Current(p) \in Instance /\ Path(m.ins)
    BY LeaveNested
  <2>3. Len(m.call.depth) > 1 => Counted(p, Level(p), steps) BY LeaveNested
  <2>4. ASSUME Len(m.call.depth) = 1 PROVE Level(p) = 1 /\ p.call.depth = << 0 >> BY <2>4, LeaveNested
  <2>. QED
    BY LeaveNested, <2>2, <2>3, <2>4
<1>3. ASSUME Len(m.call.depth) > 1, isCompleted(x)
      PROVE  ~Quiet(Def[x.def], Def[x.def].initial)
  BY <1>3, LevelOf, NestedCurrent, FreshMoves DEF definitionOf
<1>4. ASSUME Len(m.call.depth) = 1 PROVE Current(p) = m.ins[1]
  BY <1>1, <1>4, LeaveChains
<1>. HIDE DEF x
<1>. QED
  BY <1>1, ParentEmbeds, <1>3, <1>4 DEF x

LEMMA SubChainEndsDelivers ==
    ASSUME IndInv, IndInv', LifeInv, NEW steps, Delivers(steps), DeliverInv(steps), NEW c \in Call,
           SubChainEnds(c)
    PROVE  DeliverInv(steps)'
<1>. DEFINE m  == Run(c)
            p  == leaveSubFlow(m)
            to == exitTarget(Current(p), Current(m).exit)
            k  == setCurrent(p, handleError(Current(p), Current(p).state, None))
<1>1. /\ calls[c].pc = "chainEnd" /\ Len(calls[c].depth) > 1
      /\ IF ~isCompleted(Current(m))
         THEN Step(c, [m EXCEPT !.call.depth = SubSeq(@, 1, Len(@) - 1)])
         ELSE IF to # None THEN TakeExit(c, p, to, TRUE)
         ELSE Step(c, loop(deeper(k)))
  BY DEF SubChainEnds
<1>2. Ready(m) /\ Nested(m, steps) /\ Underway(m, steps) /\ m.call = calls[c] /\ calls[c].pc # "idle"
  BY <1>1, RunDelivers
<1>. HIDE DEF m
<1>3. Ended(m) /\ m.call.pc = "chainEnd" /\ Len(m.call.depth) > 1 BY <1>1, <1>2 DEF Underway
<1>5. Level(m) = Len(m.ins) /\ (~isCompleted(Current(m)) => Level(m) <= 2 /\ Waiting(Current(m)))
  BY <1>3, <1>2, LevelOf DEF Ended
<1>6. CASE ~isCompleted(Current(m))
  <2>. DEFINE n == [m EXCEPT !.call.depth = SubSeq(@, 1, Len(@) - 1)]
              D == Len(m.call.depth)
  <2>1. Step(c, n) BY <1>1, <1>6
  <2>2. RunInv(n) /\ n.call.flow = calls[c].flow BY <1>2, <1>3, PopInv
  <2>3. Level(m) = 2 /\ D = 2 /\ m.call.base = 1 BY <1>2, <1>3, <1>5, <1>6, LevelOf
  <2>4. /\ m \in [ins: Seq(Instance), ctx: SUBSET Key, call: Frame] /\ m.call.depth \in Seq(Nat)
    BY <1>2 DEF Ready, RunType, Frame
  <2>5. Len(SubSeq(m.call.depth, 1, D - 1)) = 1 BY <2>3, <2>4
  <2>6. n.ins = m.ins /\ n.call.pc = "chainEnd" /\ n.call.base = 1 /\ Len(n.call.depth) = 1
    <3>. DEFINE dep == SubSeq(m.call.depth, 1, D - 1)
                q   == [m.call EXCEPT !.depth = dep]
    <3>1. n = [m EXCEPT !.call = q] BY <2>4 DEF Frame
    <3>. HIDE DEF dep
    <3>2. q.pc = "chainEnd" /\ q.base = 1 /\ q.depth = dep BY <1>3, <2>3, <2>4 DEF Frame
    <3>. HIDE DEF q
    <3>. QED BY <2>4, <2>5, <3>1, <3>2 DEF dep
  <2>. HIDE DEF n, D
  <2>7. Level(n) = 1 BY <2>6 DEF Level
  <2>8. Len(n.ins) = 2 /\ Waiting(n.ins[2]) BY <1>5, <1>6, <2>3, <2>6 DEF Current
  <2>10. Underway(n, steps)
    BY <2>6, <2>7, <2>8, <1>2, ReadyType DEF Underway, Ended, Nested
  <2>. QED BY <1>2, <2>1, <2>2, <2>6, <2>10, StepDelivers DEF Delivered
<1>7. CASE isCompleted(Current(m))
  <2>1. /\ Ready(p) /\ Nested(p, steps) /\ Level(p) = Len(p.ins) /\ ~isCompleted(Current(p))
        /\ p.call.flow = calls[c].flow
        /\ \E j : Starts(Current(p), Current(m).def, j)
        /\ Counted(p, Level(p), steps)
        /\ ~Quiet(Def[Current(m).def], Def[Current(m).def].initial)
    BY <1>2, <1>3, <1>5, <1>7, SubEnds
  <2>. HIDE DEF p
  <2>2. PICK j : Starts(Current(p), Current(m).def, j) BY <2>1
  <2>3. CASE to # None
    <3>1. Current(m).exit \in Exit BY <1>2, <1>7, ReadyType DEF isCompleted, Instance
    <3>2. TakeExit(c, p, to, TRUE) BY <1>1, <1>7, <2>3
    <3>. HIDE DEF to
    <3>. QED
      BY <1>2, <2>1, <2>2, <3>1, <3>2, <2>3, TakeExitDelivers DEF to
  <2>4. CASE to = None
    <3>. HIDE DEF k
    <3>2. k = setCurrent(p, handleError(Current(p), Current(p).state, None)) BY DEF k
    <3>. QED
      BY <1>2, <2>1, <2>2, <1>1, <1>7, <2>4, <3>2, BubbleDelivers
  <2>. QED BY <2>3, <2>4
<1>. QED BY <1>6, <1>7

(* A sub-flow that was resumed and is over is left by an exit.             *)
LEMMA ResumedChainEndsDelivers ==
    ASSUME IndInv, IndInv', LifeInv, NEW steps, Delivers(steps), DeliverInv(steps), NEW c \in Call,
           ResumedChainEnds(c)
    PROVE  DeliverInv(steps)'
<1>. DEFINE m  == Run(c)
            p  == leaveSubFlow(m)
            to == exitTarget(Current(p), Current(m).exit)
<1>1. /\ calls[c].pc = "chainEnd" /\ calls[c].base = 2 /\ Len(calls[c].depth) = 1
      /\ IF ~isCompleted(Current(m)) THEN Step(c, return(m))
         ELSE IF to # None THEN TakeExit(c, p, to, FALSE)
         ELSE Step(c, return(p))
  BY DEF ResumedChainEnds
<1>2. /\ Ready(m) /\ Nested(m, steps) /\ Underway(m, steps) /\ m.call = calls[c]
      /\ calls[c].pc # "idle" /\ DOMAIN m = {"ins", "ctx", "call"}
  BY <1>1, RunDelivers
<1>. HIDE DEF m
<1>3. Ended(m) /\ m.call.base = 2 /\ Len(m.call.depth) = 1 BY <1>1, <1>2 DEF Underway
<1>4. Level(m) = 2 BY <1>2, <1>3, LevelOf
<1>5. /\ Level(m) = Len(m.ins)
      /\ IF isCompleted(Current(m))
         THEN exitTarget(m.ins[1], Current(m).exit) # None
         ELSE Waiting(Current(m))
  BY <1>3, <1>4 DEF Ended
<1>6. CASE ~isCompleted(Current(m))
  <2>. DEFINE n == return(m)
  <2>1. Step(c, n) BY <1>1, <1>6
  <2>2. n.ins = m.ins /\ n.call.pc = "idle" BY <1>2, EndFields
  <2>. HIDE DEF n
  <2>3. Resting(m.ins)
    <3>2. Len(m.ins) = 2 /\ Waiting(m.ins[2]) BY <1>4, <1>5, <1>6 DEF Current
    <3>. QED
      BY <1>2, <3>2 DEF Resting, Nested
  <2>. QED BY <1>2, <2>1, <2>2, <2>3, StepDelivers DEF Delivered
<1>7. CASE isCompleted(Current(m))
  <2>1. /\ Ready(p) /\ Nested(p, steps) /\ Level(p) = Len(p.ins) /\ ~isCompleted(Current(p))
        /\ p.call.flow = calls[c].flow
        /\ \E j : Starts(Current(p), Current(m).def, j)
        /\ p.call.depth = << 0 >> /\ Current(p) = m.ins[1]
    BY <1>2, <1>3, <1>5, SubEnds
  <2>. HIDE DEF p
  <2>2. PICK j : Starts(Current(p), Current(m).def, j) BY <2>1
  <2>3. to # None BY <1>5, <1>7, <2>1
  <2>4. Current(m).exit \in Exit BY <1>2, <1>7, ReadyType DEF isCompleted, Instance
  <2>5. TakeExit(c, p, to, FALSE) BY <1>1, <1>7, <2>3
  <2>. HIDE DEF to
  <2>. QED
    BY <1>2, <2>1, <2>2, <2>4, <2>5, <2>3, TakeExitDelivers DEF to
<1>. QED BY <1>6, <1>7

LEMMA ChainReturnsDelivers ==
    ASSUME IndInv, IndInv', LifeInv, NEW steps, Delivers(steps), DeliverInv(steps), NEW c \in Call,
           ChainReturns(c)
    PROVE  DeliverInv(steps)'
<1>. DEFINE m == Run(c)
            n == return(m)
<1>1. /\ calls[c].pc = "chainEnd" /\ calls[c].base = 1 /\ Len(calls[c].depth) = 1 /\ Step(c, n)
  BY DEF ChainReturns
<1>2. /\ Ready(m) /\ Nested(m, steps) /\ Underway(m, steps) /\ m.call = calls[c]
      /\ calls[c].pc # "idle" /\ DOMAIN m = {"ins", "ctx", "call"}
  BY <1>1, RunDelivers
<1>. HIDE DEF m
<1>3. Ended(m) /\ m.call.base = 1 /\ Len(m.call.depth) = 1 BY <1>1, <1>2 DEF Underway
<1>4. Level(m) = 1 BY <1>2, <1>3, LevelOf
<1>5. n.ins = m.ins /\ n.call.pc = "idle" BY <1>2, EndFields
<1>. HIDE DEF n
<1>6. Resting(m.ins)
  <2>1. Path(m.ins) /\ Current(m) = m.ins[1] BY <1>2, <1>4 DEF Nested, Current
  <2>2. CASE Len(m.ins) = 2 /\ Waiting(m.ins[2]) BY <2>1, <2>2 DEF Resting
  <2>3. CASE Len(m.ins) = 1 /\ (isCompleted(m.ins[1]) \/ Waiting(m.ins[1]))
    BY <2>1, <2>3 DEF Resting
  <2>. QED BY <1>3, <1>4, <2>1, <2>2, <2>3 DEF Ended
<1>. QED BY <1>1, <1>2, <1>5, <1>6, StepDelivers DEF Delivered

-----------------------------------------------------------------------------
(* An event for a sub-flow.                                                *)

LEMMA SubGuardAcceptedDelivers ==
    ASSUME IndInv, IndInv', LifeInv, NEW steps, Delivers(steps), DeliverInv(steps), NEW c \in Call,
           SubGuardAccepted(c)
    PROVE  DeliverInv(steps)'
<1>. DEFINE r == Run(c)
<1>2. calls[c].pc # "idle" /\ now \in Nat /\ Working(r) /\ r.call = calls[c] /\ Reached(r, steps)
  BY CallReached DEF SubGuardAccepted
<1>3. PICK data \in SUBSET Chosen(r).gives :
         LET m == [r EXCEPT !.ctx = @ \cup data]
         IN  Step(c, loop(setCurrent(m, moveTo(Current(m), Chosen(m).to, "ok"))))
  BY DEF SubGuardAccepted
<1>. DEFINE m == [r EXCEPT !.ctx = @ \cup data]
            k == setCurrent(m, moveTo(Current(m), Chosen(m).to, "ok"))
<1>4. Step(c, loop(k)) BY <1>3
<1>. HIDE DEF r
<1>7. SameChain(r, m) /\ m.call = r.call
  BY <1>2, WorkingChosen DEF SameChain, Working, Ready, RunType
<1>. HIDE DEF m
<1>8. Reached(m, steps) /\ m.call = calls[c] BY <1>2, <1>7, SameReached
<1>9. /\ Ready(m) /\ Nested(m, steps) /\ Level(m) = Len(m.ins) /\ Level(m) = m.call.base
      /\ ~isCompleted(Current(m)) /\ m.call.depth = << 0 >> /\ Working(m)
  BY <1>8, ReachedFields DEF Reached
<1>. DEFINE to == Chosen(m).to
            x  == Current(m)
<1>10. x \in Instance /\ to \in definitionOf(x).states /\ to \in State
  BY <1>9, ReadyType, OwnStates, WorkingChosen DEF Working, Chosen
<1>11. m.call.depth[Len(m.call.depth)] + steps[x.def][to] < MaxChainDepth
  <2>. DEFINE no == FALSE
  <2>. HIDE DEF to, no
  <2>. QED
    BY <1>9, <1>10, TurnsLeft
<1>12. k = setCurrent(m, moveTo(x, to, "ok")) OBVIOUS
<1>13. k.call.flow = calls[c].flow BY <1>2, <1>8, <1>9, <1>10, MoveReady DEF Working
<1>. HIDE DEF k, to
<1>14. Onward(k, steps)
  <2>. DEFINE no == FALSE
  <2>1. no \in BOOLEAN /\ k = IF no THEN deeper(k) ELSE k OBVIOUS
  <2>. QED BY <1>2, <1>9, <1>10, <1>11, <1>12, <2>1, MovesOn
<1>. QED BY <1>2, <1>4, <1>13, <1>14, TurnDelivers

LEMMA SubGuardRejectedDelivers ==
    ASSUME IndInv, IndInv', LifeInv, NEW steps, Delivers(steps), DeliverInv(steps), NEW c \in Call,
           SubGuardRejected(c)
    PROVE  DeliverInv(steps)'
<1>. DEFINE m  == Run(c)
            x  == incrementGuardFailure(Current(m))
            p  == leaveSubFlow(m)
            to == exitTarget(Current(p), "ERROR")
            k  == setCurrent(p, handleError(Current(p), Current(p).state, None))
<1>1. /\ calls[c].pc = "subGuard"
      /\ IF x.fails < definitionOf(x).maxGuardRetries THEN Step(c, return(setCurrent(m, x)))
         ELSE IF to # None THEN TakeExit(c, p, to, FALSE)
         ELSE Step(c, loop(k))
  BY DEF SubGuardRejected
<1>2. /\ calls[c].pc # "idle" /\ m.call = calls[c] /\ Reached(m, steps) /\ m.call.base = 2
  BY <1>1, CallReached
<1>. HIDE DEF m
<1>3. /\ Ready(m) /\ Nested(m, steps) /\ Level(m) = Len(m.ins) /\ Level(m) = 2
      /\ Waiting(Current(m)) /\ Len(m.call.depth) = 1
  BY <1>2, ReachedFields DEF Reached
<1>4. CASE x.fails < definitionOf(x).maxGuardRetries
  <2>. DEFINE l == setCurrent(m, x)
              n == return(l)
  <2>1. Step(c, n) BY <1>1, <1>4
  <2>2. Current(m) \in Instance /\ Current(m).state \in definitionOf(Current(m)).states
    BY <1>3, NestedCurrent
  <2>3. /\ x.def = Current(m).def /\ x.state = Current(m).state /\ x.exit = Current(m).exit
        /\ definitionOf(x) = definitionOf(Current(m))
    BY <2>2 DEF incrementGuardFailure, Instance, definitionOf
  <2>. HIDE DEF x
  <2>5. Replaced(m, l, x) /\ DOMAIN l = {"ins", "ctx", "call"} BY <1>3, SetReplaces
  <2>. HIDE DEF l
  <2>6. n.ins = l.ins /\ n.call.pc = "idle" BY <2>5, EndFields
  <2>. HIDE DEF n
  <2>7. Replaced(m, n, x) BY <2>5, <2>6 DEF Replaced
  <2>8. Level(m) <= 2 /\ x.state \in definitionOf(x).states BY <1>3, <2>2, <2>3
  <2>9. Resting(n.ins)
    BY <1>3, <2>3, <2>7, <2>8, RestsAt DEF Waiting, isCompleted, waitsForEvent
  <2>. QED BY <1>2, <2>1, <2>6, <2>9, StepDelivers DEF Delivered
<1>5. CASE ~(x.fails < definitionOf(x).maxGuardRetries)
  <2>1. /\ Ready(p) /\ Nested(p, steps) /\ Level(p) = Len(p.ins) /\ ~isCompleted(Current(p))
        /\ p.call.flow = calls[c].flow
        /\ \E j : Starts(Current(p), Current(m).def, j)
        /\ p.call.depth = << 0 >>
    <3>2. Ready(m) /\ Nested(m, steps) /\ Level(m) = Len(m.ins) BY <1>3
    <3>3. p = leaveSubFlow(m) OBVIOUS
    <3>. HIDE DEF p
    <3>4. /\ Ready(p) /\ Nested(p, steps) /\ Level(p) = Len(p.ins) /\ ~isCompleted(Current(p))
          /\ p.call.flow = m.call.flow
          /\ \E j : Starts(Current(p), Current(m).def, j)
          /\ Len(m.call.depth) = 1 => p.call.depth = << 0 >>
      BY <1>2, <3>2, <3>3, SubEnds
    <3>. QED BY <1>2, <1>3, <3>4
  <2>. HIDE DEF p
  <2>2. PICK j : Starts(Current(p), Current(m).def, j) BY <2>1
  <2>3. CASE to # None
    <3>2. TakeExit(c, p, to, FALSE) BY <1>1, <1>5, <2>3
    <3>. HIDE DEF to
    <3>3. to # None /\ to = exitTarget(Current(p), "ERROR") BY <2>3 DEF to
    <3>. QED
      BY <1>2, <2>1, <2>2, <3>2, <3>3, TakeExitDelivers DEF Exit, ExitCode
  <2>4. CASE to = None
    <3>. HIDE DEF k
    <3>2. k = setCurrent(p, handleError(Current(p), Current(p).state, None)) BY DEF k
    <3>. QED
      BY <1>2, <2>1, <2>2, <1>1, <1>5, <2>4, <3>2, BubbleDelivers
  <2>. QED BY <2>3, <2>4
<1>. QED BY <1>4, <1>5

(* A flow is closed by completing its root.                                *)
LEMMA RootClosed ==
    ASSUME NEW ins, Path(ins), NEW N \in Nat, DOMAIN ins = 1 .. N, 1 \in DOMAIN ins,
           ins[1] \in Instance,
           NEW new, DOMAIN new = 1 .. N, new[1] = complete(ins[1], "EXPIRED"),
           \A i \in DOMAIN ins : i # 1 => new[i] = ins[i]
    PROVE  Resting(new)
<1>. DEFINE y == complete(ins[1], "EXPIRED")
<1>2. /\ y.def = ins[1].def /\ y.state = ins[1].state /\ y.state \in definitionOf(y).states
      /\ isCompleted(y)
  BY PathAt, NamesAssumption DEF complete, Instance, definitionOf, isCompleted, Exit, ExitCode
<1>3. new[1] = y OBVIOUS
<1>. HIDE DEF y
<1>. QED
  BY <1>2, <1>3, PathPut DEF Resting

LEMMA SubGuardExpiredDelivers ==
    ASSUME IndInv, IndInv', LifeInv, NEW steps, Delivers(steps), DeliverInv(steps), NEW c \in Call,
           SubGuardExpired(c)
    PROVE  DeliverInv(steps)'
<1>. DEFINE m == Run(c)
            y == complete(m.ins[1], "EXPIRED")
            s == [m.ins EXCEPT ![1] = y]
            l == [m EXCEPT !.ins = s]
            n == return(l)
<1>1. calls[c].pc = "subGuard" /\ Step(c, return([m EXCEPT !.ins[1] = complete(@, "EXPIRED")]))
  BY DEF SubGuardExpired
<1>2. calls[c].pc # "idle" /\ Reached(m, steps) BY <1>1, CallReached
<1>. HIDE DEF m
<1>3. Ready(m) /\ Nested(m, steps) BY <1>2, ReachedFields
<1>4. Step(c, n) BY <1>1
<1>5. /\ m \in [ins: Seq(Instance), ctx: SUBSET Key, call: Frame]
      /\ DOMAIN m.ins = 1 .. Len(m.ins) /\ Len(m.ins) \in Nat
      /\ 1 \in DOMAIN m.ins /\ m.ins[1] \in Instance
  BY <1>3, NestedCurrent DEF Ready, RunType
<1>. HIDE DEF y
<1>6. /\ DOMAIN s = DOMAIN m.ins /\ s[1] = y
      /\ \A i \in DOMAIN m.ins : i # 1 => s[i] = m.ins[i]
  BY <1>5
<1>. HIDE DEF s
<1>7. l.ins = s /\ DOMAIN l = {"ins", "ctx", "call"} BY <1>5
<1>. HIDE DEF l
<1>8. n.ins = s /\ n.call.pc = "idle" BY <1>7, EndFields
<1>. HIDE DEF n
<1>9. Path(m.ins) BY <1>3 DEF Nested
<1>10. Resting(n.ins) BY <1>5, <1>6, <1>8, <1>9, RootClosed DEF y
<1>. QED BY <1>2, <1>4, <1>8, <1>10, StepDelivers DEF Delivered, m

-----------------------------------------------------------------------------
(* The start of a call.                                                    *)

(* The transition is selected, and the guard is asked, at the deepest      *)
(* instance.                                                               *)
LEMMA AskedUnderway ==
    ASSUME NEW steps, NEW ins, Resting(ins), Len(ins) \in {1, 2}, ~isCompleted(ins[1]),
           DOMAIN ins = 1 .. Len(ins),
           NEW b, b.ins = ins, b.call.base = Len(ins), b.call.depth = << 0 >>,
           b.call.pc \in {"guard", "subGuard"}
    PROVE  Underway(b, steps)
<1>. DEFINE k == Len(ins)
<1>2. k \in Nat /\ b.call.base = k OBVIOUS
<1>4. Waiting(ins[k]) /\ Path(ins) BY DEF Resting
<1>. HIDE DEF k
<1>7. Level(b) = k
  BY <1>2 DEF Level
<1>8. Current(b) = ins[k] BY <1>7 DEF Current
<1>9. ASSUME NEW i \in DOMAIN ins
      PROVE  /\ i < Level(b) => ~isCompleted(ins[i])
             /\ ~(i < Level(b) /\ i >= b.call.base)
             /\ ~(i > b.call.base /\ i <= Level(b))
  BY <1>2, <1>7
<1>11. ~isCompleted(Current(b)) BY <1>4, <1>8 DEF Waiting
<1>. QED
  BY <1>4, <1>7, <1>8, <1>9, <1>11 DEF Underway, k, Nested

LEMMA ResumeDelivers ==
    ASSUME Serialized, IndInv, NEW steps, DeliverInv(steps), NEW c \in Call,
           NEW f \in Flow, NEW keys \in Event, Resume(c, f, keys)
    PROVE  DeliverInv(steps)'
<1>1. PICK r : Writes(c, f, r) /\ Opened(f, keys, r) BY ResumeRun
<1>2. inst[f] \in Seq(Instance) /\ inst[f] # <<>> /\ Resting(inst[f])
  BY DEF Resume, IndInv, DeliverInv, Started
<1>3. /\ DOMAIN inst[f] = 1 .. Len(inst[f]) /\ Len(inst[f]) \in Nat /\ Len(inst[f]) >= 1
      /\ inst[f][1] \in Instance
  BY <1>2, LenProperties, EmptySeq
<1>4. Delivered(r, steps)
  <2>1. CASE r.ins = inst[f] /\ r.call.pc = "idle" BY <1>2, <2>1 DEF Delivered
  <2>2. CASE r.call.pc = "idle" /\ r.ins # inst[f]
    BY <1>1, <1>3, <2>2, <1>2, RootClosed DEF Opened, Resting, Delivered
  <2>3. CASE r.call.pc # "idle"
    <3>1. ~isCompleted(inst[f][1]) /\ Len(inst[f]) \in {1, 2} /\ r.call.base = Len(inst[f])
      <4>1. \A z \in Nat : z >= 1 /\ z <= 2 => z \in {1, 2} OBVIOUS
      <4>2. ~isCompleted(inst[f][1]) /\ Len(inst[f]) \in {1, 2}
        BY <1>1, <1>2, <1>3, <2>3, <4>1, Zenon DEF Opened, loadForUpdate, Resting
      <4>3. ~(1 > 1) OBVIOUS
      <4>. QED BY <1>1, <2>3, <4>2, <4>3, Zenon DEF Opened
    <3>. QED BY <1>1, <1>2, <1>3, <2>3, <3>1, AskedUnderway DEF Opened, Delivered
  <2>. QED BY <2>1, <2>2, <2>3
<1>. QED BY <1>1, <1>4, CommitDelivers DEF Writes, RunInv

LEMMA StartFlowDelivers ==
    ASSUME IndInv, NEW steps, Delivers(steps), DeliverInv(steps), NEW c \in Call,
           NEW f \in Flow, NEW name \in Root, NEW keys \in Event, StartFlow(c, f, name, keys)
    PROVE  DeliverInv(steps)'
<1>. DEFINE new == NewInstance(name, now)
<1>1. PICK m : /\ Newborn(f, name, m) /\ Writes(c, f, loop(m))
               /\ name \in DefName /\ now \in Nat
  BY StartFlowRun
<1>2. /\ new \in Instance /\ ~isCompleted(new) /\ new.def \in Tier(1)
      /\ new.state \in definitionOf(new).states
  BY <1>1, ValidAssumption DEF NewInstance, ValidDefinition, isCompleted, Newborn, Tier,
     definitionOf
<1>3. /\ Ready(m) /\ Level(m) = 1 /\ DOMAIN m.ins = {1} /\ m.ins[1] = new /\ Len(m.ins) = 1
      /\ m.call.base = 1 /\ Len(m.call.depth) = 1 /\ m.call.depth = << 0 >>
  BY <1>1 DEF Newborn, Ready
<1>. HIDE DEF new
<1>4. Onward(m, steps)
  <2>4. Current(m) = new BY <1>3 DEF Current
  <2>6. 0 + steps[new.def][new.state] < MaxChainDepth
    BY <1>2, InTier DEF CountsDown, Instance
  <2>7. Counted(m, Level(m), steps)
    <3>2. m.call.depth[Len(m.call.depth)] + steps[Current(m).def][Current(m).state] < MaxChainDepth
      BY <2>4, <2>6, <1>3
    <3>. QED BY <1>3, <3>2, CountedCurrent
  <2>. QED
    BY <1>2, <1>3, <2>4, <2>7 DEF Onward, Nested, Path
<1>5. loop(m).call.pc # "idle" /\ Underway(loop(m), steps) BY <1>1, <1>4, LoopDelivers
<1>. QED
  BY <1>1, <1>5, CommitDelivers DEF Writes, RunInv, Delivered

-----------------------------------------------------------------------------
(* The invariant.                                                          *)

LEMMA InitDelivers == ASSUME NEW steps, Init PROVE DeliverInv(steps)
<1>. QED
  BY DEF DeliverInv, Init, Idle, Started

LEMMA UnchangedDelivers ==
    ASSUME NEW steps, DeliverInv(steps), UNCHANGED <<inst, context, calls>>
    PROVE  DeliverInv(steps)'
<1>1. ASSUME NEW c \in Call, calls'[c].pc # "idle" PROVE Underway(Run(c), steps)'
  BY <1>1, UnderwaySame DEF DeliverInv, Run
<1>. QED
  BY <1>1 DEF DeliverInv, Started, Busy

LEMMA ContinueDelivers ==
    ASSUME IndInv, IndInv', LifeInv, NEW steps, Delivers(steps), DeliverInv(steps), NEW c \in Call,
           Continue(c)
    PROVE  DeliverInv(steps)'
<1>. UserError \subseteq ErrorClass BY EngineAssumption
<1>1. CASE GuardAccepted(c) BY <1>1, GuardAcceptedDelivers
<1>2. CASE GuardRejected(c) BY <1>2, GuardRejectedDelivers
<1>3. CASE GuardExpired(c) BY <1>3, GuardExpiredDelivers
<1>4. CASE GuardThrows(c) BY <1>4, GuardThrowsDelivers
<1>5. CASE ProcessDone(c) BY <1>5, ProcessDoneDelivers
<1>6. CASE ProcessThrows(c) BY <1>6, ProcessThrowsDelivers
<1>7. CASE AutoDone(c) BY <1>7, AutoDoneDelivers
<1>8. CASE AutoThrows(c) BY <1>8, StepFailsDelivers DEF AutoThrows
<1>9. CASE Decide(c) BY <1>9, DecideDelivers
<1>10. CASE DecideThrows(c) BY <1>10, StepFailsDelivers DEF DecideThrows
<1>11. CASE BranchProcessDone(c) BY <1>11, BranchProcessDoneDelivers
<1>12. CASE BranchProcessThrows(c) BY <1>12, StepFailsDelivers DEF BranchProcessThrows
<1>13. CASE EnterSubFlow(c) BY <1>13, EnterSubFlowDelivers
<1>14. CASE ChainReturns(c) BY <1>14, ChainReturnsDelivers
<1>15. CASE SubChainEnds(c) BY <1>15, SubChainEndsDelivers
<1>16. CASE ResumedChainEnds(c) BY <1>16, ResumedChainEndsDelivers
<1>17. CASE SubGuardAccepted(c) BY <1>17, SubGuardAcceptedDelivers
<1>18. CASE SubGuardRejected(c) BY <1>18, SubGuardRejectedDelivers
<1>19. CASE SubGuardExpired(c) BY <1>19, SubGuardExpiredDelivers
<1>. QED BY <1>1, <1>2, <1>3, <1>4, <1>5, <1>6, <1>7, <1>8, <1>9, <1>10, <1>11, <1>12,
     <1>13, <1>14, <1>15, <1>16, <1>17, <1>18, <1>19 DEF Continue

LEMMA NextDelivers ==
    ASSUME Serialized, IndInv, IndInv', LifeInv, NEW steps, Delivers(steps), DeliverInv(steps),
           [Next]_vars
    PROVE  DeliverInv(steps)'
<1>1. ASSUME NEW c \in Call, NEW f \in Flow, NEW name \in Root, NEW keys \in Event,
             StartFlow(c, f, name, keys)
      PROVE  DeliverInv(steps)'
  BY <1>1, StartFlowDelivers
<1>2. ASSUME NEW c \in Call, NEW f \in Flow, NEW keys \in Event, Resume(c, f, keys)
      PROVE  DeliverInv(steps)'
  BY <1>2, ResumeDelivers
<1>3. ASSUME NEW c \in Call, Continue(c)
      PROVE  DeliverInv(steps)'
  BY <1>3, ContinueDelivers
<1>4. CASE Tick BY <1>4, UnchangedDelivers DEF Tick
<1>5. CASE Clear BY <1>5, UnchangedDelivers DEF Clear
<1>6. CASE UNCHANGED vars BY <1>6, UnchangedDelivers DEF vars
<1>. QED BY <1>1, <1>2, <1>3, <1>4, <1>5, <1>6 DEF Next

(* No flow is stranded: whenever no call works on a stored flow that is    *)
(* open, FlowEngine.resumeAndExecute finds an external transition for the  *)
(* next event, in the flow itself or in its active sub-flow.  It takes the *)
(* per-flow lock of the callers (Serialized) and definitions whose chains  *)
(* end within MaxChainDepth in states that wait (Delivers).                *)
THEOREM NobodyIsStranded ==
    ASSUME Serialized, NEW CONSTANT steps, Delivers(steps)
    PROVE  Spec => []NeverStranded
<1>1. Init => DeliverInv(steps) BY InitDelivers
<1>2. IndInv /\ IndInv' /\ LifeInv /\ DeliverInv(steps) /\ [Next]_vars => DeliverInv(steps)'
  BY NextDelivers
<1>3. IndInv /\ DeliverInv(steps) => NeverStranded
  <2>. SUFFICES ASSUME IndInv, DeliverInv(steps), NEW f \in stored, AtRest(f), ~isCompleted(inst[f][1])
                PROVE  Len(inst[f]) <= 2 /\ waitsForEvent(Deepest(f))
    BY DEF NeverStranded
  <2>. QED
    BY DEF Resting, Waiting, Deepest, DeliverInv, AtRest, IndInv
<1>4. Spec => []IndInv BY Invariance
<1>5. Spec => []LifeInv BY LifeInvariance
<1>. QED BY <1>1, <1>2, <1>3, <1>4, <1>5, PTL DEF Spec

-----------------------------------------------------------------------------
(* Calls that overlap.                                                     *)

(* y is what a turn that rejects nothing makes of the instance x.          *)
Eased(x, y) ==
    /\ y \in Instance /\ y.def = x.def /\ y.fails <= x.fails
    /\ isCompleted(x) => isCompleted(y)

(* The log between them: no record and the same state, ...                 *)
SameLog(x, y) == y.last = x.last /\ y.state = x.state

(* ... no record, and no move but into a state whose enter action threw,   *)
Unlogged(x, y) ==
    y.last = x.last /\ (y.state = x.state \/ y.state \in definitionOf(x).enterActions)

(* ... or one record, from where the instance was or such a state.         *)
Logged(x, y) ==
    \/ Unlogged(x, y)
    \/ /\ y.last.from = x.state \/ y.last.from \in definitionOf(x).enterActions
       /\ y.last.to = y.state

LEMMA MoveLogs ==
    ASSUME NEW x \in Instance, NEW to
    PROVE  /\ Logged(x, moveTo(x, to, "ok"))
           /\ \A o \in Throwing(x, to) : Unlogged(x, moveTo(x, to, o))
BY DEF Logged, Unlogged, moveTo, Throwing, transitionTo, recordTransition, Instance

LEMMA MoveEases ==
    ASSUME NEW x \in Instance, NEW to \in State, NEW o \in {"ok", "enter", "exit"}, now \in Nat
    PROVE  Eased(x, moveTo(x, to, o))
<1>1. moveTo(x, to, o).fails \in {0, x.fails} BY DEF moveTo, transitionTo, recordTransition, Instance
<1>. QED BY <1>1, MoveToType DEF Eased, isCompleted, Instance

LEMMA CompleteEases ==
    ASSUME NEW x \in Instance, NEW e \in Exit
    PROVE  /\ Eased(x, complete(x, e)) /\ isCompleted(complete(x, e))
           /\ SameLog(x, complete(x, e)) /\ Unlogged(x, complete(x, e))
BY NamesAssumption DEF Eased, complete, isCompleted, Instance, SameLog, Unlogged

(* A route to a terminal state, and none, complete it.                     *)
LEMMA HandleErrorEases ==
    ASSUME NEW x \in Instance, NEW s \in State, NEW cause, now \in Nat
    PROVE  /\ Eased(x, handleError(x, s, cause))
           /\ ErrorTarget(definitionOf(x), s, cause) \in definitionOf(x).terminal \cup {None} =>
                 isCompleted(handleError(x, s, cause))
           /\ Logged(x, handleError(x, s, cause))
<1>. DEFINE to == ErrorTarget(definitionOf(x), s, cause)
            y  == moveTo(x, to, "ok")
<1>1. CASE to = None
  BY <1>1, CompleteEases DEF handleError, Exit, ExitCode, Logged
<1>2. CASE to # None
  <2>1. to \in State BY <1>2, ErrorTargetType
  <2>2. Eased(x, y) /\ Logged(x, y) BY <2>1, MoveEases, MoveLogs
  <2>3. handleError(x, s, cause) = IF to \in definitionOf(x).terminal THEN complete(y, to) ELSE y
    BY <1>2 DEF handleError, moveTo
  <2>. HIDE DEF y, to
  <2>4. Eased(y, complete(y, to)) /\ isCompleted(complete(y, to)) /\ SameLog(y, complete(y, to))
    BY <2>1, <2>2, CompleteEases DEF Eased, Exit
  <2>5. Logged(x, complete(y, to)) BY <2>2, <2>4 DEF Logged, Unlogged, SameLog
  <2>. QED BY <1>2, <2>2, <2>3, <2>4, <2>5 DEF Eased, Instance, to
<1>. QED BY <1>1, <1>2

(* The instance of a run without sub-flows.                                *)
LEMMA AloneCurrent ==
    ASSUME NEW m, Alone(m)
    PROVE  /\ Level(m) = 1 /\ 1 \in DOMAIN m.ins /\ Current(m) = m.ins[1]
           /\ m.ins[1] \in Instance /\ m.call.depth[Len(m.call.depth)] \in Nat
<1>1. m.ins \in Seq(Instance) /\ m.call.depth \in Seq(Nat) BY DEF Alone, Frame
<1>. QED
  BY LenProperties, <1>1, ElementOfSeq DEF Alone, Level, Current

LEMMA AlonePut ==
    ASSUME NEW m, Alone(m), NEW x \in Instance, x.def = m.ins[1].def
    PROVE  /\ Alone(setCurrent(m, x)) /\ setCurrent(m, x).ins[1] = x
           /\ setCurrent(m, x).call = m.call /\ setCurrent(m, x).ctx = m.ctx
<1>1. /\ m \in [ins: Seq(Instance), ctx: SUBSET Key, call: Frame]
      /\ Level(m) = 1 /\ 1 \in DOMAIN m.ins
  BY AloneCurrent DEF Alone
<1>4. setCurrent(m, x) = [m EXCEPT !.ins = [m.ins EXCEPT ![1] = x]] BY <1>1 DEF setCurrent
<1>. QED
  BY <1>1, ExceptSeq, <1>4 DEF Alone

LEMMA AloneSame ==
    ASSUME NEW m, Alone(m), NEW n, SameChain(m, n)
    PROVE  Alone(n)
BY DEF Alone, SameChain

(* n is what a step of its call makes of the run m when no guard rejects.  *)
Turned(m, n) ==
    /\ Alone(n) /\ Eased(m.ins[1], n.ins[1]) /\ Logged(m.ins[1], n.ins[1])
    /\ n.call.pc # "guard"
    /\ IF n.call.pc = "idle" THEN n.call.flow = None
       ELSE AloneUnderway(n) /\ n.call.flow = m.call.flow

LEMMA TurnedOn ==
    ASSUME NEW m, Alone(m), NEW k, Alone(k), Eased(m.ins[1], k.ins[1]),
           k.call.flow = m.call.flow, NEW n, Turned(k, n),
           Unlogged(m.ins[1], k.ins[1]) \/ (Logged(m.ins[1], k.ins[1]) /\ SameLog(k.ins[1], n.ins[1]))
    PROVE  Turned(m, n)
<1>1. Eased(m.ins[1], n.ins[1]) BY AloneCurrent DEF Turned, Eased, Instance
<1>2. Logged(m.ins[1], n.ins[1])
  BY DEF Turned, Eased, Logged, Unlogged, SameLog, definitionOf
<1>. QED BY <1>1, <1>2 DEF Turned

LEMMA Unmoved ==
    ASSUME NEW x \in Instance
    PROVE  Eased(x, x) /\ SameLog(x, x) /\ Unlogged(x, x) /\ Logged(x, x)
BY DEF Eased, Instance, SameLog, Unlogged, Logged

LEMMA AloneEnds ==
    ASSUME NEW m, Alone(m), NEW r \in Result, NEW n, n = [m EXCEPT !.call = Idle(r)]
    PROVE  Turned(m, n) /\ n.call.pc = "idle" /\ n.ins = m.ins /\ SameLog(m.ins[1], n.ins[1])
<1>1. Idle(r) \in Frame /\ Idle(r).pc = "idle" /\ Idle(r).flow = None BY IdleType
<1>. HIDE DEF Idle
<1>4. n.ins = m.ins /\ n.call = Idle(r) /\ n \in [ins: Seq(Instance), ctx: SUBSET Key, call: Frame]
  BY <1>1 DEF Alone
<1>. QED
  BY <1>1, IdleType, AloneCurrent, Unmoved, <1>4 DEF Turned, Alone

(* At the end of a chain.                                                  *)
LEMMA AloneChainEnds ==
    ASSUME NEW m, Alone(m), m.call.flow \in Flow, NEW n, SameChain(m, n), n.call.pc = "chainEnd"
    PROVE  Turned(m, n) /\ SameLog(m.ins[1], n.ins[1])
<1>. QED
  BY AloneSame, AloneCurrent, Unmoved DEF Turned, AloneUnderway, SameChain

(* Without sub-flows a turn of the loop stays on the instance.             *)
LEMMA AloneLoop ==
    ASSUME \A n \in Root : ~hasSubFlow(Def[n]), now \in Nat,
           NEW m, Alone(m), m.call.flow \in Flow
    PROVE  Turned(m, loop(m)) /\ SameLog(m.ins[1], loop(m).ins[1])
<1>. DEFINE x     == Current(m)
            d     == definitionOf(x)
            steps == ofType(d, x.state, {"auto", "branch"})
<1>1. /\ m \in [ins: Seq(Instance), ctx: SUBSET Key, call: Frame]
      /\ x \in Instance /\ x = m.ins[1] /\ m.call.flow # None
  BY AloneCurrent, EngineAssumption DEF Alone
<1>2. ofType(d, x.state, {"sub_flow"}) = {}
  BY <1>1 DEF Alone, definitionOf, hasSubFlow, ofType, transitionsFrom
<1>3. CASE m.call.depth[Len(m.call.depth)] >= MaxChainDepth
  BY <1>3, AloneEnds DEF loop, throw, Result
<1>4. CASE ~(m.call.depth[Len(m.call.depth)] >= MaxChainDepth) /\ isTerminal(x)
  <2>. DEFINE y == complete(x, x.state)
              k == setCurrent(m, y)
              n == [k EXCEPT !.call.pc = "chainEnd"]
  <2>1. loop(m) = n BY <1>4 DEF loop
  <2>2. Eased(m.ins[1], y) /\ SameLog(m.ins[1], y) /\ Unlogged(m.ins[1], y)
    BY <1>1, CompleteEases DEF Instance, Exit
  <2>. HIDE DEF y
  <2>3. Alone(k) /\ k.ins[1] = y /\ k.call = m.call BY <2>2, AlonePut DEF Eased
  <2>. HIDE DEF k
  <2>4. SameChain(k, n) /\ n.call.pc = "chainEnd" BY <2>3 DEF Alone, SameChain, Frame, PC
  <2>. HIDE DEF n
  <2>5. Turned(k, n) /\ SameLog(k.ins[1], n.ins[1]) BY <2>3, <2>4, AloneChainEnds
  <2>6. SameLog(m.ins[1], n.ins[1]) BY <2>2, <2>3, <2>5 DEF SameLog
  <2>. QED BY <2>1, <2>2, <2>3, <2>5, <2>6, TurnedOn
<1>5. CASE /\ ~(m.call.depth[Len(m.call.depth)] >= MaxChainDepth) /\ ~isTerminal(x)
           /\ steps # {}
  <2>. DEFINE i  == First(steps)
              pc == IF d.transitions[i].type = "auto" THEN "auto" ELSE "decide"
              n  == [m EXCEPT !.call = [m.call EXCEPT !.t = i, !.backup = m.ctx, !.pc = pc]]
  <2>1. loop(m) = n BY <1>2, <1>5 DEF loop
  <2>2. i \in DOMAIN d.transitions /\ i \in Nat BY <1>1, <1>5, FirstOfType
  <2>3. pc \in {"auto", "decide"} OBVIOUS
  <2>. HIDE DEF i, pc, d, x
  <2>4. SameChain(m, n) /\ n.call.pc = pc /\ n.call.t = i
    BY <1>1, <2>2, <2>3 DEF SameChain, Frame, PC
  <2>. HIDE DEF n
  <2>5. /\ Alone(n) /\ Current(n) = x /\ Eased(m.ins[1], n.ins[1])
        /\ SameLog(m.ins[1], n.ins[1]) /\ Logged(m.ins[1], n.ins[1])
    BY <1>1, <2>4, AloneSame, AloneCurrent, Unmoved DEF SameChain
  <2>. QED BY <1>1, <2>1, <2>2, <2>3, <2>4, <2>5 DEF Turned, AloneUnderway, SameChain, d
<1>6. CASE /\ ~(m.call.depth[Len(m.call.depth)] >= MaxChainDepth) /\ ~isTerminal(x)
           /\ steps = {}
  <2>1. SameChain(m, loop(m)) /\ loop(m).call.pc = "chainEnd"
    BY <1>1, <1>2, <1>6 DEF loop, SameChain, Frame, PC
  <2>. QED BY <2>1, AloneChainEnds
<1>. QED BY <1>3, <1>4, <1>5, <1>6

(* The catch blocks.                                                       *)
LEMMA AloneFailStep ==
    ASSUME now \in Nat, NEW m, Alone(m), m.call.flow \in Flow, NEW cause
    PROVE  Turned(m, failStep(m, cause))
<1>. DEFINE y == handleError(Current(m), Current(m).state, cause)
            k == setCurrent(m, y)
            n == failStep(m, cause)
<1>1. Eased(m.ins[1], y) /\ Logged(m.ins[1], y) BY AloneCurrent, HandleErrorEases DEF Instance
<1>2. n = [k EXCEPT !.ctx = m.call.backup, !.call.pc = "chainEnd"] BY DEF failStep
<1>. HIDE DEF y, n
<1>3. Alone(k) /\ k.ins[1] = y /\ k.call = m.call BY <1>1, AlonePut DEF Eased
<1>. HIDE DEF k
<1>4. SameChain(k, n) /\ n.call.pc = "chainEnd" BY <1>2, <1>3 DEF Alone, SameChain, Frame, PC
<1>. QED
  BY <1>1, <1>3, <1>4, AloneChainEnds, TurnedOn DEF n

LEMMA AloneFailExternal ==
    ASSUME now \in Nat, NEW m, Alone(m), m.call.flow \in Flow, Chosen(m).from \in State, NEW cause
    PROVE  Turned(m, failExternal(m, cause))
<1>. DEFINE y == handleError(Current(m), Chosen(m).from, cause)
            k == setCurrent(m, y)
            r == [k EXCEPT !.ctx = m.call.backup]
<1>1. Eased(m.ins[1], y) /\ Logged(m.ins[1], y) BY AloneCurrent, HandleErrorEases
<1>2. failExternal(m, cause) = return(r) BY DEF failExternal
<1>. HIDE DEF y
<1>3. Alone(k) /\ k.ins[1] = y /\ k.call = m.call BY <1>1, AlonePut DEF Eased
<1>. HIDE DEF k
<1>4. SameChain(k, r) BY <1>3 DEF Alone, SameChain, Frame
<1>. HIDE DEF r
<1>5. Alone(r) /\ r.ins[1] = y /\ r.call.flow = m.call.flow
  BY <1>3, <1>4, AloneSame DEF SameChain
<1>6. Turned(r, return(r)) /\ SameLog(r.ins[1], return(r).ins[1]) BY <1>5, AloneEnds DEF return, Result
<1>. QED BY <1>1, <1>2, <1>5, <1>6, TurnedOn

LEMMA AloneDeeper ==
    ASSUME NEW m, Alone(m)
    PROVE  Alone(deeper(m)) /\ deeper(m).ins = m.ins /\ deeper(m).call.flow = m.call.flow
<1>1. /\ m \in [ins: Seq(Instance), ctx: SUBSET Key, call: Frame]
      /\ m.call.depth \in Seq(Nat) /\ Len(m.call.depth) = 1 /\ 1 \in DOMAIN m.call.depth
      /\ m.call.depth[1] + 1 \in Nat
  BY AloneCurrent, LenProperties DEF Alone, Frame
<1>2. [m.call.depth EXCEPT ![1] = @ + 1] \in Seq(Nat) /\ Len([m.call.depth EXCEPT ![1] = @ + 1]) = 1
  BY <1>1, ExceptSeq
<1>3. deeper(m) = [m EXCEPT !.call = [m.call EXCEPT !.depth = [m.call.depth EXCEPT ![1] = @ + 1]]]
  BY <1>1 DEF deeper
<1>. QED BY <1>1, <1>2, <1>3 DEF Alone, Frame

(* A step of the auto-chain to its target.                                 *)
LEMMA AloneStepTo ==
    ASSUME \A n \in Root : ~hasSubFlow(Def[n]), now \in Nat, NEW c \in Call,
           NEW m, Alone(m), m.call.flow \in Flow, NEW to \in State, StepTo(c, m, to)
    PROVE  \E n : Step(c, n) /\ Turned(m, n)
<1>. DEFINE k(o) == setCurrent(m, moveTo(Current(m), to, o))
<1>1. ASSUME NEW o \in {"ok", "enter", "exit"}
      PROVE  /\ Alone(k(o)) /\ Eased(m.ins[1], k(o).ins[1]) /\ k(o).call.flow = m.call.flow
             /\ o = "ok" => Logged(m.ins[1], k(o).ins[1])
             /\ o \in Throwing(Current(m), to) => Unlogged(m.ins[1], k(o).ins[1])
  <2>1. Eased(m.ins[1], moveTo(Current(m), to, o)) BY AloneCurrent, MoveEases
  <2>. QED BY <2>1, AlonePut, AloneCurrent, MoveLogs DEF Eased
<1>2. CASE Step(c, loop(deeper(k("ok"))))
  <2>. DEFINE e == deeper(k("ok"))
  <2>. HIDE DEF k
  <2>. HIDE DEF e
  <2>. QED
    BY <1>2, <1>1, AloneDeeper, AloneLoop, TurnedOn DEF e
<1>3. CASE \E o \in Throwing(Current(m), to), e \in ActionError : Step(c, failStep(k(o), e))
  <2>1. PICK o \in Throwing(Current(m), to), e \in ActionError : Step(c, failStep(k(o), e))
    BY <1>3
  <2>. HIDE DEF k
  <2>. QED
    BY <2>1, <1>1, ThrowingType, AloneFailStep, TurnedOn
<1>. QED BY <1>2, <1>3 DEF StepTo

(* The external transition of the flow itself.                             *)
LEMMA AloneExternalTo ==
    ASSUME \A n \in Root : ~hasSubFlow(Def[n]), now \in Nat, NEW c \in Call,
           NEW m, Alone(m), m.call.flow \in Flow, Chosen(m).from \in State, Chosen(m).to \in State,
           ExternalTo(c, m)
    PROVE  \E n : Step(c, n) /\ Turned(m, n)
<1>. DEFINE k(o) == setCurrent(m, moveTo(Current(m), Chosen(m).to, o))
<1>1. ASSUME NEW o \in {"ok", "enter", "exit"}
      PROVE  /\ Alone(k(o)) /\ Eased(m.ins[1], k(o).ins[1]) /\ k(o).call.flow = m.call.flow
             /\ Chosen(k(o)) = Chosen(m)
             /\ o = "ok" => Logged(m.ins[1], k(o).ins[1])
             /\ o \in Throwing(Current(m), Chosen(m).to) => Unlogged(m.ins[1], k(o).ins[1])
  <2>1. Eased(m.ins[1], moveTo(Current(m), Chosen(m).to, o)) BY AloneCurrent, MoveEases
  <2>2. Alone(k(o)) /\ k(o).ins[1] = moveTo(Current(m), Chosen(m).to, o) /\ k(o).call = m.call
    BY <2>1, AlonePut DEF Eased
  <2>3. /\ o = "ok" => Logged(m.ins[1], k(o).ins[1])
        /\ o \in Throwing(Current(m), Chosen(m).to) => Unlogged(m.ins[1], k(o).ins[1])
    BY <2>2, AloneCurrent, MoveLogs
  <2>. QED BY <2>1, <2>2, <2>3, AloneCurrent DEF Chosen, Eased, definitionOf
<1>2. CASE Step(c, loop(k("ok")))
  <2>. HIDE DEF k
  <2>. QED BY <1>1, <1>2, AloneLoop, TurnedOn
<1>3. CASE \E o \in Throwing(Current(m), Chosen(m).to), e \in ActionError :
             Step(c, failExternal(k(o), e))
  <2>1. PICK o \in Throwing(Current(m), Chosen(m).to), e \in ActionError :
               Step(c, failExternal(k(o), e))
    BY <1>3
  <2>. HIDE DEF k
  <2>. QED
    BY <2>1, <1>1, ThrowingType, AloneFailExternal, TurnedOn
<1>. QED BY <1>2, <1>3 DEF ExternalTo

-----------------------------------------------------------------------------
LogGrows == \A f \in Flow : Started(f) => Logged(inst[f][1], inst'[f][1])

(* Every other call goes on with what the step has made of the flow: what  *)
(* is left to show of it is the room for rejections, and its log.          *)
LEMMA CommitAlone ==
    ASSUME OverlapInv, NEW c \in Call, NEW f \in Flow, calls[c].flow \in {f, None},
           NEW n, Alone(n), Started(f) => n.ins[1].def = inst[f][1].def,
           IF n.call.pc = "idle" THEN n.call.flow = None ELSE AloneUnderway(n) /\ n.call.flow = f,
           inst' = [inst EXCEPT ![f] = n.ins],
           context' = [context EXCEPT ![f] = n.ctx],
           calls' = [calls EXCEPT ![c] = n.call],
           UNCHANGED now, RoomForRejections(f)',
           IF Started(f) THEN Logged(inst[f][1], n.ins[1]) ELSE Recorded(n.ins[1])
    PROVE  OverlapInv' /\ LogGrows
<1>1. /\ n \in [ins: Seq(Instance), ctx: SUBSET Key, call: Frame] /\ Len(n.ins) = 1
      /\ n = [ins |-> n.ins, ctx |-> n.ctx, call |-> n.call] /\ n.ins[1].def \in Root
  BY DEF Alone
<1>3. /\ inst'[f] = n.ins /\ context'[f] = n.ctx /\ calls'[c] = n.call
      /\ \A g \in Flow : g # f => inst'[g] = inst[g] /\ context'[g] = context[g]
      /\ \A b \in Call : b # c => calls'[b] = calls[b]
  BY DEF OverlapInv
<1>4. n.call.flow \in {f, None} /\ None \notin Flow /\ n.ins # <<>> BY <1>1, EngineAssumption
<1>5. ASSUME NEW g \in Flow, Started(g)'
      PROVE  (/\ Len(inst[g]) = 1 /\ inst[g][1].def \in Root
              /\ RoomForRejections(g) /\ Recorded(inst[g][1]))'
  <2>1. CASE g = f
    <3>1. Recorded(n.ins[1])
      BY DEF OverlapInv, Recorded, Logged, Unlogged, definitionOf
    <3>. QED BY <1>1, <1>3, <2>1, <3>1 DEF Recorded, definitionOf
  <2>2. CASE g # f
    <3>1. AskedGuards(g)' = AskedGuards(g) BY <1>3, <1>4, <2>2 DEF AskedGuards
    <3>. QED
      BY <1>3, <1>5, <2>2, <3>1
         DEF OverlapInv, Started, RoomForRejections, maxRejections, Recorded, definitionOf
  <2>. QED BY <2>1, <2>2
<1>6. ASSUME NEW b \in Call
      PROVE  (IF calls[b].pc = "idle" THEN calls[b].flow = None
              ELSE AloneUnderway(Run(b)) /\ Started(calls[b].flow))'
  <2>1. CASE b = c BY <1>1, <1>3, <1>4, <2>1 DEF Run, Started
  <2>2. CASE b # c /\ calls[b].pc = "idle" BY <1>3, <2>2 DEF OverlapInv
  <2>3. CASE b # c /\ calls[b].pc # "idle"
    <3>. DEFINE m == Run(b)
                k == Run(b)'
    <3>1. AloneUnderway(m) /\ m.call = calls[b] /\ calls[b].flow \in Flow /\ Started(calls[b].flow)
      BY <2>3 DEF OverlapInv, Run, AloneUnderway
    <3>2. CASE calls[b].flow # f BY <1>3, <2>3, <3>1, <3>2 DEF Run, Started
    <3>3. CASE calls[b].flow = f
      <4>1. k = [ins |-> n.ins, ctx |-> n.ctx, call |-> calls[b]] BY <1>3, <2>3, <3>3 DEF Run
      <4>2. m.ins[1].def = n.ins[1].def BY <3>1, <3>3 DEF Run
      <4>. HIDE DEF m, k
      <4>3. Alone(k) BY <1>1, <3>1, <4>1 DEF AloneUnderway, Alone
      <4>5. AloneUnderway(k)
        BY <3>1, <4>1, <4>2, <4>3, AloneCurrent DEF AloneUnderway, Chosen, definitionOf
      <4>. QED BY <1>3, <1>4, <2>3, <3>3, <4>5 DEF Started, k
    <3>. QED BY <3>2, <3>3
  <2>. QED BY <2>1, <2>2, <2>3
<1>7. LogGrows
  <2>. SUFFICES ASSUME NEW g \in Flow, Started(g) PROVE Logged(inst[g][1], inst'[g][1]) BY DEF LogGrows
  <2>. QED BY <1>3 DEF Logged, Unlogged
<1>. QED
  BY <1>1, <1>5, <1>6, <1>7 DEF OverlapInv

LEMMA AloneChosen ==
    ASSUME NEW m, Alone(m), m.call.t \in DOMAIN definitionOf(Current(m)).transitions
    PROVE  /\ Chosen(m).from \in State /\ Chosen(m).to \in State
           /\ Chosen(m).gives \in SUBSET Key /\ Chosen(m).produces \in SUBSET Key
<1>. QED
  BY AloneCurrent, DefinitionType DEF Transition, Chosen

(* A call under way works on a flow that has started.                      *)
LEMMA AloneRun ==
    ASSUME OverlapInv, NEW c \in Call, calls[c].pc # "idle"
    PROVE  /\ Alone(Run(c)) /\ AloneUnderway(Run(c)) /\ Run(c).call = calls[c]
           /\ calls[c].flow \in Flow /\ Started(calls[c].flow)
           /\ Run(c).ins = inst[calls[c].flow] /\ now \in Nat
           /\ calls[c].pc # "chainEnd" =>
                 Run(c).call.t \in DOMAIN definitionOf(Current(Run(c))).transitions
BY DEF OverlapInv, AloneUnderway, Run

(* While no guard rejects and none is asked, the room does not shrink.     *)
LEMMA RoomKept ==
    ASSUME OverlapInv, NEW c \in Call, NEW f \in Flow, Started(f),
           NEW n, Eased(inst[f][1], n.ins[1]), n.call.pc # "guard",
           inst' = [inst EXCEPT ![f] = n.ins], calls' = [calls EXCEPT ![c] = n.call]
    PROVE  RoomForRejections(f)'
<1>. DEFINE x == inst[f][1]
            y == n.ins[1]
            A == AskedGuards(f)
            B == AskedGuards(f)'
<1>1. inst'[f] = n.ins /\ \A b \in Call : calls'[b] = IF b = c THEN n.call ELSE calls[b]
  BY DEF OverlapInv
<1>2. inst[f] \in Seq(Instance) /\ Len(inst[f]) = 1 /\ RoomForRejections(f) BY DEF OverlapInv
<1>3. x \in Instance BY <1>2, ElementOfSeq
<1>4. B \subseteq A /\ A \subseteq Call BY <1>1 DEF AskedGuards
<1>7. maxRejections(y) = maxRejections(x) /\ maxRejections(x) \in Nat
  BY <1>3, DefinitionType DEF Eased, maxRejections, atLeastOne, definitionOf, Definition
<1>8. x.fails \in Nat /\ y.fails \in Nat /\ y.fails <= x.fails
  BY <1>3 DEF Eased, Instance
<1>9. ASSUME RejectionsCount
      PROVE  /\ ~isCompleted(y) => y.fails < maxRejections(y)
             /\ y.fails + Cardinality(B) < maxRejections(y) + Cardinality(Call)
  <2>1. /\ ~isCompleted(x) => x.fails < maxRejections(x)
        /\ x.fails + Cardinality(A) < maxRejections(x) + Cardinality(Call)
    BY <1>2, <1>9 DEF RoomForRejections
  <2>2. (isCompleted(x) => isCompleted(y)) /\ IsFiniteSet(Call) BY <1>9 DEF Eased, RejectionsCount
  <2>. HIDE DEF A, B, x, y
  <2>. QED
    BY <1>4, FS_Subset, FS_CardinalityType, <1>7, <1>8, <2>1, <2>2
<1>. QED BY <1>1, <1>9 DEF RoomForRejections, maxRejections, RejectionsCount, RejectionsEnd

LEMMA TurnedInv ==
    ASSUME OverlapInv, NEW c \in Call, calls[c].pc # "idle",
           NEW n, Turned(Run(c), n), Step(c, n)
    PROVE  OverlapInv' /\ LogGrows
<1>1. PICK f \in Flow : f = calls[c].flow BY AloneRun
<1>3. /\ inst' = [inst EXCEPT ![f] = n.ins] /\ context' = [context EXCEPT ![f] = n.ctx]
      /\ calls' = [calls EXCEPT ![c] = n.call] /\ UNCHANGED now
  BY <1>1, Zenon DEF Step, Commit
<1>. QED
  BY <1>1, AloneRun, <1>3, RoomKept, CommitAlone DEF Turned, Eased

(* A rejection uses the room it had: the failure it counts is no longer    *)
(* under way, and the last one ends the flow.                              *)
LEMMA AloneRejects ==
    ASSUME OverlapInv, NEW c \in Call, GuardRejected(c)
    PROVE  OverlapInv' /\ LogGrows
<1>. DEFINE m == Run(c)
            x == Current(m)
            z == incrementGuardFailure(x)
            y == IF z.fails >= definitionOf(z).maxGuardRetries
                 THEN handleError(z, Chosen(m).from, None) ELSE z
            k == setCurrent(m, y)
            n == return(k)
<1>1. calls[c].pc = "guard" /\ Step(c, n) BY DEF GuardRejected
<1>2. PICK f \in Flow : f = calls[c].flow BY <1>1, AloneRun
<1>3. /\ Alone(m) /\ AloneUnderway(m) /\ m.call = calls[c] /\ Started(f)
      /\ m.ins = inst[f] /\ now \in Nat
      /\ m.call.t \in DOMAIN definitionOf(x).transitions
  BY <1>1, <1>2, AloneRun
<1>4. x \in Instance /\ x = inst[f][1] /\ Chosen(m).from \in State
  BY <1>3, AloneCurrent, AloneChosen
<1>5. /\ z \in Instance /\ z.def = x.def /\ z.fails = x.fails + 1
      /\ isCompleted(x) => isCompleted(z)
      /\ SameLog(x, z)
  BY <1>4 DEF incrementGuardFailure, Instance, isCompleted, SameLog
<1>6. RejectionsCount => definitionOf(x).onError[Chosen(m).from] \in definitionOf(x).terminal \cup {None}
  BY <1>1, <1>3, <1>4 DEF AloneUnderway, Alone, RejectionsCount, RejectionsEnd, definitionOf, Chosen
<1>8. /\ Eased(z, y) /\ Logged(z, y)
      /\ RejectionsCount => isCompleted(y) \/ y.fails < definitionOf(x).maxGuardRetries
  <2>. HIDE DEF x, z
  <2>1. CASE z.fails >= definitionOf(z).maxGuardRetries
    BY <1>3, <1>4, <1>5, <1>6, <2>1, HandleErrorEases DEF definitionOf, ErrorTarget
  <2>2. CASE ~(z.fails >= definitionOf(z).maxGuardRetries)
    <3>. QED
      BY <1>5, <2>2, DefinitionType, Unmoved DEF definitionOf, Instance, Definition
  <2>. QED BY <2>1, <2>2
<1>9. /\ y \in Instance /\ y.def = x.def /\ y.fails <= x.fails + 1
      /\ isCompleted(x) => isCompleted(y)
  BY <1>5, <1>8 DEF Eased
<1>7. Logged(x, y) BY <1>5, <1>8 DEF SameLog, Logged, Unlogged, definitionOf
<1>. HIDE DEF x, z, y, m
<1>10. Alone(k) /\ k.ins[1] = y BY <1>3, <1>4, <1>9, AlonePut
<1>. HIDE DEF k
<1>11. Turned(k, n) /\ n.call.pc = "idle" /\ n.ins[1] = y
  <2>1. n = [k EXCEPT !.call = Idle("returned")] BY DEF return
  <2>. HIDE DEF n
  <2>2. "returned" \in Result BY DEF Result
  <2>. QED BY <1>10, <2>1, <2>2, AloneEnds
<1>. HIDE DEF n
<1>12. /\ inst' = [inst EXCEPT ![f] = n.ins] /\ context' = [context EXCEPT ![f] = n.ctx]
       /\ calls' = [calls EXCEPT ![c] = n.call] /\ UNCHANGED now
  BY <1>1, <1>2, Zenon DEF Step, Commit
<1>13. ASSUME RejectionsCount PROVE RoomForRejections(f)'
  <2>. DEFINE A == AskedGuards(f)
              B == AskedGuards(f)'
  <2>1. inst'[f] = n.ins /\ \A b \in Call : calls'[b] = IF b = c THEN n.call ELSE calls[b]
    BY <1>12 DEF OverlapInv
  <2>2. c \in A /\ B = A \ {c} /\ A \subseteq Call
    BY <1>1, <1>2, <1>11, <2>1 DEF AskedGuards
  <2>3. /\ Cardinality(B) = Cardinality(A) - 1 /\ Cardinality(A) \in Nat
        /\ Cardinality(Call) \in Nat
    BY <1>13, <2>2, FS_Subset, FS_RemoveElement, FS_CardinalityType DEF RejectionsCount
  <2>4. definitionOf(x).maxGuardRetries \in Nat BY <1>4, DefinitionType DEF Definition
  <2>5. maxRejections(y) = maxRejections(x) /\ maxRejections(x) \in Nat
        /\ definitionOf(x).maxGuardRetries <= maxRejections(x)
    BY <1>9, <2>4 DEF maxRejections, atLeastOne, definitionOf
  <2>7. x.fails + Cardinality(A) < maxRejections(x) + Cardinality(Call)
    BY <1>3, <1>4, <1>13 DEF OverlapInv, RoomForRejections
  <2>. HIDE DEF A, B
  <2>8. /\ ~isCompleted(y) => y.fails < maxRejections(y)
        /\ y.fails + Cardinality(B) < maxRejections(y) + Cardinality(Call)
    BY <1>8, <1>9, <1>13, <2>3, <2>4, <2>5, <1>4, <2>7 DEF Instance
  <2>. QED BY <1>11, <2>1, <2>8 DEF RoomForRejections, maxRejections, B
<1>14. RoomForRejections(f)'
  BY <1>13 DEF RoomForRejections, RejectionsCount, RejectionsEnd
<1>. QED
  BY <1>2, <1>3, <1>4, <1>7, <1>9, <1>11, <1>12, <1>14, CommitAlone DEF Turned

(* What a guard or a processor puts into the context does not matter.      *)
LEMMA AloneGiven ==
    ASSUME NEW m, Alone(m), NEW data \in SUBSET Key, NEW n, n = [m EXCEPT !.ctx = @ \cup data]
    PROVE  Alone(n) /\ n.ins = m.ins /\ n.call = m.call /\ Chosen(n) = Chosen(m)
<1>. QED
  BY AloneSame, AloneCurrent DEF Chosen, Alone, SameChain

(* The transition is the next thing the call waits for.                    *)
LEMMA AloneWaits ==
    ASSUME NEW m, Alone(m), m.call.flow \in Flow, NEW n, SameChain(m, n),
           n.call.pc \in {"process", "branchProcess"},
           n.call.t \in DOMAIN definitionOf(Current(m)).transitions
    PROVE  Turned(m, n)
<1>. QED
  BY AloneSame, AloneCurrent, Unmoved DEF Turned, AloneUnderway, SameChain

LEMMA AloneAccepts ==
    ASSUME OverlapInv, \A n \in Root : ~hasSubFlow(Def[n]), NEW c \in Call, GuardAccepted(c)
    PROVE  \E n : Step(c, n) /\ Turned(Run(c), n)
<1>. DEFINE m == Run(c)
<1>1. PICK data \in SUBSET Chosen(m).gives :
        LET k == [m EXCEPT !.call.backup = m.ctx, !.ctx = @ \cup data]
        IN  IF Chosen(k).processor
            THEN Step(c, [k EXCEPT !.call.pc = "process"])
            ELSE ExternalTo(c, k)
  BY DEF GuardAccepted
<1>. DEFINE k == [m EXCEPT !.call.backup = m.ctx, !.ctx = @ \cup data]
            n == [k EXCEPT !.call.pc = "process"]
<1>2. /\ Alone(m) /\ m.call.flow \in Flow /\ now \in Nat
      /\ m.call.t \in DOMAIN definitionOf(Current(m)).transitions
  BY AloneRun DEF GuardAccepted
<1>3. /\ Chosen(m).from \in State /\ Chosen(m).to \in State /\ Chosen(m).gives \in SUBSET Key
  BY <1>2, AloneChosen
<1>4. m \in [ins: Seq(Instance), ctx: SUBSET Key, call: Frame] BY <1>2 DEF Alone
<1>5. CASE Chosen(k).processor
  <2>1. Step(c, n) BY <1>1, <1>5
  <2>. HIDE DEF m
  <2>2. SameChain(m, n) /\ n.call.t = m.call.t /\ n.call.pc = "process"
    BY <1>3, <1>4 DEF SameChain, Frame, PC
  <2>. HIDE DEF n
  <2>. QED BY <1>2, <2>1, <2>2, AloneWaits DEF m
<1>6. CASE ~Chosen(k).processor
  <2>1. ExternalTo(c, k) BY <1>1, <1>6
  <2>. HIDE DEF m
  <2>2. SameChain(m, k) /\ k.call.t = m.call.t BY <1>3, <1>4 DEF SameChain, Frame
  <2>. HIDE DEF k
  <2>3. /\ Alone(k) /\ Eased(m.ins[1], k.ins[1]) /\ k.call.flow = m.call.flow
        /\ Chosen(k) = Chosen(m) /\ Unlogged(m.ins[1], k.ins[1])
    BY <1>2, <2>2, AloneSame, AloneCurrent, Unmoved DEF SameChain, Chosen
  <2>4. PICK r : Step(c, r) /\ Turned(k, r) BY <1>2, <1>3, <2>1, <2>3, AloneExternalTo
  <2>. QED BY <1>2, <2>3, <2>4, TurnedOn DEF m
<1>. QED BY <1>5, <1>6

LEMMA AloneDecides ==
    ASSUME OverlapInv, \A n \in Root : ~hasSubFlow(Def[n]), NEW c \in Call, Decide(c)
    PROVE  \E n : Step(c, n) /\ Turned(Run(c), n)
<1>. DEFINE m == Run(c)
<1>1. PICK label \in Label :
        IF labelled(m, label) = {}
        THEN Step(c, failStep(m, FlowErrorClass))
        ELSE LET k == [m EXCEPT !.call.t = First(labelled(m, label))]
             IN  IF Chosen(k).processor
                 THEN Step(c, [k EXCEPT !.call.pc = "branchProcess"])
                 ELSE StepTo(c, k, Chosen(k).to)
  BY DEF Decide
<1>. DEFINE L == labelled(m, label)
            t == First(L)
            k == [m EXCEPT !.call.t = t]
            n == [k EXCEPT !.call.pc = "branchProcess"]
<1>2. /\ Alone(m) /\ m.call.flow \in Flow /\ now \in Nat
      /\ m \in [ins: Seq(Instance), ctx: SUBSET Key, call: Frame]
  BY AloneRun DEF Decide, Alone
<1>3. CASE L = {} BY <1>1, <1>2, <1>3, AloneFailStep
<1>4. CASE L # {}
  <2>1. L \subseteq DOMAIN definitionOf(Current(m)).transitions
    BY DEF labelled, ofType, transitionsFrom
  <2>. HIDE DEF L
  <2>3. t \in L /\ t \in Nat
    BY <1>4, <1>2, <2>1, AloneCurrent, DefinitionType, FirstIn
  <2>4. CASE Chosen(k).processor
    <3>1. Step(c, n) BY <1>1, <1>4, <2>4 DEF L
    <3>. HIDE DEF m, t
    <3>2. SameChain(m, n) /\ n.call.t = t /\ n.call.pc = "branchProcess"
      BY <1>2, <2>3 DEF SameChain, Frame, PC
    <3>. HIDE DEF n
    <3>. QED BY <1>2, <2>1, <2>3, <3>1, <3>2, AloneWaits DEF m
  <2>5. CASE ~Chosen(k).processor
    <3>1. StepTo(c, k, Chosen(k).to) BY <1>1, <1>4, <2>5 DEF L
    <3>. HIDE DEF m, t
    <3>2. SameChain(m, k) /\ k.call.t = t BY <1>2, <2>3 DEF SameChain, Frame
    <3>. HIDE DEF k
    <3>3. /\ Alone(k) /\ Eased(m.ins[1], k.ins[1]) /\ k.call.flow = m.call.flow
          /\ k.call.t \in DOMAIN definitionOf(Current(k)).transitions
          /\ Unlogged(m.ins[1], k.ins[1])
      BY <1>2, <2>1, <2>3, <3>2, AloneSame, AloneCurrent, Unmoved DEF SameChain
    <3>4. PICK r : Step(c, r) /\ Turned(k, r) BY <1>2, <3>1, <3>3, AloneChosen, AloneStepTo
    <3>. QED BY <1>2, <3>3, <3>4, TurnedOn DEF m
  <2>. QED BY <2>4, <2>5
<1>. QED BY <1>3, <1>4

(* A call that writes back what its turn made of the data it was given.    *)
LEMMA AloneStepGiven ==
    ASSUME \A n \in Root : ~hasSubFlow(Def[n]), now \in Nat, NEW c \in Call,
           NEW m, Alone(m), m.call.flow \in Flow,
           m.call.t \in DOMAIN definitionOf(Current(m)).transitions,
           NEW puts \in SUBSET Chosen(m).produces, NEW k, k = [m EXCEPT !.ctx = @ \cup puts],
           \/ ExternalTo(c, k) \/ StepTo(c, k, Chosen(m).to)
           \/ \E cause : Step(c, failStep(k, cause))
    PROVE  \E n : Step(c, n) /\ Turned(m, n)
<1>1. /\ Chosen(m).from \in State /\ Chosen(m).to \in State /\ puts \in SUBSET Key
  BY AloneChosen
<1>2. /\ Alone(k) /\ Eased(m.ins[1], k.ins[1]) /\ k.call.flow = m.call.flow
      /\ Chosen(k) = Chosen(m) /\ Unlogged(m.ins[1], k.ins[1])
  BY <1>1, AloneGiven, AloneCurrent, Unmoved
<1>3. \E n : Step(c, n) /\ Turned(k, n)
  BY <1>1, <1>2, AloneExternalTo, AloneStepTo, AloneFailStep
<1>. QED BY <1>2, <1>3, TurnedOn

(* Whatever a call waits for, unless a guard rejects.                      *)
LEMMA AloneContinues ==
    ASSUME OverlapInv, \A n \in Root : ~hasSubFlow(Def[n]), NEW c \in Call, Continue(c),
           ~GuardRejected(c)
    PROVE  calls[c].pc # "idle" /\ \E n : Step(c, n) /\ Turned(Run(c), n)
<1>. DEFINE m == Run(c)
<1>0. calls[c].pc # "idle"
  BY DEF Continue, GuardAccepted, GuardExpired, GuardThrows, ProcessDone, ProcessThrows,
     AutoDone, AutoThrows, Decide, DecideThrows, BranchProcessDone, BranchProcessThrows,
     EnterSubFlow, ChainReturns, SubChainEnds, ResumedChainEnds, SubGuardAccepted,
     SubGuardRejected, SubGuardExpired
<1>1. /\ Alone(m) /\ m.call = calls[c] /\ m.call.flow \in Flow /\ now \in Nat
      /\ calls[c].pc \in {"guard", "process", "auto", "decide", "branchProcess", "chainEnd"}
      /\ calls[c].base = 1 /\ Len(calls[c].depth) = 1
      /\ calls[c].pc # "chainEnd" => m.call.t \in DOMAIN definitionOf(Current(m)).transitions
  BY <1>0, AloneRun DEF AloneUnderway, Alone
<1>2. CASE GuardAccepted(c) BY <1>0, <1>2, AloneAccepts
<1>3. CASE GuardExpired(c)
  <2>. DEFINE y == complete(Current(m), "EXPIRED")
              k == setCurrent(m, y)
  <2>1. Step(c, return(k)) BY <1>3 DEF GuardExpired
  <2>2. Eased(m.ins[1], y) /\ Unlogged(m.ins[1], y)
    BY <1>1, AloneCurrent, CompleteEases DEF Exit, ExitCode
  <2>. HIDE DEF m, y
  <2>3. /\ Alone(k) /\ Eased(m.ins[1], k.ins[1]) /\ k.call.flow = m.call.flow
        /\ Unlogged(m.ins[1], k.ins[1])
    BY <1>1, <2>2, AlonePut DEF Eased
  <2>. HIDE DEF k
  <2>4. Turned(k, return(k)) BY <2>3, AloneEnds DEF return, Result
  <2>. QED BY <1>0, <1>1, <2>1, <2>3, <2>4, TurnedOn DEF m
<1>4. CASE GuardThrows(c) BY <1>0, <1>1, <1>4, AloneEnds DEF GuardThrows, throw, Result
<1>5. CASE ProcessDone(c)
  BY <1>0, <1>1, <1>5, AloneStepGiven DEF ProcessDone
<1>6. CASE ProcessThrows(c)
  BY <1>0, <1>1, <1>6, AloneChosen, AloneFailExternal DEF ProcessThrows
<1>7. CASE AutoDone(c)
  <2>1. PICK puts \in SUBSET Chosen(m).produces :
          LET k == [m EXCEPT !.ctx = @ \cup puts]
          IN  IF producesVerified(k) THEN StepTo(c, k, Chosen(k).to)
              ELSE Step(c, failStep(k, FlowErrorClass))
    BY <1>7 DEF AutoDone
  <2>. DEFINE k == [m EXCEPT !.ctx = @ \cup puts]
  <2>2. calls[c].pc # "chainEnd" BY <1>7 DEF AutoDone
  <2>. HIDE DEF m
  <2>4. Chosen(k) = Chosen(m)
    BY <1>1, <2>2, AloneChosen, AloneGiven
  <2>. HIDE DEF k
  <2>6. k = [m EXCEPT !.ctx = @ \cup puts] BY DEF k
  <2>. QED
    BY <1>0, <1>1, <2>2, <2>1, <2>4, <2>6, AloneStepGiven DEF m
<1>8. CASE AutoThrows(c) BY <1>0, <1>1, <1>8, AloneFailStep DEF AutoThrows
<1>9. CASE Decide(c) BY <1>0, <1>9, AloneDecides
<1>10. CASE DecideThrows(c) BY <1>0, <1>1, <1>10, AloneFailStep DEF DecideThrows
<1>11. CASE BranchProcessDone(c)
  BY <1>0, <1>1, <1>11, AloneStepGiven DEF BranchProcessDone
<1>12. CASE BranchProcessThrows(c)
  BY <1>0, <1>1, <1>12, AloneFailStep DEF BranchProcessThrows
<1>13. CASE ChainReturns(c) BY <1>0, <1>1, <1>13, AloneEnds DEF ChainReturns, return, Result
<1>14. ~EnterSubFlow(c) /\ ~SubChainEnds(c) /\ ~ResumedChainEnds(c)
  BY <1>1 DEF EnterSubFlow, SubChainEnds, ResumedChainEnds
<1>15. ~SubGuardAccepted(c) /\ ~SubGuardRejected(c) /\ ~SubGuardExpired(c)
  BY <1>1 DEF SubGuardAccepted, SubGuardRejected, SubGuardExpired
<1>. QED
  BY <1>2, <1>3, <1>4, <1>5, <1>6, <1>7, <1>8, <1>9, <1>10, <1>11, <1>12, <1>13, <1>14, <1>15
     DEF Continue

(* A flow that starts has no call that could reject.                       *)
LEMMA AloneStarts ==
    ASSUME OverlapInv, \A n \in Root : ~hasSubFlow(Def[n]),
           NEW c \in Call, NEW f \in Flow, NEW name \in Root, NEW keys \in Event,
           StartFlow(c, f, name, keys)
    PROVE  OverlapInv' /\ LogGrows
<1>. DEFINE x == NewInstance(name, now)
            k == [Idle("none") EXCEPT !.flow = f]
            m == [ins |-> <<x>>, ctx |-> keys, call |-> k]
            n == loop(m)
<1>1. /\ inst' = [inst EXCEPT ![f] = n.ins] /\ context' = [context EXCEPT ![f] = n.ctx]
      /\ calls' = [calls EXCEPT ![c] = n.call] /\ UNCHANGED now
      /\ ~Started(f) /\ calls[c].pc = "idle"
  BY DEF StartFlow, Started
<1>2. /\ now \in Nat /\ calls[c].flow = None /\ None \notin Flow
      /\ \A b \in Call : calls[b].flow # f
  BY <1>1, EngineAssumption DEF OverlapInv
<1>3. x \in Instance /\ x.def = name /\ x.fails = 0 /\ x.last.to = x.state
  BY <1>2, NewInstanceType, EngineAssumption DEF NewInstance
<1>4. k \in Frame /\ k.flow = f /\ k.base = 1 /\ Len(k.depth) = 1
  <2>. HIDE DEF Idle
  <2>. QED
    BY IdleType DEF Frame, Result
<1>. HIDE DEF x, k
<1>5. Alone(m) /\ m.call.flow = f /\ m.ins[1] = x BY <1>3, <1>4, EngineAssumption DEF Alone
<1>. HIDE DEF m
<1>6. Turned(m, n) /\ SameLog(x, n.ins[1]) BY <1>2, <1>5, AloneLoop
<1>. HIDE DEF n
<1>7. Recorded(n.ins[1]) BY <1>3, <1>6 DEF Recorded, SameLog
<1>8. ASSUME RejectionsCount PROVE RoomForRejections(f)'
  <2>1. inst'[f] = n.ins /\ \A b \in Call : calls'[b] = IF b = c THEN n.call ELSE calls[b]
    BY <1>1 DEF OverlapInv
  <2>4. n.ins[1] \in Instance /\ n.ins[1].fails = 0
    BY <1>3, <1>5, <1>6 DEF Turned, Eased, Instance
  <2>6. /\ n.ins[1].fails < maxRejections(n.ins[1])
        /\ n.ins[1].fails + Cardinality({}) < maxRejections(n.ins[1]) + Cardinality(Call)
    BY <1>8, FS_EmptySet, FS_CardinalityType, <2>4, DefinitionType
       DEF maxRejections, atLeastOne, Definition, RejectionsCount
  <2>. QED
    BY <2>1, <1>2, <1>6, <2>6 DEF RoomForRejections, maxRejections, AskedGuards, Turned
<1>9. RoomForRejections(f)' BY <1>8 DEF RoomForRejections, RejectionsCount, RejectionsEnd
<1>. QED BY <1>1, <1>2, <1>5, <1>6, <1>7, <1>9, CommitAlone DEF Turned

(* A resume asks a guard, unless the call ends before it.                  *)
LEMMA AloneSelects ==
    ASSUME NEW m, Alone(m), m.call.pc = "guard", m.call.flow \in Flow, NEW keys,
           NEW n, n = beginRootGuard(selectExternal(m, keys))
    PROVE  \/ Turned(m, n)
           \/ AloneUnderway(n) /\ n.ins = m.ins /\ n.call.flow = m.call.flow
<1>. DEFINE x     == Current(m)
            d     == definitionOf(x)
            cands == Candidates(d, x.state, keys)
            s     == selectExternal(m, keys)
<1>1. m \in [ins: Seq(Instance), ctx: SUBSET Key, call: Frame] /\ x \in Instance
  BY AloneCurrent DEF Alone
<1>2. CASE ~\E i \in cands : cands = {i}
  <2>1. PICK code \in Result : s = throw(m, code) BY <1>2 DEF selectExternal, Result
  <2>. QED
    BY <2>1, AloneEnds DEF beginRootGuard, throw
<1>3. CASE \E i \in cands : cands = {i}
  <2>. DEFINE t == First(cands)
              y == complete(Current(s), "EXPIRED")
              k == setCurrent(s, y)
  <2>1. cands \subseteq externalsFrom(d, x.state) BY CandidatesAreExternals
  <2>2. s = [m EXCEPT !.call.t = t] BY <1>3, <2>1 DEF selectExternal
  <2>3. \A i \in externalsFrom(d, x.state) :
           i \in DOMAIN d.transitions /\ d.transitions[i].type = "external"
    BY DEF externalsFrom, ofType, transitionsFrom
  <2>. HIDE DEF cands
  <2>5. t \in cands /\ t \in Nat
    BY <1>3, <1>1, <2>1, <2>3, DefinitionType, FirstIn
  <2>6. t \in DOMAIN d.transitions /\ d.transitions[t].type = "external" BY <2>1, <2>3, <2>5
  <2>. HIDE DEF t, d, x, s
  <2>7. SameChain(m, s) /\ s.call.t = t /\ s.call.pc = "guard"
    BY <1>1, <2>2, <2>5 DEF SameChain, Frame
  <2>8. /\ Alone(s) /\ Current(s) = x /\ s.ins = m.ins /\ s.call.flow = m.call.flow
        /\ Chosen(s).type = "external" /\ s.call.t \in DOMAIN definitionOf(Current(s)).transitions
    BY <2>6, <2>7, AloneSame, AloneCurrent DEF SameChain, Chosen, d, x
  <2>9. CASE timedOut(s)
    <3>1. n = return(k) BY <2>7, <2>9 DEF beginRootGuard, s
    <3>2. Eased(s.ins[1], y) /\ Unlogged(s.ins[1], y)
      BY <2>8, AloneCurrent, CompleteEases DEF Exit, ExitCode
    <3>. HIDE DEF y
    <3>3. /\ Alone(k) /\ Eased(s.ins[1], k.ins[1]) /\ k.call.flow = s.call.flow
          /\ Unlogged(s.ins[1], k.ins[1])
      BY <2>8, <3>2, AlonePut DEF Eased
    <3>. HIDE DEF k
    <3>. QED
      BY <2>8, <3>1, <3>3, AloneEnds, TurnedOn DEF return, Result
  <2>10. CASE ~timedOut(s)
    <3>2. n = s
      BY <2>7, <2>8, <2>10 DEF Alone, Frame, beginRootGuard, s
    <3>. QED BY <2>7, <2>8, <3>2 DEF AloneUnderway
  <2>. QED BY <2>9, <2>10
<1>. QED BY <1>2, <1>3

(* A guard is asked of an open flow only, so there is room for one more.   *)
LEMMA AloneResumes ==
    ASSUME OverlapInv, NEW c \in Call, NEW f \in Flow, NEW keys \in Event, Resume(c, f, keys)
    PROVE  OverlapInv' /\ LogGrows
<1>. DEFINE k == [Idle("none") EXCEPT !.flow = f, !.pc = "guard"]
            m == [ins |-> inst[f], ctx |-> context[f] \cup keys, call |-> k]
            y == complete(Current(m), "EXPIRED")
<1>1. /\ Started(f) /\ Len(inst[f]) = 1 /\ inst[f] \in Seq(Instance) /\ inst[f][1].def \in Root
      /\ context[f] \in SUBSET Key /\ RoomForRejections(f)
      /\ calls[c].pc = "idle" /\ calls[c].flow = None
      /\ inst \in [Flow -> Seq(Instance)] /\ context \in [Flow -> SUBSET Key]
  BY DEF Resume, OverlapInv, Started
<1>2. k \in Frame /\ k.flow = f /\ k.pc = "guard" /\ k.base = 1 /\ Len(k.depth) = 1
  <2>. HIDE DEF Idle
  <2>. QED
    BY IdleType DEF Frame, PC, Result
<1>. HIDE DEF k
<1>3. Alone(m) /\ m.call = k /\ m.ins = inst[f] BY <1>1, <1>2, EngineAssumption DEF Alone
<1>4. \E n : /\ inst' = [inst EXCEPT ![f] = n.ins] /\ context' = [context EXCEPT ![f] = n.ctx]
             /\ calls' = [calls EXCEPT ![c] = n.call] /\ UNCHANGED now
             /\ \/ Turned(m, n)
                \/ /\ AloneUnderway(n) /\ n.ins = inst[f] /\ n.call.flow = f
                   /\ ~isCompleted(inst[f][1])
  <2>1. CASE ~loadForUpdate(f)
    <3>. DEFINE a == [m EXCEPT !.ctx = context[f]]
                n == [a EXCEPT !.call = Idle("FLOW_NOT_FOUND")]
    <3>1. /\ calls' = [calls EXCEPT ![c] = Idle("FLOW_NOT_FOUND")]
          /\ UNCHANGED <<inst, context, now>>
      BY <2>1 DEF Resume
    <3>. HIDE DEF m
    <3>2. SameChain(m, a) /\ a.ins = inst[f] /\ a.ctx = context[f]
      BY <1>1, <1>3 DEF Alone, SameChain
    <3>. HIDE DEF a
    <3>3. /\ Alone(a) /\ Eased(m.ins[1], a.ins[1]) /\ a.call.flow = m.call.flow
          /\ Unlogged(m.ins[1], a.ins[1])
      BY <1>3, <3>2, AloneSame, AloneCurrent, Unmoved DEF SameChain
    <3>5. Turned(a, n)
      BY <3>3, AloneEnds DEF Result
    <3>7. n.ins = inst[f] /\ n.ctx = context[f] /\ n.call = Idle("FLOW_NOT_FOUND")
      BY <3>2, <3>3 DEF Alone
    <3>. HIDE DEF n
    <3>8. /\ inst' = [inst EXCEPT ![f] = n.ins] /\ context' = [context EXCEPT ![f] = n.ctx]
          /\ calls' = [calls EXCEPT ![c] = n.call]
      BY <1>1, <3>1, <3>7
    <3>. QED
      BY <3>1, <1>3, <3>3, <3>5, TurnedOn, <3>8
  <2>2. CASE loadForUpdate(f) /\ ttlElapsed(f)
    <3>. DEFINE a == setCurrent(m, y)
                n == return(a)
    <3>1. Commit(c, f, n) BY <2>2 DEF Resume, k
    <3>2. Eased(m.ins[1], y) /\ Unlogged(m.ins[1], y)
      BY <1>3, AloneCurrent, CompleteEases DEF Exit, ExitCode
    <3>. HIDE DEF y, m
    <3>3. /\ Alone(a) /\ Eased(m.ins[1], a.ins[1]) /\ a.call.flow = m.call.flow
          /\ Unlogged(m.ins[1], a.ins[1])
      BY <1>3, <3>2, AlonePut DEF Eased
    <3>. HIDE DEF a
    <3>5. Turned(m, n)
      BY <1>3, <3>3, AloneEnds, TurnedOn DEF return, Result
    <3>. HIDE DEF n
    <3>. QED BY <3>1, <3>5 DEF Commit
  <2>3. CASE loadForUpdate(f) /\ ~ttlElapsed(f)
    <3>. DEFINE n == beginRootGuard(selectExternal(m, keys))
    <3>1. Commit(c, f, n) BY <1>1, <2>3 DEF Resume, k
    <3>2. ~isCompleted(inst[f][1]) BY <2>3 DEF loadForUpdate
    <3>. HIDE DEF m
    <3>3. \/ Turned(m, n)
          \/ AloneUnderway(n) /\ n.ins = inst[f] /\ n.call.flow = f
      BY <1>2, <1>3, AloneSelects
    <3>. HIDE DEF n
    <3>. QED BY <3>1, <3>2, <3>3 DEF Commit
  <2>. QED BY <2>1, <2>2, <2>3
<1>. HIDE DEF m
<1>5. PICK n : /\ inst' = [inst EXCEPT ![f] = n.ins] /\ context' = [context EXCEPT ![f] = n.ctx]
               /\ calls' = [calls EXCEPT ![c] = n.call] /\ UNCHANGED now
               /\ \/ Turned(m, n)
                  \/ /\ AloneUnderway(n) /\ n.ins = inst[f] /\ n.call.flow = f
                     /\ ~isCompleted(inst[f][1])
  BY <1>4
<1>6. CASE Turned(m, n)
  <2>1. RoomForRejections(f)' BY <1>1, <1>3, <1>5, <1>6, RoomKept DEF Turned
  <2>. QED BY <1>1, <1>2, <1>3, <1>5, <1>6, <2>1, CommitAlone DEF Turned, Eased
<1>7. CASE AloneUnderway(n) /\ n.ins = inst[f] /\ n.call.flow = f /\ ~isCompleted(inst[f][1])
  <2>. DEFINE x == inst[f][1]
              B == AskedGuards(f)'
  <2>1. inst'[f] = inst[f] BY <1>1, <1>5, <1>7
  <2>3. RejectionsCount =>
          /\ Cardinality(B) <= Cardinality(Call) /\ Cardinality(B) \in Nat /\ Cardinality(Call) \in Nat
    BY FS_Subset, FS_CardinalityType DEF AskedGuards, RejectionsCount
  <2>5. maxRejections(x) \in Nat /\ x.fails \in Nat
    BY <1>3, AloneCurrent, DefinitionType DEF maxRejections, atLeastOne, Definition,
       Instance
  <2>6. RejectionsCount => x.fails < maxRejections(x) BY <1>1, <1>7 DEF RoomForRejections
  <2>. HIDE DEF B, x
  <2>8. RoomForRejections(f)'
    BY <2>1, <2>6, <2>3, <2>5
       DEF RoomForRejections, maxRejections, B, x, RejectionsCount, RejectionsEnd
  <2>9. Logged(inst[f][1], n.ins[1]) BY <1>3, <1>7, AloneCurrent, Unmoved
  <2>. QED BY <1>1, <1>5, <1>7, <2>8, <2>9, CommitAlone DEF AloneUnderway
<1>. QED BY <1>5, <1>6, <1>7

(* The invariant, over calls that overlap.                                 *)
LEMMA OverlapInvariance ==
    ASSUME \A n \in Root : ~hasSubFlow(Def[n])
    PROVE  Spec => []OverlapInv /\ [][LogGrows]_vars
<1>1. Init => OverlapInv
  <2>. HIDE DEF Idle
  <2>. QED
    BY IdleType DEF Init, OverlapInv, Started, Result
<1>2. ASSUME OverlapInv, [Next]_vars PROVE OverlapInv' /\ LogGrows
  <2>. USE <1>2
  <2>1. ASSUME NEW c \in Call, Continue(c) PROVE OverlapInv' /\ LogGrows
    <3>1. CASE GuardRejected(c) BY <3>1, AloneRejects
    <3>2. CASE ~GuardRejected(c) BY <2>1, <3>2, AloneContinues, TurnedInv
    <3>. QED BY <3>1, <3>2
  <2>2. CASE Tick \/ Clear \/ UNCHANGED vars
    <3>1. UNCHANGED <<inst, context, calls>> /\ now' \in Nat
      BY <2>2 DEF Tick, Clear, vars, OverlapInv
    <3>2. LogGrows BY <3>1 DEF LogGrows, Logged, Unlogged
    <3>3. \A c \in Call : Run(c)' = Run(c) BY <3>1 DEF Run
    <3>4. \A f \in Flow : AskedGuards(f)' = AskedGuards(f) BY <3>1 DEF AskedGuards
    <3>5. \A f \in Flow : Started(f) /\ RoomForRejections(f) => RoomForRejections(f)'
      BY <3>1, <3>4 DEF RoomForRejections, RejectionsCount
    <3>6. \A c \in Call : AloneUnderway(Run(c)) => AloneUnderway(Run(c))'
      BY <3>3 DEF AloneUnderway, Alone, Current, Level, Chosen
    <3>7. OverlapInv' BY <3>1, <3>5, <3>6 DEF OverlapInv, Started, Recorded
    <3>. QED BY <3>2, <3>7
  <2>. QED BY <2>1, <2>2, AloneStarts, AloneResumes DEF Next
<1>3. OverlapInv /\ [Next]_vars => OverlapInv' /\ [LogGrows]_vars BY <1>2
<1>. QED BY <1>1, <1>3, PTL DEF Spec

(* Whichever calls overlap, and though a choice may be stale when it is    *)
(* acted on: each record starts where the one before it ends, or in a      *)
(* state whose enter action threw (resumeAndExecute, executeAutoChain and  *)
(* handleError read currentState again after every await).                 *)
THEOREM TheLogIsContinuous ==
    ASSUME \A n \in Root : ~hasSubFlow(Def[n])
    PROVE  Spec => LogIsContinuous
<1>1. OverlapInv /\ [LogGrows]_vars =>
        [\A f \in Flow :
            Started(f) => LET x == inst[f][1]
                              y == inst'[f][1]
                          IN  y.last # x.last =>
                                  \/ y.last.from = x.last.to
                                  \/ y.last.from \in definitionOf(x).enterActions]_vars
  <2>. SUFFICES ASSUME OverlapInv, LogGrows, NEW f \in Flow, Started(f),
                       inst'[f][1].last # inst[f][1].last
                PROVE  LET x == inst[f][1]
                           y == inst'[f][1]
                       IN  \/ y.last.from = x.last.to
                           \/ y.last.from \in definitionOf(x).enterActions
    OBVIOUS
  <2>1. Logged(inst[f][1], inst'[f][1]) /\ Recorded(inst[f][1]) BY DEF OverlapInv, LogGrows
  <2>. QED BY <2>1 DEF Logged, Unlogged, Recorded
<1>. QED BY <1>1, OverlapInvariance, PTL DEF LogIsContinuous

(* Callers that do not serialise their resumes can have at most one more   *)
(* rejection counted for each call that was under way (maxGuardRetries in  *)
(* resumeAndExecute), and no flow with the maximum on its counter is open. *)
THEOREM OverlappingRetriesAreBounded ==
    ASSUME IsFiniteSet(Call),
           \A n \in Root : ~hasSubFlow(Def[n]), \A n \in Root : RejectionsEnd(Def[n])
    PROVE  Spec => []RetriesUnderOverlap
<1>1. ASSUME OverlapInv PROVE RetriesUnderOverlap
  <2>. SUFFICES ASSUME NEW f \in Flow, NEW i \in DOMAIN inst[f]
                PROVE  LET x   == inst[f][i]
                           max == definitionOf(x).maxGuardRetries
                       IN  /\ ~isCompleted(x) => x.fails < max \/ x.fails = 0
                           /\ x.fails < max + Cardinality(Call) \/ x.fails <= Cardinality(Call)
    BY DEF RetriesUnderOverlap
  <2>. DEFINE x == inst[f][1]
              A == AskedGuards(f)
  <2>1. inst[f] \in Seq(Instance) /\ inst[f] # <<>> BY <1>1 DEF OverlapInv
  <2>2. Len(inst[f]) = 1 /\ RoomForRejections(f) BY <1>1, <2>1 DEF OverlapInv, Started
  <2>3. i = 1 /\ x \in Instance BY <2>1, <2>2, LenProperties, ElementOfSeq
  <2>5. Cardinality(A) \in Nat /\ Cardinality(Call) \in Nat
    BY FS_Subset, FS_CardinalityType DEF AskedGuards
  <2>7. /\ ~isCompleted(x) => x.fails < maxRejections(x)
        /\ x.fails + Cardinality(A) < maxRejections(x) + Cardinality(Call)
    BY <2>2 DEF RoomForRejections, RejectionsCount
  <2>. HIDE DEF A, x
  <2>8. /\ ~isCompleted(x) => x.fails < definitionOf(x).maxGuardRetries \/ x.fails = 0
        /\ \/ x.fails < definitionOf(x).maxGuardRetries + Cardinality(Call)
           \/ x.fails <= Cardinality(Call)
    BY <2>5, <2>3, DefinitionType, <2>7 DEF maxRejections, atLeastOne, Definition, Instance
  <2>. QED BY <2>3, <2>8 DEF x
<1>. QED BY <1>1, OverlapInvariance, PTL
=============================================================================
