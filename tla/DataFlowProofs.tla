--------------------------- MODULE DataFlowProofs ---------------------------
(***************************************************************************)
(* For every set of definitions, cyclic or not, and every size of the      *)
(* JavaScript stack: what checkRequiresProduces reports is a gap on some   *)
(* path, and what no path brings is reported.  What holds of the analysis  *)
(* of one definition holds of that of its next version; and two questions  *)
(* the graph answers about two versions, may a processor be replaced and   *)
(* may an instance go on, are answered rightly for every pair.             *)
(*                                                                         *)
(* The walk keeps, for every state it has visited, a set that lies between *)
(* all guarantees and all possibilities; and it forgets no transition of a *)
(* visited state: it has gone through it or some call on the stack will.   *)
(*                                                                         *)
(* The walk that fills the graph repeats the moves of the first one, so    *)
(* that without error routes the graph and the report tell the same.       *)
(***************************************************************************)
EXTENDS DataFlowGraph, SequenceTheorems, FiniteSetTheorems, WellFoundedInduction, TLAPS

Sets == [State -> SUBSET Key]

(* A frame works on a visited state, and the error route it has still to   *)
(* follow is one of that state's.                                          *)
FrameOK(f) ==
    /\ pass = "check" => f.state \in visited["check"]
    /\ f.failing # 0 => /\ pass = "check"
                        /\ f.failing \in DOMAIN design.edges
                        /\ edge(f.failing).from = f.state
                        /\ canFail(edge(f.failing))

StackOK == \A n \in DOMAIN stack : FrameOK(stack[n])

(* Some call will go through transition i.                                 *)
Pending(i) == \E n \in DOMAIN stack : stack[n].state = edge(i).from /\ stack[n].next <= i

NothingForgotten ==
    \A i \in DOMAIN design.edges :
        edge(i).from \in visited["check"] =>
            i \in taken["check"] \/ (pass = "check" /\ Pending(i))

AboveGuarantees ==
    \A g \in Sets : Guarantee(g) =>
        \A s \in visited["check"] : g[s] \subseteq available["check"][s]

BelowPossibilities ==
    \A h \in Sets : Possibility(h) =>
        \A s \in visited["check"] : available["check"][s] \subseteq h[s]

(* The sure gaps of the transitions gone through are in the report.        *)
TakenReported ==
    \A h \in Sets : Possibility(h) =>
        \A i \in taken["check"] : {i} \X gap(edge(i), h[edge(i).from]) \subseteq errors

IndInv ==
    /\ TypeOK
    /\ StackOK
    /\ NothingForgotten
    /\ AboveGuarantees
    /\ BelowPossibilities
    /\ TakenReported
    /\ NoFalseAlarm

-----------------------------------------------------------------------------
(* The parts of the definition have their types.                           *)
LEMMA DesignType ==
    ASSUME TypeOK
    PROVE  /\ DOMAIN design.edges = 1 .. Len(design.edges) /\ Len(design.edges) \in Nat
           /\ \A i \in DOMAIN design.edges : edge(i) \in Edge
           /\ design.initial \in State /\ design.initially \subseteq Key /\ design.provided \subseteq Key
           /\ design.onError \in [State -> State \cup {None}]
<1>1. design \in Design
  BY DEF TypeOK
<1>2. design.edges \in Seq(Edge)
  BY <1>1 DEF Design
<1>3. DOMAIN design.edges = 1 .. Len(design.edges) /\ Len(design.edges) \in Nat
  BY <1>2, LenProperties
<1>4. \A i \in DOMAIN design.edges : edge(i) \in Edge
  BY <1>2, <1>3, ElementOfSeq DEF edge
<1>. QED
  BY <1>1, <1>3, <1>4 DEF Design

(* The stack without and with a changed innermost call.                    *)
LEMMA StackType ==
    ASSUME stack \in Seq(Frame), stack # <<>>
    PROVE  /\ Len(stack) \in Nat \ {0} /\ DOMAIN stack = 1 .. Len(stack)
           /\ Top \in Frame
           /\ Callers \in Seq(Frame)
           /\ DOMAIN Callers = 1 .. Len(stack) - 1
           /\ \A n \in 1 .. Len(stack) - 1 : Callers[n] = stack[n]
           /\ \A f \in Frame :
                /\ Append(Callers, f) \in Seq(Frame)
                /\ DOMAIN Append(Callers, f) = 1 .. Len(stack)
                /\ \A n \in 1 .. Len(stack) - 1 : Append(Callers, f)[n] = stack[n]
                /\ Append(Callers, f)[Len(stack)] = f
<1>1. Len(stack) \in Nat \ {0} /\ DOMAIN stack = 1 .. Len(stack)
  BY EmptySeq, LenProperties
<1>2. Top \in Frame
  BY <1>1, ElementOfSeq DEF Top
<1>3. \A n \in 1 .. Len(stack) - 1 : stack[n] \in Frame
  BY <1>1, ElementOfSeq
<1>4. /\ Callers \in Seq(Frame)
      /\ Len(Callers) = Len(stack) - 1
      /\ \A n \in 1 .. Len(stack) - 1 : Callers[n] = stack[n]
  BY <1>1, <1>3, SubSeqProperties DEF Callers
<1>5. DOMAIN Callers = 1 .. Len(stack) - 1
  BY <1>4, LenProperties
<1>6. ASSUME NEW f \in Frame
      PROVE  /\ Append(Callers, f) \in Seq(Frame)
             /\ DOMAIN Append(Callers, f) = 1 .. Len(stack)
             /\ \A n \in 1 .. Len(stack) - 1 : Append(Callers, f)[n] = stack[n]
             /\ Append(Callers, f)[Len(stack)] = f
  <2>1. /\ Append(Callers, f) \in Seq(Frame)
        /\ Len(Append(Callers, f)) = Len(Callers) + 1
        /\ \A n \in 1 .. Len(Callers) : Append(Callers, f)[n] = Callers[n]
        /\ Append(Callers, f)[Len(Callers) + 1] = f
    BY <1>4, AppendProperties
  <2>2. DOMAIN Append(Callers, f) = 1 .. Len(Append(Callers, f))
    BY <2>1, LenProperties
  <2>3. Len(Callers) + 1 = Len(stack) /\ 1 .. Len(Callers) = 1 .. Len(stack) - 1
    BY <1>1, <1>4
  <2>4. \A n \in 1 .. Len(stack) - 1 : Append(Callers, f)[n] = Callers[n]
    BY <2>1, <2>3
  <2>. QED
    BY <1>4, <2>1, <2>2, <2>3, <2>4
<1>. QED
  BY <1>1, <1>2, <1>4, <1>5, <1>6

(* What an entry into a state does: nothing, or a call for that state,     *)
(* which is visited from then on.                                          *)
Entered(s, rest) ==
    /\ stack' \in Seq(Frame)
    /\ visited' \in [Pass -> SUBSET State]
    /\ available' \in [Pass -> [State -> SUBSET Key]]
    /\ \A n \in DOMAIN rest : n \in DOMAIN stack' /\ stack'[n] = rest[n]
    /\ \A n \in DOMAIN stack' : n \in DOMAIN rest \/ stack'[n] = call(s)
    /\ visited'[pass] = visited[pass] \cup {s}
    /\ s \in visited[pass] \/ \E n \in DOMAIN stack' : stack'[n] = call(s)
    /\ \A p \in Pass : p # pass => visited'[p] = visited[p] /\ available'[p] = available[p]

LEMMA VisitEffect ==
    ASSUME TypeOK, NEW s \in State, NEW A \in SUBSET Key, NEW rest \in Seq(Frame),
           visit(s, A, rest)
    PROVE  Entered(s, rest)
<1>0. /\ visited \in [Pass -> SUBSET State] /\ available \in [Pass -> [State -> SUBSET Key]]
      /\ pass \in Pass
  BY DEF TypeOK
<1>1. call(s) \in Frame
  BY DEF call, Frame
<1>2. /\ Append(rest, call(s)) \in Seq(Frame)
      /\ Len(Append(rest, call(s))) = Len(rest) + 1 /\ Len(rest) \in Nat
      /\ \A n \in 1 .. Len(rest) : Append(rest, call(s))[n] = rest[n]
      /\ Append(rest, call(s))[Len(rest) + 1] = call(s)
  BY <1>1, AppendProperties, LenProperties
<1>3. /\ DOMAIN rest = 1 .. Len(rest)
      /\ DOMAIN Append(rest, call(s)) = 1 .. Len(rest) + 1
  BY <1>2, LenProperties
<1>4. CASE settled(s, A)
  BY <1>0, <1>4 DEF visit, settled, Entered
<1>5. CASE ~settled(s, A)
  <2>1. /\ stack' = Append(rest, call(s))
        /\ visited' = [visited EXCEPT ![pass] = @ \cup {s}]
        /\ available' = [available EXCEPT
               ![pass][s] = IF s \in visited[pass] THEN @ \cap A ELSE A]
    BY <1>5 DEF visit
  <2>2. /\ \A n \in DOMAIN rest : n \in DOMAIN stack' /\ stack'[n] = rest[n]
        /\ \A n \in DOMAIN stack' : n \in DOMAIN rest \/ stack'[n] = call(s)
        /\ \E n \in DOMAIN stack' : stack'[n] = call(s)
    BY <1>2, <1>3, <2>1
  <2>3. /\ visited' \in [Pass -> SUBSET State]
        /\ visited'[pass] = visited[pass] \cup {s}
        /\ \A p \in Pass : p # pass => visited'[p] = visited[p]
    BY <1>0, <2>1
  <2>4. /\ available' \in [Pass -> [State -> SUBSET Key]]
        /\ \A p \in Pass : p # pass => available'[p] = available[p]
    BY <1>0, <2>1
  <2>. QED
    BY <1>2, <2>1, <2>2, <2>3, <2>4 DEF Entered
<1>. QED
  BY <1>4, <1>5

(* Its set of keys stays, shrinks to what it is entered with, or is that.  *)
LEMMA VisitKeys ==
    ASSUME TypeOK, NEW s \in State, NEW A \in SUBSET Key, NEW rest, visit(s, A, rest),
           NEW r \in visited'[pass]
    PROVE  \/ r \in visited[pass] /\ available'[pass][r] = available[pass][r]
           \/ r = s /\ r \in visited[pass] /\ available'[pass][r] = available[pass][r] \cap A
           \/ r = s /\ available'[pass][r] = A
<1>0. /\ visited \in [Pass -> SUBSET State] /\ available \in [Pass -> [State -> SUBSET Key]]
      /\ pass \in Pass
  BY DEF TypeOK
<1>1. CASE settled(s, A)
  BY <1>1 DEF visit
<1>2. CASE ~settled(s, A)
  <2>1. /\ visited' = [visited EXCEPT ![pass] = @ \cup {s}]
        /\ available' = [available EXCEPT
               ![pass][s] = IF s \in visited[pass] THEN @ \cap A ELSE A]
    BY <1>2 DEF visit
  <2>2. r \in visited[pass] \/ r = s
    BY <1>0, <2>1
  <2>3. r # s => available'[pass][r] = available[pass][r]
    BY <1>0, <2>1
  <2>4. available'[pass][s] = IF s \in visited[pass] THEN available[pass][s] \cap A ELSE A
    BY <1>0, <2>1
  <2>. QED
    BY <2>2, <2>3, <2>4
<1>. QED
  BY <1>1, <1>2

-----------------------------------------------------------------------------
(* One transition.                                                         *)

(* What the code computes for a transition has its type, grows with the    *)
(* keys it starts from, and is what the documents say.                     *)
LEMMA EdgeKeys ==
    ASSUME TypeOK, NEW e \in Edge, NEW A \in SUBSET Key
    PROVE  /\ propagate(e, A) \in SUBSET Key /\ rollback(e, A) \in SUBSET Key
           /\ missing(e, A) \in SUBSET Key
           /\ \A B \in SUBSET Key : B \subseteq A => /\ success(e, B) \subseteq propagate(e, A)
                                                     /\ failure(e, B) \subseteq rollback(e, A)
                                                     /\ missing(e, A) \subseteq gap(e, B)
           /\ \A B \in SUBSET Key : A \subseteq B => /\ propagate(e, A) \subseteq success(e, B)
                                                     /\ rollback(e, A) \subseteq failure(e, B)
                                                     /\ gap(e, B) \subseteq missing(e, A)
<1>1. design.provided \subseteq Key
  BY DesignType
<1>2. /\ e.asks \subseteq Key /\ e.gives \subseteq Key /\ e.needs \subseteq Key /\ e.puts \subseteq Key
  BY DEF Edge
<1>. QED
  BY <1>1, <1>2
  DEF propagate, rollback, missing, received, success, failure, gap, given
(* The definition does not change while it is analysed.                    *)
LEMMA BoundsStay ==
    ASSUME design' = design
    PROVE  \A g \in Sets : (Guarantee(g) <=> Guarantee(g)') /\ (Possibility(g) <=> Possibility(g)')
BY DEF Guarantee, Possibility, success, failure, canFail, given, edge

(* What a guarantee promises, an entered state still has, whether it is    *)
(* entered for the first time or again; and it has no more than is         *)
(* possible.                                                               *)
LEMMA VisitKeepsBounds ==
    ASSUME IndInv, pass = "check", NEW s \in State, NEW A \in SUBSET Key, NEW rest \in Seq(Frame),
           visit(s, A, rest), design' = design,
           \A g \in Sets : Guarantee(g) => g[s] \subseteq A,
           \A h \in Sets : Possibility(h) => A \subseteq h[s]
    PROVE  AboveGuarantees' /\ BelowPossibilities'
<1>0. TypeOK
  BY DEF IndInv
<1>1. /\ visited'[pass] = visited[pass] \cup {s}
      /\ \A r \in visited'[pass] :
            \/ r \in visited[pass] /\ available'[pass][r] = available[pass][r]
            \/ r = s /\ r \in visited[pass] /\ available'[pass][r] = available[pass][r] \cap A
            \/ r = s /\ available'[pass][r] = A
  <2>1. Entered(s, rest)
    BY <1>0, VisitEffect
  <2>. QED
    BY <1>0, <2>1, VisitKeys DEF Entered
<1>2. \A g \in Sets : (Guarantee(g) <=> Guarantee(g)') /\ (Possibility(g) <=> Possibility(g)')
  BY BoundsStay
<1>3. AboveGuarantees'
  <2>. SUFFICES ASSUME NEW g \in Sets, Guarantee(g), NEW r \in visited'["check"]
                PROVE  g[r] \subseteq available'["check"][r]
    BY <1>2 DEF AboveGuarantees
  <2>. QED
    BY <1>1 DEF IndInv, AboveGuarantees
<1>4. BelowPossibilities'
  <2>. SUFFICES ASSUME NEW h \in Sets, Possibility(h), NEW r \in visited'["check"]
                PROVE  available'["check"][r] \subseteq h[r]
    BY <1>2 DEF BelowPossibilities
  <2>. QED
    BY <1>1 DEF IndInv, BelowPossibilities
<1>. QED
  BY <1>3, <1>4
-----------------------------------------------------------------------------
(* Steps.                                                                  *)

(* A definition whose analysis begins.                                     *)
Starting ==
    /\ design \in Design
    /\ pass = "check"
    /\ visited = [p \in Pass |-> IF p = "check" THEN {design.initial} ELSE {}]
    /\ available = [p \in Pass |-> [s \in State |->
                       IF p = "check" /\ s = design.initial THEN design.initially ELSE {}]]
    /\ taken = [p \in Pass |-> {}]
    /\ stack = <<call(design.initial)>>
    /\ errors = {}

LEMMA StartInd == Starting => IndInv
<1>. SUFFICES ASSUME Starting PROVE IndInv
  OBVIOUS
<1>1. design \in Design /\ design.initial \in State /\ design.initially \subseteq Key
  BY DesignAssumption DEF Starting, Design
<1>2. call(design.initial) \in Frame
  BY <1>1 DEF call, Frame
<1>3. /\ stack = <<call(design.initial)>> /\ stack \in Seq(Frame)
      /\ DOMAIN stack = {1} /\ stack[1] = call(design.initial)
  BY <1>2 DEF Starting
<1>4. TypeOK
  BY <1>1, <1>3 DEF Starting, TypeOK, Pass
<1>5. pass = "check" /\ visited["check"] = {design.initial} /\ taken["check"] = {} /\ errors = {}
  BY DEF Starting, Pass
<1>6. available["check"][design.initial] = design.initially
  BY <1>1 DEF Starting, Pass
<1>7. StackOK
  BY <1>3, <1>5 DEF StackOK, FrameOK, call
<1>8. NothingForgotten
  <2>. SUFFICES ASSUME NEW i \in DOMAIN design.edges, edge(i).from = design.initial
                PROVE  Pending(i)
    BY <1>5 DEF NothingForgotten
  <2>1. i \in Nat \ {0}
    BY <1>4, DesignType
  <2>. QED
    BY <1>3, <2>1 DEF Pending, call
<1>9. AboveGuarantees
  BY <1>5, <1>6 DEF AboveGuarantees, Guarantee
<1>10. BelowPossibilities
  BY <1>5, <1>6 DEF BelowPossibilities, Possibility
<1>. QED
  BY <1>4, <1>5, <1>7, <1>8, <1>9, <1>10 DEF IndInv, TakenReported, NoFalseAlarm

LEMMA InitInd == Init => IndInv
<1>1. Init => Starting
  BY DesignAssumption DEF Init, Starting
<1>. QED
  BY <1>1, StartInd

(* The definition does not change while it is analysed, nor do its gaps.   *)
LEMMA DesignStays ==
    ASSUME design' = design
    PROVE  /\ \A i : edge(i)' = edge(i)
           /\ \A e, A : gap(e, A)' = gap(e, A)
           /\ \A e : canFail(e)' = canFail(e)
BY DEF canFail, given, edge, gap

(* A step that leaves alone what the check has found keeps everything but  *)
(* what it says of the stack.                                              *)
LEMMA CheckStays ==
    ASSUME IndInv, design' = design, visited'["check"] = visited["check"],
           available'["check"] = available["check"], taken'["check"] = taken["check"],
           errors' = errors, TypeOK', StackOK', NothingForgotten'
    PROVE  IndInv'
<1>1. AboveGuarantees /\ BelowPossibilities /\ TakenReported /\ NoFalseAlarm
  BY DEF IndInv
<1>2. AboveGuarantees'
  BY <1>1, BoundsStay DEF AboveGuarantees
<1>3. BelowPossibilities'
  BY <1>1, BoundsStay DEF BelowPossibilities
<1>4. TakenReported'
  <2>. SUFFICES ASSUME NEW h \in Sets, Possibility(h), NEW i \in taken["check"]
                PROVE  ({i} \X gap(edge(i), h[edge(i).from]))' \subseteq errors
    BY BoundsStay DEF TakenReported
  <2>1. {i} \X gap(edge(i), h[edge(i).from]) \subseteq errors
    BY <1>1 DEF TakenReported
  <2>. QED
    BY <2>1, DesignStays
<1>5. NoFalseAlarm'
  <2>. SUFFICES ASSUME NEW g \in [State -> SUBSET Key], Guarantee(g), NEW x \in errors
                PROVE  x[2] \in gap(edge(x[1]), g[edge(x[1]).from])'
    BY BoundsStay DEF NoFalseAlarm, Sets
  <2>1. x[2] \in gap(edge(x[1]), g[edge(x[1]).from])
    BY <1>1 DEF NoFalseAlarm
  <2>. QED
    BY <2>1, DesignStays
<1>. QED
  BY <1>2, <1>3, <1>4, <1>5 DEF IndInv

(* A transition is gone through.                                           *)
LEMMA TakeEdgeInd == IndInv /\ TakeEdge => IndInv'
<1>. SUFFICES ASSUME IndInv, TakeEdge PROVE IndInv'
  OBVIOUS
<1>0. TypeOK /\ StackOK
  BY DEF IndInv
<1>1. /\ design' = design /\ pass' = pass /\ stack # <<>> /\ Top.failing = 0
  BY DEF TakeEdge
<1>2. PICK i \in Remaining :
        /\ \A j \in Remaining : i <= j
        /\ visit(edge(i).to, propagate(edge(i), available[pass][Top.state]),
                 Append(Callers, [Top EXCEPT !.next = i + 1,
                                             !.failing = IF followsError(edge(i)) THEN i ELSE 0]))
        /\ taken' = [taken EXCEPT ![pass] = @ \cup {i}]
        /\ errors' = IF pass = "check"
                     THEN errors \cup ({i} \X missing(edge(i), available[pass][Top.state]))
                     ELSE errors
  BY DEF TakeEdge
<1>. DEFINE e     == edge(i)
            A     == available[pass][Top.state]
            K     == propagate(e, A)
            M     == missing(e, A)
            frame == [Top EXCEPT !.next = i + 1, !.failing = IF followsError(e) THEN i ELSE 0]
            rest  == Append(Callers, frame)
<1>3. /\ visit(e.to, K, rest)
      /\ errors' = IF pass = "check" THEN errors \cup ({i} \X M) ELSE errors
      /\ e = edge(i)
  BY <1>2
<1>4. /\ stack \in Seq(Frame) /\ pass \in Pass /\ visited \in [Pass -> SUBSET State]
      /\ available \in [Pass -> [State -> SUBSET Key]]
      /\ taken \in [Pass -> SUBSET (Nat \ {0})]
      /\ \A p \in Pass : taken[p] \subseteq DOMAIN design.edges
      /\ errors \subseteq (Nat \ {0}) \X Key /\ design \in Design
  BY <1>0 DEF TypeOK
<1>5. /\ Top \in Frame /\ Len(stack) \in Nat \ {0} /\ DOMAIN stack = 1 .. Len(stack)
      /\ Top = stack[Len(stack)]
  BY <1>1, <1>4, StackType DEF Top
<1>6. Top.state \in State /\ A \in SUBSET Key
  BY <1>4, <1>5 DEF Frame
<1>7. i \in DOMAIN design.edges /\ e.from = Top.state /\ Top.next <= i
  BY DEF Remaining
<1>8. i \in Nat \ {0} /\ e \in Edge
  BY <1>0, <1>7, DesignType
<1>9. e.to \in State
  BY <1>8 DEF Edge
<1>10. /\ frame \in Frame /\ frame.state = Top.state /\ frame.next = i + 1
       /\ frame.failing # 0 => /\ frame.failing = i /\ pass = "check" /\ canFail(e)
  <2>1. followsError(e) => pass = "check" /\ canFail(e)
    BY DEF followsError, canFail
  <2>. DEFINE failing == IF followsError(e) THEN i ELSE 0
              next == i + 1
  <2>2. /\ failing \in Nat /\ (failing # 0 => failing = i /\ followsError(e))
        /\ next \in Nat \ {0} /\ next = i + 1
    BY <1>8
  <2>3. frame = [Top EXCEPT !.next = next, !.failing = failing]
    OBVIOUS
  <2>. HIDE DEF e, failing, next, frame
  <2>4. frame \in Frame
    BY <1>5, <1>8, <2>2, <2>3 DEF Frame
  <2>5. frame.state = Top.state /\ frame.next = i + 1 /\ frame.failing = failing
    BY <1>5, <2>2, <2>3 DEF Frame
  <2>. QED
    BY <2>1, <2>2, <2>4, <2>5
<1>11. /\ K \in SUBSET Key /\ M \in SUBSET Key
       /\ \A B \in SUBSET Key : B \subseteq A => success(e, B) \subseteq K /\ M \subseteq gap(e, B)
       /\ \A B \in SUBSET Key : A \subseteq B => K \subseteq success(e, B) /\ gap(e, B) \subseteq M
  BY <1>0, <1>6, <1>8, EdgeKeys
<1>12. rest = Append(Callers, frame)
  OBVIOUS
<1>. HIDE DEF K, M, frame, rest
<1>13. /\ rest \in Seq(Frame) /\ DOMAIN rest = DOMAIN stack
       /\ \A n \in DOMAIN stack : rest[n] = IF n = Len(stack) THEN frame ELSE stack[n]
  <2>1. /\ rest \in Seq(Frame) /\ DOMAIN rest = 1 .. Len(stack)
        /\ \A n \in 1 .. Len(stack) - 1 : rest[n] = stack[n]
        /\ rest[Len(stack)] = frame
    BY <1>1, <1>4, <1>10, <1>12, StackType
  <2>. QED
    BY <1>5, <2>1
<1>14. /\ stack' \in Seq(Frame)
       /\ visited' \in [Pass -> SUBSET State]
       /\ available' \in [Pass -> [State -> SUBSET Key]]
       /\ \A n \in DOMAIN rest : n \in DOMAIN stack' /\ stack'[n] = rest[n]
       /\ \A n \in DOMAIN stack' : n \in DOMAIN rest \/ stack'[n] = call(e.to)
       /\ visited'[pass] = visited[pass] \cup {e.to}
       /\ e.to \in visited[pass] \/ \E n \in DOMAIN stack' : stack'[n] = call(e.to)
       /\ \A p \in Pass : p # pass => visited'[p] = visited[p] /\ available'[p] = available[p]
  <2>1. e.to \in State /\ visit(e.to, K, rest)
    BY <1>3, <1>9
  <2>. HIDE DEF e
  <2>2. Entered(e.to, rest)
    BY <1>0, <1>11, <1>13, <2>1, VisitEffect
  <2>. QED
    BY <2>2 DEF Entered
<1>15. TypeOK'
  <2>1. taken' \in [Pass -> SUBSET (Nat \ {0})] /\ \A p \in Pass : taken'[p] \subseteq DOMAIN design.edges
    BY <1>2, <1>4, <1>7, <1>8
  <2>2. errors' \subseteq (Nat \ {0}) \X Key
    BY <1>3, <1>4, <1>8, <1>11
  <2>. QED
    BY <1>1, <1>4, <1>14, <2>1, <2>2 DEF TypeOK
<1>16. StackOK'
  <2>. SUFFICES ASSUME NEW n \in DOMAIN stack' PROVE FrameOK(stack[n])'
    BY DEF StackOK
  <2>0. pass = "check" => visited["check"] \subseteq visited'["check"] /\ e.to \in visited'["check"]
    BY <1>14
  <2>1. CASE n \in DOMAIN rest /\ n # Len(stack)
    <3>1. stack'[n] = stack[n] /\ FrameOK(stack[n])
      BY <1>0, <1>13, <1>14, <2>1 DEF StackOK
    <3>. QED
      BY <1>1, <2>0, <3>1, DesignStays DEF FrameOK
  <2>2. CASE n = Len(stack)
    <3>1. stack'[n] = frame
      BY <1>5, <1>13, <1>14, <2>2
    <3>2. FrameOK(Top)
      BY <1>0, <1>5 DEF StackOK
    <3>. QED
      BY <1>1, <1>3, <1>7, <1>10, <2>0, <3>1, <3>2, DesignStays DEF FrameOK
  <2>3. CASE n \notin DOMAIN rest
    <3>1. stack'[n] = call(e.to)
      BY <1>14, <2>3
    <3>. QED
      BY <1>1, <2>0, <3>1 DEF FrameOK, call
  <2>. QED
    BY <1>13, <2>1, <2>2, <2>3
<1>17. CASE pass = "graph"
  <2>1. /\ visited'["check"] = visited["check"] /\ available'["check"] = available["check"]
        /\ taken'["check"] = taken["check"] /\ errors' = errors
    BY <1>2, <1>3, <1>4, <1>14, <1>17 DEF Pass
  <2>2. NothingForgotten
    BY DEF IndInv
  <2>3. NothingForgotten'
    BY <1>1, <1>17, <2>1, <2>2, DesignStays DEF NothingForgotten
  <2>. QED
    BY <1>1, <1>15, <1>16, <2>1, <2>3, CheckStays
<1>18. CASE pass = "check"
  <2>0. Top.state \in visited["check"]
    BY <1>0, <1>5, <1>18 DEF StackOK, FrameOK
  <2>1. \A g \in Sets : Guarantee(g) => g[e.from] \subseteq A /\ g[e.from] \in SUBSET Key
    BY <1>6, <1>7, <1>18, <2>0 DEF IndInv, AboveGuarantees, Sets
  <2>2. \A h \in Sets : Possibility(h) => A \subseteq h[e.from] /\ h[e.from] \in SUBSET Key
    BY <1>6, <1>7, <1>18, <2>0 DEF IndInv, BelowPossibilities, Sets
  <2>3. \A g \in Sets : Guarantee(g) => g[e.to] \subseteq K
    BY <1>7, <1>11, <2>1 DEF Guarantee
  <2>4. \A h \in Sets : Possibility(h) => K \subseteq h[e.to]
    BY <1>7, <1>11, <2>2 DEF Possibility
  <2>5. AboveGuarantees' /\ BelowPossibilities'
    <3>. HIDE DEF e
    <3>. QED
      BY <1>1, <1>3, <1>9, <1>11, <1>13, <1>18, <2>3, <2>4, VisitKeepsBounds
  <2>6. /\ taken'["check"] = taken["check"] \cup {i}
        /\ errors' = errors \cup ({i} \X M)
        /\ visited'["check"] = visited["check"] \cup {e.to}
    BY <1>2, <1>3, <1>4, <1>14, <1>18 DEF Pass
  <2>7. TakenReported'
    <3>. SUFFICES ASSUME NEW h \in Sets, Possibility(h), NEW j \in taken'["check"]
                  PROVE  {j} \X gap(edge(j), h[edge(j).from]) \subseteq errors'
      BY <1>1, DesignStays, BoundsStay DEF TakenReported
    <3>1. CASE j \in taken["check"]
      BY <2>6, <3>1 DEF IndInv, TakenReported
    <3>2. CASE j = i
      <4>1. gap(e, h[e.from]) \subseteq M
        BY <1>11, <2>2
      <4>. QED
        BY <2>6, <3>2, <4>1
    <3>. QED
      BY <2>6, <3>1, <3>2
  <2>8. NoFalseAlarm'
    <3>. SUFFICES ASSUME NEW g \in Sets, Guarantee(g), NEW x \in errors'
                  PROVE  x[2] \in gap(edge(x[1]), g[edge(x[1]).from])
      BY <1>1, DesignStays, BoundsStay DEF NoFalseAlarm, Sets
    <3>1. CASE x \in errors
      BY <3>1 DEF IndInv, NoFalseAlarm, Sets
    <3>2. CASE x \in {i} \X M
      <4>1. M \subseteq gap(e, g[e.from])
        BY <1>11, <2>1
      <4>. QED
        BY <3>2, <4>1
    <3>. QED
      BY <2>6, <3>1, <3>2
  <2>9. NothingForgotten'
    <3>. SUFFICES ASSUME NEW j \in DOMAIN design.edges, edge(j).from \in visited'["check"],
                         j # i, j \notin taken["check"]
                  PROVE  \E n \in DOMAIN stack' : stack'[n].state = edge(j).from /\ stack'[n].next <= j
      BY <1>1, <1>18, <2>6, DesignStays DEF NothingForgotten, Pending
    <3>0. j \in Nat \ {0}
      BY <1>0, DesignType
    <3>1. CASE edge(j).from \in visited["check"]
      <4>1. PICK n \in DOMAIN stack : stack[n].state = edge(j).from /\ stack[n].next <= j
        BY <1>18, <3>1 DEF IndInv, NothingForgotten, Pending
      <4>2. CASE n = Len(stack)
        <5>1. j \in Remaining
          BY <1>5, <4>1, <4>2 DEF Remaining
        <5>2. i + 1 <= j
          BY <1>2, <1>8, <3>0, <5>1
        <5>3. n \in DOMAIN stack' /\ stack'[n] = frame
          BY <1>13, <1>14, <4>2
        <5>. QED
          BY <1>5, <1>10, <4>1, <4>2, <5>2, <5>3
      <4>3. CASE n # Len(stack)
        BY <1>13, <1>14, <4>1, <4>3
      <4>. QED
        BY <4>2, <4>3
    <3>2. CASE edge(j).from \notin visited["check"]
      <4>1. edge(j).from = e.to /\ \E n \in DOMAIN stack' : stack'[n] = call(e.to)
        BY <1>14, <1>18, <2>6, <3>2
      <4>. QED
        BY <3>0, <4>1 DEF call
    <3>. QED
      BY <3>1, <3>2
  <2>. QED
    BY <1>15, <1>16, <2>5, <2>7, <2>8, <2>9 DEF IndInv
<1>. QED
  BY <1>4, <1>17, <1>18 DEF Pass

(* The error route of a transition is followed.                            *)
LEMMA TakeErrorRouteInd == IndInv /\ TakeErrorRoute => IndInv'
<1>. SUFFICES ASSUME IndInv, TakeErrorRoute PROVE IndInv'
  OBVIOUS
<1>0. TypeOK /\ StackOK
  BY DEF IndInv
<1>1. /\ design' = design /\ pass' = pass /\ taken' = taken /\ errors' = errors
      /\ stack # <<>> /\ Top.failing # 0
  BY DEF TakeErrorRoute
<1>. DEFINE e     == edge(Top.failing)
            to    == design.onError[e.from]
            A     == available[pass][Top.state]
            K     == rollback(e, A)
            frame == [Top EXCEPT !.failing = 0]
            rest  == Append(Callers, frame)
<1>2. visit(to, K, rest) /\ e = edge(Top.failing) /\ rest = Append(Callers, frame)
  BY DEF TakeErrorRoute
<1>3. /\ stack \in Seq(Frame) /\ pass \in Pass /\ visited \in [Pass -> SUBSET State]
      /\ available \in [Pass -> [State -> SUBSET Key]]
  BY <1>0 DEF TypeOK
<1>4. /\ Top \in Frame /\ Len(stack) \in Nat \ {0} /\ DOMAIN stack = 1 .. Len(stack)
      /\ Top = stack[Len(stack)]
  BY <1>1, <1>3, StackType DEF Top
<1>5. FrameOK(Top)
  BY <1>0, <1>4 DEF StackOK
<1>6. /\ pass = "check" /\ Top.state \in visited["check"]
      /\ Top.failing \in DOMAIN design.edges /\ e.from = Top.state /\ canFail(e)
  BY <1>1, <1>5 DEF FrameOK
<1>7. e \in Edge /\ e.from \in State /\ to \in State /\ A \in SUBSET Key
  <2>1. e \in Edge
    BY <1>0, <1>6, DesignType
  <2>2. e.from \in State
    BY <2>1 DEF Edge
  <2>. QED
    BY <1>0, <1>3, <1>6, <2>1, <2>2, DesignType DEF canFail
<1>8. frame \in Frame /\ frame.state = Top.state /\ frame.next = Top.next /\ frame.failing = 0
  BY <1>4 DEF Frame
<1>9. /\ K \in SUBSET Key
      /\ \A B \in SUBSET Key : B \subseteq A => failure(e, B) \subseteq K
      /\ \A B \in SUBSET Key : A \subseteq B => K \subseteq failure(e, B)
  BY <1>0, <1>7, EdgeKeys
<1>. HIDE DEF K, frame, rest
<1>10. /\ rest \in Seq(Frame) /\ DOMAIN rest = DOMAIN stack
       /\ \A n \in DOMAIN stack : rest[n] = IF n = Len(stack) THEN frame ELSE stack[n]
  <2>1. /\ rest \in Seq(Frame) /\ DOMAIN rest = 1 .. Len(stack)
        /\ \A n \in 1 .. Len(stack) - 1 : rest[n] = stack[n]
        /\ rest[Len(stack)] = frame
    BY <1>1, <1>2, <1>3, <1>8, StackType
  <2>. QED
    BY <1>4, <2>1
<1>11. /\ stack' \in Seq(Frame)
       /\ visited' \in [Pass -> SUBSET State]
       /\ available' \in [Pass -> [State -> SUBSET Key]]
       /\ \A n \in DOMAIN rest : n \in DOMAIN stack' /\ stack'[n] = rest[n]
       /\ \A n \in DOMAIN stack' : n \in DOMAIN rest \/ stack'[n] = call(to)
       /\ visited'[pass] = visited[pass] \cup {to}
       /\ to \in visited[pass] \/ \E n \in DOMAIN stack' : stack'[n] = call(to)
  <2>. HIDE DEF to
  <2>1. visit(to, K, rest)
    BY <1>2
  <2>2. TypeOK /\ to \in State /\ K \in SUBSET Key /\ rest \in Seq(Frame)
    BY <1>0, <1>7, <1>9, <1>10
  <2>. HIDE DEF e, A
  <2>3. Entered(to, rest)
    BY <2>1, <2>2, VisitEffect
  <2>. QED
    BY <2>3 DEF Entered
<1>12. TypeOK'
  BY <1>0, <1>1, <1>11 DEF TypeOK
<1>13. StackOK'
  <2>. SUFFICES ASSUME NEW n \in DOMAIN stack' PROVE FrameOK(stack[n])'
    BY DEF StackOK
  <2>0. visited["check"] \subseteq visited'["check"] /\ to \in visited'["check"]
    BY <1>6, <1>11
  <2>1. CASE n \in DOMAIN rest /\ n # Len(stack)
    <3>1. stack'[n] = stack[n] /\ FrameOK(stack[n])
      BY <1>0, <1>10, <1>11, <2>1 DEF StackOK
    <3>. QED
      BY <1>1, <2>0, <3>1, DesignStays DEF FrameOK
  <2>2. CASE n = Len(stack)
    <3>1. stack'[n] = frame
      BY <1>4, <1>10, <1>11, <2>2
    <3>. QED
      BY <1>1, <1>6, <1>8, <2>0, <3>1 DEF FrameOK
  <2>3. CASE n \notin DOMAIN rest
    <3>1. stack'[n] = call(to)
      BY <1>11, <2>3
    <3>. QED
      BY <1>1, <2>0, <3>1 DEF FrameOK, call
  <2>. QED
    BY <1>10, <2>1, <2>2, <2>3
<1>14. AboveGuarantees' /\ BelowPossibilities'
  <2>1. \A g \in Sets : Guarantee(g) => g[e.from] \subseteq A /\ g[e.from] \in SUBSET Key
    BY <1>6, <1>7 DEF IndInv, AboveGuarantees, Sets
  <2>2. \A h \in Sets : Possibility(h) => A \subseteq h[e.from] /\ h[e.from] \in SUBSET Key
    BY <1>6, <1>7 DEF IndInv, BelowPossibilities, Sets
  <2>3. \A g \in Sets : Guarantee(g) => g[to] \subseteq K
    BY <1>6, <1>9, <2>1 DEF Guarantee
  <2>4. \A h \in Sets : Possibility(h) => K \subseteq h[to]
    BY <1>6, <1>9, <2>2 DEF Possibility
  <2>. HIDE DEF to
  <2>. QED
    BY <1>1, <1>2, <1>6, <1>7, <1>9, <1>10, <2>3, <2>4, VisitKeepsBounds
<1>15. NothingForgotten'
  <2>. SUFFICES ASSUME NEW j \in DOMAIN design.edges, edge(j).from \in visited'["check"],
                       j \notin taken["check"]
                PROVE  \E n \in DOMAIN stack' : stack'[n].state = edge(j).from /\ stack'[n].next <= j
    BY <1>1, <1>6, DesignStays DEF NothingForgotten, Pending
  <2>1. CASE edge(j).from \in visited["check"]
    <3>1. PICK n \in DOMAIN stack : stack[n].state = edge(j).from /\ stack[n].next <= j
      BY <1>6, <2>1 DEF IndInv, NothingForgotten, Pending
    <3>. QED
      BY <1>4, <1>8, <1>10, <1>11, <3>1
  <2>2. CASE edge(j).from \notin visited["check"]
    <3>1. edge(j).from = to /\ \E n \in DOMAIN stack' : stack'[n] = call(to)
      BY <1>6, <1>11, <2>2
    <3>2. j \in Nat \ {0}
      BY <1>0, DesignType
    <3>. QED
      BY <3>1, <3>2 DEF call
  <2>. QED
    BY <2>1, <2>2
<1>16. TakenReported'
  <2>. SUFFICES ASSUME NEW h \in Sets, Possibility(h), NEW j \in taken["check"]
                PROVE  {j} \X gap(edge(j), h[edge(j).from]) \subseteq errors
    BY <1>1, DesignStays, BoundsStay DEF TakenReported
  <2>. QED
    BY DEF IndInv, TakenReported
<1>17. NoFalseAlarm'
  <2>. SUFFICES ASSUME NEW g \in Sets, Guarantee(g), NEW x \in errors
                PROVE  x[2] \in gap(edge(x[1]), g[edge(x[1]).from])
    BY <1>1, DesignStays, BoundsStay DEF NoFalseAlarm, Sets
  <2>. QED
    BY DEF IndInv, NoFalseAlarm, Sets
<1>. QED
  BY <1>12, <1>13, <1>14, <1>15, <1>16, <1>17 DEF IndInv

(* A call that has gone through its transitions returns: it leaves none of *)
(* its own pending.                                                        *)
LEMMA ReturnInd == IndInv /\ Return => IndInv'
<1>. SUFFICES ASSUME IndInv, Return PROVE IndInv'
  OBVIOUS
<1>0. TypeOK /\ StackOK /\ NothingForgotten
  BY DEF IndInv
<1>1. /\ design' = design /\ pass' = pass /\ visited' = visited /\ available' = available
      /\ taken' = taken /\ errors' = errors
      /\ stack # <<>> /\ Remaining = {} /\ stack' = Callers
  BY DEF Return
<1>2. /\ Len(stack) \in Nat \ {0} /\ DOMAIN stack = 1 .. Len(stack)
      /\ stack' \in Seq(Frame) /\ DOMAIN stack' = 1 .. Len(stack) - 1
      /\ \A n \in 1 .. Len(stack) - 1 : stack'[n] = stack[n]
      /\ Top = stack[Len(stack)]
  BY <1>0, <1>1, StackType DEF TypeOK, Top
<1>3. TypeOK'
  BY <1>0, <1>1, <1>2 DEF TypeOK
<1>4. StackOK'
  <2>. SUFFICES ASSUME NEW n \in DOMAIN stack' PROVE FrameOK(stack[n])'
    BY DEF StackOK
  <2>1. n \in DOMAIN stack /\ stack'[n] = stack[n]
    BY <1>2
  <2>2. FrameOK(stack[n])
    BY <1>0, <2>1 DEF StackOK
  <2>. QED
    BY <1>1, <2>1, <2>2, DesignStays DEF FrameOK
<1>5. NothingForgotten'
  <2>. SUFFICES ASSUME NEW j \in DOMAIN design.edges, edge(j).from \in visited["check"],
                       j \notin taken["check"]
                PROVE  pass = "check"
                       /\ \E n \in DOMAIN stack' : stack'[n].state = edge(j).from /\ stack'[n].next <= j
    BY <1>1, DesignStays DEF NothingForgotten, Pending
  <2>1. pass = "check" /\ \E n \in DOMAIN stack : stack[n].state = edge(j).from /\ stack[n].next <= j
    BY <1>0 DEF NothingForgotten, Pending
  <2>2. PICK n \in DOMAIN stack : stack[n].state = edge(j).from /\ stack[n].next <= j
    BY <2>1
  <2>3. n # Len(stack)
    <3>. SUFFICES ASSUME n = Len(stack) PROVE j \in Remaining
      BY <1>1
    <3>. QED
      BY <1>2, <2>2 DEF Remaining
  <2>. QED
    BY <1>2, <2>1, <2>2, <2>3
<1>. QED
  BY <1>1, <1>3, <1>4, <1>5, CheckStays

(* When the check is done, no transition of a visited state is pending.    *)
LEMMA BuildGraphInd == IndInv /\ BuildGraph => IndInv'
<1>. SUFFICES ASSUME IndInv, BuildGraph PROVE IndInv'
  OBVIOUS
<1>0. TypeOK /\ NothingForgotten
  BY DEF IndInv
<1>1. /\ design' = design /\ taken' = taken /\ errors' = errors
      /\ pass = "check" /\ stack = <<>> /\ pass' = "graph"
      /\ visited' = [visited EXCEPT !["graph"] = {design.initial}]
      /\ available' = [available EXCEPT !["graph"][design.initial] = design.initially]
      /\ stack' = <<call(design.initial)>>
  BY DEF BuildGraph
<1>2. /\ visited \in [Pass -> SUBSET State]
      /\ available \in [Pass -> [State -> SUBSET Key]]
      /\ design.initial \in State /\ design.initially \subseteq Key
  BY <1>0, DesignType DEF TypeOK
<1>3. call(design.initial) \in Frame
  BY <1>2 DEF call, Frame
<1>4. stack' \in Seq(Frame) /\ DOMAIN stack' = {1} /\ stack'[1] = call(design.initial)
  BY <1>1, <1>3
<1>5. /\ visited'["check"] = visited["check"] /\ available'["check"] = available["check"]
      /\ visited' \in [Pass -> SUBSET State] /\ available' \in [Pass -> [State -> SUBSET Key]]
  BY <1>1, <1>2 DEF Pass
<1>6. TypeOK'
  BY <1>0, <1>1, <1>4, <1>5 DEF TypeOK, Pass
<1>7. StackOK'
  BY <1>1, <1>4 DEF StackOK, FrameOK, call
<1>8. NothingForgotten'
  <2>1. \A i : ~Pending(i)
    BY <1>1 DEF Pending
  <2>. QED
    BY <1>0, <1>1, <1>5, <2>1, DesignStays DEF NothingForgotten
<1>. QED
  BY <1>1, <1>5, <1>6, <1>7, <1>8, CheckStays

LEMMA NextInd == IndInv /\ [Next]_vars => IndInv'
<1>1. ASSUME IndInv, UNCHANGED vars PROVE IndInv'
  <2>1. /\ design' = design /\ pass' = pass /\ visited' = visited /\ available' = available
        /\ taken' = taken /\ stack' = stack /\ errors' = errors
    BY <1>1 DEF vars
  <2>2. TypeOK'
    BY <1>1, <2>1 DEF IndInv, TypeOK
  <2>3. StackOK'
    BY <1>1, <2>1 DEF IndInv, StackOK, FrameOK, canFail, edge
  <2>4. NothingForgotten'
    BY <1>1, <2>1 DEF IndInv, NothingForgotten, Pending, edge
  <2>. QED
    BY <1>1, <2>1, <2>2, <2>3, <2>4, CheckStays
<1>. QED
  BY <1>1, TakeEdgeInd, TakeErrorRouteInd, ReturnInd, BuildGraphInd DEF Next

-----------------------------------------------------------------------------
(* The theorems.                                                           *)

LEMMA Invariance == Spec => []IndInv
BY InitInd, NextInd, PTL DEF Spec

(* checkRequiresProducesFrom and traverse keep the types of their data.    *)
THEOREM AnalysisTypeCorrect == Spec => []TypeOK
<1>1. IndInv => TypeOK
  BY DEF IndInv
<1>. QED
  BY <1>1, Invariance, PTL

(* Whatever checkRequiresProduces reports, no path-independent guarantee   *)
(* accounts for: it never rejects a definition for a key that is there on  *)
(* every path, in whatever order the transitions are declared.             *)
THEOREM ReportsAreGaps == Spec => []NoFalseAlarm
<1>1. IndInv => NoFalseAlarm
  BY DEF IndInv
<1>. QED
  BY <1>1, Invariance, PTL

(* With the stack empty no transition is pending.                          *)
LEMMA SureGapsOfInv == IndInv => SureGapsReported
<1>. SUFFICES ASSUME IndInv, stack = <<>>, NEW h \in [State -> SUBSET Key], Possibility(h),
                     NEW i \in DOMAIN design.edges, edge(i).from \in visited["check"]
              PROVE  {i} \X gap(edge(i), h[edge(i).from]) \subseteq errors
  BY DEF SureGapsReported, Done
<1>1. ~Pending(i)
  BY DEF Pending
<1>2. i \in taken["check"]
  BY <1>1 DEF IndInv, NothingForgotten
<1>. QED
  BY <1>2 DEF IndInv, TakenReported, Sets

(* When checkRequiresProduces has returned, every key that a transition of *)
(* a visited state asks for and that no path brings is in its report.      *)
THEOREM SureGapsAreReported == Spec => []SureGapsReported
BY SureGapsOfInv, Invariance, PTL

-----------------------------------------------------------------------------
(* The graph, and the next version of a definition.                        *)

(* The versions are definitions, the reports are about transitions of the  *)
(* one that is analysed, and the graph of the one before has its type.     *)
VersionsOK ==
    /\ previous = NoVersion => design \in Designs
    /\ previous # NoVersion =>
         /\ previous.design \in Design
         /\ previous.visited \subseteq State
    /\ \A x \in errors : x[1] \in DOMAIN design.edges

GraphInv == IndInv /\ VersionsOK

LEMMA GraphInitInd == GraphInit => GraphInv
<1>1. GraphInit => VersionsOK
  BY DEF GraphInit, Init, VersionsOK
<1>. QED
  BY <1>1, InitInd DEF GraphInit, GraphInv

LEMMA RedefineInd == GraphInv /\ Redefine => GraphInv'
<1>. SUFFICES ASSUME GraphInv, Redefine PROVE GraphInv'
  OBVIOUS
<1>1. /\ design \in Designs /\ design' \in NextVersions(design)
      /\ design \in Design /\ design' \in Design
  BY VersionAssumption, DesignAssumption DEF GraphInv, VersionsOK, Redefine
<1>2. Starting'
  BY <1>1 DEF Redefine, Starting, call
<1>3. IndInv'
  BY <1>2, StartInd, PTL
<1>4. visited["graph"] \subseteq State
  BY DEF GraphInv, IndInv, TypeOK, Pass
<1>5. /\ previous' # NoVersion
      /\ previous'.design = design /\ previous'.visited = visited["graph"] /\ errors' = {}
  BY DEF Redefine, NoVersion
<1>6. VersionsOK'
  BY <1>1, <1>4, <1>5 DEF VersionsOK, NoVersion
<1>. QED
  BY <1>3, <1>6 DEF GraphInv

LEMMA AnalyseInd == GraphInv /\ Analyse => GraphInv'
<1>. SUFFICES ASSUME GraphInv, Analyse PROVE GraphInv'
  OBVIOUS
<1>1. IndInv'
  BY NextInd DEF GraphInv, Analyse
<1>2. previous' = previous /\ design' = design
  BY DEF Analyse, Next, TakeEdge, TakeErrorRoute, Return, BuildGraph
<1>3. \A x \in errors' : x[1] \in DOMAIN design.edges
  <2>1. CASE TakeEdge
    <3>1. PICK i \in Remaining :
             errors' = IF pass = "check"
                       THEN errors \cup ({i} \X missing(edge(i), available[pass][Top.state]))
                       ELSE errors
      BY <2>1 DEF TakeEdge
    <3>. QED
      BY <3>1 DEF GraphInv, VersionsOK, Remaining
  <2>2. CASE ~TakeEdge
    BY <2>2 DEF Analyse, Next, TakeErrorRoute, Return, BuildGraph, GraphInv, VersionsOK
  <2>. QED
    BY <2>1, <2>2
<1>. QED
  BY <1>1, <1>2, <1>3 DEF GraphInv, VersionsOK, NoVersion

LEMMA GraphInvariance == GraphSpec => []GraphInv
<1>1. GraphInv /\ UNCHANGED graphVars => GraphInv'
  <2>. SUFFICES ASSUME GraphInv, UNCHANGED graphVars PROVE GraphInv'
    OBVIOUS
  <2>1. UNCHANGED vars /\ design' = design /\ errors' = errors /\ previous' = previous
    BY DEF graphVars, vars
  <2>2. IndInv'
    BY <2>1, NextInd DEF GraphInv
  <2>. QED
    BY <2>1, <2>2 DEF GraphInv, VersionsOK, NoVersion
<1>2. GraphInv /\ [GraphNext]_graphVars => GraphInv'
  BY <1>1, RedefineInd, AnalyseInd DEF GraphNext
<1>. QED
  BY <1>2, GraphInitInd, PTL DEF GraphSpec

-----------------------------------------------------------------------------
(* Only the processor of transition i differs, and asks for less or gives  *)
(* more: each guarantee of the old definition is one of the new.           *)
LEMMA OldGuaranteesHold ==
    ASSUME GraphInv, NEW i \in 1..Len(design.edges), replacedAt(i),
           isCompatible(contract(previous.design, i), contract(design, i)),
           NEW g \in [State -> SUBSET Key],
           g[design.initial] \subseteq design.initially,
           \A j \in DOMAIN design.edges :
             LET old == previous.design.edges[j]
             IN  /\ g[old.to] \subseteq success(old, g[old.from])
                 /\ canFail(old) => g[design.onError[old.from]] \subseteq failure(old, g[old.from])
    PROVE  /\ Guarantee(g)
           /\ \A j \in DOMAIN design.edges :
                gap(edge(j), g[edge(j).from])
                \subseteq gap(previous.design.edges[j], g[previous.design.edges[j].from])
<1>. DEFINE old(j) == previous.design.edges[j]
<1>1. design \in Design /\ previous.design \in Design
  BY DEF GraphInv, IndInv, TypeOK, VersionsOK, replacedAt
<1>2. design = [previous.design EXCEPT !.edges[i].needs = design.edges[i].needs,
                                       !.edges[i].puts = design.edges[i].puts]
  BY DEF replacedAt
<1>. DEFINE needs == design.edges[i].needs
            puts  == design.edges[i].puts
<1>0. design.edges = [previous.design.edges EXCEPT ![i].needs = needs, ![i].puts = puts]
  BY <1>1, <1>2 DEF Design
<1>3. DOMAIN design.edges = DOMAIN previous.design.edges
  <2>2. previous.design.edges \in Seq(Edge)
    BY <1>1 DEF Design
  <2>. QED
    BY <1>0, <2>2
<1>4. ASSUME NEW j \in DOMAIN design.edges
      PROVE  /\ edge(j).from = old(j).from /\ edge(j).to = old(j).to
             /\ edge(j).external = old(j).external /\ edge(j).processor = old(j).processor
             /\ edge(j).asks = old(j).asks /\ edge(j).gives = old(j).gives
             /\ edge(j).needs \subseteq old(j).needs /\ old(j).puts \subseteq edge(j).puts
  <2>0. old(j) \in Edge /\ j \in DOMAIN previous.design.edges
    BY <1>1, <1>3, <1>4 DEF Design
  <2>1. CASE j # i
    <3>1. design.edges[j] = old(j)
      <4>. HIDE DEF needs, puts
      <4>. QED
        BY <1>0, <2>0, <2>1
    <3>. QED
      BY <3>1 DEF edge
  <2>2. CASE j = i
    <3>1. i \in DOMAIN previous.design.edges
      BY <2>0, <2>2
    <3>2. design.edges[i] = [old(i) EXCEPT !.needs = needs, !.puts = puts]
      <4>. HIDE DEF needs, puts
      <4>. QED
        BY <1>0, <3>1
    <3>. QED
      BY <3>2, <2>0, <2>2 DEF edge, Edge, isCompatible, contract
  <2>. QED
    BY <2>1, <2>2
<1>5. ASSUME NEW j \in DOMAIN design.edges
      PROVE  /\ success(old(j), g[old(j).from]) \subseteq success(edge(j), g[edge(j).from])
             /\ failure(old(j), g[old(j).from]) = failure(edge(j), g[edge(j).from])
             /\ canFail(old(j)) <=> canFail(edge(j))
             /\ gap(edge(j), g[edge(j).from]) \subseteq gap(old(j), g[old(j).from])
  BY <1>4, <1>5 DEF success, failure, canFail, gap, given
<1>. QED
  BY <1>4, <1>5 DEF Guarantee

(* isCompatible: whatever the check reports of a definition in which one   *)
(* processor was replaced by a compatible one was a gap of the definition  *)
(* before, on some path to where it is reported.                           *)
THEOREM CompatibleMeansSafe == GraphSpec => []CompatibleReplacementIsSafe
<1>1. GraphInv => CompatibleReplacementIsSafe
  <2>. SUFFICES ASSUME GraphInv, NEW i \in 1..Len(design.edges), replacedAt(i),
                       isCompatible(contract(previous.design, i), contract(design, i)),
                       NEW g \in [State -> SUBSET Key],
                       g[design.initial] \subseteq design.initially,
                       \A j \in DOMAIN design.edges :
                         LET old == previous.design.edges[j]
                         IN  /\ g[old.to] \subseteq success(old, g[old.from])
                             /\ canFail(old) => g[design.onError[old.from]]
                                                \subseteq failure(old, g[old.from]),
                       NEW x \in errors
                PROVE  x[2] \in gap(previous.design.edges[x[1]],
                                    g[previous.design.edges[x[1]].from])
    BY DEF CompatibleReplacementIsSafe
  <2>1. Guarantee(g) /\ x[1] \in DOMAIN design.edges
    BY OldGuaranteesHold DEF GraphInv, VersionsOK
  <2>2. x[2] \in gap(edge(x[1]), g[edge(x[1]).from])
    BY <2>1 DEF GraphInv, IndInv, NoFalseAlarm
  <2>. QED
    BY <2>1, <2>2, OldGuaranteesHold
<1>. QED
  BY <1>1, GraphInvariance, PTL

(* The check is right about every version that is built: it reports no key *)
(* that is there on every path, and each key that no path brings.          *)
THEOREM EveryVersionIsAnalysed == GraphSpec => [](NoFalseAlarm /\ SureGapsReported)
<1>1. GraphInv => NoFalseAlarm /\ SureGapsReported
  BY SureGapsOfInv DEF GraphInv, IndInv
<1>. QED
  BY <1>1, GraphInvariance, PTL

-----------------------------------------------------------------------------
(* The two walks.  Without error routes each is a sequence of moves from   *)
(* one configuration to the next: what is visited, available and taken,    *)
(* and the calls.  A move depends on nothing else, and there is only one:  *)
(* so the second walk passes what the first has passed.                    *)
NoRoutes == \A s \in State : design.onError[s] = None

walk(v, a, t, calls) == [visited |-> v, available |-> a, taken |-> t, stack |-> calls]

topOf(c) == c.stack[Len(c.stack)]

callersOf(c) == SubSeq(c.stack, 1, Len(c.stack) - 1)

leftOf(c) == {i \in DOMAIN design.edges : edge(i).from = topOf(c).state /\ i >= topOf(c).next}

isFirst(c, i) == i \in leftOf(c) /\ \A j \in leftOf(c) : i <= j

(* What a transition to s with the keys A makes of c.                      *)
entered(c, s, A, rest, t) ==
    IF s \in c.visited /\ (A \subseteq c.available[s] \/ c.available[s] \subseteq A)
    THEN walk(c.visited, c.available, t, rest)
    ELSE walk(c.visited \cup {s},
              [c.available EXCEPT ![s] = IF s \in c.visited THEN @ \cap A ELSE A],
              t, Append(rest, call(s)))

through(c, i) ==
    entered(c, edge(i).to, propagate(edge(i), c.available[topOf(c).state]),
            Append(callersOf(c), [topOf(c) EXCEPT !.next = i + 1, !.failing = 0]),
            c.taken \cup {i})

returned(c) == walk(c.visited, c.available, c.taken, callersOf(c))

Moves(c, e) ==
    /\ c.stack # <<>>
    /\ \/ \E i \in leftOf(c) : isFirst(c, i) /\ e = through(c, i)
       \/ leftOf(c) = {} /\ e = returned(c)

(* Moves lead from c to e: whatever holds c and is closed under moves has  *)
(* e in it.                                                                *)
Leads(c, e) ==
    \A S : (c \in S /\ \A x \in S : \A y : Moves(x, y) => y \in S) => e \in S

Started ==
    walk({design.initial}, [s \in State |-> IF s = design.initial THEN design.initially ELSE {}],
         {}, <<call(design.initial)>>)

current(p) == walk(visited[p], available[p], taken[p], stack)

checked == walk(visited["check"], available["check"], taken["check"], <<>>)

WalksMatch ==
    NoRoutes =>
        /\ pass = "check" => /\ visited["graph"] = {} /\ taken["graph"] = {}
                             /\ available["graph"] = [s \in State |-> {}]
                             /\ Leads(Started, current("check"))
        /\ pass = "graph" => Leads(current("graph"), checked)

(* There is one move at most.                                              *)
LEMMA OneMove ==
    ASSUME TypeOK, NEW c, NEW e, NEW f, Moves(c, e), Moves(c, f)
    PROVE  e = f
<1>1. leftOf(c) \subseteq Nat
  BY DesignType DEF leftOf
<1>2. \A i, j \in leftOf(c) : isFirst(c, i) /\ isFirst(c, j) => i = j
  BY <1>1 DEF isFirst
<1>. QED
  BY <1>2 DEF Moves

LEMMA LeadsOn ==
    ASSUME NEW c, NEW d, NEW e, Leads(c, d), Moves(d, e)
    PROVE  Leads(c, e)
<1>. SUFFICES ASSUME NEW S, c \in S, \A x \in S : \A y : Moves(x, y) => y \in S
              PROVE  e \in S
  BY DEF Leads
<1>1. d \in S
  BY DEF Leads
<1>. QED
  BY <1>1

(* Who has the end still before it has it after the next move.             *)
LEMMA LeadsAfter ==
    ASSUME TypeOK, NEW c, NEW d, NEW e, Leads(c, e), Moves(c, d), e.stack = <<>>
    PROVE  Leads(d, e)
<1>. SUFFICES ASSUME NEW S, d \in S, \A x \in S : \A y : Moves(x, y) => y \in S
              PROVE  e \in S
  BY DEF Leads
<1>1. \A y : Moves(c, y) => y = d
  BY OneMove
<1>2. \A x \in S \cup {c} : \A y : Moves(x, y) => y \in S \cup {c}
  BY <1>1
<1>3. e \in S \cup {c}
  BY <1>2 DEF Leads
<1>4. c.stack # <<>>
  BY DEF Moves
<1>. QED
  BY <1>3, <1>4

(* No move leads on from an empty stack.                                   *)
LEMMA LeadsNowhere ==
    ASSUME NEW c, NEW e, Leads(c, e), c.stack = <<>>
    PROVE  e = c
<1>1. \A x \in {c} : \A y : Moves(x, y) => y \in {c}
  BY DEF Moves
<1>. QED
  BY <1>1 DEF Leads

LEMMA LeadsToItself == \A c : Leads(c, c)
BY DEF Leads

(* What moves there are depends on the definition only.                    *)
LEMMA MovesStay ==
    ASSUME design' = design
    PROVE  \A c, e : Moves(c, e)' <=> Moves(c, e)
BY DEF Moves, leftOf, isFirst, through, returned, entered, walk, topOf, callersOf, edge,
       propagate, received, call

LEMMA LeadsStays ==
    ASSUME design' = design
    PROVE  \A c, e : Leads(c, e)' <=> Leads(c, e)
BY MovesStay DEF Leads

(* Without error routes no call has one to follow.                         *)
LEMMA NoRoutesTaken ==
    ASSUME IndInv, NoRoutes, stack # <<>>
    PROVE  Top.failing = 0
<1>1. /\ DOMAIN stack = 1 .. Len(stack) /\ Len(stack) \in Nat \ {0} /\ Top = stack[Len(stack)]
  BY StackType DEF IndInv, TypeOK, Top
<1>2. FrameOK(Top)
  BY <1>1 DEF IndInv, StackOK
<1>3. \A i \in DOMAIN design.edges : edge(i).from \in State /\ ~canFail(edge(i))
  BY DesignType DEF IndInv, NoRoutes, canFail, Edge
<1>. QED
  BY <1>2, <1>3 DEF FrameOK

(* Where the walk under way gets with a step.                              *)
after(p) == walk(visited'[p], available'[p], taken'[p], stack')

(* Each step of a walk is a move, and leaves the other walk alone.         *)
LEMMA TakeEdgeMoves ==
    ASSUME IndInv, NoRoutes, TakeEdge
    PROVE  Moves(current(pass), after(pass))
<1>0. TypeOK
  BY DEF IndInv
<1>1. PICK i \in Remaining :
        /\ \A j \in Remaining : i <= j
        /\ visit(edge(i).to, propagate(edge(i), available[pass][Top.state]),
                 Append(Callers, [Top EXCEPT !.next = i + 1,
                                             !.failing = IF followsError(edge(i)) THEN i ELSE 0]))
        /\ taken' = [taken EXCEPT ![pass] = @ \cup {i}]
  BY DEF TakeEdge
<1>2. stack # <<>>
  BY DEF TakeEdge
<1>3. i \in DOMAIN design.edges /\ edge(i) \in Edge
  BY <1>0, DesignType DEF Remaining
<1>4. ~followsError(edge(i))
  BY <1>3 DEF followsError, NoRoutes, Edge
<1>. DEFINE c    == current(pass)
            s    == edge(i).to
            A    == propagate(edge(i), available[pass][Top.state])
            rest == Append(Callers, [Top EXCEPT !.next = i + 1, !.failing = 0])
<1>5. visit(s, A, rest)
  <2>1. (IF followsError(edge(i)) THEN i ELSE 0) = 0
    BY <1>4
  <2>. QED
    BY <1>1, <2>1
<1>6. /\ c.stack = stack /\ c.visited = visited[pass] /\ c.available = available[pass]
      /\ c.taken = taken[pass]
  BY DEF current, walk
<1>7. topOf(c) = Top /\ callersOf(c) = Callers
  BY <1>6 DEF topOf, callersOf, Top, Callers
<1>8. leftOf(c) = Remaining
  BY <1>7 DEF leftOf, Remaining
<1>9. isFirst(c, i)
  BY <1>1, <1>8 DEF isFirst
<1>10. /\ taken'[pass] = taken[pass] \cup {i}
       /\ visited \in [Pass -> SUBSET State] /\ available \in [Pass -> [State -> SUBSET Key]]
       /\ pass \in Pass
  BY <1>0, <1>1 DEF TypeOK
<1>11. through(c, i) = entered(c, s, A, rest, taken[pass] \cup {i})
  BY <1>6, <1>7 DEF through
<1>12. after(pass) = entered(c, s, A, rest, taken[pass] \cup {i})
  <2>. HIDE DEF c, s, A, rest
  <2>1. CASE settled(s, A)
    BY <1>5, <1>6, <1>10, <2>1 DEF visit, settled, entered, after
  <2>2. CASE ~settled(s, A)
    <3>1. /\ stack' = Append(rest, call(s))
          /\ visited'[pass] = visited[pass] \cup {s}
          /\ available'[pass] = [available[pass] EXCEPT
                 ![s] = IF s \in visited[pass] THEN @ \cap A ELSE A]
      BY <1>5, <1>10, <2>2 DEF visit
    <3>. QED
      BY <1>6, <1>10, <2>2, <3>1 DEF settled, entered, after
  <2>. QED
    BY <2>1, <2>2
<1>. QED
  BY <1>2, <1>6, <1>8, <1>9, <1>11, <1>12 DEF Moves, isFirst

LEMMA ReturnMoves ==
    ASSUME Return
    PROVE  Moves(current(pass), after(pass))
<1>. DEFINE c == current(pass)
<1>1. /\ c.stack = stack /\ c.visited = visited[pass] /\ c.available = available[pass]
      /\ c.taken = taken[pass]
  BY DEF current, walk
<1>2. topOf(c) = Top /\ callersOf(c) = Callers
  BY <1>1 DEF topOf, callersOf, Top, Callers
<1>3. leftOf(c) = {} /\ c.stack # <<>>
  BY <1>1, <1>2 DEF leftOf, Remaining, Return
<1>4. after(pass) = returned(c)
  BY <1>1, <1>2 DEF after, returned, Return
<1>. QED
  BY <1>3, <1>4 DEF Moves

LEMMA OtherWalkStays ==
    ASSUME IndInv, NoRoutes, TakeEdge \/ TakeErrorRoute \/ Return
    PROVE  /\ design' = design /\ pass' = pass
           /\ \A p \in Pass \ {pass} : /\ visited'[p] = visited[p] /\ available'[p] = available[p]
                                       /\ taken'[p] = taken[p]
<1>0. TypeOK
  BY DEF IndInv
<1>1. CASE TakeEdge
  <2>1. PICK i, s, A, rest :
          visit(s, A, rest) /\ taken' = [taken EXCEPT ![pass] = @ \cup {i}]
    BY <1>1 DEF TakeEdge
  <2>. QED
    BY <1>0, <1>1, <2>1 DEF TakeEdge, visit, TypeOK
<1>2. CASE TakeErrorRoute
  BY <1>2, NoRoutesTaken DEF TakeErrorRoute
<1>3. CASE Return
  BY <1>3 DEF Return
<1>. QED
  BY <1>1, <1>2, <1>3

LEMMA WalkMoves ==
    ASSUME IndInv, NoRoutes, TakeEdge \/ TakeErrorRoute \/ Return
    PROVE  Moves(current(pass), after(pass))
<1>1. ~TakeErrorRoute
  BY NoRoutesTaken DEF TakeErrorRoute
<1>. QED
  BY <1>1, TakeEdgeMoves, ReturnMoves

LEMMA WalkMatches ==
    ASSUME IndInv, WalksMatch, TakeEdge \/ TakeErrorRoute \/ Return
    PROVE  WalksMatch'
<1>1. CASE ~NoRoutes
  <2>1. design' = design
    BY DEF TakeEdge, TakeErrorRoute, Return
  <2>. QED
    BY <1>1, <2>1 DEF WalksMatch, NoRoutes
<1>2. CASE NoRoutes
  <2>1. Moves(current(pass), after(pass))
    BY <1>2, WalkMoves
  <2>2. /\ design' = design /\ pass' = pass
        /\ \A p \in Pass \ {pass} : /\ visited'[p] = visited[p] /\ available'[p] = available[p]
                                    /\ taken'[p] = taken[p]
    BY <1>2, OtherWalkStays
  <2>3. Started' = Started
    BY <2>2 DEF Started, walk, call
  <2>4. current(pass)' = after(pass)
    BY <2>2 DEF current, after, walk
  <2>5. CASE pass = "check"
    <3>1. Leads(Started, after("check"))
      BY <1>2, <2>1, <2>5, LeadsOn DEF WalksMatch
    <3>2. Leads(Started, current("check"))'
      BY <2>2, <2>3, <2>4, <2>5, <3>1, LeadsStays
    <3>. QED
      BY <1>2, <2>2, <2>5, <3>2 DEF WalksMatch, Pass
  <2>6. CASE pass = "graph"
    <3>1. checked.stack = <<>> /\ checked' = checked
      BY <2>2, <2>6 DEF checked, walk, Pass
    <3>2. Leads(after("graph"), checked)
      BY <1>2, <2>1, <2>6, <3>1, LeadsAfter DEF WalksMatch, IndInv
    <3>3. Leads(current("graph"), checked)'
      BY <2>2, <2>4, <2>6, <3>1, <3>2, LeadsStays
    <3>. QED
      BY <1>2, <2>2, <2>6, <3>3 DEF WalksMatch
  <2>. QED
    BY <2>5, <2>6 DEF IndInv, TypeOK, Pass
<1>. QED
  BY <1>1, <1>2

(* The graph's walk starts where the check's has started.                  *)
LEMMA BuildGraphMatches == IndInv /\ WalksMatch /\ BuildGraph => WalksMatch'
<1>. SUFFICES ASSUME IndInv, WalksMatch, BuildGraph, NoRoutes
              PROVE  WalksMatch'
  BY DEF WalksMatch, BuildGraph, NoRoutes
<1>0. /\ visited \in [Pass -> SUBSET State] /\ available \in [Pass -> [State -> SUBSET Key]]
      /\ design.initial \in State
  BY DesignType DEF IndInv, TypeOK
<1>1. /\ design' = design /\ pass = "check" /\ pass' = "graph" /\ stack = <<>>
      /\ taken' = taken /\ stack' = <<call(design.initial)>>
      /\ visited' = [visited EXCEPT !["graph"] = {design.initial}]
      /\ available' = [available EXCEPT !["graph"][design.initial] = design.initially]
  BY DEF BuildGraph
<1>2. /\ visited["graph"] = {} /\ taken["graph"] = {} /\ available["graph"] = [s \in State |-> {}]
      /\ Leads(Started, current("check"))
  BY <1>1 DEF WalksMatch
<1>3. current("check") = checked
  BY <1>1 DEF current, checked, walk
<1>4. /\ visited'["check"] = visited["check"] /\ available'["check"] = available["check"]
      /\ visited'["graph"] = {design.initial}
      /\ available'["graph"] = [available["graph"] EXCEPT ![design.initial] = design.initially]
  BY <1>0, <1>1 DEF Pass
<1>5. available'["graph"] = [s \in State |-> IF s = design.initial THEN design.initially ELSE {}]
  BY <1>0, <1>2, <1>4
<1>6. current("graph")' = Started
  BY <1>1, <1>2, <1>4, <1>5 DEF current, Started, walk
<1>7. checked' = checked
  BY <1>1, <1>4 DEF checked, walk
<1>8. Leads(current("graph"), checked)'
  BY <1>1, <1>2, <1>3, <1>6, <1>7, LeadsStays
<1>. QED
  BY <1>1, <1>8 DEF WalksMatch

LEMMA StartMatches == Starting => WalksMatch
<1>. SUFFICES ASSUME Starting PROVE WalksMatch
  OBVIOUS
<1>1. /\ pass = "check" /\ stack = <<call(design.initial)>>
      /\ visited["check"] = {design.initial} /\ visited["graph"] = {}
      /\ available["check"] = [s \in State |-> IF s = design.initial THEN design.initially ELSE {}]
      /\ available["graph"] = [s \in State |-> {}]
      /\ taken["check"] = {} /\ taken["graph"] = {}
  BY DEF Starting, Pass
<1>2. current("check") = Started
  BY <1>1 DEF current, Started, walk
<1>. QED
  BY <1>1, <1>2, LeadsToItself DEF WalksMatch

-----------------------------------------------------------------------------
(* What the check reports is asked for by a transition gone through, and   *)
(* is not available where that starts, as a visited state gains no key.    *)
ReportsStay ==
    \A x \in errors :
        LET e == edge(x[1])
        IN  /\ x[1] \in taken["check"] /\ x[1] \in DOMAIN design.edges
            /\ x[2] \in e.asks \cup e.needs
            /\ e.from \in visited["check"]
            /\ x[2] \notin available["check"][e.from]

(* A state that has been visited has no more keys after an entry.          *)
LEMMA VisitShrinks ==
    ASSUME TypeOK, NEW s \in State, NEW A \in SUBSET Key, NEW rest, visit(s, A, rest)
    PROVE  \A r \in visited[pass] : /\ r \in visited'[pass]
                                    /\ available'[pass][r] \subseteq available[pass][r]
<1>0. /\ visited \in [Pass -> SUBSET State] /\ available \in [Pass -> [State -> SUBSET Key]]
      /\ pass \in Pass
  BY DEF TypeOK
<1>. SUFFICES ASSUME NEW r \in visited[pass]
              PROVE  r \in visited'[pass] /\ available'[pass][r] \subseteq available[pass][r]
  OBVIOUS
<1>1. CASE settled(s, A)
  BY <1>1 DEF visit
<1>2. CASE ~settled(s, A)
  <2>1. /\ visited'[pass] = visited[pass] \cup {s}
        /\ available'[pass] = [available[pass] EXCEPT
               ![s] = IF s \in visited[pass] THEN @ \cap A ELSE A]
    BY <1>0, <1>2 DEF visit
  <2>. QED
    BY <1>0, <2>1
<1>. QED
  BY <1>1, <1>2

LEMMA TakeEdgeReports == IndInv /\ ReportsStay /\ TakeEdge => ReportsStay'
<1>. SUFFICES ASSUME IndInv, ReportsStay, TakeEdge, NEW x \in errors'
              PROVE  /\ x[1] \in taken'["check"] /\ x[1] \in DOMAIN design'.edges
                     /\ x[2] \in edge(x[1]).asks \cup edge(x[1]).needs
                     /\ edge(x[1]).from \in visited'["check"]
                     /\ x[2] \notin available'["check"][edge(x[1]).from]
  BY DEF ReportsStay, TakeEdge, edge
<1>0. TypeOK /\ StackOK /\ stack # <<>> /\ design' = design
  BY DEF IndInv, TakeEdge
<1>1. PICK i, rest :
        /\ i \in Remaining
        /\ visit(edge(i).to, propagate(edge(i), available[pass][Top.state]), rest)
        /\ taken' = [taken EXCEPT ![pass] = @ \cup {i}]
        /\ errors' = IF pass = "check"
                     THEN errors \cup ({i} \X missing(edge(i), available[pass][Top.state]))
                     ELSE errors
  BY DEF TakeEdge
<1>2. /\ visited \in [Pass -> SUBSET State] /\ available \in [Pass -> [State -> SUBSET Key]]
      /\ taken \in [Pass -> SUBSET (Nat \ {0})] /\ pass \in Pass
  BY <1>0 DEF TypeOK
<1>3. /\ Top \in Frame /\ Top.state \in State /\ DOMAIN stack = 1 .. Len(stack)
      /\ Len(stack) \in Nat \ {0} /\ Top = stack[Len(stack)]
  BY <1>0, StackType DEF TypeOK, Frame, Top
<1>4. i \in DOMAIN design.edges /\ edge(i) \in Edge /\ edge(i).to \in State /\ edge(i).from = Top.state
  BY <1>0, <1>1, DesignType DEF Remaining, Edge
<1>. DEFINE A == available[pass][Top.state]
<1>5. A \in SUBSET Key /\ propagate(edge(i), A) \in SUBSET Key
  BY <1>0, <1>2, <1>3, <1>4, EdgeKeys
<1>6. \A r \in visited[pass] : /\ r \in visited'[pass]
                               /\ available'[pass][r] \subseteq available[pass][r]
  BY <1>0, <1>1, <1>4, <1>5, VisitShrinks
<1>7. CASE pass = "graph"
  <2>1. /\ errors' = errors /\ taken'["check"] = taken["check"]
        /\ visited'["check"] = visited["check"] /\ available'["check"] = available["check"]
    BY <1>1, <1>2, <1>7 DEF visit, Pass
  <2>. QED
    BY <1>0, <2>1 DEF ReportsStay
<1>8. CASE pass = "check"
  <2>1. taken'["check"] = taken["check"] \cup {i}
    BY <1>1, <1>2, <1>8
  <2>2. CASE x \in errors
    BY <1>0, <1>6, <1>8, <2>1, <2>2 DEF ReportsStay
  <2>3. CASE x \notin errors
    <3>1. x[1] = i /\ x[2] \in missing(edge(i), A)
      BY <1>1, <1>8, <2>3
    <3>2. x[2] \in edge(i).asks \cup edge(i).needs /\ x[2] \notin A
      BY <3>1 DEF missing, received
    <3>3. Top.state \in visited["check"]
      BY <1>0, <1>3, <1>8 DEF StackOK, FrameOK
    <3>. QED
      BY <1>0, <1>4, <1>6, <1>8, <2>1, <3>1, <3>2, <3>3
  <2>. QED
    BY <2>2, <2>3
<1>. QED
  BY <1>2, <1>7, <1>8 DEF Pass

LEMMA TakeErrorRouteReports == IndInv /\ ReportsStay /\ TakeErrorRoute => ReportsStay'
<1>. SUFFICES ASSUME IndInv, ReportsStay, TakeErrorRoute
              PROVE  ReportsStay'
  OBVIOUS
<1>0. /\ TypeOK /\ StackOK /\ stack # <<>> /\ design' = design /\ taken' = taken /\ errors' = errors
      /\ Top.failing # 0
  BY DEF IndInv, TakeErrorRoute
<1>1. /\ Top \in Frame /\ Top.state \in State /\ DOMAIN stack = 1 .. Len(stack)
      /\ Len(stack) \in Nat \ {0} /\ Top = stack[Len(stack)]
  BY <1>0, StackType DEF TypeOK, Frame, Top
<1>2. /\ pass = "check" /\ Top.failing \in DOMAIN design.edges /\ canFail(edge(Top.failing))
  BY <1>0, <1>1 DEF StackOK, FrameOK
<1>. DEFINE e == edge(Top.failing)
            A == available[pass][Top.state]
<1>3. e \in Edge /\ design.onError[e.from] \in State
  BY <1>0, <1>2, DesignType DEF canFail, Edge
<1>4. A \in SUBSET Key /\ rollback(e, A) \in SUBSET Key
  BY <1>0, <1>1, <1>3, EdgeKeys DEF TypeOK
<1>5. PICK rest : visit(design.onError[e.from], rollback(e, A), rest)
  BY DEF TakeErrorRoute
<1>6. \A r \in visited[pass] : /\ r \in visited'[pass]
                               /\ available'[pass][r] \subseteq available[pass][r]
  BY <1>0, <1>3, <1>4, <1>5, VisitShrinks
<1>. QED
  BY <1>0, <1>2, <1>6 DEF ReportsStay, edge

LEMMA QuietReports ==
    ASSUME ReportsStay, design' = design, taken' = taken, errors' = errors,
           visited'["check"] = visited["check"], available'["check"] = available["check"]
    PROVE  ReportsStay'
BY DEF ReportsStay, edge

-----------------------------------------------------------------------------
MatchInv == GraphInv /\ WalksMatch /\ ReportsStay

LEMMA StepMatches ==
    ASSUME MatchInv, Next
    PROVE  WalksMatch' /\ ReportsStay'
<1>1. IndInv /\ WalksMatch /\ ReportsStay
  BY DEF MatchInv, GraphInv
<1>2. WalksMatch'
  BY <1>1, WalkMatches, BuildGraphMatches DEF Next
<1>3. ASSUME Return PROVE ReportsStay'
  BY <1>1, <1>3, QuietReports DEF Return
<1>4. ASSUME BuildGraph PROVE ReportsStay'
  <2>1. visited'["check"] = visited["check"] /\ available'["check"] = available["check"]
    BY <1>1, <1>4 DEF BuildGraph, IndInv, TypeOK, Pass
  <2>. QED
    BY <1>1, <1>4, <2>1, QuietReports DEF BuildGraph
<1>. QED
  BY <1>1, <1>2, <1>3, <1>4, TakeEdgeReports, TakeErrorRouteReports DEF Next

LEMMA RedefineMatches ==
    ASSUME MatchInv, Redefine
    PROVE  WalksMatch' /\ ReportsStay'
<1>1. design' \in Design
  BY VersionAssumption DEF MatchInv, GraphInv, VersionsOK, Redefine
<1>2. Starting'
  BY <1>1 DEF Redefine, Starting, call
<1>3. WalksMatch'
  BY <1>2, StartMatches, PTL
<1>. QED
  BY <1>3 DEF ReportsStay, Redefine

LEMMA MatchInvariance == GraphSpec => []MatchInv
<1>1. GraphInit => MatchInv
  <2>1. GraphInit => Starting
    BY DesignAssumption DEF GraphInit, Init, Starting
  <2>. QED
    BY <2>1, GraphInitInd, StartMatches DEF MatchInv, ReportsStay, Starting
<1>2. MatchInv /\ UNCHANGED graphVars => WalksMatch' /\ ReportsStay'
  <2>. SUFFICES ASSUME MatchInv, UNCHANGED graphVars PROVE WalksMatch' /\ ReportsStay'
    OBVIOUS
  <2>1. /\ design' = design /\ pass' = pass /\ visited' = visited /\ available' = available
        /\ taken' = taken /\ stack' = stack /\ errors' = errors
    BY DEF graphVars, vars
  <2>2. Started' = Started /\ current("check")' = current("check")
        /\ current("graph")' = current("graph") /\ checked' = checked
    BY <2>1 DEF Started, current, checked, walk, call
  <2>3. WalksMatch'
    BY <2>1, <2>2, LeadsStays DEF MatchInv, WalksMatch, NoRoutes
  <2>. QED
    BY <2>1, <2>3, QuietReports DEF MatchInv
<1>3. MatchInv /\ [GraphNext]_graphVars => WalksMatch' /\ ReportsStay'
  BY <1>2, StepMatches, RedefineMatches DEF GraphNext, Analyse
<1>4. MatchInv /\ [GraphNext]_graphVars /\ GraphInv' => MatchInv'
  BY <1>3 DEF MatchInv
<1>. QED
  BY <1>1, <1>4, GraphInvariance, PTL DEF GraphSpec

(* The end of the first walk is that of the second.                        *)
LEMMA MatchedWalksAgree == MatchInv => WalksAgree
<1>. SUFFICES ASSUME MatchInv, Done("graph"), NoRoutes
              PROVE  /\ visited["graph"] = visited["check"]
                     /\ available["graph"] = available["check"]
                     /\ taken["graph"] = taken["check"]
  BY DEF WalksAgree, NoRoutes
<1>1. pass = "graph" /\ stack = <<>>
  BY DEF Done
<1>2. Leads(current("graph"), checked) /\ current("graph").stack = <<>>
  BY <1>1 DEF MatchInv, WalksMatch, current, walk
<1>3. checked = current("graph")
  BY <1>2, LeadsNowhere
<1>. QED
  BY <1>3 DEF checked, current, walk

(* What the check reports, the graph lists as missing where it is asked    *)
(* for: a guard or a processor of the transition is a node that needs it.  *)
LEMMA ReportsAreExplained == MatchInv => ErrorsAreExplained
<1>. SUFFICES ASSUME MatchInv, Done("graph"), NoRoutes, NEW x \in errors
              PROVE  x[2] \in explain(edge(x[1]).from)
  BY DEF ErrorsAreExplained, NoRoutes
<1>1. available["graph"] = available["check"] /\ taken["graph"] = taken["check"]
  BY MatchedWalksAgree DEF WalksAgree, NoRoutes
<1>. DEFINE i == x[1]
            k == x[2]
<1>2. /\ i \in taken["graph"] /\ k \in edge(i).asks \cup edge(i).needs
      /\ k \notin availableAt(edge(i).from)
  BY <1>1 DEF MatchInv, ReportsStay, availableAt
<1>3. PICK kind \in {"guard", "processor"} : k \in node(kind, i).requires
  BY <1>2 DEF node
<1>. DEFINE n == node(kind, i)
<1>4. n \in Nodes /\ n.from = edge(i).from
  BY <1>2, <1>3 DEF Nodes, node
<1>5. k \in allTypes /\ n \in consumersOf(k)
  BY <1>3, <1>4 DEF allTypes, consumersOf
<1>. QED
  BY <1>2, <1>4, <1>5 DEF explain

(* data-flow-graph.ts repeats the walk of the check: without error routes  *)
(* it visits the same states, takes the same transitions and leaves the    *)
(* same keys, for any definition in any order; and every gap that build()  *)
(* reports is one the graph explains.                                      *)
THEOREM GraphExplainsTheCheck == GraphSpec => []GraphMatchesCheck
<1>1. MatchInv => GraphMatchesCheck
  BY MatchedWalksAgree, ReportsAreExplained DEF GraphMatchesCheck
<1>. QED
  BY <1>1, MatchInvariance, PTL

-----------------------------------------------------------------------------
(* What the check leaves behind, seen from the sets it has in the end.     *)

(* The gaps of a transition whose state is visited are in the report, or   *)
(* some call will go through the transition: it does so whenever the set   *)
(* of the state shrinks.                                                   *)
GapsReported ==
    \A i \in DOMAIN design.edges :
        edge(i).from \in visited["check"] =>
            \/ {i} \X gap(edge(i), available["check"][edge(i).from]) \subseteq errors
            \/ pass = "check" /\ Pending(i)

(* K has what there is at the start and what resumes bring, and whoever    *)
(* finds what it asks for in K gives nothing else.                         *)
Grounded(K) ==
    /\ design.initially \cup design.provided \subseteq K
    /\ \A i \in taken["check"] : /\ edge(i).asks \subseteq K => edge(i).gives \subseteq K
                                 /\ edge(i).needs \subseteq K => edge(i).puts \subseteq K

(* As long as nothing is reported, all that is available and asked for     *)
(* comes from the start and from resumes by way of nodes.                  *)
KeysAreGrounded ==
    (NoRoutes /\ errors = {}) =>
        \A K \in SUBSET Key : Grounded(K) =>
            /\ \A s \in visited["check"] : available["check"][s] \subseteq K
            /\ \A i \in taken["check"] : edge(i).asks \cup edge(i).needs \subseteq K

AnswersInv == MatchInv /\ GapsReported /\ KeysAreGrounded

(* What is asked for and not there is missing, as the documents have it.   *)
LEMMA GapIsMissing == \A e, A : gap(e, A) = missing(e, A)
BY DEF gap, missing, received, given

(* An entry leaves the set of a state alone, or a call for it goes through *)
(* its transitions anew; all others that were pending still are, but for   *)
(* those the innermost call has now gone past.                             *)
LEMMA EntryIsFollowed ==
    ASSUME TypeOK, pass = "check", stack # <<>>, design' = design,
           NEW s \in State, NEW A \in SUBSET Key, NEW frame \in Frame, frame.state = Top.state,
           visit(s, A, Append(Callers, frame)),
           NEW j \in DOMAIN design.edges, edge(j).from \in visited'["check"], ~Pending(j)'
    PROVE  /\ edge(j).from \in visited["check"]
           /\ available'["check"][edge(j).from] = available["check"][edge(j).from]
           /\ Pending(j) => edge(j).from = Top.state /\ Top.next <= j /\ j < frame.next
<1>. DEFINE rest == Append(Callers, frame)
<1>1. /\ visited \in [Pass -> SUBSET State] /\ available \in [Pass -> [State -> SUBSET Key]]
      /\ pass \in Pass /\ stack \in Seq(Frame) /\ j \in Nat \ {0}
  BY DesignType DEF TypeOK
<1>2. /\ rest \in Seq(Frame) /\ DOMAIN rest = 1 .. Len(stack)
      /\ \A n \in 1 .. Len(stack) - 1 : rest[n] = stack[n]
      /\ rest[Len(stack)] = frame
      /\ Len(stack) \in Nat \ {0} /\ DOMAIN stack = 1 .. Len(stack) /\ Top = stack[Len(stack)]
  BY <1>1, StackType DEF Top
<1>3. /\ call(s) \in Frame /\ call(s).state = s /\ call(s).next = 1
  BY DEF call, Frame
<1>4. /\ DOMAIN Append(rest, call(s)) = 1 .. Len(stack) + 1
      /\ \A n \in 1 .. Len(stack) : Append(rest, call(s))[n] = rest[n]
      /\ Append(rest, call(s))[Len(stack) + 1] = call(s)
  <2>. HIDE DEF rest
  <2>1. Len(rest) = Len(stack)
    BY <1>2, LenProperties
  <2>. QED
    BY <1>2, <1>3, <2>1, AppendProperties, LenProperties
<1>5. visit(s, A, rest)
  OBVIOUS
<1>. HIDE DEF rest
<1>6. \A n \in 1 .. Len(stack) : n \in DOMAIN stack' /\ stack'[n] = rest[n]
  BY <1>2, <1>4, <1>5 DEF visit
<1>7. ~ \E n \in DOMAIN stack' : stack'[n].state = edge(j).from /\ stack'[n].next <= j
  BY DEF Pending, edge
<1>8. Pending(j) => edge(j).from = Top.state /\ Top.next <= j /\ j < frame.next
  <2>. SUFFICES ASSUME NEW n \in DOMAIN stack, stack[n].state = edge(j).from, stack[n].next <= j
                PROVE  edge(j).from = Top.state /\ Top.next <= j /\ j < frame.next
    BY DEF Pending
  <2>1. n = Len(stack)
    BY <1>2, <1>6, <1>7
  <2>2. ~(frame.next <= j)
    BY <1>2, <1>6, <1>7, <2>1
  <2>3. frame.next \in Nat
    BY DEF Frame
  <2>. QED
    BY <1>1, <1>2, <2>1, <2>2, <2>3
<1>9. CASE settled(s, A)
  BY <1>5, <1>8, <1>9 DEF visit
<1>10. CASE ~settled(s, A)
  <2>1. /\ stack' = Append(rest, call(s))
        /\ visited'["check"] = visited["check"] \cup {s}
        /\ \A r \in State : r # s => available'["check"][r] = available["check"][r]
    BY <1>1, <1>5, <1>10 DEF visit
  <2>2. edge(j).from # s
    BY <1>1, <1>2, <1>3, <1>4, <1>7, <2>1
  <2>3. edge(j).from \in visited["check"] /\ edge(j).from \in State
    BY <1>1, <2>1, <2>2 DEF Pass
  <2>. QED
    BY <1>8, <2>1, <2>2, <2>3
<1>. QED
  BY <1>9, <1>10

LEMMA TakeEdgeAnswers ==
    ASSUME IndInv, GapsReported, KeysAreGrounded, TakeEdge, pass = "check"
    PROVE  GapsReported' /\ KeysAreGrounded'
<1>0. TypeOK /\ StackOK /\ stack # <<>> /\ design' = design /\ pass' = pass
  BY DEF IndInv, TakeEdge
<1>. DEFINE A == available[pass][Top.state]
<1>1. PICK i \in Remaining :
        /\ \A j \in Remaining : i <= j
        /\ visit(edge(i).to, propagate(edge(i), A),
                 Append(Callers, [Top EXCEPT !.next = i + 1,
                                             !.failing = IF followsError(edge(i)) THEN i ELSE 0]))
        /\ taken' = [taken EXCEPT ![pass] = @ \cup {i}]
        /\ errors' = errors \cup ({i} \X missing(edge(i), A))
  BY DEF TakeEdge
<1>2. /\ visited \in [Pass -> SUBSET State] /\ available \in [Pass -> [State -> SUBSET Key]]
      /\ taken \in [Pass -> SUBSET (Nat \ {0})] /\ pass \in Pass
  BY <1>0 DEF TypeOK
<1>3. /\ Top \in Frame /\ Top.state \in State /\ DOMAIN stack = 1 .. Len(stack)
      /\ Len(stack) \in Nat \ {0} /\ Top = stack[Len(stack)]
  BY <1>0, StackType DEF TypeOK, Frame, Top
<1>4. /\ i \in DOMAIN design.edges /\ edge(i) \in Edge /\ edge(i).to \in State
      /\ edge(i).from = Top.state /\ i \in Nat \ {0}
  BY <1>0, <1>1, DesignType DEF Remaining, Edge
<1>5. A \in SUBSET Key /\ propagate(edge(i), A) \in SUBSET Key
  BY <1>0, <1>2, <1>3, <1>4, EdgeKeys
<1>6. Top.state \in visited["check"]
  BY <1>0, <1>3 DEF StackOK, FrameOK
<1>. DEFINE failing == IF followsError(edge(i)) THEN i ELSE 0
            frame   == [Top EXCEPT !.next = i + 1, !.failing = failing]
<1>7. frame \in Frame /\ frame.state = Top.state /\ frame.next = i + 1
  <2>1. failing \in Nat /\ i + 1 \in Nat \ {0}
    BY <1>4
  <2>. HIDE DEF failing
  <2>. QED
    BY <1>3, <2>1 DEF Frame
<1>8. visit(edge(i).to, propagate(edge(i), A), Append(Callers, frame))
  BY <1>1
<1>. HIDE DEF frame, failing
<1>9. GapsReported'
  <2>. SUFFICES ASSUME NEW j \in DOMAIN design.edges, edge(j).from \in visited'["check"], ~Pending(j)'
                PROVE  {j} \X gap(edge(j), available'["check"][edge(j).from]) \subseteq errors'
    BY <1>0, DesignStays DEF GapsReported
  <2>. DEFINE to == edge(i).to
              B  == propagate(edge(i), A)
  <2>1. to \in State /\ B \in SUBSET Key /\ visit(to, B, Append(Callers, frame))
    BY <1>4, <1>5, <1>8
  <2>. HIDE DEF to, B
  <2>2. /\ edge(j).from \in visited["check"]
        /\ available'["check"][edge(j).from] = available["check"][edge(j).from]
        /\ Pending(j) => edge(j).from = Top.state /\ Top.next <= j /\ j < frame.next
    BY <1>0, <1>7, <2>1, EntryIsFollowed
  <2>3. CASE ~Pending(j)
    BY <1>1, <2>2, <2>3 DEF GapsReported
  <2>4. CASE Pending(j)
    <3>1. j \in Remaining /\ j \in Nat \ {0}
      BY <1>0, <2>2, <2>4, DesignType DEF Remaining
    <3>2. j = i
      BY <1>1, <1>4, <1>7, <2>2, <2>4, <3>1
    <3>. QED
      BY <1>1, <1>4, <2>2, <3>2, GapIsMissing
  <2>. QED
    BY <2>3, <2>4
<1>10. KeysAreGrounded'
  <2>. SUFFICES ASSUME NoRoutes, errors' = {}, NEW K \in SUBSET Key, Grounded(K)'
                PROVE  /\ \A s \in visited'["check"] : available'["check"][s] \subseteq K
                       /\ \A j \in taken'["check"] : edge(j).asks \cup edge(j).needs \subseteq K
    BY <1>0, DesignStays DEF KeysAreGrounded, NoRoutes
  <2>1. taken'["check"] = taken["check"] \cup {i}
    BY <1>0, <1>1, <1>2 DEF Pass
  <2>2. Grounded(K)
    BY <1>0, <2>1, DesignStays DEF Grounded
  <2>3. /\ design.provided \subseteq K
        /\ edge(i).asks \subseteq K => edge(i).gives \subseteq K
        /\ edge(i).needs \subseteq K => edge(i).puts \subseteq K
    BY <1>0, <2>1, DesignStays DEF Grounded
  <2>4. errors = {} /\ missing(edge(i), A) = {}
    <3>. DEFINE M == missing(edge(i), A)
    <3>1. errors \cup ({i} \X M) = {}
      BY <1>1
    <3>. HIDE DEF M
    <3>2. errors = {} /\ {i} \X M = {}
      BY <3>1
    <3>3. ASSUME NEW k \in M PROVE FALSE
      <4>1. <<i, k>> \in {i} \X M
        BY <3>3
      <4>. QED
        BY <3>2, <4>1
    <3>4. M = {}
      BY <3>3
    <3>. QED
      BY <3>2, <3>4 DEF M
  <2>5. /\ \A s \in visited["check"] : available["check"][s] \subseteq K
        /\ \A j \in taken["check"] : edge(j).asks \cup edge(j).needs \subseteq K
    BY <2>2, <2>4 DEF KeysAreGrounded
  <2>6. A \subseteq K
    BY <1>6, <2>5
  <2>7. received(edge(i), A) \subseteq K
    BY <2>3, <2>6 DEF received
  <2>8. edge(i).asks \subseteq K
    BY <2>4, <2>7 DEF missing
  <2>9. edge(i).needs \subseteq K
    BY <2>3, <2>4, <2>7, <2>8 DEF missing
  <2>10. propagate(edge(i), A) \subseteq K
    BY <2>3, <2>7, <2>8, <2>9 DEF propagate
  <2>11. ASSUME NEW s \in visited'["check"] PROVE available'["check"][s] \subseteq K
    <3>. DEFINE to == edge(i).to
                B  == propagate(edge(i), A)
                rest == Append(Callers, frame)
    <3>1. to \in State /\ B \in SUBSET Key /\ visit(to, B, rest) /\ B \subseteq K
      BY <1>4, <1>5, <1>8, <2>10
    <3>. HIDE DEF to, B, rest
    <3>2. TypeOK /\ to \in State /\ B \in SUBSET Key /\ visit(to, B, rest)
      BY <1>0, <3>1
    <3>3. \A r \in visited'[pass] :
             \/ r \in visited[pass] /\ available'[pass][r] = available[pass][r]
             \/ r = to /\ r \in visited[pass] /\ available'[pass][r] = available[pass][r] \cap B
             \/ r = to /\ available'[pass][r] = B
      BY <3>2, VisitKeys
    <3>. QED
      BY <2>5, <2>11, <3>1, <3>3
  <2>. QED
    BY <2>1, <2>5, <2>8, <2>9, <2>11
<1>. QED
  BY <1>9, <1>10

LEMMA TakeErrorRouteAnswers ==
    ASSUME IndInv, GapsReported, TakeErrorRoute
    PROVE  GapsReported' /\ KeysAreGrounded'
<1>0. /\ TypeOK /\ StackOK /\ stack # <<>> /\ Top.failing # 0
      /\ design' = design /\ pass' = pass /\ errors' = errors
  BY DEF IndInv, TakeErrorRoute
<1>1. /\ Top \in Frame /\ Top.state \in State /\ DOMAIN stack = 1 .. Len(stack)
      /\ Len(stack) \in Nat \ {0} /\ Top = stack[Len(stack)]
  BY <1>0, StackType DEF TypeOK, Frame, Top
<1>2. /\ pass = "check" /\ Top.failing \in DOMAIN design.edges /\ canFail(edge(Top.failing))
  BY <1>0, <1>1 DEF StackOK, FrameOK
<1>. DEFINE e     == edge(Top.failing)
            to    == design.onError[e.from]
            B     == rollback(e, available[pass][Top.state])
            frame == [Top EXCEPT !.failing = 0]
<1>3. e \in Edge /\ e.from \in State /\ to \in State
  BY <1>0, <1>2, DesignType DEF canFail, Edge
<1>4. B \in SUBSET Key
  BY <1>0, <1>1, <1>3, EdgeKeys DEF TypeOK
<1>5. frame \in Frame /\ frame.state = Top.state /\ frame.next = Top.next
  BY <1>1 DEF Frame
<1>6. visit(to, B, Append(Callers, frame))
  BY DEF TakeErrorRoute
<1>7. ~NoRoutes
  BY <1>2, <1>3 DEF NoRoutes, canFail
<1>. HIDE DEF frame, to, B
<1>8. GapsReported'
  <2>. SUFFICES ASSUME NEW j \in DOMAIN design.edges, edge(j).from \in visited'["check"], ~Pending(j)'
                PROVE  {j} \X gap(edge(j), available'["check"][edge(j).from]) \subseteq errors
    BY <1>0, <1>2, DesignStays DEF GapsReported
  <2>1. /\ edge(j).from \in visited["check"]
        /\ available'["check"][edge(j).from] = available["check"][edge(j).from]
        /\ Pending(j) => edge(j).from = Top.state /\ Top.next <= j /\ j < frame.next
    BY <1>0, <1>2, <1>3, <1>4, <1>5, <1>6, EntryIsFollowed
  <2>2. j \in Nat /\ Top.next \in Nat
    BY <1>0, <1>1, DesignType DEF Frame
  <2>. QED
    BY <1>5, <2>1, <2>2 DEF GapsReported
<1>. QED
  BY <1>0, <1>7, <1>8 DEF KeysAreGrounded, NoRoutes

(* What the other steps leave alone.                                       *)
LEMMA QuietAnswers ==
    ASSUME GapsReported, KeysAreGrounded, design' = design, errors' = errors,
           taken'["check"] = taken["check"], visited'["check"] = visited["check"],
           available'["check"] = available["check"],
           \A i \in DOMAIN design.edges : pass = "check" /\ Pending(i) => pass' = "check" /\ Pending(i)'
    PROVE  GapsReported' /\ KeysAreGrounded'
<1>1. GapsReported'
  BY DesignStays DEF GapsReported
<1>2. \A K : Grounded(K)' <=> Grounded(K)
  BY DesignStays DEF Grounded
<1>. QED
  BY <1>1, <1>2, DesignStays DEF KeysAreGrounded, NoRoutes

LEMMA StepAnswers ==
    ASSUME AnswersInv, Next
    PROVE  GapsReported' /\ KeysAreGrounded'
<1>0. IndInv /\ GapsReported /\ KeysAreGrounded /\ TypeOK
  BY DEF AnswersInv, MatchInv, GraphInv, IndInv
<1>1. CASE TakeEdge /\ pass = "graph"
  <2>1. PICK i, A, rest :
          /\ visit(edge(i).to, A, rest)
          /\ taken' = [taken EXCEPT ![pass] = @ \cup {i}]
          /\ errors' = errors /\ design' = design
    BY <1>1 DEF TakeEdge
  <2>2. /\ taken'["check"] = taken["check"] /\ visited'["check"] = visited["check"]
        /\ available'["check"] = available["check"]
    BY <1>0, <1>1, <2>1 DEF visit, TypeOK, Pass
  <2>. QED
    BY <1>0, <1>1, <2>1, <2>2, QuietAnswers
<1>2. CASE TakeEdge /\ pass = "check"
  BY <1>0, <1>2, TakeEdgeAnswers
<1>3. CASE Return
  <2>1. /\ Len(stack) \in Nat \ {0} /\ DOMAIN stack = 1 .. Len(stack)
        /\ DOMAIN stack' = 1 .. Len(stack) - 1
        /\ \A n \in 1 .. Len(stack) - 1 : stack'[n] = stack[n]
        /\ Top = stack[Len(stack)] /\ Remaining = {}
    BY <1>0, <1>3, StackType DEF TypeOK, Top, Return
  <2>2. ASSUME NEW j \in DOMAIN design.edges, Pending(j) PROVE Pending(j)'
    <3>1. PICK n \in DOMAIN stack : stack[n].state = edge(j).from /\ stack[n].next <= j
      BY <2>2 DEF Pending
    <3>2. n # Len(stack)
      BY <2>1, <3>1 DEF Remaining
    <3>3. n \in DOMAIN stack' /\ stack'[n] = stack[n]
      BY <2>1, <3>2
    <3>. QED
      BY <1>3, <3>1, <3>3 DEF Pending, edge, Return
  <2>. QED
    BY <1>0, <1>3, <2>2, QuietAnswers DEF Return
<1>4. CASE BuildGraph
  <2>1. \A i : ~Pending(i)
    BY <1>4 DEF Pending, BuildGraph
  <2>2. /\ taken'["check"] = taken["check"] /\ visited'["check"] = visited["check"]
        /\ available'["check"] = available["check"]
    BY <1>0, <1>4 DEF BuildGraph, TypeOK, Pass
  <2>. QED
    BY <1>0, <1>4, <2>1, <2>2, QuietAnswers DEF BuildGraph
<1>5. pass = "check" \/ pass = "graph"
  BY <1>0 DEF TypeOK, Pass
<1>. QED
  BY <1>0, <1>1, <1>2, <1>3, <1>4, <1>5, TakeErrorRouteAnswers DEF Next

LEMMA StartAnswers == Starting => GapsReported /\ KeysAreGrounded
<1>. SUFFICES ASSUME Starting PROVE GapsReported /\ KeysAreGrounded
  OBVIOUS
<1>1. IndInv /\ TypeOK
  BY StartInd DEF IndInv
<1>2. /\ taken["check"] = {} /\ visited["check"] = {design.initial} /\ pass = "check"
      /\ design.initial \in State /\ available["check"][design.initial] = design.initially
  BY <1>1, DesignType DEF Starting, Pass
<1>3. GapsReported
  BY <1>1, <1>2 DEF GapsReported, IndInv, NothingForgotten
<1>. QED
  BY <1>2, <1>3 DEF KeysAreGrounded, Grounded

LEMMA AnswersInvariance == GraphSpec => []AnswersInv
<1>1. GraphInit => GapsReported /\ KeysAreGrounded
  <2>1. GraphInit => Starting
    BY DesignAssumption DEF GraphInit, Init, Starting
  <2>. QED
    BY <2>1, StartAnswers
<1>2. AnswersInv /\ UNCHANGED graphVars => GapsReported' /\ KeysAreGrounded'
  <2>. SUFFICES ASSUME AnswersInv, UNCHANGED graphVars PROVE GapsReported' /\ KeysAreGrounded'
    OBVIOUS
  <2>1. /\ design' = design /\ pass' = pass /\ visited' = visited /\ available' = available
        /\ taken' = taken /\ stack' = stack /\ errors' = errors
    BY DEF graphVars, vars
  <2>2. \A i : Pending(i) => Pending(i)'
    BY <2>1 DEF Pending, edge
  <2>. QED
    BY <2>1, <2>2, QuietAnswers DEF AnswersInv
<1>3. AnswersInv /\ Redefine => GapsReported' /\ KeysAreGrounded'
  <2>. SUFFICES ASSUME AnswersInv, Redefine PROVE GapsReported' /\ KeysAreGrounded'
    OBVIOUS
  <2>1. design' \in Design
    BY VersionAssumption DEF AnswersInv, MatchInv, GraphInv, VersionsOK, Redefine
  <2>2. Starting'
    BY <2>1 DEF Redefine, Starting, call
  <2>. QED
    BY <2>2, StartAnswers, PTL
<1>4. AnswersInv /\ [GraphNext]_graphVars => GapsReported' /\ KeysAreGrounded'
  BY <1>2, <1>3, StepAnswers DEF GraphNext, Analyse
<1>5. AnswersInv /\ [GraphNext]_graphVars /\ MatchInv' => AnswersInv'
  BY <1>4 DEF AnswersInv
<1>6. GraphInit /\ MatchInv => AnswersInv
  BY <1>1 DEF AnswersInv
<1>. QED
  BY <1>5, <1>6, MatchInvariance, PTL DEF GraphSpec

(* Whatever an old instance may lack of what the new version asks for is   *)
(* announced by versionCompatibility or by the build of the new version,   *)
(* for any two versions: the check goes through the transitions of a state *)
(* again each time its set of keys shrinks, so no gap is left unreported.  *)
THEOREM InstancesAreCovered == GraphSpec => []VersionCheckCoversInstances
<1>1. AnswersInv => VersionCheckCoversInstances
  <2>. SUFFICES ASSUME AnswersInv, Done("graph"), NoRoutes, NEW i \in DOMAIN design.edges,
                       edge(i).from \in previous.visited, edge(i).from \in visited["graph"],
                       NEW k \in gap(edge(i), previous.available[edge(i).from])
                PROVE  <<edge(i).from, k>> \in versionIncompatibilities \/ <<i, k>> \in errors
    BY DEF VersionCheckCoversInstances, NoRoutes
  <2>1. pass = "graph" /\ TypeOK
    BY DEF Done, AnswersInv, MatchInv, GraphInv, IndInv
  <2>2. visited["graph"] = visited["check"] /\ available["graph"] = available["check"]
    BY MatchedWalksAgree DEF WalksAgree, NoRoutes, AnswersInv
  <2>3. {i} \X gap(edge(i), available["check"][edge(i).from]) \subseteq errors
    BY <2>1, <2>2 DEF AnswersInv, GapsReported
  <2>4. availableAt(edge(i).from) \subseteq Key
    BY <2>1 DEF availableAt, TypeOK, Pass
  <2>5. CASE k \in availableAt(edge(i).from)
    BY <2>4, <2>5 DEF versionIncompatibilities, gap
  <2>6. CASE k \notin availableAt(edge(i).from)
    <3>1. k \in gap(edge(i), available["check"][edge(i).from])
      BY <2>2, <2>6 DEF gap, availableAt
    <3>. QED
      BY <2>3, <3>1
  <2>. QED
    BY <2>5, <2>6
<1>. QED
  BY <1>1, AnswersInvariance, PTL

-----------------------------------------------------------------------------
(* The migration order.  Its recursion is over sets that get smaller, so   *)
(* what it returns is shown for a least set that would be an exception.    *)

(* Induction over the natural numbers, for a set.                          *)
LEMMA AllNumbers ==
    ASSUME NEW S, 0 \in S, \A n \in Nat : n \in S => n + 1 \in S
    PROVE  Nat \subseteq S
<1>. SUFFICES ASSUME Nat \ S # {} PROVE FALSE
  OBVIOUS
<1>1. PICK n \in Nat \ S : \A m \in Nat \ S : ~(<<m, n>> \in OpToRel(<, Nat))
  BY NatLessThanWellFounded, WFMin
<1>2. n # 0 /\ n \in Nat
  BY <1>1
<1>3. n - 1 \in Nat /\ n - 1 < n
  BY <1>2
<1>4. <<n - 1, n>> \in OpToRel(<, Nat)
  BY <1>2, <1>3 DEF OpToRel
<1>5. n - 1 \in S
  BY <1>1, <1>3, <1>4
<1>6. (n - 1) + 1 \in S /\ (n - 1) + 1 = n
  BY <1>2, <1>3, <1>5
<1>. QED
  BY <1>1, <1>6

LEMMA NodesAreFinite ==
    ASSUME TypeOK
    PROVE  IsFiniteSet(Nodes)
<1>1. taken["graph"] \subseteq 1 .. Len(design.edges) /\ Len(design.edges) \in Nat
  BY DesignType DEF TypeOK, Pass
<1>2. IsFiniteSet(taken["graph"])
  <2>1. IsFiniteSet(1 .. Len(design.edges))
    BY <1>1, FS_Interval
  <2>. QED
    BY <1>1, <2>1, FS_Subset
<1>3. ASSUME NEW kind PROVE IsFiniteSet({node(kind, i) : i \in taken["graph"]})
  <2>. DEFINE T == {node(kind, i) : i \in taken["graph"]}
              f == [i \in taken["graph"] |-> node(kind, i)]
  <2>1. f \in Surjection(taken["graph"], T)
    BY DEF Surjection
  <2>. QED
    BY <1>2, <2>1, FS_Surjection
<1>4. Nodes \subseteq {node("guard", i) : i \in taken["graph"]}
                      \cup {node("processor", i) : i \in taken["graph"]}
  BY DEF Nodes
<1>5. IsFiniteSet({node("guard", i) : i \in taken["graph"]}
                  \cup {node("processor", i) : i \in taken["graph"]})
  BY <1>3, FS_Union
<1>. QED
  BY <1>4, <1>5, FS_Subset

(* Some ready node is next.                                                *)
LEMMA NextIsLeft ==
    ASSUME NEW left, ready(left) # {}
    PROVE  nextOf(left) \in left /\ nextOf(left) \in ready(left)
<1>1. \E n \in ready(left) : TRUE
  OBVIOUS
<1>2. nextOf(left) \in ready(left)
  BY <1>1 DEF nextOf
<1>. QED
  BY <1>2 DEF ready

LEMMA SmallerLeft ==
    ASSUME IsFiniteSet(Nodes), NEW left \in SUBSET Nodes, NEW n \in left
    PROVE  /\ left \ {n} \in SUBSET Nodes
           /\ Cardinality(left) \in Nat \ {0}
           /\ Cardinality(left \ {n}) = Cardinality(left) - 1
<1>1. IsFiniteSet(left)
  BY FS_Subset
<1>. QED
  BY <1>1, FS_RemoveElement, FS_CardinalityType, FS_EmptySet

(* A recursion that puts one node of what is left first, until it stops,   *)
(* defines a function.                                                     *)
Step(f, next, stop, base, left) ==
    IF left \in stop THEN base[left] ELSE <<next[left]>> \o f[left \ {next[left]}]

Unfolds(f, next, stop, base) == f = [left \in SUBSET Nodes |-> Step(f, next, stop, base, left)]

UpTo(n) == {left \in SUBSET Nodes : Cardinality(left) <= n}

LEMMA RecursionOnNodes ==
    ASSUME IsFiniteSet(Nodes), NEW next, NEW stop, NEW base,
           \A left \in SUBSET Nodes : left \notin stop => next[left] \in left
    PROVE  \E f : Unfolds(f, next, stop, base)
<1>. DEFINE Defined == {n \in Nat : \E f : f = [left \in UpTo(n) |-> Step(f, next, stop, base, left)]}
<1>1. 0 \in Defined
  <2>. DEFINE f == [left \in UpTo(0) |-> base[left]]
  <2>1. \A left \in UpTo(0) : left = {}
    BY FS_Subset, FS_EmptySet, FS_CardinalityType DEF UpTo
  <2>2. {} \in stop
    OBVIOUS
  <2>3. f = [left \in UpTo(0) |-> Step(f, next, stop, base, left)]
    BY <2>1, <2>2 DEF Step
  <2>. QED
    BY <2>3
<1>2. ASSUME NEW n \in Nat, n \in Defined
      PROVE  n + 1 \in Defined
  <2>1. PICK g : g = [left \in UpTo(n) |-> Step(g, next, stop, base, left)]
    BY <1>2
  <2>. DEFINE h == [left \in UpTo(n + 1) |-> Step(g, next, stop, base, left)]
  <2>2. ASSUME NEW left \in UpTo(n + 1), left \notin stop
        PROVE  h[left \ {next[left]}] = g[left \ {next[left]}]
    <3>1. left \in SUBSET Nodes /\ next[left] \in left /\ Cardinality(left) <= n + 1
      BY <2>2 DEF UpTo
    <3>2. left \ {next[left]} \in UpTo(n) /\ left \ {next[left]} \in UpTo(n + 1)
      BY <3>1, SmallerLeft DEF UpTo
    <3>. QED
      BY <2>1, <3>2
  <2>3. \A left \in UpTo(n + 1) : Step(h, next, stop, base, left) = Step(g, next, stop, base, left)
    <3>. HIDE DEF h
    <3>. QED
      BY <2>2 DEF Step
  <2>4. h = [left \in UpTo(n + 1) |-> Step(h, next, stop, base, left)]
    BY <2>3
  <2>5. \E f : f = [left \in UpTo(n + 1) |-> Step(f, next, stop, base, left)]
    <3>. HIDE DEF h
    <3>. QED
      BY <2>4
  <2>. QED
    BY <2>5
<1>3. Cardinality(Nodes) \in Defined
  <2>. HIDE DEF Defined
  <2>. QED
    BY <1>1, <1>2, AllNumbers, FS_CardinalityType
<1>4. UpTo(Cardinality(Nodes)) = SUBSET Nodes
  BY FS_Subset DEF UpTo
<1>. QED
  BY <1>3, <1>4 DEF Unfolds

RestStep(f, left) ==
    LET n == CHOOSE m \in left : TRUE
    IN  IF left = {} THEN <<>> ELSE <<n>> \o f[left \ {n}]

OrderStep(f, left) ==
    IF ready(left) = {} THEN restOf[left] ELSE <<nextOf(left)>> \o f[left \ {nextOf(left)}]

LEMMA OrdersUnfold ==
    ASSUME IsFiniteSet(Nodes)
    PROVE  /\ \A left \in SUBSET Nodes : restOf[left] = RestStep(restOf, left)
           /\ \A left \in SUBSET Nodes : orderOf[left] = OrderStep(orderOf, left)
<1>1. \E f : f = [left \in SUBSET Nodes |-> RestStep(f, left)]
  <2>. DEFINE next == [left \in SUBSET Nodes |-> CHOOSE m \in left : TRUE]
              base == [left \in SUBSET Nodes |-> <<>>]
              stop == {{}}
  <2>1. \A left \in SUBSET Nodes : left \notin stop => next[left] \in left
    OBVIOUS
  <2>2. \A f : \A left \in SUBSET Nodes : Step(f, next, stop, base, left) = RestStep(f, left)
    BY DEF Step, RestStep
  <2>. HIDE DEF next, stop, base
  <2>3. PICK f : Unfolds(f, next, stop, base)
    BY <2>1, RecursionOnNodes
  <2>4. f = [left \in SUBSET Nodes |-> RestStep(f, left)]
    BY <2>2, <2>3 DEF Unfolds
  <2>. QED
    BY <2>4
<1>2. restOf = [left \in SUBSET Nodes |-> RestStep(restOf, left)]
  BY <1>1 DEF restOf, RestStep
<1>3. \E f : f = [left \in SUBSET Nodes |-> OrderStep(f, left)]
  <2>. DEFINE next == [left \in SUBSET Nodes |-> nextOf(left)]
              stop == {left \in SUBSET Nodes : ready(left) = {}}
  <2>1. \A left \in SUBSET Nodes : left \notin stop => next[left] \in left
    BY NextIsLeft
  <2>2. \A f : \A left \in SUBSET Nodes : Step(f, next, stop, restOf, left) = OrderStep(f, left)
    BY DEF Step, OrderStep
  <2>. HIDE DEF next, stop
  <2>3. PICK f : Unfolds(f, next, stop, restOf)
    BY <2>1, RecursionOnNodes
  <2>4. f = [left \in SUBSET Nodes |-> OrderStep(f, left)]
    BY <2>2, <2>3 DEF Unfolds
  <2>. QED
    BY <2>4
<1>4. orderOf = [left \in SUBSET Nodes |-> OrderStep(orderOf, left)]
  BY <1>3 DEF orderOf, OrderStep
<1>. QED
  BY <1>2, <1>4

(* A list of what is left has each node once.                              *)
Listed(left, order) ==
    /\ order \in Seq(Nodes) /\ Len(order) = Cardinality(left)
    /\ {order[i] : i \in DOMAIN order} = left

(* A list of what is left that begins with n.                              *)
ListedAfter(left, n, rest, order) ==
    /\ Listed(left, order)
    /\ DOMAIN order = 1 .. Len(rest) + 1 /\ Len(rest) \in Nat /\ DOMAIN rest = 1 .. Len(rest)
    /\ order[1] = n
    /\ \A i \in 1 .. Len(rest) : order[i + 1] = rest[i]

LEMMA ListedStep ==
    ASSUME IsFiniteSet(Nodes), NEW left \in SUBSET Nodes, NEW n \in left,
           NEW rest, Listed(left \ {n}, rest)
    PROVE  ListedAfter(left, n, rest, <<n>> \o rest)
<1>. DEFINE order == <<n>> \o rest
<1>0. /\ n \in Nodes /\ Cardinality(left) \in Nat \ {0}
      /\ Cardinality(left \ {n}) = Cardinality(left) - 1
  BY SmallerLeft
<1>1. /\ rest \in Seq(Nodes) /\ Len(rest) = Cardinality(left \ {n})
      /\ {rest[i] : i \in DOMAIN rest} = left \ {n}
  BY DEF Listed
<1>2. /\ order \in Seq(Nodes) /\ Len(order) = Len(rest) + 1 /\ Len(rest) \in Nat
      /\ DOMAIN order = 1 .. Len(rest) + 1 /\ DOMAIN rest = 1 .. Len(rest)
      /\ order[1] = n
      /\ \A i \in 1 .. Len(rest) : order[i + 1] = rest[i]
  <2>1. <<n>> \in Seq(Nodes) /\ Len(<<n>>) = 1 /\ <<n>>[1] = n
    BY <1>0
  <2>2. Len(rest) \in Nat /\ DOMAIN rest = 1 .. Len(rest)
    BY <1>1, LenProperties
  <2>3. /\ order \in Seq(Nodes) /\ Len(order) = 1 + Len(rest)
        /\ \A i \in 1 .. 1 + Len(rest) : order[i] = IF i <= 1 THEN <<n>>[i] ELSE rest[i - 1]
    <3>1. \A a, b \in Seq(Nodes) :
             /\ a \o b \in Seq(Nodes) /\ Len(a \o b) = Len(a) + Len(b)
             /\ \A i \in 1 .. Len(a) + Len(b) :
                  (a \o b)[i] = IF i <= Len(a) THEN a[i] ELSE b[i - Len(a)]
      BY ConcatProperties
    <3>. QED
      BY <1>1, <2>1, <3>1
  <2>4. DOMAIN order = 1 .. Len(rest) + 1
    BY <2>2, <2>3, LenProperties
  <2>. QED
    BY <2>1, <2>2, <2>3, <2>4
<1>3. {order[i] : i \in DOMAIN order} = left
  <2>1. ASSUME NEW i \in DOMAIN order PROVE order[i] \in left
    <3>1. CASE i = 1
      BY <1>0, <1>2, <3>1
    <3>2. CASE i # 1
      <4>1. i - 1 \in DOMAIN rest /\ order[i] = rest[i - 1]
        BY <1>2, <3>2
      <4>. QED
        BY <1>1, <4>1
    <3>. QED
      BY <3>1, <3>2
  <2>2. ASSUME NEW m \in left PROVE \E i \in DOMAIN order : order[i] = m
    <3>1. CASE m = n
      <4>1. 1 \in DOMAIN order
        BY <1>2
      <4>. QED
        BY <1>2, <3>1, <4>1
    <3>2. CASE m # n
      <4>1. PICK i \in DOMAIN rest : rest[i] = m
        BY <1>1, <3>2
      <4>2. i + 1 \in DOMAIN order /\ order[i + 1] = m
        BY <1>2, <4>1
      <4>. QED
        BY <4>2
    <3>. QED
      BY <3>1, <3>2
  <2>. QED
    BY <2>1, <2>2
<1>4. Len(order) = Cardinality(left)
  BY <1>0, <1>1, <1>2
<1>5. Listed(left, order)
  BY <1>2, <1>3, <1>4 DEF Listed
<1>. QED
  BY <1>2, <1>5 DEF ListedAfter

LEMMA RestsAreListed ==
    ASSUME IsFiniteSet(Nodes)
    PROVE  \A left \in SUBSET Nodes : Listed(left, restOf[left])
<1>. DEFINE Right == {n \in Nat : \A left \in SUBSET Nodes :
                                    Cardinality(left) = n => Listed(left, restOf[left])}
<1>1. 0 \in Right
  <2>. SUFFICES ASSUME NEW left \in SUBSET Nodes, Cardinality(left) = 0
                PROVE  Listed(left, restOf[left])
    OBVIOUS
  <2>1. left = {}
    BY FS_Subset, FS_EmptySet
  <2>2. restOf[left] = <<>>
    BY <2>1, OrdersUnfold DEF RestStep
  <2>. QED
    BY <2>1, <2>2, FS_EmptySet DEF Listed
<1>2. ASSUME NEW n \in Nat, n \in Right
      PROVE  n + 1 \in Right
  <2>. SUFFICES ASSUME NEW left \in SUBSET Nodes, Cardinality(left) = n + 1
                PROVE  Listed(left, restOf[left])
    OBVIOUS
  <2>1. left # {}
    BY FS_EmptySet
  <2>. DEFINE m == CHOOSE x \in left : TRUE
              small == left \ {m}
  <2>2. m \in left /\ restOf[left] = <<m>> \o restOf[small]
    BY <2>1, OrdersUnfold DEF RestStep
  <2>. HIDE DEF m
  <2>3. small \in SUBSET Nodes /\ Cardinality(small) = n
    BY <2>2, SmallerLeft
  <2>4. Listed(small, restOf[small])
    BY <1>2, <2>3
  <2>5. ListedAfter(left, m, restOf[small], restOf[left])
    BY <2>2, <2>4, ListedStep
  <2>. QED
    BY <2>5 DEF ListedAfter
<1>3. Nat \subseteq Right
  <2>. HIDE DEF Right
  <2>. QED
    BY <1>1, <1>2, AllNumbers
<1>4. \A left \in SUBSET Nodes : Cardinality(left) \in Nat
  BY FS_Subset, FS_CardinalityType
<1>. QED
  BY <1>3, <1>4

(* What is there for the i-th node of an order of what is left.            *)
beforeIn(left, order, i) ==
    design.initially \cup (UNION {n.produces : n \in Nodes \ left})
                     \cup (UNION {order[j].produces : j \in 1 .. i - 1})

LEMMA InBefore ==
    ASSUME NEW left, NEW order, NEW i, NEW k
    PROVE  k \in beforeIn(left, order, i) <=>
             \/ k \in design.initially
             \/ \E n \in Nodes \ left : k \in n.produces
             \/ \E j \in 1 .. i - 1 : k \in order[j].produces
BY DEF beforeIn

(* An order of what is left: each node once; and from the first that lacks *)
(* its data on no node has it.                                             *)
unfitIn(left, order, i) ==
    /\ ~(order[i].requires \subseteq beforeIn(left, order, i))
    /\ \A j \in 1 .. i - 1 : order[j].requires \subseteq beforeIn(left, order, j)

Ordered(left, order) ==
    /\ Listed(left, order)
    /\ \A i, j \in DOMAIN order :
         unfitIn(left, order, i) /\ i < j => ~(order[j].requires \subseteq beforeIn(left, order, i))

LEMMA BeforeFirst ==
    ASSUME NEW left, NEW order
    PROVE  beforeIn(left, order, 1) = design.initially \cup UNION {m.produces : m \in Nodes \ left}
<1>1. 1 .. 1 - 1 = {}
  OBVIOUS
<1>. QED
  BY <1>1 DEF beforeIn

(* Where no node is ready the rest may come in any order.                  *)
LEMMA StuckIsOrdered ==
    ASSUME NEW left \in SUBSET Nodes, ready(left) = {}, NEW order, Listed(left, order)
    PROVE  Ordered(left, order)
<1>1. DOMAIN order = 1 .. Len(order) /\ Len(order) \in Nat
  BY LenProperties DEF Listed
<1>2. \A i \in DOMAIN order : ~(order[i].requires \subseteq beforeIn(left, order, 1))
  BY BeforeFirst DEF Listed, ready
<1>3. ASSUME NEW i \in DOMAIN order, unfitIn(left, order, i) PROVE i = 1
  <2>. SUFFICES ASSUME i # 1 PROVE FALSE
    OBVIOUS
  <2>1. 1 \in 1 .. i - 1 /\ 1 \in DOMAIN order
    BY <1>1
  <2>. QED
    BY <1>2, <1>3, <2>1 DEF unfitIn
<1>. QED
  BY <1>2, <1>3 DEF Ordered

(* The next node is put before an order of the others.                     *)
LEMMA OrderedStep ==
    ASSUME IsFiniteSet(Nodes), NEW left \in SUBSET Nodes, ready(left) # {},
           NEW rest, Ordered(left \ {nextOf(left)}, rest)
    PROVE  Ordered(left, <<nextOf(left)>> \o rest)
<1>. DEFINE n     == nextOf(left)
            order == <<n>> \o rest
            small == left \ {n}
<1>0. n \in left /\ n \in Nodes /\ n \in ready(left) /\ small \in SUBSET Nodes
  BY NextIsLeft
<1>1. /\ Listed(small, rest)
      /\ \A i, j \in DOMAIN rest :
           unfitIn(small, rest, i) /\ i < j => ~(rest[j].requires \subseteq beforeIn(small, rest, i))
  BY DEF Ordered
<1>. HIDE DEF n, order
<1>3. order = <<n>> \o rest
  BY DEF order
<1>2. /\ Listed(left, order)
      /\ DOMAIN order = 1 .. Len(rest) + 1 /\ Len(rest) \in Nat /\ DOMAIN rest = 1 .. Len(rest)
      /\ order[1] = n
      /\ \A i \in 1 .. Len(rest) : order[i + 1] = rest[i]
  <2>1. ListedAfter(left, n, rest, <<n>> \o rest)
    BY <1>0, <1>1, ListedStep
  <2>. QED
    BY <1>3, <2>1 DEF ListedAfter
<1>4. order[1].requires \subseteq beforeIn(left, order, 1)
  BY <1>0, <1>2, BeforeFirst DEF ready
<1>5. ASSUME NEW i \in 1 .. Len(rest)
      PROVE  beforeIn(left, order, i + 1) = beforeIn(small, rest, i)
  <2>1. Nodes \ small = (Nodes \ left) \cup {n}
    BY <1>0
  <2>2. ASSUME NEW k
        PROVE  (\E j \in 1 .. (i + 1) - 1 : k \in order[j].produces)
               <=> (k \in n.produces \/ \E j \in 1 .. i - 1 : k \in rest[j].produces)
    <3>1. ASSUME NEW j \in 1 .. (i + 1) - 1, k \in order[j].produces
          PROVE  k \in n.produces \/ \E m \in 1 .. i - 1 : k \in rest[m].produces
      <4>1. j = 1 => order[j] = n
        BY <1>2
      <4>2. j # 1 => j - 1 \in 1 .. i - 1 /\ order[j] = rest[j - 1]
        <5>1. j # 1 => j - 1 \in 1 .. i - 1 /\ j - 1 \in 1 .. Len(rest) /\ (j - 1) + 1 = j
          BY <1>2
        <5>. QED
          BY <1>2, <5>1
      <4>. QED
        BY <3>1, <4>1, <4>2
    <3>2. ASSUME k \in n.produces PROVE \E j \in 1 .. (i + 1) - 1 : k \in order[j].produces
      <4>1. 1 \in 1 .. (i + 1) - 1 /\ order[1] = n
        BY <1>2
      <4>. QED
        BY <3>2, <4>1
    <3>3. ASSUME NEW j \in 1 .. i - 1, k \in rest[j].produces
          PROVE  \E m \in 1 .. (i + 1) - 1 : k \in order[m].produces
      <4>1. j + 1 \in 1 .. (i + 1) - 1 /\ j \in 1 .. Len(rest)
        BY <1>2
      <4>2. order[j + 1] = rest[j]
        BY <1>2, <4>1
      <4>. QED
        BY <3>3, <4>1, <4>2
    <3>. QED
      BY <3>1, <3>2, <3>3
  <2>3. ASSUME NEW k
        PROVE  k \in beforeIn(left, order, i + 1) <=> k \in beforeIn(small, rest, i)
    <3>1. k \in beforeIn(left, order, i + 1) <=>
             \/ k \in design.initially
             \/ \E m \in Nodes \ left : k \in m.produces
             \/ \E j \in 1 .. (i + 1) - 1 : k \in order[j].produces
      BY InBefore
    <3>2. k \in beforeIn(small, rest, i) <=>
             \/ k \in design.initially
             \/ \E m \in Nodes \ small : k \in m.produces
             \/ \E j \in 1 .. i - 1 : k \in rest[j].produces
      BY InBefore
    <3>. QED
      BY <2>1, <2>2, <3>1, <3>2
  <2>4. \A k : k \in beforeIn(left, order, i + 1) <=> k \in beforeIn(small, rest, i)
    BY <2>3
  <2>. QED
    BY <2>4 DEF before
<1>6. ASSUME NEW i \in DOMAIN order, NEW j \in DOMAIN order, i < j, unfitIn(left, order, i)
      PROVE  ~(order[j].requires \subseteq beforeIn(left, order, i))
  <2>1. i # 1
    BY <1>4, <1>6 DEF unfitIn
  <2>2. /\ i - 1 \in 1 .. Len(rest) /\ j - 1 \in 1 .. Len(rest) /\ i - 1 < j - 1
        /\ (i - 1) + 1 = i /\ (j - 1) + 1 = j
    BY <1>2, <1>6, <2>1
  <2>3. beforeIn(left, order, i) = beforeIn(small, rest, i - 1)
    BY <1>5, <2>2
  <2>4. order[i] = rest[i - 1] /\ order[j] = rest[j - 1]
    BY <1>2, <2>2
  <2>5. ASSUME NEW h \in 1 .. (i - 1) - 1
        PROVE  rest[h].requires \subseteq beforeIn(small, rest, h)
    <3>1. h + 1 \in 1 .. i - 1 /\ h \in 1 .. Len(rest)
      BY <1>2, <2>2
    <3>2. order[h + 1].requires \subseteq beforeIn(left, order, h + 1)
      BY <1>6, <3>1 DEF unfitIn
    <3>. QED
      BY <1>2, <1>5, <3>1, <3>2
  <2>6. unfitIn(small, rest, i - 1)
    BY <1>6, <2>3, <2>4, <2>5 DEF unfitIn
  <2>. QED
    BY <1>1, <1>2, <2>2, <2>3, <2>4, <2>6
<1>7. Ordered(left, order)
  BY <1>2, <1>6 DEF Ordered
<1>. QED
  BY <1>7 DEF order, n

LEMMA OrdersAreOrdered ==
    ASSUME IsFiniteSet(Nodes)
    PROVE  \A left \in SUBSET Nodes : Ordered(left, orderOf[left])
<1>. DEFINE Right == {n \in Nat : \A left \in SUBSET Nodes :
                                    Cardinality(left) = n => Ordered(left, orderOf[left])}
<1>0. ASSUME NEW left \in SUBSET Nodes, ready(left) = {} PROVE Ordered(left, orderOf[left])
  BY <1>0, OrdersUnfold, RestsAreListed, StuckIsOrdered DEF OrderStep
<1>1. 0 \in Right
  <2>. SUFFICES ASSUME NEW left \in SUBSET Nodes, Cardinality(left) = 0
                PROVE  Ordered(left, orderOf[left])
    OBVIOUS
  <2>1. left = {}
    BY FS_Subset, FS_EmptySet
  <2>. QED
    BY <1>0, <2>1 DEF ready
<1>2. ASSUME NEW n \in Nat, n \in Right
      PROVE  n + 1 \in Right
  <2>. SUFFICES ASSUME NEW left \in SUBSET Nodes, Cardinality(left) = n + 1, ready(left) # {}
                PROVE  Ordered(left, orderOf[left])
    BY <1>0
  <2>. DEFINE small == left \ {nextOf(left)}
  <2>2. small \in SUBSET Nodes /\ Cardinality(small) = n
    BY NextIsLeft, SmallerLeft
  <2>3. Ordered(small, orderOf[small])
    BY <1>2, <2>2
  <2>4. orderOf[left] = <<nextOf(left)>> \o orderOf[small]
    BY OrdersUnfold DEF OrderStep
  <2>. QED
    BY <2>3, <2>4, OrderedStep
<1>3. Nat \subseteq Right
  <2>. HIDE DEF Right
  <2>. QED
    BY <1>1, <1>2, AllNumbers
<1>4. \A left \in SUBSET Nodes : Cardinality(left) \in Nat
  BY FS_Subset, FS_CardinalityType
<1>. QED
  BY <1>3, <1>4

LEMMA MigrationIsOrdered ==
    ASSUME TypeOK
    PROVE  /\ Listed(Nodes, migrationOrder)
           /\ \A i, j \in DOMAIN migrationOrder :
                firstUnfit(migrationOrder, i) /\ i < j
                  => ~(migrationOrder[j].requires \subseteq before(migrationOrder, i))
<1>1. Ordered(Nodes, migrationOrder)
  BY NodesAreFinite, OrdersAreOrdered DEF migrationOrder
<1>2. UNION {n.produces : n \in Nodes \ Nodes} = {}
  OBVIOUS
<1>3. \A i : beforeIn(Nodes, migrationOrder, i) = before(migrationOrder, i)
  BY <1>2 DEF beforeIn, before
<1>4. \A i \in DOMAIN migrationOrder :
        firstUnfit(migrationOrder, i) => unfitIn(Nodes, migrationOrder, i)
  BY <1>3 DEF firstUnfit, fits, unfitIn
<1>. QED
  BY <1>1, <1>3, <1>4 DEF Ordered

(* migrationOrder lists each processor and guard once, after those it has  *)
(* its data from, for any definition: its data may be produced twice, late *)
(* or never.  Where it has to give up, no node of the rest had its data.   *)
THEOREM OrdersAreRight == GraphSpec => []MigrationFollowsData
<1>1. TypeOK => MigrationFollowsData
  BY MigrationIsOrdered DEF MigrationFollowsData, Listed
<1>2. GraphInv => MigrationFollowsData
  BY <1>1 DEF GraphInv, IndInv
<1>. QED
  BY <1>2, GraphInvariance, PTL

(* The nodes of an accepted definition do not wait for each other: its     *)
(* migration order gives up only where a key is waited for that resumes    *)
(* bring.  Take what there is before that place and what resumes bring:    *)
(* no node of the rest has its data there, so nobody gives anything else,  *)
(* and nothing else was asked for when the check went along the paths.     *)
THEOREM AcceptedIsOrdered == GraphSpec => []AcceptedIsOrderable
<1>1. AnswersInv => AcceptedIsOrderable
  <2>. DEFINE order == migrationOrder
  <2>. SUFFICES ASSUME AnswersInv, Done("graph"), errors = {}, NoRoutes,
                       NEW i \in DOMAIN order, firstUnfit(order, i),
                       \A j \in i .. Len(order) :
                           (order[j].requires \cap design.provided) \ before(order, i) = {}
                PROVE  FALSE
    BY DEF AcceptedIsOrderable, NoRoutes
  <2>0. TypeOK
    BY DEF AnswersInv, MatchInv, GraphInv, IndInv
  <2>1. /\ Listed(Nodes, order)
        /\ \A j \in DOMAIN order : i < j => ~(order[j].requires \subseteq before(order, i))
        /\ ~(order[i].requires \subseteq before(order, i))
    BY <2>0, MigrationIsOrdered DEF firstUnfit, fits
  <2>2. taken["graph"] = taken["check"]
    BY MatchedWalksAgree DEF WalksAgree, NoRoutes, AnswersInv
  <2>3. DOMAIN order = 1 .. Len(order) /\ Len(order) \in Nat
    BY <2>1, LenProperties DEF Listed
  <2>. HIDE DEF order
  <2>4. ASSUME NEW j \in i .. Len(order)
        PROVE  ~(order[j].requires \subseteq before(order, i) \cup design.provided)
    <3>1. j \in DOMAIN order /\ (j = i \/ i < j)
      BY <2>3
    <3>. QED
      BY <2>1, <3>1
  <2>5. ASSUME NEW n \in Nodes, n.requires \subseteq before(order, i) \cup design.provided
        PROVE  n.produces \subseteq before(order, i)
    <3>1. PICK j \in DOMAIN order : order[j] = n
      BY <2>1 DEF Listed
    <3>2. j \in 1 .. i - 1
      BY <2>3, <2>4, <2>5, <3>1
    <3>. QED
      BY <3>1, <3>2 DEF before
  <2>. DEFINE K == (before(order, i) \cup design.provided) \cap Key
  <2>6. /\ design.initially \subseteq Key /\ design.provided \subseteq Key
        /\ taken["check"] \subseteq DOMAIN design.edges
        /\ \A j \in DOMAIN design.edges : edge(j) \in Edge
    BY <2>0, DesignType DEF TypeOK, Pass
  <2>7. Grounded(K)
    <3>1. design.initially \cup design.provided \subseteq K
      BY <2>6 DEF before
    <3>2. ASSUME NEW j \in taken["check"], edge(j).asks \subseteq K PROVE edge(j).gives \subseteq K
      <4>. DEFINE n == node("guard", j)
      <4>1. n.requires = edge(j).asks /\ n.produces = edge(j).gives
        BY DEF node
      <4>2. edge(j).gives # {} => n \in Nodes
        BY <2>2, <4>1 DEF Nodes
      <4>3. edge(j).gives \subseteq Key
        BY <2>6 DEF Edge
      <4>. HIDE DEF n
      <4>. QED
        BY <2>5, <3>2, <4>1, <4>2, <4>3
    <3>3. ASSUME NEW j \in taken["check"], edge(j).needs \subseteq K PROVE edge(j).puts \subseteq K
      <4>. DEFINE n == node("processor", j)
      <4>1. n.requires = edge(j).needs /\ n.produces = edge(j).puts
        BY DEF node
      <4>2. edge(j).puts # {} => n \in Nodes
        BY <2>2, <4>1 DEF Nodes
      <4>3. edge(j).puts \subseteq Key
        BY <2>6 DEF Edge
      <4>. HIDE DEF n
      <4>. QED
        BY <2>5, <3>3, <4>1, <4>2, <4>3
    <3>. HIDE DEF K
    <3>. QED
      BY <3>1, <3>2, <3>3 DEF Grounded
  <2>8. \A j \in taken["check"] : edge(j).asks \cup edge(j).needs \subseteq K
    <3>1. K \in SUBSET Key
      OBVIOUS
    <3>. HIDE DEF K
    <3>. QED
      BY <2>7, <3>1 DEF AnswersInv, KeysAreGrounded
  <2>9. order[i] \in Nodes
    BY <2>1 DEF Listed
  <2>10. PICK kind \in {"guard", "processor"}, j \in taken["graph"] : order[i] = node(kind, j)
    BY <2>9 DEF Nodes
  <2>11. order[i].requires \subseteq edge(j).asks \cup edge(j).needs
    BY <2>10 DEF node
  <2>12. order[i].requires \subseteq before(order, i) \cup design.provided
    BY <2>2, <2>8, <2>11
  <2>13. i \in i .. Len(order)
    BY <2>3
  <2>. QED
    BY <2>4, <2>12, <2>13
<1>. QED
  BY <1>1, AnswersInvariance, PTL
=============================================================================
