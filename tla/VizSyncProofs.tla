---------------------------- MODULE VizSyncProofs ----------------------------
(***************************************************************************)
(* The visualiser, for any flows, states, moves, window, durations and     *)
(* length of a run: what a page holds follows the server's log, what it    *)
(* shows catches up with the engine, and a flow just seen to move is on    *)
(* it.  The invariant says what each message under way is worth: where the *)
(* channel stands against the log, from the handshake to the last event.   *)
(***************************************************************************)
EXTENDS VizSync, SequenceTheorems, FiniteSetTheorems, WellFoundedInduction, TLAPS

TransitRecord == [from: State \cup {None}, to: State \cup {None}, age: Nat]

View == [topology: BOOLEAN, events: Seq(Event), counts: [Moves -> Nat],
         shown: [Flow -> State \cup {None}], transit: [Flow -> TransitRecord]]

Message == [type: {"init"}]
    \cup [type: {"snapshot"}, flows: FlowStates, events: Seq(Event)]
    \cup [type: {"event"}, event: Event]

VizTypes ==
    /\ log \in Seq(Event) /\ flowStates \in FlowStates /\ gone \subseteq Flow
    /\ taken \in [Moves -> Nat]
    /\ phase \in {"connecting", "open", "broken", "waiting"} /\ wait \in Nat
    /\ channel \in Seq(Message)
    /\ view \in View /\ idle \in [Flow -> Nat]
    /\ position \in Int /\ playing \in BOOLEAN /\ replayed \in BOOLEAN

-----------------------------------------------------------------------------
(* An event that moves a flow, and the last one of a sequence that does.   *)
moves(e, f) == e.type = "transition" /\ e.flow = f

isLast(s, f, i) ==
    i \in DOMAIN s /\ moves(s[i], f) /\ \A j \in DOMAIN s : moves(s[j], f) => j <= i

(* The last move of a flow in s leads to x; with no move it is at x0.      *)
endsAt(s, f, x0, x) ==
    \/ x = x0 /\ \A i \in DOMAIN s : ~moves(s[i], f)
    \/ \E i \in DOMAIN s : isLast(s, f, i) /\ x = s[i].to

(* The server's states are where its log leads.                            *)
LogKnowsStates == \A f \in Flow : endsAt(log, f, None, flowStates[f])

(* A snapshot's states are where its events lead.                          *)
snapshotFits(m) == \A f \in Flow : endsAt(m.events, f, m.flows[f], m.flows[f])

(* The sequence s is what the log holds up to its n-th event.              *)
endsLogAt(s, n) == Len(s) <= n /\ \A i \in DOMAIN s : s[i] = log[n - Len(s) + i]

comesIn(c, f) == \E j \in DOMAIN c : c[j].type = "event" /\ moves(c[j].event, f)

(* The first k - 1 messages are the topology, the k-th is the snapshot and *)
(* the others are events: k counts down as the page handles them.          *)
shape(k) ==
    \A j \in DOMAIN channel :
        /\ j < k => channel[j].type = "init"
        /\ j = k => channel[j].type = "snapshot"
        /\ j > k => channel[j].type = "event"

(* As long as the snapshot is to come nothing is under animation, and the  *)
(* snapshot knows the flows that the page has just seen.                   *)
awaited(k) ==
    k > 0 =>
        /\ \A f \in Flow : view.transit[f] = NoTransit
        /\ k <= Len(channel) =>
             /\ snapshotFits(channel[k])
             /\ \A f \in Flow \ gone : idle[f] <= TerminalStale => channel[k].flows[f] # None

(* On an open connection the events under way are the last of the log, and *)
(* what came before them ends where they begin.                            *)
inStep(k) ==
    /\ k <= Len(channel) /\ Len(channel) - k <= Len(log)
    /\ \A j \in DOMAIN channel : j > k => channel[j].event = log[Len(log) - Len(channel) + j]
    /\ k > 0 =>
         /\ endsLogAt(channel[k].events, Len(log) - (Len(channel) - k))
         /\ \A f \in Flow : comesIn(channel, f) \/ channel[k].flows[f] = flowStates[f]
    /\ k = 0 =>
         /\ endsLogAt(view.events, Len(log) - Len(channel))
         /\ ~replayed => \A f \in Flow : \/ comesIn(channel, f)
                                         \/ view.shown[f] = None
                                         \/ view.shown[f] = flowStates[f]

ChannelFollowsTheLog ==
    phase \in {"open", "broken"} =>
        \E k \in 0 .. 2 : shape(k) /\ awaited(k) /\ (phase = "open" => inStep(k))

NothingBetween == phase \in {"connecting", "waiting"} => channel = <<>>

(* What is under way, or was seen not long ago, is known to the server.    *)
SeenFlowsExist ==
    \A f \in Flow \ gone : (comesIn(channel, f) \/ idle[f] <= TerminalStale) => flowStates[f] # None

(* The messages under way that will count for a move.                      *)
pending(c, m) ==
    {j \in DOMAIN c : c[j].type = "event" /\ c[j].event.type = "transition"
                        /\ <<c[j].event.from, c[j].event.to>> = m}

CountsAreTaken == \A m \in Moves : view.counts[m] + Cardinality(pending(channel, m)) <= taken[m]

isMove(msg) ==
    (msg.type = "event" /\ msg.event.type = "transition") => <<msg.event.from, msg.event.to>> \in Moves

EventsAreMoves == \A j \in DOMAIN channel : isMove(channel[j])

(* An animation ends before the next snapshot can come.                    *)
AnimationsEnd ==
    \A f \in moving :
        /\ view.shown[f] # None => view.shown[f] = view.transit[f].to
        /\ view.transit[f].age < TransitDuration
        /\ phase # "connecting"
        /\ phase = "waiting" => view.transit[f].age + wait >= ReconnectDelay

VizInv ==
    /\ VizTypes
    /\ LogKnowsStates
    /\ NothingBetween
    /\ ChannelFollowsTheLog
    /\ SeenFlowsExist
    /\ EventsAreMoves
    /\ CountsAreTaken
    /\ AnimationsEnd
    /\ ActiveFlowsAreShown

-----------------------------------------------------------------------------
(* Sequences, positions and counts.                                        *)

(* A set of positions that is not empty has a last one.                    *)
LEMMA LastPosition ==
    ASSUME NEW n \in Nat, NEW S, S \subseteq 1 .. n, S # {}
    PROVE  \E i \in S : \A j \in S : j <= i
<1>. DEFINE T == {n - i : i \in S}
<1>1. T \subseteq Nat
  OBVIOUS
<1>2. T # {}
  <2>1. PICK i \in S : TRUE
    OBVIOUS
  <2>. QED
    BY <2>1
<1>3. PICK x \in T : \A y \in T : ~(<<y, x>> \in OpToRel(<, Nat))
  BY <1>1, <1>2, NatLessThanWellFounded, WFMin
<1>4. PICK i \in S : x = n - i
  OBVIOUS
<1>5. \A j \in S : ~(<<n - j, x>> \in OpToRel(<, Nat))
  BY <1>3
<1>6. \A j \in S : ~(n - j < n - i)
  BY <1>1, <1>4, <1>5 DEF OpToRel
<1>. QED
  BY <1>6

(* positionsAfter: the state the last move leads to, or the one at first.  *)
LEMMA PositionsAfter ==
    ASSUME NEW start \in FlowStates, NEW s \in Seq(Event)
    PROVE  /\ positionsAfter(start, s) \in FlowStates
           /\ \A f \in Flow : \/ /\ \A i \in DOMAIN s : ~moves(s[i], f)
                                 /\ positionsAfter(start, s)[f] = start[f]
                              \/ \E i \in DOMAIN s : isLast(s, f, i) /\ positionsAfter(start, s)[f] = s[i].to
<1>1. ASSUME NEW f \in Flow
      PROVE  \/ /\ \A i \in DOMAIN s : ~moves(s[i], f)
                /\ positionsAfter(start, s)[f] = start[f]
             \/ \E i \in DOMAIN s : isLast(s, f, i) /\ positionsAfter(start, s)[f] = s[i].to
  <2>. DEFINE mine == {i \in DOMAIN s : s[i].flow = f /\ s[i].type = "transition"}
              c == CHOOSE i \in mine : \A j \in mine : j <= i
  <2>1. positionsAfter(start, s)[f] = IF mine = {} THEN start[f] ELSE s[c].to
    BY DEF positionsAfter
  <2>2. CASE mine = {}
    BY <2>1, <2>2 DEF moves
  <2>3. CASE mine # {}
    <3>1. Len(s) \in Nat /\ mine \subseteq 1 .. Len(s)
      OBVIOUS
    <3>2. \E i \in mine : \A j \in mine : j <= i
      BY <2>3, <3>1, LastPosition
    <3>3. c \in mine /\ \A j \in mine : j <= c
      BY <3>2
    <3>4. isLast(s, f, c)
      BY <3>3 DEF isLast, moves
    <3>. QED
      BY <2>1, <2>3, <3>3, <3>4
  <2>. QED
    BY <2>2, <2>3
<1>2. \A f \in Flow : positionsAfter(start, s)[f] \in State \cup {None}
  <2>1. \A i \in DOMAIN s : s[i].to \in State
    <3>1. \A i \in DOMAIN s : s[i] \in Event
      OBVIOUS
    <3>2. \A e \in Event : e.to \in State
      BY DEF Event
    <3>. QED
      BY <3>1, <3>2
  <2>2. \A f \in Flow : start[f] \in State \cup {None}
    BY DEF FlowStates
  <2>. QED
    BY <1>1, <2>1, <2>2 DEF isLast
<1>3. positionsAfter(start, s) = [f \in Flow |-> positionsAfter(start, s)[f]]
  BY DEF positionsAfter
<1>. QED
  BY <1>1, <1>2, <1>3 DEF FlowStates

(* The end of a sequence, read position by position.                       *)
LEMMA SuffixByPosition ==
    ASSUME NEW s \in Seq(Event), NEW t \in Seq(Event), Len(s) <= Len(t),
           \A i \in DOMAIN s : s[i] = t[Len(t) - Len(s) + i]
    PROVE  IsSuffix(s, t)
<1>. DEFINE a == Reverse(s)
            b == Reverse(t)
            n == Len(s)
<1>1. /\ a \in Seq(Event) /\ Len(a) = n /\ \A i \in 1 .. n : a[i] = s[n - i + 1]
      /\ b \in Seq(Event) /\ Len(b) = Len(t) /\ \A i \in 1 .. Len(t) : b[i] = t[Len(t) - i + 1]
  BY DEF Reverse
<1>2. \A i \in 1 .. n : a[i] = b[i]
  <2>. SUFFICES ASSUME NEW i \in 1 .. n PROVE a[i] = b[i]
    OBVIOUS
  <2>1. PICK j \in DOMAIN s : j = n - i + 1
    OBVIOUS
  <2>2. s[j] = t[Len(t) - n + j] /\ Len(t) - n + j = Len(t) - i + 1
    BY <2>1
  <2>3. i \in 1 .. Len(t)
    OBVIOUS
  <2>. QED
    BY <1>1, <2>1, <2>2, <2>3
<1>. HIDE DEF a, b
<1>3. SubSeq(a, 1, n) = SubSeq(b, 1, n)
  BY <1>1, <1>2
<1>. QED
  BY <1>1, <1>3 DEF IsSuffix, IsPrefix, a, b

(* The messages that count: as the channel grows, shrinks and is read.     *)
LEMMA PendingFinite ==
    ASSUME NEW c \in Seq(Message), NEW m
    PROVE  IsFiniteSet(pending(c, m)) /\ Cardinality(pending(c, m)) \in Nat
<1>1. IsFiniteSet(1 .. Len(c))
  BY FS_Interval
<1>2. pending(c, m) \in SUBSET (1 .. Len(c))
  BY DEF pending
<1>. QED
  BY <1>1, <1>2, FS_Subset, FS_CardinalityType

LEMMA PendingAppend ==
    ASSUME NEW c \in Seq(Message), NEW msg \in Message, NEW m
    PROVE  /\ Cardinality(pending(Append(c, msg), m)) <= Cardinality(pending(c, m)) + 1
           /\ ~(msg.type = "event" /\ msg.event.type = "transition"
                  /\ <<msg.event.from, msg.event.to>> = m)
                => pending(Append(c, msg), m) = pending(c, m)
<1>. DEFINE d == Append(c, msg)
            n == Len(c) + 1
<1>1. DOMAIN d = DOMAIN c \cup {n} /\ d[n] = msg /\ \A j \in DOMAIN c : d[j] = c[j]
  OBVIOUS
<1>2. n \notin DOMAIN c
  OBVIOUS
<1>. HIDE DEF d, n
<1>3. pending(d, m) \in SUBSET (pending(c, m) \cup {n})
  <2>. SUFFICES ASSUME NEW j \in pending(d, m), j # n PROVE j \in pending(c, m)
    OBVIOUS
  <2>1. j \in DOMAIN c /\ d[j] = c[j]
    BY <1>1 DEF pending
  <2>. QED
    BY <2>1 DEF pending
<1>4. IsFiniteSet(pending(c, m) \cup {n})
      /\ Cardinality(pending(c, m) \cup {n}) <= Cardinality(pending(c, m)) + 1
  <2>1. IsFiniteSet(pending(c, m)) /\ Cardinality(pending(c, m)) \in Nat
    BY PendingFinite
  <2>2. /\ IsFiniteSet(pending(c, m) \cup {n})
        /\ Cardinality(pending(c, m) \cup {n})
           = IF n \in pending(c, m) THEN Cardinality(pending(c, m)) ELSE Cardinality(pending(c, m)) + 1
    BY <2>1, FS_AddElement
  <2>. QED
    BY <2>1, <2>2
<1>5. /\ Cardinality(pending(d, m)) <= Cardinality(pending(c, m) \cup {n})
      /\ Cardinality(pending(d, m)) \in Nat /\ Cardinality(pending(c, m) \cup {n}) \in Nat
  BY <1>3, <1>4, FS_Subset, FS_CardinalityType
<1>6. Cardinality(pending(d, m)) <= Cardinality(pending(c, m)) + 1
  BY <1>4, <1>5, PendingFinite
<1>7. ASSUME ~(msg.type = "event" /\ msg.event.type = "transition"
                 /\ <<msg.event.from, msg.event.to>> = m)
      PROVE  pending(d, m) = pending(c, m)
  BY <1>1, <1>2, <1>7 DEF pending
<1>. QED
  BY <1>6, <1>7 DEF d

LEMMA PendingPrefix ==
    ASSUME NEW c \in Seq(Message), NEW n \in 0 .. Len(c), NEW m
    PROVE  Cardinality(pending(SubSeq(c, 1, n), m)) <= Cardinality(pending(c, m))
<1>. DEFINE d == SubSeq(c, 1, n)
<1>1. DOMAIN d \subseteq DOMAIN c /\ \A j \in DOMAIN d : d[j] = c[j]
  OBVIOUS
<1>. HIDE DEF d
<1>2. pending(d, m) \in SUBSET pending(c, m)
  BY <1>1 DEF pending
<1>. QED
  BY <1>2, PendingFinite, FS_Subset DEF d

LEMMA PendingTail ==
    ASSUME NEW c \in Seq(Message), c # <<>>, NEW m
    PROVE  /\ Cardinality(pending(Tail(c), m)) <= Cardinality(pending(c, m))
           /\ 1 \in pending(c, m) => Cardinality(pending(Tail(c), m)) + 1 <= Cardinality(pending(c, m))
<1>. DEFINE d == Tail(c)
            S == pending(d, m)
            T == pending(c, m) \ {1}
            g == [j \in S |-> j + 1]
<1>1. /\ \A j \in DOMAIN d : j \in Nat /\ j >= 1 /\ j + 1 \in DOMAIN c /\ d[j] = c[j + 1]
  OBVIOUS
<1>. HIDE DEF d
<1>2. \A j \in S : j + 1 \in T /\ j \in Nat
  BY <1>1 DEF pending
<1>3. g \in Injection(S, T)
  BY <1>2 DEF Injection, IsInjective
<1>4. IsFiniteSet(T) /\ Cardinality(T) = IF 1 \in pending(c, m) THEN Cardinality(pending(c, m)) - 1
                                                                 ELSE Cardinality(pending(c, m))
  BY PendingFinite, FS_RemoveElement
<1>5. IsFiniteSet(S) /\ Cardinality(S) <= Cardinality(T)
  BY <1>3, <1>4, FS_Injection
<1>6. Cardinality(S) \in Nat /\ Cardinality(T) \in Nat /\ Cardinality(pending(c, m)) \in Nat
  BY <1>4, <1>5, PendingFinite, FS_CardinalityType
<1>. QED
  BY <1>4, <1>5, <1>6 DEF d

-----------------------------------------------------------------------------
(* The server goes on.                                                     *)

(* What a message is.                                                      *)
LEMMA Messages ==
    ASSUME NEW m \in Message
    PROVE  /\ m.type \in {"init", "snapshot", "event"}
           /\ m.type = "event" => m.event \in Event
           /\ m.type = "snapshot" => m.flows \in FlowStates /\ m.events \in Seq(Event)
BY DEF Message

LEMMA EventIsMessage ==
    ASSUME NEW e \in Event
    PROVE  /\ EventMessage(e) \in Message
           /\ EventMessage(e).type = "event" /\ EventMessage(e).event = e
BY DEF EventMessage, Message

LEMMA EndsAtAppend ==
    ASSUME NEW s \in Seq(Event), NEW e \in Event, NEW f, NEW x0, NEW x
    PROVE  /\ moves(e, f) => endsAt(Append(s, e), f, x0, e.to)
           /\ (~moves(e, f) /\ endsAt(s, f, x0, x)) => endsAt(Append(s, e), f, x0, x)
<1>. DEFINE d == Append(s, e)
            n == Len(s) + 1
<1>1. DOMAIN d = DOMAIN s \cup {n} /\ d[n] = e /\ \A j \in DOMAIN s : d[j] = s[j] /\ j <= n
  OBVIOUS
<1>2. n \in Nat
  OBVIOUS
<1>. HIDE DEF d, n
<1>3. ASSUME moves(e, f) PROVE endsAt(d, f, x0, e.to)
  <2>1. isLast(d, f, n)
    BY <1>1, <1>2, <1>3 DEF isLast
  <2>. QED
    BY <1>1, <2>1 DEF endsAt, isLast
<1>4. ASSUME ~moves(e, f), endsAt(s, f, x0, x) PROVE endsAt(d, f, x0, x)
  <2>1. CASE x = x0 /\ \A i \in DOMAIN s : ~moves(s[i], f)
    BY <1>1, <1>4, <2>1 DEF endsAt
  <2>2. ASSUME NEW i \in DOMAIN s, isLast(s, f, i), x = s[i].to PROVE endsAt(d, f, x0, x)
    <3>1. isLast(d, f, i) /\ x = d[i].to
      BY <1>1, <1>4, <2>2 DEF isLast
    <3>. QED
      BY <3>1 DEF endsAt, isLast
  <2>. QED
    BY <1>4, <2>1, <2>2 DEF endsAt
<1>. QED
  BY <1>3, <1>4 DEF d

(* What the log holds up to an event it holds for good.                    *)
LEMMA EndsLogStays ==
    ASSUME NEW s \in Seq(Event), NEW n \in Nat, n <= Len(log), log \in Seq(Event),
           NEW e, log' = Append(log, e), endsLogAt(s, n)
    PROVE  Len(s) <= n /\ \A i \in DOMAIN s : s[i] = log'[n - Len(s) + i]
<1>1. ASSUME NEW i \in DOMAIN s PROVE log'[n - Len(s) + i] = log[n - Len(s) + i]
  <2>1. n - Len(s) + i \in 1 .. Len(log)
    BY DEF endsLogAt
  <2>. QED
    BY <2>1
<1>. QED
  BY <1>1 DEF endsLogAt

LEMMA EmitKeeps ==
    ASSUME VizInv, NEW e \in Event, e.flow \notin gone, emit(e),
           e.type = "transition" =>
               /\ <<e.from, e.to>> \in Moves
               /\ taken' = [taken EXCEPT ![<<e.from, e.to>>] = @ + 1],
           e.type # "transition" => taken' = taken,
           UNCHANGED <<gone, phase, wait, view, idle, controls, replayed>>
    PROVE  VizInv'
<1>. USE DEF controls
<1>1. VizTypes /\ Len(log) \in Nat /\ Len(channel) \in Nat
  BY DEF VizInv, VizTypes
<1>2. /\ log' = Append(log, e) /\ log' \in Seq(Event) /\ Len(log') = Len(log) + 1
      /\ log'[Len(log) + 1] = e /\ \A i \in 1 .. Len(log) : log'[i] = log[i]
  BY <1>1 DEF emit, VizTypes
<1>3. /\ flowStates' \in FlowStates
      /\ \A f \in Flow : moves(e, f) => flowStates'[f] = e.to
      /\ \A f \in Flow : ~moves(e, f) => flowStates'[f] = flowStates[f]
  BY <1>1 DEF emit, VizTypes, FlowStates, moves, Event
<1>4. channel' = IF phase = "open" THEN Append(channel, EventMessage(e)) ELSE channel
  BY DEF emit, broadcast
<1>5. EventMessage(e) \in Message /\ EventMessage(e).type = "event" /\ EventMessage(e).event = e
  BY EventIsMessage
<1>6. taken' \in [Moves -> Nat] /\ \A m \in Moves : taken'[m] >= taken[m]
  <2>1. taken \in [Moves -> Nat]
    BY <1>1 DEF VizTypes
  <2>2. CASE e.type = "transition"
    <3>1. PICK x \in Moves : taken' = [taken EXCEPT ![x] = @ + 1]
      BY <2>2
    <3>. QED
      BY <2>1, <3>1
  <2>3. CASE e.type # "transition"
    BY <2>1, <2>3
  <2>. QED
    BY <2>2, <2>3
<1>7. VizTypes'
  <2>1. channel' \in Seq(Message)
    BY <1>1, <1>4, <1>5 DEF VizTypes
  <2>. QED
    BY <1>1, <1>2, <1>3, <1>6, <2>1 DEF VizTypes
<1>8. LogKnowsStates'
  <2>. SUFFICES ASSUME NEW f \in Flow PROVE endsAt(log', f, None, flowStates'[f])
    BY DEF LogKnowsStates
  <2>1. endsAt(log, f, None, flowStates[f]) /\ log \in Seq(Event)
    BY <1>1 DEF VizInv, LogKnowsStates, VizTypes
  <2>. QED
    BY <1>2, <1>3, <2>1, EndsAtAppend
<1>9. NothingBetween'
  BY <1>4 DEF VizInv, NothingBetween
<1>10. CASE phase = "open"
  <2>1. /\ channel' \in Seq(Message) /\ Len(channel') = Len(channel) + 1
        /\ DOMAIN channel' = DOMAIN channel \cup {Len(channel) + 1}
        /\ channel'[Len(channel) + 1] = EventMessage(e)
        /\ \A j \in DOMAIN channel : channel'[j] = channel[j]
    BY <1>1, <1>4, <1>5, <1>10 DEF VizTypes
  <2>2. \A f \in Flow : comesIn(channel', f) <=> comesIn(channel, f) \/ moves(e, f)
    BY <1>5, <2>1 DEF comesIn
  <2>3. ChannelFollowsTheLog'
    <3>1. PICK k \in 0 .. 2 : shape(k) /\ awaited(k) /\ inStep(k)
      BY <1>10 DEF VizInv, ChannelFollowsTheLog
    <3>2. k <= Len(channel) /\ Len(channel) - k <= Len(log) /\ k \in Nat
      BY <3>1 DEF inStep
    <3>3. k > 0 => k \in DOMAIN channel /\ channel'[k] = channel[k]
      <4>1. DOMAIN channel = 1 .. Len(channel)
        BY <1>1 DEF VizTypes
      <4>2. k > 0 => k \in 1 .. Len(channel)
        BY <1>1, <3>2
      <4>. QED
        BY <2>1, <4>1, <4>2
    <3>4. shape(k)'
      <4>. SUFFICES ASSUME NEW j \in DOMAIN channel'
                    PROVE  /\ j < k => channel'[j].type = "init"
                           /\ j = k => channel'[j].type = "snapshot"
                           /\ j > k => channel'[j].type = "event"
        BY DEF shape
      <4>1. CASE j \in DOMAIN channel
        BY <2>1, <3>1, <4>1 DEF shape
      <4>2. CASE j = Len(channel) + 1
        BY <1>1, <1>5, <2>1, <3>2, <4>2
      <4>. QED
        BY <2>1, <4>1, <4>2
    <3>5. awaited(k)'
      BY <1>1, <2>1, <3>1, <3>2, <3>3 DEF awaited, snapshotFits
    <3>6. inStep(k)'
      <4>1. k <= Len(channel') /\ Len(channel') - k <= Len(log')
        BY <1>1, <1>2, <2>1, <3>2
      <4>2. ASSUME NEW j \in DOMAIN channel', j > k
            PROVE  channel'[j].event = log'[Len(log') - Len(channel') + j]
        <5>1. Len(log') - Len(channel') + j = Len(log) - Len(channel) + j /\ j \in Nat
          BY <1>1, <1>2, <2>1
        <5>2. CASE j \in DOMAIN channel
          <6>1. channel'[j].event = log[Len(log) - Len(channel) + j]
            BY <2>1, <3>1, <4>2, <5>2 DEF inStep
          <6>2. j \in 1 .. Len(channel)
            BY <1>1, <5>2 DEF VizTypes
          <6>3. Len(log) - Len(channel) + j \in 1 .. Len(log)
            BY <1>1, <3>2, <4>2, <6>2
          <6>. QED
            BY <1>2, <5>1, <6>1, <6>3
        <5>3. CASE j = Len(channel) + 1
          <6>1. Len(log) - Len(channel) + j = Len(log) + 1
            BY <1>1, <5>3
          <6>. QED
            BY <1>2, <1>5, <2>1, <5>1, <5>3, <6>1
        <5>. QED
          BY <2>1, <5>2, <5>3
      <4>3. Len(log') - (Len(channel') - k) = Len(log) - (Len(channel) - k)
            /\ Len(log) - (Len(channel) - k) \in Nat /\ Len(log) - (Len(channel) - k) <= Len(log)
        BY <1>1, <1>2, <2>1, <3>2
      <4>4. ASSUME k > 0
            PROVE  /\ endsLogAt(channel[k].events, Len(log) - (Len(channel) - k))'
                   /\ \A f \in Flow : comesIn(channel', f) \/ channel'[k].flows[f] = flowStates'[f]
        <5>1. channel[k] \in Message /\ channel[k].type = "snapshot"
          BY <1>1, <3>1, <3>3, <4>4 DEF VizTypes, shape
        <5>2. channel[k].events \in Seq(Event)
          BY <5>1, Messages
        <5>3. endsLogAt(channel[k].events, Len(log) - (Len(channel) - k))
          BY <3>1, <4>4 DEF inStep
        <5>. DEFINE n == Len(log) - (Len(channel) - k)
        <5>4. n \in Nat /\ n <= Len(log) /\ endsLogAt(channel[k].events, n)
          BY <4>3, <5>3
        <5>. HIDE DEF n
        <5>5. /\ Len(channel[k].events) <= n
              /\ \A i \in DOMAIN channel[k].events :
                    channel[k].events[i] = log'[n - Len(channel[k].events) + i]
          BY <1>1, <1>2, <5>2, <5>4, EndsLogStays DEF VizTypes
        <5>6. endsLogAt(channel[k].events, Len(log) - (Len(channel) - k))'
          BY <3>3, <4>3, <4>4, <5>5 DEF endsLogAt, n
        <5>7. \A f \in Flow : comesIn(channel', f) \/ channel'[k].flows[f] = flowStates'[f]
          BY <1>3, <2>2, <3>1, <3>3, <4>4 DEF inStep
        <5>. QED
          BY <5>6, <5>7
      <4>5. ASSUME k = 0
            PROVE  /\ endsLogAt(view.events, Len(log) - Len(channel))'
                   /\ ~replayed' => \A f \in Flow : \/ comesIn(channel', f)
                                                    \/ view'.shown[f] = None
                                                    \/ view'.shown[f] = flowStates'[f]
        <5>. DEFINE n == Len(log) - Len(channel)
        <5>1. n \in Nat /\ n <= Len(log) /\ endsLogAt(view.events, n)
          BY <1>1, <3>1, <3>2, <4>5 DEF inStep
        <5>2. view.events \in Seq(Event)
          BY <1>1 DEF VizTypes, View
        <5>3. n = Len(log') - Len(channel')
          BY <1>1, <1>2, <2>1
        <5>. HIDE DEF n
        <5>4. /\ Len(view.events) <= n
              /\ \A i \in DOMAIN view.events : view.events[i] = log'[n - Len(view.events) + i]
          BY <1>1, <1>2, <5>1, <5>2, EndsLogStays DEF VizTypes
        <5>5. endsLogAt(view.events, Len(log) - Len(channel))'
          BY <5>3, <5>4 DEF endsLogAt
        <5>. QED
          BY <1>3, <2>2, <3>1, <4>5, <5>5 DEF inStep
      <4>. QED
        BY <4>1, <4>2, <4>4, <4>5 DEF inStep
    <3>. QED
      BY <3>4, <3>5, <3>6 DEF ChannelFollowsTheLog
  <2>4. SeenFlowsExist'
    <3>. SUFFICES ASSUME NEW f \in Flow \ gone, comesIn(channel', f) \/ idle[f] <= TerminalStale
                  PROVE  flowStates'[f] # None
      BY DEF SeenFlowsExist
    <3>1. CASE moves(e, f)
      BY <1>3, <3>1, VizAssumption DEF Event
    <3>2. CASE ~moves(e, f)
      BY <1>3, <2>2, <3>2 DEF VizInv, SeenFlowsExist
    <3>. QED
      BY <3>1, <3>2
  <2>5. EventsAreMoves'
    BY <1>5, <2>1 DEF VizInv, EventsAreMoves, isMove
  <2>6. CountsAreTaken'
    <3>. SUFFICES ASSUME NEW m \in Moves
                  PROVE  view'.counts[m] + Cardinality(pending(channel', m)) <= taken'[m]
      BY DEF CountsAreTaken
    <3>1. /\ Cardinality(pending(channel, m)) \in Nat /\ Cardinality(pending(channel', m)) \in Nat
          /\ view.counts[m] \in Nat /\ taken[m] \in Nat
          /\ view.counts[m] + Cardinality(pending(channel, m)) <= taken[m]
      BY <1>1, <2>1, PendingFinite DEF VizInv, VizTypes, View, CountsAreTaken
    <3>2. channel' = Append(channel, EventMessage(e)) /\ channel \in Seq(Message)
      BY <1>1, <1>4, <1>10 DEF VizTypes
    <3>3. CASE e.type = "transition" /\ <<e.from, e.to>> = m
      <4>1. taken'[m] = taken[m] + 1
        BY <1>1, <3>3 DEF VizTypes
      <4>2. Cardinality(pending(channel', m)) <= Cardinality(pending(channel, m)) + 1
        BY <1>5, <3>2, PendingAppend
      <4>. QED
        BY <3>1, <4>1, <4>2
    <3>4. CASE ~(e.type = "transition" /\ <<e.from, e.to>> = m)
      <4>1. taken'[m] = taken[m]
        BY <1>1, <3>4 DEF VizTypes
      <4>2. pending(channel', m) = pending(channel, m)
        BY <1>5, <3>2, <3>4, PendingAppend
      <4>. QED
        BY <3>1, <4>1, <4>2
    <3>. QED
      BY <3>3, <3>4
  <2>. QED
    BY <2>3, <2>4, <2>5, <2>6, <1>7, <1>8, <1>9
       DEF VizInv, AnimationsEnd, ActiveFlowsAreShown, moving
<1>11. CASE phase # "open"
  <2>1. channel' = channel
    BY <1>4, <1>11
  <2>2. ChannelFollowsTheLog'
    BY <1>11, <2>1 DEF VizInv, ChannelFollowsTheLog, shape, awaited, snapshotFits
  <2>3. SeenFlowsExist'
    <3>. SUFFICES ASSUME NEW f \in Flow \ gone, comesIn(channel, f) \/ idle[f] <= TerminalStale
                  PROVE  flowStates'[f] # None
      BY <2>1 DEF SeenFlowsExist
    <3>1. CASE moves(e, f)
      BY <1>3, <3>1, VizAssumption DEF Event
    <3>2. CASE ~moves(e, f)
      BY <1>3, <3>2 DEF VizInv, SeenFlowsExist
    <3>. QED
      BY <3>1, <3>2
  <2>4. CountsAreTaken'
    <3>. SUFFICES ASSUME NEW m \in Moves
                  PROVE  view'.counts[m] + Cardinality(pending(channel', m)) <= taken'[m]
      BY DEF CountsAreTaken
    <3>1. /\ Cardinality(pending(channel, m)) \in Nat /\ view.counts[m] \in Nat /\ taken[m] \in Nat
          /\ view.counts[m] + Cardinality(pending(channel, m)) <= taken[m]
      BY <1>1, PendingFinite DEF VizInv, VizTypes, View, CountsAreTaken
    <3>2. taken'[m] \in Nat /\ taken'[m] >= taken[m]
      BY <1>6
    <3>. QED
      BY <2>1, <3>1, <3>2
  <2>. QED
    BY <1>7, <1>8, <1>9, <2>1, <2>2, <2>3, <2>4
       DEF VizInv, EventsAreMoves, isMove, AnimationsEnd, ActiveFlowsAreShown, moving
<1>. QED
  BY <1>10, <1>11

LEMMA TransitionKeeps == VizInv /\ Transition => VizInv'
<1>. SUFFICES ASSUME VizInv, Transition PROVE VizInv'
  OBVIOUS
<1>1. PICK f \in Flow \ gone, m \in Moves :
        /\ m[1] = stateOf(f)
        /\ emit([seq |-> Len(log), type |-> "transition", flow |-> f, from |-> m[1], to |-> m[2]])
        /\ taken' = [taken EXCEPT ![m] = @ + 1]
  BY DEF Transition
<1>. DEFINE e == [seq |-> Len(log), type |-> "transition", flow |-> f, from |-> m[1], to |-> m[2]]
<1>2. Len(log) \in Nat
  BY DEF VizInv, VizTypes
<1>3. m[1] \in State /\ m[2] \in State /\ m = <<m[1], m[2]>>
  BY VizAssumption
<1>4. e \in Event /\ e.flow = f /\ e.type = "transition" /\ e.from = m[1] /\ e.to = m[2]
  BY <1>2, <1>3 DEF Event
<1>5. emit(e) /\ taken' = [taken EXCEPT ![<<m[1], m[2]>>] = @ + 1] /\ <<m[1], m[2]>> \in Moves
  BY <1>1, <1>3
<1>6. UNCHANGED <<gone, phase, wait, view, idle, controls, replayed>>
  BY DEF Transition
<1>. HIDE DEF e
<1>7. /\ <<e.from, e.to>> \in Moves /\ taken' = [taken EXCEPT ![<<e.from, e.to>>] = @ + 1]
  BY <1>4, <1>5
<1>. QED
  BY <1>4, <1>5, <1>6, <1>7, EmitKeeps

LEMMA GuardKeeps == VizInv /\ Guard => VizInv'
<1>. SUFFICES ASSUME VizInv, Guard PROVE VizInv'
  OBVIOUS
<1>1. PICK f \in Flow \ gone :
        emit([seq |-> Len(log), type |-> "guard", flow |-> f, from |-> stateOf(f), to |-> stateOf(f)])
  BY DEF Guard
<1>. DEFINE e == [seq |-> Len(log), type |-> "guard", flow |-> f, from |-> stateOf(f), to |-> stateOf(f)]
<1>2. Len(log) \in Nat /\ stateOf(f) \in State
  BY VizAssumption DEF VizInv, VizTypes, stateOf, FlowStates
<1>3. e \in Event /\ e.flow = f /\ e.type = "guard" /\ emit(e)
  BY <1>1, <1>2 DEF Event
<1>4. UNCHANGED <<gone, taken, phase, wait, view, idle, controls, replayed>>
  BY DEF Guard
<1>. HIDE DEF e
<1>. QED
  BY <1>3, <1>4, EmitKeeps

-----------------------------------------------------------------------------
(* The connection breaks: of what is under way a beginning arrives.  The   *)
(* server may have died with its flows, which are then gone.               *)
LEMMA CutKeeps ==
    ASSUME VizInv, NEW n \in 0 .. Len(channel), channel' = SubSeq(channel, 1, n),
           phase' = IF phase = "open" THEN "broken" ELSE phase,
           gone \subseteq gone', gone' \subseteq Flow,
           flowStates' \in FlowStates, \A f \in Flow \ gone' : flowStates'[f] = flowStates[f],
           log' \in Seq(Event), LogKnowsStates',
           UNCHANGED <<taken, wait, view, idle, controls, replayed>>
    PROVE  VizInv'
<1>. USE DEF controls
<1>1. VizTypes /\ Len(channel) \in Nat
  BY DEF VizInv, VizTypes
<1>2. /\ channel' \in Seq(Message) /\ Len(channel') = n /\ Len(channel') <= Len(channel)
      /\ DOMAIN channel' \subseteq DOMAIN channel /\ \A j \in DOMAIN channel' : channel'[j] = channel[j]
  BY <1>1 DEF VizTypes
<1>3. VizTypes'
  BY <1>1, <1>2 DEF VizTypes
<1>4. NothingBetween'
  <2>1. channel = <<>> => channel' = <<>>
    BY <1>1, <1>2
  <2>. QED
    BY <2>1 DEF VizInv, NothingBetween
<1>5. \A f \in Flow : comesIn(channel', f) => comesIn(channel, f)
  BY <1>2 DEF comesIn
<1>6. ChannelFollowsTheLog'
  <2>. SUFFICES ASSUME phase \in {"open", "broken"}
                PROVE  \E k \in 0 .. 2 : shape(k)' /\ awaited(k)'
    BY DEF ChannelFollowsTheLog
  <2>1. PICK k \in 0 .. 2 : shape(k) /\ awaited(k)
    BY DEF VizInv, ChannelFollowsTheLog
  <2>2. shape(k)'
    BY <1>2, <2>1 DEF shape
  <2>3. (k > 0 /\ k <= Len(channel')) => k <= Len(channel) /\ channel'[k] = channel[k]
    <3>. SUFFICES ASSUME k > 0, k <= Len(channel')
                  PROVE  k <= Len(channel) /\ channel'[k] = channel[k]
      OBVIOUS
    <3>1. DOMAIN channel' = 1 .. Len(channel') /\ Len(channel') \in Nat
      BY <1>2
    <3>2. k \in 1 .. Len(channel')
      BY <3>1
    <3>. QED
      BY <1>1, <1>2, <3>1, <3>2
  <2>4. awaited(k)'
    BY <2>1, <2>3 DEF awaited, snapshotFits
  <2>. QED
    BY <2>2, <2>4
<1>7. SeenFlowsExist'
  BY <1>5 DEF VizInv, SeenFlowsExist
<1>8. EventsAreMoves'
  BY <1>2 DEF VizInv, EventsAreMoves, isMove
<1>9. CountsAreTaken'
  <2>. SUFFICES ASSUME NEW m \in Moves
                PROVE  view'.counts[m] + Cardinality(pending(channel', m)) <= taken'[m]
    BY DEF CountsAreTaken
  <2>1. /\ Cardinality(pending(channel, m)) \in Nat /\ Cardinality(pending(channel', m)) \in Nat
        /\ view.counts[m] \in Nat /\ taken[m] \in Nat
        /\ view.counts[m] + Cardinality(pending(channel, m)) <= taken[m]
    BY <1>1, <1>2, PendingFinite DEF VizInv, VizTypes, View, CountsAreTaken
  <2>2. Cardinality(pending(channel', m)) <= Cardinality(pending(channel, m))
    BY <1>1, PendingPrefix DEF VizTypes
  <2>. QED
    BY <2>1, <2>2
<1>10. AnimationsEnd'
  BY DEF VizInv, AnimationsEnd, moving
<1>11. ActiveFlowsAreShown'
  BY DEF VizInv, ActiveFlowsAreShown
<1>. QED
  BY <1>3, <1>4, <1>6, <1>7, <1>8, <1>9, <1>10, <1>11 DEF VizInv

LEMMA RestartKeeps == VizInv /\ Restart => VizInv'
<1>. SUFFICES ASSUME VizInv, Restart PROVE VizInv'
  OBVIOUS
<1>1. /\ gone' = gone \cup {f \in Flow : flowStates[f] # None} /\ log' = <<>>
      /\ flowStates' = [f \in Flow |-> None]
      /\ phase' = IF phase = "open" THEN "broken" ELSE phase
      /\ UNCHANGED <<taken, wait, view, idle, controls, replayed>>
  BY DEF Restart
<1>2. PICK n \in 0 .. Len(channel) : channel' = SubSeq(channel, 1, n)
  BY DEF Restart
<1>3. gone \subseteq gone' /\ gone' \subseteq Flow /\ \A f \in Flow \ gone' : flowStates'[f] = flowStates[f]
  BY <1>1 DEF VizInv, VizTypes
<1>4. flowStates' \in FlowStates /\ log' \in Seq(Event)
  BY <1>1 DEF FlowStates
<1>5. LogKnowsStates'
  <2>1. DOMAIN log' = {}
    BY <1>1
  <2>. QED
    BY <1>1, <2>1 DEF LogKnowsStates, endsAt
<1>. QED
  BY <1>1, <1>2, <1>3, <1>4, <1>5, CutKeeps

LEMMA BreakKeeps == VizInv /\ Break => VizInv'
<1>. SUFFICES ASSUME VizInv, Break PROVE VizInv'
  OBVIOUS
<1>1. /\ phase = "open" /\ phase' = "broken"
      /\ UNCHANGED <<log, flowStates, gone, taken, wait, view, idle, controls, replayed>>
  BY DEF Break, server
<1>2. PICK n \in 0 .. Len(channel) : channel' = SubSeq(channel, 1, n)
  BY DEF Break
<1>3. VizTypes /\ LogKnowsStates
  BY DEF VizInv
<1>4. LogKnowsStates'
  BY <1>1, <1>3 DEF LogKnowsStates
<1>5. /\ gone \subseteq gone' /\ gone' \subseteq Flow /\ flowStates' \in FlowStates /\ log' \in Seq(Event)
      /\ \A f \in Flow \ gone' : flowStates'[f] = flowStates[f]
      /\ phase' = IF phase = "open" THEN "broken" ELSE phase
  BY <1>1, <1>3 DEF VizTypes
<1>. QED
  BY <1>1, <1>2, <1>4, <1>5, CutKeeps

(* A new connection: the snapshot is where the log leads.                  *)
LEMMA SliceProperties ==
    ASSUME NEW s \in Seq(Event)
    PROVE  /\ slice(s) \in Seq(Event) /\ Len(slice(s)) <= Len(s)
           /\ \A i \in DOMAIN slice(s) :
                 /\ Len(s) - Len(slice(s)) + i \in DOMAIN s
                 /\ slice(s)[i] = s[Len(s) - Len(slice(s)) + i]
<1>. DEFINE a == IF Len(s) > Window THEN Len(s) - Window + 1 ELSE 1
<1>1. Len(s) \in Nat /\ a \in Nat /\ a >= 1 /\ a <= Len(s) + 1
  BY VizAssumption
<1>2. slice(s) = SubSeq(s, a, Len(s))
  BY DEF slice
<1>. HIDE DEF a
<1>3. slice(s) \in Seq(Event) /\ Len(slice(s)) = Len(s) - a + 1
      /\ \A i \in 1 .. (Len(s) - a + 1) : slice(s)[i] = s[a + i - 1]
  BY <1>1, <1>2, SubSeqProperties
<1>4. ASSUME NEW i \in DOMAIN slice(s)
      PROVE  /\ Len(s) - Len(slice(s)) + i \in DOMAIN s
             /\ slice(s)[i] = s[Len(s) - Len(slice(s)) + i]
  <2>0. DOMAIN slice(s) = 1 .. Len(slice(s))
    BY <1>3
  <2>1. i \in 1 .. (Len(s) - a + 1)
    BY <1>3, <2>0
  <2>2. Len(s) - Len(slice(s)) + i = a + i - 1 /\ a + i - 1 \in 1 .. Len(s)
    <3>. DEFINE n == Len(s)
                l == Len(slice(s))
    <3>1. n \in Nat /\ l = n - a + 1 /\ i \in 1 .. (n - a + 1)
      BY <1>1, <1>3, <2>1
    <3>. HIDE DEF n, l
    <3>2. n - l + i = a + i - 1 /\ a + i - 1 \in 1 .. n
      BY <1>1, <3>1
    <3>. QED
      BY <3>2 DEF n, l
  <2>. QED
    BY <1>3, <2>1, <2>2
<1>. QED
  BY <1>1, <1>3, <1>4

LEMMA SliceFits ==
    ASSUME VizTypes, LogKnowsStates, NEW f \in Flow
    PROVE  endsAt(slice(log), f, flowStates[f], flowStates[f])
<1>. DEFINE s == slice(log)
            d == Len(log) - Len(s)
<1>1. log \in Seq(Event)
  BY DEF VizTypes
<1>2. /\ s \in Seq(Event) /\ Len(s) <= Len(log)
      /\ \A i \in DOMAIN s : d + i \in DOMAIN log /\ s[i] = log[d + i]
  BY <1>1, SliceProperties
<1>3. d \in Nat /\ Len(s) \in Nat /\ DOMAIN s = 1 .. Len(s) /\ Len(log) = d + Len(s) /\ DOMAIN log = 1 .. Len(log)
  BY <1>1, <1>2
<1>4. endsAt(log, f, None, flowStates[f])
  BY DEF LogKnowsStates
<1>. HIDE DEF s, d
<1>5. CASE \A i \in DOMAIN log : ~moves(log[i], f)
  BY <1>2, <1>5 DEF endsAt, s
<1>6. ASSUME NEW i \in DOMAIN log, isLast(log, f, i), flowStates[f] = log[i].to
      PROVE  endsAt(s, f, flowStates[f], flowStates[f])
  <2>1. CASE i > d
    <3>1. PICK j \in DOMAIN s : i = d + j
      <4>1. i - d \in DOMAIN s /\ i = d + (i - d)
        BY <1>3, <2>1
      <4>. QED
        BY <4>1
    <3>2. s[j] = log[i]
      BY <1>2, <3>1
    <3>3. isLast(s, f, j)
      <4>1. moves(s[j], f)
        BY <1>6, <3>2 DEF isLast
      <4>2. ASSUME NEW l \in DOMAIN s, moves(s[l], f) PROVE l <= j
        <5>1. d + l \in DOMAIN log /\ moves(log[d + l], f)
          BY <1>2, <4>2
        <5>2. d + l <= i
          BY <1>6, <5>1 DEF isLast
        <5>. QED
          BY <1>3, <3>1, <5>2
      <4>. QED
        BY <4>1, <4>2 DEF isLast
    <3>. QED
      BY <1>6, <3>2, <3>3 DEF endsAt, isLast
  <2>2. CASE ~(i > d)
    <3>1. ASSUME NEW l \in DOMAIN s PROVE ~moves(s[l], f)
      <4>1. d + l \in DOMAIN log /\ s[l] = log[d + l] /\ ~(d + l <= i)
        BY <1>2, <1>3, <2>2
      <4>. QED
        BY <1>6, <4>1 DEF isLast
    <3>. QED
      BY <3>1 DEF endsAt
  <2>. QED
    BY <2>1, <2>2
<1>. QED
  BY <1>4, <1>5, <1>6 DEF endsAt, s

LEMMA NoMessage ==
    ASSUME NEW c \in Seq(Message), \A j \in DOMAIN c : c[j].type # "event"
    PROVE  (\A m : pending(c, m) = {}) /\ \A f : ~comesIn(c, f)
BY DEF pending, comesIn

LEMMA ConnectKeeps == VizInv /\ Connect => VizInv'
<1>. SUFFICES ASSUME VizInv, Connect PROVE VizInv'
  OBVIOUS
<1>. USE DEF controls, server
<1>1. /\ phase = "connecting" /\ phase' = "open" /\ channel' = <<InitMessage, addClient>>
      /\ UNCHANGED <<log, flowStates, gone, taken, wait, view, idle, position, playing, replayed>>
  BY DEF Connect
<1>2. VizTypes /\ channel = <<>>
  BY <1>1 DEF VizInv, NothingBetween
<1>3. /\ addClient.type = "snapshot" /\ addClient.flows = flowStates /\ addClient.events = slice(log)
      /\ InitMessage.type = "init"
  BY DEF addClient, SnapshotOf, InitMessage
<1>4. InitMessage \in Message /\ addClient \in Message
  BY <1>2, SliceProperties DEF addClient, SnapshotOf, InitMessage, Message, VizTypes
<1>5. /\ channel' \in Seq(Message) /\ Len(channel') = 2 /\ DOMAIN channel' = {1, 2}
      /\ channel'[1] = InitMessage /\ channel'[2] = addClient
  BY <1>1, <1>4
<1>6. VizTypes'
  BY <1>1, <1>2, <1>5 DEF VizTypes
<1>7. \A j \in DOMAIN channel' : channel'[j].type # "event"
  BY <1>3, <1>5
<1>8. (\A m : pending(channel', m) = {}) /\ \A f : ~comesIn(channel', f)
  BY <1>5, <1>7, NoMessage
<1>9. (\A m : pending(channel, m) = {})
  BY <1>2 DEF pending
<1>10. \A f \in Flow : view.transit[f] = NoTransit
  BY <1>1 DEF VizInv, AnimationsEnd, moving
<1>11. ChannelFollowsTheLog'
  <2>1. shape(2)'
    BY <1>3, <1>5 DEF shape
  <2>2. awaited(2)'
    <3>1. snapshotFits(channel[2])'
      BY <1>1, <1>2, <1>3, <1>5, SliceFits DEF VizInv, snapshotFits
    <3>2. \A f \in Flow \ gone : idle[f] <= TerminalStale => channel'[2].flows[f] # None
      BY <1>3, <1>5 DEF VizInv, SeenFlowsExist
    <3>. QED
      BY <1>1, <1>10, <3>1, <3>2 DEF awaited
  <2>3. inStep(2)'
    <3>1. Len(log) \in Nat /\ Len(log) - (2 - 2) = Len(log) /\ log \in Seq(Event)
      BY <1>2 DEF VizTypes
    <3>2. endsLogAt(slice(log), Len(log))
      BY <3>1, SliceProperties DEF endsLogAt
    <3>3. endsLogAt(channel[2].events, Len(log) - (Len(channel) - 2))'
      BY <1>1, <1>3, <1>5, <3>1, <3>2 DEF endsLogAt
    <3>4. \A f \in Flow : channel'[2].flows[f] = flowStates'[f]
      BY <1>1, <1>3, <1>5
    <3>. QED
      BY <1>1, <1>5, <3>1, <3>3, <3>4 DEF inStep
  <2>. QED
    BY <2>1, <2>2, <2>3 DEF ChannelFollowsTheLog
<1>12. LogKnowsStates' /\ NothingBetween'
  BY <1>1 DEF VizInv, LogKnowsStates, NothingBetween
<1>13. SeenFlowsExist'
  BY <1>1, <1>8 DEF VizInv, SeenFlowsExist
<1>14. EventsAreMoves'
  BY <1>7 DEF EventsAreMoves, isMove
<1>15. CountsAreTaken'
  BY <1>1, <1>8, <1>9 DEF VizInv, CountsAreTaken
<1>16. AnimationsEnd'
  BY <1>1 DEF VizInv, AnimationsEnd, moving
<1>17. ActiveFlowsAreShown'
  BY <1>1 DEF VizInv, ActiveFlowsAreShown
<1>. QED
  BY <1>6, <1>11, <1>12, <1>13, <1>14, <1>15, <1>16, <1>17 DEF VizInv

LEMMA CloseKeeps == VizInv /\ Close => VizInv'
<1>. SUFFICES ASSUME VizInv, Close PROVE VizInv'
  OBVIOUS
<1>. USE DEF controls, server
<1>1. /\ phase' = "waiting" /\ wait' = ReconnectDelay
      /\ UNCHANGED <<log, flowStates, gone, taken, channel, view, idle, position, playing, replayed>>
  BY DEF Close, onClose
<1>2. VizTypes /\ channel = <<>>
  BY DEF VizInv, Close, NothingBetween
<1>3. VizTypes'
  BY <1>1, <1>2, VizAssumption DEF VizTypes
<1>4. AnimationsEnd'
  <2>1. \A f \in Flow : view.transit[f].age \in Nat
    BY <1>2 DEF VizTypes, View, TransitRecord
  <2>. QED
    BY <1>1, <2>1, VizAssumption DEF VizInv, AnimationsEnd, moving
<1>5. LogKnowsStates' /\ NothingBetween' /\ ChannelFollowsTheLog'
  BY <1>1, <1>2 DEF VizInv, LogKnowsStates, NothingBetween, ChannelFollowsTheLog
<1>6. SeenFlowsExist' /\ EventsAreMoves' /\ CountsAreTaken' /\ ActiveFlowsAreShown'
  BY <1>1 DEF VizInv, SeenFlowsExist, EventsAreMoves, isMove, CountsAreTaken, ActiveFlowsAreShown
<1>. QED
  BY <1>3, <1>4, <1>5, <1>6 DEF VizInv

(* The pause is longer than any animation.                                 *)
LEMMA ReconnectKeeps == VizInv /\ Reconnect => VizInv'
<1>. SUFFICES ASSUME VizInv, Reconnect PROVE VizInv'
  OBVIOUS
<1>. USE DEF controls, server
<1>1. /\ phase = "waiting" /\ wait = 0 /\ phase' = "connecting"
      /\ UNCHANGED <<log, flowStates, gone, taken, wait, channel, view, idle, position, playing, replayed>>
  BY DEF Reconnect
<1>2. VizTypes /\ channel = <<>>
  BY <1>1 DEF VizInv, NothingBetween
<1>3. VizTypes'
  BY <1>1, <1>2 DEF VizTypes
<1>4. AnimationsEnd'
  <2>1. \A f \in Flow : view.transit[f].age \in Nat
    BY <1>2 DEF VizTypes, View, TransitRecord
  <2>2. moving = {}
    BY <1>1, <2>1, VizAssumption DEF VizInv, AnimationsEnd, moving
  <2>. QED
    BY <1>1, <2>2 DEF AnimationsEnd, moving
<1>5. LogKnowsStates' /\ NothingBetween' /\ ChannelFollowsTheLog'
  BY <1>1, <1>2 DEF VizInv, LogKnowsStates, NothingBetween, ChannelFollowsTheLog
<1>6. SeenFlowsExist' /\ EventsAreMoves' /\ CountsAreTaken' /\ ActiveFlowsAreShown'
  BY <1>1 DEF VizInv, SeenFlowsExist, EventsAreMoves, isMove, CountsAreTaken, ActiveFlowsAreShown
<1>. QED
  BY <1>3, <1>4, <1>5, <1>6 DEF VizInv

-----------------------------------------------------------------------------
(* Time, and the replay controls: the view changes by itself.              *)
LEMMA ViewAloneKeeps ==
    ASSUME VizInv, VizTypes', UNCHANGED <<server, phase, channel>>,
           view'.events = view.events, view'.counts = view.counts,
           \A f \in Flow : idle'[f] >= idle[f],
           \A f \in Flow : view.transit[f] = NoTransit => view'.transit[f] = NoTransit,
           ~replayed' => ~replayed /\ \A f \in Flow : view'.shown[f] \in {None, view.shown[f]}
    PROVE  /\ LogKnowsStates' /\ NothingBetween' /\ ChannelFollowsTheLog' /\ SeenFlowsExist'
           /\ EventsAreMoves' /\ CountsAreTaken'
<1>. USE DEF server
<1>1. VizTypes
  BY DEF VizInv
<1>2. LogKnowsStates' /\ NothingBetween'
  BY DEF VizInv, LogKnowsStates, NothingBetween
<1>3. \A f \in Flow : idle'[f] <= TerminalStale => idle[f] <= TerminalStale
  BY <1>1, VizAssumption DEF VizTypes
<1>4. SeenFlowsExist'
  BY <1>3 DEF VizInv, SeenFlowsExist
<1>5. EventsAreMoves' /\ CountsAreTaken'
  BY DEF VizInv, EventsAreMoves, isMove, CountsAreTaken
<1>6. ChannelFollowsTheLog'
  <2>. SUFFICES ASSUME phase \in {"open", "broken"}
                PROVE  \E k \in 0 .. 2 : shape(k)' /\ awaited(k)' /\ (phase = "open" => inStep(k)')
    BY DEF ChannelFollowsTheLog
  <2>1. PICK k \in 0 .. 2 : shape(k) /\ awaited(k) /\ (phase = "open" => inStep(k))
    BY DEF VizInv, ChannelFollowsTheLog
  <2>2. shape(k)'
    BY <2>1 DEF shape
  <2>3. awaited(k)'
    BY <1>3, <2>1 DEF awaited, snapshotFits
  <2>4. ASSUME phase = "open" PROVE inStep(k)'
    <3>1. inStep(k)
      BY <2>1, <2>4
    <3>2. ASSUME k = 0, ~replayed', NEW f \in Flow
          PROVE  comesIn(channel', f) \/ view'.shown[f] = None \/ view'.shown[f] = flowStates'[f]
      BY <3>1, <3>2 DEF inStep
    <3>. QED
      BY <3>1, <3>2 DEF inStep, endsLogAt
  <2>. QED
    BY <2>2, <2>3, <2>4
<1>. QED
  BY <1>2, <1>4, <1>5, <1>6

LEMMA ViewFields ==
    ASSUME NEW v \in View
    PROVE  /\ v = [topology |-> v.topology, events |-> v.events, counts |-> v.counts,
                   shown |-> v.shown, transit |-> v.transit]
           /\ v.topology \in BOOLEAN /\ v.events \in Seq(Event) /\ v.counts \in [Moves -> Nat]
           /\ v.shown \in FlowStates /\ v.transit \in [Flow -> TransitRecord]
BY DEF View, FlowStates

LEMMA TickKeeps == VizInv /\ Tick => VizInv'
<1>. SUFFICES ASSUME VizInv, Tick PROVE VizInv'
  OBVIOUS
<1>. USE DEF server, controls
<1>1. /\ idle' = [f \in Flow |-> IF idle[f] <= Stale THEN idle[f] + 1 ELSE idle[f]]
      /\ view' = onTick(view, idle') /\ wait' = IF wait > 0 THEN wait - 1 ELSE 0
      /\ UNCHANGED <<log, flowStates, gone, taken, phase, channel, position, playing, replayed>>
  BY DEF Tick
<1>2. VizTypes /\ view \in View /\ idle \in [Flow -> Nat]
  BY DEF VizInv, VizTypes
<1>3. /\ idle' \in [Flow -> Nat] /\ wait' \in Nat /\ wait' >= wait - 1
      /\ \A f \in Flow : idle'[f] >= idle[f]
  BY <1>1, <1>2, VizAssumption DEF VizTypes
<1>. DEFINE newTransit == [f \in Flow |->
                IF view.transit[f] # NoTransit /\ view.transit[f].age + 1 < TransitDuration
                THEN [view.transit[f] EXCEPT !.age = @ + 1] ELSE NoTransit]
            newShown == [f \in Flow |-> IF f \in staleFlows(view, idle') THEN None ELSE view.shown[f]]
            w == [view EXCEPT !.transit = newTransit]
<1>4. view' = [w EXCEPT !.shown = [f \in Flow |-> IF f \in staleFlows(view, idle') THEN None
                                                                            ELSE w.shown[f]]]
  <2>1. w.shown = view.shown
    BY <1>2 DEF View
  <2>2. view' = [w EXCEPT !.shown = newShown]
    BY <1>1 DEF onTick
  <2>. QED
    BY <2>1, <2>2
<1>. HIDE DEF newTransit
<1>5. /\ view'.topology = view.topology /\ view'.events = view.events /\ view'.counts = view.counts
      /\ view'.transit = newTransit /\ view'.shown = newShown
      /\ view' = [topology |-> view.topology, events |-> view.events, counts |-> view.counts,
                  shown |-> newShown, transit |-> newTransit]
  <2>1. w = [topology |-> view.topology, events |-> view.events, counts |-> view.counts,
             shown |-> view.shown, transit |-> newTransit]
    BY <1>2, ViewFields
  <2>. HIDE DEF w
  <2>2. view' = [w EXCEPT !.shown = newShown]
    BY <1>4, <2>1
  <2>. HIDE DEF newShown
  <2>3. view' = [topology |-> view.topology, events |-> view.events, counts |-> view.counts,
                 shown |-> newShown, transit |-> newTransit]
    BY <2>1, <2>2
  <2>. QED
    BY <2>3
<1>. HIDE DEF newShown, w
<1>6. ASSUME NEW f \in Flow
      PROVE  /\ newTransit[f] \in TransitRecord
             /\ view.transit[f] = NoTransit => newTransit[f] = NoTransit
             /\ newTransit[f] # NoTransit =>
                  /\ view.transit[f] # NoTransit /\ newTransit[f].age = view.transit[f].age + 1
                  /\ newTransit[f].age < TransitDuration /\ newTransit[f].to = view.transit[f].to
             /\ view.transit[f].age \in Nat
  <2>1. view.transit[f] \in TransitRecord
    BY <1>2, ViewFields
  <2>2. view.transit[f].age \in Nat
    BY <2>1 DEF TransitRecord
  <2>3. NoTransit \in TransitRecord
    BY DEF NoTransit, TransitRecord
  <2>4. newTransit[f] = IF view.transit[f].age + 1 < TransitDuration /\ view.transit[f] # NoTransit
                        THEN [view.transit[f] EXCEPT !.age = @ + 1] ELSE NoTransit
    BY DEF newTransit
  <2>5. /\ [view.transit[f] EXCEPT !.age = @ + 1] \in TransitRecord
        /\ [view.transit[f] EXCEPT !.age = @ + 1].age = view.transit[f].age + 1
        /\ [view.transit[f] EXCEPT !.age = @ + 1].to = view.transit[f].to
    BY <2>1, <2>2 DEF TransitRecord
  <2>. QED
    BY <2>2, <2>3, <2>4, <2>5
<1>7. newTransit \in [Flow -> TransitRecord]
  <2>1. newTransit = [f \in Flow |-> newTransit[f]]
    BY DEF newTransit
  <2>. QED
    BY <1>6, <2>1
<1>8. /\ newShown \in FlowStates
      /\ \A f \in Flow : newShown[f] \in {None, view.shown[f]}
      /\ \A f \in Flow : f \notin staleFlows(view, idle') => newShown[f] = view.shown[f]
  <2>1. view.shown \in FlowStates
    BY <1>2, ViewFields
  <2>. QED
    BY <2>1 DEF newShown, FlowStates
<1>9. VizTypes'
  <2>1. view' \in View
    BY <1>2, <1>5, <1>7, <1>8, ViewFields DEF View, FlowStates
  <2>. QED
    BY <1>1, <1>2, <1>3, <2>1 DEF VizTypes
<1>10. /\ LogKnowsStates' /\ NothingBetween' /\ ChannelFollowsTheLog' /\ SeenFlowsExist'
       /\ EventsAreMoves' /\ CountsAreTaken'
  BY <1>1, <1>3, <1>5, <1>6, <1>8, <1>9, ViewAloneKeeps
<1>11. AnimationsEnd'
  <2>. SUFFICES ASSUME NEW f \in Flow, newTransit[f] # NoTransit
                PROVE  /\ view'.shown[f] # None => view'.shown[f] = newTransit[f].to
                       /\ newTransit[f].age < TransitDuration
                       /\ phase # "connecting"
                       /\ phase = "waiting" => newTransit[f].age + wait' >= ReconnectDelay
    BY <1>1, <1>5 DEF AnimationsEnd, moving
  <2>1. f \in moving
    BY <1>6 DEF moving
  <2>2. /\ view.shown[f] # None => view.shown[f] = view.transit[f].to
        /\ phase # "connecting"
        /\ phase = "waiting" => view.transit[f].age + wait >= ReconnectDelay
    BY <2>1 DEF VizInv, AnimationsEnd
  <2>3. view'.shown[f] # None => view'.shown[f] = newTransit[f].to
    BY <1>5, <1>6, <1>8, <2>2
  <2>4. ASSUME phase = "waiting" PROVE newTransit[f].age + wait' >= ReconnectDelay
    <3>1. view.transit[f].age + wait >= ReconnectDelay
      BY <2>2, <2>4
    <3>2. newTransit[f].age = view.transit[f].age + 1 /\ view.transit[f].age \in Nat
      BY <1>6
    <3>3. wait \in Nat
      BY <1>2 DEF VizTypes
    <3>. QED
      BY <1>3, <3>1, <3>2, <3>3, VizAssumption
  <2>. QED
    BY <1>6, <2>2, <2>3, <2>4
<1>12. ActiveFlowsAreShown'
  <2>. SUFFICES ASSUME ~replayed, NEW f \in Flow \ gone, idle'[f] <= TerminalStale
                PROVE  view'.shown[f] # None
    BY <1>1 DEF ActiveFlowsAreShown
  <2>1. idle'[f] \in Nat /\ idle[f] \in Nat /\ idle[f] <= TerminalStale
    BY <1>2, <1>3, VizAssumption
  <2>2. ~(idle'[f] > TerminalStale) /\ ~(idle'[f] > Stale)
    BY <2>1, VizAssumption
  <2>3. f \notin staleFlows(view, idle')
    BY <2>2 DEF staleFlows
  <2>4. view.shown[f] # None
    BY <2>1 DEF VizInv, ActiveFlowsAreShown
  <2>. QED
    BY <1>5, <1>8, <2>3, <2>4
<1>. QED
  BY <1>9, <1>10, <1>11, <1>12 DEF VizInv

LEMMA ReplayKeeps ==
    ASSUME VizInv, NEW p \in Int, p >= 0, view' = onReplay(view, p), replayed' = TRUE,
           position' \in Int, playing' \in BOOLEAN, UNCHANGED <<server, socket, idle>>
    PROVE  VizInv'
<1>. USE DEF server, socket
<1>1. VizTypes /\ view \in View
  BY DEF VizInv, VizTypes
<1>. DEFINE past == SubSeq(view.events, 1, IF p + 1 < Len(view.events) THEN p + 1 ELSE Len(view.events))
            none == [f \in Flow |-> None]
            newShown == positionsAfter(none, past)
            newTransit == [f \in Flow |-> NoTransit]
<1>2. past \in Seq(Event)
  <2>1. view.events \in Seq(Event)
    BY <1>1, ViewFields
  <2>. QED
    BY <2>1
<1>3. newShown \in FlowStates
  <2>1. none \in FlowStates
    BY DEF FlowStates
  <2>. QED
    BY <1>2, <2>1, PositionsAfter
<1>4. newTransit \in [Flow -> TransitRecord] /\ \A f \in Flow : newTransit[f] = NoTransit
  BY DEF NoTransit, TransitRecord
<1>5. view' = [view EXCEPT !.shown = newShown, !.transit = newTransit]
  BY DEF onReplay
<1>. HIDE DEF past, none, newShown, newTransit
<1>6. /\ view'.events = view.events /\ view'.counts = view.counts /\ view'.transit = newTransit
      /\ view' = [topology |-> view.topology, events |-> view.events, counts |-> view.counts,
                  shown |-> newShown, transit |-> newTransit]
  BY <1>1, <1>5, ViewFields
<1>7. VizTypes'
  <2>1. view' \in View
    BY <1>1, <1>3, <1>4, <1>6, ViewFields DEF View, FlowStates
  <2>. QED
    BY <1>1, <2>1 DEF VizTypes
<1>8. \A f \in Flow : idle'[f] >= idle[f]
  BY <1>1 DEF VizTypes
<1>9. /\ LogKnowsStates' /\ NothingBetween' /\ ChannelFollowsTheLog' /\ SeenFlowsExist'
       /\ EventsAreMoves' /\ CountsAreTaken'
  BY <1>4, <1>6, <1>7, <1>8, ViewAloneKeeps
<1>10. AnimationsEnd' /\ ActiveFlowsAreShown'
  BY <1>4, <1>6 DEF AnimationsEnd, moving, ActiveFlowsAreShown
<1>. QED
  BY <1>7, <1>9, <1>10 DEF VizInv

(* The controls: a position of its own rewrites the view.                  *)
LEMMA ControlsKeep ==
    VizInv /\ (Play \/ Advance \/ Seek \/ Pause \/ GoLive) => VizInv'
<1>. SUFFICES ASSUME VizInv, Play \/ Advance \/ Seek \/ Pause \/ GoLive PROVE VizInv'
  OBVIOUS
<1>1. VizTypes /\ Len(view.events) \in Nat
  BY ViewFields DEF VizInv, VizTypes
<1>2. ASSUME UNCHANGED <<server, socket, idle, view, replayed>>, position' \in Int, playing' \in BOOLEAN
      PROVE  VizInv'
  <2>1. VizTypes'
    BY <1>1, <1>2 DEF VizTypes, server, socket
  <2>2. \A f \in Flow : idle'[f] >= idle[f]
    BY <1>1, <1>2 DEF VizTypes
  <2>3. /\ LogKnowsStates' /\ NothingBetween' /\ ChannelFollowsTheLog' /\ SeenFlowsExist'
        /\ EventsAreMoves' /\ CountsAreTaken'
    BY <1>2, <2>1, <2>2, ViewAloneKeeps DEF socket
  <2>4. AnimationsEnd' /\ ActiveFlowsAreShown'
    BY <1>2 DEF VizInv, AnimationsEnd, moving, ActiveFlowsAreShown, server, socket
  <2>. QED
    BY <2>1, <2>3, <2>4 DEF VizInv
<1>3. ASSUME NEW p \in Int, moveTo(p), playing' \in BOOLEAN, UNCHANGED <<server, socket, idle>>
      PROVE  VizInv'
  BY <1>2, <1>3, ReplayKeeps DEF moveTo
<1>4. position \in Int /\ playing \in BOOLEAN
  BY <1>1 DEF VizTypes
<1>5. CASE Play
  BY <1>3, <1>4, <1>5 DEF Play
<1>6. CASE Advance
  <2>1. eventCount - 1 \in Int /\ position + 1 \in Int
    BY <1>1, <1>4 DEF eventCount
  <2>. QED
    BY <1>3, <1>4, <1>6, <2>1 DEF Advance
<1>7. CASE Seek
  <2>1. eventCount \in Nat
    BY <1>1 DEF eventCount
  <2>2. PICK p \in Int : moveTo(p)
    BY <1>4, <1>7, <2>1 DEF Seek
  <2>. QED
    BY <1>3, <1>7, <2>2 DEF Seek
<1>8. CASE Pause
  BY <1>2, <1>4, <1>8 DEF Pause
<1>9. CASE GoLive
  <2>1. -1 \in Int
    OBVIOUS
  <2>2. position' \in Int
    BY <1>9, <2>1 DEF GoLive
  <2>3. playing' \in BOOLEAN /\ UNCHANGED <<server, socket, idle, view, replayed>>
    BY <1>9 DEF GoLive
  <2>. QED
    BY <1>2, <2>2, <2>3
<1>. QED
  BY <1>5, <1>6, <1>7, <1>8, <1>9

-----------------------------------------------------------------------------
(* A message is handled.                                                   *)

LEMMA TailOfChannel ==
    ASSUME NEW c \in Seq(Message), c # <<>>
    PROVE  /\ Tail(c) \in Seq(Message) /\ Len(c) \in Nat /\ Len(c) >= 1 /\ Len(Tail(c)) = Len(c) - 1
           /\ 1 \in DOMAIN c /\ Head(c) = c[1] /\ Head(c) \in Message
           /\ \A j \in DOMAIN Tail(c) :
                j \in Nat /\ j >= 1 /\ j <= Len(c) - 1 /\ j + 1 \in DOMAIN c /\ Tail(c)[j] = c[j + 1]
           /\ \A j \in DOMAIN c : j # 1 => j - 1 \in DOMAIN Tail(c) /\ Tail(c)[j - 1] = c[j]
           /\ \A j \in DOMAIN c : j \in Nat /\ j >= 1 /\ j <= Len(c)
<1>1. Len(c) \in Nat /\ Len(c) >= 1 /\ Len(Tail(c)) = Len(c) - 1
  OBVIOUS
<1>2. DOMAIN c = 1 .. Len(c) /\ DOMAIN Tail(c) = 1 .. (Len(c) - 1)
  BY <1>1
<1>3. \A j \in 1 .. (Len(c) - 1) : Tail(c)[j] = c[j + 1]
  BY <1>1
<1>4. Tail(c) \in Seq(Message) /\ Head(c) = c[1] /\ Head(c) \in Message
  BY <1>1
<1>5. \A j \in 1 .. Len(c) : j # 1 => j - 1 \in 1 .. (Len(c) - 1) /\ (j - 1) + 1 = j
  BY <1>1
<1>. QED
  BY <1>1, <1>2, <1>3, <1>4, <1>5

LEMMA ComesInTail ==
    ASSUME NEW c \in Seq(Message), c # <<>>, NEW f
    PROVE  /\ comesIn(Tail(c), f) => comesIn(c, f)
           /\ comesIn(c, f) => \/ comesIn(Tail(c), f)
                               \/ Head(c).type = "event" /\ moves(Head(c).event, f)
           /\ (Head(c).type = "event" /\ moves(Head(c).event, f)) => comesIn(c, f)
<1>. DEFINE d == Tail(c)
            h == Head(c)
<1>1. /\ 1 \in DOMAIN c /\ h = c[1]
      /\ \A j \in DOMAIN d : j + 1 \in DOMAIN c /\ d[j] = c[j + 1]
      /\ \A j \in DOMAIN c : j # 1 => j - 1 \in DOMAIN d /\ d[j - 1] = c[j]
  BY TailOfChannel
<1>. HIDE DEF d, h
<1>2. comesIn(d, f) => comesIn(c, f)
  BY <1>1 DEF comesIn
<1>3. comesIn(c, f) => comesIn(d, f) \/ (h.type = "event" /\ moves(h.event, f))
  BY <1>1 DEF comesIn
<1>4. (h.type = "event" /\ moves(h.event, f)) => comesIn(c, f)
  BY <1>1 DEF comesIn
<1>. QED
  BY <1>2, <1>3, <1>4 DEF d, h

(* The handshake counts down, and the first message says where it stands.  *)
LEMMA ShapeOfTail ==
    ASSUME channel \in Seq(Message), channel # <<>>, channel' = Tail(channel),
           NEW k \in 0 .. 2, shape(k)
    PROVE  /\ Head(channel).type = "init" => k = 2
           /\ Head(channel).type = "snapshot" => k = 1
           /\ Head(channel).type = "event" => k = 0
           /\ k > 0 => shape(k - 1)'
           /\ k = 0 => shape(0)'
<1>1. /\ 1 \in DOMAIN channel /\ Head(channel) = channel[1]
      /\ \A j \in DOMAIN channel' : j \in Nat /\ j >= 1 /\ j + 1 \in DOMAIN channel
                                      /\ channel'[j] = channel[j + 1]
  BY TailOfChannel
<1>2. /\ 1 < k => Head(channel).type = "init"
      /\ 1 = k => Head(channel).type = "snapshot"
      /\ 1 > k => Head(channel).type = "event"
  BY <1>1 DEF shape
<1>3. k > 0 => shape(k - 1)'
  <2>. SUFFICES ASSUME k > 0, NEW j \in DOMAIN channel'
                PROVE  /\ j < k - 1 => channel'[j].type = "init"
                       /\ j = k - 1 => channel'[j].type = "snapshot"
                       /\ j > k - 1 => channel'[j].type = "event"
    BY DEF shape
  <2>1. /\ j + 1 < k => channel[j + 1].type = "init"
        /\ j + 1 = k => channel[j + 1].type = "snapshot"
        /\ j + 1 > k => channel[j + 1].type = "event"
    BY <1>1 DEF shape
  <2>2. j \in Nat /\ channel'[j] = channel[j + 1]
    BY <1>1
  <2>. QED
    BY <2>1, <2>2
<1>4. k = 0 => shape(0)'
  <2>. SUFFICES ASSUME k = 0, NEW j \in DOMAIN channel'
                PROVE  j \in Nat /\ j >= 1 /\ channel'[j].type = "event"
    BY DEF shape
  <2>1. j \in Nat /\ j >= 1 /\ j + 1 \in DOMAIN channel /\ channel'[j] = channel[j + 1]
    BY <1>1
  <2>2. j + 1 > 0
    BY <2>1
  <2>. QED
    BY <2>1, <2>2 DEF shape
<1>. QED
  BY <1>2, <1>3, <1>4

(* What does not depend on which message it is.                            *)
LEMMA DeliverShares ==
    ASSUME VizInv, Deliver
    PROVE  /\ phase \in {"open", "broken"} /\ channel \in Seq(Message) /\ channel # <<>>
           /\ channel' = Tail(channel) /\ channel' \in Seq(Message)
           /\ UNCHANGED <<log, flowStates, gone, taken, phase, wait, position, playing>>
           /\ LogKnowsStates' /\ NothingBetween' /\ EventsAreMoves'
<1>. USE DEF server, controls
<1>1. /\ phase \in {"open", "broken"} /\ channel # <<>> /\ channel' = Tail(channel)
      /\ UNCHANGED <<log, flowStates, gone, taken, phase, wait, position, playing>>
  BY DEF Deliver
<1>2. channel \in Seq(Message)
  BY DEF VizInv, VizTypes
<1>3. channel' \in Seq(Message)
  BY <1>1, <1>2, TailOfChannel
<1>4. \A j \in DOMAIN channel' : j + 1 \in DOMAIN channel /\ channel'[j] = channel[j + 1]
  BY <1>1, <1>2, TailOfChannel
<1>5. EventsAreMoves'
  BY <1>4 DEF VizInv, EventsAreMoves, isMove
<1>6. LogKnowsStates' /\ NothingBetween'
  BY <1>1 DEF VizInv, LogKnowsStates, NothingBetween
<1>. QED
  BY <1>1, <1>2, <1>3, <1>5, <1>6

LEMMA InitHandled ==
    ASSUME VizInv, Deliver, Head(channel).type = "init",
           view' = [view EXCEPT !.topology = TRUE], UNCHANGED <<idle, replayed>>
    PROVE  VizInv'
<1>1. /\ phase \in {"open", "broken"} /\ channel \in Seq(Message) /\ channel # <<>>
      /\ channel' = Tail(channel) /\ channel' \in Seq(Message)
      /\ UNCHANGED <<log, flowStates, gone, taken, phase, wait, position, playing>>
      /\ LogKnowsStates' /\ NothingBetween' /\ EventsAreMoves'
  BY DeliverShares
<1>2. VizTypes /\ view \in View /\ Len(log) \in Nat
  BY DEF VizInv, VizTypes
<1>3. /\ view' \in View /\ view'.events = view.events /\ view'.counts = view.counts
      /\ view'.shown = view.shown /\ view'.transit = view.transit
  BY <1>2 DEF View
<1>4. VizTypes'
  BY <1>1, <1>2, <1>3 DEF VizTypes
<1>5. \A f \in Flow : comesIn(channel', f) <=> comesIn(channel, f)
  BY <1>1, ComesInTail
<1>6. SeenFlowsExist'
  BY <1>1, <1>5 DEF VizInv, SeenFlowsExist
<1>7. CountsAreTaken'
  <2>. SUFFICES ASSUME NEW m \in Moves
                PROVE  view.counts[m] + Cardinality(pending(channel', m)) <= taken[m]
    BY <1>1, <1>3 DEF CountsAreTaken
  <2>1. view.counts[m] + Cardinality(pending(channel, m)) <= taken[m]
    BY DEF VizInv, CountsAreTaken
  <2>2. Cardinality(pending(channel', m)) <= Cardinality(pending(channel, m))
    BY <1>1, PendingTail
  <2>3. /\ Cardinality(pending(channel', m)) \in Nat /\ Cardinality(pending(channel, m)) \in Nat
        /\ view.counts[m] \in Nat /\ taken[m] \in Nat
    BY <1>1, <1>2, PendingFinite DEF VizTypes, View
  <2>. QED
    BY <2>1, <2>2, <2>3
<1>8. AnimationsEnd' /\ ActiveFlowsAreShown'
  BY <1>1, <1>3 DEF VizInv, AnimationsEnd, moving, ActiveFlowsAreShown
<1>9. ChannelFollowsTheLog'
  <2>1. PICK k \in 0 .. 2 : shape(k) /\ awaited(k) /\ (phase = "open" => inStep(k))
    BY <1>1 DEF VizInv, ChannelFollowsTheLog
  <2>2. k = 2 /\ shape(1)'
    <3>1. k = 2 /\ shape(k - 1)'
      BY <1>1, <2>1, ShapeOfTail
    <3>. QED
      BY <3>1
  <2>3. /\ Len(channel) \in Nat /\ Len(channel) >= 1 /\ Len(channel') = Len(channel) - 1
        /\ \A j \in DOMAIN channel' : j \in Nat /\ j >= 1 /\ j + 1 \in DOMAIN channel
                                        /\ channel'[j] = channel[j + 1]
    BY <1>1, TailOfChannel
  <2>4. 2 <= Len(channel) => 1 \in DOMAIN channel' /\ channel'[1] = channel[2]
    <3>1. DOMAIN channel' = 1 .. Len(channel')
      BY <1>1
    <3>2. 2 <= Len(channel) => 1 \in DOMAIN channel'
      BY <2>3, <3>1
    <3>. QED
      BY <2>3, <3>2
  <2>5. awaited(1)'
    <3>1. \A f \in Flow : view'.transit[f] = NoTransit
      BY <1>3, <2>1, <2>2 DEF awaited
    <3>2. ASSUME 1 <= Len(channel')
          PROVE  /\ channel'[1] = channel[2] /\ snapshotFits(channel[2])
                 /\ \A f \in Flow \ gone : idle[f] <= TerminalStale => channel[2].flows[f] # None
      <4>1. 2 <= Len(channel)
        BY <2>3, <3>2
      <4>. QED
        BY <2>1, <2>2, <2>4, <4>1 DEF awaited
    <3>. QED
      BY <1>1, <3>1, <3>2 DEF awaited, snapshotFits
  <2>6. ASSUME phase = "open" PROVE inStep(1)'
    <3>1. inStep(2)
      BY <2>1, <2>2, <2>6
    <3>2. 2 <= Len(channel) /\ Len(channel) - 2 <= Len(log)
      BY <3>1 DEF inStep
    <3>3. 1 <= Len(channel') /\ Len(channel') - 1 <= Len(log) /\ Len(channel') - 1 = Len(channel) - 2
      BY <1>2, <2>3, <3>2
    <3>4. ASSUME NEW j \in DOMAIN channel', j > 1
          PROVE  channel'[j].event = log[Len(log) - Len(channel') + j]
      <4>1. j + 1 \in DOMAIN channel /\ j + 1 > 2 /\ channel'[j] = channel[j + 1]
        BY <2>3, <3>4
      <4>2. channel[j + 1].event = log[Len(log) - Len(channel) + (j + 1)]
        BY <3>1, <4>1 DEF inStep
      <4>3. Len(log) - Len(channel) + (j + 1) = Len(log) - Len(channel') + j
        BY <1>2, <2>3
      <4>. QED
        BY <4>1, <4>2, <4>3
    <3>5. /\ endsLogAt(channel[2].events, Len(log) - (Len(channel) - 2))
          /\ \A f \in Flow : comesIn(channel, f) \/ channel[2].flows[f] = flowStates[f]
      BY <3>1 DEF inStep
    <3>6. channel'[1] = channel[2]
      BY <2>4, <3>2
    <3>7. endsLogAt(channel'[1].events, Len(log) - (Len(channel') - 1))
      BY <3>3, <3>5, <3>6
    <3>8. \A f \in Flow : comesIn(channel', f) \/ channel'[1].flows[f] = flowStates[f]
      BY <1>5, <3>5, <3>6
    <3>9. endsLogAt(channel[1].events, Len(log) - (Len(channel) - 1))'
      BY <1>1, <3>7 DEF endsLogAt
    <3>10. \A j \in DOMAIN channel' : j > 1 => channel'[j].event = log'[Len(log') - Len(channel') + j]
      BY <1>1, <3>4
    <3>. QED
      BY <1>1, <3>3, <3>8, <3>9, <3>10 DEF inStep
  <2>. QED
    BY <1>1, <2>2, <2>5, <2>6 DEF ChannelFollowsTheLog
<1>. QED
  BY <1>1, <1>4, <1>6, <1>7, <1>8, <1>9 DEF VizInv

(* The snapshot puts every flow where the events it carries lead.          *)
LEMMA SnapshotFits ==
    ASSUME NEW m \in Message, m.type = "snapshot", snapshotFits(m)
    PROVE  positionsAfter(m.flows, m.events) = m.flows
<1>1. m.flows \in FlowStates /\ m.events \in Seq(Event)
  BY Messages
<1>2. positionsAfter(m.flows, m.events) \in FlowStates
  BY <1>1, PositionsAfter
<1>3. ASSUME NEW f \in Flow PROVE positionsAfter(m.flows, m.events)[f] = m.flows[f]
  <2>1. CASE /\ \A i \in DOMAIN m.events : ~moves(m.events[i], f)
             /\ positionsAfter(m.flows, m.events)[f] = m.flows[f]
    BY <2>1
  <2>2. ASSUME NEW i \in DOMAIN m.events, isLast(m.events, f, i),
               positionsAfter(m.flows, m.events)[f] = m.events[i].to
        PROVE  positionsAfter(m.flows, m.events)[f] = m.flows[f]
    <3>1. endsAt(m.events, f, m.flows[f], m.flows[f])
      BY DEF snapshotFits
    <3>2. PICK j \in DOMAIN m.events : isLast(m.events, f, j) /\ m.flows[f] = m.events[j].to
      BY <2>2, <3>1 DEF endsAt, isLast
    <3>3. DOMAIN m.events \subseteq Nat
      BY <1>1
    <3>4. i = j
      <4>1. i <= j /\ j <= i
        BY <2>2, <3>2 DEF isLast
      <4>. QED
        BY <3>3, <4>1
    <3>. QED
      BY <2>2, <3>2, <3>4
  <2>. QED
    BY <1>1, <2>1, <2>2, PositionsAfter DEF isLast
<1>. QED
  BY <1>1, <1>2, <1>3 DEF FlowStates

LEMMA SnapshotHandled ==
    ASSUME VizInv, Deliver, Head(channel).type = "snapshot",
           view' = onSnapshot(view, Head(channel)), replayed' = FALSE, UNCHANGED idle
    PROVE  VizInv'
<1>1. /\ phase \in {"open", "broken"} /\ channel \in Seq(Message) /\ channel # <<>>
      /\ channel' = Tail(channel) /\ channel' \in Seq(Message)
      /\ UNCHANGED <<log, flowStates, gone, taken, phase, wait, position, playing>>
      /\ LogKnowsStates' /\ NothingBetween' /\ EventsAreMoves'
  BY DeliverShares
<1>2. VizTypes /\ view \in View /\ Len(log) \in Nat
  BY DEF VizInv, VizTypes
<1>. DEFINE m == Head(channel)
<1>3. /\ m = channel[1] /\ m \in Message /\ 1 \in DOMAIN channel
      /\ Len(channel) \in Nat /\ Len(channel) >= 1 /\ Len(channel') = Len(channel) - 1
      /\ \A j \in DOMAIN channel' : j \in Nat /\ j >= 1 /\ j + 1 \in DOMAIN channel
                                      /\ channel'[j] = channel[j + 1]
  BY <1>1, TailOfChannel
<1>4. m.type = "snapshot" /\ m.flows \in FlowStates /\ m.events \in Seq(Event)
  BY <1>3, Messages
<1>5. view' = [view EXCEPT !.events = m.events, !.shown = positionsAfter(m.flows, m.events)]
  BY DEF onSnapshot
<1>. HIDE DEF m
<1>6. PICK k \in 0 .. 2 : shape(k) /\ awaited(k) /\ (phase = "open" => inStep(k))
  BY <1>1 DEF VizInv, ChannelFollowsTheLog
<1>7. k = 1 /\ shape(0)'
  <2>1. k = 1
    BY <1>1, <1>4, <1>6, ShapeOfTail DEF m
  <2>2. shape(k - 1)' /\ k - 1 = 0
    BY <1>1, <1>6, <2>1, ShapeOfTail
  <2>. QED
    BY <2>1, <2>2
<1>8. /\ \A f \in Flow : view.transit[f] = NoTransit
      /\ snapshotFits(m)
      /\ \A f \in Flow \ gone : idle[f] <= TerminalStale => m.flows[f] # None
  BY <1>3, <1>6, <1>7 DEF awaited
<1>9. positionsAfter(m.flows, m.events) = m.flows
  BY <1>3, <1>4, <1>8, SnapshotFits
<1>10. /\ view'.events = m.events /\ view'.counts = view.counts /\ view'.shown = m.flows
       /\ view'.transit = view.transit
       /\ view' = [topology |-> view.topology, events |-> m.events, counts |-> view.counts,
                   shown |-> m.flows, transit |-> view.transit]
  BY <1>2, <1>5, <1>9, ViewFields
<1>11. VizTypes'
  <2>1. view' \in View
    BY <1>2, <1>4, <1>10, ViewFields DEF View, FlowStates
  <2>. QED
    BY <1>1, <1>2, <2>1 DEF VizTypes
<1>12. \A f \in Flow : comesIn(channel', f) <=> comesIn(channel, f)
  BY <1>1, <1>4, ComesInTail DEF m
<1>13. SeenFlowsExist'
  BY <1>1, <1>12 DEF VizInv, SeenFlowsExist
<1>14. CountsAreTaken'
  <2>. SUFFICES ASSUME NEW p \in Moves
                PROVE  view.counts[p] + Cardinality(pending(channel', p)) <= taken[p]
    BY <1>1, <1>10 DEF CountsAreTaken
  <2>1. view.counts[p] + Cardinality(pending(channel, p)) <= taken[p]
    BY DEF VizInv, CountsAreTaken
  <2>2. Cardinality(pending(channel', p)) <= Cardinality(pending(channel, p))
    BY <1>1, PendingTail
  <2>3. /\ Cardinality(pending(channel', p)) \in Nat /\ Cardinality(pending(channel, p)) \in Nat
        /\ view.counts[p] \in Nat /\ taken[p] \in Nat
    BY <1>1, <1>2, PendingFinite DEF VizTypes, View
  <2>. QED
    BY <2>1, <2>2, <2>3
<1>15. AnimationsEnd'
  BY <1>8, <1>10 DEF AnimationsEnd, moving
<1>16. ActiveFlowsAreShown'
  BY <1>1, <1>8, <1>10 DEF ActiveFlowsAreShown
<1>17. ChannelFollowsTheLog'
  <2>1. awaited(0)'
    BY DEF awaited
  <2>2. ASSUME phase = "open" PROVE inStep(0)'
    <3>1. inStep(1)
      BY <1>6, <1>7, <2>2
    <3>2. Len(channel) - 1 <= Len(log)
      BY <3>1 DEF inStep
    <3>3. ASSUME NEW j \in DOMAIN channel'
          PROVE  j > 0 => channel'[j].event = log[Len(log) - Len(channel') + j]
      <4>1. j + 1 \in DOMAIN channel /\ j + 1 > 1 /\ channel'[j] = channel[j + 1]
        BY <1>3, <3>3
      <4>2. channel[j + 1].event = log[Len(log) - Len(channel) + (j + 1)]
        BY <3>1, <4>1 DEF inStep
      <4>3. Len(log) - Len(channel) + (j + 1) = Len(log) - Len(channel') + j
        BY <1>2, <1>3
      <4>. QED
        BY <4>1, <4>2, <4>3
    <3>4. /\ endsLogAt(m.events, Len(log) - (Len(channel) - 1))
          /\ \A f \in Flow : comesIn(channel, f) \/ m.flows[f] = flowStates[f]
      BY <1>3, <3>1 DEF inStep
    <3>5. endsLogAt(view'.events, Len(log) - Len(channel'))
      BY <1>3, <1>10, <3>4
    <3>6. endsLogAt(view.events, Len(log) - Len(channel))'
      BY <1>1, <3>5 DEF endsLogAt
    <3>7. \A f \in Flow : \/ comesIn(channel', f) \/ view'.shown[f] = None
                          \/ view'.shown[f] = flowStates'[f]
      BY <1>1, <1>10, <1>12, <3>4
    <3>8. 0 <= Len(channel') /\ Len(channel') - 0 <= Len(log')
      BY <1>1, <1>3, <3>2
    <3>9. \A j \in DOMAIN channel' : j > 0 => channel'[j].event = log'[Len(log') - Len(channel') + j]
      BY <1>1, <3>3
    <3>. QED
      BY <3>6, <3>7, <3>8, <3>9 DEF inStep
  <2>. QED
    BY <1>1, <1>7, <2>1, <2>2 DEF ChannelFollowsTheLog
<1>. QED
  BY <1>1, <1>11, <1>13, <1>14, <1>15, <1>16, <1>17 DEF VizInv

(* What the page makes of an event.                                        *)
LEMMA OnEvent ==
    ASSUME NEW v \in View, NEW e \in Event,
           e.type = "transition" => <<e.from, e.to>> \in Moves
    PROVE  /\ onEvent(v, e) \in View
           /\ onEvent(v, e).events = Append(v.events, e)
           /\ \A f \in Flow : moves(e, f) =>
                /\ onEvent(v, e).shown[f] = e.to
                /\ onEvent(v, e).transit[f] = [from |-> e.from, to |-> e.to, age |-> 0]
           /\ \A f \in Flow : ~moves(e, f) =>
                /\ onEvent(v, e).shown[f] = v.shown[f]
                /\ onEvent(v, e).transit[f] = v.transit[f]
           /\ \A m \in Moves :
                onEvent(v, e).counts[m] = IF e.type = "transition" /\ <<e.from, e.to>> = m
                                          THEN v.counts[m] + 1 ELSE v.counts[m]
<1>. DEFINE newEvents == Append(v.events, e)
            newShown == positionsAfter(v.shown, <<e>>)
            w == [v EXCEPT !.events = newEvents, !.shown = newShown]
            arrow == [from |-> e.from, to |-> e.to, age |-> 0]
<1>1. /\ v = [topology |-> v.topology, events |-> v.events, counts |-> v.counts,
              shown |-> v.shown, transit |-> v.transit]
      /\ v.topology \in BOOLEAN /\ v.events \in Seq(Event) /\ v.counts \in [Moves -> Nat]
      /\ v.shown \in FlowStates /\ v.transit \in [Flow -> TransitRecord]
  BY ViewFields
<1>2. /\ e.type \in {"transition", "guard"} /\ e.flow \in Flow /\ e.from \in State /\ e.to \in State
  BY DEF Event
<1>3. newShown \in FlowStates /\ \A f \in Flow : newShown[f] = IF moves(e, f) THEN e.to ELSE v.shown[f]
  <2>1. /\ <<e>> \in Seq(Event) /\ DOMAIN <<e>> = {1} /\ <<e>>[1] = e
    OBVIOUS
  <2>2. newShown \in FlowStates
    BY <1>1, <2>1, PositionsAfter
  <2>. DEFINE s == <<e>>
  <2>3. \A f \in Flow : \/ (\A i \in DOMAIN s : ~moves(s[i], f)) /\ newShown[f] = v.shown[f]
                        \/ \E i \in DOMAIN s : isLast(s, f, i) /\ newShown[f] = s[i].to
    BY <1>1, <2>1, PositionsAfter
  <2>4. s[1] = e /\ DOMAIN s = {1}
    BY <2>1
  <2>. HIDE DEF s, newShown
  <2>5. ASSUME NEW f \in Flow PROVE newShown[f] = IF moves(e, f) THEN e.to ELSE v.shown[f]
    <3>1. CASE moves(e, f)
      BY <2>3, <2>4, <3>1
    <3>2. CASE ~moves(e, f)
      BY <2>3, <2>4, <3>2 DEF isLast
    <3>. QED
      BY <3>1, <3>2
  <2>. QED
    BY <2>2, <2>5
<1>4. newEvents \in Seq(Event)
  BY <1>1
<1>5. arrow \in TransitRecord
  BY <1>2 DEF TransitRecord
<1>6. onEvent(v, e) = IF e.type # "transition" THEN w
                      ELSE [w EXCEPT !.transit[e.flow] = arrow, !.counts[<<e.from, e.to>>] = @ + 1]
  BY DEF onEvent
<1>. HIDE DEF newEvents, newShown, arrow
<1>7. w = [topology |-> v.topology, events |-> newEvents, counts |-> v.counts,
           shown |-> newShown, transit |-> v.transit]
  <2>. DEFINE u == [v EXCEPT !.events = newEvents]
  <2>1. u = [topology |-> v.topology, events |-> newEvents, counts |-> v.counts,
             shown |-> v.shown, transit |-> v.transit]
    BY ViewFields
  <2>2. w = [u EXCEPT !.shown = newShown]
    OBVIOUS
  <2>. HIDE DEF u, w
  <2>. QED
    BY <2>1, <2>2
<1>. HIDE DEF w
<1>8. CASE e.type # "transition"
  <2>1. /\ onEvent(v, e).events = newEvents /\ onEvent(v, e).counts = v.counts
        /\ onEvent(v, e).shown = newShown /\ onEvent(v, e).transit = v.transit
        /\ onEvent(v, e) \in View
    BY <1>1, <1>3, <1>4, <1>6, <1>7, <1>8 DEF View, FlowStates
  <2>2. \A f \in Flow : ~moves(e, f)
    BY <1>8 DEF moves
  <2>. QED
    BY <1>3, <1>8, <2>1, <2>2 DEF newEvents
<1>9. CASE e.type = "transition"
  <2>. DEFINE newTransit == [v.transit EXCEPT ![e.flow] = arrow]
              newCounts == [v.counts EXCEPT ![<<e.from, e.to>>] = @ + 1]
              r == [w EXCEPT !.transit = newTransit, !.counts = newCounts]
  <2>1. onEvent(v, e) = r
    <3>1. onEvent(v, e) = [w EXCEPT !.transit[e.flow] = arrow, !.counts[<<e.from, e.to>>] = @ + 1]
      BY <1>6, <1>9
    <3>2. w.transit = v.transit /\ w.counts = v.counts
      BY <1>7
    <3>. QED
      BY <1>7, <3>1, <3>2
  <2>2. newTransit \in [Flow -> TransitRecord]
        /\ \A f \in Flow : newTransit[f] = IF f = e.flow THEN arrow ELSE v.transit[f]
    BY <1>1, <1>2, <1>5
  <2>3. newCounts \in [Moves -> Nat]
        /\ \A m \in Moves : newCounts[m] = IF <<e.from, e.to>> = m THEN v.counts[m] + 1 ELSE v.counts[m]
    <3>. DEFINE p == <<e.from, e.to>>
    <3>1. p \in Moves
      BY <1>9
    <3>. HIDE DEF p
    <3>2. /\ [v.counts EXCEPT ![p] = @ + 1] \in [Moves -> Nat]
          /\ \A m \in Moves : [v.counts EXCEPT ![p] = @ + 1][m] = IF p = m THEN v.counts[m] + 1 ELSE v.counts[m]
      BY <1>1, <3>1
    <3>. QED
      BY <3>2 DEF p
  <2>. HIDE DEF newTransit, newCounts
  <2>4. r = [topology |-> v.topology, events |-> newEvents, counts |-> newCounts,
             shown |-> newShown, transit |-> newTransit]
    <3>. DEFINE u == [w EXCEPT !.transit = newTransit]
    <3>1. u = [topology |-> v.topology, events |-> newEvents, counts |-> v.counts,
               shown |-> newShown, transit |-> newTransit]
      BY <1>7
    <3>2. r = [u EXCEPT !.counts = newCounts]
      OBVIOUS
    <3>. HIDE DEF u, r
    <3>. QED
      BY <3>1, <3>2
  <2>5. r \in View
    BY <1>1, <1>3, <1>4, <2>2, <2>3, <2>4 DEF View, FlowStates
  <2>6. r.events = newEvents /\ r.counts = newCounts /\ r.shown = newShown /\ r.transit = newTransit
    BY <2>4
  <2>7. \A f \in Flow : moves(e, f) <=> f = e.flow
    BY <1>9 DEF moves
  <2>. HIDE DEF r
  <2>8. \A f \in Flow : /\ moves(e, f) => newShown[f] = e.to /\ newTransit[f] = arrow
                        /\ ~moves(e, f) => newShown[f] = v.shown[f] /\ newTransit[f] = v.transit[f]
    BY <1>3, <2>2, <2>7
  <2>. QED
    BY <1>9, <2>1, <2>3, <2>5, <2>6, <2>8 DEF newEvents, arrow
<1>. QED
  BY <1>8, <1>9

(* With nothing of the flow left to come, its last move is where it is.    *)
LEMMA LastToCome ==
    ASSUME VizInv, channel # <<>>, shape(0), inStep(0), NEW f \in Flow,
           Head(channel).type = "event", moves(Head(channel).event, f), ~comesIn(Tail(channel), f)
    PROVE  flowStates[f] = Head(channel).event.to
<1>1. /\ channel \in Seq(Message) /\ log \in Seq(Event) /\ Len(log) \in Nat
  BY DEF VizInv, VizTypes
<1>. DEFINE n == Len(channel)
            p == Len(log) - n + 1
            e == Head(channel).event
<1>2. /\ 1 \in DOMAIN channel /\ Head(channel) = channel[1] /\ n \in Nat /\ n >= 1
      /\ \A j \in DOMAIN channel : j # 1 => j - 1 \in DOMAIN Tail(channel) /\ Tail(channel)[j - 1] = channel[j]
  BY <1>1, TailOfChannel
<1>3. n <= Len(log) /\ \A j \in DOMAIN channel : j > 0 => channel[j].event = log[Len(log) - n + j]
  BY <1>1, <1>2 DEF inStep
<1>4. p \in DOMAIN log /\ p \in Nat
  BY <1>1, <1>2, <1>3
<1>5. log[p] = e
  BY <1>2, <1>3
<1>. HIDE DEF p, e
<1>6. moves(log[p], f)
  BY <1>5 DEF e
<1>7. endsAt(log, f, None, flowStates[f])
  BY DEF VizInv, LogKnowsStates
<1>8. PICK i \in DOMAIN log : isLast(log, f, i) /\ flowStates[f] = log[i].to
  BY <1>4, <1>6, <1>7 DEF endsAt, isLast
<1>9. p <= i /\ moves(log[i], f) /\ i \in Nat /\ i <= Len(log)
  BY <1>1, <1>4, <1>6, <1>8 DEF isLast
<1>10. i = p
  <2>. SUFFICES ASSUME i # p PROVE FALSE
    OBVIOUS
  <2>1. PICK j \in 1 .. n : j = i - Len(log) + n /\ j # 1
    <3>1. i - Len(log) + n \in 1 .. n /\ i - Len(log) + n # 1
      BY <1>1, <1>2, <1>3, <1>9 DEF p
    <3>. QED
      BY <3>1
  <2>2. j \in DOMAIN channel /\ j > 0 /\ Len(log) - n + j = i
    BY <1>1, <1>2, <1>9, <2>1
  <2>3. channel[j].event = log[i] /\ channel[j].type = "event"
    BY <1>3, <2>2 DEF shape
  <2>4. comesIn(Tail(channel), f)
    BY <1>2, <1>9, <2>1, <2>2, <2>3 DEF comesIn
  <2>. QED
    BY <2>4
<1>. QED
  BY <1>5, <1>8, <1>10 DEF e

LEMMA EventHandled ==
    ASSUME VizInv, Deliver, Head(channel).type = "event",
           view' = onEvent(view, Head(channel).event),
           idle' = IF Head(channel).event.type = "transition"
                   THEN [idle EXCEPT ![Head(channel).event.flow] = 0] ELSE idle,
           UNCHANGED replayed
    PROVE  VizInv'
<1>1. /\ phase \in {"open", "broken"} /\ channel \in Seq(Message) /\ channel # <<>>
      /\ channel' = Tail(channel) /\ channel' \in Seq(Message)
      /\ UNCHANGED <<log, flowStates, gone, taken, phase, wait, position, playing>>
      /\ LogKnowsStates' /\ NothingBetween' /\ EventsAreMoves'
  BY DeliverShares
<1>2. VizTypes /\ view \in View /\ Len(log) \in Nat /\ idle \in [Flow -> Nat]
  BY DEF VizInv, VizTypes
<1>. DEFINE e == Head(channel).event
<1>3. /\ Head(channel) = channel[1] /\ Head(channel) \in Message /\ 1 \in DOMAIN channel
      /\ Len(channel) \in Nat /\ Len(channel) >= 1 /\ Len(channel') = Len(channel) - 1
      /\ \A j \in DOMAIN channel' : j \in Nat /\ j >= 1 /\ j + 1 \in DOMAIN channel
                                      /\ channel'[j] = channel[j + 1]
  BY <1>1, TailOfChannel
<1>4. e \in Event /\ (e.type = "transition" => <<e.from, e.to>> \in Moves)
  BY <1>3, Messages DEF VizInv, EventsAreMoves, isMove
<1>5. e.type \in {"transition", "guard"} /\ e.flow \in Flow /\ e.from \in State /\ e.to \in State
  BY <1>4 DEF Event
<1>6. /\ view' \in View
      /\ view'.events = Append(view.events, e)
      /\ \A f \in Flow : moves(e, f) =>
           view'.shown[f] = e.to /\ view'.transit[f] = [from |-> e.from, to |-> e.to, age |-> 0]
      /\ \A f \in Flow : ~moves(e, f) =>
           view'.shown[f] = view.shown[f] /\ view'.transit[f] = view.transit[f]
      /\ \A m \in Moves :
           view'.counts[m] = IF e.type = "transition" /\ <<e.from, e.to>> = m
                             THEN view.counts[m] + 1 ELSE view.counts[m]
  BY <1>2, <1>4, OnEvent
<1>7. /\ idle' \in [Flow -> Nat]
      /\ \A f \in Flow : ~moves(e, f) => idle'[f] = idle[f]
  BY <1>2, <1>5 DEF moves
<1>8. /\ \A f \in Flow : comesIn(channel', f) => comesIn(channel, f)
      /\ \A f \in Flow : comesIn(channel, f) => comesIn(channel', f) \/ moves(e, f)
      /\ \A f \in Flow : moves(e, f) => comesIn(channel, f)
  BY <1>1, ComesInTail
<1>9. PICK k \in 0 .. 2 : shape(k) /\ awaited(k) /\ (phase = "open" => inStep(k))
  BY <1>1 DEF VizInv, ChannelFollowsTheLog
<1>10. k = 0 /\ shape(0) /\ shape(0)'
  <2>1. k = 0
    BY <1>1, <1>9, ShapeOfTail
  <2>. QED
    BY <1>1, <1>9, <2>1, ShapeOfTail
<1>11. ASSUME phase = "open", NEW f \in Flow, moves(e, f), ~comesIn(channel', f)
       PROVE  flowStates[f] = e.to
  <2>1. inStep(0)
    BY <1>9, <1>10, <1>11
  <2>. QED
    BY <1>1, <1>10, <1>11, <2>1, LastToCome
<1>12. 1 \in pending(channel, <<e.from, e.to>>) \/ e.type # "transition"
  BY <1>3 DEF pending
<1>. HIDE DEF e
<1>13. VizTypes'
  BY <1>1, <1>2, <1>6, <1>7 DEF VizTypes
<1>14. SeenFlowsExist'
  <2>. SUFFICES ASSUME NEW f \in Flow \ gone, comesIn(channel', f) \/ idle'[f] <= TerminalStale
                PROVE  flowStates[f] # None
    BY <1>1 DEF SeenFlowsExist
  <2>1. comesIn(channel, f) \/ idle[f] <= TerminalStale
    BY <1>7, <1>8
  <2>. QED
    BY <2>1 DEF VizInv, SeenFlowsExist
<1>15. CountsAreTaken'
  <2>. SUFFICES ASSUME NEW m \in Moves
                PROVE  view'.counts[m] + Cardinality(pending(channel', m)) <= taken[m]
    BY <1>1 DEF CountsAreTaken
  <2>1. view.counts[m] + Cardinality(pending(channel, m)) <= taken[m]
    BY DEF VizInv, CountsAreTaken
  <2>2. /\ Cardinality(pending(channel', m)) <= Cardinality(pending(channel, m))
        /\ 1 \in pending(channel, m) =>
             Cardinality(pending(channel', m)) + 1 <= Cardinality(pending(channel, m))
    BY <1>1, PendingTail
  <2>3. /\ Cardinality(pending(channel', m)) \in Nat /\ Cardinality(pending(channel, m)) \in Nat
        /\ view.counts[m] \in Nat /\ taken[m] \in Nat
    BY <1>1, <1>2, PendingFinite DEF VizTypes, View
  <2>4. CASE e.type = "transition" /\ <<e.from, e.to>> = m
    <3>1. 1 \in pending(channel, m) /\ view'.counts[m] = view.counts[m] + 1
      BY <1>6, <1>12, <2>4
    <3>. QED
      BY <2>1, <2>2, <2>3, <3>1
  <2>5. CASE ~(e.type = "transition" /\ <<e.from, e.to>> = m)
    <3>1. view'.counts[m] = view.counts[m]
      BY <1>6, <2>5
    <3>. QED
      BY <2>1, <2>2, <2>3, <3>1
  <2>. QED
    BY <2>4, <2>5
<1>16. AnimationsEnd'
  <2>. SUFFICES ASSUME NEW f \in Flow, view'.transit[f] # NoTransit
                PROVE  /\ view'.shown[f] # None => view'.shown[f] = view'.transit[f].to
                       /\ view'.transit[f].age < TransitDuration
    BY <1>1 DEF AnimationsEnd, moving
  <2>1. CASE moves(e, f)
    <3>1. view'.transit[f].to = e.to /\ view'.transit[f].age = 0 /\ view'.shown[f] = e.to
      BY <1>6, <2>1
    <3>. QED
      BY <3>1, VizAssumption
  <2>2. CASE ~moves(e, f)
    <3>1. view'.shown[f] = view.shown[f] /\ view'.transit[f] = view.transit[f] /\ f \in moving
      BY <1>6, <2>2 DEF moving
    <3>. QED
      BY <3>1 DEF VizInv, AnimationsEnd
  <2>. QED
    BY <2>1, <2>2
<1>17. ActiveFlowsAreShown'
  <2>. SUFFICES ASSUME ~replayed, NEW f \in Flow \ gone, idle'[f] <= TerminalStale
                PROVE  view'.shown[f] # None
    BY <1>1 DEF ActiveFlowsAreShown
  <2>1. CASE moves(e, f)
    BY <1>5, <1>6, <2>1, VizAssumption
  <2>2. CASE ~moves(e, f)
    BY <1>6, <1>7, <2>2 DEF VizInv, ActiveFlowsAreShown
  <2>. QED
    BY <2>1, <2>2
<1>18. ChannelFollowsTheLog'
  <2>1. awaited(0)'
    BY DEF awaited
  <2>2. ASSUME phase = "open" PROVE inStep(0)'
    <3>1. inStep(0)
      BY <1>9, <1>10, <2>2
    <3>2. /\ Len(channel) <= Len(log)
          /\ \A j \in DOMAIN channel : j > 0 => channel[j].event = log[Len(log) - Len(channel) + j]
          /\ endsLogAt(view.events, Len(log) - Len(channel))
      BY <1>2, <1>3, <3>1 DEF inStep
    <3>3. ASSUME NEW j \in DOMAIN channel'
          PROVE  channel'[j].event = log[Len(log) - Len(channel') + j]
      <4>1. j + 1 \in DOMAIN channel /\ j + 1 > 0 /\ channel'[j] = channel[j + 1]
        BY <1>3
      <4>2. channel[j + 1].event = log[Len(log) - Len(channel) + (j + 1)]
        BY <3>2, <4>1
      <4>3. Len(log) - Len(channel) + (j + 1) = Len(log) - Len(channel') + j
        BY <1>2, <1>3
      <4>. QED
        BY <4>1, <4>2, <4>3
    <3>4. endsLogAt(view'.events, Len(log) - Len(channel'))
      <4>. DEFINE s == view.events
                  n == Len(log) - Len(channel)
      <4>1. s \in Seq(Event) /\ Len(s) \in Nat /\ DOMAIN s = 1 .. Len(s)
        BY <1>2, ViewFields
      <4>2. n \in Nat /\ Len(log) - Len(channel') = n + 1
        BY <1>2, <1>3, <3>2
      <4>3. Len(s) <= n /\ \A i \in DOMAIN s : s[i] = log[n - Len(s) + i]
        BY <3>2 DEF endsLogAt
      <4>4. log[n + 1] = e
        BY <1>3, <3>2 DEF e
      <4>. DEFINE t == Append(s, e)
      <4>5. /\ Len(t) = Len(s) + 1 /\ t[Len(s) + 1] = e
            /\ \A i \in DOMAIN t : i = Len(s) + 1 \/ (i \in DOMAIN s /\ i \in Nat /\ t[i] = s[i])
        BY <4>1
      <4>. HIDE DEF s, n, t
      <4>6. ASSUME NEW i \in DOMAIN t PROVE t[i] = log[(n + 1) - Len(t) + i]
        <5>1. CASE i = Len(s) + 1
          <6>1. (n + 1) - Len(t) + i = n + 1
            BY <4>1, <4>2, <4>5, <5>1
          <6>. QED
            BY <4>4, <4>5, <5>1, <6>1
        <5>2. CASE i \in DOMAIN s /\ i \in Nat /\ t[i] = s[i]
          <6>1. (n + 1) - Len(t) + i = n - Len(s) + i
            BY <4>1, <4>2, <4>5, <5>2
          <6>. QED
            BY <4>3, <5>2, <6>1
        <5>. QED
          BY <4>5, <5>1, <5>2
      <4>7. endsLogAt(t, n + 1)
        BY <4>1, <4>2, <4>3, <4>5, <4>6 DEF endsLogAt
      <4>. QED
        BY <1>6, <4>2, <4>7 DEF s, t
    <3>5. endsLogAt(view.events, Len(log) - Len(channel))'
      BY <1>1, <3>4 DEF endsLogAt
    <3>6. ASSUME ~replayed, NEW f \in Flow
          PROVE  comesIn(channel', f) \/ view'.shown[f] = None \/ view'.shown[f] = flowStates[f]
      <4>1. CASE moves(e, f)
        BY <1>6, <1>11, <2>2, <4>1 DEF e
      <4>2. CASE ~moves(e, f)
        BY <1>6, <1>8, <3>1, <3>6, <4>2 DEF inStep
      <4>. QED
        BY <4>1, <4>2
    <3>7. 0 <= Len(channel') /\ Len(channel') - 0 <= Len(log')
      BY <1>1, <1>2, <1>3, <3>2
    <3>8. \A j \in DOMAIN channel' : j > 0 => channel'[j].event = log'[Len(log') - Len(channel') + j]
      BY <1>1, <3>3
    <3>. QED
      BY <1>1, <3>5, <3>6, <3>7, <3>8 DEF inStep
  <2>. QED
    BY <1>1, <1>10, <2>1, <2>2 DEF ChannelFollowsTheLog
<1>. QED
  BY <1>1, <1>13, <1>14, <1>15, <1>16, <1>17, <1>18 DEF VizInv

LEMMA DeliverKeeps == VizInv /\ Deliver => VizInv'
<1>. SUFFICES ASSUME VizInv, Deliver PROVE VizInv'
  OBVIOUS
<1>1. CASE Head(channel).type = "init" /\ view' = [view EXCEPT !.topology = TRUE] /\ UNCHANGED <<idle, replayed>>
  BY <1>1, InitHandled
<1>2. CASE /\ Head(channel).type = "snapshot" /\ view' = onSnapshot(view, Head(channel))
           /\ replayed' = FALSE /\ UNCHANGED idle
  BY <1>2, SnapshotHandled
<1>3. CASE /\ Head(channel).type = "event" /\ view' = onEvent(view, Head(channel).event)
           /\ idle' = IF Head(channel).event.type = "transition"
                      THEN [idle EXCEPT ![Head(channel).event.flow] = 0] ELSE idle
           /\ UNCHANGED replayed
  BY <1>3, EventHandled
<1>. QED
  BY <1>1, <1>2, <1>3 DEF Deliver

-----------------------------------------------------------------------------
LEMMA InitViz == Init => VizInv
<1>. SUFFICES ASSUME Init PROVE VizInv
  OBVIOUS
<1>1. /\ log = <<>> /\ flowStates = [f \in Flow |-> None] /\ gone = {} /\ taken = [m \in Moves |-> 0]
      /\ phase = "connecting" /\ wait = 0 /\ channel = <<>> /\ view = emptyView
      /\ idle = [f \in Flow |-> Stale + 1] /\ position = -1 /\ playing = FALSE /\ replayed = FALSE
  BY DEF Init
<1>2. emptyView \in View /\ (\A f \in Flow : emptyView.transit[f] = NoTransit)
      /\ \A m \in Moves : emptyView.counts[m] = 0
  <2>. DEFINE t == [f \in Flow |-> NoTransit]
              s == [f \in Flow |-> None]
              c == [m \in Moves |-> 0]
  <2>1. t \in [Flow -> TransitRecord] /\ \A f \in Flow : t[f] = NoTransit
    BY DEF NoTransit, TransitRecord
  <2>2. s \in [Flow -> State \cup {None}]
    OBVIOUS
  <2>3. c \in [Moves -> Nat] /\ \A m \in Moves : c[m] = 0
    OBVIOUS
  <2>4. <<>> \in Seq(Event)
    OBVIOUS
  <2>5. emptyView = [topology |-> FALSE, events |-> <<>>, counts |-> c, shown |-> s,
                     transit |-> t]
    BY DEF emptyView
  <2>. HIDE DEF t, s, c
  <2>. QED
    BY <2>1, <2>2, <2>3, <2>4, <2>5 DEF View
<1>3. -1 \in Int /\ Stale + 1 \in Nat /\ ~(Stale + 1 <= TerminalStale)
  BY VizAssumption
<1>4. VizTypes
  <2>1. log \in Seq(Event) /\ channel \in Seq(Message) /\ flowStates \in FlowStates
    BY <1>1 DEF FlowStates
  <2>2. taken \in [Moves -> Nat] /\ idle \in [Flow -> Nat]
    BY <1>1, <1>3
  <2>. QED
    BY <1>1, <1>2, <1>3, <2>1, <2>2 DEF VizTypes
<1>5. DOMAIN log = {} /\ DOMAIN channel = {}
  BY <1>1
<1>6. LogKnowsStates
  BY <1>1, <1>5 DEF LogKnowsStates, endsAt
<1>7. NothingBetween /\ ChannelFollowsTheLog
  BY <1>1 DEF NothingBetween, ChannelFollowsTheLog
<1>8. \A f \in Flow : ~comesIn(channel, f) /\ ~(idle[f] <= TerminalStale)
  BY <1>1, <1>3, <1>5 DEF comesIn
<1>9. SeenFlowsExist /\ ActiveFlowsAreShown
  BY <1>8 DEF SeenFlowsExist, ActiveFlowsAreShown
<1>10. EventsAreMoves
  BY <1>5 DEF EventsAreMoves
<1>11. CountsAreTaken
  <2>1. \A m \in Moves : pending(channel, m) = {}
    BY <1>5 DEF pending
  <2>2. \A m \in Moves : Cardinality(pending(channel, m)) = 0
    BY <2>1, FS_EmptySet
  <2>. QED
    BY <1>1, <1>2, <2>2 DEF CountsAreTaken
<1>12. AnimationsEnd
  BY <1>1, <1>2 DEF AnimationsEnd, moving
<1>. QED
  BY <1>4, <1>6, <1>7, <1>9, <1>10, <1>11, <1>12 DEF VizInv

LEMMA StutterKeeps == VizInv /\ UNCHANGED vars => VizInv'
<1>. SUFFICES ASSUME VizInv, UNCHANGED vars PROVE VizInv'
  OBVIOUS
<1>1. UNCHANGED <<log, flowStates, gone, taken, phase, wait, channel, view, idle, position, playing, replayed>>
  BY DEF vars, server, socket, controls
<1>2. VizTypes' /\ LogKnowsStates' /\ NothingBetween'
  BY <1>1 DEF VizInv, VizTypes, LogKnowsStates, NothingBetween
<1>3. ChannelFollowsTheLog'
  BY <1>1 DEF VizInv, ChannelFollowsTheLog, shape, awaited, snapshotFits, inStep, endsLogAt
<1>4. SeenFlowsExist' /\ EventsAreMoves' /\ CountsAreTaken'
  BY <1>1 DEF VizInv, SeenFlowsExist, EventsAreMoves, isMove, CountsAreTaken
<1>5. AnimationsEnd' /\ ActiveFlowsAreShown'
  BY <1>1 DEF VizInv, AnimationsEnd, moving, ActiveFlowsAreShown
<1>. QED
  BY <1>2, <1>3, <1>4, <1>5 DEF VizInv

LEMMA NextKeeps == VizInv /\ [Next]_vars => VizInv'
<1>. SUFFICES ASSUME VizInv, [Next]_vars PROVE VizInv'
  OBVIOUS
<1>1. CASE Transition \/ Guard \/ Restart
  BY <1>1, TransitionKeeps, GuardKeeps, RestartKeeps
<1>2. CASE Connect \/ Break \/ Close \/ Reconnect
  BY <1>2, ConnectKeeps, BreakKeeps, CloseKeeps, ReconnectKeeps
<1>3. CASE Deliver \/ Tick
  BY <1>3, DeliverKeeps, TickKeeps
<1>4. CASE Play \/ Advance \/ Seek \/ Pause \/ GoLive
  BY <1>4, ControlsKeep
<1>5. CASE UNCHANGED vars
  BY <1>5, StutterKeeps
<1>. QED
  BY <1>1, <1>2, <1>3, <1>4, <1>5 DEF Next

LEMMA VizInvariant == Spec => []VizInv
<1>1. Init => VizInv
  BY InitViz
<1>2. VizInv /\ [Next]_vars => VizInv'
  BY NextKeeps
<1>. QED
  BY <1>1, <1>2, PTL DEF Spec

-----------------------------------------------------------------------------
(* Once the snapshot is handled, only events are under way.                *)
LEMMA HandshakeIsOver ==
    ASSUME VizInv, Synchronised
    PROVE  inStep(0) /\ phase = "open" /\ channel \in Seq(Message)
<1>1. phase = "open" /\ channel \in Seq(Message)
  BY DEF VizInv, VizTypes, Synchronised
<1>2. PICK k \in 0 .. 2 : shape(k) /\ inStep(k)
  BY <1>1 DEF VizInv, ChannelFollowsTheLog
<1>3. k = 0
  <2>. SUFFICES ASSUME k > 0 PROVE FALSE
    OBVIOUS
  <2>1. k <= Len(channel)
    BY <1>2 DEF inStep
  <2>2. k \in DOMAIN channel
    BY <1>1, <2>1
  <2>3. channel[k].type = "snapshot"
    BY <1>2, <2>2 DEF shape
  <2>. QED
    BY <2>2, <2>3 DEF Synchronised
<1>. QED
  BY <1>1, <1>2, <1>3

(* VizSink and useVizSocket: the server broadcasts each event once, and a  *)
(* new client gets the end of the log as its snapshot before it is one of  *)
(* the clients.  So whatever broke, restarted or happened meanwhile, a     *)
(* connected page holds, with the events under way, exactly the end of the *)
(* log; and no edge counts more moves than there were.                     *)
THEOREM NoGapNoDuplicate == Spec => []EventsFollowTheLog
<1>1. VizInv => EventsFollowTheLog
  <2>. SUFFICES ASSUME VizInv PROVE EventsFollowTheLog
    OBVIOUS
  <2>1. VizTypes
    BY DEF VizInv
  <2>2. ASSUME NEW m \in Moves PROVE view.counts[m] <= taken[m]
    <3>1. view.counts[m] + Cardinality(pending(channel, m)) <= taken[m]
      BY DEF VizInv, CountsAreTaken
    <3>2. Cardinality(pending(channel, m)) \in Nat
      BY <2>1, PendingFinite DEF VizTypes
    <3>3. view.counts[m] \in Nat /\ taken[m] \in Nat
      BY <2>1 DEF VizTypes, View
    <3>. QED
      BY <3>1, <3>2, <3>3
  <2>3. ASSUME Synchronised
        PROVE  IsSuffix(view.events \o [i \in DOMAIN channel |-> channel[i].event], log)
    <3>. DEFINE coming == [i \in DOMAIN channel |-> channel[i].event]
                held == view.events
                s == held \o coming
                n == Len(log) - Len(channel)
    <3>1. inStep(0) /\ phase = "open" /\ channel \in Seq(Message)
      BY <2>3, HandshakeIsOver
    <3>2. /\ log \in Seq(Event) /\ Len(log) \in Nat /\ held \in Seq(Event) /\ Len(held) \in Nat
          /\ DOMAIN held = 1 .. Len(held)
      BY <2>1, ViewFields DEF VizTypes
    <3>3. \A i \in DOMAIN channel : channel[i].event \in Event
      <4>1. \A i \in DOMAIN channel : channel[i] \in Message /\ channel[i].type = "event"
        BY <2>3, <3>1 DEF Synchronised
      <4>. QED
        BY <4>1, Messages
    <3>4. /\ Len(channel) \in Nat /\ DOMAIN channel = 1 .. Len(channel)
          /\ coming \in Seq(Event) /\ Len(coming) = Len(channel)
      BY <3>1, <3>3
    <3>5. n \in Nat /\ \A j \in 1 .. Len(channel) : channel[j].event = log[n + j]
      <4>1. Len(channel) - 0 <= Len(log)
            /\ \A j \in DOMAIN channel : j > 0 => channel[j].event = log[Len(log) - Len(channel) + j]
        BY <3>1 DEF inStep
      <4>. QED
        BY <3>2, <3>4, <4>1
    <3>6. Len(held) <= n /\ \A i \in 1 .. Len(held) : held[i] = log[n - Len(held) + i]
      <4>1. endsLogAt(held, n)
        BY <3>1 DEF inStep
      <4>. HIDE DEF held, n
      <4>. QED
        BY <3>2, <4>1 DEF endsLogAt
    <3>7. \A j \in 1 .. Len(channel) : coming[j] = log[n + j]
      BY <3>4, <3>5
    <3>8. n + Len(channel) = Len(log)
      BY <3>2, <3>4
    <3>. HIDE DEF coming, held, n
    <3>9. /\ s \in Seq(Event) /\ Len(s) = Len(held) + Len(channel)
          /\ \A i \in 1 .. Len(s) : s[i] = IF i <= Len(held) THEN held[i] ELSE coming[i - Len(held)]
      BY <3>2, <3>4
    <3>. HIDE DEF s
    <3>10. Len(s) <= Len(log)
      BY <3>2, <3>4, <3>5, <3>6, <3>8, <3>9
    <3>11. ASSUME NEW i \in DOMAIN s PROVE s[i] = log[Len(log) - Len(s) + i]
      <4>1. i \in 1 .. Len(s) /\ i \in Nat
        BY <3>9
      <4>2. Len(log) - Len(s) + i = n - Len(held) + i
        <5>1. Len(s) = Len(held) + Len(channel)
          BY <3>9
        <5>2. /\ Len(log) \in Nat /\ Len(held) \in Nat /\ Len(channel) \in Nat /\ n \in Nat
              /\ n + Len(channel) = Len(log)
          BY <3>2, <3>4, <3>5, <3>8
        <5>. QED
          BY <4>1, <5>1, <5>2
      <4>3. CASE i <= Len(held)
        <5>1. i \in 1 .. Len(held)
          BY <3>2, <4>1, <4>3
        <5>. QED
          BY <3>6, <3>9, <4>1, <4>2, <4>3, <5>1
      <4>4. CASE ~(i <= Len(held))
        <5>1. i - Len(held) \in 1 .. Len(channel) /\ n + (i - Len(held)) = n - Len(held) + i
          BY <3>2, <3>4, <3>5, <3>9, <4>1, <4>4
        <5>. QED
          BY <3>7, <3>9, <4>1, <4>2, <4>4, <5>1
      <4>. QED
        BY <4>3, <4>4
    <3>12. IsSuffix(s, log)
      BY <3>2, <3>9, <3>10, <3>11, SuffixByPosition
    <3>. QED
      BY <3>12 DEF s, coming, held
  <2>. QED
    BY <2>2, <2>3 DEF EventsFollowTheLog
<1>. QED
  BY <1>1, VizInvariant, PTL

(* useVizSocket's reducer: when nothing is under way, every flow the page  *)
(* shows is where the server has it, however much was missed, unless a     *)
(* replay rewrote the view; and a move under animation ends where its flow *)
(* is shown, although a snapshot moves flows and leaves animations alone.  *)
THEOREM PageCatchesUp == Spec => []CaughtUp
<1>1. VizInv => CaughtUp
  <2>. SUFFICES ASSUME VizInv PROVE CaughtUp
    OBVIOUS
  <2>1. ASSUME Synchronised, channel = <<>>, ~replayed, NEW f \in Flow, view.shown[f] # None
        PROVE  view.shown[f] = flowStates[f]
    <3>1. inStep(0)
      BY <2>1, HandshakeIsOver
    <3>2. ~comesIn(channel, f)
      BY <2>1 DEF comesIn
    <3>. QED
      BY <2>1, <3>1, <3>2 DEF inStep
  <2>2. \A f \in moving : view.shown[f] # None => view.shown[f] = view.transit[f].to
    BY DEF VizInv, AnimationsEnd
  <2>. QED
    BY <2>1, <2>2 DEF CaughtUp
<1>. QED
  BY <1>1, VizInvariant, PTL

(* The stale-flow timer of useVizSocket: it never takes away a flow that   *)
(* the page saw move within TerminalStale, across reconnections too.       *)
THEOREM FreshFlowsStay == Spec => []ActiveFlowsAreShown
<1>1. VizInv => ActiveFlowsAreShown
  BY DEF VizInv
<1>. QED
  BY <1>1, VizInvariant, PTL
=============================================================================
