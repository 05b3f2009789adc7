------------------------------ MODULE VizSync ------------------------------
(***************************************************************************)
(* The visualiser: VizSink and its web socket server (tools/viz-server),   *)
(* and one page that follows them (tools/viz: useVizSocket, Replay, and    *)
(* what FlowBoard and TraceLayer draw).                                    *)
(*                                                                         *)
(* The server keeps a log of events and the state of every flow.  A client *)
(* that connects gets a snapshot, the states and the end of the log, and   *)
(* then every new event, over a channel that keeps its order and may break *)
(* at any point.  The page folds all that into a view, forgets flows that  *)
(* were idle for long, and can go back in time over the events it holds.   *)
(*                                                                         *)
(* Time is counted in the units of Tick and kept as ages.  Heat of edges,  *)
(* metrics, coordinates and the topology's edges are left out.             *)
(***************************************************************************)
EXTENDS Integers, Sequences, SequencesExt, FiniteSets

CONSTANTS
    Flow, State, None,
    Initial,         \* the initial state of every flow
    Terminal,        \* the terminal states
    Moves,           \* the pairs <<from, to>> a flow can take
    Window,          \* how much of the log a snapshot carries (500)
    TransitDuration, \* how long a move is animated (600 ms)
    ReconnectDelay,  \* the pause before a new connection (2 s)
    TerminalStale,   \* idle time after which an ended flow is dropped (3 s)
    Stale,           \* the same of any other flow (15 s)
    MaxEvents        \* bound: the events of one run of the server

ASSUME VizAssumption ==
    /\ None \notin State
    /\ Initial \in State /\ Terminal \subseteq State
    /\ Moves \subseteq State \X State
    /\ Window \in Nat \ {0} /\ MaxEvents \in Nat
    /\ TransitDuration \in Nat \ {0}
    /\ ReconnectDelay \in Nat /\ TerminalStale \in Nat /\ Stale \in Nat
    /\ TransitDuration <= ReconnectDelay
    /\ TerminalStale <= Stale

VARIABLES
    log,         \* server: the events since its start
    flowStates,  \* server: flow -> its state, None before its first event
    gone,        \* flows that a restart of the server has lost
    taken,       \* history: move -> how often it was emitted, ever
    phase,       \* the page's socket: connecting, open, broken, waiting
    wait,        \* how long the reconnection timer has still to run
    channel,     \* messages under way to the page
    view,        \* page: the state of the reducer
    idle,        \* page: flow -> time since flowLastActive, at most Stale + 1
    position,    \* page: where the replay stands, -1 in live mode
    playing,     \* page: the replay advances by itself
    replayed     \* history: a replay has rewritten the view since a snapshot

server == <<log, flowStates, gone, taken>>
socket == <<phase, wait, channel>>
controls == <<position, playing>>
vars == <<server, socket, view, idle, controls, replayed>>

Event == [seq: Nat, type: {"transition", "guard"}, flow: Flow, from: State, to: State]

FlowStates == [Flow -> State \cup {None}]

(* A message is the topology, a snapshot or an event.                      *)
InitMessage == [type |-> "init"]
SnapshotOf(states, events) == [type |-> "snapshot", flows |-> states, events |-> events]
EventMessage(e) == [type |-> "event", event |-> e]

-----------------------------------------------------------------------------
(* The server: VizSink.                                                    *)

(* The last Window events: log.slice(-500).                                *)
slice(s) == SubSeq(s, IF Len(s) > Window THEN Len(s) - Window + 1 ELSE 1, Len(s))

broadcast(msg) == IF phase = "open" THEN Append(channel, msg) ELSE channel

emit(e) ==
    /\ log' = Append(log, e)
    /\ flowStates' = IF e.type = "transition" THEN [flowStates EXCEPT ![e.flow] = e.to]
                                              ELSE flowStates
    /\ channel' = broadcast(EventMessage(e))

stateOf(f) == IF flowStates[f] = None THEN Initial ELSE flowStates[f]

(* The engine's loggers report a move or a rejected guard of a flow.       *)
Transition ==
    /\ Len(log) < MaxEvents
    /\ \E f \in Flow \ gone, m \in Moves :
         /\ m[1] = stateOf(f)
         /\ emit([seq |-> Len(log), type |-> "transition", flow |-> f, from |-> m[1], to |-> m[2]])
         /\ taken' = [taken EXCEPT ![m] = @ + 1]
    /\ UNCHANGED <<gone, phase, wait, view, idle, controls, replayed>>

Guard ==
    /\ Len(log) < MaxEvents
    /\ \E f \in Flow \ gone :
         /\ stateOf(f) \notin Terminal
         /\ emit([seq |-> Len(log), type |-> "guard", flow |-> f,
                  from |-> stateOf(f), to |-> stateOf(f)])
    /\ UNCHANGED <<gone, taken, phase, wait, view, idle, controls, replayed>>

(* The server dies with all it knew, its flows included, and comes back.   *)
Restart ==
    /\ \E f \in Flow : flowStates[f] # None
    /\ gone' = gone \cup {f \in Flow : flowStates[f] # None}
    /\ log' = <<>>
    /\ flowStates' = [f \in Flow |-> None]
    /\ phase' = IF phase = "open" THEN "broken" ELSE phase
    /\ \E n \in 0..Len(channel) : channel' = SubSeq(channel, 1, n)
    /\ UNCHANGED <<taken, wait, view, idle, controls, replayed>>

-----------------------------------------------------------------------------
(* The connection.                                                         *)

(* Mistaken: the snapshot is the log as it was before the last event.      *)
addClientLate == SnapshotOf(flowStates, slice(SubSeq(log, 1, Len(log) - 1)))

addClient == SnapshotOf(flowStates, slice(log))

(* The server's connection handler: the topology, then the snapshot; from  *)
(* then on the socket is one of the clients that emit reaches.             *)
Connect ==
    /\ phase = "connecting"
    /\ phase' = "open"
    /\ channel' = <<InitMessage, addClient>>
    /\ UNCHANGED <<server, wait, view, idle, controls, replayed>>

(* The connection ends: what was under way may or may not arrive.          *)
Break ==
    /\ phase = "open"
    /\ phase' = "broken"
    /\ \E n \in 0..Len(channel) : channel' = SubSeq(channel, 1, n)
    /\ UNCHANGED <<server, wait, view, idle, controls, replayed>>

onClose == wait' = ReconnectDelay

(* Mistaken: onerror instead of onclose, only attempts are tried again.    *)
CloseOfAttempts ==
    /\ phase = "connecting"
    /\ phase' = "waiting"
    /\ onClose
    /\ UNCHANGED <<server, channel, view, idle, controls, replayed>>

(* onclose, after an open connection or an attempt that failed (onerror).  *)
Close ==
    /\ \/ phase = "broken" /\ channel = <<>>
       \/ phase = "connecting"
    /\ phase' = "waiting"
    /\ onClose
    /\ UNCHANGED <<server, channel, view, idle, controls, replayed>>

Reconnect ==
    /\ phase = "waiting" /\ wait = 0
    /\ phase' = "connecting"
    /\ UNCHANGED <<server, wait, channel, view, idle, controls, replayed>>

-----------------------------------------------------------------------------
(* The page: the reducer of useVizSocket.  Of a flow the view holds the    *)
(* state shown and its move under animation; its owner is left out.        *)

NoTransit == [from |-> None, to |-> None, age |-> 0]

emptyView ==
    [topology |-> FALSE, events |-> <<>>, counts |-> [m \in Moves |-> 0],
     shown |-> [f \in Flow |-> None], transit |-> [f \in Flow |-> NoTransit]]

(* applyEvent, over a sequence of events.                                  *)
positionsAfter(start, events) ==
    [f \in Flow |->
        LET mine == {i \in DOMAIN events : events[i].flow = f /\ events[i].type = "transition"}
        IN  IF mine = {} THEN start[f]
            ELSE events[CHOOSE i \in mine : \A j \in mine : j <= i].to]

onEvent(v, e) ==
    LET w == [v EXCEPT !.events = Append(@, e),
                       !.shown = positionsAfter(@, <<e>>)]
    IN  IF e.type # "transition" THEN w
        ELSE [w EXCEPT !.transit[e.flow] = [from |-> e.from, to |-> e.to, age |-> 0],
                       !.counts[<<e.from, e.to>>] = @ + 1]

(* Mistaken: the states of the snapshot are left aside.                    *)
onSnapshotMerges(v, m) ==
    [v EXCEPT !.events = m.events,
              !.shown = positionsAfter(@, m.events)]

(* Transits and counts stay as they are.                                   *)
onSnapshot(v, m) ==
    [v EXCEPT !.events = m.events,
              !.shown = positionsAfter(m.flows, m.events)]

onReplay(v, p) ==
    LET past == SubSeq(v.events, 1, IF p + 1 < Len(v.events) THEN p + 1 ELSE Len(v.events))
    IN  [v EXCEPT !.shown = positionsAfter([f \in Flow |-> None], past),
                  !.transit = [f \in Flow |-> NoTransit]]

(* Mistaken: every flow gets the time of an ended one.                     *)
staleFlowsImpatient(v, since) == {f \in Flow : since[f] >= TerminalStale}

(* flowLastActive ?? 0: a flow without an event of its own is long idle.   *)
staleFlows(v, since) ==
    {f \in Flow : IF v.topology /\ v.shown[f] \in Terminal THEN since[f] > TerminalStale
                                                           ELSE since[f] > Stale}

onTick(v, since) ==
    LET older(t) == IF t # NoTransit /\ t.age + 1 < TransitDuration
                    THEN [t EXCEPT !.age = @ + 1] ELSE NoTransit
    IN  [v EXCEPT !.transit = [f \in Flow |-> older(@[f])],
                  !.shown = [f \in Flow |-> IF f \in staleFlows(v, since) THEN None ELSE @[f]]]

(* A message of the server is handled.                                     *)
Deliver ==
    /\ phase \in {"open", "broken"} /\ channel # <<>>
    /\ channel' = Tail(channel)
    /\ LET m == Head(channel)
       IN  \/ /\ m.type = "init"
              /\ view' = [view EXCEPT !.topology = TRUE]
              /\ UNCHANGED <<idle, replayed>>
           \/ /\ m.type = "snapshot"
              /\ view' = onSnapshot(view, m)
              /\ replayed' = FALSE
              /\ UNCHANGED idle
           \/ /\ m.type = "event"
              /\ view' = onEvent(view, m.event)
              /\ idle' = IF m.event.type = "transition" THEN [idle EXCEPT ![m.event.flow] = 0] ELSE idle
              /\ UNCHANGED replayed
    /\ UNCHANGED <<server, phase, wait, controls>>

(* Time passes, and the page's interval timer fires at least once.         *)
Tick ==
    /\ idle' = [f \in Flow |-> IF idle[f] <= Stale THEN idle[f] + 1 ELSE idle[f]]
    /\ view' = onTick(view, idle')
    /\ wait' = IF wait > 0 THEN wait - 1 ELSE 0
    /\ UNCHANGED <<server, phase, channel, controls, replayed>>

-----------------------------------------------------------------------------
(* The replay controls.  A position of its own goes to the reducer.        *)

eventCount == Len(view.events)

moveTo(p) ==
    /\ position' = p
    /\ IF p >= 0 /\ p # position
       THEN view' = onReplay(view, p) /\ replayed' = TRUE
       ELSE UNCHANGED <<view, replayed>>

Play ==
    /\ ~playing
    /\ playing' = TRUE
    /\ moveTo(IF position = -1 THEN 0 ELSE position)
    /\ UNCHANGED <<server, socket, idle>>

(* The timer of the replay: at the end of the events it stops.             *)
Advance ==
    /\ playing
    /\ IF position + 1 >= eventCount
       THEN moveTo(eventCount - 1) /\ playing' = FALSE
       ELSE moveTo(position + 1) /\ UNCHANGED playing
    /\ UNCHANGED <<server, socket, idle>>

(* The slider stops the replay; the two step buttons need it stopped.      *)
Seek ==
    /\ position # -1
    /\ playing' = FALSE
    /\ \/ \E p \in 0..(IF eventCount > 0 THEN eventCount - 1 ELSE 0) : moveTo(p)
       \/ ~playing /\ moveTo(IF position > 0 THEN position - 1 ELSE 0)
       \/ ~playing /\ moveTo(IF position + 1 < eventCount THEN position + 1 ELSE eventCount - 1)
    /\ UNCHANGED <<server, socket, idle>>

Pause ==
    /\ playing /\ position # -1
    /\ playing' = FALSE
    /\ UNCHANGED <<server, socket, view, idle, position, replayed>>

GoLive ==
    /\ position # -1
    /\ position' = -1
    /\ playing' = FALSE
    /\ UNCHANGED <<server, socket, view, idle, replayed>>

-----------------------------------------------------------------------------
Init ==
    /\ log = <<>>
    /\ flowStates = [f \in Flow |-> None]
    /\ gone = {}
    /\ taken = [m \in Moves |-> 0]
    /\ phase = "connecting"
    /\ wait = 0
    /\ channel = <<>>
    /\ view = emptyView
    /\ idle = [f \in Flow |-> Stale + 1]
    /\ position = -1
    /\ playing = FALSE
    /\ replayed = FALSE

Next ==
    \/ Transition \/ Guard \/ Restart
    \/ Connect \/ Break \/ Close \/ Reconnect \/ Deliver
    \/ Tick
    \/ Play \/ Advance \/ Seek \/ Pause \/ GoLive

Spec == Init /\ [][Next]_vars

(* Timers fire and what was sent arrives; an attempt to connect that can   *)
(* succeed again and again does so in the end.                             *)
FairSpec ==
    /\ Spec
    /\ WF_vars(Tick) /\ WF_vars(Deliver) /\ WF_vars(Reconnect)
    /\ WF_vars(phase = "broken" /\ Close) /\ SF_vars(Connect)

-----------------------------------------------------------------------------
(* What the page draws under way between two states.                       *)
moving == {f \in Flow : view.transit[f] # NoTransit}

(* The snapshot of this connection has been handled.                       *)
Synchronised == phase = "open" /\ \A i \in DOMAIN channel : channel[i].type = "event"

(* No gap, no duplicate: while the page is connected, the events it holds  *)
(* followed by those under way are the end of the server's log, across     *)
(* broken connections, restarts and events during the handshake; and the   *)
(* counts on the edges never exceed the moves there were, although the     *)
(* events of a snapshot reach the page a second time.                      *)
EventsFollowTheLog ==
    /\ Synchronised =>
         LET coming == [i \in DOMAIN channel |-> channel[i].event]
         IN  IsSuffix(view.events \o coming, log)
    /\ \A m \in Moves : view.counts[m] <= taken[m]

(* Catching up: with nothing under way, a flow the page shows is where the *)
(* server's record has it, whatever was missed and whatever the snapshot   *)
(* repeats, as long as no replay has rewritten the view.  (A move whose    *)
(* enter action throws is one the server is never told of.)  And a move    *)
(* under animation ends where its flow is shown: a snapshot moves flows    *)
(* without touching animations, and no animation lasts until then.         *)
CaughtUp ==
    /\ (Synchronised /\ channel = <<>> /\ ~replayed) =>
         \A f \in Flow : view.shown[f] # None => view.shown[f] = flowStates[f]
    /\ \A f \in moving : view.shown[f] # None => view.shown[f] = view.transit[f].to

(* A flow that the page has seen move within the last TerminalStale units  *)
(* is on it, unless the server has lost it or the user looks at the past.  *)
ActiveFlowsAreShown ==
    ~replayed => \A f \in Flow \ gone : idle[f] <= TerminalStale => view.shown[f] # None

(* A page whose connection breaks is connected again.                      *)
Reconnects == phase # "open" ~> phase = "open"
=============================================================================
