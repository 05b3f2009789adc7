----------------------------- MODULE PluginStack -----------------------------
(***************************************************************************)
(* The run-time plugins of ts-plugins around one engine: the store         *)
(* decorators that keep an audit log and a versioned event log, replay and *)
(* compensation over that log, the telemetry sink behind the engine's      *)
(* transition logger, and the idempotent rich-resume executor in front.    *)
(*                                                                         *)
(* The engine is cut down to what the plugins see of it: a call on a flow, *)
(* its awaits, where it records a transition and where an exception ends   *)
(* it.  FlowEngine has the whole of it.  A flow is one object that all     *)
(* calls and the store share.                                              *)
(***************************************************************************)
EXTENDS Naturals, Sequences, FiniteSets

CONSTANTS
    Flow, Command, Call,
    State, Initial, Terminal,
    AutoTarget,       \* state -> target of its auto transition, or None
    External,         \* state -> target of its external transition, or None
    Unguarded,        \* states whose external transition has no guard
    OnError,          \* state -> target of its error transition, or None
    MaxCompensations, \* bound on compensations
    None

(* What a call is answered, or the code of what it threw.                  *)
Status == {"TRANSITIONED", "ALREADY_COMPLETE", "REJECTED", "NO_APPLICABLE_TRANSITION",
           "EXCEPTION_ROUTED", "DUPLICATE", "FLOW_NOT_FOUND", "INVALID_TRANSITION"}

ASSUME MachineAssumption ==
    /\ Initial \in State \ Terminal /\ Terminal \subseteq State /\ Unguarded \subseteq State
    /\ None \notin State \cup Command \cup Flow \cup Status
    /\ AutoTarget \in [State -> State \cup {None}]
    /\ External \in [State -> State \cup {None}]
    /\ OnError \in [State -> State \cup {None}]
    /\ MaxCompensations \in Nat

VARIABLES
    auditInside, \* the audit plugin was registered before the event-log plugin
    stored,      \* flows the store holds
    at,          \* flow -> its state, None before it starts
    exit,        \* flow -> how it was completed, or None
    dirty,       \* flow -> its context holds a value JSON.stringify throws on
    log,         \* the plugins' logs and the event log's version counters
    seen,        \* <<flow, command>> pairs of the idempotency registry
    call         \* call -> how far the call has got

vars == <<auditInside, stored, at, exit, dirty, log, seen, call>>
flowVars == <<auditInside, stored, at, exit, dirty, log>>

Idle == [pc |-> "idle", flow |-> None, cmd |-> None, prev |-> None, state |-> None,
         backup |-> FALSE, moves |-> 0, status |-> None]

NoEvents == [audit |-> <<>>, events |-> <<>>, sink |-> <<>>, version |-> [f \in Flow |-> 0]]

Init ==
    /\ auditInside \in BOOLEAN
    /\ stored = {}
    /\ at = [f \in Flow |-> None]
    /\ exit = [f \in Flow |-> None]
    /\ dirty = [f \in Flow |-> FALSE]
    /\ log = NoEvents
    /\ seen = {}
    /\ call = [c \in Call |-> Idle]

-----------------------------------------------------------------------------
(* The decorators.  Each calls the one inside it first, and the event log  *)
(* bumps the version before it serialises the context: a value it cannot   *)
(* serialise costs a version, the event, and whatever wraps the event log. *)

nextVersion(l, f) == l.version[f] + 1

transitionEvent(l, f, from, to) ==
    [flow |-> f, version |-> nextVersion(l, f), type |-> "TRANSITION", from |-> from, to |-> to]

recordsTogether(l, f, from, to, bad) ==   \* Mistaken: both decorators record, or neither
    LET move == [flow |-> f, from |-> from, to |-> to]
    IN  IF bad THEN [l EXCEPT !.version[f] = nextVersion(l, f)]
        ELSE [l EXCEPT !.version[f] = nextVersion(l, f),
                       !.events = Append(@, transitionEvent(l, f, from, to)),
                       !.audit = Append(@, move), !.sink = Append(@, move)]

recordTransition(l, f, from, to, bad) ==
    LET move == [flow |-> f, from |-> from, to |-> to]
    IN  [l EXCEPT !.version[f] = nextVersion(l, f),
                  !.events = IF bad THEN @ ELSE Append(@, transitionEvent(l, f, from, to)),
                  !.audit = IF bad /\ ~auditInside THEN @ ELSE Append(@, move),
                  !.sink = IF bad THEN @ ELSE Append(@, move)]   \* logTransition comes after

appendUncounted(l, f) ==   \* Mistaken: the counter is read and not advanced
    [l EXCEPT !.events = Append(@, [flow |-> f, version |-> nextVersion(l, f),
                                    type |-> "COMPENSATION", from |-> None, to |-> "COMPENSATED"])]

appendCompensation(l, f) ==
    [l EXCEPT !.version[f] = nextVersion(l, f),
              !.events = Append(@, [flow |-> f, version |-> nextVersion(l, f),
                                    type |-> "COMPENSATION", from |-> None, to |-> "COMPENSATED"])]

eventsOf(l, f) == SelectSeq(l.events, LAMBDA e : e.flow = f)

stateAtAnyEvent(events, f, v) ==   \* Mistaken: compensations are taken for transitions
    LET upTo == {i \in DOMAIN events : events[i].flow = f /\ events[i].version <= v}
    IN  IF upTo = {} THEN None
        ELSE events[CHOOSE i \in upTo : \A j \in upTo : events[j].version <= events[i].version].to

(* ReplayService: the target of the transition with the highest version at *)
(* or below v.                                                             *)
stateAtVersion(events, f, v) ==
    LET upTo == {i \in DOMAIN events :
                   events[i].flow = f /\ events[i].type = "TRANSITION" /\ events[i].version <= v}
    IN  IF upTo = {} THEN None
        ELSE events[CHOOSE i \in upTo : \A j \in upTo : events[j].version <= events[i].version].to

(* ProjectionReplayService with the reducer that keeps the last target: it *)
(* folds in log order, so the last event that passes is the last one kept. *)
project(events, f, v) ==
    LET passing == {i \in DOMAIN events : events[i].flow = f /\ events[i].version <= v}
        kept == {i \in passing : events[i].type = "TRANSITION"}
    IN  IF kept = {} THEN None ELSE events[CHOOSE i \in kept : \A j \in kept : j <= i].to

-----------------------------------------------------------------------------
(* What a step of a call makes of its flow: where the flow is, how it ended, *)
(* the logs, whether an exception is on its way, the transitions recorded.   *)

Seen(k) == [at |-> at[k.flow], exit |-> exit[k.flow], log |-> log, threw |-> FALSE, moves |-> k.moves]

(* transitionTo, the entry action, recordTransition, in this order. *)
transitionTo(r, f, to, bad, enters) ==
    IF enters
    THEN [r EXCEPT !.at = to, !.log = recordTransition(@, f, r.at, to, bad),
                   !.threw = bad, !.moves = @ + 1]
    ELSE [r EXCEPT !.at = to, !.threw = TRUE]

handleError(r, f, from, bad) ==
    IF OnError[from] = None THEN [r EXCEPT !.exit = "TERMINAL_ERROR", !.threw = FALSE]
    ELSE LET m == transitionTo(r, f, OnError[from], bad, TRUE)
         IN  IF ~m.threw /\ m.at \in Terminal THEN [m EXCEPT !.exit = m.at] ELSE m

(* The end of a step of call c, so far k: it awaits, returns or throws. *)
Commit(c, k, r, isDirty, pc) ==
    /\ at' = [at EXCEPT ![k.flow] = r.at]
    /\ exit' = [exit EXCEPT ![k.flow] = r.exit]
    /\ log' = r.log
    /\ dirty' = [dirty EXCEPT ![k.flow] = isDirty]
    /\ stored' = IF pc = "returned" THEN stored \cup {k.flow} ELSE stored   \* save
    /\ call' = [call EXCEPT ![c] = [k EXCEPT !.pc = pc, !.state = r.at,
                                            !.backup = isDirty, !.moves = r.moves]]
    /\ UNCHANGED auditInside

(* The head of the auto chain's loop. *)
Chain(c, k, r, isDirty) ==
    IF r.at \in Terminal THEN Commit(c, k, [r EXCEPT !.exit = r.at], isDirty, "returned")
    ELSE Commit(c, k, r, isDirty, IF AutoTarget[r.at] = None THEN "returned" ELSE "auto")

Fail(c, k, r, from, isDirty) ==
    LET e == handleError(r, k.flow, from, isDirty)
    IN  Commit(c, k, e, isDirty, IF e.threw THEN "threw" ELSE "returned")

-----------------------------------------------------------------------------
startFlow(c, f) ==
    /\ call[c].pc = "idle" /\ at[f] = None
    /\ \E isDirty \in BOOLEAN :
         /\ dirty' = [dirty EXCEPT ![f] = isDirty]
         /\ call' = [call EXCEPT ![c] =
                       [Idle EXCEPT !.pc = IF AutoTarget[Initial] = None THEN "returned" ELSE "auto",
                                    !.flow = f, !.state = Initial, !.backup = isDirty]]
    /\ at' = [at EXCEPT ![f] = Initial]
    /\ stored' = stored \cup {f}
    /\ UNCHANGED <<auditInside, exit, log, seen>>

(* A command is delivered.  One the registry has seen on this flow is      *)
(* answered at once; any other is marked and goes to the engine, which     *)
(* runs to its first await in the same step.                               *)
markIfFirstSeen(f, cmd) == seen \cup {<<f, cmd>>}
isDuplicateAnywhere(f, cmd) == \E g \in Flow : <<g, cmd>> \in seen   \* Mistaken: keyed by command
isDuplicate(f, cmd) == <<f, cmd>> \in seen

Delivered(f, cmd) == [Idle EXCEPT !.flow = f, !.cmd = cmd, !.prev = at[f]]

Settle(c, k, pc, status) ==
    /\ call' = [call EXCEPT ![c] = [k EXCEPT !.pc = pc, !.status = status]]
    /\ UNCHANGED flowVars

deliverAgain(c, f, cmd) ==
    /\ call[c].pc = "idle" /\ isDuplicate(f, cmd)
    /\ Settle(c, Delivered(f, cmd), "answered", "DUPLICATE")
    /\ UNCHANGED seen

deliver(c, f, cmd) ==
    LET k == Delivered(f, cmd)
        isLoaded == f \in stored /\ exit[f] = None
    IN  /\ call[c].pc = "idle" /\ ~isDuplicate(f, cmd)
        /\ seen' = markIfFirstSeen(f, cmd)
        /\ \/ ~isLoaded /\ Settle(c, k, "threw", "FLOW_NOT_FOUND")
           \/ isLoaded /\ External[at[f]] = None /\ Settle(c, k, "threw", "INVALID_TRANSITION")
           \/ /\ isLoaded
              /\ \E isDirty \in BOOLEAN :   \* the external data is put first
                   \/ Commit(c, k, [Seen(k) EXCEPT !.exit = "EXPIRED"], isDirty, "returned")
                   \/ External[at[f]] # None /\ at[f] \notin Unguarded
                      /\ Commit(c, k, Seen(k), isDirty, "guard")
                   \/ /\ External[at[f]] # None /\ at[f] \in Unguarded
                      /\ \E enters \in BOOLEAN :
                           LET r == transitionTo(Seen(k), f, External[at[f]], isDirty, enters)
                           IN  IF r.threw THEN Commit(c, k, r, isDirty, "threw")
                               ELSE Chain(c, k, r, isDirty)

(* The guard answers; on acceptance its data is put and the transition's   *)
(* processor is awaited.  The retry count is left open.                    *)
validate(c) ==
    LET k == call[c]
        f == k.flow
    IN  /\ k.pc = "guard"
        /\ UNCHANGED seen
        /\ \/ \E isDirty \in BOOLEAN :
                /\ dirty' = [dirty EXCEPT ![f] = isDirty]
                /\ call' = [call EXCEPT ![c] = [@ EXCEPT !.pc = "process", !.backup = dirty[f]]]
                /\ UNCHANGED <<auditInside, stored, at, exit, log>>
           \/ Commit(c, k, Seen(k), dirty[f], "returned")              \* rejected
           \/ Commit(c, k, Seen(k), dirty[f], "threw")                 \* the guard threw
           \/ Fail(c, k, Seen(k), k.state, dirty[f])                   \* rejected once too often
           \/ Commit(c, k, [Seen(k) EXCEPT !.exit = "EXPIRED"], dirty[f], "returned")

(* An awaited processor is done: it threw, or the flow moves, and then the *)
(* entry action or the recording may still throw.  A failed step gets the  *)
(* context it began with back.  The error handling names the state the     *)
(* call began in, or (rereads) the one the flow is in by then.             *)
Step(c, to, rereads) ==
    LET k == call[c]
        from(s) == IF rereads THEN s ELSE k.state
    IN  \/ Fail(c, k, Seen(k), from(at[k.flow]), k.backup)
        \/ \E enters, isDirty \in BOOLEAN :
             LET r == transitionTo(Seen(k), k.flow, to, isDirty, enters)
             IN  IF r.threw THEN Fail(c, k, r, from(r.at), k.backup) ELSE Chain(c, k, r, isDirty)

process(c) ==
    /\ call[c].pc = "process"
    /\ Step(c, External[call[c].state], FALSE)
    /\ UNCHANGED seen

auto(c) ==
    /\ call[c].pc = "auto"
    /\ Step(c, AutoTarget[call[c].state], TRUE)
    /\ UNCHANGED seen

(* RichResumeExecutor classifies what came out of the engine, looking at   *)
(* the flow once more after the await.                                     *)
classify(f, prev) ==
    IF at[f] # prev THEN "TRANSITIONED"
    ELSE IF exit[f] # None THEN "ALREADY_COMPLETE" ELSE "REJECTED"

classifyAnyError(code) == "NO_APPLICABLE_TRANSITION"   \* Mistaken: one status for all errors

classifyError(code) ==
    IF code \in {"FLOW_NOT_FOUND", "INVALID_TRANSITION"} THEN "NO_APPLICABLE_TRANSITION"
    ELSE "EXCEPTION_ROUTED"

answer(c) ==
    /\ call[c].pc \in {"returned", "threw"}
    /\ LET k == call[c]
       IN  Settle(c, k, "answered", IF k.pc = "returned" THEN classify(k.flow, k.prev)
                                    ELSE classifyError(k.status))
    /\ UNCHANGED seen

-----------------------------------------------------------------------------
compensate(i) ==
    /\ Len(SelectSeq(log.events, LAMBDA e : e.type = "COMPENSATION")) < MaxCompensations
    /\ log' = appendCompensation(log, log.events[i].flow)
    /\ UNCHANGED <<auditInside, stored, at, exit, dirty, seen, call>>

(* Empties the store and both logs, whatever is in flight; not the sink,   *)
(* not the registry.                                                       *)
clear ==
    /\ log.events # <<>>
    /\ stored' = {}
    /\ log' = [NoEvents EXCEPT !.sink = log.sink]
    /\ UNCHANGED <<auditInside, at, exit, dirty, seen, call>>

Next ==
    \/ \E c \in Call :
         \/ \E f \in Flow : startFlow(c, f)
         \/ \E f \in Flow, cmd \in Command : deliver(c, f, cmd) \/ deliverAgain(c, f, cmd)
         \/ validate(c) \/ process(c) \/ auto(c) \/ answer(c)
    \/ \E i \in DOMAIN log.events : compensate(i)
    \/ clear

Spec == Init /\ [][Next]_vars

-----------------------------------------------------------------------------
Move == [flow : Flow, from : State, to : State]
Event == [flow : Flow, version : Nat, type : {"TRANSITION", "COMPENSATION"},
          from : State \cup {None}, to : State \cup {"COMPENSATED"}]

Exits == State \cup {None, "EXPIRED", "TERMINAL_ERROR"}
Logs == [audit : Seq(Move), events : Seq(Event), sink : Seq(Move), version : [Flow -> Nat]]
CallRecord ==
    [pc : {"idle", "guard", "process", "auto", "returned", "threw", "answered"},
     flow : Flow \cup {None}, cmd : Command \cup {None},
     prev : State \cup {None}, state : State \cup {None},
     backup : BOOLEAN, moves : Nat, status : Status \cup {None}]

(* Type invariant of the plugins' logs, the registry and the calls.        *)
TypeOK ==
    /\ auditInside \in BOOLEAN
    /\ stored \subseteq Flow
    /\ at \in [Flow -> State \cup {None}]
    /\ exit \in [Flow -> Exits]
    /\ dirty \in [Flow -> BOOLEAN]
    /\ log \in Logs
    /\ seen \subseteq Flow \X Command
    /\ call \in [Call -> CallRecord]

Rising(l) ==
    \A i, j \in DOMAIN l.events :
        /\ l.events[i].version \in 1..l.version[l.events[i].flow]
        /\ (i < j /\ l.events[i].flow = l.events[j].flow)
             => l.events[i].version < l.events[j].version

(* event-log-store-decorator.ts: "append-only", versioned.  However calls, *)
(* failed recordings, compensations and clear interleave, the versions of  *)
(* one flow rise strictly along the log and stay at or below its counter.  *)
VersionsRise == Rising(log)

audited(l, f) == {i \in DOMAIN l.audit : l.audit[i].flow = f}
logged(l, f) == {i \in DOMAIN l.events : l.events[i].flow = f}
transitions(l) == {i \in DOMAIN l.events : l.events[i].type = "TRANSITION"}

(* plugin-guide.md: the audit wrapper records "whenever recordTransition() *)
(* runs".  It has seen every transition the event log has, and when it is  *)
(* the inner of the two also those that cost the event log a version: the  *)
(* gaps of a flow's versions are the audited moves the event log lacks.    *)
AuditExplainsGaps(l) ==
    \A f \in Flow :
        Cardinality(audited(l, f)) - Cardinality(logged(l, f) \cap transitions(l))
            = IF auditInside THEN l.version[f] - Cardinality(logged(l, f)) ELSE 0

(* What the telemetry sink was told and what the event log holds are the   *)
(* same transitions in the same order: as many from the end of the one as  *)
(* from the end of the other.  The sink also keeps those from before a     *)
(* clear.                                                                  *)
SinkFollowsEvents(l) ==
    \A i \in transitions(l) :
        LET later == Cardinality({j \in transitions(l) : j > i})
            e == l.events[i]
        IN  /\ later < Len(l.sink)
            /\ l.sink[Len(l.sink) - later] = [flow |-> e.flow, from |-> e.from, to |-> e.to]

(* The three logs of the plugins tell the same moves.                      *)
LogsAgree == AuditExplainsGaps(log) /\ SinkFollowsEvents(log)

threwOn(f) == \E c \in Call : call[c].flow = f /\ call[c].pc \in {"threw", "answered"}
                              /\ call[c].status \in {None, "EXCEPTION_ROUTED"}

(* Replaying a flow to its last version gives the state the flow is in,    *)
(* after any mixture of overlapping calls, routed errors, compensations    *)
(* and lost events: only a call that threw, or a flow the engine gave up   *)
(* with TERMINAL_ERROR, can have moved without the log's knowing.  (A      *)
(* guard answered later may turn that exit into EXPIRED.)  The two replay  *)
(* services agree at every version, though one sorts transitions by        *)
(* version and the other folds all events in log order.                    *)
ReplayIsTrue ==
    \A f \in Flow :
        /\ (exit[f] \notin {"TERMINAL_ERROR", "EXPIRED"} /\ ~threwOn(f))
             => stateAtVersion(log.events, f, log.version[f]) \in {None, at[f]}
        /\ \A v \in 0..log.version[f] :
             stateAtVersion(log.events, f, v) = project(log.events, f, v)

(* plugin-guide.md: a command is known by the pair (flowId, commandId).    *)
(* Of the calls that delivered one command to one flow, overlapping or     *)
(* not, exactly one went to the engine, whatever became of it.             *)
CommandsRunOnce ==
    \A f \in Flow, cmd \in Command :
        LET delivered == {c \in Call : call[c].flow = f /\ call[c].cmd = cmd}
        IN  delivered # {} => Cardinality({c \in delivered : call[c].status # "DUPLICATE"}) = 1

(* An answer that nothing was applicable is never given to a call that     *)
(* moved the flow, even if it threw after recording the move.              *)
NothingAppliedNothingMoved ==
    \A c \in Call : call[c].status \in {"NO_APPLICABLE_TRANSITION", "DUPLICATE"} => call[c].moves = 0
=============================================================================
