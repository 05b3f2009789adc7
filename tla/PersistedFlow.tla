---------------------------- MODULE PersistedFlow ----------------------------
(***************************************************************************)
(* One flow in a store that outlives its processes.  Every call loads an   *)
(* instance of its own (FlowInstance.restore), works on it through the     *)
(* awaits of resumeAndExecute, and saves it at the end, provided that the  *)
(* stored version is still the one it loaded.  Records of transitions are  *)
(* written at once.  A worker may die at any await or before its save.     *)
(*                                                                         *)
(* No such store is in the repository: it is what spec/SPEC.md 3.5 demands *)
(* of one.  FlowEngine has the data, the choice of an external, the steps  *)
(* within a sub-flow, and the calls that maxChainDepth ends.  What restore *)
(* does not bring back: an active sub-flow, so a call never finds one, and *)
(* the time of entry into the state, so no timeout of a state has passed   *)
(* when it is looked at.                                                   *)
(***************************************************************************)
EXTENDS FlowInstance

CONSTANTS
    Name,        \* the definition of the flow
    Worker,
    MaxVersion,  \* bound: from this version on the flow is left alone until it expires
    MaxCrashes,  \* bound on crashes
    MaxTime      \* bound on the clock

ASSUME WorkerAssumption ==
    /\ Name \in DefName
    /\ MaxVersion \in Nat /\ MaxCrashes \in Nat /\ MaxTime \in Nat

VARIABLES
    row,      \* the stored flow: an instance and its version, NoRow before create
    log,      \* the records of transitions, as pairs <<from, to>>
    work,     \* worker -> its call
    now, crashes,
    rejected  \* history: the rejections saved in a row

vars == <<row, log, work, now, crashes, rejected>>

d == Def[Name]

(* The answer of a query that finds nothing.                               *)
NoRow == <<>>

(* base is what the call has loaded, x its instance.                       *)
Idle == [pc |-> "idle", base |-> None, x |-> None, t |-> None, rejects |-> FALSE]

-----------------------------------------------------------------------------
(* The store.                                                              *)

(* Mistaken: the failures of guards are not brought back.                  *)
restoreForgets(r) ==
    [NewInstance(Name, now) EXCEPT !.state = r.state, !.exit = r.exit]

restore(r) ==
    [NewInstance(Name, now) EXCEPT !.state = r.state, !.exit = r.exit, !.fails = r.fails]

stored(x, version) == [state |-> x.state, exit |-> x.exit, fails |-> x.fails, version |-> version]

loadForUpdate == row # NoRow /\ row.exit = None

isCurrent(w) == row.version = work[w].base.version

-----------------------------------------------------------------------------
(* What a stretch of code between two awaits makes of an instance: the     *)
(* instance, the records it has written, and where the call waits.         *)

outcome(x, records, pc) == [x |-> x, records |-> records, pc |-> pc]

(* The head of the auto-chain's loop.                                      *)
chain(x, records) ==
    IF isTerminal(x) THEN outcome(complete(x, x.state), records, "save")
    ELSE outcome(x, records, IF ofType(d, x.state, {"auto", "branch", "sub_flow"}) = {}
                             THEN "save" ELSE "chain")

(* fireExit, transitionTo, fireEnter, recordTransition.                    *)
move(x, to) == chain(transitionTo(x, to, now), {<<x.state, to>>})

(* What an action that throws leaves of this: an exit action the instance  *)
(* as it was, an enter action the move without its record.                 *)
thrown(x, to) ==
    (IF x.state \in d.exitActions THEN {x} ELSE {})
    \cup (IF to \in d.enterActions THEN {transitionTo(x, to, now)} ELSE {})

(* Mistaken: the route is taken without a record.                          *)
handleErrorUnrecorded(x, fromState, cause) ==
    LET target == ErrorTarget(d, fromState, cause)
        y == transitionTo(x, target, now)
    IN  IF target = None THEN outcome(complete(x, "TERMINAL_ERROR"), {}, "save")
        ELSE outcome(IF isTerminal(y) THEN complete(y, target) ELSE y, {}, "save")

(* fromState picks the route; the record starts where the instance is.     *)
handleError(x, fromState, cause) ==
    LET target == ErrorTarget(d, fromState, cause)
        y == transitionTo(x, target, now)
    IN  IF target = None THEN outcome(complete(x, "TERMINAL_ERROR"), {}, "save")
        ELSE outcome(IF isTerminal(y) THEN complete(y, target) ELSE y, {<<x.state, target>>}, "save")

Commit(w, k, o) ==
    /\ work' = [work EXCEPT ![w] = [k EXCEPT !.x = o.x, !.pc = o.pc]]
    /\ log' = log \cup o.records

(* Nothing catches an error: the call is over, and nothing is saved.       *)
Leave(w) == Commit(w, Idle, outcome(None, {}, "idle"))

(* The external's move: an error is routed from the state the call found.  *)
ExternalTo(w, k, to) ==
    \/ Commit(w, k, move(k.x, to))
    \/ \E y \in thrown(k.x, to), cause \in ErrorClass : Commit(w, k, handleError(y, k.x.state, cause))

(* A move in the chain: an error is routed from where the flow is by then. *)
StepTo(w, k, to) ==
    \/ Commit(w, k, move(k.x, to))
    \/ \E y \in thrown(k.x, to), cause \in ErrorClass : Commit(w, k, handleError(y, y.state, cause))

(* The exit of a sub-flow, which no try block surrounds.                   *)
TakeExit(w, k, to) == Commit(w, k, move(k.x, to)) \/ (thrown(k.x, to) # {} /\ Leave(w))

-----------------------------------------------------------------------------
Init ==
    /\ row = NoRow
    /\ log = {}
    /\ work = [w \in Worker |-> Idle]
    /\ now = 0
    /\ crashes = 0
    /\ rejected = 0

(* startFlow: create, then the chain up to its first await.                *)
Start(w) ==
    /\ work[w] = Idle /\ row = NoRow
    /\ row' = stored(NewInstance(Name, now), 0)
    /\ Commit(w, [Idle EXCEPT !.base = row'], chain(NewInstance(Name, now), {}))
    /\ UNCHANGED <<now, crashes, rejected>>

(* Mistaken: only a flow that waits for an event expires.                  *)
ttlElapsedWaiting == now > d.ttl /\ externalsFrom(d, row.state) # {}

(* The time to live counts from create, which is when the clock starts.    *)
ttlElapsed == now > d.ttl

(* resumeAndExecute up to the guard.  A call that does not find the flow,  *)
(* or no external for its state, throws and leaves no trace.               *)
Load(w) ==
    /\ work[w] = Idle /\ loadForUpdate
    /\ LET k == [Idle EXCEPT !.base = row]
           x == restore(row)
       IN  \/ ttlElapsed /\ Commit(w, k, outcome(complete(x, "EXPIRED"), {}, "save"))
           \/ /\ ~ttlElapsed /\ row.version < MaxVersion
              /\ \E t \in externalsFrom(d, x.state) : Commit(w, [k EXCEPT !.t = t], outcome(x, {}, "guard"))
    /\ UNCHANGED <<row, now, crashes, rejected>>

(* Nothing catches what a guard throws.                                    *)
GuardAnswers(w) ==
    LET k == work[w]
        t == d.transitions[k.t]
        y == incrementGuardFailure(k.x)
    IN  /\ k.pc = "guard"
        /\ \/ IF t.processor THEN Commit(w, k, outcome(k.x, {}, "process")) ELSE ExternalTo(w, k, t.to)
           \/ IF y.fails >= d.maxGuardRetries
              THEN Commit(w, k, handleError(y, y.state, None))
              ELSE Commit(w, [k EXCEPT !.rejects = TRUE], outcome(y, {}, "save"))
           \/ Commit(w, k, outcome(complete(k.x, "EXPIRED"), {}, "save"))
           \/ Leave(w)
        /\ UNCHANGED <<row, now, crashes, rejected>>

ProcessorSettles(w) ==
    LET k == work[w]
    IN  /\ k.pc = "process"
        /\ \/ ExternalTo(w, k, d.transitions[k.t].to)
           \/ \E cause \in ErrorClass : Commit(w, k, handleError(k.x, k.x.state, cause))
        /\ UNCHANGED <<row, now, crashes, rejected>>

(* A turn of the auto-chain: an automatic step or a branch, which may      *)
(* throw, or a sub-flow, which runs to an exit, ends without one, or       *)
(* waits.  A sub-flow that waits is not stored.                            *)
ChainSettles(w) ==
    LET k == work[w]
        s == k.x.state
        subs == ofType(d, s, {"sub_flow"})
        sub == d.transitions[First(subs)]
        failed == handleError(k.x, s, None)
    IN  /\ k.pc = "chain"
        /\ \/ /\ subs = {}
              /\ \E t \in ofType(d, s, {"auto", "branch"}) : StepTo(w, k, d.transitions[t].to)
           \/ /\ subs = {}
              /\ \E cause \in ErrorClass : Commit(w, k, handleError(k.x, s, cause))
           \/ /\ subs # {}
              /\ \E e \in Exit : sub.exits[e] # None /\ TakeExit(w, k, sub.exits[e])
           \/ subs # {} /\ Commit(w, k, chain(failed.x, failed.records))
           \/ subs # {} /\ Commit(w, k, outcome(k.x, {}, "save"))
        /\ UNCHANGED <<row, now, crashes, rejected>>

(* The save at the end of a call; a conflict is thrown to the caller.      *)
Save(w) ==
    /\ work[w].pc = "save"
    /\ work' = [work EXCEPT ![w] = Idle]
    /\ IF isCurrent(w)
       THEN /\ row' = stored(work[w].x, row.version + 1)
            /\ rejected' = IF work[w].rejects THEN rejected + 1 ELSE 0
       ELSE UNCHANGED <<row, rejected>>
    /\ UNCHANGED <<log, now, crashes>>

(* A worker dies, and with it all that its call has not saved.             *)
Crash(w) ==
    /\ work[w] # Idle
    /\ crashes < MaxCrashes
    /\ crashes' = crashes + 1
    /\ work' = [work EXCEPT ![w] = Idle]
    /\ UNCHANGED <<row, log, now, rejected>>

Tick ==
    /\ row # NoRow /\ now < MaxTime
    /\ now' = now + 1
    /\ UNCHANGED <<row, log, work, crashes, rejected>>

Proceed(w) == GuardAnswers(w) \/ ProcessorSettles(w) \/ ChainSettles(w) \/ Save(w)

Next ==
    \/ \E w \in Worker : Start(w) \/ Load(w) \/ Proceed(w) \/ Crash(w)
    \/ Tick

Spec == Init /\ [][Next]_vars

(* Promises settle, time passes, and somebody asks for a flow whose time   *)
(* is over: the engine has no timer of its own.                            *)
FairSpec ==
    /\ Spec
    /\ WF_vars(Tick)
    /\ \A w \in Worker : WF_vars(Proceed(w))
    /\ WF_vars(\E w \in Worker : ttlElapsed /\ Load(w))

-----------------------------------------------------------------------------

(* The moves that may be stored without a record: those into a state whose *)
(* enter action throws, within a try block, which saves the flow there.    *)
Unrecorded ==
    {<<d.transitions[t].from, d.transitions[t].to>> :
        t \in {t \in DOMAIN d.transitions : /\ d.transitions[t].type # "sub_flow"
                                           /\ d.transitions[t].to \in d.enterActions}}

(* The pairs lead from s to e: no set of states that has s and, with the   *)
(* start of a pair, its end, can leave e out.                              *)
leads(s, e, pairs) ==
    \A R \in SUBSET d.states : (s \in R /\ \A l \in pairs : l[1] \in R => l[2] \in R) => e \in R

(* The log explains every change of the row: what replaces it lies beyond  *)
(* it on the path of the records, whichever calls overlap, die or meet a   *)
(* conflict, but for a move whose enter action threw before the record;    *)
(* and nothing replaces a flow that has ended.                             *)
RowsFollowTheLog ==
    [][(row # NoRow /\ row' # row) =>
          row.exit = None /\ leads(row.state, row'.state, log' \cup Unrecorded)]_vars

(* maxGuardRetries bounds the rejections an open flow has behind it in a   *)
(* row, though each of them was counted by an instance of its own.         *)
RetriesSurviveRestarts ==
    (row # NoRow /\ row.exit = None) => rejected = 0 \/ rejected < d.maxGuardRetries

(* The time to live closes every stored flow: one whose worker died in the *)
(* middle of its start, one that waits in a sub-flow nobody remembers.     *)
StoredFlowsEnd == row # NoRow ~> (row # NoRow /\ row.exit # None)
=============================================================================
