------------------------------ MODULE UseFlow ------------------------------
(***************************************************************************)
(* useFlow (lang/ts-react/src/use-flow.ts): one flow in one component.     *)
(*                                                                         *)
(* The hook starts a flow when its effect runs and hands out resume.  Both *)
(* are asynchronous: what the component shows is written before the engine *)
(* is called and after it answers, and in between other calls, a second    *)
(* run of the effect or the end of the component may come.  The engine is  *)
(* what FlowLifecycle says of it; a call returns the instance, which all   *)
(* calls share, or throws, before it has changed the flow or after: chains *)
(* longer than the engine's limit throw after a change, and so do actions  *)
(* on an unguarded transition or on the exit of a sub-flow.                *)
(***************************************************************************)
EXTENDS Naturals

CONSTANTS
    State, Terminal,  \* the states of a flow and the terminal ones
    Initial,          \* the state a flow is created in
    MaxCalls          \* bound: the calls of the engine

Call == 1..MaxCalls

VARIABLES
    call,     \* call -> what it is, how far it is, which flow it works on
    flows,    \* call -> the flow that this call has started
    effect,   \* the start whose answer counts: not cancelled; 0 when none is
    view,     \* what the component shows, with the flow of flowIdRef
    mounted

vars == <<call, flows, effect, view, mounted>>

Unused == [kind |-> "none", phase |-> "unused", flow |-> 0]

NoFlow == [state |-> Initial, ended |-> FALSE]

fresh(c) == call[c] = Unused /\ \A b \in 1..(c - 1) : call[b] # Unused

inFlight(c) == call[c].phase \in {"running", "moved", "failing"}

(* A flow that the engine refuses to resume.                               *)
stuck(f) == f.ended \/ f.state \in Terminal

-----------------------------------------------------------------------------
(* The two setters before a call of the engine: setIsLoading, setError.    *)
waiting(v) == [v EXCEPT !.loading = TRUE, !.error = FALSE]

(* syncFromInstance: the instance as it is when the call returns.          *)
syncFromInstance(v, f) == [v EXCEPT !.flow = f, !.state = flows[f].state]

(* What an answer does to the view; after the unmount it does nothing, and *)
(* the answer of a cancelled start is left aside.                          *)
counts(c) == mounted /\ (call[c].kind = "resume" \/ effect = c)

-----------------------------------------------------------------------------
Init ==
    /\ call = [c \in Call |-> Unused]
    /\ flows = [c \in Call |-> NoFlow]
    /\ effect = 0
    /\ view = [flow |-> 0, state |-> Initial, error |-> FALSE, loading |-> TRUE]
    /\ mounted = TRUE

(* The effect runs: at the mount, and a second time in strict mode, which  *)
(* cancels the first run.  Its definition stays the same.                  *)
RunEffect(c) ==
    /\ mounted /\ fresh(c) /\ c <= 2 /\ view.flow = 0
    /\ \A b \in Call : call[b].phase \in {"unused", "running"}
    /\ effect' = c
    /\ call' = [call EXCEPT ![c] = [kind |-> "start", phase |-> "running", flow |-> c]]
    /\ view' = waiting(view)
    /\ UNCHANGED <<flows, mounted>>

Unmount ==
    /\ mounted
    /\ mounted' = FALSE
    /\ effect' = 0
    /\ UNCHANGED <<call, flows, view>>

(* resume: the flow is loaded before the first await; one that has ended   *)
(* is not found, and one left open in a terminal state has no transition.  *)
Resume(c) ==
    /\ mounted /\ fresh(c) /\ view.flow # 0
    /\ call' = [call EXCEPT ![c] =
           [kind |-> "resume", flow |-> view.flow,
            phase |-> IF stuck(flows[view.flow]) THEN "failing" ELSE "running"]]
    /\ view' = waiting(view)
    /\ UNCHANGED <<flows, effect, mounted>>

(* The engine moves the flow, or ends it where it is (expired, error).  A  *)
(* terminal state that is not completed is one whose enter action threw or, *)
(* at the limit of the chain, left as it was: the call is going to throw.  *)
Move(c) ==
    /\ call[c].phase = "running"
    /\ LET f == call[c].flow
       IN  \E s \in (State \ {Initial}) \cup {flows[f].state}, end \in BOOLEAN :
             /\ s = flows[f].state => end
             /\ flows' = [flows EXCEPT ![f] = [state |-> s, ended |-> @.ended \/ end]]
             /\ call' = [call EXCEPT ![c].phase = IF s \in Terminal /\ ~end THEN "failing" ELSE "moved"]
    /\ UNCHANGED <<effect, view, mounted>>

Return(c) ==
    /\ call[c].phase \in {"running", "moved"}
    /\ call' = [call EXCEPT ![c].phase = "done"]
    /\ view' = IF counts(c) THEN [syncFromInstance(view, call[c].flow) EXCEPT !.loading = FALSE]
                            ELSE view
    /\ UNCHANGED <<flows, effect, mounted>>

(* The error is shown; the snapshot stays, even if the flow was moved.     *)
Throw(c) ==
    /\ inFlight(c)
    /\ call' = [call EXCEPT ![c].phase = "done"]
    /\ view' = IF counts(c) THEN [view EXCEPT !.error = TRUE, !.loading = FALSE] ELSE view
    /\ UNCHANGED <<flows, effect, mounted>>

Next ==
    \/ \E c \in Call : RunEffect(c) \/ Resume(c) \/ Move(c) \/ Return(c) \/ Throw(c)
    \/ Unmount

Spec == Init /\ [][Next]_vars
=============================================================================
