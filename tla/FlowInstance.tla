---------------------------- MODULE FlowInstance ----------------------------
(***************************************************************************)
(* The mutable part of a flow instance, lang/ts/src/flow-instance.ts, and  *)
(* what its methods do to it.  Left out: identifiers, dates nobody         *)
(* compares, version and lastError (written, never read, by the engine),   *)
(* and the per-guard failure counters (kept beside the total, for the      *)
(* caller to read).                                                        *)
(*                                                                         *)
(* last is the latest record the transition log holds for the instance.    *)
(* The log itself only grows, and only its end matters to what follows.    *)
(***************************************************************************)
EXTENDS FlowDefinition

LogRecord == [from: State \cup {None}, to: State]

Instance ==
    [def: DefName, state: State, exit: Exit \cup {None},
     fails: Nat, enteredAt: Nat, last: LogRecord]

(* The constructor, called at time t.                                      *)
NewInstance(name, t) ==
    [def |-> name, state |-> Def[name].initial, exit |-> None, fails |-> 0,
     enteredAt |-> t, last |-> [from |-> None, to |-> Def[name].initial]]

isCompleted(x) == x.exit # None

(* A change of state resets the failure counter, a self-transition not.    *)
transitionTo(x, s, t) ==
    [x EXCEPT !.state = s, !.enteredAt = t,
              !.fails = IF x.state # s THEN 0 ELSE x.fails]

incrementGuardFailure(x) == [x EXCEPT !.fails = x.fails + 1]

complete(x, e) == [x EXCEPT !.exit = e]

(* InMemoryFlowStore.recordTransition                                      *)
recordTransition(x, from, to) == [x EXCEPT !.last = [from |-> from, to |-> to]]

definitionOf(x) == Def[x.def]

isTerminal(x) == x.state \in definitionOf(x).terminal

(* The externals the deepest active instance waits for (waitingFor).       *)
waitsForEvent(x) == externalsFrom(definitionOf(x), x.state) # {}
=============================================================================
