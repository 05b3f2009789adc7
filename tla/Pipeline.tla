------------------------------ MODULE Pipeline ------------------------------
(***************************************************************************)
(* Pipeline of lang/ts/src/pipeline.ts: a fixed sequence of steps, checked *)
(* by build() and executed one after the other.  Executions of the same    *)
(* pipeline may overlap; each has a context of its own, and they share the *)
(* strict mode and the loggers, which may be changed at any time.          *)
(*                                                                         *)
(* A step has parts: one of its own, or the steps of the pipeline that     *)
(* asStep() made it from.  What a part puts is its own affair: it may put  *)
(* less than it declares, or more, or throw half-way.                      *)
(***************************************************************************)
EXTENDS Naturals, Sequences

CONSTANTS Key, Run,
          Steps,     \* the steps pipelines are built from
          MaxSteps   \* bound: the length of a pipeline

Contract == [requires : SUBSET Key, produces : SUBSET Key]

Step == [requires : SUBSET Key, produces : SUBSET Key, parts : Seq(Contract) \ {<<>>}]

ASSUME StepAssumption == Steps \subseteq Step /\ MaxSteps \in Nat

VARIABLES
    steps, initially,   \* the pipeline
    strict,             \* strict mode is on
    stateLogger,        \* a state logger is set
    run                 \* execution -> how far it has got

vars == <<steps, initially, strict, stateLogger, run>>

asStep(available, parts) ==
    [requires |-> available, produces |-> UNION {parts[i].produces : i \in DOMAIN parts},
     parts |-> parts]

(* PipelineDataFlow *)
availableAfter(n) == initially \cup UNION {steps[i].produces : i \in 1..n}

(* Mistaken: a step counts on its own results.                             *)
buildLate == \A i \in DOMAIN steps : steps[i].requires \subseteq availableAfter(i)

(* build() finds no error. *)
build == \A i \in DOMAIN steps : steps[i].requires \subseteq availableAfter(i - 1)

(* strictSoFar, loggedSoFar: the two settings held at every look so far.   *)
Idle == [pc |-> "idle", given |-> {}, ctx |-> {}, keysBefore |-> {}, hasBefore |-> FALSE,
         part |-> 1, completed |-> <<>>, transitions |-> <<>>, failedStep |-> 0,
         errorLog |-> <<>>, stateLog |-> <<>>, strictSoFar |-> TRUE, loggedSoFar |-> TRUE]

Init ==
    /\ steps \in UNION {[1..n -> Steps] : n \in 1..MaxSteps}
    /\ initially \in SUBSET Key
    /\ build
    /\ strict \in BOOLEAN
    /\ stateLogger \in BOOLEAN
    /\ run = [r \in Run |-> Idle]

-----------------------------------------------------------------------------

(* The loop of execute: step i is announced before it runs.  0 stands for  *)
(* "initial" in the log.                                                   *)
begin(x, i) ==
    IF i > Len(steps) THEN [x EXCEPT !.pc = "done"]
    ELSE [x EXCEPT !.pc = "step", !.part = 1,
                   !.transitions = Append(@, <<i - 1, i>>),
                   !.hasBefore = stateLogger,
                   !.keysBefore = IF stateLogger THEN x.ctx ELSE {},
                   !.loggedSoFar = @ /\ stateLogger]

current(x) == Len(x.completed) + 1

fail(x) == [x EXCEPT !.pc = "failed", !.failedStep = current(x)]

newKeys(x) == IF stateLogger /\ x.hasBefore THEN x.ctx \ x.keysBefore ELSE {}

logState(x) ==
    [x EXCEPT !.stateLog = IF newKeys(x) = {} THEN @ ELSE Append(@, <<current(x), newKeys(x)>>),
              !.loggedSoFar = @ /\ stateLogger /\ x.hasBefore]

(* Mistaken: the step is counted before it is checked.                     *)
finishCountedFirst(x) ==
    LET y == [x EXCEPT !.completed = Append(@, current(x)), !.strictSoFar = @ /\ strict]
    IN  IF strict /\ ~(steps[current(x)].produces \subseteq x.ctx) THEN fail(y)
        ELSE begin([logState(x) EXCEPT !.completed = y.completed, !.strictSoFar = y.strictSoFar],
                   current(x) + 1)

(* The step's process has returned. *)
finish(x) ==
    IF strict /\ ~(steps[current(x)].produces \subseteq x.ctx) THEN fail(x)
    ELSE LET y == logState(x)
         IN  begin([y EXCEPT !.completed = Append(@, current(x)), !.strictSoFar = @ /\ strict],
                   current(x) + 1)

execute(r) ==
    /\ run[r].pc = "idle"
    /\ \E data \in SUBSET Key :
         run' = [run EXCEPT ![r] = begin([Idle EXCEPT !.given = data, !.ctx = data], 1)]
    /\ UNCHANGED <<steps, initially, strict, stateLogger>>

(* The part that is running puts some keys and returns, or throws.  The    *)
(* steps inside an asStep() are run by its process: unchecked, unlogged.   *)
proceed(r) ==
    /\ run[r].pc = "step"
    /\ \E puts \in SUBSET Key :
         LET x == [run[r] EXCEPT !.ctx = @ \cup puts]
         IN  run' = [run EXCEPT ![r] =
                       IF x.part < Len(steps[current(x)].parts) THEN [x EXCEPT !.part = @ + 1]
                       ELSE finish(x)]
    /\ UNCHANGED <<steps, initially, strict, stateLogger>>

throw(r) ==
    /\ run[r].pc = "step"
    /\ \E puts \in SUBSET Key :
         LET x == [run[r] EXCEPT !.ctx = @ \cup puts]
         IN  run' = [run EXCEPT ![r] = [fail(x) EXCEPT
                       !.errorLog = Append(@, <<current(x) - 1, current(x)>>)]]
    /\ UNCHANGED <<steps, initially, strict, stateLogger>>

setStrictMode ==
    /\ strict' = ~strict
    /\ UNCHANGED <<steps, initially, stateLogger, run>>

setStateLogger ==   \* removeAllLoggers as far as the state logger goes
    /\ stateLogger' = ~stateLogger
    /\ UNCHANGED <<steps, initially, strict, run>>

Next ==
    \/ \E r \in Run : execute(r) \/ proceed(r) \/ throw(r)
    \/ setStrictMode
    \/ setStateLogger

Spec == Init /\ [][Next]_vars

-----------------------------------------------------------------------------

(* api-cookbook.md, setStrictMode: what build() promises and steps may     *)
(* break, strict mode keeps.  In an execution that got its initial data    *)
(* and was checked after every step, what availableAfter says of the last  *)
(* completed step is in the context, and the step that runs has what it    *)
(* requires, whatever the steps do and another execution's settings were.  *)
StrictKeepsThePromise ==
    \A r \in Run :
        LET x == run[r]
        IN  (x.strictSoFar /\ initially \subseteq x.given /\ x.pc # "idle") =>
                /\ availableAfter(Len(x.completed)) \subseteq x.ctx
                /\ x.pc = "step" => steps[current(x)].requires \subseteq x.ctx

(* api-cookbook.md, PipelineException: "which step failed and which steps  *)
(* completed".  The completed steps are the ones before the failed one, in *)
(* order; the failed one was announced last; the error logger heard of it  *)
(* once if it threw, and what it did not deliver is a result it declares   *)
(* if strict mode turned it down instead.                                  *)
FailureIsLocated ==
    \A r \in Run :
        LET x == run[r]
        IN  x.pc = "failed" =>
                /\ x.completed = [i \in 1..(x.failedStep - 1) |-> i]
                /\ x.transitions = [i \in 1..x.failedStep |-> <<i - 1, i>>]
                /\ \/ x.errorLog = <<<<x.failedStep - 1, x.failedStep>>>>
                   \/ x.errorLog = <<>> /\ ~(steps[x.failedStep].produces \subseteq x.ctx)

(* The state logger hears of a key once, under the step that brought it,   *)
(* never of one the caller gave; with a logger all along, of every key the *)
(* completed steps brought.                                                *)
StateLogIsExact ==
    \A r \in Run :
        LET x == run[r]
            logged == UNION {x.stateLog[i][2] : i \in DOMAIN x.stateLog}
        IN  /\ logged \subseteq x.ctx \ x.given
            /\ \A i, j \in DOMAIN x.stateLog :
                 i < j => /\ x.stateLog[i][1] < x.stateLog[j][1]
                          /\ x.stateLog[i][2] \cap x.stateLog[j][2] = {}
            /\ (x.pc = "done" /\ x.loggedSoFar) => logged = x.ctx \ x.given

(* The exception and the three loggers of an execution tell the same       *)
(* story, and it is what happened, whenever loggers come and go.           *)
StoryIsTrue == FailureIsLocated /\ StateLogIsExact
=============================================================================
