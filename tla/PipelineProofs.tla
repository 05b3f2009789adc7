--------------------------- MODULE PipelineProofs ---------------------------
(***************************************************************************)
(* For any pipeline that build() accepts, of any length, with any steps,   *)
(* and any number of executions: strict mode keeps what build() promises.  *)
(***************************************************************************)
EXTENDS Pipeline, SequenceTheorems, TLAPS

Field == {"pc", "given", "ctx", "keysBefore", "hasBefore", "part", "completed", "transitions",
          "failedStep", "errorLog", "stateLog", "strictSoFar", "loggedSoFar"}

IsExecution(x) == x = [f \in Field |-> x[f]] /\ x.completed \in Seq(Nat)

(* y is x, apart from its logs and from how far its step has got.          *)
SameData(x, y) ==
    /\ IsExecution(y)
    /\ y.given = x.given /\ y.ctx = x.ctx
    /\ y.completed = x.completed /\ y.strictSoFar = x.strictSoFar

(* What the completed steps declare is in the context, if each of them was *)
(* checked; and a step runs only while there are steps left.               *)
Promised(x) ==
    /\ IsExecution(x)
    /\ (x.strictSoFar /\ initially \subseteq x.given /\ x.pc # "idle")
          => availableAfter(Len(x.completed)) \subseteq x.ctx
    /\ x.pc = "step" => current(x) <= Len(steps)

IndInv ==
    /\ steps \in Seq(Step)
    /\ build
    /\ run = [r \in Run |-> run[r]]
    /\ \A r \in Run : Promised(run[r])

-----------------------------------------------------------------------------
(* The parts of a turn of the loop that keep the data.                     *)
LEMMA BeginSame ==
    ASSUME NEW x, IsExecution(x), NEW i
    PROVE  /\ SameData(x, begin(x, i))
           /\ begin(x, i).pc = IF i > Len(steps) THEN "done" ELSE "step"
<1>1. CASE i > Len(steps)
  BY <1>1 DEF begin, SameData, IsExecution, Field
<1>2. CASE ~(i > Len(steps))
  BY <1>2 DEF begin, SameData, IsExecution, Field
<1>. QED
  BY <1>1, <1>2

LEMMA LogStateSame ==
    ASSUME NEW x, IsExecution(x)
    PROVE  SameData(x, logState(x))
BY DEF logState, SameData, IsExecution, Field

LEMMA FailSame ==
    ASSUME NEW x, IsExecution(x)
    PROVE  SameData(x, fail(x)) /\ fail(x).pc = "failed"
BY DEF fail, SameData, IsExecution, Field

(* A step adds what it declares to what is available.                      *)
LEMMA AvailableNext ==
    ASSUME NEW n \in Nat
    PROVE  availableAfter(n + 1) = availableAfter(n) \cup steps[n + 1].produces
<1>1. 1 .. n + 1 = (1 .. n) \cup {n + 1}
  OBVIOUS
<1>. QED
  BY <1>1 DEF availableAfter

LEMMA AvailableFirst == availableAfter(0) = initially
<1>1. 1 .. 0 = {}
  OBVIOUS
<1>. QED
  BY <1>1 DEF availableAfter

-----------------------------------------------------------------------------
(* The steps.                                                              *)

LEMMA ExecutePromised ==
    ASSUME NEW data
    PROVE  Promised(begin([Idle EXCEPT !.given = data, !.ctx = data], 1))
<1>. DEFINE x == [Idle EXCEPT !.given = data, !.ctx = data]
            y == begin(x, 1)
<1>0. IsExecution(Idle) /\ Idle.completed = <<>>
  BY DEF Idle, IsExecution, Field
<1>1. IsExecution(x) /\ x.given = data /\ x.ctx = data /\ x.completed = <<>>
  <2>. HIDE DEF Idle
  <2>. QED
    BY <1>0 DEF IsExecution, Field
<1>. HIDE DEF x
<1>2. SameData(x, y) /\ y.pc = IF 1 > Len(steps) THEN "done" ELSE "step"
  BY <1>1, BeginSame
<1>. HIDE DEF y
<1>3. current(y) = 1 /\ Len(y.completed) = 0
  BY <1>1, <1>2 DEF SameData, current
<1>4. y.pc = "step" => current(y) <= Len(steps)
  BY <1>2, <1>3
<1>. QED
  BY <1>1, <1>2, <1>3, <1>4, AvailableFirst DEF Promised, SameData, x, y

(* The context only grows.                                                 *)
LEMMA PutPromised ==
    ASSUME NEW x, Promised(x), NEW puts, NEW y, y = [x EXCEPT !.ctx = @ \cup puts]
    PROVE  Promised(y) /\ y.pc = x.pc /\ y.completed = x.completed
<1>1. /\ IsExecution(y) /\ y.ctx = x.ctx \cup puts /\ y.given = x.given /\ y.pc = x.pc
      /\ y.completed = x.completed /\ y.strictSoFar = x.strictSoFar
  BY DEF Promised, IsExecution, Field
<1>. QED
  BY <1>1 DEF Promised, current

LEMMA NextPartPromised ==
    ASSUME NEW x, Promised(x), NEW y, y = [x EXCEPT !.part = @ + 1]
    PROVE  Promised(y)
<1>1. SameData(x, y) /\ y.pc = x.pc
  BY DEF Promised, SameData, IsExecution, Field
<1>. QED
  BY <1>1 DEF Promised, SameData, current

LEMMA FailPromised ==
    ASSUME NEW x, Promised(x), x.pc # "idle", NEW y, SameData(x, y), y.pc = "failed"
    PROVE  Promised(y)
BY DEF Promised, SameData, current

LEMMA ThrowSame ==
    ASSUME NEW x, IsExecution(x), NEW log
    PROVE  LET y == [fail(x) EXCEPT !.errorLog = Append(@, log)]
           IN  SameData(x, y) /\ y.pc = "failed"
<1>1. SameData(x, fail(x)) /\ fail(x).pc = "failed"
  BY FailSame
<1>. QED
  BY <1>1 DEF SameData, IsExecution, Field

(* A step that strict mode lets pass has put what it declares.             *)
LEMMA FinishPromised ==
    ASSUME NEW x, Promised(x), x.pc = "step", Len(steps) \in Nat
    PROVE  Promised(finish(x))
<1>0. IsExecution(x) /\ x.completed \in Seq(Nat) /\ Len(x.completed) \in Nat
  BY LenProperties DEF Promised, IsExecution
<1>1. CASE strict /\ ~(steps[current(x)].produces \subseteq x.ctx)
  <2>1. finish(x) = fail(x)
    BY <1>1 DEF finish
  <2>. QED
    BY <1>0, <2>1, FailSame, FailPromised
<1>2. CASE ~(strict /\ ~(steps[current(x)].produces \subseteq x.ctx))
  <2>. DEFINE y == logState(x)
              z == [y EXCEPT !.completed = Append(@, current(x)), !.strictSoFar = @ /\ strict]
              b == begin(z, current(x) + 1)
  <2>1. finish(x) = b
    BY <1>2 DEF finish
  <2>2. SameData(x, y)
    BY <1>0, LogStateSame
  <2>. HIDE DEF y
  <2>3. /\ z.completed = Append(x.completed, current(x)) /\ z.given = x.given /\ z.ctx = x.ctx
        /\ z.strictSoFar = (x.strictSoFar /\ strict)
        /\ z = [f \in Field |-> z[f]]
    BY <2>2 DEF SameData, IsExecution, Field
  <2>. HIDE DEF z
  <2>4. /\ z.completed \in Seq(Nat) /\ Len(z.completed) = Len(x.completed) + 1
    <3>1. current(x) \in Nat
      BY <1>0 DEF current
    <3>. QED
      BY <1>0, <2>3, <3>1, AppendProperties
  <2>5. SameData(z, b) /\ b.pc = IF current(x) + 1 > Len(steps) THEN "done" ELSE "step"
    BY <2>3, <2>4, BeginSame DEF IsExecution
  <2>. HIDE DEF b
  <2>6. ASSUME b.strictSoFar, initially \subseteq b.given
        PROVE  availableAfter(Len(b.completed)) \subseteq b.ctx
    <3>1. availableAfter(Len(x.completed)) \subseteq x.ctx
      BY <2>3, <2>5, <2>6 DEF SameData, Promised
    <3>2. steps[Len(x.completed) + 1].produces \subseteq x.ctx
      BY <1>2, <2>3, <2>5, <2>6 DEF SameData, current
    <3>. QED
      BY <1>0, <2>3, <2>4, <2>5, <3>1, <3>2, AvailableNext DEF SameData
  <2>7. b.pc = "step" => current(b) <= Len(steps)
    <3>1. current(b) = current(x) + 1
      BY <1>0, <2>4, <2>5 DEF SameData, current
    <3>2. current(x) \in Nat
      BY <1>0 DEF current
    <3>. QED
      BY <2>5, <3>1, <3>2
  <2>. QED
    BY <2>1, <2>5, <2>6, <2>7 DEF Promised, SameData
<1>. QED
  BY <1>1, <1>2

-----------------------------------------------------------------------------
LEMMA InitInv == Init => IndInv
<1>. SUFFICES ASSUME Init PROVE IndInv
  OBVIOUS
<1>1. steps \in Seq(Step)
  <2>1. PICK n \in 1 .. MaxSteps : steps \in [1 .. n -> Steps]
    BY DEF Init
  <2>2. n \in Nat /\ steps \in [1 .. n -> Step]
    BY <2>1, StepAssumption
  <2>. QED
    BY <2>2, SeqDef
<1>2. Promised(Idle)
  BY DEF Promised, IsExecution, Field, Idle
<1>. QED
  BY <1>1, <1>2 DEF Init, IndInv

(* One execution goes on.                                                  *)
LEMMA OneRun ==
    ASSUME IndInv, NEW r \in Run, NEW x, Promised(x), run' = [run EXCEPT ![r] = x],
           UNCHANGED <<steps, initially>>
    PROVE  IndInv'
<1>1. /\ run' = [q \in Run |-> run'[q]] /\ run'[r] = x
      /\ \A q \in Run \ {r} : run'[q] = run[q]
  BY DEF IndInv
<1>2. ASSUME NEW q \in Run PROVE Promised(run[q])'
  <2>1. Promised(run'[q])
    BY <1>1 DEF IndInv
  <2>. QED
    BY <2>1 DEF Promised, current, availableAfter
<1>. QED
  BY <1>1, <1>2 DEF IndInv, build, availableAfter

LEMMA NextInv == IndInv /\ [Next]_vars => IndInv'
<1>. SUFFICES ASSUME IndInv, [Next]_vars PROVE IndInv'
  OBVIOUS
<1>0. Len(steps) \in Nat
  BY LenProperties DEF IndInv
<1>1. ASSUME NEW r \in Run, execute(r) PROVE IndInv'
  BY <1>1, ExecutePromised, OneRun DEF execute
<1>2. ASSUME NEW r \in Run, proceed(r) PROVE IndInv'
  <2>1. PICK puts \in SUBSET Key :
          LET x == [run[r] EXCEPT !.ctx = @ \cup puts]
          IN  run' = [run EXCEPT ![r] =
                        IF x.part < Len(steps[current(x)].parts) THEN [x EXCEPT !.part = @ + 1]
                        ELSE finish(x)]
    BY <1>2 DEF proceed
  <2>. DEFINE x == [run[r] EXCEPT !.ctx = @ \cup puts]
  <2>2. Promised(x) /\ x.pc = "step"
    BY <1>2, PutPromised DEF proceed, IndInv
  <2>. HIDE DEF x
  <2>3. Promised([x EXCEPT !.part = @ + 1]) /\ Promised(finish(x))
    BY <1>0, <2>2, NextPartPromised, FinishPromised
  <2>4. run' = [run EXCEPT ![r] = [x EXCEPT !.part = @ + 1]] \/ run' = [run EXCEPT ![r] = finish(x)]
    BY <2>1 DEF x
  <2>. QED
    BY <1>2, <2>3, <2>4, OneRun DEF proceed
<1>3. ASSUME NEW r \in Run, throw(r) PROVE IndInv'
  <2>1. PICK puts \in SUBSET Key :
          LET x == [run[r] EXCEPT !.ctx = @ \cup puts]
          IN  run' = [run EXCEPT ![r] = [fail(x) EXCEPT
                        !.errorLog = Append(@, <<current(x) - 1, current(x)>>)]]
    BY <1>3 DEF throw
  <2>. DEFINE x == [run[r] EXCEPT !.ctx = @ \cup puts]
              y == [fail(x) EXCEPT !.errorLog = Append(@, <<current(x) - 1, current(x)>>)]
  <2>2. Promised(x) /\ x.pc = "step"
    BY <1>3, PutPromised DEF throw, IndInv
  <2>3. run' = [run EXCEPT ![r] = y]
    BY <2>1
  <2>. HIDE DEF x
  <2>4. SameData(x, y) /\ y.pc = "failed"
    BY <2>2, ThrowSame DEF Promised
  <2>. HIDE DEF y
  <2>5. Promised(y)
    BY <2>2, <2>4, FailPromised
  <2>. QED
    BY <1>3, <2>3, <2>5, OneRun DEF throw
<1>4. CASE setStrictMode \/ setStateLogger \/ UNCHANGED vars
  <2>1. UNCHANGED <<steps, initially, run>>
    BY <1>4 DEF setStrictMode, setStateLogger, vars
  <2>. QED
    BY <2>1 DEF IndInv, build, availableAfter, Promised, current
<1>. QED
  BY <1>1, <1>2, <1>3, <1>4 DEF Next

(* build() has seen to it that what is available covers what is required.  *)
LEMMA PromiseKept == IndInv => StrictKeepsThePromise
<1>. SUFFICES ASSUME IndInv, NEW r \in Run,
                     run[r].strictSoFar, initially \subseteq run[r].given, run[r].pc # "idle"
              PROVE  /\ availableAfter(Len(run[r].completed)) \subseteq run[r].ctx
                     /\ run[r].pc = "step" => steps[current(run[r])].requires \subseteq run[r].ctx
  BY DEF StrictKeepsThePromise
<1>. DEFINE n == Len(run[r].completed)
<1>1. availableAfter(n) \subseteq run[r].ctx
  BY DEF IndInv, Promised
<1>2. ASSUME run[r].pc = "step" PROVE steps[current(run[r])].requires \subseteq availableAfter(n)
  <2>1. n \in Nat /\ current(run[r]) = n + 1 /\ n + 1 <= Len(steps)
    BY <1>2, LenProperties DEF IndInv, Promised, IsExecution, current
  <2>2. Len(steps) \in Nat /\ DOMAIN steps = 1 .. Len(steps)
    BY LenProperties DEF IndInv
  <2>3. n + 1 \in DOMAIN steps /\ (n + 1) - 1 = n
    BY <2>1, <2>2
  <2>. QED
    BY <2>1, <2>3 DEF IndInv, build
<1>. QED
  BY <1>1, <1>2

(* api-cookbook.md, setStrictMode: in an execution that got its initial    *)
(* data and was checked after every step, the step that runs has what it   *)
(* requires, though steps put less than they declare and the settings of   *)
(* the pipeline are changed at any time.                                   *)
THEOREM StrictModeKeepsThePromise == Spec => []StrictKeepsThePromise
BY InitInv, NextInv, PromiseKept, PTL DEF Spec

-----------------------------------------------------------------------------
(* What the exception and the logs of an execution tell.                   *)

Entry == Nat \X SUBSET Key

Logged(l) == UNION {l[i][2] : i \in DOMAIN l}

(* The entries come in the order of their steps, none later than step n,   *)
(* and no key twice.                                                       *)
LogOK(l, n) ==
    /\ l \in Seq(Entry)
    /\ \A i \in DOMAIN l : l[i][1] <= n
    /\ \A i, j \in DOMAIN l : i < j => l[i][1] < l[j][1] /\ l[i][2] \cap l[j][2] = {}

upTo(n) == [i \in 1..n |-> i]
announced(n) == [i \in 1..n |-> <<i - 1, i>>]

(* While a step runs, it is the last that was announced, the keys before   *)
(* it hold all that is logged, and with a logger all along nothing else    *)
(* but what the caller gave.                                               *)
Told(x) ==
    /\ IsExecution(x)
    /\ x.given \subseteq x.ctx /\ x.ctx \subseteq Key
    /\ x.completed = upTo(Len(x.completed))
    /\ LogOK(x.stateLog, Len(x.completed))
    /\ Logged(x.stateLog) \subseteq x.ctx \ x.given
    /\ x.pc = "idle" => x = Idle
    /\ x.pc = "step" =>
         /\ x.transitions = announced(current(x))
         /\ x.errorLog = <<>>
         /\ x.hasBefore => /\ x.keysBefore \subseteq x.ctx
                           /\ x.given \cup Logged(x.stateLog) \subseteq x.keysBefore
         /\ x.loggedSoFar => x.hasBefore /\ Logged(x.stateLog) = x.keysBefore \ x.given
    /\ x.pc = "failed" =>
         /\ x.failedStep = current(x)
         /\ x.transitions = announced(x.failedStep)
         /\ \/ x.errorLog = <<<<x.failedStep - 1, x.failedStep>>>>
            \/ x.errorLog = <<>> /\ ~(steps[x.failedStep].produces \subseteq x.ctx)
    /\ (x.pc = "done" /\ x.loggedSoFar) => Logged(x.stateLog) = x.ctx \ x.given

LEMMA LogGrows ==
    ASSUME NEW n \in Nat, NEW l, LogOK(l, n), NEW keys \in SUBSET Key, Logged(l) \cap keys = {}
    PROVE  /\ LogOK(Append(l, <<n + 1, keys>>), n + 1)
           /\ Logged(Append(l, <<n + 1, keys>>)) = Logged(l) \cup keys
<1>. DEFINE e == <<n + 1, keys>>
            m == Append(l, e)
<1>0. l \in Seq(Entry) /\ Len(l) \in Nat /\ DOMAIN l = 1 .. Len(l)
  BY LenProperties DEF LogOK
<1>1. e \in Entry /\ e[1] = n + 1 /\ e[2] = keys
  BY DEF Entry
<1>. HIDE DEF e
<1>2. /\ m \in Seq(Entry) /\ DOMAIN m = 1 .. (Len(l) + 1)
      /\ m[Len(l) + 1] = e
      /\ \A i \in DOMAIN l : m[i] = l[i]
  BY <1>0, <1>1, AppendProperties, LenProperties
<1>. HIDE DEF m
<1>3. DOMAIN m = DOMAIN l \cup {Len(l) + 1}
  BY <1>0, <1>2
<1>4. Logged(m) = Logged(l) \cup keys
  <2>1. ASSUME NEW k PROVE k \in Logged(m) <=> k \in Logged(l) \/ k \in keys
    <3>1. k \in Logged(m) <=> \E i \in DOMAIN m : k \in m[i][2]
      BY DEF Logged
    <3>2. k \in Logged(l) <=> \E i \in DOMAIN l : k \in l[i][2]
      BY DEF Logged
    <3>3. (\E i \in DOMAIN m : k \in m[i][2]) <=> (\E i \in DOMAIN l : k \in l[i][2]) \/ k \in keys
      BY <1>1, <1>2, <1>3
    <3>. QED
      BY <3>1, <3>2, <3>3
  <2>. QED
    BY <2>1
<1>5. \A i \in DOMAIN m : m[i][1] <= n + 1
  <2>1. \A i \in DOMAIN l : m[i][1] <= n /\ m[i][1] \in Nat
    BY <1>0, <1>2 DEF LogOK, Entry
  <2>. QED
    BY <1>1, <1>2, <1>3, <2>1
<1>6. ASSUME NEW i \in DOMAIN m, NEW j \in DOMAIN m, i < j
      PROVE  m[i][1] < m[j][1] /\ m[i][2] \cap m[j][2] = {}
  <2>1. i \in DOMAIN l
    BY <1>0, <1>2, <1>6
  <2>2. CASE j \in DOMAIN l
    BY <1>2, <1>6, <2>1, <2>2 DEF LogOK
  <2>3. CASE j = Len(l) + 1
    <3>1. l[i][1] <= n /\ l[i][1] \in Nat /\ l[i][2] \subseteq Logged(l)
      BY <1>0, <2>1 DEF LogOK, Entry, Logged
    <3>. QED
      BY <1>1, <1>2, <2>1, <2>3, <3>1
  <2>. QED
    BY <1>3, <2>2, <2>3
<1>. QED
  BY <1>2, <1>4, <1>5, <1>6 DEF LogOK, m, e

LEMMA LogStays ==
    ASSUME NEW n \in Nat, NEW l, LogOK(l, n)
    PROVE  LogOK(l, n + 1)
<1>1. \A i \in DOMAIN l : l[i][1] \in Nat
  BY LenProperties DEF LogOK, Entry
<1>. QED
  BY <1>1 DEF LogOK

LEMMA NextUpTo ==
    ASSUME NEW n \in Nat
    PROVE  /\ Append(upTo(n), n + 1) = upTo(n + 1)
           /\ Append(announced(n), <<n, n + 1>>) = announced(n + 1)
           /\ Len(upTo(n)) = n
<1>1. /\ upTo(n) \in [1 .. n -> Nat] /\ announced(n) \in [1 .. n -> Nat \X Nat]
  BY DEF upTo, announced
<1>2. upTo(n) \in Seq(Nat) /\ announced(n) \in Seq(Nat \X Nat) /\ Len(upTo(n)) = n /\ Len(announced(n)) = n
  BY <1>1
<1>. QED
  BY <1>2 DEF upTo, announced

(* Between two steps: all that was brought is logged, if it always was.    *)
Between(x) ==
    /\ IsExecution(x)
    /\ x.given \subseteq x.ctx /\ x.ctx \subseteq Key
    /\ x.completed = upTo(Len(x.completed))
    /\ x.transitions = announced(Len(x.completed))
    /\ x.errorLog = <<>>
    /\ LogOK(x.stateLog, Len(x.completed))
    /\ Logged(x.stateLog) \subseteq x.ctx \ x.given
    /\ x.loggedSoFar => Logged(x.stateLog) = x.ctx \ x.given

LEMMA EmptyLog == LogOK(<<>>, 0) /\ Logged(<<>>) = {} /\ <<>> = upTo(0) /\ <<>> = announced(0)
<1>1. <<>> \in Seq(Entry) /\ DOMAIN <<>> = {} /\ 1 .. 0 = {}
  OBVIOUS
<1>. QED
  BY <1>1 DEF LogOK, Logged, upTo, announced

LEMMA IdleTold == Told(Idle)
<1>1. /\ Idle.given = {} /\ Idle.ctx = {} /\ Idle.completed = <<>> /\ Idle.stateLog = <<>>
      /\ Idle.pc = "idle" /\ IsExecution(Idle)
  BY DEF Idle, IsExecution, Field
<1>2. Len(<<>>) = 0
  OBVIOUS
<1>. HIDE DEF Idle
<1>. QED
  BY <1>1, <1>2, EmptyLog DEF Told

LEMMA BeginTold ==
    ASSUME NEW x, Between(x)
    PROVE  Told(begin(x, current(x)))
<1>. DEFINE n == Len(x.completed)
            y == begin(x, current(x))
<1>0. n \in Nat /\ current(x) = n + 1 /\ current(x) - 1 = n /\ IsExecution(x)
  BY LenProperties DEF Between, IsExecution, current
<1>1. CASE current(x) > Len(steps)
  <2>1. /\ y.pc = "done" /\ y.given = x.given /\ y.ctx = x.ctx /\ y.completed = x.completed
        /\ y.stateLog = x.stateLog /\ y.loggedSoFar = x.loggedSoFar /\ IsExecution(y)
    BY <1>0, <1>1 DEF begin, IsExecution, Field
  <2>. HIDE DEF y
  <2>. QED
    BY <2>1 DEF Told, Between, y
<1>2. CASE ~(current(x) > Len(steps))
  <2>1. /\ y.pc = "step" /\ y.given = x.given /\ y.ctx = x.ctx /\ y.completed = x.completed
        /\ y.transitions = Append(x.transitions, <<n, n + 1>>) /\ y.errorLog = x.errorLog
        /\ y.stateLog = x.stateLog /\ y.loggedSoFar = (x.loggedSoFar /\ stateLogger)
        /\ y.hasBefore = stateLogger /\ y.keysBefore = IF stateLogger THEN x.ctx ELSE {}
        /\ IsExecution(y)
    BY <1>0, <1>2 DEF begin, IsExecution, Field
  <2>. HIDE DEF y
  <2>2. y.transitions = announced(current(y))
    BY <1>0, <2>1, NextUpTo DEF Between, current
  <2>3. y.hasBefore => /\ y.keysBefore \subseteq y.ctx
                       /\ y.given \cup Logged(y.stateLog) \subseteq y.keysBefore
    BY <2>1 DEF Between
  <2>4. y.loggedSoFar => y.hasBefore /\ Logged(y.stateLog) = y.keysBefore \ y.given
    BY <2>1 DEF Between
  <2>. QED
    BY <2>1, <2>2, <2>3, <2>4 DEF Told, Between, y
<1>. QED
  BY <1>1, <1>2

LEMMA ExecuteTold ==
    ASSUME NEW data \in SUBSET Key
    PROVE  Told(begin([Idle EXCEPT !.given = data, !.ctx = data], 1))
<1>. DEFINE x == [Idle EXCEPT !.given = data, !.ctx = data]
<1>0. /\ IsExecution(Idle) /\ Idle.completed = <<>> /\ Idle.transitions = <<>>
      /\ Idle.errorLog = <<>> /\ Idle.stateLog = <<>>
  BY DEF Idle, IsExecution, Field
<1>1. /\ IsExecution(x) /\ x.given = data /\ x.ctx = data /\ x.completed = <<>>
      /\ x.transitions = <<>> /\ x.errorLog = <<>> /\ x.stateLog = <<>>
  <2>. HIDE DEF Idle
  <2>. QED
    BY <1>0 DEF IsExecution, Field
<1>. HIDE DEF x
<1>2. Len(x.completed) = 0 /\ current(x) = 1
  BY <1>1 DEF current
<1>3. Between(x)
  BY <1>1, <1>2, EmptyLog DEF Between
<1>4. Told(begin(x, 1))
  BY <1>2, <1>3, BeginTold
<1>. QED
  BY <1>4 DEF x

LEMMA PutTold ==
    ASSUME NEW x, Told(x), x.pc = "step", NEW puts \in SUBSET Key, NEW y, y = [x EXCEPT !.ctx = @ \cup puts]
    PROVE  Told(y) /\ y.pc = "step"
<1>1. /\ IsExecution(y) /\ y.ctx = x.ctx \cup puts /\ y.given = x.given /\ y.pc = x.pc
      /\ y.completed = x.completed /\ y.stateLog = x.stateLog /\ y.transitions = x.transitions
      /\ y.errorLog = x.errorLog /\ y.hasBefore = x.hasBefore /\ y.keysBefore = x.keysBefore
      /\ y.loggedSoFar = x.loggedSoFar
  BY DEF Told, IsExecution, Field
<1>. QED
  BY <1>1 DEF Told, current

LEMMA NextPartTold ==
    ASSUME NEW x, Told(x), x.pc = "step", NEW y, y = [x EXCEPT !.part = @ + 1]
    PROVE  Told(y)
<1>1. /\ IsExecution(y) /\ y.ctx = x.ctx /\ y.given = x.given /\ y.pc = x.pc
      /\ y.completed = x.completed /\ y.stateLog = x.stateLog /\ y.transitions = x.transitions
      /\ y.errorLog = x.errorLog /\ y.hasBefore = x.hasBefore /\ y.keysBefore = x.keysBefore
      /\ y.loggedSoFar = x.loggedSoFar
  BY DEF Told, IsExecution, Field
<1>. QED
  BY <1>1 DEF Told, current

(* A step that fails is the one that was announced last.                   *)
LEMMA FailTold ==
    ASSUME NEW x, Told(x), x.pc = "step"
    PROVE  /\ ~(steps[current(x)].produces \subseteq x.ctx) => Told(fail(x))
           /\ Told([fail(x) EXCEPT !.errorLog = Append(@, <<current(x) - 1, current(x)>>)])
<1>. DEFINE y == fail(x)
            e == <<current(x) - 1, current(x)>>
            z == [y EXCEPT !.errorLog = Append(@, e)]
<1>1. /\ IsExecution(y) /\ y.ctx = x.ctx /\ y.given = x.given /\ y.pc = "failed"
      /\ y.completed = x.completed /\ y.stateLog = x.stateLog /\ y.transitions = x.transitions
      /\ y.errorLog = <<>> /\ y.failedStep = current(x)
  BY DEF Told, IsExecution, Field, fail
<1>e. Append(<<>>, e) = <<e>>
  <2>. HIDE DEF e
  <2>. QED
    OBVIOUS
<1>2. /\ IsExecution(z) /\ z.ctx = x.ctx /\ z.given = x.given /\ z.pc = "failed"
      /\ z.completed = x.completed /\ z.stateLog = x.stateLog /\ z.transitions = x.transitions
      /\ z.errorLog = <<e>> /\ z.failedStep = current(x)
  <2>. HIDE DEF y, e
  <2>1. /\ IsExecution(z) /\ z.ctx = y.ctx /\ z.given = y.given /\ z.pc = y.pc
        /\ z.completed = y.completed /\ z.stateLog = y.stateLog /\ z.transitions = y.transitions
        /\ z.errorLog = Append(y.errorLog, e) /\ z.failedStep = y.failedStep
    BY <1>1 DEF IsExecution, Field
  <2>. HIDE DEF z
  <2>. QED
    BY <1>1, <1>e, <2>1
<1>. HIDE DEF y, z
<1>3. current(y) = current(x) /\ current(z) = current(x)
  BY <1>1, <1>2 DEF current
<1>4. ~(steps[current(x)].produces \subseteq x.ctx) => Told(y)
  BY <1>1, <1>3 DEF Told
<1>5. Told(z)
  BY <1>2, <1>3 DEF Told
<1>. QED
  BY <1>4, <1>5 DEF y, z

(* A step that completes logs what it brought, as far as its logger knows. *)
LEMMA FinishTold ==
    ASSUME NEW x, Told(x), x.pc = "step"
    PROVE  Told(finish(x))
<1>. DEFINE n == Len(x.completed)
            y == logState(x)
            z == [y EXCEPT !.completed = Append(@, current(x)), !.strictSoFar = @ /\ strict]
<1>0. n \in Nat /\ current(x) = n + 1 /\ IsExecution(x)
  BY LenProperties DEF Told, IsExecution, current
<1>1. CASE strict /\ ~(steps[current(x)].produces \subseteq x.ctx)
  BY <1>1, FailTold DEF finish
<1>2. CASE ~(strict /\ ~(steps[current(x)].produces \subseteq x.ctx))
  <2>1. finish(x) = begin(z, current(x) + 1)
    BY <1>2 DEF finish
  <2>2. /\ IsExecution(y) /\ y.ctx = x.ctx /\ y.given = x.given /\ y.completed = x.completed
        /\ y.transitions = x.transitions /\ y.errorLog = x.errorLog
        /\ y.stateLog = IF newKeys(x) = {} THEN x.stateLog
                        ELSE Append(x.stateLog, <<n + 1, newKeys(x)>>)
        /\ y.loggedSoFar = (x.loggedSoFar /\ stateLogger /\ x.hasBefore)
    BY <1>0 DEF logState, IsExecution, Field
  <2>. HIDE DEF y
  <2>3. /\ z = [f \in Field |-> z[f]] /\ z.ctx = x.ctx /\ z.given = x.given
        /\ z.completed = Append(x.completed, n + 1)
        /\ z.transitions = x.transitions /\ z.errorLog = x.errorLog
        /\ z.stateLog = y.stateLog /\ z.loggedSoFar = y.loggedSoFar
    BY <1>0, <2>2 DEF IsExecution, Field
  <2>. HIDE DEF z
  <2>4. /\ z.completed = upTo(n + 1) /\ Len(z.completed) = n + 1 /\ z.completed \in Seq(Nat)
        /\ z.transitions = announced(n + 1)
    <3>1. x.completed = upTo(n) /\ x.completed \in Seq(Nat)
      BY DEF Told, IsExecution
    <3>2. x.transitions = announced(n + 1)
      <4>1. x.transitions = announced(current(x))
        BY DEF Told
      <4>. QED
        BY <1>0, <4>1
    <3>3. Append(upTo(n), n + 1) = upTo(n + 1)
      BY <1>0, NextUpTo
    <3>4. Len(upTo(n + 1)) = n + 1
      <4>1. n + 1 \in Nat
        BY <1>0
      <4>. HIDE DEF n
      <4>. QED
        BY <4>1, NextUpTo
    <3>5. Append(x.completed, n + 1) \in Seq(Nat)
      BY <1>0, <3>1, AppendProperties
    <3>. HIDE DEF n, upTo, announced
    <3>. QED
      BY <2>3, <3>1, <3>2, <3>3, <3>4, <3>5
  <2>5. newKeys(x) \in SUBSET Key /\ Logged(x.stateLog) \cap newKeys(x) = {}
        /\ newKeys(x) \subseteq x.ctx \ x.given
    BY DEF newKeys, Told
  <2>6. LogOK(z.stateLog, n + 1) /\ Logged(z.stateLog) = Logged(x.stateLog) \cup newKeys(x)
    <3>1. LogOK(x.stateLog, n)
      BY DEF Told
    <3>. QED
      BY <1>0, <2>2, <2>3, <2>5, <3>1, LogGrows, LogStays
  <2>7. z.loggedSoFar => Logged(z.stateLog) = z.ctx \ z.given
    <3>. SUFFICES ASSUME x.loggedSoFar, stateLogger, x.hasBefore
                  PROVE  Logged(z.stateLog) = x.ctx \ x.given
      BY <2>2, <2>3
    <3>1. /\ Logged(x.stateLog) = x.keysBefore \ x.given
          /\ x.keysBefore \subseteq x.ctx /\ x.given \subseteq x.keysBefore
      BY DEF Told
    <3>2. newKeys(x) = x.ctx \ x.keysBefore
      BY DEF newKeys
    <3>. QED
      BY <2>6, <3>1, <3>2
  <2>8. Between(z)
    <3>1. x.given \subseteq x.ctx /\ x.ctx \subseteq Key /\ x.errorLog = <<>>
          /\ Logged(x.stateLog) \subseteq x.ctx \ x.given
      BY DEF Told
    <3>. QED
      BY <2>3, <2>4, <2>5, <2>6, <2>7, <3>1 DEF Between, IsExecution
  <2>9. current(z) = current(x) + 1
    BY <1>0, <2>4 DEF current
  <2>. QED
    BY <2>1, <2>8, <2>9, BeginTold
<1>. QED
  BY <1>1, <1>2

-----------------------------------------------------------------------------
StoryInv ==
    /\ run = [r \in Run |-> run[r]]
    /\ \A r \in Run : Told(run[r])

(* One execution goes on.                                                  *)
LEMMA OneTold ==
    ASSUME StoryInv, NEW r \in Run, NEW x, Told(x), run' = [run EXCEPT ![r] = x], UNCHANGED steps
    PROVE  StoryInv'
<1>1. /\ run' = [q \in Run |-> run'[q]] /\ run'[r] = x
      /\ \A q \in Run \ {r} : run'[q] = run[q]
  BY DEF StoryInv
<1>2. ASSUME NEW q \in Run PROVE Told(run[q])'
  <2>1. Told(run'[q])
    BY <1>1 DEF StoryInv
  <2>. QED
    BY <2>1 DEF Told, current
<1>. QED
  BY <1>1, <1>2 DEF StoryInv

LEMMA NextStory == StoryInv /\ [Next]_vars => StoryInv'
<1>. SUFFICES ASSUME StoryInv, [Next]_vars PROVE StoryInv'
  OBVIOUS
<1>1. ASSUME NEW r \in Run, execute(r) PROVE StoryInv'
  BY <1>1, ExecuteTold, OneTold DEF execute
<1>2. ASSUME NEW r \in Run, proceed(r) PROVE StoryInv'
  <2>1. PICK puts \in SUBSET Key :
          LET x == [run[r] EXCEPT !.ctx = @ \cup puts]
          IN  run' = [run EXCEPT ![r] =
                        IF x.part < Len(steps[current(x)].parts) THEN [x EXCEPT !.part = @ + 1]
                        ELSE finish(x)]
    BY <1>2 DEF proceed
  <2>. DEFINE x == [run[r] EXCEPT !.ctx = @ \cup puts]
  <2>2. Told(x) /\ x.pc = "step"
    BY <1>2, PutTold DEF proceed, StoryInv
  <2>. HIDE DEF x
  <2>3. Told([x EXCEPT !.part = @ + 1]) /\ Told(finish(x))
    BY <2>2, NextPartTold, FinishTold
  <2>4. run' = [run EXCEPT ![r] = [x EXCEPT !.part = @ + 1]] \/ run' = [run EXCEPT ![r] = finish(x)]
    BY <2>1 DEF x
  <2>. QED
    BY <1>2, <2>3, <2>4, OneTold DEF proceed
<1>3. ASSUME NEW r \in Run, throw(r) PROVE StoryInv'
  <2>1. PICK puts \in SUBSET Key :
          LET x == [run[r] EXCEPT !.ctx = @ \cup puts]
          IN  run' = [run EXCEPT ![r] = [fail(x) EXCEPT
                        !.errorLog = Append(@, <<current(x) - 1, current(x)>>)]]
    BY <1>3 DEF throw
  <2>. DEFINE x == [run[r] EXCEPT !.ctx = @ \cup puts]
              y == [fail(x) EXCEPT !.errorLog = Append(@, <<current(x) - 1, current(x)>>)]
  <2>2. Told(x) /\ x.pc = "step"
    BY <1>3, PutTold DEF throw, StoryInv
  <2>3. run' = [run EXCEPT ![r] = y]
    BY <2>1
  <2>. HIDE DEF x
  <2>4. Told(y)
    BY <2>2, FailTold
  <2>. HIDE DEF y
  <2>. QED
    BY <1>3, <2>3, <2>4, OneTold DEF throw
<1>4. CASE setStrictMode \/ setStateLogger \/ UNCHANGED vars
  <2>1. UNCHANGED <<steps, run>>
    BY <1>4 DEF setStrictMode, setStateLogger, vars
  <2>. QED
    BY <2>1 DEF StoryInv, Told, current
<1>. QED
  BY <1>1, <1>2, <1>3, <1>4 DEF Next

(* What the logs tell is what the property asks of them.                   *)
LEMMA ToldStory == StoryInv => StoryIsTrue
<1>. SUFFICES ASSUME StoryInv, NEW r \in Run, NEW x, x = run[r]
              PROVE  /\ x.pc = "failed" =>
                          /\ x.completed = [i \in 1..(x.failedStep - 1) |-> i]
                          /\ x.transitions = [i \in 1..x.failedStep |-> <<i - 1, i>>]
                          /\ \/ x.errorLog = <<<<x.failedStep - 1, x.failedStep>>>>
                             \/ x.errorLog = <<>> /\ ~(steps[x.failedStep].produces \subseteq x.ctx)
                     /\ Logged(x.stateLog) \subseteq x.ctx \ x.given
                     /\ \A i, j \in DOMAIN x.stateLog :
                          i < j => /\ x.stateLog[i][1] < x.stateLog[j][1]
                                   /\ x.stateLog[i][2] \cap x.stateLog[j][2] = {}
                     /\ (x.pc = "done" /\ x.loggedSoFar) => Logged(x.stateLog) = x.ctx \ x.given
  BY DEF StoryIsTrue, FailureIsLocated, StateLogIsExact, Logged
<1>1. Told(x)
  BY DEF StoryInv
<1>2. ASSUME x.pc = "failed" PROVE x.failedStep - 1 = Len(x.completed)
  BY <1>1, <1>2, LenProperties DEF Told, IsExecution, current
<1>. QED
  BY <1>1, <1>2 DEF Told, LogOK, upTo, announced

(* Which step failed, which completed, and what the three loggers heard    *)
(* agree with what happened, for every pipeline and any executions, when   *)
(* steps throw half-way and loggers come and go.                           *)
THEOREM TheStoryIsTrue == Spec => []StoryIsTrue
<1>1. Init => StoryInv
  BY IdleTold DEF Init, StoryInv
<1>. QED
  BY <1>1, NextStory, ToldStory, PTL DEF Spec
=============================================================================
