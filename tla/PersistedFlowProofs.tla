------------------------- MODULE PersistedFlowProofs -------------------------
(***************************************************************************)
(* For any definition and any number of workers, crashes and versions, the *)
(* log explains every change of the row.  A call knows the stored flow as  *)
(* it was at some version up to the present one, and a version says all    *)
(* about the row: so a save that the store admits replaces what the call   *)
(* has loaded.  And what a call has made of its instance is in the log     *)
(* when it awaits, or was stored by a move whose enter action threw.       *)
(***************************************************************************)
EXTENDS PersistedFlow, TLAPS

(* A call has the fields it began with.                                    *)
Field == {"pc", "base", "x", "t", "rejects"}

IsCall(k) == k = [f \in Field |-> k[f]]

(* What the call has loaded is the row, or an older version of it.         *)
KnowsRow(k) ==
    k.pc # "idle" => /\ row # NoRow
                     /\ k.base.version \in Nat /\ k.base.version <= row.version
                     /\ k.base.version = row.version => k.base = row

Locked ==
    /\ work = [w \in Worker |-> work[w]]
    /\ row # NoRow => row.version \in Nat
    /\ \A w \in Worker : IsCall(work[w]) /\ KnowsRow(work[w])

-----------------------------------------------------------------------------
(* The row a flow is stored in has a version of its own.                   *)
LEMMA StoredVersion ==
    \A x, version : stored(x, version).version = version /\ stored(x, version) # NoRow
<1> TAKE x, version
<1>1. "version" \in DOMAIN stored(x, version) /\ stored(x, version).version = version
  BY DEF stored
<1>2. DOMAIN NoRow = {}
  BY DEF NoRow
<1> QED BY <1>1, <1>2

LEMMA IdleCall == IsCall(Idle) /\ KnowsRow(Idle)
  BY DEF IsCall, Field, Idle, KnowsRow

(* One call moves on and the row stays, or is created by it.               *)
LEMMA OneCall ==
    ASSUME Locked, NEW w \in Worker, NEW n, IsCall(n), KnowsRow(n)',
           work' = [work EXCEPT ![w] = n], row' = row \/ row = NoRow,
           row' # NoRow => row'.version \in Nat
    PROVE  Locked'
<1>1. /\ work' = [v \in Worker |-> work'[v]] /\ work'[w] = n
      /\ \A v \in Worker \ {w} : work'[v] = work[v]
  BY DEF Locked
<1>2. ASSUME NEW v \in Worker, v # w PROVE IsCall(work[v])' /\ KnowsRow(work[v])'
  <2>1. work'[v] = work[v] /\ IsCall(work[v]) /\ KnowsRow(work[v])
    BY <1>1, <1>2 DEF Locked
  <2> QED BY <2>1 DEF IsCall, KnowsRow
<1>3. IsCall(work[w])' /\ KnowsRow(work[w])'
  BY <1>1 DEF IsCall, KnowsRow
<1> QED BY <1>1, <1>2, <1>3 DEF Locked

(* A call that has loaded the row, now or earlier, keeps what it loaded.   *)
LEMMA CommitKnows ==
    ASSUME Locked, NEW w \in Worker, NEW k, IsCall(k), row' # NoRow,
           k.base = row' \/ (k.pc # "idle" /\ KnowsRow(k) /\ row' = row),
           row' = row \/ row = NoRow, row'.version \in Nat,
           NEW o, Commit(w, k, o)
    PROVE  Locked'
<1> DEFINE n == [k EXCEPT !.x = o.x, !.pc = o.pc]
<1>1. k = [f \in Field |-> k[f]]
  BY DEF IsCall
<1>2. n.base = k.base /\ n.pc = o.pc /\ IsCall(n)
  BY <1>1 DEF IsCall, Field
<1>3. work' = [work EXCEPT ![w] = n]
  BY DEF Commit
<1> HIDE DEF n
<1>4. KnowsRow(n)'
  BY <1>2 DEF KnowsRow
<1> QED BY <1>2, <1>3, <1>4, OneCall

LEMMA StartLocked == ASSUME Locked, NEW w \in Worker, Start(w) PROVE Locked'
<1> DEFINE k == [Idle EXCEPT !.base = row']
           o == chain(NewInstance(Name, now), {})
<1>1. row = NoRow /\ row' # NoRow /\ row'.version = 0
  BY StoredVersion DEF Start
<1>2. IsCall(k) /\ k.base = row'
  BY DEF IsCall, Field, Idle
<1>3. Commit(w, k, o)
  BY DEF Start
<1> HIDE DEF k, o
<1> QED BY <1>1, <1>2, <1>3, CommitKnows

LEMMA LoadLocked == ASSUME Locked, NEW w \in Worker, Load(w) PROVE Locked'
<1>1. row # NoRow /\ row' = row /\ row.version \in Nat
  BY DEF Load, loadForUpdate, Locked
<1>2. \E k, o : IsCall(k) /\ k.base = row /\ Commit(w, k, o)
  <2> DEFINE k == [Idle EXCEPT !.base = row]
  <2>1. IsCall(k) /\ k.base = row /\ \A t : IsCall([k EXCEPT !.t = t]) /\ [k EXCEPT !.t = t].base = row
    BY DEF IsCall, Field, Idle
  <2>2. (\E o : Commit(w, k, o)) \/ (\E t, o : Commit(w, [k EXCEPT !.t = t], o))
    BY DEF Load
  <2> HIDE DEF k
  <2> QED BY <2>1, <2>2
<1> QED BY <1>1, <1>2, CommitKnows

(* A call goes on from an await to the next one, or gives up.              *)
LEMMA AwaitLocked ==
    ASSUME Locked, NEW w \in Worker,
           GuardAnswers(w) \/ ProcessorSettles(w) \/ ChainSettles(w)
    PROVE  Locked'
<1> DEFINE k == work[w]
<1>1. k.pc # "idle" /\ row' = row /\ IsCall(k) /\ KnowsRow(k)
  BY DEF GuardAnswers, ProcessorSettles, ChainSettles, Locked
<1>2. row # NoRow /\ row.version \in Nat
  BY <1>1 DEF KnowsRow, Locked
<1>3. \/ \E o : Commit(w, k, o)
      \/ \E o : Commit(w, [k EXCEPT !.rejects = TRUE], o)
      \/ Commit(w, Idle, outcome(None, {}, "idle"))
  BY DEF GuardAnswers, ProcessorSettles, ChainSettles, ExternalTo, StepTo, TakeExit, Leave
<1>4. LET m == [k EXCEPT !.rejects = TRUE]
      IN  IsCall(m) /\ m.pc = k.pc /\ m.base = k.base
  BY <1>1 DEF IsCall, Field
<1>5. CASE \E o : Commit(w, k, o)
  <2> HIDE DEF k
  <2> QED BY <1>1, <1>2, <1>5, CommitKnows
<1>6. CASE \E o : Commit(w, [k EXCEPT !.rejects = TRUE], o)
  <2> DEFINE m == [k EXCEPT !.rejects = TRUE]
  <2>1. IsCall(m) /\ m.pc # "idle" /\ KnowsRow(m)
    BY <1>1, <1>4 DEF KnowsRow
  <2>2. \E o : Commit(w, m, o)
    BY <1>6
  <2> HIDE DEF k, m
  <2> QED BY <1>1, <1>2, <2>1, <2>2, CommitKnows
<1>7. CASE Commit(w, Idle, outcome(None, {}, "idle"))
  <2> DEFINE n == [Idle EXCEPT !.x = None, !.pc = "idle"]
  <2>1. work' = [work EXCEPT ![w] = n]
    BY <1>7 DEF Commit, outcome
  <2>2. IsCall(Idle)
    BY IdleCall
  <2> HIDE DEF Idle
  <2>3. IsCall(n) /\ n.pc = "idle"
    BY <2>2 DEF IsCall, Field
  <2> HIDE DEF n
  <2>4. KnowsRow(n)'
    BY <2>3 DEF KnowsRow
  <2> QED BY <1>1, <1>2, <2>1, <2>3, <2>4, OneCall
<1> QED BY <1>3, <1>5, <1>6, <1>7

(* A save gives the row a version that no call knows.                      *)
LEMMA SaveLocked == ASSUME Locked, NEW w \in Worker, Save(w) PROVE Locked'
<1>1. work' = [work EXCEPT ![w] = Idle] /\ KnowsRow(work[w]) /\ work[w].pc = "save"
  BY DEF Save, Locked
<1>2. row # NoRow /\ row.version \in Nat
  BY <1>1 DEF KnowsRow, Locked
<1>3. CASE row' = row
  <2>1. KnowsRow(Idle)'
    BY DEF KnowsRow, Idle
  <2> QED BY <1>1, <1>2, <1>3, <2>1, IdleCall, OneCall
<1>4. CASE row' = stored(work[w].x, row.version + 1)
  <2>1. row' # NoRow /\ row'.version = row.version + 1 /\ row'.version \in Nat
    BY <1>2, <1>4, StoredVersion
  <2>2. /\ work' = [v \in Worker |-> work'[v]] /\ work'[w] = Idle
        /\ \A v \in Worker \ {w} : work'[v] = work[v]
    BY <1>1 DEF Locked
  <2>3. ASSUME NEW v \in Worker PROVE IsCall(work[v])' /\ KnowsRow(work[v])'
    <3>1. CASE v = w
      BY <2>2, <3>1, IdleCall DEF IsCall, KnowsRow, Idle
    <3>2. CASE v # w
      <4>1. work'[v] = work[v] /\ IsCall(work[v]) /\ KnowsRow(work[v])
        BY <2>2, <3>2 DEF Locked
      <4> QED BY <1>2, <2>1, <4>1 DEF IsCall, KnowsRow
    <3> QED BY <3>1, <3>2
  <2> QED BY <2>1, <2>2, <2>3 DEF Locked
<1> QED BY <1>3, <1>4 DEF Save

LEMMA InitLocked == Init => Locked
  BY IdleCall DEF Init, Locked, Idle, KnowsRow

LEMMA NextLocked == Locked /\ [Next]_vars => Locked'
<1> SUFFICES ASSUME Locked, [Next]_vars PROVE Locked'
  OBVIOUS
<1>1. ASSUME NEW w \in Worker, Start(w) \/ Load(w) \/ Proceed(w) PROVE Locked'
  BY <1>1, StartLocked, LoadLocked, AwaitLocked, SaveLocked DEF Proceed
<1>2. ASSUME NEW w \in Worker, Crash(w) PROVE Locked'
  <2>1. work' = [work EXCEPT ![w] = Idle] /\ row' = row /\ (row # NoRow => row.version \in Nat)
    BY <1>2 DEF Crash, Locked
  <2>2. KnowsRow(Idle)'
    BY DEF KnowsRow, Idle
  <2> QED BY <2>1, <2>2, IdleCall, OneCall
<1>3. CASE UNCHANGED <<row, work>>
  BY <1>3 DEF Locked, IsCall, KnowsRow
<1>4. Tick \/ UNCHANGED vars => UNCHANGED <<row, work>>
  BY DEF Tick, vars
<1> QED BY <1>1, <1>2, <1>3, <1>4 DEF Next

(* Only a save of a call that knows the present row replaces it.           *)
LEMMA ReplacedByItsReader ==
    ASSUME Locked, Next, row # NoRow, row' # row
    PROVE  \E w \in Worker : Save(w) /\ work[w].base = row
<1>1. PICK w \in Worker : Save(w)
  BY DEF Next, Start, Load, Proceed, GuardAnswers, ProcessorSettles, ChainSettles, Crash, Tick
<1>2. isCurrent(w) /\ work[w].pc = "save"
  BY <1>1 DEF Save
<1>3. KnowsRow(work[w])
  BY DEF Locked
<1> QED BY <1>1, <1>2, <1>3 DEF isCurrent, KnowsRow

-----------------------------------------------------------------------------
(* The log.  R keeps to the pairs: it has, with the start of a pair, its   *)
(* end.                                                                    *)
Closed(R, pairs) == \A l \in pairs : l[1] \in R => l[2] \in R

IsInstance(x) == x = [f \in {"def", "state", "exit", "fails", "enteredAt", "last"} |-> x[f]]

(* The transition a call waits in is one from its state, and in a try      *)
(* block.                                                                  *)
Fits(t, s) ==
    t \in DOMAIN d.transitions /\ d.transitions[t].from = s /\ d.transitions[t].type # "sub_flow"

Explained(k, records) ==
    k.pc # "idle" => /\ IsInstance(k.x)
                     /\ k.base.exit = None
                     /\ leads(k.base.state, k.x.state, records \cup Unrecorded)
                     /\ k.pc \in {"guard", "process"} => Fits(k.t, k.x.state)

Logged ==
    /\ work = [w \in Worker |-> work[w]]
    /\ \A w \in Worker : IsCall(work[w]) /\ Explained(work[w], log)

(* The records of an outcome, and moves without one, lead from the state s *)
(* to that of its instance.                                                *)
Leads(s, o) ==
    /\ IsInstance(o.x)
    /\ \A R : s \in R /\ Closed(R, o.records) /\ Closed(R, Unrecorded) => o.x.state \in R

LEMMA NewIsInstance ==
    \A n, t : IsInstance(NewInstance(n, t)) /\ NewInstance(n, t).state = Def[n].initial
  BY DEF NewInstance, IsInstance

LEMMA RestoreIsInstance ==
    \A r : IsInstance(restore(r)) /\ restore(r).state = r.state
<1> TAKE r
<1>1. IsInstance(NewInstance(Name, now))
  BY NewIsInstance
<1> QED BY <1>1 DEF restore, IsInstance

LEMMA MoveIsInstance ==
    ASSUME NEW x, IsInstance(x), NEW s, NEW t
    PROVE  IsInstance(transitionTo(x, s, t)) /\ transitionTo(x, s, t).state = s
  BY DEF transitionTo, IsInstance

LEMMA CompleteIsInstance ==
    ASSUME NEW x, IsInstance(x), NEW e
    PROVE  IsInstance(complete(x, e)) /\ complete(x, e).state = x.state
  BY DEF complete, IsInstance

LEMMA RejectedIsInstance ==
    ASSUME NEW x, IsInstance(x)
    PROVE  IsInstance(incrementGuardFailure(x)) /\ incrementGuardFailure(x).state = x.state
  BY DEF incrementGuardFailure, IsInstance

(* The fields of an outcome.                                               *)
LEMMA OutcomeFields ==
    \A x, records, pc : /\ outcome(x, records, pc).x = x
                        /\ outcome(x, records, pc).records = records
                        /\ outcome(x, records, pc).pc = pc
  BY DEF outcome

LEMMA StayLeads ==
    ASSUME NEW x, IsInstance(x), NEW records, NEW pc
    PROVE  Leads(x.state, outcome(x, records, pc))
  BY OutcomeFields DEF Leads

LEMMA ChainOutcome ==
    ASSUME NEW x, IsInstance(x), NEW records
    PROVE  LET o == chain(x, records)
           IN  IsInstance(o.x) /\ o.x.state = x.state /\ o.records = records
<1>1. CASE isTerminal(x)
  BY <1>1, CompleteIsInstance, OutcomeFields DEF chain
<1>2. CASE ~isTerminal(x)
  BY <1>2, OutcomeFields DEF chain
<1> QED BY <1>1, <1>2

LEMMA MoveLeads ==
    ASSUME NEW x, IsInstance(x), NEW to
    PROVE  Leads(x.state, move(x, to))
<1> DEFINE y == transitionTo(x, to, now)
<1>1. IsInstance(y) /\ y.state = to
  BY MoveIsInstance
<1> HIDE DEF y
<1>2. move(x, to) = chain(y, {<<x.state, to>>})
  BY DEF move, y
<1>3. /\ IsInstance(move(x, to).x) /\ move(x, to).x.state = to
      /\ move(x, to).records = {<<x.state, to>>}
  BY <1>1, <1>2, ChainOutcome
<1> QED BY <1>3 DEF Leads, Closed

(* An action that throws leaves the flow where it was, or after a move     *)
(* without a record.                                                       *)
LEMMA ThrownLeads ==
    ASSUME NEW x, IsInstance(x), NEW t, Fits(t, x.state), NEW y \in thrown(x, d.transitions[t].to)
    PROVE  Leads(x.state, outcome(y, {}, "save"))
<1> DEFINE to == d.transitions[t].to
           z == transitionTo(x, to, now)
<1>1. IsInstance(z) /\ z.state = to
  BY MoveIsInstance
<1> HIDE DEF z
<1>2. y = x \/ (y = z /\ to \in d.enterActions)
  BY DEF thrown, z
<1>3. CASE y = x
  BY <1>3, StayLeads
<1>4. CASE y = z /\ to \in d.enterActions
  <2>1. <<x.state, to>> \in Unrecorded
    BY <1>4 DEF Fits, Unrecorded
  <2> HIDE DEF to
  <2>2. \A R : x.state \in R /\ Closed(R, Unrecorded) => to \in R
    BY <2>1 DEF Closed
  <2> QED BY <1>1, <1>4, <2>2, OutcomeFields DEF Leads
<1> QED BY <1>2, <1>3, <1>4

LEMMA ErrorLeads ==
    ASSUME NEW x, IsInstance(x), NEW fromState, NEW cause
    PROVE  Leads(x.state, handleError(x, fromState, cause))
<1> DEFINE target == ErrorTarget(d, fromState, cause)
           y == transitionTo(x, target, now)
           z == IF isTerminal(y) THEN complete(y, target) ELSE y
<1>1. CASE target = None
  <2>1. handleError(x, fromState, cause) = outcome(complete(x, "TERMINAL_ERROR"), {}, "save")
    BY <1>1 DEF handleError
  <2>2. IsInstance(complete(x, "TERMINAL_ERROR")) /\ complete(x, "TERMINAL_ERROR").state = x.state
    BY CompleteIsInstance
  <2> QED BY <2>1, <2>2, StayLeads
<1>2. CASE target # None
  <2>1. handleError(x, fromState, cause) = outcome(z, {<<x.state, target>>}, "save")
    BY <1>2 DEF handleError
  <2>2. IsInstance(z) /\ z.state = target
    <3>1. IsInstance(y) /\ y.state = target
      BY MoveIsInstance
    <3> HIDE DEF y
    <3> QED BY <3>1, CompleteIsInstance
  <2> HIDE DEF z, target
  <2>3. /\ handleError(x, fromState, cause).x = z
        /\ handleError(x, fromState, cause).records = {<<x.state, target>>}
    BY <2>1, OutcomeFields
  <2> QED BY <2>2, <2>3 DEF Leads, Closed
<1> QED BY <1>1, <1>2

LEMMA ErrorSaves ==
    ASSUME NEW x, NEW fromState, NEW cause
    PROVE  handleError(x, fromState, cause).pc = "save"
  BY OutcomeFields DEF handleError

(* A throw in a move, and the route the error takes.                       *)
LEMMA ThrownErrorLeads ==
    ASSUME NEW x, IsInstance(x), NEW t, Fits(t, x.state), NEW y \in thrown(x, d.transitions[t].to),
           NEW fromState, NEW cause
    PROVE  Leads(x.state, handleError(y, fromState, cause))
<1>1. Leads(x.state, outcome(y, {}, "save"))
  BY ThrownLeads
<1>2. IsInstance(y) /\ \A R : x.state \in R /\ Closed(R, Unrecorded) => y.state \in R
  BY <1>1, OutcomeFields DEF Leads, Closed
<1>3. Leads(y.state, handleError(y, fromState, cause))
  BY <1>2, ErrorLeads
<1> QED BY <1>2, <1>3 DEF Leads

LEMMA MoveAwaits ==
    ASSUME NEW x, NEW to
    PROVE  move(x, to).pc \in {"save", "chain"}
<1>1. \A y, records : chain(y, records).pc \in {"save", "chain"}
  BY OutcomeFields DEF chain
<1> QED BY <1>1 DEF move

-----------------------------------------------------------------------------
(* A call writes its records when it writes its instance.                  *)
LEMMA CommitLogged ==
    ASSUME Logged, NEW w \in Worker, NEW k, IsCall(k), NEW o, Commit(w, k, o), NEW s,
           o.pc # "idle" => /\ Leads(s, o)
                            /\ k.base.exit = None /\ leads(k.base.state, s, log \cup Unrecorded)
                            /\ o.pc \in {"guard", "process"} => Fits(k.t, o.x.state)
    PROVE  Logged'
<1> DEFINE n == [k EXCEPT !.x = o.x, !.pc = o.pc]
<1>1. IsCall(n) /\ n.x = o.x /\ n.pc = o.pc /\ n.base = k.base /\ n.t = k.t
  BY DEF IsCall, Field
<1>2. work' = [work EXCEPT ![w] = n] /\ log' = log \cup o.records
  BY DEF Commit
<1> HIDE DEF n
<1>3. /\ work' = [v \in Worker |-> work'[v]] /\ work'[w] = n
      /\ \A v \in Worker \ {w} : work'[v] = work[v]
  BY <1>2 DEF Logged
<1>4. \A s1, s2 : leads(s1, s2, log \cup Unrecorded) => leads(s1, s2, log' \cup Unrecorded)
  BY <1>2 DEF leads
<1>5. o.pc # "idle" => leads(k.base.state, o.x.state, log' \cup Unrecorded)
  <2> SUFFICES ASSUME o.pc # "idle", NEW R \in SUBSET d.states, k.base.state \in R,
                      \A l \in log' \cup Unrecorded : l[1] \in R => l[2] \in R
               PROVE  o.x.state \in R
    BY DEF leads
  <2>1. Closed(R, o.records) /\ Closed(R, Unrecorded) /\ \A l \in log \cup Unrecorded : l[1] \in R => l[2] \in R
    BY <1>2 DEF Closed
  <2>2. s \in R
    BY <2>1 DEF leads
  <2> QED BY <2>1, <2>2 DEF Leads
<1>6. Explained(n, log')
  BY <1>1, <1>5 DEF Explained, Leads
<1>7. ASSUME NEW v \in Worker PROVE IsCall(work'[v]) /\ Explained(work'[v], log')
  <2>1. CASE v = w
    BY <1>1, <1>3, <1>6, <2>1
  <2>2. CASE v # w
    <3>1. work'[v] = work[v] /\ IsCall(work[v]) /\ Explained(work[v], log)
      BY <1>3, <2>2 DEF Logged
    <3> QED BY <1>4, <3>1 DEF Explained
  <2> QED BY <2>1, <2>2
<1> QED BY <1>3, <1>7 DEF Logged

(* The call ends: it leaves its instance to the row, or to nobody.         *)
LEMMA EndLogged ==
    ASSUME Logged, NEW w \in Worker, work' = [work EXCEPT ![w] = Idle], log' = log
    PROVE  Logged'
<1>1. /\ work' = [v \in Worker |-> work'[v]] /\ work'[w] = Idle
      /\ \A v \in Worker \ {w} : work'[v] = work[v]
  BY DEF Logged
<1>2. Explained(Idle, log)
  BY DEF Explained, Idle
<1>3. \A v \in Worker : IsCall(work'[v]) /\ Explained(work'[v], log')
  BY <1>1, <1>2, IdleCall DEF Logged
<1> QED BY <1>1, <1>3 DEF Logged

LEMMA StartLogged == ASSUME Logged, NEW w \in Worker, Start(w) PROVE Logged'
<1> DEFINE x == NewInstance(Name, now)
           k == [Idle EXCEPT !.base = row']
           o == chain(x, {})
<1>1. IsInstance(x) /\ x.exit = None
  BY NewIsInstance DEF NewInstance
<1>2. k.base.state = x.state /\ k.base.exit = None
  <2>1. row' = stored(x, 0) /\ k.base = row'
    BY DEF Start, Idle
  <2> HIDE DEF x, k
  <2> QED BY <1>1, <2>1 DEF stored
<1>3. IsCall(k) /\ Commit(w, k, o)
  BY DEF IsCall, Field, Idle, Start
<1> HIDE DEF x, k
<1>4. IsInstance(o.x) /\ o.x.state = x.state /\ o.records = {} /\ o.pc \in {"save", "chain"}
  BY <1>1, ChainOutcome, OutcomeFields DEF chain
<1> HIDE DEF o
<1>5. Leads(x.state, o) /\ leads(k.base.state, x.state, log \cup Unrecorded)
  BY <1>2, <1>4 DEF Leads, leads
<1> QED BY <1>2, <1>3, <1>4, <1>5, CommitLogged

LEMMA LoadLogged == ASSUME Logged, NEW w \in Worker, Load(w) PROVE Logged'
<1> DEFINE k == [Idle EXCEPT !.base = row]
           x == restore(row)
<1>1. row.exit = None
  BY DEF Load, loadForUpdate
<1>2. \/ Commit(w, k, outcome(complete(x, "EXPIRED"), {}, "save"))
      \/ \E t \in externalsFrom(d, x.state) : Commit(w, [k EXCEPT !.t = t], outcome(x, {}, "guard"))
  BY DEF Load
<1>3. /\ IsCall(k) /\ k.base = row
      /\ \A t : IsCall([k EXCEPT !.t = t]) /\ [k EXCEPT !.t = t].base = row /\ [k EXCEPT !.t = t].t = t
  BY DEF IsCall, Field, Idle
<1>4. IsInstance(x) /\ x.state = row.state
  BY RestoreIsInstance
<1> HIDE DEF x, k
<1>5. IsInstance(complete(x, "EXPIRED")) /\ complete(x, "EXPIRED").state = row.state
  BY <1>4, CompleteIsInstance
<1>6. /\ Leads(row.state, outcome(complete(x, "EXPIRED"), {}, "save"))
      /\ Leads(row.state, outcome(x, {}, "guard"))
  BY <1>4, <1>5, StayLeads
<1>7. leads(row.state, row.state, log \cup Unrecorded)
  BY DEF leads
<1>8. CASE Commit(w, k, outcome(complete(x, "EXPIRED"), {}, "save"))
  <2> DEFINE o == outcome(complete(x, "EXPIRED"), {}, "save")
  <2>1. o.pc = "save" /\ Commit(w, k, o) /\ Leads(row.state, o)
    BY <1>6, <1>8, OutcomeFields
  <2> HIDE DEF o
  <2> QED BY <1>1, <1>3, <1>7, <2>1, CommitLogged
<1>9. ASSUME NEW t \in externalsFrom(d, x.state), Commit(w, [k EXCEPT !.t = t], outcome(x, {}, "guard"))
      PROVE  Logged'
  <2>1. Fits(t, x.state)
    BY DEF Fits, externalsFrom, ofType, transitionsFrom
  <2> DEFINE m == [k EXCEPT !.t = t]
             o == outcome(x, {}, "guard")
  <2>2. IsCall(m) /\ m.base = row /\ m.t = t /\ o.x = x /\ Commit(w, m, o) /\ Leads(row.state, o)
    BY <1>3, <1>6, <1>9, OutcomeFields
  <2> HIDE DEF m, o
  <2> QED BY <1>1, <1>7, <2>1, <2>2, CommitLogged
<1> QED BY <1>2, <1>8, <1>9

(* A call goes on with k from the state it waited in, along o.             *)
LEMMA GoesOn ==
    ASSUME Logged, NEW w \in Worker, work[w].pc # "idle", NEW o, Commit(w, work[w], o),
           Leads(work[w].x.state, o), o.pc \in {"guard", "process"} => Fits(work[w].t, o.x.state)
    PROVE  Logged'
<1> DEFINE k == work[w]
<1>1. IsCall(k) /\ k.base.exit = None /\ leads(k.base.state, k.x.state, log \cup Unrecorded)
  BY DEF Logged, Explained
<1> HIDE DEF k
<1>2. Commit(w, k, o) /\ Leads(k.x.state, o) /\ (o.pc \in {"guard", "process"} => Fits(k.t, o.x.state))
  BY DEF k
<1> QED BY <1>1, <1>2, CommitLogged

LEMMA LeaveLogged == ASSUME Logged, NEW w \in Worker, Leave(w) PROVE Logged'
<1>1. Commit(w, Idle, outcome(None, {}, "idle")) /\ outcome(None, {}, "idle").pc = "idle"
  BY OutcomeFields DEF Leave
<1> QED BY <1>1, IdleCall, CommitLogged

(* A move along a transition that fits, within a try block.                *)
LEMMA TryLogged ==
    ASSUME Logged, NEW w \in Worker, work[w].pc # "idle",
           NEW t, Fits(t, work[w].x.state),
           ExternalTo(w, work[w], d.transitions[t].to) \/ StepTo(w, work[w], d.transitions[t].to)
    PROVE  Logged'
<1> DEFINE k == work[w]
           to == d.transitions[t].to
<1>1. IsInstance(k.x)
  BY DEF Logged, Explained
<1>2. CASE Commit(w, k, move(k.x, to))
  <2>1. Leads(k.x.state, move(k.x, to)) /\ move(k.x, to).pc \in {"save", "chain"}
    BY <1>1, MoveLeads, MoveAwaits
  <2> QED BY <1>2, <2>1, GoesOn
<1>3. ASSUME NEW y \in thrown(k.x, to), NEW fromState, NEW cause,
             Commit(w, k, handleError(y, fromState, cause))
      PROVE  Logged'
  <2>1. Leads(k.x.state, handleError(y, fromState, cause)) /\ handleError(y, fromState, cause).pc = "save"
    BY <1>1, ThrownErrorLeads, ErrorSaves
  <2> QED BY <1>3, <2>1, GoesOn
<1> QED BY <1>2, <1>3 DEF ExternalTo, StepTo

LEMMA ExitLogged ==
    ASSUME Logged, NEW w \in Worker, work[w].pc # "idle", NEW to, TakeExit(w, work[w], to)
    PROVE  Logged'
<1>1. CASE Leave(w)
  BY <1>1, LeaveLogged
<1>2. CASE Commit(w, work[w], move(work[w].x, to))
  <2>1. IsInstance(work[w].x)
    BY DEF Logged, Explained
  <2>2. Leads(work[w].x.state, move(work[w].x, to)) /\ move(work[w].x, to).pc \in {"save", "chain"}
    BY <2>1, MoveLeads, MoveAwaits
  <2> QED BY <1>2, <2>2, GoesOn
<1> QED BY <1>1, <1>2 DEF TakeExit

LEMMA GuardLogged == ASSUME Logged, NEW w \in Worker, GuardAnswers(w) PROVE Logged'
<1> DEFINE k == work[w]
           m == [k EXCEPT !.rejects = TRUE]
           y == incrementGuardFailure(k.x)
           e == complete(k.x, "EXPIRED")
<1>1. /\ k.pc = "guard" /\ IsCall(k) /\ IsInstance(k.x) /\ Fits(k.t, k.x.state)
      /\ k.base.exit = None /\ leads(k.base.state, k.x.state, log \cup Unrecorded)
  BY DEF GuardAnswers, Logged, Explained
<1>2. IsCall(m) /\ m.base = k.base
  BY <1>1 DEF IsCall, Field
<1>3. IsInstance(y) /\ y.state = k.x.state /\ IsInstance(e) /\ e.state = k.x.state
  BY <1>1, RejectedIsInstance, CompleteIsInstance
<1>4. \/ Commit(w, k, outcome(k.x, {}, "process"))
      \/ ExternalTo(w, k, d.transitions[k.t].to)
      \/ Commit(w, k, handleError(y, y.state, None))
      \/ Commit(w, m, outcome(y, {}, "save"))
      \/ Commit(w, k, outcome(e, {}, "save"))
      \/ Leave(w)
  BY DEF GuardAnswers
<1>5. CASE Commit(w, k, outcome(k.x, {}, "process"))
  <2>1. Leads(k.x.state, outcome(k.x, {}, "process"))
    BY <1>1, StayLeads
  <2> QED BY <1>1, <1>5, <2>1, GoesOn, OutcomeFields
<1>6. CASE Commit(w, k, handleError(y, y.state, None))
  <2> HIDE DEF y
  <2>1. Leads(k.x.state, handleError(y, y.state, None)) /\ handleError(y, y.state, None).pc = "save"
    BY <1>3, ErrorLeads, ErrorSaves
  <2> QED BY <1>1, <1>6, <2>1, GoesOn
<1>7. CASE Commit(w, k, outcome(e, {}, "save"))
  <2> HIDE DEF e
  <2>1. Leads(k.x.state, outcome(e, {}, "save"))
    BY <1>3, StayLeads
  <2> QED BY <1>1, <1>7, <2>1, GoesOn, OutcomeFields
<1>8. CASE Commit(w, m, outcome(y, {}, "save"))
  <2> HIDE DEF y, m, k
  <2>1. Leads(k.x.state, outcome(y, {}, "save")) /\ outcome(y, {}, "save").pc = "save"
    BY <1>3, StayLeads, OutcomeFields
  <2> QED BY <1>1, <1>2, <1>8, <2>1, CommitLogged
<1> QED BY <1>1, <1>4, <1>5, <1>6, <1>7, <1>8, TryLogged, LeaveLogged

LEMMA ProcessorLogged == ASSUME Logged, NEW w \in Worker, ProcessorSettles(w) PROVE Logged'
<1> DEFINE k == work[w]
<1>1. k.pc = "process" /\ IsInstance(k.x) /\ Fits(k.t, k.x.state)
  BY DEF ProcessorSettles, Logged, Explained
<1>2. CASE ExternalTo(w, k, d.transitions[k.t].to)
  BY <1>1, <1>2, TryLogged
<1>3. ASSUME NEW cause, Commit(w, k, handleError(k.x, k.x.state, cause)) PROVE Logged'
  <2>1. /\ Leads(k.x.state, handleError(k.x, k.x.state, cause))
        /\ handleError(k.x, k.x.state, cause).pc = "save"
    BY <1>1, ErrorLeads, ErrorSaves
  <2> QED BY <1>1, <1>3, <2>1, GoesOn
<1> QED BY <1>2, <1>3 DEF ProcessorSettles

LEMMA ChainLogged == ASSUME Logged, NEW w \in Worker, ChainSettles(w) PROVE Logged'
<1> DEFINE k == work[w]
           s == k.x.state
           failed == handleError(k.x, s, None)
           o == chain(failed.x, failed.records)
<1>1. k.pc = "chain" /\ IsInstance(k.x)
  BY DEF ChainSettles, Logged, Explained
<1>2. \/ \E t \in ofType(d, s, {"auto", "branch"}) : StepTo(w, k, d.transitions[t].to)
      \/ \E cause : Commit(w, k, handleError(k.x, s, cause))
      \/ \E to : TakeExit(w, k, to)
      \/ Commit(w, k, o)
      \/ Commit(w, k, outcome(k.x, {}, "save"))
  BY DEF ChainSettles
<1>3. ASSUME NEW t \in ofType(d, s, {"auto", "branch"}), StepTo(w, k, d.transitions[t].to)
      PROVE  Logged'
  <2>1. Fits(t, k.x.state)
    BY DEF Fits, ofType, transitionsFrom
  <2> QED BY <1>1, <1>3, <2>1, TryLogged
<1>4. ASSUME NEW cause, Commit(w, k, handleError(k.x, s, cause)) PROVE Logged'
  <2>1. Leads(k.x.state, handleError(k.x, s, cause)) /\ handleError(k.x, s, cause).pc = "save"
    BY <1>1, ErrorLeads, ErrorSaves
  <2> QED BY <1>1, <1>4, <2>1, GoesOn
<1>5. CASE Commit(w, k, o)
  <2>1. Leads(k.x.state, failed)
    BY <1>1, ErrorLeads
  <2> HIDE DEF failed
  <2>2. IsInstance(o.x) /\ o.x.state = failed.x.state /\ o.records = failed.records
    BY <2>1, ChainOutcome DEF Leads
  <2>3. o.pc \in {"save", "chain"}
    BY OutcomeFields DEF chain
  <2> HIDE DEF o
  <2>4. Leads(k.x.state, o)
    BY <2>1, <2>2 DEF Leads
  <2> QED BY <1>1, <1>5, <2>3, <2>4, GoesOn
<1>6. CASE Commit(w, k, outcome(k.x, {}, "save"))
  <2>1. Leads(k.x.state, outcome(k.x, {}, "save"))
    BY <1>1, StayLeads
  <2> QED BY <1>1, <1>6, <2>1, GoesOn, OutcomeFields
<1>7. ASSUME NEW to, TakeExit(w, k, to) PROVE Logged'
  BY <1>1, <1>7, ExitLogged
<1> QED BY <1>2, <1>3, <1>4, <1>5, <1>6, <1>7

LEMMA InitLogged == Init => Logged
  BY IdleCall DEF Init, Logged, Explained, Idle

LEMMA NextLogged == Logged /\ [Next]_vars => Logged'
<1> SUFFICES ASSUME Logged, [Next]_vars PROVE Logged'
  OBVIOUS
<1>1. ASSUME NEW w \in Worker, Start(w) \/ Load(w) \/ Proceed(w) PROVE Logged'
  <2>1. Save(w) => work' = [work EXCEPT ![w] = Idle] /\ log' = log
    BY DEF Save
  <2> QED BY <1>1, <2>1, StartLogged, LoadLogged, GuardLogged, ProcessorLogged, ChainLogged, EndLogged
          DEF Proceed
<1>2. ASSUME NEW w \in Worker, Crash(w) PROVE Logged'
  <2>1. work' = [work EXCEPT ![w] = Idle] /\ log' = log
    BY <1>2 DEF Crash
  <2> QED BY <2>1, EndLogged
<1>3. CASE Tick \/ UNCHANGED vars
  <2>1. UNCHANGED <<work, log>>
    BY <1>3 DEF Tick, vars
  <2>2. \A w \in Worker : IsCall(work'[w]) /\ Explained(work'[w], log')
    BY <2>1 DEF Logged
  <2> QED BY <2>1, <2>2 DEF Logged
<1> QED BY <1>1, <1>2, <1>3 DEF Next

(* The call that replaces the row has loaded it, and its log explains what *)
(* it has made of it.                                                      *)
LEMMA ReplacementExplained ==
    ASSUME Locked, Logged, Next, row # NoRow, row' # row
    PROVE  row.exit = None /\ leads(row.state, row'.state, log' \cup Unrecorded)
<1>1. PICK w \in Worker : Save(w) /\ work[w].base = row
  BY ReplacedByItsReader
<1>2. work[w].pc = "save" /\ row' = stored(work[w].x, row.version + 1) /\ log' = log
  BY <1>1 DEF Save
<1>3. Explained(work[w], log)
  BY DEF Logged
<1>4. row'.state = work[w].x.state
  BY <1>2 DEF stored
<1> QED BY <1>1, <1>2, <1>3, <1>4 DEF Explained

(* Whichever workers overlap, die and come back, whatever actions throw:   *)
(* what a save replaces is an open flow, and the log, with the moves that  *)
(* a throwing enter action leaves without a record, leads from it to what  *)
(* is stored.                                                              *)
THEOREM RowsAreExplained == Spec => RowsFollowTheLog
<1>1. Locked /\ Logged /\ [Next]_vars =>
        [(row # NoRow /\ row' # row) =>
            row.exit = None /\ leads(row.state, row'.state, log' \cup Unrecorded)]_vars
  BY ReplacementExplained DEF vars
<1> QED BY InitLocked, NextLocked, InitLogged, NextLogged, <1>1, PTL DEF Spec, RowsFollowTheLog

-----------------------------------------------------------------------------
(* The retries.  What was rejected in a row is no more than the failures   *)
(* the row has; a call that was rejected has one more than the row it      *)
(* loaded, and by Locked it saves only on top of that row.                 *)
Counted(k) ==
    /\ k.pc # "idle" => IsInstance(k.x) /\ k.x.fails \in Nat
    /\ k.pc = "guard" => k.x.fails = k.base.fails
    /\ k.rejects => k.pc = "save" /\ k.x.fails = k.base.fails + 1 /\ k.x.fails < d.maxGuardRetries

Bounded ==
    /\ work = [w \in Worker |-> work[w]]
    /\ rejected \in Nat
    /\ row = NoRow => rejected = 0
    /\ row # NoRow => /\ row.fails \in Nat /\ rejected <= row.fails
                      /\ rejected = 0 \/ rejected < d.maxGuardRetries
    /\ \A w \in Worker : IsCall(work[w]) /\ Counted(work[w])

LEMMA MaxType == d.maxGuardRetries \in Nat
<1>1. Def[Name] \in Definition
  BY DefAssumption, WorkerAssumption
<1> QED BY <1>1 DEF d, Definition

IsCounted(x) == IsInstance(x) /\ x.fails \in Nat

LEMMA MoveCounted ==
    ASSUME NEW x, IsCounted(x), NEW s, NEW t
    PROVE  IsCounted(transitionTo(x, s, t))
  BY DEF transitionTo, IsInstance, IsCounted

LEMMA CompleteCounted ==
    ASSUME NEW x, IsCounted(x), NEW e
    PROVE  IsCounted(complete(x, e)) /\ complete(x, e).fails = x.fails
  BY DEF complete, IsInstance, IsCounted

LEMMA RejectedCounted ==
    ASSUME NEW x, IsCounted(x)
    PROVE  IsCounted(incrementGuardFailure(x)) /\ incrementGuardFailure(x).fails = x.fails + 1
  BY DEF incrementGuardFailure, IsInstance, IsCounted

LEMMA NewCounted ==
    \A n, t : IsCounted(NewInstance(n, t)) /\ NewInstance(n, t).fails = 0
  BY DEF NewInstance, IsInstance, IsCounted

LEMMA RestoreCounted ==
    ASSUME NEW r, r.fails \in Nat
    PROVE  IsCounted(restore(r)) /\ restore(r).fails = r.fails
<1>1. IsInstance(NewInstance(Name, now))
  BY NewIsInstance
<1> QED BY <1>1 DEF restore, IsInstance, IsCounted

LEMMA ChainCounted ==
    ASSUME NEW x, IsCounted(x), NEW records
    PROVE  IsCounted(chain(x, records).x) /\ chain(x, records).pc # "guard"
<1>1. CASE isTerminal(x)
  BY <1>1, CompleteCounted, OutcomeFields DEF chain
<1>2. CASE ~isTerminal(x)
  BY <1>2, OutcomeFields DEF chain
<1> QED BY <1>1, <1>2

LEMMA MoveToCounted ==
    ASSUME NEW x, IsCounted(x), NEW to
    PROVE  IsCounted(move(x, to).x) /\ move(x, to).pc # "guard"
  BY MoveCounted, ChainCounted DEF move

LEMMA ErrorCounted ==
    ASSUME NEW x, IsCounted(x), NEW fromState, NEW cause
    PROVE  IsCounted(handleError(x, fromState, cause).x) /\ handleError(x, fromState, cause).pc # "guard"
<1> DEFINE target == ErrorTarget(d, fromState, cause)
           y == transitionTo(x, target, now)
           z == IF isTerminal(y) THEN complete(y, target) ELSE y
<1>1. /\ handleError(x, fromState, cause).x = IF target = None THEN complete(x, "TERMINAL_ERROR") ELSE z
      /\ handleError(x, fromState, cause).pc = "save"
  BY OutcomeFields DEF handleError
<1>2. IsCounted(z)
  <2>1. IsCounted(y)
    BY MoveCounted
  <2> HIDE DEF y
  <2> QED BY <2>1, CompleteCounted
<1>3. IsCounted(complete(x, "TERMINAL_ERROR"))
  BY CompleteCounted
<1> HIDE DEF target, z
<1> QED BY <1>1, <1>2, <1>3

(* One call moves on, and no rejection is saved.                           *)
LEMMA OneCounted ==
    ASSUME Bounded, NEW w \in Worker, NEW n, IsCall(n), Counted(n), work' = [work EXCEPT ![w] = n],
           rejected' = rejected, row' = row \/ (row = NoRow /\ row' # NoRow /\ row'.fails = 0)
    PROVE  Bounded'
<1>1. /\ work' = [v \in Worker |-> work'[v]] /\ work'[w] = n
      /\ \A v \in Worker \ {w} : work'[v] = work[v]
  BY DEF Bounded
<1>2. \A v \in Worker : IsCall(work'[v]) /\ Counted(work'[v])
  BY <1>1 DEF Bounded
<1>3. \A k : Counted(k)' <=> Counted(k)
  BY DEF Counted, d
<1> QED BY <1>1, <1>2 DEF Bounded

LEMMA IdleCounted == Counted(Idle)
  BY DEF Counted, Idle

LEMMA CommitCounted ==
    ASSUME Bounded, NEW w \in Worker, NEW k, IsCall(k), ~k.rejects, NEW o, Commit(w, k, o),
           o.pc # "idle" => IsCounted(o.x), o.pc = "guard" => o.x.fails = k.base.fails,
           rejected' = rejected,
           row' = row \/ (row = NoRow /\ row' # NoRow /\ row'.fails = 0)
    PROVE  Bounded'
<1> DEFINE n == [k EXCEPT !.x = o.x, !.pc = o.pc]
<1>1. IsCall(n) /\ n.x = o.x /\ n.pc = o.pc /\ n.rejects = k.rejects /\ n.base = k.base
  BY DEF IsCall, Field
<1>2. work' = [work EXCEPT ![w] = n]
  BY DEF Commit
<1> HIDE DEF n
<1>3. Counted(n)
  BY <1>1 DEF Counted, IsCounted
<1> QED BY <1>1, <1>2, <1>3, OneCounted

LEMMA StartCounted == ASSUME Bounded, NEW w \in Worker, Start(w) PROVE Bounded'
<1> DEFINE x == NewInstance(Name, now)
           k == [Idle EXCEPT !.base = row']
           o == chain(x, {})
<1>1. IsCounted(x) /\ x.fails = 0
  BY NewCounted
<1>2. row = NoRow /\ row' = stored(x, 0) /\ rejected' = rejected /\ Commit(w, k, o)
  BY DEF Start
<1>3. IsCall(k) /\ ~k.rejects
  BY DEF IsCall, Field, Idle
<1> HIDE DEF x, k
<1>4. row' # NoRow /\ row'.fails = 0
  BY <1>1, <1>2, StoredVersion DEF stored
<1>5. IsCounted(o.x) /\ o.pc # "guard"
  BY <1>1, ChainCounted
<1> HIDE DEF o
<1> QED BY <1>2, <1>3, <1>4, <1>5, CommitCounted

LEMMA LoadCounted == ASSUME Bounded, NEW w \in Worker, Load(w) PROVE Bounded'
<1> DEFINE k == [Idle EXCEPT !.base = row]
           x == restore(row)
<1>1. row # NoRow /\ row' = row /\ rejected' = rejected /\ row.fails \in Nat
  BY DEF Load, loadForUpdate, Bounded
<1>2. \/ Commit(w, k, outcome(complete(x, "EXPIRED"), {}, "save"))
      \/ \E t : Commit(w, [k EXCEPT !.t = t], outcome(x, {}, "guard"))
  BY DEF Load
<1>3. IsCall(k) /\ ~k.rejects
  BY DEF IsCall, Field, Idle
<1>4. IsCounted(x) /\ x.fails = row.fails /\ IsCounted(complete(x, "EXPIRED"))
  BY <1>1, RestoreCounted, CompleteCounted
<1>5. CASE Commit(w, k, outcome(complete(x, "EXPIRED"), {}, "save"))
  <2> DEFINE o == outcome(complete(x, "EXPIRED"), {}, "save")
  <2>1. IsCounted(o.x) /\ o.pc = "save"
    BY <1>4, OutcomeFields
  <2> HIDE DEF o, k
  <2> QED BY <1>1, <1>3, <1>5, <2>1, CommitCounted DEF o
<1>6. CASE \E t : Commit(w, [k EXCEPT !.t = t], outcome(x, {}, "guard"))
  <2>1. PICK t : Commit(w, [k EXCEPT !.t = t], outcome(x, {}, "guard"))
    BY <1>6
  <2>2. k.base = row
    BY DEF Idle
  <2> DEFINE m == [k EXCEPT !.t = t]
             o == outcome(x, {}, "guard")
  <2> HIDE DEF k
  <2>3. IsCall(m) /\ ~m.rejects /\ m.base = row
    BY <1>3, <2>2 DEF IsCall, Field
  <2>4. IsCounted(o.x) /\ o.x.fails = row.fails
    BY <1>4, OutcomeFields
  <2>5. Commit(w, m, o)
    BY <2>1
  <2> HIDE DEF m, o
  <2> QED BY <1>1, <2>3, <2>4, <2>5, CommitCounted
<1> QED BY <1>2, <1>5, <1>6

(* A rejected call goes straight to its save.                              *)
LEMMA RejectCounted ==
    ASSUME Bounded, NEW w \in Worker, work[w].pc = "guard",
           NEW y, y = incrementGuardFailure(work[w].x), ~(y.fails >= d.maxGuardRetries),
           Commit(w, [work[w] EXCEPT !.rejects = TRUE], outcome(y, {}, "save")),
           row' = row, rejected' = rejected
    PROVE  Bounded'
<1> DEFINE k == work[w]
           m == [k EXCEPT !.rejects = TRUE]
           n == [m EXCEPT !.x = y, !.pc = "save"]
<1>1. IsCall(k) /\ Counted(k) /\ k.pc = "guard"
  BY DEF Bounded
<1>2. work' = [work EXCEPT ![w] = n]
  BY DEF Commit, outcome
<1> HIDE DEF k
<1>3. IsCall(m) /\ m.base = k.base /\ m.rejects
  BY <1>1 DEF IsCall, Field
<1> HIDE DEF m
<1>4. IsCall(n) /\ n.x = y /\ n.pc = "save" /\ n.base = k.base
  BY <1>3 DEF IsCall, Field
<1> HIDE DEF n
<1>5. IsCounted(y) /\ y.fails = k.base.fails + 1 /\ y.fails < d.maxGuardRetries
  <2>1. IsCounted(k.x) /\ k.x.fails = k.base.fails
    BY <1>1 DEF Counted, IsCounted
  <2>2. IsCounted(y) /\ y.fails = k.x.fails + 1
    BY <2>1, RejectedCounted DEF k
  <2> QED BY <2>1, <2>2, MaxType DEF IsCounted
<1>6. Counted(n)
  BY <1>4, <1>5 DEF Counted, IsCounted, k
<1> QED BY <1>2, <1>4, <1>6, OneCounted

LEMMA AwaitCounted ==
    ASSUME Bounded, NEW w \in Worker,
           GuardAnswers(w) \/ ProcessorSettles(w) \/ ChainSettles(w)
    PROVE  Bounded'
<1> DEFINE k == work[w]
<1>1. k.pc \in {"guard", "process", "chain"} /\ row' = row /\ rejected' = rejected
  BY DEF GuardAnswers, ProcessorSettles, ChainSettles
<1>2. IsCall(k) /\ Counted(k)
  BY DEF Bounded
<1>3. IsCounted(k.x) /\ ~k.rejects
  BY <1>1, <1>2 DEF Counted, IsCounted
<1>4. \A to : IsCounted(move(k.x, to).x) /\ move(k.x, to).pc # "guard"
  BY <1>3, MoveToCounted
<1>5. \A s, cause : IsCounted(handleError(k.x, s, cause).x) /\ handleError(k.x, s, cause).pc # "guard"
  BY <1>3, ErrorCounted
<1>6. ASSUME NEW to, NEW y \in thrown(k.x, to), NEW s, NEW cause
      PROVE  IsCounted(handleError(y, s, cause).x) /\ handleError(y, s, cause).pc # "guard"
  <2>1. IsCounted(y)
    BY <1>3, MoveCounted DEF thrown
  <2> QED BY <2>1, ErrorCounted
(* An outcome that goes on with k.                                         *)
<1>7. ASSUME NEW o, IsCounted(o.x), o.pc # "guard", Commit(w, k, o) PROVE Bounded'
  <2> HIDE DEF k
  <2> QED BY <1>1, <1>2, <1>3, <1>7, CommitCounted
<1>8. ASSUME Leave(w) PROVE Bounded'
  <2>1. Commit(w, Idle, outcome(None, {}, "idle")) /\ outcome(None, {}, "idle").pc = "idle" /\ ~Idle.rejects
    BY <1>8, OutcomeFields DEF Idle, Leave
  <2> QED BY <1>1, <2>1, IdleCall, CommitCounted
<1>9. ASSUME NEW to, ExternalTo(w, k, to) \/ StepTo(w, k, to) \/ TakeExit(w, k, to) PROVE Bounded'
  <2>1. \/ Leave(w)
        \/ Commit(w, k, move(k.x, to))
        \/ \E y \in thrown(k.x, to) : \E s, cause : Commit(w, k, handleError(y, s, cause))
    BY <1>9 DEF ExternalTo, StepTo, TakeExit
  <2> HIDE DEF k
  <2> QED BY <1>4, <1>6, <1>7, <1>8, <2>1
<1>10. CASE GuardAnswers(w)
  <2> DEFINE y == incrementGuardFailure(k.x)
             e == outcome(complete(k.x, "EXPIRED"), {}, "save")
             h == handleError(y, y.state, None)
             p == outcome(k.x, {}, "process")
  <2>1. \/ Commit(w, k, p)
        \/ \E to : ExternalTo(w, k, to)
        \/ Commit(w, k, h)
        \/ /\ ~(y.fails >= d.maxGuardRetries)
           /\ Commit(w, [k EXCEPT !.rejects = TRUE], outcome(y, {}, "save"))
        \/ Commit(w, k, e)
        \/ Leave(w)
    BY <1>10 DEF GuardAnswers
  <2>2. /\ IsCounted(h.x) /\ h.pc # "guard" /\ IsCounted(e.x) /\ e.pc # "guard"
        /\ IsCounted(p.x) /\ p.pc # "guard"
    <3>1. IsCounted(y)
      BY <1>3, RejectedCounted
    <3>2. IsCounted(complete(k.x, "EXPIRED"))
      BY <1>3, CompleteCounted
    <3> HIDE DEF y
    <3> QED BY <1>3, <3>1, <3>2, ErrorCounted, OutcomeFields
  <2>3. CASE /\ ~(y.fails >= d.maxGuardRetries)
             /\ Commit(w, [k EXCEPT !.rejects = TRUE], outcome(y, {}, "save"))
    <3>1. k.pc = "guard"
      BY <1>10 DEF GuardAnswers
    <3> QED BY <1>1, <2>3, <3>1, RejectCounted
  <2> HIDE DEF k, y, e, h, p
  <2> QED BY <1>7, <1>8, <1>9, <2>1, <2>2, <2>3
<1>11. CASE ProcessorSettles(w)
  <2>1. (\E to : ExternalTo(w, k, to)) \/ (\E s, cause : Commit(w, k, handleError(k.x, s, cause)))
    BY <1>11 DEF ProcessorSettles
  <2> HIDE DEF k
  <2> QED BY <1>5, <1>7, <1>9, <2>1
<1>12. CASE ChainSettles(w)
  <2> DEFINE failed == handleError(k.x, k.x.state, None)
             o == chain(failed.x, failed.records)
             s == outcome(k.x, {}, "save")
  <2>1. \/ \E to : StepTo(w, k, to) \/ TakeExit(w, k, to)
        \/ \E fromState, cause : Commit(w, k, handleError(k.x, fromState, cause))
        \/ Commit(w, k, o)
        \/ Commit(w, k, s)
    BY <1>12 DEF ChainSettles
  <2>2. IsCounted(failed.x)
    BY <1>5
  <2>3. IsCounted(s.x) /\ s.pc # "guard"
    BY <1>3, OutcomeFields
  <2> HIDE DEF failed, k, s
  <2>4. IsCounted(o.x) /\ o.pc # "guard"
    BY <2>2, ChainCounted
  <2> HIDE DEF o
  <2> QED BY <1>5, <1>7, <1>9, <2>1, <2>3, <2>4
<1> QED BY <1>10, <1>11, <1>12

(* The save of a rejection finds the row that its call has loaded.         *)
LEMMA SaveCounted == ASSUME Locked, Bounded, NEW w \in Worker, Save(w) PROVE Bounded'
<1>1. /\ work' = [work EXCEPT ![w] = Idle] /\ work[w].pc = "save"
      /\ Counted(work[w]) /\ KnowsRow(work[w])
  BY DEF Save, Bounded, Locked
<1>2. row # NoRow /\ row.fails \in Nat /\ rejected \in Nat /\ rejected <= row.fails
  BY <1>1 DEF KnowsRow, Bounded
<1>3. CASE isCurrent(w)
  <2>1. /\ row' = stored(work[w].x, row.version + 1)
        /\ rejected' = IF work[w].rejects THEN rejected + 1 ELSE 0
    BY <1>3 DEF Save
  <2>2. work[w].base = row
    BY <1>1, <1>3 DEF isCurrent, KnowsRow
  <2>3. row' # NoRow /\ row'.fails = work[w].x.fails /\ row'.fails \in Nat
    BY <1>1, <2>1, StoredVersion DEF stored, Counted
  <2>4. /\ rejected' \in Nat /\ rejected' <= row'.fails
        /\ rejected' = 0 \/ rejected' < d.maxGuardRetries
    <3>1. CASE work[w].rejects
      <4>1. work[w].x.fails = row.fails + 1 /\ work[w].x.fails < d.maxGuardRetries /\ rejected' = rejected + 1
        BY <1>1, <2>1, <2>2, <3>1 DEF Counted
      <4> QED BY <1>2, <2>3, <4>1, MaxType
    <3>2. CASE ~work[w].rejects
      BY <2>1, <2>3, <3>2
    <3> QED BY <3>1, <3>2
  <2>5. /\ work' = [v \in Worker |-> work'[v]] /\ work'[w] = Idle
        /\ \A v \in Worker \ {w} : work'[v] = work[v]
    BY <1>1 DEF Bounded
  <2>6. \A v \in Worker : IsCall(work'[v]) /\ Counted(work'[v])
    BY <2>5, IdleCall, IdleCounted DEF Bounded
  <2> QED BY <2>3, <2>4, <2>5, <2>6 DEF Bounded, d
<1>4. CASE ~isCurrent(w)
  <2>1. row' = row /\ rejected' = rejected
    BY <1>4 DEF Save
  <2> QED BY <1>1, <2>1, IdleCall, IdleCounted, OneCounted
<1> QED BY <1>3, <1>4

LEMMA InitCounted == Init => Bounded
<1>1. 0 \in Nat
  OBVIOUS
<1> QED BY <1>1, IdleCall, IdleCounted DEF Init, Bounded

LEMMA NextCounted == Locked /\ Bounded /\ [Next]_vars => Bounded'
<1> SUFFICES ASSUME Locked, Bounded, [Next]_vars PROVE Bounded'
  OBVIOUS
<1>1. ASSUME NEW w \in Worker, Start(w) \/ Load(w) \/ Proceed(w) PROVE Bounded'
  BY <1>1, StartCounted, LoadCounted, AwaitCounted, SaveCounted DEF Proceed
<1>2. ASSUME NEW w \in Worker, Crash(w) PROVE Bounded'
  <2>1. work' = [work EXCEPT ![w] = Idle] /\ row' = row /\ rejected' = rejected
    BY <1>2 DEF Crash
  <2> QED BY <2>1, IdleCall, IdleCounted, OneCounted
<1>3. CASE Tick \/ UNCHANGED vars
  <2>1. UNCHANGED <<row, work, rejected>>
    BY <1>3 DEF Tick, vars
  <2> QED BY <2>1 DEF Bounded, Counted, IsCall, d
<1> QED BY <1>1, <1>2, <1>3 DEF Next

(* maxGuardRetries bounds the rejections in a row over restarts: each is   *)
(* counted by an instance of its own, and none is saved on top of a row    *)
(* that its call has not seen.                                             *)
THEOREM RetriesAreBounded == Spec => []RetriesSurviveRestarts
<1>1. Bounded => RetriesSurviveRestarts
  BY DEF Bounded, RetriesSurviveRestarts
<1> QED BY InitLocked, NextLocked, InitCounted, NextCounted, <1>1, PTL DEF Spec
=============================================================================
