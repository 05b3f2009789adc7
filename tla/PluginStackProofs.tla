-------------------------- MODULE PluginStackProofs --------------------------
(***************************************************************************)
(* For any machine, and any number of flows, commands and overlapping      *)
(* calls: the plugins keep their types, the versions of the event log      *)
(* rise, a command delivered to a flow goes to the engine once, the logs   *)
(* tell the same moves, and replay finds a flow where it is.               *)
(***************************************************************************)
EXTENDS PluginStack, SequenceTheorems, FiniteSetTheorems, WellFoundedInduction, TLAPS

(* A call that has begun works on a flow, one that waits has chosen an     *)
(* edge of the machine, and a stored flow is in some state.                *)
CallOK(k) ==
    /\ k.pc # "idle" => k.flow \in Flow
    /\ k.pc \in {"guard", "process", "auto"} => k.state \in State /\ at[k.flow] \in State
    /\ k.pc \in {"guard", "process"} => External[k.state] # None
    /\ k.pc = "auto" => AutoTarget[k.state] # None

IndInv ==
    /\ TypeOK
    /\ VersionsRise
    /\ \A f \in stored : at[f] \in State
    /\ \A c \in Call : CallOK(call[c])

(* The call went to the engine with the command, or tried to.              *)
Ran(k, f, cmd) == k.flow = f /\ k.cmd = cmd /\ k.status # "DUPLICATE"

(* The registry holds the commands that were delivered, and each of them   *)
(* has been run by one call.                                               *)
OnceInv ==
    /\ \A c \in Call :
         /\ call[c].cmd # None => <<call[c].flow, call[c].cmd>> \in seen
         /\ call[c].pc = "idle" => call[c].cmd = None
         /\ call[c].pc # "answered" => call[c].status # "DUPLICATE"
    /\ \A f \in Flow, cmd \in Command :
         /\ <<f, cmd>> \in seen => \E c \in Call : Ran(call[c], f, cmd)
         /\ \A c, d \in Call : Ran(call[c], f, cmd) /\ Ran(call[d], f, cmd) => c = d

-----------------------------------------------------------------------------
(* The operators steps are made of.                                        *)

RunOf == [at : State, exit : Exits, log : Logs, threw : BOOLEAN, moves : Nat]
GoodRun(r) == r \in RunOf /\ Rising(r.log)

LEMMA Tables ==
    /\ \A s \in State : AutoTarget[s] \in State \cup {None}
    /\ \A s \in State : External[s] \in State \cup {None}
    /\ \A s \in State : OnError[s] \in State \cup {None}
    /\ Initial \in State /\ None \notin State /\ None \notin Flow /\ None \notin Command
<1>1. AutoTarget \in [State -> State \cup {None}] /\ External \in [State -> State \cup {None}]
      /\ OnError \in [State -> State \cup {None}]
  BY MachineAssumption
<1>2. Initial \in State /\ None \notin State /\ None \notin Flow /\ None \notin Command
  BY MachineAssumption, Zenon
<1> QED BY <1>1, <1>2

LEMMA NotDuplicate == None \notin Status /\ None # "DUPLICATE"
  BY MachineAssumption DEF Status

(* The logs are a record.                                                  *)
LEMMA LogFields ==
    ASSUME NEW l \in Logs
    PROVE  /\ l.events \in Seq(Event) /\ l.audit \in Seq(Move) /\ l.sink \in Seq(Move)
           /\ l.version \in [Flow -> Nat]
           /\ l = [audit |-> l.audit, events |-> l.events, sink |-> l.sink, version |-> l.version]
  BY DEF Logs

(* The events of a log that rises, one by one.                             *)
LEMMA RisingParts ==
    ASSUME NEW l \in Logs, Rising(l)
    PROVE  LET n == Len(l.events) IN
           /\ n \in Nat /\ DOMAIN l.events = 1..n
           /\ \A i \in 1..n :
                /\ l.events[i].flow \in Flow /\ l.events[i].version \in Nat
                /\ l.events[i].version >= 1 /\ l.events[i].version <= l.version[l.events[i].flow]
           /\ \A i, j \in 1..n : (i < j /\ l.events[i].flow = l.events[j].flow)
                                   => l.events[i].version < l.events[j].version
<1> DEFINE n == Len(l.events)
<1>1. n \in Nat /\ DOMAIN l.events = 1..n /\ \A i \in 1..n : l.events[i] \in Event
  BY LogFields, LenProperties, ElementOfSeq
<1>2. \A i \in 1..n : l.events[i].flow \in Flow /\ l.events[i].version \in Nat
  BY <1>1 DEF Event
<1>3. \A i, j \in 1..n :
        /\ l.events[i].version \in 1..l.version[l.events[i].flow]
        /\ (i < j /\ l.events[i].flow = l.events[j].flow)
             => l.events[i].version < l.events[j].version
  BY <1>1 DEF Rising
<1>4. \A i \in 1..n : l.events[i].version >= 1 /\ l.events[i].version <= l.version[l.events[i].flow]
  <2> TAKE i \in 1..n
  <2>1. l.version[l.events[i].flow] \in Nat
    BY <1>2, LogFields
  <2> QED BY <1>3, <2>1
<1> HIDE DEF n
<1>5. QED BY <1>1, <1>2, <1>3, <1>4 DEF n

(* An event with the next version can be appended, or the version spent.   *)
LEMMA NextVersionRises ==
    ASSUME NEW l \in Logs, Rising(l), NEW f \in Flow, NEW v, v = [l.version EXCEPT ![f] = nextVersion(l, f)],
           NEW es \in Seq(Event),
           \/ es = l.events
           \/ \E e \in Event : e.flow = f /\ e.version = nextVersion(l, f) /\ es = Append(l.events, e)
    PROVE  /\ v \in [Flow -> Nat]
           /\ \A i, j \in DOMAIN es :
                /\ es[i].version \in 1..v[es[i].flow]
                /\ (i < j /\ es[i].flow = es[j].flow) => es[i].version < es[j].version
<1> DEFINE n == Len(l.events)
<1>1. /\ l.events \in Seq(Event) /\ l.version \in [Flow -> Nat] /\ n \in Nat
      /\ DOMAIN l.events = 1..n
  BY LogFields, LenProperties
<1>2. nextVersion(l, f) \in Nat /\ nextVersion(l, f) = l.version[f] + 1
  BY <1>1 DEF nextVersion
<1>3. v \in [Flow -> Nat] /\ \A g \in Flow : l.version[g] <= v[g]
  BY <1>1, <1>2
<1>4. /\ \A i \in 1..n :
           /\ l.events[i].flow \in Flow /\ l.events[i].version \in Nat
           /\ l.events[i].version >= 1 /\ l.events[i].version <= l.version[l.events[i].flow]
      /\ \A i, j \in 1..n : (i < j /\ l.events[i].flow = l.events[j].flow)
                              => l.events[i].version < l.events[j].version
  BY RisingParts
<1>7. \A i \in 1..n : l.events[i].version \in 1..v[l.events[i].flow]
  <2> TAKE i \in 1..n
  <2>1. l.version[l.events[i].flow] \in Nat /\ v[l.events[i].flow] \in Nat
        /\ l.version[l.events[i].flow] <= v[l.events[i].flow]
    BY <1>1, <1>3, <1>4
  <2> QED BY <1>4, <2>1
<1>5. CASE es = l.events
  <2>1. \A i, j \in 1..n :
          /\ l.events[i].version \in 1..v[l.events[i].flow]
          /\ (i < j /\ l.events[i].flow = l.events[j].flow)
               => l.events[i].version < l.events[j].version
    BY <1>4, <1>7
  <2> QED BY <1>1, <1>3, <1>5, <2>1
<1>6. CASE \E e \in Event : e.flow = f /\ e.version = nextVersion(l, f) /\ es = Append(l.events, e)
  <2>1. PICK e \in Event : e.flow = f /\ e.version = nextVersion(l, f) /\ es = Append(l.events, e)
    BY <1>6
  <2>2. /\ DOMAIN es = 1..(n + 1) /\ es[n + 1] = e
        /\ \A i \in 1..n : es[i] = l.events[i]
    BY <1>1, <2>1, AppendProperties, LenProperties
  <2>3. v[f] = l.version[f] + 1
    BY <1>1, <1>2
  <2> SUFFICES ASSUME NEW i \in DOMAIN es, NEW j \in DOMAIN es
               PROVE  /\ es[i].version \in 1..v[es[i].flow]
                      /\ (i < j /\ es[i].flow = es[j].flow) => es[i].version < es[j].version
    BY <1>3
  <2>4. CASE i = n + 1
    BY <1>1, <1>2, <2>1, <2>2, <2>3, <2>4
  <2>5. CASE i \in 1..n /\ j \in 1..n
    BY <1>4, <1>7, <2>2, <2>5
  <2>6. CASE i \in 1..n /\ j = n + 1
    <3>1. es[i] = l.events[i] /\ es[j] = e
      BY <2>2, <2>6
    <3>2. /\ l.events[i].flow \in Flow /\ l.events[i].version \in Nat
          /\ l.events[i].version >= 1 /\ l.events[i].version <= l.version[l.events[i].flow]
      BY <1>4, <2>6
    <3>3. l.version[l.events[i].flow] <= v[l.events[i].flow] /\ v[l.events[i].flow] \in Nat
      BY <1>3, <3>2
    <3>4. l.version[l.events[i].flow] \in Nat
      BY <1>1, <3>2
    <3>5. l.events[i].flow = f => l.events[i].version < e.version
      BY <1>2, <2>1, <3>2, <3>4
    <3>6. l.events[i].version \in 1..v[l.events[i].flow]
      BY <1>7, <2>6
    <3> QED BY <2>1, <3>1, <3>5, <3>6
  <2> QED BY <1>1, <2>2, <2>4, <2>5, <2>6
<1> QED BY <1>5, <1>6

(* What recordTransition writes into each log.                             *)
LEMMA RecordFields ==
    ASSUME NEW l \in Logs, NEW f \in Flow, NEW from, NEW to, NEW bad \in BOOLEAN
    PROVE  LET m == recordTransition(l, f, from, to, bad)
               move == [flow |-> f, from |-> from, to |-> to]
           IN  /\ m.version = [l.version EXCEPT ![f] = nextVersion(l, f)]
               /\ m.events = IF bad THEN l.events ELSE Append(l.events, transitionEvent(l, f, from, to))
               /\ m.audit = IF bad /\ ~auditInside THEN l.audit ELSE Append(l.audit, move)
               /\ m.sink = IF bad THEN l.sink ELSE Append(l.sink, move)
               /\ m = [audit |-> m.audit, events |-> m.events, sink |-> m.sink, version |-> m.version]
<1> DEFINE move == [flow |-> f, from |-> from, to |-> to]
           m == recordTransition(l, f, from, to, bad)
           e == transitionEvent(l, f, from, to)
<1>1. l = [audit |-> l.audit, events |-> l.events, sink |-> l.sink, version |-> l.version]
  BY LogFields
<1> HIDE DEF e
<1>2. m = [l EXCEPT !.version = [l.version EXCEPT ![f] = nextVersion(l, f)],
                    !.events = IF bad THEN l.events ELSE Append(l.events, e),
                    !.audit = IF bad /\ ~auditInside THEN l.audit ELSE Append(l.audit, move),
                    !.sink = IF bad THEN l.sink ELSE Append(l.sink, move)]
  BY DEF recordTransition, e
<1> HIDE DEF m, move
<1>3. /\ m.version = [l.version EXCEPT ![f] = nextVersion(l, f)]
      /\ m.events = IF bad THEN l.events ELSE Append(l.events, e)
      /\ m.audit = IF bad /\ ~auditInside THEN l.audit ELSE Append(l.audit, move)
      /\ m.sink = IF bad THEN l.sink ELSE Append(l.sink, move)
      /\ m = [audit |-> m.audit, events |-> m.events, sink |-> m.sink, version |-> m.version]
  BY <1>1, <1>2
<1> QED BY <1>3 DEF m, move, e

LEMMA RecordedEvents ==
    \A l \in Logs, f \in Flow, from \in State, to \in State, bad \in BOOLEAN :
       recordTransition(l, f, from, to, bad).events
       = IF bad THEN l.events ELSE Append(l.events, transitionEvent(l, f, from, to))
<1> SUFFICES ASSUME NEW l \in Logs, NEW f \in Flow, NEW from \in State, NEW to \in State, NEW bad \in BOOLEAN
             PROVE  recordTransition(l, f, from, to, bad).events
                    = IF bad THEN l.events ELSE Append(l.events, transitionEvent(l, f, from, to))
  OBVIOUS
<1> DEFINE m == recordTransition(l, f, from, to, bad)
           move == [flow |-> f, from |-> from, to |-> to]
<1>1. /\ m.version = [l.version EXCEPT ![f] = nextVersion(l, f)]
      /\ m.events = IF bad THEN l.events ELSE Append(l.events, transitionEvent(l, f, from, to))
      /\ m.audit = IF bad /\ ~auditInside THEN l.audit ELSE Append(l.audit, move)
  BY RecordFields
<1> QED BY <1>1

(* recordTransition through both decorators and the logger.                *)
LEMMA RecordKeeps ==
    ASSUME TypeOK, NEW l \in Logs, Rising(l), NEW f \in Flow, NEW from \in State, NEW to \in State, NEW bad \in BOOLEAN
    PROVE  recordTransition(l, f, from, to, bad) \in Logs /\ Rising(recordTransition(l, f, from, to, bad))
<1> DEFINE move == [flow |-> f, from |-> from, to |-> to]
           m == recordTransition(l, f, from, to, bad)
           e == transitionEvent(l, f, from, to)
<1>1. /\ l.events \in Seq(Event) /\ l.audit \in Seq(Move) /\ l.sink \in Seq(Move)
      /\ l.version \in [Flow -> Nat]
      /\ l = [audit |-> l.audit, events |-> l.events, sink |-> l.sink, version |-> l.version]
  BY LogFields
<1>2. move \in Move /\ e \in Event /\ e.flow = f /\ e.version = nextVersion(l, f)
  BY <1>1 DEF Move, Event, transitionEvent, nextVersion
<1>3. Append(l.audit, move) \in Seq(Move) /\ Append(l.sink, move) \in Seq(Move)
      /\ Append(l.events, e) \in Seq(Event)
  BY <1>1, <1>2, AppendProperties
<1>4. /\ m.version = [l.version EXCEPT ![f] = nextVersion(l, f)]
      /\ m.events = IF bad THEN l.events ELSE Append(l.events, e)
      /\ m.audit = IF bad /\ ~auditInside THEN l.audit ELSE Append(l.audit, move)
      /\ m.sink = IF bad THEN l.sink ELSE Append(l.sink, move)
      /\ m = [audit |-> m.audit, events |-> m.events, sink |-> m.sink, version |-> m.version]
  BY RecordFields
<1>5. m.events \in Seq(Event) /\ m.audit \in Seq(Move) /\ m.sink \in Seq(Move)
  BY <1>1, <1>3, <1>4
<1>6. \/ m.events = l.events
      \/ \E x \in Event : x.flow = f /\ x.version = nextVersion(l, f) /\ m.events = Append(l.events, x)
  BY <1>2, <1>4
<1> HIDE DEF m, move, e
<1>7. /\ m.version \in [Flow -> Nat]
      /\ \A i, j \in DOMAIN m.events :
           /\ m.events[i].version \in 1..m.version[m.events[i].flow]
           /\ (i < j /\ m.events[i].flow = m.events[j].flow)
                => m.events[i].version < m.events[j].version
  <2> DEFINE v == m.version
             es == m.events
  <2>1. v = [l.version EXCEPT ![f] = nextVersion(l, f)]
    BY <1>4
  <2>2. es \in Seq(Event)
    BY <1>5
  <2>3. \/ es = l.events
        \/ \E x \in Event : x.flow = f /\ x.version = nextVersion(l, f) /\ es = Append(l.events, x)
    BY <1>6
  <2> HIDE DEF v, es
  <2>4. /\ v \in [Flow -> Nat]
        /\ \A i, j \in DOMAIN es :
             /\ es[i].version \in 1..v[es[i].flow]
             /\ (i < j /\ es[i].flow = es[j].flow) => es[i].version < es[j].version
    BY <2>1, <2>2, <2>3, NextVersionRises
  <2> QED BY <2>4 DEF v, es
<1>8. m \in Logs
  BY <1>4, <1>5, <1>7 DEF Logs
<1>9. Rising(m)
  BY <1>7 DEF Rising
<1> QED BY <1>8, <1>9 DEF m

(* What appendCompensation writes.                                         *)
LEMMA CompensationFields ==
    ASSUME NEW l \in Logs, NEW f \in Flow
    PROVE  LET m == appendCompensation(l, f) IN
           /\ m.version = [l.version EXCEPT ![f] = nextVersion(l, f)]
           /\ m.events = Append(l.events, [flow |-> f, version |-> nextVersion(l, f), type |-> "COMPENSATION",
                                           from |-> None, to |-> "COMPENSATED"])
           /\ m = [audit |-> l.audit, events |-> m.events, sink |-> l.sink, version |-> m.version]
<1> DEFINE m == appendCompensation(l, f)
           e == [flow |-> f, version |-> nextVersion(l, f), type |-> "COMPENSATION",
                 from |-> None, to |-> "COMPENSATED"]
<1>1. l = [audit |-> l.audit, events |-> l.events, sink |-> l.sink, version |-> l.version]
  BY LogFields
<1>2. m = [l EXCEPT !.version = [l.version EXCEPT ![f] = nextVersion(l, f)],
                    !.events = Append(l.events, e)]
  BY DEF appendCompensation
<1> HIDE DEF m, e
<1>3. /\ m.version = [l.version EXCEPT ![f] = nextVersion(l, f)]
      /\ m.events = Append(l.events, e)
      /\ m = [audit |-> l.audit, events |-> m.events, sink |-> l.sink, version |-> m.version]
  BY <1>1, <1>2
<1> QED BY <1>3 DEF m, e

LEMMA CompensationKeeps ==
    ASSUME NEW l \in Logs, Rising(l), NEW f \in Flow
    PROVE  appendCompensation(l, f) \in Logs /\ Rising(appendCompensation(l, f))
<1> DEFINE m == appendCompensation(l, f)
           e == [flow |-> f, version |-> nextVersion(l, f), type |-> "COMPENSATION",
                 from |-> None, to |-> "COMPENSATED"]
<1>1. /\ l.events \in Seq(Event) /\ l.audit \in Seq(Move) /\ l.sink \in Seq(Move)
      /\ l.version \in [Flow -> Nat]
      /\ l = [audit |-> l.audit, events |-> l.events, sink |-> l.sink, version |-> l.version]
  BY LogFields
<1>2. e \in Event /\ e.flow = f /\ e.version = nextVersion(l, f)
  BY <1>1 DEF Event, nextVersion
<1>3. Append(l.events, e) \in Seq(Event)
  BY <1>1, <1>2, AppendProperties
<1>4. /\ m.version = [l.version EXCEPT ![f] = nextVersion(l, f)]
      /\ m.events = Append(l.events, e)
      /\ m = [audit |-> l.audit, events |-> m.events, sink |-> l.sink, version |-> m.version]
  BY CompensationFields
<1>5. \E x \in Event : x.flow = f /\ x.version = nextVersion(l, f) /\ m.events = Append(l.events, x)
  BY <1>2, <1>4
<1> HIDE DEF m, e
<1>6. /\ m.version \in [Flow -> Nat]
      /\ \A i, j \in DOMAIN m.events :
           /\ m.events[i].version \in 1..m.version[m.events[i].flow]
           /\ (i < j /\ m.events[i].flow = m.events[j].flow)
                => m.events[i].version < m.events[j].version
  <2> DEFINE v == m.version
             es == m.events
  <2>1. v = [l.version EXCEPT ![f] = nextVersion(l, f)]
    BY <1>4
  <2>2. es \in Seq(Event)
    BY <1>3, <1>4
  <2>3. \E x \in Event : x.flow = f /\ x.version = nextVersion(l, f) /\ es = Append(l.events, x)
    BY <1>5
  <2> HIDE DEF v, es
  <2>4. /\ v \in [Flow -> Nat]
        /\ \A i, j \in DOMAIN es :
             /\ es[i].version \in 1..v[es[i].flow]
             /\ (i < j /\ es[i].flow = es[j].flow) => es[i].version < es[j].version
    BY <2>1, <2>2, <2>3, NextVersionRises
  <2> QED BY <2>4 DEF v, es
<1>7. m \in Logs
  <2>1. m.events \in Seq(Event) /\ m.version \in [Flow -> Nat]
    BY <1>3, <1>4, <1>6
  <2>2. l.audit \in Seq(Move) /\ l.sink \in Seq(Move)
    BY <1>1
  <2>3. m = [audit |-> l.audit, events |-> m.events, sink |-> l.sink, version |-> m.version]
    BY <1>4
  <2> QED BY <2>1, <2>2, <2>3 DEF Logs
<1>8. Rising(m)
  BY <1>6 DEF Rising
<1> QED BY <1>7, <1>8 DEF m

LEMMA TransitionKeeps ==
    ASSUME TypeOK, NEW r, GoodRun(r), NEW f \in Flow, NEW to \in State,
           NEW bad \in BOOLEAN, NEW enters \in BOOLEAN
    PROVE  GoodRun(transitionTo(r, f, to, bad, enters))
<1>1. r.at \in State /\ r.log \in Logs /\ Rising(r.log) /\ r.moves + 1 \in Nat
  BY DEF GoodRun, RunOf
<1> DEFINE m == recordTransition(r.log, f, r.at, to, bad)
<1>2. m \in Logs /\ Rising(m)
  BY <1>1, RecordKeeps
<1> HIDE DEF m
<1>3. CASE enters
  <2>1. transitionTo(r, f, to, bad, enters)
        = [at |-> to, exit |-> r.exit, log |-> m, threw |-> bad, moves |-> r.moves + 1]
    BY <1>3 DEF transitionTo, GoodRun, RunOf, m
  <2> QED BY <1>1, <1>2, <2>1 DEF GoodRun, RunOf
<1>4. CASE ~enters
  <2>1. transitionTo(r, f, to, bad, enters)
        = [at |-> to, exit |-> r.exit, log |-> r.log, threw |-> TRUE, moves |-> r.moves]
    BY <1>4 DEF transitionTo, GoodRun, RunOf
  <2> QED BY <1>1, <2>1 DEF GoodRun, RunOf
<1> QED BY <1>3, <1>4

LEMMA ExitKeeps ==
    ASSUME NEW r, GoodRun(r), NEW x \in Exits
    PROVE  GoodRun([r EXCEPT !.exit = x]) /\ [r EXCEPT !.exit = x].at = r.at
  BY DEF GoodRun, RunOf

LEMMA HandleErrorKeeps ==
    ASSUME TypeOK, NEW r, GoodRun(r), NEW f \in Flow, NEW from \in State, NEW bad \in BOOLEAN
    PROVE  GoodRun(handleError(r, f, from, bad))
<1>1. CASE OnError[from] = None
  BY <1>1 DEF handleError, GoodRun, RunOf, Exits
<1>2. CASE OnError[from] # None
  <2> DEFINE m == transitionTo(r, f, OnError[from], bad, TRUE)
  <2>1. GoodRun(m)
    BY <1>2, Tables, TransitionKeeps
  <2>2. m.at \in Exits
    BY <2>1 DEF GoodRun, RunOf, Exits
  <2>3. handleError(r, f, from, bad)
        = IF ~m.threw /\ m.at \in Terminal THEN [m EXCEPT !.exit = m.at] ELSE m
    BY <1>2 DEF handleError
  <2> HIDE DEF m
  <2> QED BY <2>1, <2>2, <2>3, ExitKeeps
<1> QED BY <1>1, <1>2

-----------------------------------------------------------------------------
(* What ends a step.                                                       *)

LEMMA FlowsKept ==
    ASSUME IndInv, NEW c \in Call, NEW k \in CallRecord, k.flow \in Flow,
           NEW r, GoodRun(r), NEW isDirty, NEW pc, Commit(c, k, r, isDirty, pc)
    PROVE  /\ at' \in [Flow -> State \cup {None}] /\ at'[k.flow] = r.at /\ r.at \in State
           /\ \A f \in Flow : at[f] \in State => at'[f] \in State
           /\ exit' \in [Flow -> Exits]
           /\ log' \in Logs /\ Rising(log')
<1>1. r.at \in State /\ r.exit \in Exits /\ r.log \in Logs /\ Rising(r.log)
  BY DEF GoodRun, RunOf
<1>2. /\ at' = [at EXCEPT ![k.flow] = r.at] /\ exit' = [exit EXCEPT ![k.flow] = r.exit] /\ log' = r.log
  BY DEF Commit
<1>3. at \in [Flow -> State \cup {None}] /\ exit \in [Flow -> Exits]
  BY DEF IndInv, TypeOK
<1> QED BY <1>1, <1>2, <1>3

LEMMA CallKept ==
    ASSUME IndInv, NEW c \in Call, NEW k \in CallRecord, k.flow \in Flow,
           NEW r, GoodRun(r), NEW isDirty \in BOOLEAN,
           NEW pc \in {"guard", "auto", "returned", "threw"}, Commit(c, k, r, isDirty, pc)
    PROVE  /\ call' \in [Call -> CallRecord]
           /\ call'[c].pc = pc /\ call'[c].flow = k.flow /\ call'[c].state = r.at
           /\ call'[c].cmd = k.cmd /\ call'[c].status = k.status
           /\ \A d \in Call \ {c} : call'[d] = call[d]
<1> DEFINE n == [k EXCEPT !.pc = pc, !.state = r.at, !.backup = isDirty, !.moves = r.moves]
<1>1. r.at \in State /\ r.moves \in Nat
  BY DEF GoodRun, RunOf
<1>2. /\ n \in CallRecord /\ n.pc = pc /\ n.flow = k.flow /\ n.state = r.at
      /\ n.cmd = k.cmd /\ n.status = k.status
  BY <1>1 DEF CallRecord
<1>3. call' = [call EXCEPT ![c] = n] /\ call \in [Call -> CallRecord]
  BY DEF Commit, IndInv, TypeOK
<1> HIDE DEF n
<1> QED BY <1>2, <1>3

LEMMA CommitKeeps ==
    ASSUME IndInv, NEW c \in Call, NEW k \in CallRecord, k.flow \in Flow,
           NEW r, GoodRun(r), NEW isDirty \in BOOLEAN,
           NEW pc \in {"guard", "auto", "returned", "threw"}, Commit(c, k, r, isDirty, pc),
           pc = "guard" => External[r.at] # None, pc = "auto" => AutoTarget[r.at] # None,
           seen' \subseteq Flow \X Command
    PROVE  IndInv'
<1>1. /\ at' \in [Flow -> State \cup {None}] /\ at'[k.flow] = r.at /\ r.at \in State
      /\ \A f \in Flow : at[f] \in State => at'[f] \in State
      /\ exit' \in [Flow -> Exits]
      /\ log' \in Logs /\ Rising(log')
  BY FlowsKept
<1>2. /\ call' \in [Call -> CallRecord]
      /\ call'[c].pc = pc /\ call'[c].flow = k.flow /\ call'[c].state = r.at
      /\ \A d \in Call \ {c} : call'[d] = call[d]
  BY CallKept
<1>3. /\ auditInside' \in BOOLEAN
      /\ dirty' \in [Flow -> BOOLEAN]
      /\ stored' \subseteq stored \cup {k.flow} /\ stored \subseteq Flow
  BY DEF Commit, IndInv, TypeOK
<1>4. TypeOK'
  BY <1>1, <1>2, <1>3 DEF TypeOK
<1>5. VersionsRise'
  BY <1>1 DEF VersionsRise, Rising
<1>6. \A f \in stored' : at'[f] \in State
  BY <1>1, <1>3 DEF IndInv
<1>7. \A d \in Call : CallOK(call[d])'
  <2> TAKE d \in Call
  <2>1. CASE d = c
    BY <1>1, <1>2, <2>1 DEF CallOK
  <2>2. CASE d # c
    <3>1. call'[d] = call[d] /\ CallOK(call[d]) /\ call[d] \in CallRecord
      BY <1>2, <2>2 DEF IndInv, TypeOK
    <3> QED BY <1>1, <3>1 DEF CallOK
  <2> QED BY <2>1, <2>2
<1> QED BY <1>4, <1>5, <1>6, <1>7 DEF IndInv

LEMMA ChainKeeps ==
    ASSUME IndInv, NEW c \in Call, NEW k \in CallRecord, k.flow \in Flow,
           NEW r, GoodRun(r), NEW isDirty \in BOOLEAN, Chain(c, k, r, isDirty),
           seen' \subseteq Flow \X Command
    PROVE  IndInv'
<1>1. r.at \in State /\ r.at \in Exits
  BY DEF GoodRun, RunOf, Exits
<1>2. CASE r.at \in Terminal
  <2> DEFINE e == [r EXCEPT !.exit = r.at]
  <2>1. GoodRun(e)
    BY <1>1, ExitKeeps
  <2>2. Commit(c, k, e, isDirty, "returned")
    BY <1>2 DEF Chain
  <2> HIDE DEF e
  <2> QED BY <2>1, <2>2, CommitKeeps
<1>3. CASE r.at \notin Terminal
  <2>1. \E pc \in {"returned", "auto"} : /\ Commit(c, k, r, isDirty, pc)
                                         /\ pc = "auto" => AutoTarget[r.at] # None
    BY <1>3 DEF Chain
  <2> QED BY <2>1, CommitKeeps
<1> QED BY <1>2, <1>3

LEMMA FailKeeps ==
    ASSUME IndInv, NEW c \in Call, NEW k \in CallRecord, k.flow \in Flow,
           NEW r, GoodRun(r), NEW from \in State, NEW isDirty \in BOOLEAN, Fail(c, k, r, from, isDirty),
           seen' \subseteq Flow \X Command
    PROVE  IndInv'
<1> DEFINE e == handleError(r, k.flow, from, isDirty)
<1>1. GoodRun(e)
  BY HandleErrorKeeps DEF IndInv
<1>2. \E pc \in {"returned", "threw"} : Commit(c, k, e, isDirty, pc)
  BY DEF Fail
<1> HIDE DEF e
<1> QED BY <1>1, <1>2, CommitKeeps

(* What a call sees of its flow when it goes on.                           *)
LEMMA SeenIsGood ==
    ASSUME IndInv, NEW k \in CallRecord, k.flow \in Flow, at[k.flow] \in State
    PROVE  GoodRun(Seen(k)) /\ Seen(k).at = at[k.flow]
<1>1. exit[k.flow] \in Exits /\ log \in Logs /\ Rising(log) /\ k.moves \in Nat
  BY DEF IndInv, TypeOK, VersionsRise, CallRecord
<1> QED BY <1>1 DEF Seen, GoodRun, RunOf

LEMMA StepKeeps ==
    ASSUME IndInv, NEW c \in Call, call[c].pc \in {"process", "auto"}, NEW to \in State,
           NEW rereads \in BOOLEAN, Step(c, to, rereads), seen' \subseteq Flow \X Command
    PROVE  IndInv'
<1> DEFINE k == call[c]
           from(s) == IF rereads THEN s ELSE k.state
<1>1. /\ k \in CallRecord /\ k.flow \in Flow /\ k.state \in State /\ at[k.flow] \in State
      /\ k.backup \in BOOLEAN
  BY DEF IndInv, TypeOK, CallOK, CallRecord
<1>2. GoodRun(Seen(k))
  BY <1>1, SeenIsGood
<1>3. CASE Fail(c, k, Seen(k), from(at[k.flow]), k.backup)
  <2>1. from(at[k.flow]) \in State
    BY <1>1
  <2> HIDE DEF k, from
  <2> QED BY <1>1, <1>2, <1>3, <2>1, FailKeeps
<1>4. CASE \E enters, isDirty \in BOOLEAN :
             LET r == transitionTo(Seen(k), k.flow, to, isDirty, enters)
             IN  IF r.threw THEN Fail(c, k, r, from(r.at), k.backup) ELSE Chain(c, k, r, isDirty)
  <2>1. PICK enters \in BOOLEAN, isDirty \in BOOLEAN :
             LET r == transitionTo(Seen(k), k.flow, to, isDirty, enters)
             IN  IF r.threw THEN Fail(c, k, r, from(r.at), k.backup) ELSE Chain(c, k, r, isDirty)
    BY <1>4
  <2> DEFINE r == transitionTo(Seen(k), k.flow, to, isDirty, enters)
  <2>2. GoodRun(r)
    BY <1>1, <1>2, TransitionKeeps DEF IndInv
  <2>3. from(r.at) \in State
    BY <1>1, <2>2 DEF GoodRun, RunOf
  <2>4. Fail(c, k, r, from(r.at), k.backup) \/ Chain(c, k, r, isDirty)
    BY <2>1
  <2> HIDE DEF k, r, from
  <2> QED BY <1>1, <2>2, <2>3, <2>4, FailKeeps, ChainKeeps
<1> QED BY <1>3, <1>4 DEF Step

LEMMA SettleKeeps ==
    ASSUME IndInv, NEW c \in Call, NEW k \in CallRecord, k.flow \in Flow,
           NEW pc \in {"answered", "threw"}, NEW status \in Status, Settle(c, k, pc, status),
           seen' \subseteq Flow \X Command
    PROVE  /\ IndInv'
           /\ call'[c].pc = pc /\ call'[c].flow = k.flow /\ call'[c].cmd = k.cmd
           /\ call'[c].status = status
           /\ \A d \in Call \ {c} : call'[d] = call[d]
<1> DEFINE n == [k EXCEPT !.pc = pc, !.status = status]
<1>1. /\ n \in CallRecord /\ n.pc = pc /\ n.flow = k.flow /\ n.cmd = k.cmd /\ n.status = status
  BY DEF CallRecord
<1>2. call' = [call EXCEPT ![c] = n] /\ UNCHANGED flowVars /\ call \in [Call -> CallRecord]
  BY DEF Settle, IndInv, TypeOK
<1> HIDE DEF n
<1>3. /\ call' \in [Call -> CallRecord] /\ call'[c] = n
      /\ \A d \in Call \ {c} : call'[d] = call[d]
  BY <1>1, <1>2
<1>4. TypeOK'
  BY <1>2, <1>3 DEF IndInv, TypeOK, flowVars
<1>5. VersionsRise'
  BY <1>2 DEF IndInv, VersionsRise, Rising, flowVars
<1>6. \A f \in stored' : at'[f] \in State
  BY <1>2 DEF IndInv, flowVars
<1>7. \A d \in Call : CallOK(call[d])'
  <2> TAKE d \in Call
  <2>1. CASE d = c
    BY <1>1, <1>3, <2>1 DEF CallOK
  <2>2. CASE d # c
    BY <1>2, <1>3, <2>2 DEF IndInv, CallOK, flowVars
  <2> QED BY <2>1, <2>2
<1> QED BY <1>1, <1>3, <1>4, <1>5, <1>6, <1>7 DEF IndInv

LEMMA IdleRecord == Idle \in CallRecord
  BY DEF Idle, CallRecord

LEMMA DeliveredRecord ==
    ASSUME TypeOK, NEW f \in Flow, NEW cmd \in Command
    PROVE  LET k == Delivered(f, cmd) IN
           /\ k \in CallRecord /\ k.flow = f /\ k.cmd = cmd /\ k.prev = at[f] /\ k.pc = "idle"
           /\ k.status = None
<1>1. at[f] \in State \cup {None}
  BY DEF TypeOK
<1> QED BY <1>1 DEF Delivered, Idle, CallRecord

-----------------------------------------------------------------------------
(* The actions.                                                            *)

LEMMA StartKeeps ==
    ASSUME IndInv, NEW c \in Call, NEW f \in Flow, startFlow(c, f)
    PROVE  IndInv'
<1>1. PICK isDirty \in BOOLEAN :
        /\ dirty' = [dirty EXCEPT ![f] = isDirty]
        /\ call' = [call EXCEPT ![c] =
                      [Idle EXCEPT !.pc = IF AutoTarget[Initial] = None THEN "returned" ELSE "auto",
                                   !.flow = f, !.state = Initial, !.backup = isDirty]]
  BY DEF startFlow
<1> DEFINE n == [Idle EXCEPT !.pc = IF AutoTarget[Initial] = None THEN "returned" ELSE "auto",
                             !.flow = f, !.state = Initial, !.backup = isDirty]
<1>2. /\ n \in CallRecord /\ n.flow = f /\ n.state = Initial /\ n.pc \in {"returned", "auto"}
      /\ n.pc = "auto" => AutoTarget[Initial] # None
  BY Tables DEF Idle, CallRecord
<1>3. call' = [call EXCEPT ![c] = n]
  BY <1>1
<1> HIDE DEF n
<1>4. /\ at' = [at EXCEPT ![f] = Initial] /\ stored' = stored \cup {f}
      /\ UNCHANGED <<auditInside, exit, log, seen>>
  BY DEF startFlow
<1>5. /\ at \in [Flow -> State \cup {None}] /\ call \in [Call -> CallRecord]
      /\ stored \subseteq Flow /\ dirty \in [Flow -> BOOLEAN]
  BY DEF IndInv, TypeOK
<1>6. /\ at' \in [Flow -> State \cup {None}] /\ at'[f] = Initial
      /\ \A g \in Flow : at[g] \in State => at'[g] \in State
  BY <1>4, <1>5, Tables
<1>7. /\ call' \in [Call -> CallRecord] /\ call'[c] = n
      /\ \A d \in Call \ {c} : call'[d] = call[d]
  BY <1>2, <1>3, <1>5
<1>8. TypeOK'
  <2>1. dirty' \in [Flow -> BOOLEAN]
    BY <1>1, <1>5
  <2> QED BY <1>4, <1>5, <1>6, <1>7, <2>1 DEF IndInv, TypeOK
<1>9. VersionsRise'
  BY <1>4 DEF IndInv, VersionsRise, Rising
<1>10. \A g \in stored' : at'[g] \in State
  BY <1>4, <1>5, <1>6, Tables DEF IndInv
<1>11. \A d \in Call : CallOK(call[d])'
  <2> TAKE d \in Call
  <2>1. CASE d = c
    BY <1>2, <1>6, <1>7, <2>1, Tables DEF CallOK
  <2>2. CASE d # c
    <3>1. call'[d] = call[d] /\ CallOK(call[d])
      BY <1>7, <2>2 DEF IndInv
    <3> QED BY <1>6, <3>1 DEF CallOK
  <2> QED BY <2>1, <2>2
<1> QED BY <1>8, <1>9, <1>10, <1>11 DEF IndInv

LEMMA DeliverKeeps ==
    ASSUME IndInv, NEW c \in Call, NEW f \in Flow, NEW cmd \in Command, deliver(c, f, cmd)
    PROVE  IndInv'
<1> DEFINE k == Delivered(f, cmd)
           isLoaded == f \in stored /\ exit[f] = None
<1>1. k \in CallRecord /\ k.flow = f
  BY DeliveredRecord DEF IndInv
<1>2. seen' \subseteq Flow \X Command
  BY DEF deliver, markIfFirstSeen, IndInv, TypeOK
<1>3. CASE \E status \in {"FLOW_NOT_FOUND", "INVALID_TRANSITION"} : Settle(c, k, "threw", status)
  <2>1. {"FLOW_NOT_FOUND", "INVALID_TRANSITION"} \subseteq Status
    BY DEF Status
  <2> HIDE DEF k
  <2> QED BY <1>1, <1>2, <1>3, <2>1, SettleKeeps
<1>4. ASSUME isLoaded, NEW isDirty \in BOOLEAN,
             Commit(c, k, [Seen(k) EXCEPT !.exit = "EXPIRED"], isDirty, "returned")
      PROVE  IndInv'
  <2>1. GoodRun(Seen(k))
    BY <1>1, <1>4, SeenIsGood DEF IndInv
  <2> HIDE DEF k
  <2> DEFINE r == [Seen(k) EXCEPT !.exit = "EXPIRED"]
  <2>2. GoodRun(r)
    BY <2>1, ExitKeeps DEF Exits
  <2>3. Commit(c, k, r, isDirty, "returned")
    BY <1>4
  <2> HIDE DEF r
  <2> QED BY <1>1, <1>2, <2>2, <2>3, CommitKeeps
<1>5. ASSUME isLoaded, NEW isDirty \in BOOLEAN, External[at[f]] # None,
             Commit(c, k, Seen(k), isDirty, "guard")
      PROVE  IndInv'
  <2>1. GoodRun(Seen(k)) /\ Seen(k).at = at[f]
    BY <1>1, <1>5, SeenIsGood DEF IndInv
  <2> HIDE DEF k
  <2> QED BY <1>1, <1>2, <1>5, <2>1, CommitKeeps
<1>6. ASSUME isLoaded, NEW isDirty \in BOOLEAN, NEW enters \in BOOLEAN, External[at[f]] # None,
             LET r == transitionTo(Seen(k), f, External[at[f]], isDirty, enters)
             IN  IF r.threw THEN Commit(c, k, r, isDirty, "threw") ELSE Chain(c, k, r, isDirty)
      PROVE  IndInv'
  <2>1. GoodRun(Seen(k)) /\ at[f] \in State
    BY <1>1, <1>6, SeenIsGood DEF IndInv
  <2> HIDE DEF k
  <2> DEFINE r == transitionTo(Seen(k), f, External[at[f]], isDirty, enters)
  <2>2. External[at[f]] \in State
    BY <1>6, <2>1, Tables
  <2>3. GoodRun(r)
    BY <1>6, <2>1, <2>2, TransitionKeeps DEF IndInv
  <2>4. Commit(c, k, r, isDirty, "threw") \/ Chain(c, k, r, isDirty)
    BY <1>6
  <2> HIDE DEF r
  <2> QED BY <1>1, <1>2, <1>6, <2>3, <2>4, CommitKeeps, ChainKeeps
<1> QED
  <2> HIDE DEF k
  <2>1. \/ ~isLoaded /\ Settle(c, k, "threw", "FLOW_NOT_FOUND")
        \/ isLoaded /\ External[at[f]] = None /\ Settle(c, k, "threw", "INVALID_TRANSITION")
        \/ /\ isLoaded
           /\ \E isDirty \in BOOLEAN :
                \/ Commit(c, k, [Seen(k) EXCEPT !.exit = "EXPIRED"], isDirty, "returned")
                \/ External[at[f]] # None /\ at[f] \notin Unguarded
                   /\ Commit(c, k, Seen(k), isDirty, "guard")
                \/ /\ External[at[f]] # None /\ at[f] \in Unguarded
                   /\ \E enters \in BOOLEAN :
                        LET r == transitionTo(Seen(k), f, External[at[f]], isDirty, enters)
                        IN  IF r.threw THEN Commit(c, k, r, isDirty, "threw")
                            ELSE Chain(c, k, r, isDirty)
    BY DEF deliver, k
  <2> HIDE DEF isLoaded
  <2> QED BY <1>3, <1>4, <1>5, <1>6, <2>1

LEMMA ValidateKeeps ==
    ASSUME IndInv, NEW c \in Call, validate(c)
    PROVE  IndInv'
<1> DEFINE k == call[c]
           f == k.flow
<1>1. /\ k \in CallRecord /\ f \in Flow /\ k.pc = "guard" /\ k.state \in State /\ at[f] \in State
      /\ External[k.state] # None /\ dirty[f] \in BOOLEAN /\ exit[f] \in Exits
  BY DEF IndInv, TypeOK, CallOK, validate
<1>2. GoodRun(Seen(k)) /\ seen' \subseteq Flow \X Command
  BY <1>1, SeenIsGood DEF validate, IndInv, TypeOK
<1>3. ASSUME NEW isDirty \in BOOLEAN,
             dirty' = [dirty EXCEPT ![f] = isDirty],
             call' = [call EXCEPT ![c] = [@ EXCEPT !.pc = "process", !.backup = dirty[f]]],
             UNCHANGED <<auditInside, stored, at, exit, log>>
      PROVE  IndInv'
  <2> DEFINE n == [k EXCEPT !.pc = "process", !.backup = dirty[f]]
  <2>1. n \in CallRecord /\ n.pc = "process" /\ n.flow = f /\ n.state = k.state
    BY <1>1 DEF CallRecord
  <2>2. call' = [call EXCEPT ![c] = n] /\ call \in [Call -> CallRecord] /\ dirty \in [Flow -> BOOLEAN]
    BY <1>3 DEF IndInv, TypeOK
  <2> HIDE DEF n, k, f
  <2>3. /\ call' \in [Call -> CallRecord] /\ call'[c] = n
        /\ \A d \in Call \ {c} : call'[d] = call[d]
    BY <2>1, <2>2
  <2>4. dirty' \in [Flow -> BOOLEAN]
    BY <1>3, <2>2
  <2>5. TypeOK' /\ VersionsRise' /\ \A g \in stored' : at'[g] \in State
    BY <1>2, <1>3, <2>3, <2>4 DEF IndInv, TypeOK, VersionsRise, Rising
  <2>6. \A d \in Call : CallOK(call[d])'
    <3> TAKE d \in Call
    <3>1. CASE d = c
      BY <1>1, <1>3, <2>1, <2>3, <3>1 DEF CallOK
    <3>2. CASE d # c
      BY <1>3, <2>3, <3>2 DEF IndInv, CallOK
    <3> QED BY <3>1, <3>2
  <2> QED BY <2>5, <2>6 DEF IndInv
<1>4. CASE Commit(c, k, Seen(k), dirty[f], "returned")
  <2> HIDE DEF k
  <2> QED BY <1>1, <1>2, <1>4, CommitKeeps
<1>5. CASE Commit(c, k, Seen(k), dirty[f], "threw")
  <2> HIDE DEF k
  <2> QED BY <1>1, <1>2, <1>5, CommitKeeps
<1>6. CASE Fail(c, k, Seen(k), k.state, dirty[f])
  <2> HIDE DEF k
  <2> QED BY <1>1, <1>2, <1>6, FailKeeps
<1>7. CASE Commit(c, k, [Seen(k) EXCEPT !.exit = "EXPIRED"], dirty[f], "returned")
  <2> HIDE DEF k
  <2> DEFINE r == [Seen(k) EXCEPT !.exit = "EXPIRED"]
  <2>1. GoodRun(r)
    BY <1>2, ExitKeeps DEF Exits
  <2>2. Commit(c, k, r, dirty[f], "returned")
    BY <1>7
  <2> HIDE DEF r
  <2> QED BY <1>1, <1>2, <2>1, <2>2, CommitKeeps
<1> QED BY <1>3, <1>4, <1>5, <1>6, <1>7 DEF validate

LEMMA AnswerStatus ==
    \A f, prev, code : classify(f, prev) \in Status /\ classifyError(code) \in Status
                       /\ classify(f, prev) # "DUPLICATE" /\ classifyError(code) # "DUPLICATE"
  BY DEF classify, classifyError, Status

(* Compensation and clear leave flows and calls alone.                     *)
LEMMA LogStepKeeps ==
    ASSUME IndInv, stored' \subseteq stored, log' \in Logs, Rising(log'),
           UNCHANGED <<auditInside, at, exit, dirty, seen, call>>
    PROVE  IndInv'
<1>1. TypeOK' /\ \A f \in stored' : at'[f] \in State
  BY DEF IndInv, TypeOK
<1>2. VersionsRise'
  BY DEF VersionsRise, Rising
<1>3. \A d \in Call : CallOK(call[d])'
  BY DEF IndInv, CallOK
<1> QED BY <1>1, <1>2, <1>3 DEF IndInv

LEMMA CompensateKeeps ==
    ASSUME IndInv, NEW i \in DOMAIN log.events, compensate(i)
    PROVE  IndInv'
<1>1. log \in Logs /\ Rising(log)
  BY DEF IndInv, TypeOK, VersionsRise
<1>2. log.events[i].flow \in Flow
  BY <1>1, RisingParts
<1>3. log' = appendCompensation(log, log.events[i].flow)
  BY DEF compensate
<1>4. log' \in Logs /\ Rising(log')
  <2> DEFINE f == log.events[i].flow
  <2>1. f \in Flow /\ log' = appendCompensation(log, f)
    BY <1>2, <1>3
  <2> HIDE DEF f
  <2> QED BY <1>1, <2>1, CompensationKeeps
<1> QED BY <1>4, LogStepKeeps DEF compensate

LEMMA ClearKeeps ==
    ASSUME IndInv, clear
    PROVE  IndInv'
<1>1. log.sink \in Seq(Move)
  BY LogFields DEF IndInv, TypeOK
<1>2. log' = [audit |-> <<>>, events |-> <<>>, sink |-> log.sink, version |-> [f \in Flow |-> 0]]
  BY DEF clear, NoEvents
<1>3. log' \in Logs
  <2>1. <<>> \in Seq(Move) /\ <<>> \in Seq(Event) /\ [f \in Flow |-> 0] \in [Flow -> Nat]
    BY EmptySeq
  <2> QED BY <1>1, <1>2, <2>1 DEF Logs
<1>4. Rising(log')
  BY <1>2 DEF Rising
<1> QED BY <1>3, <1>4, LogStepKeeps DEF clear

LEMMA InitGood == Init => IndInv
<1> SUFFICES ASSUME Init PROVE IndInv
  OBVIOUS
<1>1. log = [audit |-> <<>>, events |-> <<>>, sink |-> <<>>, version |-> [f \in Flow |-> 0]]
  BY DEF Init, NoEvents
<1>2. log \in Logs
  <2>1. <<>> \in Seq(Move) /\ <<>> \in Seq(Event) /\ [f \in Flow |-> 0] \in [Flow -> Nat]
    BY EmptySeq
  <2> QED BY <1>1, <2>1 DEF Logs
<1>3. TypeOK
  BY <1>2, IdleRecord DEF Init, TypeOK, Exits
<1>4. VersionsRise
  BY <1>1 DEF VersionsRise, Rising
<1>5. \A c \in Call : call[c].pc = "idle"
  BY DEF Init, Idle
<1> QED BY <1>3, <1>4, <1>5 DEF IndInv, CallOK, Init

LEMMA NextKeeps == IndInv /\ [Next]_vars => IndInv'
<1> SUFFICES ASSUME IndInv, [Next]_vars PROVE IndInv'
  OBVIOUS
<1>1. ASSUME NEW c \in Call, NEW f \in Flow, startFlow(c, f) PROVE IndInv'
  BY <1>1, StartKeeps
<1>2. ASSUME NEW c \in Call, NEW f \in Flow, NEW cmd \in Command, deliver(c, f, cmd) PROVE IndInv'
  BY <1>2, DeliverKeeps
<1>3. ASSUME NEW c \in Call, NEW f \in Flow, NEW cmd \in Command, deliverAgain(c, f, cmd) PROVE IndInv'
  <2> DEFINE k == Delivered(f, cmd)
  <2>1. k \in CallRecord /\ k.flow \in Flow
    BY DeliveredRecord DEF IndInv
  <2>2. Settle(c, k, "answered", "DUPLICATE") /\ seen' \subseteq Flow \X Command
    BY <1>3 DEF deliverAgain, IndInv, TypeOK
  <2>3. "DUPLICATE" \in Status
    BY DEF Status
  <2> HIDE DEF k
  <2> QED BY <2>1, <2>2, <2>3, SettleKeeps
<1>4. ASSUME NEW c \in Call, validate(c) PROVE IndInv'
  BY <1>4, ValidateKeeps
<1>5. ASSUME NEW c \in Call, process(c) PROVE IndInv'
  <2>1. External[call[c].state] \in State /\ seen' \subseteq Flow \X Command
    BY <1>5, Tables DEF process, IndInv, TypeOK, CallOK
  <2> QED BY <1>5, <2>1, StepKeeps DEF process
<1>6. ASSUME NEW c \in Call, auto(c) PROVE IndInv'
  <2>1. AutoTarget[call[c].state] \in State /\ seen' \subseteq Flow \X Command
    BY <1>6, Tables DEF auto, IndInv, TypeOK, CallOK
  <2> QED BY <1>6, <2>1, StepKeeps DEF auto
<1>7. ASSUME NEW c \in Call, answer(c) PROVE IndInv'
  <2> DEFINE k == call[c]
             status == IF k.pc = "returned" THEN classify(k.flow, k.prev) ELSE classifyError(k.status)
  <2>1. k \in CallRecord /\ k.flow \in Flow
    BY <1>7 DEF answer, IndInv, TypeOK, CallOK
  <2>2. Settle(c, k, "answered", status) /\ seen' \subseteq Flow \X Command
    BY <1>7 DEF answer, IndInv, TypeOK
  <2>3. status \in Status
    BY AnswerStatus
  <2> HIDE DEF k, status
  <2> QED BY <2>1, <2>2, <2>3, SettleKeeps
<1>8. ASSUME NEW i \in DOMAIN log.events, compensate(i) PROVE IndInv'
  BY <1>8, CompensateKeeps
<1>9. CASE clear
  BY <1>9, ClearKeeps
<1>10. CASE UNCHANGED vars
  <2>1. stored' \subseteq stored /\ log' \in Logs /\ Rising(log')
    BY <1>10 DEF vars, IndInv, TypeOK, VersionsRise
  <2> QED BY <1>10, <2>1, LogStepKeeps DEF vars
<1> QED BY <1>1, <1>2, <1>3, <1>4, <1>5, <1>6, <1>7, <1>8, <1>9, <1>10 DEF Next

(* The logs, the registry and every call keep their types, for any machine *)
(* and any number of overlapping calls.                                    *)
THEOREM TypeCorrect == Spec => []TypeOK
<1>1. IndInv => TypeOK
  BY DEF IndInv
<1> QED BY InitGood, NextKeeps, <1>1, PTL DEF Spec

(* event-log-store-decorator.ts: the versions of a flow rise strictly      *)
(* along its log, whatever throws, overlaps, compensates or clears.        *)
THEOREM VersionsAlwaysRise == Spec => []VersionsRise
<1>1. IndInv => VersionsRise
  BY DEF IndInv
<1> QED BY InitGood, NextKeeps, <1>1, PTL DEF Spec

-----------------------------------------------------------------------------
(* Commands.                                                               *)

(* Call c goes on with the delivery it has, if any.                        *)
SameDelivery(c) ==
    /\ seen' = seen
    /\ \A d \in Call \ {c} : call'[d] = call[d]
    /\ call'[c].cmd = call[c].cmd
    /\ call[c].cmd # None => call'[c].flow = call[c].flow
    /\ call'[c].status = "DUPLICATE" <=> call[c].status = "DUPLICATE"
    /\ call'[c].pc = "idle" => call[c].cmd = None
    /\ call'[c].pc # "answered" => call'[c].status # "DUPLICATE"

LEMMA SameDeliveryOnce ==
    ASSUME OnceInv, NEW c \in Call, SameDelivery(c)
    PROVE  OnceInv'
<1>1. ASSUME NEW d \in Call
      PROVE  /\ call'[d].cmd # None => <<call'[d].flow, call'[d].cmd>> \in seen'
             /\ call'[d].pc = "idle" => call'[d].cmd = None
             /\ call'[d].pc # "answered" => call'[d].status # "DUPLICATE"
  BY DEF SameDelivery, OnceInv
<1>2. ASSUME NEW d \in Call, NEW f \in Flow, NEW cmd \in Command
      PROVE  Ran(call'[d], f, cmd) <=> Ran(call[d], f, cmd)
  BY Tables DEF SameDelivery, Ran
<1>3. ASSUME NEW f \in Flow, NEW cmd \in Command
      PROVE  /\ <<f, cmd>> \in seen' => \E d \in Call : Ran(call'[d], f, cmd)
             /\ \A d, e \in Call : Ran(call'[d], f, cmd) /\ Ran(call'[e], f, cmd) => d = e
  BY <1>2 DEF OnceInv, SameDelivery
<1> QED BY <1>1, <1>3 DEF OnceInv, Ran

LEMMA CommitSame ==
    ASSUME TypeOK, OnceInv, NEW c \in Call, call[c].pc \notin {"idle", "answered"},
           NEW r, NEW isDirty, NEW pc \in {"returned", "threw", "auto"},
           Commit(c, call[c], r, isDirty, pc), seen' = seen
    PROVE  SameDelivery(c)
<1> DEFINE n == [call[c] EXCEPT !.pc = pc, !.state = r.at, !.backup = isDirty, !.moves = r.moves]
<1>1. call[c] \in CallRecord /\ call \in [Call -> CallRecord]
  BY DEF TypeOK
<1>2. n.pc = pc /\ n.flow = call[c].flow /\ n.cmd = call[c].cmd /\ n.status = call[c].status
  BY <1>1 DEF CallRecord
<1>3. call' = [call EXCEPT ![c] = n]
  BY DEF Commit
<1>4. call[c].status # "DUPLICATE"
  BY DEF OnceInv
<1> HIDE DEF n
<1>5. call'[c] = n /\ \A d \in Call \ {c} : call'[d] = call[d]
  BY <1>1, <1>3
<1> QED BY <1>2, <1>4, <1>5 DEF SameDelivery

LEMMA ChainSame ==
    ASSUME TypeOK, OnceInv, NEW c \in Call, call[c].pc \notin {"idle", "answered"},
           NEW r, NEW isDirty, Chain(c, call[c], r, isDirty), seen' = seen
    PROVE  SameDelivery(c)
<1>1. \E s, pc : pc \in {"returned", "auto"} /\ Commit(c, call[c], s, isDirty, pc)
  BY DEF Chain
<1> QED BY <1>1, CommitSame

LEMMA FailSame ==
    ASSUME TypeOK, OnceInv, NEW c \in Call, call[c].pc \notin {"idle", "answered"},
           NEW r, NEW from, NEW isDirty, Fail(c, call[c], r, from, isDirty), seen' = seen
    PROVE  SameDelivery(c)
<1>1. \E s, pc : pc \in {"returned", "threw"} /\ Commit(c, call[c], s, isDirty, pc)
  BY DEF Fail
<1> QED BY <1>1, CommitSame

LEMMA StepSame ==
    ASSUME TypeOK, OnceInv, NEW c \in Call, call[c].pc \in {"process", "auto"},
           NEW to, NEW rereads, Step(c, to, rereads), seen' = seen
    PROVE  SameDelivery(c)
<1>1. \/ \E r, from, isDirty : Fail(c, call[c], r, from, isDirty)
      \/ \E r, isDirty : Chain(c, call[c], r, isDirty)
  BY DEF Step
<1> QED BY <1>1, FailSame, ChainSame

LEMMA ValidateSame ==
    ASSUME TypeOK, OnceInv, NEW c \in Call, validate(c)
    PROVE  SameDelivery(c)
<1>1. call[c] \in CallRecord /\ call \in [Call -> CallRecord] /\ call[c].pc = "guard" /\ seen' = seen
  BY DEF TypeOK, validate
<1>2. CASE \E isDirty \in BOOLEAN :
             call' = [call EXCEPT ![c] = [@ EXCEPT !.pc = "process", !.backup = dirty[call[c].flow]]]
  <2> DEFINE n == [call[c] EXCEPT !.pc = "process", !.backup = dirty[call[c].flow]]
  <2>1. n.pc = "process" /\ n.flow = call[c].flow /\ n.cmd = call[c].cmd /\ n.status = call[c].status
    BY <1>1 DEF CallRecord
  <2>2. call' = [call EXCEPT ![c] = n]
    BY <1>2
  <2>3. call[c].status # "DUPLICATE"
    BY <1>1 DEF OnceInv
  <2> HIDE DEF n
  <2>4. call'[c] = n /\ \A d \in Call \ {c} : call'[d] = call[d]
    BY <1>1, <2>2
  <2> QED BY <1>1, <2>1, <2>3, <2>4 DEF SameDelivery
<1>3. CASE \E r, isDirty, pc : pc \in {"returned", "threw"} /\ Commit(c, call[c], r, isDirty, pc)
  BY <1>1, <1>3, CommitSame
<1>4. CASE \E r, from, isDirty : Fail(c, call[c], r, from, isDirty)
  BY <1>1, <1>4, FailSame
<1> QED BY <1>2, <1>3, <1>4 DEF validate

LEMMA AnswerSame ==
    ASSUME IndInv, OnceInv, NEW c \in Call, answer(c)
    PROVE  SameDelivery(c)
<1> DEFINE k == call[c]
           status == IF k.pc = "returned" THEN classify(k.flow, k.prev) ELSE classifyError(k.status)
<1>1. k \in CallRecord /\ k.flow \in Flow /\ k.pc \in {"returned", "threw"}
  BY DEF answer, IndInv, TypeOK, CallOK
<1>2. Settle(c, k, "answered", status) /\ seen' = seen /\ seen' \subseteq Flow \X Command
  BY DEF answer, IndInv, TypeOK
<1>3. status \in Status /\ status # "DUPLICATE"
  BY AnswerStatus
<1>4. k.status # "DUPLICATE"
  BY <1>1 DEF OnceInv
<1> HIDE DEF status
<1>5. /\ call'[c].pc = "answered" /\ call'[c].flow = call[c].flow /\ call'[c].cmd = call[c].cmd
      /\ call'[c].status = status
      /\ \A d \in Call \ {c} : call'[d] = call[d]
  BY <1>1, <1>2, <1>3, SettleKeeps
<1> QED BY <1>2, <1>3, <1>4, <1>5 DEF SameDelivery

LEMMA StartSame ==
    ASSUME TypeOK, OnceInv, NEW c \in Call, NEW f \in Flow, startFlow(c, f)
    PROVE  SameDelivery(c)
<1>1. PICK isDirty \in BOOLEAN :
        call' = [call EXCEPT ![c] =
                   [Idle EXCEPT !.pc = IF AutoTarget[Initial] = None THEN "returned" ELSE "auto",
                                !.flow = f, !.state = Initial, !.backup = isDirty]]
  BY DEF startFlow
<1> DEFINE n == [Idle EXCEPT !.pc = IF AutoTarget[Initial] = None THEN "returned" ELSE "auto",
                             !.flow = f, !.state = Initial, !.backup = isDirty]
<1>2. n.pc \in {"returned", "auto"} /\ n.cmd = None /\ n.status = None
  BY DEF Idle
<1>3. call' = [call EXCEPT ![c] = n] /\ call[c].pc = "idle" /\ seen' = seen /\ call \in [Call -> CallRecord]
  BY <1>1 DEF startFlow, TypeOK
<1> HIDE DEF n
<1>4. call'[c] = n /\ \A d \in Call \ {c} : call'[d] = call[d]
  BY <1>3
<1>5. call[c].cmd = None /\ call[c].status # "DUPLICATE"
  BY <1>3 DEF OnceInv
<1>6. n.status # "DUPLICATE"
  BY <1>2, NotDuplicate
<1> QED BY <1>2, <1>3, <1>4, <1>5, <1>6 DEF SameDelivery

(* The first delivery of a command.                                        *)
LEMMA FirstDelivery ==
    ASSUME OnceInv, NEW c \in Call, NEW f \in Flow, NEW cmd \in Command,
           call[c].pc = "idle", ~isDuplicate(f, cmd), seen' = markIfFirstSeen(f, cmd),
           \A d \in Call \ {c} : call'[d] = call[d],
           call'[c].flow = f, call'[c].cmd = cmd, call'[c].pc # "idle", call'[c].status # "DUPLICATE"
    PROVE  OnceInv'
<1>1. call[c].cmd = None /\ cmd # None
  BY Tables DEF OnceInv
<1>2. <<f, cmd>> \notin seen /\ seen' = seen \cup {<<f, cmd>>}
  BY DEF isDuplicate, markIfFirstSeen
<1>3. ASSUME NEW d \in Call
      PROVE  /\ call'[d].cmd # None => <<call'[d].flow, call'[d].cmd>> \in seen'
             /\ call'[d].pc = "idle" => call'[d].cmd = None
             /\ call'[d].pc # "answered" => call'[d].status # "DUPLICATE"
  BY <1>2 DEF OnceInv
<1>4. ASSUME NEW g \in Flow, NEW other \in Command, NEW d \in Call
      PROVE  /\ Ran(call'[d], g, other) <=> \/ Ran(call[d], g, other) /\ d # c
                                            \/ d = c /\ g = f /\ other = cmd
             /\ ~Ran(call[c], g, other)
  BY <1>1, Tables DEF Ran
<1>5. ASSUME NEW d \in Call PROVE ~Ran(call[d], f, cmd)
  BY <1>1, <1>2 DEF Ran, OnceInv
<1>6. ASSUME NEW g \in Flow, NEW other \in Command
      PROVE  /\ <<g, other>> \in seen' => \E d \in Call : Ran(call'[d], g, other)
             /\ \A d, e \in Call : Ran(call'[d], g, other) /\ Ran(call'[e], g, other) => d = e
  <2>1. CASE g = f /\ other = cmd
    BY <1>4, <1>5, <2>1
  <2>2. CASE ~(g = f /\ other = cmd)
    <3>1. <<g, other>> \in seen' <=> <<g, other>> \in seen
      BY <1>2, <2>2
    <3>2. \A d \in Call : Ran(call'[d], g, other) <=> Ran(call[d], g, other)
      BY <1>4, <2>2
    <3> QED BY <3>1, <3>2 DEF OnceInv
  <2> QED BY <2>1, <2>2
<1> QED BY <1>3, <1>6 DEF OnceInv, Ran

LEMMA DeliverOnce ==
    ASSUME IndInv, OnceInv, NEW c \in Call, NEW f \in Flow, NEW cmd \in Command, deliver(c, f, cmd)
    PROVE  OnceInv'
<1> DEFINE k == Delivered(f, cmd)
<1>1. k \in CallRecord /\ k.flow = f /\ k.cmd = cmd /\ k.status = None
  BY DeliveredRecord DEF IndInv
<1>2. /\ call[c].pc = "idle" /\ ~isDuplicate(f, cmd) /\ seen' = markIfFirstSeen(f, cmd)
      /\ call \in [Call -> CallRecord] /\ seen' \subseteq Flow \X Command
  BY DEF deliver, markIfFirstSeen, IndInv, TypeOK
<1>3. \/ \E status \in {"FLOW_NOT_FOUND", "INVALID_TRANSITION"} : Settle(c, k, "threw", status)
      \/ \E r, isDirty, pc : pc \in {"returned", "guard", "threw", "auto"} /\ Commit(c, k, r, isDirty, pc)
  <2> HIDE DEF k
  <2>1. \A r, isDirty : Chain(c, k, r, isDirty) =>
           \E s, pc : pc \in {"returned", "auto"} /\ Commit(c, k, s, isDirty, pc)
    BY DEF Chain
  <2>2. \/ \E status \in {"FLOW_NOT_FOUND", "INVALID_TRANSITION"} : Settle(c, k, "threw", status)
        \/ \E r, isDirty, pc : pc \in {"returned", "guard", "threw"} /\ Commit(c, k, r, isDirty, pc)
        \/ \E r, isDirty : Chain(c, k, r, isDirty)
    BY DEF deliver, k
  <2> QED BY <2>1, <2>2
<1> HIDE DEF k
<1>4. CASE \E status \in {"FLOW_NOT_FOUND", "INVALID_TRANSITION"} : Settle(c, k, "threw", status)
  <2>1. PICK status \in {"FLOW_NOT_FOUND", "INVALID_TRANSITION"} : Settle(c, k, "threw", status)
    BY <1>4
  <2>2. status \in Status /\ status # "DUPLICATE"
    BY DEF Status
  <2>3. /\ call'[c].pc = "threw" /\ call'[c].flow = f /\ call'[c].cmd = cmd
        /\ call'[c].status = status
        /\ \A d \in Call \ {c} : call'[d] = call[d]
    BY <1>1, <1>2, <2>1, <2>2, SettleKeeps
  <2> QED BY <1>2, <2>2, <2>3, FirstDelivery
<1>5. CASE \E r, isDirty, pc : pc \in {"returned", "guard", "threw", "auto"} /\ Commit(c, k, r, isDirty, pc)
  <2>1. PICK r, isDirty, pc : pc \in {"returned", "guard", "threw", "auto"} /\ Commit(c, k, r, isDirty, pc)
    BY <1>5
  <2> DEFINE n == [k EXCEPT !.pc = pc, !.state = r.at, !.backup = isDirty, !.moves = r.moves]
  <2>2. n.pc = pc /\ n.flow = f /\ n.cmd = cmd /\ n.status = None
    BY <1>1 DEF CallRecord
  <2>3. call' = [call EXCEPT ![c] = n]
    BY <2>1 DEF Commit
  <2> HIDE DEF n
  <2>4. call'[c] = n /\ \A d \in Call \ {c} : call'[d] = call[d]
    BY <1>2, <2>3
  <2>5. call'[c].status # "DUPLICATE" /\ call'[c].pc # "idle"
    BY <2>1, <2>2, <2>4, NotDuplicate
  <2> QED BY <1>2, <2>2, <2>4, <2>5, FirstDelivery
<1> QED BY <1>3, <1>4, <1>5

(* A command that comes again.                                             *)
LEMMA DuplicateOnce ==
    ASSUME IndInv, OnceInv, NEW c \in Call, NEW f \in Flow, NEW cmd \in Command, deliverAgain(c, f, cmd)
    PROVE  OnceInv'
<1> DEFINE k == Delivered(f, cmd)
<1>1. k \in CallRecord /\ k.flow = f /\ k.cmd = cmd
  BY DeliveredRecord DEF IndInv
<1>2. /\ call[c].pc = "idle" /\ <<f, cmd>> \in seen /\ seen' = seen /\ seen' \subseteq Flow \X Command
      /\ Settle(c, k, "answered", "DUPLICATE") /\ "DUPLICATE" \in Status
  BY DEF deliverAgain, isDuplicate, IndInv, TypeOK, Status
<1> HIDE DEF k
<1>3. /\ call'[c].pc = "answered" /\ call'[c].flow = f /\ call'[c].cmd = cmd
      /\ call'[c].status = "DUPLICATE"
      /\ \A d \in Call \ {c} : call'[d] = call[d]
  BY <1>1, <1>2, SettleKeeps
<1>4. ASSUME NEW d \in Call
      PROVE  /\ call'[d].cmd # None => <<call'[d].flow, call'[d].cmd>> \in seen'
             /\ call'[d].pc = "idle" => call'[d].cmd = None
             /\ call'[d].pc # "answered" => call'[d].status # "DUPLICATE"
  BY <1>2, <1>3 DEF OnceInv
<1>5. call[c].cmd = None
  BY <1>2 DEF OnceInv
<1>6. ASSUME NEW d \in Call, NEW g \in Flow, NEW other \in Command
      PROVE  Ran(call'[d], g, other) <=> Ran(call[d], g, other)
  BY <1>3, <1>5, Tables DEF Ran
<1>7. ASSUME NEW g \in Flow, NEW other \in Command
      PROVE  /\ <<g, other>> \in seen' => \E d \in Call : Ran(call'[d], g, other)
             /\ \A d, e \in Call : Ran(call'[d], g, other) /\ Ran(call'[e], g, other) => d = e
  BY <1>2, <1>6 DEF OnceInv
<1> QED BY <1>4, <1>7 DEF OnceInv, Ran

LEMMA NextOnce == IndInv /\ OnceInv /\ [Next]_vars => OnceInv'
<1> SUFFICES ASSUME IndInv, OnceInv, [Next]_vars PROVE OnceInv'
  OBVIOUS
<1>1. TypeOK
  BY DEF IndInv
<1>2. ASSUME NEW c \in Call, NEW f \in Flow, startFlow(c, f) PROVE OnceInv'
  BY <1>1, <1>2, StartSame, SameDeliveryOnce
<1>3. ASSUME NEW c \in Call, NEW f \in Flow, NEW cmd \in Command, deliver(c, f, cmd) PROVE OnceInv'
  BY <1>3, DeliverOnce
<1>4. ASSUME NEW c \in Call, NEW f \in Flow, NEW cmd \in Command, deliverAgain(c, f, cmd) PROVE OnceInv'
  BY <1>4, DuplicateOnce
<1>5. ASSUME NEW c \in Call, validate(c) PROVE OnceInv'
  BY <1>1, <1>5, ValidateSame, SameDeliveryOnce
<1>6. ASSUME NEW c \in Call, process(c) PROVE OnceInv'
  <2>1. SameDelivery(c)
    BY <1>1, <1>6, StepSame DEF process
  <2> QED BY <2>1, SameDeliveryOnce
<1>7. ASSUME NEW c \in Call, auto(c) PROVE OnceInv'
  <2>1. SameDelivery(c)
    BY <1>1, <1>7, StepSame DEF auto
  <2> QED BY <2>1, SameDeliveryOnce
<1>8. ASSUME NEW c \in Call, answer(c) PROVE OnceInv'
  BY <1>8, AnswerSame, SameDeliveryOnce
<1>9. CASE UNCHANGED <<seen, call>>
  BY <1>9 DEF OnceInv, Ran
<1>10. (\E i \in DOMAIN log.events : compensate(i)) \/ clear \/ UNCHANGED vars => UNCHANGED <<seen, call>>
  BY DEF compensate, clear, vars
<1> QED BY <1>2, <1>3, <1>4, <1>5, <1>6, <1>7, <1>8, <1>9, <1>10 DEF Next

(* One of the calls that delivered a command ran it: none is no command    *)
(* delivered, and two would be the same.                                   *)
LEMMA OnceCounted ==
    ASSUME OnceInv
    PROVE  CommandsRunOnce
<1> SUFFICES ASSUME NEW f \in Flow, NEW cmd \in Command,
                    {c \in Call : call[c].flow = f /\ call[c].cmd = cmd} # {}
             PROVE  Cardinality({c \in {d \in Call : call[d].flow = f /\ call[d].cmd = cmd} :
                                   call[c].status # "DUPLICATE"}) = 1
  BY DEF CommandsRunOnce
<1>1. <<f, cmd>> \in seen
  BY Tables DEF OnceInv
<1>2. PICK c \in Call : Ran(call[c], f, cmd)
  BY <1>1 DEF OnceInv
<1>3. {e \in {d \in Call : call[d].flow = f /\ call[d].cmd = cmd} : call[e].status # "DUPLICATE"} = {c}
  <2>1. \A e \in Call : Ran(call[e], f, cmd) => e = c
    BY <1>2 DEF OnceInv
  <2> QED BY <1>2, <2>1 DEF Ran
<1> QED BY <1>3, FS_Singleton

(* plugin-guide.md: a command known by (flowId, commandId) goes to the     *)
(* engine once, however many calls deliver it and overlap.                 *)
THEOREM CommandsAreRunOnce == Spec => []CommandsRunOnce
<1>1. Init => IndInv /\ OnceInv
  <2> SUFFICES ASSUME Init PROVE OnceInv
    BY InitGood
  <2>1. \A c \in Call : call[c].cmd = None /\ call[c].status # "DUPLICATE"
    BY NotDuplicate DEF Init, Idle
  <2>2. seen = {}
    BY DEF Init
  <2>3. \A c \in Call, f \in Flow, cmd \in Command : ~Ran(call[c], f, cmd)
    BY <2>1, Tables DEF Ran
  <2> QED BY <2>1, <2>2, <2>3 DEF OnceInv
<1>2. IndInv /\ OnceInv /\ [Next]_vars => (IndInv /\ OnceInv)'
  BY NextKeeps, NextOnce
<1>3. OnceInv => CommandsRunOnce
  BY OnceCounted
<1> QED BY <1>1, <1>2, <1>3, PTL DEF Spec

-----------------------------------------------------------------------------
(* Answers.                                                                *)

NothingSaid == {"NO_APPLICABLE_TRANSITION", "DUPLICATE", "FLOW_NOT_FOUND", "INVALID_TRANSITION"}

(* A call has no status until it throws or is answered.                    *)
AnswerOK(k) ==
    /\ k.status \in NothingSaid => k.moves = 0
    /\ k.pc \notin {"threw", "answered"} => k.status = None

AnswerInv == \A c \in Call : AnswerOK(call[c])

LEMMA AnswerLocal ==
    ASSUME TypeOK, AnswerInv, NEW c \in Call, NEW n, call' = [call EXCEPT ![c] = n], AnswerOK(n)
    PROVE  AnswerInv'
<1>1. call'[c] = n /\ \A d \in Call \ {c} : call'[d] = call[d]
  BY DEF TypeOK
<1> QED BY <1>1 DEF AnswerInv, AnswerOK

LEMMA CommitAnswers ==
    ASSUME TypeOK, AnswerInv, NEW c \in Call, NEW k \in CallRecord, k.status = None,
           NEW r, NEW isDirty, NEW pc, Commit(c, k, r, isDirty, pc)
    PROVE  AnswerInv'
<1> DEFINE n == [k EXCEPT !.pc = pc, !.state = r.at, !.backup = isDirty, !.moves = r.moves]
<1>1. call' = [call EXCEPT ![c] = n]
  BY DEF Commit
<1>2. n.status = None
  BY DEF CallRecord
<1>3. AnswerOK(n)
  <2> HIDE DEF n
  <2>1. None \notin NothingSaid
    BY NotDuplicate DEF NothingSaid, Status
  <2> QED BY <1>2, <2>1 DEF AnswerOK
<1> HIDE DEF n
<1> QED BY <1>1, <1>3, AnswerLocal

LEMMA ChainAnswers ==
    ASSUME TypeOK, AnswerInv, NEW c \in Call, NEW k \in CallRecord, k.status = None,
           NEW r, NEW isDirty, Chain(c, k, r, isDirty)
    PROVE  AnswerInv'
<1>1. \E s, pc : Commit(c, k, s, isDirty, pc)
  BY DEF Chain
<1> QED BY <1>1, CommitAnswers

LEMMA FailAnswers ==
    ASSUME TypeOK, AnswerInv, NEW c \in Call, NEW k \in CallRecord, k.status = None,
           NEW r, NEW from, NEW isDirty, Fail(c, k, r, from, isDirty)
    PROVE  AnswerInv'
<1>1. \E s, pc : Commit(c, k, s, isDirty, pc)
  BY DEF Fail
<1> QED BY <1>1, CommitAnswers

LEMMA StepAnswers ==
    ASSUME TypeOK, AnswerInv, NEW c \in Call, call[c].pc \in {"process", "auto"},
           NEW to, NEW rereads, Step(c, to, rereads)
    PROVE  AnswerInv'
<1>1. call[c] \in CallRecord /\ call[c].status = None
  BY DEF TypeOK, AnswerInv, AnswerOK
<1>2. \/ \E r, from, isDirty : Fail(c, call[c], r, from, isDirty)
      \/ \E r, isDirty : Chain(c, call[c], r, isDirty)
  BY DEF Step
<1> QED BY <1>1, <1>2, FailAnswers, ChainAnswers

LEMMA SettleAnswers ==
    ASSUME TypeOK, AnswerInv, NEW c \in Call, NEW k \in CallRecord,
           NEW pc \in {"threw", "answered"}, NEW status, status \in NothingSaid => k.moves = 0,
           Settle(c, k, pc, status)
    PROVE  AnswerInv'
<1> DEFINE n == [k EXCEPT !.pc = pc, !.status = status]
<1>1. call' = [call EXCEPT ![c] = n]
  BY DEF Settle
<1>2. n.pc = pc /\ n.status = status /\ n.moves = k.moves
  BY DEF CallRecord
<1> HIDE DEF n
<1>3. AnswerOK(n)
  BY <1>2 DEF AnswerOK
<1> QED BY <1>1, <1>3, AnswerLocal

LEMMA NextAnswers == IndInv /\ AnswerInv /\ [Next]_vars => AnswerInv'
<1> SUFFICES ASSUME IndInv, AnswerInv, [Next]_vars PROVE AnswerInv'
  OBVIOUS
<1>1. TypeOK /\ \A c \in Call : call[c] \in CallRecord
  BY DEF IndInv, TypeOK
<1>2. ASSUME NEW c \in Call, NEW f \in Flow, startFlow(c, f) PROVE AnswerInv'
  <2>1. PICK isDirty \in BOOLEAN :
          call' = [call EXCEPT ![c] =
                     [Idle EXCEPT !.pc = IF AutoTarget[Initial] = None THEN "returned" ELSE "auto",
                                  !.flow = f, !.state = Initial, !.backup = isDirty]]
    BY <1>2 DEF startFlow
  <2> DEFINE n == [Idle EXCEPT !.pc = IF AutoTarget[Initial] = None THEN "returned" ELSE "auto",
                               !.flow = f, !.state = Initial, !.backup = isDirty]
  <2>2. AnswerOK(n)
    BY DEF AnswerOK, Idle
  <2>3. call' = [call EXCEPT ![c] = n]
    BY <2>1
  <2> HIDE DEF n
  <2> QED BY <1>1, <2>2, <2>3, AnswerLocal
<1>3. ASSUME NEW c \in Call, NEW f \in Flow, NEW cmd \in Command, deliver(c, f, cmd) PROVE AnswerInv'
  <2> DEFINE k == Delivered(f, cmd)
  <2>1. k \in CallRecord /\ k.status = None /\ k.moves = 0
    BY <1>1, DeliveredRecord DEF Delivered, Idle
  <2>2. \/ \E status \in {"FLOW_NOT_FOUND", "INVALID_TRANSITION"} : Settle(c, k, "threw", status)
        \/ \E r, isDirty, pc : Commit(c, k, r, isDirty, pc)
        \/ \E r, isDirty : Chain(c, k, r, isDirty)
    BY <1>3 DEF deliver
  <2> HIDE DEF k
  <2> QED BY <1>1, <2>1, <2>2, SettleAnswers, CommitAnswers, ChainAnswers
<1>4. ASSUME NEW c \in Call, NEW f \in Flow, NEW cmd \in Command, deliverAgain(c, f, cmd) PROVE AnswerInv'
  <2> DEFINE k == Delivered(f, cmd)
  <2>1. k \in CallRecord /\ k.moves = 0
    BY <1>1, DeliveredRecord DEF Delivered, Idle
  <2>2. Settle(c, k, "answered", "DUPLICATE")
    BY <1>4 DEF deliverAgain
  <2> HIDE DEF k
  <2> QED BY <1>1, <2>1, <2>2, SettleAnswers
<1>5. ASSUME NEW c \in Call, validate(c) PROVE AnswerInv'
  <2>1. call[c].status = None /\ call[c].pc = "guard"
    BY <1>5 DEF validate, AnswerInv, AnswerOK
  <2>2. CASE \E r, isDirty, pc : Commit(c, call[c], r, isDirty, pc)
    BY <1>1, <2>1, <2>2, CommitAnswers
  <2>3. CASE \E r, from, isDirty : Fail(c, call[c], r, from, isDirty)
    BY <1>1, <2>1, <2>3, FailAnswers
  <2>4. CASE call' = [call EXCEPT ![c] = [@ EXCEPT !.pc = "process", !.backup = dirty[call[c].flow]]]
    <3> DEFINE n == [call[c] EXCEPT !.pc = "process", !.backup = dirty[call[c].flow]]
    <3>1. n.status = None
      BY <1>1, <2>1 DEF CallRecord
    <3>2. call' = [call EXCEPT ![c] = n]
      BY <2>4
    <3> HIDE DEF n
    <3>3. AnswerOK(n)
      BY <3>1, NotDuplicate DEF AnswerOK, NothingSaid, Status
    <3> QED BY <1>1, <3>2, <3>3, AnswerLocal
  <2> QED BY <1>5, <2>2, <2>3, <2>4 DEF validate
<1>6. ASSUME NEW c \in Call, process(c) PROVE AnswerInv'
  BY <1>1, <1>6, StepAnswers DEF process
<1>7. ASSUME NEW c \in Call, auto(c) PROVE AnswerInv'
  BY <1>1, <1>7, StepAnswers DEF auto
<1>8. ASSUME NEW c \in Call, answer(c) PROVE AnswerInv'
  <2> DEFINE k == call[c]
             status == IF k.pc = "returned" THEN classify(k.flow, k.prev) ELSE classifyError(k.status)
  <2>1. k \in CallRecord /\ AnswerOK(k) /\ Settle(c, k, "answered", status)
    BY <1>1, <1>8 DEF answer, AnswerInv
  <2>2. status \in NothingSaid => k.moves = 0
    <3>1. CASE k.pc = "returned"
      BY <3>1 DEF classify, NothingSaid
    <3>2. CASE k.pc # "returned"
      BY <2>1, <3>2 DEF classifyError, NothingSaid, AnswerOK
    <3> QED BY <3>1, <3>2
  <2> HIDE DEF k, status
  <2> QED BY <1>1, <2>1, <2>2, SettleAnswers
<1>9. CASE UNCHANGED call
  BY <1>9 DEF AnswerInv, AnswerOK
<1>10. (\E i \in DOMAIN log.events : compensate(i)) \/ clear \/ UNCHANGED vars => UNCHANGED call
  BY DEF compensate, clear, vars
<1> QED BY <1>2, <1>3, <1>4, <1>5, <1>6, <1>7, <1>8, <1>9, <1>10 DEF Next

(* A caller told that nothing was applicable, or that the command had been *)
(* seen, made no move, also when the engine threw.                         *)
THEOREM NothingAppliedMeansNothingMoved == Spec => []NothingAppliedNothingMoved
<1>1. Init => IndInv /\ AnswerInv
  BY InitGood DEF Init, Idle, AnswerInv, AnswerOK
<1>2. IndInv /\ AnswerInv /\ [Next]_vars => (IndInv /\ AnswerInv)'
  BY NextKeeps, NextAnswers
<1>3. AnswerInv => NothingAppliedNothingMoved
  BY DEF AnswerInv, AnswerOK, NothingAppliedNothingMoved, NothingSaid
<1> QED BY <1>1, <1>2, <1>3, PTL DEF Spec

-----------------------------------------------------------------------------
(* The logs against each other.                                            *)

LEMMA IndexSets ==
    ASSUME NEW n \in Nat, NEW A \in SUBSET (1..n)
    PROVE  /\ Cardinality(A) \in Nat /\ Cardinality(A \cup {n + 1}) = Cardinality(A) + 1
           /\ (n + 1) \notin A
<1>1. IsFiniteSet(1..n)
  BY FS_Interval
<1>2. (n + 1) \notin A
  OBVIOUS
<1>3. IsFiniteSet(A)
  BY <1>1, FS_Subset
<1> QED BY <1>2, <1>3, FS_CardinalityType, FS_AddElement

LEMMA Appended ==
    ASSUME NEW S, NEW s \in Seq(S), NEW x \in S
    PROVE  /\ Len(s) \in Nat /\ DOMAIN s = 1..Len(s) /\ DOMAIN Append(s, x) = 1..(Len(s) + 1)
           /\ \A i \in 1..Len(s) : Append(s, x)[i] = s[i]
           /\ Append(s, x)[Len(s) + 1] = x
<1>1. Len(s) \in Nat /\ DOMAIN s = 1..Len(s)
  BY LenProperties
<1>2. /\ Append(s, x) \in Seq(S) /\ Len(Append(s, x)) = Len(s) + 1
      /\ \A i \in 1..Len(s) : Append(s, x)[i] = s[i]
      /\ Append(s, x)[Len(s) + 1] = x
  BY AppendProperties
<1>3. DOMAIN Append(s, x) = 1..(Len(s) + 1)
  BY <1>2, LenProperties
<1> QED BY <1>1, <1>2, <1>3

LEMMA AppendIsNew ==
    ASSUME NEW S, NEW s \in Seq(S), NEW x \in S
    PROVE  Append(s, x) # s
<1>1. Len(s) \in Nat /\ Len(Append(s, x)) = Len(s) + 1
  BY AppendProperties, LenProperties
<1>2. Len(Append(s, x)) # Len(s)
  BY <1>1
<1> QED BY <1>2, Zenon

(* An event is appended: the indices it adds.                              *)
LEMMA EventAppended ==
    ASSUME NEW l \in Logs, NEW m, NEW e, m.events = Append(l.events, e)
    PROVE  LET n == Len(l.events) IN
           /\ n \in Nat /\ DOMAIN l.events = 1..n
           /\ m.events[n + 1] = e /\ \A i \in 1..n : m.events[i] = l.events[i]
           /\ DOMAIN m.events = 1..(n + 1)
           /\ transitions(l) \in SUBSET (1..n) /\ \A f : logged(l, f) \in SUBSET (1..n)
           /\ transitions(m) = IF e.type = "TRANSITION" THEN transitions(l) \cup {n + 1} ELSE transitions(l)
           /\ \A f : logged(m, f) = IF e.flow = f THEN logged(l, f) \cup {n + 1} ELSE logged(l, f)
<1> DEFINE n == Len(l.events)
<1>1. l.events \in Seq(Event) /\ n \in Nat /\ DOMAIN l.events = 1..n
  BY LogFields, LenProperties
<1>2. /\ DOMAIN m.events = 1..(n + 1) /\ m.events[n + 1] = e
      /\ \A i \in 1..n : m.events[i] = l.events[i]
  <2>1. l.events \in Seq(Event \cup {e})
    BY <1>1, SeqMonotonic
  <2>2. e \in Event \cup {e}
    OBVIOUS
  <2>3. /\ DOMAIN Append(l.events, e) = 1..(Len(l.events) + 1)
        /\ \A i \in 1..Len(l.events) : Append(l.events, e)[i] = l.events[i]
        /\ Append(l.events, e)[Len(l.events) + 1] = e
    BY <2>1, <2>2, Appended
  <2> QED BY <2>3
<1> HIDE DEF n
<1>3. 1..(n + 1) = (1..n) \cup {n + 1} /\ (n + 1) \notin 1..n
  BY <1>1
<1>4. transitions(m) = IF e.type = "TRANSITION" THEN transitions(l) \cup {n + 1} ELSE transitions(l)
  BY <1>1, <1>2, <1>3 DEF transitions
<1>5. ASSUME NEW f
      PROVE  logged(m, f) = IF e.flow = f THEN logged(l, f) \cup {n + 1} ELSE logged(l, f)
  BY <1>1, <1>2, <1>3 DEF logged
<1>6. transitions(l) \in SUBSET (1..n) /\ \A f : logged(l, f) \in SUBSET (1..n)
  BY <1>1 DEF transitions, logged
<1> QED BY <1>1, <1>2, <1>4, <1>5, <1>6 DEF n

LEMMA AuditAppended ==
    ASSUME NEW l \in Logs, NEW m, NEW move \in Move, m.audit = Append(l.audit, move)
    PROVE  \A f : /\ Cardinality(audited(l, f)) \in Nat
                  /\ Cardinality(audited(m, f)) = IF move.flow = f THEN Cardinality(audited(l, f)) + 1
                                                  ELSE Cardinality(audited(l, f))
<1> TAKE f
<1> DEFINE n == Len(l.audit)
<1>1. l.audit \in Seq(Move) /\ n \in Nat /\ DOMAIN l.audit = 1..n
  BY LogFields, LenProperties
<1>2. /\ DOMAIN m.audit = 1..(n + 1) /\ m.audit[n + 1] = move
      /\ \A i \in 1..n : m.audit[i] = l.audit[i]
  <2>1. l.audit \in Seq(Move) /\ move \in Move
    BY <1>1
  <2>2. /\ DOMAIN Append(l.audit, move) = 1..(Len(l.audit) + 1)
        /\ \A i \in 1..Len(l.audit) : Append(l.audit, move)[i] = l.audit[i]
        /\ Append(l.audit, move)[Len(l.audit) + 1] = move
    BY <2>1, Appended
  <2> QED BY <2>2
<1>3. audited(l, f) = {i \in DOMAIN l.audit : l.audit[i].flow = f}
  BY DEF audited
<1> HIDE DEF n
<1>4. 1..(n + 1) = (1..n) \cup {n + 1} /\ (n + 1) \notin 1..n
  BY <1>1
<1>5. audited(m, f) = IF move.flow = f THEN audited(l, f) \cup {n + 1} ELSE audited(l, f)
  BY <1>1, <1>2, <1>3, <1>4 DEF audited
<1>6. audited(l, f) \in SUBSET (1..n)
  BY <1>1, <1>3
<1> QED BY <1>1, <1>5, <1>6, IndexSets

(* The gaps stay explained when an event is written and when it is lost.   *)
LEMMA AuditStillExplains ==
    ASSUME TypeOK, NEW l \in Logs, AuditExplainsGaps(l), NEW f \in Flow, NEW from \in State,
           NEW to \in State, NEW bad \in BOOLEAN
    PROVE  AuditExplainsGaps(recordTransition(l, f, from, to, bad))
<1> DEFINE m == recordTransition(l, f, from, to, bad)
           move == [flow |-> f, from |-> from, to |-> to]
           e == transitionEvent(l, f, from, to)
<1>1. /\ m.version = [l.version EXCEPT ![f] = nextVersion(l, f)]
      /\ m.events = IF bad THEN l.events ELSE Append(l.events, e)
      /\ m.audit = IF bad /\ ~auditInside THEN l.audit ELSE Append(l.audit, move)
  BY RecordFields
<1>2. move \in Move /\ move.flow = f /\ e.flow = f /\ e.type = "TRANSITION"
  BY DEF Move, transitionEvent
<1>3. l.version \in [Flow -> Nat]
  BY LogFields
<1> SUFFICES ASSUME NEW g \in Flow
             PROVE  Cardinality(audited(m, g)) - Cardinality(logged(m, g) \cap transitions(m))
                    = IF auditInside THEN m.version[g] - Cardinality(logged(m, g)) ELSE 0
  BY DEF AuditExplainsGaps
<1> HIDE DEF m, move, e
<1> DEFINE A(x) == Cardinality(audited(x, g))
           L(x) == Cardinality(logged(x, g))
           T(x) == Cardinality(logged(x, g) \cap transitions(x))
           one == IF f = g THEN 1 ELSE 0
<1>4. A(l) - T(l) = IF auditInside THEN l.version[g] - L(l) ELSE 0
  BY DEF AuditExplainsGaps
<1>5. m.version[g] = l.version[g] + one /\ l.version[g] \in Nat
  BY <1>1, <1>3 DEF nextVersion
<1>6. A(l) \in Nat /\ (m.audit # l.audit => A(m) = A(l) + one) /\ (m.audit = l.audit => A(m) = A(l))
  <2>1. l.audit \in Seq(Move)
    BY LogFields
  <2>2. A(l) \in Nat
    <3> DEFINE x == [l EXCEPT !.audit = Append(l.audit, move)]
    <3>1. x.audit = Append(l.audit, move)
      BY LogFields
    <3> HIDE DEF x
    <3> QED BY <1>2, <3>1, AuditAppended
  <2>3. CASE m.audit = Append(l.audit, move)
    <3>1. A(m) = A(l) + one
      BY <1>2, <2>2, <2>3, AuditAppended
    <3>2. m.audit # l.audit
      BY <1>2, <2>1, <2>3, AppendIsNew
    <3> QED BY <2>2, <3>1, <3>2
  <2>4. CASE m.audit = l.audit
    BY <2>2, <2>4 DEF audited
  <2> QED BY <1>1, <2>3, <2>4
<1>7. /\ L(l) \in Nat /\ T(l) \in Nat
      /\ ~bad => L(m) = L(l) + one /\ T(m) = T(l) + one
      /\ bad => L(m) = L(l) /\ T(m) = T(l)
  <2> DEFINE n == Len(l.events)
  <2>0. /\ n \in Nat /\ logged(l, g) \in SUBSET (1..n) /\ transitions(l) \in SUBSET (1..n)
    BY LogFields, LenProperties DEF logged, transitions
  <2> HIDE DEF n
  <2>1. L(l) \in Nat /\ T(l) \in Nat
    BY <2>0, IndexSets
  <2>2. CASE bad
    BY <1>1, <2>1, <2>2 DEF logged, transitions
  <2>3. CASE ~bad
    <3>1. m.events = Append(l.events, e)
      BY <1>1, <2>3
    <3>2. /\ transitions(m) = transitions(l) \cup {n + 1}
          /\ logged(m, g) = IF f = g THEN logged(l, g) \cup {n + 1} ELSE logged(l, g)
      BY <1>2, <3>1, EventAppended DEF n
    <3>3. (n + 1) \notin logged(l, g) /\ (n + 1) \notin transitions(l)
      BY <2>0, IndexSets
    <3>4. logged(m, g) \cap transitions(m)
          = IF f = g THEN (logged(l, g) \cap transitions(l)) \cup {n + 1}
            ELSE logged(l, g) \cap transitions(l)
      BY <3>2, <3>3
    <3>5. /\ Cardinality(logged(l, g) \cup {n + 1}) = L(l) + 1
          /\ Cardinality((logged(l, g) \cap transitions(l)) \cup {n + 1}) = T(l) + 1
      BY <2>0, IndexSets
    <3>6. L(m) = L(l) + one /\ T(m) = T(l) + one
      <4>1. CASE f = g
        BY <3>2, <3>4, <3>5, <4>1
      <4>2. CASE f # g
        BY <2>1, <3>2, <3>4, <4>2
      <4> QED BY <4>1, <4>2
    <3> QED BY <2>1, <2>3, <3>6
  <2> QED BY <2>2, <2>3
<1>8. m.audit # l.audit \/ (bad /\ ~auditInside)
  <2>1. l.audit \in Seq(Move)
    BY LogFields
  <2>2. Append(l.audit, move) # l.audit
    <3>1. move \in Move
      BY <1>2
    <3> QED BY <2>1, <3>1, AppendIsNew
  <2> QED BY <1>1, <2>2
<1>9. (bad /\ ~auditInside) => m.audit = l.audit
  BY <1>1
<1>10. A(m) - T(m) = IF auditInside THEN m.version[g] - L(m) ELSE 0
  <2> HIDE DEF A, L, T, one
  <2>1. one \in Nat
    BY DEF one
  <2>2. auditInside \in BOOLEAN
    BY DEF TypeOK
  <2> QED BY <1>4, <1>5, <1>6, <1>7, <1>8, <1>9, <2>1, <2>2
<1> QED BY <1>10

LEMMA CompensationExplained ==
    ASSUME TypeOK, NEW l \in Logs, AuditExplainsGaps(l), NEW f \in Flow
    PROVE  AuditExplainsGaps(appendCompensation(l, f))
<1> DEFINE m == appendCompensation(l, f)
           e == [flow |-> f, version |-> nextVersion(l, f), type |-> "COMPENSATION",
                 from |-> None, to |-> "COMPENSATED"]
           n == Len(l.events)
<1>1. /\ m.version = [l.version EXCEPT ![f] = nextVersion(l, f)]
      /\ m.events = Append(l.events, e)
      /\ m = [audit |-> l.audit, events |-> m.events, sink |-> l.sink, version |-> m.version]
  BY CompensationFields
<1>2. e.flow = f /\ e.type # "TRANSITION" /\ l.version \in [Flow -> Nat]
  BY LogFields
<1> SUFFICES ASSUME NEW g \in Flow
             PROVE  Cardinality(audited(m, g)) - Cardinality(logged(m, g) \cap transitions(m))
                    = IF auditInside THEN m.version[g] - Cardinality(logged(m, g)) ELSE 0
  BY DEF AuditExplainsGaps
<1> HIDE DEF m, e
<1>3. audited(m, g) = audited(l, g)
  BY <1>1 DEF audited
<1>4. /\ n \in Nat /\ transitions(m) = transitions(l) /\ transitions(l) \in SUBSET (1..n)
      /\ logged(l, g) \in SUBSET (1..n)
      /\ logged(m, g) = IF f = g THEN logged(l, g) \cup {n + 1} ELSE logged(l, g)
  <2>1. m.events = Append(l.events, e)
    BY <1>1
  <2>2. /\ n \in Nat /\ transitions(l) \in SUBSET (1..n) /\ logged(l, g) \in SUBSET (1..n)
        /\ transitions(m) = IF e.type = "TRANSITION" THEN transitions(l) \cup {n + 1} ELSE transitions(l)
        /\ logged(m, g) = IF e.flow = g THEN logged(l, g) \cup {n + 1} ELSE logged(l, g)
    BY <2>1, EventAppended
  <2> QED BY <1>2, <2>2
<1> HIDE DEF n
<1>5. /\ (n + 1) \notin transitions(l)
      /\ Cardinality(logged(l, g)) \in Nat /\ Cardinality(logged(l, g) \cup {n + 1}) = Cardinality(logged(l, g)) + 1
  BY <1>4, IndexSets
<1>6. logged(m, g) \cap transitions(m) = logged(l, g) \cap transitions(l)
  BY <1>4, <1>5
<1>7. /\ l.version[g] \in Nat
      /\ m.version[g] = IF f = g THEN l.version[g] + 1 ELSE l.version[g]
  BY <1>1, <1>2 DEF nextVersion
<1>8. m.version[g] - Cardinality(logged(m, g)) = l.version[g] - Cardinality(logged(l, g))
  BY <1>4, <1>5, <1>7
<1>9. Cardinality(audited(l, g)) - Cardinality(logged(l, g) \cap transitions(l))
      = IF auditInside THEN l.version[g] - Cardinality(logged(l, g)) ELSE 0
  BY DEF AuditExplainsGaps
<1> QED BY <1>3, <1>6, <1>8, <1>9

(* What the sink was told goes on following the events.                    *)
LEMMA SinkStillFollows ==
    ASSUME TypeOK, NEW l \in Logs, SinkFollowsEvents(l), NEW f \in Flow, NEW from \in State,
           NEW to \in State, NEW bad \in BOOLEAN
    PROVE  SinkFollowsEvents(recordTransition(l, f, from, to, bad))
<1> DEFINE m == recordTransition(l, f, from, to, bad)
           move == [flow |-> f, from |-> from, to |-> to]
           e == transitionEvent(l, f, from, to)
<1>1. /\ m.version = [l.version EXCEPT ![f] = nextVersion(l, f)]
      /\ m.events = IF bad THEN l.events ELSE Append(l.events, e)
      /\ m.audit = IF bad /\ ~auditInside THEN l.audit ELSE Append(l.audit, move)
      /\ m.sink = IF bad THEN l.sink ELSE Append(l.sink, move)
  BY RecordFields
<1>2. /\ move \in Move /\ e.type = "TRANSITION"
      /\ move = [flow |-> e.flow, from |-> e.from, to |-> e.to]
  BY DEF Move, transitionEvent
<1> HIDE DEF m, move, e
<1> DEFINE n == Len(l.events)
           told == Len(l.sink)
<1>3. CASE bad
  <2>1. m.events = l.events /\ m.sink = l.sink
    BY <1>1, <1>3
  <2>2. transitions(m) = transitions(l)
    BY <2>1 DEF transitions
  <2> QED BY <2>1, <2>2 DEF SinkFollowsEvents, m
<1>4. CASE ~bad
  <2>1. m.events = Append(l.events, e) /\ m.sink = Append(l.sink, move)
    BY <1>1, <1>4
  <2>2. /\ n \in Nat /\ m.events[n + 1] = e /\ \A i \in 1..n : m.events[i] = l.events[i]
        /\ transitions(l) \in SUBSET (1..n)
        /\ transitions(m) = transitions(l) \cup {n + 1}
    BY <1>2, <2>1, EventAppended
  <2>3. /\ told \in Nat /\ Len(m.sink) = told + 1 /\ m.sink[told + 1] = move
        /\ \A i \in 1..told : m.sink[i] = l.sink[i]
    BY <1>2, <2>1, LogFields, AppendProperties, LenProperties
  <2> HIDE DEF n, told
  <2> SUFFICES ASSUME NEW i \in transitions(m)
               PROVE  LET later == Cardinality({j \in transitions(m) : j > i})
                          x == m.events[i]
                      IN  /\ later < Len(m.sink)
                          /\ m.sink[Len(m.sink) - later] = [flow |-> x.flow, from |-> x.from, to |-> x.to]
    BY DEF SinkFollowsEvents, m
  <2>4. CASE i = n + 1
    <3>1. {j \in transitions(m) : j > i} = {}
      BY <2>2, <2>4
    <3>2. Cardinality({j \in transitions(m) : j > i}) = 0
      BY <3>1, FS_EmptySet
    <3> QED BY <1>2, <2>2, <2>3, <2>4, <3>2
  <2>5. CASE i \in transitions(l)
    <3> DEFINE after == {j \in transitions(l) : j > i}
               later == Cardinality(after)
    <3>1. {j \in transitions(m) : j > i} = after \cup {n + 1} /\ after \in SUBSET (1..n)
      BY <2>2, <2>5
    <3>2. later \in Nat /\ Cardinality({j \in transitions(m) : j > i}) = later + 1
      BY <2>2, <3>1, IndexSets
    <3>3. /\ later < told
          /\ l.sink[told - later]
             = [flow |-> l.events[i].flow, from |-> l.events[i].from, to |-> l.events[i].to]
      BY <2>5 DEF SinkFollowsEvents, told
    <3>4. m.events[i] = l.events[i]
      BY <2>2, <2>5
    <3> HIDE DEF later
    <3>5. Len(m.sink) - (later + 1) = told - later /\ told - later \in 1..told
      BY <2>3, <3>2, <3>3
    <3>6. m.sink[Len(m.sink) - (later + 1)] = l.sink[told - later]
      BY <2>3, <3>5
    <3>7. later + 1 < Len(m.sink)
      BY <2>3, <3>2, <3>3
    <3> QED BY <3>2, <3>3, <3>4, <3>6, <3>7
  <2> QED BY <2>2, <2>4, <2>5
<1> QED BY <1>3, <1>4

LEMMA CompensationNotTold ==
    ASSUME NEW l \in Logs, SinkFollowsEvents(l), NEW f \in Flow
    PROVE  SinkFollowsEvents(appendCompensation(l, f))
<1> DEFINE m == appendCompensation(l, f)
           e == [flow |-> f, version |-> nextVersion(l, f), type |-> "COMPENSATION",
                 from |-> None, to |-> "COMPENSATED"]
<1>1. /\ m.events = Append(l.events, e)
      /\ m = [audit |-> l.audit, events |-> m.events, sink |-> l.sink, version |-> m.version]
  BY CompensationFields
<1>2. e.type # "TRANSITION"
  OBVIOUS
<1> HIDE DEF m, e
<1>3. m.sink = l.sink
  BY <1>1
<1>4. /\ transitions(m) = transitions(l)
      /\ \A i \in transitions(l) : m.events[i] = l.events[i]
  BY <1>1, <1>2, EventAppended
<1> QED BY <1>3, <1>4 DEF SinkFollowsEvents, m

-----------------------------------------------------------------------------
(* The logs against the flows.                                             *)

(* How a flow may end while it is where the log does not know.             *)
GaveUp == {"TERMINAL_ERROR", "EXPIRED"}

TransitionsOf(l, f) == logged(l, f) \cap transitions(l)

(* The last transition the log has of f, if any, leads to s.               *)
LastLeadsTo(l, f, s) ==
    \A i \in TransitionsOf(l, f) : (\A j \in TransitionsOf(l, f) : j <= i) => l.events[i].to = s

(* Only flows that have started are in the log.                            *)
Known(l) == \A i \in DOMAIN l.events : at[l.events[i].flow] \in State

(* The log knows where a flow is, unless the engine gave the flow up or a  *)
(* call threw on the way.                                                  *)
TruthInv ==
    /\ LogsAgree
    /\ Known(log)
    /\ \A f \in Flow : threwOn(f) \/ exit[f] \in GaveUp \/ LastLeadsTo(log, f, at[f])

(* The same of a step of a call on flow f that has got as far as r.  What  *)
(* the log knows of other flows stays as it is.                            *)
TruthOf(r, f) ==
    /\ AuditExplainsGaps(r.log) /\ SinkFollowsEvents(r.log)
    /\ Known(r.log)
    /\ \A g \in Flow \ {f}, s \in State \cup {None} : LastLeadsTo(log, g, s) => LastLeadsTo(r.log, g, s)
    /\ r.threw \/ threwOn(f) \/ r.exit \in GaveUp \/ LastLeadsTo(r.log, f, r.at)

(* The event appended is the last of its flow and of no other flow.        *)
LEMMA AppendedIsLast ==
    ASSUME NEW l \in Logs, NEW m, NEW e, m.events = Append(l.events, e)
    PROVE  /\ e.type = "TRANSITION" => LastLeadsTo(m, e.flow, e.to)
           /\ \A g, s : (e.flow # g \/ e.type # "TRANSITION") /\ LastLeadsTo(l, g, s) => LastLeadsTo(m, g, s)
           /\ Known(l) /\ at[e.flow] \in State => Known(m)
<1> DEFINE n == Len(l.events)
<1>1. /\ n \in Nat /\ DOMAIN l.events = 1..n
      /\ m.events[n + 1] = e /\ \A i \in 1..n : m.events[i] = l.events[i]
      /\ DOMAIN m.events = 1..(n + 1)
      /\ transitions(l) \in SUBSET (1..n) /\ \A f : logged(l, f) \in SUBSET (1..n)
      /\ transitions(m) = IF e.type = "TRANSITION" THEN transitions(l) \cup {n + 1} ELSE transitions(l)
      /\ \A f : logged(m, f) = IF e.flow = f THEN logged(l, f) \cup {n + 1} ELSE logged(l, f)
  BY EventAppended
<1> HIDE DEF n
<1>2. ASSUME e.type = "TRANSITION" PROVE LastLeadsTo(m, e.flow, e.to)
  <2>1. (n + 1) \in TransitionsOf(m, e.flow) /\ TransitionsOf(m, e.flow) \in SUBSET (1..(n + 1))
    BY <1>1, <1>2 DEF TransitionsOf
  <2> SUFFICES ASSUME NEW i \in TransitionsOf(m, e.flow), \A j \in TransitionsOf(m, e.flow) : j <= i
               PROVE  m.events[i].to = e.to
    BY DEF LastLeadsTo
  <2>2. i = n + 1
    BY <1>1, <2>1
  <2> QED BY <1>1, <2>2
<1>3. ASSUME NEW g, NEW s, e.flow # g \/ e.type # "TRANSITION", LastLeadsTo(l, g, s)
      PROVE  LastLeadsTo(m, g, s)
  <2>1. (n + 1) \notin logged(l, g) /\ (n + 1) \notin transitions(l)
    BY <1>1
  <2>2. TransitionsOf(m, g) = TransitionsOf(l, g) /\ TransitionsOf(l, g) \in SUBSET (1..n)
    BY <1>1, <1>3, <2>1 DEF TransitionsOf
  <2> QED BY <1>1, <1>3, <2>2 DEF LastLeadsTo
<1>4. ASSUME Known(l), at[e.flow] \in State PROVE Known(m)
  <2> SUFFICES ASSUME NEW i \in 1..(n + 1) PROVE at[m.events[i].flow] \in State
    BY <1>1 DEF Known
  <2>1. CASE i = n + 1
    BY <1>1, <1>4, <2>1
  <2>2. CASE i \in 1..n
    BY <1>1, <1>4, <2>2 DEF Known
  <2> QED BY <1>1, <2>1, <2>2
<1> QED BY <1>2, <1>3, <1>4

(* A log with the same events knows the same.                              *)
LEMMA SameEventsKnowTheSame ==
    ASSUME NEW l, NEW m, m.events = l.events
    PROVE  /\ \A g, s : LastLeadsTo(l, g, s) => LastLeadsTo(m, g, s)
           /\ Known(l) => Known(m)
<1>1. transitions(m) = transitions(l) /\ \A g : logged(m, g) = logged(l, g)
  BY DEF transitions, logged
<1> QED BY <1>1 DEF LastLeadsTo, TransitionsOf, Known

LEMMA TransitionTold ==
    ASSUME IndInv, NEW f \in Flow, at[f] \in State, NEW r, GoodRun(r), TruthOf(r, f), NEW to \in State,
           NEW bad \in BOOLEAN, NEW enters \in BOOLEAN
    PROVE  LET m == transitionTo(r, f, to, bad, enters) IN
           /\ TruthOf(m, f)
           /\ ~m.threw => LastLeadsTo(m.log, f, m.at)
<1>1. r.at \in State /\ r.log \in Logs /\ TypeOK
  BY DEF GoodRun, RunOf, IndInv
<1> DEFINE m == transitionTo(r, f, to, bad, enters)
           l == recordTransition(r.log, f, r.at, to, bad)
           e == transitionEvent(r.log, f, r.at, to)
<1>2. CASE ~enters
  <2>1. m.log = r.log /\ m.threw
    BY <1>2 DEF transitionTo, GoodRun, RunOf
  <2> HIDE DEF m
  <2>2. TruthOf(m, f)
    BY <2>1 DEF TruthOf
  <2> QED BY <2>1, <2>2 DEF m
<1>3. CASE enters
  <2>1. m.log = l /\ m.threw = bad /\ m.at = to
    BY <1>3 DEF transitionTo, GoodRun, RunOf
  <2>2. AuditExplainsGaps(l) /\ SinkFollowsEvents(l)
    BY <1>1, AuditStillExplains, SinkStillFollows DEF TruthOf
  <2>3. l.events = IF bad THEN r.log.events ELSE Append(r.log.events, e)
    BY <1>1, RecordedEvents
  <2>4. e.flow = f /\ e.type = "TRANSITION" /\ e.to = to
    BY DEF transitionEvent
  <2> HIDE DEF m, l, e
  <2>5. CASE bad
    <3>1. l.events = r.log.events
      BY <2>3, <2>5
    <3>2. Known(l) /\ \A g \in Flow \ {f}, s \in State \cup {None} : LastLeadsTo(log, g, s) => LastLeadsTo(l, g, s)
      BY <3>1, SameEventsKnowTheSame DEF TruthOf
    <3>3. TruthOf(m, f)
      BY <2>1, <2>2, <2>5, <3>2 DEF TruthOf
    <3> QED BY <2>1, <2>5, <3>3 DEF m
  <2>6. CASE ~bad
    <3>1. l.events = Append(r.log.events, e)
      BY <2>3, <2>6
    <3>2. /\ LastLeadsTo(l, f, to)
          /\ \A g, s : f # g /\ LastLeadsTo(r.log, g, s) => LastLeadsTo(l, g, s)
          /\ Known(r.log) => Known(l)
      BY <1>1, <2>4, <3>1, AppendedIsLast
    <3>3. Known(l) /\ \A g \in Flow \ {f}, s \in State \cup {None} : LastLeadsTo(log, g, s) => LastLeadsTo(l, g, s)
      BY <3>2 DEF TruthOf
    <3>4. TruthOf(m, f)
      BY <2>1, <2>2, <3>2, <3>3 DEF TruthOf
    <3> QED BY <2>1, <3>2, <3>4 DEF m
  <2> QED BY <2>5, <2>6
<1> QED BY <1>2, <1>3

(* A flow may be given an end that excuses it, or any end once the log     *)
(* knows where it is.                                                      *)
LEMMA ExitTold ==
    ASSUME NEW f \in Flow, NEW r, GoodRun(r), TruthOf(r, f), NEW x,
           x \in GaveUp \/ LastLeadsTo(r.log, f, r.at)
    PROVE  TruthOf([r EXCEPT !.exit = x], f)
<1> DEFINE m == [r EXCEPT !.exit = x]
<1>1. m.exit = x /\ m.log = r.log /\ m.at = r.at /\ m.threw = r.threw
  BY DEF GoodRun, RunOf
<1> HIDE DEF m
<1>2. TruthOf(m, f)
  BY <1>1 DEF TruthOf
<1> QED BY <1>2 DEF m

LEMMA HandledErrorTold ==
    ASSUME IndInv, NEW f \in Flow, at[f] \in State, NEW r, GoodRun(r), TruthOf(r, f), NEW from \in State,
           NEW bad \in BOOLEAN
    PROVE  TruthOf(handleError(r, f, from, bad), f)
<1>1. CASE OnError[from] = None
  <2> DEFINE m == [r EXCEPT !.exit = "TERMINAL_ERROR", !.threw = FALSE]
  <2>1. m.exit = "TERMINAL_ERROR" /\ m.log = r.log
    BY DEF GoodRun, RunOf
  <2>2. handleError(r, f, from, bad) = m
    BY <1>1 DEF handleError
  <2> HIDE DEF m
  <2>3. TruthOf(m, f)
    BY <2>1 DEF TruthOf, GaveUp
  <2> QED BY <2>2, <2>3
<1>2. CASE OnError[from] # None
  <2> DEFINE m == transitionTo(r, f, OnError[from], bad, TRUE)
  <2>1. OnError[from] \in State /\ TypeOK
    BY <1>2, Tables DEF IndInv
  <2>2. GoodRun(m) /\ TruthOf(m, f) /\ (~m.threw => LastLeadsTo(m.log, f, m.at))
    BY <2>1, TransitionKeeps, TransitionTold
  <2>3. handleError(r, f, from, bad)
        = IF ~m.threw /\ m.at \in Terminal THEN [m EXCEPT !.exit = m.at] ELSE m
    BY <1>2 DEF handleError
  <2> HIDE DEF m
  <2> QED BY <2>2, <2>3, ExitTold
<1> QED BY <1>1, <1>2

(* A call that threw on a flow goes on having thrown.                      *)
LEMMA ThrewStays ==
    ASSUME NEW c \in Call, call[c].pc \notin {"threw", "answered"},
           \A d \in Call \ {c} : call'[d] = call[d], NEW f, threwOn(f)
    PROVE  threwOn(f)'
<1>1. PICK d \in Call : call[d].flow = f /\ call[d].pc \in {"threw", "answered"}
                         /\ call[d].status \in {None, "EXCEPTION_ROUTED"}
  BY DEF threwOn
<1>2. call'[d] = call[d]
  BY <1>1
<1> QED BY <1>1, <1>2 DEF threwOn

LEMMA CommitTold ==
    ASSUME IndInv, TruthInv, NEW c \in Call, NEW k \in CallRecord, k.flow \in Flow, k.status = None,
           call[c].pc \notin {"threw", "answered"}, at[k.flow] \in State,
           NEW r, GoodRun(r), TruthOf(r, k.flow), NEW isDirty \in BOOLEAN,
           NEW pc \in {"guard", "auto", "returned", "threw"}, r.threw => pc = "threw",
           Commit(c, k, r, isDirty, pc)
    PROVE  TruthInv'
<1>1. /\ call'[c].pc = pc /\ call'[c].flow = k.flow /\ call'[c].status = None
      /\ \A d \in Call \ {c} : call'[d] = call[d]
  BY CallKept
<1>2. \A f : threwOn(f) => threwOn(f)'
  BY <1>1, ThrewStays
<1>3. r.threw => threwOn(k.flow)'
  BY <1>1 DEF threwOn
<1>4. /\ at' = [at EXCEPT ![k.flow] = r.at] /\ exit' = [exit EXCEPT ![k.flow] = r.exit] /\ log' = r.log
      /\ auditInside' = auditInside
  BY DEF Commit
<1>5. /\ at \in [Flow -> State \cup {None}] /\ exit \in [Flow -> Exits] /\ r.at \in State
      /\ r.log \in Logs
  BY DEF IndInv, TypeOK, GoodRun, RunOf
<1>6. LogsAgree'
  BY <1>4 DEF TruthOf, LogsAgree, AuditExplainsGaps, SinkFollowsEvents
<1>7. Known(log)'
  <2> SUFFICES ASSUME NEW i \in DOMAIN r.log.events PROVE at'[r.log.events[i].flow] \in State
    BY <1>4 DEF Known
  <2>1. at[r.log.events[i].flow] \in State
    BY DEF TruthOf, Known
  <2>2. r.log.events[i].flow \in Flow
    <3>1. r.log.events \in Seq(Event)
      BY <1>5, LogFields
    <3>2. r.log.events[i] \in Event
      BY <3>1, ElementOfSeq, LenProperties
    <3> QED BY <3>2 DEF Event
  <2> QED BY <1>4, <1>5, <2>1, <2>2
<1>8. ASSUME NEW f \in Flow
      PROVE  threwOn(f)' \/ exit'[f] \in GaveUp \/ LastLeadsTo(r.log, f, at'[f])
  <2>1. CASE f = k.flow
    <3>1. at'[f] = r.at /\ exit'[f] = r.exit
      BY <1>4, <1>5, <2>1
    <3>2. r.threw \/ threwOn(f) \/ r.exit \in GaveUp \/ LastLeadsTo(r.log, f, r.at)
      BY <2>1 DEF TruthOf
    <3> QED BY <1>2, <1>3, <2>1, <3>1, <3>2
  <2>2. CASE f # k.flow
    <3>1. at'[f] = at[f] /\ exit'[f] = exit[f] /\ at[f] \in State \cup {None}
      BY <1>4, <1>5, <2>2
    <3>2. threwOn(f) \/ exit[f] \in GaveUp \/ LastLeadsTo(log, f, at[f])
      BY DEF TruthInv
    <3>3. LastLeadsTo(log, f, at[f]) => LastLeadsTo(r.log, f, at[f])
      BY <2>2, <3>1 DEF TruthOf
    <3> QED BY <1>2, <3>1, <3>2, <3>3
  <2> QED BY <2>1, <2>2
<1> QED BY <1>4, <1>6, <1>7, <1>8 DEF TruthInv, LastLeadsTo, TransitionsOf, logged, transitions

LEMMA ChainTold ==
    ASSUME IndInv, TruthInv, NEW c \in Call, NEW k \in CallRecord, k.flow \in Flow, k.status = None,
           call[c].pc \notin {"threw", "answered"}, at[k.flow] \in State,
           NEW r, GoodRun(r), TruthOf(r, k.flow), ~r.threw, LastLeadsTo(r.log, k.flow, r.at),
           NEW isDirty \in BOOLEAN, Chain(c, k, r, isDirty)
    PROVE  TruthInv'
<1>1. CASE r.at \in Terminal
  <2> DEFINE e == [r EXCEPT !.exit = r.at]
  <2>1. r.at \in Exits
    BY DEF GoodRun, RunOf, Exits
  <2>2. GoodRun(e) /\ TruthOf(e, k.flow) /\ ~e.threw
    BY <2>1, ExitKeeps, ExitTold DEF GoodRun, RunOf
  <2>3. Commit(c, k, e, isDirty, "returned")
    BY <1>1 DEF Chain
  <2> HIDE DEF e
  <2> QED BY <2>2, <2>3, CommitTold
<1>2. CASE r.at \notin Terminal
  <2>1. \E pc \in {"returned", "auto"} : Commit(c, k, r, isDirty, pc)
    BY <1>2 DEF Chain
  <2> QED BY <2>1, CommitTold
<1> QED BY <1>1, <1>2

LEMMA FailTold ==
    ASSUME IndInv, TruthInv, NEW c \in Call, NEW k \in CallRecord, k.flow \in Flow, k.status = None,
           call[c].pc \notin {"threw", "answered"}, at[k.flow] \in State,
           NEW r, GoodRun(r), TruthOf(r, k.flow), NEW from \in State,
           NEW isDirty \in BOOLEAN, Fail(c, k, r, from, isDirty)
    PROVE  TruthInv'
<1> DEFINE e == handleError(r, k.flow, from, isDirty)
<1>1. GoodRun(e) /\ TruthOf(e, k.flow)
  BY HandleErrorKeeps, HandledErrorTold DEF IndInv
<1>2. \E pc \in {"returned", "threw"} : Commit(c, k, e, isDirty, pc) /\ (e.threw => pc = "threw")
  BY DEF Fail
<1> HIDE DEF e
<1> QED BY <1>1, <1>2, CommitTold

(* What a call sees of its flow is as true as the logs are.                *)
LEMMA SeenIsTold ==
    ASSUME IndInv, TruthInv, NEW k, k.flow \in Flow
    PROVE  TruthOf(Seen(k), k.flow)
<1> DEFINE r == Seen(k)
<1>1. r.log = log /\ r.at = at[k.flow] /\ r.exit = exit[k.flow]
  BY DEF Seen
<1> HIDE DEF r
<1>2. TruthOf(r, k.flow)
  BY <1>1 DEF TruthOf, TruthInv, LogsAgree
<1> QED BY <1>2 DEF r

LEMMA StepTold ==
    ASSUME IndInv, TruthInv, AnswerInv, NEW c \in Call, call[c].pc \in {"process", "auto"}, NEW to \in State,
           NEW rereads \in BOOLEAN, Step(c, to, rereads)
    PROVE  TruthInv'
<1> DEFINE k == call[c]
           from(s) == IF rereads THEN s ELSE k.state
<1>1. /\ k \in CallRecord /\ k.flow \in Flow /\ k.state \in State /\ at[k.flow] \in State
      /\ k.backup \in BOOLEAN /\ k.status = None /\ k.pc \notin {"threw", "answered"}
  BY DEF IndInv, TypeOK, CallOK, CallRecord, AnswerInv, AnswerOK
<1>2. GoodRun(Seen(k)) /\ TruthOf(Seen(k), k.flow)
  BY <1>1, SeenIsGood, SeenIsTold
<1>3. CASE Fail(c, k, Seen(k), from(at[k.flow]), k.backup)
  <2>1. from(at[k.flow]) \in State
    BY <1>1
  <2> HIDE DEF from
  <2> QED BY <1>1, <1>2, <1>3, <2>1, FailTold
<1>4. CASE \E enters, isDirty \in BOOLEAN :
             LET r == transitionTo(Seen(k), k.flow, to, isDirty, enters)
             IN  IF r.threw THEN Fail(c, k, r, from(r.at), k.backup) ELSE Chain(c, k, r, isDirty)
  <2>1. PICK enters \in BOOLEAN, isDirty \in BOOLEAN :
             LET r == transitionTo(Seen(k), k.flow, to, isDirty, enters)
             IN  IF r.threw THEN Fail(c, k, r, from(r.at), k.backup) ELSE Chain(c, k, r, isDirty)
    BY <1>4
  <2> DEFINE r == transitionTo(Seen(k), k.flow, to, isDirty, enters)
  <2>2. GoodRun(r) /\ TruthOf(r, k.flow) /\ (~r.threw => LastLeadsTo(r.log, k.flow, r.at))
    BY <1>1, <1>2, TransitionKeeps, TransitionTold DEF IndInv
  <2>3. from(r.at) \in State
    BY <1>1, <2>2 DEF GoodRun, RunOf
  <2>4. (r.threw /\ Fail(c, k, r, from(r.at), k.backup)) \/ (~r.threw /\ Chain(c, k, r, isDirty))
    BY <2>1
  <2> HIDE DEF r, from
  <2> QED BY <1>1, <2>2, <2>3, <2>4, FailTold, ChainTold
<1> QED BY <1>3, <1>4 DEF Step

(* Steps that leave the logs and the flows alone.                          *)
LEMMA QuietTold ==
    ASSUME TruthInv, UNCHANGED <<auditInside, at, exit, log>>, \A f : threwOn(f) => threwOn(f)'
    PROVE  TruthInv'
<1>1. LogsAgree' /\ Known(log)'
  BY DEF TruthInv, LogsAgree, AuditExplainsGaps, SinkFollowsEvents, logged, transitions, audited, Known
<1>2. ASSUME NEW f \in Flow
      PROVE  threwOn(f)' \/ exit'[f] \in GaveUp \/ LastLeadsTo(log, f, at[f])'
  BY DEF TruthInv, LastLeadsTo, TransitionsOf, logged, transitions
<1> QED BY <1>1, <1>2 DEF TruthInv

LEMMA SettleTold ==
    ASSUME IndInv, TruthInv, NEW c \in Call, call[c].pc = "idle", NEW k, NEW pc, NEW status,
           Settle(c, k, pc, status)
    PROVE  TruthInv'
<1>1. call \in [Call -> CallRecord] /\ UNCHANGED <<auditInside, at, exit, log>>
  BY DEF IndInv, TypeOK, Settle, flowVars
<1>2. \A d \in Call \ {c} : call'[d] = call[d]
  BY <1>1 DEF Settle
<1>3. \A f : threwOn(f) => threwOn(f)'
  BY <1>2, ThrewStays
<1> QED BY <1>1, <1>3, QuietTold

(* Steps that put a log in the place of the log.                           *)
LEMMA OtherLogTold ==
    ASSUME TruthInv, NEW l, log' = l, UNCHANGED <<auditInside, at, exit, call>>,
           AuditExplainsGaps(l), SinkFollowsEvents(l), Known(l),
           \A g, s : LastLeadsTo(log, g, s) => LastLeadsTo(l, g, s)
    PROVE  TruthInv'
<1>1. LogsAgree' /\ Known(log)'
  BY DEF LogsAgree, AuditExplainsGaps, SinkFollowsEvents, logged, transitions, audited, Known
<1>2. \A f : threwOn(f) => threwOn(f)'
  BY DEF threwOn
<1>3. ASSUME NEW f \in Flow
      PROVE  threwOn(f)' \/ exit'[f] \in GaveUp \/ LastLeadsTo(l, f, at'[f])
  BY <1>2 DEF TruthInv
<1> QED BY <1>1, <1>3 DEF TruthInv, LastLeadsTo, TransitionsOf, logged, transitions

LEMMA DeliverTold ==
    ASSUME IndInv, TruthInv, NEW c \in Call, NEW f \in Flow, NEW cmd \in Command, deliver(c, f, cmd)
    PROVE  TruthInv'
<1> DEFINE k == Delivered(f, cmd)
           isLoaded == f \in stored /\ exit[f] = None
<1>1. k \in CallRecord /\ k.flow = f /\ k.status = None /\ call[c].pc = "idle"
  BY DeliveredRecord DEF IndInv, deliver
<1>2. isLoaded => at[f] \in State /\ GoodRun(Seen(k)) /\ TruthOf(Seen(k), f)
  BY <1>1, SeenIsGood, SeenIsTold DEF IndInv
<1> HIDE DEF k
<1>3. CASE \E status \in {"FLOW_NOT_FOUND", "INVALID_TRANSITION"} : Settle(c, k, "threw", status)
  BY <1>1, <1>3, SettleTold
<1>4. ASSUME isLoaded, NEW isDirty \in BOOLEAN,
             Commit(c, k, [Seen(k) EXCEPT !.exit = "EXPIRED"], isDirty, "returned")
      PROVE  TruthInv'
  <2> DEFINE r == [Seen(k) EXCEPT !.exit = "EXPIRED"]
  <2>1. GoodRun(r) /\ TruthOf(r, f) /\ ~r.threw
    BY <1>2, <1>4, ExitKeeps, ExitTold DEF Exits, GaveUp, Seen
  <2>2. Commit(c, k, r, isDirty, "returned")
    BY <1>4
  <2> HIDE DEF r
  <2> QED BY <1>1, <1>2, <1>4, <2>1, <2>2, CommitTold
<1>5. ASSUME isLoaded, NEW isDirty \in BOOLEAN, Commit(c, k, Seen(k), isDirty, "guard")
      PROVE  TruthInv'
  <2>1. ~Seen(k).threw
    BY DEF Seen
  <2> QED BY <1>1, <1>2, <1>5, <2>1, CommitTold
<1>6. ASSUME isLoaded, NEW isDirty \in BOOLEAN, NEW enters \in BOOLEAN, External[at[f]] # None,
             LET r == transitionTo(Seen(k), f, External[at[f]], isDirty, enters)
             IN  IF r.threw THEN Commit(c, k, r, isDirty, "threw") ELSE Chain(c, k, r, isDirty)
      PROVE  TruthInv'
  <2> DEFINE r == transitionTo(Seen(k), f, External[at[f]], isDirty, enters)
  <2>1. External[at[f]] \in State
    BY <1>2, <1>6, Tables
  <2>2. GoodRun(r) /\ TruthOf(r, f) /\ (~r.threw => LastLeadsTo(r.log, f, r.at))
    BY <1>2, <1>6, <2>1, TransitionKeeps, TransitionTold DEF IndInv
  <2>3. (r.threw /\ Commit(c, k, r, isDirty, "threw")) \/ (~r.threw /\ Chain(c, k, r, isDirty))
    BY <1>6
  <2> HIDE DEF r
  <2> QED BY <1>1, <1>2, <1>6, <2>2, <2>3, CommitTold, ChainTold
<1> QED
  <2>1. \/ ~isLoaded /\ Settle(c, k, "threw", "FLOW_NOT_FOUND")
        \/ isLoaded /\ External[at[f]] = None /\ Settle(c, k, "threw", "INVALID_TRANSITION")
        \/ /\ isLoaded
           /\ \E isDirty \in BOOLEAN :
                \/ Commit(c, k, [Seen(k) EXCEPT !.exit = "EXPIRED"], isDirty, "returned")
                \/ External[at[f]] # None /\ at[f] \notin Unguarded
                   /\ Commit(c, k, Seen(k), isDirty, "guard")
                \/ /\ External[at[f]] # None /\ at[f] \in Unguarded
                   /\ \E enters \in BOOLEAN :
                        LET r == transitionTo(Seen(k), f, External[at[f]], isDirty, enters)
                        IN  IF r.threw THEN Commit(c, k, r, isDirty, "threw")
                            ELSE Chain(c, k, r, isDirty)
    BY DEF deliver, k
  <2> HIDE DEF isLoaded
  <2> QED BY <1>3, <1>4, <1>5, <1>6, <2>1

LEMMA ValidateTold ==
    ASSUME IndInv, TruthInv, AnswerInv, NEW c \in Call, validate(c)
    PROVE  TruthInv'
<1> DEFINE k == call[c]
           f == k.flow
<1>1. /\ k \in CallRecord /\ f \in Flow /\ k.pc = "guard" /\ k.state \in State /\ at[f] \in State
      /\ k.status = None /\ dirty[f] \in BOOLEAN
  BY DEF IndInv, TypeOK, CallOK, validate, AnswerInv, AnswerOK
<1>2. GoodRun(Seen(k)) /\ TruthOf(Seen(k), f) /\ ~Seen(k).threw
  BY <1>1, SeenIsGood, SeenIsTold DEF Seen
<1>3. CASE \E isDirty \in BOOLEAN :
             /\ call' = [call EXCEPT ![c] = [@ EXCEPT !.pc = "process", !.backup = dirty[f]]]
             /\ UNCHANGED <<auditInside, stored, at, exit, log>>
  <2>1. call \in [Call -> CallRecord]
    BY DEF IndInv, TypeOK
  <2>2. \A d \in Call \ {c} : call'[d] = call[d]
    BY <1>3, <2>1
  <2>3. \A g : threwOn(g) => threwOn(g)'
    BY <1>1, <2>2, ThrewStays
  <2> QED BY <1>3, <2>3, QuietTold
<1>4. CASE Commit(c, k, Seen(k), dirty[f], "returned")
  BY <1>1, <1>2, <1>4, CommitTold
<1>5. CASE Commit(c, k, Seen(k), dirty[f], "threw")
  BY <1>1, <1>2, <1>5, CommitTold
<1>6. CASE Fail(c, k, Seen(k), k.state, dirty[f])
  BY <1>1, <1>2, <1>6, FailTold
<1>7. CASE Commit(c, k, [Seen(k) EXCEPT !.exit = "EXPIRED"], dirty[f], "returned")
  <2> DEFINE r == [Seen(k) EXCEPT !.exit = "EXPIRED"]
  <2>1. GoodRun(r) /\ TruthOf(r, f) /\ ~r.threw
    BY <1>1, <1>2, ExitKeeps, ExitTold DEF Exits, GaveUp, Seen
  <2>2. Commit(c, k, r, dirty[f], "returned")
    BY <1>7
  <2> HIDE DEF r
  <2> QED BY <1>1, <1>2, <2>1, <2>2, CommitTold
<1> QED BY <1>3, <1>4, <1>5, <1>6, <1>7 DEF validate

LEMMA AnswerTold ==
    ASSUME IndInv, TruthInv, NEW c \in Call, answer(c)
    PROVE  TruthInv'
<1> DEFINE k == call[c]
           status == IF k.pc = "returned" THEN classify(k.flow, k.prev) ELSE classifyError(k.status)
           n == [k EXCEPT !.pc = "answered", !.status = status]
<1>1. k \in CallRecord /\ k.pc \in {"returned", "threw"} /\ call \in [Call -> CallRecord]
  BY DEF answer, IndInv, TypeOK
<1>2. call' = [call EXCEPT ![c] = n] /\ UNCHANGED flowVars
  BY DEF answer, Settle
<1>3. n.pc = "answered" /\ n.flow = k.flow /\ n.status = status
  BY <1>1 DEF CallRecord
<1>4. k.pc = "threw" /\ k.status \in {None, "EXCEPTION_ROUTED"} => status = "EXCEPTION_ROUTED"
  <2>1. None \notin {"FLOW_NOT_FOUND", "INVALID_TRANSITION"}
    BY NotDuplicate DEF Status
  <2> QED BY <2>1 DEF classifyError
<1> HIDE DEF n, status
<1>5. call'[c] = n /\ \A d \in Call \ {c} : call'[d] = call[d]
  BY <1>1, <1>2
<1>6. ASSUME NEW f, threwOn(f) PROVE threwOn(f)'
  <2>1. PICK d \in Call : call[d].flow = f /\ call[d].pc \in {"threw", "answered"}
                           /\ call[d].status \in {None, "EXCEPTION_ROUTED"}
    BY <1>6 DEF threwOn
  <2>2. CASE d = c
    BY <1>1, <1>3, <1>4, <1>5, <2>1, <2>2 DEF threwOn
  <2>3. CASE d # c
    BY <1>5, <2>1, <2>3 DEF threwOn
  <2> QED BY <2>2, <2>3
<1> QED BY <1>2, <1>6, QuietTold DEF flowVars

(* A flow that starts is not in the log yet.                               *)
LEMMA StartTold ==
    ASSUME IndInv, TruthInv, NEW c \in Call, NEW f \in Flow, startFlow(c, f)
    PROVE  TruthInv'
<1>1. /\ call[c].pc = "idle" /\ at[f] = None /\ at' = [at EXCEPT ![f] = Initial]
      /\ UNCHANGED <<auditInside, exit, log>>
  BY DEF startFlow
<1>2. at \in [Flow -> State \cup {None}] /\ call \in [Call -> CallRecord]
  BY DEF IndInv, TypeOK
<1>3. \A d \in Call \ {c} : call'[d] = call[d]
  BY <1>2 DEF startFlow
<1>4. \A g : threwOn(g) => threwOn(g)'
  BY <1>1, <1>3, ThrewStays
<1>5. \A i \in DOMAIN log.events : at[log.events[i].flow] \in State /\ log.events[i].flow # f
  BY <1>1, Tables DEF TruthInv, Known
<1>6. \A i \in DOMAIN log.events : log.events[i].flow \in Flow
  <2>1. log \in Logs /\ Rising(log)
    BY DEF IndInv, TypeOK, VersionsRise
  <2> QED BY <2>1, RisingParts
<1>7. Known(log)'
  BY <1>1, <1>2, <1>5, <1>6 DEF Known
<1>8. LastLeadsTo(log, f, Initial)
  BY <1>5 DEF LastLeadsTo, TransitionsOf, logged
<1>9. \A g \in Flow : threwOn(g) \/ exit[g] \in GaveUp \/ LastLeadsTo(log, g, at'[g])
  BY <1>1, <1>2, <1>8 DEF TruthInv
<1> QED BY <1>1, <1>4, <1>7, <1>9 DEF TruthInv, LogsAgree, AuditExplainsGaps, SinkFollowsEvents,
             LastLeadsTo, TransitionsOf, logged, transitions, audited

LEMMA CompensateTold ==
    ASSUME IndInv, TruthInv, NEW i \in DOMAIN log.events, compensate(i)
    PROVE  TruthInv'
<1> DEFINE f == log.events[i].flow
           e == [flow |-> f, version |-> nextVersion(log, f), type |-> "COMPENSATION",
                 from |-> None, to |-> "COMPENSATED"]
           l == appendCompensation(log, f)
<1>1. log \in Logs /\ Rising(log) /\ TypeOK
  BY DEF IndInv, TypeOK, VersionsRise
<1>2. f \in Flow /\ at[f] \in State
  BY <1>1, RisingParts DEF TruthInv, Known
<1>3. log' = l /\ UNCHANGED <<auditInside, at, exit, call>>
  BY DEF compensate
<1>4. e.flow = f /\ e.type # "TRANSITION"
  OBVIOUS
<1> HIDE DEF f
<1>5. AuditExplainsGaps(l) /\ SinkFollowsEvents(l)
  BY <1>1, <1>2, CompensationExplained, CompensationNotTold DEF TruthInv, LogsAgree
<1>6. l.events = Append(log.events, e)
  BY <1>1, <1>2, CompensationFields
<1> HIDE DEF e, l
<1>7. /\ Known(l)
      /\ \A g, s : LastLeadsTo(log, g, s) => LastLeadsTo(l, g, s)
  BY <1>1, <1>2, <1>4, <1>6, AppendedIsLast DEF TruthInv
<1> QED BY <1>3, <1>5, <1>7, OtherLogTold

LEMMA EmptyLog ==
    ASSUME NEW l, l.events = <<>>, l.audit = <<>>, l.version = [f \in Flow |-> 0]
    PROVE  /\ AuditExplainsGaps(l) /\ SinkFollowsEvents(l)
           /\ Known(l) /\ \A g, s : LastLeadsTo(l, g, s)
<1>1. transitions(l) = {} /\ \A f : logged(l, f) = {} /\ audited(l, f) = {}
  BY DEF transitions, logged, audited
<1>2. AuditExplainsGaps(l)
  <2> SUFFICES ASSUME NEW f \in Flow
               PROVE  Cardinality(audited(l, f)) - Cardinality(logged(l, f) \cap transitions(l))
                      = IF auditInside THEN l.version[f] - Cardinality(logged(l, f)) ELSE 0
    BY DEF AuditExplainsGaps
  <2>1. /\ Cardinality(audited(l, f)) = 0 /\ Cardinality(logged(l, f)) = 0
        /\ Cardinality(logged(l, f) \cap transitions(l)) = 0 /\ l.version[f] = 0
    <3>1. audited(l, f) = {} /\ logged(l, f) = {} /\ logged(l, f) \cap transitions(l) = {}
      BY <1>1
    <3> QED BY <3>1, FS_EmptySet
  <2> QED BY <2>1
<1>3. SinkFollowsEvents(l)
  BY <1>1 DEF SinkFollowsEvents
<1>4. Known(l) /\ \A g, s : LastLeadsTo(l, g, s)
  BY <1>1 DEF Known, LastLeadsTo, TransitionsOf
<1> QED BY <1>2, <1>3, <1>4

LEMMA ClearTold ==
    ASSUME TruthInv, clear
    PROVE  TruthInv'
<1> DEFINE l == [NoEvents EXCEPT !.sink = log.sink]
<1>1. log' = l /\ UNCHANGED <<auditInside, at, exit, call>>
  BY DEF clear
<1>2. l.events = <<>> /\ l.audit = <<>> /\ l.version = [f \in Flow |-> 0]
  BY DEF NoEvents
<1> HIDE DEF l
<1>3. /\ AuditExplainsGaps(l) /\ SinkFollowsEvents(l)
      /\ Known(l) /\ \A g, s : LastLeadsTo(l, g, s)
  BY <1>2, EmptyLog
<1> QED BY <1>1, <1>3, OtherLogTold

LEMMA NextTold == IndInv /\ AnswerInv /\ TruthInv /\ [Next]_vars => TruthInv'
<1> SUFFICES ASSUME IndInv, AnswerInv, TruthInv, [Next]_vars PROVE TruthInv'
  OBVIOUS
<1>1. ASSUME NEW c \in Call, NEW f \in Flow, startFlow(c, f) PROVE TruthInv'
  BY <1>1, StartTold
<1>2. ASSUME NEW c \in Call, NEW f \in Flow, NEW cmd \in Command, deliver(c, f, cmd) PROVE TruthInv'
  BY <1>2, DeliverTold
<1>3. ASSUME NEW c \in Call, NEW f \in Flow, NEW cmd \in Command, deliverAgain(c, f, cmd) PROVE TruthInv'
  <2> DEFINE k == Delivered(f, cmd)
  <2>1. call[c].pc = "idle" /\ Settle(c, k, "answered", "DUPLICATE")
    BY <1>3 DEF deliverAgain
  <2> HIDE DEF k
  <2> QED BY <2>1, SettleTold
<1>4. ASSUME NEW c \in Call, validate(c) PROVE TruthInv'
  BY <1>4, ValidateTold
<1>5. ASSUME NEW c \in Call, process(c) PROVE TruthInv'
  <2>1. External[call[c].state] \in State
    BY <1>5, Tables DEF process, IndInv, CallOK
  <2> QED BY <1>5, <2>1, StepTold DEF process
<1>6. ASSUME NEW c \in Call, auto(c) PROVE TruthInv'
  <2>1. AutoTarget[call[c].state] \in State
    BY <1>6, Tables DEF auto, IndInv, CallOK
  <2> QED BY <1>6, <2>1, StepTold DEF auto
<1>7. ASSUME NEW c \in Call, answer(c) PROVE TruthInv'
  BY <1>7, AnswerTold
<1>8. ASSUME NEW i \in DOMAIN log.events, compensate(i) PROVE TruthInv'
  BY <1>8, CompensateTold
<1>9. CASE clear
  BY <1>9, ClearTold
<1>10. CASE UNCHANGED vars
  <2>1. \A g : threwOn(g) => threwOn(g)'
    BY <1>10 DEF vars, threwOn
  <2> QED BY <1>10, <2>1, QuietTold DEF vars
<1> QED BY <1>1, <1>2, <1>3, <1>4, <1>5, <1>6, <1>7, <1>8, <1>9, <1>10 DEF Next

LEMMA InitTold == Init => TruthInv
<1> SUFFICES ASSUME Init PROVE TruthInv
  OBVIOUS
<1>1. log.events = <<>> /\ log.audit = <<>> /\ log.version = [f \in Flow |-> 0]
  BY DEF Init, NoEvents
<1>2. /\ AuditExplainsGaps(log) /\ SinkFollowsEvents(log)
      /\ Known(log) /\ \A g, s : LastLeadsTo(log, g, s)
  BY <1>1, EmptyLog
<1> QED BY <1>2 DEF TruthInv, LogsAgree

(* plugin-guide.md, audit and telemetry: for any machine and any overlap   *)
(* of calls, the audit log explains the gaps of the versions, and the sink *)
(* was told the transitions the event log has, in its order.               *)
THEOREM LogsTellTheSame == Spec => []LogsAgree
<1>1. Init => IndInv /\ AnswerInv /\ TruthInv
  BY InitGood, InitTold DEF Init, Idle, AnswerInv, AnswerOK
<1>2. IndInv /\ AnswerInv /\ TruthInv /\ [Next]_vars => (IndInv /\ AnswerInv /\ TruthInv)'
  BY NextKeeps, NextAnswers, NextTold
<1>3. TruthInv => LogsAgree
  BY DEF TruthInv
<1> QED BY <1>1, <1>2, <1>3, PTL DEF Spec

-----------------------------------------------------------------------------
(* Replay.                                                                 *)

(* Some index of a set of indices is the last.                             *)
LEMMA LastIndex ==
    ASSUME NEW n \in Nat, NEW A \in SUBSET (1..n), A # {}
    PROVE  \E i \in A : \A j \in A : j <= i
<1> DEFINE B == {n - i : i \in A}
<1>1. B \subseteq Nat /\ B # {}
  <2>1. PICK i \in A : TRUE
    OBVIOUS
  <2>2. n - i \in B
    BY <2>1
  <2>3. \A j \in A : n - j \in Nat
    OBVIOUS
  <2> QED BY <2>2, <2>3
<1>2. \E x \in B : \A y \in B : ~(<<y, x>> \in OpToRel(<, Nat))
  BY <1>1, NatLessThanWellFounded, WFMin
<1>3. PICK i \in A : \A y \in B : ~(<<y, n - i>> \in OpToRel(<, Nat))
  BY <1>2
<1>4. \A j \in A : ~(n - j < n - i)
  BY <1>1, <1>3 DEF OpToRel
<1> QED BY <1>4

(* In a log that rises the last transition at or below a version is also   *)
(* the one with the highest version: both services find it.                *)
LEMMA ReplaysFindTheLast ==
    ASSUME NEW l \in Logs, Rising(l), NEW f \in Flow, NEW v \in Nat
    PROVE  LET upTo == {i \in TransitionsOf(l, f) : l.events[i].version <= v} IN
           \/ /\ upTo = {}
              /\ stateAtVersion(l.events, f, v) = None /\ project(l.events, f, v) = None
           \/ \E i \in upTo :
                /\ \A j \in upTo : j <= i
                /\ stateAtVersion(l.events, f, v) = l.events[i].to
                /\ project(l.events, f, v) = l.events[i].to
<1> DEFINE upTo == {i \in TransitionsOf(l, f) : l.events[i].version <= v}
           n == Len(l.events)
           passing == {i \in DOMAIN l.events : l.events[i].flow = f /\ l.events[i].version <= v}
<1>1. /\ n \in Nat /\ DOMAIN l.events = 1..n
      /\ \A i \in 1..n : l.events[i].flow \in Flow /\ l.events[i].version \in Nat
      /\ \A i, j \in 1..n : (i < j /\ l.events[i].flow = l.events[j].flow)
                               => l.events[i].version < l.events[j].version
  BY RisingParts
<1>2. /\ {i \in DOMAIN l.events :
             l.events[i].flow = f /\ l.events[i].type = "TRANSITION" /\ l.events[i].version <= v} = upTo
      /\ {i \in passing : l.events[i].type = "TRANSITION"} = upTo
      /\ upTo \in SUBSET (1..n) /\ \A i \in upTo : l.events[i].flow = f
  BY <1>1 DEF TransitionsOf, logged, transitions
<1>3. stateAtVersion(l.events, f, v)
      = IF upTo = {} THEN None
        ELSE l.events[CHOOSE i \in upTo : \A j \in upTo : l.events[j].version <= l.events[i].version].to
  <2> DEFINE same == {i \in DOMAIN l.events :
               l.events[i].flow = f /\ l.events[i].type = "TRANSITION" /\ l.events[i].version <= v}
  <2>1. same = upTo
    BY <1>2
  <2>2. stateAtVersion(l.events, f, v)
        = IF same = {} THEN None
          ELSE l.events[CHOOSE i \in same : \A j \in same : l.events[j].version <= l.events[i].version].to
    BY Zenon DEF stateAtVersion
  <2> HIDE DEF same, upTo
  <2> QED BY <2>1, <2>2
<1>4. project(l.events, f, v)
      = IF upTo = {} THEN None ELSE l.events[CHOOSE i \in upTo : \A j \in upTo : j <= i].to
  <2> DEFINE kept == {i \in passing : l.events[i].type = "TRANSITION"}
  <2>1. kept = upTo
    BY <1>2
  <2>2. project(l.events, f, v)
        = IF kept = {} THEN None ELSE l.events[CHOOSE i \in kept : \A j \in kept : j <= i].to
    BY Zenon DEF project
  <2> HIDE DEF kept, upTo
  <2> QED BY <2>1, <2>2
<1> HIDE DEF n, upTo, passing
<1>5. CASE upTo = {}
  BY <1>3, <1>4, <1>5 DEF upTo
<1>6. CASE upTo # {}
  <2>1. PICK last \in upTo : \A j \in upTo : j <= last
    BY <1>1, <1>2, <1>6, LastIndex
  <2>2. \A j \in upTo : j \in Nat /\ l.events[j].version \in Nat
    BY <1>1, <1>2
  <2>3. \A i, j \in upTo : i < j => l.events[i].version < l.events[j].version
    BY <1>1, <1>2
  <2>4. \A j \in upTo : l.events[j].version <= l.events[last].version
    BY <2>1, <2>2, <2>3
  <2>5. \A i \in upTo : (\A j \in upTo : l.events[j].version <= l.events[i].version) => i = last
    BY <2>1, <2>2, <2>3
  <2>6. \A i \in upTo : (\A j \in upTo : j <= i) => i = last
    BY <2>1, <2>2
  <2>7. (CHOOSE i \in upTo : \A j \in upTo : l.events[j].version <= l.events[i].version) = last
    BY <2>4, <2>5
  <2>8. (CHOOSE i \in upTo : \A j \in upTo : j <= i) = last
    BY <2>1, <2>6
  <2> QED BY <1>3, <1>4, <1>6, <2>1, <2>7, <2>8 DEF upTo
<1> QED BY <1>5, <1>6

LEMMA TruthReplays ==
    ASSUME IndInv, TruthInv
    PROVE  ReplayIsTrue
<1>1. log \in Logs /\ Rising(log)
  BY DEF IndInv, TypeOK, VersionsRise
<1> SUFFICES ASSUME NEW f \in Flow
             PROVE  /\ (exit[f] \notin GaveUp /\ ~threwOn(f))
                         => stateAtVersion(log.events, f, log.version[f]) \in {None, at[f]}
                    /\ \A v \in 0..log.version[f] :
                         stateAtVersion(log.events, f, v) = project(log.events, f, v)
  BY DEF ReplayIsTrue, GaveUp
<1>2. log.version[f] \in Nat
  BY <1>1, LogFields
<1>3. \A v \in 0..log.version[f] : stateAtVersion(log.events, f, v) = project(log.events, f, v)
  <2> TAKE v \in 0..log.version[f]
  <2>1. v \in Nat
    BY <1>2
  <2> QED BY <1>1, <2>1, ReplaysFindTheLast
<1>4. ASSUME exit[f] \notin GaveUp, ~threwOn(f)
      PROVE  stateAtVersion(log.events, f, log.version[f]) \in {None, at[f]}
  <2> DEFINE v == log.version[f]
             upTo == {i \in TransitionsOf(log, f) : log.events[i].version <= v}
  <2>1. upTo = TransitionsOf(log, f)
    <3>1. \A i \in DOMAIN log.events : log.events[i].version <= log.version[log.events[i].flow]
      BY <1>1, RisingParts
    <3> QED BY <3>1 DEF TransitionsOf, logged
  <2>2. \/ stateAtVersion(log.events, f, v) = None
        \/ \E i \in upTo : /\ \A j \in upTo : j <= i
                            /\ stateAtVersion(log.events, f, v) = log.events[i].to
    BY <1>1, <1>2, ReplaysFindTheLast
  <2>3. LastLeadsTo(log, f, at[f])
    BY <1>4 DEF TruthInv
  <2> HIDE DEF upTo, v
  <2>4. stateAtVersion(log.events, f, v) \in {None, at[f]}
    BY <2>1, <2>2, <2>3 DEF LastLeadsTo
  <2> QED BY <2>4 DEF v
<1> QED BY <1>3, <1>4

(* replay-service.ts, projection-replay-service.ts: for any machine, the   *)
(* last version of a flow replays to where the flow is, unless a call      *)
(* threw or the engine gave the flow up; and the two services agree.       *)
THEOREM ReplayTellsTheTruth == Spec => []ReplayIsTrue
<1>1. Init => IndInv /\ AnswerInv /\ TruthInv
  BY InitGood, InitTold DEF Init, Idle, AnswerInv, AnswerOK
<1>2. IndInv /\ AnswerInv /\ TruthInv /\ [Next]_vars => (IndInv /\ AnswerInv /\ TruthInv)'
  BY NextKeeps, NextAnswers, NextTold
<1>3. IndInv /\ TruthInv => ReplayIsTrue
  BY TruthReplays
<1> QED BY <1>1, <1>2, <1>3, PTL DEF Spec
=============================================================================
