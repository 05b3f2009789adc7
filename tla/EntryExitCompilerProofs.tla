----------------------- MODULE EntryExitCompilerProofs -----------------------
(***************************************************************************)
(* For every forest of states and any transitions between them: a flow     *)
(* that does what was compiled for its transitions leaves exactly what it  *)
(* has entered, in the order of nesting, and a trigger that a state does   *)
(* not handle goes to the nearest state around it that does.               *)
(*                                                                         *)
(* Paths are defined by recursion on nesting.  That they exist is shown    *)
(* for the largest part of the forest that has them; all else rests on     *)
(* what pathTo says of the order of states, one inside the other.          *)
(***************************************************************************)
EXTENDS EntryExitCompiler, SequenceTheorems, FiniteSetTheorems, WellFoundedInduction, TLAPS

(* A specification: its forest has states of the right kind.               *)
SpecOK == spec \in Spec_ /\ Nested(spec.parent) /\ None \notin State /\ IsFiniteSet(State)

LEMMA ParentType ==
    ASSUME SpecOK
    PROVE  /\ \A s \in State : spec.parent[s] # None => spec.parent[s] \in State
           /\ spec.parent \in [State -> State \cup {None}]
           /\ spec.entry \subseteq State /\ spec.exit \subseteq State /\ spec.initial \in State
BY DEF SpecOK, Spec_

-----------------------------------------------------------------------------
(* Recursion on nesting.                                                   *)

(* Of some sets of states one leaves out the least.                        *)
LEMMA LargestSet ==
    ASSUME IsFiniteSet(State), NEW F, F \subseteq SUBSET State, F # {}
    PROVE  \E A \in F : \A B \in F : ~(A \subseteq B /\ A # B)
<1>. DEFINE G == {State \ A : A \in F}
<1>1. G \subseteq FiniteSubsetsOf(State)
  <2>1. \A A \in F : State \ A \in SUBSET State /\ IsFiniteSet(State \ A)
    BY FS_Subset
  <2>. QED
    BY <2>1 DEF FiniteSubsetsOf
<1>2. PICK x \in G : \A y \in G : ~(<<y, x>> \in StrictSubsetOrdering(State))
  <2>1. G # {}
    <3>1. PICK A : A \in F
      OBVIOUS
    <3>2. State \ A \in G
      BY <3>1
    <3>. QED
      BY <3>2
  <2>. HIDE DEF G
  <2>. QED
    BY <1>1, <2>1, FS_StrictSubsetOrderingWellFounded, WFMin
<1>3. PICK A \in F : x = State \ A
  BY <1>2
<1>4. ASSUME NEW B \in F, A \subseteq B, A # B
      PROVE  FALSE
  <2>1. State \ B \in G /\ State \ B \subseteq State \ A /\ State \ B # State \ A
    BY <1>4
  <2>2. <<State \ B, State \ A>> \in StrictSubsetOrdering(State)
    BY <2>1 DEF StrictSubsetOrdering
  <2>. QED
    BY <1>2, <1>3, <2>1, <2>2
<1>. QED
  BY <1>4

(* A set of states that has with a state whose parent it has, all of them, *)
(* is the set of all states.                                               *)
LEMMA DownTheForest ==
    ASSUME SpecOK, NEW A,
           \A s \in State : (spec.parent[s] = None \/ spec.parent[s] \in A) => s \in A
    PROVE  State \subseteq A
<1>. SUFFICES ASSUME State \ A # {} PROVE FALSE
  OBVIOUS
<1>1. PICK s \in State \ A : spec.parent[s] \notin State \ A
  BY DEF SpecOK, Nested
<1>. QED
  BY <1>1, ParentType

PathStep(f, s) == IF spec.parent[s] = None THEN <<s>> ELSE Append(f[spec.parent[s]], s)

(* pathTo is a function, and the one its definition describes.             *)
LEMMA PathUnfolds ==
    ASSUME SpecOK
    PROVE  \A s \in State : pathTo[s] = PathStep(pathTo, s)
<1>. DEFINE Closed(A) == \A s \in A : spec.parent[s] # None => spec.parent[s] \in A
            F == {A \in SUBSET State : Closed(A) /\ \E f : f = [s \in A |-> PathStep(f, s)]}
<1>1. {} \in F
  <2>1. [s \in {} |-> <<>>] = [s \in {} |-> PathStep([t \in {} |-> <<>>], s)]
    OBVIOUS
  <2>2. \E f : f = [s \in {} |-> PathStep(f, s)]
    BY <2>1
  <2>. QED
    BY <2>2
<1>2. PICK A \in F : \A B \in F : ~(A \subseteq B /\ A # B)
  <2>. HIDE DEF F
  <2>1. F \subseteq SUBSET State
    BY DEF F
  <2>. QED
    BY <1>1, <2>1, LargestSet DEF SpecOK
<1>3. A = State
  <2>. SUFFICES ASSUME State \ A # {} PROVE FALSE
    OBVIOUS
  <2>1. PICK s \in State \ A : spec.parent[s] \notin State \ A
    BY DEF SpecOK, Nested
  <2>2. spec.parent[s] # None => spec.parent[s] \in A
    BY <2>1, ParentType
  <2>3. PICK g : g = [t \in A |-> PathStep(g, t)]
    OBVIOUS
  <2>. DEFINE B == A \cup {s}
              h == [t \in B |-> PathStep(g, t)]
  <2>4. B \in SUBSET State /\ Closed(B)
    BY <2>2
  <2>5. \A t \in A : h[t] = g[t]
    BY <2>3
  <2>6. \A t \in B : spec.parent[t] # None => spec.parent[t] \in A
    BY <2>2
  <2>7. \A t \in B : PathStep(h, t) = PathStep(g, t)
    <3>. HIDE DEF h
    <3>. QED
      BY <2>5, <2>6 DEF PathStep
  <2>8. \E f : f = [t \in B |-> PathStep(f, t)]
    <3>1. h = [t \in B |-> PathStep(h, t)]
      BY <2>7
    <3>. HIDE DEF h
    <3>. QED
      BY <3>1
  <2>9. B \in F
    BY <2>4, <2>8
  <2>. HIDE DEF F
  <2>. QED
    BY <1>2, <2>9
<1>4. \E f : f = [s \in State |-> PathStep(f, s)]
  BY <1>3
<1>5. pathTo = [s \in State |-> PathStep(pathTo, s)]
  BY <1>4 DEF pathTo, PathStep
<1>. QED
  BY <1>5

-----------------------------------------------------------------------------
(* Paths.                                                                  *)

(* What a path to s is: it begins at a root, ends with s, and what comes   *)
(* up to one of its states is the path to that.                            *)
IsPath(p, s) ==
    /\ p \in Seq(State) /\ Len(p) \in Nat \ {0}
    /\ p[Len(p)] = s
    /\ spec.parent[p[1]] = None
    /\ \A i \in 1 .. Len(p) : pathTo[p[i]] = SubSeq(p, 1, i)
    /\ \A i \in 2 .. Len(p) : spec.parent[p[i]] = p[i - 1]

LEMMA PathsArePaths ==
    ASSUME SpecOK
    PROVE  \A s \in State : IsPath(pathTo[s], s)
<1>. DEFINE A == {s \in State : IsPath(pathTo[s], s)}
<1>1. ASSUME NEW s \in State, spec.parent[s] = None
      PROVE  IsPath(pathTo[s], s)
  <2>1. pathTo[s] = <<s>>
    BY <1>1, PathUnfolds DEF PathStep
  <2>2. <<s>> \in Seq(State) /\ Len(<<s>>) = 1 /\ <<s>>[1] = s
    OBVIOUS
  <2>3. SubSeq(<<s>>, 1, 1) = <<s>>
    BY <2>2, SubSeqFull
  <2>. DEFINE p == <<s>>
  <2>. HIDE DEF p
  <2>4. p \in Seq(State) /\ Len(p) = 1 /\ p[1] = s /\ SubSeq(p, 1, 1) = p /\ pathTo[s] = p
    BY <2>1, <2>2, <2>3 DEF p
  <2>5. \A i \in 1 .. Len(p) : i = 1
    BY <2>4
  <2>6. \A i \in 2 .. Len(p) : FALSE
    BY <2>4
  <2>7. \A i \in 1 .. Len(p) : pathTo[p[i]] = SubSeq(p, 1, i)
    BY <2>4, <2>5
  <2>. QED
    BY <1>1, <2>4, <2>6, <2>7 DEF IsPath
<1>2. ASSUME NEW s \in State, spec.parent[s] # None, IsPath(pathTo[spec.parent[s]], spec.parent[s])
      PROVE  IsPath(pathTo[s], s)
  <2>. DEFINE p == pathTo[spec.parent[s]]
              q == Append(p, s)
  <2>1. pathTo[s] = q
    BY <1>2, PathUnfolds DEF PathStep
  <2>2. p \in Seq(State) /\ Len(p) \in Nat \ {0}
    BY <1>2 DEF IsPath
  <2>3. /\ q \in Seq(State) /\ Len(q) = Len(p) + 1 /\ q[Len(p) + 1] = s
        /\ \A i \in 1 .. Len(p) : q[i] = p[i]
    BY <2>2, AppendProperties
  <2>4. SubSeq(q, 1, Len(q)) = q
    BY <2>2, <2>3, SubSeqFull
  <2>5. ASSUME NEW i \in 1 .. Len(p) PROVE SubSeq(q, 1, i) = SubSeq(p, 1, i)
    BY <2>2, <2>3, <2>5
  <2>6. ASSUME NEW i \in 1 .. Len(q) PROVE pathTo[q[i]] = SubSeq(q, 1, i)
    <3>1. CASE i = Len(q)
      BY <2>1, <2>3, <2>4, <3>1
    <3>2. CASE i # Len(q)
      <4>1. i \in 1 .. Len(p)
        BY <2>2, <2>3, <3>2
      <4>. QED
        BY <1>2, <2>3, <2>5, <4>1 DEF IsPath
    <3>. QED
      BY <3>1, <3>2
  <2>7. ASSUME NEW i \in 2 .. Len(q) PROVE spec.parent[q[i]] = q[i - 1]
    <3>1. CASE i = Len(q)
      BY <1>2, <2>2, <2>3, <3>1 DEF IsPath
    <3>2. CASE i # Len(q)
      <4>1. i \in 2 .. Len(p) /\ i \in 1 .. Len(p) /\ i - 1 \in 1 .. Len(p)
        BY <2>2, <2>3, <3>2
      <4>. QED
        BY <1>2, <2>3, <4>1 DEF IsPath
    <3>. QED
      BY <3>1, <3>2
  <2>8. spec.parent[q[1]] = None
    BY <1>2, <2>2, <2>3 DEF IsPath
  <2>. QED
    <3>1. q \in Seq(State) /\ Len(q) \in Nat \ {0} /\ q[Len(q)] = s
      BY <2>2, <2>3
    <3>. HIDE DEF q
    <3>. QED
      BY <2>1, <2>6, <2>7, <2>8, <3>1 DEF IsPath
<1>3. \A s \in State : (spec.parent[s] = None \/ spec.parent[s] \in A) => s \in A
  BY <1>1, <1>2, ParentType
<1>4. State \subseteq A
  <2>. HIDE DEF A
  <2>. QED
    BY <1>3, DownTheForest
<1>. QED
  BY <1>4

(* One state on the path of another comes before it.                       *)
LEMMA PathIndex ==
    ASSUME SpecOK, NEW s \in State
    PROVE  /\ pathTo[s] \in Seq(State) /\ Len(pathTo[s]) \in Nat \ {0}
           /\ DOMAIN pathTo[s] = 1 .. Len(pathTo[s])
           /\ \A i \in 1 .. Len(pathTo[s]) :
                /\ pathTo[s][i] \in State
                /\ Len(pathTo[pathTo[s][i]]) = i
                /\ \A j \in 1 .. i : pathTo[pathTo[s][i]][j] = pathTo[s][j]
<1>. DEFINE p == pathTo[s]
<1>1. IsPath(p, s)
  BY PathsArePaths
<1>. HIDE DEF p
<1>2. /\ p \in Seq(State) /\ Len(p) \in Nat \ {0} /\ DOMAIN p = 1 .. Len(p)
      /\ \A i \in 1 .. Len(p) : p[i] \in State /\ pathTo[p[i]] = SubSeq(p, 1, i)
  <2>1. p \in Seq(State) /\ Len(p) \in Nat \ {0}
        /\ \A i \in 1 .. Len(p) : pathTo[p[i]] = SubSeq(p, 1, i)
    BY <1>1 DEF IsPath
  <2>2. DOMAIN p = 1 .. Len(p)
    BY <2>1, LenProperties
  <2>3. \A i \in 1 .. Len(p) : p[i] \in State
    BY <2>1, ElementOfSeq
  <2>. QED
    BY <2>1, <2>2, <2>3
<1>3. ASSUME NEW i \in 1 .. Len(p)
      PROVE  /\ Len(SubSeq(p, 1, i)) = i
             /\ \A j \in 1 .. i : SubSeq(p, 1, i)[j] = p[j]
  <2>1. \A j \in 1 .. i : p[j] \in State
    BY <1>2
  <2>2. /\ Len(SubSeq(p, 1, i)) = IF 1 <= i THEN i - 1 + 1 ELSE 0
        /\ \A j \in 1 .. i - 1 + 1 : SubSeq(p, 1, i)[j] = p[1 + j - 1]
    BY <1>2, <2>1, SubSeqProperties
  <2>. QED
    BY <1>2, <2>2
<1>. QED
  BY <1>2, <1>3 DEF p

LEMMA OnPathIndex ==
    ASSUME SpecOK, NEW s \in State
    PROVE  \A h : h \in OnPath(s) <=>
              /\ h \in State /\ Len(pathTo[h]) \in 1 .. Len(pathTo[s])
              /\ pathTo[s][Len(pathTo[h])] = h
BY PathIndex DEF OnPath

LEMMA OwnIndex ==
    ASSUME SpecOK, NEW s \in State
    PROVE  pathTo[s][Len(pathTo[s])] = s /\ s \in OnPath(s) /\ OnPath(s) \subseteq State
<1>1. IsPath(pathTo[s], s)
  BY PathsArePaths
<1>2. pathTo[s][Len(pathTo[s])] = s /\ Len(pathTo[s]) \in Nat \ {0}
  BY <1>1 DEF IsPath
<1>. QED
  BY <1>2, OnPathIndex

(* Of two states on one path one is on the path of the other.              *)
LEMMA PathsAreLinear ==
    ASSUME SpecOK, NEW s \in State, NEW h \in OnPath(s), NEW d \in OnPath(s)
    PROVE  /\ h \in OnPath(d) <=> Len(pathTo[h]) <= Len(pathTo[d])
           /\ Len(pathTo[h]) = Len(pathTo[d]) => h = d
           /\ OnPath(h) \subseteq OnPath(s)
<1>. DEFINE n(t) == Len(pathTo[t])
<1>1. /\ h \in State /\ n(h) \in 1 .. n(s) /\ pathTo[s][n(h)] = h
      /\ d \in State /\ n(d) \in 1 .. n(s) /\ pathTo[s][n(d)] = d
      /\ n(s) \in Nat
  BY OnPathIndex, PathIndex
<1>2. \A t \in {h, d} : \A j \in 1 .. n(t) : pathTo[t][j] = pathTo[s][j]
  BY <1>1, PathIndex
<1>3. h \in OnPath(d) <=> n(h) <= n(d)
  <2>1. h \in OnPath(d) <=> n(h) \in 1 .. n(d) /\ pathTo[d][n(h)] = h
    BY <1>1, OnPathIndex
  <2>. QED
    BY <1>1, <1>2, <2>1
<1>4. ASSUME NEW t \in OnPath(h) PROVE t \in OnPath(s)
  <2>1. t \in State /\ n(t) \in 1 .. n(h) /\ pathTo[h][n(t)] = t
    BY <1>1, <1>4, OnPathIndex
  <2>2. n(t) \in 1 .. n(s) /\ pathTo[s][n(t)] = t
    BY <1>1, <1>2, <2>1
  <2>. QED
    BY <2>1, <2>2, OnPathIndex
<1>. QED
  BY <1>1, <1>3, <1>4

-----------------------------------------------------------------------------
(* The common prefix.                                                      *)

(* A set of numbers that has with a number the smaller ones.               *)
LEMMA Prefix ==
    ASSUME NEW n \in Nat, NEW D \in SUBSET (1 .. n),
           \A i \in D : \A j \in 1 .. i : j \in D
    PROVE  \E l \in 0 .. n : D = 1 .. l
<1>. DEFINE Out == {i \in Nat : i + 1 \notin D}
<1>1. n \in Out
  OBVIOUS
<1>2. PICK l \in Out : \A m \in Out : ~(<<m, l>> \in OpToRel(<, Nat))
  <2>1. Out \subseteq Nat /\ Out # {}
    BY <1>1
  <2>. HIDE DEF Out
  <2>. QED
    BY <2>1, NatLessThanWellFounded, WFMin
<1>3. \A m \in Nat : m < l => m + 1 \in D
  <2>. SUFFICES ASSUME NEW m \in Nat, m < l, m + 1 \notin D PROVE FALSE
    OBVIOUS
  <2>1. m \in Out /\ <<m, l>> \in OpToRel(<, Nat)
    BY DEF OpToRel
  <2>. QED
    BY <1>2, <2>1
<1>4. l \in Nat /\ l <= n
  <2>1. ~(n < l)
    <3>. SUFFICES ASSUME n < l PROVE FALSE
      OBVIOUS
    <3>. QED
      BY <1>3
  <2>. QED
    BY <2>1
<1>5. \A i \in 1 .. l : i \in D
  <2>. SUFFICES ASSUME NEW i \in 1 .. l PROVE i \in D
    OBVIOUS
  <2>1. i - 1 \in Nat /\ i - 1 < l /\ (i - 1) + 1 = i
    BY <1>4
  <2>. QED
    BY <1>3, <2>1
<1>6. \A i \in D : i \in 1 .. l
  <2>. SUFFICES ASSUME NEW i \in D, ~(i <= l) PROVE FALSE
    BY <1>4
  <2>1. l + 1 \in 1 .. i
    BY <1>4
  <2>. QED
    BY <1>2, <2>1
<1>. HIDE DEF Out
<1>7. l \in 0 .. n
  BY <1>4
<1>8. D = 1 .. l
  BY <1>5, <1>6
<1>. QED
  BY <1>7, <1>8

LEMMA LcaIndex ==
    ASSUME NEW S, NEW p \in Seq(S), NEW q \in Seq(S)
    PROVE  /\ lcaIndex(p, q) \in Nat
           /\ lcaIndex(p, q) <= Len(p) /\ lcaIndex(p, q) <= Len(q)
           /\ \A j \in 1 .. lcaIndex(p, q) : p[j] = q[j]
<1>. DEFINE D == {i \in DOMAIN p : i <= Len(q) /\ \A j \in 1..i : p[j] = q[j]}
<1>1. Len(p) \in Nat /\ Len(q) \in Nat /\ DOMAIN p = 1 .. Len(p)
  BY LenProperties
<1>2. D \in SUBSET (1 .. Len(p)) /\ \A i \in D : \A j \in 1 .. i : j \in D
  BY <1>1
<1>3. PICK l \in 0 .. Len(p) : D = 1 .. l
  <2>. HIDE DEF D
  <2>. QED
    BY <1>1, <1>2, Prefix
<1>4. Cardinality(D) = l
  <2>1. Cardinality(1 .. l) = IF 1 > l THEN 0 ELSE l - 1 + 1
    BY <1>1, FS_Interval
  <2>2. Cardinality(1 .. l) = l
    BY <1>1, <2>1
  <2>. HIDE DEF D
  <2>. QED
    BY <1>3, <2>2
<1>5. lcaIndex(p, q) = l
  BY <1>4 DEF lcaIndex
<1>6. l <= Len(q) /\ \A j \in 1 .. l : p[j] = q[j]
  <2>1. CASE l = 0
    BY <1>1, <2>1
  <2>2. CASE l # 0
    <3>1. l \in D
      BY <1>1, <1>3, <2>2
    <3>. QED
      BY <3>1
  <2>. QED
    BY <2>1, <2>2
<1>. QED
  BY <1>1, <1>5, <1>6

-----------------------------------------------------------------------------
(* What the loops of compileTransition collect.                            *)

(* Induction over the natural numbers, for a set.                          *)
LEMMA AllNumbers ==
    ASSUME NEW S, 0 \in S, \A n \in Nat : n \in S => n + 1 \in S
    PROVE  Nat \subseteq S
<1>. SUFFICES ASSUME Nat \ S # {} PROVE FALSE
  OBVIOUS
<1>1. PICK n \in Nat \ S : \A m \in Nat \ S : ~(<<m, n>> \in OpToRel(<, Nat))
  BY NatLessThanWellFounded, WFMin
<1>2. n # 0 /\ n \in Nat
  BY <1>1
<1>3. n - 1 \in Nat /\ n - 1 < n
  BY <1>2
<1>4. <<n - 1, n>> \in OpToRel(<, Nat)
  BY <1>2, <1>3 DEF OpToRel
<1>5. n - 1 \in S
  BY <1>1, <1>3, <1>4
<1>6. (n - 1) + 1 \in S /\ (n - 1) + 1 = n
  BY <1>2, <1>3, <1>5
<1>. QED
  BY <1>1, <1>6

CollectStep(S, p, l, out, i) ==
    IF i = l THEN <<>> ELSE IF p[i] \in S THEN Append(out[i - 1], p[i]) ELSE out[i - 1]

(* The loop has a result after each turn.                                  *)
LEMMA CollectUnfolds ==
    ASSUME NEW S, NEW p, NEW l \in Nat, Len(p) \in Nat, l <= Len(p)
    PROVE  \E out : /\ out = [i \in l .. Len(p) |-> CollectStep(S, p, l, out, i)]
                    /\ collect(S, p, l) = out[Len(p)]
<1>. DEFINE D == {k \in Nat : \E f : f = [i \in l .. l + k |-> CollectStep(S, p, l, f, i)]}
<1>1. 0 \in D
  <2>. DEFINE f == [i \in l .. l + 0 |-> <<>>]
  <2>1. \A i \in l .. l + 0 : i = l
    OBVIOUS
  <2>2. f = [i \in l .. l + 0 |-> CollectStep(S, p, l, f, i)]
    BY <2>1 DEF CollectStep
  <2>3. \E g : g = [i \in l .. l + 0 |-> CollectStep(S, p, l, g, i)]
    <3>. HIDE DEF f
    <3>. QED
      BY <2>2
  <2>. QED
    BY <2>3
<1>2. ASSUME NEW k \in Nat, k \in D
      PROVE  k + 1 \in D
  <2>1. PICK g : g = [i \in l .. l + k |-> CollectStep(S, p, l, g, i)]
    BY <1>2
  <2>. DEFINE h == [i \in l .. l + (k + 1) |-> CollectStep(S, p, l, g, i)]
  <2>2. \A i \in l .. l + k : i \in l .. l + (k + 1) /\ h[i] = g[i]
    BY <2>1
  <2>3. \A i \in l .. l + (k + 1) : i # l => i - 1 \in l .. l + k
    OBVIOUS
  <2>4. \A i \in l .. l + (k + 1) : CollectStep(S, p, l, h, i) = CollectStep(S, p, l, g, i)
    <3>. HIDE DEF h
    <3>. QED
      BY <2>2, <2>3 DEF CollectStep
  <2>5. h = [i \in l .. l + (k + 1) |-> CollectStep(S, p, l, h, i)]
    BY <2>4
  <2>6. \E f : f = [i \in l .. l + (k + 1) |-> CollectStep(S, p, l, f, i)]
    <3>. HIDE DEF h
    <3>. QED
      BY <2>5
  <2>. QED
    BY <2>6
<1>3. Len(p) - l \in D
  <2>1. Nat \subseteq D
    <3>. HIDE DEF D
    <3>. QED
      BY <1>1, <1>2, AllNumbers
  <2>2. Len(p) - l \in Nat
    OBVIOUS
  <2>. QED
    BY <2>1, <2>2
<1>4. l + (Len(p) - l) = Len(p)
  OBVIOUS
<1>5. \E f : f = [i \in l .. Len(p) |-> CollectStep(S, p, l, f, i)]
  BY <1>3, <1>4
<1>. DEFINE out == CHOOSE f : f = [i \in l .. Len(p) |-> CollectStep(S, p, l, f, i)]
<1>6. out = [i \in l .. Len(p) |-> CollectStep(S, p, l, out, i)]
  BY <1>5
<1>7. collect(S, p, l) = out[Len(p)]
  BY DEF collect, CollectStep
<1>. HIDE DEF out
<1>. QED
  BY <1>6, <1>7

(* c are the states of S on p from the l-th, without it, to the n-th.      *)
Collected(S, p, l, n, c) ==
    /\ \E T : c \in Seq(T)
    /\ \A s : (\E i \in DOMAIN c : c[i] = s) <=> (s \in S /\ \E a \in l + 1 .. n : p[a] = s)
    /\ \A i, j \in DOMAIN c :
         i < j => \E a, b \in l + 1 .. n : a < b /\ c[i] = p[a] /\ c[j] = p[b]

LEMMA CollectedStep ==
    ASSUME NEW S, NEW p, NEW l \in Nat, NEW n \in Nat, l <= n, NEW c, Collected(S, p, l, n, c)
    PROVE  /\ p[n + 1] \in S => Collected(S, p, l, n + 1, Append(c, p[n + 1]))
           /\ p[n + 1] \notin S => Collected(S, p, l, n + 1, c)
<1>1. PICK T : c \in Seq(T)
  BY DEF Collected
<1>2. l + 1 .. n + 1 = (l + 1 .. n) \cup {n + 1} /\ n + 1 \notin l + 1 .. n
  OBVIOUS
<1>3. ASSUME p[n + 1] \notin S
      PROVE  Collected(S, p, l, n + 1, c)
  <2>1. ASSUME NEW s
        PROVE  (\E i \in DOMAIN c : c[i] = s) <=> (s \in S /\ \E a \in l + 1 .. n + 1 : p[a] = s)
    BY <1>2, <1>3 DEF Collected
  <2>2. \A i, j \in DOMAIN c :
          i < j => \E a, b \in l + 1 .. n + 1 : a < b /\ c[i] = p[a] /\ c[j] = p[b]
    BY <1>2 DEF Collected
  <2>. QED
    BY <1>1, <2>1, <2>2 DEF Collected
<1>4. ASSUME p[n + 1] \in S
      PROVE  Collected(S, p, l, n + 1, Append(c, p[n + 1]))
  <2>. DEFINE d == Append(c, p[n + 1])
              U == T \cup {p[n + 1]}
  <2>1. Len(c) \in Nat /\ DOMAIN c = 1 .. Len(c)
    BY <1>1, LenProperties
  <2>2. c \in Seq(U)
    <3>1. \A i \in 1 .. Len(c) : c[i] \in U
      BY <1>1, <2>1, ElementOfSeq
    <3>. QED
      BY <1>1, <2>1, <3>1
  <2>3. /\ d \in Seq(U) /\ Len(d) = Len(c) + 1 /\ d[Len(c) + 1] = p[n + 1]
        /\ \A i \in 1 .. Len(c) : d[i] = c[i]
    BY <2>2, AppendProperties
  <2>4. DOMAIN d = DOMAIN c \cup {Len(c) + 1} /\ Len(c) + 1 \notin DOMAIN c
    <3>1. DOMAIN d = 1 .. Len(d)
      BY <2>3, LenProperties
    <3>. QED
      BY <2>1, <2>3, <3>1
  <2>. HIDE DEF d
  <2>5. ASSUME NEW s
        PROVE  (\E i \in DOMAIN d : d[i] = s) <=> (s \in S /\ \E a \in l + 1 .. n + 1 : p[a] = s)
    <3>1. (\E i \in DOMAIN d : d[i] = s) <=> (\E i \in DOMAIN c : c[i] = s) \/ p[n + 1] = s
      BY <2>1, <2>3, <2>4
    <3>2. (\E i \in DOMAIN c : c[i] = s) <=> (s \in S /\ \E a \in l + 1 .. n : p[a] = s)
      BY DEF Collected
    <3>. QED
      BY <1>2, <1>4, <3>1, <3>2
  <2>6. ASSUME NEW i \in DOMAIN d, NEW j \in DOMAIN d, i < j
        PROVE  \E a, b \in l + 1 .. n + 1 : a < b /\ d[i] = p[a] /\ d[j] = p[b]
    <3>1. i \in DOMAIN c /\ d[i] = c[i]
      BY <2>1, <2>3, <2>4, <2>6
    <3>2. CASE j \in DOMAIN c
      BY <1>2, <2>1, <2>3, <2>6, <3>1, <3>2 DEF Collected
    <3>3. CASE j = Len(c) + 1
      <4>1. PICK a \in l + 1 .. n : p[a] = c[i]
        BY <3>1 DEF Collected
      <4>2. a < n + 1 /\ a \in l + 1 .. n + 1 /\ n + 1 \in l + 1 .. n + 1
        OBVIOUS
      <4>. QED
        BY <2>3, <3>1, <3>3, <4>1, <4>2
    <3>. QED
      BY <2>4, <2>6, <3>2, <3>3
  <2>7. Collected(S, p, l, n + 1, d)
    BY <2>3, <2>5, <2>6 DEF Collected
  <2>. QED
    BY <2>7 DEF d
<1>. QED
  BY <1>3, <1>4

LEMMA CollectCollects ==
    ASSUME NEW S, NEW p, NEW l \in Nat, Len(p) \in Nat, l <= Len(p)
    PROVE  Collected(S, p, l, Len(p), collect(S, p, l))
<1>1. PICK out : /\ out = [i \in l .. Len(p) |-> CollectStep(S, p, l, out, i)]
                 /\ collect(S, p, l) = out[Len(p)]
  BY CollectUnfolds
<1>. DEFINE D == {k \in Nat : l + k <= Len(p) => Collected(S, p, l, l + k, out[l + k])}
<1>2. \A i \in l .. Len(p) : out[i] = CollectStep(S, p, l, out, i)
  BY <1>1
<1>3. 0 \in D
  <2>1. l \in l .. Len(p)
    OBVIOUS
  <2>2. out[l] = <<>>
    BY <1>2, <2>1 DEF CollectStep
  <2>3. <<>> \in Seq({}) /\ DOMAIN <<>> = {}
    OBVIOUS
  <2>4. l + 1 .. l = {} /\ l + 0 = l
    OBVIOUS
  <2>5. Collected(S, p, l, l, <<>>)
    BY <2>3, <2>4 DEF Collected
  <2>. QED
    BY <2>2, <2>4, <2>5
<1>4. ASSUME NEW k \in Nat, k \in D
      PROVE  k + 1 \in D
  <2>. SUFFICES ASSUME l + (k + 1) <= Len(p)
                PROVE  Collected(S, p, l, l + (k + 1), out[l + (k + 1)])
    OBVIOUS
  <2>. DEFINE n == l + k
  <2>1. /\ n \in Nat /\ l <= n /\ l + (k + 1) = n + 1 /\ n + 1 \in l .. Len(p) /\ n + 1 # l
        /\ (n + 1) - 1 = n
    OBVIOUS
  <2>2. Collected(S, p, l, n, out[n])
    BY <1>4, <2>1
  <2>3. out[n + 1] = IF p[n + 1] \in S THEN Append(out[n], p[n + 1]) ELSE out[n]
    BY <1>2, <2>1 DEF CollectStep
  <2>. HIDE DEF n
  <2>4. Collected(S, p, l, n + 1, out[n + 1])
    BY <2>1, <2>2, <2>3, CollectedStep
  <2>. QED
    BY <2>1, <2>4
<1>5. Nat \subseteq D
  <2>. HIDE DEF D
  <2>. QED
    BY <1>3, <1>4, AllNumbers
<1>6. Len(p) - l \in D /\ l + (Len(p) - l) = Len(p)
  <2>1. Len(p) - l \in Nat /\ l + (Len(p) - l) = Len(p)
    OBVIOUS
  <2>. QED
    BY <1>5, <2>1
<1>7. Collected(S, p, l, Len(p), out[Len(p)])
  BY <1>6
<1>. QED
  BY <1>1, <1>7

-----------------------------------------------------------------------------
(* From the innermost states outwards.                                     *)

depth(s) == Len(pathTo[s])

LEMMA ChildPath ==
    ASSUME SpecOK, NEW s \in State, NEW c \in children(s)
    PROVE  /\ c \in State /\ depth(c) = depth(s) + 1 /\ c # s
           /\ OnPath(c) = OnPath(s) \cup {c} /\ c \notin OnPath(s)
<1>. DEFINE p == pathTo[s]
            q == pathTo[c]
<1>1. c \in State /\ spec.parent[c] = s /\ s # None
  BY DEF children, SpecOK
<1>2. p \in Seq(State) /\ Len(p) \in Nat \ {0} /\ DOMAIN p = 1 .. Len(p)
  BY PathIndex
<1>3. q = Append(p, c)
  BY <1>1, PathUnfolds DEF PathStep
<1>. HIDE DEF p, q
<1>4. /\ Len(q) = Len(p) + 1 /\ q[Len(p) + 1] = c
      /\ \A i \in 1 .. Len(p) : q[i] = p[i]
  BY <1>1, <1>2, <1>3, AppendProperties
<1>5. DOMAIN q = 1 .. Len(p) + 1
  BY <1>1, <1>4, PathIndex DEF q
<1>6. OnPath(c) = OnPath(s) \cup {c}
  <2>1. OnPath(c) = {q[i] : i \in 1 .. Len(p) + 1} /\ OnPath(s) = {p[i] : i \in 1 .. Len(p)}
    BY <1>2, <1>5 DEF OnPath, p, q
  <2>2. \A i \in 1 .. Len(p) + 1 : i \in 1 .. Len(p) \/ i = Len(p) + 1
    BY <1>2
  <2>3. \A i \in 1 .. Len(p) : i \in 1 .. Len(p) + 1
    BY <1>2
  <2>4. Len(p) + 1 \in 1 .. Len(p) + 1
    BY <1>2
  <2>5. \A h : h \in OnPath(c) <=> h \in OnPath(s) \cup {c}
    BY <1>4, <2>1, <2>2, <2>3, <2>4
  <2>. QED
    BY <2>5
<1>7. c \notin OnPath(s)
  <2>1. c \in OnPath(s) => Len(q) <= Len(p)
    BY <1>2, OnPathIndex DEF p, q
  <2>. QED
    BY <1>2, <1>4, <2>1
<1>. QED
  BY <1>1, <1>4, <1>6, <1>7, OwnIndex DEF depth, p, q

(* A set of states that has a state whenever it has those inside it, is    *)
(* the set of all states.                                                  *)
LEMMA UpTheForest ==
    ASSUME SpecOK, NEW A, \A s \in State : children(s) \subseteq A => s \in A
    PROVE  State \subseteq A
<1>. SUFFICES ASSUME State \ A # {} PROVE FALSE
  OBVIOUS
<1>. DEFINE F == {OnPath(s) : s \in State \ A}
<1>1. F \subseteq SUBSET State /\ F # {}
  BY OwnIndex
<1>2. PICK P \in F : \A Q \in F : ~(P \subseteq Q /\ P # Q)
  <2>. HIDE DEF F
  <2>. QED
    BY <1>1, LargestSet DEF SpecOK
<1>3. PICK s \in State \ A : P = OnPath(s)
  BY <1>2
<1>4. PICK c \in children(s) : c \notin A
  BY <1>3
<1>5. c \in State /\ OnPath(c) = OnPath(s) \cup {c} /\ c \notin OnPath(s)
  BY <1>3, <1>4, ChildPath
<1>. QED
  BY <1>2, <1>3, <1>4, <1>5

-----------------------------------------------------------------------------
(* Bubbling.                                                               *)

unhandled(s, g) == {c \in children(s) : ~handles(c, g)}

PropagateStep(f, s, g) == unhandled(s, g) \cup UNION {f[c] : c \in unhandled(s, g)}

LEMMA FallbacksUnfold ==
    ASSUME SpecOK, NEW g
    PROVE  \A s \in State :
             fallbacks(s, g) = unhandled(s, g) \cup UNION {fallbacks(c, g) : c \in unhandled(s, g)}
<1>. DEFINE Closed(A) == \A s \in A : children(s) \subseteq A
            F == {A \in SUBSET State : Closed(A) /\ \E f : f = [s \in A |-> PropagateStep(f, s, g)]}
<1>1. {} \in F
  <2>1. [s \in {} |-> {}] = [s \in {} |-> PropagateStep([t \in {} |-> {}], s, g)]
    OBVIOUS
  <2>2. \E f : f = [s \in {} |-> PropagateStep(f, s, g)]
    BY <2>1
  <2>. QED
    BY <2>2
<1>2. PICK A \in F : \A B \in F : ~(A \subseteq B /\ A # B)
  <2>. HIDE DEF F
  <2>1. F \subseteq SUBSET State
    BY DEF F
  <2>. QED
    BY <1>1, <2>1, LargestSet DEF SpecOK
<1>3. ASSUME NEW s \in State, children(s) \subseteq A
      PROVE  s \in A
  <2>. SUFFICES ASSUME s \notin A PROVE FALSE
    OBVIOUS
  <2>1. PICK f : f = [t \in A |-> PropagateStep(f, t, g)]
    OBVIOUS
  <2>. DEFINE B == A \cup {s}
              h == [t \in B |-> PropagateStep(f, t, g)]
  <2>2. B \in SUBSET State /\ Closed(B)
    BY <1>3
  <2>3. \A t \in A : h[t] = f[t]
    BY <2>1
  <2>4. \A t \in B : unhandled(t, g) \subseteq A
    BY <1>3 DEF unhandled
  <2>5. \A t \in B : PropagateStep(h, t, g) = PropagateStep(f, t, g)
    <3>. HIDE DEF h, B
    <3>. QED
      BY <2>3, <2>4 DEF PropagateStep
  <2>6. \E e : e = [t \in B |-> PropagateStep(e, t, g)]
    <3>1. h = [t \in B |-> PropagateStep(h, t, g)]
      BY <2>5
    <3>. HIDE DEF h
    <3>. QED
      BY <3>1
  <2>7. B \in F
    BY <2>2, <2>6
  <2>. HIDE DEF F
  <2>. QED
    BY <1>2, <2>7
<1>4. A = State
  <2>. HIDE DEF F
  <2>1. State \subseteq A
    BY <1>3, UpTheForest
  <2>2. A \subseteq State
    BY <1>2 DEF F
  <2>. QED
    BY <2>1, <2>2
<1>5. \E f : f = [s \in State |-> PropagateStep(f, s, g)]
  BY <1>4
<1>. DEFINE f == CHOOSE f : f = [s \in State |-> PropagateStep(f, s, g)]
<1>6. f = [s \in State |-> PropagateStep(f, s, g)]
  BY <1>5
<1>7. \A s : fallbacks(s, g) = f[s]
  BY DEF fallbacks, PropagateStep, unhandled
<1>. HIDE DEF f
<1>8. \A s \in State : f[s] = unhandled(s, g) \cup UNION {f[c] : c \in unhandled(s, g)}
  BY <1>6 DEF PropagateStep
<1>9. \A s \in State : {f[c] : c \in unhandled(s, g)} = {fallbacks(c, g) : c \in unhandled(s, g)}
  BY <1>7
<1>. QED
  BY <1>7, <1>8, <1>9

(* Of two states on each other's paths there is but one.                   *)
LEMMA OnePath ==
    ASSUME SpecOK, NEW s \in State, NEW h \in OnPath(s)
    PROVE  /\ h \in State /\ depth(h) \in Nat /\ depth(s) \in Nat /\ depth(h) <= depth(s)
           /\ h # s => depth(h) < depth(s)
           /\ s \in OnPath(h) => h = s
<1>1. h \in State /\ depth(h) \in 1 .. depth(s) /\ pathTo[s][depth(h)] = h
  BY OnPathIndex DEF depth
<1>2. pathTo[s][depth(s)] = s /\ depth(s) \in Nat
  BY OwnIndex, PathIndex DEF depth
<1>3. s \in OnPath(h) => depth(s) <= depth(h)
  BY <1>1, OnPathIndex DEF depth
<1>. QED
  BY <1>1, <1>2, <1>3

(* Between a state and one around it is one just inside the outer one.     *)
LEMMA FirstInside ==
    ASSUME SpecOK, NEW c \in State, NEW s \in Around(c)
    PROVE  \E d \in OnPath(c) : d \in children(s)
<1>. DEFINE p == pathTo[c]
            k == depth(s)
<1>1. s \in State /\ k \in 1 .. Len(p) /\ p[k] = s /\ s # c
  BY OnPathIndex DEF depth, Around
<1>2. IsPath(p, c) /\ DOMAIN p = 1 .. Len(p) /\ Len(p) \in Nat
  BY PathsArePaths, PathIndex
<1>. HIDE DEF p, k
<1>3. k + 1 \in 2 .. Len(p) /\ k + 1 \in DOMAIN p /\ (k + 1) - 1 = k
  BY <1>1, <1>2 DEF IsPath
<1>4. spec.parent[p[k + 1]] = s
  BY <1>1, <1>2, <1>3 DEF IsPath
<1>5. p[k + 1] \in OnPath(c) /\ p[k + 1] \in State
  BY <1>3, OwnIndex DEF OnPath, p
<1>. QED
  BY <1>4, <1>5 DEF children

(* c has a copy of what s does on g: s is around c and no state from c     *)
(* outwards, up to s, handles g.                                           *)
HasFallback(s, c, g) ==
    c \in State /\ s \in Around(c) /\ \A h \in OnPath(c) : s \in Around(h) => ~handles(h, g)

LEMMA FallbacksAre ==
    ASSUME SpecOK, NEW g
    PROVE  \A s \in State : \A c : c \in fallbacks(s, g) <=> HasFallback(s, c, g)
<1>. DEFINE A == {s \in State : \A c : c \in fallbacks(s, g) <=> HasFallback(s, c, g)}
<1>1. ASSUME NEW s \in State, children(s) \subseteq A
      PROVE  s \in A
  <2>1. \A c : c \in fallbacks(s, g) <=>
            c \in unhandled(s, g) \/ \E d \in unhandled(s, g) : c \in fallbacks(d, g)
    BY FallbacksUnfold
  <2>2. \A d \in unhandled(s, g) :
            /\ d \in children(s) /\ d \in State /\ ~handles(d, g)
            /\ \A c : c \in fallbacks(d, g) <=> HasFallback(d, c, g)
    BY <1>1 DEF unhandled, children
  <2>3. ASSUME NEW c \in unhandled(s, g)
        PROVE  HasFallback(s, c, g)
    <3>1. c \in State /\ c # s /\ OnPath(c) = OnPath(s) \cup {c} /\ s \in OnPath(s)
      BY <2>2, ChildPath, OwnIndex
    <3>2. ASSUME NEW h \in OnPath(c), s \in Around(h)
          PROVE  ~handles(h, g)
      <4>1. CASE h = c
        BY <2>2, <4>1
      <4>2. CASE h \in OnPath(s)
        BY <3>2, <4>2, OnePath DEF Around
      <4>. QED
        BY <3>1, <4>1, <4>2
    <3>. QED
      BY <3>1, <3>2 DEF HasFallback, Around
  <2>4. ASSUME NEW d \in unhandled(s, g), NEW c, HasFallback(d, c, g)
        PROVE  HasFallback(s, c, g)
    <3>1. c \in State /\ d \in OnPath(c) /\ d # c
      BY <2>4 DEF HasFallback, Around
    <3>2. /\ d \in State /\ ~handles(d, g) /\ s \in OnPath(d) /\ d # s /\ d \notin OnPath(s)
          /\ depth(d) = depth(s) + 1
      BY <2>2, ChildPath, OwnIndex
    <3>3. s \in OnPath(c) /\ s # c
      BY <3>1, <3>2, PathsAreLinear
    <3>4. ASSUME NEW h \in OnPath(c), s \in Around(h)
          PROVE  ~handles(h, g)
      <4>1. h \in State /\ depth(s) < depth(h) /\ depth(s) \in Nat /\ depth(h) \in Nat
        <5>1. h \in State
          BY <3>1, OwnIndex
        <5>. QED
          BY <5>1, <3>4, OnePath DEF Around
      <4>2. depth(d) <= depth(h)
        BY <3>2, <4>1
      <4>3. d \in OnPath(h)
        BY <3>1, <4>2, PathsAreLinear DEF depth
      <4>4. CASE h = d
        BY <3>2, <4>4
      <4>5. CASE h # d
        BY <2>4, <4>3, <4>5 DEF HasFallback, Around
      <4>. QED
        BY <4>4, <4>5
    <3>. QED
      BY <3>1, <3>3, <3>4 DEF HasFallback, Around
  <2>5. ASSUME NEW c, HasFallback(s, c, g)
        PROVE  c \in unhandled(s, g) \/ \E d \in unhandled(s, g) : HasFallback(d, c, g)
    <3>1. c \in State /\ s \in Around(c)
      BY <2>5 DEF HasFallback
    <3>2. PICK d \in OnPath(c) : d \in children(s)
      BY <3>1, FirstInside
    <3>3. d \in State /\ s \in OnPath(d) /\ d # s /\ d \notin OnPath(s)
      BY <3>2, ChildPath, OwnIndex
    <3>4. d \in unhandled(s, g)
      BY <2>5, <3>2, <3>3 DEF HasFallback, Around, unhandled
    <3>5. ASSUME d # c PROVE HasFallback(d, c, g)
      <4>1. ASSUME NEW h \in OnPath(c), d \in Around(h)
            PROVE  ~handles(h, g)
        <5>1. h \in State /\ d \in OnPath(h) /\ h # d
          BY <3>1, <4>1, OwnIndex DEF Around
        <5>2. s \in OnPath(h)
          BY <3>3, <5>1, PathsAreLinear
        <5>3. s # h
          BY <3>3, <5>1
        <5>. QED
          BY <2>5, <5>2, <5>3 DEF HasFallback, Around
      <4>. QED
        BY <3>1, <3>2, <3>5, <4>1 DEF HasFallback, Around
    <3>. QED
      BY <3>4, <3>5
  <2>. QED
    BY <2>1, <2>2, <2>3, <2>4, <2>5
<1>2. State \subseteq A
  <2>. HIDE DEF A
  <2>. QED
    BY <1>1, UpTheForest
<1>. QED
  BY <1>2

(* The flat machine does transition i in s on its trigger.                 *)
DoneIn(s, i) ==
    LET t == spec.transitions[i]
    IN  t.from = s \/ s \in fallbacks(t.from, t.trigger)

LEMMA FlatIsDeclaredOrCopied ==
    ASSUME NEW s, NEW i
    PROVE  <<s, i>> \in flat <=> i \in DOMAIN spec.transitions /\ DoneIn(s, i)
<1>. DEFINE copies(k) == {<<c, k>> : c \in fallbacks(spec.transitions[k].from, spec.transitions[k].trigger)}
<1>1. <<s, i>> \in synthesizeBubbling <=>
        \E k \in DOMAIN spec.transitions : <<s, i>> \in copies(k)
  BY DEF synthesizeBubbling
<1>2. \A k : <<s, i>> \in copies(k) <=>
        k = i /\ s \in fallbacks(spec.transitions[k].from, spec.transitions[k].trigger)
  OBVIOUS
<1>3. <<s, i>> \in {<<spec.transitions[k].from, k>> : k \in DOMAIN spec.transitions} <=>
        i \in DOMAIN spec.transitions /\ spec.transitions[i].from = s
  OBVIOUS
<1>. HIDE DEF copies
<1>. QED
  BY <1>1, <1>2, <1>3 DEF flat, DoneIn

LEMMA FlatPairs ==
    ASSUME NEW y \in flat
    PROVE  y = <<y[1], y[2]>>
<1>1. CASE y \in synthesizeBubbling
  <2>1. PICK i \in DOMAIN spec.transitions :
          y \in {<<s, i>> : s \in fallbacks(spec.transitions[i].from, spec.transitions[i].trigger)}
    BY <1>1 DEF synthesizeBubbling
  <2>2. PICK s : y = <<s, i>>
    BY <2>1
  <2>. QED
    BY <2>2
<1>2. CASE y \in {<<spec.transitions[i].from, i>> : i \in DOMAIN spec.transitions}
  BY <1>2
<1>. QED
  BY <1>1, <1>2 DEF flat

LEMMA TransitionType ==
    ASSUME SpecOK, NEW i \in DOMAIN spec.transitions
    PROVE  spec.transitions[i].from \in State /\ spec.transitions[i].to \in State
<1>1. spec.transitions \in Seq([from : State, to : State, trigger : Trigger])
  BY DEF SpecOK, Spec_
<1>2. spec.transitions[i] \in [from : State, to : State, trigger : Trigger]
  BY <1>1, LenProperties, ElementOfSeq
<1>. QED
  BY <1>2

(* A state does on a trigger what the nearest state around it does that    *)
(* handles the trigger.                                                    *)
LEMMA NearestIsDone ==
    ASSUME SpecOK
    PROVE  BubblingIsNearest
<1>. SUFFICES ASSUME NEW s \in State, NEW g \in Trigger
              PROVE  LET handling == {h \in OnPath(s) : handles(h, g)}
                         nearest == {h \in handling : handling \subseteq OnPath(h)}
                     IN  {x[2] : x \in {y \in flat : y[1] = s /\ spec.transitions[y[2]].trigger = g}}
                         = {i \in DOMAIN spec.transitions :
                              spec.transitions[i].trigger = g /\ spec.transitions[i].from \in nearest}
  BY DEF BubblingIsNearest
<1>. DEFINE handling == {h \in OnPath(s) : handles(h, g)}
            nearest == {h \in handling : handling \subseteq OnPath(h)}
            done == {x[2] : x \in {y \in flat : y[1] = s /\ spec.transitions[y[2]].trigger = g}}
<1>1. \A i : i \in done <=>
        i \in DOMAIN spec.transitions /\ spec.transitions[i].trigger = g /\ DoneIn(s, i)
  <2>1. ASSUME NEW i
        PROVE  i \in done <=> <<s, i>> \in flat /\ spec.transitions[i].trigger = g
    <3>1. i \in done => <<s, i>> \in flat /\ spec.transitions[i].trigger = g
      BY FlatPairs
    <3>2. ASSUME <<s, i>> \in flat, spec.transitions[i].trigger = g PROVE i \in done
      <4>. DEFINE y == <<s, i>>
      <4>1. y \in flat /\ y[1] = s /\ y[2] = i
        BY <3>2
      <4>. HIDE DEF y
      <4>. QED
        BY <3>2, <4>1
    <3>. HIDE DEF done
    <3>. QED
      BY <3>1, <3>2
  <2>. HIDE DEF done
  <2>. QED
    BY <2>1, FlatIsDeclaredOrCopied
<1>2. ASSUME NEW i \in DOMAIN spec.transitions, spec.transitions[i].trigger = g
      PROVE  DoneIn(s, i) <=> spec.transitions[i].from \in nearest
  <2>. DEFINE f == spec.transitions[i].from
  <2>1. f \in State /\ handles(f, g)
    BY <1>2, TransitionType DEF handles
  <2>2. DoneIn(s, i) <=> f = s \/ HasFallback(f, s, g)
    BY <1>2, <2>1, FallbacksAre DEF DoneIn
  <2>. HIDE DEF f
  <2>3. f = s => f \in nearest
    BY <2>1, OwnIndex
  <2>4. ASSUME HasFallback(f, s, g) PROVE f \in nearest
    <3>1. f \in OnPath(s)
      BY <2>4 DEF HasFallback, Around
    <3>2. ASSUME NEW h \in OnPath(s), handles(h, g) PROVE h \in OnPath(f)
      <4>1. h \in OnPath(f) \/ f \in OnPath(h)
        BY <3>1, PathsAreLinear, OnPathIndex, PathIndex
      <4>2. f \in OnPath(h) => f = h
        BY <2>4, <3>2 DEF HasFallback, Around
      <4>. QED
        BY <2>1, <4>1, <4>2, OwnIndex
    <3>. QED
      BY <2>1, <3>1, <3>2
  <2>5. ASSUME f \in nearest, f # s PROVE HasFallback(f, s, g)
    <3>1. f \in OnPath(s) /\ f \in Around(s)
      BY <2>5 DEF Around
    <3>2. ASSUME NEW h \in OnPath(s), f \in Around(h), handles(h, g) PROVE FALSE
      <4>1. h \in OnPath(f) /\ f \in OnPath(h) /\ f # h
        BY <2>5, <3>2 DEF Around
      <4>. QED
        BY <2>1, <4>1, OnePath
    <3>. QED
      BY <3>1, <3>2 DEF HasFallback
  <2>. HIDE DEF nearest
  <2>. QED
    BY <2>2, <2>3, <2>4, <2>5 DEF f
<1>3. done = {i \in DOMAIN spec.transitions :
                 spec.transitions[i].trigger = g /\ spec.transitions[i].from \in nearest}
  <2>. HIDE DEF done, nearest
  <2>. QED
    BY <1>1, <1>2
<1>. QED
  BY <1>3

-----------------------------------------------------------------------------
(* The chains.                                                             *)

(* The states of a path up to the l-th, and those after it.                *)
Upper(s, l) == {pathTo[s][a] : a \in 1 .. l}
Lower(s, l) == {pathTo[s][a] : a \in l + 1 .. depth(s)}

LEMMA PathParts ==
    ASSUME SpecOK, NEW s \in State, NEW l \in Nat, l <= depth(s)
    PROVE  /\ OnPath(s) = Upper(s, l) \cup Lower(s, l)
           /\ Upper(s, l) \cap Lower(s, l) = {}
<1>1. depth(s) \in Nat /\ DOMAIN pathTo[s] = 1 .. depth(s)
  BY PathIndex DEF depth
<1>2. 1 .. depth(s) = (1 .. l) \cup (l + 1 .. depth(s))
  BY <1>1
<1>3. ASSUME NEW a \in 1 .. l, NEW b \in l + 1 .. depth(s), pathTo[s][a] = pathTo[s][b] PROVE FALSE
  <2>1. a \in 1 .. depth(s) /\ b \in 1 .. depth(s) /\ a # b
    BY <1>1
  <2>2. depth(pathTo[s][a]) = a /\ depth(pathTo[s][b]) = b
    BY <2>1, PathIndex DEF depth
  <2>. QED
    BY <1>3, <2>1, <2>2
<1>4. OnPath(s) = {pathTo[s][a] : a \in 1 .. depth(s)}
  BY <1>1 DEF OnPath
<1>5. OnPath(s) = Upper(s, l) \cup Lower(s, l)
  BY <1>2, <1>4 DEF Upper, Lower
<1>. QED
  BY <1>3, <1>5 DEF Upper, Lower

(* What a loop collects of the states after the l-th: those of S, each     *)
(* around the ones after it.                                               *)
LEMMA CollectedStates ==
    ASSUME SpecOK, NEW s \in State, NEW S, NEW l \in Nat, l <= depth(s),
           NEW c, c = collect(S, pathTo[s], l)
    PROVE  /\ Image(c) = Lower(s, l) \cap S
           /\ \A i, j \in DOMAIN c : i < j => c[i] \in Around(c[j])
           /\ Len(c) \in Nat /\ DOMAIN c = 1 .. Len(c)
<1>1. depth(s) \in Nat /\ Collected(S, pathTo[s], l, depth(s), c)
  BY PathIndex, CollectCollects DEF depth
<1>2. Image(c) = Lower(s, l) \cap S
  <2>1. \A x : x \in Image(c) <=> \E i \in DOMAIN c : c[i] = x
    BY DEF Image
  <2>2. \A x : x \in Lower(s, l) <=> \E a \in l + 1 .. depth(s) : pathTo[s][a] = x
    BY DEF Lower
  <2>3. \A x : (\E i \in DOMAIN c : c[i] = x) <=>
               x \in S /\ \E a \in l + 1 .. depth(s) : pathTo[s][a] = x
    BY <1>1 DEF Collected
  <2>. QED
    BY <2>1, <2>2, <2>3
<1>3. ASSUME NEW i \in DOMAIN c, NEW j \in DOMAIN c, i < j
      PROVE  c[i] \in Around(c[j])
  <2>1. PICK a \in l + 1 .. depth(s), b \in l + 1 .. depth(s) :
          a < b /\ c[i] = pathTo[s][a] /\ c[j] = pathTo[s][b]
    BY <1>1, <1>3 DEF Collected
  <2>2. /\ a \in 1 .. depth(s) /\ b \in 1 .. depth(s)
        /\ depth(c[i]) = a /\ depth(c[j]) = b
        /\ c[i] \in OnPath(s) /\ c[j] \in OnPath(s)
    BY <1>1, <2>1, PathIndex DEF depth, OnPath
  <2>. QED
    BY <2>1, <2>2, PathsAreLinear DEF Around, depth
<1>4. Len(c) \in Nat /\ DOMAIN c = 1 .. Len(c)
  BY <1>1, LenProperties DEF Collected
<1>. QED
  BY <1>2, <1>3, <1>4

LEMMA ReversedTells ==
    ASSUME NEW c, Len(c) \in Nat, DOMAIN c = 1 .. Len(c)
    PROVE  /\ Image(Reversed(c)) = Image(c)
           /\ DOMAIN Reversed(c) = DOMAIN c
           /\ \A i \in DOMAIN c : Len(c) + 1 - i \in DOMAIN c /\ Reversed(c)[i] = c[Len(c) + 1 - i]
<1>. DEFINE r == Reversed(c)
<1>1. DOMAIN r = DOMAIN c /\ \A i \in DOMAIN c : Len(c) + 1 - i \in DOMAIN c /\ r[i] = c[Len(c) + 1 - i]
  BY DEF Reversed
<1>2. \A i \in DOMAIN c : c[i] = r[Len(c) + 1 - i] /\ Len(c) + 1 - i \in DOMAIN c
  <2>. SUFFICES ASSUME NEW i \in DOMAIN c
                PROVE  c[i] = r[Len(c) + 1 - i] /\ Len(c) + 1 - i \in DOMAIN c
    OBVIOUS
  <2>1. Len(c) + 1 - i \in DOMAIN c /\ Len(c) + 1 - (Len(c) + 1 - i) = i
    OBVIOUS
  <2>. HIDE DEF r
  <2>. QED
    BY <1>1, <2>1
<1>. HIDE DEF r
<1>3. Image(r) = Image(c)
  BY <1>1, <1>2 DEF Image
<1>. QED
  BY <1>1, <1>3 DEF r

LEMMA ChainParts ==
    ASSUME SpecOK, NEW from \in State, NEW to \in State
    PROVE  LET l == lcaIndex(pathTo[from], pathTo[to])
           IN  /\ Image(exits(from, to)) = Lower(from, l) \cap spec.exit
               /\ Image(entries(from, to)) = Lower(to, l) \cap spec.entry
               /\ Upper(from, l) = Upper(to, l)
               /\ l \in Nat /\ l <= depth(from) /\ l <= depth(to)
               /\ \A i, j \in DOMAIN exits(from, to) :
                     i < j => exits(from, to)[j] \in Around(exits(from, to)[i])
               /\ \A i, j \in DOMAIN entries(from, to) :
                     i < j => entries(from, to)[i] \in Around(entries(from, to)[j])
<1>. DEFINE l == lcaIndex(pathTo[from], pathTo[to])
            c == collect(spec.exit, pathTo[from], l)
            r == Reversed(c)
            e == collect(spec.entry, pathTo[to], l)
<1>1. pathTo[from] \in Seq(State) /\ pathTo[to] \in Seq(State)
  BY PathIndex
<1>2. /\ l \in Nat /\ l <= depth(from) /\ l <= depth(to)
      /\ \A a \in 1 .. l : pathTo[from][a] = pathTo[to][a]
  BY <1>1, LcaIndex DEF depth
<1>. HIDE DEF l
<1>3. Upper(from, l) = Upper(to, l)
  BY <1>2 DEF Upper
<1>c. \A s, S, d : s \in State /\ l <= depth(s) /\ d = collect(S, pathTo[s], l) =>
        /\ Image(d) = Lower(s, l) \cap S
        /\ \A i, j \in DOMAIN d : i < j => d[i] \in Around(d[j])
        /\ Len(d) \in Nat /\ DOMAIN d = 1 .. Len(d)
  BY <1>2, CollectedStates
<1>d. c = collect(spec.exit, pathTo[from], l) /\ e = collect(spec.entry, pathTo[to], l)
  OBVIOUS
<1>. HIDE DEF c, e
<1>4. /\ Image(c) = Lower(from, l) \cap spec.exit
      /\ \A i, j \in DOMAIN c : i < j => c[i] \in Around(c[j])
      /\ Len(c) \in Nat /\ DOMAIN c = 1 .. Len(c)
  BY <1>2, <1>c, <1>d
<1>5. /\ Image(e) = Lower(to, l) \cap spec.entry
      /\ \A i, j \in DOMAIN e : i < j => e[i] \in Around(e[j])
  BY <1>2, <1>c, <1>d
<1>6. /\ Image(r) = Image(c) /\ DOMAIN r = DOMAIN c
      /\ \A i \in DOMAIN c : Len(c) + 1 - i \in DOMAIN c /\ r[i] = c[Len(c) + 1 - i]
  BY <1>4, ReversedTells
<1>. HIDE DEF r
<1>7. ASSUME NEW i \in DOMAIN r, NEW j \in DOMAIN r, i < j
      PROVE  r[j] \in Around(r[i])
  <2>1. Len(c) + 1 - j < Len(c) + 1 - i
    BY <1>4, <1>6, <1>7
  <2>. QED
    BY <1>4, <1>6, <2>1
<1>8. exits(from, to) = r /\ entries(from, to) = e
  BY DEF exits, entries, l, c, r, e
<1>. QED
  BY <1>2, <1>3, <1>4, <1>5, <1>6, <1>7, <1>8 DEF l

-----------------------------------------------------------------------------
(* The flow.                                                               *)

IInv ==
    /\ SpecOK
    /\ at \in State
    /\ EntriesMatchExits

LEMMA InitHolds ==
    ASSUME Init
    PROVE  IInv
<1>1. SpecOK
  BY SpecAssumption DEF Init, SpecOK
<1>2. at \in State
  BY <1>1, ParentType DEF Init
<1>3. DOMAIN chain.exits = {} /\ DOMAIN chain.entries = {}
  BY DEF Init, NoChain
<1>4. EntriesMatchExits
  BY <1>3 DEF Init, EntriesMatchExits
<1>. QED
  BY <1>1, <1>2, <1>4 DEF IInv

(* The states that stay entered, and those that are entered, are those     *)
(* around the state the flow comes to.                                     *)
LEMMA FireMatches ==
    ASSUME SpecOK, NEW from \in State, NEW to \in State
    PROVE  ((OnPath(from) \cap Both) \ Image(exits(from, to))) \cup (Image(entries(from, to)) \cap Both)
           = OnPath(to) \cap Both
<1>. DEFINE l == lcaIndex(pathTo[from], pathTo[to])
<1>1. /\ Image(exits(from, to)) = Lower(from, l) \cap spec.exit
      /\ Image(entries(from, to)) = Lower(to, l) \cap spec.entry
      /\ Upper(from, l) = Upper(to, l)
      /\ l \in Nat /\ l <= depth(from) /\ l <= depth(to)
  BY ChainParts
<1>. HIDE DEF l
<1>2. /\ OnPath(from) = Upper(from, l) \cup Lower(from, l)
      /\ Upper(from, l) \cap Lower(from, l) = {}
      /\ OnPath(to) = Upper(to, l) \cup Lower(to, l)
  BY <1>1, PathParts
<1>. QED
  BY <1>1, <1>2 DEF Both

LEMMA StepHolds ==
    ASSUME IInv, [Next]_vars
    PROVE  IInv'
<1>1. SpecOK /\ at \in State /\ EntriesMatchExits
  BY DEF IInv
<1>2. CASE UNCHANGED vars
  <2>1. spec' = spec /\ at' = at /\ active' = active /\ chain' = chain
    BY <1>2 DEF vars
  <2>2. /\ Both' = Both
        /\ \A s : OnPath(s)' = OnPath(s)
        /\ \A s : Around(s)' = Around(s)
    BY <2>1 DEF Both, OnPath, Around, pathTo
  <2>3. SpecOK'
    BY <1>1, <2>1 DEF SpecOK
  <2>. QED
    BY <1>1, <2>1, <2>2, <2>3 DEF IInv, EntriesMatchExits
<1>3. CASE Next
  <2>1. PICK x \in flat :
          /\ x[1] = at
          /\ LET to == spec.transitions[x[2]].to
                 compiled == compileTransition(at, to)
             IN  IF readsBeforeRoot(at, to)
                 THEN crashed' = TRUE /\ UNCHANGED <<at, active, chain>>
                 ELSE /\ at' = to
                      /\ active' = (active \ Image(compiled.exits)) \cup (Image(compiled.entries) \cap Both)
                      /\ chain' = compiled
                      /\ UNCHANGED crashed
    BY <1>3 DEF Next, Fire
  <2>2. spec' = spec
    BY <1>3 DEF Next, Fire
  <2>. DEFINE to == spec.transitions[x[2]].to
  <2>3. to \in State
    <3>1. x[2] \in DOMAIN spec.transitions
      BY FlatPairs, FlatIsDeclaredOrCopied
    <3>. QED
      BY <1>1, <3>1, TransitionType
  <2>4. SpecOK'
    BY <1>1, <2>2 DEF SpecOK
  <2>5. /\ Both' = Both
        /\ \A s : OnPath(s)' = OnPath(s)
        /\ \A s : Around(s)' = Around(s)
    BY <2>2 DEF Both, OnPath, Around, pathTo
  <2>6. CASE readsBeforeRoot(at, to)
    <3>1. at' = at /\ active' = active /\ chain' = chain
      BY <2>1, <2>6
    <3>. QED
      BY <1>1, <2>2, <2>4, <2>5, <3>1 DEF IInv, EntriesMatchExits
  <2>7. CASE ~readsBeforeRoot(at, to)
    <3>1. /\ at' = to
          /\ active' = (active \ Image(exits(at, to))) \cup (Image(entries(at, to)) \cap Both)
          /\ chain'.exits = exits(at, to) /\ chain'.entries = entries(at, to)
      BY <2>1, <2>7 DEF compileTransition
    <3>. HIDE DEF to
    <3>2. active' = OnPath(to) \cap Both
      BY <1>1, <2>3, <3>1, FireMatches DEF EntriesMatchExits
    <3>3. /\ \A i, j \in DOMAIN exits(at, to) :
                i < j => exits(at, to)[j] \in Around(exits(at, to)[i])
          /\ \A i, j \in DOMAIN entries(at, to) :
                i < j => entries(at, to)[i] \in Around(entries(at, to)[j])
      BY <1>1, <2>3, ChainParts
    <3>4. EntriesMatchExits'
      BY <2>5, <3>1, <3>2, <3>3 DEF EntriesMatchExits
    <3>. QED
      BY <2>3, <2>4, <3>1, <3>4 DEF IInv
  <2>. QED
    BY <2>6, <2>7
<1>. QED
  BY <1>2, <1>3

LEMMA IInvAlways == FlowSpec => []IInv
<1>1. Init => IInv
  BY InitHolds
<1>2. IInv /\ [Next]_vars => IInv'
  BY StepHolds
<1>. QED
  BY <1>1, <1>2, PTL DEF FlowSpec

(* However a flow wanders through any forest of states, what compileTransition *)
(* made of its transitions has left exactly what it entered, inner states      *)
(* before outer ones, and entered outer ones before inner ones.                *)
THEOREM EnteredIsLeft == FlowSpec => []EntriesMatchExits
<1>1. IInv => EntriesMatchExits
  BY DEF IInv
<1>. QED
  BY <1>1, IInvAlways, PTL

(* After synthesizeBubbling every state does on every trigger what the         *)
(* nearest state around it, itself included, does that handles the trigger.    *)
THEOREM NearestHandles == FlowSpec => []BubblingIsNearest
<1>1. IInv => BubblingIsNearest
  BY NearestIsDone DEF IInv
<1>. QED
  BY <1>1, IInvAlways, PTL
=============================================================================
