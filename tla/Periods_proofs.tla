----------------------------- MODULE Periods_proofs -----------------------------
(* A PRNG whose state updates go round in one cycle comes back to its seed    *)
(* after as many calls as the cycle has states and not before, and returns    *)
(* every output as often as the cycle has states that give it.                *)
EXTENDS Periods, Cycles, TLAPS, FiniteSetTheorems

(* What the theorems ask of init and of calls: from an object that is         *)
(* constructed, calls of g go round the objects of R, whose states differ.    *)
RunsRound(h, o, R) ==
    /\ o \in R
    /\ HasPeriod([q \in R |-> call(h, q).object], Period(h))
    /\ \A p, q \in R : p.s = q.s => p = q

RunRound ==
    \A h \in Cyclic : \A seed \in Seeds(h) : \E R : RunsRound(h, init(h, seed), R)

Giving(h, S, r) == {q \in S : call(h, q).result = r}

(* And of a mixer: in R, no result has more than so many copies.              *)
Balanced ==
    \A h \in Mixers : \A seed \in Seeds(h) : \A R :
        RunsRound(h, init(h, seed), R) =>
            \A r : Cardinality(Giving(h, R, r)) <= Copies(h)

-----------------------------------------------------------------------------
(* The inductive invariant: the objects that have been called are as many as  *)
(* the calls; each but the last has led to another one of them, and none back *)
(* to the start; and each has given an output.                                *)
Called(R) == {q \in R : q.s \in seen}

Around(R) ==
    /\ object \in R
    /\ calls \in 0..Period(g)
    /\ Cardinality(Called(R)) = calls
    /\ calls = 0 => object = start
    /\ calls > 0 => start \in Called(R)
    /\ \A q \in Called(R) : \/ call(g, q).object = object
                            \/ call(g, q).object \in Called(R) \ {start}

Counted(R) == \A r : Times(r) = Cardinality(Giving(g, Called(R), r))

GoesRound ==
    g \in Cyclic =>
        \E R : RunsRound(g, start, R) /\ Around(R) /\ Counted(R)

LEMMA CalledIsFinite ==
    ASSUME NEW R, RunsRound(g, start, R)
    PROVE  /\ IsFiniteSet(R) /\ Cardinality(R) = Period(g)
           /\ \A S \in SUBSET R : IsFiniteSet(S)
           /\ IsFiniteSet(Called(R)) /\ Called(R) \subseteq R
<1>. DEFINE N == [q \in R |-> call(g, q).object]
<1>1. DOMAIN N = R
  OBVIOUS
<1>2. IsFiniteSet(R) /\ Cardinality(R) = Period(g)
  BY <1>1 DEF RunsRound, HasPeriod
<1>. QED
  BY <1>2, FS_Subset DEF Called

(* A part of the cycle that calls do not leave is all of it.                  *)
LEMMA ClosedIsAll ==
    ASSUME NEW R, RunsRound(g, start, R),
           NEW S \in SUBSET R, S # {}, \A q \in S : call(g, q).object \in S
    PROVE  S = R
<1>. DEFINE N == [q \in R |-> call(g, q).object]
<1>1. DOMAIN N = R /\ \A q \in S : N[q] \in S
  OBVIOUS
<1>2. OneCycle(N)
  BY DEF RunsRound, HasPeriod
<1>. HIDE DEF N
<1>. QED
  BY <1>1, <1>2 DEF OneCycle

(* Before the period ends, no object comes back.                              *)
LEMMA NotBefore ==
    ASSUME NEW R, RunsRound(g, start, R), Around(R), calls # Period(g)
    PROVE  object \notin Called(R)
<1>. SUFFICES ASSUME object \in Called(R)
              PROVE  FALSE
  OBVIOUS
<1>1. Called(R) \in SUBSET R /\ Called(R) # {}
  BY DEF Called
<1>2. \A q \in Called(R) : call(g, q).object \in Called(R)
  BY DEF Around
<1>3. Called(R) = R
  BY <1>1, <1>2, ClosedIsAll
<1>4. Cardinality(R) = Period(g)
  BY CalledIsFinite
<1>. QED
  BY <1>3, <1>4 DEF Around

(* When it ends, the object is back where it started.                         *)
LEMMA BackAtStart ==
    ASSUME NEW R, RunsRound(g, start, R), Around(R), calls = Period(g)
    PROVE  object = start
<1>. SUFFICES ASSUME object # start
              PROVE  FALSE
  OBVIOUS
<1>1. Called(R) = R
  BY CalledIsFinite, FS_Subset DEF Around
<1>. DEFINE S == R \ {start}
<1>2. S \in SUBSET R /\ object \in S
  BY DEF Around
<1>3. \A q \in S : call(g, q).object \in S
  BY <1>1, <1>2 DEF Around
<1>4. S = R
  <2>. HIDE DEF S
  <2>. QED
    BY <1>2, <1>3, ClosedIsAll
<1>. QED
  BY <1>4 DEF RunsRound

-----------------------------------------------------------------------------
LEMMA RoundInit == RunRound => (Init => GoesRound)
<1>. SUFFICES ASSUME RunRound, Init, g \in Cyclic
              PROVE  GoesRound
  BY DEF GoesRound
<1>1. PICK R : RunsRound(g, start, R)
  BY DEF RunRound, Init
<1>2. Called(R) = {}
  BY DEF Called, Init
<1>3. Cardinality(Called(R)) = 0
  BY <1>2, FS_EmptySet
<1>4. Around(R)
  <2>1. 0 \in 0..Period(g)
    BY PeriodsAssumption
  <2>. QED
    BY <1>1, <1>2, <1>3, <2>1 DEF Around, Init, RunsRound
<1>5. Counted(R)
  <2>. SUFFICES ASSUME NEW r
                PROVE  Times(r) = Cardinality(Giving(g, Called(R), r))
    BY DEF Counted
  <2>1. Giving(g, Called(R), r) = {}
    BY <1>2 DEF Giving
  <2>2. Times(r) = 0
    BY DEF Times, Init
  <2>. QED
    BY <2>1, <2>2, FS_EmptySet
<1>. QED
  BY <1>1, <1>4, <1>5 DEF GoesRound

LEMMA RoundCall ==
    ASSUME NEW R, RunsRound(g, start, R), Around(R), Counted(R), g \in Cyclic, Call
    PROVE  RunsRound(g, start, R)' /\ Around(R)' /\ Counted(R)'
<1>. DEFINE n == call(g, object)
            V == Called(R)
<1>1. /\ calls \in Nat /\ calls < Period(g) /\ Period(g) \in Nat
      /\ g' = g /\ start' = start /\ calls' = calls + 1
      /\ object' = n.object /\ outputs' = Count(n.result) /\ seen' = seen \cup {object.s}
  BY PeriodsAssumption DEF Call, Calls, Around
<1>2. RunsRound(g, start, R)'
  BY <1>1 DEF RunsRound
<1>3. object \notin V /\ object \in R
  BY <1>1, NotBefore DEF Around
<1>4. Called(R)' = V \cup {object}
  <2>1. \A q \in R : q.s = object.s => q = object
    BY <1>3 DEF RunsRound
  <2>. QED
    BY <1>1, <1>3, <2>1 DEF Called
<1>5. IsFiniteSet(V) /\ Cardinality(V) = calls
  BY CalledIsFinite DEF Around
<1>6. Around(R)'
  <2>1. object' \in R
    <3>. DEFINE N == [q \in R |-> call(g, q).object]
    <3>1. DOMAIN N = R /\ N[object] = n.object
      BY <1>3
    <3>2. OneCycle(N)
      BY DEF RunsRound, HasPeriod
    <3>. HIDE DEF N
    <3>. QED
      BY <1>1, <1>3, <3>1, <3>2 DEF OneCycle
  <2>2. calls' \in 0..Period(g)' /\ calls' # 0
    BY <1>1
  <2>3. Cardinality(Called(R)')= calls'
    BY <1>1, <1>3, <1>4, <1>5, FS_AddElement
  <2>4. start' \in Called(R)'
    <3>1. CASE calls = 0
      BY <1>1, <1>4, <3>1 DEF Around
    <3>2. CASE calls # 0
      BY <1>1, <1>4, <3>2 DEF Around
    <3>. QED
      BY <3>1, <3>2
  <2>5. ASSUME NEW q \in Called(R)'
        PROVE  call(g, q).object = object' \/ call(g, q).object \in Called(R)' \ {start}
    <3>1. CASE q = object
      BY <1>1, <3>1
    <3>2. CASE q \in V
      <4>1. start \in V
        <5>1. calls # 0
          BY <1>5, <3>2, FS_EmptySet
        <5>. QED
          BY <1>1, <5>1 DEF Around
      <4>2. object # start
        BY <1>3, <4>1
      <4>3. call(g, q).object = object \/ call(g, q).object \in V \ {start}
        BY <3>2 DEF Around
      <4>. QED
        BY <1>4, <4>2, <4>3
    <3>. QED
      BY <1>4, <2>5, <3>1, <3>2
  <2>. QED
    BY <1>1, <2>1, <2>2, <2>3, <2>4, <2>5 DEF Around
<1>7. Counted(R)'
  <2>. SUFFICES ASSUME NEW r
                PROVE  Times(r)' = Cardinality(Giving(g, Called(R)', r))
    BY <1>1 DEF Counted
  <2>. DEFINE G == Giving(g, V, r)
  <2>1. Times(r) = Cardinality(G)
    BY DEF Counted
  <2>2. IsFiniteSet(G) /\ object \notin G
    BY <1>3, <1>5, FS_Subset DEF Giving
  <2>3. CASE r = n.result
    <3>1. Giving(g, Called(R)', r) = G \cup {object}
      BY <1>4, <2>3 DEF Giving
    <3>2. Times(r)' = Times(r) + 1
      BY <1>1, <2>3 DEF Times, Count
    <3>. QED
      BY <2>1, <2>2, <3>1, <3>2, FS_AddElement
  <2>4. CASE r # n.result
    <3>1. Giving(g, Called(R)', r) = G
      BY <1>4, <2>4 DEF Giving
    <3>2. Times(r)' = Times(r)
      BY <1>1, <2>4 DEF Times, Count
    <3>. QED
      BY <2>1, <3>1, <3>2
  <2>. QED
    BY <2>3, <2>4
<1>. QED
  BY <1>2, <1>6, <1>7

(* The invariant holds.                                                       *)
LEMMA AlwaysRound == RunRound => (Spec => []GoesRound)
<1>. SUFFICES ASSUME RunRound
              PROVE  Spec => []GoesRound
  OBVIOUS
<1>1. Init => GoesRound
  BY RoundInit
<1>2. GoesRound /\ [Next]_vars => GoesRound'
  <2>. SUFFICES ASSUME GoesRound, [Next]_vars
                PROVE  GoesRound'
    OBVIOUS
  <2>1. CASE Call
    <3>. SUFFICES ASSUME g' \in Cyclic
                  PROVE  GoesRound'
      BY DEF GoesRound
    <3>1. g \in Cyclic
      BY <2>1 DEF Call
    <3>2. PICK R : RunsRound(g, start, R) /\ Around(R) /\ Counted(R)
      BY <3>1 DEF GoesRound
    <3>3. RunsRound(g, start, R)' /\ Around(R)' /\ Counted(R)'
      BY <2>1, <3>1, <3>2, RoundCall
    <3>. QED
      BY <3>3 DEF GoesRound
  <2>2. CASE UNCHANGED vars
    <3>1. g' = g /\ start' = start /\ object' = object /\ calls' = calls /\ seen' = seen
          /\ outputs' = outputs
      BY <2>2 DEF vars
    <3>2. ASSUME NEW R, RunsRound(g, start, R), Around(R), Counted(R)
          PROVE  RunsRound(g, start, R)' /\ Around(R)' /\ Counted(R)'
      <4>1. RunsRound(g, start, R)' <=> RunsRound(g, start, R)
        BY <3>1 DEF RunsRound
      <4>2. Called(R)' = Called(R) /\ \A r : Times(r)' = Times(r)
        BY <3>1 DEF Called, Times
      <4>3. Around(R)'
        BY <3>1, <3>2, <4>2 DEF Around
      <4>4. Counted(R)'
        BY <3>1, <3>2, <4>2 DEF Counted
      <4>. QED
        BY <3>2, <4>1, <4>3, <4>4
    <3>. QED
      BY <3>1, <3>2 DEF GoesRound
  <2>3. CASE Done
    BY <2>2, <2>3 DEF Done
  <2>. QED
    BY <2>1, <2>2, <2>3 DEF Next
<1>. QED
  BY <1>1, <1>2, PTL DEF Spec

(* A state comes back after as many calls as there are states, and not before:*)
(* for all the PRNGs of a known period, FullPeriod is an invariant.           *)
THEOREM PeriodIsFull == RunRound => (Spec => []FullPeriod)
<1>. SUFFICES ASSUME RunRound
              PROVE  Spec => []FullPeriod
  OBVIOUS
<1>1. GoesRound => FullPeriod
  <2>. SUFFICES ASSUME GoesRound, g \in Cyclic
                PROVE  /\ calls \in 1..(Period(g) - 1) => object.s \notin seen
                       /\ calls = Period(g) => object = start
    BY DEF FullPeriod
  <2>1. PICK R : RunsRound(g, start, R) /\ Around(R)
    BY DEF GoesRound
  <2>2. ASSUME calls \in 1..(Period(g) - 1)
        PROVE  object.s \notin seen
    <3>1. calls # Period(g)
      BY <2>2, PeriodsAssumption
    <3>2. object \in R /\ object \notin Called(R)
      BY <2>1, <3>1, NotBefore DEF Around
    <3>. QED
      BY <3>2 DEF Called
  <2>. QED
    BY <2>1, <2>2, BackAtStart
<1>. QED
  BY <1>1, AlwaysRound, PTL

(* A mixer returns no output more often than the words that it takes to it:   *)
(* EveryOutputEquallyOften is an invariant.                                   *)
THEOREM OutputsEquallyOften == RunRound /\ Balanced => (Spec => []EveryOutputEquallyOften)
<1>. SUFFICES ASSUME RunRound, Balanced
              PROVE  Spec => []EveryOutputEquallyOften
  OBVIOUS
<1>. DEFINE Constructed == \E seed \in Seeds(g) : start = init(g, seed)
<1>1. Init => Constructed
  BY DEF Init
<1>2. Constructed /\ [Next]_vars => Constructed'
  BY DEF Next, Call, Done, vars
<1>3. Constructed /\ GoesRound => EveryOutputEquallyOften
  <2>. SUFFICES ASSUME Constructed, GoesRound, g \in Mixers, NEW r \in DOMAIN outputs
                PROVE  outputs[r] <= Copies(g)
    BY DEF EveryOutputEquallyOften
  <2>1. g \in Cyclic /\ Copies(g) \in Nat
    BY PeriodsAssumption
  <2>2. PICK R : RunsRound(g, start, R) /\ Around(R) /\ Counted(R)
    BY <2>1 DEF GoesRound
  <2>. DEFINE some == Giving(g, Called(R), r)
              all == Giving(g, R, r)
  <2>3. Cardinality(all) <= Copies(g)
    BY <2>2 DEF Balanced
  <2>4. IsFiniteSet(all) /\ some \subseteq all
    BY <2>2, CalledIsFinite DEF Giving, Called
  <2>5. outputs[r] = Cardinality(some)
    BY <2>2 DEF Counted, Times
  <2>. HIDE DEF some, all
  <2>6. Cardinality(some) <= Cardinality(all) /\ Cardinality(some) \in Nat /\ Cardinality(all) \in Nat
    BY <2>4, FS_Subset, FS_CardinalityType
  <2>. QED
    BY <2>1, <2>3, <2>5, <2>6
<1>4. Spec => []Constructed
  <2>. HIDE DEF Constructed
  <2>. QED
    BY <1>1, <1>2, PTL DEF Spec
<1>. HIDE DEF Constructed
<1>. QED
  BY <1>3, <1>4, AlwaysRound, PTL

-----------------------------------------------------------------------------
(* The same from the updates of the states                                    *)

(* Objects whose position stays 0, as all of these PRNGs have them.           *)
Object(x) == [s |-> x, p |-> 0]

(* From the object o, calls of h move the state by F, which has the period:   *)
(* what CounterPeriod, LcgPeriod, LehmerPeriod, XsmPeriod and CountersPeriod  *)
(* of Prngs_proofs say of the updates of the PRNGs.                           *)
Updates(h, o, F) ==
    /\ HasPeriod(F, Period(h))
    /\ \E x \in DOMAIN F : o = Object(x)
    /\ \A x \in DOMAIN F : call(h, Object(x)).object = Object(F[x])

UpdatesFound ==
    \A h \in Cyclic : \A seed \in Seeds(h) : \E F : Updates(h, init(h, seed), F)

(* And no output has more than so many states: OutputsOnce and OutputsFew.    *)
OutputsFound ==
    \A h \in Mixers : \A seed \in Seeds(h) : \E F :
        /\ Updates(h, init(h, seed), F)
        /\ \A r : Cardinality({x \in DOMAIN F : call(h, Object(x)).result = r}) <= Copies(h)

LEMMA UpdatesGoRound ==
    ASSUME NEW h, NEW o, NEW F, Updates(h, o, F)
    PROVE  RunsRound(h, o, {Object(x) : x \in DOMAIN F})
<1>. DEFINE D == DOMAIN F
            R == {Object(x) : x \in D}
            N == [q \in R |-> call(h, q).object]
            f == [x \in D |-> Object(x)]
<1>1. /\ IsFiniteSet(D) /\ Cardinality(D) = Period(h)
      /\ F \in [D -> D] /\ \A S \in SUBSET D : S # {} /\ (\A x \in S : F[x] \in S) => S = D
  BY DEF Updates, HasPeriod, OneCycle
<1>2. /\ \A x \in D : Object(x) \in R /\ N[Object(x)] = Object(F[x])
      /\ \A q \in R : \E x \in D : q = Object(x)
  BY DEF Updates
<1>3. \A x, y \in D : Object(x) = Object(y) => x = y
  BY DEF Object
<1>4. IsFiniteSet(R) /\ Cardinality(R) = Period(h)
  <2>1. f \in Bijection(D, R)
    <3>1. f \in [D -> R] /\ \A x \in D : f[x] = Object(x)
      OBVIOUS
    <3>. HIDE DEF f, R
    <3>. QED
      BY <1>2, <1>3, <3>1 DEF Bijection, Injection, IsInjective, Surjection
  <2>. HIDE DEF f, R, D
  <2>. QED
    BY <1>1, <2>1, FS_Bijection DEF ExistsBijection
<1>5. N \in [R -> R] /\ DOMAIN N = R
  <2>1. \A q \in R : N[q] \in R
    <3>. HIDE DEF N, R, D
    <3>. QED
      BY <1>1, <1>2
  <2>2. N = [q \in R |-> N[q]]
    OBVIOUS
  <2>. HIDE DEF N, R
  <2>. QED
    BY <2>1, <2>2
<1>6. ASSUME NEW S \in SUBSET R, S # {}, \A q \in S : N[q] \in S
      PROVE  S = R
  <2>. DEFINE T == {x \in D : Object(x) \in S}
  <2>. HIDE DEF N, R
  <2>1. T \in SUBSET D /\ T # {}
    BY <1>2, <1>6
  <2>2. \A x \in T : F[x] \in T
    BY <1>1, <1>2, <1>6
  <2>3. T = D
    <3>. HIDE DEF T
    <3>. QED
      BY <1>1, <2>1, <2>2
  <2>4. \A q \in R : q \in S
    BY <1>2, <2>3
  <2>. QED
    BY <2>4
<1>7. o \in R
  BY DEF Updates
<1>8. \A p, q \in R : p.s = q.s => p = q
  BY DEF Object
<1>. HIDE DEF N, R
<1>9. HasPeriod(N, Period(h))
  BY <1>4, <1>5, <1>6 DEF HasPeriod, OneCycle
<1>. QED
  BY <1>7, <1>8, <1>9 DEF RunsRound, N, R

(* There is but one way round from an object.                                 *)
LEMMA OneWayRound ==
    ASSUME NEW h, NEW o, NEW R, RunsRound(h, o, R), NEW S, RunsRound(h, o, S)
    PROVE  R = S
<1>1. ASSUME NEW Q, RunsRound(h, o, Q), NEW T \in SUBSET Q, o \in T,
             \A q \in T : call(h, q).object \in T
      PROVE  T = Q
  <2>. DEFINE N == [q \in Q |-> call(h, q).object]
  <2>1. DOMAIN N = Q /\ \A q \in T : N[q] \in T
    BY <1>1
  <2>2. OneCycle(N)
    BY <1>1 DEF RunsRound, HasPeriod
  <2>. HIDE DEF N
  <2>. QED
    BY <1>1, <2>1, <2>2 DEF OneCycle
<1>2. ASSUME NEW Q, RunsRound(h, o, Q)
      PROVE  o \in Q /\ \A q \in Q : call(h, q).object \in Q
  <2>. DEFINE N == [q \in Q |-> call(h, q).object]
  <2>1. DOMAIN N = Q /\ \A q \in Q : N[q] = call(h, q).object
    OBVIOUS
  <2>2. OneCycle(N) /\ o \in Q
    BY <1>2 DEF RunsRound, HasPeriod
  <2>. HIDE DEF N
  <2>. QED
    BY <2>1, <2>2 DEF OneCycle
<1>. DEFINE T == R \cap S
<1>3. o \in T /\ \A q \in T : call(h, q).object \in T
  BY <1>2
<1>4. T \in SUBSET R /\ T \in SUBSET S
  OBVIOUS
<1>. HIDE DEF T
<1>5. T = R
  BY <1>1, <1>3, <1>4
<1>6. T = S
  BY <1>1, <1>3, <1>4
<1>. QED
  BY <1>5, <1>6

(* A PRNG whose update has a full period comes back to its seed after that    *)
(* many calls, and not before.                                                *)
THEOREM PeriodOfUpdates == UpdatesFound => (Spec => []FullPeriod)
<1>1. UpdatesFound => RunRound
  BY UpdatesGoRound DEF UpdatesFound, RunRound
<1>. QED
  BY <1>1, PeriodIsFull

(* And a mixer returns no output more often than its counter has words that   *)
(* are mixed to it.                                                           *)
THEOREM OutputsOfUpdates ==
    UpdatesFound /\ OutputsFound => (Spec => []EveryOutputEquallyOften)
<1>. SUFFICES ASSUME UpdatesFound, OutputsFound
              PROVE  Spec => []EveryOutputEquallyOften
  OBVIOUS
<1>1. RunRound
  BY UpdatesGoRound DEF UpdatesFound, RunRound
<1>2. ASSUME NEW h \in Mixers, NEW seed \in Seeds(h), NEW R, RunsRound(h, init(h, seed), R), NEW r
      PROVE  Cardinality(Giving(h, R, r)) <= Copies(h)
  <2>1. PICK F : /\ Updates(h, init(h, seed), F)
                 /\ Cardinality({x \in DOMAIN F : call(h, Object(x)).result = r}) <= Copies(h)
    BY DEF OutputsFound
  <2>. DEFINE D == DOMAIN F
              T == {x \in D : call(h, Object(x)).result = r}
              G == Giving(h, R, r)
              f == [x \in T |-> Object(x)]
  <2>2. R = {Object(x) : x \in D}
    BY <1>2, <2>1, UpdatesGoRound, OneWayRound
  <2>3. f \in Bijection(T, G)
    <3>1. \A x \in T : Object(x) \in G /\ f[x] = Object(x)
      BY <2>2 DEF Giving
    <3>2. \A q \in G : \E x \in T : q = Object(x)
      BY <2>2 DEF Giving
    <3>3. \A x, y \in T : Object(x) = Object(y) => x = y
      BY DEF Object
    <3>4. f \in [T -> G]
      BY <3>1
    <3>. HIDE DEF f, T, G
    <3>. QED
      BY <3>1, <3>2, <3>3, <3>4 DEF Bijection, Injection, IsInjective, Surjection
  <2>4. IsFiniteSet(T)
    <3>1. IsFiniteSet(D) /\ T \in SUBSET D
      BY <2>1 DEF Updates, HasPeriod
    <3>. HIDE DEF D, T
    <3>. QED
      BY <3>1, FS_Subset
  <2>. HIDE DEF f, T, G
  <2>5. Cardinality(G) = Cardinality(T)
    BY <2>3, <2>4, FS_Bijection DEF ExistsBijection
  <2>6. Cardinality(T) <= Copies(h)
    BY <2>1 DEF T
  <2>. QED
    BY <2>5, <2>6 DEF G
<1>3. Balanced
  BY <1>2 DEF Balanced
<1>. QED
  BY <1>1, <1>3, OutputsEquallyOften
=============================================================================
