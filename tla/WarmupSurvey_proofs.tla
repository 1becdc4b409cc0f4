--------------------------- MODULE WarmupSurvey_proofs ---------------------------
(* The survey measures the stream of a constructed object, whatever its PRNG  *)
(* does: the constructor and the survey call it from the same state, so that  *)
(* one path of states is behind both.                                         *)
EXTENDS WarmupSurvey, TLAPS

Surveyed == IotaStarts \cup ZeroStarts

(* The first n steps of g's object from the state that init made.             *)
IsPath(path, n) ==
    /\ path[0] = [s |-> Replaced(g), p |-> 0]
    /\ \A i \in 0..(n - 1) : path[i + 1] = next(g, path[i]).object

(* The constructor is at the end of a path, and the survey on the one that    *)
(* the constructor took, for as many calls.                                   *)
OnPath ==
    /\ g \in Surveyed
    /\ discarded \in 0..num_warmup_discards(g)
    /\ k \in Nat
    /\ warmed = {} => k = 0
    /\ \E path :
          /\ IsPath(path, discarded)
          /\ warmed = {} => object = path[discarded]
          /\ warmed # {} => /\ discarded = num_warmup_discards(g)
                            /\ warmed = {path[discarded]}
                            /\ k <= discarded => object = path[k]

LEMMA DiscardsType == \A name \in Surveyed : num_warmup_discards(name) \in Nat
  BY DEF Surveyed, IotaStarts, ZeroStarts, num_warmup_discards, Prngs, Class,
         xoroshiro128aox, xoroshiro128plusplus, xoroshiro128starstar,
         xoroshiro1024plusplus, xoroshiro1024starstar, xoshiro128plusplus,
         xoshiro128starstar, xoshiro256plusplus, xoshiro256starstar,
         xoshiro512plusplus, xoshiro512starstar, sfc32, sfc64, biski64,
         klimov_shamir_32

(* main gives each PRNG the start that its init gives a zero seed.            *)
LEMMA ResetIsInit ==
    \A name \in Surveyed : \A o : reset_state(name, o) = [s |-> Replaced(name), p |-> 0]
<1>1. \A name \in IotaStarts : Prngs[name].zero = "replaced"
  BY DEF IotaStarts, Prngs, Class,
         xoroshiro128aox, xoroshiro128plusplus, xoroshiro128starstar,
         xoroshiro1024plusplus, xoroshiro1024starstar, xoshiro128plusplus,
         xoshiro128starstar, xoshiro256plusplus, xoshiro256starstar,
         xoshiro512plusplus, xoshiro512starstar
<1>2. \A name \in ZeroStarts : Prngs[name].zero # "replaced" /\ name \notin IotaStarts
  BY DEF IotaStarts, ZeroStarts, Prngs, Class, sfc32, sfc64, biski64, klimov_shamir_32
<1>. QED
  BY <1>1, <1>2 DEF Surveyed, reset_state, Replaced

LEMMA InitOnPath == Init => OnPath
<1>. SUFFICES ASSUME Init
              PROVE  OnPath
  OBVIOUS
<1>. DEFINE path == [i \in 0..0 |-> object]
<1>1. g \in Surveyed /\ discarded = 0 /\ k = 0 /\ warmed = {}
  BY DEF Init, Surveyed
<1>2. IsPath(path, 0) /\ object = path[0]
  BY DEF Init, IsPath
<1>. QED
  BY <1>1, <1>2, DiscardsType DEF OnPath

(* The loop of init makes the path one step longer.                           *)
LEMMA DiscardOnPath == OnPath /\ Discard => OnPath'
<1>. SUFFICES ASSUME OnPath, Discard
              PROVE  OnPath'
  OBVIOUS
<1>1. PICK path : IsPath(path, discarded) /\ object = path[discarded]
  BY DEF OnPath, Discard
<1>2. PICK longer :
            longer = [i \in 0..(discarded + 1) |-> IF i = discarded + 1 THEN object' ELSE path[i]]
  OBVIOUS
<1>3. /\ discarded \in Nat /\ discarded' = discarded + 1 /\ num_warmup_discards(g) \in Nat
      /\ discarded < num_warmup_discards(g)
  BY DiscardsType DEF OnPath, Discard
<1>4. g' = g /\ warmed' = {} /\ warmed = {} /\ k' = k /\ object' = next(g, object).object
  BY DEF Discard
<1>5. longer[0] = path[0] /\ longer[discarded + 1] = object'
  BY <1>2, <1>3
<1>6. ASSUME NEW i \in 0..discarded
      PROVE  longer[i + 1] = next(g, longer[i]).object
  BY <1>1, <1>2, <1>3, <1>4 DEF IsPath
<1>7. IsPath(longer, discarded)' /\ object' = longer[discarded']
  BY <1>1, <1>3, <1>4, <1>5, <1>6 DEF IsPath
<1>. QED
  BY <1>3, <1>4, <1>7 DEF OnPath, num_warmup_discards

(* The survey starts where the constructor did.                               *)
LEMMA ResetOnPath == OnPath /\ Reset => OnPath'
<1>. SUFFICES ASSUME OnPath, Reset
              PROVE  OnPath'
  OBVIOUS
<1>1. PICK path : IsPath(path, discarded) /\ object = path[discarded]
  BY DEF OnPath, Reset
<1>2. /\ g \in Surveyed /\ g' = g /\ k = 0 /\ k' = k
      /\ discarded = num_warmup_discards(g) /\ discarded' = discarded
      /\ warmed' = {object} /\ object' = reset_state(g, object)
  BY DEF OnPath, Reset
<1>3. object' = path[0]
  BY <1>1, <1>2, ResetIsInit DEF IsPath
<1>4. IsPath(path, discarded)'
  BY <1>1, <1>2 DEF IsPath
<1>. QED
  BY <1>1, <1>2, <1>3, <1>4, DiscardsType DEF OnPath, num_warmup_discards

(* The survey takes the constructor's path.                                   *)
LEMMA MeasureOnPath == OnPath /\ Measure => OnPath'
<1>. SUFFICES ASSUME OnPath, Measure
              PROVE  OnPath'
  OBVIOUS
<1>1. PICK path : /\ IsPath(path, discarded)
                  /\ discarded = num_warmup_discards(g) /\ warmed = {path[discarded]}
                  /\ k <= discarded => object = path[k]
  BY DEF OnPath, Measure
<1>2. /\ g \in Surveyed /\ g' = g /\ k \in Nat /\ k' = k + 1 /\ discarded \in Nat
      /\ discarded' = discarded /\ warmed' = warmed /\ object' = next(g, object).object
  BY DiscardsType DEF OnPath, Measure
<1>3. k' <= discarded => object' = path[k']
  BY <1>1, <1>2 DEF IsPath
<1>4. IsPath(path, discarded)'
  BY <1>1, <1>2 DEF IsPath
<1>5. /\ g' \in Surveyed /\ k' \in Nat
      /\ discarded' = num_warmup_discards(g') /\ warmed' = {path[discarded']}
  BY <1>1, <1>2 DEF num_warmup_discards
<1>6. warmed' # {} /\ discarded' \in 0..num_warmup_discards(g')
  BY <1>5, DiscardsType
<1>7. /\ warmed' = {} => object' = path[discarded']
      /\ warmed' # {} => /\ discarded' = num_warmup_discards(g')
                         /\ warmed' = {path[discarded']}
                         /\ k' <= discarded' => object' = path[k']
  BY <1>2, <1>3, <1>5, <1>6
<1>8. \E way : /\ IsPath(way, discarded)'
               /\ warmed' = {} => object' = way[discarded']
               /\ warmed' # {} => /\ discarded' = num_warmup_discards(g')
                                  /\ warmed' = {way[discarded']}
                                  /\ k' <= discarded' => object' = way[k']
  BY <1>4, <1>7, Zenon
<1>. QED
  BY <1>5, <1>6, <1>8 DEF OnPath

(* After as many outputs as the constructor discards, the object that is      *)
(* surveyed is where the constructor left it, for any next(): a change of an  *)
(* update cannot make the survey one of another stream.                       *)
THEOREM SurveyIsOfTheObject == Spec => []SurveysTheObject
<1>1. OnPath /\ [Next]_vars => OnPath'
  <2>. SUFFICES ASSUME OnPath, [Next]_vars
                PROVE  OnPath'
    OBVIOUS
  <2>1. CASE Discard
    BY <2>1, DiscardOnPath
  <2>2. CASE Reset
    BY <2>2, ResetOnPath
  <2>3. CASE Measure
    BY <2>3, MeasureOnPath
  <2>4. CASE Done \/ UNCHANGED vars
    BY <2>4 DEF Done, vars, OnPath, IsPath, num_warmup_discards, Replaced, IotaState, ZeroState
  <2>. QED
    BY <2>1, <2>2, <2>3, <2>4 DEF Next
<1>2. OnPath => SurveysTheObject
  <2>. SUFFICES ASSUME OnPath, k = num_warmup_discards(g), NEW o \in warmed
                PROVE  object = o
    BY DEF SurveysTheObject
  <2>. QED
    BY DiscardsType DEF OnPath
<1>. QED
  BY InitOnPath, <1>1, <1>2, PTL DEF Spec
=============================================================================
