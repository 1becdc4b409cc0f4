------------------------------ MODULE Prngs_proofs ------------------------------
(* Streams from different seeds never merge, and some PRNGs never reach the   *)
(* state of all zeros: first the life cycle of Urbg, for every PRNG whose     *)
(* next() takes different states to different states; then that the state     *)
(* updates of the PRNGs of fixed words do, for words of every width.  The     *)
(* exclusive or, shifts and rotations of the linear PRNGs come first, then    *)
(* addition and multiplication, whose carries only go up.  Then the mixers of *)
(* a counter, the periods of counters, congruential PRNGs and xsm, the two    *)
(* versions of the rounds of AES, and the ring of the 1024-bit PRNGs.         *)
EXTENDS Xoroshiro1024, ArithmeticUpdates, MixSteps, SimdCompress, Cycles,
        TLAPS, WellFoundedInduction, FiniteSetTheorems

-----------------------------------------------------------------------------
(* The life cycle                                                             *)

(* What the theorems ask of next(), and of a PRNG that must not be zero.      *)
OneToOne ==
    /\ Step \in [State -> State]
    /\ \A x, y \in State : Step[x] = Step[y] => x = y
Permutes ==
    /\ OneToOne
    /\ Iota # Zero
    /\ \A x \in State : Step[x].s = Zero => x.s = Zero

USE SeedsAssumption, DiscardsAssumption DEF Live

LEMMA ReplacedIsSeed ==
    ASSUME NEW s \in Seeds
    PROVE  Replaced(s) \in Seeds /\ (Iota # Zero => Replaced(s) # Zero)
  BY DEF Replaced

(* The variables keep their types.                                            *)
THEOREM TypeCorrect == OneToOne => (Spec => []TypeOK)
<1>. SUFFICES ASSUME OneToOne
              PROVE  Spec => []TypeOK
  OBVIOUS
<1>1. Init => TypeOK
  BY DEF Init, TypeOK, State
<1>2. TypeOK /\ [Next]_vars => TypeOK'
  <2>. SUFFICES ASSUME TypeOK, [Next]_vars
                PROVE  TypeOK'
    OBVIOUS
  <2>1. ASSUME NEW o \in Objects, Construct(o)
        PROVE  TypeOK'
    <3>1. PICK s \in Seeds : /\ obj' = [obj EXCEPT ![o] = [s |-> Replaced(s), p |-> 0]]
                             /\ seed' = [seed EXCEPT ![o] = s]
      BY <2>1 DEF Construct
    <3>2. [s |-> Replaced(s), p |-> 0] \in State
      BY ReplacedIsSeed DEF State
    <3>. QED
      BY <2>1, <3>1, <3>2 DEF Construct, TypeOK
  <2>2. ASSUME NEW o \in Objects, Discard(o)
        PROVE  TypeOK'
    BY <2>2 DEF Discard, TypeOK, OneToOne
  <2>3. ASSUME NEW o \in Objects, Call(o)
        PROVE  TypeOK'
    BY <2>3 DEF Call, TypeOK, OneToOne
  <2>4. ASSUME NEW o \in Objects, Destroy(o)
        PROVE  TypeOK'
    <3>1. [obj[o] EXCEPT !.s = Zero] \in State
      BY DEF TypeOK, State
    <3>. QED
      BY <2>4, <3>1 DEF Destroy, TypeOK
  <2>5. ASSUME NEW o \in Objects, NEW from \in Objects, Copy(o, from)
        PROVE  TypeOK'
    BY <2>5 DEF Copy, Copied, TypeOK
  <2>6. CASE UNCHANGED vars
    BY <2>6 DEF vars, TypeOK
  <2>. QED
    BY <2>1, <2>2, <2>3, <2>4, <2>5, <2>6 DEF Next
<1>. QED
  BY <1>1, <1>2, PTL DEF Spec

(* No object ever reaches the state of all zeros.                             *)
THEOREM NonZero == Permutes => (Spec => []NeverZero)
<1>. SUFFICES ASSUME Permutes
              PROVE  Spec => []NeverZero
  OBVIOUS
<1>1. Init => NeverZero
  BY DEF Init, NeverZero
<1>2. TypeOK /\ NeverZero /\ [Next]_vars => NeverZero'
  <2>. SUFFICES ASSUME TypeOK, NeverZero, [Next]_vars
                PROVE  NeverZero'
    OBVIOUS
  <2>1. ASSUME NEW o \in Objects, Construct(o)
        PROVE  NeverZero'
    <3>1. PICK s \in Seeds : obj' = [obj EXCEPT ![o] = [s |-> Replaced(s), p |-> 0]]
      BY <2>1 DEF Construct
    <3>. QED
      BY <2>1, <3>1, ReplacedIsSeed DEF Construct, NeverZero, TypeOK, Permutes
  <2>2. ASSUME NEW o \in Objects, Discard(o) \/ Call(o)
        PROVE  NeverZero'
    <3>1. o \in made /\ made' = made /\ obj' = [obj EXCEPT ![o] = Step[@]]
      BY <2>2 DEF Discard, Call
    <3>2. Step[obj[o]].s # Zero
      BY <3>1 DEF NeverZero, TypeOK, Permutes, OneToOne
    <3>. QED
      BY <3>1, <3>2 DEF NeverZero, TypeOK
  <2>3. ASSUME NEW o \in Objects, Destroy(o)
        PROVE  NeverZero'
    BY <2>3 DEF Destroy, NeverZero, TypeOK
  <2>4. ASSUME NEW o \in Objects, NEW from \in Objects, Copy(o, from)
        PROVE  NeverZero'
    BY <2>4 DEF Copy, Copied, NeverZero, TypeOK
  <2>5. CASE UNCHANGED vars
    BY <2>5 DEF vars, NeverZero
  <2>. QED
    BY <2>1, <2>2, <2>3, <2>4, <2>5 DEF Next
<1>. QED
  BY <1>1, <1>2, TypeCorrect, PTL DEF Spec, Permutes

-----------------------------------------------------------------------------
(* Streams that merge                                                         *)

(* n calls of next() take x to y.                                             *)
Run(x, n, y) ==
    \E f \in [0..n -> State] :
        f[0] = x /\ f[n] = y /\ \A i \in 1..n : f[i] = Step[f[i - 1]]

LEMMA LeastElement ==
    ASSUME NEW S \in SUBSET Nat, S # {}
    PROVE  \E m \in S : \A n \in S : m <= n
<1>. DEFINE R == OpToRel(<, Nat)
<1>1. PICK m \in S : \A n \in S : ~(<<n, m>> \in R)
  <2>1. IsWellFoundedOn(R, Nat)
    BY NatLessThanWellFounded
  <2>. HIDE DEF R
  <2>. QED
    BY <2>1, WFMin
<1>2. ASSUME NEW n \in S
      PROVE  m <= n
  <2>1. ~(n < m)
    BY <1>1 DEF OpToRel
  <2>. HIDE DEF R
  <2>. QED
    BY <2>1
<1>. QED
  BY <1>2

LEMMA RunOne ==
    ASSUME OneToOne, NEW x \in State, NEW y \in State, NEW n \in Nat, Run(x, n, y)
    PROVE  Run(x, n + 1, Step[y])
<1>1. PICK f \in [0..n -> State] :
          f[0] = x /\ f[n] = y /\ \A i \in 1..n : f[i] = Step[f[i - 1]]
  BY DEF Run
<1>. DEFINE g == [i \in 0..(n + 1) |-> IF i = n + 1 THEN Step[y] ELSE f[i]]
<1>2. g \in [0..(n + 1) -> State]
  BY DEF OneToOne
<1>3. \A i \in 1..(n + 1) : g[i] = Step[g[i - 1]]
  BY <1>1
<1>4. g[0] = x /\ g[n + 1] = Step[y]
  BY <1>1
<1>. HIDE DEF g
<1>. QED
  BY <1>2, <1>3, <1>4 DEF Run

(* Runs of the same length end together exactly when they start together.     *)
LEMMA RunsApart ==
    ASSUME OneToOne, NEW n \in Nat,
           NEW x \in State, NEW y \in State, Run(x, n, y),
           NEW u \in State, NEW v \in State, Run(u, n, v)
    PROVE  y = v <=> x = u
<1>1. PICK f \in [0..n -> State] :
          f[0] = x /\ f[n] = y /\ \A i \in 1..n : f[i] = Step[f[i - 1]]
  BY DEF Run
<1>2. PICK g \in [0..n -> State] :
          g[0] = u /\ g[n] = v /\ \A i \in 1..n : g[i] = Step[g[i - 1]]
  BY DEF Run
<1>3. ASSUME y = v
      PROVE  x = u
  <2>. DEFINE Same == {i \in 0..n : f[i] = g[i]}
  <2>1. n \in Same /\ Same \in SUBSET Nat
    BY <1>1, <1>2, <1>3
  <2>2. PICK m \in Same : \A i \in Same : m <= i
    <3>. HIDE DEF Same
    <3>. QED
      BY <2>1, LeastElement
  <2>3. ASSUME m > 0
        PROVE  FALSE
    <3>1. m \in 1..n /\ m - 1 \in 0..n
      BY <2>3
    <3>2. Step[f[m - 1]] = Step[g[m - 1]]
      BY <1>1, <1>2, <3>1
    <3>3. f[m - 1] = g[m - 1]
      BY <3>1, <3>2 DEF OneToOne
    <3>. QED
      BY <2>2, <3>1, <3>3
  <2>. QED
    BY <1>1, <1>2, <2>3
<1>4. ASSUME x = u
      PROVE  y = v
  <2>. DEFINE Differ == {i \in 0..n : f[i] # g[i]}
  <2>1. SUFFICES Differ = {}
    BY <1>1, <1>2
  <2>2. SUFFICES ASSUME Differ # {}
                 PROVE  FALSE
    OBVIOUS
  <2>3. PICK m \in Differ : \A i \in Differ : m <= i
    <3>1. Differ \in SUBSET Nat
      OBVIOUS
    <3>. HIDE DEF Differ
    <3>. QED
      BY <2>2, <3>1, LeastElement
  <2>4. m \in 1..n
    BY <1>1, <1>2, <1>4
  <2>5. f[m - 1] = g[m - 1]
    BY <2>3, <2>4
  <2>. QED
    BY <1>1, <1>2, <2>4, <2>5
<1>. QED
  BY <1>3, <1>4

(* The state that init starts its warm-up from.                               *)
Start(s) == [s |-> Replaced(s), p |-> 0]

(* Every object is as many calls away from its start as it has discarded      *)
(* outputs and been called.                                                   *)
Traced ==
    \A o \in made :
        /\ left[o] > 0 => calls[o] = 0
        /\ Run(Start(seed[o]), (Discards - left[o]) + calls[o], obj[o])

LEMMA StartIsState ==
    ASSUME NEW s \in Seeds
    PROVE  Start(s) \in State /\ Run(Start(s), 0, Start(s))
<1>1. Start(s) \in State
  BY ReplacedIsSeed DEF Start, State
<1>. DEFINE f == [i \in 0..0 |-> Start(s)]
<1>2. f \in [0..0 -> State] /\ f[0] = Start(s) /\ \A i \in 1..0 : f[i] = Step[f[i - 1]]
  BY <1>1
<1>. HIDE DEF f
<1>. QED
  BY <1>1, <1>2 DEF Run

(* Streams of different seeds never merge, and copies follow their original.  *)
THEOREM Apart == OneToOne => (Spec => []StreamsApart)
<1>. SUFFICES ASSUME OneToOne
              PROVE  Spec => []StreamsApart
  OBVIOUS
<1>1. Init => Traced
  BY DEF Init, Traced
<1>2. TypeOK /\ Traced /\ [Next]_vars => Traced'
  <2>. SUFFICES ASSUME TypeOK, Traced, [Next]_vars
                PROVE  Traced'
    OBVIOUS
  <2>1. ASSUME NEW o \in Objects, Construct(o)
        PROVE  Traced'
    <3>1. PICK s \in Seeds : /\ obj' = [obj EXCEPT ![o] = Start(s)]
                             /\ seed' = [seed EXCEPT ![o] = s]
      BY <2>1 DEF Construct, Start
    <3>2. calls[o] = 0 /\ left'[o] = Discards /\ calls' = calls
      BY <2>1 DEF Construct, TypeOK
    <3>3. Run(Start(seed'[o]), (Discards - left'[o]) + calls'[o], obj'[o])
      BY <3>1, <3>2, StartIsState DEF TypeOK
    <3>. QED
      BY <2>1, <3>1, <3>2, <3>3 DEF Construct, Traced, TypeOK
  <2>2. ASSUME NEW o \in Objects, Discard(o) \/ Call(o)
        PROVE  Traced'
    <3>1. /\ o \in made /\ made' = made /\ seed' = seed
          /\ obj' = [obj EXCEPT ![o] = Step[@]]
      BY <2>2 DEF Discard, Call
    <3>2. /\ (Discards - left'[o]) + calls'[o] = ((Discards - left[o]) + calls[o]) + 1
          /\ (Discards - left[o]) + calls[o] \in Nat
          /\ left'[o] > 0 => calls'[o] = 0
          /\ \A q \in made \ {o} : left'[q] = left[q] /\ calls'[q] = calls[q]
      <4>1. left[o] \in 0..Discards /\ calls[o] \in Nat /\ (left[o] > 0 => calls[o] = 0)
        BY <3>1 DEF TypeOK, Traced
      <4>2. CASE Discard(o)
        <5>1. left[o] > 0 /\ left'[o] = left[o] - 1 /\ calls' = calls
          BY <4>2 DEF Discard, TypeOK
        <5>2. \A q \in made \ {o} : left'[q] = left[q]
          BY <4>2 DEF Discard, TypeOK
        <5>. QED
          BY <4>1, <5>1, <5>2
      <4>3. CASE Call(o)
        <5>1. left[o] = 0 /\ left' = left /\ calls'[o] = calls[o] + 1
          BY <4>3 DEF Call, TypeOK
        <5>2. \A q \in made \ {o} : calls'[q] = calls[q]
          BY <4>3 DEF Call, TypeOK
        <5>. QED
          BY <4>1, <5>1, <5>2
      <4>. QED
        BY <2>2, <4>2, <4>3
    <3>3. Run(Start(seed[o]), ((Discards - left[o]) + calls[o]) + 1, Step[obj[o]])
      BY <3>1, <3>2, RunOne, StartIsState DEF Traced, TypeOK
    <3>. QED
      BY <3>1, <3>2, <3>3 DEF Traced, TypeOK
  <2>3. ASSUME NEW o \in Objects, Destroy(o)
        PROVE  Traced'
    BY <2>3 DEF Destroy, Traced, TypeOK
  <2>4. ASSUME NEW o \in Objects, NEW from \in Objects, Copy(o, from)
        PROVE  Traced'
    <3>1. left[o] = 0 /\ left[from] = 0 /\ from \in made /\ left' = left
      BY <2>4 DEF Copy, TypeOK
    <3>2. /\ seed'[o] = seed[from] /\ calls'[o] = calls[from] /\ obj'[o] = obj[from]
          /\ made' = made \cup {o}
          /\ \A q \in made \ {o} :
                seed'[q] = seed[q] /\ calls'[q] = calls[q] /\ obj'[q] = obj[q]
      BY <2>4 DEF Copy, Copied, TypeOK
    <3>. QED
      BY <3>1, <3>2 DEF Traced
  <2>5. CASE UNCHANGED vars
    BY <2>5 DEF vars, Traced
  <2>. QED
    BY <2>1, <2>2, <2>3, <2>4, <2>5 DEF Next
<1>3. TypeOK /\ Traced => StreamsApart
  <2>. SUFFICES ASSUME TypeOK, Traced, NEW o \in Live, NEW q \in Live, calls[o] = calls[q]
                PROVE  obj[o] = obj[q] <=> Replaced(seed[o]) = Replaced(seed[q])
    BY DEF StreamsApart
  <2>1. /\ seed[o] \in Seeds /\ seed[q] \in Seeds
        /\ obj[o] \in State /\ obj[q] \in State
        /\ Discards + calls[o] \in Nat
    BY DEF TypeOK
  <2>2. /\ Run(Start(seed[o]), Discards + calls[o], obj[o])
        /\ Run(Start(seed[q]), Discards + calls[o], obj[q])
    BY <2>1 DEF Traced
  <2>3. obj[o] = obj[q] <=> Start(seed[o]) = Start(seed[q])
    BY <2>1, <2>2, RunsApart, StartIsState
  <2>. QED
    BY <2>3 DEF Start
<1>. QED
  BY <1>1, <1>2, <1>3, TypeCorrect, PTL DEF Spec

-----------------------------------------------------------------------------
(* Words                                                                      *)

HIDE DiscardsAssumption
HIDE SeedsAssumption DEF Live
USE WAssumption

(* Words of twice the width.                                                  *)
Wide == INSTANCE Words WITH W <- 2 * W

LEMMA OperatorsType ==
    ASSUME NEW x \in Word, NEW y \in Word, NEW k \in Nat
    PROVE  Xor(x, y) \in Word /\ Shl(x, k) \in Word /\ Rotl(x, k) \in Word
<1>1. Xor(x, y) \in Word
  BY DEF Xor, SymDiff, Word
<1>2. Shl(x, k) \in Word
  BY DEF Shl, Word
<1>3. Rotl(x, k) \in Word
  <2>. SUFFICES ASSUME NEW i \in x
                PROVE  (i + k) % W \in Bits
    BY DEF Rotl, Word
  <2>1. i + k \in Nat
    BY DEF Word, Bits
  <2>. QED
    BY <2>1 DEF Bits
<1>. QED
  BY <1>1, <1>2, <1>3

(* Exclusive or with a word is undone by doing it again.                      *)
LEMMA XorCancels ==
    ASSUME NEW x, NEW y, NEW z, Xor(x, z) = Xor(y, z)
    PROVE  x = y
  BY DEF Xor, SymDiff

LEMMA XorBit == \A x, y, i : i \in Xor(x, y) <=> ~(i \in x <=> i \in y)
  BY DEF Xor, SymDiff

LEMMA XorCommutes == \A x, y : Xor(x, y) = Xor(y, x)
  BY DEF Xor, SymDiff

LEMMA RotlInjective ==
    ASSUME NEW x \in Word, NEW y \in Word, NEW k \in Bits, Rotl(x, k) = Rotl(y, k)
    PROVE  x = y
<1>1. \A i \in Bits : (i + k) % W = IF i + k < W THEN i + k ELSE i + k - W
  BY DEF Bits
<1>. DEFINE To(i) == (i + k) % W
<1>2. \A i, j \in Bits : To(i) = To(j) => i = j
  BY <1>1 DEF Bits
<1>3. Rotl(x, k) = {To(i) : i \in x} /\ Rotl(y, k) = {To(i) : i \in y}
  BY DEF Rotl
<1>4. x \subseteq Bits /\ y \subseteq Bits
  BY DEF Word
<1>. HIDE DEF To
<1>5. ASSUME NEW u \in SUBSET Bits, NEW v \in SUBSET Bits,
             {To(i) : i \in u} = {To(i) : i \in v}
      PROVE  u \subseteq v
  <2>. SUFFICES ASSUME NEW i \in u
                PROVE  i \in v
    OBVIOUS
  <2>1. PICK j \in v : To(i) = To(j)
    BY <1>5
  <2>. QED
    BY <1>2, <2>1
<1>. QED
  BY <1>3, <1>4, <1>5, ZenonT(30)

(* A word that is equal to itself shifted is zero: its least bit would be     *)
(* lower.                                                                     *)
LEMMA ShlFixpoint ==
    ASSUME NEW x \in Word, NEW k \in Nat \ {0}, x = Shl(x, k)
    PROVE  x = {}
<1>1. SUFFICES ASSUME x # {}
               PROVE  FALSE
  OBVIOUS
<1>2. x \in SUBSET Nat
  BY DEF Word, Bits
<1>3. PICK m \in x : \A n \in x : m <= n
  BY <1>1, <1>2, LeastElement
<1>4. m >= k /\ m - k \in x
  BY DEF Shl
<1>. QED
  BY <1>2, <1>3, <1>4

(* x ^ (x << k) determines x.                                                 *)
LEMMA XorShlInjective ==
    ASSUME NEW x \in Word, NEW y \in Word, NEW k \in Nat \ {0},
           Xor(x, Shl(x, k)) = Xor(y, Shl(y, k))
    PROVE  x = y
<1>1. Xor(x, y) = Shl(Xor(x, y), k)
  BY DEF Xor, SymDiff, Shl, Word
<1>2. Xor(x, y) = {}
  BY <1>1, OperatorsType, ShlFixpoint
<1>. QED
  BY <1>2 DEF Xor, SymDiff

-----------------------------------------------------------------------------
(* The updates                                                                *)

LEMMA Xoshiro4Injective ==
    ASSUME NEW k \in Nat \ {0}, NEW r \in Bits,
           NEW s \in [0..3 -> Word], NEW u \in [0..3 -> Word],
           Xoshiro4(s, k, r) = Xoshiro4(u, k, r)
    PROVE  s = u
<1>1. /\ Xor(s[0], Xor(s[3], s[1])) = Xor(u[0], Xor(u[3], u[1]))
      /\ Xor(s[1], Xor(s[2], s[0])) = Xor(u[1], Xor(u[2], u[0]))
      /\ Xor(Xor(s[2], s[0]), Shl(s[1], k)) = Xor(Xor(u[2], u[0]), Shl(u[1], k))
      /\ Rotl(Xor(s[3], s[1]), r) = Rotl(Xor(u[3], u[1]), r)
  BY DEF Xoshiro4
<1>2. Xor(s[3], s[1]) = Xor(u[3], u[1])
  BY <1>1, OperatorsType, RotlInjective
<1>3. s[0] = u[0]
  BY <1>1, <1>2, XorCancels
<1>4. Xor(s[1], Shl(s[1], k)) = Xor(u[1], Shl(u[1], k))
  <2>. DEFINE X == Xor(s[2], s[0])
              Y == Xor(u[2], u[0])
  <2>. HIDE DEF X, Y
  <2>1. Xor(s[1], X) = Xor(u[1], Y) /\ Xor(X, Shl(s[1], k)) = Xor(Y, Shl(u[1], k))
    BY <1>1 DEF X, Y
  <2>. QED
    BY <2>1 DEF Xor, SymDiff
<1>5. s[1] = u[1]
  BY <1>4, XorShlInjective
<1>6. s[3] = u[3]
  BY <1>2, <1>5, XorCancels
<1>7. s[2] = u[2]
  BY <1>1, <1>3, <1>5, XorCancels
<1>. QED
  BY <1>3, <1>5, <1>6, <1>7

LEMMA Xoshiro8Injective ==
    ASSUME NEW k \in Nat, NEW r \in Bits,
           NEW s \in [0..7 -> Word], NEW u \in [0..7 -> Word],
           Xoshiro8(s, k, r) = Xoshiro8(u, k, r)
    PROVE  s = u
<1>1. /\ Xor(s[0], s[6]) = Xor(u[0], u[6])
      /\ Xor(s[1], Xor(s[2], s[0])) = Xor(u[1], Xor(u[2], u[0]))
      /\ Xor(s[2], s[0]) = Xor(u[2], u[0])
      /\ Xor(s[3], s[4]) = Xor(u[3], u[4])
      /\ Xor(s[4], Xor(s[5], s[1])) = Xor(u[4], Xor(u[5], u[1]))
      /\ Xor(s[5], s[1]) = Xor(u[5], u[1])
      /\ Xor(Xor(s[6], Xor(s[7], s[3])), Shl(s[1], k))
            = Xor(Xor(u[6], Xor(u[7], u[3])), Shl(u[1], k))
      /\ Rotl(Xor(s[7], s[3]), r) = Rotl(Xor(u[7], u[3]), r)
  BY DEF Xoshiro8
<1>2. s[1] = u[1] /\ s[4] = u[4]
  BY <1>1, XorCancels
<1>3. s[5] = u[5] /\ s[3] = u[3]
  BY <1>1, <1>2, XorCancels
<1>4. Xor(s[7], s[3]) = Xor(u[7], u[3])
  BY <1>1, OperatorsType, RotlInjective, SMTT(30)
<1>5. Xor(s[6], Xor(s[7], s[3])) = Xor(u[6], Xor(u[7], u[3]))
  BY <1>1, <1>2, XorCancels
<1>6. s[7] = u[7] /\ s[6] = u[6]
  BY <1>3, <1>4, <1>5, XorCancels
<1>7. s[0] = u[0]
  BY <1>1, <1>6, XorCancels
<1>8. s[2] = u[2]
  BY <1>1, <1>7, XorCancels
<1>. QED
  BY <1>2, <1>3, <1>6, <1>7, <1>8

(* What becomes of the two words of a xoroshiro PRNG determines them.         *)
LEMMA PairInjective ==
    ASSUME NEW a \in Bits, NEW b \in Nat, NEW c \in Bits,
           NEW x \in Word, NEW y \in Word, NEW u \in Word, NEW v \in Word,
           Low(x, y, a, b) = Low(u, v, a, b), High(x, y, c) = High(u, v, c)
    PROVE  x = u /\ y = v
<1>1. Xor(y, x) = Xor(v, u)
  BY OperatorsType, RotlInjective DEF High
<1>2. Rotl(x, a) = Rotl(u, a)
  BY <1>1, XorCancels DEF Low
<1>3. x = u
  BY <1>2, RotlInjective
<1>. QED
  BY <1>1, <1>3, XorCancels

-----------------------------------------------------------------------------
(* No linear PRNG ever reaches the state of all zeros, and streams from       *)
(* different seeds never merge.                                               *)

(* The states of a PRNG of n words, which has no position.                    *)
WordsOnly(n) ==
    /\ Seeds = [0..(n - 1) -> Word] /\ Positions = {0}
    /\ Zero = [i \in 0..(n - 1) |-> {}]
    /\ Iota # Zero

LEMMA ZeroOperators ==
    ASSUME NEW k \in Nat
    PROVE  Xor({}, {}) = {} /\ Shl({}, k) = {} /\ Rotl({}, k) = {} /\ {} \in Word
  BY DEF Xor, SymDiff, Shl, Rotl, Word

LEMMA UpdateIsOneToOne ==
    ASSUME NEW F \in [Seeds -> Seeds], \A s, u \in Seeds : F[s] = F[u] => s = u,
           Step = [o \in State |-> [o EXCEPT !.s = F[@]]]
    PROVE  OneToOne
<1>1. Step \in [State -> State]
  BY DEF State
<1>2. ASSUME NEW x \in State, NEW y \in State, Step[x] = Step[y]
      PROVE  x = y
  <2>1. F[x.s] = F[y.s] /\ x.p = y.p
    BY <1>2 DEF State
  <2>2. x.s = y.s
    BY <2>1 DEF State
  <2>. QED
    BY <2>1, <2>2 DEF State
<1>. QED
  BY <1>1, <1>2 DEF OneToOne

LEMMA UpdatePermutes ==
    ASSUME NEW F \in [Seeds -> Seeds], \A s, u \in Seeds : F[s] = F[u] => s = u,
           F[Zero] = Zero, Iota # Zero,
           Step = [o \in State |-> [o EXCEPT !.s = F[@]]]
    PROVE  Permutes
<1>1. OneToOne
  BY UpdateIsOneToOne
<1>2. ASSUME NEW x \in State, Step[x].s = Zero
      PROVE  x.s = Zero
  <2>1. F[x.s] = F[Zero] /\ x.s \in Seeds
    BY <1>2 DEF State
  <2>. QED
    BY <2>1
<1>. QED
  BY <1>1, <1>2 DEF Permutes

(* xoshiro128 and xoshiro256, for every shift but 0 and every rotation.        *)
THEOREM Xoshiro4Permutes ==
    ASSUME NEW k \in Nat \ {0}, NEW r \in Bits, WordsOnly(4),
           Step = [o \in State |-> [o EXCEPT !.s = Xoshiro4(@, k, r)]]
    PROVE  Permutes
<1>. DEFINE F == [s \in Seeds |-> Xoshiro4(s, k, r)]
<1>1. ASSUME NEW s \in Seeds
      PROVE  Xoshiro4(s, k, r) \in Seeds
  <2>1. s \in [0..3 -> Word]
    BY DEF WordsOnly
  <2>2. /\ Xor(s[0], Xor(s[3], s[1])) \in Word
        /\ Xor(s[1], Xor(s[2], s[0])) \in Word
        /\ Xor(Xor(s[2], s[0]), Shl(s[1], k)) \in Word
        /\ Rotl(Xor(s[3], s[1]), r) \in Word
    BY <2>1, OperatorsType DEF Bits
  <2>3. Xoshiro4(s, k, r) \in [0..3 -> Word]
    BY <2>1, <2>2 DEF Xoshiro4
  <2>. QED
    BY <2>3 DEF WordsOnly
<1>2. ASSUME NEW s \in Seeds, NEW u \in Seeds, F[s] = F[u]
      PROVE  s = u
  BY <1>2, Xoshiro4Injective DEF WordsOnly
<1>3. Xoshiro4(Zero, k, r) = Zero
  <2>1. Zero = [i \in 0..3 |-> {}]
    BY DEF WordsOnly
  <2>2. Zero[0] = {} /\ Zero[1] = {} /\ Zero[2] = {} /\ Zero[3] = {}
    BY <2>1
  <2>3. /\ Xor({}, Xor({}, {})) = {}
            /\ Xor(Xor({}, {}), Shl({}, k)) = {}
            /\ Rotl(Xor({}, {}), r) = {}
    <3>1. Bits \subseteq Nat
      BY DEF Bits
    <3>. QED
      BY <3>1, ZeroOperators
  <2>4. Xoshiro4(Zero, k, r) = [Zero EXCEPT ![0] = {}, ![1] = {}, ![2] = {}, ![3] = {}]
    BY <2>2, <2>3 DEF Xoshiro4
  <2>. QED
    BY <2>1, <2>4
<1>4. F \in [Seeds -> Seeds] /\ F[Zero] = Zero
  BY <1>1, <1>3, SeedsAssumption
<1>5. Step = [o \in State |-> [o EXCEPT !.s = F[@]]]
  BY DEF State
<1>. HIDE DEF F
<1>. QED
  BY <1>2, <1>4, <1>5, UpdatePermutes DEF WordsOnly

(* xoshiro512, for every shift and every rotation.                            *)
THEOREM Xoshiro8Permutes ==
    ASSUME NEW k \in Nat, NEW r \in Bits, WordsOnly(8),
           Step = [o \in State |-> [o EXCEPT !.s = Xoshiro8(@, k, r)]]
    PROVE  Permutes
<1>. DEFINE F == [s \in Seeds |-> Xoshiro8(s, k, r)]
<1>1. ASSUME NEW s \in Seeds
      PROVE  Xoshiro8(s, k, r) \in Seeds
  <2>1. s \in [0..7 -> Word]
    BY DEF WordsOnly
  <2>2. /\ Xor(s[0], s[6]) \in Word
        /\ Xor(s[1], Xor(s[2], s[0])) \in Word
        /\ Xor(s[2], s[0]) \in Word
        /\ Xor(s[3], s[4]) \in Word
        /\ Xor(s[4], Xor(s[5], s[1])) \in Word
        /\ Xor(s[5], s[1]) \in Word
        /\ Xor(Xor(s[6], Xor(s[7], s[3])), Shl(s[1], k)) \in Word
        /\ Rotl(Xor(s[7], s[3]), r) \in Word
    BY <2>1, OperatorsType DEF Bits
  <2>3. Xoshiro8(s, k, r) \in [0..7 -> Word]
    BY <2>1, <2>2 DEF Xoshiro8
  <2>. QED
    BY <2>3 DEF WordsOnly
<1>2. ASSUME NEW s \in Seeds, NEW u \in Seeds, F[s] = F[u]
      PROVE  s = u
  BY <1>2, Xoshiro8Injective DEF WordsOnly
<1>3. Xoshiro8(Zero, k, r) = Zero
  <2>1. Zero = [i \in 0..7 |-> {}]
    BY DEF WordsOnly
  <2>2. /\ Zero[0] = {} /\ Zero[1] = {} /\ Zero[2] = {} /\ Zero[3] = {}
           /\ Zero[4] = {} /\ Zero[5] = {} /\ Zero[6] = {} /\ Zero[7] = {}
    BY <2>1
  <2>3. /\ Xor({}, {}) = {}
            /\ Xor({}, Xor({}, {})) = {}
            /\ Xor(Xor({}, Xor({}, {})), Shl({}, k)) = {}
            /\ Rotl(Xor({}, {}), r) = {}
    <3>1. Bits \subseteq Nat
      BY DEF Bits
    <3>. QED
      BY <3>1, ZeroOperators
  <2>4. Xoshiro8(Zero, k, r) = [Zero EXCEPT ![0] = {}, ![1] = {}, ![2] = {}, ![3] = {}, ![4] = {}, ![5] = {}, ![6] = {}, ![7] = {}]
    BY <2>2, <2>3 DEF Xoshiro8
  <2>. QED
    BY <2>1, <2>4
<1>4. F \in [Seeds -> Seeds] /\ F[Zero] = Zero
  BY <1>1, <1>3, SeedsAssumption
<1>5. Step = [o \in State |-> [o EXCEPT !.s = F[@]]]
  BY DEF State
<1>. HIDE DEF F
<1>. QED
  BY <1>2, <1>4, <1>5, UpdatePermutes DEF WordsOnly

LEMMA PairType ==
    ASSUME NEW a \in Bits, NEW b \in Nat, NEW c \in Bits, NEW x \in Word, NEW y \in Word
    PROVE  Low(x, y, a, b) \in Word /\ High(x, y, c) \in Word
<1>1. a \in Nat /\ c \in Nat
  BY DEF Bits
<1>. QED
  BY <1>1, OperatorsType DEF Low, High

LEMMA PairOfZero ==
    ASSUME NEW a \in Bits, NEW b \in Nat, NEW c \in Bits
    PROVE  Low({}, {}, a, b) = {} /\ High({}, {}, c) = {}
<1>1. a \in Nat /\ c \in Nat
  BY DEF Bits
<1>. QED
  BY <1>1, ZeroOperators DEF Low, High

(* xoroshiro64, xoroshiro128 and its aox, for every shift and every rotation. *)
THEOREM XoroshiroPermutes ==
    ASSUME NEW a \in Bits, NEW b \in Nat, NEW c \in Bits, WordsOnly(2),
           Step = [o \in State |-> [o EXCEPT !.s = Xoroshiro(@, a, b, c)]]
    PROVE  Permutes
<1>. DEFINE F == [s \in Seeds |-> Xoroshiro(s, a, b, c)]
<1>1. ASSUME NEW s \in Seeds
      PROVE  Xoroshiro(s, a, b, c) \in Seeds
  <2>1. s \in [0..1 -> Word]
    BY DEF WordsOnly
  <2>2. /\ Low(s[0], s[1], a, b) \in Word
        /\ High(s[0], s[1], c) \in Word
    BY <2>1, PairType
  <2>3. Xoroshiro(s, a, b, c) \in [0..1 -> Word]
    BY <2>1, <2>2 DEF Xoroshiro
  <2>. QED
    BY <2>3 DEF WordsOnly
<1>2. ASSUME NEW s \in Seeds, NEW u \in Seeds, F[s] = F[u]
      PROVE  s = u
  <2>1. s \in [0..1 -> Word] /\ u \in [0..1 -> Word]
    BY DEF WordsOnly
  <2>2. /\ Low(s[0], s[1], a, b) = Low(u[0], u[1], a, b)
        /\ High(s[0], s[1], c) = High(u[0], u[1], c)
    BY <1>2, <2>1 DEF Xoroshiro
  <2>3. s[0] = u[0] /\ s[1] = u[1]
    BY <2>1, <2>2, PairInjective
  <2>. QED
    BY <2>1, <2>3
<1>3. Xoroshiro(Zero, a, b, c) = Zero
  <2>1. Zero = [i \in 0..1 |-> {}]
    BY DEF WordsOnly
  <2>2. Zero[0] = {} /\ Zero[1] = {}
    BY <2>1
  <2>3. /\ Low({}, {}, a, b) = {}
            /\ High({}, {}, c) = {}
    BY PairOfZero
  <2>4. Xoroshiro(Zero, a, b, c) = [Zero EXCEPT ![0] = {}, ![1] = {}]
    BY <2>2, <2>3 DEF Xoroshiro
  <2>. QED
    BY <2>1, <2>4
<1>4. F \in [Seeds -> Seeds] /\ F[Zero] = Zero
  BY <1>1, <1>3, SeedsAssumption
<1>5. Step = [o \in State |-> [o EXCEPT !.s = F[@]]]
  BY DEF State
<1>. HIDE DEF F
<1>. QED
  BY <1>2, <1>4, <1>5, UpdatePermutes DEF WordsOnly

(* The life cycle of every PRNG of fixed words: never zero, streams apart.    *)
Safe == Spec => [](NeverZero /\ StreamsApart)

LEMMA PermutesSafe ==
    ASSUME Permutes
    PROVE  Safe
<1>1. OneToOne
  BY DEF Permutes
<1>2. Spec => []NeverZero
  BY NonZero
<1>3. Spec => []StreamsApart
  BY <1>1, Apart
<1>. QED
  BY <1>2, <1>3, PTL DEF Safe

(* No object of xoshiro128 or xoshiro256, with words of any width, any shift  *)
(* but 0 and any rotation, is ever all zeros, and streams never merge.        *)
THEOREM Xoshiro4Safe ==
    ASSUME NEW k \in Nat \ {0}, NEW r \in Bits, WordsOnly(4),
           Step = [o \in State |-> [o EXCEPT !.s = Xoshiro4(@, k, r)]]
    PROVE  Spec => [](NeverZero /\ StreamsApart)
  BY Xoshiro4Permutes, PermutesSafe DEF Safe

(* The same of xoshiro512.                                                    *)
THEOREM Xoshiro8Safe ==
    ASSUME NEW k \in Nat, NEW r \in Bits, WordsOnly(8),
           Step = [o \in State |-> [o EXCEPT !.s = Xoshiro8(@, k, r)]]
    PROVE  Spec => [](NeverZero /\ StreamsApart)
  BY Xoshiro8Permutes, PermutesSafe DEF Safe

(* The same of xoroshiro64, xoroshiro128 and xoroshiro128aox.                 *)
THEOREM XoroshiroSafe ==
    ASSUME NEW a \in Bits, NEW b \in Nat, NEW c \in Bits, WordsOnly(2),
           Step = [o \in State |-> [o EXCEPT !.s = Xoroshiro(@, a, b, c)]]
    PROVE  Spec => [](NeverZero /\ StreamsApart)
  BY XoroshiroPermutes, PermutesSafe DEF Safe

-----------------------------------------------------------------------------
(* Addition                                                                   *)

LEMMA ArithmeticType ==
    /\ \A x, y \in Word : Xor(x, y) \in Word
    /\ \A x \in Word, r \in Bits : Rotl(x, r) \in Word
    /\ \A x, k : Shl(x, k) \in Word /\ Shr(x, k) \in Word
    /\ \A x, y : Add(x, y) \in Word /\ Sub(x, y) \in Word
    /\ \A x : Not(x) \in Word
    /\ One \in Word
<1>1. \A x, y \in Word : Xor(x, y) \in Word
  BY DEF Xor, SymDiff, Word
<1>2. \A x \in Word, r \in Bits : Rotl(x, r) \in Word
  BY OperatorsType DEF Bits
<1>3. \A x, k : Shl(x, k) \in Word /\ Shr(x, k) \in Word
  BY DEF Shl, Shr, Word
<1>4. \A x, y : Add(x, y) \in Word /\ Sub(x, y) \in Word
  BY DEF Add, Sub, Not, Word
<1>5. \A x : Not(x) \in Word
  BY DEF Not, Word
<1>6. One \in Word
  BY DEF One, Word, Bits
<1>. QED
  BY <1>1, <1>2, <1>3, <1>4, <1>5, <1>6

LEMMA BitsBelow ==
    ASSUME NEW d \in Bits, NEW i \in Nat, i < d
    PROVE  i \in Bits
  BY DEF Bits

LEMMA MirroredBit ==
    ASSUME NEW i \in Bits
    PROVE  (W - 1) - i \in Bits /\ (W - 1) - ((W - 1) - i) = i
  BY DEF Bits

(* Two words that have the same bits below d.                                 *)
Below(d, x, y) == \A i \in Nat : i < d => (i \in x <=> i \in y)

(* The first bit in which two words differ.                                   *)
LEMMA FirstDifference ==
    ASSUME NEW x \in Word, NEW y \in Word, x # y
    PROVE  \E d \in Bits : Below(d, x, y) /\ ~(d \in x <=> d \in y)
<1>. DEFINE D == {i \in Bits : ~(i \in x <=> i \in y)}
<1>1. D \in SUBSET Nat /\ D # {}
  <2>1. \E i \in Bits : ~(i \in x <=> i \in y)
    BY DEF Word
  <2>. QED
    BY <2>1 DEF Bits
<1>2. PICK d \in D : \A i \in D : d <= i
  <2>. HIDE DEF D
  <2>. QED
    BY <1>1, LeastElement
<1>3. Below(d, x, y)
  <2>. SUFFICES ASSUME NEW i \in Nat, i < d
                PROVE  i \in x <=> i \in y
    BY DEF Below
  <2>1. d \in Bits
    BY <1>2
  <2>1a. i \in Bits
    <3>. HIDE DEF D
    <3>. QED
      BY <2>1, BitsBelow
  <2>2. i \notin D
    <3>1. d \in Nat
      BY <1>1
    <3>. HIDE DEF D
    <3>. QED
      BY <1>2, <3>1
  <2>. QED
    BY <2>1a, <2>2
<1>. QED
  BY <1>2, <1>3

(* The last bit in which two words differ.                                    *)
LEMMA LastDifference ==
    ASSUME NEW x \in Word, NEW y \in Word, x # y
    PROVE  \E d \in Bits : /\ ~(d \in x <=> d \in y)
                           /\ \A i \in Bits : i > d => (i \in x <=> i \in y)
<1>. DEFINE D == {n \in Bits : ~((W - 1) - n \in x <=> (W - 1) - n \in y)}
<1>1. D \in SUBSET Nat /\ D # {}
  <2>1. PICK i \in Bits : ~(i \in x <=> i \in y)
    BY DEF Word
  <2>2. (W - 1) - i \in Bits /\ (W - 1) - ((W - 1) - i) = i
    BY MirroredBit
  <2>3. (W - 1) - i \in D
    BY <2>1, <2>2
  <2>4. D \subseteq Bits /\ Bits \subseteq Nat
    BY DEF Bits
  <2>. QED
    BY <2>3, <2>4
<1>2. PICK n \in D : \A i \in D : n <= i
  <2>. HIDE DEF D
  <2>. QED
    BY <1>1, LeastElement
<1>. DEFINE d == (W - 1) - n
<1>3. n \in Bits /\ d \in Bits /\ ~(d \in x <=> d \in y)
  BY MirroredBit
<1>4. ASSUME NEW i \in Bits, i > d
      PROVE  i \in x <=> i \in y
  <2>1. (W - 1) - i \in Bits /\ (W - 1) - ((W - 1) - i) = i
    BY MirroredBit
  <2>2. (W - 1) - i < n
    <3>1. (W - 1) - ((W - 1) - n) = n
      BY <1>3, MirroredBit
    <3>. HIDE DEF D
    <3>. QED
      BY <1>3, <1>4, <3>1 DEF Bits
  <2>3. (W - 1) - i \notin D
    <3>1. n \in Nat
      BY <1>3 DEF Bits
    <3>. HIDE DEF D
    <3>. QED
      BY <1>2, <2>1, <2>2, <3>1 DEF Bits
  <2>. QED
    BY <2>1, <2>3
<1>. HIDE DEF d
<1>. QED
  BY <1>3, <1>4

(* A carry depends on the bits below it.                                      *)
LEMMA CarryDepends ==
    ASSUME NEW x \in SUBSET Nat, NEW y \in SUBSET Nat, NEW u \in SUBSET Nat, NEW v \in SUBSET Nat,
           NEW d \in Nat, Below(d, x, u), Below(d, y, v)
    PROVE  CarryInto(d, x, y) <=> CarryInto(d, u, v)
<1>1. ASSUME NEW a \in SUBSET Nat, NEW b \in SUBSET Nat, NEW e \in SUBSET Nat, NEW f \in SUBSET Nat,
             Below(d, a, e), Below(d, b, f), CarryInto(d, a, b)
      PROVE  CarryInto(d, e, f)
  <2>1. PICK j \in a \cap b : j < d /\ (j + 1)..(d - 1) \subseteq a \cup b
    BY <1>1 DEF CarryInto
  <2>2. j \in Nat
    OBVIOUS
  <2>3. j \in e \cap f
    BY <1>1, <2>1, <2>2 DEF Below
  <2>4. ASSUME NEW i \in (j + 1)..(d - 1)
        PROVE  i \in e \cup f
    <3>1. i \in Nat /\ i < d /\ i \in a \cup b
      BY <2>1, <2>2
    <3>. QED
      BY <1>1, <3>1 DEF Below
  <2>. QED
    BY <2>1, <2>3, <2>4 DEF CarryInto
<1>2. Below(d, u, x) /\ Below(d, v, y)
  BY DEF Below
<1>. QED
  BY <1>1, <1>2

LEMMA WordsAreSets == Bits \subseteq Nat /\ Word \subseteq SUBSET Nat
  BY DEF Bits, Word

LEMMA AddBit ==
    ASSUME NEW x \in Word, NEW y \in Word, NEW i \in Bits
    PROVE  i \in Add(x, y) <=> ((i \in x <=> i \in y) <=> CarryInto(i, x, y))
  BY DEF Add

LEMMA AddCommutes == \A x, y \in Word : Add(x, y) = Add(y, x)
  BY DEF Add, CarryInto

(* Sums that agree at bit d, of words that agree below it.                    *)
LEMMA AddAt ==
    ASSUME NEW x \in Word, NEW y \in Word, NEW u \in Word, NEW v \in Word, NEW d \in Bits,
           Below(d, x, u), Below(d, y, v), d \in y <=> d \in v, Add(x, y) = Add(u, v)
    PROVE  d \in x <=> d \in u
<1>1. CarryInto(d, x, y) <=> CarryInto(d, u, v)
  BY CarryDepends, WordsAreSets
<1>2. /\ d \in Add(x, y) <=> ((d \in x <=> d \in y) <=> CarryInto(d, x, y))
      /\ d \in Add(u, v) <=> ((d \in u <=> d \in v) <=> CarryInto(d, u, v))
  BY AddBit
<1>3. d \in Add(x, y) <=> d \in Add(u, v)
  OBVIOUS
<1>. QED
  BY <1>1, <1>2, <1>3

LEMMA AddCancels ==
    ASSUME NEW x \in Word, NEW y \in Word, NEW z \in Word, Add(x, z) = Add(y, z)
    PROVE  x = y
<1>. SUFFICES ASSUME x # y
              PROVE  FALSE
  OBVIOUS
<1>1. PICK d \in Bits : Below(d, x, y) /\ ~(d \in x <=> d \in y)
  BY FirstDifference
<1>2. Below(d, z, z)
  BY DEF Below
<1>. QED
  BY <1>1, <1>2, AddAt

LEMMA AddCancelsLeft ==
    ASSUME NEW x \in Word, NEW y \in Word, NEW z \in Word, Add(z, x) = Add(z, y)
    PROVE  x = y
<1>1. Add(x, z) = Add(y, z)
  BY AddCommutes
<1>. QED
  BY <1>1, AddCancels

LEMMA NotCancels ==
    ASSUME NEW x \in Word, NEW y \in Word, Not(x) = Not(y)
    PROVE  x = y
  BY DEF Not, Word

LEMMA SubCancels ==
    ASSUME NEW x \in Word, NEW y \in Word, NEW z \in Word, Sub(x, z) = Sub(y, z)
    PROVE  x = y
<1>1. Add(Not(x), z) = Add(Not(y), z)
  BY NotCancels, ArithmeticType DEF Sub
<1>2. Not(x) = Not(y)
  BY <1>1, ArithmeticType, AddCancels
<1>. QED
  BY <1>2, NotCancels

LEMMA SubCancelsLeft ==
    ASSUME NEW x \in Word, NEW y \in Word, NEW z \in Word, Sub(z, x) = Sub(z, y)
    PROVE  x = y
<1>1. Add(Not(z), x) = Add(Not(z), y)
  BY NotCancels, ArithmeticType DEF Sub
<1>. QED
  BY <1>1, ArithmeticType, AddCancelsLeft

(* x + (x << k)                                                               *)
LEMMA AddShlInjective ==
    ASSUME NEW x \in Word, NEW y \in Word, NEW k \in Nat \ {0},
           Add(x, Shl(x, k)) = Add(y, Shl(y, k))
    PROVE  x = y
<1>. SUFFICES ASSUME x # y
              PROVE  FALSE
  OBVIOUS
<1>1. PICK d \in Bits : Below(d, x, y) /\ ~(d \in x <=> d \in y)
  BY FirstDifference
<1>2. d \in Nat
  BY DEF Bits
<1>3. \A i \in Nat : i <= d => (i \in Shl(x, k) <=> i \in Shl(y, k))
  BY <1>1, <1>2 DEF Shl, Below
<1>4. Below(d, Shl(x, k), Shl(y, k)) /\ (d \in Shl(x, k) <=> d \in Shl(y, k))
  BY <1>2, <1>3 DEF Below
<1>. QED
  BY <1>1, <1>4, AddAt, OperatorsType

(* x ^ (x >> k)                                                               *)
LEMMA XorShrInjective ==
    ASSUME NEW x \in Word, NEW y \in Word, NEW k \in Nat \ {0},
           Xor(x, Shr(x, k)) = Xor(y, Shr(y, k))
    PROVE  x = y
<1>. SUFFICES ASSUME x # y
              PROVE  FALSE
  OBVIOUS
<1>1. PICK d \in Bits : /\ ~(d \in x <=> d \in y)
                        /\ \A i \in Bits : i > d => (i \in x <=> i \in y)
  BY LastDifference
<1>2. d + k \in x <=> d + k \in y
  <2>1. d + k > d
    BY DEF Bits
  <2>. QED
    BY <1>1, <2>1 DEF Word
<1>3. d \in Shr(x, k) <=> d \in Shr(y, k)
  BY <1>2 DEF Shr
<1>4. \A a, b : d \in Xor(a, b) <=> ~(d \in a <=> d \in b)
  BY DEF Xor, SymDiff
<1>. QED
  BY <1>1, <1>3, <1>4

-----------------------------------------------------------------------------
(* Multiplication                                                             *)

(* Mul adds x, shifted to the positions of the bits of y, one after the other.*)
LEMMA MulSums ==
    ASSUME NEW x \in Word, NEW y \in Word
    PROVE  \E f \in [0..W -> Word] :
              /\ f[0] = {}
              /\ \A n \in 1..W : f[n] = IF n - 1 \in y THEN Add(Shl(x, n - 1), f[n - 1]) ELSE f[n - 1]
              /\ Mul(x, y) = f[W]
<1>. DEFINE Extra(n, z) == IF n - 1 \in y THEN Add(Shl(x, n - 1), z) ELSE z
            Sums(T, f) == f = [n \in 0..T |-> IF n = 0 THEN {} ELSE Extra(n, f[n - 1])]
            sum[n \in 0..W] == IF n = 0 THEN {}
                               ELSE IF n - 1 \in y THEN Add(Shl(x, n - 1), sum[n - 1]) ELSE sum[n - 1]
<1>1. Mul(x, y) = sum[W]
  BY DEF Mul
<1>2. ASSUME NEW n \in 1..W, NEW z \in Word
      PROVE  Extra(n, z) \in Word
  <2>1. n - 1 \in Nat
    OBVIOUS
  <2>2. Shl(x, n - 1) \in Word
    BY <2>1, OperatorsType
  <2>3. Add(Shl(x, n - 1), z) \in Word
    BY <2>2, ArithmeticType
  <2>. QED
    BY <2>3
<1>3. \E f : Sums(W, f)
  <2>. DEFINE S == {n \in 0..W : \A f : ~Sums(n, f)}
  <2>. SUFFICES ASSUME \A f : ~Sums(W, f)
                PROVE  FALSE
    OBVIOUS
  <2>1. S \in SUBSET Nat
    OBVIOUS
  <2>2. S # {}
    <3>1. W \in 0..W
      OBVIOUS
    <3>. HIDE DEF Sums
    <3>. QED
      BY <3>1
  <2>3. PICK n \in S : \A k \in S : n <= k
    <3>. HIDE DEF S
    <3>. QED
      BY <2>1, <2>2, LeastElement
  <2>4. n \in 0..W /\ \A f : ~Sums(n, f)
    OBVIOUS
  <2>5. CASE n = 0
    <3>1. Sums(0, [k \in 0..0 |-> {}])
      OBVIOUS
    <3>. QED
      BY <2>4, <2>5, <3>1
  <2>6. CASE n # 0
    <3>1. n - 1 \in 0..W /\ n - 1 < n
      BY <2>4, <2>6
    <3>2. n - 1 \notin S
      <4>. HIDE DEF S
      <4>. QED
        BY <2>3, <2>4, <3>1
    <3>3. PICK f : Sums(n - 1, f)
      BY <3>1, <3>2
    <3>. DEFINE g == [k \in 0..n |-> IF k = n THEN Extra(n, f[n - 1]) ELSE f[k]]
    <3>4. \A k \in 0..(n - 1) : g[k] = f[k] /\ f[k] = IF k = 0 THEN {} ELSE Extra(k, f[k - 1])
      <4>1. \A k \in 0..(n - 1) : k \in 0..n /\ k # n
        BY <2>4, <2>6
      <4>. HIDE DEF Extra
      <4>. QED
        BY <3>3, <4>1
    <3>5. ASSUME NEW k \in 0..n
          PROVE  g[k] = IF k = 0 THEN {} ELSE Extra(k, g[k - 1])
      <4>1. CASE k = n
        <5>1. n - 1 \in 0..(n - 1)
          BY <2>4, <2>6
        <5>. HIDE DEF Extra
        <5>. QED
          BY <2>4, <2>6, <3>4, <4>1, <5>1
      <4>2. CASE k # n /\ k # 0
        <5>1. k \in 0..(n - 1) /\ k - 1 \in 0..(n - 1)
          BY <2>4, <4>2
        <5>. HIDE DEF Extra, g
        <5>. QED
          BY <3>4, <4>2, <5>1
      <4>3. CASE k # n /\ k = 0
        <5>1. k \in 0..(n - 1)
          BY <2>4, <4>3
        <5>. HIDE DEF Extra, g
        <5>. QED
          BY <3>4, <4>3, <5>1
      <4>. QED
        BY <4>1, <4>2, <4>3
    <3>6. Sums(n, g)
      <4>. HIDE DEF Extra
      <4>. QED
        BY <3>5
    <3>. QED
      BY <2>4, <3>6
  <2>. QED
    BY <2>5, <2>6
<1>4. Sums(W, sum)
  <2>1. sum = CHOOSE f : Sums(W, f)
    OBVIOUS
  <2>. HIDE DEF Sums, sum
  <2>. QED
    BY <1>3, <2>1
<1>. HIDE DEF sum
<1>5. /\ DOMAIN sum = 0..W
      /\ sum[0] = {}
      /\ \A n \in 1..W : sum[n] = Extra(n, sum[n - 1])
      /\ sum = [n \in 0..W |-> sum[n]]
  <2>1. sum = [n \in 0..W |-> IF n = 0 THEN {} ELSE Extra(n, sum[n - 1])]
    BY <1>4
  <2>. HIDE DEF Extra, Sums
  <2>2. DOMAIN sum = 0..W
    BY <2>1
  <2>3. \A n \in 0..W : sum[n] = IF n = 0 THEN {} ELSE Extra(n, sum[n - 1])
    BY <2>1
  <2>4. sum[0] = {}
    BY <2>3
  <2>5. \A n \in 1..W : sum[n] = Extra(n, sum[n - 1])
    BY <2>3
  <2>6. sum = [n \in 0..W |-> sum[n]]
    BY <2>1, <2>2
  <2>. QED
    BY <2>2, <2>4, <2>5, <2>6
<1>6. \A n \in 0..W : sum[n] \in Word
  <2>. DEFINE S == {n \in 0..W : sum[n] \notin Word}
  <2>1. S \in SUBSET Nat
    OBVIOUS
  <2>2. SUFFICES ASSUME S # {}
                 PROVE  FALSE
    OBVIOUS
  <2>3. PICK n \in S : \A k \in S : n <= k
    <3>. HIDE DEF S
    <3>. QED
      BY <2>1, <2>2, LeastElement
  <2>4. n \in 0..W /\ sum[n] \notin Word
    OBVIOUS
  <2>5. n # 0
    BY <1>5, <2>4 DEF Word
  <2>6. n \in 1..W /\ n - 1 \in 0..W /\ n - 1 < n
    BY <2>4, <2>5
  <2>7. n - 1 \notin S
    <3>. HIDE DEF S
    <3>. QED
      BY <2>3, <2>4, <2>6
  <2>8. sum[n - 1] \in Word
    BY <2>6, <2>7
  <2>. HIDE DEF Extra
  <2>. QED
    BY <1>2, <1>5, <2>4, <2>6, <2>8
<1>7. sum \in [0..W -> Word]
  BY <1>5, <1>6
<1>. QED
  BY <1>1, <1>5, <1>7

(* Words that have the same bits below d and not at d.                        *)
Differ(d, x, y) == Below(d, x, y) /\ ~(d \in x <=> d \in y)

(* Adding words that have the same bits up to d does not change that.         *)
LEMMA AddKeepsBelow ==
    ASSUME NEW x \in Word, NEW y \in Word, NEW u \in Word, NEW v \in Word, NEW d \in Bits,
           Below(d, x, u), Below(d, y, v)
    PROVE  Below(d, Add(x, y), Add(u, v))
<1>. SUFFICES ASSUME NEW i \in Nat, i < d
              PROVE  i \in Add(x, y) <=> i \in Add(u, v)
  BY DEF Below
<1>1. i \in Bits /\ d \in Nat
  BY BitsBelow DEF Bits
<1>2. Below(i, x, u) /\ Below(i, y, v)
  BY <1>1 DEF Below
<1>3. CarryInto(i, x, y) <=> CarryInto(i, u, v)
  BY <1>1, <1>2, CarryDepends, WordsAreSets
<1>4. (i \in x <=> i \in u) /\ (i \in y <=> i \in v)
  BY DEF Below
<1>. QED
  BY <1>1, <1>3, <1>4, AddBit

LEMMA AddKeepsDifference ==
    ASSUME NEW x \in Word, NEW y \in Word, NEW u \in Word, NEW v \in Word, NEW d \in Bits,
           Below(d, x, u), d \in x <=> d \in u, Differ(d, y, v)
    PROVE  Differ(d, Add(x, y), Add(u, v))
<1>1. Below(d, Add(x, y), Add(u, v))
  BY AddKeepsBelow DEF Differ
<1>2. CarryInto(d, x, y) <=> CarryInto(d, u, v)
  BY CarryDepends, WordsAreSets DEF Differ
<1>. QED
  BY <1>1, <1>2, AddBit DEF Differ

(* Multiplication by an odd constant is one-to-one.                           *)
LEMMA MulInjective ==
    ASSUME NEW m \in Word, 0 \in m, NEW x \in Word, NEW y \in Word, Mul(x, m) = Mul(y, m)
    PROVE  x = y
<1>. SUFFICES ASSUME x # y
              PROVE  FALSE
  OBVIOUS
<1>1. PICK d \in Bits : Differ(d, x, y)
  BY FirstDifference DEF Differ
<1>2. PICK f \in [0..W -> Word] :
              /\ f[0] = {}
              /\ \A n \in 1..W : f[n] = IF n - 1 \in m THEN Add(Shl(x, n - 1), f[n - 1]) ELSE f[n - 1]
              /\ Mul(x, m) = f[W]
  BY MulSums
<1>3. PICK g \in [0..W -> Word] :
              /\ g[0] = {}
              /\ \A n \in 1..W : g[n] = IF n - 1 \in m THEN Add(Shl(y, n - 1), g[n - 1]) ELSE g[n - 1]
              /\ Mul(y, m) = g[W]
  BY MulSums
<1>4. ASSUME NEW z \in Word
      PROVE  Shl(z, 0) = z
  <2>1. \A i \in Bits : i >= 0 /\ i - 0 = i
    BY DEF Bits
  <2>. QED
    BY <2>1 DEF Shl, Word
<1>5. Differ(d, f[1], g[1])
  <2>1. 1 \in 1..W /\ 0 \in 0..W /\ 1 - 1 = 0
    OBVIOUS
  <2>2. f[1] = Add(Shl(x, 0), f[0]) /\ g[1] = Add(Shl(y, 0), g[0])
    BY <1>2, <1>3, <2>1
  <2>3. f[1] = Add({}, x) /\ g[1] = Add({}, y)
    BY <1>2, <1>3, <1>4, <2>2, AddCommutes DEF Word
  <2>4. {} \in Word /\ Below(d, {}, {})
    BY DEF Word, Below
  <2>. QED
    BY <1>1, <2>3, <2>4, AddKeepsDifference
<1>6. ASSUME NEW n \in 2..W, Differ(d, f[n - 1], g[n - 1])
      PROVE  Differ(d, f[n], g[n])
  <2>1. n \in 1..W /\ n - 1 \in 0..W /\ n - 1 \in Nat \ {0} /\ d \in Nat
    BY DEF Bits
  <2>. DEFINE k == n - 1
  <2>2. \A i \in Nat : i <= d => (i \in Shl(x, k) <=> i \in Shl(y, k))
    <3>1. k \in Nat \ {0}
      BY <2>1
    <3>. HIDE DEF k
    <3>. QED
      BY <1>1, <2>1, <3>1 DEF Shl, Below, Differ
  <2>3. Below(d, Shl(x, k), Shl(y, k)) /\ (d \in Shl(x, k) <=> d \in Shl(y, k))
    BY <2>1, <2>2 DEF Below
  <2>4. Shl(x, k) \in Word /\ Shl(y, k) \in Word /\ f[k] \in Word /\ g[k] \in Word
    BY <2>1, OperatorsType
  <2>5. Differ(d, Add(Shl(x, k), f[k]), Add(Shl(y, k), g[k]))
    BY <1>6, <2>3, <2>4, AddKeepsDifference
  <2>. QED
    BY <1>2, <1>3, <1>6, <2>1, <2>5
<1>7. \A n \in 1..W : Differ(d, f[n], g[n])
  <2>. DEFINE S == {n \in 1..W : ~Differ(d, f[n], g[n])}
  <2>1. S \in SUBSET Nat
    OBVIOUS
  <2>2. SUFFICES ASSUME S # {}
                 PROVE  FALSE
    OBVIOUS
  <2>3. PICK n \in S : \A k \in S : n <= k
    <3>. HIDE DEF S
    <3>. QED
      BY <2>1, <2>2, LeastElement
  <2>4. n \in 1..W /\ ~Differ(d, f[n], g[n])
    OBVIOUS
  <2>5. n # 1
    BY <1>5, <2>4
  <2>6. n \in 2..W /\ n - 1 \in 1..W /\ n - 1 < n
    BY <2>4, <2>5
  <2>7. n - 1 \notin S
    <3>. HIDE DEF S
    <3>. QED
      BY <2>3, <2>4, <2>6
  <2>8. Differ(d, f[n - 1], g[n - 1])
    BY <2>6, <2>7
  <2>. QED
    BY <1>6, <2>4, <2>6, <2>8
<1>8. Differ(d, f[W], g[W])
  BY <1>7
<1>9. f[W] = g[W]
  BY <1>2, <1>3
<1>. QED
  BY <1>8, <1>9 DEF Differ
-----------------------------------------------------------------------------
(* Updates with additions                                                     *)

LEMMA SmallFastInjective ==
    ASSUME NEW k \in Nat \ {0}, NEW r \in Bits,
           NEW s \in [0..3 -> Word], NEW u \in [0..3 -> Word],
           NEW a \in Word, NEW b \in Word, NEW c \in Word, NEW d \in Word,
           SmallFast(s, k, r, a, c) = SmallFast(u, k, r, b, d)
    PROVE  a = b /\ c = d /\ s[1] = u[1] /\ s[2] = u[2]
<1>1. /\ Xor(s[1], Shr(s[1], k)) = Xor(u[1], Shr(u[1], k))
      /\ Add(s[2], Shl(s[2], 3)) = Add(u[2], Shl(u[2], 3))
      /\ Add(Rotl(s[2], r), a) = Add(Rotl(u[2], r), b)
      /\ c = d
  BY DEF SmallFast
<1>2. s[1] = u[1]
  BY <1>1, XorShrInjective
<1>3. s[2] = u[2]
  BY <1>1, AddShlInjective
<1>4. a = b
  <2>1. Rotl(s[2], r) \in Word
    BY ArithmeticType
  <2>. QED
    BY <1>1, <1>3, <2>1, AddCancelsLeft
<1>. QED
  BY <1>1, <1>2, <1>3, <1>4

LEMMA SmallFastType ==
    ASSUME NEW k \in Nat, NEW r \in Bits, NEW s \in [0..3 -> Word], NEW a \in Word, NEW c \in Word
    PROVE  SmallFast(s, k, r, a, c) \in [0..3 -> Word]
<1>1. /\ Xor(s[1], Shr(s[1], k)) \in Word
      /\ Add(s[2], Shl(s[2], 3)) \in Word
      /\ Add(Rotl(s[2], r), a) \in Word
  BY ArithmeticType
<1>. QED
  BY <1>1 DEF SmallFast

LEMMA SfcOneToOne ==
    ASSUME NEW k \in Nat \ {0}, NEW r \in Bits
    PROVE  /\ \A s \in [0..3 -> Word] : Sfc(s, k, r) \in [0..3 -> Word]
           /\ \A s, u \in [0..3 -> Word] : Sfc(s, k, r) = Sfc(u, k, r) => s = u
<1>1. ASSUME NEW s \in [0..3 -> Word]
      PROVE  sfc_result(s) \in Word /\ Add(s[3], One) \in Word
  BY ArithmeticType DEF sfc_result
<1>2. ASSUME NEW s \in [0..3 -> Word], NEW u \in [0..3 -> Word], Sfc(s, k, r) = Sfc(u, k, r)
      PROVE  s = u
  <2>1. /\ sfc_result(s) = sfc_result(u) /\ Add(s[3], One) = Add(u[3], One)
        /\ s[1] = u[1] /\ s[2] = u[2]
    BY <1>1, <1>2, SmallFastInjective, SMTT(30) DEF Sfc
  <2>2. s[3] = u[3]
    BY <2>1, AddCancels, ArithmeticType
  <2>3. Add(s[0], s[1]) = Add(u[0], u[1])
    BY <2>1, <2>2, AddCancels, ArithmeticType DEF sfc_result
  <2>4. s[0] = u[0]
    BY <2>1, <2>3, AddCancels
  <2>. QED
    BY <2>1, <2>2, <2>4
<1>. QED
  BY <1>1, <1>2, SmallFastType DEF Sfc

LEMMA StcCrandOneToOne ==
    ASSUME NEW inc \in Word, NEW k \in Nat \ {0}, NEW r \in Bits
    PROVE  /\ \A s \in [0..3 -> Word] : StcCrand(s, inc, k, r) \in [0..3 -> Word]
           /\ \A s, u \in [0..3 -> Word] : StcCrand(s, inc, k, r) = StcCrand(u, inc, k, r) => s = u
<1>1. ASSUME NEW s \in [0..3 -> Word]
      PROVE  Add(s[3], inc) \in Word /\ stc_crand_result(s, Add(s[3], inc)) \in Word
  BY ArithmeticType DEF stc_crand_result
<1>2. ASSUME NEW s \in [0..3 -> Word], NEW u \in [0..3 -> Word],
             StcCrand(s, inc, k, r) = StcCrand(u, inc, k, r)
      PROVE  s = u
  <2>1. /\ stc_crand_result(s, Add(s[3], inc)) = stc_crand_result(u, Add(u[3], inc))
        /\ Add(s[3], inc) = Add(u[3], inc)
        /\ s[1] = u[1] /\ s[2] = u[2]
    <3>. DEFINE a == stc_crand_result(s, Add(s[3], inc))
                b == stc_crand_result(u, Add(u[3], inc))
                c == Add(s[3], inc)
                d == Add(u[3], inc)
    <3>1. SmallFast(s, k, r, a, c) = SmallFast(u, k, r, b, d)
      BY <1>2 DEF StcCrand
    <3>2. a \in Word /\ b \in Word /\ c \in Word /\ d \in Word
      BY <1>1
    <3>. HIDE DEF a, b, c, d
    <3>3. a = b /\ c = d /\ s[1] = u[1] /\ s[2] = u[2]
      BY <3>1, <3>2, SmallFastInjective, SMTT(30)
    <3>. QED
      BY <3>3 DEF a, b, c, d
  <2>2. s[3] = u[3]
    BY <2>1, AddCancels
  <2>3. Xor(s[0], Add(s[3], inc)) = Xor(u[0], Add(u[3], inc))
    BY <2>1, <2>2, AddCancels, ArithmeticType DEF stc_crand_result
  <2>4. s[0] = u[0]
    BY <2>2, <2>3, XorCancels
  <2>. QED
    BY <2>1, <2>2, <2>4
<1>. QED
  BY <1>1, <1>2, SmallFastType DEF StcCrand

LEMMA BiskiOneToOne ==
    ASSUME NEW inc \in Word, NEW r1 \in Bits, NEW r2 \in Bits
    PROVE  /\ \A s \in [0..2 -> Word] : Biski(s, inc, r1, r2) \in [0..2 -> Word]
           /\ \A s, u \in [0..2 -> Word] : Biski(s, inc, r1, r2) = Biski(u, inc, r1, r2) => s = u
<1>1. ASSUME NEW s \in [0..2 -> Word]
      PROVE  Biski(s, inc, r1, r2) \in [0..2 -> Word]
  <2>1. /\ Add(s[0], inc) \in Word
        /\ Add(Rotl(s[1], r1), Rotl(s[2], r2)) \in Word
        /\ Xor(s[0], s[1]) \in Word
    BY ArithmeticType
  <2>. QED
    BY <2>1 DEF Biski
<1>2. ASSUME NEW s \in [0..2 -> Word], NEW u \in [0..2 -> Word],
             Biski(s, inc, r1, r2) = Biski(u, inc, r1, r2)
      PROVE  s = u
  <2>1. /\ Add(s[0], inc) = Add(u[0], inc)
        /\ Add(Rotl(s[1], r1), Rotl(s[2], r2)) = Add(Rotl(u[1], r1), Rotl(u[2], r2))
        /\ Xor(s[0], s[1]) = Xor(u[0], u[1])
    BY <1>2 DEF Biski
  <2>2. s[0] = u[0]
    BY <2>1, AddCancels
  <2>3. s[1] = u[1]
    BY <2>1, <2>2, XorCancels, XorCommutes
  <2>4. Rotl(s[2], r2) = Rotl(u[2], r2)
    BY <2>1, <2>3, AddCancelsLeft, ArithmeticType
  <2>5. s[2] = u[2]
    BY <2>4, RotlInjective
  <2>. QED
    BY <2>2, <2>3, <2>5
<1>. QED
  BY <1>1, <1>2

LEMMA JsfOneToOne ==
    ASSUME NEW r1 \in Bits, NEW r2 \in Bits, NEW r3 \in Bits
    PROVE  /\ \A s \in [0..3 -> Word] : Jsf(s, r1, r2, r3) \in [0..3 -> Word]
           /\ \A s, u \in [0..3 -> Word] : Jsf(s, r1, r2, r3) = Jsf(u, r1, r2, r3) => s = u
<1>. DEFINE E(s) == Sub(Add(s[0], One), Rotl(s[1], r1))
            Z(s) == Xor(s[1], Rotl(s[2], r2))
<1>1. ASSUME NEW s \in [0..3 -> Word]
      PROVE  /\ E(s) \in Word /\ Z(s) \in Word
             /\ Rotl(s[1], r1) \in Word /\ Rotl(s[2], r2) \in Word /\ Rotl(s[3], r3) \in Word
             /\ Add(s[0], One) \in Word
  BY ArithmeticType
<1>2. ASSUME NEW s
      PROVE  Jsf(s, r1, r2, r3) =
                [s EXCEPT ![0] = Z(s), ![1] = Add(s[2], Rotl(s[3], r3)), ![2] = Add(s[3], E(s)),
                          ![3] = Add(E(s), Z(s))]
  BY DEF Jsf
<1>3. ASSUME NEW s \in [0..3 -> Word], NEW u \in [0..3 -> Word],
             Jsf(s, r1, r2, r3) = Jsf(u, r1, r2, r3)
      PROVE  s = u
  <2>1. /\ Z(s) = Z(u)
        /\ Add(s[2], Rotl(s[3], r3)) = Add(u[2], Rotl(u[3], r3))
        /\ Add(s[3], E(s)) = Add(u[3], E(u))
        /\ Add(E(s), Z(s)) = Add(E(u), Z(u))
    <3>. HIDE DEF E, Z
    <3>. QED
      BY <1>2, <1>3
  <2>2. E(s) = E(u)
    <3>. HIDE DEF E, Z
    <3>. QED
      BY <1>1, <2>1, AddCancels
  <2>3. s[3] = u[3]
    <3>. HIDE DEF E, Z
    <3>. QED
      BY <1>1, <2>1, <2>2, AddCancels
  <2>4. s[2] = u[2]
    BY <1>1, <2>1, <2>3, AddCancels
  <2>5. s[1] = u[1]
    BY <2>1, <2>4, XorCancels
  <2>6. Add(s[0], One) = Add(u[0], One)
    BY <1>1, <2>2, <2>5, SubCancels
  <2>7. s[0] = u[0]
    BY <2>6, AddCancels, ArithmeticType
  <2>. QED
    BY <2>3, <2>4, <2>5, <2>7
<1>4. ASSUME NEW s \in [0..3 -> Word]
      PROVE  Jsf(s, r1, r2, r3) \in [0..3 -> Word]
  <2>. HIDE DEF E, Z
  <2>1. /\ Add(s[2], Rotl(s[3], r3)) \in Word
        /\ Add(s[3], E(s)) \in Word
        /\ Add(E(s), Z(s)) \in Word
    BY <1>1, ArithmeticType
  <2>. QED
    BY <1>1, <1>2, <2>1
<1>. QED
  BY <1>3, <1>4
LEMMA GjrandOneToOne ==
    ASSUME NEW inc \in Word, NEW r1 \in Bits, NEW r2 \in Bits, NEW r3 \in Bits
    PROVE  /\ \A s \in [0..3 -> Word] : Gjrand(s, inc, r1, r2, r3) \in [0..3 -> Word]
           /\ \A s, u \in [0..3 -> Word] :
                 Gjrand(s, inc, r1, r2, r3) = Gjrand(u, inc, r1, r2, r3) => s = u
<1>. DEFINE Q(s) == Add(s[1], s[2])
            D(s) == Add(s[3], inc)
            P(s) == Add(Rotl(s[0], r1), Q(s))
            R(s) == Rotl(Xor(s[2], Q(s)), r2)
<1>1. ASSUME NEW s \in [0..3 -> Word]
      PROVE  /\ P(s) \in Word /\ Q(s) \in Word /\ R(s) \in Word /\ D(s) \in Word
             /\ Rotl(s[0], r1) \in Word
             /\ Xor(Q(s), P(s)) \in Word /\ Rotl(Xor(Q(s), P(s)), r3) \in Word
             /\ Xor(s[2], Q(s)) \in Word
  BY ArithmeticType
<1>2. ASSUME NEW s
      PROVE  Gjrand(s, inc, r1, r2, r3) =
                [s EXCEPT ![0] = Add(P(s), R(s)), ![1] = Add(Rotl(Xor(Q(s), P(s)), r3), D(s)),
                          ![2] = Add(R(s), Add(P(s), R(s))), ![3] = D(s)]
  BY DEF Gjrand
<1>3. ASSUME NEW s \in [0..3 -> Word], NEW u \in [0..3 -> Word],
             Gjrand(s, inc, r1, r2, r3) = Gjrand(u, inc, r1, r2, r3)
      PROVE  s = u
  <2>1. /\ Add(P(s), R(s)) = Add(P(u), R(u))
        /\ Add(Rotl(Xor(Q(s), P(s)), r3), D(s)) = Add(Rotl(Xor(Q(u), P(u)), r3), D(u))
        /\ Add(R(s), Add(P(s), R(s))) = Add(R(u), Add(P(u), R(u)))
        /\ D(s) = D(u)
    <3>. HIDE DEF P, Q, R, D
    <3>. QED
      BY <1>2, <1>3
  <2>2. R(s) = R(u)
    <3>. HIDE DEF P, Q, R, D
    <3>. QED
      BY <1>1, <2>1, AddCancels, ArithmeticType
  <2>3. P(s) = P(u)
    <3>. HIDE DEF P, Q, R, D
    <3>. QED
      BY <1>1, <2>1, <2>2, AddCancels
  <2>4. Xor(Q(s), P(s)) = Xor(Q(u), P(u))
    <3>. HIDE DEF P, Q, R, D
    <3>1. Rotl(Xor(Q(s), P(s)), r3) = Rotl(Xor(Q(u), P(u)), r3)
      BY <1>1, <2>1, AddCancels
    <3>. QED
      BY <1>1, <3>1, RotlInjective
  <2>5. Q(s) = Q(u)
    <3>. HIDE DEF P, Q, R, D
    <3>. QED
      BY <2>3, <2>4, XorCancels
  <2>6. s[3] = u[3]
    BY <2>1, AddCancels
  <2>7. s[2] = u[2]
    <3>1. Xor(s[2], Q(s)) = Xor(u[2], Q(u))
      BY <1>1, <2>2, RotlInjective
    <3>. HIDE DEF P, Q, R, D
    <3>. QED
      BY <2>5, <3>1, XorCancels
  <2>8. s[1] = u[1]
    BY <2>5, <2>7, AddCancels
  <2>9. s[0] = u[0]
    <3>1. Rotl(s[0], r1) = Rotl(u[0], r1)
      <4>1. Add(Rotl(s[0], r1), Q(s)) = Add(Rotl(u[0], r1), Q(u))
        BY <2>3
      <4>. HIDE DEF P, Q, R, D
      <4>. QED
        BY <1>1, <2>5, <4>1, AddCancels
    <3>. QED
      BY <3>1, RotlInjective
  <2>. QED
    BY <2>6, <2>7, <2>8, <2>9
<1>4. ASSUME NEW s \in [0..3 -> Word]
      PROVE  Gjrand(s, inc, r1, r2, r3) \in [0..3 -> Word]
  <2>. HIDE DEF P, Q, R, D
  <2>1. /\ Add(P(s), R(s)) \in Word
        /\ Add(Rotl(Xor(Q(s), P(s)), r3), D(s)) \in Word
        /\ Add(R(s), Add(P(s), R(s))) \in Word
    BY ArithmeticType
  <2>. QED
    BY <1>1, <1>2, <2>1
<1>. QED
  BY <1>3, <1>4

-----------------------------------------------------------------------------
(* Updates with multiplications by odd constants                              *)

LEMMA MulType ==
    ASSUME NEW x \in Word, NEW y \in Word
    PROVE  Mul(x, y) \in Word
<1>1. PICK f \in [0..W -> Word] : Mul(x, y) = f[W]
  BY MulSums
<1>. QED
  BY <1>1

LEMMA LcgOneToOne ==
    ASSUME NEW m \in Word, 0 \in m, NEW c \in Word,
           NEW x \in Word, NEW y \in Word, lcg(x, m, c) = lcg(y, m, c)
    PROVE  x = y
<1>1. Mul(x, m) \in Word /\ Mul(y, m) \in Word
  BY MulType
<1>2. Mul(x, m) = Mul(y, m)
  BY <1>1, AddCancels DEF lcg
<1>. QED
  BY <1>2, MulInjective

LEMMA LcgType == \A x, m, c : lcg(x, m, c) \in Word
  BY ArithmeticType DEF lcg

(* Whether sums of words that are alike below d are alike at d.               *)
LEMMA AddParity ==
    ASSUME NEW x \in Word, NEW y \in Word, NEW u \in Word, NEW v \in Word, NEW d \in Bits,
           Below(d, x, u), Below(d, y, v)
    PROVE  /\ Below(d, Add(x, y), Add(u, v))
           /\ (d \in Add(x, y) <=> d \in Add(u, v)) <=> ((d \in x <=> d \in u) <=> (d \in y <=> d \in v))
<1>1. CarryInto(d, x, y) <=> CarryInto(d, u, v)
  BY CarryDepends, WordsAreSets
<1>2. /\ d \in Add(x, y) <=> ((d \in x <=> d \in y) <=> CarryInto(d, x, y))
      /\ d \in Add(u, v) <=> ((d \in u <=> d \in v) <=> CarryInto(d, u, v))
  BY AddBit
<1>3. (d \in Add(x, y) <=> d \in Add(u, v)) <=> ((d \in x <=> d \in u) <=> (d \in y <=> d \in v))
  BY <1>1, <1>2
<1>. QED
  BY <1>3, AddKeepsBelow

(* The squares of two words that first differ at d, above 0, are alike up to  *)
(* d: of the shifts that are added, the one by 0 and the one by d differ at d *)
(* if the words are odd, and cancel.                                          *)
LEMMA SquaresAlike ==
    ASSUME NEW x \in Word, NEW y \in Word, NEW d \in Bits, d # 0, Differ(d, x, y)
    PROVE  Below(d, Mul(x, x), Mul(y, y)) /\ (d \in Mul(x, x) <=> d \in Mul(y, y))
<1>1. PICK f \in [0..W -> Word] :
              /\ f[0] = {}
              /\ \A n \in 1..W : f[n] = IF n - 1 \in x THEN Add(Shl(x, n - 1), f[n - 1]) ELSE f[n - 1]
              /\ Mul(x, x) = f[W]
  BY MulSums
<1>2. PICK g \in [0..W -> Word] :
              /\ g[0] = {}
              /\ \A n \in 1..W : g[n] = IF n - 1 \in y THEN Add(Shl(y, n - 1), g[n - 1]) ELSE g[n - 1]
              /\ Mul(y, y) = g[W]
  BY MulSums
<1>. DEFINE Term(z, k) == IF k \in z THEN Shl(z, k) ELSE {}
            Alike(n) == /\ Below(d, f[n], g[n])
                        /\ (d \in f[n] <=> d \in g[n]) <=> ~(0 \in x /\ 1 <= n /\ n <= d)
<1>3. ASSUME NEW z \in Word, NEW k \in Nat
      PROVE  Term(z, k) \in Word /\ \A i \in Bits : i \in Term(z, k) <=> k \in z /\ i >= k /\ i - k \in z
  <2>1. {} \in Word /\ Shl(z, k) \in Word
    BY ArithmeticType DEF Word
  <2>. QED
    BY <2>1 DEF Shl
<1>4. d \in Nat /\ (0 \in x <=> 0 \in y) /\ ~(d \in x <=> d \in y)
  BY DEF Differ, Below, Bits
<1>5. ASSUME NEW k \in Bits
      PROVE  /\ Below(d, Term(x, k), Term(y, k))
             /\ (d \in Term(x, k) <=> d \in Term(y, k)) <=> ~(0 \in x /\ (k = 0 \/ k = d))
  <2>1. k \in Nat
    BY DEF Bits
  <2>2. \A i \in Bits : /\ i \in Term(x, k) <=> k \in x /\ i >= k /\ i - k \in x
                        /\ i \in Term(y, k) <=> k \in y /\ i >= k /\ i - k \in y
    BY <1>3, <2>1
  <2>. HIDE DEF Term
  <2>3. \A i \in Nat : i < d => (i \in x <=> i \in y)
    BY DEF Differ, Below
  <2>4. Below(d, Term(x, k), Term(y, k))
    <3>. SUFFICES ASSUME NEW i \in Nat, i < d
                  PROVE  i \in Term(x, k) <=> i \in Term(y, k)
      BY DEF Below
    <3>1. i \in Bits
      BY BitsBelow
    <3>2. CASE i >= k
      <4>1. k < d /\ i - k \in Nat /\ i - k < d
        BY <1>4, <2>1, <3>2
      <4>2. (k \in x <=> k \in y) /\ (i - k \in x <=> i - k \in y)
        BY <2>1, <2>3, <4>1
      <4>. QED
        BY <2>2, <3>1, <4>2
    <3>3. CASE ~(i >= k)
      BY <2>2, <3>1, <3>3
    <3>. QED
      BY <3>2, <3>3
  <2>5. (d \in Term(x, k) <=> d \in Term(y, k)) <=> ~(0 \in x /\ (k = 0 \/ k = d))
    <3>1. /\ d \in Term(x, k) <=> k \in x /\ d >= k /\ d - k \in x
          /\ d \in Term(y, k) <=> k \in y /\ d >= k /\ d - k \in y
      BY <2>2
    <3>2. CASE k = 0 \/ k = d
      <4>1. CASE k = 0
        <5>1. d >= 0 /\ d - 0 = d
          BY <1>4
        <5>. QED
          BY <1>4, <3>1, <4>1, <5>1
      <4>2. CASE k = d
        <5>1. d >= d /\ d - d = 0
          BY <1>4
        <5>. QED
          BY <1>4, <3>1, <4>2, <5>1
      <4>. QED
        BY <3>2, <4>1, <4>2
    <3>3. CASE k # 0 /\ k < d
      <4>1. d - k \in Nat /\ d - k < d
        BY <1>4, <2>1, <3>3
      <4>2. (k \in x <=> k \in y) /\ (d - k \in x <=> d - k \in y)
        BY <2>1, <2>3, <3>3, <4>1
      <4>3. k # d
        BY <1>4, <2>1, <3>3
      <4>. QED
        BY <3>1, <3>3, <4>2, <4>3
    <3>4. CASE k > d
      <4>1. ~(d >= k) /\ k # 0 /\ k # d
        BY <1>4, <2>1, <3>4
      <4>. QED
        BY <3>1, <4>1
    <3>. QED
      BY <1>4, <2>1, <3>2, <3>3, <3>4
  <2>. QED
    BY <2>4, <2>5
<1>6. \A z \in Word : Add({}, z) = z
  <2>1. {} \in Word
    BY DEF Word
  <2>2. \A z \in Word : Add(z, {}) = z
    BY DEF Add, CarryInto, Word
  <2>. QED
    BY <2>1, <2>2, AddCommutes
<1>7. ASSUME NEW n \in 1..W
      PROVE  f[n] = Add(Term(x, n - 1), f[n - 1]) /\ g[n] = Add(Term(y, n - 1), g[n - 1])
  <2>1. n - 1 \in 0..W
    OBVIOUS
  <2>2. f[n - 1] \in Word /\ g[n - 1] \in Word
    BY <2>1
  <2>. QED
    BY <1>1, <1>2, <1>6, <2>2
<1>. HIDE DEF Term
<1>8. Alike(0)
  <2>1. f[0] = {} /\ g[0] = {} /\ ~(1 <= 0)
    BY <1>1, <1>2
  <2>. QED
    BY <2>1 DEF Below
<1>9. ASSUME NEW n \in 1..W, Alike(n - 1)
      PROVE  Alike(n)
  <2>1. n - 1 \in Bits /\ n - 1 \in Nat /\ n - 1 \in 0..W
    BY DEF Bits
  <2>. DEFINE k == n - 1
              p == Term(x, k)
              q == Term(y, k)
  <2>2. p \in Word /\ q \in Word /\ f[k] \in Word /\ g[k] \in Word
    BY <1>3, <2>1
  <2>3. /\ Below(d, p, q)
        /\ (d \in p <=> d \in q) <=> ~(0 \in x /\ (k = 0 \/ k = d))
    BY <1>5, <2>1
  <2>4. f[n] = Add(p, f[k]) /\ g[n] = Add(q, g[k])
    BY <1>7
  <2>. HIDE DEF p, q
  <2>5. /\ Below(d, f[k], g[k])
        /\ (d \in f[k] <=> d \in g[k]) <=> ~(0 \in x /\ 1 <= k /\ k <= d)
    BY <1>9
  <2>. HIDE DEF k
  <2>6. /\ Below(d, f[n], g[n])
        /\ ((d \in f[n]) <=> (d \in g[n])) <=> (((d \in p) <=> (d \in q)) <=> ((d \in f[k]) <=> (d \in g[k])))
    <3>. HIDE DEF Alike
    <3>1. Below(d, p, q) /\ Below(d, f[k], g[k])
      BY <2>3, <2>5
    <3>2. /\ Below(d, Add(p, f[k]), Add(q, g[k]))
          /\ ((d \in Add(p, f[k])) <=> (d \in Add(q, g[k])))
               <=> (((d \in p) <=> (d \in q)) <=> ((d \in f[k]) <=> (d \in g[k])))
      <4>. HIDE DEF p, q, k
      <4>. QED
        BY <2>2, <3>1, AddParity
    <3>. QED
      BY <2>4, <3>2
  <2>7. /\ k = 0 => ~(1 <= k /\ k <= d) /\ (1 <= n /\ n <= d)
        /\ k = d => (1 <= k /\ k <= d) /\ ~(1 <= n /\ n <= d)
        /\ k # 0 /\ k # d => ((1 <= k /\ k <= d) <=> (1 <= n /\ n <= d))
        /\ ~(k = 0 /\ k = d)
    BY <1>4, <2>1 DEF k
  <2>8. (d \in f[n] <=> d \in g[n]) <=> ~(0 \in x /\ 1 <= n /\ n <= d)
    BY <2>3, <2>5, <2>6, <2>7
  <2>. QED
    BY <2>6, <2>8
<1>10. Alike(W)
  <2>. SUFFICES ASSUME ~Alike(W)
                PROVE  FALSE
    OBVIOUS
  <2>. HIDE DEF Alike
  <2>. DEFINE D == {n \in 0..W : ~Alike(n)}
  <2>1. D \in SUBSET Nat /\ W \in D
    OBVIOUS
  <2>2. PICK n \in D : \A i \in D : n <= i
    <3>. HIDE DEF D
    <3>. QED
      BY <2>1, LeastElement
  <2>3. n \in 0..W /\ ~Alike(n) /\ n # 0
    BY <1>8
  <2>4. n \in 1..W /\ n - 1 \in 0..W /\ ~(n <= n - 1)
    BY <2>3
  <2>5. n - 1 \notin D
    <3>. HIDE DEF D
    <3>. QED
      BY <2>2, <2>4
  <2>6. Alike(n - 1)
    BY <2>4, <2>5
  <2>. QED
    BY <1>9, <2>3, <2>4, <2>6
<1>11. ~(W <= d)
  BY DEF Bits
<1>. QED
  BY <1>1, <1>2, <1>10, <1>11

(* The first bit of the constant covers that of the square.                   *)
LEMMA KlimovShamirOneToOne ==
    ASSUME NEW c \in Word, 0 \in c, NEW x \in Word, NEW y \in Word,
           KlimovShamir(x, c) = KlimovShamir(y, c)
    PROVE  x = y
<1>. SUFFICES ASSUME x # y
              PROVE  FALSE
  OBVIOUS
<1>1. PICK d \in Bits : Differ(d, x, y)
  BY FirstDifference DEF Differ
<1>. DEFINE u == Mul(x, x) \cup c
            v == Mul(y, y) \cup c
<1>2. u \in Word /\ v \in Word
  <2>1. Mul(x, x) \in Word /\ Mul(y, y) \in Word
    BY MulType
  <2>. QED
    BY <2>1 DEF Word
<1>3. Below(d, u, v) /\ (d \in u <=> d \in v)
  <2>1. CASE d = 0
    <3>1. \A i \in Nat : ~(i < 0)
      OBVIOUS
    <3>. QED
      BY <2>1, <3>1 DEF Below
  <2>2. CASE d # 0
    BY <1>1, <2>2, SquaresAlike DEF Below
  <2>. QED
    BY <2>1, <2>2
<1>4. Add(x, u) = Add(y, v)
  BY DEF KlimovShamir
<1>. HIDE DEF u, v
<1>. QED
  BY <1>1, <1>2, <1>3, <1>4, AddAt DEF Differ

LEMMA RomuQuadOneToOne ==
    ASSUME NEW m \in Word, 0 \in m, NEW r1 \in Bits, NEW r2 \in Bits
    PROVE  /\ \A s \in [0..3 -> Word] : RomuQuad(s, m, r1, r2) \in [0..3 -> Word]
           /\ \A s, u \in [0..3 -> Word] : RomuQuad(s, m, r1, r2) = RomuQuad(u, m, r1, r2) => s = u
<1>1. ASSUME NEW s \in [0..3 -> Word]
      PROVE  RomuQuad(s, m, r1, r2) \in [0..3 -> Word]
  <2>1. /\ Times1(m, s[3]) \in Word
        /\ Add(s[3], Rotl(s[0], r1)) \in Word
        /\ Sub(s[2], s[1]) \in Word
        /\ Rotl(Add(s[2], s[0]), r2) \in Word
    BY LcgType, ArithmeticType DEF Times1
  <2>. QED
    BY <2>1 DEF RomuQuad
<1>2. ASSUME NEW s \in [0..3 -> Word], NEW u \in [0..3 -> Word],
             RomuQuad(s, m, r1, r2) = RomuQuad(u, m, r1, r2)
      PROVE  s = u
  <2>1. /\ Times1(m, s[3]) = Times1(m, u[3])
        /\ Add(s[3], Rotl(s[0], r1)) = Add(u[3], Rotl(u[0], r1))
        /\ Sub(s[2], s[1]) = Sub(u[2], u[1])
        /\ Rotl(Add(s[2], s[0]), r2) = Rotl(Add(u[2], u[0]), r2)
    BY <1>2 DEF RomuQuad
  <2>2. s[3] = u[3]
    BY <2>1, LcgOneToOne, ArithmeticType DEF Times1
  <2>3. Rotl(s[0], r1) = Rotl(u[0], r1)
    BY <2>1, <2>2, AddCancelsLeft, ArithmeticType
  <2>4. s[0] = u[0]
    BY <2>3, RotlInjective
  <2>5. Add(s[2], s[0]) = Add(u[2], u[0])
    BY <2>1, RotlInjective, ArithmeticType
  <2>6. s[2] = u[2]
    BY <2>4, <2>5, AddCancels
  <2>7. s[1] = u[1]
    BY <2>1, <2>6, SubCancelsLeft
  <2>. QED
    BY <2>2, <2>4, <2>6, <2>7
<1>. QED
  BY <1>1, <1>2

LEMMA RomuTrioOneToOne ==
    ASSUME NEW m \in Word, 0 \in m, NEW r1 \in Bits, NEW r2 \in Bits
    PROVE  /\ \A s \in [0..2 -> Word] : RomuTrio(s, m, r1, r2) \in [0..2 -> Word]
           /\ \A s, u \in [0..2 -> Word] : RomuTrio(s, m, r1, r2) = RomuTrio(u, m, r1, r2) => s = u
<1>1. ASSUME NEW s \in [0..2 -> Word]
      PROVE  RomuTrio(s, m, r1, r2) \in [0..2 -> Word]
  <2>1. /\ Times1(m, s[2]) \in Word
        /\ Rotl(Sub(s[1], s[0]), r1) \in Word
        /\ Rotl(Sub(s[2], s[1]), r2) \in Word
    BY LcgType, ArithmeticType DEF Times1
  <2>. QED
    BY <2>1 DEF RomuTrio
<1>2. ASSUME NEW s \in [0..2 -> Word], NEW u \in [0..2 -> Word],
             RomuTrio(s, m, r1, r2) = RomuTrio(u, m, r1, r2)
      PROVE  s = u
  <2>1. /\ Times1(m, s[2]) = Times1(m, u[2])
        /\ Rotl(Sub(s[1], s[0]), r1) = Rotl(Sub(u[1], u[0]), r1)
        /\ Rotl(Sub(s[2], s[1]), r2) = Rotl(Sub(u[2], u[1]), r2)
    BY <1>2 DEF RomuTrio
  <2>2. s[2] = u[2]
    BY <2>1, LcgOneToOne, ArithmeticType DEF Times1
  <2>3. Sub(s[1], s[0]) = Sub(u[1], u[0]) /\ Sub(s[2], s[1]) = Sub(u[2], u[1])
    BY <2>1, RotlInjective, ArithmeticType
  <2>4. s[1] = u[1]
    BY <2>2, <2>3, SubCancelsLeft
  <2>5. s[0] = u[0]
    BY <2>3, <2>4, SubCancelsLeft
  <2>. QED
    BY <2>2, <2>4, <2>5
<1>. QED
  BY <1>1, <1>2

LEMMA RomuDuoOneToOne ==
    ASSUME NEW m \in Word, 0 \in m, NEW r1 \in Bits, NEW r2 \in Bits
    PROVE  /\ \A s \in [0..1 -> Word] : /\ RomuDuo(s, m, r1, r2) \in [0..1 -> Word]
                                        /\ RomuDuoJr(s, m, r1) \in [0..1 -> Word]
           /\ \A s, u \in [0..1 -> Word] : /\ RomuDuo(s, m, r1, r2) = RomuDuo(u, m, r1, r2) => s = u
                                           /\ RomuDuoJr(s, m, r1) = RomuDuoJr(u, m, r1) => s = u
<1>1. ASSUME NEW s \in [0..1 -> Word]
      PROVE  /\ RomuDuo(s, m, r1, r2) \in [0..1 -> Word]
             /\ RomuDuoJr(s, m, r1) \in [0..1 -> Word]
  <2>1. /\ Times1(m, s[1]) \in Word
        /\ Sub(Add(Rotl(s[1], r1), Rotl(s[1], r2)), s[0]) \in Word
        /\ Rotl(Sub(s[1], s[0]), r1) \in Word
    BY LcgType, ArithmeticType DEF Times1
  <2>. QED
    BY <2>1 DEF RomuDuo, RomuDuoJr
<1>2. ASSUME NEW s \in [0..1 -> Word], NEW u \in [0..1 -> Word],
             RomuDuo(s, m, r1, r2) = RomuDuo(u, m, r1, r2)
      PROVE  s = u
  <2>1. /\ Times1(m, s[1]) = Times1(m, u[1])
        /\ Sub(Add(Rotl(s[1], r1), Rotl(s[1], r2)), s[0])
              = Sub(Add(Rotl(u[1], r1), Rotl(u[1], r2)), u[0])
    BY <1>2 DEF RomuDuo
  <2>2. s[1] = u[1]
    BY <2>1, LcgOneToOne, ArithmeticType DEF Times1
  <2>3. s[0] = u[0]
    BY <2>1, <2>2, SubCancelsLeft, ArithmeticType
  <2>. QED
    BY <2>2, <2>3
<1>3. ASSUME NEW s \in [0..1 -> Word], NEW u \in [0..1 -> Word],
             RomuDuoJr(s, m, r1) = RomuDuoJr(u, m, r1)
      PROVE  s = u
  <2>1. /\ Times1(m, s[1]) = Times1(m, u[1])
        /\ Rotl(Sub(s[1], s[0]), r1) = Rotl(Sub(u[1], u[0]), r1)
    BY <1>3 DEF RomuDuoJr
  <2>2. s[1] = u[1]
    BY <2>1, LcgOneToOne, ArithmeticType DEF Times1
  <2>3. Sub(s[1], s[0]) = Sub(u[1], u[0])
    BY <2>1, RotlInjective, ArithmeticType
  <2>4. s[0] = u[0]
    BY <2>2, <2>3, SubCancelsLeft
  <2>. QED
    BY <2>2, <2>4
<1>. QED
  BY <1>1, <1>2, <1>3
-----------------------------------------------------------------------------
(* The carry of xsm                                                           *)

LEMMA CarryStep ==
    ASSUME NEW x \in SUBSET Nat, NEW y \in SUBSET Nat, NEW i \in Nat
    PROVE  CarryInto(i + 1, x, y) <=> \/ i \in x /\ i \in y
                                      \/ (i \in x \/ i \in y) /\ CarryInto(i, x, y)
<1>1. ASSUME CarryInto(i + 1, x, y), ~(i \in x /\ i \in y)
      PROVE  (i \in x \/ i \in y) /\ CarryInto(i, x, y)
  <2>1. PICK j \in x \cap y : j < i + 1 /\ (j + 1)..((i + 1) - 1) \subseteq x \cup y
    BY <1>1 DEF CarryInto
  <2>2. j \in Nat /\ j # i /\ j < i
    BY <1>1, <2>1
  <2>3. i \in (j + 1)..((i + 1) - 1) /\ (j + 1)..(i - 1) \subseteq (j + 1)..((i + 1) - 1)
    BY <2>2
  <2>. QED
    BY <2>1, <2>2, <2>3 DEF CarryInto
<1>2. ASSUME i \in x /\ i \in y
      PROVE  CarryInto(i + 1, x, y)
  <2>1. i < i + 1 /\ (i + 1)..((i + 1) - 1) = {}
    OBVIOUS
  <2>. QED
    BY <1>2, <2>1 DEF CarryInto
<1>3. ASSUME i \in x \/ i \in y, CarryInto(i, x, y)
      PROVE  CarryInto(i + 1, x, y)
  <2>1. PICK j \in x \cap y : j < i /\ (j + 1)..(i - 1) \subseteq x \cup y
    BY <1>3 DEF CarryInto
  <2>2. j \in Nat /\ j < i + 1
    BY <2>1
  <2>3. ASSUME NEW k \in (j + 1)..((i + 1) - 1)
        PROVE  k \in x \cup y
    <3>1. k = i \/ k \in (j + 1)..(i - 1)
      BY <2>2
    <3>. QED
      BY <1>3, <2>1, <3>1
  <2>. QED
    BY <2>1, <2>2, <2>3 DEF CarryInto
<1>. QED
  BY <1>1, <1>2, <1>3

LEMMA NoCarryIntoFirst ==
    ASSUME NEW x \in SUBSET Nat, NEW y
    PROVE  ~CarryInto(0, x, y)
  BY DEF CarryInto

(* A carry that every bit from a on passes on.                                *)
LEMMA CarryPasses ==
    ASSUME NEW x \in Word, NEW y \in Word, NEW a \in 0..W,
           \A i \in a..(W - 1) : CarryInto(i + 1, x, y) <=> CarryInto(i, x, y)
    PROVE  CarryInto(W, x, y) <=> CarryInto(a, x, y)
<1>. DEFINE P(i) == CarryInto(i, x, y)
            S == {n \in a..W : ~(P(n) <=> P(a))}
<1>. HIDE DEF P
<1>1. \A i \in a..(W - 1) : P(i + 1) <=> P(i)
  BY DEF P
<1>2. S = {}
  <2>1. S \in SUBSET Nat
    OBVIOUS
  <2>2. SUFFICES ASSUME S # {}
                 PROVE  FALSE
    OBVIOUS
  <2>3. PICK n \in S : \A k \in S : n <= k
    <3>. HIDE DEF S
    <3>. QED
      BY <2>1, <2>2, LeastElement
  <2>4. n \in a..W /\ n # a /\ ~(P(n) <=> P(a))
    OBVIOUS
  <2>5. n - 1 \in a..(W - 1) /\ n - 1 \in a..W /\ n - 1 < n /\ (n - 1) + 1 = n
    BY <2>4
  <2>6. n - 1 \notin S
    <3>1. n \in Nat
      BY <2>4
    <3>. HIDE DEF S
    <3>. QED
      BY <2>3, <2>5, <3>1
  <2>7. P(n - 1) <=> P(a)
    BY <2>5, <2>6
  <2>8. P(n) <=> P(n - 1)
    BY <1>1, <2>5
  <2>. QED
    BY <2>4, <2>7, <2>8
<1>3. W \in a..W
  OBVIOUS
<1>4. P(W) <=> P(a)
  BY <1>2, <1>3
<1>. QED
  BY <1>4 DEF P

(* The comparison that xsm makes finds the carry out of the addition.         *)
LEMMA CarryFound ==
    ASSUME NEW x \in Word, NEW p \in Word
    PROVE  Less(Add(x, p), p) <=> CarryInto(W, x, p)
<1>. DEFINE y == Add(x, p)
<1>1. y \in Word
  BY ArithmeticType
<1>2. ASSUME NEW i \in Bits
      PROVE  (i \in y <=> i \in p) <=> (i \in x <=> CarryInto(i, x, p))
  BY AddBit
<1>3. ASSUME NEW i \in Bits
      PROVE  /\ (i \in y <=> i \in p) => (CarryInto(i + 1, x, p) <=> CarryInto(i, x, p))
             /\ ~(i \in y <=> i \in p) => (CarryInto(i + 1, x, p) <=> i \in p)
  <2>1. CarryInto(i + 1, x, p) <=> \/ i \in x /\ i \in p
                                   \/ (i \in x \/ i \in p) /\ CarryInto(i, x, p)
    BY CarryStep, WordsAreSets
  <2>. HIDE DEF y
  <2>. QED
    BY <1>2, <2>1
<1>. HIDE DEF y
<1>4. CASE y = p
  <2>1. \A i \in 0..(W - 1) : CarryInto(i + 1, x, p) <=> CarryInto(i, x, p)
    BY <1>3, <1>4 DEF Bits
  <2>2. CarryInto(W, x, p) <=> CarryInto(0, x, p)
    <3>1. 0 \in 0..W
      OBVIOUS
    <3>. QED
      BY <2>1, <3>1, CarryPasses
  <2>3. ~CarryInto(0, x, p)
    BY NoCarryIntoFirst, WordsAreSets
  <2>4. ~Less(y, p)
    BY <1>4 DEF Less
  <2>. QED
    BY <2>2, <2>3, <2>4 DEF y
<1>5. CASE y # p
  <2>1. PICK d \in Bits : /\ ~(d \in y <=> d \in p)
                          /\ \A i \in Bits : i > d => (i \in y <=> i \in p)
    BY <1>1, <1>5, LastDifference
  <2>2. d \in Nat /\ d + 1 \in 0..W /\ \A i \in (d + 1)..(W - 1) : i \in Bits /\ i > d
    BY DEF Bits
  <2>3. \A i \in (d + 1)..(W - 1) : CarryInto(i + 1, x, p) <=> CarryInto(i, x, p)
    BY <1>3, <2>1, <2>2
  <2>4. CarryInto(W, x, p) <=> CarryInto(d + 1, x, p)
    BY <2>2, <2>3, CarryPasses
  <2>5. CarryInto(d + 1, x, p) <=> d \in p
    BY <1>3, <2>1
  <2>6. Less(y, p) <=> d \in p
    <3>1. ASSUME d \in p
          PROVE  Less(y, p)
      BY <2>1, <3>1 DEF Less
    <3>2. ASSUME Less(y, p), d \notin p
          PROVE  FALSE
      <4>1. PICK i \in p \ y : \A k \in Bits : k > i => (k \in y <=> k \in p)
        BY <3>2 DEF Less
      <4>2. i \in Bits /\ ~(i \in y <=> i \in p) /\ i # d
        BY <3>2 DEF Word
      <4>3. ~(i > d) /\ ~(d > i)
        BY <2>1, <4>1, <4>2
      <4>. QED
        BY <4>2, <4>3 DEF Bits
    <3>. QED
      BY <3>1, <3>2
  <2>. QED
    BY <2>4, <2>5, <2>6 DEF y
<1>. QED
  BY <1>4, <1>5
(* q + carry, for a carry of 0 or 1: the bits that the carry reaches.         *)
Reaches(i, q, carry) == CarryInto(i, q, carry) \/ i \in carry

LEMMA Increment ==
    ASSUME NEW q \in Word, NEW carry \in Word, carry = {} \/ carry = One
    PROVE  /\ Reaches(0, q, carry) <=> carry = One
           /\ \A i \in Bits : /\ i \in Add(q, carry) <=> ~(i \in q <=> Reaches(i, q, carry))
                              /\ Reaches(i + 1, q, carry) <=> i \in q /\ Reaches(i, q, carry)
<1>1. carry \in Word /\ q \in SUBSET Nat /\ carry \in SUBSET Nat
  BY WordsAreSets
<1>2. ~CarryInto(0, q, carry)
  BY <1>1, NoCarryIntoFirst
<1>3. \A i : i \in carry <=> i = 0 /\ carry = One
  <2>1. One = {0} /\ One # {}
    BY DEF One
  <2>. QED
    BY <2>1
<1>4. ASSUME NEW i \in Bits
      PROVE  /\ i \in Add(q, carry) <=> ~(i \in q <=> Reaches(i, q, carry))
             /\ Reaches(i + 1, q, carry) <=> i \in q /\ Reaches(i, q, carry)
  <2>1. i \in Nat /\ i + 1 # 0
    BY DEF Bits
  <2>2. i \in Add(q, carry) <=> ((i \in q <=> i \in carry) <=> CarryInto(i, q, carry))
    BY <1>1, AddBit
  <2>3. CarryInto(i + 1, q, carry) <=> \/ i \in q /\ i \in carry
                                       \/ (i \in q \/ i \in carry) /\ CarryInto(i, q, carry)
    BY <1>1, <2>1, CarryStep
  <2>4. ~(i \in carry /\ CarryInto(i, q, carry)) /\ i + 1 \notin carry
    BY <1>2, <1>3, <2>1
  <2>. QED
    BY <2>2, <2>3, <2>4 DEF Reaches
<1>. QED
  BY <1>2, <1>3, <1>4 DEF Reaches

(* The number of 2 W bits whose halves are two words.                         *)
Joined(low, high) == low \cup {i + W : i \in high}

LEMMA JoinedBits ==
    ASSUME NEW l \in Word, NEW h \in Word
    PROVE  /\ Joined(l, h) \in SUBSET (0..(2 * W - 1))
           /\ \A i \in Bits : /\ i \in Joined(l, h) <=> i \in l
                              /\ W + i \in Joined(l, h) <=> i \in h
<1>1. \A i \in Bits : i \in 0..(2 * W - 1) /\ i + W \in 0..(2 * W - 1) /\ W + i \notin Bits
  BY DEF Bits
<1>2. \A i, j \in Bits : j + W # i /\ (j + W = W + i => j = i)
  BY DEF Bits
<1>3. l \subseteq Bits /\ h \subseteq Bits
  BY DEF Word
<1>4. \A i \in Bits : W + i = i + W
  BY DEF Bits
<1>5. Joined(l, h) \in SUBSET (0..(2 * W - 1))
  BY <1>1, <1>3 DEF Joined
<1>6. ASSUME NEW i \in Bits
      PROVE  i \in Joined(l, h) <=> i \in l
  BY <1>2, <1>3 DEF Joined
<1>7. ASSUME NEW i \in Bits
      PROVE  W + i \in Joined(l, h) <=> i \in h
  BY <1>1, <1>2, <1>3, <1>4 DEF Joined
<1>. QED
  BY <1>5, <1>6, <1>7

(* Two sums of words with the carry from the first to the second are the sum  *)
(* of the numbers that the words are halves of.                               *)
LEMMA JoinedSum ==
    ASSUME NEW a \in Word, NEW b \in Word, NEW p \in Word, NEW q \in Word,
           NEW carry \in Word, carry = {} \/ carry = One, carry = One <=> CarryInto(W, a, p)
    PROVE  Joined(Add(a, p), Add(b, Add(q, carry))) = Wide!Add(Joined(a, b), Joined(p, q))
<1>. DEFINE X == Joined(a, b)
            Y == Joined(p, q)
            r == Add(q, carry)
            low == Add(a, p)
            high == Add(b, r)
            P(i) == CarryInto(i, b, r)
            K(i) == Reaches(i, q, carry)
            E(i) == CarryInto(W + i, X, Y)
<1>1. r \in Word /\ low \in Word /\ high \in Word /\ carry \in Word
  BY ArithmeticType
<1>2. X \in SUBSET (0..(2 * W - 1)) /\ Y \in SUBSET (0..(2 * W - 1))
  BY JoinedBits
<1>3. /\ \A i \in Bits : (i \in X <=> i \in a) /\ (i \in Y <=> i \in p)
      /\ \A i \in Bits : (W + i \in X <=> i \in b) /\ (W + i \in Y <=> i \in q)
  BY JoinedBits
<1>4. X \in SUBSET Nat /\ Y \in SUBSET Nat
  BY <1>2
<1>. HIDE DEF X, Y
<1>5. ASSUME NEW n \in 0..W
      PROVE  CarryInto(n, X, Y) <=> CarryInto(n, a, p)
  <2>1. \A i \in Nat : i < n => i \in Bits
    BY DEF Bits
  <2>2. Below(n, X, a) /\ Below(n, Y, p)
    BY <1>3, <2>1 DEF Below
  <2>. QED
    BY <1>4, <2>2, CarryDepends, WordsAreSets
<1>6. E(0) <=> K(0)
  <2>1. W \in 0..W /\ W + 0 = W
    OBVIOUS
  <2>2. E(0) <=> CarryInto(W, a, p)
    BY <1>5, <2>1
  <2>. QED
    BY <2>2, Increment
<1>7. ~P(0)
  BY <1>1, NoCarryIntoFirst, WordsAreSets
<1>8. ASSUME NEW i \in Bits
      PROVE  /\ i \in r <=> ~(i \in q <=> K(i))
             /\ K(i + 1) <=> i \in q /\ K(i)
             /\ P(i + 1) <=> \/ i \in b /\ i \in r
                             \/ (i \in b \/ i \in r) /\ P(i)
             /\ E(i + 1) <=> \/ i \in b /\ i \in q
                             \/ (i \in b \/ i \in q) /\ E(i)
  <2>1. /\ i \in r <=> ~(i \in q <=> K(i))
        /\ K(i + 1) <=> i \in q /\ K(i)
    BY Increment
  <2>2. P(i + 1) <=> \/ i \in b /\ i \in r
                     \/ (i \in b \/ i \in r) /\ P(i)
    BY <1>1, CarryStep, WordsAreSets
  <2>3. E(i + 1) <=> \/ i \in b /\ i \in q
                     \/ (i \in b \/ i \in q) /\ E(i)
    <3>1. W + i \in Nat /\ (W + i) + 1 = W + (i + 1)
      BY DEF Bits
    <3>2. CarryInto((W + i) + 1, X, Y) <=> \/ W + i \in X /\ W + i \in Y
                                           \/ (W + i \in X \/ W + i \in Y) /\ CarryInto(W + i, X, Y)
      BY <1>4, <3>1, CarryStep
    <3>. QED
      BY <1>3, <3>1, <3>2
  <2>. QED
    BY <2>1, <2>2, <2>3
<1>. HIDE DEF P, K, E, r
(* The carry of the whole sum is that of one of the two sums of which the     *)
(* high word is made.                                                         *)
<1>. DEFINE Either(i) == (E(i) <=> P(i) \/ K(i)) /\ ~(P(i) /\ K(i))
            S == {n \in 0..W : ~Either(n)}
<1>9. Either(0)
  BY <1>6, <1>7
<1>10. ASSUME NEW i \in Bits, Either(i)
       PROVE  Either(i + 1)
  BY <1>8, <1>10
<1>. HIDE DEF Either
<1>11. S = {}
  <2>1. S \in SUBSET Nat
    OBVIOUS
  <2>2. SUFFICES ASSUME S # {}
                 PROVE  FALSE
    OBVIOUS
  <2>3. PICK n \in S : \A k \in S : n <= k
    <3>. HIDE DEF S
    <3>. QED
      BY <2>1, <2>2, LeastElement
  <2>4. n \in 0..W /\ n # 0 /\ ~Either(n)
    BY <1>9
  <2>5. n - 1 \in Bits /\ n - 1 \in 0..W /\ n - 1 < n /\ (n - 1) + 1 = n
    BY <2>4 DEF Bits
  <2>6. n - 1 \notin S
    <3>1. n \in Nat
      BY <2>4
    <3>. HIDE DEF S
    <3>. QED
      BY <2>3, <2>5, <3>1
  <2>7. Either(n - 1)
    BY <2>5, <2>6
  <2>. QED
    BY <1>10, <2>4, <2>5, <2>7
<1>12. ASSUME NEW i \in Bits
       PROVE  Either(i)
  BY <1>11 DEF Bits
<1>13. ASSUME NEW i \in Bits
       PROVE  i \in low <=> ((i \in X <=> i \in Y) <=> CarryInto(i, X, Y))
  <2>1. i \in low <=> ((i \in a <=> i \in p) <=> CarryInto(i, a, p))
    BY AddBit
  <2>2. CarryInto(i, X, Y) <=> CarryInto(i, a, p)
    BY <1>5 DEF Bits
  <2>3. (i \in X <=> i \in a) /\ (i \in Y <=> i \in p)
    BY <1>3
  <2>. QED
    BY <2>1, <2>2, <2>3
<1>14. ASSUME NEW i \in Bits
       PROVE  i \in high <=> ((W + i \in X <=> W + i \in Y) <=> E(i))
  <2>1. i \in high <=> ((i \in b <=> i \in r) <=> P(i))
    BY <1>1, AddBit DEF P
  <2>2. i \in r <=> ~(i \in q <=> K(i))
    BY <1>8
  <2>3. (E(i) <=> P(i) \/ K(i)) /\ ~(P(i) /\ K(i))
    BY <1>12 DEF Either
  <2>4. (W + i \in X <=> i \in b) /\ (W + i \in Y <=> i \in q)
    BY <1>3
  <2>. QED
    BY <2>1, <2>2, <2>3, <2>4
<1>15. Wide!Add(X, Y) = {n \in 0..(2 * W - 1) : (n \in X <=> n \in Y) <=> CarryInto(n, X, Y)}
  BY DEF Wide!Add, Wide!Bits, Wide!CarryInto, CarryInto
<1>16. /\ Joined(low, high) \in SUBSET (0..(2 * W - 1))
       /\ \A i \in Bits : /\ i \in Joined(low, high) <=> i \in low
                          /\ W + i \in Joined(low, high) <=> i \in high
  BY <1>1, JoinedBits
<1>17. ASSUME NEW n \in 0..(2 * W - 1)
       PROVE  n \in Joined(low, high) <=> ((n \in X <=> n \in Y) <=> CarryInto(n, X, Y))
  <2>. HIDE DEF low, high
  <2>1. CASE n < W
    <3>1. n \in Bits
      BY <2>1 DEF Bits
    <3>. QED
      BY <1>13, <1>16, <3>1
  <2>2. CASE n >= W
    <3>1. n - W \in Bits /\ W + (n - W) = n
      BY <2>2 DEF Bits
    <3>2. n \in Joined(low, high) <=> n - W \in high
      BY <1>16, <3>1
    <3>3. n - W \in high <=> ((n \in X <=> n \in Y) <=> CarryInto(n, X, Y))
      BY <1>14, <3>1 DEF E
    <3>. QED
      BY <3>2, <3>3
  <2>. QED
    BY <2>1, <2>2
<1>18. Joined(low, high) = Wide!Add(X, Y)
  <2>. HIDE DEF low, high
  <2>. QED
    BY <1>15, <1>16, <1>17
<1>. QED
  BY <1>18 DEF X, Y, r

(* The two words of xsm, of any width, are one number of twice the width that *)
(* moves by the constant p1 and, in its upper half, by the lower half and p2: *)
(* the comparison of the source finds every carry between the halves.         *)
THEOREM XsmIsOneNumber ==
    ASSUME NEW p1 \in Word, NEW p2 \in Word, NEW s \in [0..1 -> Word]
    PROVE  LET t == xsm_step(s, p1, p2)
           IN  Joined(t[0], t[1]) = Wide!Add(Joined(s[0], s[1]), Joined(p1, Add(s[0], p2)))
<1>. DEFINE low   == Add(s[0], p1)
            q     == Add(s[0], p2)
            carry == IF Less(low, p1) THEN One ELSE {}
<1>1. carry = One <=> CarryInto(W, s[0], p1)
  <2>1. One # {}
    BY DEF One
  <2>2. Less(low, p1) <=> CarryInto(W, s[0], p1)
    BY CarryFound
  <2>. QED
    BY <2>1, <2>2
<1>2. /\ xsm_step(s, p1, p2)[0] = low
      /\ xsm_step(s, p1, p2)[1] = Add(s[1], Add(q, carry))
  BY DEF xsm_step
<1>3. /\ carry \in Word /\ (carry = {} \/ carry = One)
      /\ q \in Word /\ s[0] \in Word /\ s[1] \in Word
  <2>1. {} \in Word
    BY DEF Word
  <2>. QED
    BY <2>1, ArithmeticType
<1>. HIDE DEF carry, q
<1>4. Joined(low, Add(s[1], Add(q, carry))) = Wide!Add(Joined(s[0], s[1]), Joined(p1, q))
  BY <1>1, <1>3, JoinedSum
<1>. QED
  BY <1>2, <1>4 DEF q

LEMMA XsmOneToOne ==
    ASSUME NEW p1 \in Word, NEW p2 \in Word
    PROVE  /\ \A s \in [0..1 -> Word] : xsm_step(s, p1, p2) \in [0..1 -> Word]
           /\ \A s, u \in [0..1 -> Word] : xsm_step(s, p1, p2) = xsm_step(u, p1, p2) => s = u
<1>. DEFINE Carry(x) == IF Less(Add(x, p1), p1) THEN One ELSE {}
            Move(x) == Add(Add(x, p2), Carry(x))
<1>1. ASSUME NEW s
      PROVE  xsm_step(s, p1, p2) = [s EXCEPT ![0] = Add(s[0], p1), ![1] = Add(s[1], Move(s[0]))]
  BY DEF xsm_step
<1>2. \A x : Move(x) \in Word
  BY ArithmeticType
<1>. HIDE DEF Move
<1>3. ASSUME NEW s \in [0..1 -> Word]
      PROVE  xsm_step(s, p1, p2) \in [0..1 -> Word]
  <2>1. Add(s[0], p1) \in Word /\ Add(s[1], Move(s[0])) \in Word
    BY ArithmeticType
  <2>. QED
    BY <1>1, <2>1
<1>4. ASSUME NEW s \in [0..1 -> Word], NEW u \in [0..1 -> Word],
             xsm_step(s, p1, p2) = xsm_step(u, p1, p2)
      PROVE  s = u
  <2>1. /\ Add(s[0], p1) = Add(u[0], p1)
        /\ Add(s[1], Move(s[0])) = Add(u[1], Move(u[0]))
    BY <1>1, <1>4
  <2>2. s[0] = u[0]
    BY <2>1, AddCancels
  <2>3. s[1] = u[1]
    BY <1>2, <2>1, <2>2, AddCancels
  <2>. QED
    BY <2>2, <2>3
<1>. QED
  BY <1>3, <1>4

(* lxm: its congruential word, whose increment is odd or even alike, and its *)
(* xoroshiro together take different states to different states.              *)
THEOREM LxmOneToOne ==
    ASSUME NEW m \in Word, 0 \in m, NEW a \in Bits, NEW b \in Nat, NEW c \in Bits
    PROVE  /\ \A s \in [0..3 -> Word] : Lxm(s, m, a, b, c) \in [0..3 -> Word]
           /\ \A s, u \in [0..3 -> Word] : Lxm(s, m, a, b, c) = Lxm(u, m, a, b, c) => s = u
<1>1. ASSUME NEW s \in [0..3 -> Word]
      PROVE  Lxm(s, m, a, b, c) \in [0..3 -> Word]
  <2>1. /\ lcg(s[1], m, s[0]) \in Word
        /\ Xor(Rotl(s[2], a), Xor(Xor(s[3], s[2]), Shl(Xor(s[3], s[2]), b))) \in Word
        /\ Rotl(Xor(s[3], s[2]), c) \in Word
    BY LcgType, ArithmeticType
  <2>. QED
    BY <2>1 DEF Lxm
<1>2. ASSUME NEW s \in [0..3 -> Word], NEW u \in [0..3 -> Word], Lxm(s, m, a, b, c) = Lxm(u, m, a, b, c)
      PROVE  s = u
  <2>1. /\ s[0] = u[0]
        /\ lcg(s[1], m, s[0]) = lcg(u[1], m, u[0])
        /\ Xor(Rotl(s[2], a), Xor(Xor(s[3], s[2]), Shl(Xor(s[3], s[2]), b)))
              = Xor(Rotl(u[2], a), Xor(Xor(u[3], u[2]), Shl(Xor(u[3], u[2]), b)))
        /\ Rotl(Xor(s[3], s[2]), c) = Rotl(Xor(u[3], u[2]), c)
    BY <1>2 DEF Lxm
  <2>2. s[1] = u[1]
    BY <2>1, LcgOneToOne
  <2>3. Xor(s[3], s[2]) = Xor(u[3], u[2])
    BY <2>1, RotlInjective, ArithmeticType
  <2>4. Rotl(s[2], a) = Rotl(u[2], a)
    BY <2>1, <2>3, XorCancels
  <2>5. s[2] = u[2]
    BY <2>4, RotlInjective
  <2>6. s[3] = u[3]
    BY <2>3, <2>5, XorCancels
  <2>. QED
    BY <2>1, <2>2, <2>5, <2>6
<1>. QED
  BY <1>1, <1>2

-----------------------------------------------------------------------------
(* Streams of the PRNGs that add and multiply                                 *)

(* Streams of sfc32 and sfc64 from different seeds never merge: with words of *)
(* any width, any shift but 0 and any rotation.                               *)
THEOREM SfcApart ==
    ASSUME NEW k \in Nat \ {0}, NEW r \in Bits,
           Seeds = [0..3 -> Word],
           Step = [o \in State |-> [o EXCEPT !.s = Sfc(@, k, r)]]
    PROVE  Spec => []StreamsApart
<1>. DEFINE F == [s \in Seeds |-> Sfc(s, k, r)]
<1>1. F \in [Seeds -> Seeds] /\ \A s, u \in Seeds : F[s] = F[u] => s = u
  BY SfcOneToOne
<1>2. Step = [o \in State |-> [o EXCEPT !.s = F[@]]]
  BY DEF State
<1>. HIDE DEF F
<1>. QED
  BY <1>1, <1>2, UpdateIsOneToOne, Apart

(* The same of stc_crand32 and stc_crand64, with any increment.               *)
THEOREM StcCrandApart ==
    ASSUME NEW inc \in Word, NEW k \in Nat \ {0}, NEW r \in Bits,
           Seeds = [0..3 -> Word],
           Step = [o \in State |-> [o EXCEPT !.s = StcCrand(@, inc, k, r)]]
    PROVE  Spec => []StreamsApart
<1>. DEFINE F == [s \in Seeds |-> StcCrand(s, inc, k, r)]
<1>1. F \in [Seeds -> Seeds] /\ \A s, u \in Seeds : F[s] = F[u] => s = u
  BY StcCrandOneToOne
<1>2. Step = [o \in State |-> [o EXCEPT !.s = F[@]]]
  BY DEF State
<1>. HIDE DEF F
<1>. QED
  BY <1>1, <1>2, UpdateIsOneToOne, Apart

(* The same of biski64.                                                       *)
THEOREM BiskiApart ==
    ASSUME NEW inc \in Word, NEW r1 \in Bits, NEW r2 \in Bits,
           Seeds = [0..2 -> Word],
           Step = [o \in State |-> [o EXCEPT !.s = Biski(@, inc, r1, r2)]]
    PROVE  Spec => []StreamsApart
<1>. DEFINE F == [s \in Seeds |-> Biski(s, inc, r1, r2)]
<1>1. F \in [Seeds -> Seeds] /\ \A s, u \in Seeds : F[s] = F[u] => s = u
  BY BiskiOneToOne
<1>2. Step = [o \in State |-> [o EXCEPT !.s = F[@]]]
  BY DEF State
<1>. HIDE DEF F
<1>. QED
  BY <1>1, <1>2, UpdateIsOneToOne, Apart

(* The same of jsf32_2, jsf32_3 and jsf64.                                    *)
THEOREM JsfApart ==
    ASSUME NEW r1 \in Bits, NEW r2 \in Bits, NEW r3 \in Bits,
           Seeds = [0..3 -> Word],
           Step = [o \in State |-> [o EXCEPT !.s = Jsf(@, r1, r2, r3)]]
    PROVE  Spec => []StreamsApart
<1>. DEFINE F == [s \in Seeds |-> Jsf(s, r1, r2, r3)]
<1>1. F \in [Seeds -> Seeds] /\ \A s, u \in Seeds : F[s] = F[u] => s = u
  BY JsfOneToOne
<1>2. Step = [o \in State |-> [o EXCEPT !.s = F[@]]]
  BY DEF State
<1>. HIDE DEF F
<1>. QED
  BY <1>1, <1>2, UpdateIsOneToOne, Apart

(* The same of gjrand.                                                        *)
THEOREM GjrandApart ==
    ASSUME NEW inc \in Word, NEW r1 \in Bits, NEW r2 \in Bits, NEW r3 \in Bits,
           Seeds = [0..3 -> Word],
           Step = [o \in State |-> [o EXCEPT !.s = Gjrand(@, inc, r1, r2, r3)]]
    PROVE  Spec => []StreamsApart
<1>. DEFINE F == [s \in Seeds |-> Gjrand(s, inc, r1, r2, r3)]
<1>1. F \in [Seeds -> Seeds] /\ \A s, u \in Seeds : F[s] = F[u] => s = u
  BY GjrandOneToOne
<1>2. Step = [o \in State |-> [o EXCEPT !.s = F[@]]]
  BY DEF State
<1>. HIDE DEF F
<1>. QED
  BY <1>1, <1>2, UpdateIsOneToOne, Apart

(* The same of romu_quad and romu_quad32, with any odd multiplier, as their   *)
(* static_assert asks for.                                                    *)
THEOREM RomuQuadApart ==
    ASSUME NEW m \in Word, 0 \in m, NEW r1 \in Bits, NEW r2 \in Bits,
           Seeds = [0..3 -> Word],
           Step = [o \in State |-> [o EXCEPT !.s = RomuQuad(@, m, r1, r2)]]
    PROVE  Spec => []StreamsApart
<1>. DEFINE F == [s \in Seeds |-> RomuQuad(s, m, r1, r2)]
<1>1. F \in [Seeds -> Seeds] /\ \A s, u \in Seeds : F[s] = F[u] => s = u
  BY RomuQuadOneToOne
<1>2. Step = [o \in State |-> [o EXCEPT !.s = F[@]]]
  BY DEF State
<1>. HIDE DEF F
<1>. QED
  BY <1>1, <1>2, UpdateIsOneToOne, Apart

(* The same of romu_trio and romu_trio32.                                     *)
THEOREM RomuTrioApart ==
    ASSUME NEW m \in Word, 0 \in m, NEW r1 \in Bits, NEW r2 \in Bits,
           Seeds = [0..2 -> Word],
           Step = [o \in State |-> [o EXCEPT !.s = RomuTrio(@, m, r1, r2)]]
    PROVE  Spec => []StreamsApart
<1>. DEFINE F == [s \in Seeds |-> RomuTrio(s, m, r1, r2)]
<1>1. F \in [Seeds -> Seeds] /\ \A s, u \in Seeds : F[s] = F[u] => s = u
  BY RomuTrioOneToOne
<1>2. Step = [o \in State |-> [o EXCEPT !.s = F[@]]]
  BY DEF State
<1>. HIDE DEF F
<1>. QED
  BY <1>1, <1>2, UpdateIsOneToOne, Apart

(* The same of romu_duo.                                                      *)
THEOREM RomuDuoApart ==
    ASSUME NEW m \in Word, 0 \in m, NEW r1 \in Bits, NEW r2 \in Bits,
           Seeds = [0..1 -> Word],
           Step = [o \in State |-> [o EXCEPT !.s = RomuDuo(@, m, r1, r2)]]
    PROVE  Spec => []StreamsApart
<1>. DEFINE F == [s \in Seeds |-> RomuDuo(s, m, r1, r2)]
<1>1. F \in [Seeds -> Seeds] /\ \A s, u \in Seeds : F[s] = F[u] => s = u
  BY RomuDuoOneToOne
<1>2. Step = [o \in State |-> [o EXCEPT !.s = F[@]]]
  BY DEF State
<1>. HIDE DEF F
<1>. QED
  BY <1>1, <1>2, UpdateIsOneToOne, Apart

(* The same of romu_duo_jr.                                                   *)
THEOREM RomuDuoJrApart ==
    ASSUME NEW m \in Word, 0 \in m, NEW r \in Bits,
           Seeds = [0..1 -> Word],
           Step = [o \in State |-> [o EXCEPT !.s = RomuDuoJr(@, m, r)]]
    PROVE  Spec => []StreamsApart
<1>. DEFINE F == [s \in Seeds |-> RomuDuoJr(s, m, r)]
<1>1. F \in [Seeds -> Seeds] /\ \A s, u \in Seeds : F[s] = F[u] => s = u
  BY RomuDuoOneToOne
<1>2. Step = [o \in State |-> [o EXCEPT !.s = F[@]]]
  BY DEF State
<1>. HIDE DEF F
<1>. QED
  BY <1>1, <1>2, UpdateIsOneToOne, Apart

(* The same of xsm32 and xsm64.                                               *)
THEOREM XsmApart ==
    ASSUME NEW p1 \in Word, NEW p2 \in Word,
           Seeds = [0..1 -> Word],
           Step = [o \in State |-> [o EXCEPT !.s = xsm_step(@, p1, p2)]]
    PROVE  Spec => []StreamsApart
<1>. DEFINE F == [s \in Seeds |-> xsm_step(s, p1, p2)]
<1>1. F \in [Seeds -> Seeds] /\ \A s, u \in Seeds : F[s] = F[u] => s = u
  BY XsmOneToOne
<1>2. Step = [o \in State |-> [o EXCEPT !.s = F[@]]]
  BY DEF State
<1>. HIDE DEF F
<1>. QED
  BY <1>1, <1>2, UpdateIsOneToOne, Apart

(* The same of the linear congruential PRNGs (lcg, mcg, pcg), whose state is  *)
(* one number, with any odd multiplier and any increment.                     *)
THEOREM LcgApart ==
    ASSUME NEW m \in Word, 0 \in m, NEW c \in Word, Seeds = Word,
           Step = [o \in State |-> [o EXCEPT !.s = lcg(@, m, c)]]
    PROVE  Spec => []StreamsApart
<1>. DEFINE F == [s \in Seeds |-> lcg(s, m, c)]
<1>1. F \in [Seeds -> Seeds]
  BY LcgType
<1>2. ASSUME NEW s \in Seeds, NEW u \in Seeds, F[s] = F[u]
      PROVE  s = u
  BY <1>2, LcgOneToOne
<1>3. Step = [o \in State |-> [o EXCEPT !.s = F[@]]]
  BY DEF State
<1>. HIDE DEF F
<1>. QED
  BY <1>1, <1>2, <1>3, UpdateIsOneToOne, Apart

(* The same of lehmer64, which adds 1 before it multiplies.                   *)
THEOREM LehmerApart ==
    ASSUME NEW m \in Word, 0 \in m, Seeds = Word,
           Step = [o \in State |-> [o EXCEPT !.s = lehmer(@, m)]]
    PROVE  Spec => []StreamsApart
<1>. DEFINE F == [s \in Seeds |-> lehmer(s, m)]
<1>1. F \in [Seeds -> Seeds]
  BY MulType, ArithmeticType DEF lehmer
<1>2. ASSUME NEW s \in Seeds, NEW u \in Seeds, F[s] = F[u]
      PROVE  s = u
  <2>1. Mul(Add(s, One), m) = Mul(Add(u, One), m)
    BY <1>2 DEF lehmer
  <2>2. Add(s, One) = Add(u, One)
    BY <2>1, MulInjective, ArithmeticType
  <2>. QED
    BY <2>2, AddCancels, ArithmeticType
<1>3. Step = [o \in State |-> [o EXCEPT !.s = F[@]]]
  BY DEF State
<1>. HIDE DEF F
<1>. QED
  BY <1>1, <1>2, <1>3, UpdateIsOneToOne, Apart

(* The same of klimov_shamir_32: the "must be 1" of the first bit of its      *)
(* constant is what its square needs.                                         *)
THEOREM KlimovShamirApart ==
    ASSUME NEW c \in Word, 0 \in c, Seeds = Word,
           Step = [o \in State |-> [o EXCEPT !.s = KlimovShamir(@, c)]]
    PROVE  Spec => []StreamsApart
<1>. DEFINE F == [s \in Seeds |-> KlimovShamir(s, c)]
<1>1. F \in [Seeds -> Seeds]
  BY ArithmeticType DEF KlimovShamir
<1>2. ASSUME NEW s \in Seeds, NEW u \in Seeds, F[s] = F[u]
      PROVE  s = u
  BY <1>2, KlimovShamirOneToOne
<1>3. Step = [o \in State |-> [o EXCEPT !.s = F[@]]]
  BY DEF State
<1>. HIDE DEF F
<1>. QED
  BY <1>1, <1>2, <1>3, UpdateIsOneToOne, Apart

-----------------------------------------------------------------------------
(* shioi and seiran, whose distances go together with words of 64 bits: a     *)
(* word that the update takes to zero is followed from bit to bit.            *)

(* x << 2 ^ x >> 19, the second shift that of a signed integer                *)
LEMMA ShioiKernel ==
    ASSUME W = 64, NEW x \in Word, Shl(x, 2) = Sar(x, 19)
    PROVE  x = {}
<1>1. ASSUME NEW i \in 0..63
      PROVE  (i >= 2 /\ i - 2 \in x) <=> (i + 19 \in x \/ (i + 19 >= 64 /\ 63 \in x))
  <2>1. i \in Shl(x, 2) <=> (i >= 2 /\ i - 2 \in x)
    BY DEF Shl, Bits
  <2>2. i \in Sar(x, 19) <=> (i + 19 \in x \/ (i + 19 >= 64 /\ 63 \in x))
    BY DEF Sar, Shr, Bits
  <2>. QED
    BY <2>1, <2>2
<1>2. \A i \in x : i \in 0..63
  BY DEF Word, Bits
<1>3. 19 \notin x /\ 20 \notin x
  BY <1>1
<1>4. ASSUME NEW j \in 0..42
      PROVE  j + 21 \in x <=> j \in x
  <2>1. j + 2 \in 0..63 /\ (j + 2) - 2 = j /\ j + 2 >= 2 /\ (j + 2) + 19 = j + 21 /\ ~(j + 21 >= 64)
    OBVIOUS
  <2>. QED
    BY <1>1, <2>1
<1>5. ASSUME NEW j \in 43..61
      PROVE  j \in x <=> 63 \in x
  <2>1. /\ j + 2 \in 0..63 /\ (j + 2) - 2 = j /\ j + 2 >= 2
        /\ (j + 2) + 19 \notin 0..63 /\ (j + 2) + 19 >= 64
    OBVIOUS
  <2>. QED
    BY <1>1, <1>2, <2>1
<1>6. 61 \notin x /\ 62 \notin x /\ 63 \notin x
  <2>1. (40 \in x <=> 19 \in x) /\ (61 \in x <=> 40 \in x)
    BY <1>4
  <2>2. (41 \in x <=> 20 \in x) /\ (62 \in x <=> 41 \in x)
    BY <1>4
  <2>. QED
    BY <1>3, <1>5, <2>1, <2>2
<1>7. ASSUME NEW j \in 43..63
      PROVE  j \notin x
  <2>1. j \in 43..61 \/ j = 62 \/ j = 63
    OBVIOUS
  <2>. QED
    BY <1>5, <1>6, <2>1
<1>8. ASSUME NEW j \in 22..42
      PROVE  j \notin x
  <2>1. j \in 0..42 /\ j + 21 \in 43..63
    OBVIOUS
  <2>. QED
    BY <1>4, <1>7, <2>1
<1>9. 21 \notin x /\ 0 \notin x
  <2>1. (42 \in x <=> 21 \in x) /\ (21 \in x <=> 0 \in x)
    BY <1>4
  <2>. QED
    BY <1>8, <2>1
<1>10. ASSUME NEW j \in 1..21
       PROVE  j \notin x
  <2>1. j \in 0..42 /\ (j + 21 \in 22..42)
    OBVIOUS
  <2>. QED
    BY <1>4, <1>8, <2>1
<1>11. \A j \in 0..63 : j = 0 \/ j \in 1..21 \/ j \in 22..42 \/ j \in 43..63
  OBVIOUS
<1>. QED
  BY <1>2, <1>7, <1>8, <1>9, <1>10, <1>11

(* rotl(x, 29) ^ (x << 9)                                                     *)
LEMMA SeiranKernel ==
    ASSUME W = 64, NEW x \in Word, Rotl(x, 29) = Shl(x, 9)
    PROVE  x = {}
<1>1. \A i \in x : i \in 0..63
  BY DEF Word, Bits
<1>2. ASSUME NEW i \in 0..63
      PROVE  i \in Shl(x, 9) <=> (i >= 9 /\ i - 9 \in x)
  BY DEF Shl, Bits
<1>3. ASSUME NEW j \in 0..34
      PROVE  j + 29 \in Rotl(x, 29) <=> j \in x
  <2>1. \A i \in 0..63 : (i + 29) % 64 = j + 29 <=> i = j
    OBVIOUS
  <2>. QED
    BY <1>1, <2>1 DEF Rotl
<1>4. ASSUME NEW j \in 35..63
      PROVE  j - 35 \in Rotl(x, 29) <=> j \in x
  <2>1. \A i \in 0..63 : (i + 29) % 64 = j - 35 <=> i = j
    OBVIOUS
  <2>. QED
    BY <1>1, <2>1 DEF Rotl
<1>5. ASSUME NEW j \in 35..43
      PROVE  j \notin x
  <2>1. j \in 35..63 /\ j - 35 \in 0..63 /\ ~(j - 35 >= 9)
    OBVIOUS
  <2>. QED
    BY <1>2, <1>4, <2>1
<1>6. ASSUME NEW j \in 0..34
      PROVE  j + 20 \in x <=> j \in x
  <2>1. j + 29 \in 0..63 /\ j + 29 >= 9 /\ (j + 29) - 9 = j + 20
    OBVIOUS
  <2>. QED
    BY <1>2, <1>3, <2>1
<1>7. ASSUME NEW j \in 0..19
      PROVE  j + 44 \in x <=> j \in x
  <2>1. /\ j + 44 \in 35..63 /\ (j + 44) - 35 = j + 9 /\ j + 9 \in 0..63
        /\ j + 9 >= 9 /\ (j + 9) - 9 = j
    OBVIOUS
  <2>. QED
    BY <1>2, <1>4, <2>1
<1>8. ASSUME NEW j \in 15..23
      PROVE  j \notin x
  <2>1. j \in 0..34 /\ j + 20 \in 35..43
    OBVIOUS
  <2>. QED
    BY <1>5, <1>6, <2>1
<1>9. ASSUME NEW j \in 0..3
      PROVE  j \notin x
  <2>1. j \in 0..34 /\ j + 20 \in 15..23
    OBVIOUS
  <2>. QED
    BY <1>6, <1>8, <2>1
<1>10. ASSUME NEW j \in 0..10
       PROVE  j + 4 \in x <=> j \in x
  <2>1. /\ j \in 0..19 /\ j + 4 \in 0..34 /\ (j + 4) + 20 = j + 24
        /\ j + 24 \in 0..34 /\ (j + 24) + 20 = j + 44
    OBVIOUS
  <2>. QED
    BY <1>6, <1>7, <2>1
<1>11. ASSUME NEW j \in 4..7
       PROVE  j \notin x
  <2>1. j - 4 \in 0..3 /\ j - 4 \in 0..10 /\ (j - 4) + 4 = j
    OBVIOUS
  <2>. QED
    BY <1>9, <1>10, <2>1
<1>12. ASSUME NEW j \in 8..11
       PROVE  j \notin x
  <2>1. j - 4 \in 4..7 /\ j - 4 \in 0..10 /\ (j - 4) + 4 = j
    OBVIOUS
  <2>. QED
    BY <1>10, <1>11, <2>1
<1>13. ASSUME NEW j \in 12..14
       PROVE  j \notin x
  <2>1. j - 4 \in 8..11 /\ j - 4 \in 0..10 /\ (j - 4) + 4 = j
    OBVIOUS
  <2>. QED
    BY <1>10, <1>12, <2>1
<1>14. ASSUME NEW j \in 0..23
       PROVE  j \notin x
  <2>1. j \in 0..3 \/ j \in 4..7 \/ j \in 8..11 \/ j \in 12..14 \/ j \in 15..23
    OBVIOUS
  <2>. QED
    BY <1>8, <1>9, <1>11, <1>12, <1>13, <2>1
<1>15. ASSUME NEW j \in 24..34
       PROVE  j \notin x
  <2>1. j - 20 \in 0..23 /\ j - 20 \in 0..34 /\ (j - 20) + 20 = j
    OBVIOUS
  <2>. QED
    BY <1>6, <1>14, <2>1
<1>16. ASSUME NEW j \in 44..63
       PROVE  j \notin x
  <2>1. j - 44 \in 0..23 /\ j - 44 \in 0..19 /\ (j - 44) + 44 = j
    OBVIOUS
  <2>. QED
    BY <1>7, <1>14, <2>1
<1>17. \A j \in 0..63 : j \in 0..23 \/ j \in 24..34 \/ j \in 35..43 \/ j \in 44..63
  OBVIOUS
<1>. QED
  BY <1>1, <1>5, <1>14, <1>15, <1>16, <1>17

(* The operators of both are linear, so that a kernel of zero is enough.      *)
LEMMA LinearShifts ==
    ASSUME NEW x \in Word, NEW y \in Word, NEW k \in Bits
    PROVE  /\ Xor(x, y) \in Word
           /\ Shl(Xor(x, y), k) = Xor(Shl(x, k), Shl(y, k))
           /\ Sar(Xor(x, y), k) = Xor(Sar(x, k), Sar(y, k))
           /\ Rotl(Xor(x, y), k) = Xor(Rotl(x, k), Rotl(y, k))
<1>1. Xor(x, y) \in Word
  BY ArithmeticType
<1>2. Shl(Xor(x, y), k) = Xor(Shl(x, k), Shl(y, k))
  BY DEF Shl, Xor, SymDiff
<1>3. Sar(Xor(x, y), k) = Xor(Sar(x, k), Sar(y, k))
  <2>1. ASSUME NEW z \in Word, NEW i
        PROVE  i \in Sar(z, k) <=> i \in Bits /\ IF i + k >= W THEN W - 1 \in z ELSE i + k \in z
    BY DEF Sar, Shr, Word, Bits
  <2>. DEFINE at(i) == IF i + k >= W THEN W - 1 ELSE i + k
  <2>2. \A z \in Word : \A i : i \in Sar(z, k) <=> i \in Bits /\ at(i) \in z
    BY <2>1
  <2>3. \A i : i \in Sar(Xor(x, y), k) <=> i \in Bits /\ ~(at(i) \in x <=> at(i) \in y)
    BY <1>1, <2>2, XorBit
  <2>. HIDE DEF at
  <2>4. \A i : i \in Xor(Sar(x, k), Sar(y, k)) <=> i \in Bits /\ ~(at(i) \in x <=> at(i) \in y)
    BY <2>2, XorBit
  <2>5. \A i : i \in Sar(Xor(x, y), k) <=> i \in Xor(Sar(x, k), Sar(y, k))
    BY <2>3, <2>4
  <2>. QED
    BY <2>5
<1>4. Rotl(Xor(x, y), k) = Xor(Rotl(x, k), Rotl(y, k))
  <2>. DEFINE To(i) == (i + k) % W
  <2>1. \A i, j \in Bits : To(i) = To(j) => i = j
    BY DEF Bits
  <2>2. \A z : Rotl(z, k) = {To(i) : i \in z}
    BY DEF Rotl
  <2>3. x \subseteq Bits /\ y \subseteq Bits
    BY DEF Word
  <2>. HIDE DEF To
  <2>. QED
    BY <2>1, <2>2, <2>3 DEF Xor, SymDiff
<1>. QED
  BY <1>1, <1>2, <1>3, <1>4

LEMMA MovedInjective ==
    ASSUME NEW c \in Word, NEW d \in Word
    PROVE  /\ \A s \in [0..1 -> Word] : Moved(s, c, d) \in [0..1 -> Word]
           /\ \A s, u \in [0..1 -> Word] : Moved(s, c, d) = Moved(u, c, d) => s = u
<1>1. \A s \in [0..1 -> Word] : Moved(s, c, d) \in [0..1 -> Word]
  BY ArithmeticType DEF Moved
<1>2. ASSUME NEW s \in [0..1 -> Word], NEW u \in [0..1 -> Word], Moved(s, c, d) = Moved(u, c, d)
      PROVE  s = u
  <2>1. Add(s[0], c) = Add(u[0], c) /\ Add(s[1], d) = Add(u[1], d)
    BY <1>2 DEF Moved
  <2>2. s[0] = u[0] /\ s[1] = u[1]
    BY <2>1, AddCancels
  <2>. QED
    BY <2>2
<1>. QED
  BY <1>1, <1>2

LEMMA ShioiOneToOne ==
    ASSUME W = 64
    PROVE  /\ \A s \in [0..1 -> Word] : Shioi(s) \in [0..1 -> Word]
           /\ \A s, u \in [0..1 -> Word] : Shioi(s) = Shioi(u) => s = u
<1>1. \A x \in Word : Shl(x, 2) \in Word /\ Sar(x, 19) \in Word
  BY ArithmeticType DEF Sar, Word
<1>2. ASSUME NEW s \in [0..1 -> Word]
      PROVE  Shioi(s) \in [0..1 -> Word]
  <2>1. Xor(Xor(Shl(s[0], 2), Sar(s[0], 19)), s[1]) \in Word
    BY <1>1, ArithmeticType
  <2>. QED
    BY <2>1 DEF Shioi
<1>3. ASSUME NEW s \in [0..1 -> Word], NEW u \in [0..1 -> Word], Shioi(s) = Shioi(u)
      PROVE  s = u
  <2>. DEFINE x == s[0]
              y == u[0]
  <2>1. s[1] = u[1] /\ Xor(Xor(Shl(x, 2), Sar(x, 19)), s[1]) = Xor(Xor(Shl(y, 2), Sar(y, 19)), u[1])
    BY <1>3 DEF Shioi
  <2>2. x \in Word /\ y \in Word
    OBVIOUS
  <2>. HIDE DEF x, y
  <2>3. Xor(Shl(x, 2), Sar(x, 19)) = Xor(Shl(y, 2), Sar(y, 19))
    BY <2>1, XorCancels
  <2>4. Shl(Xor(x, y), 2) = Sar(Xor(x, y), 19) /\ Xor(x, y) \in Word
    <3>1. 2 \in Bits /\ 19 \in Bits
      BY DEF Bits
    <3>2. Xor(Shl(x, 2), Shl(y, 2)) = Xor(Sar(x, 19), Sar(y, 19))
      BY <2>3 DEF Xor, SymDiff
    <3>. QED
      BY <2>2, <3>1, <3>2, LinearShifts
  <2>5. Xor(x, y) = {}
    BY <2>4, ShioiKernel
  <2>6. x = y
    BY <2>5 DEF Xor, SymDiff
  <2>. QED
    BY <2>1, <2>6 DEF x, y
<1>. QED
  BY <1>2, <1>3

LEMMA SeiranOneToOne ==
    ASSUME W = 64
    PROVE  /\ \A s \in [0..1 -> Word] : Seiran(s) \in [0..1 -> Word]
           /\ \A s, u \in [0..1 -> Word] : Seiran(s) = Seiran(u) => s = u
<1>1. 9 \in Bits /\ 29 \in Bits
  BY DEF Bits
<1>2. ASSUME NEW s \in [0..1 -> Word]
      PROVE  Seiran(s) \in [0..1 -> Word]
  <2>1. Xor(s[0], Rotl(s[1], 29)) \in Word /\ Xor(s[0], Shl(s[1], 9)) \in Word
    BY <1>1, ArithmeticType
  <2>. QED
    BY <2>1 DEF Seiran
<1>3. ASSUME NEW s \in [0..1 -> Word], NEW u \in [0..1 -> Word], Seiran(s) = Seiran(u)
      PROVE  s = u
  <2>. DEFINE x == s[1]
              y == u[1]
  <2>1. /\ Xor(s[0], Rotl(x, 29)) = Xor(u[0], Rotl(y, 29))
        /\ Xor(s[0], Shl(x, 9)) = Xor(u[0], Shl(y, 9))
    BY <1>3 DEF Seiran
  <2>2. x \in Word /\ y \in Word
    OBVIOUS
  <2>. HIDE DEF x, y
  <2>3. Xor(Rotl(x, 29), Rotl(y, 29)) = Xor(Shl(x, 9), Shl(y, 9))
    BY <2>1 DEF Xor, SymDiff
  <2>4. Rotl(Xor(x, y), 29) = Shl(Xor(x, y), 9) /\ Xor(x, y) \in Word
    BY <1>1, <2>2, <2>3, LinearShifts
  <2>5. Xor(x, y) = {}
    BY <2>4, SeiranKernel
  <2>6. x = y
    BY <2>5 DEF Xor, SymDiff
  <2>7. s[0] = u[0]
    BY <2>1, <2>6, XorCancels
  <2>. QED
    BY <2>6, <2>7 DEF x, y
<1>. QED
  BY <1>2, <1>3

(* Streams of shioi from different seeds never merge, whatever the constants  *)
(* that its words move by.                                                    *)
THEOREM ShioiApart ==
    ASSUME W = 64, NEW c \in Word, NEW d \in Word,
           Seeds = [0..1 -> Word],
           Step = [o \in State |-> [o EXCEPT !.s = Shioi(Moved(@, c, d))]]
    PROVE  Spec => []StreamsApart
<1>. DEFINE F == [s \in Seeds |-> Shioi(Moved(s, c, d))]
<1>1. F \in [Seeds -> Seeds] /\ \A s, u \in Seeds : F[s] = F[u] => s = u
  BY MovedInjective, ShioiOneToOne
<1>2. Step = [o \in State |-> [o EXCEPT !.s = F[@]]]
  BY DEF State
<1>. HIDE DEF F
<1>. QED
  BY <1>1, <1>2, UpdateIsOneToOne, Apart

(* The same of seiran.                                                        *)
THEOREM SeiranApart ==
    ASSUME W = 64, NEW c \in Word, NEW d \in Word,
           Seeds = [0..1 -> Word],
           Step = [o \in State |-> [o EXCEPT !.s = Seiran(Moved(@, c, d))]]
    PROVE  Spec => []StreamsApart
<1>. DEFINE F == [s \in Seeds |-> Seiran(Moved(s, c, d))]
<1>1. F \in [Seeds -> Seeds] /\ \A s, u \in Seeds : F[s] = F[u] => s = u
  BY MovedInjective, SeiranOneToOne
<1>2. Step = [o \in State |-> [o EXCEPT !.s = F[@]]]
  BY DEF State
<1>. HIDE DEF F
<1>. QED
  BY <1>1, <1>2, UpdateIsOneToOne, Apart

-----------------------------------------------------------------------------
(* Mixers                                                                     *)

LEMMA XorsDiffer ==
    ASSUME NEW d, NEW x, NEW u, NEW v, NEW y, NEW a, NEW b,
           ~(d \in x <=> d \in y), d \in u <=> d \in a, d \in v <=> d \in b
    PROVE  Xor(x, Xor(u, v)) # Xor(y, Xor(a, b))
<1>1. d \in Xor(u, v) <=> d \in Xor(a, b)
  BY XorBit
<1>2. ~(d \in Xor(x, Xor(u, v)) <=> d \in Xor(y, Xor(a, b)))
  BY <1>1, XorBit
<1>. QED
  BY <1>2

LEMMA RotrType ==
    ASSUME NEW x, NEW k
    PROVE  Rotr(x, k) \in Word
  BY DEF Rotr, Word

(* Sums of words that have the same bits up to d.                             *)
LEMMA AddUpTo ==
    ASSUME NEW x \in Word, NEW y \in Word, NEW u \in Word, NEW v \in Word, NEW d \in Bits,
           Below(d, x, u), d \in x <=> d \in u, Below(d, y, v), d \in y <=> d \in v
    PROVE  Below(d, Add(x, y), Add(u, v)) /\ (d \in Add(x, y) <=> d \in Add(u, v))
<1>1. CarryInto(d, x, y) <=> CarryInto(d, u, v)
  BY CarryDepends, WordsAreSets
<1>. QED
  BY <1>1, AddBit, AddKeepsBelow

(* Up to the first difference of two words, what they are shifted to the left *)
(* is the same.                                                               *)
LEMMA ShlUpTo ==
    ASSUME NEW x, NEW y, NEW d \in Bits, Below(d, x, y), NEW k \in Nat \ {0}
    PROVE  Below(d, Shl(x, k), Shl(y, k)) /\ (d \in Shl(x, k) <=> d \in Shl(y, k))
<1>1. d \in Nat
  BY DEF Bits
<1>2. \A i \in Nat : i <= d => (i \in Shl(x, k) <=> i \in Shl(y, k))
  BY <1>1 DEF Shl, Below
<1>. QED
  BY <1>1, <1>2 DEF Below

(* And from the last one on, what they are shifted to the right.              *)
LEMMA ShrFrom ==
    ASSUME NEW x \in Word, NEW y \in Word, NEW d \in Bits,
           \A i \in Bits : i > d => (i \in x <=> i \in y), NEW k \in Nat \ {0}
    PROVE  d \in Shr(x, k) <=> d \in Shr(y, k)
<1>1. d + k > d
  BY DEF Bits
<1>2. d + k \in x <=> d + k \in y
  BY <1>1 DEF Word
<1>. QED
  BY <1>2 DEF Shr

(* x ^ (x >> j) ^ (x >> k)                                                    *)
LEMMA XorShrsInjective ==
    ASSUME NEW x \in Word, NEW y \in Word, NEW j \in Nat \ {0}, NEW k \in Nat \ {0},
           Xor(x, Xor(Shr(x, j), Shr(x, k))) = Xor(y, Xor(Shr(y, j), Shr(y, k)))
    PROVE  x = y
<1>. SUFFICES ASSUME x # y
              PROVE  FALSE
  OBVIOUS
<1>1. PICK d \in Bits : /\ ~(d \in x <=> d \in y)
                        /\ \A i \in Bits : i > d => (i \in x <=> i \in y)
  BY LastDifference
<1>2. (d \in Shr(x, j) <=> d \in Shr(y, j)) /\ (d \in Shr(x, k) <=> d \in Shr(y, k))
  BY <1>1, ShrFrom
<1>. QED
  BY <1>1, <1>2, XorsDiffer

(* x ^ (~x >> j) ^ (x >> k)                                                   *)
LEMMA XorNotShrsInjective ==
    ASSUME NEW x \in Word, NEW y \in Word, NEW j \in Nat \ {0}, NEW k \in Nat \ {0},
           Xor(x, Xor(Shr(Not(x), j), Shr(x, k))) = Xor(y, Xor(Shr(Not(y), j), Shr(y, k)))
    PROVE  x = y
<1>. SUFFICES ASSUME x # y
              PROVE  FALSE
  OBVIOUS
<1>1. PICK d \in Bits : /\ ~(d \in x <=> d \in y)
                        /\ \A i \in Bits : i > d => (i \in x <=> i \in y)
  BY LastDifference
<1>2. \A i \in Bits : i > d => (i \in Not(x) <=> i \in Not(y))
  BY <1>1 DEF Not
<1>3. (d \in Shr(Not(x), j) <=> d \in Shr(Not(y), j)) /\ (d \in Shr(x, k) <=> d \in Shr(y, k))
  BY <1>1, <1>2, ShrFrom, ArithmeticType
<1>. QED
  BY <1>1, <1>3, XorsDiffer

(* x + ((x << j) + (x << k))                                                  *)
LEMMA AddShlsInjective ==
    ASSUME NEW x \in Word, NEW y \in Word, NEW j \in Nat \ {0}, NEW k \in Nat \ {0},
           Add(x, Add(Shl(x, j), Shl(x, k))) = Add(y, Add(Shl(y, j), Shl(y, k)))
    PROVE  x = y
<1>. SUFFICES ASSUME x # y
              PROVE  FALSE
  OBVIOUS
<1>1. PICK d \in Bits : Below(d, x, y) /\ ~(d \in x <=> d \in y)
  BY FirstDifference
<1>. DEFINE u == Add(Shl(x, j), Shl(x, k))
            v == Add(Shl(y, j), Shl(y, k))
<1>2. u \in Word /\ v \in Word
  BY ArithmeticType
<1>3. Below(d, u, v) /\ (d \in u <=> d \in v)
  <2>1. /\ Shl(x, j) \in Word /\ Shl(y, j) \in Word
        /\ Shl(x, k) \in Word /\ Shl(y, k) \in Word
    BY ArithmeticType
  <2>2. Below(d, Shl(x, j), Shl(y, j)) /\ (d \in Shl(x, j) <=> d \in Shl(y, j))
    BY <1>1, ShlUpTo
  <2>3. Below(d, Shl(x, k), Shl(y, k)) /\ (d \in Shl(x, k) <=> d \in Shl(y, k))
    BY <1>1, ShlUpTo
  <2>. QED
    BY <2>1, <2>2, <2>3, AddUpTo
<1>. HIDE DEF u, v
<1>4. Add(x, u) = Add(y, v)
  BY DEF u, v
<1>. QED
  BY <1>1, <1>2, <1>3, <1>4, AddAt

(* ~x + (x << k)                                                              *)
LEMMA NotAddShlInjective ==
    ASSUME NEW x \in Word, NEW y \in Word, NEW k \in Nat \ {0},
           Add(Not(x), Shl(x, k)) = Add(Not(y), Shl(y, k))
    PROVE  x = y
<1>. SUFFICES ASSUME x # y
              PROVE  FALSE
  OBVIOUS
<1>1. PICK d \in Bits : Below(d, x, y) /\ ~(d \in x <=> d \in y)
  BY FirstDifference
<1>2. Below(d, Not(x), Not(y)) /\ ~(d \in Not(x) <=> d \in Not(y))
  <2>1. Below(d, Not(x), Not(y))
    <3>. SUFFICES ASSUME NEW i \in Nat, i < d
                  PROVE  i \in Not(x) <=> i \in Not(y)
      BY DEF Below
    <3>. QED
      BY <1>1, BitsBelow DEF Below, Not
  <2>. QED
    BY <1>1, <2>1 DEF Not
<1>3. Below(d, Shl(x, k), Shl(y, k)) /\ (d \in Shl(x, k) <=> d \in Shl(y, k))
  BY <1>1, ShlUpTo
<1>4. Not(x) \in Word /\ Not(y) \in Word /\ Shl(x, k) \in Word /\ Shl(y, k) \in Word
  BY ArithmeticType
<1>5. d \in Not(x) <=> d \in Not(y)
  BY <1>2, <1>3, <1>4, AddAt
<1>. QED
  BY <1>2, <1>5

-----------------------------------------------------------------------------
(* Rotations.  W is 1, doubled some number of times.                          *)
PowerOfTwo(n) == \A S \in SUBSET Nat : 1 \in S /\ (\A m \in S : 2 * m \in S) => n \in S

LEMMA WidthsArePowers == PowerOfTwo(8) /\ PowerOfTwo(32) /\ PowerOfTwo(64)
<1>. SUFFICES ASSUME NEW S \in SUBSET Nat, 1 \in S, \A m \in S : 2 * m \in S
              PROVE  8 \in S /\ 32 \in S /\ 64 \in S
  BY DEF PowerOfTwo
<1>1. 2 * 1 \in S
  OBVIOUS
<1>2. 2 * 2 \in S
  BY <1>1
<1>3. 2 * 4 \in S
  BY <1>2
<1>4. 2 * 8 \in S
  BY <1>3
<1>5. 2 * 16 \in S
  BY <1>4
<1>6. 2 * 32 \in S
  BY <1>5
<1>. QED
  BY <1>3, <1>5, <1>6

LEMMA ModPeriod ==
    ASSUME NEW n \in Nat
    PROVE  (n + W) % W = n % W
<1>1. \A m \in Nat : m % W = m - W * (m \div W)
  OBVIOUS
<1>2. (n + W) \div W = (n \div W) + 1 /\ n \div W \in Nat /\ n + W \in Nat
  OBVIOUS
<1>3. PICK q \in Nat : q = n \div W
  BY <1>2
<1>4. (n + W) % W = (n + W) - W * (q + 1)
  BY <1>1, <1>2, <1>3
<1>5. n % W = n - W * q
  BY <1>1, <1>3
<1>6. W * (q + 1) = W * q + W
  OBVIOUS
<1>. QED
  BY <1>4, <1>5, <1>6

LEMMA ModPeriods ==
    ASSUME NEW n \in Nat, NEW a \in Nat
    PROVE  (n + W * a) % W = n % W
<1>. DEFINE S == {k \in Nat : ~((n + W * k) % W = n % W)}
<1>. SUFFICES ASSUME S # {}
              PROVE  FALSE
  OBVIOUS
<1>1. PICK k \in S : \A i \in S : k <= i
  <2>1. S \in SUBSET Nat
    OBVIOUS
  <2>. HIDE DEF S
  <2>. QED
    BY <2>1, LeastElement
<1>2. k \in Nat /\ ~((n + W * k) % W = n % W)
  OBVIOUS
<1>3. k # 0
  BY <1>2
<1>4. k - 1 \in Nat /\ k - 1 < k
  BY <1>2, <1>3
<1>5. k - 1 \notin S
  <2>. HIDE DEF S
  <2>. QED
    BY <1>1, <1>2, <1>4
<1>6. (n + W * (k - 1)) % W = n % W
  BY <1>4, <1>5
<1>7. n + W * (k - 1) \in Nat /\ n + W * k = (n + W * (k - 1)) + W
  BY <1>2, <1>4
<1>8. (n + W * k) % W = (n + W * (k - 1)) % W
  BY <1>7, ModPeriod
<1>. QED
  BY <1>2, <1>6, <1>8

LEMMA ModSum ==
    ASSUME NEW n \in Nat, NEW a \in Nat
    PROVE  ((n % W) + a) % W = (n + a) % W
<1>1. PICK q \in Nat : q = n \div W
  OBVIOUS
<1>2. n % W = n - W * q /\ n % W \in Nat
  BY <1>1
<1>3. n + a = ((n % W) + a) + W * q /\ (n % W) + a \in Nat
  BY <1>2
<1>. QED
  BY <1>3, ModPeriods

(* A word that is the exclusive or of two rotations of itself is 0: it is     *)
(* then that of its rotations by twice the distances, and so on, until both   *)
(* are by multiples of W.                                                     *)
LEMMA RotationsOfZero ==
    ASSUME PowerOfTwo(W), NEW x \in Word, NEW a \in Nat, NEW b \in Nat,
           x = Xor(Rotr(x, a), Rotr(x, b))
    PROVE  x = {}
<1>. DEFINE At(n) == n % W \in x
            S == {m \in Nat : \A n \in Nat : At(n) <=> ~(At(n + m * a) <=> At(n + m * b))}
<1>1. \A n \in Nat : n % W \in Bits
  BY DEF Bits
<1>2. \A i \in Bits : i % W = i /\ i \in Nat
  BY DEF Bits
<1>3. ASSUME NEW i \in Bits
      PROVE  i \in x <=> ~((i + a) % W \in x <=> (i + b) % W \in x)
  BY XorBit DEF Rotr
<1>4. ASSUME NEW n \in Nat
      PROVE  At(n) <=> ~(At(n + a) <=> At(n + b))
  <2>1. ((n % W) + a) % W = (n + a) % W /\ ((n % W) + b) % W = (n + b) % W
    BY ModSum
  <2>. QED
    BY <1>1, <1>3, <2>1
<1>. HIDE DEF At
<1>5. 1 \in S
  BY <1>4
<1>6. ASSUME NEW m \in S
      PROVE  2 * m \in S
  <2>1. m \in Nat /\ \A n \in Nat : At(n) <=> ~(At(n + m * a) <=> At(n + m * b))
    OBVIOUS
  <2>2. 2 * m \in Nat
    BY <2>1
  <2>3. ASSUME NEW n \in Nat
        PROVE  At(n) <=> ~(At(n + (2 * m) * a) <=> At(n + (2 * m) * b))
    <3>. DEFINE u == m * a
                v == m * b
    <3>1. u \in Nat /\ v \in Nat /\ (2 * m) * a = u + u /\ (2 * m) * b = v + v
      BY <2>1
    <3>2. \A k \in Nat : At(k) <=> ~(At(k + u) <=> At(k + v))
      BY <2>1
    <3>. HIDE DEF u, v
    <3>3. At(n + u) <=> ~(At((n + u) + u) <=> At((n + u) + v))
      BY <3>1, <3>2
    <3>4. At(n + v) <=> ~(At((n + v) + u) <=> At((n + v) + v))
      BY <3>1, <3>2
    <3>5. (n + u) + v = (n + v) + u /\ (n + u) + u = n + (u + u) /\ (n + v) + v = n + (v + v)
      BY <3>1
    <3>6. At(n) <=> ~(At(n + u) <=> At(n + v))
      BY <3>2
    <3>7. At(n) <=> ~(At(n + (u + u)) <=> At(n + (v + v)))
      BY <3>3, <3>4, <3>5, <3>6
    <3>. QED
      BY <3>1, <3>7
  <2>. QED
    BY <2>2, <2>3
<1>7. W \in S
  <2>1. S \in SUBSET Nat
    OBVIOUS
  <2>. HIDE DEF S
  <2>. QED
    BY <1>5, <1>6, <2>1 DEF PowerOfTwo
<1>8. ASSUME NEW n \in Nat
      PROVE  ~At(n)
  <2>1. At(n) <=> ~(At(n + W * a) <=> At(n + W * b))
    BY <1>7
  <2>2. (At(n + W * a) <=> At(n)) /\ (At(n + W * b) <=> At(n))
    BY ModPeriods DEF At
  <2>. QED
    BY <2>1, <2>2
<1>. QED
  BY <1>2, <1>8 DEF At, Word

(* x ^ rotr(x, j) ^ rotr(x, k)                                                *)
LEMMA XorRotrsInjective ==
    ASSUME PowerOfTwo(W), NEW x \in Word, NEW y \in Word, NEW j \in Nat, NEW k \in Nat,
           Xor(x, Xor(Rotr(x, j), Rotr(x, k))) = Xor(y, Xor(Rotr(y, j), Rotr(y, k)))
    PROVE  x = y
<1>. DEFINE d == Xor(x, y)
<1>1. d \in Word
  BY ArithmeticType
<1>2. ASSUME NEW i \in Bits
      PROVE  i \in d <=> i \in Xor(Rotr(d, j), Rotr(d, k))
  <2>1. \A n : n \in d <=> ~(n \in x <=> n \in y)
    BY XorBit
  <2>. HIDE DEF d
  <2>2. \A z, n : i \in Rotr(z, n) <=> (i + n) % W \in z
    BY DEF Rotr
  <2>3. /\ i \in Rotr(d, j) <=> ~(i \in Rotr(x, j) <=> i \in Rotr(y, j))
        /\ i \in Rotr(d, k) <=> ~(i \in Rotr(x, k) <=> i \in Rotr(y, k))
    BY <2>1, <2>2
  <2>4. \A z : i \in Xor(z, Xor(Rotr(z, j), Rotr(z, k)))
               <=> ~(i \in z <=> ~(i \in Rotr(z, j) <=> i \in Rotr(z, k)))
    BY XorBit
  <2>5. i \in Xor(Rotr(d, j), Rotr(d, k)) <=> ~(i \in Rotr(d, j) <=> i \in Rotr(d, k))
    BY XorBit
  <2>6. (i \in x <=> ~(i \in Rotr(x, j) <=> i \in Rotr(x, k)))
        <=> (i \in y <=> ~(i \in Rotr(y, j) <=> i \in Rotr(y, k)))
    BY <2>4
  <2>. QED
    BY <2>1, <2>3, <2>5, <2>6
<1>. HIDE DEF d
<1>3. Xor(Rotr(d, j), Rotr(d, k)) \in Word
  BY RotrType, ArithmeticType
<1>4. d = Xor(Rotr(d, j), Rotr(d, k))
  BY <1>1, <1>2, <1>3 DEF Word
<1>5. d = {}
  BY <1>1, <1>4, RotationsOfZero
<1>. QED
  BY <1>5 DEF d, Xor, SymDiff

-----------------------------------------------------------------------------
(* The steps of a mixer                                                       *)

(* A distance of 1 or more stays one in a shorter word.                       *)
LEMMA ScaledType ==
    ASSUME NEW bits \in Nat \ {0}, NEW k \in Nat
    PROVE  Scaled(k, bits) \in Nat /\ (k # 0 => Scaled(k, bits) # 0)
<1>1. k * W \in Nat /\ (k # 0 => k * W >= 1)
  OBVIOUS
<1>2. PICK n \in Nat : n = k * W + bits - 1
  BY <1>1
<1>3. n \div bits \in Nat
  OBVIOUS
<1>4. n >= bits => n \div bits # 0
  OBVIOUS
<1>5. k # 0 => n >= bits
  BY <1>1, <1>2
<1>. QED
  BY <1>2, <1>3, <1>4, <1>5 DEF Scaled

LEMMA ApplyType ==
    ASSUME NEW step, Reversible(step), NEW bits, NEW x \in Word
    PROVE  Apply(x, step, bits) \in Word
<1>1. \A k : Rotr(x, k) \in Word
  BY RotrType
<1>2. \A j, k : Xor(x, Xor(Rotr(x, j), Rotr(x, k))) \in Word
  BY <1>1, ArithmeticType
<1>3. \A u, j, k : Xor(x, Xor(Shr(u, j), Shr(x, k))) \in Word
  BY ArithmeticType
<1>4. \A k : Xor(x, Shr(x, k)) \in Word
  BY ArithmeticType
<1>5. \A c \in Word : Mul(x, c) \in Word /\ Xor(x, c) \in Word
  BY ArithmeticType, MulType
<1>6. \A u, v : Add(u, v) \in Word
  BY ArithmeticType
<1>. QED
  BY <1>2, <1>3, <1>4, <1>5, <1>6 DEF Apply, Reversible, XorShift

LEMMA ApplyInjective ==
    ASSUME PowerOfTwo(W), NEW step, Reversible(step), NEW bits \in Nat \ {0},
           NEW x \in Word, NEW y \in Word, Apply(x, step, bits) = Apply(y, step, bits)
    PROVE  x = y
<1>. DEFINE j == Scaled(step.j, bits)
            k == Scaled(step.k, bits)
<1>1. CASE step.op = "x ^= x >> k"
  <2>1. k \in Nat \ {0}
    BY <1>1, ScaledType DEF Reversible
  <2>2. Xor(x, Shr(x, k)) = Xor(y, Shr(y, k))
    BY <1>1 DEF Apply, XorShift
  <2>. QED
    BY <2>1, <2>2, XorShrInjective
<1>2. CASE step.op = "x ^= (x >> j) ^ (x >> k)"
  <2>1. j \in Nat \ {0} /\ k \in Nat \ {0}
    BY <1>2, ScaledType DEF Reversible
  <2>2. Xor(x, Xor(Shr(x, j), Shr(x, k))) = Xor(y, Xor(Shr(y, j), Shr(y, k)))
    BY <1>2 DEF Apply
  <2>. QED
    BY <2>1, <2>2, XorShrsInjective
<1>3. CASE step.op = "x ^= (~x >> j) ^ (x >> k)"
  <2>1. j \in Nat \ {0} /\ k \in Nat \ {0}
    BY <1>3, ScaledType DEF Reversible
  <2>2. Xor(x, Xor(Shr(Not(x), j), Shr(x, k))) = Xor(y, Xor(Shr(Not(y), j), Shr(y, k)))
    BY <1>3 DEF Apply
  <2>. QED
    BY <2>1, <2>2, XorNotShrsInjective
<1>4. CASE step.op = "x ^= rotr(x, j) ^ rotr(x, k)"
  <2>1. j \in Nat /\ k \in Nat
    BY <1>4, ScaledType DEF Reversible
  <2>2. Xor(x, Xor(Rotr(x, j), Rotr(x, k))) = Xor(y, Xor(Rotr(y, j), Rotr(y, k)))
    BY <1>4 DEF Apply
  <2>. QED
    BY <2>1, <2>2, XorRotrsInjective
<1>5. CASE step.op = "x += x << k"
  <2>1. k \in Nat \ {0}
    BY <1>5, ScaledType DEF Reversible
  <2>2. Add(x, Shl(x, k)) = Add(y, Shl(y, k))
    BY <1>5 DEF Apply
  <2>. QED
    BY <2>1, <2>2, AddShlInjective
<1>6. CASE step.op = "x += (x << j) + (x << k)"
  <2>1. j \in Nat \ {0} /\ k \in Nat \ {0}
    BY <1>6, ScaledType DEF Reversible
  <2>2. Add(x, Add(Shl(x, j), Shl(x, k))) = Add(y, Add(Shl(y, j), Shl(y, k)))
    BY <1>6 DEF Apply
  <2>. QED
    BY <2>1, <2>2, AddShlsInjective
<1>7. CASE step.op = "x = ~x + (x << k)"
  <2>1. k \in Nat \ {0}
    BY <1>7, ScaledType DEF Reversible
  <2>2. Add(Not(x), Shl(x, k)) = Add(Not(y), Shl(y, k))
    BY <1>7 DEF Apply
  <2>. QED
    BY <2>1, <2>2, NotAddShlInjective
<1>8. CASE step.op = "x += c"
  BY <1>8, AddCancels DEF Apply, Reversible
<1>9. CASE step.op = "x ^= c"
  BY <1>9, XorCancels DEF Apply, Reversible
<1>10. CASE step.op = "x *= c"
  BY <1>10, MulInjective DEF Apply, Reversible
<1>. QED
  BY <1>1, <1>2, <1>3, <1>4, <1>5, <1>6, <1>7, <1>8, <1>9, <1>10 DEF Reversible

(* Mixed applies the steps one after the other.                               *)
LEMMA MixedSteps ==
    ASSUME NEW Steps, NEW g, g.mix \in Seq(Steps), NEW x \in Word,
           \A step \in Steps, z \in Word : Apply(z, step, g.bits) \in Word
    PROVE  \E y \in [0..Len(g.mix) -> Word] :
              /\ y[0] = x
              /\ \A n \in 1..Len(g.mix) : y[n] = Apply(y[n - 1], g.mix[n], g.bits)
              /\ Mixed(g, x) = y[Len(g.mix)]
<1>. DEFINE Stages(T, y) ==
                y = [n \in 0..T |-> IF n = 0 THEN x ELSE Apply(y[n - 1], g.mix[n], g.bits)]
            y[n \in 0..Len(g.mix)] == IF n = 0 THEN x ELSE Apply(y[n - 1], g.mix[n], g.bits)
<1>1. Mixed(g, x) = y[Len(g.mix)]
  BY DEF Mixed
<1>2. Len(g.mix) \in Nat /\ \A n \in 1..Len(g.mix) : g.mix[n] \in Steps
  OBVIOUS
<1>3. \E f : Stages(Len(g.mix), f)
  <2>. DEFINE S == {n \in 0..Len(g.mix) : \A f : ~Stages(n, f)}
  <2>. SUFFICES ASSUME \A f : ~Stages(Len(g.mix), f)
                PROVE  FALSE
    OBVIOUS
  <2>1. S \in SUBSET Nat
    BY <1>2
  <2>2. S # {}
    <3>1. Len(g.mix) \in 0..Len(g.mix)
      BY <1>2
    <3>. HIDE DEF Stages
    <3>. QED
      BY <3>1
  <2>3. PICK n \in S : \A k \in S : n <= k
    <3>. HIDE DEF S
    <3>. QED
      BY <2>1, <2>2, LeastElement
  <2>4. n \in 0..Len(g.mix) /\ n \in Nat /\ \A f : ~Stages(n, f)
    BY <2>1
  <2>5. CASE n = 0
    <3>1. Stages(0, [k \in 0..0 |-> x])
      OBVIOUS
    <3>. QED
      BY <2>4, <2>5, <3>1
  <2>6. CASE n # 0
    <3>1. n - 1 \in 0..Len(g.mix) /\ n - 1 < n
      BY <1>2, <2>4, <2>6
    <3>2. n - 1 \notin S
      <4>. HIDE DEF S
      <4>. QED
        BY <2>3, <2>4, <3>1
    <3>3. PICK f : Stages(n - 1, f)
      BY <3>1, <3>2
    <3>4. PICK h : h = [k \in 0..n |-> IF k = n THEN Apply(f[n - 1], g.mix[n], g.bits) ELSE f[k]]
      OBVIOUS
    <3>5. \A k \in 0..(n - 1) :
             h[k] = f[k] /\ f[k] = IF k = 0 THEN x ELSE Apply(f[k - 1], g.mix[k], g.bits)
      <4>1. \A k \in 0..(n - 1) : k \in 0..n /\ k # n
        BY <2>4, <2>6
      <4>. QED
        BY <3>3, <3>4, <4>1
    <3>. HIDE DEF Stages
    <3>6. ASSUME NEW k \in 0..n
          PROVE  h[k] = IF k = 0 THEN x ELSE Apply(h[k - 1], g.mix[k], g.bits)
      <4>1. CASE k = n
        <5>1. n - 1 \in 0..(n - 1)
          BY <2>4, <2>6
        <5>2. h[n - 1] = f[n - 1] /\ h[n] = Apply(f[n - 1], g.mix[n], g.bits)
          BY <2>4, <3>4, <3>5, <5>1
        <5>. QED
          BY <2>6, <4>1, <5>2
      <4>2. CASE k # n /\ k # 0
        <5>1. k \in 0..(n - 1) /\ k - 1 \in 0..(n - 1)
          BY <2>4, <4>2
        <5>. QED
          BY <3>5, <4>2, <5>1
      <4>3. CASE k # n /\ k = 0
        <5>1. k \in 0..(n - 1)
          BY <2>4, <4>3
        <5>. QED
          BY <3>5, <4>3, <5>1
      <4>. QED
        BY <4>1, <4>2, <4>3
    <3>7. Stages(n, h)
      <4>1. h = [k \in 0..n |-> h[k]]
        BY <3>4
      <4>. QED
        BY <3>6, <4>1 DEF Stages
    <3>. QED
      BY <2>4, <3>7
  <2>. QED
    BY <2>5, <2>6
<1>4. Stages(Len(g.mix), y)
  <2>1. y = CHOOSE f : Stages(Len(g.mix), f)
    OBVIOUS
  <2>. HIDE DEF Stages, y
  <2>. QED
    BY <1>3, <2>1
<1>. HIDE DEF y
<1>5. /\ y = [n \in 0..Len(g.mix) |-> y[n]]
      /\ y[0] = x
      /\ \A n \in 1..Len(g.mix) : y[n] = Apply(y[n - 1], g.mix[n], g.bits)
  <2>1. \A n \in 0..Len(g.mix) : y[n] = IF n = 0 THEN x ELSE Apply(y[n - 1], g.mix[n], g.bits)
    BY <1>4
  <2>2. y = [n \in 0..Len(g.mix) |-> y[n]]
    BY <1>4, <2>1
  <2>. HIDE DEF Stages
  <2>3. y[0] = x
    BY <1>2, <2>1
  <2>4. \A n \in 1..Len(g.mix) : y[n] = Apply(y[n - 1], g.mix[n], g.bits)
    BY <1>2, <2>1
  <2>. QED
    BY <2>2, <2>3, <2>4
<1>. HIDE DEF Stages
<1>6. \A n \in 0..Len(g.mix) : y[n] \in Word
  <2>. DEFINE S == {n \in 0..Len(g.mix) : y[n] \notin Word}
  <2>1. S \in SUBSET Nat
    BY <1>2
  <2>2. SUFFICES ASSUME S # {}
                 PROVE  FALSE
    OBVIOUS
  <2>3. PICK n \in S : \A k \in S : n <= k
    <3>. HIDE DEF S
    <3>. QED
      BY <2>1, <2>2, LeastElement
  <2>4. n \in 0..Len(g.mix) /\ y[n] \notin Word
    OBVIOUS
  <2>5. n \in 1..Len(g.mix) /\ n - 1 \in 0..Len(g.mix) /\ n - 1 < n
    BY <1>2, <1>5, <2>4
  <2>6. n - 1 \notin S
    <3>. HIDE DEF S
    <3>. QED
      BY <2>3, <2>4, <2>5
  <2>7. y[n - 1] \in Word
    BY <2>5, <2>6
  <2>8. Apply(y[n - 1], g.mix[n], g.bits) \in Word
    BY <1>2, <2>5, <2>7
  <2>. QED
    BY <1>5, <2>4, <2>5, <2>8
<1>7. y \in [0..Len(g.mix) -> Word]
  BY <1>5, <1>6
<1>. QED
  BY <1>1, <1>5, <1>7

(* A mixture made of steps that can be undone takes different words to        *)
(* different words, at every width that is a power of two: that is what "must *)
(* be odd" is for.                                                            *)
THEOREM MixedOneToOne ==
    ASSUME PowerOfTwo(W), NEW Steps, \A step \in Steps : Reversible(step),
           NEW g, g.mix \in Seq(Steps), g.bits \in Nat \ {0},
           NEW x \in Word, NEW u \in Word, Mixed(g, x) = Mixed(g, u)
    PROVE  x = u
<1>. DEFINE len == Len(g.mix)
<1>1. /\ len \in Nat /\ \A n \in 1..len : g.mix[n] \in Steps
      /\ \A step \in Steps, z \in Word : Apply(z, step, g.bits) \in Word
  BY ApplyType
<1>2. PICK y \in [0..len -> Word] :
              /\ y[0] = x
              /\ \A n \in 1..len : y[n] = Apply(y[n - 1], g.mix[n], g.bits)
              /\ Mixed(g, x) = y[len]
  BY <1>1, MixedSteps
<1>3. PICK v \in [0..len -> Word] :
              /\ v[0] = u
              /\ \A n \in 1..len : v[n] = Apply(v[n - 1], g.mix[n], g.bits)
              /\ Mixed(g, u) = v[len]
  BY <1>1, MixedSteps
<1>. HIDE DEF len
<1>4. y[len] = v[len]
  BY <1>2, <1>3
<1>5. \E n \in 0..len : y[n] = v[n] /\ \A i \in 0..len : y[i] = v[i] => n <= i
  <2>. DEFINE S == {n \in 0..len : y[n] = v[n]}
  <2>1. S \in SUBSET Nat /\ len \in S
    BY <1>1, <1>4
  <2>2. PICK n \in S : \A i \in S : n <= i
    <3>. HIDE DEF S
    <3>. QED
      BY <2>1, LeastElement
  <2>. QED
    BY <2>2
<1>6. PICK n \in 0..len : y[n] = v[n] /\ \A i \in 0..len : y[i] = v[i] => n <= i
  BY <1>5
<1>7. CASE n = 0
  BY <1>2, <1>3, <1>6, <1>7
<1>8. CASE n # 0
  <2>1. n \in 1..len /\ n - 1 \in 0..len /\ ~(n <= n - 1)
    BY <1>1, <1>8
  <2>2. Apply(y[n - 1], g.mix[n], g.bits) = Apply(v[n - 1], g.mix[n], g.bits)
    BY <1>2, <1>3, <1>6, <2>1
  <2>3. y[n - 1] \in Word /\ v[n - 1] \in Word /\ Reversible(g.mix[n])
    BY <1>1, <2>1
  <2>4. y[n - 1] = v[n - 1]
    BY <2>2, <2>3, ApplyInjective
  <2>. QED
    BY <1>6, <2>1, <2>4
<1>. QED
  BY <1>7, <1>8

(* As long as the counter has not come back, no output is returned twice.     *)
THEOREM OutputsDiffer ==
    ASSUME PowerOfTwo(W), NEW Steps, \A step \in Steps : Reversible(step),
           NEW g, g.mix \in Seq(Steps), g.bits \in Nat \ {0}, g.inc \in Word,
           NEW s \in Word, NEW u \in Word, s # u
    PROVE  next(g, s).result # next(g, u).result
<1>1. Add(s, g.inc) # Add(u, g.inc) /\ Add(s, g.inc) \in Word /\ Add(u, g.inc) \in Word
  BY AddCancels, ArithmeticType
<1>2. \A z \in Word : next(g, z).result = Mixed(g, IF g.first = "add" THEN Add(z, g.inc) ELSE z)
  BY DEF next
<1>. QED
  BY <1>1, <1>2, MixedOneToOne

-----------------------------------------------------------------------------
(* Counters                                                                   *)

(* Two additions one after the other have as many carries into each bit,      *)
(* whichever comes first.                                                     *)
CarriesBalance(i, x, y, z) ==
    /\ (CarryInto(i, x, y) /\ CarryInto(i, Add(x, y), z)) <=> (CarryInto(i, y, z) /\ CarryInto(i, x, Add(y, z)))
    /\ (CarryInto(i, x, y) \/ CarryInto(i, Add(x, y), z)) <=> (CarryInto(i, y, z) \/ CarryInto(i, x, Add(y, z)))

LEMMA CarriesAlike ==
    ASSUME NEW x \in Word, NEW y \in Word, NEW z \in Word, NEW k \in 0..W
    PROVE  CarriesBalance(k, x, y, z)
<1>. DEFINE s == Add(x, y)
            t == Add(y, z)
            Same(i) ==
                /\ (CarryInto(i, x, y) /\ CarryInto(i, s, z)) <=> (CarryInto(i, y, z) /\ CarryInto(i, x, t))
                /\ (CarryInto(i, x, y) \/ CarryInto(i, s, z)) <=> (CarryInto(i, y, z) \/ CarryInto(i, x, t))
            D == {i \in 0..W : ~Same(i)}
<1>1. s \in Word /\ t \in Word
  BY ArithmeticType
<1>2. x \in SUBSET Nat /\ y \in SUBSET Nat /\ z \in SUBSET Nat /\ s \in SUBSET Nat /\ t \in SUBSET Nat
  BY <1>1, WordsAreSets
<1>3. ASSUME NEW i \in Bits
      PROVE  /\ i \in s <=> ((i \in x <=> i \in y) <=> CarryInto(i, x, y))
             /\ i \in t <=> ((i \in y <=> i \in z) <=> CarryInto(i, y, z))
             /\ i \in Add(s, z) <=> ((i \in s <=> i \in z) <=> CarryInto(i, s, z))
             /\ i \in Add(x, t) <=> ((i \in x <=> i \in t) <=> CarryInto(i, x, t))
  BY <1>1, AddBit
<1>. HIDE DEF s, t
<1>4. Same(0)
  BY <1>2, NoCarryIntoFirst
<1>5. ASSUME NEW i \in Bits, Same(i)
      PROVE  Same(i + 1)
  <2>1. i \in Nat
    BY DEF Bits
  <2>2. /\ CarryInto(i + 1, x, y) <=>
             (i \in x /\ i \in y) \/ ((i \in x \/ i \in y) /\ CarryInto(i, x, y))
        /\ CarryInto(i + 1, y, z) <=>
             (i \in y /\ i \in z) \/ ((i \in y \/ i \in z) /\ CarryInto(i, y, z))
        /\ CarryInto(i + 1, s, z) <=>
             (i \in s /\ i \in z) \/ ((i \in s \/ i \in z) /\ CarryInto(i, s, z))
        /\ CarryInto(i + 1, x, t) <=>
             (i \in x /\ i \in t) \/ ((i \in x \/ i \in t) /\ CarryInto(i, x, t))
    BY <1>2, <2>1, CarryStep
  <2>3. /\ i \in s <=> ((i \in x <=> i \in y) <=> CarryInto(i, x, y))
        /\ i \in t <=> ((i \in y <=> i \in z) <=> CarryInto(i, y, z))
    BY <1>3
  <2>. QED
    BY <1>5, <2>2, <2>3
<1>6. D = {}
  <2>. SUFFICES ASSUME D # {}
                PROVE  FALSE
    OBVIOUS
  <2>1. PICK i \in D : \A m \in D : i <= m
    <3>1. D \in SUBSET Nat
      OBVIOUS
    <3>. HIDE DEF D
    <3>. QED
      BY <3>1, LeastElement
  <2>2. i \in 0..W /\ ~Same(i)
    OBVIOUS
  <2>. HIDE DEF Same
  <2>3. i # 0
    BY <1>4, <2>2
  <2>4. i - 1 \in Bits /\ i - 1 \in 0..W /\ (i - 1) + 1 = i /\ ~(i <= i - 1)
    BY <2>2, <2>3 DEF Bits
  <2>5. i - 1 \notin D
    <3>. HIDE DEF D
    <3>. QED
      BY <2>1, <2>4
  <2>6. Same(i - 1)
    BY <2>4, <2>5
  <2>. QED
    BY <1>5, <2>2, <2>4, <2>6
<1>. QED
  BY <1>6 DEF CarriesBalance, s, t

LEMMA AddAssociates ==
    ASSUME NEW x \in Word, NEW y \in Word, NEW z \in Word
    PROVE  Add(Add(x, y), z) = Add(x, Add(y, z))
<1>. DEFINE s == Add(x, y)
            t == Add(y, z)
<1>1. s \in Word /\ t \in Word
  BY ArithmeticType
<1>2. ASSUME NEW i \in Bits
      PROVE  i \in Add(s, z) <=> i \in Add(x, t)
  <2>1. /\ i \in s <=> ((i \in x <=> i \in y) <=> CarryInto(i, x, y))
        /\ i \in t <=> ((i \in y <=> i \in z) <=> CarryInto(i, y, z))
        /\ i \in Add(s, z) <=> ((i \in s <=> i \in z) <=> CarryInto(i, s, z))
        /\ i \in Add(x, t) <=> ((i \in x <=> i \in t) <=> CarryInto(i, x, t))
    BY <1>1, AddBit
  <2>2. CarriesBalance(i, x, y, z)
    <3>1. i \in 0..W
      BY DEF Bits
    <3>. QED
      BY <3>1, CarriesAlike
  <2>. HIDE DEF s, t
  <2>. QED
    BY <2>1, <2>2 DEF CarriesBalance, s, t
<1>3. Add(s, z) \in Word /\ Add(x, t) \in Word
  BY ArithmeticType
<1>. QED
  BY <1>2, <1>3 DEF Word

LEMMA AddToItself ==
    ASSUME NEW x \in Word
    PROVE  Add(x, x) = Shl(x, 1)
<1>1. ASSUME NEW i \in Bits
      PROVE  i \in Add(x, x) <=> i \in Shl(x, 1)
  <2>1. i \in Add(x, x) <=> CarryInto(i, x, x)
    BY AddBit
  <2>2. CASE i = 0
    <3>1. ~(0 >= 1)
      OBVIOUS
    <3>. QED
      BY <2>1, <2>2, <3>1, NoCarryIntoFirst, WordsAreSets DEF Shl
  <2>3. CASE i # 0
    <3>1. i - 1 \in Nat /\ (i - 1) + 1 = i /\ i >= 1
      BY <2>3 DEF Bits
    <3>2. CarryInto(i, x, x) <=> i - 1 \in x
      BY <3>1, CarryStep, WordsAreSets
    <3>. QED
      BY <2>1, <3>1, <3>2 DEF Shl
  <2>. QED
    BY <2>2, <2>3
<1>2. Add(x, x) \in Word /\ Shl(x, 1) \in Word
  BY ArithmeticType
<1>. QED
  BY <1>1, <1>2 DEF Word

LEMMA ShlOnce ==
    ASSUME NEW x \in Word, NEW k \in Nat
    PROVE  Shl(Shl(x, k), 1) = Shl(x, k + 1)
<1>1. ASSUME NEW i \in Bits
      PROVE  i \in Shl(Shl(x, k), 1) <=> i \in Shl(x, k + 1)
  <2>1. i \in Nat /\ (i >= 1 => i - 1 \in Bits)
    BY DEF Bits
  <2>2. i - 1 >= k <=> i >= k + 1
    BY <2>1
  <2>3. (i - 1) - k = i - (k + 1)
    BY <2>1
  <2>4. i >= k + 1 => i >= 1
    BY <2>1
  <2>. QED
    BY <2>1, <2>2, <2>3, <2>4 DEF Shl
<1>. QED
  BY <1>1 DEF Shl

LEMMA AddZero ==
    ASSUME NEW x \in Word
    PROVE  Add(x, {}) = x
  BY DEF Add, CarryInto, Word

LEMMA AddPairs ==
    ASSUME NEW x \in Word, NEW y \in Word, NEW u \in Word, NEW v \in Word
    PROVE  Add(Add(x, y), Add(u, v)) = Add(Add(x, u), Add(y, v))
<1>1. \A a, b \in Word : Add(a, b) \in Word /\ Add(a, b) = Add(b, a)
  BY ArithmeticType, AddCommutes
<1>2. \A a, b, c \in Word : Add(Add(a, b), c) = Add(a, Add(b, c))
  BY AddAssociates
<1>3. Add(Add(x, y), Add(u, v)) = Add(x, Add(y, Add(u, v)))
  BY <1>1, <1>2
<1>4. Add(y, Add(u, v)) = Add(u, Add(y, v))
  <2>1. Add(y, Add(u, v)) = Add(Add(y, u), v)
    BY <1>2
  <2>2. Add(u, Add(y, v)) = Add(Add(u, y), v)
    BY <1>2
  <2>. QED
    BY <1>1, <2>1, <2>2
<1>5. Add(x, Add(u, Add(y, v))) = Add(Add(x, u), Add(y, v))
  BY <1>1, <1>2
<1>. QED
  BY <1>3, <1>4, <1>5

(* A shift to the left and a product are additive.                            *)
LEMMA ShlAdds ==
    ASSUME NEW x \in Word, NEW y \in Word, NEW k \in Nat
    PROVE  Shl(Add(x, y), k) = Add(Shl(x, k), Shl(y, k))
<1>. DEFINE Adds(n) == Shl(Add(x, y), n) = Add(Shl(x, n), Shl(y, n))
            D == {n \in Nat : ~Adds(n)}
<1>1. \A n : Shl(x, n) \in Word /\ Shl(y, n) \in Word /\ Add(x, y) \in Word
  BY ArithmeticType
<1>2. Adds(0)
  <2>1. ASSUME NEW z \in Word
        PROVE  Shl(z, 0) = z
    <3>1. \A i \in Bits : i >= 0 /\ i - 0 = i
      BY DEF Bits
    <3>. QED
      BY <3>1 DEF Shl, Word
  <2>. QED
    BY <1>1, <2>1
<1>3. ASSUME NEW n \in Nat, Adds(n)
      PROVE  Adds(n + 1)
  <2>1. \A z \in Word : Shl(z, n + 1) = Add(Shl(z, n), Shl(z, n))
    BY ShlOnce, AddToItself, ArithmeticType
  <2>2. Shl(Add(x, y), n + 1) = Add(Add(Shl(x, n), Shl(y, n)), Add(Shl(x, n), Shl(y, n)))
    BY <1>1, <1>3, <2>1
  <2>3. Add(Shl(x, n + 1), Shl(y, n + 1)) = Add(Add(Shl(x, n), Shl(x, n)), Add(Shl(y, n), Shl(y, n)))
    BY <2>1
  <2>. QED
    BY <1>1, <2>2, <2>3, AddPairs
<1>. SUFFICES ASSUME D # {}
              PROVE  FALSE
  OBVIOUS
<1>. HIDE DEF Adds
<1>4. PICK n \in D : \A i \in D : n <= i
  <2>1. D \in SUBSET Nat
    OBVIOUS
  <2>. HIDE DEF D
  <2>. QED
    BY <2>1, LeastElement
<1>5. n \in Nat /\ n # 0 /\ ~Adds(n)
  BY <1>2
<1>6. n - 1 \in Nat /\ (n - 1) + 1 = n /\ ~(n <= n - 1)
  BY <1>5
<1>7. n - 1 \notin D
  <2>. HIDE DEF D
  <2>. QED
    BY <1>4, <1>6
<1>. QED
  BY <1>3, <1>5, <1>6, <1>7

LEMMA MulAdds ==
    ASSUME NEW x \in Word, NEW y \in Word, NEW m \in Word
    PROVE  Mul(Add(x, y), m) = Add(Mul(x, m), Mul(y, m))
<1>. DEFINE t == Add(x, y)
<1>1. t \in Word
  BY ArithmeticType
<1>2. PICK f \in [0..W -> Word] :
              /\ f[0] = {}
              /\ \A n \in 1..W : f[n] = IF n - 1 \in m THEN Add(Shl(x, n - 1), f[n - 1]) ELSE f[n - 1]
              /\ Mul(x, m) = f[W]
  BY ONLY x \in Word, m \in Word, MulSums, ZenonT(60)
<1>3. PICK g \in [0..W -> Word] :
              /\ g[0] = {}
              /\ \A n \in 1..W : g[n] = IF n - 1 \in m THEN Add(Shl(y, n - 1), g[n - 1]) ELSE g[n - 1]
              /\ Mul(y, m) = g[W]
  BY ONLY y \in Word, m \in Word, MulSums
<1>4. PICK h \in [0..W -> Word] :
              /\ h[0] = {}
              /\ \A n \in 1..W : h[n] = IF n - 1 \in m THEN Add(Shl(t, n - 1), h[n - 1]) ELSE h[n - 1]
              /\ Mul(t, m) = h[W]
  BY ONLY <1>1, m \in Word, MulSums
<1>. DEFINE Adds(n) == h[n] = Add(f[n], g[n])
            D == {n \in 0..W : ~Adds(n)}
<1>5. Adds(0)
  BY <1>2, <1>3, <1>4, AddZero DEF Word
<1>6. ASSUME NEW n \in 1..W, Adds(n - 1)
      PROVE  Adds(n)
  <2>1. n - 1 \in 0..W /\ n - 1 \in Nat
    OBVIOUS
  <2>2. f[n - 1] \in Word /\ g[n - 1] \in Word /\ Shl(x, n - 1) \in Word /\ Shl(y, n - 1) \in Word
    BY <2>1, ArithmeticType
  <2>3. CASE n - 1 \in m
    <3>1. /\ f[n] = Add(Shl(x, n - 1), f[n - 1]) /\ g[n] = Add(Shl(y, n - 1), g[n - 1])
          /\ h[n] = Add(Shl(t, n - 1), h[n - 1])
      BY <1>2, <1>3, <1>4, <2>3
    <3>2. Shl(t, n - 1) = Add(Shl(x, n - 1), Shl(y, n - 1))
      BY <2>1, ShlAdds
    <3>. QED
      BY <1>6, <2>2, <3>1, <3>2, AddPairs
  <2>4. CASE n - 1 \notin m
    BY <1>2, <1>3, <1>4, <1>6, <2>4
  <2>. QED
    BY <2>3, <2>4
<1>7. Adds(W)
  <2>. SUFFICES ASSUME ~Adds(W)
                PROVE  FALSE
    OBVIOUS
  <2>. HIDE DEF Adds
  <2>1. D \in SUBSET Nat /\ W \in D
    OBVIOUS
  <2>2. PICK n \in D : \A i \in D : n <= i
    <3>. HIDE DEF D
    <3>. QED
      BY <2>1, LeastElement
  <2>3. n \in 0..W /\ ~Adds(n) /\ n # 0
    BY <1>5
  <2>4. n \in 1..W /\ n - 1 \in 0..W /\ ~(n <= n - 1)
    BY <2>3
  <2>5. n - 1 \notin D
    <3>. HIDE DEF D
    <3>. QED
      BY <2>2, <2>4
  <2>. QED
    BY <1>6, <2>3, <2>4, <2>5
<1>. QED
  BY <1>2, <1>3, <1>4, <1>7

(* The first bits of a sum are those of the sum of the first bits.            *)
LEMMA AddAgrees ==
    ASSUME NEW x \in Word, NEW y \in Word, NEW u \in Word, NEW v \in Word, NEW d \in Nat,
           Below(d, x, u), Below(d, y, v)
    PROVE  Below(d, Add(x, y), Add(u, v))
<1>. SUFFICES ASSUME NEW i \in Nat, i < d
              PROVE  i \in Add(x, y) <=> i \in Add(u, v)
  BY DEF Below
<1>1. CASE i \notin Bits
  BY <1>1 DEF Add
<1>2. CASE i \in Bits
  <2>1. /\ Below(i, x, u) /\ (i \in x <=> i \in u)
        /\ Below(i, y, v) /\ (i \in y <=> i \in v)
    BY DEF Below
  <2>2. CarryInto(i, x, y) <=> CarryInto(i, u, v)
    BY <2>1, CarryDepends, WordsAreSets
  <2>3. /\ i \in Add(x, y) <=> ((i \in x <=> i \in y) <=> CarryInto(i, x, y))
        /\ i \in Add(u, v) <=> ((i \in u <=> i \in v) <=> CarryInto(i, u, v))
    BY <1>2, AddBit
  <2>. QED
    BY <2>1, <2>2, <2>3
<1>. QED
  BY <1>1, <1>2

(* Adding a word whose first bits are 0 keeps those bits of the other one.    *)
LEMMA AddAbove ==
    ASSUME NEW x \in Word, NEW y \in Word, NEW d \in Nat, Below(d, x, {})
    PROVE  Below(d, Add(x, y), y)
<1>1. {} \in Word /\ Below(d, y, y)
  BY DEF Word, Below
<1>2. Add({}, y) = y
  BY <1>1, AddCommutes, AddZero
<1>. QED
  BY <1>1, <1>2, AddAgrees

(* What a subtraction took away can be added again: the borrows of the one    *)
(* are the carries of the other.                                              *)
LEMMA SubAdds ==
    ASSUME NEW z \in Word, NEW y \in Word
    PROVE  Add(Sub(z, y), y) = z
<1>. DEFINE n == Not(z)
            a == Add(n, y)
            b == Sub(z, y)
            SameCarries(i) == CarryInto(i, n, y) <=> CarryInto(i, b, y)
            D == {i \in Bits : ~SameCarries(i)}
<1>1. n \in Word /\ a \in Word /\ b \in Word
  BY ArithmeticType
<1>2. n \in SUBSET Nat /\ y \in SUBSET Nat /\ b \in SUBSET Nat
  BY <1>1, WordsAreSets
<1>3. ASSUME NEW i \in Bits
      PROVE  /\ i \in n <=> i \notin z
             /\ i \in b <=> ~((i \in n <=> i \in y) <=> CarryInto(i, n, y))
             /\ i \in Add(b, y) <=> ((i \in b <=> i \in y) <=> CarryInto(i, b, y))
  <2>1. i \in a <=> ((i \in n <=> i \in y) <=> CarryInto(i, n, y))
    BY <1>1, AddBit
  <2>2. i \in b <=> i \notin a
    BY DEF Sub, Not
  <2>3. i \in n <=> i \notin z
    BY DEF Not
  <2>. HIDE DEF a, b, n
  <2>. QED
    BY <1>1, <2>1, <2>2, <2>3, AddBit
<1>. HIDE DEF n, a, b
<1>4. SameCarries(0)
  BY <1>2, NoCarryIntoFirst
<1>5. ASSUME NEW i \in Bits, SameCarries(i)
      PROVE  SameCarries(i + 1)
  <2>1. i \in Nat
    BY DEF Bits
  <2>2. /\ CarryInto(i + 1, n, y) <=>
             (i \in n /\ i \in y) \/ ((i \in n \/ i \in y) /\ CarryInto(i, n, y))
        /\ CarryInto(i + 1, b, y) <=>
             (i \in b /\ i \in y) \/ ((i \in b \/ i \in y) /\ CarryInto(i, b, y))
    BY <1>2, <2>1, CarryStep
  <2>. QED
    BY <1>3, <1>5, <2>2
<1>6. D = {}
  <2>. SUFFICES ASSUME D # {}
                PROVE  FALSE
    OBVIOUS
  <2>1. PICK i \in D : \A k \in D : i <= k
    <3>1. D \in SUBSET Nat
      BY DEF Bits
    <3>. HIDE DEF D
    <3>. QED
      BY <3>1, LeastElement
  <2>2. i \in Bits /\ ~SameCarries(i)
    OBVIOUS
  <2>. HIDE DEF SameCarries
  <2>3. i # 0
    BY <1>4, <2>2
  <2>4. i - 1 \in Bits /\ (i - 1) + 1 = i /\ ~(i <= i - 1)
    BY <2>2, <2>3 DEF Bits
  <2>5. i - 1 \notin D
    <3>. HIDE DEF D
    <3>. QED
      BY <2>1, <2>4
  <2>6. SameCarries(i - 1)
    BY <2>4, <2>5
  <2>. QED
    BY <1>5, <2>2, <2>4, <2>6
<1>7. ASSUME NEW i \in Bits
      PROVE  i \in Add(b, y) <=> i \in z
  <2>1. SameCarries(i)
    BY <1>6
  <2>. QED
    BY <1>3, <2>1
<1>8. Add(b, y) \in Word
  BY ArithmeticType
<1>. QED
  BY <1>7, <1>8 DEF b, Word

(* A difference of words that begin with the same bits begins with zeros.     *)
LEMMA SubBelow ==
    ASSUME NEW z \in Word, NEW y \in Word, NEW d \in Nat, Below(d, z, y)
    PROVE  Below(d, Sub(z, y), {})
<1>. DEFINE b == Sub(z, y)
<1>1. b \in Word /\ {} \in Word /\ Add(b, y) = z
  BY SubAdds, ArithmeticType DEF Word
<1>. HIDE DEF b
<1>. SUFFICES ASSUME ~Below(d, b, {})
              PROVE  FALSE
  BY DEF b
<1>2. b # {}
  BY DEF Below
<1>3. PICK p \in Bits : Below(p, b, {}) /\ ~(p \in b <=> p \in {})
  BY <1>1, <1>2, FirstDifference
<1>4. p \in Nat /\ p < d
  <2>1. p \in Nat
    BY DEF Bits
  <2>2. PICK i \in Nat : i < d /\ i \in b
    BY DEF Below
  <2>3. ~(i < p)
    BY <1>3, <2>2 DEF Below
  <2>. QED
    BY <2>1, <2>2, <2>3
<1>5. Differ(p, Add(y, b), Add(y, {}))
  <2>1. Differ(p, b, {}) /\ Below(p, y, y)
    BY <1>3 DEF Differ, Below
  <2>. QED
    BY <1>1, <2>1, AddKeepsDifference
<1>6. Add(y, b) = z /\ Add(y, {}) = y
  BY <1>1, AddCommutes, AddZero
<1>. QED
  BY <1>4, <1>5, <1>6 DEF Differ, Below

(* A multiplier that is 1 modulo 4 keeps two bits more than are 0.            *)
LEMMA MulKeeps ==
    ASSUME NEW m \in Word, 0 \in m, 1 \notin m, NEW y \in Word, NEW j \in Nat, Below(j, y, {})
    PROVE  Below(j + 2, Mul(y, m), y)
<1>1. PICK f \in [0..W -> Word] :
              /\ f[0] = {}
              /\ \A n \in 1..W : f[n] = IF n - 1 \in m THEN Add(Shl(y, n - 1), f[n - 1]) ELSE f[n - 1]
              /\ Mul(y, m) = f[W]
  BY MulSums
<1>. DEFINE Keeps(n) == Below(j + 2, f[n], y)
            D == {n \in 1..W : ~Keeps(n)}
<1>2. Keeps(1)
  <2>1. \A i \in Bits : i >= 0 /\ i - 0 = i
    BY DEF Bits
  <2>2. Shl(y, 0) = y
    BY <2>1 DEF Shl, Word
  <2>3. 1 \in 1..W /\ 1 - 1 = 0
    OBVIOUS
  <2>4. f[1] = y
    BY <1>1, <2>2, <2>3, AddZero
  <2>. QED
    BY <2>4 DEF Below
<1>3. ASSUME NEW n \in 2..W, Keeps(n - 1)
      PROVE  Keeps(n)
  <2>1. n \in 1..W /\ n - 1 \in 0..W /\ n - 1 \in Nat
    OBVIOUS
  <2>2. CASE n - 1 \notin m
    BY <1>1, <1>3, <2>1, <2>2
  <2>3. CASE n - 1 \in m
    <3>1. n - 1 >= 2
      BY <2>3
    <3>2. Below(j + 2, Shl(y, n - 1), {})
      <4>. SUFFICES ASSUME NEW i \in Nat, i < j + 2, i \in Shl(y, n - 1)
                    PROVE  FALSE
        BY DEF Below
      <4>1. i >= n - 1 /\ i - (n - 1) \in y
        BY DEF Shl
      <4>2. i - (n - 1) \in Nat /\ i - (n - 1) < j
        BY <3>1, <4>1
      <4>. QED
        BY <4>1, <4>2 DEF Below
    <3>3. Below(j + 2, f[n], f[n - 1])
      <4>1. f[n - 1] \in Word /\ Shl(y, n - 1) \in Word /\ f[n] = Add(Shl(y, n - 1), f[n - 1])
        BY <1>1, <2>1, <2>3, ArithmeticType
      <4>. QED
        BY <3>2, <4>1, AddAbove
    <3>. QED
      BY <1>3, <3>3 DEF Below
  <2>. QED
    BY <2>2, <2>3
<1>4. Keeps(W)
  <2>. SUFFICES ASSUME ~Keeps(W)
                PROVE  FALSE
    OBVIOUS
  <2>. HIDE DEF Keeps
  <2>1. D \in SUBSET Nat /\ W \in D
    OBVIOUS
  <2>2. PICK n \in D : \A i \in D : n <= i
    <3>. HIDE DEF D
    <3>. QED
      BY <2>1, LeastElement
  <2>3. n \in 1..W /\ ~Keeps(n) /\ n # 1
    BY <1>2
  <2>4. n \in 2..W /\ n - 1 \in 1..W /\ ~(n <= n - 1)
    BY <2>3
  <2>5. n - 1 \notin D
    <3>. HIDE DEF D
    <3>. QED
      BY <2>2, <2>4
  <2>. QED
    BY <1>3, <2>3, <2>4, <2>5
<1>. QED
  BY <1>1, <1>4

(* F adds to x, at bit k, a 1, and above it what only depends on the bits     *)
(* of x that are lower by two and more: what 2^k steps of a congruential      *)
(* generator do.  L is F without the constant.                                *)
Affine(F, L, k) ==
    /\ F \in [Word -> Word] /\ L \in [Word -> Word]
    /\ \A x, y \in Word : F[Add(x, y)] = Add(F[x], L[y])
    /\ \A x, y \in Word : L[Add(x, y)] = Add(L[x], L[y])
    /\ \A y \in Word, j \in Nat : Below(j, y, {}) => Below((j + k) + 2, L[y], y)
    /\ Differ(k, F[{}], {})

LEMMA AffineFlips ==
    ASSUME NEW F, NEW L, NEW k \in Bits, Affine(F, L, k), NEW x \in Word
    PROVE  Differ(k, F[x], x)
<1>1. {} \in Word /\ Below(0, x, {}) /\ k \in Nat
  BY DEF Word, Below, Bits
<1>2. F[{}] \in Word /\ L[x] \in Word
  BY <1>1 DEF Affine
<1>3. F[x] = Add(F[{}], L[x])
  <2>1. Add({}, x) = x
    BY <1>1, AddCommutes, AddZero
  <2>. QED
    BY <1>1, <2>1 DEF Affine
<1>4. Below((0 + k) + 2, L[x], x)
  BY <1>1 DEF Affine
<1>5. Below(k, L[x], x) /\ (k \in L[x] <=> k \in x)
  BY <1>1, <1>4 DEF Below
<1>6. Differ(k, Add(L[x], F[{}]), Add(x, {}))
  <2>1. Differ(k, F[{}], {})
    BY DEF Affine
  <2>. QED
    BY <1>1, <1>2, <1>5, <2>1, AddKeepsDifference
<1>7. Add(L[x], F[{}]) = F[x] /\ Add(x, {}) = x
  BY <1>2, <1>3, AddCommutes, AddZero
<1>. QED
  BY <1>6, <1>7

(* Taking the step twice moves all of that up by one bit.                     *)
LEMMA AffineTwice ==
    ASSUME NEW F, NEW L, NEW k \in Nat, k + 1 \in Bits, Affine(F, L, k)
    PROVE  Affine([x \in Word |-> F[F[x]]], [x \in Word |-> L[L[x]]], k + 1)
<1>. DEFINE G == [x \in Word |-> F[F[x]]]
            M == [x \in Word |-> L[L[x]]]
<1>1. /\ F \in [Word -> Word] /\ L \in [Word -> Word]
      /\ \A x, y \in Word : Add(x, y) \in Word
      /\ {} \in Word
  BY ArithmeticType DEF Affine, Word
<1>2. G \in [Word -> Word] /\ M \in [Word -> Word]
  BY <1>1
<1>3. \A x, y \in Word : F[Add(x, y)] = Add(F[x], L[y]) /\ L[Add(x, y)] = Add(L[x], L[y])
  BY DEF Affine
<1>4. \A x, y \in Word : G[Add(x, y)] = Add(G[x], M[y])
  BY <1>1, <1>3
<1>5. \A x, y \in Word : M[Add(x, y)] = Add(M[x], M[y])
  BY <1>1, <1>3
<1>6. ASSUME NEW y \in Word, NEW j \in Nat, Below(j, y, {})
      PROVE  Below((j + (k + 1)) + 2, M[y], y)
  <2>. DEFINE m == (j + k) + 2
              d == Sub(L[y], y)
  <2>1. m \in Nat /\ m + 1 = (j + (k + 1)) + 2
    OBVIOUS
  <2>2. Below(m, L[y], y)
    BY <1>6 DEF Affine
  <2>. HIDE DEF m
  <2>3. L[y] \in Word /\ d \in Word
    BY <1>1, ArithmeticType
  <2>4. Add(d, y) = L[y]
    BY <2>3, SubAdds
  <2>5. Below(m, d, {})
    BY <2>1, <2>2, <2>3, SubBelow
  <2>. HIDE DEF d
  <2>6. Below(m + 1, L[d], d)
    <3>1. Below((m + k) + 2, L[d], d)
      BY <2>1, <2>3, <2>5 DEF Affine
    <3>2. \A i \in Nat : i < m + 1 => i < (m + k) + 2
      BY <2>1
    <3>. QED
      BY <3>1, <3>2 DEF Below
  <2>7. L[d] \in Word /\ Add(L[d], d) \in Word
    BY <1>1, <2>3
  <2>8. Below(m + 1, Add(L[d], d), {})
    <3>1. Below(m + 1, Add(L[d], d), Shl(d, 1))
      <4>1. Below(m + 1, d, d) /\ m + 1 \in Nat
        BY <2>1 DEF Below
      <4>. QED
        BY <2>3, <2>6, <2>7, <4>1, AddAgrees, AddToItself
    <3>2. ASSUME NEW i \in Nat, i < m + 1, i \in Shl(d, 1)
          PROVE  FALSE
      <4>1. i >= 1 /\ i - 1 \in d
        BY <3>2 DEF Shl
      <4>2. i - 1 \in Nat /\ i - 1 < m
        BY <2>1, <3>2, <4>1
      <4>. QED
        BY <2>5, <4>1, <4>2 DEF Below
    <3>. QED
      BY <3>1, <3>2 DEF Below
  <2>9. M[y] = Add(Add(L[d], d), y)
    <3>1. M[y] = L[Add(d, y)]
      BY <2>4
    <3>2. L[Add(d, y)] = Add(L[d], Add(d, y))
      BY <1>3, <2>3, <2>4
    <3>. QED
      BY <2>3, <2>7, <3>1, <3>2, AddAssociates
  <2>10. Below(m + 1, Add(Add(L[d], d), y), y)
    BY <2>1, <2>7, <2>8, AddAbove
  <2>. QED
    BY <2>1, <2>9, <2>10
<1>7. Differ(k + 1, G[{}], {})
  <2>. DEFINE c == F[{}]
  <2>1. c \in Word /\ L[c] \in Word
    BY <1>1
  <2>2. Below(k, c, {}) /\ k \in c
    BY DEF Affine, Differ
  <2>3. G[{}] = Add(c, L[c])
    <3>1. Add({}, c) = c
      BY <1>1, <2>1, AddCommutes, AddZero
    <3>2. F[Add({}, c)] = Add(F[{}], L[c])
      BY <1>1, <1>3, <2>1
    <3>. QED
      BY <1>1, <3>1, <3>2
  <2>. HIDE DEF c, G
  <2>4. Below(k + 2, L[c], c)
    <3>1. Below((k + k) + 2, L[c], c)
      BY <2>1, <2>2 DEF Affine
    <3>2. \A i \in Nat : i < k + 2 => i < (k + k) + 2
      OBVIOUS
    <3>. QED
      BY <3>1, <3>2 DEF Below
  <2>5. Below(k + 2, Add(c, L[c]), Shl(c, 1))
    <3>1. Below(k + 2, c, c) /\ k + 2 \in Nat
      BY DEF Below
    <3>. QED
      BY <2>1, <2>4, <3>1, AddAgrees, AddToItself
  <2>6. k + 1 \in Shl(c, 1)
    <3>1. k + 1 >= 1 /\ (k + 1) - 1 = k
      OBVIOUS
    <3>. QED
      BY <2>2, <3>1 DEF Shl
  <2>7. ASSUME NEW i \in Nat, i < k + 1, i \in Shl(c, 1)
        PROVE  FALSE
    <3>1. i >= 1 /\ i - 1 \in c
      BY <2>7 DEF Shl
    <3>2. i - 1 \in Nat /\ i - 1 < k
      BY <2>7, <3>1
    <3>. QED
      BY <2>2, <3>1, <3>2 DEF Below
  <2>8. \A i \in Nat : i < k + 1 => i < k + 2
    OBVIOUS
  <2>9. k + 1 \in Nat /\ k + 1 < k + 2
    OBVIOUS
  <2>. QED
    BY <2>3, <2>5, <2>6, <2>7, <2>8, <2>9 DEF Differ, Below
<1>. HIDE DEF G, M
<1>. QED
  BY <1>2, <1>4, <1>5, <1>6, <1>7 DEF Affine, G, M

(* A set of words that has, with a word, one that differs first at any bit,   *)
(* has every word: its bits are set right one after the other.                *)
LEMMA FlipsVisitAll ==
    ASSUME NEW S \in SUBSET Word, S # {},
           \A k \in Bits : \A z \in S : \E u \in S : Differ(k, u, z)
    PROVE  S = Word
<1>1. ASSUME NEW y \in Word
      PROVE  y \in S
  <2>. DEFINE Reached(d) == \E z \in S : Below(d, z, y)
              D == {d \in Nat : d <= W /\ ~Reached(d)}
  <2>1. Reached(0)
    BY DEF Below
  <2>2. ASSUME NEW d \in Bits, Reached(d)
        PROVE  Reached(d + 1)
    <3>1. PICK z \in S : Below(d, z, y)
      BY <2>2
    <3>2. d \in Nat
      BY DEF Bits
    <3>3. CASE d \in z <=> d \in y
      <4>1. Below(d + 1, z, y)
        BY <3>1, <3>2, <3>3 DEF Below
      <4>. QED
        BY <4>1
    <3>4. CASE ~(d \in z <=> d \in y)
      <4>1. PICK u \in S : Differ(d, u, z)
        BY <2>2
      <4>2. Below(d, u, y) /\ (d \in u <=> d \in y)
        BY <3>1, <3>4, <4>1 DEF Differ, Below
      <4>3. Below(d + 1, u, y)
        BY <3>2, <4>2 DEF Below
      <4>. QED
        BY <4>3
    <3>. QED
      BY <3>3, <3>4
  <2>3. Reached(W)
    <3>. SUFFICES ASSUME ~Reached(W)
                  PROVE  FALSE
      OBVIOUS
    <3>. HIDE DEF Reached
    <3>1. W \in D
      OBVIOUS
    <3>2. PICK d \in D : \A i \in D : d <= i
      <4>1. D \in SUBSET Nat
        OBVIOUS
      <4>. HIDE DEF D
      <4>. QED
        BY <3>1, <4>1, LeastElement
    <3>3. d \in Nat /\ d <= W /\ ~Reached(d) /\ d # 0
      BY <2>1
    <3>4. d - 1 \in Bits /\ d - 1 \in Nat /\ d - 1 <= W /\ (d - 1) + 1 = d /\ ~(d <= d - 1)
      BY <3>3 DEF Bits
    <3>5. d - 1 \notin D
      <4>. HIDE DEF D
      <4>. QED
        BY <3>2, <3>4
    <3>6. Reached(d - 1)
      BY <3>4, <3>5
    <3>7. Reached(d)
      BY <2>2, <3>4, <3>6
    <3>. QED
      BY <3>3, <3>7
  <2>4. PICK z \in S : Below(W, z, y)
    BY <2>3
  <2>5. \A i \in Bits : i \in z <=> i \in y
    BY <2>4 DEF Below, Bits
  <2>6. z = y
    BY <2>5 DEF Word
  <2>. QED
    BY <2>6
<1>. QED
  BY <1>1

LEMMA WordCount == IsFiniteSet(Word) /\ Cardinality(Word) = 2^W
<1>1. IsFiniteSet(Bits) /\ Cardinality(Bits) = W
  <2>1. 0 \in Int /\ W - 1 \in Int /\ ~(0 > W - 1) /\ (W - 1) - 0 + 1 = W
    BY WAssumption
  <2>. QED
    BY <2>1, FS_Interval DEF Bits
<1>. QED
  BY <1>1, FS_SUBSET DEF Word

(* Whatever a step that is affine from the first bit on is repeated on, it    *)
(* comes to every word: 2^k of its steps change bit k and leave those below.  *)
LEMMA AffinePeriod ==
    ASSUME NEW F, NEW L, Affine(F, L, 0)
    PROVE  HasPeriod(F, 2^W)
<1>. SUFFICES ASSUME NEW S \in SUBSET Word, S # {}, \A s \in S : F[s] \in S
              PROVE  S = Word
  BY WordCount DEF HasPeriod, OneCycle, Affine
<1>. DEFINE Closed(k) == \E G, M \in [Word -> Word] : Affine(G, M, k) /\ \A s \in S : G[s] \in S
            D == {k \in Bits : ~Closed(k)}
<1>1. Closed(0)
  BY DEF Affine
<1>2. ASSUME NEW k \in Nat, k + 1 \in Bits, Closed(k)
      PROVE  Closed(k + 1)
  <2>1. PICK G \in [Word -> Word], M \in [Word -> Word] :
               Affine(G, M, k) /\ \A s \in S : G[s] \in S
    BY <1>2
  <2>2. Affine([x \in Word |-> G[G[x]]], [x \in Word |-> M[M[x]]], k + 1)
    BY <1>2, <2>1, AffineTwice
  <2>3. \A s \in S : G[G[s]] \in S
    BY <2>1
  <2>4. [x \in Word |-> G[G[x]]] \in [Word -> Word] /\ [x \in Word |-> M[M[x]]] \in [Word -> Word]
    OBVIOUS
  <2>. QED
    BY <2>2, <2>3, <2>4
<1>3. D = {}
  <2>. SUFFICES ASSUME D # {}
                PROVE  FALSE
    OBVIOUS
  <2>. HIDE DEF Closed
  <2>1. PICK k \in D : \A i \in D : k <= i
    <3>1. D \in SUBSET Nat
      BY DEF Bits
    <3>. HIDE DEF D
    <3>. QED
      BY <3>1, LeastElement
  <2>2. k \in Bits /\ ~Closed(k) /\ k # 0
    BY <1>1
  <2>3. k - 1 \in Bits /\ k - 1 \in Nat /\ (k - 1) + 1 = k /\ ~(k <= k - 1)
    BY <2>2 DEF Bits
  <2>4. k - 1 \notin D
    <3>. HIDE DEF D
    <3>. QED
      BY <2>1, <2>3
  <2>5. Closed(k - 1)
    BY <2>3, <2>4
  <2>. QED
    BY <1>2, <2>2, <2>3, <2>5
<1>4. ASSUME NEW k \in Bits, NEW z \in S
      PROVE  \E u \in S : Differ(k, u, z)
  <2>1. Closed(k)
    BY <1>3
  <2>2. PICK G \in [Word -> Word], M \in [Word -> Word] :
               Affine(G, M, k) /\ \A s \in S : G[s] \in S
    BY <2>1
  <2>3. Differ(k, G[z], z)
    BY <2>2, AffineFlips
  <2>. QED
    BY <2>2, <2>3
<1>. QED
  BY <1>4, FlipsVisitAll

(* "Must be odd" of the increment of a counter: it comes to every word before *)
(* it comes back.                                                             *)
THEOREM CounterPeriod ==
    ASSUME NEW c \in Word, 0 \in c
    PROVE  HasPeriod([x \in Word |-> Add(x, c)], 2^W)
<1>. DEFINE F == [x \in Word |-> Add(x, c)]
            L == [x \in Word |-> x]
<1>1. F \in [Word -> Word] /\ L \in [Word -> Word] /\ {} \in Word
  BY ArithmeticType DEF Word
<1>2. ASSUME NEW x \in Word, NEW y \in Word
      PROVE  /\ F[Add(x, y)] = Add(F[x], L[y])
             /\ L[Add(x, y)] = Add(L[x], L[y])
  <2>1. Add(x, y) \in Word /\ Add(x, c) \in Word
    BY ArithmeticType
  <2>2. Add(Add(x, y), c) = Add(x, Add(y, c)) /\ Add(y, c) = Add(c, y)
        /\ Add(x, Add(c, y)) = Add(Add(x, c), y)
    BY AddAssociates, AddCommutes
  <2>. QED
    BY <2>1, <2>2
<1>3. \A y \in Word, j \in Nat : Below(j, y, {}) => Below((j + 0) + 2, L[y], y)
  BY DEF Below
<1>4. Differ(0, F[{}], {})
  <2>1. F[{}] = c
    BY <1>1, AddCommutes, AddZero
  <2>. QED
    BY <2>1 DEF Differ, Below
<1>. HIDE DEF F, L
<1>5. Affine(F, L, 0)
  BY <1>1, <1>2, <1>3, <1>4 DEF Affine
<1>. QED
  BY <1>5, AffinePeriod DEF F

(* The linear congruential generators come to every word, too: that lcg, mcg, *)
(* pcg and lxm multiply by a number that is 1 modulo 4 and add an odd one is  *)
(* all that it takes.                                                         *)
THEOREM LcgPeriod ==
    ASSUME NEW m \in Word, 0 \in m, 1 \notin m, NEW c \in Word, 0 \in c
    PROVE  HasPeriod([x \in Word |-> lcg(x, m, c)], 2^W)
<1>. DEFINE F == [x \in Word |-> lcg(x, m, c)]
            L == [x \in Word |-> Mul(x, m)]
<1>1. /\ F \in [Word -> Word] /\ L \in [Word -> Word] /\ {} \in Word
      /\ \A x, y \in Word : Add(x, y) \in Word
  BY ArithmeticType, MulType DEF Word, lcg
<1>2. ASSUME NEW x \in Word, NEW y \in Word
      PROVE  /\ F[Add(x, y)] = Add(F[x], L[y])
             /\ L[Add(x, y)] = Add(L[x], L[y])
  <2>. DEFINE a == Mul(x, m)
              b == Mul(y, m)
  <2>1. a \in Word /\ b \in Word /\ Add(x, y) \in Word /\ Mul(Add(x, y), m) = Add(a, b)
    BY <1>1, MulType, MulAdds
  <2>2. F[Add(x, y)] = Add(Add(a, b), c) /\ F[x] = Add(a, c) /\ L[y] = b /\ L[x] = a
        /\ L[Add(x, y)] = Add(a, b)
    BY <2>1 DEF lcg
  <2>. HIDE DEF a, b, F, L
  <2>3. Add(Add(a, b), c) = Add(a, Add(b, c)) /\ Add(b, c) = Add(c, b)
        /\ Add(a, Add(c, b)) = Add(Add(a, c), b)
    BY <2>1, AddAssociates, AddCommutes
  <2>. QED
    BY <2>2, <2>3
<1>3. ASSUME NEW y \in Word, NEW j \in Nat, Below(j, y, {})
      PROVE  Below((j + 0) + 2, L[y], y)
  BY <1>3, MulKeeps
<1>4. Differ(0, F[{}], {})
  <2>1. F[{}] = Add(Mul({}, m), c) /\ Mul({}, m) \in Word
    BY <1>1, MulType DEF lcg
  <2>2. Below(2, Mul({}, m), {})
    <3>1. Below(0, {}, {})
      BY DEF Below
    <3>2. Below(0 + 2, Mul({}, m), {})
      BY <1>1, <3>1, MulKeeps
    <3>. QED
      BY <3>2
  <2>3. Below(1, F[{}], c)
    <3>1. Below(1, Mul({}, m), {})
      BY <2>2 DEF Below
    <3>. QED
      BY <2>1, <3>1, AddAbove
  <2>. HIDE DEF F
  <2>. QED
    BY <2>3 DEF Differ, Below
<1>. HIDE DEF F, L
<1>5. Affine(F, L, 0)
  BY <1>1, <1>2, <1>3, <1>4 DEF Affine
<1>. QED
  BY <1>5, AffinePeriod DEF F

(* lehmer64 adds before it multiplies.                                        *)
THEOREM LehmerPeriod ==
    ASSUME NEW m \in Word, 0 \in m, 1 \notin m
    PROVE  HasPeriod([x \in Word |-> lehmer(x, m)], 2^W)
<1>. DEFINE c == Mul(One, m)
<1>1. One \in Word /\ c \in Word
  BY WAssumption, MulType DEF One, Word, Bits
<1>2. 0 \in c
  <2>1. Below(0, One, {})
    BY DEF Below
  <2>2. Below(0 + 2, c, One)
    BY <1>1, <2>1, MulKeeps
  <2>. QED
    BY <2>2 DEF Below, One
<1>3. \A x \in Word : lehmer(x, m) = lcg(x, m, c)
  BY <1>1, MulAdds DEF lehmer, lcg
<1>. HIDE DEF c
<1>4. HasPeriod([x \in Word |-> lcg(x, m, c)], 2^W)
  BY <1>1, <1>2, LcgPeriod
<1>5. [x \in Word |-> lehmer(x, m)] = [x \in Word |-> lcg(x, m, c)]
  BY <1>3
<1>. QED
  BY <1>4, <1>5

(* What goes round like F has the period of F.                                *)
LEMMA SamePeriod ==
    ASSUME NEW F, NEW n, HasPeriod(F, n), NEW E, NEW G \in [E -> E],
           NEW h \in [DOMAIN F -> E],
           \A x, y \in DOMAIN F : h[x] = h[y] => x = y,
           \A z \in E : \E x \in DOMAIN F : h[x] = z,
           \A x \in DOMAIN F : h[F[x]] = G[h[x]]
    PROVE  HasPeriod(G, n)
<1>. DEFINE D == DOMAIN F
<1>1. IsFiniteSet(D) /\ Cardinality(D) = n /\ F \in [D -> D]
  BY DEF HasPeriod, OneCycle
<1>2. h \in Bijection(D, E)
  BY DEF Bijection, Injection, IsInjective, Surjection
<1>3. IsFiniteSet(E) /\ Cardinality(E) = n
  BY <1>1, <1>2, FS_Bijection DEF ExistsBijection
<1>4. ASSUME NEW S \in SUBSET E, S # {}, \A z \in S : G[z] \in S
      PROVE  S = E
  <2>. DEFINE T == {x \in D : h[x] \in S}
  <2>1. T # {}
    <3>1. PICK z \in S : TRUE
      BY <1>4
    <3>2. PICK x \in D : h[x] = z
      BY <3>1
    <3>. QED
      BY <3>1, <3>2
  <2>2. \A x \in T : F[x] \in T
    BY <1>1, <1>4
  <2>3. T = D
    <3>1. T \in SUBSET D
      OBVIOUS
    <3>. HIDE DEF T
    <3>. QED
      BY <2>1, <2>2, <3>1 DEF HasPeriod, OneCycle
  <2>4. ASSUME NEW z \in E
        PROVE  z \in S
    <3>1. PICK x \in D : h[x] = z
      OBVIOUS
    <3>. QED
      BY <2>3, <3>1
  <2>. QED
    BY <2>4
<1>5. DOMAIN G = E
  OBVIOUS
<1>. QED
  BY <1>3, <1>4, <1>5 DEF HasPeriod, OneCycle

(* Words without a common bit are added like sets.                            *)
LEMMA AddApart ==
    ASSUME NEW x \in Word, NEW y \in Word, x \cap y = {}
    PROVE  Add(x, y) = x \cup y
<1>1. \A i \in Bits : ~CarryInto(i, x, y)
  BY DEF CarryInto
<1>. QED
  BY <1>1 DEF Add, Word

LEMMA OneTimes ==
    ASSUME NEW c \in Word
    PROVE  Mul(One, c) = c
<1>1. One \in Word
  BY ArithmeticType
<1>2. PICK f \in [0..W -> Word] :
              /\ f[0] = {}
              /\ \A n \in 1..W : f[n] = IF n - 1 \in c THEN Add(Shl(One, n - 1), f[n - 1]) ELSE f[n - 1]
              /\ Mul(One, c) = f[W]
  BY <1>1, MulSums
<1>. DEFINE Lower(n) == {i \in c : i < n}
            D == {n \in 0..W : f[n] # Lower(n)}
<1>3. \A i \in c : i \in Nat /\ i < W
  BY DEF Word, Bits
<1>4. ASSUME NEW n \in 1..W, f[n - 1] = Lower(n - 1)
      PROVE  f[n] = Lower(n)
  <2>1. n - 1 \in Bits /\ n - 1 \in Nat
    BY DEF Bits
  <2>. DEFINE m == n - 1
  <2>2. \A i \in c : i < n <=> i < m \/ i = m
    BY <1>3
  <2>3. Lower(n) = Lower(m) \cup (c \cap {m})
    BY <2>2
  <2>4. CASE n - 1 \notin c
    <3>1. Lower(n) = Lower(n - 1)
      BY <2>4, <2>3
    <3>. QED
      BY <1>2, <1>4, <2>4, <3>1
  <2>5. CASE n - 1 \in c
    <3>1. Shl(One, n - 1) = {n - 1}
      BY <2>1 DEF Shl, One, Bits
    <3>2. {n - 1} \in Word /\ f[n - 1] \in Word /\ {n - 1} \cap f[n - 1] = {}
      <4>1. n - 1 \notin Lower(n - 1)
        OBVIOUS
      <4>2. n - 1 \in 0..W
        OBVIOUS
      <4>. QED
        BY <1>2, <1>4, <2>1, <4>1, <4>2 DEF Word
    <3>3. f[n] = {n - 1} \cup Lower(n - 1)
      BY <1>2, <1>4, <2>5, <3>1, <3>2, AddApart
    <3>4. Lower(n) = {n - 1} \cup Lower(n - 1)
      BY <2>5, <2>3
    <3>. QED
      BY <3>3, <3>4
  <2>. QED
    BY <2>4, <2>5
<1>5. f[0] = Lower(0)
  <2>1. \A i \in c : ~(i < 0)
    BY <1>3
  <2>. QED
    BY <1>2, <2>1
<1>6. D = {}
  <2>. SUFFICES ASSUME D # {}
                PROVE  FALSE
    OBVIOUS
  <2>. HIDE DEF Lower
  <2>1. PICK n \in D : \A i \in D : n <= i
    <3>1. D \in SUBSET Nat
      OBVIOUS
    <3>. HIDE DEF D
    <3>. QED
      BY <3>1, LeastElement
  <2>2. n \in 1..W /\ f[n] # Lower(n)
    BY <1>5
  <2>3. n - 1 \in 0..W /\ ~(n <= n - 1)
    BY <2>2
  <2>4. n - 1 \notin D
    <3>. HIDE DEF D
    <3>. QED
      BY <2>1, <2>3
  <2>. QED
    BY <1>4, <2>2, <2>3, <2>4
<1>7. f[W] = Lower(W)
  BY <1>6, WAssumption
<1>8. Lower(W) = c
  BY <1>3
<1>. QED
  BY <1>2, <1>7, <1>8

LEMMA ZeroTimes ==
    ASSUME NEW c \in Word
    PROVE  Mul({}, c) = {}
<1>. DEFINE z == Mul({}, c)
<1>1. {} \in Word /\ z \in Word
  BY MulType DEF Word
<1>2. Add({}, {}) = {} /\ Add(z, {}) = z
  BY <1>1, AddZero
<1>3. z = Add(z, z)
  BY <1>1, <1>2, MulAdds
<1>. HIDE DEF z
<1>. QED
  BY <1>1, <1>2, <1>3, AddCancelsLeft DEF z

(* Counters side by side, those of wyrand, mumx_ctr2, clmulrand, squares and  *)
(* of the blocks with their keys, which move by zero: as soon as one of the   *)
(* increments is odd, a state comes back after 2^W calls and not before.      *)
THEOREM CountersPeriod ==
    ASSUME NEW I, NEW c \in [I -> Word], NEW j \in I, 0 \in c[j], NEW s \in [I -> Word]
    PROVE  \E R \in SUBSET [I -> Word] :
              s \in R /\ HasPeriod([t \in R |-> [i \in I |-> Add(t[i], c[i])]], 2^W)
<1>. DEFINE at(k) == [i \in I |-> Add(s[i], Mul(k, c[i]))]
            h == [k \in Word |-> at(k)]
            R == {h[k] : k \in Word}
            F == [k \in Word |-> Add(k, One)]
            G == [t \in R |-> [i \in I |-> Add(t[i], c[i])]]
<1>1. /\ \A x, y \in Word : Add(x, y) \in Word /\ Mul(x, y) \in Word
      /\ One \in Word /\ 0 \in One /\ {} \in Word
      /\ \A i \in I : c[i] \in Word /\ s[i] \in Word
  BY ArithmeticType, MulType DEF One, Word
<1>2. \A k \in Word : at(k) \in [I -> Word]
  BY <1>1
<1>3. h \in [Word -> R] /\ R \in SUBSET [I -> Word] /\ \A z \in R : \E k \in Word : h[k] = z
  BY <1>2
<1>4. ASSUME NEW x \in Word, NEW y \in Word, h[x] = h[y]
      PROVE  x = y
  <2>1. Add(s[j], Mul(x, c[j])) = Add(s[j], Mul(y, c[j]))
    <3>1. at(x) = at(y)
      BY <1>4
    <3>. QED
      BY <3>1
  <2>2. Mul(x, c[j]) = Mul(y, c[j])
    BY <1>1, <2>1, AddCancelsLeft
  <2>. QED
    BY <1>1, <2>2, MulInjective
<1>5. ASSUME NEW k \in Word
      PROVE  h[F[k]] = G[h[k]]
  <2>1. F[k] \in Word /\ F[k] = Add(k, One) /\ h[k] \in R
    BY <1>1, <1>3
  <2>2. ASSUME NEW i \in I
        PROVE  Add(s[i], Mul(Add(k, One), c[i])) = Add(Add(s[i], Mul(k, c[i])), c[i])
    <3>1. Mul(Add(k, One), c[i]) = Add(Mul(k, c[i]), c[i])
      BY <1>1, MulAdds, OneTimes
    <3>. QED
      BY <1>1, <3>1, AddAssociates
  <2>3. at(Add(k, One)) = [i \in I |-> Add(at(k)[i], c[i])]
    BY <2>2
  <2>. QED
    BY <2>1, <2>3
<1>6. s \in R
  <2>1. at({}) = [i \in I |-> s[i]]
    BY <1>1, ZeroTimes, AddZero
  <2>2. h[{}] = s /\ h[{}] \in R
    BY <1>1, <2>1
  <2>. QED
    BY <2>2
<1>7. HasPeriod(F, 2^W) /\ DOMAIN F = Word
  BY <1>1, CounterPeriod
<1>8. G \in [R -> R]
  <2>. SUFFICES ASSUME NEW t \in R
                PROVE  [i \in I |-> Add(t[i], c[i])] \in R
    OBVIOUS
  <2>1. PICK k \in Word : h[k] = t
    BY <1>3
  <2>2. F[k] \in Word
    BY <1>1
  <2>3. G[t] = h[F[k]]
    BY <1>5, <2>1
  <2>. QED
    BY <2>2, <2>3
<1>. HIDE DEF h, R, F, G
<1>9. HasPeriod(G, 2^W)
  <2>1. /\ h \in [DOMAIN F -> R]
        /\ \A x, y \in DOMAIN F : h[x] = h[y] => x = y
        /\ \A z \in R : \E x \in DOMAIN F : h[x] = z
        /\ \A x \in DOMAIN F : h[F[x]] = G[h[x]]
    BY <1>3, <1>4, <1>5, <1>7
  <2>. QED
    BY <1>7, <1>8, <2>1, SamePeriod
<1>. QED
  BY <1>3, <1>6, <1>9 DEF G

(* xsm.  2^k of its steps add p1, shifted by k, to the first word, and what   *)
(* they add to the second is odd or even as Odd says: the carries between the *)
(* words are those of the last of these additions and the bits that p1 has    *)
(* lost by being shifted.                                                     *)
Odd(k, x, p1, p2) ==
    (CarryInto(W, x, Shl(p1, k)) <=> W - k \in p1) <=>
        CASE k = 0 -> ~(0 \in x <=> 0 \in p2)
          [] k = 1 -> TRUE
          [] OTHER -> FALSE

LEMMA CarryOutOfTwice ==
    ASSUME NEW u \in Word
    PROVE  CarryInto(W, u, u) <=> W - 1 \in u
<1>1. W - 1 \in Nat /\ (W - 1) + 1 = W
  BY WAssumption
<1>. QED
  BY <1>1, CarryStep, WordsAreSets

LEMMA FirstBitOfSum ==
    ASSUME NEW x \in Word, NEW y \in Word
    PROVE  0 \in Add(x, y) <=> ~(0 \in x <=> 0 \in y)
<1>1. 0 \in Bits /\ ~CarryInto(0, x, y)
  BY WAssumption, NoCarryIntoFirst, WordsAreSets DEF Bits
<1>. QED
  BY <1>1, AddBit

LEMMA OddTwice ==
    ASSUME NEW p1 \in Word, 0 \in p1, NEW p2 \in Word, NEW k \in 0..(W - 1), NEW x \in Word
    PROVE  Odd(k + 1, x, p1, p2) <=> ~(Odd(k, x, p1, p2) <=> Odd(k, Add(x, Shl(p1, k)), p1, p2))
<1>. DEFINE u == Shl(p1, k)
            y == Add(x, u)
            T(i, z) == CASE i = 0 -> ~(0 \in z <=> 0 \in p2)
                         [] i = 1 -> TRUE
                         [] OTHER -> FALSE
<1>1. u \in Word /\ y \in Word /\ Add(u, u) = Shl(p1, k + 1) /\ W \in 0..W /\ k \in Nat
  <2>1. u \in Word /\ y \in Word
    BY ArithmeticType
  <2>2. Add(u, u) = Shl(u, 1) /\ Shl(u, 1) = Shl(p1, k + 1)
    BY <2>1, AddToItself, ShlOnce
  <2>. HIDE DEF u, y
  <2>. QED
    BY <2>1, <2>2, WAssumption
<1>2. CarryInto(W, u, u) <=> W - (k + 1) \in p1
  <2>1. W - 1 \in Bits /\ W - 1 >= k /\ (W - 1) - k = W - (k + 1)
    BY WAssumption DEF Bits
  <2>2. CarryInto(W, u, u) <=> W - 1 \in u
    BY <1>1, CarryOutOfTwice
  <2>. QED
    BY <2>1, <2>2 DEF Shl
<1>3. CarriesBalance(W, x, u, u)
  BY <1>1, CarriesAlike
<1>4. /\ (CarryInto(W, x, u) /\ CarryInto(W, y, u)) <=>
            (CarryInto(W, u, u) /\ CarryInto(W, x, Shl(p1, k + 1)))
      /\ (CarryInto(W, x, u) \/ CarryInto(W, y, u)) <=>
            (CarryInto(W, u, u) \/ CarryInto(W, x, Shl(p1, k + 1)))
  BY <1>1, <1>3 DEF CarriesBalance
<1>5. T(k + 1, x) <=> ~(T(k, x) <=> T(k, y))
  <2>1. CASE k = 0
    <3>1. u = p1
      <4>1. \A i \in Bits : i >= 0 /\ i - 0 = i
        BY DEF Bits
      <4>. QED
        BY <2>1, <4>1 DEF Shl, Word
    <3>2. 0 \in y <=> ~(0 \in x)
      BY <3>1, FirstBitOfSum
    <3>. HIDE DEF y
    <3>. QED
      BY <2>1, <3>2
  <2>2. CASE k # 0
    <3>1. k + 1 # 0 /\ k + 1 # 1
      BY <1>1, <2>2
    <3>. QED
      BY <2>2, <3>1
  <2>. QED
    BY <2>1, <2>2
<1>6. /\ Odd(k, x, p1, p2) <=> ((CarryInto(W, x, u) <=> W - k \in p1) <=> T(k, x))
      /\ Odd(k, y, p1, p2) <=> ((CarryInto(W, y, u) <=> W - k \in p1) <=> T(k, y))
      /\ Odd(k + 1, x, p1, p2) <=>
            ((CarryInto(W, x, Shl(p1, k + 1)) <=> W - (k + 1) \in p1) <=> T(k + 1, x))
  BY DEF Odd
<1>. HIDE DEF y, u
<1>7. Odd(k + 1, x, p1, p2) <=> ~(Odd(k, x, p1, p2) <=> Odd(k, y, p1, p2))
  BY <1>2, <1>4, <1>5, <1>6
<1>. QED
  BY <1>7 DEF y, u

LEMMA PairCount ==
    IsFiniteSet([0..1 -> Word]) /\ Cardinality([0..1 -> Word]) = 2^W * 2^W
<1>. DEFINE P == Word \X Word
            At(x, y) == [i \in 0..1 |-> IF i = 0 THEN x ELSE y]
            h == [z \in P |-> At(z[1], z[2])]
<1>1. IsFiniteSet(P) /\ Cardinality(P) = 2^W * 2^W
  BY WordCount, FS_Product
<1>2. \A x, y \in Word : <<x, y>> \in P /\ h[<<x, y>>] = At(x, y) /\ At(x, y) \in [0..1 -> Word]
  OBVIOUS
<1>3. h \in [P -> [0..1 -> Word]]
  OBVIOUS
<1>4. ASSUME NEW z \in P, NEW v \in P, h[z] = h[v]
      PROVE  z = v
  <2>1. At(z[1], z[2])[0] = At(v[1], v[2])[0] /\ At(z[1], z[2])[1] = At(v[1], v[2])[1]
    BY <1>4
  <2>2. z[1] = v[1] /\ z[2] = v[2]
    BY <2>1
  <2>. QED
    BY <2>2
<1>5. ASSUME NEW s \in [0..1 -> Word]
      PROVE  \E z \in P : h[z] = s
  <2>1. s[0] \in Word /\ s[1] \in Word /\ s = At(s[0], s[1])
    OBVIOUS
  <2>2. <<s[0], s[1]>> \in P /\ h[<<s[0], s[1]>>] = s
    BY <1>2, <2>1
  <2>. HIDE DEF P, h
  <2>. QED
    BY <2>2
<1>. HIDE DEF P, h
<1>6. h \in Bijection(P, [0..1 -> Word])
  BY <1>3, <1>4, <1>5 DEF Bijection, Injection, IsInjective, Surjection
<1>. QED
  BY <1>1, <1>6, FS_Bijection DEF ExistsBijection

(* The period of the two words of xsm is all of their states.                 *)
THEOREM XsmPeriod ==
    ASSUME W # 1, NEW p1 \in Word, 0 \in p1, NEW p2 \in Word
    PROVE  HasPeriod([s \in [0..1 -> Word] |-> xsm_step(s, p1, p2)], 2^W * 2^W)
<1>. DEFINE Pairs == [0..1 -> Word]
            F == [s \in Pairs |-> xsm_step(s, p1, p2)]
<1>1. F \in [Pairs -> Pairs] /\ DOMAIN F = Pairs
  BY XsmOneToOne
<1>. SUFFICES ASSUME NEW S \in SUBSET Pairs, S # {}, \A s \in S : F[s] \in S
              PROVE  S = Pairs
  BY <1>1, PairCount DEF HasPeriod, OneCycle
<1>. DEFINE In(x, y) == \E s \in S : s[0] = x /\ s[1] = y
            Carry(x) == IF Less(Add(x, p1), p1) THEN One ELSE {}
            Move(x) == Add(Add(x, p2), Carry(x))
            Closed(k) ==
                \E M \in [Word -> Word] :
                    /\ \A x, y \in Word : In(x, y) => In(Add(x, Shl(p1, k)), Add(y, M[x]))
                    /\ \A x \in Word : 0 \in M[x] <=> Odd(k, x, p1, p2)
<1>2. ASSUME NEW x \in Word, NEW y \in Word, In(x, y)
      PROVE  In(Add(x, p1), Add(y, Move(x)))
  <2>1. PICK s \in S : s[0] = x /\ s[1] = y
    BY <1>2
  <2>2. s \in Pairs /\ F[s] \in S /\ F[s] = xsm_step(s, p1, p2)
    BY <2>1
  <2>3. xsm_step(s, p1, p2) = [s EXCEPT ![0] = Add(x, p1), ![1] = Add(y, Move(x))]
    BY <2>1 DEF xsm_step
  <2>4. F[s][0] = Add(x, p1) /\ F[s][1] = Add(y, Move(x))
    BY <2>2, <2>3
  <2>. QED
    BY <2>2, <2>4
<1>3. ASSUME NEW x \in Word
      PROVE  /\ Move(x) \in Word /\ Carry(x) \in Word
             /\ Move(x) = Add(Add(x, p2), Carry(x))
             /\ 0 \in Carry(x) <=> CarryInto(W, x, p1)
  <2>1. {} \in Word /\ One \in Word /\ 0 \in One
    BY ArithmeticType DEF Word, One
  <2>2. Less(Add(x, p1), p1) <=> CarryInto(W, x, p1)
    BY CarryFound
  <2>. QED
    BY <2>1, <2>2, ArithmeticType
<1>4. Shl(p1, 0) = p1 /\ W - 0 \notin p1
  <2>1. \A i \in Bits : i >= 0 /\ i - 0 = i
    BY DEF Bits
  <2>2. W - 0 \notin Bits
    BY WAssumption DEF Bits
  <2>. QED
    BY <2>1, <2>2 DEF Shl, Word
<1>5. \A x, y : Add(x, y) \in Word
  BY ArithmeticType
<1>. HIDE DEF In, Carry, Move
<1>6. Closed(0)
  <2>. DEFINE M == [x \in Word |-> Move(x)]
  <2>1. M \in [Word -> Word]
    BY <1>3
  <2>2. ASSUME NEW x \in Word
        PROVE  0 \in M[x] <=> Odd(0, x, p1, p2)
    <3>1. /\ 0 \in Move(x) <=> ~(0 \in Add(x, p2) <=> 0 \in Carry(x))
          /\ 0 \in Add(x, p2) <=> ~(0 \in x <=> 0 \in p2)
      <4>1. Add(x, p2) \in Word /\ Carry(x) \in Word /\ Move(x) = Add(Add(x, p2), Carry(x))
        BY <1>3, <1>5
      <4>. QED
        BY <4>1, FirstBitOfSum
    <3>2. Odd(0, x, p1, p2) <=> (~CarryInto(W, x, p1) <=> ~(0 \in x <=> 0 \in p2))
      BY <1>4 DEF Odd
    <3>3. M[x] = Move(x) /\ (0 \in Carry(x) <=> CarryInto(W, x, p1))
      BY <1>3
    <3>. HIDE DEF M
    <3>. QED
      BY <3>1, <3>2, <3>3
  <2>3. \A x, y \in Word : In(x, y) => In(Add(x, Shl(p1, 0)), Add(y, M[x]))
    BY <1>2, <1>4
  <2>. HIDE DEF M
  <2>. QED
    BY <2>1, <2>2, <2>3
<1>7. ASSUME NEW k \in 0..(W - 1), Closed(k)
      PROVE  Closed(k + 1)
  <2>. DEFINE u == Shl(p1, k)
  <2>1. PICK M \in [Word -> Word] :
               /\ \A x, y \in Word : In(x, y) => In(Add(x, u), Add(y, M[x]))
               /\ \A x \in Word : 0 \in M[x] <=> Odd(k, x, p1, p2)
    BY <1>7
  <2>2. u \in Word /\ Shl(p1, k + 1) = Add(u, u)
    <3>1. u \in Word /\ k \in Nat
      BY ArithmeticType
    <3>2. Shl(u, 1) = Shl(p1, k + 1)
      BY <3>1, ShlOnce
    <3>. QED
      BY <3>1, <3>2, AddToItself
  <2>. DEFINE K == [x \in Word |-> Add(M[x], M[Add(x, u)])]
  <2>3. K \in [Word -> Word]
    BY <1>5
  <2>4. ASSUME NEW x \in Word, NEW y \in Word, In(x, y)
        PROVE  In(Add(x, Shl(p1, k + 1)), Add(y, K[x]))
    <3>. DEFINE z == Add(x, u)
    <3>1. z \in Word /\ M[x] \in Word /\ M[z] \in Word /\ Add(y, M[x]) \in Word
      BY <1>5
    <3>2. In(Add(z, u), Add(Add(y, M[x]), M[z]))
      BY <2>1, <2>4, <3>1
    <3>3. K[x] = Add(M[x], M[z])
      OBVIOUS
    <3>4. Add(z, u) = Add(x, Shl(p1, k + 1))
      BY <2>2, AddAssociates
    <3>5. Add(Add(y, M[x]), M[z]) = Add(y, K[x])
      BY <3>1, <3>3, AddAssociates
    <3>. HIDE DEF z, K
    <3>. QED
      BY <3>2, <3>4, <3>5
  <2>5. ASSUME NEW x \in Word
        PROVE  0 \in K[x] <=> Odd(k + 1, x, p1, p2)
    <3>. DEFINE z == Add(x, u)
    <3>1. z \in Word /\ M[x] \in Word /\ M[z] \in Word /\ K[x] = Add(M[x], M[z])
      BY <1>5
    <3>2. 0 \in K[x] <=> ~(0 \in M[x] <=> 0 \in M[z])
      BY <3>1, FirstBitOfSum
    <3>3. (0 \in M[x] <=> Odd(k, x, p1, p2)) /\ (0 \in M[z] <=> Odd(k, z, p1, p2))
      BY <2>1, <3>1
    <3>4. Odd(k + 1, x, p1, p2) <=> ~(Odd(k, x, p1, p2) <=> Odd(k, z, p1, p2))
      BY OddTwice
    <3>. HIDE DEF z, K
    <3>. QED
      BY <3>2, <3>3, <3>4, Zenon
  <2>. HIDE DEF K
  <2>. QED
    BY <2>3, <2>4, <2>5
<1>8. Closed(W)
  <2>. DEFINE D == {k \in 0..W : ~Closed(k)}
  <2>. SUFFICES ASSUME ~Closed(W)
                PROVE  FALSE
    OBVIOUS
  <2>. HIDE DEF Closed
  <2>1. D \in SUBSET Nat /\ W \in D
    BY WAssumption
  <2>2. PICK k \in D : \A i \in D : k <= i
    <3>. HIDE DEF D
    <3>. QED
      BY <2>1, LeastElement
  <2>3. k \in 0..W /\ ~Closed(k) /\ k # 0
    BY <1>6
  <2>4. k - 1 \in 0..(W - 1) /\ k - 1 \in 0..W /\ (k - 1) + 1 = k /\ ~(k <= k - 1)
    BY <2>3
  <2>5. k - 1 \notin D
    <3>. HIDE DEF D
    <3>. QED
      BY <2>2, <2>4
  <2>6. Closed(k - 1)
    BY <2>4, <2>5
  <2>. QED
    BY <1>7, <2>3, <2>4, <2>6
<1>9. PICK M \in [Word -> Word] :
             \A x \in Word : 0 \in M[x] /\ \A y \in Word : In(x, y) => In(x, Add(y, M[x]))
  <2>1. PICK M \in [Word -> Word] :
               /\ \A x, y \in Word : In(x, y) => In(Add(x, Shl(p1, W)), Add(y, M[x]))
               /\ \A x \in Word : 0 \in M[x] <=> Odd(W, x, p1, p2)
    BY <1>8
  <2>2. Shl(p1, W) = {}
    <3>1. \A i \in Bits : ~(i >= W)
      BY DEF Bits
    <3>. QED
      BY <3>1 DEF Shl
  <2>3. \A x \in Word : Add(x, Shl(p1, W)) = x
    BY <2>2, AddZero
  <2>4. \A x : ~CarryInto(W, x, {})
    BY DEF CarryInto
  <2>5. W - W = 0 /\ W # 0 /\ W # 1
    BY WAssumption
  <2>6. \A x \in Word : Odd(W, x, p1, p2)
    BY <2>2, <2>4, <2>5 DEF Odd
  <2>. QED
    BY <2>1, <2>3, <2>6
<1>10. ASSUME NEW c \in Word, 0 \in c, NEW T \in SUBSET Word, T # {}, \A z \in T : Add(z, c) \in T
       PROVE  T = Word
  <2>. DEFINE G == [z \in Word |-> Add(z, c)]
  <2>1. DOMAIN G = Word /\ \A z \in T : G[z] \in T
    BY <1>10
  <2>2. OneCycle(G)
    BY <1>10, CounterPeriod DEF HasPeriod
  <2>. HIDE DEF G
  <2>. QED
    BY <1>10, <2>1, <2>2 DEF OneCycle
<1>11. ASSUME NEW x \in Word, NEW y \in Word, In(x, y), NEW z \in Word
       PROVE  In(x, z)
  <2>. DEFINE T == {v \in Word : In(x, v)}
  <2>1. T \in SUBSET Word /\ T # {} /\ M[x] \in Word /\ 0 \in M[x]
    BY <1>9, <1>11
  <2>2. \A v \in T : Add(v, M[x]) \in T
    BY <1>5, <1>9
  <2>3. T = Word
    <3>. HIDE DEF T
    <3>. QED
      BY <1>10, <2>1, <2>2
  <2>. QED
    BY <2>3
<1>12. ASSUME NEW x \in Word
       PROVE  \E y \in Word : In(x, y)
  <2>. DEFINE T == {v \in Word : \E y \in Word : In(v, y)}
  <2>1. T \in SUBSET Word /\ T # {}
    <3>1. PICK s \in S : TRUE
      OBVIOUS
    <3>2. s[0] \in Word /\ s[1] \in Word /\ In(s[0], s[1])
      BY <3>1 DEF In
    <3>. QED
      BY <3>2
  <2>2. \A v \in T : Add(v, p1) \in T
    BY <1>2, <1>5
  <2>3. T = Word
    <3>. HIDE DEF T
    <3>. QED
      BY <1>10, <2>1, <2>2
  <2>. QED
    BY <2>3
<1>13. ASSUME NEW t \in Pairs
       PROVE  t \in S
  <2>1. t[0] \in Word /\ t[1] \in Word
    OBVIOUS
  <2>2. In(t[0], t[1])
    BY <1>11, <1>12, <2>1
  <2>3. PICK s \in S : s[0] = t[0] /\ s[1] = t[1]
    BY <2>2 DEF In
  <2>4. s = t
    BY <2>3
  <2>. QED
    BY <2>4
<1>. QED
  BY <1>13

(* A state of one number is an array of length one.                           *)
THEOREM OneNumberPeriod ==
    ASSUME NEW F, NEW n, HasPeriod(F, n)
    PROVE  HasPeriod([s \in [{0} -> DOMAIN F] |-> [i \in {0} |-> F[s[0]]]], n)
<1>. DEFINE D == DOMAIN F
            E == [{0} -> D]
            G == [s \in E |-> [i \in {0} |-> F[s[0]]]]
            h == [x \in D |-> [i \in {0} |-> x]]
<1>1. \A x \in D : F[x] \in D
  BY DEF HasPeriod, OneCycle
<1>2. G \in [E -> E] /\ h \in [D -> E]
  BY <1>1
<1>3. \A x \in D : h[x] \in E /\ h[x] = [i \in {0} |-> x] /\ h[x][0] = x
  OBVIOUS
<1>4. ASSUME NEW x \in D, NEW y \in D, h[x] = h[y]
      PROVE  x = y
  BY <1>3, <1>4
<1>5. ASSUME NEW z \in E
      PROVE  \E x \in D : h[x] = z
  <2>1. z[0] \in D /\ z = [i \in {0} |-> z[0]]
    OBVIOUS
  <2>. QED
    BY <1>3, <2>1
<1>6. ASSUME NEW x \in D
      PROVE  h[F[x]] = G[h[x]]
  BY <1>1, <1>3
<1>. HIDE DEF E, G, h
<1>7. HasPeriod(G, n)
  BY <1>2, <1>4, <1>5, <1>6, SamePeriod
<1>. QED
  BY <1>7 DEF G, E

LEMMA AtMostOne ==
    ASSUME NEW T, \A x, y \in T : x = y
    PROVE  Cardinality(T) <= 1
<1>1. T = {} => Cardinality(T) = 0
  BY FS_EmptySet
<1>2. ASSUME NEW x \in T
      PROVE  Cardinality(T) = 1
  <2>1. \A y : y \in T <=> y \in {x}
    OBVIOUS
  <2>2. T = {x}
    BY <2>1, Zenon
  <2>. QED
    BY <2>2, FS_Singleton, Zenon
<1>3. CASE T = {}
  BY <1>1, <1>3
<1>4. CASE T # {}
  <2>1. PICK x : x \in T
    BY <1>4
  <2>2. Cardinality(T) = 1
    BY <1>2, <2>1
  <2>. QED
    BY <2>2
<1>. QED
  BY <1>3, <1>4

(* In a period of its counter, a mixer that can be undone gives no output     *)
(* more than once.                                                            *)
THEOREM OutputsOnce ==
    ASSUME PowerOfTwo(W), NEW Steps, \A step \in Steps : Reversible(step),
           NEW g, g.mix \in Seq(Steps), g.bits \in Nat \ {0}, g.inc \in Word,
           NEW r
    PROVE  Cardinality({s \in Word : next(g, s).result = r}) <= 1
<1>. DEFINE T == {s \in Word : next(g, s).result = r}
<1>1. \A s, u \in T : s = u
  BY OutputsDiffer
<1>. HIDE DEF T
<1>2. Cardinality(T) <= 1
  BY <1>1, AtMostOne
<1>. QED
  BY <1>2 DEF T

(* The last step of a mixture is applied to what the others leave.            *)
LEMMA MixedLast ==
    ASSUME NEW Steps, NEW f, f.mix \in Seq(Steps), NEW last \in Steps, NEW g,
           g.mix = Append(f.mix, last), g.bits = f.bits,
           \A step \in Steps, z \in Word : Apply(z, step, g.bits) \in Word,
           NEW x \in Word
    PROVE  Mixed(g, x) = Apply(Mixed(f, x), last, g.bits) /\ Mixed(f, x) \in Word
<1>. DEFINE len == Len(f.mix)
<1>1. /\ len \in Nat /\ g.mix \in Seq(Steps) /\ Len(g.mix) = len + 1
      /\ g.mix[len + 1] = last /\ \A n \in 1..len : g.mix[n] = f.mix[n]
  OBVIOUS
<1>2. PICK y \in [0..Len(g.mix) -> Word] :
              /\ y[0] = x
              /\ \A n \in 1..Len(g.mix) : y[n] = Apply(y[n - 1], g.mix[n], g.bits)
              /\ Mixed(g, x) = y[Len(g.mix)]
  <2>1. g.mix \in Seq(Steps)
    OBVIOUS
  <2>2. \A step \in Steps, z \in Word : Apply(z, step, g.bits) \in Word
    OBVIOUS
  <2>. QED
    BY ONLY <2>1, <2>2, x \in Word, MixedSteps
<1>3. PICK v \in [0..len -> Word] :
              /\ v[0] = x
              /\ \A n \in 1..len : v[n] = Apply(v[n - 1], f.mix[n], f.bits)
              /\ Mixed(f, x) = v[len]
  BY MixedSteps
<1>. HIDE DEF len
<1>4. \A n \in 0..len : y[n] = v[n]
  <2>. DEFINE S == {n \in 0..len : y[n] # v[n]}
  <2>1. SUFFICES ASSUME S # {}
                 PROVE  FALSE
    OBVIOUS
  <2>2. S \in SUBSET Nat
    BY <1>1
  <2>3. PICK n \in S : \A k \in S : n <= k
    <3>. HIDE DEF S
    <3>. QED
      BY <2>1, <2>2, LeastElement
  <2>4. n \in 1..len /\ n - 1 \in 0..len /\ ~(n <= n - 1)
    BY <1>1, <1>2, <1>3
  <2>5. y[n - 1] = v[n - 1]
    BY <2>3, <2>4
  <2>. QED
    BY <1>1, <1>2, <1>3, <2>4, <2>5
<1>5. len \in 0..len /\ len + 1 \in 1..(len + 1) /\ (len + 1) - 1 = len
  BY <1>1
<1>. QED
  BY <1>1, <1>2, <1>3, <1>4, <1>5

(* The words that a shift to the right makes the same differ in the bits that *)
(* it drops.                                                                  *)
LEMMA ShrDrops ==
    ASSUME NEW k \in Nat, NEW x \in Word, NEW y \in Word, Shr(x, k) = Shr(y, k),
           x \cap 0..(k - 1) = y \cap 0..(k - 1)
    PROVE  x = y
<1>1. ASSUME NEW i \in Bits
      PROVE  i \in x <=> i \in y
  <2>1. CASE i < k
    BY <2>1 DEF Bits
  <2>2. CASE i >= k
    <3>1. i - k \in Bits /\ (i - k) + k = i
      BY <2>2 DEF Bits
    <3>. QED
      BY <3>1 DEF Shr
  <2>. QED
    BY <2>1, <2>2 DEF Bits
<1>. QED
  BY <1>1 DEF Word

(* A mixer that ends with a shift, as splitmix32 does, gives no output more   *)
(* often than there are values of the bits that the shift drops.              *)
THEOREM OutputsFew ==
    ASSUME PowerOfTwo(W), NEW Steps, \A step \in Steps : Reversible(step),
           NEW f, f.mix \in Seq(Steps), f.bits \in Nat \ {0},
           NEW k \in Nat, NEW g, g.mix = Append(f.mix, shift(k)), g.bits = f.bits,
           g.inc \in Word, NEW r
    PROVE  Cardinality({s \in Word : next(g, s).result = r}) <= 2^Scaled(k, g.bits)
<1>. DEFINE d == Scaled(k, g.bits)
            All == Steps \cup {shift(k)}
            T == {s \in Word : next(g, s).result = r}
            counter(s) == IF g.first = "add" THEN Add(s, g.inc) ELSE s
            low == [s \in T |-> Mixed(f, counter(s)) \cap 0..(d - 1)]
<1>1. d \in Nat
  BY ScaledType
<1>2. \A z, bits : Apply(z, shift(k), bits) = Shr(z, Scaled(k, bits))
  BY DEF Apply, shift
<1>3. \A step \in All, z \in Word : Apply(z, step, g.bits) \in Word
  BY <1>2, ApplyType, ArithmeticType
<1>4. \A s \in Word : counter(s) \in Word
  BY ArithmeticType
<1>5. \A s, u \in Word : counter(s) = counter(u) => s = u
  BY AddCancels
<1>6. ASSUME NEW x \in Word
      PROVE  Mixed(g, x) = Shr(Mixed(f, x), d) /\ Mixed(f, x) \in Word
  <2>1. f.mix \in Seq(All) /\ shift(k) \in All
    OBVIOUS
  <2>. HIDE DEF All
  <2>2. Mixed(g, x) = Apply(Mixed(f, x), shift(k), g.bits) /\ Mixed(f, x) \in Word
    BY <1>3, <2>1, MixedLast
  <2>. QED
    BY <1>2, <2>2
<1>7. \A s \in T : s \in Word /\ Shr(Mixed(f, counter(s)), d) = r
  <2>1. \A s \in Word : next(g, s).result = Mixed(g, counter(s))
    BY DEF next
  <2>. HIDE DEF counter
  <2>. QED
    BY <1>4, <1>6, <2>1
<1>8. ASSUME NEW s \in T, NEW u \in T, low[s] = low[u]
      PROVE  s = u
  <2>1. low[s] = Mixed(f, counter(s)) \cap 0..(d - 1) /\ low[u] = Mixed(f, counter(u)) \cap 0..(d - 1)
    OBVIOUS
  <2>2. counter(s) \in Word /\ counter(u) \in Word /\ s \in Word /\ u \in Word
    BY <1>4, <1>7
  <2>. HIDE DEF low, counter, d, T
  <2>3. Mixed(f, counter(s)) = Mixed(f, counter(u))
    BY <1>1, <1>6, <1>7, <1>8, <2>1, <2>2, ShrDrops
  <2>4. counter(s) = counter(u)
    BY <2>2, <2>3, MixedOneToOne
  <2>. QED
    BY <1>5, <2>2, <2>4
<1>9. low \in [T -> SUBSET (0..(d - 1))]
  OBVIOUS
<1>10. IsFiniteSet(SUBSET (0..(d - 1))) /\ Cardinality(SUBSET (0..(d - 1))) = 2^d
  <2>1. 0 \in Int /\ d - 1 \in Int /\ (0 > d - 1 <=> d = 0) /\ (d - 1) - 0 + 1 = d
    BY <1>1
  <2>2. IsFiniteSet(0..(d - 1)) /\ Cardinality(0..(d - 1)) = d
    BY <2>1, FS_Interval
  <2>. QED
    BY <2>2, FS_SUBSET
<1>. HIDE DEF low, T, d
<1>11. low \in Injection(T, SUBSET (0..(d - 1)))
  BY <1>8, <1>9 DEF Injection, IsInjective
<1>12. Cardinality(T) <= 2^d
  BY <1>10, <1>11, FS_Injection
<1>. QED
  BY <1>12 DEF T, d

-----------------------------------------------------------------------------
(* Rounds of AES                                                              *)

LEMMA XorBlockZero ==
    ASSUME NEW a \in [1..2 -> Word]
    PROVE  XorBlock(a, arm_zero) = a
<1>1. \A x : Xor(x, {}) = x
  BY DEF Xor, SymDiff
<1>2. \A i \in 1..2 : arm_zero[i] = {}
  BY DEF arm_zero
<1>3. XorBlock(a, arm_zero) = [i \in 1..2 |-> a[i]]
  BY <1>1, <1>2 DEF XorBlock
<1>. QED
  BY <1>3

(* A round of ARM begins with its key and one of x86 ends with it: with a     *)
(* first key of zero, and each key moved to the round after, the two versions *)
(* of simd_compress are one function, whatever the halves of a round do.      *)
THEOREM PlatformsAreOne ==
    ASSUME NEW a \in [1..2 -> Word], NEW b \in [1..2 -> Word]
    PROVE  VersionsAgree(a, b)
<1>1. arm_round(a, arm_zero) = MixColumns(SubBytesShiftRows(a))
  BY XorBlockZero DEF arm_round, aese, aesmc
<1>2. arm_round(b, arm_zero) = MixColumns(SubBytesShiftRows(b))
  BY XorBlockZero DEF arm_round, aese, aesmc
<1>3. \A x, y : arm_round(x, y) = MixColumns(SubBytesShiftRows(XorBlock(x, y)))
  BY DEF arm_round, aese, aesmc
<1>4. \A x, y : aesenc(x, y) = XorBlock(MixColumns(SubBytesShiftRows(x)), y)
  BY DEF aesenc
<1>5. x86_r2(a, b) = arm_r2(a, b)
  BY <1>1, <1>3, <1>4 DEF x86_r2, arm_r2
<1>6. x86_r3(a, b) = arm_r3(a, b)
  BY <1>2, <1>3, <1>4 DEF x86_r3, arm_r3
<1>7. x86_r4(a, b) = arm_r4(a, b)
  BY <1>1, <1>3, <1>4 DEF x86_r4, arm_r4
<1>. QED
  BY <1>5, <1>6, <1>7 DEF VersionsAgree
-----------------------------------------------------------------------------
(* The ring of the PRNGs of 1024 bits, for every number of words, every width *)
(* and every shift and rotation: it never reaches the state of all zeros, and *)
(* it implements a shift register.                                            *)

(* The objects of Urbg are rings.                                             *)
IsRing ==
    /\ Seeds = [0..(N - 1) -> Word] /\ Positions = 0..(N - 1)
    /\ Zero = [i \in 0..(N - 1) |-> {}]
    /\ Iota # Zero
    /\ Step = [o \in State |-> Ring(o, N, A, B, C)]

Next1(q) == (q + 1) % N

-----------------------------------------------------------------------------
(* Positions                                                                  *)

LEMMA Around ==
    ASSUME NEW q \in 0..(N - 1), NEW i \in 0..(N - 1)
    PROVE  (q + i) % N = IF q + i < N THEN q + i ELSE q + i - N
  BY RingAssumption

LEMMA NextPosition ==
    ASSUME NEW q \in 0..(N - 1)
    PROVE  /\ Next1(q) = IF q + 1 = N THEN 0 ELSE q + 1
           /\ Next1(q) \in 0..(N - 1) /\ Next1(q) # q
<1>1. Next1(q) = IF q + 1 < N THEN q + 1 ELSE q + 1 - N
  BY Around, RingAssumption DEF Next1
<1>. QED
  BY <1>1, RingAssumption

-----------------------------------------------------------------------------
(* A step of the ring                                                         *)

LEMMA RingStep ==
    ASSUME IsRing, NEW o \in State
    PROVE  /\ Step[o] \in State
           /\ Step[o].p = Next1(o.p)
           /\ Step[o].s[o.p] = Low(o.s[Next1(o.p)], o.s[o.p], A, B)
           /\ Step[o].s[Next1(o.p)] = High(o.s[Next1(o.p)], o.s[o.p], C)
           /\ \A i \in (0..(N - 1)) \ {o.p, Next1(o.p)} : Step[o].s[i] = o.s[i]
<1>. DEFINE q == o.p
            p == Next1(q)
            low == Low(o.s[p], o.s[q], A, B)
            high == High(o.s[p], o.s[q], C)
<1>1. q \in 0..(N - 1) /\ o.s \in [0..(N - 1) -> Word]
  BY DEF IsRing, State
<1>2. p \in 0..(N - 1) /\ p # q
  BY <1>1, NextPosition
<1>3. low \in Word /\ high \in Word
  BY <1>1, <1>2, PairType, RingAssumption
<1>4. Step[o] = [s |-> [o.s EXCEPT ![q] = low, ![p] = high], p |-> p]
  BY DEF IsRing, Ring, Next1
<1>. HIDE DEF q, p, low, high
<1>. DEFINE t == [o.s EXCEPT ![q] = low, ![p] = high]
<1>5. t \in [0..(N - 1) -> Word]
  BY <1>1, <1>2, <1>3
<1>6. t[q] = low /\ t[p] = high /\ \A i \in (0..(N - 1)) \ {q, p} : t[i] = o.s[i]
  BY <1>1, <1>2, <1>3
<1>7. Step[o].s = t /\ Step[o].p = p /\ Step[o] = [s |-> t, p |-> p]
  BY <1>4
<1>. HIDE DEF t
<1>8. Step[o] \in State
  BY <1>2, <1>5, <1>7 DEF IsRing, State
<1>9. /\ Step[o].p = p /\ Step[o].s[q] = low /\ Step[o].s[p] = high
      /\ \A i \in (0..(N - 1)) \ {q, p} : Step[o].s[i] = o.s[i]
  BY <1>6, <1>7
<1>. QED
  BY <1>8, <1>9 DEF q, p, low, high

LEMMA RingPermutes ==
    ASSUME IsRing
    PROVE  Permutes
<1>1. Step \in [State -> State]
  BY RingStep DEF IsRing
<1>2. ASSUME NEW x \in State, NEW y \in State, Step[x] = Step[y]
      PROVE  x = y
  <2>1. /\ x.p \in 0..(N - 1) /\ y.p \in 0..(N - 1)
        /\ x.s \in [0..(N - 1) -> Word] /\ y.s \in [0..(N - 1) -> Word]
    BY DEF IsRing, State
  <2>2. Next1(x.p) = Next1(y.p)
    BY <1>2, RingStep
  <2>3. x.p = y.p
    BY <2>1, <2>2, NextPosition, RingAssumption
  <2>4. Next1(x.p) \in 0..(N - 1)
    BY <2>1, NextPosition
  <2>5. /\ Low(x.s[Next1(x.p)], x.s[x.p], A, B) = Low(y.s[Next1(x.p)], y.s[x.p], A, B)
        /\ High(x.s[Next1(x.p)], x.s[x.p], C) = High(y.s[Next1(x.p)], y.s[x.p], C)
        /\ \A i \in (0..(N - 1)) \ {x.p, Next1(x.p)} : x.s[i] = y.s[i]
    BY <1>2, <2>3, RingStep
  <2>6. x.s[Next1(x.p)] = y.s[Next1(x.p)] /\ x.s[x.p] = y.s[x.p]
    <3>. DEFINE x0 == x.s[x.p]
                x1 == x.s[Next1(x.p)]
                y0 == y.s[x.p]
                y1 == y.s[Next1(x.p)]
    <3>1. x0 \in Word /\ x1 \in Word /\ y0 \in Word /\ y1 \in Word
      BY <2>1, <2>3, <2>4
    <3>2. Low(x1, x0, A, B) = Low(y1, y0, A, B) /\ High(x1, x0, C) = High(y1, y0, C)
      BY <2>5
    <3>. HIDE DEF x0, x1, y0, y1
    <3>3. x1 = y1 /\ x0 = y0
      BY <3>1, <3>2, PairInjective, RingAssumption
    <3>. QED
      BY <3>3 DEF x0, x1, y0, y1
  <2>7. ASSUME NEW i \in 0..(N - 1)
        PROVE  x.s[i] = y.s[i]
    <3>1. CASE i \in {x.p, Next1(x.p)}
      BY <2>6, <3>1
    <3>2. CASE i \notin {x.p, Next1(x.p)}
      BY <2>5, <3>2
    <3>. QED
      BY <3>1, <3>2
  <2>8. x.s = y.s
    <3>1. x.s = [i \in 0..(N - 1) |-> x.s[i]] /\ y.s = [i \in 0..(N - 1) |-> y.s[i]]
      BY <2>1
    <3>. QED
      BY <2>7, <3>1
  <2>. QED
    BY <2>3, <2>8 DEF State
<1>3. ASSUME NEW x \in State, Step[x].s = Zero
      PROVE  x.s = Zero
  <2>1. x.p \in 0..(N - 1) /\ x.s \in [0..(N - 1) -> Word]
    BY DEF IsRing, State
  <2>2. Next1(x.p) \in 0..(N - 1)
    BY <2>1, NextPosition
  <2>3. {} \in Word
    BY DEF Word
  <2>4. /\ Low(x.s[Next1(x.p)], x.s[x.p], A, B) = Low({}, {}, A, B)
        /\ High(x.s[Next1(x.p)], x.s[x.p], C) = High({}, {}, C)
        /\ \A i \in (0..(N - 1)) \ {x.p, Next1(x.p)} : x.s[i] = {}
    <3>1. \A i \in 0..(N - 1) : Step[x].s[i] = {}
      BY <1>3 DEF IsRing
    <3>2. Low({}, {}, A, B) = {} /\ High({}, {}, C) = {}
      BY PairOfZero, RingAssumption
    <3>. QED
      BY <2>1, <2>2, <3>1, <3>2, RingStep
  <2>5. x.s[Next1(x.p)] = {} /\ x.s[x.p] = {}
    <3>. DEFINE x0 == x.s[x.p]
                x1 == x.s[Next1(x.p)]
    <3>1. x0 \in Word /\ x1 \in Word
      BY <2>1, <2>2
    <3>2. Low(x1, x0, A, B) = Low({}, {}, A, B) /\ High(x1, x0, C) = High({}, {}, C)
      BY <2>4
    <3>. HIDE DEF x0, x1
    <3>3. x1 = {} /\ x0 = {}
      BY <2>3, <3>1, <3>2, PairInjective, RingAssumption
    <3>. QED
      BY <3>3 DEF x0, x1
  <2>. QED
    BY <2>1, <2>4, <2>5 DEF IsRing
<1>. QED
  BY <1>1, <1>2, <1>3 DEF Permutes, OneToOne, IsRing

(* No object of xoroshiro1024 is ever all zeros, and streams never merge.     *)
THEOREM RingSafe == IsRing => (Spec => [](NeverZero /\ StreamsApart))
<1>. SUFFICES ASSUME IsRing
              PROVE  Spec => [](NeverZero /\ StreamsApart)
  OBVIOUS
<1>. QED
  BY RingPermutes, PermutesSafe DEF Safe

-----------------------------------------------------------------------------
(* The ring as a shift register                                               *)

LEMMA ViewAt ==
    ASSUME NEW o, o.p \in 0..(N - 1), NEW i \in 0..(N - 1)
    PROVE  View(o).s[i] = o.s[IF o.p + i < N THEN o.p + i ELSE o.p + i - N]
  BY Around DEF View

LEMMA ViewOfStart ==
    ASSUME IsRing, NEW s \in Seeds
    PROVE  View([s |-> s, p |-> 0]) = [s |-> s, p |-> 0]
<1>. DEFINE o == [s |-> s, p |-> 0]
<1>1. s \in [0..(N - 1) -> Word] /\ o.p = 0 /\ o.s = s
  BY DEF IsRing
<1>. HIDE DEF o
<1>2. ASSUME NEW i \in 0..(N - 1)
      PROVE  View(o).s[i] = s[i]
  <2>1. o.p \in 0..(N - 1)
    BY <1>1, RingAssumption
  <2>2. View(o).s[i] = o.s[IF o.p + i < N THEN o.p + i ELSE o.p + i - N]
    BY <2>1, ViewAt
  <2>3. (IF o.p + i < N THEN o.p + i ELSE o.p + i - N) = i
    BY <1>1, RingAssumption
  <2>. QED
    BY <1>1, <2>2, <2>3
<1>3. View(o).s = s
  <2>1. View(o).s = [i \in 0..(N - 1) |-> View(o).s[i]] /\ s = [i \in 0..(N - 1) |-> s[i]]
    BY <1>1 DEF View
  <2>. QED
    BY <1>2, <2>1
<1>4. View(o) = [s |-> View(o).s, p |-> 0]
  BY DEF View
<1>. QED
  BY <1>3, <1>4 DEF o

LEMMA ViewIsRegister ==
    ASSUME IsRing, NEW o \in State
    PROVE  View(o) \in [s : Seeds, p : {0}]
<1>1. o.p \in 0..(N - 1) /\ o.s \in [0..(N - 1) -> Word]
  BY DEF IsRing, State
<1>2. ASSUME NEW i \in 0..(N - 1)
      PROVE  View(o).s[i] \in Word
  <2>1. (IF o.p + i < N THEN o.p + i ELSE o.p + i - N) \in 0..(N - 1)
    BY <1>1, RingAssumption
  <2>. QED
    BY <1>1, <2>1, ViewAt
<1>3. View(o).s \in [0..(N - 1) -> Word]
  <2>1. View(o).s = [i \in 0..(N - 1) |-> View(o).s[i]]
    BY DEF View
  <2>. QED
    BY <1>2, <2>1
<1>4. View(o) = [s |-> View(o).s, p |-> 0]
  BY DEF View
<1>. QED
  BY <1>3, <1>4 DEF IsRing

LEMMA ViewOfErased ==
    ASSUME IsRing, NEW o \in State
    PROVE  View([o EXCEPT !.s = Zero]) = [View(o) EXCEPT !.s = Zero]
<1>. DEFINE e == [o EXCEPT !.s = Zero]
<1>1. o.p \in 0..(N - 1) /\ e.p = o.p /\ e.s = Zero /\ Zero = [i \in 0..(N - 1) |-> {}]
  BY DEF IsRing, State
<1>. HIDE DEF e
<1>2. ASSUME NEW i \in 0..(N - 1)
      PROVE  View(e).s[i] = {}
  <2>1. (IF e.p + i < N THEN e.p + i ELSE e.p + i - N) \in 0..(N - 1)
    BY <1>1, RingAssumption
  <2>2. View(e).s[i] = e.s[IF e.p + i < N THEN e.p + i ELSE e.p + i - N]
    BY <1>1, ViewAt
  <2>. QED
    BY <1>1, <2>1, <2>2
<1>3. View(e).s = Zero
  <2>1. View(e).s = [i \in 0..(N - 1) |-> View(e).s[i]]
    BY DEF View
  <2>. QED
    BY <1>1, <1>2, <2>1
<1>4. View(e) = [s |-> View(e).s, p |-> 0]
  BY DEF View
<1>5. [View(o) EXCEPT !.s = Zero] = [s |-> Zero, p |-> 0]
  <2>1. View(o) \in [s : Seeds, p : {0}]
    BY ViewIsRegister
  <2>. QED
    BY <2>1
<1>. QED
  <2>1. View(e) = [View(o) EXCEPT !.s = Zero]
    BY <1>3, <1>4, <1>5
  <2>. QED
    BY <2>1 DEF e

(* A call moves the words of the register as it moves the ring.               *)
LEMMA ViewOfStep ==
    ASSUME IsRing, NEW o \in State
    PROVE  View(Step[o]) = Shift(View(o))
<1>. DEFINE q == o.p
            p == Next1(q)
            n == Step[o]
<1>1. q \in 0..(N - 1)
  BY DEF IsRing, State
<1>2. p = (IF q + 1 = N THEN 0 ELSE q + 1) /\ p \in 0..(N - 1) /\ p # q
  BY <1>1, NextPosition
<1>3. /\ n.p = p
      /\ n.s[q] = Low(o.s[p], o.s[q], A, B) /\ n.s[p] = High(o.s[p], o.s[q], C)
      /\ \A i \in (0..(N - 1)) \ {q, p} : n.s[i] = o.s[i]
  BY RingStep
<1>. HIDE DEF p, n
<1>4. View(o).s[0] = o.s[q] /\ View(o).s[1] = o.s[p]
  BY <1>1, <1>2, ViewAt, RingAssumption
<1>5. ASSUME NEW i \in 0..(N - 1)
      PROVE  View(n).s[i] = Shift(View(o)).s[i]
  <2>. DEFINE at == IF p + i < N THEN p + i ELSE p + i - N
  <2>1. View(n).s[i] = n.s[at]
    BY <1>2, <1>3, ViewAt
  <2>2. CASE i = 0
    <3>1. at = p
      BY <1>2, <2>2, RingAssumption
    <3>. QED
      BY <1>3, <1>4, <2>1, <2>2, <3>1 DEF Shift
  <2>3. CASE i = N - 1
    <3>1. at = q /\ i # 0
      BY <1>1, <1>2, <2>3, RingAssumption
    <3>. QED
      BY <1>3, <1>4, <2>1, <2>3, <3>1 DEF Shift
  <2>4. CASE i # 0 /\ i # N - 1
    <3>1. at \in (0..(N - 1)) \ {q, p} /\ i + 1 \in 0..(N - 1)
      BY <1>1, <1>2, <2>4, RingAssumption
    <3>2. at = IF q + (i + 1) < N THEN q + (i + 1) ELSE q + (i + 1) - N
      BY <1>1, <1>2, <2>4, RingAssumption
    <3>3. View(o).s[i + 1] = o.s[at]
      BY <1>1, <3>1, <3>2, ViewAt
    <3>. QED
      BY <1>3, <2>1, <2>4, <3>1, <3>3 DEF Shift
  <2>. QED
    BY <2>2, <2>3, <2>4
<1>6. /\ View(n) = [s |-> View(n).s, p |-> 0]
      /\ Shift(View(o)) = [s |-> Shift(View(o)).s, p |-> 0]
      /\ View(n).s = [i \in 0..(N - 1) |-> View(n).s[i]]
      /\ Shift(View(o)).s = [i \in 0..(N - 1) |-> Shift(View(o)).s[i]]
  BY DEF View, Shift
<1>7. View(n).s = Shift(View(o)).s
  BY <1>5, <1>6
<1>. QED
  BY <1>6, <1>7 DEF n

(* The life of the ring objects is the life of shift registers.               *)
THEOREM RingRefinement == IsRing => (Spec => ImplementsShiftRegister)
<1>. SUFFICES ASSUME IsRing
              PROVE  Spec => Register!Spec
  BY DEF ImplementsShiftRegister
<1>1. Init => Register!Init
  <2>. SUFFICES ASSUME Init
                PROVE  Register!Init
    OBVIOUS
  <2>1. \A o \in Objects : View(obj[o]) = [s |-> Zero, p |-> 0]
    BY ViewOfStart, SeedsAssumption DEF Init
  <2>. QED
    BY <2>1 DEF Init, Register!Init
<1>2. TypeOK /\ [Next]_vars => [Register!Next]_Register!vars
  <2>. SUFFICES ASSUME TypeOK, [Next]_vars
                PROVE  Register!Next \/ UNCHANGED Register!vars
    OBVIOUS
  <2>. DEFINE view == [o \in Objects |-> View(obj[o])]
              after == [o \in Objects |-> View(obj'[o])]
  <2>1. \A o \in Objects : obj[o] \in State
    BY DEF TypeOK
  <2>2. ASSUME NEW o \in Objects, NEW w, obj' = [obj EXCEPT ![o] = w]
        PROVE  after = [view EXCEPT ![o] = View(w)]
    BY <2>2 DEF TypeOK
  <2>. HIDE DEF view, after
  <2>3. ASSUME NEW o \in Objects, Construct(o)
        PROVE  Register!Construct(o)
    <3>1. PICK s \in Seeds : /\ obj' = [obj EXCEPT ![o] = [s |-> Replaced(s), p |-> 0]]
                             /\ seed' = [seed EXCEPT ![o] = s]
      BY <2>3 DEF Construct
    <3>2. after = [view EXCEPT ![o] = [s |-> Replaced(s), p |-> 0]]
      BY <3>1, <2>2, ViewOfStart, ReplacedIsSeed
    <3>. QED
      BY <2>3, <3>1, <3>2 DEF Construct, Register!Construct, Register!Replaced, Replaced,
                              view, after
  <2>4. ASSUME NEW o \in Objects, Discard(o)
        PROVE  Register!Discard(o)
    <3>1. View(Step[obj[o]]) = [q \in [s : Seeds, p : {0}] |-> Shift(q)][View(obj[o])]
      BY <2>1, ViewOfStep, ViewIsRegister
    <3>2. after = [view EXCEPT ![o] = View(Step[obj[o]])]
      BY <2>4, <2>2 DEF Discard
    <3>3. view[o] = View(obj[o])
      BY DEF view
    <3>. QED
      BY <2>4, <3>1, <3>2, <3>3 DEF Discard, Register!Discard, view, after
  <2>5. ASSUME NEW o \in Objects, Call(o)
        PROVE  Register!Call(o)
    <3>1. View(Step[obj[o]]) = [q \in [s : Seeds, p : {0}] |-> Shift(q)][View(obj[o])]
      BY <2>1, ViewOfStep, ViewIsRegister
    <3>2. after = [view EXCEPT ![o] = View(Step[obj[o]])]
      BY <2>5, <2>2 DEF Call
    <3>3. view[o] = View(obj[o])
      BY DEF view
    <3>. QED
      BY <2>5, <3>1, <3>2, <3>3 DEF Call, Register!Call, Live, Register!Live, view, after
  <2>6. ASSUME NEW o \in Objects, Destroy(o)
        PROVE  Register!Destroy(o)
    <3>1. View([obj[o] EXCEPT !.s = Zero]) = [View(obj[o]) EXCEPT !.s = Zero]
      BY <2>1, ViewOfErased
    <3>2. obj' = [obj EXCEPT ![o] = [obj[o] EXCEPT !.s = Zero]]
      BY <2>6 DEF Destroy
    <3>3. after = [view EXCEPT ![o] = [View(obj[o]) EXCEPT !.s = Zero]]
      BY <3>1, <3>2, <2>2
    <3>4. view[o] = View(obj[o])
      BY DEF view
    <3>. QED
      BY <2>6, <3>3, <3>4 DEF Destroy, Register!Destroy, Live, Register!Live, view, after
  <2>7. ASSUME NEW o \in Objects, NEW from \in Objects, Copy(o, from)
        PROVE  Register!Copy(o, from)
    <3>1. after = [view EXCEPT ![o] = View(obj[from])] /\ view[from] = View(obj[from])
      BY <2>7, <2>2 DEF Copy, Copied, view
    <3>. QED
      BY <2>7, <3>1 DEF Copy, Register!Copy, Register!Copied, Live, Register!Live, view, after
  <2>8. CASE UNCHANGED vars
    BY <2>8 DEF vars, Register!vars
  <2>. QED
    BY <2>3, <2>4, <2>5, <2>6, <2>7, <2>8 DEF Next, Register!Next
<1>. QED
  BY <1>1, <1>2, RingPermutes, TypeCorrect, PTL DEF Spec, Register!Spec, Permutes
=============================================================================
