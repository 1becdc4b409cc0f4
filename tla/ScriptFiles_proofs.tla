---------------------------- MODULE ScriptFiles_proofs ---------------------------
(* For every list of PRNGs, all options and any number of invocations after   *)
(* each other: test-prng-dump.bash and the files that it shares with itself.  *)
EXTENDS ScriptFiles, TLAPS, SequenceTheorems, FiniteSetTheorems, WellFoundedInduction

-----------------------------------------------------------------------------
(* Concatenation                                                              *)

(* The first m sequences, one after the other.                                *)
Upto(seqs, m) ==
    LET f[i \in 0..Len(seqs)] == IF i = 0 THEN <<>> ELSE f[i - 1] \o seqs[i] IN f[m]

(* Induction in the form that the provers can use.                            *)
LEMMA LeastOne ==
    ASSUME NEW S \in SUBSET Nat, S # {}
    PROVE  \E m \in S : \A n \in S : m <= n
<1> DEFINE R == OpToRel(<, Nat)
<1>1. PICK m \in S : \A n \in S : ~(<<n, m>> \in R)
  <2>1. IsWellFoundedOn(R, Nat)
    BY NatLessThanWellFounded
  <2> HIDE DEF R
  <2> QED BY <2>1, WFMin
<1>2. ASSUME NEW n \in S
      PROVE  m <= n
  <2>1. ~(n < m)
    BY <1>1 DEF OpToRel
  <2> HIDE DEF R
  <2> QED BY <2>1
<1> QED BY <1>2

LEMMA PrefixesExist ==
    ASSUME NEW T, NEW seqs \in Seq(Seq(T))
    PROVE  \E f \in [0..Len(seqs) -> Seq(T)] :
              f = [i \in 0..Len(seqs) |-> IF i = 0 THEN <<>> ELSE f[i - 1] \o seqs[i]]
<1> DEFINE L == Len(seqs)
           Fits(m) == \E f \in [0..m -> Seq(T)] :
                         f[0] = <<>> /\ \A i \in 1..m : f[i] = f[i - 1] \o seqs[i]
           Bad == {m \in Nat : m <= L /\ ~Fits(m)}
<1>0. L \in Nat /\ \A i \in 1..L : seqs[i] \in Seq(T)
  OBVIOUS
<1>1. Bad = {}
  <2> SUFFICES ASSUME Bad # {} PROVE FALSE
    OBVIOUS
  <2>1. PICK m \in Bad : \A n \in Bad : m <= n
    <3> HIDE DEF Bad
    <3>1. Bad \in SUBSET Nat
      BY DEF Bad
    <3> QED BY <3>1, LeastOne
  <2>2. m \in Nat /\ m <= L /\ ~Fits(m)
    BY <2>1
  <2>3. m # 0
    <3> DEFINE f == [i \in 0..0 |-> <<>>]
    <3>1. f \in [0..0 -> Seq(T)] /\ f[0] = <<>> /\ \A i \in 1..0 : f[i] = f[i - 1] \o seqs[i]
      OBVIOUS
    <3>2. Fits(0)
      <4> HIDE DEF f
      <4> QED BY <3>1
    <3> HIDE DEF Fits
    <3> QED BY <3>2, <2>2
  <2>4. m - 1 \in Nat /\ m - 1 <= L /\ m \in 1..L
    BY <1>0, <2>2, <2>3
  <2>5. Fits(m - 1)
    <3>1. m - 1 \notin Bad
      <4> HIDE DEF Bad
      <4> QED BY <2>1, <2>4
    <3> HIDE DEF Fits
    <3> QED BY <2>4, <3>1
  <2>6. PICK f \in [0..(m - 1) -> Seq(T)] :
           f[0] = <<>> /\ \A i \in 1..(m - 1) : f[i] = f[i - 1] \o seqs[i]
    BY <2>5
  <2> DEFINE g == [i \in 0..m |-> IF i = m THEN f[m - 1] \o seqs[m] ELSE f[i]]
  <2>7. f[m - 1] \o seqs[m] \in Seq(T)
    BY <1>0, <2>4, <2>6
  <2>8. g \in [0..m -> Seq(T)]
    BY <2>2, <2>4, <2>6, <2>7
  <2>9. g[0] = <<>> /\ \A i \in 1..m : g[i] = g[i - 1] \o seqs[i]
    <3> HIDE DEF Bad, Fits
    <3>1. \A i \in 0..(m - 1) : i \in 0..m /\ i # m
      BY <2>2
    <3>2. m \in 0..m
      BY <2>2
    <3>3. 0 \in 0..(m - 1) /\ m - 1 \in 0..(m - 1)
      BY <2>2, <2>4
    <3>4. \A i \in 1..m : i = m \/ i \in 1..(m - 1)
      BY <2>2
    <3>5. \A i \in 1..(m - 1) : i \in 0..(m - 1) /\ i - 1 \in 0..(m - 1)
      BY <2>2
    <3>6. g[m] = f[m - 1] \o seqs[m] /\ \A i \in 0..(m - 1) : g[i] = f[i]
      BY <3>1, <3>2
    <3> HIDE DEF g
    <3> QED BY <2>6, <3>3, <3>4, <3>5, <3>6
  <2>10. Fits(m)
    <3> HIDE DEF g
    <3> QED BY <2>8, <2>9
  <2> QED BY <2>2, <2>10
<1>2. Fits(L)
  <2>1. L \notin Bad
    <3> HIDE DEF Bad
    <3> QED BY <1>1
  <2> HIDE DEF Fits
  <2> QED BY <1>0, <2>1
<1>3. PICK f \in [0..L -> Seq(T)] :
         f[0] = <<>> /\ \A i \in 1..L : f[i] = f[i - 1] \o seqs[i]
  BY <1>2
<1>4. f = [i \in 0..L |-> IF i = 0 THEN <<>> ELSE f[i - 1] \o seqs[i]]
  <2>1. \A i \in 0..L : i = 0 \/ (i \in 1..L /\ i # 0)
    BY <1>0
  <2>2. \A i \in 0..L : f[i] = IF i = 0 THEN <<>> ELSE f[i - 1] \o seqs[i]
    BY <1>3, <2>1
  <2> QED BY <1>3, <2>2
<1> QED BY <1>3, <1>4

(* What the prefixes are, and that all of them together are FlattenSeq.       *)
LEMMA UptoIs ==
    ASSUME NEW T, NEW seqs \in Seq(Seq(T))
    PROVE  /\ Upto(seqs, 0) = <<>>
           /\ \A m \in 1..Len(seqs) : Upto(seqs, m) = Upto(seqs, m - 1) \o seqs[m]
           /\ \A m \in 0..Len(seqs) : Upto(seqs, m) \in Seq(T)
<1> DEFINE P(f) == f = [i \in 0..Len(seqs) |-> IF i = 0 THEN <<>> ELSE f[i - 1] \o seqs[i]]
           g == CHOOSE f : P(f)
<1>0. Len(seqs) \in Nat
  OBVIOUS
<1>1. \E f : P(f)
  BY PrefixesExist, ZenonT(30)
<1>2. P(g)
  <2> HIDE DEF P
  <2> QED BY <1>1
<1>3. \A m : Upto(seqs, m) = g[m]
  BY DEF Upto
<1> HIDE DEF g
<1>4. g[0] = <<>> /\ \A m \in 1..Len(seqs) : g[m] = g[m - 1] \o seqs[m]
  <2>1. \A i \in 0..Len(seqs) : g[i] = IF i = 0 THEN <<>> ELSE g[i - 1] \o seqs[i]
    BY <1>2
  <2>2. 0 \in 0..Len(seqs) /\ \A i \in 1..Len(seqs) : i \in 0..Len(seqs) /\ i # 0
    BY <1>0
  <2> HIDE DEF P
  <2> QED BY <2>1, <2>2
<1> DEFINE Bad == {m \in 0..Len(seqs) : g[m] \notin Seq(T)}
<1>5. Bad = {}
  <2> SUFFICES ASSUME Bad # {} PROVE FALSE
    OBVIOUS
  <2>1. PICK m \in Bad : \A n \in Bad : m <= n
    <3>1. Bad \in SUBSET Nat
      OBVIOUS
    <3> HIDE DEF Bad
    <3> QED BY <3>1, LeastOne
  <2>2. m # 0
    <3>1. <<>> \in Seq(T)
      OBVIOUS
    <3>2. g[m] \notin Seq(T)
      BY <2>1
    <3> QED BY <1>4, <3>1, <3>2
  <2>3. m - 1 \in 0..Len(seqs) /\ m - 1 \notin Bad /\ m \in 1..Len(seqs)
    BY <1>0, <2>1, <2>2
  <2>4. g[m - 1] \in Seq(T) /\ seqs[m] \in Seq(T)
    BY <2>3
  <2>5. g[m] \in Seq(T)
    BY <1>4, <2>3, <2>4, ConcatProperties, ZenonT(30)
  <2> QED BY <2>1, <2>5
<1> QED BY <1>3, <1>4, <1>5

LEMMA FlattenIsUpto ==
    ASSUME NEW T, NEW seqs \in Seq(Seq(T))
    PROVE  FlattenSeq(seqs) = Upto(seqs, Len(seqs))
<1> DEFINE L == Len(seqs)
           P(f) == f = [i \in 1..L |-> IF i = 1 THEN seqs[i] ELSE f[i - 1] \o seqs[i]]
           g == CHOOSE f : P(f)
           u == [i \in 1..L |-> Upto(seqs, i)]
<1>0. L \in Nat /\ \A i \in 1..L : seqs[i] \in Seq(T)
  OBVIOUS
<1>1. CASE L = 0
  <2>1. seqs = <<>>
    BY <1>1, EmptySeq
  <2> QED BY <1>1, <2>1, UptoIs DEF FlattenSeq
<1>2. CASE L # 0
  <2>1. \A i \in 1..L : u[i] = IF i = 1 THEN seqs[i] ELSE u[i - 1] \o seqs[i]
    <3> SUFFICES ASSUME NEW i \in 1..L
                 PROVE  u[i] = IF i = 1 THEN seqs[i] ELSE u[i - 1] \o seqs[i]
      OBVIOUS
    <3>1. u[i] = Upto(seqs, i - 1) \o seqs[i]
      BY UptoIs
    <3>2. CASE i = 1
      <4>1. <<>> \o seqs[1] = seqs[1]
        BY <1>0, <3>2, ConcatEmptySeq
      <4>2. Upto(seqs, i - 1) = <<>>
        <5>1. i - 1 = 0
          BY <3>2
        <5> QED BY <5>1, UptoIs
      <4> QED BY <3>1, <3>2, <4>1, <4>2
    <3>3. CASE i # 1
      <4>1. u[i - 1] = Upto(seqs, i - 1)
        BY <1>0, <3>3
      <4> QED BY <3>1, <3>3, <4>1
    <3> QED BY <3>2, <3>3
  <2>2. P(u)
    BY <2>1
  <2>3. P(g)
    <3>1. \E f : P(f)
      BY <2>2
    <3> HIDE DEF P
    <3> QED BY <3>1
  <2>4. FlattenSeq(seqs) = g[L]
    BY <1>2 DEF FlattenSeq
  <2> HIDE DEF g, u
  <2>5. \A i \in 1..L : g[i] = IF i = 1 THEN seqs[i] ELSE g[i - 1] \o seqs[i]
    BY <1>0, <2>3
  <2> DEFINE Bad == {i \in 1..L : g[i] # u[i]}
  <2>6. Bad = {}
    <3> SUFFICES ASSUME Bad # {} PROVE FALSE
      OBVIOUS
    <3>1. PICK m \in Bad : \A n \in Bad : m <= n
      <4>1. Bad \in SUBSET Nat
        BY <1>0
      <4> HIDE DEF Bad
      <4> QED BY <4>1, LeastOne
    <3>2. m # 1
      BY <1>0, <1>2, <2>1, <2>5
    <3>3. m - 1 \in 1..L /\ m - 1 \notin Bad
      BY <1>0, <3>1, <3>2
    <3>4. g[m - 1] = u[m - 1]
      BY <3>3
    <3> QED BY <2>1, <2>5, <3>1, <3>2, <3>4
  <2>7. L \in 1..L
    BY <1>0, <1>2
  <2>8. u[L] = Upto(seqs, L)
    BY <2>7 DEF u
  <2> QED BY <2>4, <2>6, <2>7, <2>8
<1> QED BY <1>1, <1>2

-----------------------------------------------------------------------------
(* Options, lines and commands                                                *)

Found(o)    == [i \in 1..Len(o.args) |-> Matching(o.args[i])]
Block(o, k) == [i \in 1..Len(AskedLines(o)) |-> Command(AskedLines(o)[i], o, k)]
Blocks(o)   == [k \in 1..Len(o.seeds) |-> Block(o, k)]

LEMMA OptionTyped ==
    ASSUME NEW o \in Options
    PROVE  /\ o.args \in Seq(SUBSET Prngs) /\ Len(o.args) \in Nat
           /\ o.seeds \in Seq(VALID_SEED_TYPES) /\ o.seeds # <<>> /\ Len(o.seeds) \in Nat \ {0}
           /\ o.tf \in Nat /\ o.jobs \in Nat \ {0} /\ o.dry \in BOOLEAN
<1>1. ASSUME o \in UserOptions
      PROVE  /\ o.args \in Seq(SUBSET Prngs) /\ o.seeds \in Seq(VALID_SEED_TYPES) /\ o.seeds # <<>>
             /\ o.tf \in Nat /\ o.jobs \in Nat \ {0} /\ o.dry \in BOOLEAN
  BY <1>1, OptionsAssumption
<1>2. ASSUME o \in MakeTargets
      PROVE  /\ o.args \in Seq(SUBSET Prngs) /\ o.seeds \in Seq(VALID_SEED_TYPES) /\ o.seeds # <<>>
             /\ o.tf \in Nat /\ o.jobs \in Nat \ {0} /\ o.dry \in BOOLEAN
  <2> DEFINE random == <<"random">>
  <2>1. random \in Seq(VALID_SEED_TYPES) /\ Len(random) = 1
    <3>1. \A T : \A x \in T : <<x>> \in Seq(T) /\ Len(<<x>>) = 1
      OBVIOUS
    <3>2. "random" \in VALID_SEED_TYPES
      BY DEF VALID_SEED_TYPES
    <3> QED BY <3>1, <3>2
  <2>2. random # <<>>
    <3> HIDE DEF random
    <3> QED BY <2>1, EmptySeq
  <2>3. o.args = <<>> /\ o.seeds \in {ShortSeeds, random} /\ o.tf \in {1, 2}
          /\ o.jobs \in {1, 2} /\ o.dry \in BOOLEAN
    BY <1>2 DEF MakeTargets, Target, random
  <2>4. \A T : <<>> \in Seq(T)
    BY EmptySeq
  <2> HIDE DEF random
  <2> QED BY <2>1, <2>2, <2>3, <2>4, OptionsAssumption
<1>3. /\ o.args \in Seq(SUBSET Prngs) /\ o.seeds \in Seq(VALID_SEED_TYPES) /\ o.seeds # <<>>
      /\ o.tf \in Nat /\ o.jobs \in Nat \ {0} /\ o.dry \in BOOLEAN
  BY <1>1, <1>2 DEF Options
<1>4. Len(o.args) \in Nat /\ Len(o.seeds) \in Nat \ {0}
  BY <1>3, LenProperties, EmptySeq
<1> QED BY <1>3, <1>4

LEMMA CommandTyped ==
    ASSUME NEW p \in Prngs, NEW o \in Options, NEW k \in 1..Len(o.seeds)
    PROVE  Command(p, o, k) \in Commands
  BY DEF Commands

LEMMA CommandsTyped ==
    ASSUME NEW c \in Commands
    PROVE  c # Hole /\ File(c) \in Files /\ c.tf \in Nat
<1>0. PICK o \in Options : \E p \in Prngs, k \in 1..Len(o.seeds) : c = Command(p, o, k)
  BY DEF Commands
<1>1. PICK p \in Prngs, k \in 1..Len(o.seeds) : c = Command(p, o, k)
  BY <1>0
<1>2. o.seeds[k] \in Seeds
  BY DEF Seeds
<1>3. o.tlmax \in {x.tlmax : x \in Options}
  OBVIOUS
<1>4. File(c) = [prng |-> p, tlmax |-> o.tlmax, seed |-> o.seeds[k]]
  BY <1>1 DEF File, Command
<1>5. c.tf \in Nat
  BY <1>1, OptionTyped DEF Command
<1> QED BY <1>2, <1>3, <1>4, <1>5, HoleAssumption DEF Files

LEMMA MatchingTyped ==
    ASSUME NEW arg
    PROVE  Matching(arg) \in Seq(Prngs)
<1> DEFINE s == [i \in 1..Len(Listed) |-> IF Listed[i] \in arg THEN <<Listed[i]>> ELSE <<>>]
<1>1. Len(Listed) \in Nat /\ \A i \in 1..Len(Listed) : Listed[i] \in Prngs
  BY ListedAssumption DEF Prngs
<1>2. s \in Seq(Seq(Prngs)) /\ Len(s) \in Nat
  <2>1. \A i \in 1..Len(Listed) : (IF Listed[i] \in arg THEN <<Listed[i]>> ELSE <<>>) \in Seq(Prngs)
    BY <1>1
  <2>2. s \in [1..Len(Listed) -> Seq(Prngs)]
    BY <2>1
  <2> HIDE DEF s
  <2> QED BY <1>1, <2>2
<1>3. Matching(arg) = FlattenSeq(s)
  BY DEF Matching
<1> HIDE DEF s
<1>4. Matching(arg) = Upto(s, Len(s))
  BY <1>2, <1>3, FlattenIsUpto
<1>5. Len(s) \in 0..Len(s)
  BY <1>2
<1> QED BY <1>2, <1>4, <1>5, UptoIs

LEMMA FoundTyped ==
    ASSUME NEW o \in Options
    PROVE  Found(o) \in Seq(Seq(Prngs)) /\ Len(Found(o)) = Len(o.args)
<1>1. Found(o) \in [1..Len(o.args) -> Seq(Prngs)]
  BY MatchingTyped DEF Found
<1> QED BY <1>1, OptionTyped

LEMMA LinesAre ==
    ASSUME NEW o \in Options
    PROVE  /\ AskedLines(o) = IF o.args = <<>> THEN Listed ELSE Upto(Found(o), Len(o.args))
           /\ AskedLines(o) \in Seq(Prngs) /\ Len(AskedLines(o)) \in Nat
<1>1. AskedLines(o) = IF o.args = <<>> THEN Listed ELSE Upto(Found(o), Len(o.args))
  BY FoundTyped, FlattenIsUpto DEF AskedLines, Found
<1>2. Len(o.args) \in 0..Len(Found(o))
  BY FoundTyped, OptionTyped
<1>3. AskedLines(o) \in Seq(Prngs)
  BY <1>1, <1>2, FoundTyped, UptoIs, ListedAssumption
<1> QED BY <1>1, <1>3

LEMMA BlocksAre ==
    ASSUME NEW o \in Options
    PROVE  /\ \A k \in 1..Len(o.seeds) :
                 Block(o, k) \in Seq(Commands) /\ Len(Block(o, k)) = Len(AskedLines(o))
           /\ Blocks(o) \in Seq(Seq(Commands)) /\ Len(Blocks(o)) = Len(o.seeds)
           /\ Asked(o) = Upto(Blocks(o), Len(o.seeds))
<1>1. ASSUME NEW k \in 1..Len(o.seeds)
      PROVE  Block(o, k) \in Seq(Commands) /\ Len(Block(o, k)) = Len(AskedLines(o))
  <2>1. \A i \in 1..Len(AskedLines(o)) : AskedLines(o)[i] \in Prngs
    BY LinesAre, ElementOfSeq
  <2>2. Block(o, k) \in [1..Len(AskedLines(o)) -> Commands]
    BY <2>1, CommandTyped DEF Block
  <2> QED BY <2>2, LinesAre
<1>2. Blocks(o) \in [1..Len(o.seeds) -> Seq(Commands)]
  BY <1>1 DEF Blocks
<1>3. Blocks(o) \in Seq(Seq(Commands)) /\ Len(Blocks(o)) = Len(o.seeds)
  BY <1>2, OptionTyped
<1>4. Asked(o) = FlattenSeq(Blocks(o))
  BY DEF Asked, Blocks, Block
<1>5. Asked(o) = Upto(Blocks(o), Len(o.seeds))
  BY <1>3, <1>4, FlattenIsUpto
<1> QED BY <1>1, <1>3, <1>5

-----------------------------------------------------------------------------
(* Types                                                                      *)

Reported == {s \in Seq(Output \cup {Hole}) : Len(s) <= Reports}

LEMMA OneMoves ==
    ASSUME TypeOK, NEW n \in Runs, NEW i, Becomes(n, i), i \in Invocation, Consistent(i),
           info' \in Seq(Prngs), cmds' \in Seq(Commands \cup {Hole}), out' \in [Files -> Reported]
    PROVE  TypeOK'
<1>1. inv' \in [Runs -> Invocation] /\ inv'[n] = i /\ \A m \in Runs : m # n => inv'[m] = inv[m]
  BY DEF TypeOK, Becomes
<1>2. \A m \in Runs : Consistent(inv'[m])
  BY <1>1 DEF TypeOK
<1> QED BY <1>1, <1>2 DEF TypeOK, Reported

LEMMA PutTyped ==
    ASSUME NEW T, NEW s \in Seq(T \cup {Hole}), NEW i \in Nat \ {0}, NEW x \in T
    PROVE  /\ Put(s, i, x) \in Seq(T \cup {Hole})
           /\ Len(Put(s, i, x)) = IF i > Len(s) THEN i ELSE Len(s)
<1> DEFINE m == IF i > Len(s) THEN i ELSE Len(s)
<1>1. m \in Nat /\ Len(s) \in Nat
  OBVIOUS
<1>2. \A j \in 1..m : (IF j = i THEN x ELSE IF j <= Len(s) THEN s[j] ELSE Hole) \in T \cup {Hole}
  BY <1>1, ElementOfSeq
<1>3. Put(s, i, x) \in [1..m -> T \cup {Hole}]
  BY <1>2 DEF Put
<1> HIDE DEF m
<1>4. Put(s, i, x) \in Seq(T \cup {Hole}) /\ Len(Put(s, i, x)) = m
  BY <1>1, <1>3
<1> QED BY <1>4 DEF m

LEMMA NotStartedTyped ==
    /\ NotStarted \in Invocation /\ Consistent(NotStarted)
    /\ NotStarted.pc = "new" /\ NotStarted.jobs = <<>> /\ Len(NotStarted.jobs) = 0
<1>1. (CHOOSE o \in Options : TRUE) \in Options
  <2>1. Options # {}
    BY DEF Options, MakeTargets
  <2> QED BY <2>1
<1>2. \A T : <<>> \in Seq(T)
  BY EmptySeq
<1>3. Len(<<>>) = 0
  OBVIOUS
<1> QED BY <1>1, <1>2, <1>3 DEF NotStarted, Invocation, Consistent

LEMMA TypeInit == Init => TypeOK
<1> SUFFICES ASSUME Init PROVE TypeOK
  OBVIOUS
<1>1. \A T : <<>> \in Seq(T)
  BY EmptySeq
<1>2. <<>> \in Reported
  BY <1>1, BoundsAssumption DEF Reported
<1> QED BY NotStartedTyped, <1>1, <1>2 DEF Init, TypeOK, Reported

LEMMA TypeFiles ==
    ASSUME TypeOK, NEW n \in Runs
    PROVE  /\ (\E o \in Options : Start(n, o)) => TypeOK'
           /\ TruncateInfo(n) \/ List(n) \/ Grep(n) => TypeOK'
           /\ Open(n) \/ ReadLine(n) \/ WriteCommand(n) => TypeOK'
<1> DEFINE i == inv[n]
<1>1. i \in Invocation /\ Consistent(i)
  BY DEF TypeOK
<1>2. info \in Seq(Prngs) /\ cmds \in Seq(Commands \cup {Hole}) /\ out \in [Files -> Reported]
  BY DEF TypeOK, Reported
<1>3. i.opts \in Options
  BY <1>1 DEF Invocation
<1> HIDE DEF i
<1>4. ASSUME NEW o \in Options, Start(n, o)
      PROVE  TypeOK'
  <2> DEFINE x == [i EXCEPT !.pc = "truncate", !.opts = o]
  <2>1. i.pc = "new" /\ Becomes(n, x) /\ UNCHANGED <<info, cmds, out>>
    BY <1>4 DEF Start, i
  <2>2. x \in Invocation /\ Consistent(x)
    BY <1>1, <2>1 DEF Invocation, Consistent
  <2> HIDE DEF x
  <2> QED BY <1>2, <2>1, <2>2, OneMoves
<1>5. ASSUME TruncateInfo(n)
      PROVE  TypeOK'
  <2> DEFINE x == [i EXCEPT !.pc = IF i.opts.args = <<>> THEN "list" ELSE "grep"]
  <2>1. i.pc = "truncate" /\ Becomes(n, x) /\ info' = <<>> /\ UNCHANGED <<cmds, out>>
    BY <1>5 DEF TruncateInfo, Truncated, i
  <2>2. i.opts.args # <<>> => 1 \in 1..Len(i.opts.args)
    BY <1>3, OptionTyped, EmptySeq
  <2>3. x \in Invocation /\ Consistent(x)
    BY <1>1, <2>1, <2>2 DEF Invocation, Consistent
  <2>4. info' \in Seq(Prngs)
    BY <2>1, EmptySeq
  <2> HIDE DEF x
  <2> QED BY <1>2, <2>1, <2>3, <2>4, OneMoves
<1>6. ASSUME List(n)
      PROVE  TypeOK'
  <2> DEFINE x == [i EXCEPT !.pc = "open"]
  <2>1. i.pc = "list" /\ Becomes(n, x) /\ info' = Overlay(info, Listed) /\ UNCHANGED <<cmds, out>>
    BY <1>6 DEF List, i
  <2>2. 1 \in 1..Len(i.opts.seeds)
    BY <1>3, OptionTyped
  <2>3. x \in Invocation /\ Consistent(x)
    BY <1>1, <2>1, <2>2 DEF Invocation, Consistent
  <2>4. info' \in Seq(Prngs)
    <3>1. SubSeq(info, Len(Listed) + 1, Len(info)) \in Seq(Prngs)
      <4>1. Len(Listed) \in Nat /\ Len(info) \in Nat
        BY <1>2, ListedAssumption
      <4>2. \A j \in (Len(Listed) + 1)..Len(info) : info[j] \in Prngs
        BY <1>2, <4>1, ElementOfSeq
      <4> QED BY <4>1, <4>2, SubSeqProperties
    <3> QED BY <2>1, <3>1, ListedAssumption, ConcatProperties DEF Overlay
  <2> HIDE DEF x
  <2> QED BY <1>2, <2>1, <2>3, <2>4, OneMoves
<1>7. ASSUME Grep(n)
      PROVE  TypeOK'
  <2> DEFINE args == i.opts.args
             found == Matching(args[i.k])
             x == [i EXCEPT
                     !.pc = IF found = <<>> THEN "ended" ELSE IF i.k < Len(args) THEN "grep" ELSE "open",
                     !.k  = IF i.k < Len(args) THEN @ + 1 ELSE 1]
  <2>1. i.pc = "grep" /\ Becomes(n, x) /\ info' = info \o found /\ UNCHANGED <<cmds, out>>
    BY <1>7 DEF Grep, i
  <2>2. 1 \in 1..Len(i.opts.seeds) /\ i.k \in 1..Len(args) /\ Len(args) \in Nat
    BY <1>1, <1>3, <2>1, OptionTyped DEF Consistent
  <2>3. found \in Seq(Prngs)
    BY MatchingTyped
  <2> HIDE DEF found
  <2>4. x \in Invocation
    <3> DEFINE pc == IF found = <<>> THEN "ended" ELSE IF i.k < Len(args) THEN "grep" ELSE "open"
               k == IF i.k < Len(args) THEN i.k + 1 ELSE 1
    <3>1. pc \in {"ended", "grep", "open"} /\ k \in Nat \ {0}
      BY <2>2
    <3>2. x = [i EXCEPT !.pc = pc, !.k = k]
      OBVIOUS
    <3> HIDE DEF x, pc, k
    <3> QED BY <1>1, <3>1, <3>2 DEF Invocation
  <2>5. Consistent(x)
    <3>1. x.k = (IF i.k < Len(args) THEN i.k + 1 ELSE 1) /\ x.opts = i.opts /\ x.jobs = i.jobs
          /\ x.pc = IF found = <<>> THEN "ended" ELSE IF i.k < Len(args) THEN "grep" ELSE "open"
      BY <1>1 DEF Invocation
    <3>2. x.pc = "grep" => x.k \in 1..Len(args)
      BY <2>2, <3>1
    <3>3. x.pc = "open" => x.k = 1
      BY <2>2, <3>1
    <3>4. x.pc \in {"ended", "grep", "open"}
      BY <3>1
    <3> HIDE DEF x
    <3> QED BY <1>1, <2>2, <3>1, <3>2, <3>3, <3>4 DEF Consistent
  <2>6. info' \in Seq(Prngs)
    BY <1>2, <2>1, <2>3, ConcatProperties
  <2> HIDE DEF x
  <2> QED BY <1>2, <2>1, <2>4, <2>5, <2>6, OneMoves
<1>8. ASSUME Open(n)
      PROVE  TypeOK'
  <2> DEFINE x == [i EXCEPT !.pc = "read", !.r = 0, !.w = 0]
  <2>1. i.pc = "open" /\ Becomes(n, x) /\ cmds' = <<>> /\ UNCHANGED <<info, out>>
    BY <1>8 DEF Open, Truncated, i
  <2>2. x \in Invocation /\ Consistent(x)
    BY <1>1, <2>1 DEF Invocation, Consistent
  <2>3. cmds' \in Seq(Commands \cup {Hole})
    BY <2>1, EmptySeq
  <2> HIDE DEF x
  <2> QED BY <1>2, <2>1, <2>2, <2>3, OneMoves
<1>9. ASSUME ReadLine(n)
      PROVE  TypeOK'
  <2> DEFINE more == i.r < Len(info)
             x == IF more THEN [i EXCEPT !.pc = "write", !.line = info[i.r + 1], !.r = @ + 1]
                  ELSE [i EXCEPT !.pc = "parallel", !.d = 0]
  <2>1. i.pc = "read" /\ Becomes(n, x) /\ UNCHANGED <<info, cmds, out>>
    BY <1>9 DEF ReadLine, i
  <2>2. i.r \in Nat
    BY <1>1 DEF Invocation
  <2>3. more => info[i.r + 1] \in Prngs /\ info[i.r + 1] # Hole
    <3>1. more => i.r + 1 \in 1..Len(info)
      BY <1>2, <2>2
    <3> QED BY <1>2, <3>1, ElementOfSeq, HoleAssumption
  <2> HIDE DEF more
  <2>4. CASE more
    <3> DEFINE line == info[i.r + 1]
               y == [i EXCEPT !.pc = "write", !.line = line, !.r = @ + 1]
    <3>1. x = y
      BY <2>4
    <3>2. line \in Prngs /\ line # Hole
      BY <2>3, <2>4
    <3> HIDE DEF line, x
    <3>3. y \in Invocation
      <4> DEFINE r == i.r + 1
      <4>1. r \in Nat /\ line \in Prngs \cup {Hole}
        BY <2>2, <3>2
      <4>2. y = [i EXCEPT !.pc = "write", !.line = line, !.r = r]
        OBVIOUS
      <4> HIDE DEF r, y
      <4> QED BY <1>1, <4>1, <4>2 DEF Invocation
    <3>4. Consistent(y)
      BY <1>1, <2>1, <3>2 DEF Invocation, Consistent
    <3> HIDE DEF y
    <3> QED BY <1>2, <2>1, <3>1, <3>3, <3>4, OneMoves
  <2>5. CASE ~more
    <3> DEFINE y == [i EXCEPT !.pc = "parallel", !.d = 0]
    <3>1. x = y
      BY <2>5
    <3>2. y \in Invocation /\ Consistent(y)
      BY <1>1, <2>1 DEF Invocation, Consistent
    <3> HIDE DEF x, y
    <3> QED BY <1>2, <2>1, <3>1, <3>2, OneMoves
  <2> QED BY <2>4, <2>5
<1>10. ASSUME WriteCommand(n)
       PROVE  TypeOK'
  <2> DEFINE x == [i EXCEPT !.pc = "read", !.w = @ + 1, !.line = Hole]
             c == Command(i.line, i.opts, i.k)
  <2>1. i.pc = "write" /\ Becomes(n, x) /\ cmds' = Put(cmds, i.w + 1, c) /\ UNCHANGED <<info, out>>
    BY <1>10 DEF WriteCommand, i
  <2>2. i.w \in Nat /\ i.line \in Prngs /\ i.k \in 1..Len(i.opts.seeds)
    BY <1>1, <2>1 DEF Invocation, Consistent
  <2>3. x \in Invocation /\ Consistent(x)
    <3>1. x \in Invocation
      <4> DEFINE w == i.w + 1
      <4>1. w \in Nat /\ Hole \in Prngs \cup {Hole}
        BY <2>2
      <4>2. x = [i EXCEPT !.pc = "read", !.w = w, !.line = Hole]
        OBVIOUS
      <4> HIDE DEF w, x
      <4> QED BY <1>1, <4>1, <4>2 DEF Invocation
    <3>2. x.pc = "read" /\ x.k = i.k /\ x.opts = i.opts /\ x.jobs = i.jobs
      BY <1>1 DEF Invocation
    <3> HIDE DEF x
    <3> QED BY <1>1, <2>2, <3>1, <3>2 DEF Consistent
  <2>4. c \in Commands
    BY <1>3, <2>2, CommandTyped
  <2>5. cmds' \in Seq(Commands \cup {Hole})
    <3>1. i.w + 1 \in Nat \ {0}
      BY <2>2
    <3> HIDE DEF c
    <3> QED BY <1>2, <2>1, <2>4, <3>1, PutTyped
  <2> HIDE DEF x
  <2> QED BY <1>2, <2>1, <2>3, <2>5, OneMoves
<1> QED BY <1>3, <1>4, <1>5, <1>6, <1>7, <1>8, <1>9, <1>10 DEF i

(* Only the jobs, and how far parallel is, change.                            *)
LEMMA JobsTyped ==
    ASSUME NEW i \in Invocation, Consistent(i), i.pc \in {"parallel", "wait"} \/ i.jobs # <<>>,
           NEW d \in Nat, NEW pending \in Seq(Commands \cup {Hole}), NEW jobs \in Seq(Job),
           \A j \in 1..Len(jobs) : jobs[j].status = "running" => jobs[j].wrote < Reports
    PROVE  LET x == [i EXCEPT !.d = d, !.pending = pending, !.jobs = jobs]
           IN  x \in Invocation /\ Consistent(x)
<1> DEFINE x == [i EXCEPT !.d = d, !.pending = pending, !.jobs = jobs]
<1>1. x \in Invocation
  BY DEF Invocation
<1>2. x.pc = i.pc /\ x.opts = i.opts /\ x.k = i.k /\ x.line = i.line /\ x.jobs = jobs
  BY DEF Invocation
<1> HIDE DEF x
<1>3. Consistent(x)
  BY <1>2 DEF Consistent
<1> QED BY <1>1, <1>3 DEF x

LEMMA TypeJobs ==
    ASSUME TypeOK, NEW n \in Runs
    PROVE  /\ ReadCommand(n) \/ StartJob(n) \/ ParallelEnds(n) \/ End(n) => TypeOK'
           /\ (\E j \in 1..Len(inv[n].jobs) : Report(n, j) \/ EndJob(n, j)) => TypeOK'
<1> DEFINE i == inv[n]
<1>1. i \in Invocation /\ Consistent(i)
  BY DEF TypeOK
<1>2. info \in Seq(Prngs) /\ cmds \in Seq(Commands \cup {Hole}) /\ out \in [Files -> Reported]
  BY DEF TypeOK, Reported
<1>3. /\ i.opts \in Options /\ i.d \in Nat /\ i.pending \in Seq(Commands \cup {Hole}) /\ i.jobs \in Seq(Job)
      /\ \A j \in 1..Len(i.jobs) : i.jobs[j].status = "running" => i.jobs[j].wrote < Reports
  BY <1>1 DEF Invocation, Consistent
<1> HIDE DEF i
<1>4. ASSUME ReadCommand(n)
      PROVE  TypeOK'
  <2>1. CASE i.d < Len(cmds)
    <3> DEFINE pending == Append(i.pending, cmds[i.d + 1])
               x == [i EXCEPT !.d = i.d + 1, !.pending = pending, !.jobs = i.jobs]
    <3>1. i.pc = "parallel" /\ UNCHANGED <<info, cmds, out>>
          /\ Becomes(n, [i EXCEPT !.d = @ + 1, !.pending = pending])
      BY <1>4, <2>1 DEF ReadCommand, i
    <3>2. pending \in Seq(Commands \cup {Hole}) /\ i.d + 1 \in Nat
      <4>1. i.d + 1 \in 1..Len(cmds)
        BY <1>2, <1>3, <2>1
      <4>2. cmds[i.d + 1] \in Commands \cup {Hole}
        BY <1>2, <4>1, ElementOfSeq
      <4> QED BY <1>3, <4>2, AppendProperties
    <3>3. [i EXCEPT !.d = @ + 1, !.pending = pending] = x
      BY <1>1 DEF Invocation
    <3> HIDE DEF pending
    <3>4. x \in Invocation /\ Consistent(x)
      BY <1>1, <1>3, <3>1, <3>2, JobsTyped
    <3> HIDE DEF x
    <3> QED BY <1>2, <3>1, <3>3, <3>4, OneMoves
  <2>2. CASE ~(i.d < Len(cmds))
    <3> DEFINE x == [i EXCEPT !.pc = "wait"]
    <3>1. i.pc = "parallel" /\ UNCHANGED <<info, cmds, out>> /\ Becomes(n, x)
      BY <1>4, <2>2 DEF ReadCommand, i
    <3>2. x \in Invocation /\ Consistent(x)
      BY <1>1, <3>1 DEF Invocation, Consistent
    <3> HIDE DEF x
    <3> QED BY <1>2, <3>1, <3>2, OneMoves
  <2> QED BY <2>1, <2>2
<1>5. ASSUME StartJob(n)
      PROVE  TypeOK'
  <2> DEFINE c == Head(i.pending)
             none == i.opts.dry \/ c = Hole
             job == [cmd |-> c, wrote |-> 0, status |-> "running"]
             jobs == IF none THEN i.jobs ELSE Append(i.jobs, job)
             x == [i EXCEPT !.d = i.d, !.pending = Tail(i.pending), !.jobs = jobs]
  <2>1. /\ i.pc \in {"parallel", "wait"} /\ i.pending # <<>>
        /\ Becomes(n, [i EXCEPT !.pending = Tail(@), !.jobs = jobs])
        /\ out' = IF none THEN out ELSE [out EXCEPT ![File(c)] = <<>>]
        /\ UNCHANGED <<info, cmds>>
    BY <1>5 DEF StartJob, OpenOutput, i
  <2>2. c \in Commands \cup {Hole} /\ Tail(i.pending) \in Seq(Commands \cup {Hole})
    BY <1>3, <2>1, HeadTailProperties
  <2> HIDE DEF c
  <2>3. /\ jobs \in Seq(Job)
        /\ \A j \in 1..Len(jobs) : jobs[j].status = "running" => jobs[j].wrote < Reports
    <3>1. CASE none
      BY <1>3, <3>1
    <3>2. CASE ~none
      <4>1. job \in Job /\ job.wrote < Reports
        BY <2>2, <3>2, BoundsAssumption DEF Job
      <4>2. jobs = Append(i.jobs, job)
        BY <3>2
      <4> HIDE DEF job, jobs
      <4>3. jobs \in Seq(Job) /\ Len(jobs) = Len(i.jobs) + 1
        BY <1>3, <4>1, <4>2, AppendProperties
      <4>4. \A j \in 1..Len(i.jobs) : jobs[j] = i.jobs[j]
        BY <1>3, <4>1, <4>2, AppendProperties
      <4>5. jobs[Len(i.jobs) + 1] = job
        BY <1>3, <4>1, <4>2, AppendProperties
      <4>6. \A j \in 1..(Len(i.jobs) + 1) : j = Len(i.jobs) + 1 \/ j \in 1..Len(i.jobs)
        BY <1>3
      <4> QED BY <1>3, <4>1, <4>3, <4>4, <4>5, <4>6
    <3> HIDE DEF jobs
    <3> QED BY <3>1, <3>2
  <2>4. out' \in [Files -> Reported]
    <3>1. <<>> \in Reported
      BY EmptySeq, BoundsAssumption DEF Reported
    <3> QED BY <1>2, <2>1, <3>1
  <2> HIDE DEF jobs
  <2>5. [i EXCEPT !.pending = Tail(@), !.jobs = jobs] = x
    BY <1>1 DEF Invocation
  <2>6. x \in Invocation /\ Consistent(x)
    BY <1>1, <1>3, <2>1, <2>2, <2>3, JobsTyped
  <2> HIDE DEF x
  <2> QED BY <1>2, <2>1, <2>4, <2>5, <2>6, OneMoves
<1>6. ASSUME NEW j \in 1..Len(i.jobs), Report(n, j)
      PROVE  TypeOK'
  <2> DEFINE job == i.jobs[j]
             report == [run |-> n, job |-> j, tf |-> job.cmd.tf]
             over == job.wrote + 1 = Reports
             new == [job EXCEPT !.wrote = @ + 1, !.status = IF over THEN "ended" ELSE @]
             jobs == [i.jobs EXCEPT ![j] = new]
             x == [i EXCEPT !.d = i.d, !.pending = i.pending, !.jobs = jobs]
  <2>1. /\ job.status = "running"
        /\ Becomes(n, [i EXCEPT !.jobs[j] = new])
        /\ out' = [out EXCEPT ![File(job.cmd)] = Put(@, job.wrote + 1, report)]
        /\ UNCHANGED <<info, cmds>>
    BY <1>6 DEF Report, Unfinished, i
  <2>2. job \in Job /\ job.wrote < Reports /\ job.wrote \in Nat /\ job.cmd \in Commands
    <3>1. job \in Job
      BY <1>3, ElementOfSeq
    <3> QED BY <1>3, <2>1, <3>1, BoundsAssumption DEF Job
  <2>3. new \in Job /\ (new.status = "running" => new.wrote < Reports)
    <3>1. job.wrote + 1 \in 0..Reports /\ (~over => job.wrote + 1 < Reports)
      BY <2>2, BoundsAssumption
    <3> DEFINE wrote == job.wrote + 1
               status == IF over THEN "ended" ELSE job.status
    <3>2. new = [job EXCEPT !.wrote = wrote, !.status = status]
      OBVIOUS
    <3>3. status \in {"running", "ended"} /\ (status = "running" => ~over)
      BY <2>1
    <3>4. wrote \in 0..Reports /\ (~over => wrote < Reports)
      BY <3>1
    <3> HIDE DEF new, over, job, wrote, status
    <3> QED BY <2>2, <3>2, <3>3, <3>4 DEF Job
  <2>4. report \in Output
    <3>1. j \in Nat \ {0}
      BY <1>3
    <3> QED BY <2>2, <3>1, CommandsTyped DEF Output
  <2>5. out' \in [Files -> Reported]
    <3> DEFINE f == File(job.cmd)
    <3>1. f \in Files
      BY <2>2, CommandsTyped
    <3>2. out[f] \in Seq(Output \cup {Hole}) /\ Len(out[f]) <= Reports
      BY <1>2, <3>1 DEF Reported
    <3>3. job.wrote + 1 \in Nat \ {0} /\ job.wrote + 1 <= Reports
      BY <2>2, BoundsAssumption
    <3>4. Put(out[f], job.wrote + 1, report) \in Reported
      <4> DEFINE s == out[f]
                 at == job.wrote + 1
      <4>1. s \in Seq(Output \cup {Hole}) /\ Len(s) <= Reports /\ at \in Nat \ {0} /\ at <= Reports
        BY <3>2, <3>3
      <4> HIDE DEF report, s, at
      <4>2. Put(s, at, report) \in Seq(Output \cup {Hole}) /\ Len(Put(s, at, report)) <= Reports
        BY <2>4, <4>1, PutTyped, SMTT(30)
      <4> QED BY <4>2 DEF Reported, s, at
    <3> HIDE DEF report, f
    <3>5. out' = [out EXCEPT ![f] = Put(out[f], job.wrote + 1, report)]
      BY <1>2, <2>1, <3>1 DEF f
    <3> QED BY <1>2, <3>1, <3>4, <3>5
  <2> HIDE DEF new
  <2>6. [i EXCEPT !.jobs[j] = new] = x
    BY <1>1 DEF Invocation
  <2>7. jobs \in Seq(Job) /\ \A q \in 1..Len(jobs) : jobs[q].status = "running" => jobs[q].wrote < Reports
    <3>1. jobs \in Seq(Job) /\ Len(jobs) = Len(i.jobs)
      BY <1>3, <2>3, ExceptSeq
    <3>2. \A q \in 1..Len(i.jobs) : jobs[q] = IF q = j THEN new ELSE i.jobs[q]
      BY <1>3, <2>3, ExceptSeq
    <3> HIDE DEF jobs
    <3> QED BY <1>3, <2>3, <3>1, <3>2
  <2>8. i.jobs # <<>>
    OBVIOUS
  <2> HIDE DEF jobs
  <2>9. x \in Invocation /\ Consistent(x)
    BY <1>1, <1>3, <2>7, <2>8, JobsTyped
  <2> HIDE DEF x
  <2> QED BY <1>2, <2>1, <2>5, <2>6, <2>9, OneMoves
<1>7. ASSUME NEW j \in 1..Len(i.jobs), EndJob(n, j)
      PROVE  TypeOK'
  <2> DEFINE new == [i.jobs[j] EXCEPT !.status = "ended"]
             jobs == [i.jobs EXCEPT ![j] = new]
             x == [i EXCEPT !.d = i.d, !.pending = i.pending, !.jobs = jobs]
  <2>1. Becomes(n, [i EXCEPT !.jobs[j].status = "ended"]) /\ UNCHANGED <<info, cmds, out>>
    BY <1>7 DEF EndJob, i
  <2>2. new \in Job /\ new.status = "ended"
    <3>1. i.jobs[j] \in Job
      BY <1>3, ElementOfSeq
    <3> QED BY <3>1 DEF Job
  <2>3. [i EXCEPT !.jobs[j].status = "ended"] = x
    BY <1>1 DEF Invocation
  <2> HIDE DEF new
  <2>4. jobs \in Seq(Job) /\ \A q \in 1..Len(jobs) : jobs[q].status = "running" => jobs[q].wrote < Reports
    <3>1. jobs \in Seq(Job) /\ Len(jobs) = Len(i.jobs)
      BY <1>3, <2>2, ExceptSeq
    <3>2. \A q \in 1..Len(i.jobs) : jobs[q] = IF q = j THEN new ELSE i.jobs[q]
      BY <1>3, <2>2, ExceptSeq
    <3> HIDE DEF jobs
    <3> QED BY <1>3, <2>2, <3>1, <3>2
  <2>5. i.jobs # <<>>
    OBVIOUS
  <2> HIDE DEF jobs
  <2>6. x \in Invocation /\ Consistent(x)
    BY <1>1, <1>3, <2>4, <2>5, JobsTyped
  <2> HIDE DEF x
  <2> QED BY <1>2, <2>1, <2>3, <2>6, OneMoves
<1>8. ASSUME ParallelEnds(n)
      PROVE  TypeOK'
  <2>1. i.pc = "wait" /\ UNCHANGED <<info, cmds, out>>
    BY <1>8 DEF ParallelEnds, i
  <2>2. i.k \in 1..Len(i.opts.seeds) /\ Len(i.opts.seeds) \in Nat
    BY <1>1, <1>3, <2>1, OptionTyped DEF Consistent
  <2>3. CASE i.k < Len(i.opts.seeds)
    <3> DEFINE k == i.k + 1
               x == [i EXCEPT !.pc = "open", !.k = k]
    <3>1. Becomes(n, x)
      BY <1>8, <2>3 DEF ParallelEnds, i
    <3>2. k \in Nat \ {0} /\ k \in 1..Len(i.opts.seeds)
      BY <2>2, <2>3
    <3> HIDE DEF k
    <3>3. x \in Invocation /\ Consistent(x)
      BY <1>1, <3>2 DEF Invocation, Consistent
    <3> HIDE DEF x
    <3> QED BY <1>2, <2>1, <3>1, <3>3, OneMoves
  <2>4. CASE ~(i.k < Len(i.opts.seeds))
    <3> DEFINE x == [i EXCEPT !.pc = "success"]
    <3>1. Becomes(n, x)
      BY <1>8, <2>4 DEF ParallelEnds, i
    <3>2. x \in Invocation /\ Consistent(x)
      BY <1>1, <2>1 DEF Invocation, Consistent
    <3> HIDE DEF x
    <3> QED BY <1>2, <2>1, <3>1, <3>2, OneMoves
  <2> QED BY <2>3, <2>4
<1>9. ASSUME End(n)
      PROVE  TypeOK'
  <2> DEFINE x == [NotStarted EXCEPT !.pc = "ended", !.opts = i.opts]
  <2>1. Becomes(n, x) /\ UNCHANGED <<info, cmds, out>>
    BY <1>9 DEF End, i
  <2>2. x \in Invocation /\ Consistent(x)
    <3>1. x \in Invocation /\ x.pc = "ended" /\ x.jobs = NotStarted.jobs
      BY <1>3, NotStartedTyped DEF Invocation
    <3> HIDE DEF x
    <3> QED BY <3>1, NotStartedTyped DEF Consistent
  <2> HIDE DEF x
  <2> QED BY <1>2, <2>1, <2>2, OneMoves
<1> QED BY <1>4, <1>5, <1>6, <1>7, <1>8, <1>9 DEF i

(* The files and the invocations keep their types, however many invocations   *)
(* are under way.                                                             *)
THEOREM TypeCorrect == Spec => []TypeOK
<1>1. TypeOK /\ [Next]_vars => TypeOK'
  <2> SUFFICES ASSUME TypeOK, [Next]_vars PROVE TypeOK'
    OBVIOUS
  <2>1. CASE UNCHANGED vars
    BY <2>1 DEF vars, TypeOK
  <2>2. CASE Done
    BY <2>1, <2>2 DEF Done
  <2>3. ASSUME NEW n \in Runs,
               (\E o \in Options : Start(n, o)) \/ Step(n) \/ End(n)
                 \/ \E j \in 1..Len(inv[n].jobs) : Report(n, j) \/ EndJob(n, j)
        PROVE  TypeOK'
    BY <2>3, TypeFiles, TypeJobs DEF Step
  <2> QED BY <2>1, <2>2, <2>3 DEF Next
<1> QED BY <1>1, TypeInit, PTL DEF Spec

-----------------------------------------------------------------------------
(* One invocation at a time                                                   *)

Alone == \A m, n \in Runs : Active(m) /\ Active(n) => m = n

Ran(i) == [j \in 1..Len(i.jobs) |-> i.jobs[j].cmd]
Before(i) == Upto(Blocks(i.opts), i.k - 1)
Present(i) == Block(i.opts, i.k)

(* Where an invocation is, and what it must have done and find in the shared  *)
(* files by then: everything that it ran, and everything that parallel has    *)
(* read and not started, is what it was asked for so far.                     *)
Listing(i, lines) ==
    /\ i.pc \in {"new", "truncate", "list", "grep", "ended"} => i.jobs = <<>> /\ i.pending = <<>>
    /\ i.pc = "list" => lines = <<>> /\ i.opts.args = <<>>
    /\ i.pc = "grep" => i.opts.args # <<>> /\ lines = Upto(Found(i.opts), i.k - 1)
    /\ i.pc \in {"open", "read", "write", "parallel", "wait"} => lines = AskedLines(i.opts)

Writing(i, commands) ==
    /\ i.pc = "read" => i.r = i.w
    /\ i.pc = "write" => i.r = i.w + 1 /\ i.r <= Len(AskedLines(i.opts)) /\ i.line = AskedLines(i.opts)[i.r]
    /\ i.pc \in {"read", "write"} =>
         i.w <= Len(AskedLines(i.opts)) /\ commands = SubSeq(Present(i), 1, i.w)
    /\ i.pc \in {"parallel", "wait"} => commands = Present(i)

Running(i) ==
    /\ i.opts.dry => i.jobs = <<>>
    /\ i.pc \in {"open", "read", "write"} => i.pending = <<>> /\ (~i.opts.dry => Ran(i) = Before(i))
    /\ i.pc = "parallel" => i.d <= Len(Present(i))
    /\ i.pc = "wait" => i.d = Len(Present(i))
    /\ i.pc \in {"parallel", "wait"} /\ ~i.opts.dry =>
         Ran(i) \o i.pending = Before(i) \o SubSeq(Present(i), 1, i.d)
    /\ i.pc \in {"parallel", "wait"} => \A q \in 1..Len(i.pending) : i.pending[q] # Hole
    /\ i.pc = "success" /\ ~i.opts.dry => Ran(i) = Asked(i.opts)

Obeys(i, lines, commands) == Listing(i, lines) /\ Writing(i, commands) /\ Running(i)

Obedient == Alone /\ \A n \in Runs : Obeys(inv[n], info, cmds)

-----------------------------------------------------------------------------
(* Sequences                                                                  *)

LEMMA PutNext ==
    ASSUME NEW T, NEW s \in Seq(T), NEW x \in T
    PROVE  Put(s, Len(s) + 1, x) = Append(s, x)
<1>1. Len(s) \in Nat /\ Append(s, x) \in Seq(T) /\ Len(Append(s, x)) = Len(s) + 1
  BY AppendProperties
<1>2. Append(s, x) = [j \in 1..(Len(s) + 1) |-> Append(s, x)[j]]
  <2> DEFINE a == Append(s, x)
  <2>1. a \in Seq(T) /\ Len(a) = Len(s) + 1
    BY <1>1
  <2> HIDE DEF a
  <2>2. a \in [1..(Len(s) + 1) -> T]
    BY <2>1, LenProperties
  <2>3. a = [j \in 1..(Len(s) + 1) |-> a[j]]
    BY <2>2
  <2> QED BY <2>3 DEF a
<1>3. Put(s, Len(s) + 1, x) =
         [j \in 1..(Len(s) + 1) |-> IF j = Len(s) + 1 THEN x ELSE IF j <= Len(s) THEN s[j] ELSE Hole]
  BY <1>1 DEF Put
<1>4. ASSUME NEW j \in 1..(Len(s) + 1)
      PROVE  Append(s, x)[j] = IF j = Len(s) + 1 THEN x ELSE IF j <= Len(s) THEN s[j] ELSE Hole
  <2>1. CASE j = Len(s) + 1
    BY <2>1, AppendProperties
  <2>2. CASE j # Len(s) + 1
    <3>1. j \in 1..Len(s) /\ j <= Len(s)
      BY <1>1, <2>2
    <3> QED BY <2>2, <3>1, AppendProperties
  <2> QED BY <2>1, <2>2
<1> QED BY <1>2, <1>3, <1>4

LEMMA OneMoreOf ==
    ASSUME NEW T, NEW p \in Seq(T), NEW d \in Nat, d < Len(p)
    PROVE  /\ p[d + 1] \in T /\ SubSeq(p, 1, d) \in Seq(T) /\ Len(SubSeq(p, 1, d)) = d
           /\ SubSeq(p, 1, d + 1) = Append(SubSeq(p, 1, d), p[d + 1])
<1>1. Len(p) \in Nat /\ d + 1 \in 1..Len(p) /\ 1 \in 1..Len(p)
  OBVIOUS
<1>2. \A j \in 1..d : p[j] \in T
  BY <1>1, ElementOfSeq
<1>3. SubSeq(p, 1, d) \in Seq(T) /\ Len(SubSeq(p, 1, d)) = d
  BY <1>2, SubSeqProperties
<1>4. SubSeq(p, 1, d + 1) = SubSeq(p, 1, (d + 1) - 1) \o <<p[d + 1]>>
  BY <1>1, SubSeqRecursiveSecond
<1>5. (d + 1) - 1 = d
  OBVIOUS
<1>6. p[d + 1] \in T
  BY <1>1, ElementOfSeq
<1> QED BY <1>3, <1>4, <1>5, <1>6, AppendIsConcat

LEMMA AppendBehind ==
    ASSUME NEW T, NEW s \in Seq(T), NEW t \in Seq(T), NEW x \in T
    PROVE  s \o Append(t, x) = Append(s \o t, x)
<1> DEFINE e == <<x>>
           st == s \o t
<1>1. e \in Seq(T) /\ st \in Seq(T)
  BY ConcatProperties
<1>2. Append(t, x) = t \o e /\ Append(st, x) = st \o e
  BY <1>1, AppendIsConcat
<1> HIDE DEF e
<1>3. st \o e = s \o (t \o e)
  BY <1>1, ConcatAssociative, SMTT(30)
<1> QED BY <1>2, <1>3

(* What was run, with what is pending, is what was asked for.                 *)
Tally(ran, pending, before, present) == ran \o pending = before \o present

(* What parallel reads is appended to what is pending.                        *)
LEMMA AppendAfter ==
    ASSUME NEW T, NEW s \in Seq(T), NEW t \in Seq(T), NEW u \in Seq(T), NEW p \in Seq(T),
           NEW d \in Nat, d < Len(p)
    PROVE  Tally(s, t, u, SubSeq(p, 1, d)) => Tally(s, Append(t, p[d + 1]), u, SubSeq(p, 1, d + 1))
<1> DEFINE q == SubSeq(p, 1, d)
           x == p[d + 1]
<1>1. x \in T /\ q \in Seq(T) /\ SubSeq(p, 1, d + 1) = Append(q, x)
  BY OneMoreOf
<1> HIDE DEF q, x
<1>2. s \o Append(t, x) = Append(s \o t, x)
  BY <1>1, AppendBehind
<1>3. u \o Append(q, x) = Append(u \o q, x)
  BY <1>1, AppendBehind
<1>4. s \o t = u \o q => s \o Append(t, x) = u \o Append(q, x)
  BY <1>2, <1>3
<1> QED BY <1>1, <1>4 DEF x, q, Tally

(* The first one pending is started.                                          *)
LEMMA MoveHead ==
    ASSUME NEW T, NEW s \in Seq(T), NEW t \in Seq(T), t # <<>>
    PROVE  Append(s, Head(t)) \o Tail(t) = s \o t
<1> DEFINE h == <<Head(t)>>
<1>1. Head(t) \in T /\ Tail(t) \in Seq(T) /\ Len(Tail(t)) = Len(t) - 1
  BY HeadTailProperties
<1>2. h \in Seq(T) /\ Len(h) = 1 /\ h[1] = Head(t)
  BY <1>1
<1>3. Append(s, Head(t)) = s \o h
  BY <1>1, AppendIsConcat
<1>4. Head(t) = t[1]
  OBVIOUS
<1> HIDE DEF h
<1>5. h \o Tail(t) = t
  <2>1. h \o Tail(t) \in Seq(T) /\ Len(h \o Tail(t)) = 1 + (Len(t) - 1)
    <3> DEFINE r == Tail(t)
    <3>1. r \in Seq(T) /\ Len(r) = Len(t) - 1
      BY <1>1
    <3> HIDE DEF r
    <3>2. h \o r \in Seq(T) /\ Len(h \o r) = Len(h) + Len(r)
      BY <1>2, <3>1, ConcatProperties
    <3>3. h \o r \in Seq(T) /\ Len(h \o r) = 1 + (Len(t) - 1)
      BY <1>2, <3>1, <3>2
    <3> QED BY <3>3 DEF r
  <2>2. Len(t) \in Nat
    OBVIOUS
  <2>3. ASSUME NEW j \in 1..Len(h \o Tail(t))
        PROVE  (h \o Tail(t))[j] = t[j]
    <3>1. j \in 1..(Len(h) + Len(Tail(t)))
      BY <1>1, <1>2, <2>1, <2>2
    <3>2. (h \o Tail(t))[j] = IF j <= Len(h) THEN h[j] ELSE Tail(t)[j - Len(h)]
      BY <1>1, <1>2, <3>1, ConcatProperties
    <3>3. CASE j = 1
      BY <1>2, <1>4, <3>2, <3>3
    <3>4. CASE j # 1
      <4>1. j - 1 \in 1..Len(Tail(t)) /\ ~(j <= 1)
        BY <1>1, <1>2, <3>1, <3>4, <2>2
      <4>2. Tail(t)[j - 1] = t[(j - 1) + 1]
        BY <4>1, HeadTailProperties
      <4>3. (j - 1) + 1 = j
        BY <3>1, <2>2, <1>1, <1>2
      <4> QED BY <1>2, <3>2, <4>1, <4>2, <4>3
    <3> QED BY <3>3, <3>4
  <2>4. Len(h \o Tail(t)) = Len(t)
    BY <2>1, <2>2
  <2> QED BY <2>1, <2>3, <2>4, SeqEqual
<1>6. (s \o h) \o Tail(t) = s \o (h \o Tail(t))
  BY <1>1, <1>2, ConcatAssociative, SMTT(30)
<1> QED BY <1>3, <1>5, <1>6

(* The commands of the seed types up to and with the present one.             *)
LEMMA BeforeIs ==
    ASSUME NEW i \in Invocation, i.k \in 1..Len(i.opts.seeds)
    PROVE  /\ i.opts \in Options
           /\ Before(i) \in Seq(Commands) /\ Present(i) \in Seq(Commands)
           /\ Len(Present(i)) = Len(AskedLines(i.opts)) /\ Len(Present(i)) \in Nat
           /\ Upto(Blocks(i.opts), i.k) = Before(i) \o Present(i)
           /\ i.k = 1 => Before(i) = <<>>
<1>1. i.opts \in Options /\ Len(i.opts.seeds) \in Nat
  BY OptionTyped DEF Invocation
<1>2. /\ Blocks(i.opts) \in Seq(Seq(Commands)) /\ Len(Blocks(i.opts)) = Len(i.opts.seeds)
      /\ Present(i) \in Seq(Commands) /\ Len(Present(i)) = Len(AskedLines(i.opts))
  BY <1>1, BlocksAre DEF Present
<1>3. i.k \in 1..Len(Blocks(i.opts)) /\ i.k - 1 \in 0..Len(Blocks(i.opts))
  BY <1>1, <1>2
<1>4. Blocks(i.opts)[i.k] = Present(i)
  BY DEF Blocks, Present
<1>5. Before(i) \in Seq(Commands) /\ Upto(Blocks(i.opts), i.k) = Before(i) \o Present(i)
  BY <1>2, <1>3, <1>4, UptoIs DEF Before
<1>6. i.k = 1 => Before(i) = <<>>
  <2>1. i.k = 1 => i.k - 1 = 0
    OBVIOUS
  <2> QED BY <1>2, <2>1, UptoIs DEF Before
<1> QED BY <1>1, <1>2, <1>5, <1>6

LEMMA RanIs ==
    ASSUME NEW i \in Invocation
    PROVE  /\ Ran(i) \in Seq(Commands) /\ Len(Ran(i)) = Len(i.jobs)
           /\ i.jobs = <<>> => Ran(i) = <<>>
<1>1. i.jobs \in Seq(Job) /\ Len(i.jobs) \in Nat
  BY DEF Invocation
<1>2. \A j \in 1..Len(i.jobs) : i.jobs[j].cmd \in Commands
  <2> SUFFICES ASSUME NEW j \in 1..Len(i.jobs) PROVE i.jobs[j].cmd \in Commands
    OBVIOUS
  <2>1. i.jobs[j] \in Job
    BY <1>1, ElementOfSeq
  <2> QED BY <2>1 DEF Job
<1>3. Ran(i) \in [1..Len(i.jobs) -> Commands]
  BY <1>2 DEF Ran
<1>4. Ran(i) \in Seq(Commands) /\ Len(Ran(i)) = Len(i.jobs)
  BY <1>1, <1>3
<1>5. i.jobs = <<>> => Len(i.jobs) = 0
  OBVIOUS
<1> QED BY <1>4, <1>5, EmptySeq

-----------------------------------------------------------------------------
(* While invocations do not overlap, each is obedient                         *)

Idle == {"new", "ended"}

LEMMA IdleObeys ==
    ASSUME NEW i, i.pc \in Idle, i.jobs = <<>>, i.pending = <<>>, NEW lines, NEW commands
    PROVE  Obeys(i, lines, commands)
  BY DEF Obeys, Listing, Writing, Running, Idle

(* The only invocation that is under way moves on, and is obedient.           *)
LEMMA OneObeys ==
    ASSUME TypeOK, Obedient, NEW n \in Runs, \A m \in Runs : m # n => ~Active(m),
           NEW i, Becomes(n, i), Obeys(i, info', cmds')
    PROVE  Obedient'
<1>1. inv'[n] = i /\ \A m \in Runs : m # n => inv'[m] = inv[m] /\ inv[m].pc \in Idle
  BY DEF TypeOK, Becomes, Active, Idle
<1>2. ASSUME NEW m \in Runs
      PROVE  Obeys(inv'[m], info', cmds')
  <2>1. CASE m = n
    BY <1>1, <2>1
  <2>2. CASE m # n
    <3>1. Obeys(inv[m], info, cmds) /\ inv[m].pc \in Idle
      BY <1>1, <2>2 DEF Obedient
    <3>2. inv[m].jobs = <<>> /\ inv[m].pending = <<>>
      BY <3>1 DEF Obeys, Listing, Idle
    <3> QED BY <1>1, <2>2, <3>1, <3>2, IdleObeys
  <2> QED BY <2>1, <2>2
<1>3. \A m \in Runs : m # n => inv'[m].pc \in Idle
  BY <1>1
<1>4. Alone'
  BY <1>3 DEF Alone, Active, Idle
<1> QED BY <1>2, <1>4 DEF Obedient

LEMMA ObedientInit == Init => Obedient
<1> SUFFICES ASSUME Init PROVE Obedient
  OBVIOUS
<1>1. \A n \in Runs : inv[n].pc = "new" /\ inv[n].jobs = <<>> /\ inv[n].pending = <<>>
  BY DEF Init, NotStarted
<1>2. \A n \in Runs : Obeys(inv[n], info, cmds)
  BY <1>1, IdleObeys DEF Idle
<1> QED BY <1>1, <1>2 DEF Obedient, Alone, Active

(* A second invocation does not start.                                        *)
LEMMA StartsAlone ==
    ASSUME AtOnce = 1, NEW n \in Runs, NEW o, Start(n, o)
    PROVE  \A m \in Runs : ~Active(m)
<1> DEFINE A == {m \in Runs : Active(m)}
<1>1. Cardinality(A) < 1
  BY DEF Start
<1>2. IsFiniteSet(A)
  <2>1. IsFiniteSet(Runs)
    BY BoundsAssumption, FS_Interval DEF Runs
  <2> QED BY <2>1, FS_Subset
<1> HIDE DEF A
<1>3. A = {}
  BY <1>1, <1>2, FS_CardinalityType, FS_EmptySet
<1> QED BY <1>3 DEF A

LEMMA ObedientFiles ==
    ASSUME AtOnce = 1, TypeOK, Obedient, NEW n \in Runs
    PROVE  /\ (\E o \in Options : Start(n, o)) => Obedient'
           /\ TruncateInfo(n) \/ List(n) \/ Grep(n) => Obedient'
           /\ Open(n) \/ ReadLine(n) \/ WriteCommand(n) => Obedient'
<1> DEFINE i == inv[n]
<1>1. i \in Invocation /\ Consistent(i) /\ Obeys(i, info, cmds)
  BY DEF TypeOK, Obedient
<1>2. i.opts \in Options
  BY <1>1 DEF Invocation
<1>3. i.pc \notin Idle => \A m \in Runs : m # n => ~Active(m)
  BY DEF Obedient, Alone, Active, Idle
<1> HIDE DEF i
<1>4. ASSUME NEW o \in Options, Start(n, o)
      PROVE  Obedient'
  <2> DEFINE x == [i EXCEPT !.pc = "truncate", !.opts = o]
  <2>1. i.pc = "new" /\ Becomes(n, x)
    BY <1>4 DEF Start, i
  <2>2. x.pc = "truncate" /\ x.jobs = <<>> /\ x.pending = <<>>
    BY <1>1, <2>1 DEF Invocation, Obeys, Listing
  <2> HIDE DEF x
  <2>3. Obeys(x, info', cmds')
    BY <2>2 DEF Obeys, Listing, Writing, Running
  <2> QED BY <1>4, <2>1, <2>3, StartsAlone, OneObeys
<1>5. ASSUME TruncateInfo(n)
      PROVE  Obedient'
  <2> DEFINE x == [i EXCEPT !.pc = IF i.opts.args = <<>> THEN "list" ELSE "grep"]
  <2>1. i.pc = "truncate" /\ Becomes(n, x) /\ info' = <<>>
    BY <1>5 DEF TruncateInfo, Truncated, i
  <2>2. /\ x.pc = IF i.opts.args = <<>> THEN "list" ELSE "grep"
        /\ x.opts = i.opts /\ x.k = 1 /\ x.jobs = <<>> /\ x.pending = <<>>
    BY <1>1, <2>1 DEF Invocation, Consistent, Obeys, Listing
  <2> HIDE DEF x
  <2>3. Upto(Found(x.opts), x.k - 1) = <<>>
    <3>1. x.k - 1 = 0
      BY <2>2
    <3> QED BY <1>2, <2>2, <3>1, FoundTyped, UptoIs
  <2>4. Obeys(x, info', cmds')
    BY <2>1, <2>2, <2>3 DEF Obeys, Listing, Writing, Running
  <2> QED BY <1>3, <2>1, <2>4, OneObeys DEF Idle
<1>6. ASSUME List(n)
      PROVE  Obedient'
  <2> DEFINE x == [i EXCEPT !.pc = "open"]
  <2>1. i.pc = "list" /\ Becomes(n, x) /\ info' = Overlay(info, Listed)
    BY <1>6 DEF List, i
  <2>2. x.pc = "open" /\ x.opts = i.opts /\ x.k = 1 /\ x.jobs = <<>> /\ x.pending = <<>>
        /\ info = <<>> /\ i.opts.args = <<>>
    BY <1>1, <2>1 DEF Invocation, Consistent, Obeys, Listing
  <2>3. info' = AskedLines(i.opts)
    <3>1. Len(info) = 0 /\ Len(Listed) \in Nat
      BY <2>2, ListedAssumption
    <3>2. SubSeq(info, Len(Listed) + 1, Len(info)) = <<>>
      BY <3>1, SubSeqEmpty
    <3>3. Overlay(info, Listed) = Listed
      BY <3>2, ListedAssumption, ConcatEmptySeq DEF Overlay
    <3> QED BY <2>1, <2>2, <3>3 DEF AskedLines
  <2>4. x \in Invocation /\ 1 \in 1..Len(i.opts.seeds)
    BY <1>1, <1>2, OptionTyped, SMTT(30) DEF Invocation
  <2> HIDE DEF x
  <2>5. Ran(x) = <<>> /\ Before(x) = <<>>
    BY <2>2, <2>4, RanIs, BeforeIs
  <2>6. Obeys(x, info', cmds')
    BY <2>2, <2>3, <2>5 DEF Obeys, Listing, Writing, Running
  <2> QED BY <1>3, <2>1, <2>6, OneObeys DEF Idle
<1>7. ASSUME Grep(n)
      PROVE  Obedient'
  <2> DEFINE args == i.opts.args
             found == Matching(args[i.k])
             x == [i EXCEPT
                     !.pc = IF found = <<>> THEN "ended" ELSE IF i.k < Len(args) THEN "grep" ELSE "open",
                     !.k  = IF i.k < Len(args) THEN @ + 1 ELSE 1]
  <2>1. i.pc = "grep" /\ Becomes(n, x) /\ info' = info \o found
    BY <1>7 DEF Grep, i
  <2>2. i.k \in 1..Len(args) /\ Len(args) \in Nat /\ 1 \in 1..Len(i.opts.seeds) /\ i.k \in Nat \ {0}
    BY <1>1, <1>2, <2>1, OptionTyped DEF Consistent
  <2>3. x.k = (IF i.k < Len(args) THEN i.k + 1 ELSE 1) /\ x.opts = i.opts
        /\ x.pc = (IF found = <<>> THEN "ended" ELSE IF i.k < Len(args) THEN "grep" ELSE "open")
        /\ x.jobs = <<>> /\ x.pending = <<>>
    BY <1>1, <2>1 DEF Invocation, Obeys, Listing
  <2>4. info' = Upto(Found(i.opts), i.k)
    <3>1. info = Upto(Found(i.opts), i.k - 1)
      BY <1>1, <2>1 DEF Obeys, Listing
    <3>2. Found(i.opts)[i.k] = found
      BY <2>2 DEF Found
    <3>3. i.k \in 1..Len(Found(i.opts))
      BY <1>2, <2>2, FoundTyped
    <3>4. Upto(Found(i.opts), i.k) = Upto(Found(i.opts), i.k - 1) \o Found(i.opts)[i.k]
      BY <1>2, <3>3, FoundTyped, UptoIs
    <3> QED BY <2>1, <3>1, <3>2, <3>4
  <2>5. x \in Invocation
    <3> DEFINE pc == IF found = <<>> THEN "ended" ELSE IF i.k < Len(args) THEN "grep" ELSE "open"
               k == IF i.k < Len(args) THEN i.k + 1 ELSE 1
    <3>1. pc \in {"ended", "grep", "open"} /\ k \in Nat \ {0}
      BY <2>2
    <3>2. x = [i EXCEPT !.pc = pc, !.k = k]
      OBVIOUS
    <3> HIDE DEF x, pc, k
    <3> QED BY <1>1, <3>1, <3>2 DEF Invocation
  <2> HIDE DEF x
  <2>6. CASE x.pc = "ended"
    BY <1>3, <2>1, <2>3, <2>6, IdleObeys, OneObeys DEF Idle
  <2>7. CASE x.pc = "grep"
    <3>1. x.k = i.k + 1 /\ x.k - 1 = i.k /\ args # <<>>
      BY <2>2, <2>3, <2>7
    <3>2. Obeys(x, info', cmds')
      BY <2>3, <2>4, <2>7, <3>1 DEF Obeys, Listing, Writing, Running
    <3> QED BY <1>3, <2>1, <3>2, OneObeys DEF Idle
  <2>8. CASE x.pc = "open"
    <3>1. x.k = 1 /\ i.k = Len(args) /\ args # <<>>
      BY <2>2, <2>3, <2>8
    <3>2. info' = AskedLines(i.opts)
      BY <1>2, <2>4, <3>1, LinesAre
    <3>3. Ran(x) = <<>> /\ Before(x) = <<>>
      BY <2>2, <2>3, <2>5, <3>1, RanIs, BeforeIs
    <3>4. Obeys(x, info', cmds')
      BY <2>3, <2>8, <3>2, <3>3 DEF Obeys, Listing, Writing, Running
    <3> QED BY <1>3, <2>1, <3>4, OneObeys DEF Idle
  <2> QED BY <2>3, <2>6, <2>7, <2>8
<1>8. ASSUME Open(n)
      PROVE  Obedient'
  <2> DEFINE x == [i EXCEPT !.pc = "read", !.r = 0, !.w = 0]
  <2>1. i.pc = "open" /\ Becomes(n, x) /\ cmds' = <<>> /\ info' = info
    BY <1>8 DEF Open, Truncated, i
  <2>2. x.pc = "read" /\ x.r = 0 /\ x.w = 0 /\ x.opts = i.opts /\ x.k = i.k /\ x.jobs = i.jobs
        /\ x.pending = i.pending
    BY <1>1 DEF Invocation
  <2>3. i.k \in 1..Len(i.opts.seeds)
    BY <1>1, <2>1 DEF Consistent
  <2> HIDE DEF x
  <2>4. Ran(x) = Ran(i) /\ Before(x) = Before(i) /\ Present(x) = Present(i)
    BY <2>2 DEF Ran, Before, Present
  <2>5. SubSeq(Present(x), 1, 0) = <<>>
    BY SubSeqEmpty
  <2>6. Len(AskedLines(i.opts)) \in Nat
    BY <1>2, LinesAre
  <2>7. Listing(x, info')
    BY <1>1, <2>1, <2>2 DEF Obeys, Listing
  <2>8. Writing(x, cmds')
    BY <2>1, <2>2, <2>5, <2>6 DEF Writing
  <2>9. Running(x)
    BY <1>1, <2>1, <2>2, <2>4 DEF Obeys, Running
  <2> QED BY <1>3, <2>1, <2>7, <2>8, <2>9, OneObeys DEF Idle, Obeys
<1>9. ASSUME ReadLine(n)
      PROVE  Obedient'
  <2> DEFINE A == AskedLines(i.opts)
  <2>1. i.pc = "read" /\ info' = info /\ cmds' = cmds
    BY <1>9 DEF ReadLine, i
  <2>2. /\ i.k \in 1..Len(i.opts.seeds) /\ i.r \in Nat /\ i.w \in Nat
        /\ i.r = i.w /\ i.w <= Len(A) /\ info = A /\ cmds = SubSeq(Present(i), 1, i.w)
    BY <1>1, <2>1 DEF Consistent, Invocation, Obeys, Listing, Writing
  <2>3. /\ A \in Seq(Prngs) /\ Len(A) \in Nat /\ Present(i) \in Seq(Commands)
        /\ Before(i) \in Seq(Commands) /\ Len(Present(i)) = Len(A)
    BY <1>1, <1>2, <2>2, LinesAre, BeforeIs
  <2> HIDE DEF A
  <2>4. CASE i.r < Len(info)
    <3> DEFINE line == info[i.r + 1]
               x == [i EXCEPT !.pc = "write", !.line = line, !.r = i.r + 1]
    <3>1. Becomes(n, x)
      BY <1>9, <2>4 DEF ReadLine, i
    <3>2. line = A[i.r + 1] /\ i.r + 1 <= Len(A)
      BY <2>2, <2>3, <2>4
    <3> HIDE DEF line
    <3>3. x.pc = "write" /\ x.r = i.r + 1 /\ x.w = i.w /\ x.line = line /\ x.opts = i.opts
          /\ x.k = i.k /\ x.jobs = i.jobs /\ x.pending = i.pending
      BY <1>1 DEF Invocation
    <3> HIDE DEF x
    <3>4. Ran(x) = Ran(i) /\ Before(x) = Before(i) /\ Present(x) = Present(i)
      BY <3>3 DEF Ran, Before, Present
    <3>5. Listing(x, info')
      BY <1>1, <2>1, <3>3 DEF Obeys, Listing
    <3>6. Writing(x, cmds')
      BY <2>1, <2>2, <3>2, <3>3, <3>4 DEF Writing, A
    <3>7. Running(x)
      BY <1>1, <2>1, <3>3, <3>4 DEF Obeys, Running
    <3> QED BY <1>3, <2>1, <3>1, <3>5, <3>6, <3>7, OneObeys DEF Idle, Obeys
  <2>5. CASE ~(i.r < Len(info))
    <3> DEFINE x == [i EXCEPT !.pc = "parallel", !.d = 0]
    <3>1. Becomes(n, x)
      BY <1>9, <2>5 DEF ReadLine, i
    <3>2. i.w = Len(Present(i))
      BY <2>2, <2>3, <2>5
    <3>3. x.pc = "parallel" /\ x.d = 0 /\ x.opts = i.opts
          /\ x.k = i.k /\ x.jobs = i.jobs /\ x.pending = i.pending
      BY <1>1 DEF Invocation
    <3> HIDE DEF x
    <3>4. Ran(x) = Ran(i) /\ Before(x) = Before(i) /\ Present(x) = Present(i)
      BY <3>3 DEF Ran, Before, Present
    <3>5. Listing(x, info')
      BY <1>1, <2>1, <3>3 DEF Obeys, Listing
    <3>6. Writing(x, cmds')
      <4>1. SubSeq(Present(i), 1, Len(Present(i))) = Present(i)
        BY <2>3, SubSeqFull
      <4> QED BY <2>1, <2>2, <3>2, <3>3, <3>4, <4>1 DEF Writing
    <3>7. Running(x)
      <4>1. i.pending = <<>> /\ (~i.opts.dry => Ran(i) = Before(i)) /\ (i.opts.dry => i.jobs = <<>>)
        BY <1>1, <2>1 DEF Obeys, Running
      <4>2. SubSeq(Present(i), 1, 0) = <<>>
        BY SubSeqEmpty
      <4>3. 0 <= Len(Present(x)) /\ Len(x.pending) = 0
        BY <2>3, <3>3, <3>4, <4>1
      <4>4. x.pending = <<>> /\ (~x.opts.dry => Ran(x) = Before(x)) /\ (x.opts.dry => x.jobs = <<>>)
        BY <3>3, <3>4, <4>1
      <4>5. SubSeq(Present(x), 1, x.d) = <<>>
        BY <3>3, <3>4, <4>2
      <4>6. ~x.opts.dry => Ran(x) \o x.pending = Before(x) \o SubSeq(Present(x), 1, x.d)
        BY <4>4, <4>5
      <4>7. x.d <= Len(Present(x)) /\ \A q \in 1..Len(x.pending) : x.pending[q] # Hole
        BY <3>3, <4>3
      <4> QED BY <3>3, <4>4, <4>6, <4>7 DEF Running
    <3> QED BY <1>3, <2>1, <3>1, <3>5, <3>6, <3>7, OneObeys DEF Idle, Obeys
  <2> QED BY <2>4, <2>5
<1>10. ASSUME WriteCommand(n)
       PROVE  Obedient'
  <2> DEFINE A == AskedLines(i.opts)
             c == Command(i.line, i.opts, i.k)
             x == [i EXCEPT !.pc = "read", !.w = i.w + 1, !.line = Hole]
  <2>1. i.pc = "write" /\ Becomes(n, x) /\ cmds' = Put(cmds, i.w + 1, c) /\ info' = info
    BY <1>10 DEF WriteCommand, i
  <2>2. /\ i.k \in 1..Len(i.opts.seeds) /\ i.r \in Nat /\ i.w \in Nat
        /\ i.r = i.w + 1 /\ i.r <= Len(A) /\ i.line = A[i.r]
        /\ cmds = SubSeq(Present(i), 1, i.w)
    BY <1>1, <2>1 DEF Consistent, Invocation, Obeys, Writing
  <2>3. Len(A) \in Nat /\ Present(i) \in Seq(Commands) /\ Len(Present(i)) = Len(A)
    BY <1>1, <1>2, <2>2, LinesAre, BeforeIs
  <2>4. Present(i)[i.w + 1] = c
    BY <2>2, <2>3 DEF Present, Block
  <2>5. x.pc = "read" /\ x.r = i.r /\ x.w = i.w + 1 /\ x.opts = i.opts
        /\ x.k = i.k /\ x.jobs = i.jobs /\ x.pending = i.pending
    BY <1>1 DEF Invocation
  <2> HIDE DEF A, c, x
  <2>6. cmds' = SubSeq(Present(i), 1, i.w + 1)
    <3> DEFINE s == SubSeq(Present(i), 1, i.w)
    <3>1. i.w < Len(Present(i))
      BY <2>2, <2>3
    <3>2. c \in Commands /\ s \in Seq(Commands) /\ Len(s) = i.w
          /\ SubSeq(Present(i), 1, i.w + 1) = Append(s, c)
      BY <2>2, <2>3, <2>4, <3>1, OneMoreOf
    <3>3. cmds = s
      BY <2>2
    <3> HIDE DEF s
    <3>4. Put(s, Len(s) + 1, c) = Append(s, c)
      BY <3>2, PutNext
    <3> QED BY <2>1, <3>2, <3>3, <3>4
  <2>7. Ran(x) = Ran(i) /\ Before(x) = Before(i) /\ Present(x) = Present(i)
    BY <2>5 DEF Ran, Before, Present
  <2>8. Listing(x, info')
    BY <1>1, <2>1, <2>5 DEF Obeys, Listing
  <2>9. Writing(x, cmds')
    BY <2>2, <2>5, <2>6, <2>7 DEF Writing, A
  <2>10. Running(x)
    BY <1>1, <2>1, <2>5, <2>7 DEF Obeys, Running
  <2> QED BY <1>3, <2>1, <2>8, <2>9, <2>10, OneObeys DEF Idle, Obeys
<1> QED BY <1>4, <1>5, <1>6, <1>7, <1>8, <1>9, <1>10 DEF i

LEMMA RanMore ==
    ASSUME NEW jobs \in Seq(Job), NEW job \in Job
    PROVE  [q \in 1..Len(Append(jobs, job)) |-> Append(jobs, job)[q].cmd] =
              Append([q \in 1..Len(jobs) |-> jobs[q].cmd], job.cmd)
<1> DEFINE more == Append(jobs, job)
           r == [q \in 1..Len(jobs) |-> jobs[q].cmd]
           R == [q \in 1..Len(more) |-> more[q].cmd]
<1>1. Len(jobs) \in Nat /\ more \in Seq(Job) /\ Len(more) = Len(jobs) + 1
  BY AppendProperties
<1>2. \A q \in 1..Len(jobs) : more[q] = jobs[q]
  BY AppendProperties
<1>3. more[Len(jobs) + 1] = job
  BY AppendProperties
<1> HIDE DEF more
<1>4. \A q \in 1..Len(jobs) : jobs[q].cmd \in Commands
  <2> SUFFICES ASSUME NEW q \in 1..Len(jobs) PROVE jobs[q].cmd \in Commands
    OBVIOUS
  <2>1. jobs[q] \in Job
    BY ElementOfSeq
  <2> QED BY <2>1 DEF Job
<1>5. job.cmd \in Commands
  BY DEF Job
<1>6. r \in Seq(Commands) /\ Len(r) = Len(jobs)
  <2>1. r \in [1..Len(jobs) -> Commands]
    BY <1>4
  <2> HIDE DEF r
  <2> QED BY <1>1, <2>1
<1>7. R \in Seq(Commands) /\ Len(R) = Len(jobs) + 1
  <2>1. \A q \in 1..(Len(jobs) + 1) : more[q].cmd \in Commands
    <3> SUFFICES ASSUME NEW q \in 1..(Len(jobs) + 1) PROVE more[q].cmd \in Commands
      OBVIOUS
    <3>1. more[q] \in Job
      BY <1>1, ElementOfSeq
    <3> QED BY <3>1 DEF Job
  <2>2. R \in [1..(Len(jobs) + 1) -> Commands]
    BY <1>1, <2>1
  <2> HIDE DEF R
  <2> QED BY <1>1, <2>2
<1> DEFINE a == Append(r, job.cmd)
<1>8. a \in Seq(Commands) /\ Len(a) = Len(jobs) + 1
  BY <1>5, <1>6, AppendProperties
<1>9. ASSUME NEW q \in 1..(Len(jobs) + 1)
      PROVE  R[q] = a[q]
  <2>1. R[q] = more[q].cmd
    BY <1>1
  <2>2. CASE q = Len(jobs) + 1
    BY <1>3, <1>5, <1>6, <2>1, <2>2, AppendProperties
  <2>3. CASE q # Len(jobs) + 1
    <3>1. q \in 1..Len(jobs)
      BY <1>1, <2>3
    <3>2. a[q] = r[q]
      BY <1>5, <1>6, <3>1, AppendProperties
    <3>3. r[q] = jobs[q].cmd
      BY <3>1
    <3> QED BY <1>2, <2>1, <3>1, <3>2, <3>3
  <2> QED BY <2>2, <2>3
<1> HIDE DEF r, R, a
<1>10. R = a
  BY <1>7, <1>8, <1>9, SeqEqual
<1> QED BY <1>10 DEF R, a, r, more

(* What parallel has read and not started.                                    *)
LEMMA PendingTyped ==
    ASSUME NEW i \in Invocation, Running(i), i.pc \in {"parallel", "wait"}
    PROVE  i.pending \in Seq(Commands) /\ Len(i.pending) \in Nat
<1>1. i.pending \in Seq(Commands \cup {Hole}) /\ Len(i.pending) \in Nat
  BY DEF Invocation
<1>2. \A q \in 1..Len(i.pending) : i.pending[q] # Hole
  BY DEF Running
<1>3. \A q \in 1..Len(i.pending) : i.pending[q] \in Commands
  BY <1>1, <1>2, ElementOfSeq
<1> DEFINE p == i.pending
<1>4. p \in Seq(Commands \cup {Hole}) /\ Len(p) \in Nat /\ \A q \in 1..Len(p) : p[q] \in Commands
  BY <1>1, <1>3
<1> HIDE DEF p
<1>5. p \in [1..Len(p) -> Commands]
  BY <1>4, LenProperties
<1>6. p \in Seq(Commands)
  BY <1>4, <1>5
<1> QED BY <1>4, <1>6 DEF p

(* A job that goes on, or ends, is still the job it was.                      *)
LEMMA SameCommands ==
    ASSUME NEW i \in Invocation, i.jobs # <<>>, NEW jobs \in Seq(Job), Len(jobs) = Len(i.jobs),
           \A q \in 1..Len(jobs) : jobs[q].cmd = i.jobs[q].cmd,
           NEW lines, NEW commands, Obeys(i, lines, commands)
    PROVE  Obeys([i EXCEPT !.jobs = jobs], lines, commands)
<1> DEFINE x == [i EXCEPT !.jobs = jobs]
<1>1. /\ x.pc = i.pc /\ x.opts = i.opts /\ x.k = i.k /\ x.r = i.r /\ x.line = i.line /\ x.w = i.w
      /\ x.d = i.d /\ x.pending = i.pending /\ x.jobs = jobs
  BY DEF Invocation
<1> HIDE DEF x
<1>2. Ran(x) = Ran(i)
  BY <1>1 DEF Ran
<1>3. Before(x) = Before(i) /\ Present(x) = Present(i)
  BY <1>1 DEF Before, Present
<1>4. Listing(x, lines)
  BY <1>1 DEF Obeys, Listing
<1>5. Writing(x, commands)
  BY <1>1, <1>3 DEF Obeys, Writing
<1>6. Running(x)
  BY <1>1, <1>2, <1>3 DEF Obeys, Running
<1> QED BY <1>4, <1>5, <1>6 DEF Obeys, x

LEMMA ObedientJobs ==
    ASSUME AtOnce = 1, TypeOK, Obedient, NEW n \in Runs
    PROVE  /\ ReadCommand(n) \/ StartJob(n) \/ ParallelEnds(n) \/ End(n) => Obedient'
           /\ (\E j \in 1..Len(inv[n].jobs) : Report(n, j) \/ EndJob(n, j)) => Obedient'
<1> DEFINE i == inv[n]
<1>1. i \in Invocation /\ Consistent(i) /\ Obeys(i, info, cmds)
  BY DEF TypeOK, Obedient
<1>2. i.opts \in Options /\ i.d \in Nat /\ i.jobs \in Seq(Job)
  BY <1>1 DEF Invocation
<1>3. i.pc \notin Idle => \A m \in Runs : m # n => ~Active(m)
  BY DEF Obedient, Alone, Active, Idle
<1>4. Listing(i, info) /\ Writing(i, cmds) /\ Running(i)
  BY <1>1 DEF Obeys
<1>5. i.pc \in {"parallel", "wait"} =>
        /\ i.k \in 1..Len(i.opts.seeds) /\ cmds = Present(i) /\ info = AskedLines(i.opts)
        /\ Before(i) \in Seq(Commands) /\ Present(i) \in Seq(Commands) /\ Len(Present(i)) \in Nat
        /\ Upto(Blocks(i.opts), i.k) = Before(i) \o Present(i)
        /\ Ran(i) \in Seq(Commands) /\ i.pending \in Seq(Commands)
        /\ i.opts.dry => i.jobs = <<>>
        /\ ~i.opts.dry => Ran(i) \o i.pending = Before(i) \o SubSeq(Present(i), 1, i.d)
        /\ \A q \in 1..Len(i.pending) : i.pending[q] # Hole
  <2> SUFFICES ASSUME i.pc \in {"parallel", "wait"}
               PROVE  /\ i.k \in 1..Len(i.opts.seeds) /\ cmds = Present(i) /\ info = AskedLines(i.opts)
                      /\ Before(i) \in Seq(Commands) /\ Present(i) \in Seq(Commands)
                      /\ Len(Present(i)) \in Nat
                      /\ Upto(Blocks(i.opts), i.k) = Before(i) \o Present(i)
                      /\ Ran(i) \in Seq(Commands) /\ i.pending \in Seq(Commands)
                      /\ i.opts.dry => i.jobs = <<>>
                      /\ ~i.opts.dry => Ran(i) \o i.pending = Before(i) \o SubSeq(Present(i), 1, i.d)
                      /\ \A q \in 1..Len(i.pending) : i.pending[q] # Hole
    OBVIOUS
  <2> HIDE DEF i
  <2>1. i.k \in 1..Len(i.opts.seeds)
    BY <1>1 DEF Consistent
  <2>2. cmds = Present(i) /\ info = AskedLines(i.opts)
    BY <1>4 DEF Writing, Listing
  <2>3. Ran(i) \in Seq(Commands)
    BY <1>1, RanIs
  <2>4. i.pending \in Seq(Commands)
    BY <1>1, <1>4, PendingTyped
  <2>5. /\ i.opts.dry => i.jobs = <<>>
        /\ ~i.opts.dry => Ran(i) \o i.pending = Before(i) \o SubSeq(Present(i), 1, i.d)
        /\ \A q \in 1..Len(i.pending) : i.pending[q] # Hole
    BY <1>4 DEF Running
  <2>6. /\ Before(i) \in Seq(Commands) /\ Present(i) \in Seq(Commands)
        /\ Len(Present(i)) \in Nat
        /\ Upto(Blocks(i.opts), i.k) = Before(i) \o Present(i)
    BY <1>1, <2>1, BeforeIs
  <2> QED BY <2>1, <2>2, <2>3, <2>4, <2>5, <2>6
<1> HIDE DEF i
<1>6. ASSUME ReadCommand(n)
      PROVE  Obedient'
  <2>1. i.pc = "parallel" /\ info' = info /\ cmds' = cmds
    BY <1>6 DEF ReadCommand, i
  <2>2. i.d <= Len(Present(i))
    BY <1>4, <2>1 DEF Running
  <2>3. CASE i.d < Len(cmds)
    <3> DEFINE c == cmds[i.d + 1]
               pending == Append(i.pending, c)
               x == [i EXCEPT !.d = i.d + 1, !.pending = pending]
    <3>1. Becomes(n, x)
      BY <1>6, <2>3 DEF ReadCommand, i
    <3>2. i.d < Len(Present(i)) /\ c = Present(i)[i.d + 1] /\ c \in Commands /\ c # Hole
      <4>1. i.d < Len(Present(i)) /\ c = Present(i)[i.d + 1]
        BY <1>5, <2>1, <2>3
      <4>2. c \in Commands
        BY <1>2, <1>5, <2>1, <4>1, OneMoreOf
      <4> QED BY <4>1, <4>2, CommandsTyped
    <3>3. ~i.opts.dry => Ran(i) \o pending = Before(i) \o SubSeq(Present(i), 1, i.d + 1)
      <4>1. Tally(Ran(i), i.pending, Before(i), SubSeq(Present(i), 1, i.d)) =>
               Tally(Ran(i), Append(i.pending, Present(i)[i.d + 1]), Before(i), SubSeq(Present(i), 1, i.d + 1))
        BY <1>2, <1>5, <2>1, <3>2, AppendAfter
      <4> HIDE DEF c
      <4> QED BY <1>5, <2>1, <3>2, <4>1 DEF Tally
    <3>4. \A q \in 1..Len(pending) : pending[q] # Hole
      <4> DEFINE p == i.pending
      <4>1. p \in Seq(Commands) /\ \A q \in 1..Len(p) : p[q] # Hole
        BY <1>5, <2>1
      <4> HIDE DEF c, p
      <4>2. Len(Append(p, c)) = Len(p) + 1 /\ Len(p) \in Nat
        BY <3>2, <4>1, AppendProperties
      <4>3. \A q \in 1..(Len(p) + 1) : Append(p, c)[q] # Hole
        <5> SUFFICES ASSUME NEW q \in 1..(Len(p) + 1) PROVE Append(p, c)[q] # Hole
          OBVIOUS
        <5>1. CASE q = Len(p) + 1
          BY <3>2, <4>1, <5>1, AppendProperties
        <5>2. CASE q # Len(p) + 1
          <6>1. q \in 1..Len(p)
            BY <4>2, <5>2
          <6> QED BY <3>2, <4>1, <6>1, AppendProperties
        <5> QED BY <5>1, <5>2
      <4> QED BY <4>2, <4>3 DEF p
    <3> HIDE DEF pending
    <3>5. x.pc = "parallel" /\ x.d = i.d + 1 /\ x.pending = pending /\ x.opts = i.opts
          /\ x.k = i.k /\ x.jobs = i.jobs
      BY <1>1, <2>1 DEF Invocation
    <3> HIDE DEF x
    <3>6. Ran(x) = Ran(i) /\ Before(x) = Before(i) /\ Present(x) = Present(i)
      BY <3>5 DEF Ran, Before, Present
    <3>7. Listing(x, info')
      BY <1>4, <2>1, <3>5 DEF Listing
    <3>8. Writing(x, cmds')
      BY <1>5, <2>1, <3>5, <3>6 DEF Writing
    <3>9. x.d <= Len(Present(x))
      BY <1>2, <1>5, <2>1, <3>2, <3>5, <3>6
    <3>10. Running(x)
      BY <1>5, <2>1, <3>3, <3>4, <3>5, <3>6, <3>9 DEF Running
    <3> QED BY <1>3, <2>1, <3>1, <3>7, <3>8, <3>10, OneObeys DEF Idle, Obeys, i
  <2>4. CASE ~(i.d < Len(cmds))
    <3> DEFINE x == [i EXCEPT !.pc = "wait"]
    <3>1. Becomes(n, x)
      BY <1>6, <2>4 DEF ReadCommand, i
    <3>2. i.d = Len(Present(i))
      BY <1>2, <1>5, <2>1, <2>2, <2>4
    <3>3. x.pc = "wait" /\ x.d = i.d /\ x.opts = i.opts
          /\ x.k = i.k /\ x.jobs = i.jobs /\ x.pending = i.pending
      BY <1>1 DEF Invocation
    <3> HIDE DEF x
    <3>4. Ran(x) = Ran(i) /\ Before(x) = Before(i) /\ Present(x) = Present(i)
      BY <3>3 DEF Ran, Before, Present
    <3>5. Listing(x, info')
      BY <1>5, <2>1, <3>3 DEF Listing
    <3>6. Writing(x, cmds')
      BY <1>5, <2>1, <3>3, <3>4 DEF Writing
    <3>7. Running(x)
      BY <1>5, <2>1, <3>2, <3>3, <3>4 DEF Running
    <3> QED BY <1>3, <2>1, <3>1, <3>5, <3>6, <3>7, OneObeys DEF Idle, Obeys, i
  <2> QED BY <2>3, <2>4
<1>7. ASSUME StartJob(n)
      PROVE  Obedient'
  <2> DEFINE p == i.pending
             c == Head(p)
             job == [cmd |-> c, wrote |-> 0, status |-> "running"]
             jobs == IF i.opts.dry THEN i.jobs ELSE Append(i.jobs, job)
             x == [i EXCEPT !.pending = Tail(p), !.jobs = jobs]
  <2>1. i.pc \in {"parallel", "wait"} /\ p # <<>> /\ info' = info /\ cmds' = cmds
        /\ Becomes(n, [i EXCEPT !.pending = Tail(@),
               !.jobs = IF i.opts.dry \/ c = Hole THEN @ ELSE Append(@, job)])
    BY <1>7 DEF StartJob, i
  <2>2. p \in Seq(Commands) /\ \A q \in 1..Len(p) : p[q] # Hole
    BY <1>5, <2>1
  <2> HIDE DEF p
  <2>3. c \in Commands /\ c # Hole
    BY <2>1, <2>2, HeadTailProperties, CommandsTyped
  <2>4. Tail(p) \in Seq(Commands) /\ \A q \in 1..Len(Tail(p)) : Tail(p)[q] # Hole
    <3> DEFINE t == Tail(p)
    <3>1. t \in Seq(Commands) /\ Len(t) \in Nat
      BY <2>1, <2>2, HeadTailProperties
    <3> HIDE DEF t
    <3>2. \A q \in 1..Len(t) : t[q] # Hole
      BY <3>1, ElementOfSeq, CommandsTyped
    <3> QED BY <3>1, <3>2 DEF t
  <2>5. Becomes(n, x)
    BY <2>1, <2>3 DEF p
  <2> HIDE DEF c, job
  <2>6. x.pc = i.pc /\ x.d = i.d /\ x.opts = i.opts /\ x.k = i.k /\ x.jobs = jobs /\ x.pending = Tail(p)
    BY <1>1 DEF Invocation
  <2> HIDE DEF x
  <2>7. Before(x) = Before(i) /\ Present(x) = Present(i)
    BY <2>6 DEF Before, Present
  <2>8. Listing(x, info')
    BY <1>5, <2>1, <2>6 DEF Listing
  <2>9. Writing(x, cmds')
    BY <1>5, <2>1, <2>6, <2>7 DEF Writing
  <2>10. x.opts.dry => x.jobs = <<>>
    BY <1>5, <2>1, <2>6
  <2>11. ~x.opts.dry => Ran(x) \o x.pending = Before(x) \o SubSeq(Present(x), 1, x.d)
    <3> SUFFICES ASSUME ~i.opts.dry PROVE Ran(x) \o x.pending = Before(x) \o SubSeq(Present(x), 1, x.d)
      BY <2>6
    <3>1. Ran(x) = Append(Ran(i), c)
      <4> DEFINE old == i.jobs
      <4>1. job \in Job /\ job.cmd = c
        BY <2>3, BoundsAssumption DEF job, Job
      <4>2. old \in Seq(Job) /\ x.jobs = Append(old, job)
        BY <1>2, <2>6
      <4>3. Ran(i) = [q \in 1..Len(old) |-> old[q].cmd]
        BY DEF Ran
      <4> HIDE DEF old
      <4> QED BY <4>1, <4>2, <4>3, RanMore DEF Ran
    <3>2. Append(Ran(i), c) \o Tail(p) = Ran(i) \o p
      BY <1>5, <2>1, <2>2, MoveHead DEF c
    <3>3. Ran(i) \o p = Before(i) \o SubSeq(Present(i), 1, i.d)
      BY <1>5, <2>1 DEF p
    <3>4. Before(x) \o SubSeq(Present(x), 1, x.d) = Before(i) \o SubSeq(Present(i), 1, i.d)
      BY <2>6, <2>7
    <3>5. Ran(x) \o x.pending = Append(Ran(i), c) \o Tail(p)
      BY <2>6, <3>1
    <3> DEFINE a == Ran(x) \o x.pending
               b == Append(Ran(i), c) \o Tail(p)
               d == Ran(i) \o p
               e == Before(i) \o SubSeq(Present(i), 1, i.d)
               f == Before(x) \o SubSeq(Present(x), 1, x.d)
    <3>6. a = b /\ b = d /\ d = e /\ f = e
      BY <3>2, <3>3, <3>4, <3>5
    <3> HIDE DEF a, b, d, e, f
    <3>7. a = f
      BY <3>6
    <3> QED BY <3>7 DEF a, f
  <2>12. /\ x.pc = "parallel" => x.d <= Len(Present(x))
         /\ x.pc = "wait" => x.d = Len(Present(x))
    BY <1>4, <2>6, <2>7 DEF Running
  <2>13. \A q \in 1..Len(x.pending) : x.pending[q] # Hole
    BY <2>4, <2>6
  <2>14. Running(x)
    BY <2>1, <2>6, <2>10, <2>11, <2>12, <2>13 DEF Running
  <2> QED BY <1>3, <2>1, <2>5, <2>8, <2>9, <2>14, OneObeys DEF Idle, Obeys, i
<1>8. ASSUME ParallelEnds(n)
      PROVE  Obedient'
  <2>1. i.pc = "wait" /\ i.pending = <<>> /\ info' = info /\ cmds' = cmds
    BY <1>8 DEF ParallelEnds, i
  <2>2. i.d = Len(Present(i)) /\ Len(i.opts.seeds) \in Nat
    BY <1>2, <1>4, <2>1, OptionTyped DEF Running
  <2>3. ~i.opts.dry => Ran(i) = Upto(Blocks(i.opts), i.k)
    <3>1. Ran(i) \o i.pending = Ran(i)
      BY <1>5, <2>1, ConcatEmptySeq
    <3>2. SubSeq(Present(i), 1, i.d) = Present(i)
      BY <1>5, <2>1, <2>2, SubSeqFull
    <3> QED BY <1>5, <2>1, <3>1, <3>2
  <2>4. CASE i.k < Len(i.opts.seeds)
    <3> DEFINE x == [i EXCEPT !.pc = "open", !.k = i.k + 1]
    <3>1. Becomes(n, x)
      BY <1>8, <2>4 DEF ParallelEnds, i
    <3>2. x.pc = "open" /\ x.opts = i.opts /\ x.k = i.k + 1 /\ x.jobs = i.jobs /\ x.pending = <<>>
      BY <1>1, <2>1 DEF Invocation
    <3> HIDE DEF x
    <3>3. Ran(x) = Ran(i) /\ Before(x) = Upto(Blocks(i.opts), i.k)
      <4>1. (i.k + 1) - 1 = i.k
        BY <1>5, <2>1
      <4> QED BY <3>2, <4>1 DEF Ran, Before
    <3>4. Listing(x, info') /\ Writing(x, cmds')
      BY <1>5, <2>1, <3>2 DEF Listing, Writing
    <3>5. Running(x)
      BY <1>5, <2>1, <2>3, <3>2, <3>3 DEF Running
    <3> QED BY <1>3, <2>1, <3>1, <3>4, <3>5, OneObeys DEF Idle, Obeys, i
  <2>5. CASE ~(i.k < Len(i.opts.seeds))
    <3> DEFINE x == [i EXCEPT !.pc = "success"]
    <3>1. Becomes(n, x)
      BY <1>8, <2>5 DEF ParallelEnds, i
    <3>2. x.pc = "success" /\ x.opts = i.opts /\ x.jobs = i.jobs /\ x.pending = <<>>
      BY <1>1, <2>1 DEF Invocation
    <3> HIDE DEF x
    <3>3. Upto(Blocks(i.opts), i.k) = Asked(i.opts)
      <4>1. i.k = Len(i.opts.seeds)
        BY <1>5, <2>1, <2>2, <2>5
      <4> QED BY <1>2, <4>1, BlocksAre
    <3>4. Ran(x) = Ran(i)
      BY <3>2 DEF Ran
    <3>5. Listing(x, info') /\ Writing(x, cmds')
      BY <3>2 DEF Listing, Writing
    <3>6. Running(x)
      BY <1>5, <2>1, <2>3, <3>2, <3>3, <3>4 DEF Running
    <3> QED BY <1>3, <2>1, <3>1, <3>5, <3>6, OneObeys DEF Idle, Obeys, i
  <2> QED BY <2>4, <2>5
<1>9. ASSUME End(n)
      PROVE  Obedient'
  <2> DEFINE x == [NotStarted EXCEPT !.pc = "ended", !.opts = i.opts]
  <2>1. i.pc \notin Idle /\ Becomes(n, x)
    BY <1>9 DEF End, Active, Idle, i
  <2>2. x.pc \in Idle /\ x.jobs = <<>> /\ x.pending = <<>>
    BY DEF NotStarted, Idle
  <2> HIDE DEF x
  <2> QED BY <1>3, <2>1, <2>2, IdleObeys, OneObeys DEF i
<1>10. ASSUME NEW j \in 1..Len(i.jobs), Report(n, j) \/ EndJob(n, j)
       PROVE  Obedient'
  <2> DEFINE job == i.jobs[j]
             ended == [job EXCEPT !.status = "ended"]
             more == [job EXCEPT !.wrote = @ + 1,
                                 !.status = IF job.wrote + 1 = Reports THEN "ended" ELSE @]
             new == IF Report(n, j) THEN more ELSE ended
             jobs == [i.jobs EXCEPT ![j] = new]
             x == [i EXCEPT !.jobs = jobs]
  <2>1. info' = info /\ cmds' = cmds
        /\ Becomes(n, IF Report(n, j) THEN [i EXCEPT !.jobs[j] = more]
                      ELSE [i EXCEPT !.jobs[j].status = "ended"])
    BY <1>10 DEF Report, EndJob, i
  <2>2. job \in Job
    BY <1>2, ElementOfSeq
  <2>3. new \in Job /\ new.cmd = job.cmd
    <3>1. CASE ~Report(n, j)
      BY <2>2, <3>1 DEF Job
    <3>2. CASE Report(n, j)
      <4> DEFINE wrote == job.wrote + 1
                 status == IF wrote = Reports THEN "ended" ELSE job.status
      <4>1. wrote \in 0..Reports /\ status \in {"running", "ended"}
        <5>1. job.status = "running" /\ job.wrote < Reports
          BY <1>1, <3>2 DEF Report, Unfinished, Consistent, i
        <5> QED BY <2>2, <5>1, BoundsAssumption DEF Job
      <4>2. new = [job EXCEPT !.wrote = wrote, !.status = status]
        BY <3>2
      <4> HIDE DEF new, job, wrote, status
      <4> QED BY <2>2, <4>1, <4>2 DEF Job
    <3> QED BY <3>1, <3>2
  <2>4. Becomes(n, x)
    <3>1. CASE Report(n, j)
      <4>1. [i EXCEPT !.jobs[j] = more] = x
        BY <1>1, <3>1 DEF Invocation
      <4> QED BY <2>1, <3>1, <4>1
    <3>2. CASE ~Report(n, j)
      <4>1. [i EXCEPT !.jobs[j].status = "ended"] = x
        BY <1>1, <3>2 DEF Invocation
      <4> QED BY <2>1, <3>2, <4>1
    <3> QED BY <3>1, <3>2
  <2> HIDE DEF new
  <2>5. jobs \in Seq(Job) /\ Len(jobs) = Len(i.jobs) /\ \A q \in 1..Len(jobs) : jobs[q].cmd = i.jobs[q].cmd
    <3>1. jobs \in Seq(Job) /\ Len(jobs) = Len(i.jobs)
      BY <1>2, <2>3, ExceptSeq
    <3>2. \A q \in 1..Len(i.jobs) : jobs[q] = IF q = j THEN new ELSE i.jobs[q]
      BY <1>2, <2>3, ExceptSeq
    <3> HIDE DEF jobs
    <3> QED BY <2>3, <3>1, <3>2
  <2>6. i.jobs # <<>> /\ i.pc \notin Idle
    <3>1. i.jobs # <<>>
      OBVIOUS
    <3> QED BY <1>4, <3>1 DEF Listing, Idle
  <2> HIDE DEF jobs
  <2>7. Obeys(x, info', cmds')
    BY <1>1, <2>1, <2>5, <2>6, SameCommands
  <2> HIDE DEF x
  <2> QED BY <1>3, <2>4, <2>6, <2>7, OneObeys DEF i
<1> QED BY <1>6, <1>7, <1>8, <1>9, <1>10 DEF i

LEMMA ObedientAlways == AtOnce = 1 => (Spec => [](TypeOK /\ Obedient))
<1> SUFFICES ASSUME AtOnce = 1 PROVE Spec => [](TypeOK /\ Obedient)
  OBVIOUS
<1>1. Spec => []Obedient
  <2>1. TypeOK /\ Obedient /\ [Next]_vars => Obedient'
    <3> SUFFICES ASSUME TypeOK, Obedient, [Next]_vars PROVE Obedient'
      OBVIOUS
    <3>1. ASSUME UNCHANGED vars PROVE Obedient'
      <4>1. info' = info /\ cmds' = cmds /\ inv' = inv
        BY <3>1 DEF vars
      <4>2. Alone'
        BY <4>1 DEF Obedient, Alone, Active
      <4> QED BY <4>1, <4>2 DEF Obedient
    <3>2. CASE Done
      BY <3>1, <3>2 DEF Done
    <3>3. ASSUME NEW n \in Runs,
                 (\E o \in Options : Start(n, o)) \/ Step(n) \/ End(n)
                   \/ \E j \in 1..Len(inv[n].jobs) : Report(n, j) \/ EndJob(n, j)
          PROVE  Obedient'
      BY <3>3, ObedientFiles, ObedientJobs DEF Step
    <3> QED BY <3>1, <3>2, <3>3 DEF Next
  <2> QED BY <2>1, ObedientInit, TypeCorrect, PTL DEF Spec
<1> QED BY <1>1, TypeCorrect, PTL

(* While invocations do not overlap, one that succeeds has run what it was    *)
(* asked for: of the lists in the shared files, nothing of an earlier one,    *)
(* interrupted at any step, gets into it.                                     *)
THEOREM RunsAsAsked == AtOnce = 1 => (Spec => []RunsWhatWasAsked)
<1> SUFFICES ASSUME AtOnce = 1 PROVE Spec => []RunsWhatWasAsked
  OBVIOUS
<1>1. TypeOK /\ Obedient => RunsWhatWasAsked
  <2> SUFFICES ASSUME TypeOK, Obedient, NEW n \in Runs, Succeeds(n)
               PROVE  Ran(inv[n]) = IF inv[n].opts.dry THEN <<>> ELSE Asked(inv[n].opts)
    BY DEF RunsWhatWasAsked, Ran
  <2>1. inv[n] \in Invocation /\ Running(inv[n]) /\ inv[n].pc = "success"
    BY DEF TypeOK, Obedient, Obeys, Succeeds
  <2>2. inv[n].opts.dry => Ran(inv[n]) = <<>>
    BY <2>1, RanIs DEF Running
  <2> QED BY <2>1, <2>2 DEF Running
<1> QED BY <1>1, ObedientAlways, PTL

(* What is in one of the sequences is in all of them one after the other.     *)
LEMMA UptoHolds ==
    ASSUME NEW T, NEW seqs \in Seq(Seq(T)), NEW k \in 1..Len(seqs), NEW i \in 1..Len(seqs[k])
    PROVE  \A m \in k..Len(seqs) : \E j \in 1..Len(Upto(seqs, m)) : Upto(seqs, m)[j] = seqs[k][i]
<1> DEFINE Has(m) == \E j \in 1..Len(Upto(seqs, m)) : Upto(seqs, m)[j] = seqs[k][i]
           Bad == {m \in k..Len(seqs) : ~Has(m)}
<1>0. Len(seqs) \in Nat /\ k \in Nat /\ seqs[k] \in Seq(T)
  OBVIOUS
<1>1. Bad = {}
  <2> SUFFICES ASSUME Bad # {} PROVE FALSE
    OBVIOUS
  <2>1. PICK m \in Bad : \A n \in Bad : m <= n
    <3>1. Bad \in SUBSET Nat
      BY <1>0
    <3> HIDE DEF Bad
    <3> QED BY <3>1, LeastOne
  <2>2. m \in k..Len(seqs) /\ ~Has(m)
    BY <2>1
  <2>3. m = k \/ Has(m - 1)
    <3> SUFFICES ASSUME m # k PROVE Has(m - 1)
      OBVIOUS
    <3>1. m - 1 \in k..Len(seqs) /\ ~(m <= m - 1)
      BY <1>0, <2>2
    <3>2. m - 1 \notin Bad
      <4> HIDE DEF Bad
      <4> QED BY <2>1, <3>1
    <3> HIDE DEF Has
    <3> QED BY <3>1, <3>2
  <2> HIDE DEF Bad
  <2>4. m \in 1..Len(seqs) /\ m - 1 \in 0..Len(seqs)
    BY <1>0, <2>2
  <2> DEFINE u == Upto(seqs, m - 1)
             v == seqs[m]
  <2>5. Upto(seqs, m) = u \o v /\ u \in Seq(T) /\ v \in Seq(T)
    <3>1. v \in Seq(T)
      BY <2>4, ElementOfSeq
    <3>2. Upto(seqs, m) = u \o v
      BY <2>4, UptoIs
    <3>3. u \in Seq(T)
      BY <2>4, UptoIs
    <3> QED BY <3>1, <3>2, <3>3
  <2>6. m # k => \E j \in 1..Len(u) : u[j] = seqs[k][i]
    BY <2>3
  <2>7. m = k => v = seqs[k]
    OBVIOUS
  <2> HIDE DEF u, v
  <2>8. Len(u) \in Nat /\ Len(v) \in Nat /\ Len(u \o v) = Len(u) + Len(v)
    BY <2>5, ConcatProperties
  <2>9. CASE m = k
    <3>1. Len(u) + i \in 1..(Len(u) + Len(v)) /\ ~(Len(u) + i <= Len(u)) /\ (Len(u) + i) - Len(u) = i
      BY <2>7, <2>8, <2>9
    <3>2. (u \o v)[Len(u) + i] = v[i]
      BY <2>5, <3>1, ConcatProperties
    <3> QED BY <2>2, <2>5, <2>7, <2>8, <2>9, <3>1, <3>2
  <2>10. CASE m # k
    <3>1. PICK j \in 1..Len(u) : u[j] = seqs[k][i]
      BY <2>6, <2>10
    <3>2. j \in 1..(Len(u) + Len(v)) /\ j <= Len(u)
      BY <2>8
    <3>3. (u \o v)[j] = u[j]
      BY <2>5, <3>2, ConcatProperties
    <3> QED BY <2>2, <2>5, <2>8, <3>1, <3>2, <3>3
  <2> QED BY <2>9, <2>10
<1> QED BY <1>1

(* "If PRNGs are not given, they are all tested" holds while invocations do   *)
(* not overlap.                                                               *)
THEOREM AllTestedAlone == AtOnce = 1 => (Spec => []AllTestedIfNoneGiven)
<1> SUFFICES ASSUME AtOnce = 1 PROVE Spec => []AllTestedIfNoneGiven
  OBVIOUS
<1>1. TypeOK /\ Obedient => AllTestedIfNoneGiven
  <2> SUFFICES ASSUME TypeOK, Obedient, NEW n \in Runs, Succeeds(n), inv[n].opts.args = <<>>, ~inv[n].opts.dry,
                      NEW p \in Prngs, NEW k \in 1..Len(inv[n].opts.seeds)
               PROVE  \E j \in 1..Len(inv[n].jobs) : inv[n].jobs[j].cmd = Command(p, inv[n].opts, k)
    BY DEF AllTestedIfNoneGiven
  <2> DEFINE i == inv[n]
             o == i.opts
             L == Len(o.seeds)
  <2>1. i \in Invocation /\ Running(i) /\ i.pc = "success"
    BY DEF TypeOK, Obedient, Obeys, Succeeds
  <2>2. o \in Options /\ Ran(i) = Asked(o) /\ L \in Nat
    BY <2>1, OptionTyped DEF Running, Invocation
  <2>3. /\ Blocks(o) \in Seq(Seq(Commands)) /\ Len(Blocks(o)) = L /\ Asked(o) = Upto(Blocks(o), L)
        /\ Len(Block(o, k)) = Len(AskedLines(o))
    BY <2>2, BlocksAre
  <2>4. PICK q \in 1..Len(Listed) : Listed[q] = p
    BY DEF Prngs
  <2>5. AskedLines(o) = Listed
    BY DEF AskedLines
  <2>6. Blocks(o)[k] = Block(o, k) /\ Block(o, k)[q] = Command(p, o, k)
    BY <2>4, <2>5 DEF Blocks, Block
  <2>7. k \in 1..Len(Blocks(o)) /\ L \in k..L /\ q \in 1..Len(Blocks(o)[k])
    BY <2>2, <2>3, <2>5, <2>6
  <2>8. PICK j \in 1..Len(Ran(i)) : Ran(i)[j] = Command(p, o, k)
    <3> DEFINE seqs == Blocks(o)
    <3>1. /\ seqs \in Seq(Seq(Commands)) /\ k \in 1..Len(seqs) /\ q \in 1..Len(seqs[k])
          /\ L \in k..Len(seqs) /\ seqs[k][q] = Command(p, o, k) /\ Ran(i) = Upto(seqs, L)
      BY <2>2, <2>3, <2>6, <2>7
    <3> HIDE DEF seqs, i, o, L
    <3>2. \E j \in 1..Len(Upto(seqs, L)) : Upto(seqs, L)[j] = seqs[k][q]
      BY <3>1, UptoHolds
    <3> QED BY <3>1, <3>2
  <2>9. Len(Ran(i)) = Len(i.jobs)
    BY <2>1, RanIs
  <2>10. i.jobs[j].cmd = Command(p, o, k) /\ j \in 1..Len(i.jobs)
    BY <2>8, <2>9 DEF Ran
  <2> QED BY <2>10
<1> QED BY <1>1, ObedientAlways, PTL

-----------------------------------------------------------------------------
(* Reports                                                                    *)

(* No two jobs that are under way write the same file.                        *)
Separate(i) == i.opts.jobs = 1 \/ IsInjective(AskedLines(i.opts))

(* A running job is one of the present seed type, and the last for its file.  *)
Current(i) ==
    /\ i.pc \in {"parallel", "wait"} /\ ~i.opts.dry => Len(Before(i)) <= Len(i.jobs)
    /\ \A j \in 1..Len(i.jobs) : i.jobs[j].status = "running" =>
         /\ i.pc \in {"parallel", "wait"} /\ j > Len(Before(i))
         /\ Separate(i) => LastFor(i.jobs, j)

Written(n, jobs, j) == [q \in 1..jobs[j].wrote |-> [run |-> n, job |-> j, tf |-> jobs[j].cmd.tf]]

Whole(n, i, files) ==
    Separate(i) => \A j \in 1..Len(i.jobs) :
        LastFor(i.jobs, j) => files[File(i.jobs[j].cmd)] = Written(n, i.jobs, j)

ReportsWhole == \A n \in Runs : Current(inv[n]) /\ Whole(n, inv[n], out)

LEMMA OneWhole ==
    ASSUME TypeOK, Obedient, ReportsWhole, NEW n \in Runs, \A m \in Runs : m # n => ~Active(m),
           NEW i, Becomes(n, i), Current(i), Whole(n, i, out')
    PROVE  ReportsWhole'
<1>1. inv'[n] = i /\ \A m \in Runs : m # n => inv'[m] = inv[m] /\ inv[m].pc \in Idle
  BY DEF TypeOK, Becomes, Active, Idle
<1>2. ASSUME NEW m \in Runs
      PROVE  Current(inv'[m]) /\ Whole(m, inv'[m], out')
  <2>1. CASE m = n
    BY <1>1, <2>1
  <2>2. CASE m # n
    <3>1. inv'[m].jobs = <<>> /\ inv'[m].pc \in Idle
      BY <1>1, <2>2 DEF Obedient, Obeys, Listing, Idle
    <3>2. Len(inv'[m].jobs) = 0
      BY <3>1
    <3> QED BY <3>1, <3>2 DEF Current, Whole, Idle
  <2> QED BY <2>1, <2>2
<1> QED BY <1>2 DEF ReportsWhole

(* No job begins, goes on or ends before parallel or after it.                *)
LEMMA QuietWhole ==
    ASSUME NEW i, NEW x, NEW n, NEW files, Current(i), Whole(n, i, files),
           x.jobs = i.jobs, x.opts = i.opts
    PROVE  /\ Whole(n, x, files)
           /\ i.pc \notin {"parallel", "wait"} /\ x.pc \notin {"parallel", "wait"} => Current(x)
<1>1. Separate(x) = Separate(i)
  BY DEF Separate
<1>2. Whole(n, x, files)
  BY <1>1 DEF Whole
<1> QED BY <1>2 DEF Current

(* A job of the present seed type, and the next one.                          *)
LEMMA PresentJobs ==
    ASSUME NEW i \in Invocation, i.pc \in {"parallel", "wait"}, i.k \in 1..Len(i.opts.seeds), Running(i),
           ~i.opts.dry, NEW j \in 1..(Len(i.jobs) + Len(i.pending)), j > Len(Before(i))
    PROVE  /\ j - Len(Before(i)) \in 1..Len(AskedLines(i.opts))
           /\ j <= Len(i.jobs) => i.jobs[j].cmd.prng = AskedLines(i.opts)[j - Len(Before(i))]
           /\ j = Len(i.jobs) + 1 => Head(i.pending).prng = AskedLines(i.opts)[j - Len(Before(i))]
<1> DEFINE r == Ran(i)
           p == i.pending
           b == Before(i)
           a == Present(i)
           s == SubSeq(a, 1, i.d)
           q == j - Len(b)
<1>1. r \in Seq(Commands) /\ Len(r) = Len(i.jobs) /\ p \in Seq(Commands) /\ Len(p) \in Nat
  BY RanIs, PendingTyped
<1>2. b \in Seq(Commands) /\ a \in Seq(Commands) /\ Len(a) = Len(AskedLines(i.opts)) /\ Len(a) \in Nat
  BY BeforeIs
<1>3. i.d \in Nat /\ i.d <= Len(a) /\ Tally(r, p, b, s)
  <2>1. i.d \in Nat
    BY DEF Invocation
  <2>2. i.d <= Len(a)
    <3>1. i.pc = "parallel" => i.d <= Len(a)
      BY DEF Running
    <3>2. i.pc = "wait" => i.d = Len(a)
      BY DEF Running
    <3> HIDE DEF a
    <3> QED BY <1>2, <3>1, <3>2
  <2>3. r \o p = b \o s
    BY DEF Running
  <2> QED BY <2>1, <2>2, <2>3 DEF Tally
<1>4. s \in Seq(Commands) /\ Len(s) = i.d /\ \A x \in 1..i.d : s[x] = a[x]
  <2>1. \A x \in 1..i.d : a[x] \in Commands
    BY <1>2, <1>3, ElementOfSeq
  <2> HIDE DEF a
  <2> QED BY <1>2, <1>3, <2>1, SubSeqProperties
<1>5. \A x \in 1..Len(a) : a[x].prng = AskedLines(i.opts)[x]
  BY <1>2 DEF Present, Block, Command
<1>6. \A x \in 1..Len(i.jobs) : r[x] = i.jobs[x].cmd
  BY DEF Ran
<1>7. j \in 1..(Len(r) + Len(p)) /\ j > Len(b)
  BY <1>1
<1> HIDE DEF r, p, b, a, s
<1>8. Len(r) \in Nat /\ Len(b) \in Nat /\ Len(r) + Len(p) = Len(b) + i.d
  <2>1. Len(r \o p) = Len(r) + Len(p)
    BY <1>1, ConcatProperties
  <2>2. Len(b \o s) = Len(b) + Len(s)
    BY <1>2, <1>4, ConcatProperties
  <2>3. Len(r \o p) = Len(b \o s)
    BY <1>3 DEF Tally
  <2> QED BY <1>1, <1>2, <1>4, <2>1, <2>2, <2>3
<1>9. q \in 1..i.d /\ q \in 1..Len(a) /\ j \in 1..(Len(b) + Len(s)) /\ ~(j <= Len(b))
  BY <1>1, <1>2, <1>3, <1>4, <1>7, <1>8, SMTT(30)
<1>10. (b \o s)[j] = a[q]
  <2>1. (b \o s)[j] = s[q]
    BY <1>2, <1>4, <1>9, ConcatProperties
  <2> QED BY <1>4, <1>9, <2>1
<1>11. (r \o p)[j] = a[q]
  BY <1>3, <1>10 DEF Tally
<1>12. j <= Len(r) => r[j] = a[q]
  BY <1>1, <1>7, <1>11, ConcatProperties
<1>13. j = Len(r) + 1 => Head(p) = a[q]
  <2> SUFFICES ASSUME j = Len(r) + 1 PROVE Head(p) = a[q]
    OBVIOUS
  <2>1. ~(j <= Len(r)) /\ j - Len(r) = 1 /\ p # <<>>
    BY <1>1, <1>7, <1>8
  <2>2. (r \o p)[j] = p[1]
    BY <1>1, <1>7, <2>1, ConcatProperties
  <2>3. Head(p) = p[1]
    BY <1>1, <2>1
  <2> QED BY <1>11, <2>2, <2>3
<1>14. j <= Len(i.jobs) => j \in 1..Len(i.jobs)
  BY <1>1, <1>7, <1>8
<1> QED BY <1>1, <1>2, <1>5, <1>6, <1>9, <1>12, <1>13, <1>14 DEF b, p

LEMMA WholeFiles ==
    ASSUME AtOnce = 1, TypeOK, Obedient, ReportsWhole, NEW n \in Runs
    PROVE  /\ (\E o \in Options : Start(n, o)) => ReportsWhole'
           /\ TruncateInfo(n) \/ List(n) \/ Grep(n) => ReportsWhole'
           /\ Open(n) \/ ReadLine(n) \/ WriteCommand(n) => ReportsWhole'
<1> DEFINE i == inv[n]
<1>1. i \in Invocation /\ Listing(i, info) /\ Current(i) /\ Whole(n, i, out)
  BY DEF TypeOK, Obedient, Obeys, ReportsWhole
<1>2. i.pc \notin Idle => \A m \in Runs : m # n => ~Active(m)
  BY DEF Obedient, Alone, Active, Idle
<1>3. Consistent(i) /\ Writing(i, cmds) /\ Running(i)
  BY DEF TypeOK, Obedient, Obeys
<1>4. ASSUME NEW o \in Options, Start(n, o)
      PROVE  ReportsWhole'
  <2> DEFINE x == [i EXCEPT !.pc = "truncate", !.opts = o]
  <2>1. i.pc = "new" /\ Becomes(n, x)
    BY <1>4 DEF Start
  <2>2. x.pc = "truncate" /\ x.jobs = <<>> /\ Len(x.jobs) = 0
    BY <1>1, <2>1 DEF Invocation, Listing
  <2> HIDE DEF x, i
  <2>3. Current(x) /\ Whole(n, x, out')
    BY <2>2 DEF Current, Whole
  <2> QED BY <1>4, <2>1, <2>3, StartsAlone, OneWhole
<1>5. ASSUME NEW x, Becomes(n, x), out' = out, i.pc \notin Idle \cup {"parallel", "wait"},
             x.pc \notin {"parallel", "wait"}, x.jobs = i.jobs, x.opts = i.opts
      PROVE  ReportsWhole'
  <2>1. Current(x) /\ Whole(n, x, out')
    <3> HIDE DEF i
    <3> QED BY <1>1, <1>5, QuietWhole
  <2> QED BY <1>2, <1>5, <2>1, OneWhole
<1>6. ASSUME TruncateInfo(n) \/ List(n) \/ Grep(n)
      PROVE  ReportsWhole'
  <2>1. CASE TruncateInfo(n)
    <3> DEFINE x == [i EXCEPT !.pc = IF i.opts.args = <<>> THEN "list" ELSE "grep"]
    <3>1. i.pc = "truncate" /\ Becomes(n, x) /\ out' = out
      BY <2>1 DEF TruncateInfo
    <3>2. x.pc \in {"list", "grep"} /\ x.jobs = i.jobs /\ x.opts = i.opts
      BY <1>1 DEF Invocation
    <3> HIDE DEF x, i
    <3> QED BY <1>5, <3>1, <3>2 DEF Idle
  <2>2. CASE List(n)
    <3> DEFINE x == [i EXCEPT !.pc = "open"]
    <3>1. i.pc = "list" /\ Becomes(n, x) /\ out' = out
      BY <2>2 DEF List
    <3>2. x.pc = "open" /\ x.jobs = i.jobs /\ x.opts = i.opts
      BY <1>1 DEF Invocation
    <3> HIDE DEF x, i
    <3> QED BY <1>5, <3>1, <3>2 DEF Idle
  <2>3. CASE Grep(n)
    <3> DEFINE args == i.opts.args
               found == Matching(args[i.k])
               pc == IF found = <<>> THEN "ended" ELSE IF i.k < Len(args) THEN "grep" ELSE "open"
               k == IF i.k < Len(args) THEN i.k + 1 ELSE 1
               x == [i EXCEPT !.pc = pc, !.k = k]
    <3>1. i.pc = "grep" /\ Becomes(n, x) /\ out' = out
      BY <2>3 DEF Grep
    <3>2. pc \in {"ended", "grep", "open"}
      OBVIOUS
    <3> HIDE DEF pc, k
    <3>3. x.pc = pc /\ x.jobs = i.jobs /\ x.opts = i.opts
      BY <1>1 DEF Invocation
    <3> HIDE DEF x, i
    <3> QED BY <1>5, <3>1, <3>2, <3>3 DEF Idle
  <2> QED BY <1>6, <2>1, <2>2, <2>3
<1>7. ASSUME Open(n) \/ ReadLine(n) \/ WriteCommand(n)
      PROVE  ReportsWhole'
  <2>1. CASE Open(n)
    <3> DEFINE x == [i EXCEPT !.pc = "read", !.r = 0, !.w = 0]
    <3>1. i.pc = "open" /\ Becomes(n, x) /\ out' = out
      BY <2>1 DEF Open
    <3>2. x.pc = "read" /\ x.jobs = i.jobs /\ x.opts = i.opts
      BY <1>1 DEF Invocation
    <3> HIDE DEF x, i
    <3> QED BY <1>5, <3>1, <3>2 DEF Idle
  <2>2. CASE ReadLine(n) /\ i.r < Len(info)
    <3> DEFINE x == [i EXCEPT !.pc = "write", !.line = info[i.r + 1], !.r = i.r + 1]
    <3>1. i.pc = "read" /\ Becomes(n, x) /\ out' = out
      BY <2>2 DEF ReadLine
    <3>2. x.pc = "write" /\ x.jobs = i.jobs /\ x.opts = i.opts
      BY <1>1 DEF Invocation
    <3> HIDE DEF x, i
    <3> QED BY <1>5, <3>1, <3>2 DEF Idle
  <2>3. CASE ReadLine(n) /\ ~(i.r < Len(info))
    <3> DEFINE x == [i EXCEPT !.pc = "parallel", !.d = 0]
    <3>1. i.pc = "read" /\ Becomes(n, x) /\ out' = out
      BY <2>3 DEF ReadLine
    <3>2. x.pc = "parallel" /\ x.jobs = i.jobs /\ x.opts = i.opts /\ x.k = i.k
      BY <1>1 DEF Invocation
    <3> HIDE DEF x, i
    <3>3. ~i.opts.dry => Len(Before(x)) <= Len(x.jobs)
      <4> SUFFICES ASSUME ~i.opts.dry PROVE Len(Before(x)) <= Len(x.jobs)
        OBVIOUS
      <4>1. Before(x) = Ran(i)
        BY <1>3, <3>1, <3>2 DEF Running, Before
      <4>2. Len(Ran(i)) = Len(i.jobs) /\ Len(i.jobs) \in Nat
        BY <1>1, RanIs DEF Invocation
      <4> QED BY <3>2, <4>1, <4>2
    <3>4. \A j \in 1..Len(x.jobs) : x.jobs[j].status # "running"
      BY <1>1, <3>1, <3>2 DEF Current
    <3>5. Current(x) /\ Whole(n, x, out')
      BY <1>1, <3>1, <3>2, <3>3, <3>4, QuietWhole DEF Current
    <3> QED BY <1>2, <3>1, <3>5, OneWhole DEF Idle
  <2>4. CASE WriteCommand(n)
    <3> DEFINE x == [i EXCEPT !.pc = "read", !.w = i.w + 1, !.line = Hole]
    <3>1. i.pc = "write" /\ Becomes(n, x) /\ out' = out
      BY <2>4 DEF WriteCommand
    <3>2. x.pc = "read" /\ x.jobs = i.jobs /\ x.opts = i.opts
      BY <1>1 DEF Invocation
    <3> HIDE DEF x, i
    <3> QED BY <1>5, <3>1, <3>2 DEF Idle
  <2> QED BY <1>7, <2>1, <2>2, <2>3, <2>4
<1> QED BY <1>4, <1>6, <1>7

LEMMA UnfinishedFinite ==
    ASSUME NEW n, inv[n].jobs \in Seq(Job)
    PROVE  /\ IsFiniteSet(Unfinished(n)) /\ Cardinality(Unfinished(n)) \in Nat
           /\ Cardinality(Unfinished(n)) < 1 => Unfinished(n) = {}
<1>1. Len(inv[n].jobs) \in Nat
  OBVIOUS
<1>2. IsFiniteSet(1..Len(inv[n].jobs))
  BY <1>1, FS_Interval
<1>3. IsFiniteSet(Unfinished(n))
  BY <1>2, FS_Subset DEF Unfinished
<1> DEFINE U == Unfinished(n)
<1> HIDE DEF U
<1>4. IsFiniteSet(U)
  BY <1>3 DEF U
<1>5. Cardinality(U) \in Nat /\ (Cardinality(U) < 1 => U = {})
  BY <1>4, FS_CardinalityType, FS_EmptySet
<1> QED BY <1>3, <1>5 DEF U

(* A new job is the last for its file, and the others that are under way      *)
(* write other files.                                                         *)
LEMMA WholeStart ==
    ASSUME AtOnce = 1, TypeOK, Obedient, ReportsWhole, NEW n \in Runs, StartJob(n)
    PROVE  ReportsWhole'
<1> DEFINE i == inv[n]
           p == i.pending
           c == Head(p)
           old == i.jobs
           job == [cmd |-> c, wrote |-> 0, status |-> "running"]
           jobs == IF i.opts.dry THEN old ELSE Append(old, job)
           x == [i EXCEPT !.pending = Tail(p), !.jobs = jobs]
<1>1. i \in Invocation /\ Consistent(i) /\ Current(i) /\ Whole(n, i, out) /\ Running(i)
      /\ out \in [Files -> Reported]
  BY DEF TypeOK, Obedient, Obeys, ReportsWhole, Reported
<1>2. /\ i.pc \in {"parallel", "wait"} /\ p # <<>>
      /\ Becomes(n, [i EXCEPT !.pending = Tail(@),
             !.jobs = IF i.opts.dry \/ c = Hole THEN @ ELSE Append(@, job)])
      /\ out' = IF i.opts.dry \/ c = Hole THEN out ELSE [out EXCEPT ![File(c)] = <<>>]
      /\ i.opts.dry \/ c = Hole \/ Cardinality(Unfinished(n)) < i.opts.jobs
  BY DEF StartJob, OpenOutput
<1>3. \A m \in Runs : m # n => ~Active(m)
  BY <1>2 DEF Obedient, Alone, Active
<1>4. p \in Seq(Commands) /\ Len(p) \in Nat
  BY <1>1, <1>2, PendingTyped
<1>5. c \in Commands /\ c # Hole /\ File(c) \in Files /\ Len(p) # 0
  <2> HIDE DEF p
  <2> QED BY <1>2, <1>4, HeadTailProperties, CommandsTyped, EmptySeq
<1>6. Becomes(n, x)
  BY <1>2, <1>5
<1>7. x.pc = i.pc /\ x.opts = i.opts /\ x.k = i.k /\ x.jobs = jobs
  BY <1>1 DEF Invocation
<1>8. Before(x) = Before(i) /\ Separate(x) = Separate(i)
  BY <1>7 DEF Before, Separate
<1>9. old \in Seq(Job) /\ Len(old) \in Nat /\ i.k \in 1..Len(i.opts.seeds)
  BY <1>1, <1>2 DEF Invocation, Consistent
<1>10. Len(Before(i)) \in Nat
  BY <1>1, <1>9, BeforeIs
<1>11. CASE i.opts.dry
  <2>1. x.jobs = i.jobs /\ out' = out
    BY <1>2, <1>7, <1>11
  <2> HIDE DEF x, i
  <2>2. Whole(n, x, out')
    BY <1>1, <1>7, <2>1, QuietWhole
  <2>3. Current(x)
    BY <1>1, <1>2, <1>7, <1>8, <1>11, <2>1 DEF Current
  <2> QED BY <1>3, <1>6, <2>2, <2>3, OneWhole DEF i
<1>12. CASE ~i.opts.dry
  <2> DEFINE J == Len(old) + 1
             b == Len(Before(i))
             lines == AskedLines(i.opts)
  <2>1. jobs = Append(old, job) /\ out' = [out EXCEPT ![File(c)] = <<>>]
    BY <1>2, <1>5, <1>12
  <2>2. job.cmd = c /\ job.wrote = 0 /\ job \in Job
    BY <1>5, BoundsAssumption DEF Job
  <2>3. b <= Len(old)
    BY <1>1, <1>2, <1>12 DEF Current
  <2>4. Separate(i) => \A j \in 1..Len(old) : old[j].status = "running" =>
           LastFor(old, j) /\ j > b /\ File(old[j].cmd) # File(c)
    <3> SUFFICES ASSUME Separate(i), NEW j \in 1..Len(old), old[j].status = "running"
                 PROVE  LastFor(old, j) /\ j > b /\ File(old[j].cmd) # File(c)
      OBVIOUS
    <3>1. LastFor(old, j) /\ j > b
      BY <1>1 DEF Current
    <3>2. j \in Unfinished(n)
      BY DEF Unfinished
    <3>3. i.opts.jobs # 1
      BY <1>2, <1>5, <1>9, <1>12, <3>2, UnfinishedFinite
    <3>4. IsInjective(lines)
      BY <3>3 DEF Separate
    <3>5. j \in 1..(Len(old) + Len(p)) /\ J \in 1..(Len(old) + Len(p)) /\ J > b /\ j <= Len(old)
      <4> DEFINE lo == Len(old)
                 lp == Len(p)
      <4>1. lo \in Nat /\ lp \in Nat /\ lp # 0 /\ b \in Nat /\ b <= lo /\ j \in 1..lo
        BY <1>4, <1>5, <1>9, <1>10, <2>3
      <4>2. J = lo + 1
        OBVIOUS
      <4> HIDE DEF lo, lp, b, J
      <4>3. j \in 1..(lo + lp) /\ J \in 1..(lo + lp) /\ J > b /\ j <= lo
        BY <4>1, <4>2
      <4> QED BY <4>3 DEF lo, lp
    <3>6. j - b \in 1..Len(lines) /\ old[j].cmd.prng = lines[j - b]
      BY <1>1, <1>2, <1>9, <1>12, <3>1, <3>5, PresentJobs
    <3>7. J - b \in 1..Len(lines) /\ c.prng = lines[J - b]
      BY <1>1, <1>2, <1>9, <1>12, <3>5, PresentJobs
    <3>8. j - b # J - b
      BY <1>9, <1>10
    <3>9. lines[j - b] # lines[J - b]
      <4> DEFINE y == j - b
                 z == J - b
      <4>1. y \in 1..Len(lines) /\ z \in 1..Len(lines) /\ y # z
        BY <3>6, <3>7, <3>8
      <4>2. DOMAIN lines = 1..Len(lines)
        <5>1. lines \in Seq(Prngs)
          BY <1>1, LinesAre DEF Invocation
        <5> HIDE DEF lines
        <5> QED BY <5>1
      <4> HIDE DEF y, z, lines
      <4>3. lines[y] # lines[z]
        BY <3>4, <4>1, <4>2 DEF IsInjective
      <4> QED BY <4>3 DEF y, z
    <3>10. File(old[j].cmd).prng # File(c).prng
      BY <3>6, <3>7, <3>9 DEF File
    <3> QED BY <3>1, <3>10
  <2> HIDE DEF b, lines
  <2> DEFINE J0 == Len(jobs)
  <2>5. jobs \in Seq(Job) /\ J0 = J /\ jobs[J] = job /\ \A q \in 1..Len(old) : jobs[q] = old[q]
    <3> HIDE DEF jobs, job, old
    <3> QED BY <1>9, <2>1, <2>2, AppendProperties
  <2>6. \A j \in 1..J : j = J \/ j \in 1..Len(old)
    BY <1>9
  <2>7. LastFor(jobs, J)
    <3>1. J + 1..J0 = {}
      BY <1>9, <2>5
    <3> QED BY <3>1 DEF LastFor
  <2>8. \A j \in 1..Len(old) :
           LastFor(jobs, j) <=> LastFor(old, j) /\ File(c) # File(old[j].cmd)
    <3> SUFFICES ASSUME NEW j \in 1..Len(old)
                 PROVE  LastFor(jobs, j) <=> LastFor(old, j) /\ File(c) # File(old[j].cmd)
      OBVIOUS
    <3>1. j + 1..J0 = (j + 1..Len(old)) \cup {J}
      <4> DEFINE lo == Len(old)
      <4>1. lo \in Nat /\ j \in 1..lo /\ J0 = lo + 1 /\ J = lo + 1
        BY <1>9, <2>5
      <4> HIDE DEF lo, J, J0
      <4>2. j + 1..J0 = (j + 1..lo) \cup {J}
        BY <4>1
      <4> QED BY <4>2 DEF lo
    <3>2. j + 1..Len(old) \subseteq 1..Len(old)
      BY <1>9
    <3> HIDE DEF jobs, job, J, J0
    <3> QED BY <2>2, <2>5, <3>1, <3>2 DEF LastFor, J0
  <2> HIDE DEF jobs, job, J, x, c
  <2>9. Current(x)
    <3>1. Len(Before(x)) <= Len(x.jobs)
      BY <1>7, <1>8, <1>9, <1>10, <2>3, <2>5 DEF J, b
    <3>2. ASSUME NEW j \in 1..J, jobs[j].status = "running"
          PROVE  j > b /\ (Separate(i) => LastFor(jobs, j))
      <4>1. CASE j = J
        <5>1. J > b
          BY <1>9, <1>10, <2>3 DEF J, b
        <5> QED BY <2>7, <4>1, <5>1
      <4>2. CASE j # J
        <5>1. j \in 1..Len(old) /\ jobs[j] = old[j] /\ old[j].status = "running"
          BY <2>5, <2>6, <3>2, <4>2
        <5>2. j > b
          BY <1>1, <5>1 DEF Current, b
        <5> QED BY <2>4, <2>8, <5>1, <5>2
      <4> QED BY <4>1, <4>2
    <3> QED BY <1>2, <1>7, <1>8, <2>5, <3>1, <3>2 DEF Current, b
  <2>10. Whole(n, x, out')
    <3> SUFFICES ASSUME Separate(i), NEW j \in 1..J, LastFor(jobs, j)
                 PROVE  out'[File(jobs[j].cmd)] = Written(n, jobs, j)
      BY <1>7, <1>8, <2>5 DEF Whole
    <3>1. CASE j = J
      <4>1. jobs[j].cmd = c /\ jobs[j].wrote = 0
        BY <2>2, <2>5, <3>1
      <4>2. out'[File(c)] = <<>>
        BY <1>1, <1>5, <2>1
      <4>3. Written(n, jobs, j) = <<>>
        <5>1. 1..0 = {}
          OBVIOUS
        <5> QED BY <4>1, <5>1 DEF Written
      <4> QED BY <4>1, <4>2, <4>3
    <3>2. CASE j # J
      <4>1. j \in 1..Len(old) /\ jobs[j] = old[j] /\ LastFor(old, j) /\ File(c) # File(old[j].cmd)
        BY <2>5, <2>6, <2>8, <3>2
      <4>2. out[File(old[j].cmd)] = Written(n, old, j)
        BY <1>1, <4>1 DEF Whole
      <4>3. File(old[j].cmd) \in Files
        <5>1. old[j] \in Job
          BY <1>9, <4>1, ElementOfSeq
        <5> QED BY <5>1, CommandsTyped DEF Job
      <4>4. out'[File(old[j].cmd)] = out[File(old[j].cmd)]
        BY <1>1, <2>1, <4>1, <4>3
      <4>5. Written(n, jobs, j) = Written(n, old, j)
        BY <4>1 DEF Written
      <4> QED BY <4>1, <4>2, <4>4, <4>5
    <3> QED BY <3>1, <3>2
  <2> QED BY <1>3, <1>6, <2>9, <2>10, OneWhole
<1> QED BY <1>11, <1>12

LEMMA WholeParallel ==
    ASSUME TypeOK, Obedient, ReportsWhole, NEW n \in Runs, ReadCommand(n) \/ ParallelEnds(n) \/ End(n)
    PROVE  ReportsWhole'
<1> DEFINE i == inv[n]
<1>1. i \in Invocation /\ Current(i) /\ Whole(n, i, out)
  BY DEF TypeOK, ReportsWhole
<1>2. (\A m \in Runs : m # n => ~Active(m)) /\ out' = out
  BY DEF Obedient, Alone, Active, ReadCommand, ParallelEnds, End
<1>3. CASE ReadCommand(n)
  <2> DEFINE more == i.d < Len(cmds)
             pending == IF more THEN Append(i.pending, cmds[i.d + 1]) ELSE i.pending
             d == IF more THEN i.d + 1 ELSE i.d
             pc == IF more THEN i.pc ELSE "wait"
             x == [i EXCEPT !.pc = pc, !.d = d, !.pending = pending]
  <2>1. i.pc = "parallel"
        /\ Becomes(n, IF more THEN [i EXCEPT !.d = @ + 1, !.pending = Append(@, cmds[i.d + 1])]
                      ELSE [i EXCEPT !.pc = "wait"])
    BY <1>3 DEF ReadCommand
  <2>2. Becomes(n, x)
    <3>1. CASE more
      <4>1. [i EXCEPT !.d = @ + 1, !.pending = Append(@, cmds[i.d + 1])] = x
        BY <1>1, <3>1 DEF Invocation
      <4> QED BY <2>1, <3>1, <4>1
    <3>2. CASE ~more
      <4>1. [i EXCEPT !.pc = "wait"] = x
        BY <1>1, <3>2 DEF Invocation
      <4> QED BY <2>1, <3>2, <4>1
    <3> QED BY <3>1, <3>2
  <2>3. pc \in {"parallel", "wait"}
    BY <2>1
  <2> HIDE DEF pc, d, pending, more
  <2>4. x.pc = pc /\ x.k = i.k /\ x.jobs = i.jobs /\ x.opts = i.opts
    BY <1>1 DEF Invocation
  <2> HIDE DEF x, i
  <2>5. Current(x)
    BY <1>1, <2>1, <2>3, <2>4 DEF Current, Before, Separate
  <2>6. Whole(n, x, out')
    BY <1>1, <1>2, <2>4, QuietWhole
  <2> QED BY <1>2, <2>2, <2>5, <2>6, OneWhole
<1>4. CASE ParallelEnds(n)
  <2> DEFINE more == i.k < Len(i.opts.seeds)
             pc == IF more THEN "open" ELSE "success"
             k == IF more THEN i.k + 1 ELSE i.k
             x == [i EXCEPT !.pc = pc, !.k = k]
  <2>1. Unfinished(n) = {}
        /\ Becomes(n, IF more THEN [i EXCEPT !.pc = "open", !.k = @ + 1] ELSE [i EXCEPT !.pc = "success"])
    BY <1>4 DEF ParallelEnds
  <2>2. Becomes(n, x)
    <3>1. CASE more
      BY <2>1, <3>1
    <3>2. CASE ~more
      <4>1. [i EXCEPT !.pc = "success"] = x
        BY <1>1, <3>2 DEF Invocation
      <4> QED BY <2>1, <3>2, <4>1
    <3> QED BY <3>1, <3>2
  <2>3. pc \in {"open", "success"}
    OBVIOUS
  <2>4. \A j \in 1..Len(i.jobs) : i.jobs[j].status # "running"
    BY <2>1 DEF Unfinished
  <2> HIDE DEF pc, k, more
  <2>5. x.pc = pc /\ x.jobs = i.jobs /\ x.opts = i.opts
    BY <1>1 DEF Invocation
  <2> HIDE DEF x, i
  <2>6. Current(x)
    BY <2>3, <2>4, <2>5 DEF Current
  <2>7. Whole(n, x, out')
    BY <1>1, <1>2, <2>5, QuietWhole
  <2> QED BY <1>2, <2>2, <2>6, <2>7, OneWhole
<1>5. CASE End(n)
  <2> DEFINE x == [NotStarted EXCEPT !.pc = "ended", !.opts = i.opts]
  <2>1. Becomes(n, x)
    BY <1>5 DEF End
  <2>2. x.pc = "ended" /\ Len(x.jobs) = 0
    BY DEF NotStarted
  <2> HIDE DEF x, i
  <2>3. Current(x) /\ Whole(n, x, out')
    BY <2>2 DEF Current, Whole
  <2> QED BY <1>2, <2>1, <2>3, OneWhole
<1> QED BY <1>3, <1>4, <1>5

(* A report goes behind those that the job wrote before.                      *)
LEMMA WholeReport ==
    ASSUME TypeOK, Obedient, ReportsWhole, NEW n \in Runs, NEW j \in 1..Len(inv[n].jobs),
           Report(n, j) \/ EndJob(n, j)
    PROVE  ReportsWhole'
<1> DEFINE i == inv[n]
           old == i.jobs
           job == old[j]
           f == File(job.cmd)
           wrote == IF Report(n, j) THEN job.wrote + 1 ELSE job.wrote
           status == IF Report(n, j) /\ wrote # Reports THEN job.status ELSE "ended"
           new == [job EXCEPT !.wrote = wrote, !.status = status]
           jobs == [old EXCEPT ![j] = new]
           x == [i EXCEPT !.jobs = jobs]
           report == [run |-> n, job |-> j, tf |-> job.cmd.tf]
<1>1. i \in Invocation /\ Current(i) /\ Whole(n, i, out) /\ out \in [Files -> Reported]
      /\ Consistent(i) /\ Listing(i, info)
  BY DEF TypeOK, ReportsWhole, Obedient, Obeys, Reported
<1>2. old \in Seq(Job) /\ job \in Job /\ old # <<>> /\ job.status = "running"
  <2>1. i.jobs \in Seq(Job)
    BY <1>1 DEF Invocation
  <2>2. i.jobs[j] \in Job
    BY <2>1, ElementOfSeq
  <2> QED BY <2>1, <2>2 DEF Report, EndJob, Unfinished
<1>3. i.pc \in {"parallel", "wait"}
  BY <1>1, <1>2 DEF Current
<1>4. \A m \in Runs : m # n => ~Active(m)
  BY <1>3 DEF Obedient, Alone, Active
<1>5. job.wrote \in Nat /\ job.wrote < Reports /\ job.cmd \in Commands /\ f \in Files
  BY <1>1, <1>2, BoundsAssumption, CommandsTyped DEF Consistent, Job
<1>6. Becomes(n, x)
  <2>1. CASE Report(n, j)
    <3>1. Becomes(n, [i EXCEPT !.jobs[j] = [job EXCEPT !.wrote = @ + 1,
                         !.status = IF job.wrote + 1 = Reports THEN "ended" ELSE @]])
      BY <2>1 DEF Report
    <3>2. [job EXCEPT !.wrote = @ + 1, !.status = IF job.wrote + 1 = Reports THEN "ended" ELSE @] = new
      BY <1>2, <2>1 DEF Job
    <3> HIDE DEF new
    <3>3. [i EXCEPT !.jobs[j] = new] = x
      BY <1>1 DEF Invocation
    <3> QED BY <3>1, <3>2, <3>3
  <2>2. CASE ~Report(n, j)
    <3>1. Becomes(n, [i EXCEPT !.jobs[j].status = "ended"])
      BY <2>2 DEF EndJob
    <3>2. [job EXCEPT !.status = "ended"] = new
      BY <1>2, <2>2 DEF Job
    <3> HIDE DEF new
    <3>3. [i EXCEPT !.jobs[j].status = "ended"] = x
      BY <1>1, <3>2 DEF Invocation
    <3> QED BY <3>1, <3>3
  <2> QED BY <2>1, <2>2
<1>7. new \in Job /\ new.cmd = job.cmd /\ new.wrote = wrote
  <2>1. wrote \in 0..Reports /\ status \in {"running", "ended"}
    BY <1>2, <1>5, BoundsAssumption
  <2> HIDE DEF wrote, status, job
  <2> QED BY <1>2, <2>1 DEF Job
<1> HIDE DEF new
<1>8. jobs \in Seq(Job) /\ Len(jobs) = Len(old) /\ \A q \in 1..Len(old) : jobs[q] = IF q = j THEN new ELSE old[q]
  BY <1>2, <1>7, ExceptSeq
<1> HIDE DEF jobs
<1>9. x.pc = i.pc /\ x.k = i.k /\ x.opts = i.opts /\ x.jobs = jobs
  BY <1>1 DEF Invocation
<1>10. Before(x) = Before(i) /\ Separate(x) = Separate(i)
  BY <1>9 DEF Before, Separate
<1>11. \A q \in 1..Len(old) : jobs[q].cmd = old[q].cmd /\ (jobs[q].status = "running" => old[q].status = "running")
  BY <1>2, <1>7, <1>8
<1>12. \A q \in 1..Len(old) : LastFor(jobs, q) <=> LastFor(old, q)
  <2> SUFFICES ASSUME NEW q \in 1..Len(old) PROVE LastFor(jobs, q) <=> LastFor(old, q)
    OBVIOUS
  <2>1. q+1..Len(old) \subseteq 1..Len(old)
    <3>1. Len(old) \in Nat
      BY <1>2
    <3> QED BY <3>1
  <2> HIDE DEF old
  <2> QED BY <1>8, <1>11, <2>1 DEF LastFor
<1>13. Current(x)
  <2>1. \A q \in 1..Len(jobs) : jobs[q].status = "running" =>
           q > Len(Before(i)) /\ (Separate(i) => LastFor(jobs, q))
    <3> HIDE DEF x, job
    <3> QED BY <1>1, <1>8, <1>11, <1>12 DEF Current
  <2> HIDE DEF x, i
  <2> QED BY <1>1, <1>3, <1>8, <1>9, <1>10, <2>1 DEF Current
<1>14. Whole(n, x, out')
  <2> SUFFICES ASSUME Separate(i), NEW q \in 1..Len(old), LastFor(old, q)
               PROVE  out'[File(old[q].cmd)] = Written(n, jobs, q)
    BY <1>8, <1>9, <1>10, <1>11, <1>12 DEF Whole
  <2>1. LastFor(old, j) /\ out[File(old[q].cmd)] = Written(n, old, q) /\ out[f] = Written(n, old, j)
    BY <1>1, <1>2 DEF Current, Whole
  <2>2. out' = IF Report(n, j) THEN [out EXCEPT ![f] = Put(@, job.wrote + 1, report)] ELSE out
    BY DEF Report, EndJob
  <2>3. CASE q = j
    <3>1. Written(n, jobs, j) = [y \in 1..wrote |-> report]
      BY <1>7, <1>8 DEF Written
    <3>2. out[f] = [y \in 1..job.wrote |-> report]
      BY <2>1 DEF Written
    <3>3. CASE ~Report(n, j)
      BY <2>2, <2>3, <3>1, <3>2, <3>3
    <3>4. CASE Report(n, j)
      <4> DEFINE w == job.wrote
                 s == [y \in 1..w |-> report]
      <4>1. out'[f] = Put(s, w + 1, report)
        BY <1>1, <1>5, <2>2, <3>2, <3>4
      <4>2. w \in Nat
        BY <1>5
      <4> HIDE DEF report, w
      <4>3. Len(s) = w
        BY <4>2
      <4>4. \A y \in 1..(w + 1) : (y <= w => y \in 1..w) /\ (y <= w \/ y = w + 1)
        BY <4>2
      <4>5. Put(s, w + 1, report) = [y \in 1..(w + 1) |-> report]
        BY <4>2, <4>3, <4>4 DEF Put
      <4>6. wrote = w + 1
        BY <3>4 DEF w
      <4> QED BY <2>3, <3>1, <4>1, <4>5, <4>6
    <3> QED BY <3>3, <3>4
  <2>4. CASE q # j
    <3>1. File(old[q].cmd) # f
      <4>1. Len(old) \in Nat
        BY <1>2
      <4>2. q < j => j \in q+1..Len(old)
        BY <4>1
      <4>3. ~(q < j) => q \in j+1..Len(old)
        BY <2>4, <4>1
      <4> HIDE DEF old
      <4> QED BY <2>1, <4>2, <4>3 DEF LastFor
    <3>2. File(old[q].cmd) \in Files
      <4>1. old[q] \in Job
        BY <1>2, ElementOfSeq
      <4> QED BY <4>1, CommandsTyped DEF Job
    <3>3. out'[File(old[q].cmd)] = out[File(old[q].cmd)]
      <4> HIDE DEF f, report, job
      <4> QED BY <1>1, <2>2, <3>1, <3>2
    <3>4. Written(n, jobs, q) = Written(n, old, q)
      BY <1>8, <2>4 DEF Written
    <3> QED BY <2>1, <3>3, <3>4
  <2> QED BY <2>3, <2>4
<1> HIDE DEF x
<1> QED BY <1>4, <1>6, <1>13, <1>14, OneWhole

LEMMA ReportsWholeAlways == AtOnce = 1 => (Spec => []ReportsWhole)
<1> SUFFICES ASSUME AtOnce = 1 PROVE Spec => []ReportsWhole
  OBVIOUS
<1>1. Init => ReportsWhole
  <2> SUFFICES ASSUME Init, NEW n \in Runs PROVE Current(inv[n]) /\ Whole(n, inv[n], out)
    BY DEF ReportsWhole
  <2>1. inv[n].pc = "new" /\ Len(inv[n].jobs) = 0
    BY DEF Init, NotStarted
  <2> QED BY <2>1 DEF Current, Whole
<1>2. TypeOK /\ Obedient /\ ReportsWhole /\ [Next]_vars => ReportsWhole'
  <2> SUFFICES ASSUME TypeOK, Obedient, ReportsWhole, [Next]_vars PROVE ReportsWhole'
    OBVIOUS
  <2>1. ASSUME UNCHANGED vars PROVE ReportsWhole'
    <3>1. inv' = inv /\ out' = out
      BY <2>1 DEF vars
    <3> QED BY <3>1 DEF ReportsWhole
  <2>2. CASE Done
    BY <2>1, <2>2 DEF Done
  <2>3. ASSUME NEW n \in Runs,
               (\E o \in Options : Start(n, o)) \/ Step(n) \/ End(n)
                 \/ \E j \in 1..Len(inv[n].jobs) : Report(n, j) \/ EndJob(n, j)
        PROVE  ReportsWhole'
    BY <2>3, WholeFiles, WholeStart, WholeParallel, WholeReport DEF Step
  <2> QED BY <2>1, <2>2, <2>3 DEF Next
<1> QED BY <1>1, <1>2, ObedientAlways, PTL DEF Spec

(* While invocations do not overlap, what the last job for a file wrote is    *)
(* all that is in it, from the first report on, unless a PRNG was given twice *)
(* and two jobs ran at a time.                                                *)
THEOREM ReportsAreWhole == AtOnce = 1 => (Spec => []WholeReports)
<1> SUFFICES ASSUME AtOnce = 1 PROVE Spec => []WholeReports
  OBVIOUS
<1>1. ReportsWhole => WholeReports
  BY DEF ReportsWhole, WholeReports, Whole, Separate, Written
<1> QED BY <1>1, ReportsWholeAlways, PTL

-----------------------------------------------------------------------------
(* Folding                                                                    *)

(* The commands are those of the options.                                     *)
OfOptions(o, c) == c.tlmax = o.tlmax /\ c.tf = o.tf

OwnCommands(i) ==
    /\ \A q \in 1..Len(i.pending) : OfOptions(i.opts, i.pending[q])
    /\ \A j \in 1..Len(i.jobs) : OfOptions(i.opts, i.jobs[j].cmd)

OnlyMake == \A n \in Runs : inv[n].pc # "new" => inv[n].opts \in MakeTargets

TargetReport(f, report) ==
    report \in Output /\ \E t \in MakeTargets : t.tlmax = f.tlmax /\ t.tf = report.tf

FromMake(files) == \A f \in Files : \A q \in 1..Len(files[f]) : TargetReport(f, files[f][q])

Folded ==
    /\ \A n \in Runs : OwnCommands(inv[n])
    /\ OnlyMake => FromMake(out)

LEMMA OneFolds ==
    ASSUME TypeOK, Folded, NEW n \in Runs, NEW i, Becomes(n, i), OwnCommands(i),
           inv[n].pc # "new" => i.pc # "new" /\ i.opts = inv[n].opts,
           OnlyMake => FromMake(out')
    PROVE  Folded'
<1>1. inv'[n] = i /\ \A m \in Runs : m # n => inv'[m] = inv[m]
  BY DEF TypeOK, Becomes
<1>2. \A m \in Runs : OwnCommands(inv'[m])
  BY <1>1 DEF Folded
<1>3. OnlyMake' => OnlyMake
  BY <1>1 DEF OnlyMake
<1>4. OnlyMake' => FromMake(out')
  BY <1>3
<1> QED BY <1>2, <1>4 DEF Folded

(* The commands pending and the jobs are those there were.                    *)
LEMMA SameFolds ==
    ASSUME TypeOK, Folded, NEW n \in Runs, NEW i, Becomes(n, i), UNCHANGED out, i.pc # "new",
           i.opts = inv[n].opts, i.pending = inv[n].pending, i.jobs = inv[n].jobs
    PROVE  Folded'
<1>1. OwnCommands(i)
  BY DEF Folded, OwnCommands
<1> QED BY <1>1, OneFolds DEF Folded

LEMMA FoldedScript ==
    ASSUME TypeOK, Obedient, Folded, NEW n \in Runs
    PROVE  /\ (\E o \in Options : Start(n, o)) \/ End(n) => Folded'
           /\ TruncateInfo(n) \/ List(n) \/ Grep(n) => Folded'
           /\ Open(n) \/ ReadLine(n) \/ WriteCommand(n) \/ ParallelEnds(n) => Folded'
<1> DEFINE i == inv[n]
<1>1. i \in Invocation /\ Listing(i, info) /\ (OnlyMake => FromMake(out))
  BY DEF TypeOK, Obedient, Obeys, Folded
<1>2. ASSUME NEW o \in Options, Start(n, o)
      PROVE  Folded'
  <2> DEFINE x == [i EXCEPT !.pc = "truncate", !.opts = o]
  <2>1. i.pc = "new" /\ Becomes(n, x) /\ out' = out
    BY <1>2 DEF Start
  <2>2. Len(x.jobs) = 0 /\ Len(x.pending) = 0
    BY <1>1, <2>1 DEF Invocation, Listing
  <2> HIDE DEF x
  <2>3. OwnCommands(x)
    BY <2>2 DEF OwnCommands
  <2> QED BY <1>1, <2>1, <2>3, OneFolds
<1>3. ASSUME End(n)
      PROVE  Folded'
  <2> DEFINE x == [NotStarted EXCEPT !.pc = "ended", !.opts = i.opts]
  <2>1. Becomes(n, x) /\ out' = out
    BY <1>3 DEF End
  <2>2. x.pc = "ended" /\ x.opts = i.opts /\ Len(x.jobs) = 0 /\ Len(x.pending) = 0
    BY DEF NotStarted
  <2> HIDE DEF x
  <2>3. OwnCommands(x)
    BY <2>2 DEF OwnCommands
  <2> QED BY <1>1, <2>1, <2>2, <2>3, OneFolds
<1>4. ASSUME NEW x, Becomes(n, x), out' = out, x.pc # "new", x.opts = i.opts, x.pending = i.pending,
             x.jobs = i.jobs
      PROVE  Folded'
  BY <1>4, SameFolds
<1>5. CASE TruncateInfo(n)
  <2> DEFINE x == [i EXCEPT !.pc = IF i.opts.args = <<>> THEN "list" ELSE "grep"]
  <2>1. Becomes(n, x) /\ out' = out
    BY <1>5 DEF TruncateInfo
  <2>2. x.pc # "new" /\ x.opts = i.opts /\ x.pending = i.pending /\ x.jobs = i.jobs
    BY <1>1 DEF Invocation
  <2> HIDE DEF x, i
  <2> QED BY <1>4, <2>1, <2>2
<1>6. CASE List(n)
  <2> DEFINE x == [i EXCEPT !.pc = "open"]
  <2>1. Becomes(n, x) /\ out' = out
    BY <1>6 DEF List
  <2>2. x.pc # "new" /\ x.opts = i.opts /\ x.pending = i.pending /\ x.jobs = i.jobs
    BY <1>1 DEF Invocation
  <2> HIDE DEF x, i
  <2> QED BY <1>4, <2>1, <2>2
<1>7. CASE Grep(n)
  <2> DEFINE args == i.opts.args
             found == Matching(args[i.k])
             pc == IF found = <<>> THEN "ended" ELSE IF i.k < Len(args) THEN "grep" ELSE "open"
             k == IF i.k < Len(args) THEN i.k + 1 ELSE 1
             x == [i EXCEPT !.pc = pc, !.k = k]
  <2>1. Becomes(n, x) /\ out' = out
    BY <1>7 DEF Grep
  <2>2. pc # "new"
    OBVIOUS
  <2> HIDE DEF pc, k
  <2>3. x.pc # "new" /\ x.opts = i.opts /\ x.pending = i.pending /\ x.jobs = i.jobs
    BY <1>1, <2>2 DEF Invocation
  <2> HIDE DEF x, i
  <2> QED BY <1>4, <2>1, <2>3
<1>8. CASE Open(n)
  <2> DEFINE x == [i EXCEPT !.pc = "read", !.r = 0, !.w = 0]
  <2>1. Becomes(n, x) /\ out' = out
    BY <1>8 DEF Open
  <2>2. x.pc # "new" /\ x.opts = i.opts /\ x.pending = i.pending /\ x.jobs = i.jobs
    BY <1>1 DEF Invocation
  <2> HIDE DEF x, i
  <2> QED BY <1>4, <2>1, <2>2
<1>9. CASE ReadLine(n)
  <2> DEFINE x == [i EXCEPT !.pc = "write", !.line = info[i.r + 1], !.r = i.r + 1]
             y == [i EXCEPT !.pc = "parallel", !.d = 0]
  <2>1. (Becomes(n, x) \/ Becomes(n, y)) /\ out' = out
    BY <1>9 DEF ReadLine
  <2>2. x.pc # "new" /\ x.opts = i.opts /\ x.pending = i.pending /\ x.jobs = i.jobs
    BY <1>1 DEF Invocation
  <2>3. y.pc # "new" /\ y.opts = i.opts /\ y.pending = i.pending /\ y.jobs = i.jobs
    BY <1>1 DEF Invocation
  <2> HIDE DEF x, y, i
  <2> QED BY <1>4, <2>1, <2>2, <2>3
<1>10. CASE WriteCommand(n)
  <2> DEFINE x == [i EXCEPT !.pc = "read", !.w = i.w + 1, !.line = Hole]
  <2>1. Becomes(n, x) /\ out' = out
    BY <1>10 DEF WriteCommand
  <2>2. x.pc # "new" /\ x.opts = i.opts /\ x.pending = i.pending /\ x.jobs = i.jobs
    BY <1>1 DEF Invocation
  <2> HIDE DEF x, i
  <2> QED BY <1>4, <2>1, <2>2
<1>11. CASE ParallelEnds(n)
  <2> DEFINE x == [i EXCEPT !.pc = "open", !.k = i.k + 1]
             y == [i EXCEPT !.pc = "success"]
  <2>1. (Becomes(n, x) \/ Becomes(n, y)) /\ out' = out
    BY <1>11 DEF ParallelEnds
  <2>2. x.pc # "new" /\ x.opts = i.opts /\ x.pending = i.pending /\ x.jobs = i.jobs
    BY <1>1 DEF Invocation
  <2>3. y.pc # "new" /\ y.opts = i.opts /\ y.pending = i.pending /\ y.jobs = i.jobs
    BY <1>1 DEF Invocation
  <2> HIDE DEF x, y, i
  <2> QED BY <1>4, <2>1, <2>2, <2>3
<1> QED BY <1>2, <1>3, <1>5, <1>6, <1>7, <1>8, <1>9, <1>10, <1>11

(* parallel reads the commands of the invocation that runs it.                *)
LEMMA FoldedReadCommand ==
    ASSUME TypeOK, Obedient, Folded, NEW n \in Runs, ReadCommand(n)
    PROVE  Folded'
<1> DEFINE i == inv[n]
           p == i.pending
           c == cmds[i.d + 1]
<1>1. i \in Invocation /\ Consistent(i) /\ Writing(i, cmds) /\ OwnCommands(i) /\ (OnlyMake => FromMake(out))
      /\ i.pc = "parallel" /\ out' = out /\ i.d \in Nat /\ p \in Seq(Commands \cup {Hole})
      /\ Len(p) \in Nat
  BY DEF TypeOK, Obedient, Obeys, Folded, ReadCommand, Invocation
<1>2. CASE i.d < Len(cmds)
  <2> DEFINE x == [i EXCEPT !.d = i.d + 1, !.pending = Append(p, c)]
  <2>1. Becomes(n, x)
    BY <1>2 DEF ReadCommand
  <2>2. cmds = Present(i) /\ i.k \in 1..Len(i.opts.seeds)
    BY <1>1 DEF Writing, Consistent
  <2>3. Present(i) \in Seq(Commands) /\ i.d < Len(Present(i)) /\ Len(Present(i)) = Len(AskedLines(i.opts))
        /\ Len(Present(i)) \in Nat
    BY <1>1, <1>2, <2>2, BeforeIs
  <2>4. c \in Commands
    BY <1>1, <2>2, <2>3, OneMoreOf
  <2>5. OfOptions(i.opts, c)
    <3>1. i.d + 1 \in 1..Len(AskedLines(i.opts))
      BY <1>1, <2>3
    <3> HIDE DEF i
    <3> QED BY <2>2, <3>1 DEF OfOptions, Present, Block, Command
  <2>6. x.pc = "parallel" /\ x.opts = i.opts /\ x.jobs = i.jobs /\ x.pending = Append(p, c)
    BY <1>1 DEF Invocation
  <2> HIDE DEF x, c
  <2>7. \A q \in 1..Len(Append(p, c)) : OfOptions(i.opts, Append(p, c)[q])
    <3>1. \A q \in 1..Len(p) : OfOptions(i.opts, p[q])
      BY <1>1 DEF OwnCommands
    <3> HIDE DEF p, i
    <3>2. Len(Append(p, c)) = Len(p) + 1 /\ Append(p, c)[Len(p) + 1] = c
      BY <1>1, <2>4, AppendProperties
    <3>3. \A q \in 1..Len(p) : Append(p, c)[q] = p[q]
      BY <1>1, <2>4, AppendProperties
    <3>4. \A q \in 1..(Len(p) + 1) : q = Len(p) + 1 \/ q \in 1..Len(p)
      BY <1>1
    <3> QED BY <2>5, <3>1, <3>2, <3>3, <3>4
  <2> HIDE DEF p, i
  <2>8. OwnCommands(x)
    BY <1>1, <2>6, <2>7 DEF OwnCommands
  <2> QED BY <1>1, <2>1, <2>6, <2>8, OneFolds DEF i
<1>3. CASE ~(i.d < Len(cmds))
  <2> DEFINE x == [i EXCEPT !.pc = "wait"]
  <2>1. Becomes(n, x)
    BY <1>3 DEF ReadCommand
  <2>2. x.pc # "new" /\ x.opts = i.opts /\ x.pending = i.pending /\ x.jobs = i.jobs
    BY <1>1 DEF Invocation
  <2> HIDE DEF x
  <2> QED BY <1>1, <2>1, <2>2, SameFolds
<1> QED BY <1>2, <1>3

LEMMA FoldedStart ==
    ASSUME TypeOK, Obedient, Folded, NEW n \in Runs, StartJob(n)
    PROVE  Folded'
<1> DEFINE i == inv[n]
           p == i.pending
           c == Head(p)
           old == i.jobs
           job == [cmd |-> c, wrote |-> 0, status |-> "running"]
           none == i.opts.dry \/ c = Hole
           jobs == IF none THEN old ELSE Append(old, job)
           x == [i EXCEPT !.pending = Tail(p), !.jobs = jobs]
<1>1. /\ i.pc \in {"parallel", "wait"} /\ p # <<>>
      /\ Becomes(n, [i EXCEPT !.pending = Tail(@), !.jobs = IF none THEN @ ELSE Append(@, job)])
      /\ out' = IF none THEN out ELSE [out EXCEPT ![File(c)] = <<>>]
  BY DEF StartJob, OpenOutput
<1>2. i \in Invocation /\ OwnCommands(i) /\ (OnlyMake => FromMake(out)) /\ out \in [Files -> Reported]
      /\ Running(i) /\ old \in Seq(Job)
  BY DEF TypeOK, Folded, Reported, Obedient, Obeys, Invocation
<1>3. p \in Seq(Commands) /\ Len(p) \in Nat
  BY <1>1, <1>2, PendingTyped
<1>4. Becomes(n, x)
  BY <1>1
<1>5. x.pc # "new" /\ x.opts = i.opts /\ x.pending = Tail(p) /\ x.jobs = jobs
  BY <1>1, <1>2 DEF Invocation
<1>6. /\ c \in Commands /\ OfOptions(i.opts, c)
      /\ \A q \in 1..Len(Tail(p)) : OfOptions(i.opts, Tail(p)[q])
  <2>1. \A q \in 1..Len(p) : OfOptions(i.opts, p[q])
    BY <1>2 DEF OwnCommands
  <2> HIDE DEF p, i
  <2>2. c \in Commands /\ c = p[1] /\ 1 \in 1..Len(p)
    BY <1>1, <1>3, EmptySeq
  <2>3. Len(Tail(p)) = Len(p) - 1 /\ \A q \in 1..Len(Tail(p)) : Tail(p)[q] = p[q + 1]
    BY <1>1, <1>3, HeadTailProperties
  <2>4. \A q \in 1..(Len(p) - 1) : q + 1 \in 1..Len(p)
    BY <1>3
  <2> QED BY <2>1, <2>2, <2>3, <2>4
<1>7. \A j \in 1..Len(jobs) : OfOptions(i.opts, jobs[j].cmd)
  <2>1. \A j \in 1..Len(old) : OfOptions(i.opts, old[j].cmd)
    BY <1>2 DEF OwnCommands
  <2>2. job \in Job /\ job.cmd = c
    BY <1>6, BoundsAssumption DEF Job
  <2> DEFINE a == Append(old, job)
  <2> HIDE DEF i, old, job, c
  <2>3. Len(old) \in Nat /\ Len(a) = Len(old) + 1 /\ a[Len(old) + 1] = job
    BY <1>2, <2>2, AppendProperties
  <2>4. \A j \in 1..Len(old) : a[j] = old[j]
    BY <1>2, <2>2, AppendProperties
  <2>5. \A j \in 1..(Len(old) + 1) : j = Len(old) + 1 \/ j \in 1..Len(old)
    BY <2>3
  <2>6. \A j \in 1..Len(a) : OfOptions(i.opts, a[j].cmd)
    <3> HIDE DEF a
    <3> QED BY <1>6, <2>1, <2>2, <2>3, <2>4, <2>5
  <2> QED BY <2>1, <2>6
<1>8. ASSUME OnlyMake PROVE FromMake(out')
  <2>1. File(c) \in Files /\ Len(<<>>) = 0
    BY <1>6, CommandsTyped
  <2> HIDE DEF c, none
  <2> QED BY <1>1, <1>2, <1>8, <2>1 DEF FromMake
<1> HIDE DEF jobs, x, p, c, old, i
<1>9. OwnCommands(x)
  BY <1>5, <1>6, <1>7 DEF OwnCommands
<1> QED BY <1>4, <1>5, <1>8, <1>9, OneFolds DEF i

(* The targets of the Makefile take the PRNGs from the list, each once.       *)
LEMMA MakeIsSeparate ==
    ASSUME NEW i, i.opts \in MakeTargets
    PROVE  Separate(i)
<1>1. i.opts.args = <<>>
  BY DEF MakeTargets, Target
<1> QED BY <1>1, ListedAssumption DEF Separate, AskedLines

LEMMA FoldedReport ==
    ASSUME TypeOK, Obedient, ReportsWhole, Folded, NEW n \in Runs, NEW j \in 1..Len(inv[n].jobs),
           Report(n, j) \/ EndJob(n, j)
    PROVE  Folded'
<1> DEFINE i == inv[n]
           old == i.jobs
           job == old[j]
           f == File(job.cmd)
           report == [run |-> n, job |-> j, tf |-> job.cmd.tf]
           wrote == job.wrote + 1
           new == IF Report(n, j)
                  THEN [job EXCEPT !.wrote = @ + 1, !.status = IF wrote = Reports THEN "ended" ELSE @]
                  ELSE [job EXCEPT !.status = "ended"]
           jobs == [old EXCEPT ![j] = new]
           x == [i EXCEPT !.jobs = jobs]
<1>1. /\ i \in Invocation /\ OwnCommands(i) /\ (OnlyMake => FromMake(out)) /\ out \in [Files -> Reported]
      /\ Current(i) /\ Whole(n, i, out) /\ old \in Seq(Job)
  BY DEF TypeOK, Folded, Reported, ReportsWhole, Invocation
<1>2. job \in Job /\ job.status = "running"
  <2>1. i.jobs[j] \in Job
    BY <1>1, ElementOfSeq
  <2> QED BY <2>1 DEF Report, EndJob, Unfinished
<1>3. Becomes(n, x)
  <2>1. CASE Report(n, j)
    <3>1. Becomes(n, [i EXCEPT !.jobs[j] = new])
      BY <2>1 DEF Report
    <3> HIDE DEF new
    <3>2. [i EXCEPT !.jobs[j] = new] = x
      BY <1>1 DEF Invocation
    <3> QED BY <3>1, <3>2
  <2>2. CASE ~Report(n, j)
    <3>1. Becomes(n, [i EXCEPT !.jobs[j].status = "ended"])
      BY <2>2 DEF EndJob
    <3>2. [i EXCEPT !.jobs[j].status = "ended"] = x
      BY <1>1, <2>2 DEF Invocation
    <3> QED BY <3>1, <3>2
  <2> QED BY <2>1, <2>2
<1>4. new.cmd = job.cmd
  BY <1>2 DEF Job
<1> HIDE DEF new
<1>5. x.pc = i.pc /\ x.opts = i.opts /\ x.pending = i.pending /\ x.jobs = jobs
  BY <1>1 DEF Invocation
<1> HIDE DEF x
<1>6. OwnCommands(x)
  <2>1. Len(jobs) = Len(old) /\ \A q \in 1..Len(old) : jobs[q] = IF q = j THEN new ELSE old[q]
    <3>1. \A q \in DOMAIN old : jobs[q] = IF q = j THEN new ELSE old[q]
      OBVIOUS
    <3>2. DOMAIN old = 1..Len(old) /\ Len(old) \in Nat
      BY <1>1
    <3>3. DOMAIN jobs = 1..Len(old)
      BY <3>2
    <3> HIDE DEF jobs
    <3>4. Len(jobs) = Len(old)
      BY <3>2, <3>3, LenProperties
    <3> QED BY <3>1, <3>2, <3>4
  <2>2. \A q \in 1..Len(jobs) : OfOptions(i.opts, jobs[q].cmd)
    <3> HIDE DEF jobs
    <3> QED BY <1>1, <1>4, <2>1 DEF OwnCommands
  <2> HIDE DEF jobs, i
  <2> QED BY <1>1, <1>5, <2>2 DEF OwnCommands
<1>7. i.pc # "new"
  BY <1>1, <1>2 DEF Current
<1>8. ASSUME OnlyMake PROVE FromMake(out')
  <2>1. i.opts \in MakeTargets /\ Separate(i)
    BY <1>7, <1>8, MakeIsSeparate DEF OnlyMake
  <2>2. out[f] = Written(n, old, j)
    BY <1>1, <1>2, <2>1 DEF Current, Whole
  <2>3. f \in Files /\ job.cmd.tf \in Nat /\ job.wrote \in Nat /\ job.cmd \in Commands
    BY <1>2, BoundsAssumption, CommandsTyped DEF Job
  <2>4. TargetReport(f, report)
    <3>1. OfOptions(i.opts, job.cmd)
      BY <1>1 DEF OwnCommands
    <3>2. f.tlmax = i.opts.tlmax /\ report.tf = i.opts.tf
      BY <3>1 DEF OfOptions, File
    <3>3. report \in Output
      <4>1. j \in Nat \ {0}
        BY <1>1
      <4> QED BY <2>3, <4>1 DEF Output
    <3> HIDE DEF f, report
    <3> QED BY <2>1, <3>2, <3>3 DEF TargetReport
  <2>5. CASE ~Report(n, j)
    BY <1>1, <1>8, <2>5 DEF EndJob
  <2>6. CASE Report(n, j)
    <3> DEFINE s == out[f]
    <3>1. out' = [out EXCEPT ![f] = Put(s, job.wrote + 1, report)]
      BY <1>1, <2>3, <2>6 DEF Report
    <3>2. s \in Seq(Output \cup {Hole}) /\ Len(s) = job.wrote
      <4>1. s \in Seq(Output \cup {Hole})
        BY <1>1, <2>3 DEF Reported
      <4>2. DOMAIN s = 1..job.wrote
        BY <2>2 DEF Written
      <4> HIDE DEF s, job
      <4> QED BY <2>3, <4>1, <4>2, LenProperties
    <3>3. \A q \in 1..Len(s) : TargetReport(f, s[q])
      BY <1>1, <1>8, <2>3 DEF FromMake
    <3> DEFINE t == Put(s, job.wrote + 1, report)
               w == job.wrote
    <3> HIDE DEF s, report, f
    <3>4. \A q \in 1..Len(t) : TargetReport(f, t[q])
      <4>1. w \in Nat /\ Len(s) = w
        BY <2>3, <3>2
      <4> HIDE DEF w, job
      <4>2. t = [q \in 1..(w + 1) |-> IF q = w + 1 THEN report ELSE IF q <= w THEN s[q] ELSE Hole]
        BY <4>1 DEF Put, w
      <4> HIDE DEF t
      <4>3. Len(t) = w + 1
        BY <4>1, <4>2
      <4>4. \A q \in 1..(w + 1) : q = w + 1 \/ (q # w + 1 /\ q <= w /\ q \in 1..w)
        BY <4>1
      <4>5. \A q \in 1..(w + 1) : t[q] = IF q = w + 1 THEN report ELSE IF q <= w THEN s[q] ELSE Hole
        BY <4>2
      <4> QED BY <2>4, <3>3, <4>1, <4>3, <4>4, <4>5
    <3> HIDE DEF t, job
    <3> QED BY <1>1, <1>8, <2>3, <3>1, <3>4 DEF FromMake, t
  <2> QED BY <2>5, <2>6
<1> HIDE DEF jobs
<1> QED BY <1>3, <1>5, <1>6, <1>7, <1>8, OneFolds

LEMMA FoldedAlways == AtOnce = 1 => (Spec => []Folded)
<1> SUFFICES ASSUME AtOnce = 1 PROVE Spec => []Folded
  OBVIOUS
<1>1. Init => Folded
  <2> SUFFICES ASSUME Init PROVE Folded
    OBVIOUS
  <2>1. \A n \in Runs : Len(inv[n].jobs) = 0 /\ Len(inv[n].pending) = 0
    BY DEF Init, NotStarted
  <2>2. FromMake(out)
    <3>1. Len(<<>>) = 0
      OBVIOUS
    <3> QED BY <3>1 DEF Init, FromMake
  <2> QED BY <2>1, <2>2 DEF Folded, OwnCommands
<1>2. TypeOK /\ Obedient /\ ReportsWhole /\ Folded /\ [Next]_vars => Folded'
  <2> SUFFICES ASSUME TypeOK, Obedient, ReportsWhole, Folded, [Next]_vars PROVE Folded'
    OBVIOUS
  <2>1. ASSUME UNCHANGED vars PROVE Folded'
    <3>1. inv' = inv /\ out' = out
      BY <2>1 DEF vars
    <3> QED BY <3>1 DEF Folded, OnlyMake
  <2>2. CASE Done
    BY <2>1, <2>2 DEF Done
  <2>3. ASSUME NEW n \in Runs,
               (\E o \in Options : Start(n, o)) \/ Step(n) \/ End(n)
                 \/ \E j \in 1..Len(inv[n].jobs) : Report(n, j) \/ EndJob(n, j)
        PROVE  Folded'
    BY <2>3, FoldedScript, FoldedReadCommand, FoldedStart, FoldedReport DEF Step
  <2> QED BY <2>1, <2>2, <2>3 DEF Next
<1> QED BY <1>1, <1>2, ObedientAlways, ReportsWholeAlways, PTL DEF Spec

(* While the script is used through the Makefile only, and by one invocation  *)
(* at a time, the -tf that it prints is the one with which every output that  *)
(* it classifies was made.                                                    *)
THEOREM FoldedAsPrinted == AtOnce = 1 => (Spec => []FoldingAsPrinted)
<1> SUFFICES ASSUME AtOnce = 1 PROVE Spec => []FoldingAsPrinted
  OBVIOUS
<1>1. Folded => FoldingAsPrinted
  <2> SUFFICES ASSUME Folded, OnlyMake, NEW n \in Runs, Succeeds(n), NEW f \in Files,
                      NEW q \in 1..Len(out[f]), f.tlmax = inv[n].opts.tlmax
               PROVE  out[f][q].tf = inv[n].opts.tf
    BY DEF FoldingAsPrinted, OnlyMake
  <2>1. inv[n].opts \in MakeTargets
    BY DEF OnlyMake, Succeeds
  <2>2. PICK t \in MakeTargets : t.tlmax = f.tlmax /\ t.tf = out[f][q].tf
    BY DEF Folded, FromMake, TargetReport
  <2>3. \A o \in MakeTargets : (o.tlmax = "256MB" /\ o.tf = 1) \/ (o.tlmax = "512GB" /\ o.tf = 2)
    BY DEF MakeTargets, Target
  <2> QED BY <2>1, <2>2, <2>3
<1> QED BY <1>1, FoldedAlways, PTL
-----------------------------------------------------------------------------
(* Whose reports they are                                                     *)

Own(n, i, f, report) ==
    /\ report.run = n /\ report.tf = i.opts.tf
    /\ report.job \in 1..Len(i.jobs) /\ File(i.jobs[report.job].cmd) = f

(* The file of a job, which perhaps still runs, beside others on that file.   *)
OwnFile(n, i, f, s, j) ==
    /\ \A q \in 1..Len(s) : s[q] # Hole => Own(n, i, f, s[q])
    /\ LastFor(i.jobs, j) => \A q \in 1..i.jobs[j].wrote : q <= Len(s) /\ s[q] # Hole

OwnFiles(n, i, files) ==
    \A j \in 1..Len(i.jobs) : OwnFile(n, i, File(i.jobs[j].cmd), files[File(i.jobs[j].cmd)], j)

Owned == \A n \in Runs : OwnFiles(n, inv[n], out)

LEMMA OneOwns ==
    ASSUME TypeOK, Obedient, Owned, NEW n \in Runs, \A m \in Runs : m # n => ~Active(m),
           NEW i, Becomes(n, i), OwnFiles(n, i, out')
    PROVE  Owned'
<1>1. inv'[n] = i /\ \A m \in Runs : m # n => inv'[m] = inv[m] /\ inv[m].pc \in Idle
  BY DEF TypeOK, Becomes, Active, Idle
<1>2. ASSUME NEW m \in Runs
      PROVE  OwnFiles(m, inv'[m], out')
  <2>1. CASE m = n
    BY <1>1, <2>1
  <2>2. CASE m # n
    <3>1. inv'[m].jobs = <<>>
      BY <1>1, <2>2 DEF Obedient, Obeys, Listing, Idle
    <3>2. Len(inv'[m].jobs) = 0
      BY <3>1
    <3> QED BY <3>2 DEF OwnFiles
  <2> QED BY <2>1, <2>2
<1> QED BY <1>2 DEF Owned

(* A file whose jobs are the same is as much their own as before.             *)
LEMMA SameOwns ==
    ASSUME NEW n, NEW i, NEW x, x.jobs = i.jobs, x.opts = i.opts, NEW files,
           OwnFiles(n, i, files)
    PROVE  OwnFiles(n, x, files)
<1>1. ASSUME NEW f, NEW r, Own(n, i, f, r)
      PROVE  Own(n, x, f, r)
  BY <1>1 DEF Own
<1>2. ASSUME NEW f, NEW s, NEW j, OwnFile(n, i, f, s, j)
      PROVE  OwnFile(n, x, f, s, j)
  BY <1>1, <1>2 DEF OwnFile
<1> QED BY <1>2 DEF OwnFiles

(* Neither the jobs nor the outputs change before parallel and after it.      *)
LEMMA Aside ==
    ASSUME TypeOK, NEW n \in Runs,
           \/ TruncateInfo(n) \/ List(n) \/ Grep(n) \/ Open(n) \/ ReadLine(n)
           \/ WriteCommand(n) \/ ReadCommand(n) \/ ParallelEnds(n)
    PROVE  /\ out' = out /\ Becomes(n, inv'[n]) /\ inv[n].pc \notin {"new", "ended"}
           /\ inv'[n].jobs = inv[n].jobs /\ inv'[n].opts = inv[n].opts
<1>1. inv[n] \in Invocation /\ \A x : Becomes(n, x) => inv'[n] = x
  BY DEF TypeOK, Becomes
<1>2. CASE TruncateInfo(n)
  BY <1>1, <1>2 DEF TruncateInfo, Invocation
<1>3. CASE List(n)
  BY <1>1, <1>3 DEF List, Invocation
<1>4. CASE Grep(n)
  BY <1>1, <1>4 DEF Grep, Invocation
<1>5. CASE Open(n)
  BY <1>1, <1>5 DEF Open, Invocation
<1>6. CASE ReadLine(n)
  BY <1>1, <1>6 DEF ReadLine, Invocation
<1>7. CASE WriteCommand(n)
  BY <1>1, <1>7 DEF WriteCommand, Invocation
<1>8. CASE ReadCommand(n)
  BY <1>1, <1>8 DEF ReadCommand, Invocation
<1>9. CASE ParallelEnds(n)
  BY <1>1, <1>9 DEF ParallelEnds, Invocation
<1> QED BY <1>2, <1>3, <1>4, <1>5, <1>6, <1>7, <1>8, <1>9

LEMMA OwnedScript ==
    ASSUME AtOnce = 1, TypeOK, Obedient, Owned, NEW n \in Runs,
           \/ TruncateInfo(n) \/ List(n) \/ Grep(n) \/ Open(n) \/ ReadLine(n)
           \/ WriteCommand(n) \/ ReadCommand(n) \/ ParallelEnds(n) \/ End(n)
           \/ \E o \in Options : Start(n, o)
    PROVE  Owned'
<1>1. ASSUME NEW o \in Options, Start(n, o)
      PROVE  Owned'
  <2> DEFINE x == [inv[n] EXCEPT !.pc = "truncate", !.opts = o]
  <2>1. inv[n].pc = "new" /\ Becomes(n, x) /\ inv[n] \in Invocation /\ Listing(inv[n], info)
    <3>1. inv[n].pc = "new" /\ Becomes(n, x)
      BY <1>1 DEF Start
    <3>2. inv[n] \in Invocation /\ Listing(inv[n], info)
      BY DEF TypeOK, Obedient, Obeys
    <3> HIDE DEF x
    <3> QED BY <3>1, <3>2
  <2>2. Len(x.jobs) = 0
    BY <2>1 DEF Invocation, Listing
  <2>3. \A m \in Runs : m # n => ~Active(m)
    BY <1>1, StartsAlone
  <2> HIDE DEF x
  <2>4. OwnFiles(n, x, out')
    BY <2>2 DEF OwnFiles
  <2> QED BY <2>1, <2>3, <2>4, OneOwns
<1>2. CASE End(n)
  <2> DEFINE x == [NotStarted EXCEPT !.pc = "ended", !.opts = inv[n].opts]
  <2>1. Becomes(n, x) /\ \A m \in Runs : m # n => ~Active(m)
    BY <1>2 DEF End, Obedient, Alone, Active
  <2>2. Len(x.jobs) = 0
    BY DEF NotStarted
  <2> HIDE DEF x
  <2>3. OwnFiles(n, x, out')
    BY <2>2 DEF OwnFiles
  <2> QED BY <2>1, <2>3, OneOwns
<1>3. CASE \/ TruncateInfo(n) \/ List(n) \/ Grep(n) \/ Open(n) \/ ReadLine(n)
           \/ WriteCommand(n) \/ ReadCommand(n) \/ ParallelEnds(n)
  <2> DEFINE x == inv'[n]
  <2>1. /\ out' = out /\ Becomes(n, x) /\ inv[n].pc \notin {"new", "ended"}
        /\ x.jobs = inv[n].jobs /\ x.opts = inv[n].opts
    BY <1>3, Aside
  <2> HIDE DEF x
  <2>2. \A m \in Runs : m # n => ~Active(m)
    BY <2>1 DEF Obedient, Alone, Active
  <2>3. OwnFiles(n, x, out')
    <3>1. OwnFiles(n, inv[n], out)
      BY DEF Owned
    <3> QED BY <2>1, <3>1, SameOwns
  <2> QED BY <2>1, <2>2, <2>3, OneOwns
<1> QED BY <1>1, <1>2, <1>3

(* A new job empties its file, which may be that of a job that still runs.    *)
LEMMA OwnedStart ==
    ASSUME TypeOK, Obedient, Owned, NEW n \in Runs, StartJob(n)
    PROVE  Owned'
<1> DEFINE i == inv[n]
           p == i.pending
           c == Head(p)
           old == i.jobs
           job == [cmd |-> c, wrote |-> 0, status |-> "running"]
           none == i.opts.dry \/ c = Hole
           jobs == IF none THEN old ELSE Append(old, job)
           x == [i EXCEPT !.pending = Tail(p), !.jobs = jobs]
<1>1. /\ i.pc \in {"parallel", "wait"} /\ p # <<>>
      /\ Becomes(n, [i EXCEPT !.pending = Tail(@), !.jobs = IF none THEN @ ELSE Append(@, job)])
      /\ out' = IF none THEN out ELSE [out EXCEPT ![File(c)] = <<>>]
  BY DEF StartJob, OpenOutput
<1>2. /\ i \in Invocation /\ OwnFiles(n, i, out) /\ out \in [Files -> Reported]
      /\ Running(i) /\ old \in Seq(Job) /\ Len(old) \in Nat
  BY DEF TypeOK, Owned, Reported, Obedient, Obeys, Invocation
<1>3. Becomes(n, x) /\ \A m \in Runs : m # n => ~Active(m)
  BY <1>1 DEF Obedient, Alone, Active
<1>4. x.opts = i.opts /\ x.jobs = jobs
  BY <1>2 DEF Invocation
<1>5. CASE none
  <2>1. x.jobs = old /\ out' = out
    BY <1>1, <1>4, <1>5
  <2> HIDE DEF x, none
  <2>2. OwnFiles(n, x, out')
    BY <1>2, <1>4, <2>1, SameOwns
  <2> QED BY <1>3, <2>2, OneOwns
<1>6. CASE ~none
  <2> DEFINE J == Len(old) + 1
  <2>1. jobs = Append(old, job) /\ out' = [out EXCEPT ![File(c)] = <<>>]
    BY <1>1, <1>6
  <2>2. c \in Commands
    <3>1. p \in Seq(Commands) /\ Len(p) \in Nat
      BY <1>1, <1>2, PendingTyped
    <3> HIDE DEF p
    <3> QED BY <1>1, <3>1, HeadTailProperties
  <2>3. job.cmd = c /\ job.wrote = 0 /\ job \in Job
    BY <2>2, BoundsAssumption DEF Job
  <2>4. /\ Len(jobs) = J /\ jobs[J] = job /\ J \in Nat
        /\ \A q \in 1..Len(old) : jobs[q] = old[q]
    <3> HIDE DEF jobs, job, old
    <3> QED BY <1>2, <2>1, <2>3, AppendProperties
  <2>5. /\ \A j \in 1..J : j = J \/ (j \in 1..Len(old) /\ J \in j+1..J /\ j+1..Len(old) \subseteq j+1..J)
        /\ 1..Len(old) \subseteq 1..J
        /\ \A j \in 1..Len(old) : j+1..Len(old) \subseteq 1..Len(old)
    <3> DEFINE l == Len(old)
    <3>1. l \in Nat /\ J = l + 1
      BY <1>2
    <3> HIDE DEF l, J
    <3>2. /\ \A j \in 1..J : j = J \/ (j \in 1..l /\ J \in j+1..J /\ j+1..l \subseteq j+1..J)
          /\ 1..l \subseteq 1..J
          /\ \A j \in 1..l : j+1..l \subseteq 1..l
      BY <3>1
    <3> QED BY <3>2 DEF l
  <2>6. ASSUME NEW j \in 1..J
        PROVE  OwnFile(n, x, File(jobs[j].cmd), out'[File(jobs[j].cmd)], j)
    <3> DEFINE f == File(jobs[j].cmd)
    <3>1. CASE f = File(c)
      <4>1. out'[f] = <<>> /\ Len(<<>>) = 0
        BY <1>2, <2>1, <2>2, <3>1, CommandsTyped
      <4>2. LastFor(jobs, j) => jobs[j].wrote = 0
        <5>1. CASE j = J
          BY <2>3, <2>4, <5>1
        <5>2. CASE j # J
          <6>1. J \in j+1..Len(jobs) /\ File(jobs[J].cmd) = File(jobs[j].cmd)
            BY <2>3, <2>4, <2>5, <3>1, <5>2
          <6> HIDE DEF J, jobs
          <6> QED BY <6>1 DEF LastFor
        <5> QED BY <5>1, <5>2
      <4> HIDE DEF jobs, f, x
      <4> QED BY <1>4, <4>1, <4>2 DEF OwnFile, f
    <3>2. CASE f # File(c)
      <4>1. j \in 1..Len(old) /\ jobs[j] = old[j]
        BY <2>3, <2>4, <2>5, <3>2
      <4>2. f \in Files
        <5>1. old[j] \in Job
          BY <1>2, <4>1, ElementOfSeq
        <5> QED BY <4>1, <5>1, CommandsTyped DEF Job
      <4>3. out'[f] = out[f] /\ OwnFile(n, i, f, out[f], j)
        <5> HIDE DEF c, old, jobs
        <5> QED BY <1>2, <2>1, <3>2, <4>1, <4>2 DEF OwnFiles, old
      <4>4. LastFor(jobs, j) => LastFor(old, j)
        <5>1. /\ j+1..Len(old) \subseteq j+1..Len(jobs)
              /\ \A q \in j+1..Len(old) : jobs[q] = old[q]
          BY <2>4, <2>5, <4>1
        <5> HIDE DEF jobs, old
        <5> QED BY <4>1, <5>1 DEF LastFor
      <4>5. \A r : Own(n, i, f, r) => Own(n, x, f, r)
        <5> HIDE DEF x, jobs, f, J
        <5> QED BY <1>4, <2>4, <2>5 DEF Own
      <4> HIDE DEF x, jobs, f
      <4> QED BY <1>4, <4>1, <4>3, <4>4, <4>5 DEF OwnFile, f
    <3> QED BY <3>1, <3>2
  <2>7. OwnFiles(n, x, out')
    <3> HIDE DEF x, jobs, J
    <3> QED BY <1>4, <2>4, <2>6 DEF OwnFiles
  <2> HIDE DEF x, none
  <2> QED BY <1>3, <2>7, OneOwns
<1> QED BY <1>5, <1>6

(* A report goes behind those that the job wrote before, over whatever other  *)
(* jobs have written there.                                                   *)
LEMMA OwnedReport ==
    ASSUME TypeOK, Obedient, Folded, Owned, NEW n \in Runs, NEW j \in 1..Len(inv[n].jobs),
           Report(n, j) \/ EndJob(n, j)
    PROVE  Owned'
<1> DEFINE i == inv[n]
           old == i.jobs
           job == old[j]
           f == File(job.cmd)
           wrote == IF Report(n, j) THEN job.wrote + 1 ELSE job.wrote
           status == IF Report(n, j) /\ wrote # Reports THEN job.status ELSE "ended"
           new == [job EXCEPT !.wrote = wrote, !.status = status]
           jobs == [old EXCEPT ![j] = new]
           x == [i EXCEPT !.jobs = jobs]
           report == [run |-> n, job |-> j, tf |-> job.cmd.tf]
<1>1. /\ i \in Invocation /\ OwnFiles(n, i, out) /\ out \in [Files -> Reported]
      /\ OwnCommands(i) /\ Listing(i, info)
  BY DEF TypeOK, Owned, Folded, Obedient, Obeys, Reported
<1>2. old \in Seq(Job) /\ job \in Job /\ Len(old) \in Nat /\ job.status = "running"
  <2>1. i.jobs \in Seq(Job)
    BY <1>1 DEF Invocation
  <2>2. i.jobs[j] \in Job
    BY <2>1, ElementOfSeq
  <2> QED BY <2>1, <2>2 DEF Report, EndJob, Unfinished
<1>3. \A m \in Runs : m # n => ~Active(m)
  <2>1. i.jobs # <<>>
    BY <1>2
  <2>2. Active(n)
    BY <1>1, <2>1 DEF Active, Listing
  <2> QED BY <2>2 DEF Obedient, Alone
<1>4. job.wrote \in Nat /\ job.cmd \in Commands /\ f \in Files /\ job.cmd.tf \in Nat
  BY <1>2, BoundsAssumption, CommandsTyped DEF Job
<1>5. Becomes(n, x)
  <2>1. CASE Report(n, j)
    <3>1. Becomes(n, [i EXCEPT !.jobs[j] = [job EXCEPT !.wrote = @ + 1,
                         !.status = IF job.wrote + 1 = Reports THEN "ended" ELSE @]])
      BY <2>1 DEF Report
    <3>2. [job EXCEPT !.wrote = @ + 1, !.status = IF job.wrote + 1 = Reports THEN "ended" ELSE @] = new
      BY <1>2, <2>1 DEF Job
    <3> HIDE DEF new
    <3>3. [i EXCEPT !.jobs[j] = new] = x
      BY <1>1 DEF Invocation
    <3> QED BY <3>1, <3>2, <3>3
  <2>2. CASE ~Report(n, j)
    <3>1. Becomes(n, [i EXCEPT !.jobs[j].status = "ended"])
      BY <2>2 DEF EndJob
    <3>2. [job EXCEPT !.status = "ended"] = new
      BY <1>2, <2>2 DEF Job
    <3> HIDE DEF new
    <3>3. [i EXCEPT !.jobs[j].status = "ended"] = x
      BY <1>1, <3>2 DEF Invocation
    <3> QED BY <3>1, <3>3
  <2> QED BY <2>1, <2>2
<1>6. new.cmd = job.cmd /\ new.wrote = wrote
  BY <1>2 DEF Job
<1> HIDE DEF new
<1>7. Len(jobs) = Len(old) /\ \A q \in 1..Len(old) : jobs[q] = IF q = j THEN new ELSE old[q]
  <2>1. \A q \in DOMAIN old : jobs[q] = IF q = j THEN new ELSE old[q]
    OBVIOUS
  <2>2. DOMAIN old = 1..Len(old) /\ DOMAIN jobs = 1..Len(old)
    BY <1>2
  <2> HIDE DEF jobs
  <2> QED BY <1>2, <2>1, <2>2, LenProperties
<1> HIDE DEF jobs
<1>8. x.opts = i.opts /\ x.jobs = jobs
  BY <1>1 DEF Invocation
<1>9. \A q \in 1..Len(old) : jobs[q].cmd = old[q].cmd
  BY <1>6, <1>7
<1>10. ASSUME NEW g, NEW r, Own(n, i, g, r) PROVE Own(n, x, g, r)
  <2> HIDE DEF x
  <2> QED BY <1>7, <1>8, <1>9, <1>10 DEF Own
<1>11. \A q \in 1..Len(old) : LastFor(jobs, q) => LastFor(old, q)
  <2> SUFFICES ASSUME NEW q \in 1..Len(old) PROVE LastFor(jobs, q) => LastFor(old, q)
    OBVIOUS
  <2>1. q+1..Len(old) \subseteq 1..Len(old)
    BY <1>2
  <2> HIDE DEF old
  <2> QED BY <1>7, <1>9, <2>1 DEF LastFor
<1>12. Own(n, x, f, report) /\ report # Hole
  <2>1. report.tf = i.opts.tf
    BY <1>1 DEF OwnCommands, OfOptions
  <2>2. report \in Output
    <3>1. j \in Nat \ {0}
      BY <1>2
    <3> QED BY <1>4, <3>1 DEF Output
  <2>3. report.run = n /\ report.job = j
    OBVIOUS
  <2> HIDE DEF report, x
  <2> QED BY <1>7, <1>8, <1>9, <2>1, <2>2, <2>3, HoleAssumption DEF Own
<1>13. \A q \in 1..Len(old) : jobs[q].wrote = IF q = j THEN wrote ELSE old[q].wrote
  BY <1>6, <1>7
<1>14. \A q \in 1..Len(old) : OwnFile(n, i, File(old[q].cmd), out[File(old[q].cmd)], q)
  BY <1>1 DEF OwnFiles
<1> DEFINE s == out[f]
           w == job.wrote
           t == Put(s, w + 1, report)
<1>15. out' = IF Report(n, j) THEN [out EXCEPT ![f] = t] ELSE out
  BY DEF Report, EndJob
<1>16. s \in Seq(Output \cup {Hole}) /\ Len(s) \in Nat
  BY <1>1, <1>4 DEF Reported
<1>17. /\ Len(t) \in Nat /\ Len(s) <= Len(t) /\ w + 1 <= Len(t) /\ t[w + 1] = report
       /\ \A q \in 1..Len(t) : q = w + 1 \/ (q \in 1..Len(s) /\ t[q] = s[q]) \/ t[q] = Hole
       /\ \A q \in 1..Len(s) : q = w + 1 \/ t[q] = s[q]
  <2> DEFINE l == Len(s)
             m == IF w + 1 > l THEN w + 1 ELSE l
  <2>1. w \in Nat /\ l \in Nat
    BY <1>4, <1>16
  <2> HIDE DEF s, w, report
  <2>2. t = [q \in 1..m |-> IF q = w + 1 THEN report ELSE IF q <= l THEN s[q] ELSE Hole]
    BY DEF Put
  <2> HIDE DEF l, t
  <2>3. m \in Nat /\ l <= m /\ w + 1 <= m /\ w + 1 \in 1..m
    BY <2>1
  <2> HIDE DEF m
  <2>4. Len(t) = m /\ \A q \in 1..m : t[q] = IF q = w + 1 THEN report ELSE IF q <= l THEN s[q] ELSE Hole
    BY <2>2, <2>3
  <2>5. (\A q \in 1..l : q \in 1..m /\ q <= l) /\ \A q \in 1..m : q <= l => q \in 1..l
    BY <2>1, <2>3
  <2>6. \A q \in 1..m : q = w + 1 \/ (q \in 1..l /\ t[q] = s[q]) \/ t[q] = Hole
    BY <2>4, <2>5
  <2>7. \A q \in 1..l : q = w + 1 \/ t[q] = s[q]
    BY <2>4, <2>5
  <2> QED BY <2>3, <2>4, <2>6, <2>7 DEF l
<1>18. ASSUME NEW q \in 1..Len(old)
       PROVE  OwnFile(n, x, File(old[q].cmd), out'[File(old[q].cmd)], q)
  <2> DEFINE g == File(old[q].cmd)
  <2>1. g \in Files
    <3>1. old[q] \in Job
      BY <1>2, ElementOfSeq
    <3> QED BY <3>1, CommandsTyped DEF Job
  <2>2. OwnFile(n, i, g, out[g], q) /\ (LastFor(jobs, q) => LastFor(old, q))
    BY <1>11, <1>14
  <2>3. CASE ~Report(n, j) \/ g # f
    <3>1. out'[g] = out[g]
      <4> HIDE DEF g, f, t
      <4> QED BY <1>1, <1>15, <2>1, <2>3
    <3>2. jobs[q].wrote = old[q].wrote
      <4>1. q = j => ~Report(n, j)
        BY <2>3
      <4> QED BY <1>13, <4>1
    <3> DEFINE h == out[g]
    <3>3. /\ \A y \in 1..Len(h) : h[y] # Hole => Own(n, x, g, h[y])
          /\ LastFor(jobs, q) => \A y \in 1..jobs[q].wrote : y <= Len(h) /\ h[y] # Hole
      <4>1. OwnFile(n, i, g, h, q)
        BY <2>2
      <4> HIDE DEF x, g, h, job, f, t, w, s, report
      <4> QED BY <1>10, <2>2, <3>2, <4>1 DEF OwnFile
    <3>4. OwnFile(n, x, g, h, q)
      <4> HIDE DEF x, g, h
      <4> QED BY <1>8, <3>3 DEF OwnFile
    <3> QED BY <3>1, <3>4
  <2>4. CASE Report(n, j) /\ g = f
    <3>1. out'[g] = t
      <4> HIDE DEF t, g, f
      <4> QED BY <1>1, <1>15, <2>1, <2>4
    <3>2. OwnFile(n, i, f, s, q) /\ wrote = w + 1
      BY <2>2, <2>4
    <3>3. \A y \in 1..Len(t) : t[y] # Hole => Own(n, x, f, t[y])
      <4>1. \A y \in 1..Len(s) : s[y] # Hole => Own(n, x, f, s[y])
        <5> HIDE DEF x, s, f
        <5> QED BY <1>10, <3>2 DEF OwnFile
      <4> HIDE DEF x, s, t, f, report, w
      <4> QED BY <1>12, <1>17, <4>1
    <3>4. ASSUME LastFor(jobs, q), NEW y \in 1..jobs[q].wrote
          PROVE  y <= Len(t) /\ t[y] # Hole
      <4>1. \A z \in 1..old[q].wrote : z <= Len(s) /\ s[z] # Hole
        BY <2>2, <3>2, <3>4 DEF OwnFile
      <4>2. y \in 1..old[q].wrote \/ y = w + 1
        <5>1. q = j => y \in 1..(w + 1) /\ w = old[q].wrote
          BY <1>13, <3>2
        <5>2. q # j => y \in 1..old[q].wrote
          BY <1>13
        <5>3. w \in Nat
          BY <1>4
        <5> HIDE DEF w
        <5> QED BY <5>1, <5>2, <5>3
      <4>3. CASE y = w + 1
        <5> HIDE DEF s, t, w, report
        <5> QED BY <1>12, <1>17, <4>3
      <4>4. CASE y # w + 1
        <5>1. y \in 1..old[q].wrote /\ y <= Len(s) /\ s[y] # Hole /\ y \in Nat /\ y >= 1
          BY <4>1, <4>2, <4>4
        <5> HIDE DEF s, t, w, report, old
        <5>2. y \in 1..Len(s) /\ y <= Len(t)
          BY <1>16, <1>17, <5>1
        <5>3. t[y] = s[y]
          BY <1>17, <4>4, <5>2
        <5> QED BY <5>1, <5>2, <5>3
      <4> QED BY <4>3, <4>4
    <3>5. OwnFile(n, x, f, t, q)
      <4> HIDE DEF x, t, f
      <4> QED BY <1>8, <3>3, <3>4 DEF OwnFile
    <3> QED BY <2>4, <3>1, <3>5
  <2> QED BY <2>3, <2>4
<1>19. OwnFiles(n, x, out')
  <2> HIDE DEF x, old
  <2> QED BY <1>7, <1>8, <1>9, <1>18 DEF OwnFiles
<1> HIDE DEF x
<1> QED BY <1>3, <1>5, <1>19, OneOwns

(* While invocations do not overlap, the files that a successful one wrote    *)
(* hold its own reports, made with its own -f, and nothing of other ones:     *)
(* whatever the files held before, and even if jobs wrote the same file at a  *)
(* time, a PRNG having been given twice.                                      *)
THEOREM OwnReportsOnly == AtOnce = 1 => (Spec => []NothingOfOthers)
<1> SUFFICES ASSUME AtOnce = 1 PROVE Spec => []NothingOfOthers
  OBVIOUS
<1>1. Init => Owned
  <2> SUFFICES ASSUME Init, NEW n \in Runs PROVE OwnFiles(n, inv[n], out)
    BY DEF Owned
  <2>1. Len(inv[n].jobs) = 0
    BY DEF Init, NotStarted
  <2> QED BY <2>1 DEF OwnFiles
<1>2. TypeOK /\ Obedient /\ Folded /\ Owned /\ [Next]_vars => Owned'
  <2> SUFFICES ASSUME TypeOK, Obedient, Folded, Owned, [Next]_vars PROVE Owned'
    OBVIOUS
  <2>1. ASSUME UNCHANGED vars PROVE Owned'
    <3>1. inv' = inv /\ out' = out
      BY <2>1 DEF vars
    <3> QED BY <3>1 DEF Owned
  <2>2. CASE Done
    BY <2>1, <2>2 DEF Done
  <2>3. ASSUME NEW n \in Runs,
               (\E o \in Options : Start(n, o)) \/ Step(n) \/ End(n)
                 \/ \E j \in 1..Len(inv[n].jobs) : Report(n, j) \/ EndJob(n, j)
        PROVE  Owned'
    BY <2>3, OwnedScript, OwnedStart, OwnedReport DEF Step
  <2> QED BY <2>1, <2>2, <2>3 DEF Next
<1>3. Owned => NothingOfOthers
  BY DEF Owned, OwnFiles, OwnFile, Own, NothingOfOthers
<1> QED BY <1>1, <1>2, <1>3, ObedientAlways, FoldedAlways, PTL DEF Spec

(* While invocations do not overlap, a successful one leaves nothing but its  *)
(* own reports in the outputs it wrote, and all of the last job's unless two  *)
(* jobs wrote one file at a time.                                             *)
THEOREM OutputsOwnAndWhole == AtOnce = 1 => (Spec => []OutputsAreOwn)
<1>1. NothingOfOthers /\ WholeReports => OutputsAreOwn
  BY DEF OutputsAreOwn
<1> QED BY <1>1, OwnReportsOnly, ReportsAreWhole, PTL
=============================================================================
