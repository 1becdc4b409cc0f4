----------------------------- MODULE TestRun_proofs -----------------------------
(* For every number of PRNGs, seed types, reports, slots, invocations and     *)
(* benchmarks: what test-prng-dump.bash leaves behind when it succeeds.       *)
EXTENDS TestRun, TLAPS

BenchmarkPcs == {"program", "filter", "sort", "summary"}
FirstLoop    == ListNames \cup {"commands", "parallel"}
ScriptPcs    == FirstLoop \cup {"json", "success"}

-----------------------------------------------------------------------------
(* Who is where: between invocations there is nothing to be seen of one.      *)
Control ==
    /\ pc \in ScriptPcs => seeds \in SeedLists /\ k \in 1..Len(seeds)
    /\ pc \notin ScriptPcs =>
          seeds = <<>> /\ k = 1 /\ info = {} /\ dry = FALSE /\ tested = {}
    /\ \A p \in Prngs : job[p] # "none" => pc = "parallel" /\ ~dry /\ p \in info

(* A seed type of the first loop that is behind step l of the second one.     *)
Behind(i) == i < k \/ pc \in {"json", "success"}

(* What has been tested so far.                                               *)
Testing ==
    ~dry =>
        /\ \A i \in 1..Len(seeds), p \in info :
             Behind(i) \/ (i = k /\ pc \in ListNames) => <<seeds[i], p>> \in tested
        /\ pc = "parallel" =>
             \A p \in info : job[p] \in {"queued", "running"} \/ <<Seed, p>> \in tested

(* What an output may look like.                                              *)
Outputs ==
    \A s \in Seeds, p \in Prngs :
        /\ out[s][p].fail => out[s][p].length > 0
        /\ pc = "parallel" /\ s = Seed /\ Running(p) => out[s][p].length < Reports /\ ~out[s][p].fail
        /\ out[s][p].length \in {0, Reports} \/ out[s][p].fail \/ <<s, p>> \in cut
             \/ (pc = "parallel" /\ s = Seed /\ Running(p))

(* Which lists say what the outputs say: those of a seed type that will be    *)
(* tested again need not.                                                     *)
Good(l, s)   == lists[l][s] = Having(s, "good")
Failed(l, s) == lists[l][s] = Having(s, "failed")

ListsOK(s) ==
    /\ Good("files.good", s) /\ Good("names.good", s)
    /\ Failed("files.failed", s) /\ Failed("names.failed", s)

Listed ==
    /\ \A i \in 1..Len(seeds) :
         Behind(i) /\ (pc \in FirstLoop => \A j \in k..Len(seeds) : seeds[j] # seeds[i])
            => ListsOK(seeds[i])
    /\ pc \in {"files.failed", "names.good", "names.failed"} => Good("files.good", Seed)
    /\ pc \in {"names.good", "names.failed"} => Failed("files.failed", Seed)
    /\ pc = "names.failed" => Good("names.good", Seed)

JsonOK(s) ==
    json[s] = {[prng |-> p, length |-> out[s][p].length,
                failure |-> Verdict(out[s][p]) = "failed", age |-> bench.age] :
                  p \in bench.prngs \ Having(s, "neither")}

Joined ==
    /\ pc = "json" => bench.age > 0 /\ \A i \in 1..(k - 1) : JsonOK(seeds[i])
    /\ pc = "success" /\ bench.age > 0 => \A i \in 1..Len(seeds) : JsonOK(seeds[i])

(* The pipeline that makes the benchmark file.                                *)
Benchmarking ==
    /\ pc \in BenchmarkPcs => benchmarks > 0
    /\ pc \in {"filter", "sort"} => raw = [prngs |-> Prngs, age |-> benchmarks]
    /\ pc = "sort" => bench.age = benchmarks
    /\ BenchmarkComplete

Inv ==
    TypeOK /\ Control /\ Testing /\ Outputs /\ Listed /\ Joined /\ Benchmarking

-----------------------------------------------------------------------------
(* What the definitions say, once and for all.                                *)

LEMMA SeedsAreSeeds ==
    ASSUME Control, pc \in ScriptPcs
    PROVE  /\ seeds \in Seq(Seeds) /\ Len(seeds) \in Nat /\ k \in 1..Len(seeds)
           /\ \A i \in 1..Len(seeds) : seeds[i] \in Seeds
           /\ Seed \in Seeds
  BY SeedListsAssumption DEF Control, Seed

(* The greps find what the verdicts say.                                      *)
LEMMA GrepsFindVerdicts ==
    ASSUME TypeOK, Outputs, NEW s \in Seeds
    PROVE  /\ GoodFiles(s) = Having(s, "good")
           /\ HasFail(s) = Having(s, "failed")
           /\ Prngs \ Having(s, "neither") = HasLength(s)
           /\ Having(s, "good") \subseteq HasLength(s)
           /\ Having(s, "failed") \subseteq HasLength(s)
           /\ \A p \in Having(s, "good") : Verdict(out[s][p]) = "good"
           /\ \A p \in Having(s, "failed") : Verdict(out[s][p]) = "failed"
<1>1. ASSUME NEW p \in Prngs
      PROVE  /\ out[s][p].length \in 0..Reports /\ out[s][p].fail \in BOOLEAN
             /\ out[s][p].fail => out[s][p].length > 0
             /\ Verdict(out[s][p]) = "neither" <=> out[s][p].length = 0
             /\ Verdict(out[s][p]) = "failed" <=> out[s][p].fail
             /\ Verdict(out[s][p]) = "good" <=> out[s][p].length > 0 /\ ~out[s][p].fail
  <2>1. /\ out[s][p].length \in 0..Reports /\ out[s][p].fail \in BOOLEAN
        /\ out[s][p].fail => out[s][p].length > 0
    <3>1. out[s][p] \in [length : 0..Reports, fail : BOOLEAN]
      BY DEF TypeOK
    <3>2. out[s][p].fail => out[s][p].length > 0
      BY DEF Outputs
    <3>. QED
      BY <3>1, <3>2
  <2>. QED
    BY <2>1, ReportsAssumption DEF Verdict
<1>. QED
  BY <1>1, ReportsAssumption DEF Having, GoodFiles, HasFail, HasLength

(* The records of a seed type whose lists are right are right.                *)
LEMMA RecordsAreRight ==
    ASSUME TypeOK, Outputs, NEW s \in Seeds, ListsOK(s)
    PROVE  Records(s) = {[prng |-> p, length |-> out[s][p].length,
                          failure |-> Verdict(out[s][p]) = "failed", age |-> bench.age] :
                            p \in bench.prngs \ Having(s, "neither")}
<1>. DEFINE Line(p, failure) ==
       [prng |-> p, length |-> out[s][p].length, failure |-> failure, age |-> bench.age]
<1>1. /\ bench.prngs \subseteq Prngs
      /\ lists["files.good"][s] = Having(s, "good") /\ lists["files.failed"][s] = Having(s, "failed")
  BY DEF TypeOK, ListsOK, Good, Failed
<1>2. Records(s) = {Line(p, FALSE) : p \in Having(s, "good") \cap HasLength(s) \cap bench.prngs}
                     \cup {Line(p, TRUE) : p \in Having(s, "failed") \cap HasLength(s) \cap bench.prngs}
  BY <1>1 DEF Records
<1>3. bench.prngs \ Having(s, "neither") =
        (Having(s, "good") \cap HasLength(s) \cap bench.prngs)
          \cup (Having(s, "failed") \cap HasLength(s) \cap bench.prngs)
  BY <1>1, GrepsFindVerdicts DEF GoodFiles
<1>4. /\ \A p \in Having(s, "good") : (Verdict(out[s][p]) = "failed") = FALSE
      /\ \A p \in Having(s, "failed") : (Verdict(out[s][p]) = "failed") = TRUE
  BY GrepsFindVerdicts
<1>5. /\ \A p \in Having(s, "good") : Line(p, FALSE) = Line(p, Verdict(out[s][p]) = "failed")
      /\ \A p \in Having(s, "failed") : Line(p, TRUE) = Line(p, Verdict(out[s][p]) = "failed")
  BY <1>4
<1>. DEFINE A == Having(s, "good") \cap HasLength(s) \cap bench.prngs
            B == Having(s, "failed") \cap HasLength(s) \cap bench.prngs
            M(p) == Line(p, Verdict(out[s][p]) = "failed")
<1>6. /\ \A p \in A : Line(p, FALSE) = M(p)
      /\ \A p \in B : Line(p, TRUE) = M(p)
  BY <1>5
<1>7. /\ Records(s) = {Line(p, FALSE) : p \in A} \cup {Line(p, TRUE) : p \in B}
      /\ bench.prngs \ Having(s, "neither") = A \cup B
  BY <1>2, <1>3
<1>. HIDE DEF Line, A, B, M
<1>8. {Line(p, FALSE) : p \in A} = {M(p) : p \in A} /\ {Line(p, TRUE) : p \in B} = {M(p) : p \in B}
  BY <1>6
<1>9. Records(s) = {M(p) : p \in A \cup B}
  BY <1>7, <1>8
<1>. QED
  BY <1>7, <1>9 DEF Line, M

(* A seed type whose files do not change keeps its verdicts.                  *)
LEMMA SameVerdicts ==
    ASSUME NEW s \in Seeds, UNCHANGED out[s]
    PROVE  \A v : Having(s, v)' = Having(s, v)
  BY DEF Having

-----------------------------------------------------------------------------
(* The invariant holds at first, and every step keeps it.                     *)

LEMMA InitInv == Init => Inv
<1>. SUFFICES ASSUME Init PROVE Inv
  OBVIOUS
<1>1. TypeOK
  <2>1. out \in [Seeds -> [Prngs -> [length : 0..Reports, fail : BOOLEAN]]]
    BY ReportsAssumption DEF Init
  <2>2. lists \in [ListNames -> [Seeds -> SUBSET Prngs]] 
    BY DEF Init
  <2>3. {raw, bench} \subseteq [prngs : SUBSET Prngs, age : 0..MaxBenchmarks]
    BY BoundsAssumption DEF Init
  <2>4. job \in [Prngs -> {"none", "queued", "running", "ok", "bad"}]
    BY DEF Init, NoJobs
  <2>0. json \in [Seeds -> SUBSET [prng : Prngs, length : 1..Reports,
                                   failure : BOOLEAN, age : 1..MaxBenchmarks]]
    BY DEF Init
  <2>5. /\ pc = "idle" /\ dry \in BOOLEAN /\ seeds = <<>> /\ info \subseteq Prngs
        /\ tested \subseteq Seeds \X Prngs /\ cut \subseteq Seeds \X Prngs
    BY DEF Init
  <2>6. runs \in 0..MaxRuns /\ benchmarks \in 0..MaxBenchmarks
    BY BoundsAssumption DEF Init
  <2>. QED
    BY <2>0, <2>1, <2>2, <2>3, <2>4, <2>5, <2>6 DEF TypeOK
<1>2. Control /\ Joined /\ Benchmarking
  BY DEF Init, Control, Joined, Benchmarking, BenchmarkComplete, BenchmarkPcs,
         ScriptPcs, FirstLoop, ListNames, NoJobs
<1>3. Testing /\ Listed
  BY DEF Init, Testing, Listed, ListNames
<1>4. Outputs
  BY DEF Init, Outputs
<1>. QED
  BY <1>1, <1>2, <1>3, <1>4 DEF Inv

(* The end of an invocation, at whatever step.                                *)
LEMMA LeaveInv ==
    ASSUME Inv, Leave, TypeOK', Outputs', UNCHANGED benchVars
    PROVE  Inv'
<1>1. Control'
  BY DEF Leave, NoJobs, Control, ScriptPcs, FirstLoop, ListNames
<1>2. Testing' /\ Listed' /\ Joined'
  BY DEF Leave, Testing, Listed, Joined, ListNames
<1>3. Benchmarking'
  BY DEF Leave, Benchmarking, BenchmarkComplete, BenchmarkPcs
<1>. QED
  BY <1>1, <1>2, <1>3 DEF Inv

LEMMA InvokeInv == ASSUME Inv, Invoke PROVE Inv'
<1>1. TypeOK'
  <2>1. seeds' \in SeedLists /\ k' \in 1..Len(seeds')
    BY SeedListsAssumption DEF Inv, Invoke, Control, ScriptPcs, FirstLoop, ListNames
  <2>2. runs' \in 0..MaxRuns
    BY BoundsAssumption DEF Inv, TypeOK, Invoke
  <2>. QED
    BY <2>1, <2>2 DEF Inv, TypeOK, Invoke, fileVars, benchVars
<1>2. Control'
  BY SeedListsAssumption DEF Inv, TypeOK, Invoke, fileVars, benchVars, ListNames, Control, ScriptPcs, FirstLoop
<1>3. Testing' /\ Listed'
  BY DEF Inv, Invoke, Control, Testing, Listed, Behind, FirstLoop, ListNames, ScriptPcs
<1>4. Outputs'
  BY DEF Inv, Invoke, Outputs, fileVars
<1>5. Joined' /\ Benchmarking'
  BY DEF Inv, Invoke, Joined, Benchmarking, BenchmarkComplete, BenchmarkPcs
<1>. QED
  BY <1>1, <1>2, <1>3, <1>4, <1>5 DEF Inv

LEMMA BuildCommandsInv == ASSUME Inv, BuildCommands PROVE Inv'
<1>. USE DEF BuildCommands, Queue
<1>1. TypeOK'
  BY DEF Inv, TypeOK, fileVars, benchVars, argVars, ListNames
<1>2. Control'
  BY DEF Inv, TypeOK, Control, ScriptPcs, FirstLoop, ListNames, fileVars, argVars
<1>3. Testing'
  BY DEF Inv, TypeOK, Control, Testing, Behind, Seed, ListNames, argVars
<1>4. Outputs'
  BY DEF Inv, Outputs, Running, Seed, fileVars, argVars
<1>5. Listed'
  BY DEF Inv, Listed, Behind, FirstLoop, ListNames, ListsOK, Good, Failed, Having, Seed, fileVars, argVars
<1>6. Joined' /\ Benchmarking'
  BY DEF Inv, Joined, Benchmarking, BenchmarkComplete, BenchmarkPcs
<1>. QED
  BY <1>1, <1>2, <1>3, <1>4, <1>5, <1>6 DEF Inv

-----------------------------------------------------------------------------
(* The jobs.  Whatever a job does, the lists of the seed types that are done  *)
(* with stay right: only files of the present seed type change.               *)

LEMMA JobsAreParallel ==
    ASSUME Inv, NEW p \in Prngs, job[p] # "none"
    PROVE  /\ pc = "parallel" /\ ~dry /\ p \in info
           /\ seeds \in SeedLists /\ Seed \in Seeds /\ k \in 1..Len(seeds) /\ Len(seeds) \in Nat
<1>1. pc = "parallel" /\ ~dry /\ p \in info
  BY DEF Inv, Control
<1>. QED
  BY <1>1, SeedsAreSeeds DEF Inv, Control, ScriptPcs, FirstLoop

LEMMA JobKeeps ==
    ASSUME Inv, pc = "parallel", \A s \in Seeds \ {Seed} : UNCHANGED out[s],
           \A p \in Prngs : job'[p] # "none" => job[p] # "none",
           UNCHANGED <<lists, json, benchVars, argVars, pc, k>>
    PROVE  Control' /\ Listed' /\ Joined' /\ Benchmarking'
<1>. USE DEF Inv, argVars, benchVars
<1>1. Control'
  <2>1. tested' = tested \/ pc \in ScriptPcs
    BY DEF ScriptPcs, FirstLoop
  <2>. QED
    BY <2>1 DEF Control
<1>2. Listed'
  <2>1. /\ Len(seeds) \in Nat /\ k \in 1..Len(seeds) /\ \A i \in 1..Len(seeds) : seeds[i] \in Seeds
    BY SeedsAreSeeds DEF ScriptPcs, FirstLoop
  <2>2. ASSUME NEW i \in 1..Len(seeds), Behind(i), \A j \in k..Len(seeds) : seeds[j] # seeds[i]
        PROVE  ListsOK(seeds[i])'
    <3>1. ListsOK(seeds[i])
      BY <2>2 DEF Listed
    <3>2. seeds[i] \in Seeds \ {Seed}
      BY <2>1, <2>2 DEF Seed
    <3>3. \A v : Having(seeds[i], v)' = Having(seeds[i], v)
      BY <3>2 DEF Having
    <3>. QED
      BY <3>1, <3>3 DEF ListsOK, Good, Failed
  <2>. QED
    BY <2>2 DEF Listed, Behind, FirstLoop
<1>3. Joined' /\ Benchmarking'
  BY DEF Joined, Benchmarking, BenchmarkComplete, BenchmarkPcs
<1>. QED
  BY <1>1, <1>2, <1>3

LEMMA JobTests ==
    ASSUME Inv, pc = "parallel", tested \subseteq tested', UNCHANGED <<argVars, pc, k>>,
           \A p \in Prngs : job[p] \in {"queued", "running"} =>
                              job'[p] \in {"queued", "running"} \/ <<Seed, p>> \in tested'
    PROVE  Testing'
<1>. SUFFICES ASSUME ~dry PROVE Testing'
  BY DEF Testing, argVars
<1>1. \A i \in 1..Len(seeds), p \in info : i < k => <<seeds[i], p>> \in tested
  BY DEF Inv, Testing, Behind
<1>2. \A p \in info : job[p] \in {"queued", "running"} \/ <<Seed, p>> \in tested
  BY DEF Inv, Testing
<1>3. info \subseteq Prngs
  BY DEF Inv, TypeOK
<1>4. UNCHANGED <<seeds, info, pc, k, dry, Seed>>
  BY DEF argVars, Seed
<1>5. \A p \in info : job'[p] \in {"queued", "running"} \/ <<Seed, p>> \in tested'
  BY <1>2, <1>3
<1>. QED
  BY <1>1, <1>4, <1>5 DEF Testing, Behind, ListNames

LEMMA StartJobInv == ASSUME Inv, NEW p \in Prngs, StartJob(p) PROVE Inv'
<1>. USE DEF StartJob
<1>1. /\ pc = "parallel" /\ ~dry /\ p \in info
      /\ seeds \in SeedLists /\ Seed \in Seeds /\ k \in 1..Len(seeds)
  BY JobsAreParallel
<1>2. job \in [Prngs -> {"none", "queued", "running", "ok", "bad"}]
  BY DEF Inv, TypeOK
<1>3. /\ job'[p] = "running" /\ \A q \in Prngs \ {p} : job'[q] = job[q]
      /\ \A q \in Prngs : job'[q] # "none" => job[q] # "none"
  BY <1>2
<1>4. /\ out'[Seed][p] = [length |-> 0, fail |-> FALSE]
      /\ \A s \in Seeds, q \in Prngs : s # Seed \/ q # p => out'[s][q] = out[s][q]
      /\ \A s \in Seeds \ {Seed} : out'[s] = out[s]
  BY <1>1 DEF Inv, TypeOK
<1>5. Control' /\ Listed' /\ Joined' /\ Benchmarking'
  BY <1>1, <1>3, <1>4, JobKeeps DEF benchVars, argVars
<1>6. TypeOK'
  <2>1. out' \in [Seeds -> [Prngs -> [length : 0..Reports, fail : BOOLEAN]]]
    BY <1>1, ReportsAssumption DEF Inv, TypeOK
  <2>2. job' \in [Prngs -> {"none", "queued", "running", "ok", "bad"}]
    BY <1>2
  <2>. QED
    BY <2>1, <2>2 DEF Inv, TypeOK, benchVars, argVars
<1>7. Testing'
  BY <1>1, <1>3, JobTests DEF argVars
<1>8. Outputs'
  <2>1. UNCHANGED <<pc, Seed>>
    BY DEF Seed, argVars
  <2>2. \A s \in Seeds, q \in Prngs :
           s # Seed \/ q # p => (<<s, q>> \in cut' <=> <<s, q>> \in cut)
    BY DEF StartJob
  <2>3. /\ out'[Seed][p].length = 0 /\ ~out'[Seed][p].fail
        /\ \A q \in Prngs \ {p} : Running(q)' <=> Running(q)
    BY <1>3, <1>4 DEF Running
  <2>4. Running(p)'
    BY <1>3 DEF Running
  <2>. HIDE DEF StartJob
  <2>5. ASSUME NEW s \in Seeds, NEW q \in Prngs, s # Seed \/ q # p
        PROVE  /\ out[s][q].fail => out[s][q].length > 0
               /\ s = Seed /\ Running(q) => out[s][q].length < Reports /\ ~out[s][q].fail
               /\ out[s][q].length \in {0, Reports} \/ out[s][q].fail \/ <<s, q>> \in cut
                    \/ (s = Seed /\ Running(q))
               /\ out'[s][q] = out[s][q]
    BY <1>1, <1>4, <2>5 DEF Inv, Outputs
  <2>. DEFINE Fine(s, q) ==
         /\ out[s][q].fail => out[s][q].length > 0
         /\ pc = "parallel" /\ s = Seed /\ Running(q) => out[s][q].length < Reports /\ ~out[s][q].fail
         /\ out[s][q].length \in {0, Reports} \/ out[s][q].fail \/ <<s, q>> \in cut
              \/ (pc = "parallel" /\ s = Seed /\ Running(q))
  <2>6. ASSUME NEW s \in Seeds, NEW q \in Prngs PROVE Fine(s, q)'
    <3>1. CASE s = Seed /\ q = p
      BY <1>1, <2>1, <2>3, <2>4, <3>1, ReportsAssumption
    <3>2. CASE s # Seed \/ q # p
      <4>1. out'[s][q] = out[s][q] /\ (<<s, q>> \in cut' <=> <<s, q>> \in cut)
        BY <2>2, <2>5, <3>2
      <4>2. s = Seed => (Running(q)' <=> Running(q))
        BY <2>3, <3>2
      <4>. QED
        BY <1>1, <2>1, <2>5, <3>2, <4>1, <4>2
    <3>. QED
      BY <3>1, <3>2
  <2>. QED
    BY <2>6 DEF Outputs
<1>. QED
  BY <1>5, <1>6, <1>7, <1>8 DEF Inv

LEMMA ReportInv == ASSUME Inv, NEW p \in Prngs, NEW fail \in BOOLEAN, Report(p, fail) PROVE Inv'
<1>. DEFINE ends == fail \/ out[Seed][p].length + 1 = Reports
<1>0. Running(p)
  BY DEF Report
<1>1. /\ pc = "parallel" /\ ~dry /\ p \in info
      /\ seeds \in SeedLists /\ Seed \in Seeds /\ k \in 1..Len(seeds)
  BY <1>0, JobsAreParallel DEF Running
<1>2. job \in [Prngs -> {"none", "queued", "running", "ok", "bad"}]
  BY DEF Inv, TypeOK
<1>3. /\ job'[p] = IF ends THEN "ok" ELSE "running"
      /\ \A q \in Prngs \ {p} : job'[q] = job[q]
      /\ tested' = IF ends THEN tested \cup {<<Seed, p>>} ELSE tested
  BY <1>0, <1>2 DEF Report, EndJob, Running
<1>4. \A q \in Prngs : job'[q] # "none" => job[q] # "none"
  BY <1>0, <1>3 DEF Running
<1>5. out[Seed][p].length \in 0..(Reports - 1)
  <2>1. out[Seed][p] \in [length : 0..Reports, fail : BOOLEAN]
    BY <1>1 DEF Inv, TypeOK
  <2>2. out[Seed][p].length < Reports
    BY <1>0, <1>1 DEF Inv, Outputs
  <2>. QED
    BY <2>1, <2>2, ReportsAssumption
<1>6. /\ out'[Seed][p].length = out[Seed][p].length + 1 /\ out'[Seed][p].fail = fail
      /\ \A s \in Seeds, q \in Prngs : s # Seed \/ q # p => out'[s][q] = out[s][q]
      /\ \A s \in Seeds \ {Seed} : out'[s] = out[s]
  BY <1>1 DEF Report, Inv, TypeOK
<1>7. UNCHANGED <<lists, json, benchVars, argVars, pc, k, cut, runs>>
  BY DEF Report
<1>8. Control' /\ Listed' /\ Joined' /\ Benchmarking'
  BY <1>1, <1>4, <1>6, <1>7, JobKeeps
<1>9. TypeOK'
  <2>1. out' \in [Seeds -> [Prngs -> [length : 0..Reports, fail : BOOLEAN]]]
    <3>1. out' = [out EXCEPT ![Seed][p] = [length |-> out[Seed][p].length + 1, fail |-> fail]]
      BY DEF Report
    <3>2. [length |-> out[Seed][p].length + 1, fail |-> fail] \in [length : 0..Reports, fail : BOOLEAN]
      BY <1>5, ReportsAssumption
    <3>. QED
      BY <1>1, <3>1, <3>2 DEF Inv, TypeOK
  <2>2. job' \in [Prngs -> {"none", "queued", "running", "ok", "bad"}]
    BY <1>2 DEF Report, EndJob
  <2>3. tested' \subseteq Seeds \X Prngs
    BY <1>1, <1>3 DEF Inv, TypeOK
  <2>. QED
    BY <2>1, <2>2, <2>3, <1>7 DEF Inv, TypeOK, benchVars, argVars
<1>10. Testing'
  <2>1. UNCHANGED argVars /\ UNCHANGED <<pc, k>>
    BY <1>7
  <2>2. ends \in BOOLEAN
    OBVIOUS
  <2>3. job'[p] = "running" \/ <<Seed, p>> \in tested'
    BY <1>3, <2>2
  <2>4. tested \subseteq tested'
    BY <1>3, <2>2
  <2>. QED
    BY <1>1, <1>3, <2>1, <2>3, <2>4, JobTests
<1>11. Outputs'
  <2>1. UNCHANGED <<pc, cut, Seed>>
    BY <1>7 DEF Seed, argVars
  <2>2. /\ out'[Seed][p].fail => out'[Seed][p].length > 0
        /\ Running(p)' => out'[Seed][p].length < Reports /\ ~out'[Seed][p].fail
        /\ out'[Seed][p].length = Reports \/ out'[Seed][p].fail \/ Running(p)'
    BY <1>3, <1>5, <1>6, ReportsAssumption DEF Running
  <2>3. \A q \in Prngs \ {p} : Running(q)' <=> Running(q)
    BY <1>3 DEF Running
  <2>. QED
    BY <1>1, <1>6, <2>1, <2>2, <2>3, ZenonT(30) DEF Inv, Outputs
<1>. QED
  BY <1>8, <1>9, <1>10, <1>11 DEF Inv

LEMMA CutShortInv == ASSUME Inv, NEW p \in Prngs, CutShort(p) PROVE Inv'
<1>0. Running(p)
  BY DEF CutShort
<1>1. /\ pc = "parallel" /\ ~dry /\ p \in info
      /\ seeds \in SeedLists /\ Seed \in Seeds /\ k \in 1..Len(seeds)
  BY <1>0, JobsAreParallel DEF Running
<1>2. job \in [Prngs -> {"none", "queued", "running", "ok", "bad"}]
  BY DEF Inv, TypeOK
<1>3. /\ job'[p] \in {"ok", "bad"} /\ \A q \in Prngs \ {p} : job'[q] = job[q]
      /\ tested' = tested \cup {<<Seed, p>>} /\ cut' = cut \cup {<<Seed, p>>}
  BY <1>2, CutStatusesAssumption DEF CutShort, EndJob
<1>4. \A q \in Prngs : job'[q] # "none" => job[q] # "none"
  BY <1>0, <1>3 DEF Running
<1>5. UNCHANGED <<out, lists, json, benchVars, argVars, pc, k, runs>>
  BY DEF CutShort, fileVars
<1>6. Control' /\ Listed' /\ Joined' /\ Benchmarking'
  BY <1>1, <1>4, <1>5, JobKeeps
<1>7. TypeOK'
  <2>1. job' \in [Prngs -> {"none", "queued", "running", "ok", "bad"}]
    BY <1>2, CutStatusesAssumption DEF CutShort, EndJob
  <2>2. tested' \subseteq Seeds \X Prngs /\ cut' \subseteq Seeds \X Prngs
    BY <1>1, <1>3 DEF Inv, TypeOK
  <2>. QED
    BY <2>1, <2>2, <1>5 DEF Inv, TypeOK, benchVars, argVars
<1>8. Testing'
  BY <1>1, <1>3, <1>5, JobTests
<1>9. Outputs'
  BY <1>0, <1>1, <1>3, <1>5 DEF Inv, Outputs, Running, Seed, argVars
<1>. QED
  BY <1>6, <1>7, <1>8, <1>9 DEF Inv

LEMMA ParallelEndsInv == ASSUME Inv, ParallelEnds PROVE Inv'
<1>1. /\ pc = "parallel" /\ JobsEnded /\ UNCHANGED <<fileVars, cut, runs>>
      /\ pc' = "files.good" \/ Leave
  BY DEF ParallelEnds
<1>2. /\ seeds \in SeedLists /\ k \in 1..Len(seeds) /\ Len(seeds) \in Nat
      /\ \A i \in 1..Len(seeds) : seeds[i] \in Seeds
  BY <1>1, SeedsAreSeeds DEF Inv, Control, ScriptPcs, FirstLoop
<1>3. Outputs'
  BY <1>1 DEF Inv, Outputs, Running, JobsEnded, fileVars, ListNames, Leave
<1>4. CASE Leave
  <2>1. TypeOK'
    BY <1>1, <1>4 DEF Inv, TypeOK, Leave, NoJobs, fileVars, benchVars
  <2>. QED
    BY <1>1, <1>3, <1>4, <2>1, LeaveInv DEF fileVars
<1>5. CASE ~Leave
  <2>1. pc' = "files.good" /\ job' = NoJobs /\ UNCHANGED <<argVars, k, tested>>
    BY <1>5 DEF ParallelEnds
  <2>2. TypeOK'
    BY <1>1, <2>1 DEF Inv, TypeOK, NoJobs, fileVars, benchVars, argVars, ListNames
  <2>3. Control'
    BY <1>2, <2>1 DEF Control, ScriptPcs, FirstLoop, ListNames, NoJobs, argVars
  <2>4. Testing'
    <3>. SUFFICES ASSUME ~dry PROVE Testing'
      BY <2>1 DEF Testing, argVars
    <3>1. \A p \in info : job[p] \notin {"queued", "running"}
      BY <1>1 DEF Inv, TypeOK, JobsEnded
    <3>2. \A p \in info : <<seeds[k], p>> \in tested
      BY <1>1, <3>1 DEF Inv, Testing, Seed
    <3>3. \A i \in 1..Len(seeds), p \in info : i < k => <<seeds[i], p>> \in tested
      BY DEF Inv, Testing, Behind
    <3>. QED
      BY <2>1, <3>2, <3>3 DEF Testing, Behind, argVars
  <2>5. Listed'
    <3>1. \A s : UNCHANGED ListsOK(s)
      BY <1>1 DEF ListsOK, Good, Failed, Having, fileVars
    <3>2. pc' \in FirstLoop
      BY <2>1 DEF FirstLoop, ListNames
    <3>3. pc \in FirstLoop /\ pc \notin {"json", "success"}
      BY <1>1 DEF FirstLoop
    <3>. QED
      BY <2>1, <3>1, <3>2, <3>3 DEF Inv, Listed, Behind, argVars
  <2>6. Joined' /\ Benchmarking'
    BY <1>1, <2>1 DEF Inv, Joined, Benchmarking, BenchmarkComplete, BenchmarkPcs
  <2>. QED
    BY <1>3, <2>2, <2>3, <2>4, <2>5, <2>6 DEF Inv
<1>. QED
  BY <1>4, <1>5

-----------------------------------------------------------------------------
(* The lists and the json file.                                               *)

(* After the last list of a seed type, the lists of that one are right too.   *)
LEMMA WriteListInv == ASSUME Inv, NEW l \in ListNames, WriteList(l) PROVE Inv'
<1>1. /\ pc = l /\ lists' = [lists EXCEPT ![l][Seed] = Content(l)]
      /\ UNCHANGED <<out, json, benchVars, argVars, job, tested, cut, runs>>
  BY DEF WriteList
<1>2. /\ seeds \in SeedLists /\ k \in 1..Len(seeds) /\ Len(seeds) \in Nat /\ Seed \in Seeds
      /\ \A i \in 1..Len(seeds) : seeds[i] \in Seeds
  BY <1>1, SeedsAreSeeds DEF Inv, Control, ScriptPcs, FirstLoop
<1>3. \/ l = "files.good"   /\ pc' = "files.failed" /\ k' = k
      \/ l = "files.failed" /\ pc' = "names.good" /\ k' = k
      \/ l = "names.good"   /\ pc' = "names.failed" /\ k' = k
      \/ l = "names.failed" /\ k < Len(seeds) /\ pc' = "commands" /\ k' = k + 1
      \/ l = "names.failed" /\ k = Len(seeds) /\ pc' = "success" /\ k' = 1 /\ bench.age = 0
      \/ l = "names.failed" /\ k = Len(seeds) /\ pc' = "json" /\ k' = 1 /\ bench.age # 0
  <2>1. CASE l # "names.failed"
    BY <2>1 DEF WriteList, ListNames
  <2>2. CASE l = "names.failed"
    <3>1. NextSeed("commands", IF bench.age = 0 THEN "success" ELSE "json")
      BY <2>2 DEF WriteList
    <3>2. k < Len(seeds) \/ (k = Len(seeds) /\ ~(k < Len(seeds)))
      BY <1>2
    <3>3. CASE k < Len(seeds)
      BY <2>2, <3>1, <3>3 DEF NextSeed
    <3>4. CASE k = Len(seeds) /\ ~(k < Len(seeds))
      BY <2>2, <3>1, <3>4 DEF NextSeed
    <3>. QED
      BY <3>2, <3>3, <3>4
  <2>. QED
    BY <2>1, <2>2
<1>4. pc \in FirstLoop /\ pc # "parallel" /\ pc \in ListNames
  BY <1>1 DEF FirstLoop, ListNames
<1>5. /\ lists'[l][Seed] = Content(l)
      /\ \A m \in ListNames, s \in Seeds : m # l \/ s # Seed => lists'[m][s] = lists[m][s]
  BY <1>1, <1>2 DEF Inv, TypeOK
<1>6. /\ GoodFiles(Seed) = Having(Seed, "good") /\ HasFail(Seed) = Having(Seed, "failed")
      /\ \A s, v : Having(s, v)' = Having(s, v)
  BY <1>1, <1>2, GrepsFindVerdicts DEF Inv, Having
<1>7. Content(l) = Having(Seed, IF l \in {"files.good", "names.good"} THEN "good" ELSE "failed")
  BY <1>1, <1>6 DEF Inv, Listed, Good, Failed, Content, ListNames
<1>8. TypeOK'
  <2>1. Content(l) \subseteq Prngs
    BY <1>7 DEF Having
  <2>2. lists' \in [ListNames -> [Seeds -> SUBSET Prngs]]
    BY <1>1, <1>2, <2>1 DEF Inv, TypeOK
  <2>3. k' \in 1..Len(seeds)
    BY <1>2, <1>3
  <2>4. pc' \in ListNames \cup {"idle", "commands", "parallel", "json", "success",
                               "program", "filter", "sort", "summary"}
    BY <1>3 DEF ListNames
  <2>. QED
    BY <1>1, <1>2, <2>2, <2>3, <2>4 DEF Inv, TypeOK, benchVars, argVars
<1>9. Control'
  <2>1. pc' \in ScriptPcs
    BY <1>3 DEF ScriptPcs, FirstLoop, ListNames
  <2>2. \A p \in Prngs : job'[p] = "none"
    BY <1>1, <1>4 DEF Inv, Control
  <2>3. seeds' \in SeedLists /\ k' \in 1..Len(seeds')
    BY <1>1, <1>2, <1>3 DEF argVars
  <2>. QED
    BY <2>1, <2>2, <2>3 DEF Control
<1>10. Testing'
  <2>. SUFFICES ASSUME ~dry PROVE Testing'
    BY <1>1 DEF Testing, argVars
  <2>1. \A i \in 1..Len(seeds), p \in info : i < k \/ i = k => <<seeds[i], p>> \in tested
    BY <1>4 DEF Inv, Testing, Behind
  <2>2. \A i \in 1..Len(seeds) :
           (i < k \/ pc \in {"json", "success"} \/ (i = k /\ pc \in ListNames))' => i < k \/ i = k
    BY <1>2, <1>3 DEF ListNames
  <2>3. pc' # "parallel"
    BY <1>3
  <2>. QED
    BY <1>1, <2>1, <2>2, <2>3 DEF Testing, Behind, argVars
<1>11. Outputs'
  <2>1. pc # "parallel" /\ pc' # "parallel"
    BY <1>3, <1>4
  <2>. QED
    BY <1>1, <2>1 DEF Inv, Outputs
<1>12. Listed'
  <2>1. ASSUME NEW i \in 1..Len(seeds), i < k, \A j \in k..Len(seeds) : seeds[j] # seeds[i]
        PROVE  ListsOK(seeds[i])'
    <3>1. ListsOK(seeds[i])
      BY <1>4, <2>1 DEF Inv, Listed, Behind
    <3>2. seeds[i] \in Seeds \ {Seed}
      BY <1>2, <2>1 DEF Seed
    <3>. QED
      BY <1>1, <1>5, <1>6, <3>1, <3>2 DEF ListsOK, Good, Failed, ListNames, argVars
  <2>2. /\ l \in {"files.good", "files.failed", "names.good", "names.failed"} =>
             lists'["files.good"][Seed] = Having(Seed, "good")
        /\ l # "files.good" => lists'["files.failed"][Seed] = Having(Seed, "failed")
        /\ l \in {"names.good", "names.failed"} => lists'["names.good"][Seed] = Having(Seed, "good")
        /\ l = "names.failed" => lists'["names.failed"][Seed] = Having(Seed, "failed")
    BY <1>1, <1>2, <1>5, <1>7 DEF Inv, Listed, Good, Failed, ListNames
  <2>3. CASE l # "names.failed"
    <3>1. k' = k /\ Seed' = Seed /\ pc' \in FirstLoop
      BY <1>1, <1>3, <2>3 DEF Seed, FirstLoop, ListNames, argVars
    <3>2. pc' \notin {"json", "success"}
      BY <1>3, <2>3
    <3>. QED
      BY <1>1, <1>3, <1>6, <2>1, <2>2, <2>3, <3>1, <3>2 DEF Listed, Behind, Good, Failed, argVars, ListNames
  <2>4. CASE l = "names.failed"
    <3>1. \A s \in Seeds : s = Seed => ListsOK(s)'
      <4>1. /\ lists'["files.good"][Seed] = Having(Seed, "good")
            /\ lists'["names.good"][Seed] = Having(Seed, "good")
            /\ lists'["files.failed"][Seed] = Having(Seed, "failed")
            /\ lists'["names.failed"][Seed] = Having(Seed, "failed")
        BY <2>2, <2>4
      <4>. QED
        BY <1>6, <4>1 DEF ListsOK, Good, Failed
    <3>2. pc' \notin {"files.failed", "names.good", "names.failed"} /\ seeds' = seeds
      BY <1>1, <1>3, <2>4 DEF argVars
    <3>3. ASSUME NEW i \in 1..Len(seeds), Behind(i)',
                 (pc \in FirstLoop => \A j \in k..Len(seeds) : seeds[j] # seeds[i])'
          PROVE  ListsOK(seeds[i])'
      <4>1. CASE seeds[i] = Seed
        BY <1>2, <3>1, <3>2, <4>1
      <4>2. CASE seeds[i] # Seed
        <5>1. i < k /\ \A j \in k..Len(seeds) : seeds[j] # seeds[i]
          <6>1. CASE pc' = "commands" /\ k' = k + 1
            <7>1. i < k + 1 /\ i # k
              BY <3>3, <4>2, <6>1 DEF Behind, Seed
            <7>2. \A j \in (k + 1)..Len(seeds) : seeds[j] # seeds[i]
              BY <3>2, <3>3, <6>1 DEF FirstLoop
            <7>. QED
              BY <1>2, <4>2, <7>1, <7>2 DEF Seed
          <6>2. CASE k = Len(seeds)
            <7>1. i # k
              BY <4>2 DEF Seed
            <7>. QED
              BY <1>2, <4>2, <6>2, <7>1 DEF Seed
          <6>. QED
            BY <1>3, <2>4, <6>1, <6>2
        <5>. QED
          BY <2>1, <5>1
      <4>. QED
        BY <4>1, <4>2
    <3>. QED
      BY <3>2, <3>3 DEF Listed
  <2>. QED
    BY <2>3, <2>4
<1>13. Joined' /\ Benchmarking'
  BY <1>1, <1>3 DEF Inv, TypeOK, Joined, Benchmarking, BenchmarkComplete, BenchmarkPcs, benchVars
<1>. QED
  BY <1>8, <1>9, <1>10, <1>11, <1>12, <1>13 DEF Inv

(* The records of a seed type are made of lists that are all right by now.    *)
LEMMA WriteJsonInv == ASSUME Inv, WriteJson PROVE Inv'
<1>1. /\ pc = "json" /\ json' = [json EXCEPT ![Seed] = Records(Seed)]
      /\ UNCHANGED <<out, lists, benchVars, argVars, job, tested, cut, runs>>
  BY DEF WriteJson
<1>2. /\ seeds \in SeedLists /\ k \in 1..Len(seeds) /\ Len(seeds) \in Nat /\ Seed \in Seeds
      /\ \A i \in 1..Len(seeds) : seeds[i] \in Seeds
  BY <1>1, SeedsAreSeeds DEF Inv, Control, ScriptPcs, FirstLoop
<1>3. \/ k < Len(seeds) /\ pc' = "json" /\ k' = k + 1
      \/ k = Len(seeds) /\ pc' = "success" /\ k' = 1
  BY <1>2 DEF WriteJson, NextSeed
<1>4. Records(Seed) = {[prng |-> p, length |-> out[Seed][p].length,
                        failure |-> Verdict(out[Seed][p]) = "failed", age |-> bench.age] :
                          p \in bench.prngs \ Having(Seed, "neither")}
  <2>1. ListsOK(Seed)
    BY <1>1, <1>2 DEF Inv, Listed, Behind, Seed, FirstLoop, ListNames
  <2>. QED
    BY <1>2, <2>1, RecordsAreRight DEF Inv
<1>5. bench.age \in 1..MaxBenchmarks
  BY <1>1 DEF Inv, TypeOK, Joined
<1>6. TypeOK'
  <2>1. Records(Seed) \subseteq [prng : Prngs, length : 1..Reports,
                                failure : BOOLEAN, age : 1..MaxBenchmarks]
    <3>1. ASSUME NEW p \in bench.prngs \ Having(Seed, "neither")
          PROVE  p \in Prngs /\ out[Seed][p].length \in 1..Reports
      <4>0. p \in Prngs \ Having(Seed, "neither")
        BY DEF Inv, TypeOK
      <4>1. p \in HasLength(Seed)
        BY <1>2, <4>0, GrepsFindVerdicts DEF Inv
      <4>2. p \in Prngs /\ out[Seed][p].length \in 0..Reports
        BY <1>2 DEF Inv, TypeOK
      <4>. QED
        BY <4>1, <4>2, ReportsAssumption DEF HasLength
    <3>2. ASSUME NEW p \in bench.prngs \ Having(Seed, "neither")
          PROVE  [prng |-> p, length |-> out[Seed][p].length,
                  failure |-> Verdict(out[Seed][p]) = "failed", age |-> bench.age]
                   \in [prng : Prngs, length : 1..Reports, failure : BOOLEAN, age : 1..MaxBenchmarks]
      <4>1. (Verdict(out[Seed][p]) = "failed") \in BOOLEAN
        OBVIOUS
      <4>. QED
        BY <1>5, <3>1, <4>1
    <3>. QED
      BY <1>4, <3>2
  <2>. DEFINE Lines == [prng : Prngs, length : 1..Reports,
                        failure : BOOLEAN, age : 1..MaxBenchmarks]
              records == Records(Seed)
  <2>2. json' \in [Seeds -> SUBSET Lines]
    <3>1. json \in [Seeds -> SUBSET Lines] /\ records \in SUBSET Lines /\ Seed \in Seeds
      BY <1>2, <2>1 DEF Inv, TypeOK
    <3>2. json' = [json EXCEPT ![Seed] = records]
      BY <1>1
    <3>. HIDE DEF Lines, records
    <3>. QED
      BY <3>1, <3>2
  <2>3. k' \in 1..Len(seeds) /\ pc' \in {"json", "success"}
    BY <1>2, <1>3
  <2>. QED
    BY <1>1, <1>2, <2>2, <2>3 DEF Inv, TypeOK, benchVars, argVars
<1>7. Control'
  <2>1. pc' \in ScriptPcs
    BY <1>3 DEF ScriptPcs
  <2>2. \A p \in Prngs : job'[p] = "none"
    BY <1>1 DEF Inv, Control
  <2>3. seeds' \in SeedLists /\ k' \in 1..Len(seeds')
    BY <1>1, <1>2, <1>3 DEF argVars
  <2>. QED
    BY <2>1, <2>2, <2>3 DEF Control
<1>8. Testing' /\ Listed' /\ Outputs'
  <2>1. pc' \in {"json", "success"}
    BY <1>3
  <2>2. \A s : ListsOK(s)' <=> ListsOK(s)
    BY <1>1 DEF ListsOK, Good, Failed, Having
  <2>3. \A i \in 1..Len(seeds) : ListsOK(seeds[i])
    BY <1>1 DEF Inv, Listed, Behind, FirstLoop, ListNames
  <2>4. Listed'
    BY <1>1, <2>1, <2>2, <2>3 DEF Listed, argVars
  <2>5. Testing'
    BY <1>1, <2>1 DEF Inv, Testing, Behind, argVars
  <2>6. Outputs'
    BY <1>1, <2>1 DEF Inv, Outputs
  <2>. QED
    BY <2>4, <2>5, <2>6
<1>9. Joined'
  <2>1. \A s \in Seeds : s = Seed => JsonOK(s)'
    <3>1. json'[Seed] = Records(Seed)
      BY <1>1, <1>2 DEF Inv, TypeOK
    <3>2. \A s : UNCHANGED Having(s, "neither")
      BY <1>1 DEF Having
    <3>. QED
      BY <1>1, <1>4, <3>1, <3>2 DEF JsonOK, benchVars
  <2>2. \A s \in Seeds : s # Seed /\ JsonOK(s) => JsonOK(s)'
    <3>1. \A s \in Seeds : s # Seed => json'[s] = json[s]
      BY <1>1 DEF Inv, TypeOK
    <3>2. \A s : UNCHANGED Having(s, "neither")
      BY <1>1 DEF Having
    <3>. QED
      BY <1>1, <3>1, <3>2 DEF JsonOK, benchVars
  <2>3. \A i \in 1..k : JsonOK(seeds[i])'
    <3>1. \A i \in 1..k : i \in 1..Len(seeds) /\ (i \in 1..(k - 1) \/ i = k)
      BY <1>2
    <3>2. \A i \in 1..(k - 1) : JsonOK(seeds[i])
      BY <1>1 DEF Inv, Joined
    <3>3. seeds' = seeds
      BY <1>1 DEF argVars
    <3>. QED
      BY <1>2, <2>1, <2>2, <3>1, <3>2, <3>3 DEF Seed
  <2>. QED
    BY <1>1, <1>2, <1>3, <1>5, <2>3 DEF Joined, argVars, benchVars
<1>10. Benchmarking'
  BY <1>3 DEF Benchmarking, BenchmarkComplete, BenchmarkPcs
<1>. QED
  BY <1>6, <1>7, <1>8, <1>9, <1>10 DEF Inv

LEMMA ExitInv == ASSUME Inv, Exit PROVE Inv'
<1>1. Leave /\ UNCHANGED <<fileVars, cut, runs>> /\ pc = "success"
  BY DEF Exit
<1>2. TypeOK'
  BY <1>1 DEF Inv, TypeOK, Leave, NoJobs, fileVars, benchVars
<1>3. Outputs'
  BY <1>1 DEF Inv, Outputs, Leave, fileVars
<1>. QED
  BY <1>1, <1>2, <1>3, LeaveInv DEF fileVars

(* A test that is stopped is one that is cut short.                           *)
LEMMA StoppedInv == ASSUME Inv, Stopped PROVE Inv'
<1>1. /\ Leave /\ UNCHANGED <<out, benchVars, runs>> /\ pc \in ScriptPcs
      /\ cut' = cut \cup {<<Seed, p>> : p \in {q \in Prngs : Running(q)}}
  BY DEF Stopped, ScriptPcs, FirstLoop
<1>2. Seed \in Seeds
  BY <1>1, SeedsAreSeeds DEF Inv
<1>3. TypeOK'
  <2>1. /\ lists' \in [ListNames -> [Seeds -> SUBSET Prngs]]
        /\ json' \in [Seeds -> SUBSET [prng : Prngs, length : 1..Reports,
                                       failure : BOOLEAN, age : 1..MaxBenchmarks]]
    <3>1. CASE UNCHANGED <<lists, json>>
      BY <3>1 DEF Inv, TypeOK
    <3>2. ASSUME pc \in ListNames, NEW part \in SUBSET Content(pc),
                 lists' = [lists EXCEPT ![pc][Seed] = part], UNCHANGED json
          PROVE  <2>1!1 /\ <2>1!2
      <4>1. Content(pc) \subseteq Prngs
        BY <1>2, <3>2 DEF Inv, TypeOK, Content, GoodFiles, HasFail, HasLength, ListNames
      <4>. QED
        BY <1>2, <3>2, <4>1 DEF Inv, TypeOK
    <3>3. CASE json' = [json EXCEPT ![Seed] = {}] /\ UNCHANGED lists
      BY <1>2, <3>3 DEF Inv, TypeOK
    <3>. QED
      BY <3>1, <3>2, <3>3 DEF Stopped
  <2>2. cut' \subseteq Seeds \X Prngs
    BY <1>1, <1>2 DEF Inv, TypeOK
  <2>. QED
    BY <1>1, <2>1, <2>2 DEF Inv, TypeOK, Leave, NoJobs, benchVars
<1>4. Outputs'
  BY <1>1 DEF Inv, Outputs, Leave
<1>. QED
  BY <1>1, <1>3, <1>4, LeaveInv

-----------------------------------------------------------------------------
(* run-benchmarks.bash, between invocations: it touches no variable of the    *)
(* other script, and no file but its own.                                     *)

LEMMA BetweenInvocations ==
    ASSUME Inv, pc \notin ScriptPcs, pc' \in BenchmarkPcs \cup {"idle"}, UNCHANGED scriptVars
    PROVE  Control' /\ Testing' /\ Outputs' /\ Listed' /\ Joined'
<1>1. /\ seeds = <<>> /\ k = 1 /\ info = {} /\ dry = FALSE /\ tested = {}
      /\ UNCHANGED <<seeds, k, info, dry, tested, job, out, cut>>
  BY DEF Inv, Control, scriptVars, argVars
<1>2. /\ pc # "parallel" /\ pc' \notin ScriptPcs
      /\ pc' \notin ListNames \cup {"parallel", "json", "success"}
  BY DEF ScriptPcs, FirstLoop, ListNames, BenchmarkPcs
<1>3. Control'
  BY <1>1, <1>2 DEF Inv, Control
<1>4. Testing'
  BY <1>1, <1>2 DEF Testing
<1>5. Listed' /\ Joined'
  BY <1>1, <1>2 DEF Listed, Joined, ListNames
<1>6. Outputs'
  BY <1>1, <1>2 DEF Inv, Outputs
<1>. QED
  BY <1>3, <1>4, <1>5, <1>6

(* The run that comes to its summary has gone through every stage.            *)
LEMMA BenchmarkStepsInv == ASSUME Inv, BenchmarkSteps \/ Benchmark PROVE Inv'
<1>. DEFINE Results == [prngs : SUBSET Prngs, age : 0..MaxBenchmarks]
<1>1. raw \in Results /\ bench \in Results /\ benchmarks \in 0..MaxBenchmarks
  BY DEF Inv, TypeOK
<1>2. ASSUME pc \notin ScriptPcs, pc' \in BenchmarkPcs \cup {"idle"}, UNCHANGED scriptVars,
             raw' \in Results, bench' \in Results, benchmarks' \in 0..MaxBenchmarks, Benchmarking'
      PROVE  Inv'
  <2>1. TypeOK'
    BY <1>2 DEF Inv, TypeOK, scriptVars, argVars, BenchmarkPcs
  <2>. QED
    BY <1>2, <2>1, BetweenInvocations DEF Inv
<1>3. \A s : s \in BenchmarkPcs \cup {"idle"} => s \notin ScriptPcs
  BY DEF ScriptPcs, FirstLoop, ListNames, BenchmarkPcs
<1>4. CASE Benchmark
  <2>1. /\ pc = "idle" /\ pc' = "program" /\ benchmarks' \in 1..MaxBenchmarks
        /\ UNCHANGED <<raw, bench, scriptVars>>
    BY <1>1, <1>4, BoundsAssumption DEF Benchmark
  <2>2. Benchmarking'
    BY <2>1 DEF Benchmarking, BenchmarkComplete, BenchmarkPcs
  <2>. QED
    BY <1>1, <1>2, <1>3, <2>1, <2>2 DEF BenchmarkPcs
<1>5. CASE RunProgram
  <2>1. /\ pc = "program" /\ UNCHANGED <<bench, benchmarks, scriptVars>>
        /\ (pc' = "filter" /\ raw' = [prngs |-> Prngs, age |-> benchmarks]) \/ pc' = "idle"
        /\ raw' \in Results
    BY <1>1, <1>5 DEF RunProgram
  <2>2. Benchmarking'
    BY <2>1 DEF Inv, Benchmarking, BenchmarkComplete, BenchmarkPcs
  <2>. QED
    BY <1>1, <1>2, <1>3, <2>1, <2>2 DEF BenchmarkPcs
<1>6. CASE Truncate
  <2>1. /\ pc = "filter" /\ pc' \in {"sort", "idle"} /\ UNCHANGED <<raw, benchmarks, scriptVars>>
        /\ bench' = [prngs |-> {}, age |-> raw.age]
    BY <1>6 DEF Truncate
  <2>2. Benchmarking'
    BY <2>1 DEF Inv, Benchmarking, BenchmarkComplete, BenchmarkPcs
  <2>3. bench' \in Results
    BY <1>1, <2>1
  <2>. QED
    BY <1>1, <1>2, <1>3, <2>1, <2>2, <2>3 DEF BenchmarkPcs
<1>7. CASE WriteSorted
  <2>1. PICK part \in SUBSET raw.prngs :
          bench' = [bench EXCEPT !.prngs = part] /\ pc' \in AfterSort(part)
    BY <1>7 DEF WriteSorted
  <2>2. /\ pc = "sort" /\ UNCHANGED <<raw, benchmarks, scriptVars>>
        /\ pc' = "idle" \/ (pc' = "summary" /\ part = raw.prngs)
    BY <1>7, <2>1 DEF WriteSorted, AfterSort
  <2>3. bench' = [prngs |-> part, age |-> bench.age] /\ bench' \in Results
    BY <1>1, <2>1
  <2>4. raw.prngs = Prngs /\ bench.age = benchmarks /\ benchmarks > 0
    BY <2>2 DEF Inv, Benchmarking, BenchmarkPcs
  <2>5. Benchmarking'
    BY <2>2, <2>3, <2>4 DEF Benchmarking, BenchmarkComplete, BenchmarkPcs
  <2>. QED
    BY <1>1, <1>2, <1>3, <2>2, <2>3, <2>5 DEF BenchmarkPcs
<1>8. CASE Summary
  <2>1. pc = "summary" /\ pc' = "idle" /\ UNCHANGED <<raw, bench, benchmarks, scriptVars>>
    BY <1>8 DEF Summary, benchVars
  <2>2. Benchmarking'
    BY <2>1 DEF Benchmarking, BenchmarkComplete, BenchmarkPcs
  <2>. QED
    BY <1>1, <1>2, <1>3, <2>1, <2>2 DEF BenchmarkPcs
<1>. QED
  BY <1>4, <1>5, <1>6, <1>7, <1>8 DEF BenchmarkSteps

LEMMA StutterInv == ASSUME Inv, UNCHANGED vars PROVE Inv'
<1>. USE DEF Inv, vars, fileVars, benchVars, argVars
<1>1. TypeOK'
  BY DEF TypeOK
<1>2. Control' /\ Testing'
  BY DEF Control, Testing, Behind, Seed
<1>3. Outputs'
  BY DEF Outputs, Running, Seed
<1>4. Listed'
  BY DEF Listed, Behind, ListsOK, Good, Failed, Having, Seed
<1>5. Joined' /\ Benchmarking'
  BY DEF Joined, JsonOK, Having, Benchmarking, BenchmarkComplete
<1>. QED
  BY <1>1, <1>2, <1>3, <1>4, <1>5

-----------------------------------------------------------------------------
LEMMA Safety == Spec => []Inv
<1>1. Inv /\ [Next]_vars => Inv'
  <2>. SUFFICES ASSUME Inv, [Next]_vars PROVE Inv'
    OBVIOUS
  <2>1. CASE Script
    BY <2>1, BuildCommandsInv, ParallelEndsInv, WriteListInv, WriteJsonInv, ExitInv DEF Script
  <2>2. ASSUME NEW p \in Prngs, JobStep(p) PROVE Inv'
    BY <2>2, StartJobInv, ReportInv, CutShortInv DEF JobStep
  <2>3. CASE Invoke \/ Stopped
    BY <2>3, InvokeInv, StoppedInv
  <2>4. CASE BenchmarkSteps \/ Benchmark
    BY <2>4, BenchmarkStepsInv
  <2>5. CASE Done \/ UNCHANGED vars
    BY <2>5, StutterInv DEF Done
  <2>. QED
    BY <2>1, <2>2, <2>3, <2>4, <2>5 DEF Next
<1>. QED
  BY <1>1, InitInv, PTL DEF Spec

(* The type invariant.                                                        *)
THEOREM TypeCorrect == Spec => []TypeOK
<1>1. Inv => TypeOK
  BY DEF Inv
<1>. QED
  BY <1>1, Safety, PTL

(* However many PRNGs, seed types, interrupted invocations and benchmarks came*)
(* before: an invocation of test-prng-dump.bash that succeeds leaves lists and*)
(* json files that say what the output files say.                             *)
THEOREM ResultsAreTheOutputs == Spec => []ResultsMatchOutputs
<1>1. Inv => ResultsMatchOutputs
  <2>. SUFFICES ASSUME Inv, pc = "success", NEW s \in SeedsGiven
                PROVE  ListsOK(s) /\ (bench.age > 0 => JsonOK(s))
    BY DEF ResultsMatchOutputs, ListsOK, Good, Failed, JsonOK
  <2>1. PICK i \in 1..Len(seeds) : s = seeds[i]
    BY DEF SeedsGiven
  <2>. QED
    BY <2>1 DEF Inv, Listed, Joined, Behind, FirstLoop, ListNames
<1>. QED
  BY <1>1, Safety, PTL

(* It has tested every PRNG selected with every seed type given.              *)
THEOREM EveryPrngTested == Spec => []AllTested
<1>1. Inv => AllTested
  BY DEF Inv, Testing, Behind, AllTested, SeedsGiven
<1>. QED
  BY <1>1, Safety, PTL

(* And a PRNG that it lists as good passed every report, or was cut short.    *)
THEOREM GoodIsGoodOrCut == Spec => []GoodReachedTlmaxOrCut
<1>1. Inv => GoodReachedTlmaxOrCut
  <2>. SUFFICES ASSUME Inv, pc = "success", NEW s \in SeedsGiven, NEW p \in lists["files.good"][s]
                PROVE  out[s][p].length = Reports \/ <<s, p>> \in cut
    BY DEF GoodReachedTlmaxOrCut
  <2>1. PICK i \in 1..Len(seeds) : s = seeds[i]
    BY DEF SeedsGiven
  <2>2. ListsOK(s)
    BY <2>1 DEF Inv, Listed, Behind, FirstLoop, ListNames
  <2>3. s \in Seeds
    BY <2>1, SeedsAreSeeds DEF Inv, ScriptPcs
  <2>4. p \in Prngs /\ Verdict(out[s][p]) = "good"
    BY <2>2 DEF ListsOK, Good, Having
  <2>5. out[s][p].length # 0 /\ ~out[s][p].fail
    <3>1. out[s][p].length \in 0..Reports /\ out[s][p].fail \in BOOLEAN
      BY <2>3, <2>4 DEF Inv, TypeOK
    <3>. QED
      BY <2>4, <3>1, ReportsAssumption DEF Verdict
  <2>. QED
    BY <2>3, <2>4, <2>5 DEF Inv, Outputs
<1>. QED
  BY <1>1, Safety, PTL

(* A run of run-benchmarks.bash that comes to its summary has put every PRNG, *)
(* with its own figures, in the file that the test script joins with.         *)
THEOREM BenchmarkIsComplete == Spec => []BenchmarkComplete
<1>1. Inv => BenchmarkComplete
  BY DEF Inv, Benchmarking
<1>. QED
  BY <1>1, Safety, PTL

(* An invocation changes the results of its own seed types and PRNGs only.    *)
THEOREM ChangesOwnResultsOnly == Spec => OwnResultsOnly
<1>. DEFINE Own ==
       /\ \A s \in Seeds \ SeedsGiven :
            UNCHANGED <<out[s], json[s]>> /\ \A l \in ListNames : UNCHANGED lists[l][s]
       /\ dry => UNCHANGED out
       /\ \A s \in Seeds, p \in Prngs \ info : UNCHANGED out[s][p]
<1>1. ASSUME Inv, Next PROVE Own
  <2>1. CASE UNCHANGED <<out, lists, json>>
    BY <2>1
  <2>2. ASSUME pc \in ScriptPcs, UNCHANGED out,
               \A s \in Seeds \ {Seed} : UNCHANGED json[s] /\ \A l \in ListNames : UNCHANGED lists[l][s]
        PROVE  Own
    <3>1. Seed \in SeedsGiven
      BY <1>1, <2>2, SeedsAreSeeds DEF Inv, Seed, SeedsGiven
    <3>. QED
      BY <2>2, <3>1
  <2>3. ASSUME NEW p \in Prngs, job[p] # "none", UNCHANGED <<lists, json>>,
               \A s \in Seeds, q \in Prngs : s # Seed \/ q # p => UNCHANGED out[s][q],
               \A s \in Seeds \ {Seed} : UNCHANGED out[s]
        PROVE  Own
    <3>1. pc = "parallel" /\ ~dry /\ p \in info /\ Seed \in SeedsGiven
      BY <1>1, <2>3, JobsAreParallel DEF Seed, SeedsGiven
    <3>. QED
      BY <2>3, <3>1
  <2>4. ASSUME NEW p \in Prngs, JobStep(p) PROVE Own
    <3>1. job[p] # "none"
      BY <2>4 DEF JobStep, StartJob, Report, CutShort, Running
    <3>2. Seed \in Seeds
      BY <1>1, <3>1, JobsAreParallel
    <3>3. \A f : out' = [out EXCEPT ![Seed][p] = f] =>
             /\ \A s \in Seeds, q \in Prngs : s # Seed \/ q # p => UNCHANGED out[s][q]
             /\ \A s \in Seeds \ {Seed} : UNCHANGED out[s]
      BY <1>1, <3>2 DEF Inv, TypeOK
    <3>4. CASE StartJob(p)
      BY <2>3, <3>1, <3>3, <3>4 DEF StartJob
    <3>5. ASSUME NEW fail \in BOOLEAN, Report(p, fail) PROVE Own
      <4>1. out' = [out EXCEPT ![Seed][p] = [length |-> out[Seed][p].length + 1, fail |-> fail]]
            /\ UNCHANGED <<lists, json>>
        BY <3>5 DEF Report
      <4>. QED
        BY <2>3, <3>1, <3>3, <4>1
    <3>6. CASE CutShort(p)
      BY <2>1, <3>6 DEF CutShort, fileVars
    <3>. QED
      BY <2>4, <3>4, <3>5, <3>6 DEF JobStep
  <2>5. ASSUME NEW l \in ListNames, WriteList(l) PROVE Own
    <3>1. \A s \in Seeds \ {Seed}, m \in ListNames : lists'[m][s] = lists[m][s]
      BY <1>1, <2>5 DEF WriteList, Inv, TypeOK
    <3>. QED
      BY <2>2, <2>5, <3>1 DEF WriteList, ScriptPcs, FirstLoop
  <2>6. CASE WriteJson
    <3>1. \A s \in Seeds \ {Seed} : json'[s] = json[s]
      BY <1>1, <2>6 DEF WriteJson, Inv, TypeOK
    <3>. QED
      BY <2>2, <2>6, <3>1 DEF WriteJson, ScriptPcs
  <2>7. CASE Stopped
    <3>1. /\ \A s \in Seeds \ {Seed}, m \in ListNames : lists'[m][s] = lists[m][s]
          /\ \A s \in Seeds \ {Seed} : json'[s] = json[s]
      <4>1. \/ UNCHANGED <<lists, json>>
            \/ \E part : lists' = [lists EXCEPT ![pc][Seed] = part] /\ UNCHANGED json
            \/ json' = [json EXCEPT ![Seed] = {}] /\ UNCHANGED lists
        BY <2>7 DEF Stopped
      <4>2. /\ lists \in [ListNames -> [Seeds -> SUBSET Prngs]]
            /\ \A s \in Seeds : s \in DOMAIN json
        BY <1>1 DEF Inv, TypeOK
      <4>. QED
        BY <4>1, <4>2
    <3>. QED
      BY <2>2, <2>7, <3>1 DEF Stopped, ScriptPcs, FirstLoop
  <2>8. CASE BuildCommands \/ ParallelEnds \/ Exit \/ Invoke \/ Done
    BY <2>1, <2>8 DEF BuildCommands, Queue, ParallelEnds, Exit, Invoke, Done, vars, fileVars
  <2>9. CASE BenchmarkSteps \/ Benchmark
    BY <2>1, <2>9 DEF BenchmarkSteps, Benchmark, RunProgram, Truncate, WriteSorted, Summary, scriptVars
  <2>. QED
    BY <1>1, <2>4, <2>5, <2>6, <2>7, <2>8, <2>9 DEF Next, Script
<1>2. Inv /\ [Next]_vars => [Own]_vars
  BY <1>1
<1>. HIDE DEF Own
<1>3. Spec => [][Own]_vars
  BY <1>2, Safety, PTL DEF Spec
<1>. QED
  BY <1>3 DEF Own, OwnResultsOnly
=============================================================================
