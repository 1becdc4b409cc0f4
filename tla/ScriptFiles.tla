------------------------------ MODULE ScriptFiles ------------------------------
(* test-prng-dump.bash as a process among others: what it was asked to test   *)
(* passes through two files in XDG_RUNTIME_DIR, the info file and the commands*)
(* file, which every invocation shares and which outlive it, to the jobs that *)
(* write the outputs in results/.  Every access to a file is a step.          *)
(*                                                                            *)
(* Lines and reports have one length: lines written over other lines replace  *)
(* them, and are not torn.  How the outputs are classified is in TestRun.     *)
EXTENDS Naturals, FiniteSets, Functions, SequencesExt

CONSTANTS
    Listed,         \* the PRNGs, in the order in which prng-dump -i lists them
    ShortSeeds,     \* the -s options of "make short-test"
    UserOptions,    \* options that a user gives, other than those of the Makefile
    Reports,        \* bound: reports of one test
    MaxRuns,        \* bound: invocations of the script
    AtOnce,         \* how many of them may be under way at a time
    Hole            \* what a file has where nobody wrote

Prngs == {Listed[i] : i \in 1..Len(Listed)}

VALID_SEED_TYPES == {"default", "pattern", "random", "zero"}

(* The targets of the Makefile.                                               *)
Target(tlmax, tf, seeds, jobs, dry) ==
    [args |-> <<>>, tlmax |-> tlmax, tf |-> tf, seeds |-> seeds, jobs |-> jobs, dry |-> dry]

MakeTargets_OneTf ==    \* mutant: $(TF_SHORT) in the dry run of the long test
    {Target("256MB", 1, ShortSeeds, 2, dry) : dry \in BOOLEAN}
      \cup {Target("512GB", IF dry THEN 1 ELSE 2, <<"random">>, 1, dry) : dry \in BOOLEAN}

MakeTargets ==
    {Target("256MB", 1, ShortSeeds, 2, dry) : dry \in BOOLEAN}
      \cup {Target("512GB", 2, <<"random">>, 1, dry) : dry \in BOOLEAN}

Options == MakeTargets \cup UserOptions
Runs    == 1..MaxRuns
Seeds   == {"random"} \cup UNION {{o.seeds[i] : i \in 1..Len(o.seeds)} : o \in Options}

Command(p, o, k) == [prng |-> p, tlmax |-> o.tlmax, tf |-> o.tf, seed |-> o.seeds[k]]
Commands == UNION {{Command(p, o, k) : p \in Prngs, k \in 1..Len(o.seeds)} : o \in Options}

(* The name of an output file: -f is not in it.                               *)
File(c) == [prng |-> c.prng, tlmax |-> c.tlmax, seed |-> c.seed]
Files   == [prng : Prngs, tlmax : {o.tlmax : o \in Options}, seed : Seeds]

(* A report in one: which job of which invocation wrote it, with which -tf.   *)
Output == [run : Runs, job : Nat \ {0}, tf : Nat]

(* prng-dump -i prints the keys of a map.                                     *)
ASSUME ListedAssumption == Listed \in Seq(Prngs) /\ IsInjective(Listed)

(* An argument stands for the PRNGs whose lines it matches.  There is always  *)
(* a seed type: without -s the script takes its default.                      *)
ASSUME OptionsAssumption ==
    /\ ShortSeeds \in Seq(VALID_SEED_TYPES) \ {<<>>}
    /\ UserOptions \subseteq
          [args : Seq(SUBSET Prngs), tlmax : STRING, tf : Nat,
           seeds : Seq(VALID_SEED_TYPES) \ {<<>>}, jobs : Nat \ {0}, dry : BOOLEAN]

ASSUME BoundsAssumption == Reports \in Nat \ {0} /\ MaxRuns \in Nat

ASSUME HoleAssumption == Hole \notin Prngs \cup Commands \cup Output

VARIABLES
    info,       \* PRNG_DUMP_INFO_FILE: a PRNG per line
    cmds,       \* PRNG_DUMP_CMDS_FILE: a command per line
    out,        \* out[f]: the reports in an output file, each with the job that made it
    inv         \* the invocations:
                \*   pc, opts    step, options
                \*   k           index of the argument, then of the seed type
                \*   r, line     lines read from the info file, the last of them
                \*   w           lines written to the commands file
                \*   d, pending  lines that parallel read from it, those not started yet
                \*   jobs        the jobs so far, each with the reports it wrote

vars == <<info, cmds, out, inv>>

NotStarted ==
    [pc |-> "new", opts |-> CHOOSE o \in Options : TRUE, k |-> 1, r |-> 0, line |-> Hole,
     w |-> 0, d |-> 0, pending |-> <<>>, jobs |-> <<>>]

Init ==
    /\ info = <<>> /\ cmds = <<>>
    /\ out = [f \in Files |-> <<>>]
    /\ inv = [n \in Runs |-> NotStarted]

-----------------------------------------------------------------------------
(* Files                                                                      *)

Put_Append(file, i, x) == Append(file, x)   \* mutant: O_APPEND

(* A write at an offset of the writer's own, perhaps beyond the end.          *)
Put(file, i, x) ==
    [j \in 1..(IF i > Len(file) THEN i ELSE Len(file)) |->
        IF j = i THEN x ELSE IF j <= Len(file) THEN file[j] ELSE Hole]

(* A write of lines at offset 0.                                              *)
Overlay(file, lines) == lines \o SubSeq(file, Len(lines) + 1, Len(file))

Truncated_Not(file) == file     \* mutant: what an earlier invocation left stays
Truncated(file) == <<>>         \* O_TRUNC, truncate --size=0

OpenOutput_Append(file) == file     \* mutant: >> instead of >
OpenOutput(file) == <<>>

-----------------------------------------------------------------------------
Active(n) == inv[n].pc \notin {"new", "ended"}

Becomes(n, invocation) == inv' = [inv EXCEPT ![n] = invocation]

Start(n, o) ==
    /\ inv[n].pc = "new"
    /\ n > 1 => inv[n - 1].pc # "new"
    /\ Cardinality({m \in Runs : Active(m)}) < AtOnce
    /\ Becomes(n, [inv[n] EXCEPT !.pc = "truncate", !.opts = o])
    /\ UNCHANGED <<info, cmds, out>>

(* The info file is emptied, by the shell before prng-dump -i runs or by the  *)
(* truncate command.                                                          *)
TruncateInfo(n) ==
    /\ inv[n].pc = "truncate"
    /\ info' = Truncated(info)
    /\ Becomes(n, [inv[n] EXCEPT !.pc = IF inv[n].opts.args = <<>> THEN "list" ELSE "grep"])
    /\ UNCHANGED <<cmds, out>>

(* prng-dump -i > info                                                        *)
List(n) ==
    /\ inv[n].pc = "list"
    /\ info' = Overlay(info, Listed)
    /\ Becomes(n, [inv[n] EXCEPT !.pc = "open"])
    /\ UNCHANGED <<cmds, out>>

(* The lines with a word that is the argument: any set of them, as the lines  *)
(* have numbers too.                                                          *)
Matching(arg) ==
    FlattenSeq([i \in 1..Len(Listed) |-> IF Listed[i] \in arg THEN <<Listed[i]>> ELSE <<>>])

(* prng-dump -i | grep -w -F -- PRNG >> info || exit, for each argument.      *)
Grep(n) ==
    /\ inv[n].pc = "grep"
    /\ LET args  == inv[n].opts.args
           found == Matching(args[inv[n].k])
       IN  /\ info' = info \o found
           /\ Becomes(n, [inv[n] EXCEPT
                  !.pc = IF found = <<>> THEN "ended" ELSE IF inv[n].k < Len(args) THEN "grep" ELSE "open",
                  !.k  = IF inv[n].k < Len(args) THEN @ + 1 ELSE 1])
    /\ UNCHANGED <<cmds, out>>

(* while read ...; do ...; done < info > cmds, for a seed type.               *)
Open(n) ==
    /\ inv[n].pc = "open"
    /\ cmds' = Truncated(cmds)
    /\ Becomes(n, [inv[n] EXCEPT !.pc = "read", !.r = 0, !.w = 0])
    /\ UNCHANGED <<info, out>>

ReadLine(n) ==
    /\ inv[n].pc = "read"
    /\ Becomes(n, IF inv[n].r < Len(info)
                  THEN [inv[n] EXCEPT !.pc = "write", !.line = info[inv[n].r + 1], !.r = @ + 1]
                  ELSE [inv[n] EXCEPT !.pc = "parallel", !.d = 0])
    /\ UNCHANGED <<info, cmds, out>>

WriteCommand(n) ==
    /\ inv[n].pc = "write"
    /\ cmds' = Put(cmds, inv[n].w + 1, Command(inv[n].line, inv[n].opts, inv[n].k))
    /\ Becomes(n, [inv[n] EXCEPT !.pc = "read", !.w = @ + 1, !.line = Hole])
    /\ UNCHANGED <<info, out>>

-----------------------------------------------------------------------------
(* parallel and its jobs                                                      *)

(* parallel reads a command, some time before it runs it.                     *)
ReadCommand(n) ==
    /\ inv[n].pc = "parallel"
    /\ Becomes(n, IF inv[n].d < Len(cmds)
                  THEN [inv[n] EXCEPT !.d = @ + 1, !.pending = Append(@, cmds[inv[n].d + 1])]
                  ELSE [inv[n] EXCEPT !.pc = "wait"])
    /\ UNCHANGED <<info, cmds, out>>

Unfinished(n) == {j \in 1..Len(inv[n].jobs) : inv[n].jobs[j].status = "running"}

(* With --dry-run a command is not run; one without a command runs nothing.   *)
StartJob(n) ==
    /\ inv[n].pc \in {"parallel", "wait"}
    /\ inv[n].pending # <<>>
    /\ LET c == Head(inv[n].pending)
           none == inv[n].opts.dry \/ c = Hole
       IN  /\ none \/ Cardinality(Unfinished(n)) < inv[n].opts.jobs
           /\ Becomes(n, [inv[n] EXCEPT
                  !.pending = Tail(@),
                  !.jobs = IF none THEN @ ELSE Append(@, [cmd |-> c, wrote |-> 0, status |-> "running"])])
           /\ out' = IF none THEN out ELSE [out EXCEPT ![File(c)] = OpenOutput(@)]
    /\ UNCHANGED <<info, cmds>>

(* RNG_test writes a report, at its own offset; it stops at TLMAX.            *)
Report(n, j) ==
    /\ j \in Unfinished(n)
    /\ LET job == inv[n].jobs[j]
       IN  /\ out' = [out EXCEPT ![File(job.cmd)] =
                        Put(@, job.wrote + 1, [run |-> n, job |-> j, tf |-> job.cmd.tf])]
           /\ Becomes(n, [inv[n] EXCEPT !.jobs[j] =
                  [job EXCEPT !.wrote = @ + 1, !.status = IF job.wrote + 1 = Reports THEN "ended" ELSE @]])
    /\ UNCHANGED <<info, cmds>>

(* It stops earlier after a failure, or when a process of the pipeline dies.  *)
EndJob(n, j) ==
    /\ j \in Unfinished(n)
    /\ Becomes(n, [inv[n] EXCEPT !.jobs[j].status = "ended"])
    /\ UNCHANGED <<info, cmds, out>>

(* The next seed type, or the end.                                            *)
ParallelEnds(n) ==
    /\ inv[n].pc = "wait"
    /\ inv[n].pending = <<>>
    /\ Unfinished(n) = {}
    /\ Becomes(n, IF inv[n].k < Len(inv[n].opts.seeds)
                  THEN [inv[n] EXCEPT !.pc = "open", !.k = @ + 1]
                  ELSE [inv[n] EXCEPT !.pc = "success"])
    /\ UNCHANGED <<info, cmds, out>>

Step(n) ==
    \/ TruncateInfo(n) \/ List(n) \/ Grep(n)
    \/ Open(n) \/ ReadLine(n) \/ WriteCommand(n)
    \/ ReadCommand(n) \/ StartJob(n) \/ ParallelEnds(n)

(* The script ends, or stops early: it is killed, or a command fails that is  *)
(* followed by "|| exit".  Its jobs end with it.                              *)
End(n) ==
    /\ Active(n)
    /\ Becomes(n, [NotStarted EXCEPT !.pc = "ended", !.opts = inv[n].opts])
    /\ UNCHANGED <<info, cmds, out>>

Done == (\A n \in Runs : inv[n].pc = "ended") /\ UNCHANGED vars

Next ==
    \/ \E n \in Runs :
         \/ \E o \in Options : Start(n, o)
         \/ Step(n)
         \/ \E j \in 1..Len(inv[n].jobs) : Report(n, j) \/ EndJob(n, j)
         \/ End(n)
    \/ Done

Spec == Init /\ [][Next]_vars

-----------------------------------------------------------------------------
Job == [cmd : Commands, wrote : 0..Reports, status : {"running", "ended"}]

Invocation ==
    [pc : {"new", "truncate", "list", "grep", "open", "read", "write", "parallel", "wait",
           "success", "ended"},
     opts : Options, k : Nat \ {0}, r : Nat, line : Prngs \cup {Hole}, w : Nat, d : Nat,
     pending : Seq(Commands \cup {Hole}), jobs : Seq(Job)]

Consistent(i) ==
    /\ i.pc \in {"new", "truncate", "list"} => i.k = 1
    /\ i.pc = "write" => i.line # Hole
    /\ i.pc = "grep" => i.k \in 1..Len(i.opts.args)
    /\ i.pc \in {"open", "read", "write", "parallel", "wait", "success"} => i.k \in 1..Len(i.opts.seeds)
    /\ \A j \in 1..Len(i.jobs) : i.jobs[j].status = "running" => i.jobs[j].wrote < Reports

(* Holds however many invocations are under way.                              *)
TypeOK ==
    /\ info \in Seq(Prngs)
    /\ cmds \in Seq(Commands \cup {Hole})
    /\ out \in [Files -> {s \in Seq(Output \cup {Hole}) : Len(s) <= Reports}]
    /\ inv \in [Runs -> Invocation]
    /\ \A n \in Runs : Consistent(inv[n])

(* What an invocation is asked to run: the lines of each argument, with each  *)
(* seed type.                                                                 *)
AskedLines(o) ==
    IF o.args = <<>> THEN Listed
    ELSE FlattenSeq([i \in 1..Len(o.args) |-> Matching(o.args[i])])

Asked(o) ==
    FlattenSeq([k \in 1..Len(o.seeds) |->
        [i \in 1..Len(AskedLines(o)) |-> Command(AskedLines(o)[i], o, k)]])

Succeeds(n) == inv[n].pc = "success"

(* An invocation that succeeds has run the commands it was asked for, in      *)
(* order, as often as they were asked for, and no others, whatever earlier    *)
(* ones left in the shared files; a dry run has run none.  Holds while        *)
(* invocations do not overlap.                                                *)
RunsWhatWasAsked ==
    \A n \in Runs : Succeeds(n) =>
        [j \in 1..Len(inv[n].jobs) |-> inv[n].jobs[j].cmd] =
            IF inv[n].opts.dry THEN <<>> ELSE Asked(inv[n].opts)

LastFor(jobs, j) == \A q \in j+1..Len(jobs) : File(jobs[q].cmd) # File(jobs[j].cmd)

(* When an invocation succeeds, an output file that it wrote is what the last *)
(* job for it wrote, from the first report to the last one, unless a PRNG was *)
(* given twice and two jobs ran at a time.  Holds while invocations do not    *)
(* overlap.                                                                   *)
WholeReports ==
    \A n \in Runs :
        /\ Succeeds(n)
        /\ inv[n].opts.jobs = 1 \/ IsInjective(AskedLines(inv[n].opts))
        => LET jobs == inv[n].jobs IN
           \A j \in 1..Len(jobs) :
              LastFor(jobs, j) =>
                 out[File(jobs[j].cmd)] =
                    [i \in 1..jobs[j].wrote |-> [run |-> n, job |-> j, tf |-> jobs[j].cmd.tf]]

(* "It overwrites the matching files in the results folder", says README.md.  *)
(* Two jobs at a time on one file, a PRNG having been given twice, mix their  *)
(* reports in it, and a user may test with another -f what was tested before: *)
(* even so, when an invocation succeeds, each output file that it wrote holds *)
(* reports of its own jobs for that file only, with its own -f, and has no    *)
(* gap before the end of what the last of those jobs wrote.  Holds while      *)
(* invocations do not overlap.                                                *)
NothingOfOthers ==
    \A n \in Runs : Succeeds(n) =>
        LET jobs == inv[n].jobs
            Own(f, report) == /\ report.run = n /\ report.tf = inv[n].opts.tf
                              /\ report.job \in 1..Len(jobs)
                              /\ File(jobs[report.job].cmd) = f
        IN  \A j \in 1..Len(jobs) :
               LET f == File(jobs[j].cmd)
               IN  /\ \A i \in 1..Len(out[f]) : out[f][i] # Hole => Own(f, out[f][i])
                   /\ LastFor(jobs, j) => \A i \in 1..jobs[j].wrote :
                         i <= Len(out[f]) /\ out[f][i] # Hole

(* What a successful invocation leaves in the outputs it wrote is its own, and*)
(* whole unless two of its jobs wrote one file at a time.                     *)
OutputsAreOwn == NothingOfOthers /\ WholeReports

(* -f is not in the name of an output: while nobody uses the script but       *)
(* through the Makefile, the -tf that an invocation prints is the one with    *)
(* which every output that it classifies was made, in a dry run too.  Holds   *)
(* while invocations do not overlap.                                          *)
FoldingAsPrinted ==
    (\A m \in Runs : inv[m].pc # "new" => inv[m].opts \in MakeTargets) =>
        \A n \in Runs : Succeeds(n) =>
            \A f \in Files : \A i \in 1..Len(out[f]) :
                f.tlmax = inv[n].opts.tlmax /\ f.seed \in ToSet(inv[n].opts.seeds)
                    => out[f][i].tf = inv[n].opts.tf

(* "If PRNGs are not given, they are all tested", says the help, with every   *)
(* seed type.                                                                 *)
AllTestedIfNoneGiven ==
    \A n \in Runs : Succeeds(n) /\ inv[n].opts.args = <<>> /\ ~inv[n].opts.dry =>
        \A p \in Prngs, k \in 1..Len(inv[n].opts.seeds) :
            \E j \in 1..Len(inv[n].jobs) : inv[n].jobs[j].cmd = Command(p, inv[n].opts, k)
=============================================================================
