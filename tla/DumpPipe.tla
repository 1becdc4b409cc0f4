------------------------------- MODULE DumpPipe -------------------------------
(* prng-dump writing to a pipe that RNG_test reads: the loop of prng_dump and *)
(* the retry loop of write_all (prng-dump.cpp), the write(2) calls they make, *)
(* a bounded kernel pipe and a reader that stops when it has read enough.     *)
(*                                                                            *)
(* A byte is its position in the output of the generator: the n-th byte that  *)
(* the successive values of gen() make up is written n.  The kernel moves one *)
(* byte at a time, so that a signal can end a call after any part of it.      *)
EXTENDS Naturals, Sequences

CONSTANTS
    BufSize,        \* buf_size_bytes
    PipeCap,        \* capacity of the pipe, in bytes
    Limit,          \* limit_bytes; 0 is "unlimited"
    TLMax,          \* bytes RNG_test reads before it exits (-tlmax)
    MaxSignals      \* bound: how many signals interrupt a write

ASSUME BufSizeAssumption    == BufSize \in Nat \ {0}
ASSUME PipeCapAssumption    == PipeCap \in Nat \ {0}
ASSUME TLMaxAssumption      == TLMax \in Nat
ASSUME MaxSignalsAssumption == MaxSignals \in Nat

(* -l takes gibibytes, and a gibibyte is a whole number of buffers            *)
(* (static_assert in prng_dump).                                              *)
ASSUME LimitAssumption      ==
    Limit \in Nat /\ \E n \in 0..Limit : Limit = n * BufSize

VARIABLES
    pc,             \* where the dump is
    j,              \* buffers written
    drawn,          \* bytes drawn from the generator
    buf,            \* the buffer being written
    p,              \* bytes of buf that write_all has passed
    count,          \* bytes of buf that write_all has left
    moved,          \* bytes the write(2) under way has put in the pipe
    sigpipe,        \* disposition of SIGPIPE that the process inherited
    signals,        \* signals that have interrupted a write
    pipe,           \* bytes in the pipe
    received,       \* bytes the reader has read
    reader          \* "open", "eof" (saw end of file) or "closed" (left early)

dumpVars   == <<j, drawn, buf, p, count>>
kernelVars == <<moved, signals, pipe>>
readerVars == <<received, reader>>
vars == <<pc, dumpVars, kernelVars, sigpipe, readerVars>>

NumWrites_OneMore == (Limit \div BufSize) + 1     \* mutant: off by one

NumWrites == Limit \div BufSize

Running == pc \in {"loop", "write_all", "syscall"}
Ended   == pc \in {"exited", "failed", "killed"}

Init ==
    /\ pc = "loop"
    /\ j = 0
    /\ drawn = 0
    /\ buf = [i \in 1..BufSize |-> 0]
    /\ p = 0
    /\ count = 0
    /\ moved = 0
    /\ sigpipe \in {"default", "ignored"}
    /\ signals = 0
    /\ pipe = <<>>
    /\ received = <<>>
    /\ reader = "open"

-----------------------------------------------------------------------------
(* The dump                                                                   *)

(* One turn of the outer loop: fill the buffer from the generator and call    *)
(* write_all on it.                                                           *)
Fill ==
    /\ pc = "loop"
    /\ Limit = 0 \/ j < NumWrites
    /\ buf' = [i \in 1..BufSize |-> drawn + i]
    /\ drawn' = drawn + BufSize
    /\ p' = 0
    /\ count' = BufSize
    /\ pc' = "write_all"
    /\ UNCHANGED <<j, kernelVars, sigpipe, readerVars>>

(* The outer loop ends; main returns success.                                 *)
Finish ==
    /\ pc = "loop"
    /\ Limit # 0 /\ j >= NumWrites
    /\ pc' = "exited"
    /\ UNCHANGED <<dumpVars, kernelVars, sigpipe, readerVars>>

(* write_all calls write(fd, p, count) while there is something left.         *)
CallWrite ==
    /\ pc = "write_all"
    /\ count > 0
    /\ moved' = 0
    /\ pc' = "syscall"
    /\ UNCHANGED <<dumpVars, signals, pipe, sigpipe, readerVars>>

(* write_all returns, and the outer loop counts the buffer.                   *)
WriteAllDone ==
    /\ pc = "write_all"
    /\ count = 0
    /\ j' = j + 1
    /\ pc' = "loop"
    /\ UNCHANGED <<drawn, buf, p, count, kernelVars, sigpipe, readerVars>>

Advance_Stuck(n) ==        \* mutant: p is not advanced after a short count
    /\ count' = count - n
    /\ pc' = "write_all"
    /\ UNCHANGED <<j, drawn, buf, p>>

(* write(2) returned n > 0: go on with the rest of the buffer.                *)
Advance(n) ==
    /\ p' = p + n
    /\ count' = count - n
    /\ pc' = "write_all"
    /\ UNCHANGED <<j, drawn, buf>>

Retry_FallThrough ==       \* mutant: no "continue", -1 is added to p
    /\ p' = p - 1
    /\ count' = count + 1
    /\ pc' = "write_all"
    /\ UNCHANGED <<j, drawn, buf>>

Retry_GiveUp ==            \* mutant: "break" in place of "continue"
    /\ count' = 0
    /\ pc' = "write_all"
    /\ UNCHANGED <<j, drawn, buf, p>>

(* write(2) returned -1 with EINTR: "continue", with p and count as they are. *)
Retry ==
    /\ pc' = "write_all"
    /\ UNCHANGED dumpVars

Fail_Retry == Retry        \* mutant: every error is retried

(* write(2) returned -1 with another error: err(EXIT_FAILURE).                *)
Fail ==
    /\ pc' = "failed"
    /\ UNCHANGED dumpVars

-----------------------------------------------------------------------------
(* The write(2) call                                                          *)

(* The kernel copies the next byte of the call into the pipe; it blocks while *)
(* the pipe is full.                                                          *)
Copy ==
    /\ pc = "syscall"
    /\ reader = "open"
    /\ moved < count
    /\ Len(pipe) < PipeCap
    /\ pipe' = Append(pipe, buf[p + moved + 1])
    /\ moved' = moved + 1
    /\ UNCHANGED <<pc, dumpVars, signals, sigpipe, readerVars>>

(* All of the call has been copied.                                           *)
FullWrite ==
    /\ pc = "syscall"
    /\ moved = count
    /\ Advance(moved)
    /\ UNCHANGED <<kernelVars, sigpipe, readerVars>>

(* A signal ends the call: a short count when something was copied, else      *)
(* EINTR.                                                                     *)
Signal ==
    /\ pc = "syscall"
    /\ moved < count
    /\ signals < MaxSignals
    /\ signals' = signals + 1
    /\ IF moved > 0 THEN Advance(moved) ELSE Retry
    /\ UNCHANGED <<moved, pipe, sigpipe, readerVars>>

(* An error that is not about the reader: reported at once when nothing was   *)
(* copied, else by the next call, after a short count.                        *)
DeviceError ==
    /\ pc = "syscall"
    /\ moved < count
    /\ IF moved > 0 THEN Advance(moved) ELSE Fail
    /\ UNCHANGED <<kernelVars, sigpipe, readerVars>>

(* There is no reader: SIGPIPE kills the process, or, when it is ignored, the *)
(* call returns what it copied or EPIPE.                                      *)
BrokenPipe ==
    /\ pc = "syscall"
    /\ reader # "open"
    /\ moved < count
    /\ \/ sigpipe = "default" /\ pc' = "killed" /\ UNCHANGED dumpVars
       \/ sigpipe = "ignored" /\ IF moved > 0 THEN Advance(moved) ELSE Fail
    /\ UNCHANGED <<kernelVars, sigpipe, readerVars>>

-----------------------------------------------------------------------------
(* The reader, RNG_test                                                       *)

(* It reads the next byte of the pipe until it has tested TLMax bytes.        *)
Read ==
    /\ reader = "open"
    /\ Len(received) < TLMax
    /\ pipe # <<>>
    /\ received' = Append(received, Head(pipe))
    /\ pipe' = Tail(pipe)
    /\ UNCHANGED <<pc, dumpVars, moved, signals, sigpipe, reader>>

(* It has read enough and exits.                                              *)
ReadEnough ==
    /\ reader = "open"
    /\ Len(received) = TLMax
    /\ reader' = "closed"
    /\ UNCHANGED <<pc, dumpVars, kernelVars, sigpipe, received>>

(* It dies, at any time.                                                      *)
ReaderDies ==
    /\ reader = "open"
    /\ reader' = "closed"
    /\ UNCHANGED <<pc, dumpVars, kernelVars, sigpipe, received>>

(* The dump has ended and the pipe is drained: end of file.                   *)
EndOfFile ==
    /\ reader = "open"
    /\ Ended
    /\ pipe = <<>>
    /\ reader' = "eof"
    /\ UNCHANGED <<pc, dumpVars, kernelVars, sigpipe, received>>

(* Both processes are gone.                                                   *)
Done ==
    /\ Ended
    /\ reader # "open"
    /\ UNCHANGED vars

-----------------------------------------------------------------------------
Dump   == Fill \/ Finish \/ CallWrite \/ WriteAllDone
Kernel == Copy \/ FullWrite \/ BrokenPipe
Fault  == Signal \/ DeviceError \/ ReaderDies
Reader == Read \/ ReadEnough \/ EndOfFile

Next == Dump \/ Kernel \/ Fault \/ Reader \/ Done

(* A process that can run is run, and so is the kernel's side of a call.      *)
(* Nothing is assumed of signals, errors and crashes.                         *)
Fairness == WF_vars(Dump) /\ WF_vars(Kernel) /\ WF_vars(Reader)

Spec == Init /\ [][Next]_vars /\ Fairness

-----------------------------------------------------------------------------
TypeOK ==
    /\ pc \in {"loop", "write_all", "syscall", "exited", "failed", "killed"}
    /\ j \in Nat
    /\ drawn \in Nat
    /\ buf \in [1..BufSize -> Nat]
    /\ p \in 0..BufSize
    /\ count \in 0..BufSize
    /\ moved \in 0..BufSize
    /\ sigpipe \in {"default", "ignored"}
    /\ signals \in 0..MaxSignals
    /\ pipe \in Seq(Nat) /\ Len(pipe) <= PipeCap
    /\ received \in Seq(Nat)
    /\ reader \in {"open", "eof", "closed"}

(* Bytes that have left the dump.                                             *)
Sent == Len(received) + Len(pipe)

(* The reader has a prefix of the generator's output, and the pipe holds what *)
(* comes next: no partial write, EINTR or retry of write_all loses, repeats   *)
(* or reorders a byte.                                                        *)
InOrder ==
    /\ \A i \in 1..Len(received) : received[i] = i
    /\ \A i \in 1..Len(pipe) : pipe[i] = Len(received) + i

(* Every byte drawn from the generator has been sent or is still to be sent   *)
(* by write_all, whatever mixture of short counts and EINTR it met; and when  *)
(* the outer loop turns, nothing is left behind.                              *)
Conservation ==
    /\ pc = "loop" => Sent = drawn
    /\ pc = "write_all" => Sent + count = drawn
    /\ pc = "syscall" => Sent + (count - moved) = drawn
    /\ Ended => Sent <= drawn

(* "Limit the output to no more than MAX gibibytes": the limit is never       *)
(* passed, and a dump that exits with success has sent exactly the limit.     *)
LimitObeyed ==
    /\ Limit # 0 => drawn <= Limit
    /\ pc = "exited" => Limit # 0 /\ Sent = Limit

(* A dump with a limit always ends, even when nobody stops it.                *)
LimitedDumpEnds == Limit # 0 => <>Ended

(* A dump does not outlive its reader: once RNG_test has left, the dump ends, *)
(* whatever it inherited for SIGPIPE.  With no limit this is the only thing   *)
(* that ends it.  A limited dump may also end by itself.                      *)
NoOrphan == (reader = "closed") ~> Ended

(* RNG_test never waits for ever: it gets all it reads, or an end of file.    *)
ReaderServed == <>(reader # "open")

-----------------------------------------------------------------------------
(* What the reader sees is a ByteStream.                                      *)
StreamStatus ==
    CASE reader = "open"                     -> "open"
      [] reader = "closed"                   -> "abandoned"
      [] reader = "eof" /\ pc = "exited"     -> "complete"
      [] OTHER                               -> "cut"

Stream == INSTANCE ByteStream WITH out <- received, status <- StreamStatus

(* The dump, the kernel and the reader implement the byte stream that the     *)
(* test relies on.                                                            *)
ImplementsByteStream == Stream!Spec
=============================================================================
