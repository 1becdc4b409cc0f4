---------------------------- MODULE DumpPipe_proofs ----------------------------
(* For every buffer size, pipe capacity, limit and number of signals, the     *)
(* bytes that reach the reader of prng-dump are the generator's, in order.    *)
EXTENDS DumpPipe, TLAPS

USE DEF Ended

(* A whole number of buffers is NumWrites buffers.                            *)
LEMMA LimitIsWholeBuffers == NumWrites \in Nat /\ Limit = NumWrites * BufSize
<1>1. PICK n \in 0..Limit : Limit = n * BufSize
  BY LimitAssumption
<1>2. n \in Nat /\ BufSize \in Nat /\ BufSize > 0
  BY BufSizeAssumption, LimitAssumption
<1>3. (n * BufSize) \div BufSize = n
  BY <1>2, SMT
<1>. QED
  BY <1>1, <1>2, <1>3 DEF NumWrites

-----------------------------------------------------------------------------
(* How far write_all is in its buffer.                                        *)
BufPosition ==
    /\ pc = "syscall" => moved <= count
    /\ reader = "eof" => Ended
    /\ pc \in {"write_all", "syscall"} =>
          /\ p + count = BufSize
          /\ \A i \in 1..BufSize : buf[i] = drawn - BufSize + i
          /\ drawn = (j + 1) * BufSize
          /\ Limit # 0 => j < NumWrites
    /\ pc = "loop" =>
          /\ drawn = j * BufSize
          /\ Limit # 0 => j <= NumWrites

(* InOrder is not inductive: what Copy appends depends on where the buffer    *)
(* stands in the generator's output, and on how much of it has been sent.     *)
DumpInv == TypeOK /\ InOrder /\ Conservation /\ BufPosition

-----------------------------------------------------------------------------
LEMMA InitInv == Init => DumpInv
<1>1. 0 * BufSize = 0 /\ NumWrites >= 0
  BY BufSizeAssumption, LimitIsWholeBuffers
<1>. QED
  BY <1>1, BufSizeAssumption, PipeCapAssumption, MaxSignalsAssumption, LimitIsWholeBuffers
     DEF Init, DumpInv, TypeOK, InOrder, Conservation, Sent, BufPosition

(* write_all goes on after a call that moved bytes.                           *)
LEMMA AdvanceInv ==
    ASSUME DumpInv, pc = "syscall", Advance(moved),
           UNCHANGED <<moved, pipe, sigpipe, received, reader>>,
           signals' \in 0..MaxSignals
    PROVE  DumpInv'
<1>. USE BufSizeAssumption
<1>1. TypeOK'
  BY DEF DumpInv, TypeOK, BufPosition, Advance
<1>2. InOrder'
  BY DEF DumpInv, InOrder
<1>3. Conservation'
  BY DEF DumpInv, TypeOK, Conservation, Sent, BufPosition, Advance
<1>4. BufPosition'
  BY DEF DumpInv, TypeOK, BufPosition, Advance
<1>. QED
  BY <1>1, <1>2, <1>3, <1>4 DEF DumpInv

(* EINTR leaves write_all where it was.                                       *)
LEMMA RetryInv ==
    ASSUME DumpInv, pc = "syscall", moved = 0, Retry,
           UNCHANGED <<moved, pipe, sigpipe, received, reader>>,
           signals' \in 0..MaxSignals
    PROVE  DumpInv'
<1>. QED
  BY DEF DumpInv, TypeOK, InOrder, Conservation, Sent, BufPosition, Retry, dumpVars

(* Steps after which the dump is over.                                        *)
LEMMA EndInv ==
    ASSUME DumpInv, pc' \in {"exited", "failed", "killed"},
           UNCHANGED <<dumpVars, kernelVars, sigpipe, readerVars>>
    PROVE  DumpInv'
<1>. QED
  BY DEF DumpInv, TypeOK, InOrder, Conservation, Sent, BufPosition, Ended,
         dumpVars, kernelVars, readerVars

(* Steps of the reader that only say how it ends.                             *)
LEMMA ReaderEndInv ==
    ASSUME DumpInv, reader' = "closed" \/ (reader' = "eof" /\ Ended),
           UNCHANGED <<pc, dumpVars, kernelVars, sigpipe, received>>
    PROVE  DumpInv'
<1>. QED
  BY DEF DumpInv, TypeOK, InOrder, Conservation, Sent, BufPosition, dumpVars, kernelVars

LEMMA FillInv == DumpInv /\ Fill => DumpInv'
<1>. SUFFICES ASSUME DumpInv, Fill PROVE DumpInv'
  OBVIOUS
<1>. USE BufSizeAssumption DEF DumpInv, Fill, kernelVars, readerVars
<1>1. TypeOK'
  BY DEF TypeOK
<1>2. InOrder'
  BY DEF InOrder
<1>3. Conservation'
  BY DEF TypeOK, Conservation, Sent
<1>4. BufPosition'
  <2>1. (j + 1) * BufSize = j * BufSize + BufSize
    BY DEF TypeOK
  <2>2. buf' = [i \in 1..BufSize |-> drawn + i] /\ drawn' = drawn + BufSize
    OBVIOUS
  <2>3. \A i \in 1..BufSize : buf'[i] = drawn' - BufSize + i
    BY <2>2 DEF TypeOK
  <2>. QED
    BY <2>1, <2>3, LimitIsWholeBuffers DEF TypeOK, BufPosition
<1>. QED
  BY <1>1, <1>2, <1>3, <1>4 DEF DumpInv

LEMMA CallWriteInv == DumpInv /\ CallWrite => DumpInv'
  BY BufSizeAssumption
     DEF DumpInv, CallWrite, TypeOK, InOrder, Conservation, Sent, BufPosition,
         dumpVars, readerVars

LEMMA WriteAllDoneInv == DumpInv /\ WriteAllDone => DumpInv'
<1>. SUFFICES ASSUME DumpInv, WriteAllDone PROVE DumpInv'
  OBVIOUS
<1>. USE BufSizeAssumption DEF DumpInv, WriteAllDone, kernelVars, readerVars
<1>1. TypeOK'
  BY DEF TypeOK
<1>2. InOrder'
  BY DEF InOrder
<1>3. Conservation'
  BY DEF TypeOK, Conservation, Sent
<1>4. BufPosition'
  BY LimitIsWholeBuffers DEF TypeOK, BufPosition
<1>. QED
  BY <1>1, <1>2, <1>3, <1>4 DEF DumpInv

(* The byte that the kernel copies is the next one of the generator.          *)
LEMMA CopyInv == DumpInv /\ Copy => DumpInv'
<1>. SUFFICES ASSUME DumpInv, Copy PROVE DumpInv'
  OBVIOUS
<1>. DEFINE b == buf[p + moved + 1]
<1>0. /\ Len(pipe) \in Nat /\ Len(received) \in Nat /\ Len(pipe) < PipeCap
      /\ drawn \in Nat /\ BufSize \in Nat /\ PipeCap \in Nat
      /\ p \in Nat /\ count \in Nat /\ moved \in Nat /\ moved < count
      /\ pc = "syscall" /\ p + count = BufSize
      /\ moved' = moved + 1
      /\ UNCHANGED <<pc, j, drawn, buf, p, count, signals, sigpipe, received, reader>>
  BY BufSizeAssumption, PipeCapAssumption
     DEF Copy, dumpVars, readerVars, DumpInv, TypeOK, BufPosition
<1>1. b = Sent + 1
  <2>1. p + moved + 1 \in 1..BufSize
    BY <1>0
  <2>2. b = drawn - BufSize + (p + moved + 1)
    BY <1>0, <2>1 DEF DumpInv, BufPosition
  <2>3. Sent + (count - moved) = drawn /\ Sent \in Nat
    BY <1>0 DEF DumpInv, Conservation, Sent
  <2>. HIDE DEF b
  <2>. QED
    BY <1>0, <2>2, <2>3
<1>2. /\ pipe' \in Seq(Nat) /\ Len(pipe') = Len(pipe) + 1
      /\ \A i \in 1..Len(pipe) : pipe'[i] = pipe[i]
      /\ pipe'[Len(pipe) + 1] = Len(received) + Len(pipe) + 1
  <2>1. b \in Nat /\ b = Len(received) + Len(pipe) + 1
    BY <1>0, <1>1 DEF Sent
  <2>2. pipe \in Seq(Nat) /\ pipe' = Append(pipe, b)
    BY DEF Copy, DumpInv, TypeOK
  <2>. HIDE DEF b
  <2>. QED
    BY <2>1, <2>2
<1>3. TypeOK'
  <2>1. /\ pipe' \in Seq(Nat) /\ Len(pipe') <= PipeCap
        /\ moved' \in 0..BufSize
    BY <1>0, <1>2
  <2>. QED
    BY <1>0, <2>1 DEF DumpInv, TypeOK
<1>4. InOrder'
  <2>1. received' = received
    BY <1>0
  <2>2. \A i \in 1..Len(received) : received[i] = i
    BY DEF DumpInv, InOrder
  <2>3. ASSUME NEW i \in 1..Len(pipe')
        PROVE  pipe'[i] = Len(received) + i
    <3>1. CASE i = Len(pipe) + 1
      BY <1>0, <1>2, <3>1
    <3>2. CASE i # Len(pipe) + 1
      <4>1. i \in 1..Len(pipe)
        BY <1>0, <1>2, <3>2
      <4>. QED
        BY <4>1, <1>2 DEF DumpInv, InOrder
    <3>. QED
      BY <3>1, <3>2
  <2>. QED
    BY <2>1, <2>2, <2>3 DEF InOrder
<1>5. Conservation'
  BY <1>0, <1>2 DEF DumpInv, Conservation, Sent
<1>6. BufPosition'
  BY <1>0 DEF DumpInv, BufPosition
<1>. QED
  BY <1>3, <1>4, <1>5, <1>6 DEF DumpInv

(* The byte that the reader takes is the next one it has to see.              *)
LEMMA ReadInv == DumpInv /\ Read => DumpInv'
<1>. SUFFICES ASSUME DumpInv, Read PROVE DumpInv'
  OBVIOUS
<1>0. /\ Len(pipe) \in Nat /\ Len(received) \in Nat /\ Len(pipe) <= PipeCap
      /\ PipeCap \in Nat
      /\ UNCHANGED <<pc, j, drawn, buf, p, count, moved, signals, sigpipe, reader>>
  BY PipeCapAssumption DEF Read, dumpVars, DumpInv, TypeOK
<1>1. pipe \in Seq(Nat) /\ pipe # <<>> /\ received \in Seq(Nat)
  BY DEF Read, DumpInv, TypeOK
<1>2. /\ pipe' \in Seq(Nat) /\ Len(pipe') = Len(pipe) - 1 /\ Len(pipe) > 0
      /\ \A i \in 1..Len(pipe') : pipe'[i] = pipe[i + 1]
  BY <1>1 DEF Read
<1>3. /\ received' \in Seq(Nat) /\ Len(received') = Len(received) + 1
      /\ \A i \in 1..Len(received) : received'[i] = received[i]
      /\ received'[Len(received) + 1] = pipe[1]
  BY <1>1 DEF Read
<1>4. TypeOK'
  BY <1>0, <1>2, <1>3 DEF DumpInv, TypeOK
<1>5. InOrder'
  <2>1. pipe[1] = Len(received) + 1
    BY <1>0, <1>2 DEF DumpInv, InOrder
  <2>2. \A i \in 1..Len(received') : received'[i] = i
    BY <1>0, <1>3, <2>1 DEF DumpInv, InOrder
  <2>3. ASSUME NEW i \in 1..Len(pipe')
        PROVE  pipe'[i] = Len(received') + i
    <3>1. i + 1 \in 1..Len(pipe) /\ pipe'[i] = pipe[i + 1]
      BY <1>0, <1>2
    <3>2. pipe[i + 1] = Len(received) + (i + 1)
      BY <3>1 DEF DumpInv, InOrder
    <3>. QED
      BY <1>0, <1>3, <3>1, <3>2
  <2>. QED
    BY <2>2, <2>3 DEF InOrder
<1>6. Conservation'
  BY <1>0, <1>2, <1>3 DEF DumpInv, Conservation, Sent
<1>7. BufPosition'
  BY <1>0 DEF DumpInv, BufPosition
<1>. QED
  BY <1>4, <1>5, <1>6, <1>7 DEF DumpInv

-----------------------------------------------------------------------------
LEMMA NextInv == DumpInv /\ [Next]_vars => DumpInv'
<1>. SUFFICES ASSUME DumpInv, [Next]_vars PROVE DumpInv'
  OBVIOUS
<1>1. CASE Fill
  BY <1>1, FillInv
<1>2. CASE Finish
  BY <1>2, EndInv DEF Finish
<1>3. CASE CallWrite
  BY <1>3, CallWriteInv
<1>4. CASE WriteAllDone
  BY <1>4, WriteAllDoneInv
<1>5. CASE Copy
  BY <1>5, CopyInv
<1>6. CASE FullWrite
  BY <1>6, AdvanceInv DEF FullWrite, kernelVars, readerVars, DumpInv, TypeOK
<1>7. CASE Signal
  <2>1. signals' \in 0..MaxSignals
    BY <1>7, MaxSignalsAssumption DEF Signal, DumpInv, TypeOK
  <2>2. pc = "syscall" /\ UNCHANGED <<moved, pipe, sigpipe, received, reader>>
    BY <1>7 DEF Signal, readerVars
  <2>3. CASE moved > 0
    BY <1>7, <2>1, <2>2, <2>3, AdvanceInv DEF Signal
  <2>4. CASE ~(moved > 0)
    <3>1. moved = 0 /\ Retry
      BY <1>7, <2>4 DEF Signal, DumpInv, TypeOK
    <3>. QED
      BY <2>1, <2>2, <3>1, RetryInv
  <2>. QED
    BY <2>3, <2>4
<1>8. CASE DeviceError
  <2>1. CASE moved > 0
    BY <1>8, <2>1, AdvanceInv DEF DeviceError, kernelVars, readerVars, DumpInv, TypeOK
  <2>2. CASE ~(moved > 0)
    BY <1>8, <2>2, EndInv DEF DeviceError, Fail
  <2>. QED
    BY <2>1, <2>2
<1>9. CASE BrokenPipe
  <2>1. CASE pc' = "killed"
    <3>1. UNCHANGED dumpVars
      BY <1>9, <2>1 DEF BrokenPipe, Advance, Fail
    <3>. QED
      BY <1>9, <2>1, <3>1, EndInv DEF BrokenPipe
  <2>2. CASE pc' # "killed" /\ moved > 0
    BY <1>9, <2>2, AdvanceInv DEF BrokenPipe, kernelVars, readerVars, DumpInv, TypeOK
  <2>3. CASE pc' # "killed" /\ ~(moved > 0)
    BY <1>9, <2>3, EndInv DEF BrokenPipe, Fail
  <2>. QED
    BY <2>1, <2>2, <2>3
<1>10. CASE Read
  BY <1>10, ReadInv
<1>11. CASE ReadEnough \/ ReaderDies \/ EndOfFile
  BY <1>11, ReaderEndInv DEF ReadEnough, ReaderDies, EndOfFile
<1>12. CASE UNCHANGED vars
  BY <1>12 DEF vars, dumpVars, kernelVars, readerVars,
               DumpInv, TypeOK, InOrder, Conservation, Sent, BufPosition
<1>. QED
  BY <1>1, <1>2, <1>3, <1>4, <1>5, <1>6, <1>7, <1>8, <1>9, <1>10, <1>11, <1>12
     DEF Next, Dump, Kernel, Fault, Reader, Done

THEOREM Invariance == Spec => []DumpInv
  BY InitInv, NextInv, PTL DEF Spec

(* Every variable of the dump, the kernel and the reader keeps its type; in   *)
(* particular write_all never reaches outside its buffer.                     *)
THEOREM TypeCorrect == Spec => []TypeOK
  BY Invariance, PTL DEF DumpInv

(* The reader gets the generator's bytes, in order, none missing or repeated. *)
THEOREM StreamInOrder == Spec => []InOrder
  BY Invariance, PTL DEF DumpInv

(* No byte drawn from the generator is lost between two calls of write(2).    *)
THEOREM BytesConserved == Spec => []Conservation
  BY Invariance, PTL DEF DumpInv

-----------------------------------------------------------------------------
(* The limit                                                                  *)

(* A buffer that the loop may still write fits under the limit.               *)
LEMMA RoomForOneMore ==
    ASSUME NEW k \in Nat, k < NumWrites
    PROVE  (k + 1) * BufSize <= Limit
<1>1. PICK d \in Nat : NumWrites = k + 1 + d
  <2>1. NumWrites - k - 1 \in Nat /\ NumWrites = k + 1 + (NumWrites - k - 1)
    BY LimitIsWholeBuffers
  <2>. QED
    BY <2>1
<1>2. (k + 1 + d) * BufSize = (k + 1) * BufSize + d * BufSize
  BY BufSizeAssumption
<1>3. (k + 1) * BufSize \in Nat /\ d * BufSize \in Nat
  BY BufSizeAssumption
<1>. QED
  BY <1>1, <1>2, <1>3, LimitIsWholeBuffers

LEMMA LimitStep == DumpInv /\ LimitObeyed /\ [Next]_vars => LimitObeyed'
<1>. SUFFICES ASSUME DumpInv, LimitObeyed, [Next]_vars PROVE LimitObeyed'
  OBVIOUS
<1>1. CASE Fill
  <2>1. j \in Nat /\ drawn = j * BufSize /\ (Limit # 0 => j < NumWrites)
    BY <1>1 DEF Fill, DumpInv, TypeOK, BufPosition
  <2>2. drawn' = (j + 1) * BufSize /\ pc' = "write_all"
    BY <1>1, <2>1, BufSizeAssumption DEF Fill
  <2>. QED
    BY <2>1, <2>2, RoomForOneMore DEF LimitObeyed
<1>2. CASE Finish
  <2>1. Limit # 0 /\ j \in Nat /\ j = NumWrites /\ drawn = j * BufSize /\ Sent = drawn
    BY <1>2, LimitIsWholeBuffers DEF Finish, DumpInv, TypeOK, BufPosition, Conservation
  <2>2. drawn' = drawn /\ Sent' = Sent
    BY <1>2 DEF Finish, dumpVars, kernelVars, readerVars, Sent
  <2>. QED
    BY <2>1, <2>2, LimitIsWholeBuffers DEF LimitObeyed
<1>3. CASE Read
  <2>1. Sent' = Sent
    BY <1>3 DEF Read, DumpInv, TypeOK, Sent
  <2>. QED
    BY <1>3, <2>1 DEF Read, dumpVars, LimitObeyed
<1>4. CASE CallWrite \/ WriteAllDone \/ Copy \/ FullWrite \/ Signal \/ DeviceError \/ BrokenPipe
  <2>1. drawn' = drawn /\ pc' # "exited"
    BY <1>4 DEF CallWrite, WriteAllDone, Copy, FullWrite, Signal, DeviceError, BrokenPipe,
                Advance, Retry, Fail, dumpVars
  <2>. QED
    BY <2>1 DEF LimitObeyed
<1>5. CASE ReadEnough \/ ReaderDies \/ EndOfFile \/ UNCHANGED vars
  BY <1>5 DEF ReadEnough, ReaderDies, EndOfFile, vars, dumpVars, kernelVars, readerVars,
              LimitObeyed, Sent
<1>. QED
  BY <1>1, <1>2, <1>3, <1>4, <1>5 DEF Next, Dump, Kernel, Fault, Reader, Done

(* A dump never passes its limit, and a dump that succeeds has sent exactly   *)
(* the limit, whatever signals and short counts write_all met.                *)
THEOREM LimitIsObeyed == Spec => []LimitObeyed
<1>1. Init => LimitObeyed
  BY LimitAssumption DEF Init, LimitObeyed
<1>. QED
  BY <1>1, LimitStep, Invariance, PTL DEF Spec

-----------------------------------------------------------------------------
(* Refinement                                                                 *)

LEMMA StreamInit == Init => Stream!Init
  BY DEF Init, Stream!Init, StreamStatus

LEMMA StreamStep ==
    DumpInv /\ LimitObeyed /\ [Next]_vars => [Stream!Next]_(Stream!streamVars)
<1>. SUFFICES ASSUME DumpInv, LimitObeyed, [Next]_vars
              PROVE  Stream!Next \/ UNCHANGED <<received, StreamStatus>>
  BY DEF Stream!streamVars
<1>1. CASE Read
  <2>1. StreamStatus = "open" /\ UNCHANGED StreamStatus
    BY <1>1 DEF Read, StreamStatus
  <2>2. Len(pipe) \in Nat /\ Len(pipe) > 0 /\ Len(received) \in Nat /\ Head(pipe) = pipe[1]
    BY <1>1 DEF Read, DumpInv, TypeOK
  <2>3. pipe[1] = Len(received) + 1
    BY <2>2 DEF DumpInv, InOrder
  <2>4. Limit = 0 \/ Len(received) < Limit
    <3>1. Limit # 0 => drawn <= Limit
      BY DEF LimitObeyed
    <3>2. Sent <= drawn
      BY DEF DumpInv, TypeOK, Conservation, BufPosition, Sent, Ended
    <3>. QED
      BY <2>2, <3>1, <3>2, LimitAssumption DEF Sent, DumpInv, TypeOK
  <2>. QED
    BY <1>1, <2>1, <2>2, <2>3, <2>4 DEF Read, Stream!Next, Stream!Deliver
<1>2. CASE ReadEnough \/ ReaderDies
  BY <1>2 DEF ReadEnough, ReaderDies, StreamStatus, Stream!Next, Stream!Abandon
<1>3. CASE EndOfFile
  <2>1. StreamStatus = "open" /\ received' = received
    BY <1>3 DEF EndOfFile, StreamStatus
  <2>2. CASE pc = "exited"
    <3>1. StreamStatus' = "complete"
      BY <1>3, <2>2 DEF EndOfFile, StreamStatus
    <3>2. Limit # 0 /\ Len(received) = Limit
      BY <1>3, <2>2, LimitAssumption DEF EndOfFile, LimitObeyed, Sent, DumpInv, TypeOK
    <3>. QED
      BY <2>1, <3>1, <3>2 DEF Stream!Next, Stream!Complete
  <2>3. CASE pc # "exited"
    <3>1. StreamStatus' = "cut"
      BY <1>3, <2>3 DEF EndOfFile, StreamStatus
    <3>. QED
      BY <2>1, <3>1 DEF Stream!Next, Stream!Cut
  <2>. QED
    BY <2>2, <2>3
<1>4. CASE Dump \/ Kernel \/ Signal \/ DeviceError
  <2>1. received' = received /\ reader' = reader
    BY <1>4 DEF Dump, Fill, Finish, CallWrite, WriteAllDone, Kernel, Copy, FullWrite,
                BrokenPipe, Signal, DeviceError, readerVars
  <2>2. ~Ended
    BY <1>4 DEF Dump, Fill, Finish, CallWrite, WriteAllDone, Kernel, Copy, FullWrite,
                BrokenPipe, Signal, DeviceError, Ended
  <2>3. reader \in {"open", "closed"}
    BY <2>2 DEF DumpInv, TypeOK, BufPosition
  <2>. QED
    BY <2>1, <2>3 DEF StreamStatus
<1>5. CASE UNCHANGED vars
  BY <1>5 DEF vars, readerVars, StreamStatus
<1>. QED
  BY <1>1, <1>2, <1>3, <1>4, <1>5 DEF Next, Dump, Kernel, Fault, Reader, Done

(* The whole pipeline implements the abstract byte stream.                    *)
THEOREM Refinement == Spec => ImplementsByteStream
<1>1. Spec => [][Stream!Next]_(Stream!streamVars)
  BY StreamStep, Invariance, LimitIsObeyed, PTL DEF Spec
<1>. QED
  BY StreamInit, <1>1, PTL DEF Spec, ImplementsByteStream, Stream!Spec
=============================================================================
