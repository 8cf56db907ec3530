---------------------------- MODULE Programs_proofs ----------------------------
(***************************************************************************)
(* The programs that a signal, a failure or a kill may end at any step.    *)
(*                                                                         *)
(* The command line leaves behind what is true (StatusIsTrue) and whole    *)
(* (InterruptKeepsRecords), for listings of any length and buffers of any  *)
(* size, whenever the reader leaves and whenever Ctrl-C comes.             *)
(*                                                                         *)
(* The exit status of the fuzzer tells the truth (FuzzVerdictIsTrue), for  *)
(* every number of inputs, bound on failures and set of places where an    *)
(* exception may be raised.                                                *)
(*                                                                         *)
(* What the corpus fetcher left on disk is what its marker and its         *)
(* manifest say it is (MarkerMeansDone, ManifestIsTrue), for every plan of *)
(* files, however often it was killed and started again.                   *)
(***************************************************************************)
EXTENDS CommandLine, FuzzLoop, CorpusFetch, Lemmas

-----------------------------------------------------------------------------
(* The command line                                                          *)

\* Every line printed is in the buffer or was written, until stdout is given up;
\* that happens to a stdout nobody reads, and is never taken for success.
LinesAccounted ==
    /\ total \in Nat /\ buffer \in Nat /\ printed \in Nat /\ delivered \in Nat
    /\ redirected \in BOOLEAN
    /\ pc = "cli" => buffer = 0
    /\ ~redirected => printed = delivered + buffer
    /\ redirected => reader # "there" /\ status # 0
    /\ pc \in {"exit", "over"} => buffer = 0 \/ redirected

\* A status other than 0 has its reason, and stays.
StatusHasReason ==
    /\ status \in {0, 1, 2, 130, 141}
    /\ "error" \in told => status # 0
    /\ stderr \in BOOLEAN
    /\ status \in {1, 2} /\ stderr => "error" \in told \/ "usage" \in told
    /\ status = 141 => reader = "gone"

\* Ctrl-C leads to 130 and nothing else does.
InterruptIsSettled ==
    /\ interrupted \in BOOLEAN
    /\ interrupted => pc \in {"close", "settle", "exit", "over"}
    /\ interrupted /\ pc \in {"exit", "over"} => status = 130
    /\ status = 130 => interrupted
    /\ pc = "settle" => interrupted

\* Where nothing failed, the listing was printed to its end.
ListedToTheEnd ==
    status = 0 /\ ~interrupted /\ argv \in {"listing", "report"}
        /\ pc \in {"warn", "close", "flush", "exit", "over"} => printed = total

ListingInv ==
    /\ LinesAccounted /\ StatusHasReason /\ InterruptIsSettled /\ ListedToTheEnd

USE DEF ListingInv, LinesAccounted, StatusHasReason, InterruptIsSettled, ListedToTheEnd

\* It holds at first, and every action keeps it.
LEMMA ListingInvInit == ASSUME Init PROVE ListingInv
<1>1. LinesAccounted
  <2>1. ~redirected /\ redirected \in BOOLEAN
    BY Zenon DEF Init
  <2>2. /\ total \in 0..MaxRecords /\ pc = "cli"
        /\ buffer = 0 /\ printed = 0 /\ delivered = 0
    BY DEF Init
  <2> QED BY SizesAssumption, <2>1, <2>2
<1>2. /\ status = 0 /\ told = {} /\ stderr \in BOOLEAN
      /\ ~interrupted /\ interrupted \in BOOLEAN /\ pc = "cli"
  BY Zenon DEF Init
<1>3. StatusHasReason
  BY <1>2
<1>4. InterruptIsSettled /\ ListedToTheEnd
  BY <1>2
<1> QED BY <1>1, <1>3, <1>4

-----------------------------------------------------------------------------
(* The steps, one by one.                                                    *)

USE DEF GoTo, GoWith, Silently, Eprint, Kept, Written, Fail, BrokenPipe, CanWrite, world, output

LEMMA EnterKeeps == ASSUME ListingInv, Enter PROVE ListingInv'
BY DEF Enter

LEMMA ReadArgumentsKeeps == ASSUME ListingInv, ReadArguments PROVE ListingInv'
<1>1. CASE argv = "help"
  <2>1. /\ printed' = printed + 1 /\ buffer' = buffer + 1 /\ delivered' = delivered
        /\ pc = "main" /\ pc' = "flush" /\ told' = told
        /\ UNCHANGED <<world, reader, redirected, interrupted, status>>
    BY <1>1 DEF ReadArguments
  <2> QED BY <1>1, <2>1
<1>2. CASE argv \in {"too few", "unknown command"}
  <2>1. /\ UNCHANGED <<world, output, reader, interrupted>>
        /\ pc = "main" /\ pc' = "flush" /\ status' = 2
        /\ told' = IF stderr THEN told \cup {"usage"} ELSE told
    BY <1>2 DEF ReadArguments
  <2>2. ~interrupted /\ interrupted' = interrupted /\ stderr' = stderr
    BY <2>1
  <2>3. LinesAccounted'
    BY <2>1
  <2>4. StatusHasReason'
    BY <2>1, <2>2
  <2>5. InterruptIsSettled'
    BY <2>1, <2>2
  <2>6. ListedToTheEnd'
    BY <2>1
  <2> QED BY <2>3, <2>4, <2>5, <2>6
<1>3. CASE argv \in {"listing", "report"}
  <2>1. /\ UNCHANGED <<world, output, reader, interrupted, told, status>>
        /\ pc = "main" /\ pc' = "open"
    BY <1>3 DEF ReadArguments
  <2> QED BY <2>1
<1> QED BY <1>1, <1>2, <1>3 DEF ReadArguments

LEMMA OpenKeeps == ASSUME ListingInv, Open PROVE ListingInv'
BY DEF Open

LEMMA PrintRecordKeeps == ASSUME ListingInv, PrintRecord PROVE ListingInv'
<1>1. CASE buffer < Capacity
  BY <1>1 DEF PrintRecord
<1>2. CASE ~(buffer < Capacity) /\ CanWrite
  BY <1>2 DEF PrintRecord
<1>3. CASE ~(buffer < Capacity) /\ ~CanWrite
  BY <1>3 DEF PrintRecord
<1> QED BY <1>1, <1>2, <1>3

LEMMA RaiseKeeps == ASSUME ListingInv, Raise PROVE ListingInv'
BY DEF Raise

LEMMA EndListingKeeps == ASSUME ListingInv, EndListing PROVE ListingInv'
BY DEF EndListing

LEMMA WarnKeeps == ASSUME ListingInv, Warn PROVE ListingInv'
BY DEF Warn

LEMMA CloseKeeps == ASSUME ListingInv, Close PROVE ListingInv'
BY DEF Close

LEMMA FlushKeeps == ASSUME ListingInv, Flush PROVE ListingInv'
<1>1. CASE buffer = 0 \/ CanWrite
  BY <1>1 DEF Flush
<1>2. CASE ~(buffer = 0 \/ CanWrite)
  BY <1>2 DEF Flush
<1> QED BY <1>1, <1>2

LEMMA SettleKeeps == ASSUME ListingInv, Settle PROVE ListingInv'
<1>1. /\ pc = "settle" /\ pc' = "exit" /\ status' = 130
      /\ interrupted' = interrupted /\ stderr' = stderr
      /\ printed' = printed /\ total' = total
  BY DEF Settle
<1>2. LinesAccounted'
  <2>1. CASE buffer = 0 \/ CanWrite
    <3>1. /\ redirected' = redirected /\ reader' = reader /\ buffer' = 0
          /\ delivered' = IF redirected THEN delivered ELSE delivered + buffer
      BY <2>1 DEF Settle
    <3> QED BY <1>1, <3>1
  <2>2. CASE ~(buffer = 0 \/ CanWrite)
    <3>1. /\ redirected' = TRUE /\ reader' = reader /\ buffer' = buffer
          /\ delivered' = delivered /\ reader # "there"
      BY <2>2 DEF Settle
    <3> QED BY <1>1, <3>1
  <2> QED BY <2>1, <2>2
<1>3. (StatusHasReason /\ InterruptIsSettled /\ ListedToTheEnd)'
  BY <1>1
<1> QED BY <1>2, <1>3

\* What the interpreter flushes at exit is nothing, or goes to the null device.
LEMMA ExitKeeps == ASSUME ListingInv, Exit PROVE ListingInv'
<1>1. buffer = 0 \/ CanWrite
  BY DEF Exit
<1> QED BY <1>1 DEF Exit

LEMMA InterruptKeeps == ASSUME ListingInv, Interrupt PROVE ListingInv'
BY DEF Interrupt

LEMMA ReaderFailsKeeps == ASSUME ListingInv, ReaderFails PROVE ListingInv'
BY DEF ReaderFails

HIDE DEF GoTo, GoWith, Silently, Eprint, Kept, Written, Fail, BrokenPipe, CanWrite

LEMMA ListingInvNext == ASSUME ListingInv, [Next]_vars PROVE ListingInv'
<1>1. CASE UNCHANGED vars
  BY <1>1 DEF vars
<1>2. CASE Next
  BY <1>2, EnterKeeps, ReadArgumentsKeeps, OpenKeeps, PrintRecordKeeps, RaiseKeeps,
     EndListingKeeps, WarnKeeps, CloseKeeps, FlushKeeps, SettleKeeps, ExitKeeps,
     InterruptKeeps, ReaderFailsKeeps, Zenon DEF Next
<1> QED BY <1>1, <1>2

HIDE DEF ListingInv, LinesAccounted, StatusHasReason, InterruptIsSettled, ListedToTheEnd

LEMMA ListingAlways == Spec => []ListingInv
<1>1. Init => ListingInv
  BY ListingInvInit
<1>2. ListingInv /\ [Next]_vars => ListingInv'
  BY ListingInvNext
<1> QED BY <1>1, <1>2, PTL DEF Spec

-----------------------------------------------------------------------------

(***************************************************************************)
(* cli() and main(): status 0 means that everything was listed and         *)
(* written, every other status has its reason, and nothing is left to the  *)
(* interpreter's exit.                                                     *)
(***************************************************************************)
THEOREM StatusTellsTheTruth == Spec => []StatusIsTrue
<1>1. ListingInv => StatusIsTrue
  BY DEF ListingInv, LinesAccounted, StatusHasReason, InterruptIsSettled, ListedToTheEnd,
         StatusIsTrue, ZeroMeansWhole, NoFailureIsSilent, NothingRaisesAtExit, Over
<1> QED BY <1>1, ListingAlways, PTL

(***************************************************************************)
(* cli()'s KeyboardInterrupt clause: what an interrupted listing printed   *)
(* reaches a reader who is there.                                          *)
(***************************************************************************)
THEOREM InterruptLosesNothing == Spec => []InterruptKeepsRecords
<1>1. ListingInv => InterruptKeepsRecords
  BY DEF ListingInv, LinesAccounted, InterruptKeepsRecords, Over
<1> QED BY <1>1, ListingAlways, PTL

-----------------------------------------------------------------------------
(* The fuzzer                                                                *)

\* The input of this iteration has not come to its end.
Exercising == {"exercise", "except", "except Timeout"}
Settled(j) == j < Iteration \/ fuzz_pc \notin Exercising

\* A defect is recorded where it was raised, or, of a slow input, as a timeout.
IsRecorded(j) ==
  \/ <<GeneratorOf(j), inputs[j].outcome>> \in DOMAIN failures
  \/ inputs[j].slow /\ <<GeneratorOf(j), "TIMEOUT">> \in DOMAIN failures

\* What is recorded of an iteration is of its own input.
Shows(key, j) ==
  /\ j \in DOMAIN inputs
  /\ GeneratorOf(j) = key[1]
  /\ inputs[j].outcome = key[2] \/ (key[2] = "TIMEOUT" /\ inputs[j].slow)

\* Where the interpreter is says how the input has ended.
HandlerFits ==
  /\ alarm \/ fuzz_pc \in Exercising => inputs # <<>>
  /\ alarm => Input.slow
  /\ fuzz_pc = "except" => Input.outcome \in Places
  /\ fuzz_pc = "except Timeout" => Input.slow

KeptShow == \A key \in DOMAIN failures : Shows(key, failures[key])

AllRecorded ==
  exit_status # "traceback" => \A j \in MustFail : Settled(j) => IsRecorded(j)

FuzzInv ==
  /\ inputs \in Seq(Inputs)
  /\ exit_status # "none" => fuzz_pc = "ended"
  /\ HandlerFits
  /\ KeptShow
  /\ AllRecorded
  /\ FuzzVerdictIsTrue

-----------------------------------------------------------------------------

\* setdefault: what was there stays, and the key is there.
LEMMA KeepFirstKeeps ==
  ASSUME NEW key
  PROVE  /\ DOMAIN KeepFirst(key) = DOMAIN failures \cup {key}
         /\ \A k \in DOMAIN failures : KeepFirst(key)[k] = failures[k]
         /\ key \notin DOMAIN failures => KeepFirst(key)[key] = Iteration
BY DEF KeepFirst

\* One input more leaves those before it as they were.
LEMMA AppendKeeps ==
  ASSUME inputs \in Seq(Inputs), NEW input \in Inputs, inputs' = Append(inputs, input)
  PROVE  /\ inputs' \in Seq(Inputs) /\ inputs' # <<>>
         /\ Iteration' = Iteration + 1 /\ Iteration \in Nat
         /\ DOMAIN inputs = 1..Iteration /\ DOMAIN inputs' = 1..Iteration + 1
         /\ \A j \in DOMAIN inputs : inputs'[j] = inputs[j]
         /\ inputs'[Iteration + 1] = input
BY DEF Iteration

\* The last input is one of them.
LEMMA InputIsLast ==
  ASSUME inputs \in Seq(Inputs), inputs # <<>>
  PROVE  /\ Iteration \in DOMAIN inputs /\ Input \in Inputs
         /\ \A j \in DOMAIN inputs : j < Iteration \/ j = Iteration
BY DEF Iteration, Input

\* What a handler records keeps the invariant, if it records the input at hand.
LEMMA RecordingKeeps ==
  ASSUME FuzzInv, NEW what,
         inputs # <<>>, fuzz_pc \in Exercising, exit_status = "none",
         failures' = KeepFirst(FailureKey(what)),
         fuzz_pc' \notin Exercising, fuzz_pc' # "ended",
         UNCHANGED <<inputs, alarm, fuzz_failures, exit_status>>,
         Input.outcome = what \/ (what = "TIMEOUT" /\ Input.slow)
  PROVE  FuzzInv'
<1> DEFINE key == FailureKey(what)
<1>1. /\ DOMAIN failures' = DOMAIN failures \cup {key}
      /\ \A k \in DOMAIN failures : failures'[k] = failures[k]
      /\ key \notin DOMAIN failures => failures'[key] = Iteration
  BY KeepFirstKeeps
<1>2. /\ Iteration \in DOMAIN inputs
      /\ \A j \in DOMAIN inputs : j < Iteration \/ j = Iteration
  BY InputIsLast DEF FuzzInv
<1>3. key[1] = GeneratorOf(Iteration) /\ key[2] = what
  BY DEF FailureKey
<1>4. HandlerFits'
  BY DEF FuzzInv, HandlerFits, Exercising, Input, Iteration
<1>5. KeptShow'
  <2> SUFFICES ASSUME NEW k \in DOMAIN failures' PROVE Shows(k, failures'[k])
    BY DEF KeptShow, Shows, GeneratorOf
  <2>1. CASE k \in DOMAIN failures
    BY <2>1, <1>1 DEF FuzzInv, KeptShow
  <2>2. CASE k \notin DOMAIN failures
    <3>1. k = key /\ failures'[k] = Iteration
      BY <2>2, <1>1
    <3> QED BY <3>1, <1>2, <1>3 DEF Shows, Input
  <2> QED BY <2>1, <2>2
<1>6. AllRecorded'
  <2> SUFFICES ASSUME NEW j \in MustFail PROVE IsRecorded(j)'
    BY DEF AllRecorded, MustFail
  <2>1. CASE j < Iteration
    <3>1. IsRecorded(j)
      BY <2>1 DEF FuzzInv, AllRecorded, Settled
    <3> QED BY <3>1, <1>1 DEF IsRecorded
  <2>2. CASE j = Iteration
    BY <2>2, <1>1 DEF IsRecorded, FailureKey, Input
  <2> QED BY <2>1, <2>2, <1>2 DEF MustFail
<1> QED BY <1>4, <1>5, <1>6 DEF FuzzInv, FuzzVerdictIsTrue

\* It holds at first, and every step keeps it.
LEMMA FuzzInvInit == FuzzInit => FuzzInv
<1> SUFFICES ASSUME FuzzInit PROVE FuzzInv
  OBVIOUS
<1>1. DOMAIN inputs = {} /\ DOMAIN failures = {} /\ inputs \in Seq(Inputs)
  BY DEF FuzzInit
<1> QED
  BY <1>1 DEF FuzzInit, FuzzInv, HandlerFits, Exercising, KeptShow, AllRecorded, MustFail,
              FuzzVerdictIsTrue

LEMMA NextInputKeeps ==
  ASSUME FuzzInv, NextInput, UNCHANGED fuzzWorld PROVE FuzzInv'
<1> PICK input \in Inputs : inputs' = Append(inputs, input) /\ alarm' = AlarmSet(input)
  BY DEF NextInput
<1>1. /\ inputs' \in Seq(Inputs) /\ inputs' # <<>>
      /\ Iteration' = Iteration + 1 /\ Iteration \in Nat
      /\ DOMAIN inputs = 1..Iteration /\ DOMAIN inputs' = 1..Iteration + 1
      /\ \A j \in DOMAIN inputs : inputs'[j] = inputs[j]
      /\ inputs'[Iteration + 1] = input
  BY AppendKeeps DEF FuzzInv
<1>2. /\ fuzz_pc = "loop" /\ fuzz_pc' = "exercise" /\ exit_status = "none"
      /\ UNCHANGED <<failures, fuzz_failures, exit_status>>
  BY DEF NextInput, Goes, FuzzInv
<1>3. HandlerFits'
  BY <1>1, <1>2 DEF HandlerFits, AlarmSet, Input
<1>4. KeptShow'
  <2> SUFFICES ASSUME NEW key \in DOMAIN failures PROVE Shows(key, failures[key])'
    BY <1>2 DEF KeptShow
  <2>1. Shows(key, failures[key])
    BY DEF FuzzInv, KeptShow
  <2> QED BY <2>1, <1>1, <1>2 DEF Shows
<1>5. AllRecorded'
  <2> SUFFICES ASSUME NEW j \in MustFail', Settled(j)' PROVE IsRecorded(j)'
    BY DEF AllRecorded
  <2>1. j \in DOMAIN inputs
    BY <1>1, <1>2 DEF MustFail, Settled, Exercising
  <2>2. j \in MustFail
    BY <2>1, <1>1 DEF MustFail
  <2>3. IsRecorded(j)
    BY <2>2, <1>2 DEF FuzzInv, AllRecorded, Settled, Exercising
  <2> QED BY <2>1, <2>3, <1>1, <1>2 DEF IsRecorded
<1> QED BY <1>1, <1>2, <1>3, <1>4, <1>5 DEF FuzzInv, FuzzVerdictIsTrue

\* A step that neither runs nor records an input keeps what was recorded of it;
\* it says so by not leaving the handlers.
LEMMA QuietKeeps ==
  ASSUME FuzzInv, exit_status = "none", exit_status' \in {"none", "traceback"},
         UNCHANGED <<inputs, failures, fuzz_failures>>,
         exit_status' # "none" => fuzz_pc' = "ended",
         HandlerFits',
         exit_status' # "traceback" => \A j \in MustFail : Settled(j)' => Settled(j)
  PROVE  FuzzInv'
<1>1. KeptShow'
  BY DEF FuzzInv, KeptShow, Shows
<1>2. AllRecorded'
  BY DEF FuzzInv, AllRecorded, MustFail, IsRecorded
<1> QED BY <1>1, <1>2 DEF FuzzInv, FuzzVerdictIsTrue

LEMMA FuzzInvNext == ASSUME FuzzInv, [FuzzStep]_fuzzVars PROVE FuzzInv'
<1>0. CASE UNCHANGED fuzzVars
  BY <1>0 DEF fuzzVars, fuzzWorld, FuzzInv, HandlerFits, KeptShow, AllRecorded, FuzzVerdictIsTrue,
              MustFail, Settled, IsRecorded, Shows, IsSaved, Input, Iteration
<1>1. CASE NextInput /\ UNCHANGED fuzzWorld
  BY <1>1, NextInputKeeps
<1>2. CASE LeaveLoop
  <2>1. /\ exit_status = "none" /\ exit_status' = "none" /\ HandlerFits'
        /\ fuzz_pc \notin Exercising
    BY <1>2 DEF LeaveLoop, Goes, FuzzInv, HandlerFits, Exercising, Input, Iteration
  <2> QED BY <2>1, <1>2, QuietKeeps DEF LeaveLoop, Settled
<1>3. CASE InputPasses
  <2>1. /\ exit_status = "none" /\ exit_status' = "none" /\ HandlerFits' /\ inputs # <<>>
    BY <1>3 DEF InputPasses, Goes, FuzzInv, HandlerFits, Exercising, Input, Iteration
  <2>2. \A j \in MustFail : Settled(j)
    <3> SUFFICES ASSUME NEW j \in MustFail PROVE j < Iteration
      BY DEF Settled
    <3>1. j # Iteration
      BY <1>3, PlacesAssumption DEF InputPasses, MustFail, Input
    <3> QED BY <3>1, <2>1, InputIsLast DEF MustFail, FuzzInv
  <2> QED BY <2>1, <2>2, <1>3, QuietKeeps DEF InputPasses
<1>4. CASE InputRaises
  <2>1. /\ exit_status = "none" /\ exit_status' = "none" /\ HandlerFits'
        /\ fuzz_pc' \in Exercising /\ UNCHANGED inputs
    BY <1>4 DEF InputRaises, Goes, FuzzInv, HandlerFits, Exercising, Input, Iteration
  <2>2. \A j \in MustFail : Settled(j)' => Settled(j)
    BY <2>1 DEF Settled, Iteration
  <2> QED BY <2>1, <2>2, <1>4, QuietKeeps DEF InputRaises
<1>5. CASE RecordFailure
  <2>1. /\ inputs # <<>> /\ fuzz_pc \in Exercising /\ exit_status = "none"
        /\ fuzz_pc' \notin Exercising /\ fuzz_pc' # "ended"
        /\ failures' = KeepFirst(FailureKey(Input.outcome))
        /\ UNCHANGED <<inputs, alarm, fuzz_failures, exit_status>>
    BY <1>5 DEF RecordFailure, Goes, FuzzInv, HandlerFits, Exercising
  <2> QED BY <2>1, RecordingKeeps
<1>6. CASE RecordTimeout
  <2>1. /\ inputs # <<>> /\ fuzz_pc \in Exercising /\ exit_status = "none" /\ Input.slow
        /\ fuzz_pc' \notin Exercising /\ fuzz_pc' # "ended"
        /\ failures' = KeepFirst(FailureKey("TIMEOUT"))
        /\ UNCHANGED <<inputs, alarm, fuzz_failures, exit_status>>
    BY <1>6 DEF RecordTimeout, Goes, FuzzInv, HandlerFits, Exercising
  <2> QED BY <2>1, RecordingKeeps
<1>7. CASE ClearAlarm
  <2>1. /\ exit_status = "none" /\ exit_status' = "none" /\ HandlerFits'
        /\ fuzz_pc \notin Exercising
    BY <1>7 DEF ClearAlarm, Goes, FuzzInv, HandlerFits, Exercising, Input, Iteration
  <2> QED BY <2>1, <1>7, QuietKeeps DEF ClearAlarm, Settled
<1>8. CASE AlarmInInput
  <2>1. /\ exit_status = "none" /\ exit_status' = "none" /\ HandlerFits'
        /\ fuzz_pc' \in Exercising /\ UNCHANGED inputs
    BY <1>8 DEF AlarmInInput, Goes, FuzzInv, HandlerFits, Exercising, Input, Iteration
  <2>2. \A j \in MustFail : Settled(j)' => Settled(j)
    BY <2>1 DEF Settled, Iteration
  <2> QED BY <2>1, <2>2, <1>8, QuietKeeps DEF AlarmInInput
<1>9. CASE AlarmOutside
  <2>1. /\ exit_status = "none" /\ exit_status' = "traceback" /\ fuzz_pc' = "ended" /\ HandlerFits'
    BY <1>9 DEF AlarmOutside, Goes, FuzzInv, HandlerFits, Exercising, Input, Iteration
  <2> QED BY <2>1, <1>9, QuietKeeps DEF AlarmOutside
<1>10. CASE ReportOk
  <2>1. /\ fuzz_pc = "report" /\ fuzz_pc' = "ended" /\ exit_status = "none" /\ exit_status' = "0"
        /\ failures = <<>> /\ UNCHANGED <<inputs, alarm, failures, fuzz_failures>>
    BY <1>10 DEF ReportOk, Goes, FuzzInv
  <2>2. MustFail = {}
    <3>1. \A j \in MustFail : IsRecorded(j)
      BY <2>1 DEF FuzzInv, AllRecorded, Settled, Exercising
    <3>2. DOMAIN failures = {}
      BY <2>1
    <3> QED BY <3>1, <3>2 DEF IsRecorded
  <2>3. MustFail' = {}
    BY <2>1, <2>2 DEF MustFail
  <2>4. HandlerFits' /\ KeptShow'
    BY <2>1 DEF FuzzInv, HandlerFits, Exercising, Input, Iteration, KeptShow, Shows
  <2> QED BY <2>1, <2>3, <2>4 DEF FuzzInv, AllRecorded, FuzzVerdictIsTrue
<1>11. CASE ReportFailures
  <2>1. /\ fuzz_pc = "report" /\ fuzz_pc' = "ended" /\ exit_status = "none" /\ exit_status' = "1"
        /\ failures # <<>> /\ UNCHANGED <<inputs, alarm, failures>>
    BY <1>11 DEF ReportFailures, Goes, FuzzInv
  <2>2. HandlerFits' /\ KeptShow'
    BY <2>1 DEF FuzzInv, HandlerFits, Exercising, Input, Iteration, KeptShow, Shows
  <2>3. \A j \in MustFail' : IsRecorded(j)'
    BY <2>1 DEF FuzzInv, AllRecorded, Settled, Exercising, MustFail, IsRecorded
  <2>4. \A key \in DOMAIN failures : IsSaved(failures[key])'
    BY <1>11, <2>1 DEF ReportFailures, IsSaved
  <2>5. FuzzVerdictIsTrue'
    BY <2>1, <2>2, <2>3, <2>4 DEF FuzzVerdictIsTrue, KeptShow, Shows, IsRecorded
  <2> QED BY <2>1, <2>2, <2>3, <2>5 DEF FuzzInv, AllRecorded
<1> QED
  BY <1>0, <1>1, <1>2, <1>3, <1>4, <1>5, <1>6, <1>7, <1>8, <1>9, <1>10, <1>11
     DEF FuzzStep, FuzzLoopStep

(***************************************************************************)
(* The status with which tools/fuzz.py ends is the truth about the inputs  *)
(* that ran (fuzz.py:203-222): 0 only over inputs none of which escaped or *)
(* hung, and 1 only with every defect saved by an input that shows it.     *)
(***************************************************************************)
THEOREM FuzzStatusIsTrue == FuzzSpec => []FuzzVerdictIsTrue
<1>1. FuzzInv => FuzzVerdictIsTrue
  BY DEF FuzzInv
<1> QED BY <1>1, FuzzInvInit, FuzzInvNext, PTL DEF FuzzSpec

-----------------------------------------------------------------------------
(* The corpus fetcher                                                        *)

AtNoItem == {"idle", "begin", "rehash", "omap", "smoke", "smoke files", "manifest"}
AtAnItem == {"look", "cab", "unpack", "move", "place", "record", "mark"}

FetchTypeOK ==
  /\ dl \in [Items -> Content] /\ file \in [Items -> Content] /\ prov \in [Items -> Content]
  /\ marker \in [Items -> BOOLEAN]
  /\ saved = Torn \/ saved \in [Items -> Content]
  /\ smoke \in [Items -> Content \X Content]
  /\ savedSmoke = Torn \/ savedSmoke \in [Items -> Content \X Content]
  /\ step \in AtNoItem \cup AtAnItem
  /\ item \in IF step \in AtNoItem THEN {0} ELSE Items
  /\ step # "idle" => selection \in Selections
  /\ completed \in BOOLEAN

\* Which kinds a step is for.
KindFits ==
  /\ step = "unpack" => Plan[item] \in {"direct", "archive", "msi", "xp"}
  /\ step = "cab" => Plan[item] = "direct"
  /\ step = "move" => Plan[item] \in {"msi", "xp"}
  /\ step = "place" => Plan[item] = "built"
  /\ step = "mark" => Plan[item] = "msi"

\* What is renamed into place or written anew is whole when it is recorded,
\* and recorded when the marker is written.
RecordsWhole ==
  /\ step = "record" /\ Plan[item] \notin {"direct", "archive"} => file[item] = "whole"
  /\ step = "mark" => file[item] = "whole" /\ prov[item] = "whole" /\ saved = prov

\* The work a marker stands for is done and known to the run, which does not
\* do it again.
MarkedIsDone ==
  \A i \in Items : marker[i] =>
    /\ Plan[i] = "msi"
    /\ item = i => step = "look"
    /\ file[i] \in {NoFile, "whole"}
    /\ file[i] = "whole" =>
         /\ saved = Torn \/ saved[i] = "whole"
         /\ step # "idle" => prov[i] = "whole"

\* The inductive invariant behind MarkerMeansDone.
FetchInv == FetchTypeOK /\ KindFits /\ RecordsWhole /\ MarkedIsDone

-----------------------------------------------------------------------------

Placed == {i \in Items : Plan[i] \in {"msi", "xp"}}
Derived == {i \in Items : Plan[i] = "derived"}

\* A file that is renamed into place is there whole or not at all.
PlacedIsWhole ==
  \A i \in Placed :
    /\ {file[i], prov[i]} \subseteq {NoFile, "whole"}
    /\ saved = Torn \/ saved[i] \in {NoFile, "whole"}

AfterItems == {"omap", "smoke", "smoke files", "manifest"}
ComePast(i) == step \in AfterItems \/ (step \in AtAnItem /\ i < item)

\* A run that derives has, of what it has come past, written every file anew.
DerivedAnew ==
  "corrupt" \in selection =>
    \A i \in Derived : ComePast(i) => file[i] = "whole" /\ prov[i] = "whole"

\* Files of which the smoke pass has always found what their hash says.
Faithful(i) == i \in PlacedWhole /\ ~(smokedAlone /\ Plan[i] = "derived")

\* Of these it never took a part for the whole.
Measured(table) == \A i \in Items : Faithful(i) /\ table[i][1] = "whole" => table[i][2] = "whole"
SmokeIsTrue ==
  /\ Measured(smoke)
  /\ savedSmoke = Torn \/ Measured(savedSmoke)
  /\ step = "smoke files" => "corrupt" \in selection \/ smokedAlone

ManifestTruth ==
  \A i \in Items : Listed(i) =>
    /\ smoke[i][1] = prov[i]
    /\ i \in PlacedWhole => prov[i] = file[i]
    /\ Faithful(i) => smoke[i][2] = file[i]

ListsWhatIsThere ==
  /\ completed => step = "idle"
  /\ completed \/ step = "manifest" => (selection = Stages => ManifestTruth)

\* The inductive invariant behind ManifestIsTrue.
ManifestInv == PlacedIsWhole /\ DerivedAnew /\ SmokeIsTrue /\ ListsWhatIsThere

-----------------------------------------------------------------------------

\* The files of the corpus are numbered.
LEMMA ItemsAreNumbers == Items \subseteq Nat \ {0}
BY PlanAssumption DEF Items

\* Where GoToItem leads: to the first candidate that is wanted, if there is one.
LEMMA GoesToTheFirst ==
  ASSUME NEW C \in SUBSET Items, GoToItem(C)
  PROVE  \/ item' = 0 /\ step' = "omap" /\ \A j \in C : ~Wanted(j)
         \/ item' \in C /\ step' = "look" /\ \A j \in C : Wanted(j) => item' <= j
<1> DEFINE wanted == {j \in C : Wanted(j)}
<1>1. CASE wanted = {}
  BY <1>1 DEF GoToItem, Reach
<1>2. CASE wanted # {}
  <2>1. wanted \subseteq Nat
    BY ItemsAreNumbers
  <2>2. \E x \in wanted : \A y \in wanted : x <= y
    BY <1>2, <2>1, LeastNumber
  <2>3. Min(wanted) \in wanted /\ \A y \in wanted : Min(wanted) <= y
    BY <2>2 DEF Min
  <2>4. item' = Min(wanted) /\ step' = "look"
    BY <1>2 DEF GoToItem, Reach
  <2> QED
    BY <2>3, <2>4
<1> QED
  BY <1>1, <1>2

\* Wherever it leads, no step's conditions are left behind.
LEMMA GoingOnFits ==
  ASSUME NEW C \in SUBSET Items, GoToItem(C)
  PROVE  /\ step' \in AtNoItem \cup AtAnItem /\ step' \in {"omap", "look"}
         /\ item' \in (IF step' \in AtNoItem THEN {0} ELSE Items)
         /\ KindFits' /\ RecordsWhole'
BY GoesToTheFirst DEF KindFits, RecordsWhole, AtNoItem, AtAnItem

\* Going on leads to a step that fits its item.
LEMMA NextItemFits ==
  ASSUME NextItem \/ AbandonStep
  PROVE  /\ step' \in AtNoItem \cup AtAnItem /\ step' \in {"omap", "look"}
         /\ item' \in (IF step' \in AtNoItem THEN {0} ELSE Items)
         /\ KindFits' /\ RecordsWhole'
BY GoingOnFits DEF NextItem, AbandonStep

-----------------------------------------------------------------------------

\* It holds at first, and every action keeps it.
LEMMA FetchInvInit == FetchInit => FetchInv
<1> SUFFICES ASSUME FetchInit PROVE FetchInv
  OBVIOUS
<1>1. FetchTypeOK
  BY DEF FetchInit, FetchTypeOK, Nothing, NoSmoke, Content, NoFile, AtNoItem, AtAnItem
<1>2. KindFits /\ RecordsWhole /\ MarkedIsDone
  BY DEF FetchInit, KindFits, RecordsWhole, MarkedIsDone
<1> QED
  BY <1>1, <1>2 DEF FetchInv

LEMMA StartKeeps == ASSUME FetchInv, Start PROVE FetchInv'
<1>1. FetchTypeOK'
  BY DEF FetchInv, FetchTypeOK, Start, Reach, disk, AtNoItem, AtAnItem
<1>2. KindFits' /\ RecordsWhole'
  BY DEF FetchInv, FetchTypeOK, KindFits, RecordsWhole, Start, Reach, AtNoItem, AtAnItem
<1>3. MarkedIsDone'
  BY ItemsAreNumbers DEF FetchInv, FetchTypeOK, MarkedIsDone, Start, Reach, disk, AtNoItem
<1> QED
  BY <1>1, <1>2, <1>3 DEF FetchInv

LEMMA RehashKeeps == ASSUME FetchInv, Rehash PROVE FetchInv'
BY DEF FetchInv, FetchTypeOK, KindFits, RecordsWhole, MarkedIsDone, AtNoItem, AtAnItem, Rehash, Reach, disk, Content, NoFile

LEMMA BeginKeeps == ASSUME FetchInv, Begin PROVE FetchInv'
BY GoingOnFits DEF FetchInv, FetchTypeOK, MarkedIsDone, Begin, disk, AtNoItem

LEMMA LookDirectKeeps == ASSUME FetchInv, LookDirect PROVE FetchInv'
<1>1. /\ UNCHANGED <<dl, marker, saved, savedSmoke, prov, smoke, selection, completed>>
      /\ step = "look" /\ item \in Items /\ Plan[item] = "direct"
      /\ item' = item /\ step' \in {"cab", "record"}
      /\ \E got \in Content : file' = [file EXCEPT ![item] = got]
  BY DEF LookDirect, Is, Unchanged, Reach, FetchInv, FetchTypeOK, AtNoItem, AtAnItem
<1>2. FetchTypeOK'
  <2>1. /\ step' \in AtNoItem \cup AtAnItem /\ step' # "idle"
        /\ item' \in (IF step' \in AtNoItem THEN {0} ELSE Items)
    BY <1>1 DEF AtNoItem, AtAnItem
  <2> QED
    BY <1>1, <2>1 DEF FetchInv, FetchTypeOK
<1>3. KindFits' /\ RecordsWhole'
  BY <1>1 DEF KindFits, RecordsWhole
<1>4. MarkedIsDone'
  BY <1>1 DEF FetchInv, FetchTypeOK, MarkedIsDone
<1> QED
  BY <1>2, <1>3, <1>4 DEF FetchInv

LEMMA PassKeeps == ASSUME FetchInv, Pass PROVE FetchInv'
<1>1. FetchTypeOK'
  BY NextItemFits DEF FetchInv, FetchTypeOK, Pass, disk, Is, IsDone, Content, NoFile, AtNoItem, AtAnItem
<1>2. KindFits' /\ RecordsWhole'
  BY NextItemFits DEF FetchInv, FetchTypeOK, KindFits, RecordsWhole, Pass, disk, Is, IsDone, AtNoItem, AtAnItem
<1>3. MarkedIsDone'
  BY NextItemFits, ItemsAreNumbers DEF FetchInv, FetchTypeOK, MarkedIsDone, KindFits, RecordsWhole, Pass, disk, Is, IsDone, NoFile, AtNoItem, AtAnItem
<1> QED
  BY <1>1, <1>2, <1>3 DEF FetchInv

LEMMA LookArchiveKeeps == ASSUME FetchInv, LookArchive PROVE FetchInv'
<1>1. /\ step # "idle" /\ UNCHANGED <<file, marker, saved, savedSmoke, prov, smoke, selection, completed>>
      /\ \E got \in Content : dl' = [dl EXCEPT ![item] = got]
  BY DEF LookArchive, Is, Unchanged
<1>2. /\ (step' = "unpack" /\ item' = item) \/ NextItem \/ AbandonStep
      /\ item \in Items /\ Plan[item] \in {"direct", "archive", "msi", "xp"}
      /\ marker[item] => NextItem \/ AbandonStep
  BY DEF LookArchive, Is, IsDone, Reach, FetchInv, FetchTypeOK, MarkedIsDone, AtNoItem, AtAnItem
<1>3. FetchTypeOK'
  <2>1. /\ step' \in AtNoItem \cup AtAnItem /\ step' # "idle"
        /\ item' \in (IF step' \in AtNoItem THEN {0} ELSE Items)
    BY <1>2, NextItemFits DEF AtNoItem, AtAnItem
  <2> QED
    BY <1>1, <1>2, <2>1 DEF FetchInv, FetchTypeOK
<1>4. KindFits' /\ RecordsWhole'
  BY <1>1, <1>2, NextItemFits DEF KindFits, RecordsWhole
<1>5. MarkedIsDone'
  BY <1>1, <1>2, NextItemFits, ItemsAreNumbers DEF FetchInv, MarkedIsDone, AtNoItem
<1> QED
  BY <1>3, <1>4, <1>5 DEF FetchInv

LEMMA UnpackInPlaceKeeps == ASSUME FetchInv, UnpackInPlace PROVE FetchInv'
<1>1. /\ step # "idle" /\ UNCHANGED <<marker, saved, savedSmoke, prov, smoke, selection, completed>>
      /\ item \in Items /\ Plan[item] \in {"direct", "archive"}
      /\ (step' = "record" /\ item' = item) \/ AbandonStep
  BY DEF UnpackInPlace, Is, Unchanged, Reach, FetchInv, FetchTypeOK, AtNoItem, AtAnItem
<1>2. \E got \in Content : file' = [file EXCEPT ![item] = got]
  BY <1>1 DEF UnpackInPlace, FetchInv, FetchTypeOK, Content
<1>3. dl' \in [Items -> Content]
  BY <1>1 DEF UnpackInPlace, FetchInv, FetchTypeOK, Content
<1>4. FetchTypeOK'
  <2>1. /\ step' \in AtNoItem \cup AtAnItem /\ step' # "idle"
        /\ item' \in (IF step' \in AtNoItem THEN {0} ELSE Items)
    BY <1>1, NextItemFits DEF AtNoItem, AtAnItem
  <2> QED
    BY <1>1, <1>2, <1>3, <2>1 DEF FetchInv, FetchTypeOK
<1>5. KindFits' /\ RecordsWhole'
  BY <1>1, NextItemFits DEF KindFits, RecordsWhole
<1>6. MarkedIsDone'
  BY <1>1, <1>2, NextItemFits, ItemsAreNumbers
     DEF FetchInv, FetchTypeOK, MarkedIsDone, AtNoItem
<1> QED
  BY <1>4, <1>5, <1>6 DEF FetchInv

LEMMA UnpackStagedKeeps == ASSUME FetchInv, UnpackStaged PROVE FetchInv'
<1>1. /\ UNCHANGED <<dl, file, marker, saved, savedSmoke, prov, smoke, selection, completed>>
      /\ step = "unpack" /\ item \in Items /\ Plan[item] \in {"msi", "xp"}
      /\ (step' = "move" /\ item' = item) \/ AbandonStep
  BY DEF UnpackStaged, Is, Unchanged, Reach, FetchInv, FetchTypeOK, AtNoItem, AtAnItem
<1>2. FetchTypeOK'
  <2>1. /\ step' \in AtNoItem \cup AtAnItem /\ step' # "idle"
        /\ item' \in (IF step' \in AtNoItem THEN {0} ELSE Items)
    BY <1>1, NextItemFits DEF AtNoItem, AtAnItem
  <2> QED
    BY <1>1, <2>1 DEF FetchInv, FetchTypeOK
<1>3. KindFits' /\ RecordsWhole'
  BY <1>1, NextItemFits DEF KindFits, RecordsWhole
<1>4. MarkedIsDone'
  BY <1>1, NextItemFits, ItemsAreNumbers DEF FetchInv, MarkedIsDone, AtNoItem
<1> QED
  BY <1>2, <1>3, <1>4 DEF FetchInv

LEMMA MoveStagedKeeps == ASSUME FetchInv, MoveStaged PROVE FetchInv'
BY DEF FetchInv, FetchTypeOK, KindFits, RecordsWhole, MarkedIsDone, AtNoItem, AtAnItem, MoveStaged, Reach, disk, Content, NoFile, Unchanged

LEMMA BuildKeeps == ASSUME FetchInv, Build PROVE FetchInv'
<1>1. FetchTypeOK'
  BY NextItemFits DEF FetchInv, FetchTypeOK, Build, Is, Reach, Unchanged, Content, NoFile, AtNoItem, AtAnItem
<1>2. KindFits' /\ RecordsWhole'
  BY NextItemFits DEF FetchInv, FetchTypeOK, KindFits, RecordsWhole, Build, Is, Reach, Unchanged, AtNoItem, AtAnItem
<1>3. MarkedIsDone'
  BY NextItemFits, ItemsAreNumbers DEF FetchInv, FetchTypeOK, MarkedIsDone, KindFits, RecordsWhole, Build, Is, Reach, Unchanged, NoFile, AtNoItem, AtAnItem
<1> QED
  BY <1>1, <1>2, <1>3 DEF FetchInv

LEMMA PlaceBuiltKeeps == ASSUME FetchInv, PlaceBuilt PROVE FetchInv'
BY DEF FetchInv, FetchTypeOK, KindFits, RecordsWhole, MarkedIsDone, AtNoItem, AtAnItem, PlaceBuilt, Reach, disk, Content, NoFile, Unchanged

LEMMA WriteDerivedKeeps == ASSUME FetchInv, WriteDerived PROVE FetchInv'
BY DEF FetchInv, FetchTypeOK, KindFits, RecordsWhole, MarkedIsDone, AtNoItem, AtAnItem, WriteDerived, Reach, disk, Content, NoFile, Is, Unchanged

LEMMA RecordKeeps == ASSUME FetchInv, Record PROVE FetchInv'
<1>1. FetchTypeOK'
  BY NextItemFits DEF FetchInv, FetchTypeOK, Record, Reach, Content, NoFile, AtNoItem, AtAnItem
<1>2. KindFits' /\ RecordsWhole'
  BY NextItemFits DEF FetchInv, FetchTypeOK, KindFits, RecordsWhole, Record, Reach, AtNoItem, AtAnItem
<1>3. MarkedIsDone'
  BY NextItemFits, ItemsAreNumbers DEF FetchInv, FetchTypeOK, MarkedIsDone, KindFits, RecordsWhole, Record, Reach, NoFile, AtNoItem, AtAnItem
<1> QED
  BY <1>1, <1>2, <1>3 DEF FetchInv

LEMMA MarkKeeps == ASSUME FetchInv, Mark PROVE FetchInv'
<1>1. FetchTypeOK'
  BY NextItemFits DEF FetchInv, FetchTypeOK, Mark, Content, NoFile, AtNoItem, AtAnItem
<1>2. KindFits' /\ RecordsWhole'
  BY NextItemFits DEF FetchInv, FetchTypeOK, KindFits, RecordsWhole, Mark, AtNoItem, AtAnItem
<1>3. MarkedIsDone'
  BY NextItemFits, ItemsAreNumbers DEF FetchInv, FetchTypeOK, MarkedIsDone, KindFits, RecordsWhole, Mark, NoFile, AtNoItem, AtAnItem
<1> QED
  BY <1>1, <1>2, <1>3 DEF FetchInv

LEMMA OmapKeeps == ASSUME FetchInv, Omap PROVE FetchInv'
<1>1. FetchTypeOK'
  BY DEF FetchInv, FetchTypeOK, Omap, Reach, Stop, disk, Content, NoFile, AtNoItem, AtAnItem
<1>2. KindFits' /\ RecordsWhole'
  BY DEF FetchInv, FetchTypeOK, KindFits, RecordsWhole, Omap, Reach, Stop, disk, AtNoItem, AtAnItem
<1>3. MarkedIsDone'
  BY ItemsAreNumbers DEF FetchInv, FetchTypeOK, MarkedIsDone, KindFits, RecordsWhole, Omap, Reach, Stop, disk, NoFile, AtNoItem, AtAnItem
<1> QED
  BY <1>1, <1>2, <1>3 DEF FetchInv

LEMMA LoadSmokeKeeps == ASSUME FetchInv, LoadSmoke PROVE FetchInv'
<1>1. FetchTypeOK'
  BY DEF FetchInv, FetchTypeOK, LoadSmoke, Reach, Stop, disk, AtNoItem, AtAnItem
<1>2. KindFits' /\ RecordsWhole'
  BY DEF KindFits, RecordsWhole, LoadSmoke, Reach, Stop, disk
<1>3. MarkedIsDone'
  BY DEF FetchInv, FetchTypeOK, MarkedIsDone, LoadSmoke, Reach, Stop, disk, AtNoItem
<1> QED
  BY <1>1, <1>2, <1>3 DEF FetchInv

LEMMA SmokeOneKeeps == ASSUME FetchInv, SmokeOne PROVE FetchInv'
<1>1. FetchTypeOK'
  <2> DEFINE i == First(ToSmoke, 0)
  <2>1. CASE i = 0
    BY <2>1 DEF FetchInv, FetchTypeOK, SmokeOne, Reach, AtNoItem, AtAnItem
  <2>2. CASE i # 0
    <3> HIDE DEF i
    <3>1. smoke' = [smoke EXCEPT ![i] = <<prov[i], file[i]>>] /\ savedSmoke' = smoke'
      BY <2>2 DEF SmokeOne, i
    <3>2. smoke' \in [Items -> Content \X Content]
      BY <3>1 DEF FetchInv, FetchTypeOK
    <3> QED
      BY <3>1, <3>2 DEF FetchInv, FetchTypeOK, SmokeOne, Reach, AtNoItem, AtAnItem
  <2> QED
    BY <2>1, <2>2
<1>2. KindFits' /\ RecordsWhole'
  BY DEF FetchInv, FetchTypeOK, KindFits, RecordsWhole, SmokeOne, Reach, AtNoItem, AtAnItem
<1>3. MarkedIsDone'
  BY ItemsAreNumbers DEF FetchInv, FetchTypeOK, MarkedIsDone, KindFits, RecordsWhole, SmokeOne, Reach, NoFile, AtNoItem, AtAnItem
<1> QED
  BY <1>1, <1>2, <1>3 DEF FetchInv

LEMMA ManifestKeeps == ASSUME FetchInv, Manifest PROVE FetchInv'
BY DEF FetchInv, FetchTypeOK, KindFits, RecordsWhole, MarkedIsDone, AtNoItem, AtAnItem, Manifest, Reach, disk, Stop

\* What a killed step leaves half done is nothing that a marker stands for.
LEMMA KillLeaves ==
  ASSUME FetchInv, Kill
  PROVE  /\ file' \in [Items -> Content] /\ dl' \in [Items -> Content]
         /\ \A i \in Items : marker[i] => file'[i] = file[i]
<1>1. CASE item = 0
  BY <1>1 DEF FetchInv, FetchTypeOK, Kill
<1>2. CASE item # 0
  <2>1. item \in Items
    BY <1>2 DEF FetchInv, FetchTypeOK
  <2>2. PICK left \in LeftFile : file' = [file EXCEPT ![item] = left]
    BY <1>2 DEF Kill
  <2>3. PICK leftDl \in LeftDl : dl' = [dl EXCEPT ![item] = leftDl]
    BY <1>2 DEF Kill
  <2>4. left \in Content /\ leftDl \in Content
    BY <2>1 DEF FetchInv, FetchTypeOK, LeftFile, LeftDl, Content, NoFile
  <2>5. marker[item] => left = file[item]
    BY <2>1 DEF FetchInv, MarkedIsDone, LeftFile, Is
  <2> QED
    BY <2>1, <2>2, <2>3, <2>4, <2>5 DEF FetchInv, FetchTypeOK
<1> QED
  BY <1>1, <1>2

LEMMA KillKeeps == ASSUME FetchInv, Kill PROVE FetchInv'
<1>1. FetchTypeOK'
  BY KillLeaves DEF FetchInv, FetchTypeOK, Kill, Reach, Stop, AtNoItem, AtAnItem
<1>2. KindFits' /\ RecordsWhole'
  BY DEF KindFits, RecordsWhole, Kill, Reach, Stop
<1>3. MarkedIsDone'
  BY KillLeaves, ItemsAreNumbers DEF FetchInv, MarkedIsDone, Kill, Reach, Stop
<1> QED
  BY <1>1, <1>2, <1>3 DEF FetchInv

LEMMA RemoveFileKeeps == ASSUME FetchInv, RemoveFile PROVE FetchInv'
<1>1. FetchTypeOK'
  BY DEF FetchInv, FetchTypeOK, RemoveFile, Content, NoFile, AtNoItem, AtAnItem
<1>2. KindFits' /\ RecordsWhole'
  BY DEF FetchInv, FetchTypeOK, KindFits, RecordsWhole, RemoveFile, AtNoItem, AtAnItem
<1>3. MarkedIsDone'
  BY ItemsAreNumbers DEF FetchInv, FetchTypeOK, MarkedIsDone, KindFits, RecordsWhole, RemoveFile, NoFile, AtNoItem, AtAnItem
<1> QED
  BY <1>1, <1>2, <1>3 DEF FetchInv


-----------------------------------------------------------------------------

LEMMA FetchInvNext == FetchInv /\ [FetchNext]_fetchVars => FetchInv'
<1> SUFFICES ASSUME FetchInv, [FetchNext]_fetchVars PROVE FetchInv'
  OBVIOUS
<1>1. CASE UNCHANGED fetchVars
  BY <1>1 DEF fetchVars, disk, FetchInv, FetchTypeOK, KindFits, RecordsWhole, MarkedIsDone
<1>2. CASE FetchNext
  BY <1>2, StartKeeps, RehashKeeps, BeginKeeps, LookDirectKeeps, PassKeeps, LookArchiveKeeps,
     UnpackInPlaceKeeps, UnpackStagedKeeps, MoveStagedKeeps, BuildKeeps, PlaceBuiltKeeps,
     WriteDerivedKeeps, RecordKeeps, MarkKeeps, OmapKeeps, LoadSmokeKeeps, SmokeOneKeeps,
     ManifestKeeps, KillKeeps, RemoveFileKeeps
     DEF FetchNext
<1> QED
  BY <1>1, <1>2

(***************************************************************************)
(* However often the fetcher is killed, started again or loses a file: a   *)
(* .done marker stands for a file that is whole and recorded.              *)
(***************************************************************************)
THEOREM MarkersTellTheTruth == FetchSpec => []MarkerMeansDone
<1>1. FetchInv => MarkerMeansDone
  BY DEF FetchInv, MarkedIsDone, MarkerMeansDone
<1> QED
  BY <1>1, FetchInvInit, FetchInvNext, PTL DEF FetchSpec

-----------------------------------------------------------------------------

\* Going on to another item, a run comes past none that it was to derive.
LEMMA NoneIsLeftOut ==
  ASSUME NEW C \in SUBSET Items, GoToItem(C),
         NEW i \in Derived, "corrupt" \in selection, ComePast(i)'
  PROVE  i \notin C
<1> SUFFICES ASSUME i \in C PROVE FALSE
  OBVIOUS
<1>1. Wanted(i) /\ i \in Nat
  BY ItemsAreNumbers DEF Wanted, StageOf, Derived
<1>2. item' \in C /\ step' = "look" /\ item' <= i
  BY <1>1, GoesToTheFirst DEF ComePast, AfterItems, AtAnItem
<1> QED
  BY <1>1, <1>2, ItemsAreNumbers DEF ComePast, AfterItems

LEMMA OnlyThisIsPassed ==
  ASSUME FetchInv, step \in AtAnItem,
         NextItem \/ (AbandonStep /\ Plan[item] # "derived"),
         NEW i \in Derived, "corrupt" \in selection, ComePast(i)'
  PROVE  ComePast(i) \/ i = item
<1>1. item \in Items
  BY DEF FetchInv, FetchTypeOK, AtNoItem, AtAnItem
<1>2. i \in Items /\ Plan[i] = "derived"
  BY DEF Derived
<1>3. ~(i > item)
  <2>1. CASE NextItem
    BY <2>1, <1>2, NoneIsLeftOut DEF NextItem
  <2>2. CASE AbandonStep /\ Plan[item] # "derived"
    BY <2>2, <1>2, NoneIsLeftOut DEF AbandonStep
  <2> QED
    BY <2>1, <2>2
<1> QED
  BY <1>1, <1>2, <1>3, ItemsAreNumbers DEF ComePast

-----------------------------------------------------------------------------

LEMMA PlacedStaysWhole ==
  ASSUME FetchInv, PlacedIsWhole, FetchNext PROVE PlacedIsWhole'
<1> USE DEF PlacedIsWhole, Placed
<1>1. CASE Start
  BY <1>1 DEF Start, disk
<1>2. CASE Rehash
  BY <1>2 DEF Rehash
<1>3. CASE Begin \/ Pass \/ Omap \/ LoadSmoke \/ Manifest
  BY <1>3 DEF Begin, Pass, Omap, LoadSmoke, Manifest, disk
<1>4. CASE LookDirect \/ UnpackInPlace
  <2>1. Plan[item] \in {"direct", "archive"} /\ UNCHANGED <<prov, saved>>
    BY <1>4 DEF LookDirect, UnpackInPlace, Is, Unchanged
  <2>2. \E got : file' = [file EXCEPT ![item] = got]
    BY <1>4 DEF LookDirect, UnpackInPlace
  <2> QED
    BY <2>1, <2>2 DEF FetchInv, FetchTypeOK
<1>5. CASE LookArchive \/ UnpackStaged \/ Build
  BY <1>5 DEF LookArchive, UnpackStaged, Build, Unchanged
<1>6. CASE MoveStaged \/ PlaceBuilt \/ WriteDerived
  <2>1. file' = [file EXCEPT ![item] = "whole"] /\ UNCHANGED <<prov, saved>>
    BY <1>6 DEF MoveStaged, PlaceBuilt, WriteDerived, Unchanged
  <2> QED
    BY <2>1 DEF FetchInv, FetchTypeOK
<1>7. CASE Record
  BY <1>7 DEF Record, FetchInv, FetchTypeOK
<1>8. CASE Mark \/ SmokeOne
  BY <1>8 DEF Mark, SmokeOne
<1>9. CASE Kill
  <2>1. \A i \in Placed : file'[i] = file[i]
    <3>1. item # 0 /\ Plan[item] \in {"msi", "xp"} => LeftFile = {file[item]}
      BY DEF LeftFile, Is, FetchInv, KindFits
    <3> QED
      BY <1>9, <3>1 DEF Kill, FetchInv, FetchTypeOK
  <2> QED
    BY <1>9, <2>1 DEF Kill
<1>10. CASE RemoveFile
  BY <1>10 DEF RemoveFile, FetchInv, FetchTypeOK
<1> QED
  BY <1>1, <1>2, <1>3, <1>4, <1>5, <1>6, <1>7, <1>8, <1>9, <1>10 DEF FetchNext

LEMMA DerivedStaysAnew ==
  ASSUME FetchInv, DerivedAnew, FetchNext PROVE DerivedAnew'
<1> SUFFICES ASSUME NEW i \in Derived, "corrupt" \in selection', ComePast(i)'
             PROVE  file'[i] = "whole" /\ prov'[i] = "whole"
  BY DEF DerivedAnew, Derived
<1>i. i \in Items /\ Plan[i] = "derived" /\ i # 0
  BY ItemsAreNumbers DEF Derived
<1>a. "corrupt" \in selection /\ ComePast(i) => file[i] = "whole" /\ prov[i] = "whole"
  BY DEF DerivedAnew
<1>b. item = i => ~(step \in AtAnItem /\ i < item)
  BY <1>i, ItemsAreNumbers
<1> USE DEF ComePast, AfterItems, AtAnItem
<1>1. CASE Start \/ Rehash \/ Kill \/ RemoveFile
  BY <1>1 DEF Start, Rehash, Kill, RemoveFile, Reach, Stop
<1>2. CASE Begin
  BY <1>2, <1>i, NoneIsLeftOut DEF Begin
<1>3. CASE Pass
  BY <1>3, <1>i, <1>a, OnlyThisIsPassed DEF Pass, Is, disk
<1>4. CASE LookDirect
  BY <1>4, <1>i, <1>a DEF LookDirect, Is, Reach, Unchanged
<1>5. CASE LookArchive
  BY <1>5, <1>i, <1>a, OnlyThisIsPassed DEF LookArchive, Is, Reach, Unchanged
<1>6. CASE UnpackInPlace
  <2>1. step = "unpack" /\ Plan[item] \in {"direct", "archive"} /\ UNCHANGED <<prov, selection>>
    BY <1>6 DEF UnpackInPlace, Is, Unchanged
  <2>2. \E got : file' = [file EXCEPT ![item] = got]
    BY <1>6 DEF UnpackInPlace
  <2>3. (item' = item /\ step' = "record") \/ AbandonStep
    BY <1>6 DEF UnpackInPlace, Reach
  <2>4. ComePast(i) \/ i = item
    BY <2>1, <2>3, <1>i, OnlyThisIsPassed
  <2> QED
    BY <2>1, <2>2, <2>4, <1>i, <1>a DEF FetchInv, FetchTypeOK
<1>7. CASE UnpackStaged \/ Build
  BY <1>7, <1>i, <1>a, OnlyThisIsPassed DEF UnpackStaged, Build, Is, Reach, Unchanged
<1>8. CASE MoveStaged \/ PlaceBuilt
  <2>1. item' = item /\ step' = "record" /\ step \in {"move", "place"} /\ UNCHANGED <<prov, selection>>
    BY <1>8 DEF MoveStaged, PlaceBuilt, Reach, Unchanged
  <2>2. file' = [file EXCEPT ![item] = "whole"] /\ i # item
    BY <1>8, <1>i DEF MoveStaged, PlaceBuilt, FetchInv, KindFits
  <2> QED
    BY <2>1, <2>2, <1>i, <1>a DEF FetchInv, FetchTypeOK
<1>9. CASE WriteDerived
  BY <1>9, <1>i, <1>a, <1>b DEF WriteDerived, Is, Reach, Unchanged
<1>10. CASE Record
  BY <1>10, <1>i, <1>a, OnlyThisIsPassed DEF Record, Reach, FetchInv, FetchTypeOK, RecordsWhole
<1>11. CASE Mark
  <2>1. Plan[item] = "msi"
    BY <1>11 DEF Mark, FetchInv, KindFits
  <2>2. ComePast(i) \/ i = item
    BY <1>11, <1>i, OnlyThisIsPassed DEF Mark
  <2> QED
    BY <1>11, <2>1, <2>2, <1>i, <1>a DEF Mark, disk
<1>12. CASE Omap \/ LoadSmoke \/ SmokeOne \/ Manifest
  BY <1>12, <1>a DEF Omap, LoadSmoke, SmokeOne, Manifest, Reach, Stop, disk
<1> QED
  BY <1>1, <1>2, <1>3, <1>4, <1>5, <1>6, <1>7, <1>8, <1>9, <1>10, <1>11, <1>12 DEF FetchNext

-----------------------------------------------------------------------------

\* Renamed into place, or derived by this run: what is found there is the whole file.
LEMMA WhatIsThereIsWhole ==
  ASSUME PlacedIsWhole, DerivedAnew, step \in AfterItems,
         NEW i \in PlacedWhole, "corrupt" \in selection \/ Plan[i] # "derived", Listed(i)
  PROVE  prov[i] = "whole" /\ file[i] = "whole"
<1>1. CASE i \in Placed
  BY <1>1 DEF PlacedIsWhole, Listed
<1>2. CASE i \in Derived
  <2>1. "corrupt" \in selection
    BY <1>2 DEF Derived
  <2> QED
    BY <1>2, <2>1 DEF DerivedAnew, ComePast
<1> QED
  BY <1>1, <1>2 DEF PlacedWhole, Placed, Derived

\* A measurement of the smoke pass stays true of the file it was taken of.
LEMMA SmokeStaysTrue ==
  ASSUME FetchInv, PlacedIsWhole, DerivedAnew, SmokeIsTrue, FetchNext
  PROVE  SmokeIsTrue'
<1> DEFINE Untouched == UNCHANGED <<smoke, savedSmoke, smokedAlone>> /\ step' # "smoke files"
<1>1. CASE SmokeOne
  <2> DEFINE i == First(ToSmoke, 0)
  <2>1. CASE i = 0
    BY <1>1, <2>1 DEF SmokeOne, SmokeIsTrue, Measured, Faithful, PlacedWhole, Reach
  <2>2. CASE i # 0
    <3>1. i \in ToSmoke
      <4>1. ToSmoke # {} /\ ToSmoke \subseteq Nat
        BY <2>2, ItemsAreNumbers DEF First, ToSmoke
      <4>2. Min(ToSmoke) \in ToSmoke
        BY <4>1, LeastNumber DEF Min
      <4> QED
        BY <4>1, <4>2 DEF First
    <3> HIDE DEF i
    <3>2. /\ smoke' = [smoke EXCEPT ![i] = <<prov[i], file[i]>>] /\ savedSmoke' = smoke'
          /\ UNCHANGED <<selection, smokedAlone, step>> /\ step = "smoke files"
      BY <1>1, <2>2 DEF SmokeOne, i
    <3>3. Faithful(i) => file[i] = "whole"
      <4>1. Listed(i) /\ ("corrupt" \in selection \/ smokedAlone)
        BY <3>1, <3>2 DEF SmokeIsTrue, ToSmoke, Listed
      <4> QED
        BY <3>2, <4>1, WhatIsThereIsWhole DEF Faithful, AfterItems
    <3>4. Measured(smoke)'
      <4>1. smoke'[i] = <<prov[i], file[i]>> /\ \A j \in Items \ {i} : smoke'[j] = smoke[j]
        BY <3>1, <3>2 DEF FetchInv, FetchTypeOK, ToSmoke
      <4>2. ASSUME NEW j \in Items, Faithful(j), smoke'[j][1] = "whole" PROVE smoke'[j][2] = "whole"
        <5>1. CASE j = i
          BY <5>1, <3>3, <4>1, <4>2
        <5>2. CASE j # i
          BY <5>2, <4>1, <4>2 DEF SmokeIsTrue, Measured
        <5> QED
          BY <5>1, <5>2
      <4> QED
        BY <3>2, <4>2 DEF Measured, Faithful, PlacedWhole
    <3> QED
      BY <3>2, <3>4 DEF SmokeIsTrue, Measured, Faithful, PlacedWhole
  <2> QED
    BY <2>1, <2>2
<1>2. CASE LoadSmoke
  BY <1>2 DEF LoadSmoke, SmokeIsTrue, Measured, Faithful, PlacedWhole, Reach, Stop, disk
<1>3. CASE Untouched
  BY <1>3 DEF SmokeIsTrue, Measured, Faithful, PlacedWhole
<1>4. CASE Kill
  BY <1>4 DEF Kill, SmokeIsTrue, Measured, Faithful, PlacedWhole, Reach, Stop
<1>5. Start \/ Rehash \/ RemoveFile => Untouched
  BY DEF Start, Rehash, RemoveFile, Reach, disk
<1>6. Begin \/ Pass \/ UnpackStaged \/ Mark => Untouched
  BY GoingOnFits, NextItemFits DEF Begin, Pass, UnpackStaged, Mark, Unchanged, disk, Reach
<1>7. LookDirect \/ UnpackInPlace => Untouched
  BY NextItemFits DEF LookDirect, UnpackInPlace, Reach, Unchanged
<1>8. LookArchive \/ Build \/ Record => Untouched
  BY NextItemFits DEF LookArchive, Build, Record, Reach, Unchanged
<1>9. MoveStaged \/ PlaceBuilt \/ WriteDerived => Untouched
  BY DEF MoveStaged, PlaceBuilt, WriteDerived, Reach, Unchanged
<1>10. Omap \/ Manifest => Untouched
  BY DEF Omap, Manifest, Reach, Stop, disk
<1> HIDE DEF Untouched
<1> QED
  BY <1>1, <1>2, <1>3, <1>4, <1>5, <1>6, <1>7, <1>8, <1>9, <1>10 DEF FetchNext

\* When there is no more to measure, the tables of a run that derives tell the truth.
LEMMA NothingIsStale ==
  ASSUME FetchInv, PlacedIsWhole, DerivedAnew, SmokeIsTrue,
         SmokeOne, First(ToSmoke, 0) = 0, "corrupt" \in selection
  PROVE  ManifestTruth
<1> SUFFICES ASSUME NEW i \in Items, Listed(i)
             PROVE  /\ smoke[i][1] = prov[i]
                    /\ i \in PlacedWhole => prov[i] = file[i]
                    /\ Faithful(i) => smoke[i][2] = file[i]
  BY DEF ManifestTruth
<1>1. ToSmoke = {}
  <2> SUFFICES ASSUME ToSmoke # {} PROVE FALSE
    OBVIOUS
  <2>1. ToSmoke \subseteq Nat \ {0}
    BY ItemsAreNumbers DEF ToSmoke
  <2>2. Min(ToSmoke) \in ToSmoke
    BY <2>1, LeastNumber DEF Min
  <2> QED
    BY <2>1, <2>2 DEF First
<1>2. smoke[i][1] = prov[i]
  BY <1>1 DEF ToSmoke, Stale, Listed
<1>3. i \in PlacedWhole => prov[i] = "whole" /\ file[i] = "whole"
  BY WhatIsThereIsWhole DEF SmokeOne, AfterItems
<1>4. Faithful(i) => smoke[i][2] = file[i]
  BY <1>2, <1>3 DEF Faithful, SmokeIsTrue, Measured
<1> QED
  BY <1>2, <1>3, <1>4

\* What the tables list of the corpus stays true of it.
LEMMA TheListStaysTrue ==
  ASSUME FetchInv, ManifestInv, FetchNext
  PROVE  ListsWhatIsThere'
<1>1. CASE completed' = FALSE /\ step' # "manifest"
  BY <1>1 DEF ListsWhatIsThere
<1>2. CASE Manifest
  BY <1>2 DEF Manifest, Reach, Stop, disk, ManifestInv, ListsWhatIsThere, ManifestTruth, Listed,
              Faithful, PlacedWhole
<1>3. CASE LoadSmoke
  BY <1>3 DEF LoadSmoke, Reach, Stop, ManifestInv, ListsWhatIsThere, FetchInv, FetchTypeOK, Stages
<1>4. CASE SmokeOne
  <2>1. completed' = FALSE
    BY <1>4 DEF SmokeOne, ManifestInv, ListsWhatIsThere, FetchInv, FetchTypeOK
  <2>2. CASE First(ToSmoke, 0) = 0
    <3>1. selection = Stages => ManifestTruth
      BY <1>4, <2>2, NothingIsStale DEF ManifestInv, Stages
    <3> QED
      BY <1>4, <2>1, <2>2, <3>1 DEF SmokeOne, ListsWhatIsThere, ManifestTruth, Listed, Faithful,
                                   PlacedWhole
  <2>3. CASE First(ToSmoke, 0) # 0
    BY <1>4, <2>1, <2>3 DEF SmokeOne, ListsWhatIsThere
  <2> QED
    BY <2>2, <2>3
<1>5. step # "idle" => completed = FALSE
  BY DEF ManifestInv, ListsWhatIsThere, FetchInv, FetchTypeOK
<1>6. Start \/ Rehash \/ RemoveFile \/ Kill \/ Omap => completed' = FALSE /\ step' # "manifest"
  BY <1>5 DEF Start, Rehash, RemoveFile, Kill, Omap, Reach, Stop
<1>7. Begin \/ Pass \/ UnpackStaged \/ Mark => completed' = FALSE /\ step' # "manifest"
  BY <1>5, GoingOnFits, NextItemFits DEF Begin, Pass, UnpackStaged, Mark, Unchanged, Reach, Is
<1>8. LookDirect \/ UnpackInPlace => completed' = FALSE /\ step' # "manifest"
  BY <1>5, NextItemFits DEF LookDirect, UnpackInPlace, Reach, Unchanged, Is
<1>9. LookArchive \/ Build \/ Record => completed' = FALSE /\ step' # "manifest"
  BY <1>5, NextItemFits DEF LookArchive, Build, Record, Reach, Unchanged, Is
<1>10. MoveStaged \/ PlaceBuilt \/ WriteDerived => completed' = FALSE /\ step' # "manifest"
  BY <1>5 DEF MoveStaged, PlaceBuilt, WriteDerived, Reach, Unchanged, Is
<1> QED
  BY <1>1, <1>2, <1>3, <1>4, <1>6, <1>7, <1>8, <1>9, <1>10 DEF FetchNext

LEMMA ManifestInvInit == FetchInit => ManifestInv
BY DEF FetchInit, ManifestInv, PlacedIsWhole, DerivedAnew, SmokeIsTrue, Measured, ListsWhatIsThere,
       ManifestTruth, Nothing, NoSmoke, NoFile, Placed, PlacedWhole, Derived

LEMMA ManifestInvNext ==
  ASSUME FetchInv, ManifestInv, [FetchNext]_fetchVars
  PROVE  ManifestInv'
<1>1. CASE UNCHANGED fetchVars
  BY <1>1 DEF fetchVars, disk, ManifestInv, PlacedIsWhole, DerivedAnew, ComePast, SmokeIsTrue,
              Measured, Faithful, ListsWhatIsThere, ManifestTruth, Listed, Placed, PlacedWhole, Derived
<1>2. CASE FetchNext
  BY <1>2, PlacedStaysWhole, DerivedStaysAnew, SmokeStaysTrue, TheListStaysTrue DEF ManifestInv
<1> QED
  BY <1>1, <1>2

(***************************************************************************)
(* For every plan, whatever stages the user ever chose, and whatever was   *)
(* killed, broken or removed before: a complete run lists every file with  *)
(* a measurement taken under the hash it lists; for files renamed into     *)
(* place or written anew it is the hash of what is there; and what is      *)
(* measured of them is, but of a derived file after a run that smoked and  *)
(* did not derive, the file that is there.                                 *)
(***************************************************************************)
THEOREM WhatIsListedIsTrue == FetchSpec => []ManifestIsTrue
<1>1. ManifestInv => ManifestIsTrue
  BY DEF ManifestInv, ListsWhatIsThere, ManifestTruth, Faithful, ManifestIsTrue, FullRun
<1>2. FetchInv /\ ManifestInv /\ [FetchNext]_fetchVars => ManifestInv'
  BY ManifestInvNext
<1> QED
  BY <1>1, <1>2, FetchInvInit, FetchInvNext, ManifestInvInit, PTL DEF FetchSpec
=============================================================================
