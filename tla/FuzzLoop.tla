------------------------------- MODULE FuzzLoop -------------------------------
(***************************************************************************)
(* One run of the fuzzer (main() of tools/fuzz.py): inputs one after the   *)
(* other, an alarm set before each and cleared behind it, the failures     *)
(* kept in a dictionary until the end, when their inputs are saved.        *)
(*                                                                         *)
(* The input of an iteration is fixed by the seed.  It ends with an        *)
(* outcome, or never; one that takes as long as the alarm may be           *)
(* interrupted by it at any step until the alarm is cleared, and where     *)
(* the interpreter is by then is what matters.                             *)
(***************************************************************************)
EXTENDS Naturals, FiniteSets, Sequences

CONSTANTS
    Iterations,     \* --iterations
    MaxFailures,    \* --max-failures
    Places          \* where an exception that escapes may be raised

ASSUME LoopAssumption == Iterations \in Nat /\ MaxFailures \in Nat
ASSUME PlacesAssumption == Places \cap {"passed", "hang", "TIMEOUT"} = {}

Generators == <<"random", "structured", "mutation">>
GeneratorOf(n) == Generators[((n - 1) % Len(Generators)) + 1]

\* What exercising an input comes to: "passed" if it returns, or raises what a
\* caller is entitled to see; "hang" if it does neither.
Outcomes == {"passed", "hang"} \cup Places

VARIABLES
    inputs,        \* the input of each iteration so far: [outcome, slow]
    sigalrm,       \* the platform has SIGALRM
    budget,        \* --max-seconds is given
    fuzz_pc,
    alarm,         \* it is set, and may go off for the input is slow
    failures,      \* key -> the iteration of the input kept for it
    fuzz_failures, \* the directory: iteration -> whether its input is of this run
    exit_status

fuzzWorld == <<sigalrm, budget>>
fuzzVars == <<fuzzWorld, fuzz_pc, inputs, alarm, failures, fuzz_failures, exit_status>>

Inputs == {input \in [outcome : Outcomes, slow : BOOLEAN] : input.outcome = "hang" => input.slow}

\* A file of an earlier run may lie where this one's would.
FuzzInit ==
    /\ sigalrm \in BOOLEAN /\ budget \in BOOLEAN
    /\ fuzz_pc = "loop" /\ inputs = <<>> /\ alarm = FALSE
    /\ failures = <<>>
    /\ fuzz_failures \in {<<>>, [j \in {1} |-> "stale"]}
    /\ exit_status = "none"

Iteration == Len(inputs)
Input == inputs[Iteration]
Goes(pc) == fuzz_pc' = pc

\* Mutant: the alarm is set once, before the loop.
AlarmSetOnce(input) == sigalrm /\ inputs = <<>> /\ input.slow

\* signal.alarm(TIMEOUT_SECONDS), for the next input.
AlarmSet(input) == sigalrm /\ input.slow

\* The top of the loop: the next iteration, or the end, which the deadline may
\* bring before every input has run.
NextInput ==
    /\ fuzz_pc = "loop" /\ Iteration < Iterations
    /\ \E input \in Inputs : inputs' = Append(inputs, input) /\ alarm' = AlarmSet(input)
    /\ Goes("exercise")
    /\ UNCHANGED <<failures, fuzz_failures, exit_status>>

LeaveLoop ==
    /\ fuzz_pc = "loop" /\ (Iteration = Iterations \/ budget)
    /\ Goes("report")
    /\ UNCHANGED <<inputs, alarm, failures, fuzz_failures, exit_status>>

InputPasses ==
    /\ fuzz_pc = "exercise" /\ Input.outcome = "passed"
    /\ Goes("finally")
    /\ UNCHANGED <<inputs, alarm, failures, fuzz_failures, exit_status>>

\* It raises anything else: except Exception.
InputRaises ==
    /\ fuzz_pc = "exercise" /\ Input.outcome \in Places
    /\ Goes("except")
    /\ UNCHANGED <<inputs, alarm, failures, fuzz_failures, exit_status>>

\* Mutant: ran, which counts from one, for i, which counts from zero.
KeepRan(key) ==
    [k \in DOMAIN failures \cup {key} |-> IF k \in DOMAIN failures THEN failures[k] ELSE Iteration + 1]

\* failures.setdefault(key, (i, data))
KeepFirst(key) ==
    [k \in DOMAIN failures \cup {key} |-> IF k \in DOMAIN failures THEN failures[k] ELSE Iteration]

\* The key of a failure: its generator, and where it was raised.
FailureKey(outcome) == <<GeneratorOf(Iteration), outcome>>

RecordFailure ==
    /\ fuzz_pc = "except"
    /\ failures' = KeepFirst(FailureKey(Input.outcome))
    /\ Goes(IF Cardinality(DOMAIN failures') >= MaxFailures THEN "finally, then break" ELSE "finally")
    /\ UNCHANGED <<inputs, alarm, fuzz_failures, exit_status>>

\* except Timeout: the alarm has gone off, and does not again.
RecordTimeout ==
    /\ fuzz_pc = "except Timeout"
    /\ failures' = KeepFirst(FailureKey("TIMEOUT"))
    /\ Goes("finally")
    /\ UNCHANGED <<inputs, alarm, fuzz_failures, exit_status>>

\* signal.alarm(0)
ClearAlarm ==
    /\ fuzz_pc \in {"finally", "finally, then break"}
    /\ alarm' = FALSE
    /\ Goes(IF fuzz_pc = "finally" THEN "loop" ELSE "report")
    /\ UNCHANGED <<inputs, failures, fuzz_failures, exit_status>>

\* The alarm goes off: in the input, where it is caught; in the handler of what
\* the input raised or in the finally clause, where nothing catches it and the
\* script ends with a traceback.
AlarmInInput ==
    /\ alarm /\ fuzz_pc = "exercise"
    /\ alarm' = FALSE /\ Goes("except Timeout")
    /\ UNCHANGED <<inputs, failures, fuzz_failures, exit_status>>

AlarmOutside ==
    /\ alarm /\ fuzz_pc \in {"except", "finally", "finally, then break"}
    /\ alarm' = FALSE /\ Goes("ended") /\ exit_status' = "traceback"
    /\ UNCHANGED <<inputs, failures, fuzz_failures>>

ReportOk ==
    /\ fuzz_pc = "report" /\ failures = <<>>
    /\ Goes("ended") /\ exit_status' = "0"
    /\ UNCHANGED <<inputs, alarm, failures, fuzz_failures>>

\* Every input is written before main() returns 1.
ReportFailures ==
    /\ fuzz_pc = "report" /\ failures # <<>>
    /\ LET kept == {failures[key] : key \in DOMAIN failures}
       IN fuzz_failures' = [j \in DOMAIN fuzz_failures \cup kept |->
                              IF j \in kept THEN "this run" ELSE fuzz_failures[j]]
    /\ Goes("ended") /\ exit_status' = "1"
    /\ UNCHANGED <<inputs, alarm, failures>>

FuzzLoopStep ==
    \/ NextInput \/ LeaveLoop \/ InputPasses \/ InputRaises \/ RecordFailure \/ RecordTimeout
    \/ ClearAlarm \/ ReportOk \/ ReportFailures

FuzzStep == (FuzzLoopStep \/ AlarmInInput \/ AlarmOutside) /\ UNCHANGED fuzzWorld

FuzzSpec == FuzzInit /\ [][FuzzStep]_fuzzVars

-----------------------------------------------------------------------------
(* Properties.                                                               *)

MustFail == {j \in DOMAIN inputs : inputs[j].outcome \in Places \cup {"hang"}}

IsSaved(j) == j \in DOMAIN fuzz_failures /\ fuzz_failures[j] = "this run"

\* A status of 0 means that nothing escaped and nothing hung in the inputs that
\* ran; a status of 1 that something did, and that every defect met is kept by
\* an input that this run saved and that shows it.
FuzzVerdictIsTrue ==
    /\ exit_status = "0" => MustFail = {}
    /\ exit_status = "1" =>
         /\ failures # <<>>
         /\ \A j \in MustFail : ~inputs[j].slow =>
              <<GeneratorOf(j), inputs[j].outcome>> \in DOMAIN failures
         /\ \A key \in DOMAIN failures :
              LET j == failures[key] IN
              /\ IsSaved(j)
              /\ GeneratorOf(j) = key[1]
              /\ inputs[j].outcome = key[2] \/ (key[2] = "TIMEOUT" /\ inputs[j].slow)

\* An input that never ends does not keep the run from ending, where there is
\* an alarm.
FuzzEnds == sigalrm => <>(fuzz_pc = "ended")

\* "a failing input is saved and uploaded as an artefact so it can be replayed"
\* (README.md:271).  A run that fails has met failures, all of which are lost
\* when the alarm of a later input goes off outside the try.
FailingInputsAreSaved ==
    exit_status \in {"1", "traceback"} =>
      \A key \in DOMAIN failures : IsSaved(failures[key])

\* "stop after this many distinct defects" (tools/fuzz.py:153): the bound is
\* looked at where an exception is recorded and not where a hang is.
StopsAtMaxFailures == Cardinality(DOMAIN failures) <= MaxFailures
=============================================================================
