------------------------------- MODULE MsfRead -------------------------------
(***************************************************************************)
(* MsfFile._read_blocks and _append_run (purepdb/msf.py): a block list is  *)
(* scanned once, every maximal run of consecutive indices is bounds        *)
(* checked and taken as one slice, and the slices are joined and cut.      *)
(* One action per turn of the loop; what a slice holds is the sequence of  *)
(* the block indices it covers.                                            *)
(***************************************************************************)
EXTENDS MsfReadSpec

VARIABLES
  pc,          \* "start", "scan" or "done"
  pos,         \* index in the list the loop looks at next
  run_start,   \* first block of the run being grown
  expect,      \* the block that would extend it
  runs         \* the blocks of the slices taken so far, joined

vars == <<request, answer, pc, pos, run_start, expect, runs>>

Init ==
  /\ SpecInit
  /\ pc = "start"
  /\ pos = 1 /\ run_start = 0 /\ expect = 0
  /\ runs = <<>>

\* The bounds check of _append_run: one for the whole run.
RunFits(first, count) == first * BlockSize + count * BlockSize <= FileLen

\* Mutant: the run's first block is named, in the file or not.
FirstOfRun(first) == first

\* The block _append_run names when the run does not fit.
FirstBad(first) ==
  LET room == (FileLen - first * BlockSize) \div BlockSize IN
  first + (IF room > 0 THEN room ELSE 0)

\* data[start:end], as the blocks it covers.
Slice(first, count) == [k \in 1..count |-> first + k - 1]

Raise(b) ==
  /\ answer' = OutOfRange(b)
  /\ pc' = "done"

------------------------------------------------------------------------------

ReadNothing ==
  /\ pc = "start"
  /\ request.indices = <<>>
  /\ answer' = Returned(<<>>, 0)
  /\ pc' = "done"
  /\ UNCHANGED <<request, pos, run_start, expect, runs>>

OpenFirstRun ==
  /\ pc = "start"
  /\ request.indices # <<>>
  /\ run_start' = request.indices[1]
  /\ expect' = request.indices[1] + 1
  /\ pos' = 2
  /\ pc' = "scan"
  /\ UNCHANGED <<request, answer, runs>>

\* The next index continues the run.
GrowRun ==
  /\ pc = "scan"
  /\ pos <= Len(request.indices)
  /\ request.indices[pos] = expect
  /\ expect' = expect + 1
  /\ pos' = pos + 1
  /\ UNCHANGED <<request, answer, pc, run_start, runs>>

\* The next index starts another run: the one before it is taken or refused.
BreakRun ==
  /\ pc = "scan"
  /\ pos <= Len(request.indices)
  /\ request.indices[pos] # expect
  /\ LET count == expect - run_start IN
     \/ /\ RunFits(run_start, count)
        /\ runs' = runs \o Slice(run_start, count)
        /\ run_start' = request.indices[pos]
        /\ expect' = request.indices[pos] + 1
        /\ pos' = pos + 1
        /\ UNCHANGED <<answer, pc>>
     \/ /\ ~RunFits(run_start, count)
        /\ Raise(FirstBad(run_start))
        /\ UNCHANGED <<pos, run_start, expect, runs>>
  /\ UNCHANGED request

\* The list is exhausted: the last run is taken, and the join cut to size.
TakeLastRun ==
  /\ pc = "scan"
  /\ pos > Len(request.indices)
  /\ LET count == expect - run_start
         all   == runs \o Slice(run_start, count)
     IN
     \/ /\ RunFits(run_start, count)
        /\ runs' = all
        /\ answer' = Returned(all, Least(request.size, Len(all) * BlockSize))
        /\ pc' = "done"
     \/ /\ ~RunFits(run_start, count)
        /\ Raise(FirstBad(run_start))
        /\ UNCHANGED runs
  /\ UNCHANGED <<request, pos, run_start, expect>>

Next == ReadNothing \/ OpenFirstRun \/ GrowRun \/ BreakRun \/ TakeLastRun

Spec == Init /\ [][Next]_vars

------------------------------------------------------------------------------
(***************************************************************************)
(* Properties                                                              *)
(***************************************************************************)

TypeOK ==
  /\ request \in Requests
  /\ pc \in {"start", "scan", "done"}
  /\ pos \in Nat \ {0}
  /\ run_start \in Nat /\ expect \in Nat
  /\ runs \in Seq(Nat)

\* The blocks taken so far are the list's first ones, all inside the file.
TakenPrefix ==
  \A k \in 1..Len(runs) : runs[k] = request.indices[k] /\ InFile(request.indices[k])

\* The run being grown is the stretch of the list from there to the cursor.
GrowingStretch ==
  /\ run_start < expect
  /\ Len(runs) + (expect - run_start) = pos - 1
  /\ pos - 1 <= Len(request.indices)
  /\ \A k \in 1..(expect - run_start) :
        request.indices[Len(runs) + k] = run_start + k - 1

\* While it scans, the list splits into what has been taken, the run being
\* grown and the rest.  (The comment at _read_blocks claims its check per run
\* is "the same check as before", the one block at a time.)
SplitInv ==
  /\ pc = "start" => runs = <<>>
  /\ pc = "scan" => TakenPrefix /\ GrowingStretch

\* A read in progress has not answered: the loop stops at the first refusal.
PendingUntilDone == (pc = "done") <=> (answer # Pending)

IInv == TypeOK /\ SplitInv /\ PendingUntilDone

\* Every behaviour of the run-at-a-time read is one of the per-block read.
RefinesPerBlock == ReadSpec
=============================================================================
