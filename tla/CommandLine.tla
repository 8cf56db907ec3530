----------------------------- MODULE CommandLine -----------------------------
(***************************************************************************)
(* The command line as a process (purepdb/__main__.py): main() prints one  *)
(* record a line to a buffered stdout and says everything else on stderr,  *)
(* cli() turns what happens to the process into an exit status.  The       *)
(* reader of stdout may leave, the disk may fill, Ctrl-C may come, and the *)
(* file may turn out unreadable, between any two steps.  A write to stderr *)
(* is taken to succeed, and Ctrl-C to come once and not while cli() is     *)
(* answering the first.                                                    *)
(***************************************************************************)
EXTENDS Naturals, FiniteSets

CONSTANTS
    MaxRecords,    \* bound: records in a listing
    Capacity       \* lines stdio keeps before it writes

ASSUME SizesAssumption == MaxRecords \in Nat /\ Capacity \in Nat \ {0}

(***************************************************************************)
(* argv is what the arguments amount to: a listing, which has a noun and   *)
(* gets a count; a report, which does not; or neither.                     *)
(***************************************************************************)
Arguments == {"help", "too few", "unknown command", "listing", "report"}

VARIABLES
    argv, total,       \* what is asked for, and how many records it has
    stdout, stderr,    \* whether Python made a stream of each
    reader,            \* of stdout: "there", "gone" or "full" (the disk is)
    redirected,        \* stdout's descriptor was pointed at the null device
    buffer,            \* lines printed and not yet written
    printed, delivered,
    told,              \* what stderr was told
    pdb,               \* "none", "open" or "closed"
    interrupted,       \* Ctrl-C came; bound: once
    pc, status

world == <<argv, total, stdout, stderr>>
output == <<redirected, buffer, printed, delivered>>
vars == <<world, reader, output, told, pdb, interrupted, pc, status>>

Init ==
    /\ argv \in Arguments
    /\ total \in 0..MaxRecords
    /\ stdout \in BOOLEAN /\ stderr \in BOOLEAN
    /\ reader = "there" /\ redirected = FALSE
    /\ buffer = 0 /\ printed = 0 /\ delivered = 0
    /\ told = {}
    /\ pdb = "none" /\ interrupted = FALSE
    /\ pc = "cli" /\ status = 0

GoTo(s) == pc' = s /\ UNCHANGED status
GoWith(s, n) == pc' = s /\ status' = n

-----------------------------------------------------------------------------
(* Writing *)

\* _eprint: to stderr, or to nowhere if there is none.
Eprint(what) == told' = IF stderr THEN told \cup {what} ELSE told

Silently == UNCHANGED told

\* The buffer holds n lines: can they be written, and what is left if so.
CanWrite == reader = "there" \/ redirected
Written(n) ==
    /\ buffer' = 0
    /\ delivered' = IF redirected THEN delivered ELSE delivered + n
Kept(n) == buffer' = n /\ UNCHANGED delivered

\* What a failed write to stdout raises.
BrokenPipe == reader = "gone"

\* The except clauses of main() and of cli(), which agree.
Fail(next) ==
    IF BrokenPipe THEN Silently /\ GoWith(next, 141)
    ELSE Eprint("error") /\ GoWith(next, 1)

-----------------------------------------------------------------------------
(* main *)

\* cli refuses to list to a stdout that is not there.
Enter ==
    /\ pc = "cli"
    /\ IF stdout THEN Silently /\ GoTo("main") ELSE Eprint("error") /\ GoWith("exit", 1)
    /\ UNCHANGED <<world, reader, output, pdb, interrupted>>

ReadArguments ==
    /\ pc = "main"
    /\ \/ /\ argv = "help"
          /\ printed' = printed + 1 /\ buffer' = buffer + 1
          /\ Silently /\ GoTo("flush")
       \/ /\ argv \in {"too few", "unknown command"}
          /\ Eprint("usage") /\ GoWith("flush", 2) /\ UNCHANGED <<printed, buffer>>
       \/ /\ argv \in {"listing", "report"}
          /\ Silently /\ GoTo("open") /\ UNCHANGED <<printed, buffer>>
    /\ UNCHANGED <<world, reader, redirected, delivered, pdb, interrupted>>

Open ==
    /\ pc = "open"
    /\ \/ pdb' = "open" /\ Silently /\ GoTo("listing")
       \/ pdb' = "none" /\ Eprint("error") /\ GoWith("close", 1)
    /\ UNCHANGED <<world, reader, output, interrupted>>

PrintRecord ==
    /\ pc = "listing" /\ printed < total
    /\ printed' = printed + 1
    /\ IF buffer < Capacity
       THEN Kept(buffer + 1) /\ Silently /\ GoTo("listing")
       ELSE IF CanWrite
            THEN Written(buffer + 1) /\ Silently /\ GoTo("listing")
            ELSE Kept(buffer + 1) /\ Fail("close")
    /\ UNCHANGED <<world, reader, redirected, pdb, interrupted>>

\* Mutant: what was listed until then is taken for the listing.
RaiseQuietly ==
    /\ pc = "listing" /\ printed < total
    /\ Eprint("count") /\ GoTo("warn")
    /\ UNCHANGED <<world, reader, output, pdb, interrupted>>

\* A listing may reach an unreadable stream part-way through.
Raise ==
    /\ pc = "listing" /\ printed < total
    /\ Eprint("error") /\ GoWith("close", 1)
    /\ UNCHANGED <<world, reader, output, pdb, interrupted>>

EndListing ==
    /\ pc = "listing" /\ printed = total
    /\ IF argv = "listing" THEN Eprint("count") /\ GoTo("warn")
       ELSE Silently /\ GoTo("close")
    /\ UNCHANGED <<world, reader, output, pdb, interrupted>>

\* diagnose() reads more streams than the listing did, and may raise on one.
Warn ==
    /\ pc = "warn"
    /\ \/ Silently /\ GoTo("close")
       \/ Eprint("warning") /\ GoTo("close")
       \/ Eprint("error") /\ GoWith("close", 1)
    /\ UNCHANGED <<world, reader, output, pdb, interrupted>>

Close ==
    /\ pc = "close"
    /\ pdb' = IF pdb = "open" THEN "closed" ELSE pdb
    /\ Silently
    /\ GoTo(IF interrupted THEN "settle" ELSE "flush")
    /\ UNCHANGED <<world, reader, output, interrupted>>

-----------------------------------------------------------------------------
(* cli *)

Flush ==
    /\ pc = "flush"
    /\ IF buffer = 0 \/ CanWrite
       THEN Written(buffer) /\ Silently /\ GoTo("exit") /\ UNCHANGED redirected
       ELSE Kept(buffer) /\ Fail("exit") /\ redirected' = TRUE
    /\ UNCHANGED <<world, reader, printed, pdb, interrupted>>

\* Mutant: an interrupt gives stdout up, as a broken pipe does.
SettleByStopping ==
    /\ pc = "settle"
    /\ redirected' = TRUE
    /\ Eprint("") /\ GoWith("exit", 130)
    /\ UNCHANGED <<world, reader, buffer, printed, delivered, pdb, interrupted>>

\* except KeyboardInterrupt, with _settle_stdout.
Settle ==
    /\ pc = "settle"
    /\ IF buffer = 0 \/ CanWrite
       THEN Written(buffer) /\ UNCHANGED redirected
       ELSE Kept(buffer) /\ redirected' = TRUE
    /\ Eprint("") /\ GoWith("exit", 130)
    /\ UNCHANGED <<world, reader, printed, pdb, interrupted>>

\* The interpreter flushes once more; what that raises nobody catches.
Exit ==
    /\ pc = "exit"
    /\ IF buffer = 0 \/ CanWrite
       THEN Written(buffer) /\ GoTo("over")
       ELSE Kept(buffer) /\ GoWith("over", 120)
    /\ Silently
    /\ UNCHANGED <<world, reader, redirected, printed, pdb, interrupted>>

-----------------------------------------------------------------------------
(* What happens to the process *)

\* In main()'s try block the finally clause runs first.
Interrupt ==
    /\ ~interrupted /\ interrupted' = TRUE
    /\ \/ pc \in {"open", "listing", "warn"} /\ GoTo("close")
       \/ pc \in {"main", "close", "flush"} /\ GoTo("settle")
    /\ UNCHANGED <<world, reader, output, told, pdb>>

ReaderFails ==
    /\ pc # "over" /\ reader = "there"
    /\ reader' \in {"gone", "full"}
    /\ UNCHANGED <<world, output, told, pdb, interrupted, pc, status>>

Next ==
    \/ Enter \/ ReadArguments \/ Open \/ PrintRecord \/ Raise \/ EndListing
    \/ Warn \/ Close \/ Flush \/ Settle \/ Exit
    \/ Interrupt \/ ReaderFails

Spec == Init /\ [][Next]_vars

-----------------------------------------------------------------------------
(* Properties *)

Over == pc = "over"

(***************************************************************************)
(* A run that exits 0 listed everything there is and wrote all of it,      *)
(* whoever reads it: not a file found unreadable half-way, not a reader    *)
(* that had left before the buffer was written.                            *)
(***************************************************************************)
ZeroMeansWhole ==
    Over /\ status = 0 /\ argv \in {"listing", "report"} =>
        delivered = total /\ "error" \notin told

(***************************************************************************)
(* __main__.py:455-460, why cli() flushes: no failure is left to the       *)
(* interpreter's exit, "where nothing catches it", whatever happened and   *)
(* whichever way cli() was left.                                           *)
(***************************************************************************)
NothingRaisesAtExit == status # 120

(***************************************************************************)
(* __main__.py:421-423: an interrupted listing keeps the records written   *)
(* so far as long as there is someone to give them to.                     *)
(***************************************************************************)
InterruptKeepsRecords == Over /\ interrupted /\ reader = "there" => delivered = printed

(***************************************************************************)
(* A status is never a riddle: what failed is said on stderr if there is   *)
(* one, 141 is a reader that left, 130 is Ctrl-C.                          *)
(***************************************************************************)
NoFailureIsSilent ==
    Over => /\ status \in {1, 2} /\ stderr => told \cap {"error", "usage"} # {}
            /\ status = 141 => reader = "gone"
            /\ status = 130 <=> interrupted

\* All three: the status is the whole truth about the run.
StatusIsTrue == ZeroMeansWhole /\ NoFailureIsSilent /\ NothingRaisesAtExit
=============================================================================
