---------------------------- MODULE LlvmValidation ----------------------------
(***************************************************************************)
(* The sweep that compares purepdb with llvm-pdbutil, record by record     *)
(* (dev/validate_against_llvm.py: dump, differences, validate, main).      *)
(* What it must never do is print "ok" over something it did not compare:  *)
(* the reference tool may be missing, decline, crash, hang or change its   *)
(* format, purepdb may not open the file or may raise in the middle of a   *)
(* comparison, and two empty lists agree.                                  *)
(***************************************************************************)
EXTENDS Integers, FiniteSets, Sequences, SequencesExt

CONSTANTS
    Files,        \* paths
    Checks,       \* the table of checks, in order
    Args,         \* what each asks `llvm-pdbutil dump` for
    Optional,     \* the checks most files have nothing for
    MaxRecords    \* bound: records on each side of a comparison

ASSUME TableAssumption ==
    /\ IsFiniteSet(Files)
    /\ Checks \in Seq(ToSet(Checks)) /\ Checks # <<>> /\ IsInjective(Checks)
    /\ Optional \subseteq ToSet(Checks)
    /\ DOMAIN Args = ToSet(Checks)
    /\ MaxRecords \in Nat

Names == ToSet(Checks)

\* validate() asks for these two before any check.
Preliminary == <<"--modules", "--summary">>
Dumps == ToSet(Preliminary) \cup {Args[c] : c \in Names}

(***************************************************************************)
(* What came of a check on a file.  Only "equal" and "differ" compared a   *)
(* record.                                                                 *)
(***************************************************************************)
Results == {"not reached", "skipped", "nothing", "equal", "differ"}

VARIABLES
    limit, allow, require, tool,   \* --max-diffs, --allow-unreadable, --require-tool; is it there
    left,          \* files to do
    file,          \* the one being done
    cache,         \* of this file: what a dump said, or that the tool declined
    at,            \* the next preliminary dump or check
    agree,         \* ok
    verified,      \* checks that compared a record on some file
    outcome,       \* of each file: "none", "agreed", "failed" or "unreadable"
    results,       \* of each file and check
    pc, status

options == <<limit, allow, require, tool>>
perFile == <<cache, agree>>
vars == <<options, left, file, perFile, at, verified, outcome, results, pc, status>>

Unknown == [d \in Dumps |-> "unknown"]

Init ==
    /\ limit \in -1..1
    /\ allow \in BOOLEAN /\ require \in BOOLEAN /\ tool \in BOOLEAN
    /\ left \in SUBSET Files
    /\ file \in Files
    /\ cache = Unknown /\ agree = TRUE /\ at = 1
    /\ verified = {}
    /\ outcome = [f \in Files |-> "none"]
    /\ results = [f \in Files |-> [c \in Names |-> "not reached"]]
    /\ pc = "start" /\ status = 0

EndWith(n) == pc' = "over" /\ status' = n
GoTo(s) == pc' = s /\ UNCHANGED status

\* A traceback: the sweep ends where it stands.
Escape(why) == pc' = why /\ status' = 1

-----------------------------------------------------------------------------
(* dump *)

(***************************************************************************)
(* The answer is remembered for the file; a failure that is not a known    *)
(* way of declining is not remembered, since it ends the file.             *)
(***************************************************************************)
Dump(d, answer) ==
    IF cache[d] # "unknown" THEN answer = cache[d] /\ UNCHANGED cache
    ELSE /\ answer \in {"text", "declined", "failed"}
         /\ cache' = IF answer = "failed" THEN cache ELSE [cache EXCEPT ![d] = answer]

Answers == {"text", "declined", "failed"}

-----------------------------------------------------------------------------
(* differences: how many lines it prints for n records one side lacks. *)

Lines(n) ==
    LET shown == IF limit >= 0 THEN IF n < limit THEN n ELSE limit
                 ELSE IF n + limit > 0 THEN n + limit ELSE 0
    IN  shown + (IF n > limit THEN 1 ELSE 0)

Differences(onlyOurs, onlyTheirs) == Lines(onlyOurs) + Lines(onlyTheirs)

-----------------------------------------------------------------------------
(* validate *)

NextFile ==
    /\ pc = "files" /\ left # {}
    /\ \E f \in left : file' = f /\ left' = left \ {f}
    /\ cache' = Unknown /\ agree' = TRUE /\ at' = 1
    /\ GoTo("open")
    /\ UNCHANGED <<options, verified, outcome, results>>

FileIs(o) == outcome' = [outcome EXCEPT ![file] = o]

Open ==
    /\ pc = "open"
    /\ \/ FileIs("unreadable") /\ GoTo("files")
       \/ UNCHANGED outcome /\ GoTo("preliminary")
    /\ UNCHANGED <<options, left, file, perFile, at, verified, results>>

(***************************************************************************)
(* A preliminary dump that is declined is inside no check's try statement. *)
(* One that is read but not understood is a ParseError, as is one that     *)
(* failed.                                                                 *)
(***************************************************************************)
AskPreliminary ==
    /\ pc = "preliminary"
    /\ \E answer \in Answers : \E understood \in BOOLEAN :
        /\ Dump(Preliminary[at], answer)
        /\ CASE answer = "declined" -> Escape("escaped declined") /\ UNCHANGED <<at, outcome>>
             [] answer = "failed" \/ ~understood ->
                    FileIs("failed") /\ GoTo("files") /\ UNCHANGED at
             [] OTHER ->
                    /\ at' = IF at = Len(Preliminary) THEN 1 ELSE at + 1
                    /\ GoTo(IF at = Len(Preliminary) THEN "checks" ELSE "preliminary")
                    /\ UNCHANGED outcome
    /\ UNCHANGED <<options, left, file, agree, verified, results>>

Record(result) == results' = [results EXCEPT ![file][Checks[at]] = result]

Verify(compared) ==
    verified' = IF compared > 0 THEN verified \cup {Checks[at]} ELSE verified

Agree(diffs) == agree' = (agree /\ diffs = 0)

Skip ==
    /\ Record("skipped") /\ at' = at + 1
    /\ GoTo("checks")
    /\ UNCHANGED <<agree, verified, outcome>>

\* check.compare; same records are on both sides, the others on one.
Compare(same, onlyOurs, onlyTheirs) ==
    LET ours == same + onlyOurs
        theirs == same + onlyTheirs
        compared == IF ours > theirs THEN ours ELSE theirs
    IN  /\ Verify(compared)
        /\ Agree(Differences(onlyOurs, onlyTheirs))
        /\ Record(IF compared = 0 THEN "nothing"
                  ELSE IF onlyOurs + onlyTheirs > 0 THEN "differ" ELSE "equal")
        /\ at' = at + 1
        /\ GoTo("checks")
        /\ UNCHANGED outcome

Check ==
    /\ pc = "checks" /\ at <= Len(Checks)
    /\ \E answer \in Answers :
        /\ Dump(Args[Checks[at]], answer)
        /\ CASE answer = "declined" -> Skip
             [] answer = "failed" ->
                    FileIs("failed") /\ GoTo("files") /\ UNCHANGED <<at, agree, verified, results>>
             [] OTHER ->
                    \/ \E same, onlyOurs, onlyTheirs \in 0..MaxRecords :
                          /\ same + onlyOurs + onlyTheirs <= MaxRecords
                          /\ Compare(same, onlyOurs, onlyTheirs)
                    \/ \* the dump is not understood
                       FileIs("failed") /\ GoTo("files") /\ UNCHANGED <<at, agree, verified, results>>
                    \/ \* purepdb raises on a stream that opening did not read
                       Escape("escaped PdbError") /\ UNCHANGED <<at, agree, verified, outcome, results>>
    /\ UNCHANGED <<options, left, file>>

EndFile ==
    /\ pc = "checks" /\ at > Len(Checks)
    /\ FileIs(IF agree THEN "agreed" ELSE "failed")
    /\ GoTo("files")
    /\ UNCHANGED <<options, left, file, perFile, at, verified, results>>

-----------------------------------------------------------------------------
(* main *)

Start ==
    /\ pc = "start"
    /\ CASE limit < 0 -> EndWith(2)
         [] limit >= 0 /\ ~tool -> EndWith(IF require THEN 1 ELSE 0)
         [] limit >= 0 /\ tool /\ left = {} -> EndWith(1)
         [] OTHER -> GoTo("files")
    /\ UNCHANGED <<options, left, file, perFile, at, verified, outcome, results>>

Having(o) == {f \in Files : outcome[f] = o}
Swept == {f \in Files : outcome[f] # "none"}

\* Mutant: no gate on what the run as a whole compared.
VerdictUngated ==
    IF Having("failed") # {} \/ (~allow /\ Having("unreadable") # {}) THEN 1 ELSE 0

Verdict ==
    IF \/ Having("failed") # {}
       \/ ~allow /\ Having("unreadable") # {}
       \/ Having("unreadable") = Swept
       \/ ~(Names \ Optional \subseteq verified)
    THEN 1 ELSE 0

Finish ==
    /\ pc = "files" /\ left = {}
    /\ EndWith(Verdict)
    /\ UNCHANGED <<options, left, file, perFile, at, verified, outcome, results>>

Next ==
    \/ Start \/ NextFile \/ Open \/ AskPreliminary \/ Check \/ EndFile \/ Finish

Spec == Init /\ [][Next]_vars

-----------------------------------------------------------------------------
(* Properties *)

PrintedOk == pc = "over" /\ status = 0 /\ tool

(***************************************************************************)
(* validate_against_llvm.py:14-18: "a run that verified nothing must not   *)
(* print ok".  A run that says ok compared a record with every required    *)
(* check on some file it read.                                             *)
(***************************************************************************)
OkMeansCompared ==
    PrintedOk => \A c \in Names \ Optional :
        \E f \in Files : results[f][c] \in {"equal", "differ"}

(***************************************************************************)
(* "Exit status is 0 only when every file was read and every check         *)
(* agreed": no file disagreed with one check and made up for it with the   *)
(* next, and none was left out without leave.                              *)
(***************************************************************************)
OkMeansAgreed ==
    PrintedOk => /\ \A f \in Files : \A c \in Names : results[f][c] # "differ"
                 /\ \A f \in Swept : outcome[f] = "agreed" \/ (allow /\ outcome[f] = "unreadable")

\* Both: ok is earned, check by check and file by file.
OkIsEarned == OkMeansCompared /\ OkMeansAgreed

(***************************************************************************)
(* A file is failed for a reason: it has a record only one side has, or    *)
(* there is a dump nobody could read.  An agreeing file is never failed,   *)
(* whatever --max-diffs.                                                   *)
(***************************************************************************)
AgreementIsNoFailure ==
    \A f \in Files :
        /\ outcome[f] = "failed"
        /\ \A c \in Names : results[f][c] # "not reached"
        => \E c \in Names : results[f][c] = "differ"

\* Both ways: neither "ok" nor a failure is without its reason.
VerdictIsTrue == OkIsEarned /\ AgreementIsNoFailure

(***************************************************************************)
(* validate_against_llvm.py:126-127, of ToolLimitation: "the check reading *)
(* it is skipped and the file is not failed".  A tool that declines ends   *)
(* neither the file nor the sweep.                                         *)
(***************************************************************************)
DecliningIsSurvived == pc # "escaped declined"
=============================================================================
