----------------------------- MODULE MC_Programs -----------------------------
(* The programs that a signal, a failure or a kill may end at any step: `call` *)
(* is the one that runs, and the state of the others stays as it was.          *)
(*                                                                             *)
(* The command line: listings of up to four records through a buffer of two    *)
(* lines: some fit in it, some fill it once and leave a line.                  *)
(* The fuzzer: four inputs, so that a generator has its turn again.            *)
EXTENDS CommandLine, FuzzLoop, CorpusFetch

(* The corpus fetcher: one file of each way of getting there; every stage, or  *)
(* one alone.                                                                  *)

MCPlan == <<"msi", "archive", "direct", "xp", "built", "derived">>
StageChoices == {Stages, {"fetch"}, {"corrupt"}, {"smoke"}}

-----------------------------------------------------------------------------
VARIABLE call

ListingIdle == argv = "help" /\ total = 0 /\ stdout = TRUE /\ stderr = TRUE /\ Init
FuzzIdle == sigalrm = FALSE /\ budget = FALSE /\ fuzz_failures = <<>> /\ FuzzInit

ProgramsInit ==
    /\ FetchInit
    /\ \/ call = "purepdb" /\ FuzzIdle /\ Init
       \/ call = "fuzz" /\ ListingIdle /\ FuzzInit
       \/ call = "fetch_corpus" /\ ListingIdle /\ FuzzIdle

FuzzTurn == call = "fuzz" /\ FuzzStep /\ UNCHANGED <<vars, fetchVars, call>>

ProgramsNext ==
    \/ call = "purepdb" /\ Next /\ UNCHANGED <<fuzzVars, fetchVars, call>>
    \/ FuzzTurn
    \/ call = "fetch_corpus" /\ FetchNext /\ UNCHANGED <<vars, fuzzVars, call>>

programVars == <<vars, fuzzVars, fetchVars, call>>

\* The fuzzer is one loop in one thread: while it can go on, it does.
ProgramsSpec == ProgramsInit /\ [][ProgramsNext]_programVars /\ WF_programVars(FuzzTurn)
=============================================================================
