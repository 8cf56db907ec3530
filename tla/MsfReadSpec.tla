----------------------------- MODULE MsfReadSpec -----------------------------
(***************************************************************************)
(* What MsfFile._read_blocks promises, as a specification of one step: a   *)
(* pending request is answered as reading one block at a time answers it.  *)
(***************************************************************************)
EXTENDS MsfBlocks

CONSTANT
  Requests     \* the block lists and sizes a reader may ask for

ASSUME RequestsAssumption == Requests \subseteq [indices : Seq(Nat), size : Nat]

VARIABLES
  request,     \* the arguments of the read in progress
  answer       \* what the read returned or raised

specVars == <<request, answer>>

Pending == [outcome |-> "pending"]

SpecInit ==
  /\ request \in Requests
  /\ answer = Pending

ReadAtOnce ==
  /\ answer = Pending
  /\ answer' = PerBlock(request.indices, request.size)
  /\ UNCHANGED request

ReadSpec == SpecInit /\ [][ReadAtOnce]_specVars
=============================================================================
