---------------------------- MODULE MC_PdbSession ----------------------------
(* Every way open can fail; for a PDB, two modules of two lines in every mix of *)
(* states, and each of the other three streams in every state while the others *)
(* are whole.                                                                  *)
EXTENDS PdbSession

States == {"whole", "alien", "nil", "damaged"}
Whole == [s \in Streams |-> "whole"]

MCFiles ==
  {[is |-> i, named |-> TRUE, stream |-> Whole] :
     i \in {"missing", "empty", "unmappable", "not MSF", "not PDB"}}
  \cup
  {[is |-> "PDB", named |-> TRUE,
    stream |-> [Whole EXCEPT ![s] = a, ![SymStream(1)] = b, ![SymStream(2)] = c]] :
     s \in {STREAM_PDB_INFO, NamesStream, STREAM_IPI}, a \in States,
     b \in States, c \in {"whole", "nil", "damaged"}}
  \cup {[is |-> "PDB", named |-> FALSE, stream |-> Whole]}
=============================================================================
