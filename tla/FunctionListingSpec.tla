------------------------- MODULE FunctionListingSpec -------------------------
(***************************************************************************)
(* What PDB.functions (purepdb/pdb.py) promises: every address that a      *)
(* procedure record, a public that counts as code, or a thunk record names *)
(* is listed once, under the first name claimed for it -- procedures, then *)
(* publics, then thunks -- with every other name kept as an alias, and the *)
(* listing ascends by address.  If a stream it needs cannot be read,       *)
(* nothing is listed: never a part.                                        *)
(***************************************************************************)
EXTENDS Integers, Sequences

VARIABLES
  claims,     \* every claim to an address, in order of precedence
  readable,   \* whether every stream those claims come from can be read
  answer      \* what functions() has given

NotYet == [outcome |-> "none"]
Refused == [outcome |-> "MsfError"]

\* The claims to one address, merged into one function.
Merged(addr) ==
  LET here == {i \in DOMAIN claims : claims[i].addr = addr}
      first == claims[CHOOSE i \in here : \A j \in here : i <= j]
  IN [addr |-> addr, name |-> first.name, source |-> first.source, code_size |-> first.size,
      aliases |-> {claims[i].name : i \in here} \ {first.name}]

Listing == [outcome |-> "listing", each_once |-> TRUE, in_order |-> TRUE,
            functions |-> {Merged(claims[i].addr) : i \in DOMAIN claims}]

Init == answer = NotYet

List ==
  /\ answer = NotYet
  /\ answer' = IF readable THEN Listing ELSE Refused
  /\ UNCHANGED <<claims, readable>>

Spec == Init /\ [][List]_<<claims, readable, answer>>
=============================================================================
