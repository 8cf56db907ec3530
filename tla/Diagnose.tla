------------------------------- MODULE Diagnose -------------------------------
(***************************************************************************)
(* PDB.diagnose and Diagnostics.warnings (purepdb/pdb.py), as far as they  *)
(* answer for procedures: one walk per module stream and one of the        *)
(* symbol-record stream, counted separately from the listings they explain *)
(* and meant to say whatever those listings leave out.                     *)
(***************************************************************************)
EXTENDS Integers, Sequences, FiniteSets, SequencesExt

CONSTANTS Modules, NumModules

(***************************************************************************)
(* A module, as its linker wrote it and then as damaged:                   *)
(*   recs       kind, and whether the payload is still whole               *)
(*   stream     the stream number still names a stream                     *)
(*   signature  its first word is a CodeView signature                     *)
(*   reach      how many records the walk gets to                          *)
(*   stop       why no more: "end", "abandoned" (a length that cannot be), *)
(*              "torn" (the stream ends inside a record), "ragged" (one to *)
(*              three bytes into it), "cut" (the stream ends between two   *)
(*              records) or "short" (sym_byte_size does)                   *)
(***************************************************************************)
ProcKind == "proc"
Kinds == {ProcKind, "thunk", "managed", "other"}
Stops == {"end", "abandoned", "torn", "ragged", "cut", "short"}

ASSUME ModulesAssumption ==
    /\ NumModules \in Nat
    /\ \A d \in Modules :
        /\ d.recs \in Seq([kind : Kinds, ok : BOOLEAN])
        /\ d.stream \in BOOLEAN /\ d.signature \in BOOLEAN
        /\ d.reach \in 0..Len(d.recs)
        /\ d.stop \in Stops
        /\ d.stop = "end" => d.reach = Len(d.recs)

(***************************************************************************)
(* The rest of a file: how many modules the module list still has, whether *)
(* module_list_stopped_at is set, the DBI's stripped flag, and the         *)
(* symbol-record stream -- whose globals index names every procedure,      *)
(* thunk and method -- whole, with a short public, without publics,        *)
(* abandoned before the index, or gone.                                    *)
(***************************************************************************)
Index(modules) ==
    UNION {{[module |-> m, rec |-> k] :
                k \in {j \in DOMAIN modules[m].recs : modules[m].recs[j].kind # "other"}} :
           m \in DOMAIN modules}

Symrecs(modules) ==
    LET whole == [valid |-> TRUE, refs |-> Index(modules),
                  publics |-> <<TRUE, TRUE>>, abandoned |-> FALSE]
    IN  {whole,
         [whole EXCEPT !.publics = <<TRUE, FALSE>>],
         [whole EXCEPT !.publics = <<>>],
         [whole EXCEPT !.refs = {}, !.abandoned = TRUE],
         [whole EXCEPT !.refs = {}, !.publics = <<>>, !.valid = FALSE]}

VARIABLES
    pdb,
    next_module,        \* the module diagnose() looks at next; None of them: done
    with_symbols,
    proc_records,
    kinds,              \* record kind -> count over the module streams
    malformed_records,
    signatures,         \* module streams with an unknown first word
    truncations,        \* "abandoned" and "ragged", one per stream that stopped
    refs,               \* what each proc ref points at: a kind, or "unresolvable"
    public_records,
    done

counts == <<with_symbols, proc_records, kinds, malformed_records, signatures, truncations>>
diagnoseVars == <<pdb, next_module, counts, refs, public_records, done>>

DiagnoseInit ==
    /\ \E modules \in [1..NumModules -> Modules], n \in 0..NumModules,
          stopped \in BOOLEAN, stripped \in BOOLEAN :
        \E symrec \in Symrecs(modules) :
            pdb = [modules |-> modules, listed |-> n, stopped |-> stopped,
                    stripped |-> stripped, symrec |-> symrec]
    /\ next_module = 1
    /\ with_symbols = 0 /\ proc_records = 0 /\ malformed_records = 0 /\ signatures = 0
    /\ kinds = [k \in Kinds |-> 0]
    /\ truncations = <<>>
    /\ refs = <<>> /\ public_records = 0
    /\ done = FALSE

-----------------------------------------------------------------------------
(* What reading a module gives *)

\* _module_symbols: no bytes without a stream, a size or a signature.
HasSymbols(d) == d.stop # "short" \/ d.reach > 0
IsEmpty(d) == d.reach = 0 /\ d.stop \in {"end", "cut", "short"}
HasBody(d) == HasSymbols(d) /\ d.stream /\ d.signature /\ ~IsEmpty(d)

Reached(d) == {k \in DOMAIN d.recs : HasBody(d) /\ k <= d.reach}
OfKind(d, kind) == {k \in Reached(d) : d.recs[k].kind = kind}

\* extract_procs: what module_procs() and functions() list of the module.
Procs(d) == {k \in OfKind(d, ProcKind) : d.recs[k].ok}

\* survey_records counts a record malformed when the parser of its kind raises.
Dispatched == {ProcKind, "thunk"}
Malformed(d) == {k \in Reached(d) : d.recs[k].kind \in Dispatched /\ ~d.recs[k].ok}

-----------------------------------------------------------------------------
(* The loop over the modules *)

Looking == ~done /\ next_module <= pdb.listed
Here == pdb.modules[next_module]

CountSignature ==
    signatures' = IF HasSymbols(Here) /\ Here.stream /\ ~Here.signature
                  THEN signatures + 1 ELSE signatures

\* A module with nothing to walk is passed by; only its signature is counted.
PassModule ==
    /\ Looking /\ ~HasBody(Here)
    /\ CountSignature
    /\ next_module' = next_module + 1
    /\ UNCHANGED <<pdb, with_symbols, proc_records, kinds, malformed_records, truncations,
                   refs, public_records, done>>

\* survey_records keeps the procedures its parsers decode.
Decoded(d) == {k \in OfKind(d, ProcKind) : d.recs[k].ok}

SurveyModule ==
    /\ Looking /\ HasBody(Here)
    /\ with_symbols' = with_symbols + 1
    /\ proc_records' = proc_records + Cardinality(Decoded(Here))
    /\ kinds' = [k \in Kinds |-> kinds[k] + Cardinality(OfKind(Here, k))]
    /\ malformed_records' = malformed_records + Cardinality(Malformed(Here))
    /\ truncations' = CASE Here.stop \in {"abandoned", "torn"} -> Append(truncations, "abandoned")
                      [] Here.stop = "ragged"               -> Append(truncations, "ragged")
                      [] OTHER                              -> truncations
    /\ next_module' = next_module + 1
    /\ UNCHANGED <<pdb, signatures, refs, public_records, done>>

-----------------------------------------------------------------------------
(* The symbol-record stream *)

\* Mutant: the index is resolved against the modules that were written.
TargetPastTheList(r) ==
    LET d == pdb.modules[r.module]
    IN  IF d.stream THEN d.recs[r.rec].kind ELSE "unresolvable"

\* _proc_ref_target reads the module's stream as stored, past whatever stopped
\* the walk and past the end of the symbol region.
Target(r) ==
    IF r.module > pdb.listed THEN "unresolvable"
    ELSE LET d == pdb.modules[r.module]
         IN  CASE ~d.stream                                     -> "unresolvable"
               [] d.stop \in {"torn", "cut", "ragged"} /\ r.rec > d.reach -> "unresolvable"
               [] d.stop = "abandoned" /\ r.rec = d.reach + 1     -> "unresolvable"
               [] OTHER                                         -> d.recs[r.rec].kind

SurveySymbolRecords ==
    /\ ~done /\ next_module > pdb.listed
    /\ IF pdb.symrec.valid
       THEN /\ refs' = [r \in pdb.symrec.refs |-> Target(r)]
            /\ public_records' = Cardinality({p \in DOMAIN pdb.symrec.publics :
                                                pdb.symrec.publics[p]})
            /\ malformed_records' = malformed_records + Cardinality({p \in DOMAIN pdb.symrec.publics :
                                                        ~pdb.symrec.publics[p]})
            /\ truncations' = IF pdb.symrec.abandoned
                              THEN Append(truncations, "abandoned") ELSE truncations
       ELSE UNCHANGED <<refs, public_records, malformed_records, truncations>>
    /\ done' = TRUE
    /\ UNCHANGED <<pdb, next_module, with_symbols, proc_records, kinds, signatures>>

DiagnoseNext == PassModule \/ SurveyModule \/ SurveySymbolRecords

DiagnoseSpec == DiagnoseInit /\ [][DiagnoseNext]_diagnoseVars

-----------------------------------------------------------------------------
(* Diagnostics *)

\* Mutant: only procedures account for a ref.
AccountedProcsOnly == {ProcKind}

\* unmatched_proc_refs: a ref onto one of these is reported somewhere.
Accounted == {ProcKind, "thunk", "managed"}
Unmatched == {r \in DOMAIN refs : refs[r] \notin Accounted}

Says(sentence, condition) == IF condition THEN {sentence} ELSE {}

ProcWarnings ==
    LET empty == proc_records = 0
        walked == with_symbols # 0
    IN       Says("stripped", empty /\ ~walked /\ pdb.stripped)
        \cup Says("no module streams", empty /\ ~walked /\ ~pdb.stripped /\ pdb.listed # 0)
        \cup Says("no modules", empty /\ ~walked /\ ~pdb.stripped /\ pdb.listed = 0)
        \cup Says("stripped but with procedures", pdb.stripped /\ ~empty /\ walked)
        \cup Says("managed code", empty /\ walked /\ kinds["managed"] # 0)
        \cup Says("no procedures", empty /\ walked /\ kinds["managed"] = 0)

StreamWarnings ==
         Says("unknown signature", signatures # 0)
    \cup Says("no publics", public_records = 0)
    \cup Says("malformed records", malformed_records # 0)
    \cup Says("stopped early", "abandoned" \in ToSet(truncations))
    \cup Says("ragged end", "ragged" \in ToSet(truncations))

IndexWarnings ==
         Says("module list stopped", pdb.stopped)
    \cup Says("unmatched refs", Unmatched # {})

Warnings == ProcWarnings \cup StreamWarnings \cup IndexWarnings

-----------------------------------------------------------------------------
(* Properties *)

Listed == UNION {{<<m, k>> : k \in Procs(pdb.modules[m])} : m \in 1..pdb.listed}
Written == UNION {{<<m, k>> : k \in {j \in DOMAIN pdb.modules[m].recs :
                                        pdb.modules[m].recs[j].kind = ProcKind}} :
                    m \in DOMAIN pdb.modules}
Shortened == \E m \in DOMAIN pdb.modules : pdb.modules[m].stop = "short"

(***************************************************************************)
(* pdb.py:206-213, "This is what tells them apart": a procedure the linker *)
(* wrote and module_procs() does not return is never without a sentence in *)
(* the warnings -- whatever is wrong with each of the modules, the module  *)
(* list and the globals index at once, as long as the linker wrote an      *)
(* index.  A sym_byte_size that is too small is the exception; see         *)
(* RefsOntoProcsAreListed.                                                 *)
(***************************************************************************)
LossIsExplained == done /\ ~Shortened /\ Written # Listed => Warnings # {}

(***************************************************************************)
(* pdb.py:454-459, an alarm that fires for healthy files "teaches a reader *)
(* to skip the list": a file with procedures and publics in which nothing  *)
(* is damaged or stripped gets no warning.                                 *)
(***************************************************************************)
Sound ==
    /\ pdb.listed = Len(pdb.modules) /\ ~pdb.stopped /\ ~pdb.stripped
    /\ \A m \in DOMAIN pdb.modules :
        LET d == pdb.modules[m]
        IN  d.stream /\ d.signature /\ d.stop = "end" /\ \A k \in DOMAIN d.recs : d.recs[k].ok
    /\ pdb.symrec.valid /\ ~pdb.symrec.abandoned
    /\ \E p \in DOMAIN pdb.symrec.publics : TRUE
    /\ \A p \in DOMAIN pdb.symrec.publics : pdb.symrec.publics[p]
HealthyIsQuiet == done /\ Sound /\ Written # {} => Warnings = {}

(***************************************************************************)
(* pdb.py:364-366: "Refs onto a procedure are reported by functions()",    *)
(* which is why unmatched_proc_refs leaves them out.  The ref is followed  *)
(* in the stream, the procedure is listed from the region sym_byte_size    *)
(* bounds, and nothing compares the two.                                   *)
(***************************************************************************)
RefsOntoProcsAreListed ==
    done /\ Warnings = {} =>
        \A r \in DOMAIN refs : refs[r] = ProcKind => <<r.module, r.rec>> \in Listed
=============================================================================
