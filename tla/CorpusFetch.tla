----------------------------- MODULE CorpusFetch -----------------------------
(***************************************************************************)
(* tools/fetch_corpus.py: a script that downloads, unpacks, builds and     *)
(* damages PDB files, keeps what it knows of them in two JSON files, and   *)
(* is meant to be run again after anything went wrong.  Files survive a    *)
(* run, memory does not.  A transfer may break, and the script may be      *)
(* killed at any step with that step half done.                            *)
(***************************************************************************)
EXTENDS Naturals, Sequences, FiniteSets, FiniteSetsExt

CONSTANTS
    Plan,          \* the corpus files in the order they are made: the kind of each
    Selections,    \* the sets of stage flags a user runs it with
    MaxRuns,       \* bound: times the script is started
    MaxMishaps     \* bound: broken transfers, failed builds, kills, removals

(***************************************************************************)
(* direct   fetch_msdl: straight to its place, or from a cab beside it     *)
(* archive  fetch_node, fetch_mozilla: unpacked into its place             *)
(* msi      fetch_python: unpacked elsewhere, moved, then a marker is left *)
(* xp       fetch_xp: the same without a marker                            *)
(* built    build_c, build_rust: linked in /tmp and moved                  *)
(* derived  stage_corrupt: written anew by every run                       *)
(***************************************************************************)
Kinds == {"direct", "archive", "msi", "xp", "built", "derived"}
Stages == {"fetch", "build", "corrupt", "omap", "smoke", "manifest"}

ASSUME PlanAssumption ==
    /\ Plan \in Seq(Kinds)
    /\ Selections \subseteq SUBSET Stages
    /\ MaxRuns \in Nat /\ MaxMishaps \in Nat

Items == DOMAIN Plan
NoFile == "none"
Content == {NoFile, "part", "whole"}    \* also stands for its SHA-256

VARIABLES
    dl,          \* the archive, MSI or cab of an item, under _dl or beside it
    file,        \* the item's file in the corpus
    marker,      \* .done
    saved,       \* provenance.json: the hash it has of each file; or "torn"
    savedSmoke,  \* smoke.json: [sha, of]; or "torn"
    prov, smoke, \* the same two in memory
    selection,   \* the stages of this run
    item, step,  \* where the run is; "idle" between runs
    completed,   \* the last run reached its end
    smokedAlone, \* history: some run measured and did not derive
    runs, mishaps

disk == <<dl, file, marker, saved, savedSmoke>>
fetchVars == <<disk, prov, smoke, selection, item, step, completed, smokedAlone, runs, mishaps>>

Nothing == [i \in Items |-> NoFile]
NoSmoke == [i \in Items |-> <<NoFile, NoFile>>]
Torn == <<"torn">>

FetchInit ==
    /\ dl = Nothing /\ file = Nothing /\ marker = [i \in Items |-> FALSE]
    /\ saved = Nothing /\ savedSmoke = NoSmoke
    /\ prov = Nothing /\ smoke = NoSmoke
    /\ selection = {} /\ item = 0 /\ step = "idle" /\ completed = FALSE /\ smokedAlone = FALSE
    /\ runs = 0 /\ mishaps = 0

Mishap == mishaps < MaxMishaps /\ mishaps' = mishaps + 1

-----------------------------------------------------------------------------
(* Moving through the stages *)

StageOf(i) == CASE Plan[i] = "built"   -> "build"
                [] Plan[i] = "derived" -> "corrupt"
                [] OTHER               -> "fetch"

Wanted(i) == StageOf(i) \in selection
First(set, otherwise) == IF set = {} THEN otherwise ELSE Min(set)

Reach(i, s) == item' = i /\ step' = s

\* The first item of a later function, or the stages after the items.
GoToItem(candidates) ==
    LET wanted == {j \in candidates : Wanted(j)}
    IN  IF wanted = {} THEN Reach(0, "omap") ELSE Reach(Min(wanted), "look")

NextItem == GoToItem({j \in Items : j > item})

\* stage_fetch catches the failure of a step: what it had left to do is skipped.
AbandonStep == GoToItem({j \in Items : j > item /\ Plan[j] # Plan[item]})

Is(kinds, s) == step = s /\ Plan[item] \in kinds

-----------------------------------------------------------------------------
(* Starting *)

\* load_json raises on a file that a kill left half written.
Start ==
    /\ step = "idle" /\ runs < MaxRuns
    /\ runs' = runs + 1
    /\ completed' = FALSE
    /\ \E s \in Selections :
        /\ selection' = s
        /\ IF saved = Torn
           THEN UNCHANGED <<prov, item, step>>
           ELSE /\ prov' = saved
                /\ \/ Reach(0, "begin")
                   \/ Reach(0, "rehash")
    /\ UNCHANGED <<disk, smoke, smokedAlone, mishaps>>

\* --rehash: every entry hashed again, or dropped with its file.
Rehash ==
    /\ step = "rehash"
    /\ prov' = [i \in Items |-> IF prov[i] = NoFile THEN NoFile ELSE file[i]]
    /\ saved' = prov'
    /\ Reach(0, "begin")
    /\ UNCHANGED <<dl, file, marker, savedSmoke, smoke, selection, completed, smokedAlone, runs, mishaps>>

Begin ==
    /\ step = "begin"
    /\ GoToItem(Items)
    /\ UNCHANGED <<disk, prov, smoke, selection, completed, smokedAlone, runs, mishaps>>

-----------------------------------------------------------------------------
(* Downloading *)

(***************************************************************************)
(* curl: a file that is there is taken; the exit status of the transfer is *)
(* not looked at, only the HTTP status, which a broken transfer has too.   *)
(***************************************************************************)
Curl(there, got) ==
    \/ there # NoFile /\ got = there /\ UNCHANGED mishaps
    \/ there = NoFile /\ got = "whole" /\ UNCHANGED mishaps
    \/ there = NoFile /\ got \in {NoFile, "part"} /\ Mishap

Unchanged == UNCHANGED <<marker, saved, savedSmoke, prov, smoke, selection, completed, smokedAlone, runs>>

LookDirect ==
    /\ Is({"direct"}, "look")
    /\ \E got \in Content :
        /\ Curl(file[item], got)
        /\ file' = [file EXCEPT ![item] = got]
        /\ Reach(item, IF got = NoFile THEN "cab" ELSE "record")
    /\ UNCHANGED dl /\ Unchanged

\* What makes a run pass an item by.
IsDone(i) == IF Plan[i] = "msi" THEN marker[i] ELSE file[i] # NoFile

Pass ==
    /\ Is({"archive", "msi", "xp", "built"}, "look") /\ IsDone(item)
    /\ IF Plan[item] = "xp" THEN AbandonStep ELSE NextItem
    /\ UNCHANGED <<disk, prov, smoke, selection, completed, smokedAlone, runs, mishaps>>

LookArchive ==
    /\ Is({"archive", "msi", "xp"}, "look") \/ Is({"direct"}, "cab")
    /\ step = "look" => ~IsDone(item)
    /\ \E got \in Content :
        /\ Curl(dl[item], got)
        /\ dl' = [dl EXCEPT ![item] = got]
        /\ CASE got # NoFile       -> Reach(item, "unpack")
             [] Plan[item] = "xp"   -> AbandonStep
             [] OTHER               -> NextItem
    /\ UNCHANGED file /\ Unchanged

-----------------------------------------------------------------------------
(* Unpacking, moving, building *)

\* 7z writes into place as it goes, and leaves what a damaged archive gave it.
UnpackInPlace ==
    /\ Is({"direct", "archive"}, "unpack")
    /\ \/ /\ dl[item] = "whole"
          /\ file' = [file EXCEPT ![item] = "whole"]
          /\ dl' = IF Plan[item] = "direct" THEN [dl EXCEPT ![item] = NoFile] ELSE dl
          /\ Reach(item, "record")
       \/ /\ dl[item] = "part"
          /\ \E left \in {file[item], "part"} : file' = [file EXCEPT ![item] = left]
          /\ AbandonStep
          /\ UNCHANGED dl
    /\ UNCHANGED mishaps /\ Unchanged

\* The stage directory is emptied before and after, and is not kept in the state.
UnpackStaged ==
    /\ Is({"msi", "xp"}, "unpack")
    /\ IF dl[item] = "whole" THEN Reach(item, "move") ELSE AbandonStep
    /\ UNCHANGED <<dl, file, mishaps>> /\ Unchanged

\* Mutant: the marker before the file, which a kill then parts.
MoveMarked ==
    /\ step = "move"
    /\ marker' = [marker EXCEPT ![item] = Plan[item] = "msi"]
    /\ file' = [file EXCEPT ![item] = "whole"]
    /\ Reach(item, "record")
    /\ UNCHANGED <<dl, saved, savedSmoke, prov, smoke, selection, completed, smokedAlone, runs, mishaps>>

\* A rename: _dl and the corpus are one directory tree.
MoveStaged ==
    /\ step = "move"
    /\ file' = [file EXCEPT ![item] = "whole"]
    /\ Reach(item, "record")
    /\ UNCHANGED <<dl, mishaps>> /\ Unchanged

\* A failed compile or link leaves nothing and the next variant is tried.
Build ==
    /\ Is({"built"}, "look") /\ ~IsDone(item)
    /\ \/ Reach(item, "place") /\ UNCHANGED mishaps
       \/ Mishap /\ NextItem
    /\ UNCHANGED <<dl, file>> /\ Unchanged

\* From /tmp: a copy, then a removal.
PlaceBuilt ==
    /\ step = "place"
    /\ file' = [file EXCEPT ![item] = "whole"]
    /\ Reach(item, "record")
    /\ UNCHANGED <<dl, mishaps>> /\ Unchanged

WriteDerived ==
    /\ Is({"derived"}, "look")
    /\ file' = [file EXCEPT ![item] = "whole"]
    /\ Reach(item, "record")
    /\ UNCHANGED <<dl, mishaps>> /\ Unchanged

-----------------------------------------------------------------------------
(* Recording *)

Record ==
    /\ step = "record"
    /\ prov' = [prov EXCEPT ![item] = file[item]]
    /\ saved' = prov'
    /\ IF Plan[item] = "msi" THEN Reach(item, "mark") ELSE NextItem
    /\ UNCHANGED <<dl, file, marker, savedSmoke, smoke, selection, completed, smokedAlone, runs, mishaps>>

Mark ==
    /\ step = "mark"
    /\ marker' = [marker EXCEPT ![item] = TRUE]
    /\ NextItem
    /\ UNCHANGED <<dl, file, saved, savedSmoke, prov, smoke, selection, completed, smokedAlone, runs, mishaps>>

-----------------------------------------------------------------------------
(* The stages after the items *)

Stop(finished) == Reach(0, "idle") /\ completed' = finished

\* PDB.open on a file that is missing raises, on one that is not whole it may:
\* nothing catches it.
Omap ==
    /\ step = "omap"
    /\ LET vendor == {i \in Items : Plan[i] \in {"direct", "xp"} /\ prov[i] # NoFile}
           raises == "omap" \in selection /\ \E i \in vendor : file[i] # "whole"
           must == "omap" \in selection /\ \E i \in vendor : file[i] = NoFile
       IN  \/ ~must /\ Reach(0, "smoke") /\ UNCHANGED completed
           \/ raises /\ Stop(FALSE)
    /\ UNCHANGED <<disk, prov, smoke, selection, smokedAlone, runs, mishaps>>

LoadSmoke ==
    /\ step = "smoke"
    /\ IF "smoke" \notin selection
       THEN Reach(0, "manifest") /\ UNCHANGED <<smoke, completed, smokedAlone>>
       ELSE IF savedSmoke = Torn
            THEN Stop(FALSE) /\ UNCHANGED <<smoke, smokedAlone>>
            ELSE /\ smoke' = savedSmoke /\ Reach(0, "smoke files") /\ UNCHANGED completed
                 /\ smokedAlone' = (smokedAlone \/ "corrupt" \notin selection)
    /\ UNCHANGED <<disk, prov, selection, runs, mishaps>>

\* Mutant: measured once is measured.
NeverMeasured(i) == smoke[i] = NoSmoke[i]

Stale(i) == smoke[i][1] # prov[i]

ToSmoke == {i \in Items : prov[i] # NoFile /\ file[i] # NoFile /\ Stale(i)}

SmokeOne ==
    /\ step = "smoke files"
    /\ LET i == First(ToSmoke, 0)
       IN  IF i = 0 THEN Reach(0, "manifest") /\ UNCHANGED <<smoke, savedSmoke>>
           ELSE /\ smoke' = [smoke EXCEPT ![i] = <<prov[i], file[i]>>]
                /\ savedSmoke' = smoke'
                /\ UNCHANGED <<item, step>>
    /\ UNCHANGED <<dl, file, marker, saved, prov, selection, completed, smokedAlone, runs, mishaps>>

Manifest ==
    /\ step = "manifest"
    /\ Stop(TRUE)
    /\ UNCHANGED <<disk, prov, smoke, selection, smokedAlone, runs, mishaps>>

-----------------------------------------------------------------------------
(* What goes wrong *)

\* What is on disk when the step is killed half-way.
LeftFile ==
    {file[item]} \cup
        (IF \/ Is({"direct"}, "look") /\ file[item] = NoFile
            \/ Is({"direct", "archive"}, "unpack")
            \/ Is({"derived"}, "look")
            \/ step = "place"
         THEN {"part"} ELSE {})

LeftDl ==
    {dl[item]} \cup
        (IF dl[item] = NoFile /\ (Is({"archive", "msi", "xp"}, "look") \/ Is({"direct"}, "cab"))
         THEN {"part"} ELSE {})

Kill ==
    /\ step # "idle" /\ Mishap
    /\ IF item # 0
       THEN /\ \E left \in LeftFile : file' = [file EXCEPT ![item] = left]
            /\ \E left \in LeftDl : dl' = [dl EXCEPT ![item] = left]
       ELSE UNCHANGED <<file, dl>>
    /\ saved' \in {saved} \cup (IF step \in {"record", "rehash"} THEN {Torn} ELSE {})
    /\ savedSmoke' \in {savedSmoke} \cup (IF step = "smoke files" THEN {Torn} ELSE {})
    /\ Stop(FALSE)
    /\ UNCHANGED <<marker, prov, smoke, selection, smokedAlone, runs>>

\* A file removed from the corpus between two runs.
RemoveFile ==
    /\ step = "idle" /\ Mishap
    /\ \E i \in Items : file[i] # NoFile /\ file' = [file EXCEPT ![i] = NoFile]
    /\ completed' = FALSE
    /\ UNCHANGED <<dl, marker, saved, savedSmoke, prov, smoke, selection, item, step, smokedAlone, runs>>

FetchNext ==
    \/ Start \/ Rehash \/ Begin
    \/ LookDirect \/ Pass \/ LookArchive
    \/ UnpackInPlace \/ UnpackStaged \/ MoveStaged
    \/ Build \/ PlaceBuilt \/ WriteDerived
    \/ Record \/ Mark
    \/ Omap \/ LoadSmoke \/ SmokeOne \/ Manifest
    \/ Kill \/ RemoveFile

FetchSpec == FetchInit /\ [][FetchNext]_fetchVars

-----------------------------------------------------------------------------
(* Properties *)

(***************************************************************************)
(* A .done marker (fetch_corpus.py:276-277) stands for work that is        *)
(* finished: while it is there the file, unless it was removed by hand, is *)
(* whole and provenance.json has it -- whatever was killed or broken when. *)
(***************************************************************************)
MarkerMeansDone ==
    \A i \in Items :
        marker[i] /\ file[i] # NoFile =>
            file[i] = "whole" /\ (saved = Torn \/ saved[i] = "whole")

(***************************************************************************)
(* What the manifest of a complete run says of a file it lists is said of  *)
(* one and the same content, whatever was killed, broken or removed before *)
(* and however long ago the smoke pass measured (fetch_corpus.py:1075).    *)
(* The measurement was taken under the hash that is listed; the hash is    *)
(* that of the file which is there, and the measurement too.  The last two *)
(* only for files that are renamed into place or written anew: those that  *)
(* a tool writes where they belong may be left there in part.  And a       *)
(* derived file that a killed run left in part is measured as it is by a   *)
(* run that smokes and does not derive.                                    *)
(***************************************************************************)
FullRun == completed /\ selection = Stages
PlacedWhole == {i \in Items : Plan[i] \in {"msi", "xp", "derived"}}
Listed(i) == prov[i] # NoFile /\ file[i] # NoFile

ManifestIsTrue ==
    FullRun => \A i \in Items : Listed(i) =>
        /\ smoke[i][1] = prov[i]
        /\ i \in PlacedWhole => prov[i] = file[i]
        /\ i \in PlacedWhole /\ ~(smokedAlone /\ Plan[i] = "derived") => smoke[i][2] = file[i]

(***************************************************************************)
(* fetch_corpus.py:2: "Build the audit corpus of real PDB files, and the   *)
(* manifest that describes it".  False of a derived file: what a kill left *)
(* of it is measured by --smoke under the hash the whole one had, and no   *)
(* run measures it again.                                                  *)
(***************************************************************************)
ManifestDescribesTheCorpus ==
    FullRun => \A i \in PlacedWhole : Listed(i) => smoke[i][2] = file[i]

(***************************************************************************)
(* fetch_corpus.py:26-27: "a file already present with the right size is   *)
(* not fetched or built again" -- so one that is passed by is whole.       *)
(***************************************************************************)
PassedByIsWhole ==
    [][\A i \in Items : Pass /\ item = i /\ Plan[i] # "msi" => file[i] = "whole"]_fetchVars

(***************************************************************************)
(* fetch_corpus.py:2: "Build the audit corpus of real PDB files, and the   *)
(* manifest that describes it": after a complete run every whole file of   *)
(* the corpus is listed.  False of one that a killed run had unpacked and  *)
(* not yet recorded: the next run finds it there and passes it by.         *)
(***************************************************************************)
ManifestListsTheCorpus == FullRun => \A i \in Items : file[i] = "whole" => prov[i] # NoFile
=============================================================================
