# purepdb in TLA+

TLA+ specifications of [purepdb](../src/README.md), a pure-Python reader of
Microsoft PDB files, with TLC model-checking runs and proofs checked by TLAPS.

purepdb is mostly sequential code over damaged input: every stream of a PDB may
be missing, cut, or hold sizes that make no sense, and the library promises to
give what can be read, to say what was lost, and never to give a wrong answer in
silence. The specifications are about that promise. Most of them take the file
as a nondeterministic environment -- whatever a header says is chosen when it is
read -- and the code as the machine that walks it. The concurrent parts are few
and modelled as such: generators suspended between two lines while their caller
closes the PDB, the reader of a pipe that leaves, Ctrl-C, and a script that is
killed and run again.

Contents: [1 The system](#1-the-system) · [2 Modules](#2-modules) ·
[3 Runs](#3-runs) · [4 Divergences found](#4-divergences-found) ·
[5 Proofs](#5-proofs) · [6 Not modelled](#6-not-modelled) · [7 Plan](#7-plan) ·
[8 Running it](#8-running-it)

Paths are relative to the repository root; `pdb.py`, `msf.py` ... are in
`purepdb/`.

## 1 The system

| Component | State it keeps | Operations | Why it is hard | What makes it correct |
|---|---|---|---|---|
| MSF container (`msf.py`) | superblock, stream sizes and block lists, handle and mapping, `_closed` | `open`, `_parse_directory`, `_read_blocks`, `read_stream`, `close`, `__del__` | every count and size is the file's word; blocks are joined in runs; `open` can fail after each resource it takes | nothing is unpacked past the directory; a stream is read whole or refused; reading in runs equals reading block by block; nothing leaks |
| Session (`pdb.py`) | DBI, caches of string table, id table and one stream, suspended generators | `PDB.open`, `close`, listings, `info` | a cached answer outlives the file; a generator is resumed after `close()` | a cache never holds another stream's bytes; two answers to one question agree |
| DBI stream (`dbi.py`) | substreams, module list, contributions, debug header | `parse`, `ContributionMap.find` | seven sizes decide where everything lies; the table may be unsorted | no two substreams share bytes; a cut loses only what is cut; the search finds the owner |
| Addresses (`pdb.py`, `sections.py`, `omap.py`) | three section tables, OMAP | `_load_sections`, `to_rva`, `lines()`' own arithmetic | each table absent, empty or damaged; two code paths answer one question | a wrong address is never without a warning; the paths agree |
| Records (`codeview.py`) | a cursor | `iter_records`, `survey_records` | filters skip records without reading them; lengths lie | every byte and every dropped record is accounted for |
| Function, data and public listings (`pdb.py`, `gsi.py`) | the listing so far, addresses or identities seen | `functions`, `data_symbols`, `thread_locals`, `public_symbols` | the same thing described in several streams | one entry for each, none lost, ordered throughout |
| Inline sites (`codeview.py`, `pdb.py`) | cursor, chunk, ranges; scopes of procedures | `parse_inline_site`, `inline_sites` | a byte code with a running offset; chunks numbered by position | the ranges are what the format says, under the right procedure |
| IPI (`ipi.py`) | id -> name | `IdTable.parse` | an id is a position | a name never moves |
| Line info (`c13.py`) | cursor, files, blocks | `iter_subsections`, `parse_file_checksums`, `parse_lines` | counts and sizes disagree | no byte is read twice, none lost is unreported |
| Diagnosis (`pdb.py`) | counts | `diagnose`, `Diagnostics.warnings` | counts may cancel out | a lost procedure is never without a sentence; a sound file gets none |
| Command line (`__main__.py`) | stdio buffers, exit status | `cli`, `main` | pipe closed, disk full, Ctrl-C, stderr missing | the status tells the truth; what was printed is kept |
| Corpus fetcher (`tools/fetch_corpus.py`) | files, markers, two JSON files | the stages, `save_json` | killed and run again | a marker means done; the manifest is true |
| Comparison sweep (`dev/validate_against_llvm.py`) | dumps cached, checks verified; module, heading and counts of a dump being read | `validate`, `main`, `check_lines` | two empty lists agree; the other tool fails in its own ways, and prints what is not known here | "ok" means compared and equal; no entry of a dump is taken for another's |
| Shape survey (`dev/survey_pdb_shapes.py`) | counters | `shape_of`, `main` | a second parser of the debug header | it agrees with the library |
| Constants (`codeview.py`, `reader.py`) | a position in a record | `parse_numeric`, `parse_constant`, the two counts | widths, signs, records cut at any byte | a constant is listed as written or counted |
| Names of streams and files (`names.py`) | the map, the string buffer | `parse_named_stream_map`, `StringTable.parse`, `get` | a buffer, two bit vectors and buckets behind one another, any of them cut or wrong | all names or none, each with its own stream |
| Fuzzer (`tools/fuzz.py`) | failures by key, an alarm | the loop of `main` | the alarm may go off late; inputs that never end | the status tells the truth; the run ends; a failing input is kept |
| Validation of addresses (`dev/validate_omap_against_windows.py`) | rows, failures, a cache of PDBs | `check`, `follow_thunk`, `main` | stubs in front of functions; `None` compared with `None` | agreement is earned |
| Audit, benchmark, snapshot and relink scripts | none | straight-line scripts | | see section 6 |

How they interact. `PDB.open` opens an `MsfFile`, reads the PDB info and the DBI
stream through it and loads the section tables once. Every listing then asks the
container for a stream, walks it with the record or line walker, and turns
`segment:offset` into an address. Only the references to procedures
(`_proc_ref_target`) read module streams through a cache of one. Generators
(`lines`, `inline_sites`) read while their caller does other things. `diagnose`
walks everything again and compares counts. The command line opens one PDB, runs
one listing and prints. The scripts under `dev/` and `tools/` are users of the
library and second implementations of parts of it.

The hazards of the code, each at its line with the properties that cover it, are
the `hazards` of [PROJECT.json](PROJECT.json).

## 2 Modules

`map` in PROJECT.json gives, for each definition, the lines it stands for.
Operators named after the source's methods are those methods. Data are reduced to
what the properties tell apart: a stream's bytes are its name or its length, a
record is its kind, its length and whether its parser would raise, a name is a
number.

### Container
- **MsfBlocks** -- block size and file length as CONSTANTS; `InFile`,
  `BlocksFor`, the bytes of a run of blocks. A byte stands for its position.
- **MsfReadSpec** -- the abstract read: walk the block list, refuse at the first
  block outside the file, else all bytes up to the size. One step.
- **MsfRead** -- `_read_blocks` as it is: grow a run while the next block is the
  next number, break it at a jump, check a run at a time. Actions `ReadNothing`,
  `OpenFirstRun`, `GrowRun`, `BreakRun`, `TakeLastRun`. `RefinesPerBlock` says it
  implements MsfReadSpec with its answer mapped to itself.
- **MsfDirectory** -- superblock checks, the map of directory blocks,
  `_parse_directory` word by word, then `read_stream`. A word of the file is
  chosen when it is first looked at and kept, so two streams that share a block
  read the same words.

### Session and listings
- **PdbSession** -- `MsfFile.open` and `PDB.open` step by step with every way of
  failing, `close`, losing the last reference and `__del__`; the three caches; and
  `lines()` as a generator whose state is its position, advanced one line at a
  time between any other calls. `told` is a history of the answers each call gave.
- **FunctionListingSpec** / **FunctionListing** -- the listing as the merge of all
  claims to an address at once, and as `functions()` builds it: walk the modules,
  then procedures, publics and thunks into a dictionary in the order first seen,
  then the sort. `ListingIsMerge` is the refinement.
- **SymbolListings** -- `data_symbols` and `thread_locals` over several streams
  with deduplication by identity; `public_symbols` ordered by an address map that
  may be missing, empty, cut or incomplete.
- **StableSort** -- external: what Python's `sorted` promises, as the one order of the
  positions that ascends by key and keeps equal keys as they came (`StableOrder`), and
  the members of a set of numbers in order (`Ascending`).
- **Diagnose** -- the counts `diagnose()` takes per module and of the globals index,
  and the sentences `Diagnostics.warnings` makes of them, against what the
  listings return for the same file.

### Walkers
- **RecordWalk** -- `iter_records` three times over one stream with different
  filters. **C13Walk** -- the line info of a module.
  **IdTable** -- the IPI stream. **InlineAnnotations** -- the annotation byte
  code against `WrittenInBody` and `WrittenInChunks`, which compute each range from
  the instructions before it without a cursor. **InlinePlacement** -- placing those
  ranges. `ModulesAreWritten` says what it takes a compiler to write: a procedure goes
  up to its S_END with no other procedure in it, and no two chunks of one are at one
  address.
- **DbiStream** -- `DbiStream.parse`. **ContributionMap** -- sort and binary
  search. **ShapeSurvey** -- the survey's reading of the same header.
- **NumericLeaves** -- `S_CONSTANT` records byte by byte: `Unpack` and `CString` of
  the byte reader, `parse_numeric`, `parse_constant`, and the three walks that list a
  record, count it as undecodable or count it as malformed. How a compiler writes a
  value (`Leaves`, `LittleEndian`) is the format, and the reference.
- **NamedStreams** -- `parse_named_stream_map` field by field over a stream that a
  linker wrote, with one field damaged, or cut anywhere; then the `/names` stream it
  leads to. `NamesOf` is what was written, computed without a cursor.

### Addresses
- **ImageLayout** -- what is outside the program: how a linker lays out sections
  and a post-link optimiser moves them, hence what the right address is.
  `FilesAreWritten` in AddressSpace says how the tables of a file come from it. Linker
  and rebuild share one alignment and start one unit in, which `sections_from_map`
  says it has to assume.
- **AddressSpace** -- `_load_sections` table by table, the rebuild from the Section
  Map entry by entry, `to_rva`, and the walk of `lines()` with the bases it hoists.

### Programs
- **CommandLine** -- `cli()` and `main()` as a process with two buffered streams.
  Writes to stderr are taken to succeed, and Ctrl-C to come once.
- **CorpusFetch** -- `fetch_corpus.py`: what is on disk, what is in memory, a run
  as a sequence of steps, `Kill` half-way through any of them.
- **FuzzLoop** -- the loop of `fuzz.py`: an input is an outcome (returns, raises
  somewhere, never ends) and whether it is slow; the alarm of a slow one may go off at
  any step until it is cleared.
- **LlvmValidation** -- `dump` with its cache, `validate`, `main`. **LlvmDump** --
  how `check_lines` reads a dump line by line; what the tool prints for a file
  (`Printed`) is external, and `Changed` gives one line, or every module heading, a form
  that is not known, or takes entries away.
- **OmapValidation** -- `check` with the stubs it follows and the class it puts each
  export in, `main` with the three places a PDB may come from.

### Composition
AddressSpace extends ImageLayout, and the listings extend StableSort; MsfRead
refines MsfReadSpec, and MsfDirectory uses the same MsfBlocks and reads streams with
the block-at-a-time definition that MsfRead is proved to implement. FunctionListing
and Diagnose take what a walk yields as RecordWalk establishes it: the records
before the place where a stream stopped. PdbSession takes a stream as whole, alien,
nil or damaged, which are the outcomes MsfDirectory leaves. The walkers and listings
do not interleave: each is a call that runs to its end in one thread, and the only
interleavings are those at a `yield`, which PdbSession has. The programs are
processes of their own. So MC_Container, MC_Walkers, MC_Listings, MC_Dbi,
MC_Programs and MC_Sweep put them side by side: the variable `call` chooses the one
that runs, and the others stay in a fixed initial state. Their initial predicates,
next-state relations and variables have names of their own for it (`RecordsInit`,
`RecordsNext`, `recordVars` ...).

The proofs are in modules of their own, which extend the modules they are about:
**Container_proofs** (MsfRead, MsfDirectory), **PdbSession_proofs**,
**Walkers_proofs** (RecordWalk, C13Walk, IdTable, InlineAnnotations), **Dbi_proofs**
(ContributionMap, DbiStream, ShapeSurvey), **AddressSpace_proofs** (AddressSpace,
InlinePlacement), **Programs_proofs** (CommandLine, FuzzLoop, CorpusFetch) and
**Reports_proofs** (Diagnose, LlvmValidation, OmapValidation, SymbolListings,
FunctionListing).
**Lemmas** has facts that several of them use: products and quotients, induction
over the natural numbers, sums, sequences joined end to end, sorts and the order of a
set of numbers. The `MC_` modules and
their configurations give the constants values.

## 3 Runs

Every configuration has `CHECK_DEADLOCK FALSE`: each model is of a call, a walk or
a process that ends, and the end is a state without a successor.

### What holds

| Run | States | What runs, its bounds, and why they are enough |
|---|---|---|
| `container` | 244 404 | A file of three blocks of 12 bytes, and a byte. *MsfRead*: every list of up to 5 of the blocks 0..4; sizes 0, 11, 12, 25, 60. Five entries give three runs with jumps forward, back and in place, and a run that straddles the end of the file in every position. *MsfDirectory*: each word is 0, 2, 23 or nil, which serve as counts, as sizes of nothing, one block and two, and as indices inside and outside; directories of 0, ¾, 4, 5, 7 and 9¼ words, the last in four blocks, whose block map crosses blocks; two streams of 23 bytes fit each and not together, and seven words are what it takes to list them |
| `pdb_session` | 118 968 | Two modules of two lines, two suspended listings, every way `open` can fail, and one of the other streams at a time in each of four states. Two modules are what it takes for references to procedures to replace each other's stream in the cache; two listings for one to begin and end while the other is suspended, before and after `close()` |
| `listings` | 931 274 | *FunctionListing* (45 441 states): a file with nothing in it; two modules of up to 3 and up to 1 records, up to 2 publics, 3 address maps; three claims at one address are the least that can go wrong in the order of three sources. *SymbolListings* (400 708): one module stream and the symbol records, up to 2 records each; three publics under every map. *InlinePlacement* (87 779): a file without modules; modules of up to 8 records (two procedures with a site each and two chunks), any one record unreadable; pairs of small modules, for what one leaves behind. *Diagnose* (273 780): two modules, each sound or damaged in one way, a module list that stopped or not, the globals index in every state; two are what it takes for one to make up for the count of the other. *AddressSpace* (123 566): one linked and two optimised images; each stream absent, unreadable, empty, right; the map also in reverse order; the Section Map also with a gap, and absent. What Python's `sorted` gives is any permutation by rising source. A file that was optimised and says so nowhere is left out: no reader could know. Segments 0 to 4 and offsets 0, 2, 3 and 4: in the middle of a piece that moved, at its ends and past them |
| `walkers` | 743 990 | *RecordWalk* (30 960): streams of up to 18 bytes, `sym_byte_size` equal, smaller and larger; record lengths too small, minimal, odd and too large; three filters. *C13Walk* (328 281): regions of 0, 6, 20 and 65 bytes: nothing, less than a header, one small subsection, and up to three blocks with sizes true, zero, inside the entries and past the end. *IdTable* (71 465): up to 3 records, cut at every byte. *InlineAnnotations* (139 811): up to 4 instructions of any opcode with operands 0 and 17 (17 splits into 1 and 1 as a packed operand), undefined and cut; a base, a move and two closings are four. *NumericLeaves* (173 473): two records of every leaf at both ends of its range and around zero, cut at every byte; a byte has eight values, so that TLC's integers hold eight bytes and the tags still fit in two |
| `dbi` | 570 225 | *DbiStream* (22 348): 0 to 2 modules; the stream cut at every byte; and each of the 7 sizes set to negative, zero, a little less, a little more, a module more, and huge. *ContributionMap* (384 906): up to 3 contributions in any order, empty, touching, overlapping, with module numbers out of range. *ShapeSurvey* (36 865): header of 2 words, blocks of 4, sizes -1, 0, 1, a stream ending anywhere in two blocks; one file, since a file leaves nothing to the next. *NamedStreams* (126 106): two names, the first of which may be empty, in up to two buckets and two words of bits; cut at every byte; one bit too many, a key outside the buffer, a last name without its end. Two buckets are what it takes for one to be read as the other |
| `programs` | 2 711 762 | *CommandLine* (5 782 states): 4 records, 2 to a buffer: one flush in the middle and one at the end; the reader may leave or the disk fill, and Ctrl-C may come, at any step. *FuzzLoop* (112 496): four inputs, so that a generator has its second turn; two places to raise; stopping at two defects; a stale file of an earlier run. *CorpusFetch* (2 593 484): one item of each of six kinds; runs of all stages, or of one of `--fetch`, `--corrupt` and `--smoke` alone; 4 runs and 3 mishaps: a file is recorded whole, written again in part, measured alone, and listed by the last |
| `sweep` | 562 805 | *LlvmValidation* (two symmetric files): an optional check and two required ones that share a dump. *LlvmDump*: two modules of up to two blocks of up to three entries, or three small ones, with and without a stream and a name, and every change of one line of what is printed for them, headings included, to a form that is not known; entries left out; and all headings in another form at once. *OmapValidation*: six addresses, every code of stubs over them, one export and one or two functions; and two images without stubs, of which one may be ntdll, with every place a PDB may be |

What the properties say, run by run:

- `container`: `RefinesPerBlock` -- reading in runs gives the same bytes or the same
  refusal as block by block. `NeverPastEnd` -- nothing is unpacked outside the
  directory; `DirectoryRoundTrip` -- sizes and lists written back give the words that
  were read; `StreamsFit` -- streams that each fit are refused when together they
  claim more than the file has; `ReadsAreExact` -- `read_stream` gives exactly the
  declared size or raises.
- `pdb_session`: `NothingLeaks` -- the handle and mapping of a failed or finished
  `open` have an owner or are gone; `CacheIsItsStream`; `AnswersAgree` -- one call
  asked twice gives one answer, refusals apart; `ListingsAreWhole` -- a listing begun
  before `close()` that ends has every line; `Released` -- a forgotten PDB gives its
  file back.
- `listings`: `ListingIsMerge` -- `functions()` implements FunctionListingSpec: the
  merge of all claims, each address and name once, in order, or nothing.
  `ListedOnceInOrder` and `PublicsAreInOneOrder` for the other symbols.
  `SitesAreInPlace` -- a site under the procedure it is nested in, and every range of
  an intact module once at its own address; `UnplacedIsTheGap` -- the count of
  unplaced sites is what the listing lacks. `LossIsExplained` -- a procedure that is
  not listed is never without a warning; `HealthyIsQuiet`. `TroubleIsSaid` -- a wrong,
  missing or rebuilt address has its sentence; `LinesAgree` -- `lines()` and `to_rva`
  never differ.
- `walkers`: `EveryRecordSeen` -- filtered walks see what the survey sees of their
  kinds, and its records lie end to end; `EveryDropCounted`; `NoByteReadTwice`;
  `NamesAreExact` -- no name moves to another id and none before the damage is lost;
  `RangesAreWhatIsWritten`; `ConstantsAreAsWritten` -- the whole constants that have an
  integer leaf are listed with the value and name written, every other is counted.
- `dbi`: `SlicesDoNotAlias`; `CutIsTold` -- a cut stream yields what is whole in it,
  and the overrun is the first substream that lost bytes; `OwnerIsRight` -- the owner of an
  address is found, and nobody else; `AgreesWithTheLibrary` for the survey's shortcut;
  `NamesAreReadBack` -- the map of names is whole or empty, and a file name is the one
  the linker wrote.
- `programs`: `StatusIsTrue` -- status 0 means all was listed and written, no failure
  is silent, and nothing raises at exit; `InterruptKeepsRecords`.
  `FuzzVerdictIsTrue` -- the fuzzer's 0 means that nothing escaped or hung, and its 1
  that each defect is kept by an input which was saved and shows it; `FuzzEnds`.
  `MarkerMeansDone` of the corpus fetcher, and `ManifestIsTrue` -- what a complete run
  lists of a file was measured under the hash it lists, the hash is that of the file
  there, and so is the measurement, for files that are renamed into place or written
  anew; but for a derived file after a run with `--smoke` and without `--corrupt` (see 4).
- `sweep`: `VerdictIsTrue` -- "ok" means compared and agreed, and no file that agreed
  is a failure; `DumpReadsBack` -- a dump is read for what the file holds, each entry
  under its own module and file, or the check ends in a ParseError; only what lies
  behind a heading that does not begin like one may be passed by with it, which is what
  `llvm_odd_heading` is about;
  `AgreementIsEarned` -- an export agrees when, and only when, a function is listed
  where it points or where its stubs lead.

Each property has a mutant in PROJECT.json: a changed definition, standing for a
plausible bug, under which the same run reports that property violated.

### Fairness

Two of the properties, `Released` and `FuzzEnds`, are about what must happen, and
their specifications state weak fairness:

- `PdbSession`: `WF(OpenStep)` -- it is a sequence of steps inside one call in one
  thread; once called it runs on -- and `WF(Delete)` because CPython counts
  references: what nothing refers to is deleted, `__del__` runs. Nothing is assumed of
  the caller, who may never call `close()`, and may never resume a listing.
- MC_Programs: `WF(FuzzTurn)`: the fuzzer is one loop in one thread, and nothing it
  waits for but the input can stop it. An input that never ends is a step that is
  never enabled; what takes its place is the alarm, which the operating system
  delivers. Where there is no SIGALRM nothing is claimed.

## 4 Divergences found

Five runs check what a comment, a docstring or the README of purepdb says, and TLC shows a
behaviour of the code that is otherwise. The quotation and line of each are in the
`findings` of PROJECT.json.

| Run | Property | What the code does |
|---|---|---|
| `lines_after_close` | `EmptyMeansNone` | `lines()` begun after `close()` ends empty instead of raising: `named_streams()` takes the refusal for a file without a map |
| `c13_oversize_block` | `LossIsReported` | a line block larger than its subsection ends the walk; the blocks behind it are lost and not reported |
| `fuzz_alarm` | `FailingInputsAreSaved` | the alarm of a slow input goes off in the handler that records its failure, or in the `finally` that clears it: the fuzzer ends in a traceback, and no failing input of the run is saved |
| `omap_thunk` | `ThunkLandsOnAnAddress` | an export that is no stub leads to `None`, a name that cannot be located has the address `None`, and the two count as agreement through a thunk |
| `llvm_odd_heading` | `NothingIsSkipped` | a module heading that does not begin `Mod N` and stands above the first module or under one without a stream is passed by, and the entries behind it with it |

Eleven more divergences are stated as properties in the modules, with the line they
quote, and are in no run. Added to the configuration of the run named, each as an
INVARIANT but `PassedByIsWhole`, a PROPERTY, TLC shows the behaviour.

| Statement | Run | What the code does |
|---|---|---|
| `RecordWalk!CutIsReported` | `walkers` | a module stream that ends early between two records is listed short and no truncation is recorded |
| `DbiStream!NoneMeansConsumed` | `dbi` | up to 63 bytes of the module list may be left over, and "where it stopped" is None |
| `InlinePlacement!ChunksAreNumberedByRecord` | `listings` | a chunk record that cannot be parsed takes no number, and later ranges are placed in the wrong chunk |
| `Diagnose!RefsOntoProcsAreListed` | `listings` | references onto procedures hidden by a small `sym_byte_size` are left out of the count, as if the listing had them |
| `CorpusFetch!PassedByIsWhole` | `programs` | a file that is there in part is taken for fetched; no size is compared |
| `CorpusFetch!ManifestListsTheCorpus` | `programs` | a file unpacked by a run killed before recording it is never recorded |
| `CorpusFetch!ManifestDescribesTheCorpus` | `programs` | what a killed `--corrupt` left of a file is measured by `--smoke` alone under the hash of the whole, and the measurement is kept |
| `LlvmValidation!DecliningIsSurvived` | `sweep` | two dumps are read before the `try` that survives a tool that declines |
| `ShapeSurvey!ShapeIsOfTheHeader` | `dbi` | eleven slots are read whatever the header declares and wherever the stream ends |
| `FuzzLoop!StopsAtMaxFailures` | `programs` | the bound on distinct defects is looked at where an exception is recorded and not where a hang is |
| `OmapValidation!LandsWhereTheFunctionBegins` | `sweep` | a prologue behind a jump is stepped over though no jump follows it, and a function that begins there is not found |

Seen on the way, and in no run because no statement of the repository is about them:
`save_json` writes in place, so a kill leaves a file that makes every later run raise;
`stage_omap` does not catch what `PDB.open` raises; a `PdbError` raised inside
a comparison ends the sweep of `validate_against_llvm.py`, as a declining tool does;
a PDB that a killed download left in part in the cache of
`validate_omap_against_windows.py` is refused by every later run and never fetched
again; its default `--min-exact` of 0 lets an ntdll agree nowhere; and it
fails on an untranslated address in a pair that has no map, which its printed
summary leaves out.

## 5 Proofs

Proved by TLAPS for every value of the constants that satisfies the named
assumptions of the module. TLC evaluates the assumptions in the runs above and, as
far as a small instance goes, had agreed with each statement first.

| Theorem | Statement | From |
|---|---|---|
| **Container_proofs** | | `BlockSizeAssumption`, `FileLenAssumption`, `RequestsAssumption`; from `DirectoryIsSafe` on also `WordsAssumption`, `WholeWordsAssumption`, `SuperBlocksAssumption` |
| `SplitIsInvariant` | `Spec => []IInv` | |
| `SplitAlways` | `Spec => []SplitInv` | the theorem before |
| `RunsImplementBlocks` | `Spec => RefinesPerBlock` | the same |
| `DirectoryIsSafe` | `DirectorySpec => []DirectoryInv` | |
| `NothingIsUnpackedOutside` | `DirectorySpec => [](NeverPastEnd /\ NothingReadEarly)` | the theorem before |
| `StreamsReadExactly` | `DirectorySpec => [](ListsFitSizes /\ ReadsAreExact)` | the same |
| `WhatIsParsedIsStored` | `DirectorySpec => []DirectoryRoundTrip` | the same |
| `TheFileBoundsItsStreams` | `DirectorySpec => []StreamsFit` | the same |
| **PdbSession_proofs** | | `SizesAssumption`, `FilesAssumption` |
| `SessionIsSafe` | `Spec => []SessionInv` | |
| `NoHandleIsLeft` | `Spec => []NothingLeaks` | the theorem before |
| `CacheTellsTheTruth` | `Spec => []CacheIsItsStream` | the same |
| `NoAnswerIsTakenBack` | `Spec => []AnswersAgree` | the same |
| `NoListingIsCutShort` | `Spec => []ListingsAreWhole` | the same |
| **Walkers_proofs** | | |
| `WalksStayInSync` | `RecordsSpec => []EveryRecordSeen` | `StreamsAssumption`, `HeadsAssumption` |
| `DropsAreCountedOnce` | `RecordsSpec => []EveryDropCounted` | the same |
| `RegionIsReadInOrder` | `LineInfoSpec => []LineInfoInv` | `RegionsAssumption`, `SubsectionsAssumption`, `ChecksumsAssumption`, `BlocksAssumption` |
| `EveryByteIsReadOnce` | `LineInfoSpec => []NoByteReadTwice` | the theorem before |
| `NamesKeepTheirIds` | `IdsSpec => []NamesAreExact` | `IdsAssumption` |
| `RangesAreTheWrittenOnes` | `AnnotationsSpec => []RangesAreWhatIsWritten` | `OperandsAssumption` |
| **Dbi_proofs** | | |
| `SearchFindsTheOwner` | `Spec => []OwnerIsRight` | `EntriesAssumption` |
| `SubstreamsLieApart` | `ParseSpec => []SlicesDoNotAlias` | `FilesAssumption`, `NoneIsNoPlace`, `WrittenAssumption` |
| `OverrunNamesTheFirstCut` | `ParseSpec => []OverrunIsTheFirstCut` | the same |
| `WhatIsCutIsTold` | `ParseSpec => []CutIsTold` | the same |
| `TheSweepIsNoSecondOpinion` | `SurveySpec => []AgreesWithTheLibrary` | `GeometryAssumption` |
| **AddressSpace_proofs** | | |
| `TheTwoPathsAgree` | `AddressSpec => []LinesAgree` | `TablesHoldAddresses`, `FilesAreWritten`, `OffsetsAreNat`, `AlignIsPositive`, `NoneIsNoAddress` |
| `NoWrongAddressGoesUnsaid` | `AddressSpec => []TroubleIsSaid` | the same |
| `SitesArePlaced` | `PlacementSpec => []SitesAreInPlace` | `InlineFilesAssumption`, `ModulesAreWritten` |
| `GapIsCounted` | `PlacementSpec => []UnplacedIsTheGap` | the same |
| **Reports_proofs** | | |
| `DiagnosisIsSafe` | `DiagnoseSpec => []DiagnoseInv` | `ModulesAssumption` |
| `EveryLossIsExplained` | `DiagnoseSpec => []LossIsExplained` | the theorem before |
| `SoundFilesAreQuiet` | `DiagnoseSpec => []HealthyIsQuiet` | the same |
| `NoSweepIsFooled` | `Spec => []SweepInv` | `TableAssumption` |
| `TheVerdictIsTrue` | `Spec => []VerdictIsTrue` | the theorem before |
| `AgreementIsNeverGiven` | `OmapSpec => []AgreementIsEarned` | `ImagesAssumption` |
| `EachSymbolOnceInOrder` | `SymbolsSpec => []ListedOnceInOrder` | `SymbolsAssumption` |
| `PublicsKeepOneOrder` | `SymbolsSpec => []PublicsAreInOneOrder` | the same |
| `FunctionsListTheMerge` | `FunctionsSpec => ListingIsMerge` | `ListedFilesAssumption` |
| **Programs_proofs** | | |
| `StatusTellsTheTruth` | `Spec => []StatusIsTrue` | `SizesAssumption` |
| `InterruptLosesNothing` | `Spec => []InterruptKeepsRecords` | the same |
| `FuzzStatusIsTrue` | `FuzzSpec => []FuzzVerdictIsTrue` | `PlacesAssumption` |
| `MarkersTellTheTruth` | `FetchSpec => []MarkerMeansDone` | `PlanAssumption` |
| `WhatIsListedIsTrue` | `FetchSpec => []ManifestIsTrue` | the same |

**Reading in runs** (`Container_proofs`). What has to hold is about the answer; why it
holds is about the loop. `IInv` adds to the types that what has been joined is a
prefix of the list and lies in the file (`TakenPrefix`), that what is held is the
stretch of the list up to the cursor and its numbers are consecutive
(`GrowingStretch`), and that a read in progress has not answered. Without the first,
a run that fits would not make the result a prefix; without the second, refusing the
first missing block of a run would not be refusing the first missing block of the
list. `RunCheck` says when a run fits in terms of its blocks, `RunJoinsPrefix` that
joining it extends the prefix, `RunRefusal` that its refusal is the one the abstract
read gives. Each action then maps to `ReadAtOnce` or leaves the abstract variables
alone.

**The directory** (`Container_proofs`). `DirectoryInv` is the type invariant with
`NeverPastEnd`, `ListsFitSizes`, `ReadsAreExact` and that nothing is read before the
container is open. The argument goes over the phases: `UnpackGives` -- an unpack
yields as many words as asked and lies inside the directory; hence as many sizes as
streams, and for each as many blocks as its size calls for; `BlocksHoldSize` --
that many blocks hold the size, so a read that does not raise cannot come out short.
`Refuse` ends everything and keeps what was read so far.

**What the directory says** (`Container_proofs`). That the parsed sizes and block lists
are the words of the directory one after another (`DirectoryRoundTrip`) is an equation
between sequences: the words up to the cursor are the count, the sizes and the lists
joined so far (`ParsedAsStored`), and each unpack adds to both sides the words it passes
(`UnpackIsStored`). That an open file holds no more bytes of streams than it has blocks
(`StreamsFit`) rests on `ClaimsHold`: the sum of the claimed sizes, a recursive function
over the list, is at most what was checked when the last size was known.

**The session** (`PdbSession_proofs`). Its four properties are one invariant: who holds
handle and mapping at each step of `open` (`Holds`); every answer told so far is the one
a cache keeps or the one the file determines, and the cached bytes are those of the
cached index (`Kept`); a PDB knows the name table it has unless it was first asked
after `close()` (`NamesAreKnown`); and a suspended listing has given all the lines that
come before its own (`ListingsInv`, with `ListedTo`, a recursive function over the
modules). The last needs the one before: a listing that began without the name table
would end empty.

**Three walks over one stream** (`Walkers_proofs`). The records the survey found lie end
to end (`Spine`), the survey stopped where there is no record whoever looks again
(`Stopped`), and every later walk is at one of the survey's records or at that place
(`InStep`). Hence a walk that skips records by their kind without reading them comes
by the same ones, and what it has yielded and its parsers have dropped are the survey's
records of its kinds (`Yields`).

**Line info** (`Walkers_proofs`). Subsections follow each other (`SubsectionsApart`), a
block lies in a subsection no later than the one being read, and in that one behind the
cursor (`BehindTheCursor`); so whatever sizes the headers claim, no byte belongs to two
blocks.

**Ids** (`Walkers_proofs`). An id is the number of records passed: `IdsInPlace` ties the
cursor to the end of the record before, `NamesSoFar` the table to the records passed,
and `IdsFinished` says that the walk only ends where nothing can be read.

**The ranges of an inline site** (`Walkers_proofs`). The walk keeps a cursor and a chunk;
the reference, `WrittenInBody` and `WrittenInChunks`, has neither and looks back over the
instructions for the last base and sums what came after it. `AnnotationsInv` says that
the two agree at every step: the cursor is `NextStart` and the chunk `ChunkOf` of the
instructions read. What one instruction more does to the reference is three lemmas: it
changes nothing said of those before it (`PrefixSaysTheSame`), begins a chunk or adds to
the sum (`OneMoreInstruction`), and appends one range to one of the two lists or none
(`WrittenOneMore`). A fused length is not in the sum while a lone one is: exactly that
makes `CarryOutFused` and `CarryOutLength` differ.

**Two ways to an address** (`AddressSpace_proofs`). `lines()` decides once whether
addresses go through the map, and looks up each segment's base once. `IInv` says
that what it hoisted is what a look-up would find now (`HoistedIsFresh`), which holds
because tables are written only before the PDB is open (`OnlyOpen`) and a walk has it
open; `BasePlusOffset` says that base plus offset is the address of the offset.

**Right, or said to be wrong** (`AddressSpace_proofs`). `TroubleIsSaid` needs to know
that what was loaded is what the file holds (`ReadSoFar`), and of a rebuild under way
that every segment lies where the linker put its section (`LaidAsLinked`): it has the
same number, hence the same length, and so had those before it. In the end the rebuilt
table is the linker's or there is none. The optimiser's table has an entry wherever
bytes stop moving together; `MovedWithItsEntry` goes from any byte back to its entry,
`PrefixIsItsCount` says that the entries at or before an address are a prefix of the
sorted table, and so `LookupFinds`: the last of them is that entry, and the look-up
gives the shipped address. The rest is a case for each stream that is missing
(`AnswerIsRightOrSaid`). The proof also corrected the model: in a CASE of the reference,
`TrueRva`, two guards could hold at once.

**The placement of inline sites** (`AddressSpace_proofs`). What the first pass has
collected up to a record is a function of the records (`Collected`): the readable
procedures, and the chunks of each in the order of their records. As procedures do not nest,
the last one to start before a site either is its scope or has ended, so the search
finds the scope or nothing (`SearchFindsTheScope`). The ranges that `Entries` groups by
segment are those of the site, each once and one entry to a segment (`RangesAreTrue`,
`EntriesAreOnePerSegment`). `PlacementInv` says this of every site behind the walk
(`ListingFits`, over `Visited`), and that entries mention no other site, so a site once
right stays right (`OthersStayRight`). The two counts are cardinalities over the same
set (`CountsFit`); each step adds at most one site to it, and in the end it is all of
them, which gives `UnplacedIsTheGap`. The proof needs `ModulesAreWritten`, and shows for
what: a procedure within another would be lost to the sites after it, and two chunks at one
address would be one range to the reference and two to the listing.

**The owner of an address** (`Dbi_proofs`). The index is a total order of
the contributions that have a size (`IsSorted`); everything below `lo` starts at or
before the query and everything from `hi` on starts after it (`Bounds`). When they
meet, an owner can only be the last one that starts at or before the query
(`OwnerIsTheLast`): any other would contain the start of that one. Overlapping
contributions may hide an owner but never invent one: what is found covers the
address (`FoundCovers`), so the module that is named exists and claims it
(`NamedModuleClaims`). What `Build`
yields is stated as a sorted permutation, which is what Python's `sorted` promises.

**The fuzzer** (`Programs_proofs`). `FuzzInv` says that the handler the interpreter is in
tells how the input ended (`HandlerFits`), that everything recorded shows its own
input (`KeptShow`), and that every settled input that failed is recorded
(`AllRecorded`). The verdict, which only counts what was recorded, follows once the
loop is over; the alarm moves the interpreter between handlers and touches nothing
that was recorded.

**The substreams** (`Dbi_proofs`). `SlicesDoNotAlias` is not inductive: the next
slice starts at the running offset, of which it says nothing. `ParseInv` adds that the
offset is at or past the end of every slice taken and inside the stream
(`OffsetBounds`), and that after a cut it is the end of the stream
(`NothingLeftAfterCut`), which is why the substreams after the first that was cut are
empty. `TakeKeeps` says this of one take; the five actions that take a substream cite
it. That a negative size raises is what keeps the offset from moving back.

**What is left of a cut stream** (`Dbi_proofs`). `CutIsTold` compares what was read with
what was written and is still there; `WholeSoFar` says it at every step of an undamaged
file. Until a substream is cut the next one starts where it was written, and afterwards
the stream has ended before the place of the next (`OffAsWritten`), so that a list is
read from its own bytes or from none. The module walk has read the first records and
stands at the next one, or has stopped before one that is not whole (`ModulesSoFar`): a
record has at least the 64 bytes the walk asks for, so it neither stops early nor
mistakes one place for another (`ReadsTheNext`, `EndsBeforeACutRecord`). That records and
substreams lie end to end is a running sum, which **Lemmas** has by `SetInduction`
(`TotalsExist`, `TotalsGrow`). `WrittenAssumption` is about the linker: records fill their
substream, and the section map holds the entries that it counts.

**Each symbol once** (`Reports_proofs`). The property orders the records by their place,
stream and number. `KeptSoFar` says of the places before the cursor what the property
says of all: the identities met are those of the readable records, and the listing has,
in the position its rank gives it, each record that was the first to say what it says.
Reading a record moves the cursor past one place (`ReadingPassesOnePlace`), which comes
after all the others and so leaves their ranks alone (`NewIsListedLast`). A record that
cannot be read adds no identity, which is why it hides no later one.

**Publics in one order** (`Reports_proofs`). What is left of an address map still ascends,
whatever was cut from it (`MapsAscend`). If it has every public, the rank of a public
in it is its place in the order of addresses and the sort has put them all there
(`RanksArePlaces`, `CoveredAreByAddress`); if it lacks one, the listing is the stored one
(`AsStoredHasAll`).

**Functions as a merge** (`Reports_proofs`). `functions()` adds one claim at a time to a
dictionary; FunctionListingSpec takes all claims together and says what is listed at each
address. The invariant, `FunctionsInv`, has a phase for each source. In each of them
the claims added and those still to come are the claims of the phases begun so far, and
the dictionary is the merge of those added (`Progress`). `AddMerges` is the heart: one
claim more is a new address, an alias, or nothing (`MergeOfAFirst`, `MergeOfAnAlias`,
`MergeOfTheSame`), and the merge of the longer list is what the dictionary becomes. When
the last phase is through, the final sort puts the merge in the one order of its keys
(`SortedIsAnOrder`, `KeysAscend`) and loses none of it (`ReorderedMerges`), so `Return`
is the one step `List` of the abstract specification; `RefuseRefuses` is the other, and
every other action leaves the abstract listing alone (`StepsRefine`). That a stable
order exists for every length is an induction by insertion, in **Lemmas**
(`StableOrderSorts`).

**The survey's shortcut** (`Dbi_proofs`). The survey finds the debug header by the
stream's size and the library by adding up substreams. With the header whole, the words
of the header lie in blocks the stream has (`HeaderIsInTheStream`), and slot by slot the two see
the same (`ShapesAreTheSame`).

**Diagnosis** (`Reports_proofs`). The warnings are made of counters, and counters forget
which module they counted. `DiagnoseInv` keeps what they must still say: what is wrong
with any module looked at so far has left its counter above zero (`TroubleIsCounted`), so
has a procedure that was read (`ProcsAreCounted`), and in a sound file none has been
(`NothingIsInvented`); and a globals index that was read has been resolved whole
(`SurveyIsDone`). For a procedure that is not listed the proof then goes backwards: no
warning means that its reference was matched, that its module was reached, has a body and
no malformed record, so it is listed.

**The verdict of a sweep** (`Reports_proofs`). No file is met twice, and the one being
compared has no result beyond the check it is at (`LeftAreFresh`), so a result once given
stays; `ok` is false exactly when a check of this file differed (`AgreeIsTrue`); an outcome
fits the results it was made from (`OutcomesFit`), and a verified check compared a record of
some file (`VerifiedCompared`). The table of checks must not be empty and must have
distinct names: with one name twice, the second check would overwrite what the first
found. `DifferencesAreDifferences` says that no `--max-diffs` from 0 on hides all of a
difference.

**The validation of translated addresses** (`Reports_proofs`). `follow_thunk` and
`Landing`, its reference, are both recursive in the hops that are left; as there are four
(`MaxHops`), both are unrolled rather than inducted over (`FollowByHops`,
`LandingByHops`). A stub leads to one address (`StubHop`), a body to none (`BodyHop`),
so where the chain ends both name the same place (`FollowThunkLands`), and the class of
an export says what was found there (`ClassIsEarned`).

**The exit status** (`Programs_proofs`). Four parts that only hold together: every
line printed is in the buffer or was written as long as stdout is not given up, and
giving it up is never taken for success (`LinesAccounted`); a status other than 0 has
its reason and keeps it (`StatusHasReason`); Ctrl-C leads to 130 and nothing else does
(`InterruptIsSettled`); where nothing failed the listing was printed to its end
(`ListedToTheEnd`). At the interpreter's exit the buffer is then empty or goes to the
null device, so nothing raises there.

**The corpus** (`Programs_proofs`). `FetchInv` says that what is marked is on disk whole or was
removed, is recorded as whole, and is not worked on again (`MarkedIsDone`); what is
about to be recorded or marked is whole (`RecordsWhole`). A kill may come between any
two of these steps. `ManifestInv` goes on to what a complete run lists: files renamed into
place are whole or absent (`PlacedIsWhole`), a run that derives has written anew what it
has come past (`DerivedAnew`), no measurement of a part stands under the hash of the whole
(`SmokeIsTrue`). The last needs an exception. A run with `--smoke` alone, after a killed
`--corrupt`, measures half a file under its full hash, and every later run keeps the
measurement: `smokedAlone` remembers that there was such a run, and of derived files
nothing is claimed after it but that hash and file agree. What is claimed of the other
files, and of derived files without such a run, holds for any choice of flags, run by
run; `ManifestDescribesTheCorpus`, the statement without the exception, is false.

**Model-checked only.** Liveness (`Released`, `FuzzEnds`) and `ENABLED` are out of TLAPS'
reach here. Library theorems on induction take an operator as a parameter, which the
installed provers cannot instantiate; **Lemmas** has induction over a set of numbers
instead (`SetInduction`), and what depends on recursive functions is proved from it where the
recursion is over a list that the program itself grows. Three invariants remain with TLC,
because their references compute over the input and not over what the program has grown:
`ConstantsAreAsWritten` (powers of the radix over the bytes of a value),
`NamesAreReadBack` (a stream laid out from its parts by joining them) and `DumpReadsBack`
(the lines a tool prints for a whole file).

## 6 Not modelled

- **The fields of the record kinds**: a record is its kind and whether its parser
  raises. Names are compared, never decoded.
- **Parts of `diagnose()`**: warnings about inline names, thread-local records and
  linker versions.
- **Listings that are one loop of a modelled one**: `thunks`, `trampolines`,
  `labels`, `udts`.
- **In the corpus fetcher**: the retries of `build_rust`, the report of `--omap`,
  the text of the manifest. **In the comparison sweep**: what each check but that of
  the lines compares is an outcome.
- **In the fuzzer**: the generators and the calls of `exercise` are the outcome of an
  input; Ctrl-C, which ends the script as it does any other.
- **The audit, benchmark, snapshot and relink scripts**: straight lines around the
  library that keep no state between steps.
- **Threads**: the library has none and promises nothing about them.

## 7 Plan

Done, in the order it was written: the container and its proofs; the session;
the function listing; the walkers; addresses and their proof; the DBI stream; inline
sites; diagnosis; the corpus fetcher; the other listings; the contribution map and
its proof; the command line; the comparison sweep; the shape survey; constants;
names; the fuzzer; the reading of a dump; the validation of translated addresses; the
proofs of the fuzzer, the command line and the DBI stream; of the session, the
walkers, the corpus fetcher, the survey, diagnosis and both sweeps; the round trip of
the directory; that no address is wrong in silence; what is left of a cut stream; the
listings of symbols and publics; the refinement of the function listing; the placement
and the ranges of inline sites.

Left, in order:

1. The retries of `build_rust` and the report of `stage_omap` in CorpusFetch.
2. A proof of `ConstantsAreAsWritten`, which needs the value of a number of n digits as
   a lemma about sums of products.

Abstract specifications so far: MsfReadSpec and FunctionListingSpec. A third worth
stating is that of a session as a pure function of the file, which `AnswersAgree`
states in part.

## 8 Running it

    tlc -config MC_Container.cfg MC_Container
    tlapm Container_proofs.tla

Each run is a module `MC_X` with a configuration `MC_X.cfg`, or `MC_X_what.cfg` for
the divergences. Each run ends within three minutes on two workers, each proof module within a few
minutes.
