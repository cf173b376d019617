# A verification development of proof-cli

proof-cli is a local-first proof map. A researcher and several LLM agents work on one theorem:
its proof is split into claims and imported results, each with its own folder of LaTeX, and
every judgement about a node (Verdicts, Challenges, verifications, seals, Acceptances) is
recorded and read back by rules that must not contradict each other. Around the map stand a
SQLite store that several processes share, an append-only history of the researcher's decisions
kept in files and in git, records of text, publication, collaboration and automation, and
`latex-agent`, a small studio in which an agent edits a file while the researcher saves it.

This directory holds TLA+ modules translated from that code, the TLC configurations that check
them on small instances, and TLAPS proofs of what matters most for every instance.
`PROJECT.json` maps every definition to the lines it models.

    tlc -workers 2 -config Map.cfg MCProofMap.tla
    tlapm ProofMapProofs.tla

Paths below are under `src/src/proof_cli/` unless they begin with `latex-agent`, which stands
for `src/packages/latex-agent/src/latex_agent/`.

## 1. The system

### 1.1 Components

| Component | State | Operations | What makes it correct |
|---|---|---|---|
| Proof map (`proof_map.py`, `domain.py`) | nodes, edges, parents, claims, Review snapshots, pins, Challenges | create, split, add / remove / move a dependency, claim, release, restate, request review, decide, challenge, seal | no cycle; one holder; decided text fixed; a decision is not lost silently; what counts is what was shown |
| Node states (`node_states.py`) | none: everything is read off the records | Seal, Statement layer, Proof layer, conclusion, what a Challenge stops, what a seal will do | only the researcher's clicks verify and seal; two readings agree; the page tells the truth |
| Read scopes (`storage.py` 811–888) | one table per scope, shared by its readers | read, forget on a write | a remembered reading is what a fresh one would be |
| Researcher decisions (`authority.py`, `reviews.py`) | one `reviews.jsonl` per node, git, `review_history` of older projects | append under the write lock, commit, move the older rows | one order; a committed decision counts; nothing is taken back |
| Store (`storage.py`, `db.py`) | SQLite, one write lock, callbacks, files beside rows | transactions, savepoints, rollback, commit | all or nothing, files included |
| Evidence checks and Verdicts (`node_check.py`, `evidence.py`, `checks.py`) | evidence rows, the Uses of dependencies of a proof | mechanical checks, record a Verdict, gate a request | a check is of one version; a pass answers every use and every objection |
| Frontier, blockers (`blockers.py`, `obligations.py`) | none | list what can be worked | what is listed may be worked |
| Switch to five states (`five_states_switch.py`) | a flag, a backup | rewrite an older project's records once | once, or not at all |
| Proof fog (`fog.py`), definitions, trust rules, work log | their tables and logs | create, resolve, crystallize; define, restate; declare and retire rules; record turns | one node of an item; decided text stands; a rule's impact is told; no role is guessed |
| Pursuit (`pursuit.py`, `goals.py`) | steps, turns spent | record a step, read the spend | the spend is what its turns were, or says it may be less |
| Publication, exchange, collaboration, governance | workspace, bundles, contributors | publish, export, import, review | what is shown stood; imports are whole; old records survive their move |
| Vault (`vault.py`, `snapshot.py`, `references.py`) | node folders, snapshot folders | scaffold, freeze, archive, roll back | a digest that matches is of what was read |
| Memory, formal bridge, automation, older proof state | their tables and history | scan, translate, attempt, remember | nothing recorded is lost or done twice |
| Project list (`projects.py`) | one file | open, hide, forget | no process's change is lost |
| Command line (`cli.py`, `commands.py`, `rendering.py`) | none | one operation each | — |
| Agent turns (`latex-agent/agent.py`, `backends.py`, `proc.py`) | the active turn, its process, snapshots of the files | start, stop, close, undo | one turn; a stop is not missed; the researcher's work is spared |
| Studio (`latex-agent/server.py`, `build.py`) | saves, the build lock, the output folder, runs | save a file, build, stop, close | what settled is up to date; everything started is stopped; the lock comes back |
| Page and streams (`latex-agent/static/app.js`, `backend_claude.py`) | a tab's text, a followed turn's log | type, autosave, poll, reload; draw events | nothing typed is lost unseen; every event is drawn once |

`PROJECT.json` lists all of them with what is modelled of each.

### 1.2 How they interact

* Every operation on the map is one call of the store's `transaction()` (`storage.py` 575–630):
  `BEGIN IMMEDIATE`, the checks, the writes, then the *before commit* callbacks, the commit, the
  *after commit* callbacks. Processes (the page, a CLI command, an agent's tool) meet only at
  SQLite's write lock and in the files. Several services read before they take the lock
  (`request_review`, `set_medium`, the verification's preparation, an import's plan); those are
  modelled as steps of their own.
* A decision is written by a *before commit* callback: the line is appended to
  `proofs/<node>/reviews.jsonl` under the lock and before the database commits, and goes to git
  after it. The decision counts because the line is in the file.
* The states of a node are computed by walking the map: dependencies, Challenges, their
  counterexamples, *their* dependencies, and so on. Inside a read scope the walk's table is shared.
* The older records (publication, collaboration, memory, projects) are rows or files loaded and
  saved whole, some under a lock and some not.
* The studio runs each request, each turn and each build in a thread of its own; the agent is a
  child process that writes files the editor saves too. The page polls.

### 1.3 What is hard here

No test exercises an order of edits nobody thought of, a process dying between an append and a
commit, a stop landing between a check and a `Popen`, a bibliography edited while BibTeX runs, or
two counterexamples that rest on each other's targets. `PROJECT.json`, `hazards`, lists these at
their lines with the properties that cover them.

## 2. The modules

| Module | Models | State ↔ code |
|---|---|---|
| `MapGraph` | the walks over the edges (`rests_on`, `_dependency_path`) | the dependency graph as a function node → set of nodes |
| `ProofMap` | structure, claims, snapshots, Acceptance and Reference review | the tables `proof_map_nodes`, `claims`, `candidate_proofs`, `dependency_pins`, the newest acceptance line, and one bit "some Challenge is open" |
| `Requests` | review requests, Verdicts, Evidence checks, verifications and `set_medium` as the steps of processes | text, edges and files as versions; what each request read and when |
| `NodeCheck` | the mechanical checks and a Verdict's lines on the Uses of dependencies | `proof.tex` as the sequence of what the checks look for, inputs, links |
| `Challenges` | how a Challenge ends, and what a checkout of git may undo | rows, fixes, lines of the reviews file |
| `Interfaces` | pins: what a dependency said, in four spellings | texts of a statement and a definition, fingerprints |
| `NodeStates` | the records a node's states are read from, and the readings | snapshots, Verdicts, Challenges, verifications, seals; readings are operators |
| `ReadScope` | the shared table of a read scope | `read`: node → conclusion as it was put there |
| `MapReadings` | the walks up the map: causes, unsettled support, the frontier | the memo tables of a read scope |
| `TrustRules`, `WorkLog` | trust by rule; roles read back off the event log | files and logs that only grow |
| `Vault` | what a snapshot freezes and how it is read again | a folder, snapshot folders, rows, a writer |
| `Definitions` | statements and definitions, what fixes them, imports naming them | texts, edges, the history of snapshots and decisions, plans of importers |
| `ReviewHistory`, `DecisionLog` | how decisions reach the files, and what the history promises | processes with a program counter, the write lock, the lines of each file, git's head; one list that grows at its end |
| `Transactions` | nested blocks, savepoints, callbacks, read scopes | the stack of blocks, rows, files |
| `ProjectFiles` | files written beside rows, the switch to five states, side documents | rows, folders, a process's program counter |
| `TurnRecords` | a turn's record and its transcript | rows, a file, the lock |
| `Fog`, `ProjectList`, `Memory`, `Exchange` | the fog; the Home page's list; the layered memory; bundles | one variable per table or file, one record per process |
| `Publication`, `Collaboration`, `Automation`, `Pursuit`, `Debugging` | the records beside the map | the same |
| `AgentTurns` | `AgentManager`, the process of a turn, the editor's saves | one record per turn, one stage per step of its thread |
| `Studio` | builds, passes, BibTeX, runs, stops, close | what the sources say, the output folder, `build_lock`, `_admit` |
| `Page`, `Follow`, `Stream`, `LiveInput` | a tab's file; following a turn; what is drawn of a stream; a tool call decoded while it streams | the tab's and the server's variables |
| `MCProofMap`, `MCReadings`, `MCStore`, `MCRecords`, `MCStudio` | compositions and instances | section 2.8 |
| `ProofMapProofs`, `NodeStatesProofs`, `RequestsProofs`, `ReviewHistoryProofs`, `AgentTurnsProofs` | proofs about one component | section 4 |
| `StoreProofs`, `RecordsProofs`, `StudioProofs` | proofs about `MCStore`, `MCRecords` and `MCStudio`, part by part and together | section 4 |

Some operators look like their neighbour with something missing (`PinKept` beside `WithoutPin`,
`RegisterThoughBusy` beside `MayRegister`). They are never part of a specification: each is a bug
the code could have had, and putting it in place of its neighbour makes the property listed
beside it in `PROJECT.json` (`mutants`) fail.

### 2.1 ProofMap and Requests

One action of `ProofMap` is one service function, with all it calls: `AddDependency` is
`add_dependency` with the takeover of the node, `RemoveDependency` also deletes the pin,
`DecideAcceptance` also ends Challenges. `StructureEditable`, `Accepted`,
`VerificationVoid`, `Blocked` and `AwaitingDecision` are the readings their guards use.

Abstracted: wording and row ids; files (a request with changed files is always possible, one with
unchanged files is never useful to a property here); Challenges, which are one bit per node in this
module and have their own records in `NodeStates` and `Challenges`. `versioned` says which pins
record the version their target had been accepted at. `restate_node`, `set_medium` and the reads
made before the lock are in `Requests`. What decisions relied on (`fixed`) is kept here in sum, since no
action of the module changes a text; that the code reads it back from the history each time, and what it
keeps from being restated, is the subject of `Definitions`. Repairs of edges of older projects are not
modelled.

In `Requests` a text, a snapshot, a verdict and a line are named by the event that made them, so
"what was read" and "what is there now" can be compared. A requester reads, may be overtaken by any
edit, and writes under the lock. `Stale`, `Matches` and `_binding_problem` are the comparisons the
code makes at the lock. `Worked` and `Ops` bound which nodes and operations an instance has.

### 2.2 NodeStates, ReadScope and MapReadings

A state of `NodeStates` is what the tables hold; the five states of a node are the operators
`Seal`, `Statement`, `Proof`, `Conclusion` and `StoppedBy`. The conclusion of a node asks for
those of its dependencies, and a Challenge with a counterexample for the conclusion of the
counterexample, *read with that Challenge undecided* (`counterexample_decides`). `Reading` says
this as one recursive function of the set of Challenges held undecided and the node; it is the
reference definition. `ReadScope` is the code's walk with its table, and is checked against it.
`MapReadings` does the same for the walks of `proof_map.py` 4035–4556: each walk with its stack and
memo against what it is for.

Times are kept as what they are compared with: `after` is "raised after the newest verification",
`foundFalse[n]` the dependencies found false since. `verification[n]` records the dependencies the
line was made on and whether the snapshot is still the newest. The agents' steps and the
researcher's clicks are separated (`AgentStep`, `ResearcherStep`), because that is what the
properties are about.

### 2.3 NodeCheck, Interfaces, Challenges, Vault, TrustRules, WorkLog

`NodeCheck` keeps of `proof.tex` the environments, labels, uses and inputs the checks look for, and
the rule that a Verdict answers one line per use. How LaTeX text is matched is left out.
`Interfaces` has one target and one dependent: a pin is a fingerprint in one of the four spellings
projects have used. In `Challenges` an ending is recorded where it is made (a row, a Verdict, a
line), and a checkout may bring older lines back. `Vault` freezes a folder file by file while it is
edited; a link is refused, but for the shared preamble's, which the code follows, so that the model's
preamble is what is found there (when a preamble is linked anew to an older file, the build made before
still reads current; that is left out). SHA-256 is taken as injective, and whether the dependencies of a
snapshot still stand is left to `Requests`. `TrustRules` and `WorkLog` fold logs that several processes append to.

### 2.4 ReviewHistory and DecisionLog

Each process is `closed`, moving an older project's rows (`migrating`, `moving`), `open`, or
making a decision (`deciding`, `written`, `recorded`). Between any two steps it may die; an append
may fail, whole or part-way (`TornWrites`); a commit may fail. `Legacy` is the older project's
table, oldest first, and `todo` the rows still to be moved. `Counted` is the refinement mapping:
the decisions readable in the files, in the order of their sequence numbers.

### 2.5 The store's modules

`ProjectFiles` numbers the attempts at each operation, so that a row and the files beside it can be
told to be of one attempt; a process may fail, die, or roll back at any step. A side document is loaded
under the lock and replaced whole at the commit. `Transactions` is one
thread's blocks within blocks. `TurnRecords`, `Fog`, `ProjectList` and `Memory` are processes that
read, check and write one table or file. `Exchange` exports a section at a time while the source is
written, and imports in one transaction what it planned outside it; the files of an import are in
`ProjectFiles`, its definitions in `Definitions`.

### 2.6 The records

`Definitions` composes definitions, statements that name them, the edges and the history, and importers.
What is fixed is no state of it: `Fixed` is read, as `_fixed_index` does on each read, from the snapshots
and decisions in their order, each decision followed below its node through the newest snapshots *by
then*. Edges, snapshots and decisions go on changing while texts are restated. What a decision relied on
as it was made is kept beside its row (`relied`), no guard reads it, and `TextStands` is stated with it:
so the code's reading is compared with what it stands for. `Publication` is a
workspace loaded and saved whole with no transaction around the two, an audience's view and the
bundle snapshots. `Collaboration` is the side document and the one-shot move of an older file.
`Automation` is a run whose every command reads the newest record and appends the next, two processes at
once. `Pursuit`
is a host, outside the repository, that records what it does and may fail or die. `Debugging` is a
history of scans, decisions and tasks under ids any report may be given.

### 2.7 The studio's modules

`AgentTurns`: a request thread checks `closed` (`Ask`), registers a turn under the lock (`Register`)
and prepares it outside (`Prepare`: context, snapshot, thread). The turn's thread goes through
`CliBackend.run`: a first look at `cancel`, `Popen`, `job.proc` assigned, a second look, reading
until the output ends, the snapshot after the turn, the revert, the end. `stop()` and `shutdown()`
are two steps each, because they cancel under the lock and kill outside it. `_restore` looks at a
file and writes it in two steps, since nothing locks it against the editor. A save is asked for
(the key-ideas check), then takes `save_lock`, compares the file's time, and writes. A tab knows of
a file only whether it is as the tab loaded it, was saved by another tab since, or changed by
something else (`seen`). The host's callbacks (`context_fn`, `turn_ended`) are outside this
repository and never raise here; section 5 says what happens if they do.

`Studio`: a text is what it says, as the code compares contents by their hashes: an edit that is undone
gives back the text, and its signature, that was there. An `.aux` is the document it was written from or
`Cut`, a `.bbl` the pair of citations and `.bib` it was made from or `Cut`, a saved signature such a pair,
the PDF the triple it was typeset from. `Uncited` are documents that cite nothing, where the `.bbl` is
removed. BibTeX takes three steps: its signature is taken and it starts, it reads the `.bib`, it writes
the `.bbl`; it may fail with the `.bbl` replaced, cut or as it was, and may be killed at any of them. A
build holds `build_lock`, is admitted under `_admit` or refused, and runs passes until the feedback files
stop changing or `MaxPasses`; the signatures are saved at its end, if they can be. `edited` marks a build
whose sources changed under it, and `dir.loose` an output folder whose `.bbl` was left by a BibTeX that was
stopped, failed, read another `.bib` than was signed, or had its signature not saved; no guard reads
either. Abstracted: the document compiles, a pass that meets a cut `.aux` or `.bbl` may break once, the
output folder is not the project's root; what a computation's run reads and writes is external.

`Page` is one tab as a single thread whose requests are answered later; `Follow`, `Stream` and
`LiveInput` are the three steps from a program's output to what is drawn.

### 2.8 The compositions

The parts of a composition do not read each other's state, so a run that interleaved them would
only multiply their states. Each composing module has a variable `about`, chosen at the start: the
part a behaviour is about moves and the others stay in one initial state. A property of a part is
then that part's property whichever part moves. `MCStore` has eight parts of the store; `MCRecords`
eight components beside the map: definitions, in two parts, publication, collaboration, automation, Pursuit,
debugging, pins (`Interfaces`) and folders (`Vault`). `MCProofMap` holds two instances of `ProofMap`
with different bounds beside `NodeCheck`; `MCReadings` extends `NodeStates` and adds the readings. `MCStudio` extends `Studio` itself and adds the page's parts.
The bounds of `MCStore`, `MCRecords` and `MCStudio` are constants given by their configurations, so
that section 4's theorems are about the very specifications the runs check, for any bounds.

## 3. What the runs check

Times are on two workers.

| Run | Instance | Shows |
|---|---|---|
| `Map` (`MCProofMap`) | structure: 3 nodes of all kinds, 2 actors; decisions: 2 nodes, 1 actor, all reviews, Challenges, seals; a working proof with 2 dependencies, 2 files, 3 edits; 125 s | `AcyclicMap`, `ChecksStand`, `HolderRespected`, `AcceptanceNotLostSilently` |
| `Requests` | 2 nodes, one of them worked on, 2 requesters, every operation, 4 events; 150 s | `CountedAsShown`, `PassedAnswersAll`, `GatedFreezesWhatPassed` |
| `RequestsCycle` | 2 nodes, edges and media only, 5 events | **violated**: `AcyclicMap` |
| `Store` (`MCStore`) | eight parts of the store, 2 processes each; 130 s | `FilesFollow`, `OneAfterAnother`, `ImportStands`, `KeptForGood`, `MemoryKept`, `EndingsStand` |
| `History` (`ReviewHistory`) | 2 processes, 2 nodes, 2 decisions, 3 older rows, 1 torn write; 28,201 states | `OneOrder`, `CountedWhileReadable`, `LockGivenUp`, `ImplementsLog` |
| `Readings` (`MCReadings`) | a node with an imported result, 2 drafts, 1 Challenge; 4 nodes with crossed counterexamples; 4 nodes of a map; 2 citations, 2 rules; 3 turns; 195 s | `UnsealReleasesListed`, `OnlyClicksVerify`, `VoidForGood`, `ScopesRight`, `MapReadRight`, `RulesRight` |
| `AgentTurns` | 2 callers of `start()`, 1 file, 2 turns, 1 save, stop, close, undo; 170 s | `OneTurn`, `StopIsNotMissed`, `NoTurnOutlivesClose`, `StoppedTurnEnds` |
| `Studio` (`MCStudio`) | 2 builds of 2 documents and 2 `.bib`s edited freely, 2 passes; 2 builds and a run; a tab; a followed turn; a stream; STUDIOTIME | `SettledUnlessLoose`, `NothingOutlivesClose`, `BuildsGiveTheLockBack`, `NothingLost`, `DrawnWhole` |
| `StaleBibliography` (`Studio`) | 3 builds, 1 document, 2 `.bib`s | **violated**: `SettledIsUpToDate` |
| `PageOverwrites` (`Page`) | another page, 3 texts | **violated**: `UnseenIsSpared` |
| `Records` (`MCRecords`) | eight components beside the map; 195 s | `ShownStood`, `OldRecordsKept`, `WorkFollows`, `BugsFollowed`, `PinTells`, `TextStands`, `VaultStands` |
| `DefinitionsRace` (`Definitions`) | 2 nodes, 1 definition, 2 texts, 1 importer | **violated**: `SaysTheSame` |

### 3.1 Bounds, and why they are enough

* `ProofMap`: three nodes make every shape a cycle needs when an edge is handed down (a node, what
  it hands down, what it hands it to); the structural instance has three and no decisions (`Judged`
  is empty), the other all decisions and two nodes, since each of its properties relates a node to a
  direct dependency. `NewKinds` and `Judged` bound which kinds are created and which nodes are
  reviewed; they are arguments of guards and not of the proofs, which hold for all.
* `NodeCheck`: 2 dependencies and a stranger, 2 files, 3 edits; `MaxInputFiles` is 3 (50 in the
  code), so that the bound is passed.
* `Requests`: time is the number of events; 4 let a verdict, an edit, a request and a decision
  follow each other in any order; 5 are the fewest that close the cycle.
* `NodeStates` (in `Readings`): two nodes and one Challenge; several Challenges and any map are proved.
* `Vault`: 2 processes, 2 versions, one edit, one damage, so that both may freeze at once.
* `ReadScope`: two Challenges, since it takes two to contradict each other; `Edges` and `Against`
  keep the instance to the cross: a counterexample *c* of a Challenge on *x* rests on *y*; *z*, the
  counterexample of a Challenge on *y*, rests on *x*.
* `MapReadings`: every set of the four edges over two nodes, a lemma and an imported result.
* `TrustRules`: 3 lines, so that a rule is declared, amended or retired, and declared again.
* `WorkLog`: two nodes and the Reader under one agent's name, one act each.
* `Interfaces`: 2 changes and 2 snapshots of each node: one to differ, one to come back.
* `Store`: `ProjectFiles` 4 attempts of two processes; `Transactions` 4 writes in 4 blocks (a
  transaction, two nested, a scope); `TurnRecords` 4 attempts; `Fog` 2 items, 2 parents, 2 new nodes;
  `ProjectList` 2 openings; `Memory` 2 stamps, 4 markers; `Exchange` 2 nodes, 5 writes; `Challenges`
  2 Challenges, 2 lines, 1 restatement.
* `ReviewHistory`: three older rows over two nodes, so that the move may die between the first and
  the last row of one file; two decisions, so that two processes race for one number.
* `Definitions` is looked at twice. *texts*: 2 nodes, 1 definition, 2 texts, an importer and a seal.
  *history*: 3 written nodes and every edge among them, 4 snapshots and decisions, 2 of them decisions:
  that is a decision, a newer snapshot that rests on something else, and a restatement of what only the
  first one relied on. A snapshot that says what the newest one does is not taken again, and nobody
  restates before the first decision; both parts begin with the same text, since texts are alike.
  `MaxNamed`, `MaxSealed` and `MaxDecided` are these bounds; `FixedIsReadBack` and `DecidedTextStands`
  are proved of `Definitions` with none of them.
* `Publication` 3 writes by one caller; `Collaboration` 2 edits of 2 processes; `Automation` 2 actions, 3 records, 2 processes; `Pursuit` 3 steps; `Debugging` 1 theorem, 2 ids, 2
  edits, 5 steps, with the statuses *under review*, *dismissed* and *repaired*.
* `AgentTurns`: two callers, so that two `start()`s race, and two turns, so that one may start while
  another ends or is being prepared; one save; `Kept` = 1 so that the manager's tables drop a turn; one file and one text, since turns, stops and closing do not depend
  on what a file holds. Two tabs and any number of files are proved (`SavesAreSpared`).
* `Studio`: two builds, so that the second meets what the first left (`StaleBibliography` needs a third:
  one whose signature is saved, one that is stopped, one that settles); edits have no bound, and are
  undone; of two documents one cites nothing; `MaxPasses` 2 (5 in the code), so that a build may be
  capped. Builds that are edited and builds beside a run are two parts of `MCStudio`; the proofs cover
  both at once. `Page` 2 texts, 3 generations, 1 save, 2 writes;
  `Follow` 2 events and 2 builds; `Stream` 1 call in 2 pieces, 2 messages, batches of 3; `LiveInput`
  3 characters.
* `CHECK_DEADLOCK FALSE` stands where bounded work runs out or a closed studio does nothing more:
  every run but `History`.

### 3.2 Fairness

* `ReviewHistory`: a process that began an operation runs on, or fails, unless it dies. Nothing in
  the transaction waits for another process once it has the lock. Opening a project and making a
  decision owe nothing. `LockGivenUp` needs this; `ImplementsLog` is a safety property.
* `AgentTurns`: the threads of the studio that only compute or read run on: the request's thread
  once it registered a turn, the turn's own thread, the second half of a stop, of a close and of the
  revert. The agent's process owes nothing: it may write for ever and never exit. That is why
  `StoppedTurnEnds` says something: only the kill ends it. Requests, saves, undos and stops owe nothing.
* `Studio`: the thread of a build that was asked for goes on, and a program that was stopped is
  killed. A program ends or meets its time limit. `BuildsGiveTheLockBack` needs both.

## 4. What is proved

Every theorem is for all values of the constants and for behaviours of any length. The properties
the runs name were checked by TLC before they were proved, and so were the invariants.

* **The map is acyclic** (`MapAcyclic`). All edits have one form (`EditOverKeepsAcyclic`): they
  create nodes *C* over existing nodes *B* and give one node *p* edges to *C* and *B*, where no walk
  from *B* finds *p*. A nonempty set of nodes then has a member with no edge into the set. When the
  set meets what *B* rests on, or the new nodes, it has one there; otherwise the old graph gives one.
  The invariant needs a strengthening, `Rooted`: an id without a row has no edge and no edge leads to
  it. Without it a new node could close a cycle through edges left behind under its id.
* **One holder, leaves** (`OneHolder`, `ImportsAreLeaves`), with the type invariant (`TypeCorrect`).
* **Decisions** (`ProofMapProofs`): a Reject freezes a node (with "a rejected node is held by
  nobody", which takes the guards of claim, takeover and hand-down together); a counting Acceptance
  stops counting only by what `AcceptanceNotLostSilently` lists; pins are pins of edges the snapshot
  recorded; a holder's edges change by the holder, a takeover, or an agent
  editing what its own Split made.
* **Requests** (`RequestsProofs`): whatever is edited between a reading and the lock, a verification
  that counts is of what the researcher was shown (`CountsAsShown`), a passing Verdict leaves nothing
  raised before it open (`PassingAnswersAll`), a gated request freezes what passed (`GateStands`), and
  a check that reads as matching ran on what is stored (`MatchingChecksStand`). `RequestsInv` is the
  types, "a line says what its snapshot held" (`LinesAsShown`), "no objection older than a passing
  verdict is open" (`NoneOpenAfterPassing`) and `ChecksRan`. The gate itself is an action property
  that follows from the lock's own comparisons and the types.
* **The history** (`ReviewHistoryProofs`). `CommittedIsCounted`: while no append was cut short,
  every decision that committed is in the files. The inductive invariant, `WholeLines`, relates the
  program counters to the files: a process in `written` has its line in the file, and a file that
  ends in a fragment has an unreadable line. `DecisionsInOneOrder` holds torn writes or not:
  `HistoryInv` says that the move of older rows and decisions exclude each other, that an id yet to
  be decided, and a row yet to be moved, is in no file, and that numbers grow along each file.
  `FilesImplementTheLog` is the refinement: every step that adds a line to the readable ones adds it
  at the end (`Logged`: the places of the entries are their rank), so `DecisionLog` grows or stutters.
* **The store** (`StoreProofs`). Each part of `MCStore` has an inductive
  invariant; a step of the composition is a step of one part and leaves the others alone
  (`EachPartMoves`), so their conjunction, `StoreInv`, is inductive (`StoreHolds`). They have one
  shape: *whoever holds the lock knows what is there*.
  `FilesFollowTheRows`, the files: `FilesInv` says of the lock's holder which path it works on, that
  nobody's row names it yet, and, at each of its steps, what its undoing finds there (`Stage`) and
  what it has left alone (`Spared`); of everybody, that attempts have numbers nobody else has
  (`Numbers`), which is why a folder that stays after a failure is never taken for another's.
  The blocks: `BlocksInv` says that the files are what the transaction sees, and that each block on
  the stack, were its callbacks run now, would leave them as they were when it began (`Returns`); a
  block goes back to its own place because the callbacks of the blocks around it come before its
  own (`BackInTwo`).
  `RecordsAreKept`: an end is written by the lock's holder that found none recorded (`TurnInv`), and
  a side document's saves only grow. `OneGoesAfterAnother`: a transaction of the fog stands on the
  items and nodes there are (`Crystallizing`), a change of the list on the list as read under the lock.
  `ImportsStand`: sections read in the order of `export_exchange_bundle` name nothing that was not
  read before them, unless somebody wrote meanwhile (`ReadSoFar`), and then the plan's checks
  refuse. `ChallengesStayEnded`: the status of a Challenge is read from lines, and no line but a
  checkout's moves what an earlier one said.
  `MemoryIsKept`: whoever is about to save the memory holds the lock and loaded what is in the file
  (`MemoryInv`), so a save adds to it. What a reader takes in is a recursive function of the number
  of records scanned; no induction over it is needed, because a step that would disagree has a least
  record at which it does (`LeastNatural`), and there one unfolding is enough.
* **The records** (`RecordsProofs`): one inductive invariant for each of seven components of
  `MCRecords`, put together in `RecordsHold`. `FixedIsReadBack` and `DecidedTextStands`
  (definitions): what `fixed_by` recomputes on each read is what each decision relied on as it was made,
  and that text is not restated by any edit or import. The invariant (`WordedInv`) says that what a
  statement rests on and a snapshot cites is there, and that every row of the history is read to rely on
  what it did (`IndexTells`). The second holds because a decision is followed through the newest
  snapshots *before* it: a row added after it, and edges moved after it, leave that reading alone
  (`OldRowsStand`, `SameHistory`), and its own reading, when it is added, is that of the map's newest
  snapshots (`NewRowReads`). `TextsStand` is the composition's. `WhatIsShownStood`
  (publication): what an export shows outside readers stood at some moment of it, whatever was
  written meanwhile (`PubInv`). `OldRecordsAreKept` (collaboration): what a process has in hand, at
  each step between its reading and its strip of the file, covers the records that count
  (`CollabInv`). `WorkIsFollowed` (automation and Pursuit): a run, recorded or in hand, did the
  first actions of its plan (`AutomatedInv`); a turn is on its Pursue's record, or its host owns up
  to it, whenever the host dies (`PursueInv`). `PinsTell`: a pin reads current exactly while its
  target says what the pin was taken on, and stands as it did, in whichever of the four spellings
  (but for the oldest, which keeps no text), because each records what the target said when the
  dependent was last snapshot or accepted (`PinsInv`). `VaultsStand`: a digest that matches is of
  what was read: what a request has in hand, and what a version's row says, was read by its writer,
  and a folder without a row is its writer's alone (`VaultInv`). A request's version is its own
  because its number is chosen under the lock, past every row and every folder there is.
* **Seals and verifications** (`NodeStatesProofs`): `SealsStand`, `UnsealReleases`,
  `OnlyClicksRestore`, `VoidStaysVoid`, `SealFalseVoids`, for every map and any number of
  Challenges. The invariant `RecordsInv` is the types, "an imported result rests on nothing", "a node has one
  newest verification line" and "only a true seal covers". With one line, a node whose
  dependencies change has no verification of them, so a void one cannot come back by an edit; the
  last is why whatever is listed before an unseal was sealed by it. No proof unfolds the conclusion.
* **Agent turns** (`OneTurnAtATime`, `NoStopIsMissed`, `CloseStopsTurns`): the invariant
  `ManagerInv` says that the active turn is the only unfinished one and that turns not yet numbered
  have not begun (`Alone`), that the turn a request prepares is the active one and no other request
  prepares one (`Holding`), that a process exists only from `Popen` on (`Started`), and that a close
  kills only once it has closed (`Shutting`), together with the two properties themselves.
  `SavesAreSpared`, for any number of tabs: an unforced save never overwrites another tab's save;
  `SaveInv` says that one tab writes at a time and that no other save came between its check and its
  write, unless the file is gone.
* **Builds** (`StudioProofs`). `NothingRunsAfterClose`: what is past `_admit` is registered
  (`Registered`), and a close stops the build it took before it takes the runs (`Closing`).
  `SettledStandsUpToDate`: a build that settled unedited left a PDF of the document and of the feedback
  files as they stand, and of the bibliography too, unless a `.bbl` was left loose before it: texts are
  contents, so edits may be undone. The invariant, `Made`, says that the output folder's `.bbl` is of its
  saved signature unless `dir.loose` (`Stored`), and what a build has in hand at each of its steps
  (`InHand`): what was noted before the pass, the signature it loaded or took, whether its BibTeX read
  the `.bib` that was signed. The point is the step that leaves BibTeX out: the signature it trusts is the
  `.bbl`'s unless that was left loose, whatever earlier builds, stops, kills, failures and edits did.
  That the condition is needed is the run `StaleBibliography` (section 5).
* **The page** (`NothingIsLost`). A file's tab: a tab without the mark of unsaved edits shows
  what was loaded or saved last, and nothing typed is taken away before it was on disk but by the
  researcher's own undo or reload. `PageInv` says that each generation of a document
  is one text, in whichever of the tab, the undo list and the saves under way it is held
  (`OneTextEach`), and that what the tab takes for saved was on disk (`WasOnDisk`). A followed turn:
  no event is skipped or shown twice, whatever answers are late; `PanelInv` ties the place a request
  was asked from to the place the page has drawn up to. `StudioPartsHold` puts these beside the
  builds' invariant.

Assumptions on constants: ids are distinct from the placeholders beside them (`NamesAssumption`,
`IdsAssumption`, `RecordsAssumption`), builds and runs are different jobs (`JobsAssumption`), a turn on
a node is not the Reader's (`RecordsAssumption`), older rows are rows (`LegacyAssumption`), and the
like. Each is named in the module that declares the constants, and the
runs evaluate it.

Theorems of properties no run names any more, checked by TLC earlier and proved since: `OneHolder`,
`ImportsAreLeaves`, `PinsAreEdges`, `RejectFreezes`, `SealsStand`, `SealFalseVoids`,
`MatchingChecksStand`, `SavesAreSpared`.

### 4.1 What stays with TLC

* Liveness: `LockGivenUp`, `StoppedTurnEnds`, `BuildsGiveTheLockBack`.
* Modules with a `RECURSIVE` operator, which the prover cannot take, and what composes them:
  `NodeCheck` (`ChecksStand`), `ReadScope` (`ScopesRight`, and with it `MCReadings`: `MapReadRight`,
  `RulesRight`).
* What is computed by a fold over data, whose induction is out of reach: `BugsFollowed`, a history of
  scans replayed, and `DrawnWhole`, a stream cut into batches and a tool call decoded piece by piece.
  (Least and greatest numbers are not: that a set of numbers has one is `WFMin` of the library's
  order on finite sets, cited in `LeastNatural`.)
* The value of a conclusion, a recursive function whose induction is out of reach. The theorems about
  seals and verifications hold whatever it is.

## 5. Disagreements met

Four are runs that TLC violates; `PROJECT.json` quotes the lines.

1. `RequestsCycle`: `set_medium` (`proof_map.py` 1096) reads a node before its transaction and writes
   the whole of it back in it, dependencies included: an edge removed in between is there again, and
   may close a cycle. It may undo a restatement in the same way.
2. `DefinitionsRace`: an import planned before a definition is removed (`exchange.py` 1035) writes a
   node naming it; once the node is decided on, the name may be given another text.
3. `PageOverwrites`: `GET /api/file` (`latex-agent/server.py` 932) reads a file's text and then its
   time, so a save in between is taken for loaded and overwritten without the conflict banner.
4. `StaleBibliography`: BibTeX is left out when the signature of its input is the saved one
   (`latex-agent/build.py` 789), and signatures are saved only at a build's end. A build stopped after its
   BibTeX leaves the `.bbl` of a `.bib` nobody saved; when the `.bib` is put back, the saved signature
   matches and the next build settles on the stopped one's bibliography, against "when their input
   changed" (13).

Others were seen while modelling and have no run.

The map and its decisions:

* A dependency removed and put back after a snapshot has no pin any more; the approval then passes
  its check, made on the snapshot's record, and never counts (`proof_map.py` 1840).
* Whether an Acceptance counts is computed from the edges: under a Challenge a dependency may be
  removed and put back, and the Acceptance that stopped counting counts again with no decision (3248).
* `open_challenge` checks before the lock (3757). A gated snapshot may record dependencies the verdict
  did not cover (2124). A verdict recorded after a restatement, of the text read before it, is not
  stale: `Requests.PassedOnTheTextRead` does not hold.
* A challenged unreviewed import reads Provisional (4351, 4365).
* `stopped_by` (`node_states.py` 256) leaves in the table of its scope a reading cut at the Challenge
  being decided: asked for again in that scope, the node's conclusion reads lower than a fresh reading.
  The module's docstring (`node_states.py` 6) says "two readings of one node's conclusion cannot
  disagree". `ReadScope.OneReading` states that claim and no run checks it: it does not hold of such a
  scope. `ScopesRight` checks what does: no remembered reading is too high, and the first of a scope is
  right. A read scope's `SELECT`s each read what is committed when they run.
* A Challenge without a kind classified as *proof* after a restatement reads superseded at once; an
  agent's passing verdict may fix the researcher's proof Challenge.
* Past `MAX_INPUT_FILES` (50) the mechanical checks are silent; a verdict on an unreadable or linked
  folder is recorded unchecked, with no digest, and opens no gate (`node_check.py`).
* `edit_reference` notes no match of a rule (ADR-0014, point 2); two processes may note one twice.
* The work log takes it that the host records a turn's end before it starts another on that node.

The history and the store:

* A decision whose process dies, or whose commit fails, after the append counts although everything
  else of it was rolled back (`authority.py` 309). After a torn append the next line is glued to the
  fragment and ignored (`reviews.py` 211).
* `set_medium`'s rollback may remove a `proof.tex` that `create_node` wrote outside the lock. The
  switch's stale list of nodes leaves later claims; a crash between its files and its commit leaves
  the preamble completed. A switch that fails puts the preamble back after its rollback gave the lock up
  (`five_states_switch.py` 102–105), so that another process's switch in between is left without the Uses
  environments it had found there: `ProjectFiles` has these steps (`RestorePreamble`), and states nothing
  of the preamble. Orphans a crash left may be overwritten by an import.
* The vault's frozen set is read file by file without a lock, so it may be one the folder never held;
  the archived PDF may be of newer text than was frozen; a file deleted after the build leaves the
  build current.
* The export reads without a transaction: a bundle may carry a snapshot folder without its row. A
  Challenge's counterexample is not looked for on import, nor a cycle among the new nodes.
* An unreadable list of projects reads as empty, and the next write replaces it. Two commands at once
  may lose a marker of the project state; a run that read a fragment before it was marked stale
  writes it back queued; an edited fragment keeps its record's id, so its notes are not taken again.

The records:

* Publication: two writers may make a move that is not allowed (`publication.py` 589, 626,
  `CONTEXT.md` 254); the inner of two nested snapshots is lost from the workspace (1331–1353); a view
  that shows nothing falls back to the default selection.
* Collaboration: records written into the file between its read and its strip are dropped.
* Automation: a run's read, compute and append have no lock, so a rejection may be hidden;
  `approvals={id: False}` counts as an approval; `interrupt()` looks at no status.
* Pursuit: a host that dies before it says a turn is unrecorded leaves its spend read as complete.
* Debugging: a bug's id is Python's randomized hash modulo 100,000, so a review does not reach the
  next process's scan, and two bugs may share one id, the later report's evidence going with both;
  obligations and blockers overwrite each other likewise. A repair marker wins over a later review;
  tasks are generated off the latest scan however old; re-deriving reopens an obligation; two missing
  assumptions that differ only in punctuation are one (`reasoning.py` 20).

The studio:

* A BibTeX that reads the `.bib` after it was saved again leaves a `.bbl` under the signature of the text
  before (`latex-agent/build.py` 786): put back, it is taken for up to date. One that fails keeps the
  signature it had, and may leave another `.bbl`. These are `dir.loose`.
* After a turn limited to some files, on a backend that does not enforce the limit, a file the
  researcher saved meanwhile is put back as it was (`latex-agent/agent.py` 198). `save_file` asks
  whether an edit turn runs before it takes its lock. An exception in the host's context (149) leaves
  the manager busy; one raised by an event it cannot handle (`latex-agent/backends.py` 302) leaves
  the process running, out of reach of stop and close (`HandleRaises`).
* The page: an undo while a save is in flight may leave a tab that reads clean with a timer running
  (`static/app.js` 183); two `compile()` calls may both pass the check (462); `save_file`'s time and
  its check-then-write are not atomic against programs.
* A build event added after a turn was found done is never shown. An unstreamed text after a streamed
  message would not be drawn. Half a surrogate pair near the end of a string is waited for in vain.

## 6. What is not modelled, and the plan

Left out of what is modelled: in `Studio`, biber and makeindex (whose signatures are kept as BibTeX's
are), custom builders, a build whose document breaks (at most 3 passes, or the first one when it is
strict), and an output folder that is the project's root, where a `.bbl` nothing cites stays. In
`Definitions`, decisions made before their dependencies were recorded, which fall back to pins and today's
edges, and a wall clock set back between two rows. In `ProjectFiles` a side document is loaded and saved
whole, and what its commands change is `Memory` and `Collaboration`. `Publication` has one caller: a
workspace saved over a newer one by another process is among the disagreements above. A Pursue is followed
by one host, while an automation's run has two.

Not modelled at all: text (LaTeX parsing, rendering, diffs), HTTP and argument parsing, completion
and layout of the page, Codex's events, governance packs, search and retrieval over the memory,
release notes and figures. `proof-web` and `proof-agents` are other repositories.

What is left to prove: `RulesRight`, whose component is only composed with a recursive walk; the
walks of `MapReadings`; and that `Requests` implements the atomic operations of `ProofMap`, where it
does.
