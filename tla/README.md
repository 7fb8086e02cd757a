# Verification of the task management service and its agent

The repository is a FastAPI service for projects, tasks and study plans, with
PostgreSQL behind SQLAlchemy sessions and an agent that plans in a LangGraph
graph, asks a person for approval and writes tasks. This directory holds TLA+
models of its parts, the TLC runs that check them on small instances, and
theorems that TLAPS proves for every value of the constants.

Run a model with `tlc -config <cfg> <MC module>`, check the proofs of a module
with `tlapm <module>.tla`. `PROJECT.json` lists components, runs, mutants, the
lines each definition models, findings, hazards and theorems.

## 1. Inventory

| Part | State | Operations | What is hard |
|---|---|---|---|
| Agent graph (`agent/graph.py`, `agent/nodes`, `agent/state.py`) | one graph state: proposal, validation, approval, records, verification, revision count, terminal status | eight nodes and the edges between them | revision limit, bindings between plan, validation and approval; what the output says about what was written |
| Approval and recovery (`services/agent_workflow.py`, `repositories/agent_recovery.py`) | product rows (run, approvals) and the checkpoint, two stores without a common transaction | start, submit, preview; inspect, resume and continue the graph | a process that stops between any two commits; retries, stale and conflicting submissions; the advisory lock |
| Tool execution coordinator (`services/agent_tool_executions.py`) | one row per (revision, fingerprint, action) | claim, restart, dispatch, complete, fail: separate transactions | lost acknowledgements, unknown outcomes, racing executors |
| Refresh credentials (`services/refresh_tokens.py`, `authentication.py`, `password_change.py`) | credential rows, the user's password hash, the user row lock | login, refresh, logout, change password | concurrent exchange of one credential, verification before a password change and commit after it, a clock that is set back |
| Projects and tasks (`services/projects.py`, `services/tasks.py`) | one row each | create, PATCH, complete, delete, archive, list | read, decide and write without a lock or a version; pages read while rows change |
| Knowledge (`services/knowledge_*`, `agent/retrieval.py`) | documents, chunks with embeddings | parse, chunk, index, search | page and chunk boundaries, concurrent replacement of an index, fusion of two rankings |
| Event stream (`services/agent_events.py`) | none of its own; a projection of the rows | read, resume by `Last-Event-ID` | three statements without a snapshot; ids are positions |
| Prompt budget and plan generation (`agent/prompt_budget.py`, `agent/nodes/planning.py`) | five sections of a prompt and what is unused; attempts, usage, spans | allocate, build again, assemble; call the provider, retry | leftover characters that count twice; cuts inside graphemes and escapes; accounts of a failed attempt |
| Bounded loop (`agent/loop.py`, `agent/events.py`) | rounds, call ids, feedback, collected transitions | request, accept an answer, dispatch calls, stream events | limits, partial failure of a batch, a consumer that leaves |
| Registration, settings, evaluation, HTTP layer | see section 8 | | |

Interaction. An HTTP handler opens a session, calls a service, and the service
owns the transaction. The agent workflow service holds three connections while
it runs: the session, the advisory lock, and the coordinator's own sessions.
The graph calls the coordinator for each action of an approved plan; the
coordinator calls the domain services of projects and tasks. The event stream
and the snapshots only read rows.

What makes each part correct:

* a write of the agent was approved by a person in exactly that form, and
  happens at most once whatever is retried or stopped;
* the product's account of a run (status, events, summary) agrees with the
  checkpoint and with what was written;
* a decided run is settled eventually, as long as someone retries;
* no credential outlives a password change, a credential is exchanged once;
* rows satisfy the constraints that the services check in Python although
  nobody holds a lock between check and write;
* an index is complete and of one generation, covers its document, and cites
  the page a text came from;
* every loop ends within its limits, and says how it ended;
* legal input fits the prompt, and what had to be left out is reported.

## 2. Modules

| Module | Models | Used by |
|---|---|---|
| `AgentGraph` | the graph state, each node as a function on it, the edges, `_inspect_snapshot` | `ToolExecution` |
| `ToolExecution` | the coordinator: its transactions as steps of a worker | `ConcurrentExecutors`, `ApprovalRecovery` |
| `ConcurrentExecutors` | workers that race on an identity without the run lock | `MCConcurrentExecutors` |
| `AgentRunContract` | abstract: what the product promises about one run | `ApprovalRecovery` |
| `ApprovalRecovery` | the two-store protocol, composed with graph and coordinator; refines `AgentRunContract` | `MCApprovalRecovery` |
| `RefreshTokens` | the credentials of one user | `MCRefreshTokens` |
| `ProjectsAndTasks` | overlapping requests on projects and tasks | `MCProjectsAndTasks` |
| `TaskQuery` | filters, order and pages of the task list, while rows change | `MCTaskQuery` |
| `Chunking` | pages of a document to chunks | `KnowledgeIndex` |
| `KnowledgeIndex` | concurrent `index_knowledge_document` of the document that `Chunking` has cut | `KnowledgeSearch` |
| `KnowledgeSearch` | `search_owned_knowledge` and `reciprocal_rank_fuse`, composed with the indexers | `MCKnowledgeSearch` |
| `RunEvents` | the event projection and its readers | `MCRunEvents` |
| `AgentLoop` | `AgentLoopMachine` as `stream_agent` drives it | `ModelRequests` |
| `PromptBudget` | `build_budgeted_agent_plan_input` | `PlanGeneration` |
| `PlanGeneration` | `generate_plan`: the prompt, the attempts, usage and spans | `ModelRequests` |
| `ModelRequests` | a request that enters by the loop or by the planning node | `MCModelRequests` |
| `ApprovalRecoveryProofs` | lemmas about the nodes of `AgentGraph` and the coordinator; the safety of the two-store protocol; how the two stores are related, and the refinement of `AgentRunContract` | |
| `ConcurrentExecutorsProofs`, `RefreshTokensProofs`, `ProjectsAndTasksProofs`, `TaskQueryProofs`, `RunEventsProofs` | theorems of the module in their name | |
| `ModelRequestsProofs` | induction and recursion over numbers; theorems of `AgentLoop`, `PlanGeneration` and `PromptBudget` | |
| `KnowledgeSearchProofs` | theorems of `Chunking`, `KnowledgeIndex` and `KnowledgeSearch` together | |

Names are those of the code where TLA+ allows it. A definition whose comment
begins with "Mutant:" is a plausible wrong version of the definition after it;
`PROJECT.json` says which property notices it. No specification uses one.

### How state and actions correspond to the code

*Agent graph.* `AgentGraphState` has the fields of the Pydantic state that
control reads; a proposal is a model value with a plan (a sequence of actions)
and a fingerprint, so two proposals may be told apart only by fingerprint, as in
the code. A node is an operator from state to state that takes the answer of the
model, the reviewer or the tools as a parameter. `Complete` applies the update
and follows the edge.

*Two stores.* A superstep of LangGraph, the node and its checkpoint under
`durability="sync"`, is one atomic step: a stop during a node leaves the
checkpoint before it. The node `execute_tasks` is the exception that matters,
because it commits elsewhere: it is many steps, and its records are lost by a
stop. `Stop` is process death and any exception that leaves a handler after
something was committed; it drops the handler's locals and closes its lock
connection. The rows that a start inserts are invisible until it commits. The
check of the tool name against the stored row is not modelled: the fingerprint
in the row's identity determines the action and hence the tool.

*Coordinator.* A worker is a call of `AgentToolExecutionCoordinator`. A
transaction may commit, fail, or commit without acknowledgement; a dispatch may
write and return, write and raise, or provably not write. `ApprovalRecovery`
runs workers under the run lock; `ConcurrentExecutors` runs them without it,
which is what remains if the database drops the lock connection of a handler
that is still alive.

*Credentials.* A request takes the user lock, prepares writes and commits; the
lock is held in between. The clock moves both ways. A refresh or logout with a
credential that does not exist takes the lock in the model and not in the code,
which no other request can tell. Access tokens are stateless and left out.

*Projects and tasks.* A request reads the row, decides from what it read, and
flushes only the columns that differ from what it loaded, as SQLAlchemy does.
Flush and commit are one step: between them the row is locked and readers see
the old version. An UPDATE of a row that vanished raises and rolls back. Columns
on which no decision depends are left out; the two pairs of dates, under the
same rule in both tables, are `from` and `to`.

*Task list.* A page is two statements under one `now`; `Orderings` leaves to the
database whatever the ORDER BY leaves open; comparisons with NULL are not true.
The list is sorted by `due_at` or by `updated_at`. The one may be NULL and moves
when a PATCH sets it, as `planned_date` does; the other moves with every PATCH
and completion, and `title` and `created_at`, which move less, are its special
cases. A write is its commit, with the time its request took before: what the
request validated against the row that it read, the statuses of a transition for
instance, does not restrict what the commit finds, so it is no guard here
(`ProjectsAndTasks` has it). PATCHes that write nothing are stuttering steps.

*Documents.* A page is its length and the lengths of the pieces that a form feed
inside it would make; the text itself does not matter. Parsing and chunking of
a document come first, then requests index the chunks that came out; every
document is cut, and those of `IndexedTexts` are also indexed and searched. `KnowledgeIndex` has
PostgreSQL's READ COMMITTED behaviour for the statements used: a DELETE works on
its snapshot and waits for row locks, an INSERT waits for an uncommitted
duplicate of its key and fails on a committed one. These two rules are external
definitions. A second indexer may end with an integrity error (a 500); the index
stays whole. A chunk is its ordinal and the request that made it, so the text of
one passage has a chunk per index; a ranking is any order of the committed chunks
(by distance) or of some of them (by text), cut at the candidate limit.

*Events.* The writers are what the rows show of `ApprovalRecovery` and
`ToolExecution`. The clock does not go back here, and an approval is as old as
the transaction that inserted it, not as its commit.

*Loop.* A call is its id, a result its length. `transitions` is the list that
`stream_agent` collects during one answer; `events` is what the consumer got.

*Prompt.* A text is a length, the number of characters of a grapheme and the
number each takes once escaped. A section is a frame, then the identities of
its items up to the first that does not fit, then their texts in turn, each
whole, cut by the binary search of `_fit_text`, or dropped. `Allocate` builds the
five sections; four `Reclaim` steps build one again with what is left, in the
order of the code; `Assemble` is the final check. Numbers are the code's.
`Framing` is the length of everything else at its longest manifest, a few
characters more than most. The two outcomes after which nothing is called,
`refused` and an exhausted retry, are told apart although both are answered as an
unavailable planner.

*Attempts.* A call of the provider has one of five outcomes, the classes that the
except clauses distinguish. An event of a span may be lost: the sink or the
clock raises, or the schema refuses a value. `calls` is history. The loop and the
planning node share nothing but the provider, so `ModelRequests` is their sum: a
request starts in one of them and the other stays idle.

## 3. Runs

| Run | Shows | Bounds |
|---|---|---|
| `concurrent_executors` | a first claim leads to one write, success is durable, a completed row is final | three workers, two attempts |
| `approval_recovery` | at most one write per action, only approved ones; a pending run can be reviewed; product and checkpoint agree; acknowledged decisions take effect and are final; refinement of `AgentRunContract` | two requests, two plans, one revision, two stops |
| `approval_liveness` | every request returns; a decided run settles unless it is stranded | two requests, one plan, one stop, fairness of section 5 |
| `approval_stranded` | violation, finding 1 | as before |
| `refresh_tokens` | the five credential invariants and the finality of revocation | three credentials, two requests, two passwords, a clock of three values, one change |
| `projects_and_tasks` | the CHECKs refuse a validated request only after a race, no request restores a column or a row that another has changed or deleted, a completion is undone only by one who saw it | one task or one project, two overlapping requests, two days; a batch of tasks is one transaction and is explored with one task |
| `task_query` | quiet pages divide the list; of a changing one only tasks are skipped that left it or that something ahead of them left or changed places with | three tasks, by `due_at` and `updated_at` in both directions, four filters, pages of one and two, one write of any kind, one tick |
| `knowledge_search` | pages are named correctly, text is covered, neighbours overlap by the constant and each adds text; a committed index is whole, indexers return, a passage is cited once per index, fusion never contradicts both rankings | up to three pages, chunks of four with overlap one, lengths on both sides of each chunk end; three indexers, three chunks, rankings of two, results cut at one, two and not at all, rank constant 60 |
| `run_events` | a stream with a terminal event is the final account, and that event is last | one execution, one revision, three instants |
| `run_events_resume` | violation, finding 2 | as before |
| `model_requests` | loop: limits count what ran, one terminal event, a success has told everything; prompt: sections exceed their total by at most one section's gap, omissions are forced and reported; attempts, usage and spans agree; every request ends | loop: three rounds, two calls per answer, three in total; prompt: the real limits, 243 combinations of inputs that leave each section empty, full, cut and over; two attempts |
| `prompt_overrun` | violation, finding 3 | as before |

Why these bounds are enough to be interesting: each lets its protocol meet every
branch (the passing runs fire every disjunct of every next-state relation), and
each limit of the code appears with inputs at, below and above it. Two requests
suffice for the races because each decides from one read; three executors and
three indexers because there a loser can itself lose. Two stops let a recovery
be stopped. Requests are symmetric, and symmetry is used in safety runs only.

`CHECK_DEADLOCK FALSE` stands where a system may stop: `ProjectsAndTasks` (no
request needs to arrive) and `TaskQuery` (a walk ends).

## 4. Findings

1. `agent/graph.py:389`: a stop right after the checkpoint that sets
   `terminal_status` leaves a decided run that is RUNNING for ever; every retry
   is answered 503. `DecidedRunSettlesOrStrands` shows it is the only such case
   of the instance.
2. `services/agent_events.py:191`: event ids are positions in a list projected
   anew; a client that resumes can miss the terminal event.

3. `agent/prompt_budget.py:441`: a section is built again with its budget plus
   all that is unused, which contains what the section itself left over. Twenty
   tasks with titles of 190 characters, eight of them with long descriptions,
   and a short goal leave 536 characters of the tasks' budget at first; they are
   spent twice, the input exceeds the limit of 19,100 and is refused, so this
   owner gets no plan. `OverspendIsOneGap` bounds the excess: it is never more
   than what one section left over, which is why a margin as large as an
   identity would hide it.

`PROJECT.json` quotes the sentence of the documentation each one contradicts.

Four further observations have no run of their own; the first is a disagreement
with the documentation as well.

* *A PATCH can take a project out of the archive*, while `docs/roadmap.md:2570`
  says "No route can restore archived state." In `ProjectsAndTasks`:
  `UpdateProject(r1, p)` reads a NOT_STARTED project and validates status
  IN_PROGRESS (`services/projects.py:131` is passed); `ArchiveProject(r2, p)` and
  `Flush(r2)` store ARCHIVED; `Flush(r1)` stores IN_PROGRESS, since the UPDATE
  has no condition on the status and no CHECK relates it to anything. No
  property of the project claims otherwise. `NothingIsRestored` is what holds:
  a PATCH that names no status does not bring the old one back.
* A transition is validated against the status that was read (the guard of
  `UpdateTask`): of the stored row, two overlapping PATCHes can go from CANCELLED
  to IN_PROGRESS, which `docs/roadmap.md:2722` does not list; completion alone is
  protected, by the CHECK that ties it to `completed_at`.
* A walk through the task list can skip a task that nobody touched: with pages of
  one by `updated_at` ascending, a client reads A, A is completed and moves behind
  B and C, and the second page is C. `OnlyDisplacedTasksAreSkipped` says that
  such a change of places, or a departure ahead of the task, is the only reason.
* `SuccessTellsAll` is about successful runs because `stream_agent` drops the tool
  events of the answer that fails a run, those of calls that have written included
  (`agent/events.py:176`).

## 5. Fairness

* `ModelRequests`: weak fairness of the one process;
  provider and tool calls have timeouts, so each returns or raises.
* `KnowledgeSearch`: weak fairness of each indexer's next statement; none of the
  search.
* `ApprovalRecovery` (`FairSpec`): weak fairness of every step of a handler that
  runs; strong fairness of `AcquireLock`, because PostgreSQL queues waiters for
  a lock; strong fairness of `Retry`, the assumption that a client repeats its
  recorded decision while the run is RUNNING. Nothing in the service retries by
  itself, so without a client no run settles, and the property says so.

Starts, new submissions, previews, stops, clocks and consumers are never fair.

## 6. Proofs

All theorems hold for any sets of requests, plans, credentials and so on, under
the named ASSUMEs, each evaluated by TLC in a run: limits and clocks are natural
numbers; markers such as `None` and `Keep` are not values; plans have at most
`MAX_PLAN_ACTIONS` actions with distinct keys; fingerprints of different
proposals differ (`DigestAssumption`: no SHA-256 collision); identities of tasks
and projects are disjoint; the planner makes at least one attempt and token
counts are natural numbers (`PlanningAssumption`); the frame of a prompt section
fits its budget, with a truncation marker where the code requires one
(`FrameAssumption`, true of the constants in `agent/prompt_budget.py`), texts
are lengths with graphemes of at least one character (`InputsAssumption`), a
page without form feeds is its one piece (`PartsAssumption`), and the overlap of
chunks is smaller than a chunk (`ChunkLimitsAssumption`: 200 and 2,000 in
`knowledge_document_indexing.py`). Identities by which the code breaks ties are
integers, finitely many where a whole table is sorted (`ToolsAssumption`,
`DomainsAssumption`), and different chunks have different ones
(`IdAssumption`, they are UUIDs); a page of the task list has at least one row,
as its schema demands; tasks and queries have the types of their columns and
fields (`ShapesAssumption`, `AskedAssumption`).

*ApprovalRecovery.* `AtMostOnce`, `WritesAreApproved` and
`TerminalMatchesCheckpoint` are not inductive: each depends on what a handler
read still being true when it acts. `IInv` adds
- `LockInv`: a request past the lock holds it;
- `StartInv`: before the start commits only its request knows the run;
- `RequestInv`: locals fit the place, so a request about to resume faces the
  interrupt of its own revision;
- `CheckpointInv`: an approval in the checkpoint is backed by an approval row;
- `CallInv`: an active coordinator call is the current action of an approved
  plan;
- `ClaimInv`: a row that permits a dispatch has no committed write.

`Exclusive` derives from the first two that at most one request is at work, so
`ToolStepPreserves`, proved for a coordinator whose caller is alone, applies.
There is one lemma per action; `Invariance` combines them, and `TypeCorrect`,
`AtMostOnceHolds`, `WritesAreApprovedHolds`, `TerminalMatchesCheckpointHolds` and
`DecisionsAreFinalHolds` follow.

*The contract of a run.* `StoresInv`, inductive relative to `IInv`, relates the
two stores: earlier revisions were sent back and later ones do not exist
(`RowsInv`), what the checkpoint says of its own next node (`GraphInv`), a
decision the checkpoint has taken over is the stored one (`ConcludedInv`), a
request past its decision holds the stored submission (`SubmissionInv`), and a
completed row, a returning call and a record of success each stand for a
committed write (`DurableInv`, `RecordsInv`). `PendingIsReviewable` and
`AcknowledgedTakeEffect` follow. `ImplementsContract` is the step simulation: a
commit of `_persist_progress` that shows a new plan is `Propose`, a recorded
decision is `Decide`, a dispatch that writes is `Write`, a commit of a terminal
status is `Finish` (`DurableInv` and `RecordsInv` make its status truthful), and
every other step of a handler, of a node or of the coordinator is a stutter.

*ConcurrentExecutors.* Without the run lock nothing is exclusive. `ExecutorInv`
says what the place of a worker tells about the row however late it is
(`WorkerFits`), how many writes a row stands for (`RowFits`) and that on the
first attempt one worker at most may be about to write (`OneDispatch`).
`BecomesKeeps` gives the conditions on one step, and each transaction meets them
because of the constraint that the code relies on there.

*ProjectsAndTasks.* Requests read without a lock, so the invariant cannot say
that what they hold is current. It says what stays true however the row changes:
their changes have the column's types, they fit the CHECKs on the row that was
read, and a request that clears `completed_at` read the task as completed
(`RequestInv`). That they fit (`TaskChangesChecked`, `ProjectChangesChecked`) rests
on the CHECKs holding of the row that was read, which is why `RowsAreConsistent`
is part of the invariant, and on the rules of the services, and it gives
`ValidatedRequestsFit`. `FlushColumn` says which columns a flush can change, and
gives `StaleReadsAreNotRestored` and, with the CHECKs on both sides of the flush,
`CompletionSurvivesStaleRequests`.

*RefreshTokens.* The invariant says that a request past the user lock holds it
(`HoldsLock`) and that the writes it has prepared still fit the committed rows
(`Fits`: they revoke rows that are unrevoked, add at most one row, which starts
a chain or replaces a row they revoke, and cover every unrevoked row when they
change the password). `ChainInv` closes chains of rotation. All properties of
the run are theorems.

*Model requests.* The recursive functions of these models are proved about by
induction over sets of numbers: `NatSetInduction` follows from the
well-foundedness of `<`, `PrimitiveRecursion` from it that a function defined by
its value at 0 and a step exists, and `SameValues` that two solutions of the same
recursion agree. So `f[i] == ... f[i - 1] ...` has the value its definition
suggests, which the prover does not assume by itself.
- Loop: `LoopInv` has `CallsInv` (dispatched calls and those left of a response
  are distinct calls that were seen, and fit the limit) and `ToldInv` (what was
  streamed and what is collected for streaming are the progress of the accepted
  calls). `FlattenAppend` lets one event be added to a flattened sequence.
- Planning node: `PlanInv` says where the node is among its attempts
  (`AttemptsInv`), that the kept usages add up to what all calls reported
  (`UsageInv`) and that an attempt under way has only a start in the trace
  (`TraceInv`).
- Prompt: `SearchIsDefined` shows that the binary search of `_fit_text` ends
  (its interval shrinks) and `SearchFits` that the prefix it finds fits;
  `FitTextsFit`, `ProjectionFits`, `GoalFits` and `FeedbackFits` that a section
  keeps to its budget or has no items. `PromptInv` then carries the budget
  argument: a section that waits has its first size; built again it takes no more
  than that, or at most its budget and all that is unused, so what is lacking
  after it is at most the gap the section itself had left. This is the bound on
  finding 3 for all inputs and budgets.
- Omissions: that a cut is forced needs more than that the prefix fits.
  `LastInv` says of the search that what it found is the prefix just before the
  first it has not tried, and `SearchInv` that the first beyond its interval does
  not fit; when the interval is empty the two meet (`SearchIsLongest`), and one
  character more is at most one grapheme more (`OneMoreGrapheme`). A section
  only grows with the texts that follow, so a text that had no room when it was
  cut has none at the end (`FitTextsAreForced`, `ConstraintStepHolds`), and
  `RetainedFits` gives the same of the first identity that is left out.
  `ForcedInv` carries this through the rebuilding, for `OmissionsAreForced`. A
  section may exceed its budget in one case, which the property names: earlier
  sections have spent so much that what is left is less than its frame alone.
  No input of the run gets there, but nothing short of a bound on the length of
  a grapheme rules it out.

*Documents and their index.* Two invariants, both checked by TLC on the instance
of `MCKnowledgeSearch` as well.
- `TextInv` follows the text from the upload to the chunks. `PiecesInv`: every
  page gives at least one piece, so a stored text with as many pieces as pages is
  split into those pages, whatever form feeds they contain. `PlaceInv`: inside a
  page the last chunk ends an overlap after the offset, so the next one is not
  empty and adds text. `CoverInv`: all text before the offset is in chunks.
- `IndexInv` is about the transactions that index. Nothing locks the document;
  the chunk with ordinal 0 decides. A transaction that has inserted anything has
  inserted that one first (`FirstIsInserted`), so it is the only one that has
  inserted, and the unique constraint let it in because all that is committed is
  in what it deleted (`AloneInv`). A snapshot of a DELETE may be stale when the
  DELETE ends; it then shares no chunk with what is committed, or is the same
  generation (`SameGeneration`). So a commit puts one whole generation in the
  place of another. The argument rests on the constraint on (document, ordinal),
  without which `IndexIsWhole` fails (mutant `InsertUnconstrained`), and on the
  order of the INSERTs, without which requests may also wait for each other in a
  circle (mutant `InsertAnyOrder`).
- `SearchInv` is about a search between the statements of the indexers: each
  ranking holds different chunks of one request (`IndexInv` gives that, at the
  time of its SELECT), and what is cited is the fusion of the two. A passage can
  then be cited twice only by a chunk of each ranking
  (`PassagesAreCitedOncePerIndex`). `CountInv` bounds the chunks, so rankings are
  finite. For `FusionFollowsRankings` the sort key has to be a strict total order
  (`EntriesAreOrdered`: exact fractions, then the identity), a finite set with
  such an order has a sorted sequence (`SortedEntries`), and a chunk that
  dominates another has the higher score (`DominantIsBefore`), whatever the rank
  constant.

*Events.* The three statements of a read are not one snapshot. `StreamsInv` says
why that does no harm at the end of a run: its row is the last that is written
and has the latest time of all rows (`TimesInv`), and the run is read first, so a
request that saw it finished reads approvals and executions that no longer change
(`ReaderInv`). The order of the drafts is a strict total order of a finite set,
so the projection is a function of the rows; the terminal draft has the latest
time and the highest order and is therefore last. `StreamInv` is
`TerminalStreamIsFinal` without its first conjunct, which this gives. Reading the
run last instead breaks it (mutant `ReadRunLast`).

*Task list.* Offsets count rows, and rows move while pages are read. The place of
a task is the number of tasks ahead of it in the list. The history variable
`kept` holds the tasks that are still in the list and have lost nothing that was
ahead of them in any step; a commit, a tick and the statements of a page all
update it. `KeptInv`: a kept task that was not read has a place at or after the
rows that the pages have reached. The place of a kept task never decreases,
since what was ahead of it stays ahead of it (`KeptPlaces`), whatever is created,
patched, completed or deleted; between the two statements of a page only tasks
that match at the time of the request count, since its `now` is fixed. When the
page and its total end the walk, no place is left (`PagesReachTotal`), hence
`OnlyDisplacedAreSkipped`. `QuietInv`: while nothing changes the pages so far are
the first tasks in the order, each at its place, hence `QuietWalksAreExact`. TLC
checked both on 1.6 million states before they were proved.

## 7. Only model-checked

Liveness (`RequestsReturn`, `DecidedRunSettlesOrStrands`,
`IndexersReturn`, `RequestsEnd`) and ENABLED are out of the prover's reach. Every
other property of a passing run is also a theorem of section 6. The three runs
that end in a violation are counterexamples, and need no proof.

`KnowledgeSearch` uses exact fractions, in the runs and in the proofs; two
different pairs of ranks with the same exact score could be told apart by
rounding in the code.

## 8. Not modelled

* `services/agent_runs.py`: no endpoint uses it.
* Providers and embeddings: external services; how an answer or error is
  classified is an outcome in `PlanGeneration`, the requests are not modelled.
* `AgentWorkflow.invoke`, the in-process run of the graph with its recursion
  limit: only the offline evaluation calls it. The durable runs use the same
  limit of 16 steps, counted anew by every start and resume, and no path
  between two interrupts comes near it, so the models leave it out.
* `agent/planning.py`: `generate_study_plan` makes the attempts of
  `PlanGeneration` with another prompt and no spans.
* The argument schemas of the tools: a call is valid or not.
* Node and tool spans, latencies: the span of an attempt stands for them.
* Offline evaluation: scoring of recorded cases, no state of the running system.
* Registration: one INSERT that the unique constraint decides. Profile, single
  projects and pages of projects: reads.
* HTTP layer, settings, migrations: which inputs reach a handler is part of each
  model; layout, status codes and configuration are not.
* Connection pool limits, and the connections a submission needs at once: a
  pool that is exhausted fails a checkout, which the models have as a failed
  transaction; how long requests wait for it is not modelled.

## 9. Plan

Done, in order: graph, coordinator, approval and recovery with its contract,
credentials, projects and tasks, documents, index and search, events, loop, task
list, prompt budget, plan generation; the theorems of section 6, of which those
about events, the search, the task list and the omissions of the prompt came
last.

What could follow: the connections that submissions hold while they wait for
the run lock, with the pool as a resource (the one hazard without a property);
under a bound on the length of a grapheme, that no section exceeds its budget;
the clients of a provider, whose classification of answers `PlanGeneration`
takes as given.
