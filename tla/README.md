# A TLA+ model of localLM

localLM is a desktop program: a React interface in a Tauri shell, a Rust backend
(`src/src-tauri/src`) that runs one local `llama-server` or calls a provider, and
tools the model may call (files, processes, web, connectors, sub-agents). The
backend's own logic is the coordination around the model: which turn may run,
what a Stop or a Pause reaches, what is written before a tool runs, what a
restart finds, how files change together or not at all, and how the processes,
downloads, sub-agents and servers around a turn are kept in hand. That is what this
directory models, model-checks with TLC and, for the parts that matter most,
proves with TLAPS.

Contents: 1. the system; 2. the modules and how they follow the code;
3. the runs; 4. the proofs; 5. where the code differs from what it says;
6. what is not modelled; 7. the plan.

To check a module: `tlc -config X.cfg M`; to check a proof module: `tlapm M_proofs.tla`.

## 1. The system

### 1.1 Components

Paths are relative to `src/src-tauri/src` unless they start with `src/`.

| component | state | operations | what makes it correct |
|---|---|---|---|
| turn locks, `lib.rs` (`TurnLocks`, `TurnGuard`, `OperationGate`) | a map from a conversation to an `Arc<Mutex>`; a read-write lock for exclusive operations | `acquire`, drop of the guard; `try_shared`, `try_lock`, `lock` | one turn per conversation, none refused without cause, no exclusive operation beside a turn |
| run control, `agent_run.rs` | active generation, cancelled generation, pause and who paused, the run record and its state | `begin_run`, `request_cancel`, `apply_pause`, `apply_model_pause`, `resume_run`, `release_model_pause`, `transition_to`, `settled_state` | a control reaches the turn it was meant for; every transition asked for is legal |
| chat turn, `chat.rs`, `continuation.rs`, `approval.rs` | the loop's locals (round, calls, budget, blocked calls), pending approvals, the watch channel | `send_message_inner`, `TurnRounds::run`, `dispatch_tool`, approval and its timeout | audit before effect, no replay of uncertain effects, no tool after a denial, message and run agree, every turn ends |
| read groups, `chat.rs` | outcomes of reads dispatched ahead, by call | `read_group_end`, `prefetch_read_group`, the serial tail, `settle_unconsumed_reads` | one result per call in call order, writes are barriers |
| research ledger, `research_tasks.rs`, `store.rs` | one durable task per turn with its operations; the loop's copy; the staged checkpoint | begin, catalog begin and end, checkpoint, pause, resume, cancel, `recover_interrupted` | completed work stays, uncertain work is never completed, a paused run can be resumed |
| store, `store.rs`, `history.rs`, `sessions.rs` | SQLite: messages, runs, tool rounds, tasks, events | single statements and a few transactions; startup recovery | nothing of a dead process looks alive |
| workspace transactions, `workspace_patch.rs` | the files, staged copies, parked files, the journal's manifest | `transact`, `rollback`, `cleanup`, `recover_patch` | all or nothing across failures and crashes, foreign edits kept |
| harness, `harness.rs`, `tool_calls.rs`, `tools.rs` | none of its own; the allow-list and schemas | parse, check and dispatch a call; the lifecycle tools | a model cannot release what the user asked |
| sub-agents, `subagents.rs` | active children, mailboxes, status, each under a lock of its own; budget cells shared with the parent | spawn, deliver, interrupt, settle | every child settles once, no message is lost, the budget holds |
| cloud ownership, `daytona_execution.rs`, `daytona_journal.rs`, `daytona_cleanup.rs` | a record per remote sandbox | journal, create, associate, execute, delete, confirm | no remote resource without a record |
| owned processes, `process_tools.rs` | a registry with one supervisor and control queue per process, paged output | spawn, poll, write, stop, evict | a stop is answered once, a live process is not evicted, no output is lost |
| snapshots, `snapshots.rs` | content-addressed blobs, a staged revert | snapshot, stage, commit, prune | a revert ends whole or can be repeated |
| downloads and installers, `download.rs`, `model_install.rs`, `runtime_install.rs` | a partial file, its length and running hash | resume, restart, verify, publish | only a verified file is published |
| local runtime, `runtime.rs`, `runtime_config.rs` | the one child process and its readiness | load, switch, unload, delete, save settings and preferences, crash | the model that is reported is the one that runs, with the settings the user chose for it |
| MCP, `mcp_http.rs`, `mcp_input.rs` | tool lists, pending input forms per call | call, ask, answer | an answer reaches the call that asked |
| connectors, `connectors.rs`, `local_mcp_process.rs`, `oauth.rs` | the live sessions, what was connected last, accounts and configurations in the vault | connect, restore, disconnect, forget, edit, sign in, exit | no session is forgotten; what the user was told is so |
| subscriptions, `subscription_auth.rs`, `vault.rs` | one session per provider in the vault | refresh, sign in, import, disconnect | a session stays refreshable |
| permission rules, `permission_rules.rs`, `permissions.rs`, `hooks.rs` | configured rules | match | the last rule that matches decides |
| inference, `inference.rs`, `inference_retry.rs`, `providers.rs` | one request and its retries | stream, retry | retries are bounded and never follow a response |
| context and compaction, `context.rs`, `compaction.rs` | the saved cutoff and message stamps | select, compact | a turn is kept or folded whole |
| rehearsal databases, `database_rehearsal.rs` | a record per rehearsal: intents, creations, status | rehearse on disposable databases, clean up | what was created stays on record until it is gone, nothing of others is dropped |
| language servers and debuggers, `lsp_client.rs`, `debug_tools.rs` | slots and permits; one session per adapter, its phase and references | find, lease, retire; start, inspect, control, stop | no session or reference of an earlier state is used |
| task graph, plans, findings, `tasks.rs`, `plans.rs`, `findings.rs` | rows with dependencies | add, start, finish | no cycle, no start before its dependencies |
| interface, `src/src` | the active conversation, the messages shown, drafts, what waits for the backend | select, home, new, send, resume, remove, fork; renders events | what is shown is what the next prompt goes to; no prompt is lost or sent twice |

`PROJECT.json` lists all of them, with the smaller ones (execution, terminals, workspace
reading, other databases, automation, web research, memory, skills, settings,
presentation), their files, and whether they are modelled.

### 1.2 How they interact

The interface sends commands (`send_message`, `stop`, `pause`, `resume`, `approve`) that
run on the async runtime's threads and share one `AppState`:

- `send_message` takes the conversation's turn lock, then the operation gate shared, then
  asks `RunControl` for a generation. `RunControl` and the cancel **watch channel** are
  *one for the process*, whatever the number of conversations: this is where turns meet.
- The turn loop alternates model rounds and tool calls. Between rounds and between calls it
  asks `RunControl` whether to stop or pause; while it waits (model, approval, tool) it
  selects on the watch channel.
- Before a tool runs its row is saved as `streaming`; after it the row, the ledger and the
  loop's transcript follow. The ledger is a second record of the same calls, saved whole
  from the loop's copy, while lifecycle tools, the catalog dispatch, the user's Resume and
  the next start's recovery write the table underneath.
- Tools that change files go through one transaction under the root's lock; a manifest left
  by a dead process keeps native readers and writers out until it is recovered.
- On the next start `store.rs` and `research_tasks.rs` rewrite what the dead process left.

### 1.3 What is hard

- *Interleavings*: an `Arc` counted at a drop while an `acquire` holds a clone; one watch
  channel and one pause flag for several turns; the user and the model pausing the same run;
  reads of a group returning in any order.
- *Crashes*: between any two durable writes of a turn, between any two file-system calls of
  a patch, in the middle of a rollback.
- *Partial failure*: message and run are settled by separate writes; a patch fails at its
  second file and its rollback at the first; a stop lands while a tool is running.
- *Timeouts and retries*: an approval that nobody answers, a tool whose outcome is
  uncertain and that the model asks for again, corrective and fallback rounds at the budget.
- *Stale copies*: the ledger copy against the table; a generation named by a Stop that
  arrives after the turn has ended; a hash checked before a foreign write.

`PROJECT.json` gives the hazards at their lines, with the properties that would catch them.

## 2. The modules

| module | models | composed with |
|---|---|---|
| `ConversationLock` | abstract: a table of who owns each conversation | implemented by `TurnLocks` |
| `TurnLocks` | `TurnLocks::acquire`, `TurnGuard::drop` | `MCAccess` |
| `Connectors` | the sessions of MCP servers and who begins, replaces, ends and remembers them | `MCAccess` |
| `Subscription` | the session of a subscription and who refreshes and replaces it | `MCAccess` |
| `McpInput` | questions of MCP servers to the user | `MCAccess` |
| `LspSlots` | slots, permits and retirement of language servers | `MCAccess` |
| `RunStates` | the run states and their transition table | extended by `ChatTurn` |
| `ChatTurn` | turns of several conversations under one run control, with approvals, exclusive operations, crashes and recovery | |
| `MCChatTurns` | the constraint under which two conversations are explored | extends `ChatTurn` |
| `ResearchLedger` | the durable task of a turn and everyone who writes it | |
| `ReadGroup` | one response's calls: grouped reads and the serial tail | |
| `AtomicPatch` | abstract: files change in one step | implemented by `WorkspacePatch` |
| `WorkspacePatch` | one file transaction, its rollback and its recovery | |
| `Subagents` | the children of a turn, inline and in the background, with their shared budget | |
| `ProcessOutput` | the bounded output of one process and a reader that pages through it | `MCResources` |
| `Processes` | the owned processes, their supervisors and the calls that start and stop them | `MCResources` |
| `Snapshots` | captures of a workspace, staged reverts, commits | `MCResources` |
| `Download` | one resumable, verified download | `MCResources` |
| `Runtime` | the local model: loads, switches, settings, and the turns that talk to it | `MCResources` |
| `Rehearsal` | disposable databases at a remote server, their record and their cleanup | `MCResources` |
| `EventStream` | the decoder of server-sent events | `MCHelpers` |
| `ModelStream` | one answer of a model, under three protocols, up to its tool calls | `MCAccess` |
| `Compaction` | windows, checkpoints and archives of a conversation | `MCHelpers` |
| `PermissionRules` | the evaluation of rules and the matcher of paths | `MCHelpers` |
| `Ptc` | programs of tool calls inside a turn | `MCHelpers` |
| `TaskGraph` | tasks and their dependencies | `MCHelpers` |
| `Debugger` | one session of a debug adapter and the references it gives out | `MCHelpers` |
| `Interface` | the window: the active conversation, what it shows, drafts and sends | `MCHelpers` |
| `Installer` | the installers' staging and the collector of the next start | `MCHelpers` |
| `MCAccess`, `MCResources`, `MCHelpers` | several of the modules above side by side: one of them runs, chosen at the start, and the others rest | instantiate them |
| `*_proofs` | the theorems about the module named before the underscore | |

`MCAccess`, `MCResources` and `MCHelpers` only bundle: the modules in them share no state in the code (or
share it through the turn, which is an action of theirs), so each behaviour of the bundle is
a behaviour of one module. They state the properties under the same names; the definitions
are in the modules.

The `map` of `PROJECT.json` names, for every definition that models code, the file, lines and
function it translates. Conventions shared by all modules:

- *An action is a piece of code between two points where something else may run or the
  process may die*: an await, a lock released, a durable write, a file-system call. What the
  code does in one synchronous stretch is one action.
- *Data is kept as far as it decides something.* A message is its status, a tool call its
  signature, a file's content one of "before", "after", "other", "absent".
- *History variables* (grouped as `history` or `outside`) record what really happened. No
  action's guard reads them; the properties compare them with what the code recorded. (The
  bound `MaxEdits` is the one exception: it limits how often `Edit` occurs.)
- *A definition whose comment begins "A slip" is not part of the model*: it is the form
  an action or helper would have with a plausible bug in that code (a guard dropped, a wrong
  order, an edge missing). The `mutants` of `PROJECT.json` say which definition each one
  replaces and which property then fails, so every property is known to depend on the code.

### 2.1 TurnLocks (`lib.rs` 170-230)

`locks[c]` is the map's entry, `taken` the mutexes whose permit is out, `ref[t]` the `Arc` a
call or guard holds. `acquire` is three steps: clone or insert the entry under the map mutex
(`CloneEntry`, `InsertEntry`), try the permit outside it (`TakePermit`, `FailPermit`), drop
the clone (`ReturnRefusal`). Dropping a guard is three: release the permit, drop the `Arc`,
then, under the map mutex, remove the entry if the map holds the last reference (`CleanUp`).

`owner`, the refinement mapping to `ConversationLock`, is the running turn of a conversation.

### 2.2 ChatTurn (`agent_run.rs`, `chat.rs`, `continuation.rs`, `approval.rs`, parts of `lib.rs`, `store.rs`, `harness.rs`)

Shared by all turns: `control` (`RunControl`: active and cancelled generation, pause, who
paused), `cancelValue` and `unseen` (the watch channel's value and which turns have not seen
its last change), `halfway` (senders of a cancel between the control and the channel, which
are written one after the other), `exclusive`. Per conversation: `turn[c]`, the loop's locals
and its place, and `saved[c]`, the rows of the run, the message and the current tool call.

| part of the code | actions |
|---|---|
| `send_message_inner` up to the loop | `BeginTurn`, `CancelledBeforeSave`, `Assemble`, `SaveMessages`, `SaveRun`, `SnapshotTaken`; ways out: `PreparationFails`, `SnapshotFails` |
| a model round of `TurnRounds::run` | `RoundStopped`, `BeginRound`, `ModelInterrupted`, `ModelFails`, `OutputLimit`, `CorrectiveRound`, `RetryAnswer`, `FallbackAnswer`, `FinishInAnswer`, `FinalAnswer`, `ToolCalls` |
| a call | `SkipCall`, `StopAtCall`, `TakeCall`, `RuleDenies`, `Decide`, `Ask`, `DecisionTaken`, `ApprovalTimesOut`, `ApprovalInterrupted`, `AdmitDenied`, `AdmitOver`, `AdmitWithin`, `MarkExecuting`, `DispatchRefused`, `Dispatch`, `ToolReturns`, `ToolInterrupted`, `Record`, `EndCalls` |
| settlement | `Settle`, `Close` (two writes, so a crash may fall between) |
| the controls | `RequestCancel`/`SendCancel`, `UserPauses`, `UserResumes`, `ModelPauses`, `ModelResumes`, `Resolve` (an approval is answered), `TakeExclusive`, `ReleaseExclusive` |
| mishaps | `InterfaceGone` (an event cannot be emitted), `CrashAndRestart` (with `recover_interrupted`) |

`MoveRun` keeps the code's habit of ignoring a refused transition (`let _ =`): a transition
that is not in `RunStates` would leave the record behind, and `RunTracksLoop` would see it.

### 2.3 ResearchLedger (`research_tasks.rs`, the ledger calls of `chat.rs`, `harness.rs`, `store.rs`)

`disk` is the table, `mem` the loop's copy, `recency` the order by `updated_at`, `staged` the
`pending_resume` setting, `run` the status of the latest run. The loop saves its copy whole
(`Record`, `Merged`, `Settle`), which is what makes the lost update the question of this
module: lifecycle tools (`ModelPause`, `ModelResume`, `ModelCancel`), the catalog dispatch
(`StartCatalog`, `CatalogSucceeds`, `CatalogFails`), the user's `Resume` and `Restart` write
`disk` underneath. `fate` remembers what became of each call. The other conversations of the
process are one step, `OtherTurnBegins`: it resets the pause and wakes this turn.

### 2.4 ReadGroup (`chat.rs` 2700-3957, `check_repetition` of `sandbox.rs`)

`batch` is the response's calls, `prefetched` the outcomes in hand, `rows` the completed tool
rows in the order written, `open` those still streaming. A group forms in `NextCall`
(`ReadGroup`, `GroupAt`), its members run in any order (`MemberStarts`, `MemberReturns`,
`MemberBlocked`, `MemberRefused`, `MemberInterrupted`) and `GroupReturns` when all are in;
each is then consumed by the same tail every other call goes through (`Admit`, `Ask`,
`HookBlocks`, `Repetition`, `Consume` or `Dispatch`, `Finish`), and every way out of the loop
settles the rest (`Settled`). `ran` counts physical dispatches and `came` their outcomes.

### 2.5 WorkspacePatch (`workspace_patch.rs`)

Per entry: the target (`file`, `dest` for a rename that only changes case) and four stages
(`new`, `old`, `restore`, `park`); `manifest` is the journal. A call runs through preparation
(`Preflight` to `Journal`), the changes (`Check` to `LinkDestination`), `Confirm`, cleanup
(`Clean`, `Unjournal`), or rollback (`Validate` to `RollEnds`). Every file-system call has a
failing twin (`StageFails`, `CommitFails`, `RollFails`, `CleanFails`, ...); `Crash` may end the
process between any two; `Recover` is `recover_patch`; `Edit` is another application.

`AllOrNothing` maps what a native reader may see (`seen`) to the one-step `AtomicPatch`.

### 2.6 Subagents (`subagents.rs`, the orchestration tools of `harness.rs`, `continuation.rs`)

`turn` is the parent, `kid[c]` a child's place, kind, host and calls; `live` and `stop` are the
registry's two maps, `row` and `run` the two durable statuses; `used`, `registered` and
`blocked` the cells that parent and children share. A child is *inline* (a future inside a call
of its host, and dropped with it) or *background* (a task). `TurnCallsChild`,
`TurnCallsBranches` and `TurnSpawnsBackground` start children; `ChildStep` is what a child does
by itself, from its first save to `retire` and `save`; `CallTimesOut` and `TurnInterrupted` drop
futures where they stand, with everything nested in them; `Stop`, `OtherTurnBegins`,
`Interrupt`, `Approved` and `Denied` come from the user; `Crash` ends all.

### 2.7 Resources outside the conversation

*ProcessOutput* (`process_tools.rs`, `Output`). `Push` appends a frame and evicts the oldest
that no longer fit, `Poll` and `ShellReads` return the page behind a cursor.

*Processes* (`process_tools.rs`, `performance_tools.rs`). A call is a future: its steps are its
awaits, and `Dropped` may end it at any of them, running what its guards run. A supervisor
watches one child, takes control messages (`TakesInput`, `TakesStop`), meets an exit, a deadline
or a kill, seals the output and settles the phase.

*Snapshots* (`snapshots.rs`, the capture in `chat.rs`, `workspace_ui.rs`). `CaptureFile` and
`Persist` are a round's capture, `Stage`, `BeginCommit`, `RestoreFile`, `EndCommit` a revert; the
agent's tools and the user change files between any two of them.

*Download* (`download.rs`, `model_install.rs`). The service is free to answer anything: an answer
that ignores the range, too few bytes, other bytes, an error. `part` knows the number of saved
units and whether they are the pinned ones; `failures` and `highWater` count as the code counts.

*Runtime* (`runtime.rs`, `commands.rs`, `model_library.rs`, `lib.rs`). `op` is the exclusive
operation in flight with its place; `server` the process, its key, port and settings; `wanted`
is history: what the user last chose for each model. `SavePreferences` is the Models page saving the
path of a model: it selects that model and leaves the settings of the one before in the store. `mixed`
is history too: the models selected that way, until settings are saved for them. `turn` and `child`
hold the endpoint they were given.

*Rehearsal* (`database_rehearsal.rs`). `ledger` is the saved record, `remote` the role and the
database of the generated names at the server, `late` the statements that may still run there
after their caller gave up. The rehearsal checks that the names are free, records each intent
before its statement and each creation after it; the cleanup inspects, drops what it can prove
its own and closes the record. A lost acknowledgement or a crash may fall between any two.

### 2.8 What a round goes through, and what stands around it

*EventStream* (`sse.rs`). `Push` is one byte; `ChunkEnds` hands the chunk's events on. `Meaning`
is the reference: what the bytes say when they are read as a whole, by the positions of the
breaks, the blank lines and the lines of data.

*ModelStream* (`sse.rs`, `tool_calls.rs`, `claude_adapter.rs`, `responses_adapter.rs`, the readers
in `chat.rs` and `subagents.rs`). A provider says items in fragments and ends, is cut or breaks
off; `style` is how an OpenAI-compatible server repeats the name of a call. What the loop
does with the round (`Dispatches`, `Answers`, `Refuses`, `Suppresses`, `Recovers`) ends it.

*Compaction* (`compaction.rs`, `prepare_context` of `chat.rs`, `store.rs`, `history.rs`). `rows` are
the messages with their instants, `checkpoint` the saved cutoff, `buffer` what the model is
given. A turn replays, plans windows, accepts one, goes on in rounds; the tool and the
button (`Press`) set a durable checkpoint and restamp the rows that stay.

*PermissionRules* (`permission_rules.rs`, `permissions.rs`). One step is one turn of the matcher's
loop (`Advance`, `OpenStar`, `Widen`); `Matches` is the reference meaning of a pattern.

*Ptc* (`ptc.rs`, `execute_ptc` of `harness.rs`). `log` is every call a program of the turn attempted,
with its row, its result and whether it really ran. Plans and the older lists of steps
differ in what they charge, block and save, as in the code.

*McpInput* (`mcp_input.rs`, `connectors.rs`). A server asks through the answer of a call or with a
request of its own, which a handler task answers beside the call; `pending` is the registry
all sessions share, `owner` the call of each session (`occupant` in `MCAccess`).

*LspSlots* (`lsp_client.rs`, `Manager`). A request finds a slot, locks it, takes a permit or the
resting session, and puts the session back only after a complete answer. `Referred` is
the reference count: a slot nobody refers to is dropped with its session and permit.

*TaskGraph* (`tasks.rs`, `store.rs`). `Search` begins the code's depth-first search for an
update; `Look` and `Leave` take it a child and a node at a time with the stack and the set of
done nodes, until `SetDependencies` or, with a cycle, `SearchEnds`. A call is a few statements
of which a crash may keep the first.

*Debugger* (`debug_tools.rs`). The adapter and its debuggee are external: the debuggee stops,
resumes and ends when it likes, and `mail` is what was said and not read. A call leases the
session (`Lease`), drains the notices, sends and waits; each notice of a stop or a resumption
and each control begins a new generation of references. Any error closes the session.

*Interface* (`App.tsx`, the composer of `Chat.tsx`, `drafts.ts`). The window is one thread, so an
action is what a handler does between two awaits. `version` is `selection.current`; `loads`,
`opening`, `removing`, `forking`, `resuming` and `sending` are the calls in flight. The answer of a
resume sends for the conversation that was active when it was asked for, without a prompt of the
user's. A fork belongs to a trajectory, which is no longer `current` once another conversation
is active. `meant` is history: the conversation a prompt was written for.

*Installer* (`runtime_install.rs`, `runtime_archive.rs`, `runtime_install_commands.rs`,
`model_install.rs`, `install_recovery.rs`). One lock keeps the installers apart; `staging` is the
directory of each run, whose archives are fetched, extracted file by file and published by one
rename; the collector of the next start looks at what is left.

### 2.9 Connectors and credentials

*Connectors* (`connectors.rs`, `local_mcp_process.rs`, `oauth.rs`, `Connectors.tsx`). `links` are all
sessions ever begun, `hub` the three maps of `McpHub`, `servers`, `accounts` and `remembered` what
the vault and the store keep. A connection is two steps under no lock (`Begin`, `Established`)
and one under the hub's (`Inserted`, in `RestoreRecords` and `PageRecords`); worker 0 is the
restore of the start. `reply` is history: what the last command told the user.

*Subscription* (`subscription_auth.rs`, its commands and callers). A seeker reads the vault (`Seek`),
asks the provider (`Accepted`, `Refused`, `Unanswered`), saves over whatever is there by then
(`Refreshed`) and reads the account again. Turns, tests and imports meet at the operation gate;
probes and sign-ins do not ask it.

## 3. The runs

Nine runs pass; three find a violation of something the repository says (section 5).

| run | bounds | distinct states | what it shows |
|---|---|---|---|
| `access` | 3 calls, 2 conversations, 3 mutexes; 3 connectors, 2 sessions, 2 configurations; 3 seekers, 3 tokens; 2 calls, 2 questions; 2 requests, 2 keys, 1 slot | 1.2 million | no conversation has two turns, no session of a connector is forgotten, a subscription stays refreshable, questions and slots stay with those they belong to |
| `chat_turn` | 1 conversation, 2 signatures, 3 rounds, 2 calls a response, 1 recovery, 2 generations | 0.2 million | a turn's order of writes under stop, pause, denial, timeout and crash at every point, and that it ends |
| `chat_turns_together` | 2 conversations, 1 signature, 2 rounds, 1 call, 2 generations, constraint `OneCaller` | 1.4 million | whose Stop, Pause and generation reach which turn |
| `research_ledger` | 2 turns, 2 rounds, 1 call, recovery limited to 1 task, listing to 2 | 1.7 million | the ledger against all who write it |
| `read_group` | 3 calls, groups of 2, 2 keys of which one may be polled, hooks | 2.6 million | grouped reads and the serial tail |
| `workspace_patch` | 2 entries of all five kinds, 2 foreign writes, any number of recoveries | 1.1 million | atomicity across failures, crashes and foreign writes |
| `subagents` | 2 children to depth 2, 2 rounds of 2 calls, 1 search, 1 turn | 0.5 million | budget, interrupts and ends of a family |
| `resources` | six modules, section 3.2 | 0.8 million | output, processes, snapshots, download, local model, rehearsal |
| `helpers` | nine modules, section 3.2 | 1.8 million | what a round goes through, the debugger, the window, the installers |

### 3.1 Properties

*access.* `MutualExclusion`: two turns never run in one conversation, though its entry is removed
and made again between the two steps of an `acquire`. `ConnectionsHold`: a live session is in the
hub or in the hands of who sets it up (`NoneForgotten`); a connector the user was told is off has no
session but one the start restored after (`OffIsOff`), and one told on is there and will be restored
(`OnIsKept`); a session is one of the saved configuration and account, unless they changed while it
was set up (`Backed`). `StaysRefreshable`: however many refresh at once, the saved token is one
the provider takes, or its successor is about to be saved or was lost on the way.
`OpenQuestionsStay`: nobody else closes a question that is still wanted.
`SlotsHold`: no session that began before a retirement is found after it (`OldAreGone`), and
resting sessions never keep a request from its permit (`RestNeverStarves`).
`WholeRounds`: calls run from finished answers only, all of them, each with its own name and
arguments, and a finished answer is taken with its text once.

*chat_turn.* `NoUncertainReplay`: a call whose outcome was uncertain, or that was denied, is not
started again in its turn. `MessageAndRunAgree`: whichever way a turn closes, the two separate
writes say the same. `EveryTurnEnds`, a leads-to property.

*chat_turns_together.* `UserPauseHolds` (TOOL_RESULTS.md: a model cannot take over or release
the user's pause), and `CancelledWasAskedFor`: a turn ends cancelled only if a Stop
named it *or* another conversation's controls woke it; that exemption is finding
`chat_turn_cancel`.

*research_ledger.* `LifecycleStands`: no save of the loop's copy undoes what a lifecycle tool, a
pause or a cancel wrote. `PausedRunIsCheckpointed`: a run paused by its own controls has a
paused task.

*read_group.* `SettledOnce` (no call runs twice, and whichever way the loop ends, each call
that ran has its row), `DispatchHolds` (a call that is not a grouped
read waits for all before it, `BarriersHold`, and a call whose like had an uncertain outcome is
not dispatched, `UncertainNotRepeated`). Calls a hook blocked are exempt from the
uniqueness of rows; section 5 says why.

*workspace_patch.* `OriginalKept`: until the commit is durable every original can be found.
`EditsKept`: a foreign write survives unless it fell between a check and the change it
allowed. `ReportsTrue`, `RecoverySucceeds` (the next undisturbed recovery ends
the transaction), and the refinement `AllOrNothing`.

*subagents.* `FamilyBudget`: a turn and all inline children below it send no more searches than
the turn's budget allows. `InterruptStopsChild`: an interrupted child begins at most the one
call its select polled first. `EveryChildEnds`.

*resources.* `NoSilentGap`: a reader of a process's output gets every frame once and in order, or
is told of a gap. `LostIsReaped`: a process nobody can name any more is killed. `RevertDone`: a
staged revert goes away only when every file is as captured. `DestinationKept`: only the pinned
bytes are published, over nothing. `FetchEnds`. `NoSwapUnderTurn`: the server a turn talks to is
not stopped or replaced. `SettingsFollowTheModel`: a model that is up has the settings
the user last chose for it, through switches, saves, selections and deletions, unless
`save_preferences` selected it beside the settings of another model and none were saved for it
since (section 5.2). `Reclaimable`: what a rehearsal
created and did not drop is named by an open record that its cleanup accepts. `ForeignKept`:
a drop never removes what others created under the generated names.

*helpers.* `ChunksDoNotMatter`: however the network cuts the bytes, the events are the same.
`ContextHolds`: a checkpoint
archives what it hides (`PrefixArchived`), no cutoff falls inside a turn (`TurnsNotSplit`), the
draft and the newest call survive (`CurrentWorkStays`). `LastMatchDecides`: the backtracking
matcher and the order of rules agree with the meaning of the patterns. `RunsAccounted`: what
ended badly in a plan does not run again (`NotRepeated`), and what ran has its row
(`RunsAreAudited`).
`ReferencesAreCurrent`: once its notices are read, a debugger session takes no reference to an
object of an earlier stop. `WindowHolds`: the messages on screen are those of the conversation
the next prompt goes to, whatever answers late (`ShownIsActive`), and a prompt no send carries is a
draft where it was written, or was saved, or the user was told to look, or gave way to a newer
draft, and no draft was saved already (`PromptKept`). `WholeOrAbsent`: a published runtime has every file
whole, and what an interrupted installation left goes at the next start unless its collector
was stopped. `TasksHold`: no set of tasks waits
for each other (`Acyclic`), and no change is refused without a ring (`RefusedForRings`).

### 3.2 Bounds

- *Three calls of `acquire`* are enough for one that runs, one that is dropped and one that
  holds a clone; two conversations show that entries do not mix.
- *A server, an account and a token preset, two sessions, one page and the restore of the start*
  give a restored session that a second one replaces, and a disconnection, an edit or a removal
  while either is set up. *A turn, a test and a probe with three tokens* give two refreshes with
  one token beside a sign-in.
- *Three rounds* are needed for a tool round, a corrective round and the reserved last one;
  *two calls a response* for a call behind a denied or interrupted one; two signatures for
  a repeated and a fresh call. The budget of searches and fetches is a flag
  that may be set by any call that spends it. Two generations make a second turn, or a
  resume after a first.
- *Two conversations* have a state space of their own; `OneCaller` lets only one of them make
  tool calls and ends the exploration at a restart, since controls do not outlive the
  process. The two exclusions are covered by `chat_turn`, and the proofs of section 4 have
  no such bound.
- *RecoverLimit 1 and ListLimit 2* (50 and 20 in the code) make "more open tasks than the
  limit" reachable with two turns. `TextCalls` and `LongQuestions` turn two inputs off or on
  that section 5 is about.
- *Groups of two among three calls* (four in the code) give a full group, a group cut short
  and a call behind a group. `RuledReads` is off for the same reason as `TextCalls`.
- *Two entries* give "the first changed, the second failed", and a rollback that undoes one
  and meets a conflict at the other; two foreign writes reach both entries or one twice.
- *Two children* are a pair of branches, a chain of two below the turn, or one in the background
  beside one in the foreground; one search in the budget makes the second refused. Children in
  the background outlive the turn, so one turn is enough.
- *Output of 6 units, frames of 1 or 3, five frames* evict up to three frames; pages of 3 and 5
  end in the middle of what is kept. *One record beside two processes* makes the registry
  evict; two calls give a stop beside a start. *One snapshot of two files, one edit* gives a
  revert that fails half-way and a change during it. *Three units and two retries* give a
  resume, a restart and a retry after progress. *Three loads of two models on one port* bring
  a port back with another model; three saves are settings for two models and a selection from
  the Models page, in any order; `Overlap` keeps settings and selections from being saved while a
  model operation runs (section 5.2).
- *Six bytes* hold two events with a CRLF between them and a byte order mark. *Three items of at
  most one fragment* hold text between calls; two calls are the most a round may have, so a
  third is refused (in `MCAccess`). *Three turns with one call each* over a window of one kept turn compact
  twice; three instants make rows share one; `ClockPasses` and `MidwayCrashes` exclude two
  coincidences of section 5.2, and the windows of the tool and of the setting are the same one.
  *Patterns and paths of three* have two stars with something between them; two rules let the second
  override the first, or fail to match after it did. *Two calls in two programs* repeat a call in a second program; `BadNames` is
  off for section 5.2. *One pending question at most* makes the second one refused. *One slot
  for two keys* evicts. *Three tasks* form every cycle up to length three.
  *Two stops and three unread messages* let a control cross a notice and the debuggee stop
  again behind it. *Two conversations, two prompts, three changes of the view* give a late
  answer of an overtaken selection and a second draft beside a failing send; `Overtaken` lets
  the user select and go home, and not send, while a new chat, a removal or a fork waits, `OverResume`
  nothing while a resume waits (both section 5.2); one prompt or resumed turn is sent at a time.
  *Two archives of one file, two runs, two faults* leave directories of two runs to one
  collector, which may fail at the first.
- *Three cleanups* of a rehearsal meet a lost acknowledgement, a failed drop and the rest.
  `LateRoles`, `LateDatabases` and `Outsiders` name the engines at which a creation may run after
  its caller gave up and at which others may take the generated names; section 5.2 says what
  happens at the others.

`CHECK_DEADLOCK FALSE` stands where the system stops: the bounded number of turns, calls or
operations is over, the batch or the transaction is done. `TurnLocks` (in `MCAccess`, where the other two may
rest) and `ChatTurn` are checked for deadlock.

### 3.3 Fairness

`FairSpec` of `ChatTurn` assumes weak fairness of each turn's own steps and of the
second half of a cancel, nothing else. A turn is one tokio task, which the runtime polls
whenever it can run, and every wait of it has an end: the model's stream and tools have
timeouts, an approval ten minutes (`ApprovalTimesOut` is one of the turn's steps). A
sender between its two statements runs synchronous code. Users, models that pause or resume,
other operations and crashes owe nothing.

`Subagents`: some child goes on while any can. A child's waits (model, approval, tool, a child
of its own) have timeouts of their own in `drive_child` and `drive_detached`. The turn owes
nothing: its call may be dropped at any time. `Download`: the fetch goes on; the service may
answer anything, but a request of the client ends (its timeouts). `Processes`: each call and
each supervisor goes on; the exit of a process and its deadline are not counted on, which is
why `LostIsReaped` is a property of the code and not of well-behaved children.

## 4. The proofs

All theorems hold for every value of the constants that satisfies the named assumptions of
the modules (`DistinctNone`, `NoTurnDistinct`, `NamesAssumption`, `InputAssumption`, `SlotsAssumption`, `RoundsAssumption`,
`BoundsAssumption`, `DistinctAssumption`, `LedgerAssumption`, `WorkspacePatchAssumption`,
`ResourcesAssumption`, `ReadGroupAssumption`, `SubagentsAssumption`, and the five of `MCHelpers`): the "no ..." values are
distinct from the real ones, the bounds are natural numbers, what the code numbers or orders
is numbered, no local server has the name of a preset, there is a root and a content, a letter of a
name is no star of a pattern (in the code a token is not a character), a window keeps at
least one turn (it is clamped to 1 to 200; 0 is only tried last), and an answer comes by one of
three protocols and is not cut short for a reason that a completed answer gives (`check_finish_reason`).
TLC evaluates them on every run. Some theorems have hypotheses of their own, which are named
below with what happens without them.

| module | theorems |
|---|---|
| `MCAccess_proofs` | `TypeCorrect`, `OneTurnPerConversation`, `NoSpuriousRefusal`, `ImplementsPromise`, `SessionStays`, `ConnectionsAgree`, `SlotsAreCurrent`, `QuestionsStay`, `RoundsAreWhole` |
| `ChatTurn_proofs` | `TypeCorrect`, `UserPauseKept`, `GenerationNamesOneTurn`, `NoToolAfterDenial`, `AuditBeforeEffect`, `UncertainNotReplayed`, `LastRoundIsTheAnswer`, `NoTransitionRefused`, `MessagesMatchRuns`, `CancelsAreAskedFor` |
| `ResearchLedger_proofs` | `CompletedWorkStays`, `LifecycleCommandsStand`, `PausedHasCheckpoint` |
| `WorkspacePatch_proofs` | `TypeAlways`, `NeverTorn`, `OriginalsKept`, `ReportsAreTrue`, `RecoveryEnds`, `CommitsStand`, `ForeignEditsKept`, `PatchIsAtomic` |
| `MCResources_proofs` | `SettingsFollow`, `NoSwap`, `OwnModelOnly`, `OnlyPinnedPublished`, `RevertsEndWhole`, `LeftIsReclaimable`, `OthersKeepTheirs`, `EveryFrameOnce` |
| `Subagents_proofs` | `BudgetOfFamily`, `InterruptEndsChild` |
| `ReadGroup_proofs` | `TypeCorrect`, `NoCallTwice`, `EverythingSettled`, `DispatchesHold` |
| `MCHelpers_proofs` | `InstalledWhole`, `WindowStays`, `NoStaleReference`, `RunsAreAccounted`, `LastMatch`, `NoRings`, `CutsDoNotMatter`, `HiddenIsKept`, `ContextStays` |

**TurnLocks.** `MutualExclusion` is not inductive: nothing in it keeps a call from locking a
mutex that has just been removed from the map. `IInv` adds that a held `Arc` is the map's
entry (`HeldRefIsTheEntry`, which the reference count in `CleanUp` is there for), that two
conversations never share a mutex, and that a permit is out exactly while a turn
runs. Refinement: only `TakePermit` and `ReleasePermit` change `owner`, which is unique by
`MutualExclusion`; every other step stutters.

**ChatTurn.** `IInv` is `TypeOK`, the two facts about the shared control, and `TurnInv` for
each turn by itself: what its place says of the round counter, the decision, the row and
the run record. The proof separates steps of one turn (`PrepareStep`, `ModelRoundStep`,
`ToolCallStep`, `FinishStep`, `MishapStep`), which only touch that turn's state
(`LocalUpdate`, `OwnStepsUntouched`), from the controls, which touch none. This is why the
result holds for any number of conversations. `LastRoundIsTheAnswer` is
proved and not run: it says why "Tool round limit reached" (`chat.rs`) is never reached.
`MessagesMatchRuns` and `CancelsAreAskedFor` rest on a second invariant, `EndInv`, for what happens
between a turn's result and its two writes. `Ends` and `Settled` say which runs a turn may still hold
at each result and what was saved of it. `Unreached` follows the turns that no other conversation's controls
have reached: such a turn has the newest generation, so whatever wakes it up is a cancel of
its own, and a run that a tool's interruption cancelled is not settled as paused. `NamedIsTarget`: whom the
shared cancel names was asked to stop, which needs that it never names a generation to come.

**ResearchLedger.** The heart is `Copy`: between the start of the rounds and the settlement
the loop's copy *equals* the durable task, except after a lifecycle call until it is
recorded; then it is only `Behind` (same rows, same completed ones), and `Merged` takes the
durable status before saving. `Fresh` says that turns that have not begun have no task,
`OwnStop` what a stopped turn without foreign controls has saved. `Promise` collects what a
step must not do; each action is shown to satisfy it from lemmas about the operations on a
task (`OpenedTask`, `SettledTask`, `MergedTask`, ...).

**WorkspacePatch.** `Inv` says at each step of the call what is known of the files:
`Journaled` (the manifest and the place), `Filed` (all original or all patched without a
manifest; every entry undoable while it is prepared; all patched once committed), `Staged`,
`Forward` and `Backward` (how far the change or the undoing has come), `Undisputed` (no
conflict without a foreign write or a failure) and `Unraced` (what the last check saw still
holds unless someone raced it). The invariant holds for files no one else wrote, whatever
others write in between. `PatchIsAtomic` maps the commit of the manifest to the
abstract `Commit`, an `Edit` to `Touch`, everything else to a stutter.

**Resources.** The modules of `MCResources` are proved about through the bundle: a step of
another module leaves the variables of this one alone (`LocalOrNot`, `TransferOrNot`,
`SnapshotOrNot`, `ScratchOrNot`, `OutputOrNot`). `SettingsFollow` assumes `~Overlap`; its invariant `SettingsInv`
says what each operation has read and that it still stands when it is written, and that the
models not selected find their settings in their profiles, or in the save that is about to write
them there. It says so of the models outside `mixed`: in the code nothing holds of the others
until their settings are saved. `NoSwap` and `OwnModelOnly` rest on
the gate (`GateHolds`) and on the key of each launch. `OnlyPinnedPublished`: `HashIsPart`, the
running hash is that of the saved bytes through resumes and restarts. `RevertsEndWhole`: `RevertInv`, each
file of a commit is still to do, failed, or as captured unless it was changed since.
`LeftIsReclaimable` and `OthersKeepTheirs`: `ScratchInv` says that what is at the server was
intended on record (`Created`), what the record claims of drops (`Recorded`, `Dropped`), and that
no drop is on its way at a foreign name (`Untouched`). Both assume `Prompt`: no `CREATE ROLE` runs
late, and no `CREATE DATABASE` does and nobody takes a name at MySQL; without it they are
false (section 5.2). `EveryFrameOnce`: `OutputInv` says that what is retained are the last frames
written, without a hole (`Retained`), and that a reader has frames before his cursor, each once,
and all of them unless he was told (`Given`). That evicting and paging cut consecutive frames out
rests on `CutOut` and `MinOfSome`: a set of numbers has a least member, shown from the
well-foundedness of strict inclusion on finite sets, without induction.

**Access.** The lock is proved about in its own module, the others through the bundle of `MCAccess`.
`SessionStays`: `LoginInv` says that a token an answer brought and nobody has saved yet is
good, and that where the provider gives successors nobody else holds it (`BroughtIsOwn`);
this is why the last of two overlapping refreshes to save cannot leave a dead token behind.
`ConnectionsAgree`: `SourcesInv` follows every session from its set-up to its end. Whoever sets one
up owns it (`SetUpOwned`), what the hub has is recorded under its own connector
(`HubOwned`), a session that is not over is in one of the two places (`LivesKept`), and what is
kept has the configuration and the account it began with unless they changed (`KeptBacked`).
`SlotsAreCurrent`: `SlotInv` says that slots with no reference are empty (`Unreferred`, as an `Arc` that
is dropped), no two keys share a slot and the permits bound them (`Bounded`, which needs a
pigeonhole over the slots to show that a fresh one exists), and what the registry refers to is of the
configuration in force but for the moment between an announcement and the emptying (`Young`).
`QuestionsStay`: `InputInv` says that two calls that may still be asked have different scopes (`ScopesApart`).
`RoundsAreWhole`: `RoundInv` says that while an answer is read, the calls are those of the items that were met,
in slots numbered without a gap (`Spoken`), each with the part of its name that was sent
(`NameKnown`) and its arguments so far (`Got`), and the text is what was sent of it (`KeptSoFar`); each
protocol's own records agree (`OpenaiKeeps`, `ClaudeKeeps`, `ResponsesKeeps`), and the finish
reason is the one that was said (`Honest`). An event is of one item and leaves the others as they
were (`Untouched`, `Takes`), so one lemma (`KeptStep`) serves every event; the end of a Responses
answer takes what is left of all at once (`LeftPushed`, `LeftSaid`). What ends well is
`Complete`, and what is complete is valid (`CompleteIsValid`). It assumes that a server says a name
once, repeats it or lets it grow: one that splits it is refused (section 5.2).

**Subagents.** Children share the cells of the turn through the chain of hosts above them.
`HungUp` says that whoever runs inline hangs below a call that waits for him, `CellsShared` that
the whole chain is registered while it lives, so that a charge anywhere in the family
goes to the one counter; `BudgetKept` then bounds what was issued by what was charged.
`LateStops` says where a child may be after the one call its select polled first.

**ReadGroup.** A group runs ahead of the loop, so the invariant relates what has been dispatched to
what the loop will do: the entries ahead are reads in an unbroken row from the call
in hand (`Contiguous`), they have run only as members (`NotRunYet`), no key of one in the queue is
blocked (`GroupOnly`), and none of them is a repetition by the time the loop reaches it
(`NoRepetition`: the history a group foresees is the one the loop then has). What
settles the rest at an early end takes the entries in order; `Rank` shows that its list names each
once. `EverythingSettled` assumes `~RuledReads`: with a rule that denies a read, the
denial meets an entry whose call already ran (section 5.2). The others need no hypothesis.

**Helpers.** One service runs while the others rest, so a step is one of the service or
leaves its variables alone (`OneAtATime`).
- `InstalledWhole` (`SetupInv`): how far the running installation has come (`Progress`), and that what
  an earlier one left is known to the collector or could not be removed (`Accounted`).
- `WindowStays` (`ScreenInv`): only the newest selection is heard (`Newest`), nothing else that moves the
  active conversation waits while a prompt is on its way (`Undisturbed`), and that prompt is
  saved, in doubt or returned (`Carried`); a send a resume began carries none. It assumes
  `Overtaken \subseteq {"select", "home"}` and `OverResume = {}`: a prompt sent while a new chat, a
  removal or a fork waits is lost to another conversation, and the turn of a resume that is
  overtaken is drawn in another one (section 5.2).
- `NoStaleReference` (`ProbeInv`): while a notice of a stop is unread names may be stale; what
  resolves otherwise is of this stop (`Fresh`), because the adapter is read in order (`Followed`).
- `RunsAreAccounted` (`PlanInv`): the statement in hand is the end of the log (`InHand`), and what a
  plan saw end badly is blocked, or no search is left to repeat it (`Remembered`; a call that a spent
  budget refuses is not put in the set). It assumes `BadNames = FALSE`: a result bound to a refused
  name ends the plan with rows missing (section 5.2).
- `LastMatch` (`JudgeInv`): while a rule is judged, the effect its meaning asks for is the rule's exactly
  when the search can still succeed (`Hopeful`): the pattern covers the rest from the place in hand, or it
  does after an open star has taken one more character, or a glob still to be tried covers. Each turn
  of the loop keeps this (`AdvanceHopes`, `OpenStarHopes`, `WidenHopes`, `StuckFails`).
  `AttemptsCover` shows that the globs tried are those a pattern means. The recursive definitions these rest on
  (`CoversFrom`, `Behind`) are shown to have a solution, as the least closed set of places
  (`CoversFromSolves`) or by extending one (`BehindCovers`); where induction is needed, a least
  counterexample is refuted (`LeastNumber`).
- `NoRings` (`GraphInv`): the stack of the search is a path from the task of the call (`OnPath`) in
  the graph that is asked for, and what is done leads only to what is done and holds no ring
  (`DoneIsClosed`). A ring through the task would have to be among what is done when
  the search ends; the stack itself is the ring when it is refused.
- `CutsDoNotMatter` (`DecoderInv`): the bytes in hand are the line that has begun and not ended
  (`LineInHand`), the data and the events are those of the block in hand and of the blocks before it
  (`ReadSoFar`). One more byte leaves the lines before it as they were and adds at most one
  line, one field and one block, whose numbers follow the others'.
- `HiddenIsKept` and `ContextStays` (`ContextInv`): the rows stand in the order of their instants and
  of their turns (`Ordered`), so that the rows are read in the order they were written
  (`StoredInOrder`); restamped instants rise behind the cutoff (`NewStampsRise`) and keep that order.
  A plan keeps the draft and the end of the buffer (`KeptWork`), and a second plan with window 0 has
  nothing more to drop (`NoMoreToDrop`), so no cutoff is persisted for it. `ContextStays`
  needs `CutAtTurn`: the cutoff stands before a turn that has at least the kept number of
  turns from it on, so a later boundary is there or behind it. Both assume `ClockPasses` and
  `~MidwayCrashes`, and `ContextStays` assumes `OneWindow`; section 5.2 has a run without each.

*Only model-checked.* Liveness (`EveryTurnEnds`, `EveryChildEnds`, `LostIsReaped`, `FetchEnds`):
TLAPS has no rules for `ENABLED`, on which weak fairness rests. The type of the ledger's `recency`,
which `Remove` and `SelectSeq` compute: their facts need an operator parameter no installed prover
instantiates. Every other invariant and action property that a passing run checks is proved, some
under the hypotheses named above. No module declares a `RECURSIVE` operator. `Processes` has no
safety theorem. Some properties are proved and no longer run, because what they say follows from
others or from the shape of the code: `PromiseSpec`, `RunTracksLoop`, `AuditedBeforeRunning`,
`DenialStopsTools`, `GenerationsNameTurns`, `CompletedStays`, `NoTornPatch`, `CommitStands`.

## 5. Where the code differs from what it says

### 5.1 Checked as runs

| run | the code | the statement |
|---|---|---|
| `chat_turn_cancel` | the selects of the loop (`chat.rs` 2000, 2039, 2881, 3052) return on any change of the watch channel all turns share, without `cancel_applies`: a Stop of one conversation, or another turn that begins, ends this one | `agent_run.rs:113` "Cancel applies only to the generation that was active when it was requested." |
| `snapshots_undo` | the capture before a round covers the paths the audit already names, so the first write of a file is not captured, nor is any file once one audited path is refused | `chat.rs:1940` "Capture the workspace before the step so a bad edit can be reverted to the state the user left it in." |
| `compaction_button` | `compact_conversation_cmd` keeps the guard of the store's mutex and locks it again to emit its event (`compaction.rs` 509, 514) | `docs/CONTEXT.md:17` the button compacts and the kept suffix is replayed |

### 5.2 Reproducible by hand

Each configuration ends with a violation of the property named; where it lists several, they
are commented out and checked one at a time. A name with "and" is the configuration of a run
with the change that is given; the property is that of the module, checked in it.

| configuration | property | what happens |
|---|---|---|
| `MCAccess` and INVARIANT | `NoEntryLeftBehind` | a refused `acquire` that holds its clone while the running turn cleans up leaves the entry for good; `lib.rs:172` says the map does not grow |
| `ChatTurnDivergences` | `PauseHoldsAtApproval` | the pause is read before the approval (`chat.rs:2790`) and not after it, so an approval given during a pause starts the tool; the test at `agent_run.rs:395` says a pause starts no new tool |
| | `PauseBelongsToItsTurns` | a turn that begins elsewhere clears the one pause flag (`agent_run.rs:138`) |
| `LedgerDivergences` | `BudgetEndsTask` | at the bound of operations the checkpoint is dropped and the task goes on (`research_tasks.rs:238`), where line 216 says it moves to `budget_exhausted` |
| | `ResumeStagesPausedTurn` | recovery saves all open tasks latest first with new stamps, so Resume finds the oldest; `chat.rs:3983` |
| | `UncertainNotCompleted` | text calls are numbered anew in each response; the second runs under the first one's completed row (`research_tasks.rs:312`) |
| | `TimeoutNotCompleted` | a tool that timed out is checkpointed like one that succeeded (`chat.rs:3314`) |
| | `CheckpointReachesTurn` | the staged checkpoint is cleared (`chat.rs:4029`) before the turn that carries it is saved |
| | `PausedRunCanResume` | a turn woken by another's controls settles as paused with its task running (`store.rs:776`); so does a question over 8000 bytes but within 4000 characters, which has no task (`chat.rs:1919`) |
| `ReadGroup` and INVARIANT | `OneRowPerCall` | a hook that blocks a read whose result is in hand leaves the entry for a second settlement (`chat.rs:2971`) |
| | `RuledCallsStay` | with `RuledReads = TRUE`, `Hooks = FALSE`: a read that a deny rule covers is dispatched with its group before the rule is asked (`chat.rs:3588`); `docs/PERMISSIONS.md:21` says it is refused |
| `WorkspacePatch` and `MaxEdits = 1` | `DivergenceListed` | after an interrupted cleanup, a foreign write makes every recovery fail for a missing backup; `docs/WORKSPACE_TRANSACTIONS.md:57` says it is listed as a conflict |
| `Subagents` and INVARIANT | `ChildrenSettle` | the outcome of a child that ends before its loop is dropped, and its rows stay running (`subagents.rs:1782` "settles durably") |
| `Subagents` and PROPERTY | `StopReachesBranches` | the Stop of a turn drops the future of a workflow and leaves its branches, tasks of their own, running |
| `Subagents` and `MaxSearches = 2` | `UncertainNotRepeated` | a search of a child that ends without an answer is not added to the set of blocked calls; the comments at `subagents.rs` 1412 and 1716 say it is never repeated |
| `ProcessOutputDivergences` | `ShellRunComplete` | `shell_run` stops at the first page that reports an ended process (`process_tools.rs:612`), whether or not the page says there is more |
| | `PollerSeesEnd` | a page smaller than the next frame is empty, and its cursor stays |
| `ProcessesDivergences` | `StopReturnsFinalState` | a stop sent while the supervisor drains the output returns before the phase is set (`process_tools.rs` 759, 797; line 39) |
| | `FinalStateStands` | `request_stop` writes `unknown` over the phase of a process whose supervisor has ended, where its comment (lines 491 to 494) speaks of a full queue only |
| | `ShellLostIsReaped` | the process of a dropped `shell_run` runs on; line 206 says a cancelled start leaves none behind |
| `SnapshotsUndo` and INVARIANT | `RevertsInPlace` | a task filed under another folder commits its staged revert there (`snapshots.rs:1087`) |
| `Download`, constants of `MCResources`, `FairSpec` | `ForeignKept` | without hard links, publication is a check and a rename (`download.rs:455`) |
| `MCResources` and `Overlap = TRUE` | `SettingsFollowTheModel` | settings saved while a model operation runs are not behind the gate, and `commands.rs:387` writes back what it read before; with the settings goes a selection that was saved meanwhile |
| `Runtime`, constants of `MCResources` | `SettingsOfItsOwn` | the Models page saves the path of another model (`Models.tsx` 102 to 105, 155 to 157; `commands.rs:365`), which leaves the settings in the store: the next load starts that model with the settings of the one before and writes them over its profile (`save_active_profile`), as does a switch to a third (`use_installed_model`). `SettingsFollowTheModel` excludes such models (`mixed`) until settings are saved for them |
| `McpInputDivergences` | `QuestionsDieWithCall`, `OneQuestionPerSession` | the answer of a server's own request is awaited by a task that outlives the call; `mcp_input.rs` 8 to 12 says a question cannot outlive its operation |
| | `CancelledNotSucceeded` | a call whose user cancelled completes when the server answers first (`mcp_input.rs:250`) |
| `CompactionButton` and `SPECIFICATION Spec` | `ReplayIsTheWindow` | the next turn replays another window than the one the model saw (comment at `compaction.rs:318`) |
| | `DroppedIsArchived` | an accepted window that is planned again archives only what the second plan dropped (`chat.rs:4164`) |
| | `PrefixArchived` | with `ClockPasses = FALSE`: a row written in the millisecond a restamped row was given is swallowed by the next cutoff |
| | `TurnsNotSplit` | with `MidwayCrashes = TRUE`: a crash between two restamped rows leaves a turn on both sides of the cutoff (`compaction.rs:409`) |
| | `TurnsNotSplit` | with `ToolKeep = 3`, `MaxTurns = 4`, `MaxTime = 4`, `Threshold = Capacity = 40`: a compaction that keeps more turns than the one before restamps rows across the old cutoff before it finds that there is nothing new (`compaction.rs:404`); its comment (lines 374 to 376) says a tool audit is never separated from the turn that requested it |
| `PtcDivergences` | `DeniedRanNothing` | a denied plan reports that nothing changed although an earlier call of it ran |
| | `RowsSettle` | a program the turn drops leaves its row `streaming` (`await_bounded` says never) |
| | `EntryForEachRun`, `SearchesAdmitted` | an interrupted call has no entry; the steps of the older form are not charged |
| | `RunsAreAudited`, `NotRepeated` | with `BadNames = TRUE`: a result bound to a refused name ends the plan after the calls ran, without rows |
| | `NeverRepeated` | the older form blocks nothing, nor does a plan the turn dropped |
| `LspSlots`, constants of `MCAccess` | `NobodyStarves` | a request whose slot was given up before it locked it waits until the cleanup or its timeout |
| `PermissionRules`, constants of `MCHelpers` | `ToolRulesCover` | a rule for a tool's name does not govern tools known by path or command; `docs/PERMISSIONS.md` says it covers the family |
| `ModelStream`, constants of `MCAccess` and `"split"` in `Styles` | `WholeRoundsAccepted` | a call's name sent in two parts is refused; `tool_calls.rs:167` says a second fragment is "still appended" |
| `MCResources` and `LateRoles = {"postgres"}` | `Reclaimable` | a role created after the rehearsal gave it up and the cleanup had closed its record stays for good; `docs/DEVELOPMENT_TOOLS.md:238` says lost acknowledgements remain discoverable |
| `MCResources` and `LateDatabases = {"mysql"}` | `Reclaimable` | the same of a database at MySQL, which needs no role to be created |
| `MCResources` and `Outsiders = {"mysql"}` | `ForeignKept` | MySQL databases have no owner: one that another created under the recorded name is dropped; line 239 of the same says it is preserved |
| `Installer`, constants of `MCHelpers` | `InterruptedAreCollected` | the collector does not know the `<archive>.part` of a runtime's download and stops at it in every start, with all that lies behind (`install_recovery.rs` 118 to 125; lines 33 to 37 say it must) |
| `Interface`, constants of `MCHelpers` | `LoadingIsAnswered` | a conversation selected while a new chat waits for the index: the new chat takes the version (`App.tsx:337`), the answer of the selection is not heard, and the window stays busy; a removal of other conversations and a fork do the same |
| `Interface` and `Overtaken = {"select", "home", "send"}` | `ShownIsActive`, `PromptKept` | a prompt sent while a new chat waits is drawn, and after a failure returned, in the new one |
| `Interface` and `OverResume = {"select"}`, or `{"home"}` | `ShownIsActive` | a resume is awaited with the window not busy (`App.tsx` 1133 to 1139) and then calls the `send` of the moment it was asked for: the turn of the old conversation, its stream and at last its messages are drawn on the screen of the one selected meanwhile |
| `Connectors`, constants of `MCAccess` | `UnreachableIsGone` | the note of an unconfirmed shutdown outlives a reconnection, so the next disconnect answers that the session is gone (comment at `connectors.rs:131`) and leaves it running |
| | `DisconnectedStaysOff` | the restore of the start records a session it was setting up after the user disconnected the connector; `Connectors.tsx:61` "disconnect to keep a service off" |
| | `EditedIsDisconnected` | a server that is still being connected may be edited or removed, and its session of the old configuration is recorded; `connectors.rs:917` says to disconnect first |
| | `TokensAreTaken` | `connect_connector` asks `preset_credential` about the name of the vault's entry (`connectors.rs:1287`), so no API token is ever saved |
| | `CancelledLeavesNothing` | a sign-in cancelled while its answer is written has saved its account (`oauth.rs:154`) |
| | `NoneOutlives` | the exit ends the sessions of the hub and not those being set up; `connectors.rs:1178` says what it is there for |
| `Subscription`, constants of `MCAccess` | `NoChangeUnderTurn` | a sign-in takes its own lock and not the gate (`commands.rs:664`); `lib.rs:132` says a credential change cannot run while a turn is in flight |
| | `DisconnectedStays` | a probe's refresh saves the session again after a disconnect |
| | `AccountOfToken`, with `Accounts = {"a"}` | the account is read from the vault after the token, and may be another session's |
| `Debugger`, constants of `MCHelpers` | `StoppedIsStopped` | a control that crosses the notice of a stop leaves the phase `stopped` while the debuggee runs |

### 5.3 Also seen while modelling

- When the snapshot of a prepared turn fails, its run stays `preparing` and its message
  `streaming` until the next start.
- A turn woken by another's controls can end with its message paused and its run cancelled.
- A model pause of one conversation stops the calls of another at its next check.
- A cancelled task whose turn goes on gets `running` rows that no restart recovers.
- A pause with a prefetched read in hand opens a "not started" row for a call that ran.
- A call a hook blocked is not recorded in the ledger.
- Manifests left under their temporary name count against the journal's bound of entries.
- A tree operation removes an emptied parent directory while a manifest under it is pending.
- A fork asks for 10000 events of a log whose reader returns at most 5000 (`store.rs:1968`).
- Startup recovers `runs` (`store.rs:588`) and not `subagent_runs`.
- A refused update of a task keeps the dependencies it had already written; a task in progress
  may be given dependencies, or be reopened, without the check of `tasks.rs:5`.
- Rules are asked at `chat.rs:2828` only: nested calls of a program, a child's calls and
  prefetched reads are not asked, and a patch is judged by its first path.
- The members of a parallel group ignore the plan's deadline, and each is charged before its
  replay check.
- Events completed in a chunk before a byte that refuses the stream are lost.
- The start of a debugger may drop the reservation of another that has not locked its slot yet
  (`debug_tools.rs` 476, 496); any refused argument or stale reference closes the session.
- A sign-in to a subscription saves no account identifier, which an import does.
- The journal of rehearsals takes 128 records and never shrinks.
- A draft typed while a send fails replaces the prompt that was not sent (`Chat.tsx:511`); the
  saved draft is cleared before the message is accepted, so closing the program in between
  loses it.

## 6. What is not modelled

- *Within the modelled parts.* Database writes do not fail, except where the code turns
  the failure into a way out that is modelled. The model's text, tool arguments and results
  are choices. `restart_generation` in mid-turn, which no caller in the interface uses
  (`api.ts:250`), is left out. In `ResearchLedger` no two stamps share a millisecond and a
  crash does not fall into the recovery itself. In `ReadGroup` the identifiers of a
  response's calls are distinct, no call is blocked at the start, and the history of
  calls is empty or two equal ones. `WorkspacePatch` is one transaction over distinct
  names; the durability of a parent directory's entries, `format_changed_file` after a
  commit and tree operations are left out. `Subagents` has no mailbox, `Snapshots` no
  `prune` (only tests call it), `Runtime` no planning of a launch, `ModelStream` no calls
  written as text and no replay of native content, `PermissionRules` no prefixes of
  commands and hosts, `Ptc` no expressions: a plan's next statement is a choice. One message
  is one unit of context in `Compaction`. `Debugger` has no registry of sessions, no bounded
  queue of events and no transport. `Connectors` has no tool lists and one configuration format,
  `Subscription` one provider. `Interface` has no model actions, saved tools, exports,
  attachments and navigation by history, no deletion of the single active conversation, and no two
  sends at once (which a send that overtakes a resume would make).
- *Cloud sandboxes.* `local_only.rs:15` always answers an error, so `daytona_execution.rs`
  leaves before it writes its first record: the protocol of ownership cannot be reached
  at this commit.
- *Pure data.* Formatting, parsing, prompt layout, GGUF and hardware inspection: functions of
  their input, well served by unit tests.
- *Other programs' protocols.* Language servers, debug adapters, browsers, identity providers
  and databases, beyond what the modules above assume of them.
- *The interface beyond `Interface`, and the web worker.* Stop, pause and approval are the
  environment's actions in `ChatTurn`; rendering is not modelled. The worker is a
  pipeline over external pages with one request and one answer towards the turn.
- The parts of section 7 that have not been written.

## 7. The plan

Written, in this order: `TurnLocks` with its abstract table; `RunStates` and `ChatTurn`, since
everything else happens inside a turn; `ResearchLedger`, the state that outlives it;
`ReadGroup`; `WorkspacePatch` with its abstract patch; their proofs; then what surrounds a turn:
`Subagents`, processes, snapshots, downloads, the local model and rehearsals (`MCResources`,
with proofs), what a round goes through with the window and the installers (`MCHelpers`), and
connectors, credentials, language servers and the answers of a model (`MCAccess`).

Left, with the most consequential first:

| part | question |
|---|---|
| session events and forks (`store.rs`) | does a fork of a long conversation keep every event it should |
| retries of a request (`inference_retry.rs`) | is nothing retried after a response was handed on |
| failing database writes in `ResearchLedger`; several transactions, tree operations and the editor's save in `WorkspacePatch`; the mailbox in `Subagents` | extensions of what is here |
| `ChatTurn` over `TurnLocks` in place of the lock it takes as one step | a composition |
