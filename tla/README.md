# Verification of ascentia-core

TLA+ models of the agent server in `src/`: what one user turn does, how turns
share a session, how the prompt is put together and cut to its budget, how
messages reach the server, how long-term memories are written, consolidated and
recalled, and how settings reach the running process. TLC checks
small instances; TLAPS proves the theorems listed below for every value of the
constants. `PROJECT.json` holds the runs, the mutants, the map from definitions
to source lines, the findings, the hazards and the theorems.

## The system

| Part | State | Operations | Hard because |
|------|-------|-----------|--------------|
| ReAct loop (`pkg/agent_core/loop`) | transcript, round and failure counters | ask the model, execute a batch, hooks | any tool or model call may fail; the client is told about each phase |
| Chat turn (`internal/runtime/service.go`) | locals of `ChatStream` | append, get, prepare, loop, append, extract | turns of one session interleave; restart in the middle |
| Short-term memory (`internal/session`) | a bounded list per session key | Get, Append | Redis pipelines interleave and fail silently |
| Turn preparation (`engine.go`, `sidequery.go`) | none | recall, assemble, compact, build registry | an optional part may be missing or fail; two queries see two tables |
| Planner (`pkg/agent_core/planner`) | a todo list per session | replace the list, mark a task, name the focus | a turn uses ids it saw in its prompt; ids come from the model |
| Compaction and pruning (`pkg/agent_core/compaction`) | none | `MaybeCompact`, `Prune` | tool rounds must stay whole; a stored text is pruned again |
| Thinking splitter (`pkg/agent_core/thinking`) | mode, carried-over end of a chunk | `ProcessChunk`, `Flush` | a tag may be cut anywhere |
| Gateway (`internal/gateway/ws`) | connections, their writers | handshake, read loop, ping | two goroutines per connection, clients that vanish |
| Rate limiter (`ratelimit.go`) | time stamps per IP | `allow` | clock read before the lock |
| Long-term memory (`memory_store.go`, `memorywork`, `write_memory`) | PostgreSQL rows per session and key | upsert, list, replace in a transaction | a pass reads, asks a model, then rewrites |
| LLM client (`internal/llm/client.go`) | per stream: text, one accumulator per tool call | `StreamChat` | chunks of several calls interleave; the stream may end or fail anywhere |
| Configuration bus (`main.go`, `configbus`, `configenv`, `core_settings.go`, `from_env.go`, `holder.go`) | process environment, Redis snapshot, the client in use | merge at start, subscribe, merge and rebuild on a notice | notices are lost or early; variables are set one by one |
| Usage accounting, skill catalog, NATS tools, test doubles | usage rows, tool registry | | see "Not modelled" |

A connection's handler goroutine reads a message, asks the rate limiter, and
calls `ChatStream`, which uses the session store, the engine and the loop, and
starts an extraction goroutine. A ticker in `main` runs the consolidation pass.
Nothing but the store's own mutex, Redis and PostgreSQL orders these. A NATS
subscription reloads settings at any time and swaps the client under running
turns.

What makes each part correct: the loop leaves a transcript the provider accepts
and makes a bounded number of calls; a session holds the latest messages in
order, and nothing of a turn that failed but its question; a turn answers its own
message; compaction drops as little as needed, in whole rounds; the limiter
keeps its budget and refuses nobody else; one goroutine writes to a connection
at a time and none outlives it; a pass replaces memories whole or not at all
and loses nothing the model has not seen; a recall gives memories that are up to
date, each once, and leaves no place empty; a task that is done leaves the focus;
pruned text is recognisable as such; tool calls are put together from their own
fragments; no chunking of a stream changes what is thinking and what is text; no
client is built half-way through a merge, and the last change arrives.

## Modules

`TurnContract` is the abstract promise of a turn: rounds that succeed or fail,
ended by an answer, a model error, an open circuit or the round limit. It has no
counters; the outcome is a function of the history of rounds.

`ReactLoop` models `Run` and `RunStreamed` (constant `Streamed`). `pc` is the
place in the loop; `Delta`, `ModelError`, `Reply`, `ExecTool` and `EndBatch` are
its steps; `segs` and `status` are what the hooks told the client. Texts are
classes (blank, zero-width, visible), because the code distinguishes those.
`Contract` instantiates `TurnContract` with the loop's history.

`ChatSession` models `ChatStream` over `session.Store` for several handlers. An
in-memory `Append` is one step; a Redis pipeline is one step per command. The
loop inside is its result: an error, or tool rounds and an answer, which is what
`RoundsAnswered` and `FinalEndsWithAnswer` of `ReactLoop` establish. `log` is
history: what was pushed to a session since it was last lost. `pg` says whether
the memory store could be opened when the process started; a restart asks again.
`Faults`, `Restarts`, `Exclusive` and `DatabaseURL` say which environment a run
looks at. A session's key may expire at any moment, as `SESSION_TTL_SECONDS` can
be shorter than a turn. `backend` is the store the process was configured with:
`Init` picks it from `Backends` and no step changes it.

`Compaction` models `MaybeCompact`, one step per dropped block. A message
carries its estimated tokens. `MCCompaction` builds the prompts: a system
message, an optional tool result left by the trimming of the session store,
blocks of several shapes and sizes, and the user's message, as `PrepareLoop`
puts them together. The pass is deterministic: the nondeterminism is the prompt.
`WellFormed` says what such a prompt has (its results belong to the reply before
them, and it ends with the user's message); an ASSUME of `MCCompaction` lets TLC
check it of every prompt of the run.

`ToolPruning` follows one tool result through `TruncateToolPruner.Prune`: pruned
when the tool returns, stored, and pruned again for every later prompt, under
the limit of the process at that time. A text is the sequence of its rune
numbers, with negative numbers for the ellipsis, so that a piece of an ellipsis
can be told from the tool's own text.

`Recall` models `SideQuery.SelectForTurn`: a step for each of its two queries,
with the upserts and the consolidation pass of `LongTermMemory` in between, here
by what they do to rows, `created_at` and ids.

`Planner` models the todo store, the tools `update_todo` and `mark_task_done`,
and `FocusPrompt`, for turns of several sessions, which may overlap.

`ThinkingSplit` models `ProcessChunk`, one step per round of its loop, and
`Flush`, against `Demux`, which reads the uncut stream one character at a time.

`MCTurnParts` checks the previous five and `StreamChat` side by side. They share
no state, so each behaviour is one of one part.

`RateLimiter` models `allow` in two steps, the clock and the locked part. A
list is a set of numbered admissions, as its order is never used.

`Gateway` extends `RateLimiter` with the connections: handshake, read loop,
validation, turn (a bounded number of frames), the writer's mutex, the ping
goroutine, the loss of the client, and a client that stops reading while its
connection stays up: a write to it does not end. Its run checks the limiter's properties
as well, with the handlers as the limiter's callers.

`StreamChat` models `llm.Client.StreamChat`. `plan` and `sent` are the provider:
the calls it means to make and how much of each it has sent. `accums` is the map
of the code, by index. A fragment of arguments is a pair of numbers, so a
fragment that ends up in the wrong call or place shows. `first` is the index the
provider starts to count from.

`SessionClients` composes `ChatSession` with the clients and connections in
front of it: a client sends ahead on its connection, whose handler reads one
message after the other; the connection may break while its turn runs on; and the
client connects again when its session is at rest. It shows that this discipline
is what `ChatSession` calls `Exclusive`.

`ConfigBus` models the life of a setting: the environment, the settings table
and the Redis snapshot merged at start, the client `main` builds, and the callback
of the subscription, with a step for the read of the snapshot, for each variable
set, and for the rebuild of the client. A value is the number of the change that
gave it. `wholes` and `missed` are history. Of the many settings, two stand for
those the client is built from (one of them required) and one for the others.

`LongTermMemory` models the rows of one tenant. A row is the number of the write
that made it. The database is modelled from its use: READ COMMITTED, one unique
key, locks on rows deleted or inserted by an open transaction. The pass is one
step per call: list sessions, list rows, ask the model, DELETE, each INSERT,
COMMIT. Any call may fail; the process may crash; the answer to COMMIT may be
lost after it took effect.

`*_proofs` modules extend these with theorems. Operators that vary a definition
(`TrimLate`, `CommittedAll`, ...) stand just before it; they are plausible
bugs, and for each property one of them must make TLC find a violation.

## Runs

| Run | Asks | Bounds |
|-----|------|--------|
| react_rounds | transcript, client view and number of calls of a streamed turn, refinement of `TurnContract` | two rounds, breaker at two, so both limits fall due together; batches of two calls, known and unknown tools |
| sessions | shared sessions of both backends, restarts; over Redis interleaved pipelines, faults, expiry, starts without PostgreSQL | two handlers, two sessions, two messages, a list shorter than a turn |
| session_pipelined | own answer, order of the conversation, one turn at a time | two sessions over Redis, three messages, connections that break |
| turn_parts | compaction, recall, focus, pruning, assembly of tool calls from interleaved chunks, splitting | three blocks of one to three messages, two sizes; three memories and two writes or passes; two turns, sessions and lists of two tasks; six limits around an ellipsis of three runes, results of twelve; three calls of up to two fragments, with and without a name, counted from 0 or 1; all streams of eight characters over four, in chunks of up to four |
| gateway_connections | budget and refusals, one writer, settled messages and released goroutines | two connections of one IP, budget of one in two ticks, delay of a tick, a frame per turn |
| memory_pass | atomic replacement, explained losses, the pass ends | two sessions, three keys, a listing of two rows, jobs and replies of two items, duplicates included |
| config_reload | clients of whole merges, no setting goes back, settings arrive | three settings, two snapshots, two callbacks, a restart, lost notices and failed reads |

The bounds are the smallest at which every branch is taken: the list overflows
within a turn, two pipelines overlap, the model repeats a key or a task id, a
write falls in each phase of the pass and of a recall, a refused and an admitted
message meet in one window, both tags are cut in every place, a second snapshot
comes while the first is applied. `MaxSent`, `MaxBatch`, `MaxTime`, `MaxDelay`,
`MaxMsgs`, `MaxFrames`, `MaxWrites`, `MaxCalls`, `MaxFrags`, `MaxPieces`, `MaxText`,
`MaxBlocks`, `MaxFirst`, `MaxMerged`, `MaxTasks`, `MaxPlans`, `MaxResult`,
`MaxChunk`, `MaxUpdates` and `MaxRestarts` are such bounds. `MaxDelay` is also
the limiter's hypothesis: how long a goroutine may be held up between
`time.Now()` and the lock. A breaker whose streak is reset in between needs more
rounds than react_rounds has; the theorem `ContractImplemented` covers it.

Runs that refute what the repository says of itself (the findings):

- session_optional_pg: without PostgreSQL the side query panics (a nil pointer
  in an interface).
- session_shared: of two turns of one session, one may answer the other's
  message.
- memory_lost_update: a memory written after a pass has listed its session, and
  before its DELETE, is lost.
- compaction_min_tail: `heuristic.go:31` calls `MinTail` the minimum number of
  messages to keep; a whole round is dropped as long as there are more, so fewer
  may be left.
- recall_hits: `sidequery.go:15` merges keyword hits "for better recall coverage";
  an older hit is always cut in favour of newer rows that do not match.

Observations from the reading that need no run: the breaker counts rounds with
a failed tool, while `errors.go:6` speaks of consecutive tool failures
(`TurnContract` states what the code does); the extraction is given
`out[preLen:]`, which never holds the user's message its prompt asks about;
a round with an empty call id is not dropped whole, which is the
exception in `WholeRounds`; a stream that ends early is returned as a success with
incomplete calls, while the comment of `StreamChat` speaks of completed blocks
(`PartialReply` states what the code does); of a provider that counts its calls
from 1 the last call is dropped, which is the exception in `WholeReply`.

About the parts around a turn:

- A snapshot written between the merge at start (`main.go:67`) and the
  subscription (`main.go:212`) is not applied, and nothing merges again once the
  subscription stands: the exception `missed` in `EventuallyInSync`. A reload
  during start changes the variables between two reads of `main` that belong
  together (`main.go:313` and `main.go:331`, the mode and the token). Settings
  like `MAX_TURNS` are read once, so a reload changes the variable and not the
  behaviour, while `docs/en/CAPABILITIES.md:67` speaks of hot-reloading the
  white-listed variables. A key that a later snapshot leaves out keeps its value
  until the next start (`apply.go:63`), so a client may have the address of one
  snapshot and the key of an older one: `ClientWhole` is about whole merges, not
  about one snapshot.
- An upsert keeps `created_at` (`memory_store.go:63`), so a memory that was just
  changed counts as old in a recall.
- A turn that marks a task by the id in its prompt marks whatever task has that id
  by then: another turn of the session may have stored another list.
- Trimming by message leaves tool results without their reply at the head of a
  session; `WholeRounds` excepts such a history.
- `MarkDone` marks the first of several tasks with one id; the second stays in
  focus, the exception in `DoneLeavesFocus`.
- A result pruned under a small limit stays so when the limit is raised: the
  pruned text is what is stored.
- A restart in the middle of a Redis pipeline can leave a tool call without its
  result in the stored session.

Two turns of a session overlap whenever a client uses two connections, or
reconnects while its turn still runs; session_shared shows what follows.

Deadlock is checked where the system runs forever (`LongTermMemory`). A turn, a
compaction and a closed connection stop, and clients may fall silent: those
configurations turn the check off.

## Fairness

Three properties are about what eventually happens.

- `PassEnds`: weak fairness of the steps of a pass, whose context has a deadline of
  15 minutes, so that each of its calls returns, with an error if need be.
- `ConnectionsSettled`: in `Gateway`, strong fairness of taking the writer's mutex
  (`sync.Mutex` hands over to a waiter after a millisecond) and weak fairness of
  the other steps. A write has no deadline (`writer.go:19`): it ends when the
  client reads or its connection breaks, and not while the client is stalled, which
  is the property's exception. The model's HTTP client has a timeout; the queries
  of a turn run on the request's context without one, so that PostgreSQL answers
  or fails is an assumption about the environment.
- `EventuallyInSync`: weak fairness of `main` and of the callback: their Redis calls
  have deadlines, and the NATS client hands over what is queued.

Clients, the control plane, the clock, restarts and writers of memories get no
fairness. That a turn returns is not claimed: its writes to the client and its
queries have no deadline. What the code does guarantee is that a turn makes a
bounded number of calls, the step property `TurnShrinks`.

## Proofs

The theorems are of the specifications without fairness and hold for every value
of the constants, under the named ASSUMEs of the modules. A theorem with a
hypothesis of its own says so below. Every safety and every step property of a
passing run is stated by one of them.

- `ReactLoop_proofs`: `TypeCorrect` proves `TypeOK` with `ControlInv`, which ties the program counter,
  the current batch and the end of the transcript together.
  `RoundsAnsweredAlways` needs it: that a round is complete follows only if the
  transcript is known to end in exactly `next - 1` results of the batch.
  `FinalEndsWithAnswerAlways` follows from it too. `ClientSawRepliesAlways` adds
  `SegmentsInv` and `StatusInv`: what the hooks have told the client so far, at
  each place of the loop, is what the transcript up to there calls for.
  `TurnShrinksAlways`: the rounds left and the calls left of the batch, weighted by
  the longest round, go down with every step but a delta. `ContractImplemented`
  maps init and every step to `TurnContract`, with the
  failure counter as the length of the failed streak.

- `ChatSession_proofs`: `TypeCorrect` has `TurnInv` (a busy handler has a turn). `StoredIsRecentAlways`: a
  push extends store and log alike, and a trim keeps an end of the list at least
  `MaxMessages` long; `StoreBoundedAlways`: the last command of an append trims.
  `OnlyAnsweredStoredAlways`: what a handler has still to push is its question, or
  what its loop returned, once it is at the second append; a turn has one handler.
  `RoundsContiguousAlways` is about the in-memory store (`backend = "memory"`): Redis
  pipelines interleave within a round. `AnswersOwnMessageAlways` and
  `ConversationInOrderAlways` assume `Exclusive` and no `Faults`, without which the run
  session_shared refutes the first. Their invariants `AskedInv` and `OrderInv` say, for
  each place of a handler, which end of the stored list is its own turn; `OneOnKey`
  (one busy handler per session key) keeps the others away from it.

- `SessionClients_proofs`: `OneTurnAtATimeHolds` shows that clients that keep to one connection implement
  `ChatSession` with `Exclusive`, so the hypothesis above is met:
  `ClientsAnswered` and `ClientsInOrder` state its consequences. `ClientInv` says
  who is served by which handler.

- `Gateway_proofs`: For the limiter, `LimiterInv` strengthens `WindowBound` with `Punctual`
  (stamps are at most `MaxDelay` old) and `Lists` (every admission younger than
  the window less the delay is still in its list, which never exceeds the
  budget). `WindowBoundAlways` and `RefusalsJustifiedAlways` follow.
  `ServerUsesLimiter` proves that the server implements the limiter's
  specification, every step one of the limiter or a stutter, so both hold of the server
  (`ServerKeepsBudget`, `ServerRefusesJustly`). `OneWriter` is inductive
  once its states are typed (`WriterInv`): `OneWriterAlways`.

- `LongTermMemory_proofs`: `PassInv` says the replacement is not empty when the transaction opens and that
  an open transaction still has something to insert or has inserted something;
  `NeverEmptiedAlways` and `AllOrNothingAlways` follow. `LossInv` says that
  until the DELETE every row of the session was listed, written since or beyond
  the LIMIT, and after it the same of the deleted rows; `LossExplainedAlways`
  follows at the COMMIT.

- `ConfigBus_proofs`: `ConfigInv`: at most one callback is not idle; a value that may still be
  overwritten is no newer than what overwrites it, be it the table, a snapshot
  that was read or the one in Redis; a client is only built when no merge is under way, from an
  environment that was whole; a running process keeps the settings a client needs.
  `ClientWholeAlways`, `RebuildSucceedsAlways` and `NeverOlderAlways` follow. That some setting is required
  (`KeysAssumption`) is what `from_env.go` asks.

- `StreamChat_proofs`: `StreamInv` says that each accumulator holds exactly what was sent of its call,
  however the chunks interleave. `PartialReplyAlways` and `WholeReplyAlways` follow
  with what `Collected` returns of such a map.

- `TurnParts_proofs`: `DoneLeavesFocusAlways` of `Planner`; `PruningHonestAlways`, from what one `Prune`
  does to a whole or an already shortened text; `PlacesUsedAlways` and
  `StaleExplainedAlways` of `Recall`, whose `RecallInv` keeps
  that a memory does not change its age while its id is there. For `Compaction`, `CompactInv` says that what is left is
  the history less `dropped` messages, that every cut was needed and none
  falls inside a round, and `BudgetInv` what the loop's last test found;
  `KeepsNewestAlways`, `DropsOnlyNeededAlways` and `BudgetOrTailAlways` hold for
  all prompts, `WholeRoundsAlways` for well-formed ones. For `ThinkingSplit`,
  `SplitInv` speaks of every way the stream may go on: the reading of any
  extension is what was handed out, followed by the reading, in the
  parser's mode, of what is held and what is to come (`ReadSoFar`). It must, as a
  later chunk decides whether the held end is a tag. `SplitRightAlways` is the case
  in which nothing more comes.

Two recursive functions occur in these theorems, `Tokens` and the reference `Demux`.
The library's induction rules cannot be instantiated, so what they compute
(`TokensSum`, `ReadingExists`, `DemuxReads`, `Walk`) is proved from the least
place where it would fail (`LeastOf`, from the well-foundedness of `<`).

Only model-checked: everything under fairness (`ConnectionsSettled`, `PassEnds`,
`EventuallyInSync`), which the prover does not handle, and the five violations.

## Not modelled

Prompt wording, ranking and formatting of memories, token and origin checks
beyond accept or reject, HTTP and SQL themselves, titles and parents of tasks,
usage rows (one INSERT per completion that nothing reads back), the skill catalog and
its NATS publishing (one request, no state kept), test doubles. `Store.Replace`,
`Engine.Run`, `Engine.RunStream` and the unscoped `Write` and `Read` of the
memory store have no caller in the server. What a NATS tool or an HTTP backend
does is a result or an error in `ReactLoop`.

## Plan

1. Done: loop, sessions and their clients, compaction, pruning, recall, planner,
   splitter, limiter, gateway, streamed completions, long-term memory,
   configuration bus.
2. Done: a theorem for every safety and step property of a passing run, the
   refinements `ContractImplemented`, `OneTurnAtATimeHolds` and `ServerUsesLimiter`.
3. Left: the safety half of the remaining liveness arguments (what each fair step
   needs to stay enabled and a measure it lowers, as `TurnShrinks` has for the
   loop: items left for `PassEnds`), and shorter proofs where lemmas of two
   modules overlap.
