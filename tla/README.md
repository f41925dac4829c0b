# Verification of the NInfer engine

TLA+ models, TLC runs and TLAPS proofs for NInfer, a C++/CUDA inference engine
for Qwen3.6 models with an OpenAI- and Anthropic-compatible HTTP server. All
source paths are relative to the workspace (`src/` is the repository, so the
engine's code is under `src/src/`).

## 1. The system

A client's request passes through these parts.

| part | source | state | operations |
|---|---|---|---|
| HTTP server, generation service | `serve/http_server.cpp`, `serve/generation_service.cpp`, `serve/responses_http.cpp` | request capacity leases, the stream of each response | admit a request, fetch media, prepare, generate, stream, cancel on disconnect |
| response store | `serve/response_store.cpp` | LRU of stored responses that share context blocks, byte total | put, get, erase, evict |
| frontend | `targets/qwen3_6/impl/frontend/` | tokenizer, chat template, per-request output session | prepare a prompt, decode tokens to text, find stop sequences |
| media preprocessing cache | `.../frontend/media_cache.cpp`, `processor.cpp` | LRU of ready items, table of flights, live-byte account, preparation gate | acquire permit, begin, build, allocate, await, evict |
| host worker pool | `core/host_worker_pool.cpp` | bounded FIFO, active count, stopping flag | enqueue, take, finish, stop |
| concurrent executor | `runtime/engine/concurrent_executor.h` | queue, lanes, staged prefill, protection, capacity counter, per-request result | submit, wait, cancel, abandon, expire, admit, prefill step, decode round, fail, stop |
| admission policy | `runtime/engine/admission_policy.cpp` | none (pure) | protect a head, classify backfill |
| Program (lanes) | `targets/qwen3_6/impl/runtime/` | the sequence of every lane: frontiers, checkpoint, pages, state slots, drafter caches | plan, start and advance prefill, decode with or without drafts, resolve, retain, evict |
| paged KV pools | `core/paged_kv_cache.cpp` | free list, counters, block table, allocations | reserve, map, trim, resize, bind, release, move |
| KV capacity, request memory | `runtime/engine/kv_capacity.cpp`, `request_memory.cpp` | byte budgets | resolve the page count, activate a transient region |
| artifact loading, device layout, CUDA operators, command line | `artifact/`, `core/`, `ops/`, `apps/` | files, device memory | load, bind, launch |

How they interact: HTTP threads call the service, which takes a unit of request
capacity, prepares the prompt (the frontend may run media tasks on the worker
pool) and submits it to the executor. The executor has one worker thread. Caller
threads and the worker share `queue_mutex_` (queue, capacity, flags), one mutex
per request (output, result, the two capacity flags) and the atomic `cancelled`.
The worker alone drives the Program, and the Program alone changes the pools.

What is hard here:

* the hand-over between callers and the worker: capacity reserved in one critical
  section and used in another; a completed request whose caller is leaving at the
  same time; an executor that stops or fails between two critical sections;
* admission: a head that does not fit is protected while smaller requests overtake
  it, some for good and some on credit, and the donors, borrowers and candidates
  come and go, are cancelled or expire at any moment;
* plans cached per lane, which go stale when the lane's sequence changes;
* entitlements promised at admission that have to be honoured many rounds later;
* continuation: a lane's KV cells, recurrent state, hidden row, drafter cache and
  checkpoint advance at different moments of a round, are cut back to what the host keeps,
  and must all stand at the same token when a later prompt continues the sequence;
* text held back because it may become a marker, a stop string or a tool call: shown too
  early it cannot be retracted, held too long the final object disagrees with the stream;
* answers that are stored, logged and streamed by separate steps of an HTTP thread whose
  client may leave between any two of them;
* an internal exception anywhere in the worker ends service for everybody.

`PROJECT.json` lists these hazards line by line.

## 2. Modules

| module | models | used by |
|---|---|---|
| `PagedKVPool` | the pools and their allocations | `MCPagedKVPool`, `PagedKVPoolProofs` |
| `PagedKVPoolProofs` | TLAPS proofs for every number of pools, pages, rows, allocations | |
| `AdmissionPolicy` | the pure functions of the policy | `Executor` |
| `Lifecycle` | abstract: what the engine promises a caller, without lanes, pages or threads | refined by `Executor` |
| `Executor` | callers, worker, admission, units, completion, failure, shutdown | `MCExecutor` |
| `RequestPlan` | planning: prefix identity, reuse paths, checkpoint, entitlements, vision uses, work | `Program` |
| `Program` | the lanes: prefill, rounds of the three backends, resolution, retention, eviction | `MCProgram` |
| `MediaCache` | media phase of prompt preparation: gate, account, cache, flights, worker pool | `MCMediaCache` |
| `TextSearch` | find, find-first and the longest suffix that may begin a marker | `ToolCalls`, `OutputSession` |
| `OutputSession` | tokens to reasoning and content: UTF-8, markers, stop strings, preview and commit | `MCOutputSession` |
| `ToolCalls` | the tool-call parser and its stream filter | `ReplyStream` |
| `ReplyStream` | one streamed reply through the sink and the three encoders, and the client's view | `MCReplyStream` |
| `ResponseStore` | the LRU store of responses with shared context | `Serving` |
| `Serving` | the HTTP handlers of the three endpoints over store and request capacity | `MCServing` |
| `MC*` | finite instances | the `.cfg` files |
| `DataTheorems` | proved lemmas on numbers, ranks and sums over finite sets | the proof modules |
| `ExecutorProofs` | capacity, places and returns of the requests of `Executor`; it implements `Lifecycle`; plans, prefill ownership, protection and credit | |
| `ProgramLemmas` | the invariant of the lanes of `Program`, and the rounds of decoding | `ProgramProofs` |
| `ProgramProofs` | checks, pages and work of `Program`: prefill, reuse, the theorems | `ProgramSound` |
| `ProgramSound` | what the device holds for the lanes of `Program` is right | |
| `ServingProofs` | capacity, store, streams and conversations of `Serving` | |
| `MediaCacheProofs` | frames, cache, live bytes and isolation of `MediaCache` | |

Operators whose comment begins with "Mutant" are plausible bugs of the operator
that follows them. Nothing in the specifications uses them; each is there to show
that a property fails when the code is wrong in that way.

### PagedKVPool

One variable per field of `PagedKVPool` and `PagedKVAllocation`. An action is one
public member function, and `reserve_paged_kv_bundle` / `resize_paged_kv_bundle`
work on any set of pools (a bundle of one pool is the plain call). `take_pages`
keeps its three placement rules (continue the run, lowest run, lowest pages).
`free_page_ids_` is sorted and free of duplicates, hence a set. Page contents,
zeroing and stream ordering are left out: the pools are used by one thread.

`fault` records the exception "entitlement could not be materialized". It is the
one exception a caller cannot avoid by checking first.

### AdmissionPolicy and Executor

A step is a critical section, or the stretch of the worker between two moments at
which it reads what callers change. `at` is the worker's program counter:

```
top --Boundary--> select --Select*--> admit --Admit--> step --Step*--> top
  |                                     \--AdmitWithdrawn--> decode or top
  +--> step (staged prefill)     +--> decode --DecodeRound--> top
  +--StopWorker--> stopped       (Fault, or an internal check: stopped)
```

`Boundary` is the top of `worker_loop`: expiry, cancellation of active requests,
the membership of the round and the choice of the next unit. `Select*` is
`try_admit_one`; `AdmitWithdrawn` and `Admit` are `admit_planned_request`;
`Step*` are `resolve_prefill_step`, and `DecodeRound` is `run_decode_round` with
any acceptance the budgets allow. Completions go through `SetDone`,
`MarkCompleted` and `WorkerFrees`, each a critical section of its own, so that
callers interleave with them; the worker goes on when they are done (`Settled`).
Callers go through `Reserve`, `Push`, `Wait`, `Poll`, `ReleaseConsumer` and
`CallerFrees`, or `Refuse`, `BuildFails`, `Abandon`.

`bug` becomes true where an internal check throws (`std::logic_error` and the
like); such a throw is a step of the model, with the `fail_all` that follows it.
An exception after which the request is in no container loses the request, in the
model as in the code.

Data abstractions: prompts are counted in prefill chunks and outputs in tokens; a
plan is told by the sequence it was made for; a retained lane keeps any number of
pages its request may have mapped; acceptance in a round is any number up to
`MaxAccept` within the budget; time is the event that a deadline passes. Output
text, timings and statistics are left out.

### MediaCache

`Process(r)` is the thread of one request in `Processor::process`: it takes a permit
(`AcquireRequest`), begins each part under the cache's mutex (`BeginPrepare`: hit,
waiter or producer), queues the builder of a miss (`Enqueue`, `SubmitFails`,
`Withdraw`), awaits its parts in order (`Await`, `AwaitStops`), releases the permit
(`EndMedia`) and tokenizes (`Encode`). `Task(f)` is a builder on a thread of the pool:
decode and claim, ask for bytes, evict or wait, fill and insert into the cache, publish
the result, erase the flight. Each is a critical section of the cache, of the account or
of the flight, so that a request can find a flight that is finished and not yet erased.

A flight and the payload it builds are named by the part that began it. `alive` is the
set of payloads the account counts; `Reclaim` is the deleter of the shared pointer and
runs at the end of every action that drops references. `ready` is the cache in LRU
order. Sizes are in units of bytes of one small item; patches, tokens and bytes of an item
are proportional. `Consume` stands for the engine, which gives the payloads of a prompt
back when they are encoded or the request has ended; that every request ends is
`CapacityComesBack` of the executor.

### Lifecycle, and why the executor implements it

`Lifecycle` has one phase per request (absent, reserved, queued, running, answered or
refused), the places taken, and whether the engine is open. `Executor` instantiates it with
a mapping computed from its own state: a request is running while it is in a lane,
answered when its result is set, and holds a place until the counter was decremented for it. `ImplementsLifecycle` is the abstract specification as a
property of `executor_life`: every critical section of every thread is one abstract step or
none. The abstract one says, among others, that an answer is final, that "cancelled" is
only the answer of a request whose caller asked for it, and that places and lanes are
never exceeded.

### RequestPlan and Program

The constants of an engine (context capacity, chunk, draft window, backend, lanes, pages,
and the prompts used) are a record, `engine`, chosen in `Init` from `Engines` and never
changed: one run then covers engines of different shape, as one binary does.

Device tensors are represented by what they were computed from (head comment of
`Program`), which turns "the continuation is numerically the one of its tokens" into an
equality TLC can check. A write to a column without a mapped page, and a failed internal
check, are recorded in `err`; page contents that go back to a pool are lost.

`StartPrefillLane` takes a plan of `RequestPlan` (no reuse, append to the retained
sequence, restore of its checkpoint) and computes the first chunk, `AdvancePrefillLane` a
further one, with the splits at the checkpoint and at the next picture, the MTP bridge and
the DFlash sink; `DecodeBatch` is one round of all ready lanes with any acceptance;
`ResolvePrefillLane` and `ResolvePendingBatch` are the decisions of the host, which may keep
fewer tokens, stop, or cancel; `AbortLane` and `EvictRetainedLane` empty a lane. The order
in which units come is the executor's: one staged prefill, a round resolved before
anything else.

The hand-over of lanes between `Executor` and `Program` is by the executor's rules, restated
as guards of `Program`; the two state spaces are not multiplied. `Executor` keeps of a lane what
admission reads (pages and the identity of the retained sequence).

### OutputSession

One session per request of a batch; `DecodeRound` previews every row and commits only when
no preview throws. A byte is a symbol and the closing marker has two; tokens split markers,
stop strings and the code point in every way. The reference definition for the properties
looks at the whole token sequence at once: where the first stop is, what reasoning and
content are.

A stray continuation byte throws in `preview` (`frontend.cpp:404`), which ends the round for
the whole batch (`fail_all`), although
`src/docs/maintainer/concurrent-inference-architecture.md:110` (2.8, per-request
isolation) says that output state must not affect the other requests of a batch. The model does what the code does; what each request had published is
still a beginning of its own output.

### ToolCalls and ReplyStream

`ReplyStream` takes a complete text and reasoning, publishes them in arbitrary pieces
through the filter to one of the three encoders, and applies every event to a client's view
that breaks on an event out of place. The properties compare with parsing the complete text.

### ResponseStore and Serving

A stored response is the conversation up to it; ancestors' context is counted once, so the
bytes an eviction frees depend on what else is stored. `Serving` gives every handler the
steps of the code (parse and lookup, acquire, prepare, start, run, put, log, write,
release), each with its failures, and lets the client leave between any two. Requests and
responses share an id; what the engine does inside `run` is the executor's model. A stream
is written by a provider that httplib calls; it does not call it for a client that is
already gone or once the server stops (`SkipProvider`, `Stop`), after the request was logged
as started. Such a request is never closed in the log. A request whose client leaves after
the generation is closed twice, as done and then with the error of the lost write. No
document of the repository says otherwise, so `OneTerminal` states both as they are. Every
finish reason but a cancellation is called completed: no action depends on it. The bounds
`MaxOthers` (requests whose response is not stored), `MaxDeltas`, `MaxLookups` and
`MaxDepartures` cap what clients do.

## 3. Runs

| run | instance | what it shows |
|---|---|---|
| `pool` | pools of 2 and 1 pages, 2 interchangeable allocations, 2 table rows | all pool properties, and bundles that fit one pool and not the other |
| `executor_life` | 3 requests, one lane, one queue place; one may be cancelled, one may expire or be abandoned, one cannot be planned; device errors and shutdown | capacity, placement, results, nobody left behind; the refinement of `Lifecycle` |
| `executor_backfill` | 4 requests in a backlog, 3 lanes, 5 pages; the protected head may be cancelled | protection, both kinds of backfill, drain, eviction, reuse, stale plans; no internal check throws |
| `executor_live` | 3 of them with shorter outputs, one may be abandoned; device errors and shutdown | every queued request is answered and every unit of capacity comes back |
| `media` | 3 prompts with a shared item, 2 permits, 1 pool thread, a queue of one, 6 live and 5 cached bytes; one broken item, one request may be cancelled or expire | frames, flights, accounting, isolation, and that every preparation ends |
| `media_hits` | a prompt over the budget, 2 live bytes, both held by cached items | **violated**, see below |
| `program` | five engines: one lane over four turns with MTP or DFlash, two lanes in tight pools with MTP, two lanes without drafter, prompts with pictures | soundness of continuation, checkpoint and drafter caches; checks, pages and work suffice |
| `program_rope` | a 2 x 2 picture and a later turn of text | **violated**, see below |
| `program_dflash_interleave` | two DFlash lanes | **violated**, see below |
| `serving` | 3 requests, 2 at a time, every endpoint with and without a stream, responses with and without a store (the streamed ones continue a conversation), at most one request that is not stored, room for 2 records or 9 bytes, one lookup, one departure, the server may stop | store, log, stream and capacity agree; deadlock is checked |
| `reply` | texts up to 4 free symbols or with markup, in every split, three encoders | nothing is retracted, and the client assembles the final object |
| `output` | two policies: reasoning with a hidden stop token (5 tokens, rounds of 2), content with a published one (6 tokens, rounds of 3) | output, stop position and reasoning count are those of the whole text |

Why the bounds are enough. Two pages and two allocations reach every branch of a pool but
the three-way placement preference; what depends on more is proved for all sizes (section 5).
The backlog instances start from a queue that submission builds when the worker is
slow (request 1 first, the others in every order); needs are chosen so that
request 2 cannot run beside request 1, either of requests 3 and 4 fits beside
request 2 for good but not both, and their projected work lies on both sides of
the credit. They reach protection, persistent and temporal admission, drain,
eviction of retained lanes and full prefix reuse. For `media`, 3 bytes per prompt and 2
permits are the least with which one permit more deadlocks. In `program` a page has two
columns and the window two drafts, so that a round begins, ends and is cut anywhere in a
page, prompts take one chunk or several, and a context of six to nine columns can be filled,
retained and continued; the prompts of a group continue, rewrite or diverge from each other. In `serving` the third response is
the first that has to evict.

Deadlock is not checked where all requests may simply have ended (executor, media,
program); that nothing gets stuck is what the liveness properties say there. The handlers
of `Serving` have no loops and their steps wait for nobody, so the deadlock check says that
each reaches its end. Each pass finishes in less than three minutes with two workers.

Every property has a mutant of a mapped definition that breaks it under the same
configuration (`PROJECT.json`, `mutants`).

### What `media_hits` shows

`docs/serving.md` says that the gate "prevents concurrent partial builds from
deadlocking the memory account", and the comment on `ConcurrentMediaBudget`
(`processor.cpp:267`) that the claim is made "so an invalid prompt cannot fill the
live-byte account and leave another worker waiting for memory that this same request will
never release". For prompts within the budget `media` confirms it. The claim counts
misses only. A prompt of the form miss, hit, hit, ... that is over the budget holds its
hits from `begin_prepare` on; they stay in the account when the cache evicts them, the
builder of the miss waits for bytes, and `process` awaits the miss before it comes to the
hits and finds the prompt too large. Without a deadline this never ends. The server
sets a deadline, so there the request ends in a queue timeout and not with
`media_budget_exceeded`, and it keeps its permit and a pool thread until then. With one
request this needs a cache about as large as the live capacity. With the defaults
(1024 MiB cached, 2048 MiB live, 384 MiB per prompt, five permits) it needs the hits of
one such prompt to hold the whole cache while four others are partly built.

### What `program_rope` shows

A prompt that continues a conversation with pictures, all of them in the reused prefix,
needs no Vision session (`request_plan_impl.h`, `program_impl.h:420`), so its suffix goes
through `prefill_text_chunk`. That builds a `TextContext` for the chunk, whose
`rope_delta_` is 0 and which only the multimodal entry assigns
(`text_context_impl.h:1081-1086`); the line writes that 0 over the delta that
`start_prefill` had put on the device. The suffix is rotated at its column index, while the
prompt's own positions, the prefix identity and every later decode round go on after the
maximum position of the picture. `src/docs/maintainer/qwen3.6-27b-model.md:366` says
"following text resumes after the maximum multimodal position".

### What `program_dflash_interleave` shows

The features of a prefill chunk are appended to the lane in row 0 of the DFlash ingress
frame (`text_prefill_impl.h:24`). `start_prefill` uploads the frame once; a decode round of
another lane between two chunks overwrites it, and the next chunk's features go into the
context of the lane that decoded. The output stays correct, since the target verifies every
draft; what is lost is the context the drafter proposes from.
`src/docs/maintainer/qwen3.6-35b-a3b-model.md:508` says "the persistent DFlash context
represents target-produced features". The passing run has DFlash with one lane, where it holds.

### Fairness

`FairSpec` assumes weak fairness of the worker thread and of a caller inside
`submit`, `wait_for_request` and `release_consumer`: these are running threads,
blocked only on mutexes held for a bounded time, or in a wait with a 10 ms timeout.
A holder of a `Submission` eventually waits for it or drops it, as its destructor
guarantees. Nothing is assumed of clients: nobody has to submit, cancel, or stop,
no deadline has to pass, and no error has to occur. A GPU unit is assumed to end.
In `MediaCache` the threads of requests and tasks are weakly fair, queued tasks are
taken while a thread of the pool is free, and the engine gives prompts back.
`Serving`, `ReplyStream`, `OutputSession` and `Program` are checked for safety only: their
progress is the executor's or the client's.

## 4. Properties

Pools:

* `EntitlementHonoured`: mapping within an entitlement never runs out of pages;
* `NoPageAliased`: no page is mapped twice, or mapped and free;
* `CountersExact`: both counters equal the sums over the allocations and stay within
  the inventory, so the unsigned subtractions of the admission checks cannot wrap;
* `TablePublished`, `RowsExclusive`: a bound row shows exactly the mapping of its one
  owner, and a row is marked in use exactly while it is bound.

Executor:

* `CapacityExact`: `outstanding_` counts, at every moment, each request under
  construction or not yet released, and each decision to release not yet executed;
* `RequestPlaced`: a queued request is in exactly one place until it is completed, and
  nowhere afterwards; a worker that has ended left nobody behind;
* `ReturnComplete`: the last output is never left behind the result;
* `ImplementsLifecycle`: every step is one of the abstract life of a request;
* `NoInternalError`: none of the checks that would fail the whole engine throws;
* `PlansHold`: cached plans match the lanes, entitlements fit the pools, and the projection
  covers what a request may still generate;
* `PrefillOwned`: the staged prefill has one owner, an active request in its lane;
* `HeadProtected`: when donors and temporal borrowers have left, the protected head fits;
* `CreditNeverGrows`: the work lent on credit plus the credit left never grows under
  one protection, which bounds how long the head can be overtaken;
* `CapacityComesBack`: liveness: a queued request is answered and its unit returned.

Media preparation:

* `FrameOutlivesBuilder`: a queued or running builder, which refers to the stack of
  `process`, never outlives it, whatever fails or is cancelled;
* `CacheExact`: one build per item at a time, an item is cached once, and the byte counter
  of the cache is exact and within its capacity;
* `LiveBounded`: live payloads stay within the live capacity, and what a request or the
  cache can read has not been freed;
* `Isolation`: a preparation fails only for a reason of its own or of a request it is
  connected with by shared items. A cancelled producer does fail the requests that joined
  its flight, and these fail the flights that they produce themselves, so that a failure
  may pass along a chain of prompts that share an item two by two, but never out of it;
* `AllocationEnds`, `PreparationEnds`: liveness.

Program:

* `ContinuationSound`, `CheckpointSound`, `MtpSound`, `DFlashSound`: what a lane counts as
  valid (text cells, recurrent state, tail; checkpoint; MTP columns; DFlash contexts) is
  that of exactly the tokens and media of its ledger;
* `RotaryPositions`: cells were rotated at the positions the prefix identity records;
* `ChecksHold`, `WritesMapped`: no internal check throws, and no kernel writes outside the
  mapped pages, with the pages promised at admission;
* `WorkCovers`: a running request has projected work left, however its prefill was split;
* `PagesAccounted`: promises over all lanes fit the pools, mappings stay within them, and a
  retained lane keeps what its frontier needs and no more.

Serving:

* `StoreBounded`: records, LRU list and byte count agree and stay within both limits;
* `EvictionInOrder`: a put evicts the least recently used, and no more than it must;
* `ContextWhole`: a stored conversation is whole, whatever was deleted in the meantime;
* `StoredBeforeTerminal`: who has read the end of a stored response can retrieve it, and
  what was reported as failed is neither stored nor logged as done;
* `OneTerminal`: one terminal event, the last; a handler ends with its log closed, by one
  record, by two only for a write lost after the generation, and with a start left open only
  if the provider was never called;
* `CapacityExact`: capacity counts exactly the requests between acquire and release.

Replies and output:

* `NeverRetracted`: streamed content is a beginning of what the complete text parses to;
* `RepliesAssembled`: the client's view ends as the final object (order, indices, texts, status);
* `OutputExact`: at the end a session has published exactly the reasoning and content of its
  tokens, before it a beginning that lags by no more than a marker or stop string may need;
* `StopsAtFirst`: a request ends at the first token that completes a stop, never past it.

## 5. Proofs

All theorems hold for every value of the constants that satisfies the named assumption of
the component; nothing else is assumed. Each module proves one inductive invariant and
reads the properties off it.

**`PagedKVPoolProofs`** (`PoolAssumption`: page counts, row lengths and the number of rows
are positive, the handles are a finite set) proves `TypeOK`, `EntitlementHonoured`,
`NoPageAliased`, `CountersExact`, `TablePublished` and `RowsExclusive`. The invariant is
`IInv == TypeOK /\ EntitlementHonoured /\ \A p : PoolInv(p)`. The properties are not
inductive one by one. That the free list is long enough for a mapping needs that free and
mapped pages add up to the inventory, which needs that no page is aliased and that the
counters are sums; that the counters stay sums needs that a handle outside `live[p]` has
no entitlement, no pages and no row (`PoolShape`), and that mappings never exceed
entitlements. `PoolInv` speaks of one pool, so that an action on one pool leaves the others
by a frame lemma (`PoolFrame`).

**`ExecutorProofs`** (`ExecutorAssumption`: positive limits, prompts and budgets, one lane per
request, a reusable prefix within the prompt, `NoRequest` and `Stale` are no requests; the
set of requests may be infinite) proves `TypeOK`,
`CapacityExact`, `RequestPlaced` and `ReturnComplete`. `IInv` consists of the types of
callers, requests and worker; `LifeOf`, which relates a caller's position to the flags of
its request; `Placement` (a queued request is in the queue or in exactly one lane) and
`WorkerPlace` (what the worker holds at each of its positions). The counter is a
cardinality of two kinds of request, and a caller and the worker may both be about to
release: `CapacityExact` is inductive only with `LifeOf`, and `RequestPlaced` only with
what the worker has taken out of the queue but not yet put into a lane.

Its last part, on admission, proves `NoInternalError`, `PlansHold`, `PrefillOwned`,
`HeadProtected` and the action property `CreditNeverGrows`, on top of `IInv`. The
invariant `AInv` adds that cached plans belong to the lane and resources they were made
for (`CacheShape`, `Projected`, `PlansCurrent`), that the pages of all lanes and
reservations fit the pools (`PagesHeld`), who owns the staged prefill (`Staging`), and for
admission that the decision taken in one step is still admissible in the step that
executes it (`Admissible`, `Frozen`, `Backfill`). The last group is the reason why no check
of the worker throws although several steps, in which callers cancel, lie between a
decision and its execution. `HeadProtected` is arithmetic on sums over lanes: what remains
beside the donors and borrowers plus the head stays within capacity.

Between the two, `ExecutorProofs` proves `ImplementsLifecycle`: the initial states map to initial
states of `Lifecycle`, and each action of `Executor` to a step of it or to a stutter under
the mapping of `Executor`. `LInv` adds `Dropping` to `IInv`: a caller that drops its request has
asked for its cancellation before, so that the drop is a stutter and not a second request.

**`ServingProofs`** (`StoreAssumption` and `ServingAssumption`: positive sizes and
limits, `None` is no id; the set of ids may be infinite) proves `CapacityExact`, `StoreBounded`,
`StoredBeforeTerminal`, `OneTerminal`, `ContextWhole` and the action property
`EvictionInOrder`. `SInv` has seven parts: `Types`; `StoreInv` (the LRU list and the records
agree); `Capacity`, which also counts a handler that prepares; `Handlers`, which says for
each position of a handler what its log, the events seen by its client and the store
contain (`Logged`, `Told`, `Kept`); `Journals`, the exact records at each position, with
whether the provider was called, which a departure or the stop of the server only weakens;
`History`, by which the LRU list has the order of use;
and `Talks`, by which a request only continues one that arrived before it. The last part
is needed because `ContextWhole` compares with a recursive function over the requests,
whose recursion has exactly one solution only if no chain of predecessors is circular.

**`MediaCacheProofs`** (`MediaAssumption`: finitely many requests, positive sizes, the
budget of a prompt within the live capacity) proves `FrameOutlivesBuilder`, `CacheExact`,
`LiveBounded` and `Isolation`. `MInv` adds `Walks` and `Awaited`: a flight that is not done
has its place in the pending items of the request that began it, at or after the one
awaited next, so that the loop over `pending_items` cannot end before it. `Unbuilt` (an
item in the cache has no flight that may still build it) keeps an item from being cached
twice, also while a finished flight is not yet erased. `BuiltAlive` carries a payload from
its allocation to the references that others take to it. `Claims` bounds what a request
has claimed by the sizes of its own flights, so that a prompt within the budget is never
refused, and with it `Blameless` follows a failure from its reason through stop flags and
flights. The proof corrected the property: `Isolation` used to allow the reasons of
requests that share an item directly, which chains of three requests violate.

**`ProgramLemmas`** and **`ProgramProofs`** (`PlanAssumption` and `ProgramAssumption`: positive
capacity, chunk and page size, a draft window exactly when there is a drafter, and every
prompt is one that `plan_request_base` accepts, with the checks of `request_plan_impl.h`
written out in `Accepted`) prove `ChecksHold`, `WorkCovers`, `PagesAccounted` and, for every
engine but a DFlash engine with several lanes, `WritesMapped`. `BInv` has one predicate per
phase of a request (`Prefills`, `Begun`, `Ready`, `Rounded`, `Rested`), each of which relates
the frontiers, the ledger, the entitlements, the mapped pages and the remaining work of the
lane; across lanes it says that the first token of a prompt is resolved before anything else
is pending (`Alone`) and that the entitlements fit the pools (`PagesFit`). None of the four
properties is inductive alone. A check of `start_prefill_lane` compares frontiers that an
earlier request left behind; that a round finds its pages needs the budget, because the
entitlement was computed from it when the request was admitted; and the number of prefill
steps left (`StepsLeft`) bounds the work only as long as the chunks are cut where the plan
counted a cut, at the first column that needs an item and at the captured frontier. The
restriction of `WritesMapped` is the finding of `program_dflash_interleave`: there a later
chunk writes its features through the table row of another lane.

**`ProgramSound`**, from the same assumptions and on top of `BInv`, proves
`ContinuationSound`, `CheckpointSound`, `MtpSound` and, for every engine but a DFlash engine
with several lanes, `DFlashSound`. These four speak of settled lanes only, and what they say
of a lane is decided long before it settles; `CInv` says for each phase what the device
holds. A lane that prefills is `Partial`: cells, recurrent state and backend cache are those
of the prompt up to the cursor, and so is the checkpoint once the cursor is past the place
where it is captured. A lane with its first token or an ordinary round pending is `Whole`
up to the column just computed. A lane with a speculative round pending is `Provisional`:
its cells, tail, MTP columns and pending features are already those of the sequence with all
licensed tokens, while the recurrent state is still the one before the round and the
columns to advance it by are kept. Resolving the round after any number of its tokens then
yields `Whole` again, because the committed sequence and the licensed one have the same
columns up to the new frontier (`SameColumns`), and cells past a frontier are never counted.
For reuse the argument runs backwards: a prefix that `plan_request_base` finds in a retained
ledger stands for the same columns in the new prompt, media items included, so what the
lane holds for the old sequence is right for the new one up to the reused frontier. No media
item reaches past a computed frontier (`ItemsEnd`), otherwise a generated token could stand
for a picture's column. The local DFlash context is a ring: `Ring` speaks of the slots of
the last `LocalCapacity` columns, of which an append may replace a part or all.
The restriction of `DFlashSound` is again the finding of `program_dflash_interleave`.

**`DataTheorems`** holds what these proofs share: the least and the largest number of a set,
sums over finite sets (an element more or less, a part, a split, monotonicity), and a walk
through a finite set of numbers by rank, with which `ExecutorProofs` counts units of work.
The prover cannot instantiate an induction schema with an operator; the lemmas are proved by
taking the least counterexample instead.

Only model-checked: liveness (`CapacityComesBack`, `AllocationEnds`, `PreparationEnds`),
which the prover does not support; and `ReplyStream` and `OutputSession`
(`NeverRetracted`, `RepliesAssembled`, `OutputExact`, `StopsAtFirst`), whose properties
compare with what folds and a recursive function compute over whole texts, which needs
induction over data. `RotaryPositions` is not an invariant: the
run `program_rope` shows its violation.

## 6. Plan

Done: `PagedKVPool`, `AdmissionPolicy`, `Executor` and its refinement of `Lifecycle`,
`MediaCache`, `RequestPlan`, `Program`, `OutputSession`, `ToolCalls`, `ReplyStream`,
`ResponseStore` and `Serving`, all model-checked; the proofs of section 5.

Left open: every safety invariant of the proved modules that a passing run checks is a
theorem. What could follow are proofs about `ReplyStream` and `OutputSession`, once the
prover supports induction over the texts they compare, and models of the parts in section 7.

## 7. Not modelled

* CUDA operators, device layout, decode graphs: numerics and launches; the Program's model
  keeps what they read and write, and at which column. They are most of the repository's lines.
* KV capacity resolution and request memory: one call at start-up, and one region at a time
  whose owner is `prefillLane` of `Executor`.
* Tokenizer, chat template, JSON parsing and validation of requests, log formats: sequential
  conversions without state.
* Artifact reading and loading, command line, benchmarks: sequential file and option code.
* Image arithmetic: a picture is its content, its columns and its positions.
* The engine facade: thin calls into the modelled parts.
