# talk2crm, verified

TLA+ specifications of the talk2crm gateway: what its concurrent parts do, what they
promise, and how far that was checked. TLC checks small instances, TLAPS proves some of
the results for every value of the constants. Every definition is taken from the source;
`PROJECT.json` (`map`) names the lines each one stands for. Paths below are relative to
the repository root (`src/` in `PROJECT.json`).

## 1. The system

A gateway between users and the CRM of their company (the tenant). Several worker
processes serve HTTP; each is one asyncio event loop, so code runs undisturbed from one
`await` to the next and everything that follows an `await` may find another state. The
workers share PostgreSQL (chats, overlays, snapshots, nonces, briefings) and Qdrant
(documents). The CRM and the language model are remote and may be slow, down or wrong.

### Components

| component | state | operations | modelled by |
|---|---|---|---|
| CRM tool calls (`app/tools/resilience.py`, `crm_provider.py`) | per tenant and worker: breaker (failures, opened_at, trial flag), semaphore | call, with admission, retry, verdicts, cancellation | `ToolCalls` |
| Tool manifest cache (`manifest_cache.py`, `snapshots.py`) | per tenant and worker: entry, lock; shared: snapshot row | get, invalidate, refresh, fallback, load and save | `ManifestCache` |
| Chat turns and pending actions (`pipeline.py`, `chat_service.py`, `endpoints.py`, `models.py`) | rows of chats and messages; the pending action is part of the newest answer | turn (agent, confirm, edit), record-created callback, PUT of the history | `ChatTurns`, `PendingSlot` |
| Edits of a pending action (`pending_patch.py`, `contracts.py`) | the proposal | reply that edits or not, preview of the edit | `PendingEdits` |
| Context of a turn (`pipeline.py`, `chat_service.py`, `form_tools.py`) | the context, put together from the front end and three reads of the chat | merge created record, pending action, picked entry; aim a write | `TurnContext` |
| Tool set of a turn (`toolset.py`, `capabilities.py`, `contracts.py`) | the turn's tools, the proposal | build, call, redirect, confirm, preview again | `ToolSets` |
| Agent loop and streamed turns (`agent.py`, `events.py`, `answer_stream.py`, `process_input_stream`) | loop round, steps, event queue, pipeline task, response generator | rounds, tool calls, deadline, delivery, cancellation | `AgentStream` |
| Chats and their titles (`endpoints.py`, `chat_titles.py`) | the chat's row and its lock | create, rename, replace, delete, title | `Chats` |
| CRM client and its session (`crm_client.py`) | per client: session; per worker: cached session of a user | call, refusal, login, retry | `CrmSession` |
| CRM lists and aggregates (`crm_read_service.py`, `crm_aggregate_service.py`) | rows read so far, offset | page, next spelling, count or sum | `CrmLists` |
| RAG ingest (`rag.py`) | Qdrant collection: a point per record | ingest (full, incremental, limited) | `RagIngest` |
| Search of records and products (`rag.py`, `tools.py`, `product_tools.py`) | rows found so far | text passes, vector pass, merge, variants, fall back to local files | `RagSearch` |
| Skill overlays and capture (`skill_service.py`, `skill_capture_service.py`) | overlay rows: pending, approved, inactive | upsert, capture, approve, deactivate, list, prompt | `SkillOverlays` |
| Daily briefing (`briefing_service.py`) | messages of the user's chats, advisory lock, pool of connections | ask, serve the stored one, collect, phrase, store; write, delete and replace chats | `Briefing` |
| Tenant, model and module caches (`tenant_manager.py`, `tenant_llm.py`, `module_catalog.py`) | entries with expiry, per worker | hit, load, store, invalidate | `TenantCaches` |
| Authentication and replay protection (`security.py`, `stream_token.py`, `nonce_store.py`) | table of used nonces | sign, verify, register, prune | `Admission` |
| Audio (`endpoints.py`, `audio.py`, `audio_upload.py`) | permits and model of the worker, temporary files, threads, spoken answers | upload, transcribe, fall back, cancel, speak, serve, clean | `AudioTurns` |
| texts, cards, web tools, resolution of accounts, configuration, migrations, scripts | none, or not shared | transformations and remote calls | not modelled, section 7 |

### How they interact

A request is authenticated, gets its tenant and a database session. A *turn* reads the
pending action of the chat, builds its tools from the manifest (`ManifestCache.get`),
appends the question (which locks the chat's row at the next flush), runs the agent or
executes the pending action (each tool call through `CrmToolProvider.call`, a 404 calls
`ManifestCache.invalidate`), appends the answer and commits. A *streamed* turn runs this
as a task of its own, which puts events on a queue that the response generator drains;
when the client leaves, the generator cancels the task. The CRM calls back when a record
was created from a form; the callback writes a message into the same chat.

### What is hard

* Overlapping calls of one tenant end in any order and report to one breaker; a call
  judged by the breaker may wait long for its permit; any of them may be cancelled.
* The manifest is refreshed by one task while others wait for it, invalidate it, give up
  or die, and while other workers write the same snapshot. A proposal outlives it.
* Two turns of one chat are two transactions: what the first read may be replaced before
  it writes, and messages carry the times at which transactions *began*. The same holds
  for the chat's name, for an overlay's text and for a briefing.
* A confirmed write leaves the CRM changed before the gateway's commit.
* A streamed turn can be broken off at every `await` by the client, by a deadline, or by
  a failure, between telling and storing. A thread cannot be broken off at all.
* Lists and indexes are read in several steps while others write them.
* Sessions, tenants, secrets and nonces expire by several clocks, or without notice.
* Requests wait for one another: for a semaphore, a row, an advisory lock, a permit, and
  for a second connection while they hold a first.

`PROJECT.json` (`hazards`) lists these at the lines where they bite, with the properties
that catch them going wrong.

### What makes each component correct

* **Tool calls**: the half-open flag never outlives the trial; closed means below the
  threshold; permits are conserved; a write is sent again only where the CRM refused the
  first for its session; every call let in returns.
* **Manifest**: never too old, never lost while still servable; no fetch too soon; every
  get returns.
* **Chat**: a question is followed by its own answer; an agent's view of the chat stays
  true while it works; only a confirmed proposal is carried out, which a turn previewed and
  committed or a stored history brought along, the named one if one is named; one proposal
  stands at a time; every request ends. A
  name a user gave and a deletion are for good. Edits add up to what was read out of the replies.
* **Tools and context**: what the CRM executes is what the user has seen; a call goes
  where its name and record say; the agent is told of one record.
* **Streamed turn**: what is reported is stored; a proposal stands, and an
  announced answer unless it is machine output or a call has failed; nothing begins once the reader is gone; a reader who stays gets a verdict; the
  stream ends.
* **CRM reads**: one login per client; no record counted twice, none that was there and
  counts left out.
* **RAG**: what an incremental ingest skips was stored before; a full one catches up;
  every ingest ends. A search answers what was asked, in full where it could.
* **Overlays**: a rule of the tenant is in force as an administrator decided it.
* **Briefing**: one an hour where the hour's messages are few enough to be looked at, none
  that misses a block is served again, and every request ends although the holder of the lock needs
  a connection that the waiters may hold.
* **Caches and admission**: nothing is served longer than an entry's life; a message is
  admitted once while its nonce is kept.
* **Audio**: permits and files are given back, a transcript is whole, every recording
  ends, and nobody hears half an answer.

## 2. The modules

| module | what it is |
|---|---|
| `ToolCalls` | breaker, semaphore and `CrmToolProvider.call` of one tenant in one worker |
| `ManifestCache`, `ManifestCache_proofs` | `ManifestCache` of several workers over the shared snapshot row |
| `ChatTurns`, `ChatTurns_proofs` | requests that write to one chat, as overlapping transactions |
| `PendingSlot` | abstract specification: what a chat promises about CRM writes |
| `AgentStream`, `AgentStream_proofs` | one streamed turn: pipeline task, agent loop, queue, generator, client |
| `RagIngest`, `RagIngest_proofs` | ingests of one CRM module of a tenant into its collection |
| `RagSearch` | one search over an index that changes between its passes |
| `CrmSession` | the CRM session of the clients of one user in one worker |
| `CrmLists` | a count or sum over a list that changes between its pages |
| `SkillOverlays` | the overlays of a tenant and its users, as overlapping requests |
| `TenantCaches` | one of the three caches of a worker |
| `Admission` | signed messages, several workers' clocks, the shared nonces |
| `Briefing` | one user's briefing, as requests of several workers |
| `AudioTurns` | spoken turns of one worker |
| `ToolSets` | tools and calls of the turns of a chat, one after the other |
| `TurnContext` | what a turn takes to be on the screen |
| `Chats` | one chat's row, as overlapping transactions |
| `PendingEdits` | replies to one proposed write |
| `Sorting`, `Sorting_proofs` | `sorted()` and the comprehensions over a list, without recursion |
| `Tools_proofs` | theorems about `ToolCalls`, `CrmLists`, `RagSearch` |
| `Turns_proofs` | theorems about `Chats`, `PendingEdits`, `TurnContext`, `ToolSets`, `SkillOverlays` |
| `Requests_proofs` | theorems about `Admission`, `CrmSession`, `TenantCaches`, `Briefing`, `AudioTurns` |
| `MCServices`, `MCWaiting` | several of these in one instance: a behaviour is one component's |
| `MCChatTurns`, `MCChatLive`, ... | model values, sets and symmetry for TLC |

`ChatTurns` implements `PendingSlot` under a refinement mapping (`Shown`, `Proposed`,
`CarriedOut`; checked in `MCChatLive`, proved in `ChatTurns_proofs`). The other
modules meet at interfaces that are abstract in each: `refetch` of `ToolCalls` is
`Invalidate` of `ManifestCache`; one `ToolReturns` of `AgentStream` is a whole call of
`ToolCalls`; a turn of `ChatTurns` from `asking` to its commit is a run of `AgentStream`,
whose `draft` and `chat` are the transaction's messages and the committed ones; the
manifests `ToolSets` is given are what `ManifestCache` may serve; `EditPending` of
`ChatTurns` is a `ReplyEdits` of `PendingEdits`; `Upserted` of `RagSearch` is a `Write` of
`RagIngest`; the calls of `CrmSession` are pages of `CrmLists`.

Operators whose comments begin with "Bug:" are plausible bugs, used by no specification:
put in the place of the definition they precede, each makes a property fail
(`PROJECT.json`, `mutants`), so no property holds whatever the code does.

### ToolCalls

One action is the code from one `await` of a call to the next. `Admit` and `FailFast` are
`before_call` (`_trial_in_flight` included) with the `async with` on the semaphore: with a
free permit the call enters its transport in the same step. There it sees to a session
and sends the request (`Send`); after 401 or 403 under a cached session (`SessionRefused`)
`CoripoClient._coripo_request_response` logs in and sends the same request, a write too,
once more (`Send` again). `Retry` and `RetryBegins` are `_post_with_retry`, which calls the
transport again for tools that only read; a login may fail like a request, and counts as
one. `Answered`, `Unavailable`, `ReadTimesOut`, `Rejected` and
`ClientError` are the branches after it, each with its verdict for the breaker;
`CancelHolder` and `CancelWaiter` are a cancellation inside and before the semaphore
(`release_trial`). `circuit` is `opened_at` read against the clock; `CoolDownEnds` is the
passing of `reset_seconds`. `onWire` and `applied` are what the CRM did with the requests,
perhaps after the caller gave up. That the CRM has not executed a request it answers with
401 or 403 is taken of the CRM, which is external. `probes` is a history variable.

### ManifestCache

`UsableWithoutRefresh`, `GetCached`, `GetWaits`, `LockedHit` and `StartFetch` are `get`
before and after the lock; `NotModified`, `Fetched`, `Saved`, `SaveFails` are `_refresh`;
`FetchFails`, `Loaded`, `LoadFails`, `ServeStale`, `GiveUp` are `_fallback`; `Invalidate`
keeps the entry and ends its freshness. Times are ages and remaining times in ticks. An
age stops at `Limit`, past which no comparison of the code tells ages apart, so time is
not bounded. `Restart` is a new worker process, `Deploy` a CRM that publishes another
manifest. `good`, `quiet`, `dirty`, `lost` and `ret` are history.

### ChatTurns

`Send` and `BeginTurn` are the request and the start of its transaction; `ReadPending` is
the choice of `process_input_core` (386-482) between confirming, editing and asking the
agent; `ExecutePending`, `EditPending` and `RunAgent` are the three ways, `Flush` the
first statement that touches the chat's row (the question, before the agent; question and
answer together, without it), `Commit` and `Abort` the ends. `Before` is the ORDER BY of
`load_messages`, with the random id as a tie-break. `BeginCallback` and `ReadEvent` are
the record-created callback, `BeginPut`, `DeleteMessages` and `Replacements` the PUT. It
stores the messages with the metadata the client sends, so a pending action comes back
with them: one of this chat, standing or long carried out, or another chat's (`Brought`,
`Elsewhere`). Such an action is the only one that may be carried out without a preview by a
turn of this chat, and the properties say so (`Stood`; `Restore` of `PendingSlot`).

### AgentStream

`Accept` ... `Report` are `process_input_core` from `accepted` to `result`, `Fails` and
`Cancelled` its exceptional ends in `_runner` of `process_input_stream`. The loop of
`run_agent` is `Chunk` (a shown delta), the outcomes of a completion (`CallTool`,
`CallUnknown`, `CallGarbled`, `EmptyCompletion`, `ModelFails`, `AnswerGiven`), the tool
(`ToolReturns`) and the tool-free call after the last round (`ForcedAnswer`). `Deadline`
is `asyncio.wait_for` around it, `AgentFails` an exception out of it. `Finish` is the part
after the loop: the text, or what stands in for a missing one (`Finals`), is announced, and
then worded as `normalize_agent_result_for_ui` does (`Worded`): a confirmation or a failed
call among the results speaks for the turn, machine output gives way to the message in it,
to a tool's or to an apology. `Deliver`, `Disconnect`
and `Close` are the generator with its `finally`. `Outcomes` leaves open whether a COMMIT
that was on its way when the task was broken off is carried out.

### RagIngest

`Begin`, `Scan`, `List`, `Compare`, `Write` and `ListEnds` are `ingest_from_crm_paginated`
with `ingest_records`, one action per remote call: the scroll for the watermark, a page of
the CRM, the known hashes, a batch of points. `job` holds the local variables; `last` is
"no page after this one", decided by `reached_existing` or a short page. `Fail` is an
exception of any of them, or the end of the worker. The CRM (`Create`, `Edit`, `Delete`,
`Tick`) is external: its list is taken to be stable and newest first, which the early
stop at an old record relies on and nothing in the code asks for (`order` is empty). A
record is its version and the second of its last change; 0 stands for a time the code
cannot parse. `whole`, `clean` and `calm` are history: whether anything came between that
the incremental scheme cannot bear.

### The modules of services, reads and chats

* `SkillOverlays`: `BeginUpsert`, `BeginCapture`, `BeginApprove` and `BeginDeactivate`
  are the SELECT of a request, `CommitUpdate`, `CommitInsert` and `InsertConflicts` its
  end. `Merge` is what SQLAlchemy's unit of work does: an UPDATE names the columns whose
  value the request changed from what it had read. `decided` is history: the owner's last
  decision about a rule.
* `TenantCaches`: `kind` chooses the cache. `Miss`, `Reads`, `Stores` are a load; entries
  live from the end of the load, but for the module catalog, whose life counts from its
  beginning. `outdated` measures how long ago what is served was true.
* `Admission`: time is true time, each worker's clock is ahead of it by at most `Drift`.
  `RequestCheckFails` and `TokenCheckFails` are the two dependencies' 503. `Register` is
  the one upsert; `Prune` the DELETE in its transaction. A check takes less
  than a tick (`AdmissionTick` waits for it).
* `CrmSession`: `Refused` decides by what the *client* holds at that moment, not by what
  the call was sent with, as the code does; `SidLockFree` is `_sid_lock`.
* `CrmLists`: `PageArrives` is one remote call; between two of them the CRM creates,
  edits and deletes records (the latest change comes first). `Readable`, `Kept` and
  `Counted` are what becomes of a row; `Questions` are the arguments of the tool and whether
  the user's words ask for a turnover, which counts the paid records, or those of the
  statuses asked for where other ones are (`Allowed`).
* `RagSearch`: one action per pass, each of which may fail on its own; a pass for a text
  field reads all points that match, or any `TextLimit` of them (`PointsRead`); `Better`
  and `Best` are the merge and the order of rows. Four callers: `rag_search_tool` for records
  and for entities, `product_lookup_tool`, and the search box (`BoxAnswered`). A pass for
  words with diacritics has two texts to look in, otherwise four (`Passes`). A lookup asks
  the catalog first, and only the catalog if that has a product called what was asked for
  (`CatalogAlone`); otherwise its rows and the index's are ranked together (`ByLikeness`)
  before the cut (`WithCatalog`).
* `Sorting`: a sorted sequence has at each place the element with as many others ahead of
  it (`Rank`), and a filtered list its rows at the places kept, in the order of the places
  (`RowsAt`, `Only`). `CrmLists` and `RagSearch` use these in place of `SelectSeq` and
  `SetToSortSeq`, recursions that nothing could be proved about; on short lists and small
  sets they are the same (`SortingIsTheLibrarys` of `MCServices`).
* `Briefing`: a request holds a connection of the pool from `Ask` to its end; `Phrase`
  has a second one for a moment, `PhraseFallback` none. A stored briefing is a message of a
  chat: `Recent` and `NoneRecent` are the two answers of a query that sees only the
  `LookedAt` newest (100) of the hour's messages; `Deleted` and `Replaced` are DELETE and PUT of a chat,
  and a PUT may bring a briefing back with its key, as created now (`restored`).
* `AudioTurns`: a turn and its thread are two processes; `ClientLeaves` ends the first
  only, and the permit goes back with it.
* `ToolSets`: a turn, or a helper (`RecommendActions`, `ExtractFields`,
  `ResearchCompany`), is given any manifest or none; `Redirected` is the interceptor of
  the open form, `EditAndPreview` and `UserConfirms` the two ways of a proposal.
* `TurnContext`: `CreatedLoaded` and `ListLoaded` are reads between which messages
  arrive; `Together` is the order in which the merges fill empty fields.
* `Chats`: every request loads the row, waits for its lock and writes what it changed.
* `PendingEdits`: an edit changes start, length or description. Values out of range are
  read as the nearest in it ("90 minutes" as 59, 13 hours as 12), and minutes beside hours
  are not read (`ClockRead`, `LengthRead`). The end is dropped where start or length moved
  or a note in `adjustments` says that they did (`End`), and derived by the CRM's preview.

## 3. The runs

| run | instance | states | what it shows |
|---|---|---|---|
| `tool_calls` | 4 calls (1 read-only), 2 permits, threshold 2 | 490,513 | every order of answers, failures, refused sessions, retries, timeouts and cancellations keeps breaker, semaphore and CRM consistent, and every call returns |
| `manifest_turns` | 1 worker, 2 turns, 2 manifests, ttl 1, retry 1, stale 2, all faults | 140,330 | staleness is bounded, nothing servable is lost, fetches are spaced, every get returns |
| `chat_overlap` | 3 turns, 1 PUT, 3 at once | 7,047,294 | order of messages, the agent's view, and what may be carried out, under any overlap |
| `chat_live` | 2 turns and a callback at once; 3 turns, or 2 and a PUT, and a callback one by one | 165,530 | with fairness every request ends; requests that do not overlap implement `PendingSlot` |
| `agent_stream` | 3 rounds, 2 retries of an empty completion, 1 delta, results ok / form / failed / contacts / confirm | 3,109,119 | one streamed turn, broken off anywhere |
| `rag_ingest` | 3 records (1 without a time), pages of 2, limits none and 1, all faults; 2 ingests at once, pages of 1 | 475,460 | what the watermark stands for, whatever is edited between pages; overlapping ingests; the repair by a full one |
| `services` | eleven components, below | 3,185,191 | one property or two of each |
| `waiting` | briefings: 2 requests, 2 views, pool of 2, 2 messages; audio: 2 streamed turns and 1 other, 1 permit, 2 segments | 116,677 | permits, files and transcripts; all end |
| `manifest_invalidate` | 1 worker, 2 turns | violation | section 6 |
| `chat_double_confirm` | 3 turns, 2 at once | violation | section 6 |
| `overlays_pending` | 2 requests, 1 rule | violation | section 6 |
| `open_form` | 2 records, 2 messages | violation | section 6 |

### Bounds, and why they are enough

* `tool_calls`: a straggler, a trial, a holder and a waiter are four calls; two permits
  make the fourth wait; with a threshold of two, failures can be one short of it, at it
  and past it. Each call is made once. The theorems need none of these bounds.
* `manifest_turns`: two turns are a refresher and a waiter, two manifests a change and a
  roll-back; one tick is "sooner than" and two are "later than" every setting. With
  `StaleMax` 2 and `Retry` 1 a copy can be fresh, stale and servable, or too old. One
  worker writes the snapshot; two workers without faults were checked for the bound once
  (1,294,348 states), and the theorem `StalenessBounded` is about any number.
* `chat_*`: an overlap that disturbs needs a reader and a writer, and a third turn to
  have made the proposal; one PUT of an exchange is between them. Turns are
  interchangeable, and the properties treat them alike, so symmetry is used for safety
  and never with liveness. One action of another chat stands for all of them.
* `agent_stream`: three rounds are a first, a middle and a last one; with two retries an
  empty completion ends the turn in the last one. One delta and one left in the tail
  guard are enough for an event before and after each other one. The five kinds of results
  differ in whether they end the turn, ask for a confirmation, failed, have cards or come
  with a patch of the form, and a result of one can follow each other one. The theorems hold for
  any numbers.
* `rag_ingest`: three records are one in the page that is read, one that moves to the
  front meanwhile and one behind; two seconds and two versions give an edit within the
  watermark's second and one after it. Each of the exclusions of `NothingBehind` is
  needed: without any one of them TLC finds a record that no incremental ingest will ever
  reach.
* `services`: two requests and one name of the tenant and of a user (a third request adds
  no pair that overlaps); two loads of one cache; two workers whose clocks differ by a
  tick, a message that is delivered for as long as it could live twice; two clients of
  two calls and two sessions; four records, one of each odd kind, in pages of one row, two
  spellings and two changes of the list; three points in one search of two variants, of
  which a text pass reads one at most (what it leaves is the vectors') and an entity search
  takes two; three turns of tools with two proposals; three requests about a chat; two descriptions,
  a clock time in range and one out of it, a time of day in words, hours and minutes in
  range and out of it; two records and two messages of a chat; two requests for
  one briefing and three messages, of which the newest is looked at, so that a briefing can
  be the newest, be hidden behind another message of the hour, be deleted and be brought
  back (several keys are in `waiting`, and in the theorem).
* `waiting`: two requests fill the pool, so that the holder of the lock finds no second
  connection; an hour is one tick of two. One permit makes two recordings wait; the
  third is the kind that is not streamed.

`MCServices` and `MCWaiting` choose a component in the initial state and let the others
rest: nothing is claimed of components together, and the choice costs the sum of their
states, not the product.

`CHECK_DEADLOCK FALSE` is set where calls, requests or the stream end for good.
The manifest cache never stops, and is checked for deadlock.

## 4. Fairness

* `ToolCalls`: a request ends (`Ends`) because the transport has connect and read
  timeouts, as has the login before it (`Send`); the event loop resumes a task whose sleep
  is over (`RetryBegins`). The CRM's
  execution of a request is not fair: it may never happen.
* `ManifestCache`: the fetch has a timeout of 15 seconds, database calls end;
  `asyncio.Lock` serves its waiters in order, which is strong fairness of taking it. No
  fairness of ticks, deploys, invalidations or cancellations.
* `ChatTurns`: the agent has a deadline and remote calls have timeouts (`Advances`);
  PostgreSQL grants a row lock to its waiters in turn, strong fairness of `Flush`.
* `AgentStream`: the steps of the pipeline outside the agent end because the database,
  the CRM and the title's model have timeouts; `Deadline` comes; the generator is
  scheduled. There is *no* fairness of the rounds: the model and the tools may hang, and
  `StayingGetsVerdict` and `StreamEnds` hold all the same.
* `RagIngest`: the CRM, the embedder and the store answer or time out (`Works`). Nothing
  forces an ingest to be started.
* `Briefing`: the calls of the CRM and of the model, and the wait for a connection, have
  time limits (`PhraseFallback`); PostgreSQL grants an advisory lock in the order it was
  asked for, strong fairness of `TakeLock`. A request need not get its first connection.
* `AudioTurns`: the event loop runs every task that can go on, and every thread runs.
  Nothing forces a GPU to fail, a client to leave or a file to be fetched.

## 5. What is proved

The proof modules use one argument: an inductive invariant, one lemma per group of steps
or action, and the properties as its consequences. A property of a run that is proved is
proved for every value of the constants the assumption allows.

**`Tools_proofs`**. *ToolCalls*, from `GuardAssumption` (some permits, a threshold, `ReadOnly`
among the calls; the set of calls may be infinite). `IInv` adds to the properties that
the queue holds exactly the waiting calls, each once, and is empty while a permit is
free (`SemInv`: without it a permit handed to the head of the queue could go to a call
that is gone, or twice to one), and that of the requests of an attempt one at most is on
the wire or executed, and none while the client sees to a session (`CallInv`:
`WriteAtMostOnce` speaks of the CRM only and says nothing of how often the call may still
be sent). Results: `TypeCorrect`, `TrialFlagReleased`, `BreakerCounts`,
`PermitsNeverLost`, `WritesNeverRetried`, `RefusingDrains`.

*CrmLists*, from `ListAssumption` (a page, a spelling and a module at least, and a record
has one status; any set of records, pages, caps and number of changes). `CountedOnce`
speaks of a read that is done; what holds between two pages is about the place the offset
divides the list at. `Doubles`: the rows read, and the records read that still stand behind
the offset, where they will be read again, are together at most the different records read
and the arrivals. `Misses`: the records there all along that stand before the offset and
were not read are at most the removals. An arrival, an edit or a removal moves at most
one record over the offset (`PutFirst` and the lemmas after it); a page moves the offset
over exactly what it reads unless it is the last one, or a row in it is no record
(`ReadMore`); and what is counted of the rows keeps the two bounds, since a filter takes
away no more doubles than it leaves (`OnlyDoubles`). Which statuses are counted
(`Allowed`) is the question's, whatever statuses it names (`KeptIsToCount`). Result: `CountOnce`.

*RagSearch*, from `SearchAssumption` (finitely many points, any limits and spellings; a
plain search reads no fewer rows than it shows). `SearchSoFar`: what was in the
index when the search began still is; the text hits are points of modules asked for, each
once; and in an entity search the best scores and what was found stand for each other
(`Scored`: nothing found scored better than its record's best, and every best score was
found). The other step is from the rows merged to the answer: where fewer rows come than
the limit, the vectors gave fewer points than they were asked for, so all there are
(`MergedProperties`, by counting: the merged rows are different and include them). One
lemma for each of the four callers takes that to what the caller shows; for entities, what
is left out stands behind the last place of a sorted list, for products behind a product
at least as like the question, whichever of the two sources it came from. Result: `SearchAnswers`.

**`Sorting_proofs`** holds what the two rest on, for any finite set, strict total order
and sequence: ranks are 0, 1, ... without a gap (`RankOnto`: an injection between sets of
one size), so a sorted sequence has every element once, in the order
(`SortedProperties`); what filtering and concatenation keep (`OnlyProperties`,
`ConcatElements`).

**`AgentStream_proofs`**, from `StreamAssumption` (at least one round, `ok` among the
statuses and neither ending a turn nor failing, `None` no text). The invariant ties the queue to the
stage: before there is an answer all events are *plain* (no verdict, no `answer.done`, no
ending status), which is what makes the first proposal the last call; from then on each
event agrees with the answer (`Holds`); verdicts appear with the end only. `StepsInv` ties
the results the wording looks at to the events that told of them, so that a failure that
replaces an announced answer was announced before it (`WordedIs`). `Stored` gives
what the transaction holds at each stage, without which a broken-off COMMIT could leave
half a turn. Two lemmas carry the queue over a step whatever is put on it (`StillEarly`,
`EarlyToLate`), one over the end (`ToOver`). `NothingBegun` rests on an invariant of its
own, `Stopped`: a generator that left its loop cancelled the task, unless it was over.
Results: `TypeCorrect`, `ResultStored`, `VerdictLast`, `ProposalStands`, `AnswerStands`,
`NothingBegun`, for any number of rounds, deltas and events and any statuses.

**`ManifestCache_proofs`**, from `TimesAssumption` (the validity and retry times are
positive, a copy is not valid longer than it may be served after it expired, `None` is
neither a manifest nor a task; any number of workers, tasks and manifests) and
`EntryAssumption` (`None` is no entry). That what is served is not too old is a statement
about ages that the code measures against the CRM's real history, which no variable of
the code holds. The invariant therefore says of every copy, in an entry, in the snapshot
or on its way between them, that it is at least as old as its manifest has been lost
(`Copies`); of an answer of the CRM and an entry being saved, that they are current, since
no tick passes before they are used (`Answers`); and that only the holder of a worker's
lock has such data in hand (`SingleFlight`, without which two refreshes could save each
other's). `Memory` adds what a worker remembers: its copy is no older than its last good
answer, it has none only if it never had that answer or had it too long ago, a task looks
for the snapshot only while there is no copy (so a load replaces nothing), and while
the worker should not fetch, its copy can be used without. Results: `TypeCorrect`,
`StalenessBounded`, `FetchesAreSingle`, `LastGoodCopyKept` and the action property
`FetchesSpaced`.

**`ChatTurns_proofs`**, from `ChatAssumption` (turns, callbacks and PUTs are different;
any number of each, any number at once).
`LockInv`: only the holder of the chat's row is past its flush, so what it loaded is what
is there. `NameInv`: a turn that confirms by name has the offer it named, and nothing was
carried out for a turn that has not read the pending action. `HistoryInv` is about time:
every transaction that began has a time of its own (`Times`), and what is committed of a
turn is its question and its answer or nothing (`Kept`), so that no message of another
time comes between them, whatever a PUT puts there. `ProposalInv`: every proposal that is
in the chat or in the hands of a turn was previewed with its arguments by a turn that has
committed, or was brought by a replaced history that has (`Sound`). `AloneInv` is for requests one after the other: the request under way
finds the messages as it left them and begins after all of them, so what it adds comes
last. The newest answer is a `CHOOSE` by time, role and tie-break; that it exists and is
one is proved by counting (`LargestExists`, `NewestIsOne`). Results: `LoadedStaysCurrent`,
`NamedIsConfirmed`, `AnswersFollowQuestions`, `OffersExecuted`; and the refinement
`OneByOneKeepsSlot`: with `MaxOpen = 1` and any finite set of requests, each initial state
is one of `PendingSlot` and every step maps to a step of it or to a stutter. With
overlapping requests it does not (`ConfirmIdempotent`, section 6).

**`Requests_proofs`**. *Admission*, from `AdmissionAssumption` (a token's life and twice the
drift of the clocks end before its nonce does). An atomic upsert alone proves nothing,
since the row may be pruned by a worker whose clock is ahead: `Remembered` says what a
missing or an expired row means, that the message's time to live is over but for the
drift; `TokensOnTime` that a token accepted then would be past its own life. Result:
`NoReplay`, for any number of workers, messages and deliveries. *CrmSession*, from
`SessionAssumption`. `LoginKept`: one call of a client logs in at a time, while the client
has no session, and a session obtained by logging in is never dropped, because a refusal
drops only one that came from the cache. Result: `LoginOnce`. *TenantCaches*, from
`CacheAssumption` (any lookups, any times). `ReadRecently`: a lookup holds what was the
source's no longer ago than it took; `KeptRecently`: the age of an entry's value and what
is left of the entry are together within the bound. Result: `CachesServeRecent`.

*Briefing*, from `BriefingAssumption`. `BriefingInv`: the holders
of a lock have different keys, so between a holder's look at the messages and its end no
request stores one under its key, and what its look allowed (`MayCollect`) stays allowed
whatever is deleted or brought back; that it sees every briefing of an hour with fewer
messages than are looked at is counting (`NoneFound`). Result: the action property
`CollectedOncePerHour`, for any number of requests, views, blocks and messages. *AudioTurns*, from `AudioAssumption` (some
permits; any number of turns, even infinitely many, and of segments). `InLine`: a turn
stands in the queue once and only while it waits, without which the permit of a cancelled turn could be handed to it;
`Owned`: a thread runs under its transcribing turn or outlives a cancelled, streamed one;
`Counted`: permits and transcribing turns add up. `TranscriptInv` says of every turn and
stage what its thread has transcribed: the segments up to its next one (`UpTo`), or, after
a streamed turn was moved to the CPU, a first part of them before that; a thread on the
GPU has not failed before, so nothing is said three times. Results:
`PermitsAndFilesKept`, `RecordingHeardWhole`.

**`Turns_proofs`**. *Chats*, from `ChatsAssumption`. `HolderWrites`: who writes holds
the row's lock and, unless it deletes, found the row. Result: `UserHasTheLastWord`.
*PendingEdits*, from `EditAssumption`. `EndDerivable` is what holds between an edit and
its preview: the end is missing or follows from start and length. Result: `EditsAsWished`,
for any times and lengths a reply can write.
*TurnContext*, from `ContextAssumption` (`Unknown` is no id and no module; any contacts and
records, any history). `Merged` is what holds after the first two merges: what the front
end sent stands, and if it named no record the added fields are one record's. Result:
`OneRecordTold`. *ToolSets*, from `ToolSetAssumption`. `ProposalSeen`: what waits
for the user is what the user was shown last, so no step but a preview or a confirmation
touches it. Results: `WritesConfirmed`, `CallsAimed`, for any manifests and any series of
turns. *SkillOverlays*, from `OverlayAssumption` (`None` is no row; the words for "no
decision" and "retired" are no texts). `CreatedRows`: the rows by age are the rows, each
once; `Held` and `ReadAsIs`: what a request may hold of its row, and that it is the row as
it stands unless another one committed to it meanwhile; `Standings`: the standing of a
row against its owner's decision. Result: `RulesAsDecided`, for any number of requests
at once; the race that breaks an administrator's decision (section 6) is excluded by
the property itself (`raced`), and by nothing else.

**`RagIngest_proofs`**, from `IngestAssumption` (record ids are numbers, since ties in the
list are ordered by them; finitely many records; pages and batches are not empty; `None`
and `Gone` are no versions). `NothingBehind` speaks of the time when no ingest runs; what
holds meanwhile is `Accounted`: a dated record that is not stored as the CRM has it is in
the hands of an ingest, or one will still list and take it (its position is not before the
offset, its time not before the watermark, no last page yet), or it is `Newest`, at least
as new as anything stored or read so far. Saving a record moves it to the front, where it
is `Newest`, and the others only back (`MovesBack`); a page that ends the listing leaves
nothing due behind it (`ListTakes`, `PageFull`), which rests on the positions being
0, 1, ... without a gap (`RankOnto` of `Sorting_proofs`). `Stale` says
which old versions an ingest may still write, `Untouched` keeps the store whole over
ingests that fail before their first page, `Together` and `Sure` are for ingests that
overlap: each of them has to catch up by itself, since another one may fail. TLC checked
the six parts on the instance of the run before they were proved. Results:
`StoredBehindMark` and the action property `UndisturbedCatchesUp`, for any number of
records, any pages, batches and limits, and any number of ingests at once.

**Model-checked only**: liveness (`EveryCallReturns`, `EveryGetReturns`,
`EveryRequestEnds`, `StayingGetsVerdict`, `StreamEnds`, `EveryIngestEnds`,
`EveryBriefingEnds`, `EveryRecordingEnds`), which is beyond the prover, as is anything
that needs `ENABLED`. Every safety invariant and every action property of a passing run is
a theorem; so is what `ImplementsSlot` of `chat_live` says of requests one by one
(`OneByOneKeepsSlot`).

## 6. Where code and text disagree

Each is a run TLC finds violated, and an entry of `findings`.

* `InvalidateRefetches`: an invalidation during a refresh is overwritten by that refresh.
* `ConfirmIdempotent`: nothing claims a pending action between the read and the CRM call,
  so overlapping confirmations both send it; the review document calls confirming
  "naturally idempotent" (what the CRM does with a token used twice is outside).
* `PendingNeverOverwrites`: a capture that read a pending rule writes its text into the
  row an administrator has approved meanwhile; the docstring rules that out.
* `OpenRecordNeverWritten`: the open record is named by one of two fields; the merges
  fill the other one with another record, which `open_form_target` prefers, so an update
  of the open record goes to the CRM.

Others were met and are not kept as runs. A straggler admitted while the breaker was
closed clears the flag of the trial under way, so two trials run; the docstring of
`CircuitBreaker` (`resilience.py:25-26`) promises one. The comment at
`crm_client.py:461-462` speaks of the session the call was sent with, the code looks at
the one the client holds now, so a call refused after another one of the same client has
logged in is not sent again. `audio_upload.py:80` calls its semaphore a limit of running
transcriptions, which threads of cancelled turns exceed. The messages of a PUT share one
`created_at` and come back sorted by role and random id (`endpoints.py:576`). The
`agent_error` answer that asks to confirm the action again (`pipeline.py:534-538`) has
withdrawn what to confirm. `incremental` is described as "only records newer than latest
already ingested" (`docs/api.md:66`), the code also takes those of the same second and
those without a time, which is what `CaughtUp` needs. `docs/streaming-plan.md:161-163`
wants a cancelled turn to commit the question and what was produced, the code rolls back;
its line 71 calls the text of `answer.done`
authoritative, but `pipeline.py:508` words it anew after it was announced, when it is machine
output, a call of the turn has failed or the turn proposes a write
(`AnnouncedAnswerStands` states exactly when it stands); it wants an `answer.done` in each turn, and there is none after a deadline or
an apology; a tool call that follows plain text is shown as deltas before it is
recognised, which the plan excludes. `manifest_cache` has no `retry_at` without an entry,
so a cold worker tries on every turn while the CRM is down.

Weak spots that no text excludes, and that no property is about: a write whose connection
broke after the request was sent is reported as plainly unavailable
(`crm_provider.py:159`); a record-created notification delivered twice is stored twice if
another came between (`endpoints.py:877`); JSON of a tool call that is no object ends the
turn instead of a retry (`agent.py:510`); a model's answer gives way to the message of a
call that failed rounds before it (`agent_result.py:168-212`); a PUT makes a chat confirm
whatever pending action its metadata holds (`endpoints.py:576`), and a briefing it brings
back is served for another hour (`briefing_service.py:301`).

## 7. What is left out

*In the models.* One tenant and one chat: breakers, caches and chats of others share
nothing with them. Transactions begin at different times (`created_at` unique per
transaction; it has microseconds). In `ChatTurns` the latest event and the pending action
are read in one step (`TurnContext` has the steps). Histories stay below the limits of
`load_messages`. A second PUT waits for the deletes of the first. The queue of events
has no bound, so a `put` does not wait; pings change nothing; the client's connection is
closed by the server's cancellation or by `aclose`, which look the same from the task.
The scroll that finds the watermark is one step, and a batch of points whose call failed
was not stored. What a model answers is arbitrary within the outcomes the code
distinguishes, and which characters of it a delta shows (`AnswerStreamState`) is not
modelled. Signatures are taken as good or bad; the in-memory nonce store is for
development. The filters of the CRM's lists, dates and scores are a few values. What a
killed worker leaves in the temporary directory is not modelled. `ToolSets` keeps one
preview for each call, also for the contacts tool, which may prepare several at once; each
of them is confirmed by itself.

*Components.* Cards, formatting of records, resolution of accounts, web tools, form
values, configuration and logging transform data and keep no state that steps of others
touch. Speech recognition and embeddings are numeric. Migrations and scripts run once, by
hand. Requests to remote services are modelled by their outcomes.

## 8. Plan

1. **`AnswerFilter`, `Filters`, `Dates`**: the pure algorithms (`answer_stream.py`,
   `filter_builder.py`, `date_filters.py`) against reference definitions over bounded
   inputs.
