# A verification development for mcp-pipedrive

mcp-pipedrive is an MCP server in Go that gives a language model about seventy
tools for the Pipedrive CRM.  Read tools go through a file-backed response
cache, write tools invalidate it, and several tool calls are served at the same
time by one process.  The modules here are TLA+ models of the parts of the
server where order, failure and sharing matter, TLC configurations that check
them on small instances, and theorems that TLAPS checks for all instances.

`tlc -config X.cfg M` runs a model, `tlapm P.tla` checks the proofs of a module
`P`; section 4 names them.

## 1. Inventory

| Part | Code | State | Operations |
|---|---|---|---|
| Response cache | `pipedrive/cache.go` | one bbolt bucket: key -> value, stored and expiry time | Get, Put, Delete, DeletePrefix, Clear, Stats; one transaction each |
| Client | `pipedrive/client.go`, `errors.go` | none across calls but the shared cache and its own limiter | DoJSON, CachedGet in four modes, staleFallback, InvalidatePath |
| Tools and what they invalidate | `tools/*.go` | none; a call's progress | reads with CachedGet; writes: guard, request, invalidations |
| Field options | `tools/deal_fields.go` | the call's copy of the field | GET, merge, PUT, invalidate |
| Batch creation | `tools/activities_batch.go` | results so far | up to 100 POSTs, then one invalidation |
| Mail | `tools/mailbox.go`, `pipedrive/mail.go` | the page cursor; messages filled by up to `dealBodyConcurrency` goroutines | paging with `since`, concurrent fetch of bodies |
| Cache admin | `tools/cache.go` | none | cache.stats, cache.invalidate, cache.clear |
| Shared cache and configuration | `pipedrive/context.go`, `config.go` | the process-wide cache, opened once | parse the environment, headers over environment, open |
| Context | `tools/context.go` | five results | one goroutine per GET of metadata, all at once |
| Guards and registration | `tools/common.go`, `tools/registry.go`, `pipedrive/guardrails.go` | none | allowlist, write, delete and admin guards |
| Rate limiter | `internal/ratelimit.go` | three token buckets | Wait, one bucket after the other |
| Server | `cmd/mcp-pipedrive/main.go` | transport, signal handler | start, serve, shut down, close the cache |
| Adapter | `tools.go` | none | Go function -> MCP tool, by reflection |
| Data shaping | `pipedrive/normalize*.go`, `internal/mask.go`, `validate.go`, `pagination.go`, `response.go` | none | pure functions on one answer |

**How they interact.**  A tool handler checks its guard, builds a client for the
call (the configuration comes from the environment, over SSE and HTTP with the
headers of the request on top, so two calls may have different credentials) and
either calls `CachedGet` or sends a write with `DoJSON` and then calls
`InvalidatePath` for a list of versions and paths.  All clients of the process
share one `*Cache`; a transaction of it is the only thing that is atomic.
Pipedrive itself is shared with other users, who change records that nobody
here invalidates.

**What is hard.**

* *Concurrency.*  A read is a lookup, a request and a store with nothing held
  between them, so a write and its invalidation fit in between.  An
  invalidation of `deals.update` is six transactions.  Two read-merge-write
  calls overlap.  Message bodies are filled in by several goroutines, which queue on
  the limiter with those of `context.get`.  The first request opens the cache,
  and the others wait for it.
* *Failure.*  A write may have been carried out although its answer is lost; a
  transaction on the file may fail, which `DeletePrefix` does not report; a
  429 or a 5xx may be answered by an expired entry; a process may stop between
  a write and its invalidation, and restart without the cache.  A batch has one
  failure per item, and a context that may end between two of them.  A shutdown
  waits five seconds, a call up to thirty.
* *Time.*  Expiry compares a clock read at the start of a call with one read
  when another call had decoded its answer.
* *Drift.*  Each family of tools lists by hand the versions and paths it
  invalidates; another function lists what is cached.

**What makes each part correct.**

| Part | Correct when |
|---|---|
| Cache and client | a hit is not older than its TTL allows; a caller sees his own completed writes; bodies of different credentials never mix; every call returns |
| Invalidation lists | when a write tool returns, no cached answer that shows the record is older than the write |
| Field options | no label twice, no option dropped that a call has reported |
| Batch | its results are true of the upstream, and what it reports as created is not missing from the cached list |
| Mail | pages joined by `next_start` leave out no more than a changing listing hides; the counters agree with the bodies |
| Goroutines | at most `dealBodyConcurrency` bodies are asked for at a time, nothing runs on after the answer, and the answer accounts for every body |
| Limiter | no more requests than each bucket allows, in every window |
| Lifecycle | no call runs before its cache is settled, a stop that cuts a call off does not look clean, and a signal ends the process |

`PROJECT.json` lists the components with what is left out of each, every hazard
at its line, and for each definition the lines it stands for.

## 2. Modules

| Module | Models | Extends |
|---|---|---|
| `ResponseCache` | cache, CachedGet, writes with their invalidations, admin tools, restarts, the upstream and other users | instantiates `CachedReads` |
| `CachedReads` | the abstract promise of a cached read: a call, the upstream and a clock, and no cache | |
| `ResponseCacheProofs` | theorems on `ResponseCache` | `ResponseCache` |
| `ResponseCacheRefinement` | `ResponseCache` implements `CachedReads` | `ResponseCacheProofs` |
| `MCResponseCache` | instances of it; what the README of the repository says of `bypass`, of `only` and of the stale age | `ResponseCache`, instantiates `ToolCatalog` |
| `ToolCatalog` | per family of tools: the GETs its reads cache, the requests its writes send, the paths they invalidate | |
| `ToolSession` | one write tool over the cached answers of its family | `ToolCatalog` |
| `MCToolSession` | an instance | `ToolSession` |
| `ToolSessionProofs` | theorems on `ToolSession` and the catalog | `ToolSession` |
| `FieldOptions` | `deal_fields.add_option` by several callers | |
| `FieldOptionsProofs` | theorems on it | `FieldOptions` |
| `MailPaging` | `deals.mail.list` and `mail.threads.list`: pages, cutoff, cap, and a caller who walks on | |
| `MailPagingProofs` | theorems on it | `MailPaging` |
| `RateLimiter` | `MultiLimiter`: reservations in one token bucket after the other, cancelled waits | |
| `RateLimiterProofs` | the inductive invariant of the limiter, bucket by bucket | `RateLimiter` |
| `ToolFanout` | the goroutines of `deals.mail.list` and `context.get`, which share a limiter | `RateLimiter` |
| `MCToolFanout` | an instance of it | `ToolFanout` |
| `ToolFanoutProofs` | theorems on `ToolFanout` and the limiter in it | `ToolFanout`, `RateLimiterProofs` |
| `Lifecycle` | one process: transport, first opening of the cache, signal, shutdown, Close, exit | |
| `BatchCreate` | `activities.batch_create` and the cached list, in such a process | `Lifecycle` |
| `BatchCreateProofs` | theorems on `Lifecycle` and `BatchCreate` | `BatchCreate` |

### ResponseCache

One `reads[r]` is one call of `CachedGet`, one `writes[w]` one call of a write
tool.  Their `pc` cuts the Go code where other goroutines can run in between:

| `pc` of a read | Where the code is |
|---|---|
| lookup | `now` has been read, `Cache.Get` has not run |
| send | the request is on its way to Pipedrive |
| transit | Pipedrive has computed the answer |
| store | decoded, `newEntry` has read the clock, `Put` has not got the lock |
| failed | `DoJSON` returned an error, `staleFallback` has not looked |
| hit, fresh, stale, miss, error | the five ways it returns |

| `pc` of a write | Where the code is |
|---|---|
| send, transit | as above, in `DoJSON` |
| purge | the write was answered; `step` paths have been invalidated |

The upstream is the log of the changes it accepted.  The body of an answer is
the pair of a revision (a length of that log) and the identity it was given to.
Everything a property needs can be said with these two: how old a body is, and
whose.  A document stands for version, path and query; a prefix of keys is a set
of keys, and the model is told which documents each write changes and which
sets of them its invalidations name.

`Restart` may happen in any state, ends every call and keeps the file.  It
chooses anew whether the process has the cache (`PIPEDRIVE_CACHE_ENABLED`, or
the five seconds that `OpenCache` waits for the lock of the file) and whether it
may serve stale entries.

Three fields are history, and no action reads them: `floor[k]`, the
newest completed write that invalidated key `k`; `late`, on a read whose answer
was under way while its key was invalidated; and `lost`, on a write one of whose
transactions failed.

Left out: the query string and body in the key (they tell documents apart, as
other documents do); an entry whose stored JSON does not decode (`Put` only
writes JSON); `Cache.Delete` and `DoRaw`, which nothing calls; the limiter, whose
error is a transport fault here (`ToolFanout` has it).

### CachedReads

What a caller may rely on who does not know of the file.  A call asks for a
document under an identity, and there are five ways out:

* `Hit`: an answer that its own identity has got before (`Own`) and that is
  `RecentEnough`: each change that it misses was made less than TTL plus timeout
  before the call began.
* `Reply`: what the upstream has answered to this very call.  The answer may be kept
  for the identity that gets it, and for nobody else.
* `FallBack`: an answer that its own identity has got before, however old, but only
  after a failure that is a 429 or a 5xx (`Fail` with `overload`), in a process that has
  a cache and is set up to serve stale answers (`client.go:175`, `203` and `243`).
* `Miss`: only for `cache_mode=only`, and only where there is a cache.  Without one
  `Ask` sends a call of every mode to the upstream, as `CachedGet` does; that the
  documentation says otherwise is the run `only_doc`.
* `GiveUp`: the failure is returned.

`kept` says which answers of before an identity may still be served.  Only `Reply` adds
to it, and `Forget` takes away at any time, so that what is served is always
something that the same identity has got.  `Change`, `Tick` and `Interrupt`, which
also sets up the next process, are the world.  No write, key, entry, age, purge or
admin tool is in it.

`ResponseCache` implements it: `Stage` forgets how far a call is inside the file (an
answer that waits for `Put` is one not yet returned), `Kept` gives for each key the
revision that the file holds under it, and the log, the clock and the setup are
themselves.  A purge is then a `Forget`, a `Put` the end of a `Reply`, and a
failed `Put` a `Reply` that keeps what was kept before.

### ToolCatalog and ToolSession

The catalog is data: a GET is a version and a path, a path is the sequence of its
parts, and an id the sequence of its characters, so that `IsPrefix` is the
"starts with" of `InvalidatePath`: `/deals/1` also names `/deals/1/products`, and
`/deals/12`, whose answers are then fetched once more than they need be.
`ToolSessionAssumption` says what the code gives for ids: they are not empty (every
write tool with an id in its path refuses an empty one) and, being numbers or
UUIDs, none of their characters is a whole part like `/products`.
`ToolSession` chooses a family, an environment and, step by step, which GETs
are cached and whether before or after the write that is under way.  `Shows`
says which answers show a written record; it is the upstream's part, and takes
no more than the comments in the code state: a record shows in its own GET, in
the lists, searches and archives of its collection, a deal's products also in
the deal.

### FieldOptions

A call reads the options from the upstream (past the cache), merges its labels and
PUTs the whole array.  That the upstream keeps options sent with an id, gives
new ids to labels alone and drops the rest is what the package comment of
`deal_fields.go` says of it.  An option that is sent with the id it was read
with, and was dropped by another call meanwhile, comes back with that id.

What the call does with the answer of its GET are three actions: it refuses a field
that is no enum or set (`Refuse`), returns if every label is there (`SkipAll`), or goes
on (`ReadField`).  Elements of the array that are not objects (`OtherItems`) are in no
merge: `deal_fields.go:69` passes over them, and the PUT takes them away (`Resent`).

`confirmed` is history: the labels that calls have added or found there, and so report.
`missed`, on a call between its GET and its PUT, are the labels that have come since; only
those may its PUT take away, and they are then confirmed no longer.

### MailPaging

Both list tools share one loop: ask for a page, keep what passes, stop at the
cap, at an item older than `since`, or at the last page.  `AfterPage` has
their differences (what `more` says at the end).  `cache_mode` is left open: each page
may come from the upstream or out of the cache, in every call.

An item is a message or a thread at its time, and the upstream lists the latest first.
`mailbox` is the sequence of all versions the listing has had, and a page out of the
cache is a page of an earlier version.  Between two versions

* an item comes in, at the front or, restored or linked later, anywhere (`ComeIn`);
* a thread gets a message and moves to its new time (`Rise`), as
  `last_message_timestamp` is what `mail.threads.list` is ordered and cut by;
* an item is deleted or moved to another folder (`Leave`), and all behind it move up;
* a thread is read or marked as unread (`Flip`).

A message does not move and is not asked for its `read_flag`, so only threads have the
second and the fourth.  Two items of the same time are not modelled: how the upstream
orders them is not stated, and the tools do not depend on it.

`walk` is history: the versions of the walk's first page, of the call's first page and
of the last page, the items returned, and whether a page was older than one before
it (`Aged`), after which nothing is claimed.  What is claimed of the others is about
`Lasting`, the items that were listed at one place from the first page to the last: the
walk misses at most one of them for each item that left (`PlainWalkGaps`), since a
deletion before the cursor pulls one item past it.  A thread that rises is another
item from then on.  If the walk has passed its new place it does not meet the thread at all;
this is so in the program, and nothing is claimed of it.  That the order is by time is
the upstream's part, and `BelowCapGaps` needs it: the cutoff ends the loop at the end of its
page.

### RateLimiter and ToolFanout

A bucket is counted in ticks: `Every[b]` of them are a token, and a reservation may
take the level below zero.  What `rate.Limiter.Wait` does is taken from its
documentation and marked external; what `MultiLimiter.Wait` makes of several of
them is the repository's: a task reserves in the first bucket, sleeps, reserves in the
second, and so on, and only then sends.  Timers are exact: who has slept long
enough goes on before the next tick.  `passed[j][b]` is history, a meter that a request
fills by `Every[b]` when it passes bucket `j`, and a tick drains by one.  At the last
bucket, where requests are sent, it stays within `Burst[b] * Every[b]` just
when every window of `n` ticks has at most `Burst[b] + n / Every[b]` requests; the
meters of the earlier buckets are for the proof.

A task `<<c, k>>` is the k-th goroutine of call `c`.  The caller of `deals.mail.list`
takes a slot of the semaphore *before* `go`, without looking at its context;
`context.get` has no semaphore.  `Conclude` is what a goroutine does under the
mutex: the counter, or an error under the id of the message, so that a
message that two pages repeat counts once among the errors and twice among the
bodies.  The deferred release is a step of its own (`Finish`).  Whether a body is
empty is not told apart.  The call keeps the listing it has read, and `AnswerAccounts`
counts against that: of its messages without a body, those that were fetched, those that
failed and the number reported as skipped (`max_bodies`) are all.

### Lifecycle and BatchCreate

`phase` is how far `run` is: serving, draining (`Shutdown` runs), closing (it has
returned, the deferred `Close` is next), closed, exited.  `inside[c]` is how far the
server is with a call: connecting (its context function waits for `sync.Once`), in,
left, or killed by the exit.  What differs between the transports is what the
source relies on: only `http.Server.Shutdown` waits for calls in progress, and
only those of streamable-http, since an SSE request is accepted before its call
runs; over stdio the signal ends the contexts of the calls, over the others
the client does.  `Listen` of stdio may also end with another error than that of the
context, as when the signal handler closes the stdin that it reads; `run` returns it
and `main` panics (`ListenFails`).  A stream that a client keeps open (`env.stream`) is a connection
in use for ever; a cache file that another process keeps locked (`env.locked`)
ends in five seconds without a cache.

`BatchCreate` adds a batch and a list.  Each item has one of three results, and a
request that fails may have been carried out.  `GiveUp` is the check of the context before
an item, which drops the results.  Three kinds of exception are named by history:
`late`, on a body that was fetched across the invalidation (the same as in
`ResponseCache`); `lost`, on a batch whose invalidation the file has refused, an error that
`DeletePrefix` drops (`PurgeFails`, `cache.go:203`); and `cut`, the calls that the
deferred `Close` has overtaken, whose invalidation fails the same way.

## 3. Runs

| Run | Question | Instance |
|---|---|---|
| `cache_races` | Can a hit be older than its TTL plus the client's timeout, or miss a write the caller had completed, also while an invalidation is between two of its paths? `TypeOK`, `FreshnessBound`, `ReadYourWrites` | two reads and a write of a deal's products, the two paths `deals.products.update` really visits (taken from `ToolCatalog`), other users, restarts; clock up to 2, one change |
| `cache_identities` | Do bodies stay with their credential (`OwnAnswersOnly`), is every read one that `CachedReads` allows (`Implements`), and does every call return (`ReadsReturn`, `WritesReturn`)? | two identities in one file, a read and a write, an admin tool, restarts with every setup, with fairness; clock up to 1, one change |
| `tool_session` | Does each write tool's list cover the GETs that show its record (`WrittenRecordPurged`), and that of a deals tool all GETs under `/deals` but the mail (`DealsPurged`)? | every family, every write, every mix of cached answers, one id of one character |
| `field_options` | Are labels unique (`LabelsUnique`), and does a label that a call has reported stay through all others but those that had read the field before (`ConfirmedLabelsKept`)? | two overlapping callers, three labels, one or two to a call, an item that is no object, ids up to 6 |
| `mail_paging` | Of what stays listed at its place, does a walk without filters (`PlainWalkGaps`), or a filtered call below its cap (`BelowCapGaps`), leave out at most one item for each that left, with pages out of the cache of any age unless one is older than one before it, and does each call end (`CallsReturn`)? | three items at first, times up to 5, two changes of any kind, pages of 2, a cap of 3, limits of 1 and 4 |
| `tool_fanout` | Is the number of bodies under way capped (`BackfillsCapped`), does an answer account for every message without a body, as fetched, failed or skipped, and leave nothing running (`AnswerAccounts`), are the limits of both buckets kept (`SendsWithinLimits`), and does every call return (`CallsReturn`)? | a listing of four messages, three without a body, one of them twice; two slots; with `max_bodies` of 2 or none; a GET of `context.get` beside them; buckets of 1 token per tick with burst 1 and 1 per 2 ticks with burst 2, or no limiter |
| `server_calls` | Is what a batch returns true (`ResultsTrue`) and in the cached list (`ReportedItemsListed`), does a clean stop cut nobody off (`QuietStopCutsNobody`), does a signal end the process (`SignalStops`) and every call end (`CallsEnd`)? | a batch of two items and a list, every transport, with and without cache, open stream, locked file, signal, broken listener |
| `bypass_doc`, `only_doc`, `stale_age_doc`, `options_comment_doc`, `since_doc` | statements of the documentation that the code does not keep, see section 6 | the smallest instances that show it |

**Why the bounds are enough.**  With TTL 1 and timeout 1 a clock of 2 is the
first one at which an answer can be late, stored and expired; a longer clock
repeats this.  One change is enough for an answer to be old, and an invariant
about two revisions only compares them.  Two reads are needed for one to hit what
the other stores across a write; a third would have nothing new to read, as
reads meet only in the cache.
In `tool_session` one id suffices because the lists of a family name
the id of the request and nothing relates two ids.  In `field_options` the
limit of ids lets three labels be added and two PUTs roll each other back, and two
labels in a call can be one label twice.
In `cache_identities` a clock of 1 lets an entry expire and be served stale after an
overload.  A hit cannot be too old there (`RecentEnough` holds of all that starts by
time 1): that bound is checked by `FreshnessBound` in `cache_races`, at a clock of 2, and
proved, as a part of `Implements`, for all clocks.
In `mail_paging` three items, and up to two more, make two or three pages of two, or up to
five of one; the times 1, 2 and 4 leave room before, between and behind them; two
changes are a thread that moves to the front and one that leaves, or two that leave;
and the limits put the cap inside the first or a later page, or beyond what passes
the filters.
In `tool_fanout` two slots and three bodies make one wait for a slot, the second bucket
is empty after two requests while the first refills in a tick, and the second call
queues between the bodies; as in `NewPipedriveLimiter` a later bucket is slower and
has the larger burst.  In `server_calls` two items
are one before and one after a failure, and one list can read before, between and
after them.  The theorems below remove the bounds of all these runs for their
invariants, for `Implements` and for `ConfirmedLabelsKept`; for the liveness
properties the bounds stay.  Deadlock is checked in every run but `server_calls`, where the process exits.

**Fairness.**  In `ResponseCache` `FairSpec` asks for weak fairness of the steps of each read and each
write in progress, and of nothing else: a goroutine that is ready to run is run,
bbolt grants its lock, and a request that nobody answers is ended by
`http.Client.Timeout`, which is the step `UpstreamFails` or `WriteFails`.  Time,
other users, new calls, the admin tools and restarts have no fairness; a restart ends a call, which is why `ReadsReturn`
allows the slot to be idle.  What is *not* assumed is that the upstream
answers.  In `MailPaging` a request that fails ends its call, so that only calls
whose pages are all answered could go on for ever, and fairness is asked of
these answers.  `ToolFanout` and `BatchCreate` ask for less than fair goroutines: weak
fairness of all the work together, that is, of the process going on at all as
long as it has anything to do.  Signals, cancellations, new requests and
broken listeners are not in it.

## 4. Proofs

`ResponseCacheProofs` proves from `ResponseCacheAssumption` alone (no set is
empty that a call must choose from, TTLs and the timeout are positive; any number
of readers, writers, identities, documents, paths and changes, an unbounded
clock and log):

| Theorem | Property |
|---|---|
| `Typing` | `TypeOK`, with one entry per key |
| `HitsAreFresh` | `FreshnessBound` |
| `IdentitiesStayApart` | `OwnAnswersOnly` |
| `WritesAreSeen` | `ReadYourWrites` |

None of the last three is inductive.

* `FreshInv` follows a body from its answer to its hit.  In transit the clock is
  at most `at + Timeout` (the guard of `Tick`) and every change it misses was made
  at `at` or later; at decoding this becomes "every missed change is younger
  than `stored - Timeout`", which the entry inherits; a hit has `now <
  expiresAt = storedAt + TTL`.  The two clocks a comparison mixes, `now` of the
  reader and `stored` of the filler, need no order of their own: a `now`
  read before the entry was stored only makes the bound weaker for the reader.
* `OwnInv` says that an entry's owner is the identity in its key, and a body on
  its way belongs to the call that asked.
* `WriteInv` has four parts.  `FloorSeen`: no floor is above the log's length.
  `EntrySeen`, `ReadSeen`: entries, and bodies on the way, that are not late are at
  least as new as the floor of their key.  `WriteSeen` carries the claim between two
  paths: for the keys purged so far (`PurgedSoFar`), nothing that is not late
  is older than the write, and so `EndWrite` may raise the floor.
  This is where the atomicity of one `InvalidatePath` enters: the deletion and
  the marking of what is under way are one step.

`ResponseCacheRefinement` proves `KeepsPromise == Spec => Implements`.  Its lemmas
follow the definition: initial states map to initial states (`InitMaps`), a step of a
read maps to the step of the same name in `CachedReads`, or to a stutter where
only the file knows the difference (`ReadStepMaps`), the log and the clock
move as the world does, and what writes and admin tools delete from the file is
forgotten (`WriteStepMaps`, `DeletionMaps`).  A hit needs `FreshInv` for `RecentEnough` and
`OwnInv` for the owner.  `PutKeeps` is why nothing is kept that was not returned: `Put` replaces what is
under its own key, and the call returns the very answer that it stores (`client.go:211`), in one
step of the model.

`BatchCreateProofs` proves four properties of `BatchCreate`, for any number of calls
and batches of any length, from `BatchAssumption` and `LifecycleAssumption`.  None is
inductive; `Inv == TypeOK /\ LifeInv /\ BatchInv /\ ListedInv` is.

* `LifeInv` is about the process alone: `Close` comes once, and whoever is in service
  when the cache is closed is in `cut`; a quiet end of streamable-http finds nobody in
  service.  Every step of the composition is one of the process or leaves it alone
  (`NextIsLife`), so it is proved on `Lifecycle` only.  It gives `QuietStops`.
* `BatchInv` is the loop invariant: an item is upstream if its result says so, and only
  if it has a result that is not "blank" or its answer is still to come; the two
  counters are the numbers of good and other results; in the loop there is room
  for another result, and with `stop_on_error` no failure yet.  `OneMore` does the
  counting.  It gives `TrueResults`.  `TypeOK` needs it as well: `Create` writes under
  the index of the next result.
* `ListedInv` is `ReportedItemsListed` extended to the bodies on their way.  Its
  interesting step is `Purge`: a batch that is not cut off finds the cache open
  (`PurgeOpens`: it runs, so the opening is over; a closed cache would have cut
  it off), and then the deletion and the marking of bodies are one step.  It gives
  `ReportsListed`.

`ToolFanoutProofs` proves `Typing`, `CapHolds` (`BackfillsCapped`) and `AccountsHold`
(`AnswerAccounts`), for listings of any length, any number of slots and any buckets,
from `RateLimiterAssumption` and `ToolFanoutAssumption` (there are enough tasks for what
is needed, and the ids of messages are positive).  `Slots` says that who is queued waits
for a bucket.  `FanInv` is the rest of the invariant: goroutines are started in order
(`CallInv`: the k-th one has begun just when k are spawned, without which a goroutine could
be started twice), the counters are those of the goroutines that have ended so far, who
has left the semaphore has an outcome, and `CapInv` counts the slots that are taken.  A
step that moves a task between run, queued and sent is invisible to it (`QuietStep`), and
so a goroutine's steps in the limiter need its types only.

`RateLimiterProofs` and `LimitsHold` in `ToolFanoutProofs` prove `SendsWithinLimits`, for
any number of buckets with any rates and bursts, in any order: that the buckets of
`NewPipedriveLimiter` come fastest first is not needed.  The invariant
`LimiterInv` is one `Stage` per bucket, which relates its level, those who wait
for it, what has left the bucket before it and what has left it.

* `Spaced`: those who wait are let go one by one, `Every[j]` apart, and the debt of the
  bucket covers all of them.  A cancelled wait gives its token back only when it is
  the last one, which is what keeps this true.
* `Own`: the bucket keeps its own limit, counting those who wait at the moment when
  they will go.
* For the limit of an *earlier* bucket `b` a delay could squeeze requests together
  that `b` had spaced out.  Where bucket `j` is the slower one (`Slower`), those it
  delays leave it further apart than `b` asks, and those it does not delay are as they
  came.  Where it is the faster one (`Faster`), whoever has to wait came in a burst
  that the meter of `b` still remembers when he goes.  In both cases what leaves `j`
  is within the limit if what entered was, so the limits hold from bucket to
  bucket up to the last.

The lemmas state each of this for a function from waiting tasks to times, and what
coming, going and a tick do to it; the queue enters at the end.  `LimitsHold` adds
that the goroutines of `ToolFanout` touch the limiter only by its own actions.

`ToolSessionProofs` proves `SessionTypes`, `WritesPurge` (`WrittenRecordPurged`) and `DealsWritesPurge`
(`DealsPurged`), for any set of ids.  `CatalogFits` is the fact on the catalog: every write of every family has at most
six paths, and one of them is a prefix, in the same version, of each GET that shows
its record.  It is proved family by family, from lemmas on prefixes of paths.  The
session adds `StillToPurge`: while a call is at path `step`, a GET that shows the
record, or that `DealsPurged` claims (`Claimed`), and was cached before the write lies under a
path from `step` on.

`FieldOptionsProofs` proves `OptionTypes`, `LabelsStayUnique` (`LabelsUnique`) and `ConfirmedStay`
(`ConfirmedLabelsKept`), for any callers, labels and number of labels to a call.  The invariant adds
`SeenUnique`: what a call has read has no label twice, since its PUT brings that back
whatever is there by then; and `NothingUnnoticed`: a label that is upstream while a
call waits for its PUT is one that it has read or has missed.  `AddedIsFresh` says of the merge that it adds labels
that were not there, each once.

`MailPagingProofs` proves `PagingTypes`, `PlainWalksLeaveGaps` (`PlainWalkGaps`) and
`BelowCapsLeaveGaps` (`BelowCapGaps`), for pages of any size, any cap and limits, listings of
any length and any number of changes of every kind.

* A listing is a set of times, and the offset of an item is the number of later ones.
  `OneAtEachOffset` says that the offsets of a listing are the numbers below its
  size, each taken once (a pigeonhole argument), so that a page holds just the items
  of its range (`PageItems`).
* `Drift` relates two versions: an item that is listed in all versions between
  them comes to the front by at most one place for each item that has left.  Coming in
  and rising only push others back (`ThreadRises`, `UpstreamDrifts`).
* So what a later version has before the cursor, and an earlier one had behind it, lies in
  a range of as many offsets as items have left, and offsets are distinct:
  `GapGrows` bounds the number of what is skipped when a page comes from a newer version.
* `BetweenPages` says what a call may have left out when it asks for its next page, and
  `BetweenCalls` what a walk may have before its next call: of what lasts and lies
  before the cursor, in the version of the last page, at most as many as have left.
  `ScanKeeps` says what the loop over a page does.

The merge and the loop are folds, that is, recursive functions on sets of places.  That
such a function exists and what it keeps along a sequence of any length is shown by the
least place at which it fails (`LeastNumber`), without an induction theorem.

Only model-checked: the liveness properties `ReadsReturn`, `WritesReturn`, `CallsReturn` (of
`MailPaging` and `ToolFanout`), `SignalStops` and `CallsEnd`, as fairness and ENABLED are
beyond the prover; and the five runs that are expected to be violated.  Every
other property of a run is the subject of a theorem.

## 5. What the checks show

* The age of a hit is bounded by TTL plus client timeout, not by the TTL: the
  lifetime starts when the answer is decoded.  Nothing in a race of stores, purges
  and restarts makes it worse.
* A caller who has finished a write sees it in every later hit, with two exceptions
  that the properties name and do not hide: an answer under way during the
  invalidation is stored after it and is then a hit until it expires
  (`client.go:211`), and an invalidation whose transaction fails is not noticed
  (`cache.go:203`).  Both are bounded by `FreshnessBound`.
* A write whose answer is lost invalidates nothing, and the old answers stay
  until they expire; the claim is about completed writes only.
* Every write tool invalidates the versions and paths that its own family
  reads, apart from the mail of a deal (section 6), which no deals tool changes.
* Offset paging repeats messages under new mail and loses none by it.  Each item that
  leaves the listing while a caller walks can hide one other, and no more; a thread that
  gets a message while the walk is past its new place is not returned.  A page out of the
  cache may be of any age, as long as none is older than one before it.  That happens when
  the first page has expired and a later one, cached by itself, has not
  (`mailbox.go:493`), and then the walk has a gap.
* A thread that is read under way, or that moves, does not make a filtered call stop too
  early, and below its cap it returns what stays unread.
* Between the caller and the cache file stands a promise that does not mention the
  file, and every interleaving of reads, writes, purges, restarts and
  failures keeps it.  A stale answer is always one that the same caller has got before.
* A batch tells the truth about what it created, with one gap that its results
  cannot show: an item reported as failed may exist, because its answer was lost.
  A batch whose context ends returns no results and invalidates nothing
  (`activities_batch.go:53`): what it created is missing from the cached list
  until that expires.  When the batch reports, the cached list shows what it created, with
  the three exceptions of section 2; of a refused invalidation nobody is told.
* A label that `add_option` has reported stays, unless a call that had read the field
  before the label came writes after it.  Its PUT takes away, besides, whatever in
  the array is no object (`deal_fields.go:69`).
* A stop over streamable-http that reports no error has let every call end.  With a
  client that holds an event stream it never does: `Shutdown` always runs
  into its five seconds and the process ends with a panic.  Over SSE and stdio
  `Close` may overtake a call, which then returns its results with nothing
  invalidated.
* The limits of the buckets hold together although requests wait for them one
  after the other, within one client.  Over HTTP each request has a client
  and a limiter of its own (`client.go:60`), so that nothing bounds the requests
  of all calls together.

## 6. Where documentation and code differ

| Run | Statement | Code |
|---|---|---|
| `bypass_doc` | README: bypass "Skip cache entirely for this call" | `CachedGet` calls `staleFallback` in the bypass branch as well (`client.go:175`) |
| `only_doc` | README: only "Return cache miss error if nothing is cached" | without a cache (disabled, or locked out of the file) `CachedGet` asks the upstream for every mode (`client.go:172`) |
| `stale_age_doc` | README: `PIPEDRIVE_CACHE_STALE_TTL` is the "Max age for stale fallback" | parsed, and read by nobody (`client.go:250`) |
| `since_doc` | `since`: "keep messages with message_time >= this" (`mailbox.go:81`) | a call that fills its limit inside a page reports the end of that page; what lies between is in no answer (`mailbox.go:506`) |
| `options_comment_doc` | `deal_fields.go:5`: callers "can't accidentally drop existing options" | two overlapping calls: the second PUT drops what the first has added |

Each of these runs has one property and is expected to be violated.

Seen on the way, without a run: the comment at `deals.go:480` says that
`invalidateDealsCache` invalidates "every GET under /deals", while
`/deals/{id}/mailMessages` is cached as v1-legacy (`mailbox.go:493`), a version it does not
visit; `DealsPurged` claims the rest.  `docs/filters.md` and `docs/mail-tools.md` call
`cache.invalidate` with `path`, `method` and `path_prefix`, while its one argument is
`prefix`, a prefix of keys (`tools/cache.go:21`).

## 7. What is left, and what is not modelled

Done: the cache with its proofs and its refinement, the catalog of invalidations,
field options, paging, goroutines and limiter, batch and lifecycle, and a theorem for
every invariant that a run checks.  Worth adding:

1. An abstract token-bucket limiter (a window of sends and nothing else) that
   `RateLimiter` implements, and one of a walk over a mailbox.
2. Queries as part of the documents, once it is known what a list with a
   `filter_id` shows of a changed filter.

Not modelled:

* The adapter `tools.go`: reflection over a function's signature when a tool is
  registered; no state, no order of steps.
* `normalize.go`, `normalize_mail.go`, `mask.go`, `validate.go`, `pagination.go`,
  `response.go`: pure functions that shape one answer or one argument.  A model of them
  would copy them field by field.
* The registration of tools and the allowlist: read once at the start, a filter
  of a fixed list; the guards of write and delete are in `ToolSession`.
* Parsing the environment and the headers: pure, per request.
* The servers of mcp-go, net/http and rate.Limiter: external, modelled by what the
  repository relies on, and marked so in `PROJECT.json`.
* The time of messages as strings (`mailbox.go:501`), and the totals and filtered lists that
  another record's change alters: the repository does not say what the upstream
  sends.
