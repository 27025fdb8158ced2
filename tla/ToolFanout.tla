----------------------------- MODULE ToolFanout -----------------------------
(***************************************************************************)
(* The two tools that serve one call with several goroutines, and the rate *)
(* limiter they share: pipedrive.deals.mail.list fetches the bodies of its *)
(* messages (tools/mailbox.go), at most Concurrency at a time, and         *)
(* pipedrive.context.get fetches its parts (tools/context.go), all at once. *)
(* Over stdio both calls use the one client of the process, and so its one *)
(* limiter.  A task <<c, k>> is the k-th goroutine of call c.              *)
(***************************************************************************)
EXTENDS RateLimiter, FiniteSets

CONSTANTS
    Listings,    \* the listings of a deal's mail: sequences of [id, body]
    MaxBodies,   \* the values of max_bodies, 0 when it is not given
    Parts,       \* how many GETs context.get sends
    Concurrency  \* dealBodyConcurrency

Mail    == "deals.mail.list"
Context == "context.get"
Calls   == {Mail, Context}

(* The ids of the messages of a listing that have come without a body. *)
Needs(listing) ==
    LET lacking == SelectSeq(listing, LAMBDA m : ~m.body)
    IN  [k \in DOMAIN lacking |-> lacking[k].id]

ASSUME ToolFanoutAssumption ==
    /\ MaxBodies \subseteq Nat
    /\ Parts \in Nat
    /\ Concurrency \in Nat \ {0}
    /\ \A s \in Listings : /\ Needs(s) \in Seq(Nat \ {0})
                           /\ {<<Mail, k>> : k \in DOMAIN Needs(s)} \subseteq Tasks
    /\ {<<Context, k>> : k \in 1 .. Parts} \subseteq Tasks

VARIABLES
    limited, \* PIPEDRIVE_RATE_LIMIT_DISABLE is not set
    calls,   \* the calls: how far they are, and the counters of their answer
    tasks,   \* what each goroutine does, or how it has ended
    ended    \* the goroutines that have left the semaphore and the wait group

vars == <<limited, calls, tasks, ended, level, queue, passed>>

Outcomes == {"answer", "error"}

(* listing: what the mail call has read, before max_bodies is looked at.   *)
NotBegun == [pc |-> "idle", cancelled |-> FALSE, listing |-> << >>, needs |-> << >>,
             fetched |-> 0, skipped |-> 0, errors |-> {}]

Init ==
    /\ limited \in BOOLEAN
    /\ calls = [c \in Calls |-> NotBegun]
    /\ tasks = [t \in Tasks |-> "none"]
    /\ ended = {}
    /\ LimiterInit

----------------------------------------------------------------------------
(* The first of the messages in need, as many as max_bodies allows. *)
Kept(all, max) == IF max > 0 THEN SubSeq(all, 1, Smaller(max, Len(all))) ELSE all

(* Mutated BeginMail: what is skipped is counted after the cut. *)
BeginMailCutFirst(listing, max) ==
    LET kept == Kept(Needs(listing), max)
    IN  /\ calls[Mail].pc = "idle"
        /\ calls' = [calls EXCEPT ![Mail].pc = "run", ![Mail].listing = listing,
                                  ![Mail].needs = kept,
                                  ![Mail].skipped = Len(kept) - Len(Kept(kept, max))]
        /\ UNCHANGED <<limited, tasks, ended, limiterVars>>

(* The listing is there: the messages without a body need one, as far as   *)
(* max_bodies allows.                                                      *)
BeginMail(listing, max) ==
    LET all  == Needs(listing)
        kept == Kept(all, max)
    IN  /\ calls[Mail].pc = "idle"
        /\ calls' = [calls EXCEPT ![Mail].pc = "run", ![Mail].listing = listing,
                                  ![Mail].needs = kept,
                                  ![Mail].skipped = Len(all) - Len(kept)]
        /\ UNCHANGED <<limited, tasks, ended, limiterVars>>

BeginContext ==
    /\ calls[Context].pc = "idle"
    /\ calls' = [calls EXCEPT ![Context].pc = "run",
                              ![Context].needs = [k \in 1 .. Parts |-> k]]
    /\ UNCHANGED <<limited, tasks, ended, limiterVars>>

TasksOf(c) == {<<c, k>> : k \in DOMAIN calls[c].needs}
Spawned(c) == {t \in TasksOf(c) : tasks[t] # "none"}

(* Mutated MaySpawn: the goroutine takes its own slot of the semaphore. *)
MaySpawnAny(c) == calls[c].pc = "run"

(* The caller takes a slot of the semaphore before it starts a goroutine.  *)
MaySpawn(c) ==
    /\ calls[c].pc = "run"
    /\ c = Mail => Cardinality(Spawned(c) \ ended) < Concurrency

(* wg.Add and go: the goroutines are started in order. *)
Spawn(c) ==
    LET t == <<c, Cardinality(Spawned(c)) + 1>>
    IN  /\ MaySpawn(c)
        /\ t \in TasksOf(c)
        /\ tasks' = [tasks EXCEPT ![t] = "run"]
        /\ UNCHANGED <<limited, calls, ended, limiterVars>>

(* What the goroutine of t leaves in the answer, under the mutex. *)
Conclude(t, outcome) ==
    LET c == t[1]
    IN  /\ tasks' = [tasks EXCEPT ![t] = outcome]
        /\ calls' = IF outcome = "error"
                    THEN [calls EXCEPT ![c].errors = @ \union {calls[c].needs[t[2]]}]
                    ELSE [calls EXCEPT ![c].fetched = @ + 1]
        /\ UNCHANGED <<limited, ended>>

(* CachedGet finds the body in the cache, ... *)
TakeCached(t) ==
    /\ tasks[t] = "run"
    /\ Conclude(t, "answer")
    /\ UNCHANGED limiterVars

(* ... or asks the upstream: past the limiter if there is one. *)
AskUnlimited(t) ==
    /\ tasks[t] = "run"
    /\ ~limited
    /\ tasks' = [tasks EXCEPT ![t] = "sent"]
    /\ UNCHANGED <<limited, calls, ended, limiterVars>>

AskLimited(t) ==
    /\ tasks[t] = "run"
    /\ limited
    /\ ~calls[t[1]].cancelled
    /\ Wait(t)
    /\ tasks' = [tasks EXCEPT ![t] = "queued"]
    /\ UNCHANGED <<limited, calls, ended>>

(* A limiter refuses a context that has ended already. *)
RefusedByLimiter(t) ==
    /\ tasks[t] = "run"
    /\ limited
    /\ calls[t[1]].cancelled
    /\ Conclude(t, "error")
    /\ UNCHANGED limiterVars

QueueOn(t) ==
    /\ tasks[t] = "queued"
    /\ NextBucket(t)
    /\ UNCHANGED <<limited, calls, tasks, ended>>

Send(t) ==
    /\ tasks[t] = "queued"
    /\ Pass(t)
    /\ tasks' = [tasks EXCEPT ![t] = "sent"]
    /\ UNCHANGED <<limited, calls, ended>>

(* Mutated LeaveQueue: the reservation of a cancelled wait stays. *)
LeaveReserved(t) ==
    /\ tasks[t] = "queued"
    /\ calls[t[1]].cancelled
    /\ Conclude(t, "error")
    /\ UNCHANGED limiterVars

(* The context ends while the goroutine waits for a token. *)
LeaveQueue(t) ==
    /\ tasks[t] = "queued"
    /\ calls[t[1]].cancelled
    /\ Cancel(t)
    /\ Conclude(t, "error")

(* An answer, whether there is a body in it or not, a stale one instead, or *)
(* an error.                                                               *)
Return(t, outcome) ==
    /\ tasks[t] = "sent"
    /\ Conclude(t, outcome)
    /\ UNCHANGED limiterVars

(* Mutated Finish: a goroutine with an error returns past its release. *)
FinishBodies(t) ==
    /\ tasks[t] = "answer"
    /\ t \notin ended
    /\ ended' = ended \union {t}
    /\ UNCHANGED <<limited, calls, tasks, limiterVars>>

(* The deferred calls: leave the semaphore, then the wait group. *)
Finish(t) ==
    /\ tasks[t] \in Outcomes
    /\ t \notin ended
    /\ ended' = ended \union {t}
    /\ UNCHANGED <<limited, calls, tasks, limiterVars>>

(* Mutated Join: nothing is waited for. *)
JoinSpawned(c) ==
    /\ calls[c].pc = "run"
    /\ Spawned(c) = TasksOf(c)
    /\ calls' = [calls EXCEPT ![c].pc = "done"]
    /\ UNCHANGED <<limited, tasks, ended, limiterVars>>

(* wg.Wait, and the answer is put together. *)
Join(c) ==
    /\ calls[c].pc = "run"
    /\ TasksOf(c) \subseteq ended
    /\ calls' = [calls EXCEPT ![c].pc = "done"]
    /\ UNCHANGED <<limited, tasks, ended, limiterVars>>

(* The caller gives up, or the process is told to stop. *)
ContextEnds(c) ==
    /\ calls[c].pc = "run"
    /\ ~calls[c].cancelled
    /\ calls' = [calls EXCEPT ![c].cancelled = TRUE]
    /\ UNCHANGED <<limited, tasks, ended, limiterVars>>

Tick ==
    /\ LimiterTick
    /\ UNCHANGED <<limited, calls, tasks, ended>>

CallStep(c) == Spawn(c) \/ Join(c)

TaskStep(t) ==
    \/ TakeCached(t)
    \/ AskUnlimited(t) \/ AskLimited(t) \/ RefusedByLimiter(t)
    \/ QueueOn(t) \/ Send(t) \/ LeaveQueue(t)
    \/ \E outcome \in Outcomes : Return(t, outcome)
    \/ Finish(t)

Next ==
    \/ \E listing \in Listings, max \in MaxBodies : BeginMail(listing, max)
    \/ BeginContext
    \/ \E c \in Calls : CallStep(c) \/ ContextEnds(c)
    \/ \E t \in Tasks : TaskStep(t)
    \/ Tick

Spec == Init /\ [][Next]_vars

(* The process runs: as long as a goroutine can go on or time is waited    *)
(* for, one of them goes on, and no more is asked; which one is open.  A   *)
(* request that nobody answers is ended by the timeout of the HTTP client, *)
(* which is an error here.                                                 *)
Work ==
    \/ \E c \in Calls : CallStep(c)
    \/ \E t \in Tasks : TaskStep(t)
    \/ Tick

Fairness == WF_vars(Work)

FairSpec == Spec /\ Fairness

----------------------------------------------------------------------------
(* Properties. *)

CallStates == [pc : {"idle", "run", "done"}, cancelled : BOOLEAN,
               listing : Listings \union {<< >>}, needs : Seq(Nat \ {0}), fetched : Nat, skipped : Nat,
               errors : SUBSET (Nat \ {0})]

TypeOK ==
    /\ limited \in BOOLEAN
    /\ calls \in [Calls -> CallStates]
    /\ tasks \in [Tasks -> {"none", "run", "queued", "sent"} \union Outcomes]
    /\ ended \subseteq Tasks
    /\ LimiterTypeOK
    /\ \A t \in Tasks : queue[t] # NotQueued <=> tasks[t] = "queued"

(* At most dealBodyConcurrency bodies are asked for at the same time, by   *)
(* goroutines in any order and also when some of them fail or are          *)
(* cancelled: "caps in-flight body backfills" (mailbox.go).                *)
BackfillsCapped == Cardinality({t \in Tasks : t[1] = Mail /\ tasks[t] \in {"queued", "sent"}})
                      <= Concurrency

(* What call c is asked for: a body for every message of the listing that  *)
(* lacks one, whatever max_bodies makes of it, or every part.              *)
Asked(c) == IF c = Mail THEN Needs(calls[Mail].listing) ELSE [k \in 1 .. Parts |-> k]

(* Once a call returns, nothing of it runs any more, so that nobody writes *)
(* to the messages while they are normalised, and the answer accounts for  *)
(* every message of the listing that lacks a body: it is fetched, or its   *)
(* id is among the errors, or it is one of those counted as skipped.       *)
(* Errors are kept by id, so a message that two pages repeat may fail      *)
(* twice and be reported once.                                             *)
AnswerAccounts ==
    \A c \in Calls : calls[c].pc = "done" =>
        LET asked == Asked(c)
            good  == {k \in DOMAIN asked : tasks[<<c, k>>] = "answer"}
            bad   == {k \in DOMAIN asked : tasks[<<c, k>>] = "error"}
        IN  /\ \A t \in Tasks : t[1] = c => tasks[t] \in Outcomes \union {"none"}
            /\ calls[c].fetched = Cardinality(good)
            /\ calls[c].errors = {asked[k] : k \in bad}
            /\ Cardinality(good) + Cardinality(bad) + calls[c].skipped = Len(asked)

(* Every call returns: no goroutine keeps its slot of the semaphore, and   *)
(* every debt of the limiter is paid in the end, whoever is cancelled.     *)
CallsReturn == \A c \in Calls : calls[c].pc = "run" ~> calls[c].pc = "done"
=============================================================================
