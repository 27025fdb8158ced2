----------------------------- MODULE BatchCreate -----------------------------
(***************************************************************************)
(* pipedrive.activities.batch_create (tools/activities_batch.go) and the   *)
(* cached list of activities, in a process that may be told to stop: POSTs *)
(* one after the other, each with a result of its own, and one             *)
(* invalidation at the end.  Meanwhile pipedrive.activities.list reads the *)
(* list through the cache.                                                 *)
(***************************************************************************)
EXTENDS Lifecycle

CONSTANTS
    Batches, \* calls of activities.batch_create
    Lists,   \* calls of activities.list
    Items    \* the number of activities in a batch

ASSUME BatchAssumption ==
    /\ Batches \union Lists = Calls
    /\ Batches \intersect Lists = {}
    /\ Items \in Nat \ {0}

VARIABLES
    created, \* the upstream: the activities there are, as <<batch, index>>
    entry,   \* the file: the cached list, if any
    batch,   \* the batches: how far, and the results so far; lost is history:
             \* the transaction of the invalidation failed
    list     \* the lists: how far, and the body on its way

vars == <<lifeVars, created, entry, batch, list>>

NoList == [found |-> FALSE, shows |-> {}, late |-> FALSE]

(* Lists of activities, as the file or a body on its way has them.         *)
(* late is history: the list was invalidated while this body was fetched.  *)
Bodies == [found : BOOLEAN, shows : SUBSET (Batches \X (1 .. Items)), late : BOOLEAN]

Found(shows, late) == [found |-> TRUE, shows |-> shows, late |-> late]

(* What an item came to: created, refused as it has no subject, or failed. *)
Results == {"created", "blank", "failed"}

NoBatch == [pc |-> "idle", stop |-> FALSE, results |-> << >>,
            succeeded |-> 0, failed |-> 0, cancelled |-> FALSE, lost |-> FALSE]

NoRequest == [pc |-> "idle", body |-> NoList]
Asking    == [pc |-> "ask", body |-> NoList]
Returning == [pc |-> "reply", body |-> NoList]

Init ==
    /\ LifeInit
    /\ created = {}
    /\ entry \in {NoList, Found({}, FALSE)}
    /\ batch = [b \in Batches |-> NoBatch]
    /\ list = [r \in Lists |-> NoRequest]

----------------------------------------------------------------------------
(* The batch.  Whether an item has a subject is chosen when it is its turn. *)

BeginBatch(b, stop) ==
    /\ Enter(b)
    /\ batch' = [batch EXCEPT ![b].pc = "loop", ![b].stop = stop]
    /\ UNCHANGED <<created, entry, list>>

Index(b) == Len(batch[b].results) + 1

Good(result) == result = "created"

(* Mutated AfterItem: stop_on_error is forgotten. *)
AfterItemAlways(b, result) ==
    IF Index(b) < Items THEN "loop"
    ELSE IF Good(result) \/ batch[b].succeeded > 0 THEN "purge" ELSE "reply"

(* Where the loop goes with the result of an item: on, or out of it and,   *)
(* if anything was created, to the invalidation.                           *)
AfterItem(b, result) ==
    IF Index(b) < Items /\ (Good(result) \/ ~batch[b].stop) THEN "loop"
    ELSE IF Good(result) \/ batch[b].succeeded > 0 THEN "purge" ELSE "reply"

Record(b, result) ==
    /\ batch' = [batch EXCEPT
           ![b].pc = AfterItem(b, result),
           ![b].results = Append(@, result),
           ![b].succeeded = IF Good(result) THEN @ + 1 ELSE @,
           ![b].failed = IF Good(result) THEN @ ELSE @ + 1]
    /\ UNCHANGED <<lifeVars, created, entry, list>>

(* The context is looked at before each item: the results are dropped.     *)
GiveUp(b) ==
    /\ batch[b].pc = "loop"
    /\ batch[b].cancelled
    /\ batch' = [batch EXCEPT ![b].pc = "error"]
    /\ UNCHANGED <<lifeVars, created, entry, list>>

RefuseBlank(b) ==
    /\ batch[b].pc = "loop"
    /\ ~batch[b].cancelled
    /\ Record(b, "blank")

Post(b) ==
    /\ batch[b].pc = "loop"
    /\ ~batch[b].cancelled
    /\ batch' = [batch EXCEPT ![b].pc = "post"]
    /\ UNCHANGED <<lifeVars, created, entry, list>>

(* Pipedrive creates the activity, ... *)
Create(b) ==
    /\ batch[b].pc = "post"
    /\ batch' = [batch EXCEPT ![b].pc = "created"]
    /\ created' = created \union {<<b, Index(b)>>}
    /\ UNCHANGED <<lifeVars, entry, list>>

(* ... and its answer arrives. *)
Answered(b) ==
    /\ batch[b].pc = "created"
    /\ Record(b, "created")

(* The limiter, the network, Pipedrive or the context ends the request:    *)
(* before it was carried out, or after.                                    *)
PostFails(b) ==
    /\ batch[b].pc \in {"post", "created"}
    /\ Record(b, "failed")

(* DeletePrefix whose transaction commits; one of a cache that is closed   *)
(* returns an error, which InvalidatePath drops.                           *)
DeleteList ==
    /\ entry' = IF cache = "open" THEN NoList ELSE entry
    /\ list' = [r \in Lists |-> IF list[r].pc = "transit"
                                THEN [list[r] EXCEPT !.body.late = TRUE] ELSE list[r]]

(* Mutated Purge: the lists are taken to be cached as v1 only. *)
PurgeV1(b) ==
    /\ batch[b].pc = "purge"
    /\ batch' = [batch EXCEPT ![b].pc = "reply"]
    /\ UNCHANGED <<lifeVars, created, entry, list>>

(* invalidateActivitiesCache without an id: /activities as v2, and as v1,  *)
(* where nothing is cached.                                                *)
Purge(b) ==
    /\ batch[b].pc = "purge"
    /\ batch' = [batch EXCEPT ![b].pc = "reply"]
    /\ DeleteList
    /\ UNCHANGED <<lifeVars, created>>

(* The file refuses the transaction: the list stays, DeletePrefix drops    *)
(* the error, and the report is the same.                                  *)
PurgeFails(b) ==
    /\ batch[b].pc = "purge"
    /\ cache = "open"
    /\ batch' = [batch EXCEPT ![b].pc = "reply", ![b].lost = TRUE]
    /\ UNCHANGED <<lifeVars, created, entry, list>>

EndBatch(b) ==
    /\ batch[b].pc \in {"reply", "error"}
    /\ Leave(b)
    /\ UNCHANGED <<created, entry, batch, list>>

(* A signal ends the contexts of stdio; the others end with the client.    *)
(* After the loop nobody looks at them.                                    *)
Cancel(b) ==
    /\ env.transport = "stdio" => signalled
    /\ phase # "exited"
    /\ batch[b].pc \in {"loop", "post", "created"}
    /\ ~batch[b].cancelled
    /\ batch' = [batch EXCEPT ![b].cancelled = TRUE]
    /\ UNCHANGED <<lifeVars, created, entry, list>>

BatchStep(b) ==
    /\ phase # "exited"
    /\ \/ \E stop \in BOOLEAN : BeginBatch(b, stop)
       \/ GiveUp(b) \/ RefuseBlank(b) \/ Post(b)
       \/ Create(b) \/ Answered(b) \/ PostFails(b)
       \/ Purge(b) \/ PurgeFails(b) \/ EndBatch(b)

----------------------------------------------------------------------------
(* The list, cache_mode default. *)

BeginList(r) ==
    /\ Enter(r)
    /\ list' = [list EXCEPT ![r] = IF cache = "open" /\ entry.found
                                   THEN Returning ELSE Asking]
    /\ UNCHANGED <<created, entry, batch>>

AnswerList(r) ==
    /\ list[r].pc = "ask"
    /\ list' = [list EXCEPT ![r] = [pc |-> "transit", body |-> Found(created, FALSE)]]
    /\ UNCHANGED <<lifeVars, created, entry, batch>>

Store(r) ==
    /\ list[r].pc = "transit"
    /\ entry' = IF cache = "open" THEN list[r].body ELSE entry
    /\ list' = [list EXCEPT ![r] = Returning]
    /\ UNCHANGED <<lifeVars, created, batch>>

ListFails(r) ==
    /\ list[r].pc \in {"ask", "transit"}
    /\ list' = [list EXCEPT ![r] = Returning]
    /\ UNCHANGED <<lifeVars, created, entry, batch>>

EndList(r) ==
    /\ list[r].pc = "reply"
    /\ Leave(r)
    /\ UNCHANGED <<created, entry, batch, list>>

ListStep(r) ==
    /\ phase # "exited"
    /\ BeginList(r) \/ AnswerList(r) \/ Store(r) \/ ListFails(r) \/ EndList(r)

----------------------------------------------------------------------------
Rest == UNCHANGED <<created, entry, batch, list>>

Work ==
    \/ \E b \in Batches : BatchStep(b)
    \/ \E r \in Lists : ListStep(r)
    \/ LifeStep /\ Rest

Next ==
    \/ Work
    \/ LifeEvent /\ Rest
    \/ \E c \in Calls : Arrive(c) /\ Rest
    \/ \E b \in Batches : Cancel(b)

Spec == Init /\ [][Next]_vars

(* The process runs: while it has anything to do, it does some of it.  A   *)
(* request that nobody answers is ended by the timeout of the HTTP client. *)
FairSpec == Spec /\ WF_vars(Work)

----------------------------------------------------------------------------
(* Properties. *)

BatchCalls == [pc : {"idle", "loop", "post", "created", "purge", "reply", "error"},
               stop : BOOLEAN, results : Seq(Results), succeeded : Nat, failed : Nat,
               cancelled : BOOLEAN, lost : BOOLEAN]

ListCalls == [pc : {"idle", "ask", "transit", "reply"}, body : Bodies]

TypeOK ==
    /\ LifeTypeOK
    /\ created \subseteq (Batches \X (1 .. Items))
    /\ entry \in Bodies
    /\ batch \in [Batches -> BatchCalls]
    /\ list \in [Lists -> ListCalls]

GoodItems(b) == {i \in DOMAIN batch[b].results : Good(batch[b].results[i])}
Replied(b)   == batch[b].pc = "reply" /\ inside[b] = "left"

(* What a batch returns is true of the upstream: what it calls created is  *)
(* there, what it refused or did not get to is not, the counts are those   *)
(* of the results, and with stop_on_error only the last result is a        *)
(* failure.  Of an item whose answer was lost nothing is said.             *)
ResultsTrue ==
    \A b \in Batches : Replied(b) =>
        LET done == DOMAIN batch[b].results
        IN  /\ \A i \in GoodItems(b) : <<b, i>> \in created
            /\ \A i \in 1 .. Items : <<b, i>> \in created =>
                   i \in done /\ batch[b].results[i] # "blank"
            /\ batch[b].succeeded = Cardinality(GoodItems(b))
            /\ batch[b].failed = Cardinality(done \ GoodItems(b))
            /\ \/ done = 1 .. Items
               \/ batch[b].stop
            /\ batch[b].stop => \A i \in done : i + 1 \in done => i \in GoodItems(b)

(* When a batch has reported what it created, the cached list shows it or  *)
(* is gone, whatever the lists do meanwhile and however the process stops, *)
(* with three exceptions: a body that was fetched across the invalidation, *)
(* a batch that the deferred Close has overtaken, and one whose            *)
(* invalidation the file refused, which nobody is told.                    *)
ReportedItemsListed ==
    \A b \in Batches : Replied(b) /\ ~batch[b].lost /\ b \notin cut /\ cache # "absent" =>
        (entry.found /\ ~entry.late => {<<b, i>> : i \in GoodItems(b)} \subseteq entry.shows)

(* Every call that is served ends: with an answer, or with the process.    *)
CallsEnd == \A c \in Calls : inside[c] = "connecting" ~> inside[c] \in {"left", "killed"}
=============================================================================
