---------------------------- MODULE RateLimiter ----------------------------
(***************************************************************************)
(* internal.MultiLimiter: a request waits for one token bucket after the   *)
(* other before it is sent (pipedrive/client.go, Client.do).  One bucket is *)
(* a rate.Limiter of golang.org/x/time, modelled from what Wait does: it   *)
(* takes a token at once, also one that will only be there later, and then *)
(* sleeps until then; a cancelled wait gives the token back if nobody has  *)
(* queued behind it.                                                       *)
(*                                                                         *)
(* A bucket gains a token every Every[b] ticks, so its level is counted in *)
(* ticks: Every[b] of them are a token, and a debt is below zero.          *)
(***************************************************************************)
EXTENDS Integers, Sequences

CONSTANTS
    Tasks, \* the goroutines that share the limiter
    Every, \* per bucket, the ticks between two tokens
    Burst  \* per bucket, the tokens it holds at most

Buckets == DOMAIN Every

ASSUME RateLimiterAssumption ==
    /\ Every \in Seq(Nat \ {0})
    /\ Burst \in Seq(Nat \ {0})
    /\ Len(Every) = Len(Burst)
    /\ Len(Every) > 0

VARIABLES
    level, \* per bucket, the ticks it has gained and not given away
    queue, \* per task, the bucket it waits for and how long still
    passed \* history: per bucket, the meters of the requests that have
           \* passed it, see Meters

limiterVars == <<level, queue, passed>>

Full(b) == Burst[b] * Every[b]

Larger(m, n)  == IF m < n THEN n ELSE m
Smaller(m, n) == IF m < n THEN m ELSE n

NotQueued == [bucket |-> 0, left |-> 0]

(* NewPipedriveLimiter: buckets start full. *)
LimiterInit ==
    /\ level = [b \in Buckets |-> Full(b)]
    /\ queue = [t \in Tasks |-> NotQueued]
    /\ passed = [j \in Buckets |-> [b \in 1 .. j |-> 0]]

(* The wait for one token: none if there is one. *)
Delay(b) == Larger(0, Every[b] - level[b])

(* Reserve a token of bucket b. *)
Queue(t, b) ==
    /\ queue' = [queue EXCEPT ![t] = [bucket |-> b, left |-> Delay(b)]]
    /\ level' = [level EXCEPT ![b] = @ - Every[b]]

(* MultiLimiter.Wait begins with the first bucket, ... *)
Wait(t) ==
    /\ queue[t] = NotQueued
    /\ Queue(t, 1)
    /\ UNCHANGED passed

(* A request that passes bucket j counts, there, against the limits of the *)
(* buckets up to j: Every[b] on the meter of b, which the ticks drain.     *)
Meters(j) == [b \in 1 .. j |-> passed[j][b] + Every[b]]

(* ... goes on to the next one when the token is there, ... *)
NextBucket(t) ==
    LET j == queue[t].bucket
    IN  /\ j \in Buckets
        /\ queue[t].left = 0
        /\ j + 1 \in Buckets
        /\ Queue(t, j + 1)
        /\ passed' = [passed EXCEPT ![j] = Meters(j)]

(* Mutated Pass: Wait returns with the token of the first bucket. *)
PassFirst(t) ==
    /\ queue[t].bucket \in Buckets
    /\ queue[t].left = 0
    /\ queue' = [queue EXCEPT ![t] = NotQueued]
    /\ passed' = [passed EXCEPT ![Len(Every)] = Meters(Len(Every))]
    /\ UNCHANGED level

(* ... and after the last one the request is sent. *)
Pass(t) ==
    /\ queue[t].bucket = Len(Every)
    /\ queue[t].left = 0
    /\ queue' = [queue EXCEPT ![t] = NotQueued]
    /\ passed' = [passed EXCEPT ![Len(Every)] = Meters(Len(Every))]
    /\ UNCHANGED level

(* The context ends during the wait.  The tokens of earlier buckets are     *)
(* gone; the one waited for goes back unless somebody has reserved since.   *)
Cancel(t) ==
    LET b == queue[t].bucket
        last == \A u \in Tasks : queue[u].bucket = b => queue[u].left <= queue[t].left
    IN  /\ b \in Buckets
        /\ queue' = [queue EXCEPT ![t] = NotQueued]
        /\ level' = IF queue[t].left > 0 /\ last
                    THEN [level EXCEPT ![b] = @ + Every[b]] ELSE level
        /\ UNCHANGED passed

(* One tick.  Timers are exact: who has slept long enough goes on first.    *)
LimiterTick ==
    /\ \A t \in Tasks : queue[t].bucket \in Buckets => queue[t].left > 0
    /\ level' = [b \in Buckets |-> Smaller(Full(b), level[b] + 1)]
    /\ queue' = [t \in Tasks |-> [queue[t] EXCEPT !.left = Larger(0, @ - 1)]]
    /\ passed' = [j \in Buckets |-> [b \in 1 .. j |-> Larger(0, passed[j][b] - 1)]]

----------------------------------------------------------------------------
LimiterTypeOK ==
    /\ level \in [Buckets -> Int]
    /\ queue \in [Tasks -> [bucket : Nat, left : Nat]]
    /\ DOMAIN passed = Buckets
    /\ \A j \in Buckets : passed[j] \in [1 .. j -> Nat]

(* In every window of n ticks at most Burst[b] + n / Every[b] requests are *)
(* sent, for every bucket b: waiting for the buckets one after the other   *)
(* keeps all of their limits together, though a delay by a later bucket    *)
(* moves requests that an earlier one had spaced out.                      *)
SendsWithinLimits == \A b \in Buckets : passed[Len(Every)][b] <= Full(b)
=============================================================================
