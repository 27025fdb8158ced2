--------------------------- MODULE ResponseCache ---------------------------
(***************************************************************************)
(* The file-backed response cache (pipedrive/cache.go) under the tool      *)
(* calls that use it at the same time: reads through Client.CachedGet      *)
(* (pipedrive/client.go), write tools that invalidate after their request, *)
(* the cache admin tools, a restart of the server on the same cache file,  *)
(* and the upstream CRM, which other people change too.                    *)
(*                                                                         *)
(* A document is one cacheable GET: version, path and query.  The upstream *)
(* is the log of the changes it accepted; a revision is a length of that   *)
(* log, and the body of an answer is abstracted to the revision it shows   *)
(* and the identity (base URL and credential) it was computed for.         *)
(***************************************************************************)
EXTENDS Naturals, Sequences

CONSTANTS
    Readers,    \* slots for read calls that are served at the same time
    Writers,    \* slots for write calls that are served at the same time
    Identities, \* the identities whose hashes appear in the keys
    Docs,       \* the cacheable GETs
    Kinds,      \* the kinds of write a tool can send
    Changes,    \* [Kinds -> SUBSET Docs]: what a write changes upstream
    Purges,     \* [Kinds -> Seq(SUBSET Docs)]: its InvalidatePath calls
    AdminScopes,\* sets of keys that a prefix given to cache.invalidate names
    TTL,        \* [Docs -> Nat \ {0}]: lifetime of a stored answer
    Timeout,    \* the HTTP client's timeout
    MaxTime,    \* bound on the clock
    MaxChanges  \* bound on the upstream log

Keys  == Identities \X Docs
Modes == {"default", "bypass", "refresh", "only"}

(* How an upstream request can fail: an APIError of 429 or 5xx, and any    *)
(* other error (another status, network, timeout, limiter, undecodable     *)
(* body).                                                                  *)
Faults == {"overload", "other"}

ASSUME ResponseCacheAssumption ==
    /\ Identities # {} /\ Docs # {} /\ Kinds # {}
    /\ TTL \in [Docs -> Nat \ {0}]
    /\ Timeout \in Nat \ {0}
    /\ MaxTime \in Nat
    /\ MaxChanges \in Nat
    /\ Changes \in [Kinds -> SUBSET Docs]
    /\ Purges \in [Kinds -> Seq(SUBSET Docs)]
    /\ AdminScopes \subseteq SUBSET Keys

VARIABLES
    clock,   \* the time, in the unit of TTL and Timeout
    log,     \* the changes the upstream accepted: when, and to which documents
    config,  \* whether the cache opened, and PIPEDRIVE_CACHE_ALLOW_STALE_ON_429
    cache,   \* the entries in the bucket, each with its key
    reads,   \* the read calls in progress
    writes,  \* the write calls in progress
    floor    \* history: per key, the newest completed write that purged it

vars == <<clock, log, config, cache, reads, writes, floor>>

----------------------------------------------------------------------------
(* Cache operations, one bbolt transaction each. *)

(* Mutated Key: identityHash is the same for every credential. *)
SharedKey(i, d) == <<CHOOSE j \in Identities : TRUE, d>>

(* Key: the identity is part of the key, so is everything of the request. *)
Key(i, d) == <<i, d>>

(* Cache.Get: the entry stored under a key, as a set of at most one. *)
Get(k) == {e \in cache : e.key = k}

(* Mutated Put: the replaced value stays. *)
PutBeside(k, e) == cache \union {e}

(* Cache.Put replaces what the key held. *)
Put(k, e) == {x \in cache : x.key # k} \union {e}

(* Cache.DeletePrefix, given the set of keys that start with the prefix. *)
DeletePrefix(scope) == {x \in cache : x.key \notin scope}

(* newEntry: the lifetime starts when the answer has been decoded.  The    *)
(* history field "late" says that an invalidation of this key ran after    *)
(* the upstream had answered.                                              *)
NewEntry(r, now) ==
    [key |-> Key(r.id, r.doc), owner |-> r.id, rev |-> r.rev,
     storedAt |-> now, expiresAt |-> now + TTL[r.doc], late |-> r.late]

(* Mutated Unexpired: the instant of the expiry still counts. *)
UnexpiredAtExpiry(e, now) == e.expiresAt >= now

(* An entry is served as a hit while ExpiresAt.After(now). *)
Unexpired(e, now) == e.expiresAt > now

----------------------------------------------------------------------------
(* Records of calls. *)

NoRead == [pc |-> "idle", id |-> CHOOSE i \in Identities : TRUE,
           doc |-> CHOOSE d \in Docs : TRUE, mode |-> "default",
           now |-> 0, at |-> 0, owner |-> CHOOSE i \in Identities : TRUE,
           rev |-> 0, stored |-> 0, late |-> FALSE, fault |-> "other",
           floor |-> 0]

NoWrite == [pc |-> "idle", id |-> CHOOSE i \in Identities : TRUE,
            kind |-> CHOOSE k \in Kinds : TRUE, rev |-> 0, step |-> 0, lost |-> FALSE]

(* The answer of the upstream is on its way, or decoded and not yet put. *)
InFlight == {"transit", "store"}

(* The ways a read call returns. *)
Replies == {"hit", "fresh", "stale", "miss", "error"}

Init ==
    /\ clock = 0
    /\ log = << >>
    /\ config \in [enabled : BOOLEAN, staleOn429 : BOOLEAN]
    /\ cache = {}
    /\ reads = [r \in Readers |-> NoRead]
    /\ writes = [w \in Writers |-> NoWrite]
    /\ floor = [k \in Keys |-> 0]

----------------------------------------------------------------------------
(* Reads: Client.CachedGet. *)

(* The mode skips the cache, or there is none. *)
Uncached(mode) == ~config.enabled \/ mode = "bypass"

BeginRead(r, i, d, m) ==
    /\ reads[r].pc = "idle"
    /\ reads' = [reads EXCEPT ![r] =
                   IF Uncached(m) \/ m = "refresh"
                   THEN [NoRead EXCEPT !.pc = "send", !.id = i, !.doc = d, !.mode = m]
                   ELSE [NoRead EXCEPT !.pc = "lookup", !.id = i, !.doc = d, !.mode = m,
                                       !.now = clock, !.floor = floor[Key(i, d)]]]
    /\ UNCHANGED <<clock, log, config, cache, writes, floor>>

(* The call returns an error, or the body that it has just received. *)
Return(r, reply) ==
    reads' = [reads EXCEPT ![r] =
               [NoRead EXCEPT !.pc = reply, !.id = reads[r].id, !.doc = reads[r].doc,
                              !.owner = reads[r].owner, !.rev = reads[r].rev]]

(* The call returns the body of a cached entry. *)
Serve(r, e, reply) ==
    reads' = [reads EXCEPT ![r] =
               [@ EXCEPT !.pc = reply, !.owner = e.owner, !.rev = e.rev, !.late = e.late]]

(* The lookup before the request; `now` was read when the call began.  Past *)
(* it nothing but the reported metadata uses `now`.                         *)
LookupHit(r) ==
    /\ reads[r].pc = "lookup"
    /\ \E e \in Get(Key(reads[r].id, reads[r].doc)) :
          /\ Unexpired(e, reads[r].now)
          /\ Serve(r, e, "hit")
    /\ UNCHANGED <<clock, log, config, cache, writes, floor>>

LookupMiss(r) ==
    /\ reads[r].pc = "lookup"
    /\ \A e \in Get(Key(reads[r].id, reads[r].doc)) : ~Unexpired(e, reads[r].now)
    /\ reads' = [reads EXCEPT ![r] =
                   [@ EXCEPT !.pc = IF reads[r].mode = "only" THEN "miss" ELSE "send",
                             !.now = 0, !.floor = 0]]
    /\ UNCHANGED <<clock, log, config, cache, writes, floor>>

(* The upstream computes its answer: the body shows the log as it is now.  *)
UpstreamAnswers(r) ==
    /\ reads[r].pc = "send"
    /\ reads' = [reads EXCEPT ![r] =
                   [@ EXCEPT !.pc = "transit", !.owner = reads[r].id,
                             !.rev = Len(log), !.at = clock]]
    /\ UNCHANGED <<clock, log, config, cache, writes, floor>>

(* An error status instead of an answer, no answer, or one that is lost. *)
UpstreamFails(r, f) ==
    /\ \/ reads[r].pc = "send"
       \/ reads[r].pc = "transit" /\ f = "other"
    /\ reads' = [reads EXCEPT ![r] =
                   [NoRead EXCEPT !.pc = "failed", !.id = reads[r].id, !.doc = reads[r].doc,
                                  !.mode = reads[r].mode, !.fault = f]]
    /\ UNCHANGED <<clock, log, config, cache, writes, floor>>

(* The body is decoded and returned as it is, ... *)
ReceiveUncached(r) ==
    /\ reads[r].pc = "transit"
    /\ Uncached(reads[r].mode)
    /\ Return(r, "fresh")
    /\ UNCHANGED <<clock, log, config, cache, writes, floor>>

(* ... or put first: newEntry reads the clock before Put takes the lock. *)
Receive(r) ==
    /\ reads[r].pc = "transit"
    /\ ~Uncached(reads[r].mode)
    /\ reads' = [reads EXCEPT ![r] = [@ EXCEPT !.pc = "store", !.stored = clock, !.at = 0]]
    /\ UNCHANGED <<clock, log, config, cache, writes, floor>>

(* Put commits and the call returns its fresh body; ... *)
Store(r) ==
    /\ reads[r].pc = "store"
    /\ cache' = Put(Key(reads[r].id, reads[r].doc), NewEntry(reads[r], reads[r].stored))
    /\ Return(r, "fresh")
    /\ UNCHANGED <<clock, log, config, writes, floor>>

(* ... a failure of Put does not fail the call (cache_store_failed). *)
StoreFails(r) ==
    /\ reads[r].pc = "store"
    /\ Return(r, "fresh")
    /\ UNCHANGED <<clock, log, config, cache, writes, floor>>

(* Mutated MayFallBack: every failure counts as an overload. *)
MayFallBackAnyway(f) ==
    config.enabled /\ config.staleOn429 /\ f \in Faults

(* staleFallback may answer for the upstream after this fault. *)
MayFallBack(f) ==
    config.enabled /\ config.staleOn429 /\ f = "overload"

FallBack(r) ==
    /\ reads[r].pc = "failed"
    /\ MayFallBack(reads[r].fault)
    /\ \E e \in Get(Key(reads[r].id, reads[r].doc)) : Serve(r, e, "stale")
    /\ UNCHANGED <<clock, log, config, cache, writes, floor>>

(* Mutated GiveUp: waits for an entry that may never be there. *)
GiveUpOnlyBarred(r) ==
    /\ reads[r].pc = "failed"
    /\ ~MayFallBack(reads[r].fault)
    /\ Return(r, "error")
    /\ UNCHANGED <<clock, log, config, cache, writes, floor>>

GiveUp(r) ==
    /\ reads[r].pc = "failed"
    /\ \/ ~MayFallBack(reads[r].fault)
       \/ Get(Key(reads[r].id, reads[r].doc)) = {}
    /\ Return(r, "error")
    /\ UNCHANGED <<clock, log, config, cache, writes, floor>>

EndRead(r) ==
    /\ reads[r].pc \in Replies
    /\ reads' = [reads EXCEPT ![r] = NoRead]
    /\ UNCHANGED <<clock, log, config, cache, writes, floor>>

----------------------------------------------------------------------------
(* Writes: the request of a write tool, then its invalidations. *)

BeginWrite(w, i, k) ==
    /\ writes[w].pc = "idle"
    /\ writes' = [writes EXCEPT ![w] = [NoWrite EXCEPT !.pc = "send", !.id = i, !.kind = k]]
    /\ UNCHANGED <<clock, log, config, cache, reads, floor>>

(* The upstream carries the write out. *)
UpstreamAccepts(w) ==
    /\ writes[w].pc = "send"
    /\ Len(log) < MaxChanges
    /\ log' = Append(log, [at |-> clock, docs |-> Changes[writes[w].kind]])
    /\ writes' = [writes EXCEPT ![w] = [@ EXCEPT !.pc = "transit", !.rev = Len(log) + 1]]
    /\ UNCHANGED <<clock, config, cache, reads, floor>>

(* An error reaches the tool, which returns without invalidating: also when *)
(* the write was carried out and only its answer was lost.                  *)
WriteFails(w) ==
    /\ writes[w].pc \in {"send", "transit"}
    /\ writes' = [writes EXCEPT ![w] = NoWrite]
    /\ UNCHANGED <<clock, log, config, cache, reads, floor>>

(* Mutated WriteAnswered: the handler returns past its invalidations. *)
WriteAnsweredOnly(w) ==
    /\ writes[w].pc = "transit"
    /\ writes' = [writes EXCEPT ![w] =
                    [@ EXCEPT !.pc = "purge", !.step = Len(Purges[writes[w].kind])]]
    /\ UNCHANGED <<clock, log, config, cache, reads, floor>>

WriteAnswered(w) ==
    /\ writes[w].pc = "transit"
    /\ writes' = [writes EXCEPT ![w].pc = "purge"]
    /\ UNCHANGED <<clock, log, config, cache, reads, floor>>

(* The keys of the writer's own identity under the prefix of step n. *)
PurgeScope(id, kind, n) == {Key(id, d) : d \in Purges[kind][n]}

(* Mutated InvalidatePath: the walk over the paths does not advance. *)
InvalidateFirstPath(w) ==
    /\ writes[w].pc = "purge"
    /\ writes[w].step + 1 \in DOMAIN Purges[writes[w].kind]
    /\ cache' = DeletePrefix(PurgeScope(writes[w].id, writes[w].kind, 1))
    /\ UNCHANGED <<clock, log, config, reads, writes, floor>>

(* One InvalidatePath: one transaction, with no effect without a cache. *)
InvalidatePath(w) ==
    LET n     == writes[w].step + 1
        scope == PurgeScope(writes[w].id, writes[w].kind, n)
    IN  /\ writes[w].pc = "purge"
        /\ n \in DOMAIN Purges[writes[w].kind]
        /\ cache' = IF config.enabled THEN DeletePrefix(scope) ELSE cache
        /\ reads' = [r \in Readers |->
                       IF /\ reads[r].pc \in InFlight
                          /\ Key(reads[r].id, reads[r].doc) \in scope
                       THEN [reads[r] EXCEPT !.late = TRUE]
                       ELSE reads[r]]
        /\ writes' = [writes EXCEPT ![w].step = n]
        /\ UNCHANGED <<clock, log, config, floor>>

(* The transaction fails on the file: DeletePrefix drops the error, and the *)
(* tool goes on.  The history field "lost" remembers it.                    *)
InvalidateFails(w) ==
    /\ writes[w].pc = "purge"
    /\ writes[w].step + 1 \in DOMAIN Purges[writes[w].kind]
    /\ config.enabled
    /\ writes' = [writes EXCEPT ![w] =
                    [@ EXCEPT !.step = writes[w].step + 1, !.lost = TRUE]]
    /\ UNCHANGED <<clock, log, config, cache, reads, floor>>

(* Every key that a write of this kind invalidates. *)
Purged(id, kind) == {Key(id, d) : d \in UNION {Purges[kind][n] : n \in DOMAIN Purges[kind]}}

EndWrite(w) ==
    /\ writes[w].pc = "purge"
    /\ writes[w].step + 1 \notin DOMAIN Purges[writes[w].kind]
    /\ floor' = [k \in Keys |->
                   IF /\ config.enabled /\ ~writes[w].lost
                      /\ k \in Purged(writes[w].id, writes[w].kind)
                      /\ floor[k] < writes[w].rev
                   THEN writes[w].rev ELSE floor[k]]
    /\ writes' = [writes EXCEPT ![w] = NoWrite]
    /\ UNCHANGED <<clock, log, config, cache, reads>>

----------------------------------------------------------------------------
(* The rest of the world. *)

(* cache.invalidate and cache.clear. *)
AdminInvalidate(scope) ==
    /\ config.enabled
    /\ cache' = DeletePrefix(scope)
    /\ UNCHANGED <<clock, log, config, reads, writes, floor>>

AdminClear ==
    /\ config.enabled
    /\ cache' = {}
    /\ UNCHANGED <<clock, log, config, reads, writes, floor>>

(* Somebody else changes a document upstream. *)
OthersChange(d) ==
    /\ Len(log) < MaxChanges
    /\ log' = Append(log, [at |-> clock, docs |-> {d}])
    /\ UNCHANGED <<clock, config, cache, reads, writes, floor>>

(* Time passes, but an answer never takes longer than the client's timeout. *)
Tick ==
    /\ clock < MaxTime
    /\ \A r \in Readers : reads[r].pc = "transit" => clock < reads[r].at + Timeout
    /\ clock' = clock + 1
    /\ UNCHANGED <<log, config, cache, reads, writes, floor>>

(* The server stops, at any point of any call, and starts again on the same *)
(* file, perhaps with another environment or without getting the file lock. *)
Restart ==
    /\ config' \in [enabled : BOOLEAN, staleOn429 : BOOLEAN]
    /\ reads' = [r \in Readers |-> NoRead]
    /\ writes' = [w \in Writers |-> NoWrite]
    /\ UNCHANGED <<clock, log, cache, floor>>

ReadStep(r) ==
    \/ LookupHit(r) \/ LookupMiss(r)
    \/ UpstreamAnswers(r)
    \/ \E f \in Faults : UpstreamFails(r, f)
    \/ ReceiveUncached(r) \/ Receive(r) \/ Store(r) \/ StoreFails(r)
    \/ FallBack(r) \/ GiveUp(r)

WriteStep(w) ==
    \/ UpstreamAccepts(w) \/ WriteFails(w) \/ WriteAnswered(w)
    \/ InvalidatePath(w) \/ InvalidateFails(w) \/ EndWrite(w)

Next ==
    \/ \E r \in Readers :
          \/ \E i \in Identities, d \in Docs, m \in Modes : BeginRead(r, i, d, m)
          \/ ReadStep(r)
          \/ EndRead(r)
    \/ \E w \in Writers :
          \/ \E i \in Identities, k \in Kinds : BeginWrite(w, i, k)
          \/ WriteStep(w)
    \/ \E scope \in AdminScopes : AdminInvalidate(scope)
    \/ AdminClear
    \/ \E d \in Docs : OthersChange(d)
    \/ Tick
    \/ Restart

Spec == Init /\ [][Next]_vars

(* The goroutine of a call keeps running, and the HTTP client's timeout    *)
(* ends a request that nobody answers.  Nothing else has to happen.        *)
Fairness ==
    /\ \A r \in Readers : WF_vars(ReadStep(r))
    /\ \A w \in Writers : WF_vars(WriteStep(w))

FairSpec == Spec /\ Fairness

----------------------------------------------------------------------------
(* Properties. *)

Entries == [key : Keys, owner : Identities, rev : Nat, storedAt : Nat,
            expiresAt : Nat, late : BOOLEAN]

ReadCalls == [pc : {"idle", "lookup", "send", "failed"} \union InFlight \union Replies,
              id : Identities, doc : Docs, mode : Modes, now : Nat, at : Nat,
              owner : Identities, rev : Nat, stored : Nat, late : BOOLEAN,
              fault : Faults, floor : Nat]

WriteCalls == [pc : {"idle", "send", "transit", "purge"}, id : Identities,
               kind : Kinds, rev : Nat, step : Nat, lost : BOOLEAN]

(* Every variable has its shape, and the bucket holds one value per key. *)
TypeOK ==
    /\ clock \in Nat
    /\ log \in Seq([at : Nat, docs : SUBSET Docs])
    /\ config \in [enabled : BOOLEAN, staleOn429 : BOOLEAN]
    /\ cache \subseteq Entries
    /\ \A e, f \in cache : e.key = f.key => e = f
    /\ reads \in [Readers -> ReadCalls]
    /\ writes \in [Writers -> WriteCalls]
    /\ floor \in [Keys -> Nat]

(* A hit never shows a document as it was longer ago than its TTL plus the *)
(* client's timeout: every change of the document that the served body     *)
(* misses was made less than that before the call began.  It rests on      *)
(* newEntry stamping the entry when the answer is decoded, on the timeout  *)
(* bounding the way of the answer, and on CachedGet comparing ExpiresAt    *)
(* with the start of the call; no interleaving of stores, purges and       *)
(* restarts may stretch it.                                                *)
FreshnessBound ==
    \A r \in Readers : reads[r].pc = "hit" =>
        \A n \in DOMAIN log :
            (n > reads[r].rev /\ reads[r].doc \in log[n].docs) =>
                log[n].at + Timeout + TTL[reads[r].doc] > reads[r].now

(* A hit shows every write that the same identity had completed, with the  *)
(* document among those the tool invalidates, before the call began.  Two  *)
(* things escape: an entry stored by a read whose answer was already under *)
(* way while the invalidation ran, and a write whose invalidation failed.  *)
ReadYourWrites ==
    \A r \in Readers :
        (reads[r].pc = "hit" /\ ~reads[r].late) => reads[r].rev >= reads[r].floor

(* Whatever is returned, from the upstream, as a hit or as a stale         *)
(* fallback, was answered to the identity that asks: entries of different  *)
(* credentials in the one shared file never mix.                           *)
OwnAnswersOnly ==
    \A r \in Readers :
        reads[r].pc \in {"hit", "fresh", "stale"} => reads[r].owner = reads[r].id

(* Every read call returns, with a body or an error, unless the server is  *)
(* restarted under it.                                                     *)
ReadsReturn ==
    \A r \in Readers : reads[r].pc # "idle" ~> reads[r].pc \in Replies \union {"idle"}

(* Every write call returns, its invalidations included. *)
WritesReturn == \A w \in Writers : writes[w].pc # "idle" ~> writes[w].pc = "idle"

----------------------------------------------------------------------------
(* What a caller sees of a call, who knows of no cache file: the stages of *)
(* CachedReads.  An answer that waits for Put is one that has not been     *)
(* returned.                                                               *)
Stage(c) ==
    CASE c.pc = "idle" -> [pc |-> "idle"]
      [] c.pc = "lookup" ->
            [pc |-> "asked", id |-> c.id, doc |-> c.doc, mode |-> c.mode, now |-> c.now]
      [] c.pc = "send" -> [pc |-> "sent", id |-> c.id, doc |-> c.doc]
      [] c.pc = "failed" ->
            [pc |-> "failed", id |-> c.id, doc |-> c.doc, fault |-> c.fault]
      [] c.pc \in InFlight ->
            [pc |-> "answered", id |-> c.id, doc |-> c.doc, rev |-> c.rev]
      [] c.pc \in {"hit", "fresh", "stale"} ->
            [pc |-> c.pc, id |-> c.id, doc |-> c.doc, owner |-> c.owner, rev |-> c.rev]
      [] c.pc \in {"miss", "error"} -> [pc |-> c.pc, id |-> c.id, doc |-> c.doc]

(* The answers kept for the callers of a key are what the file has there. *)
Kept == [k \in Keys |-> {e.rev : e \in Get(k)}]

Promise == INSTANCE CachedReads WITH
               kept  <- Kept,
               calls <- [r \in Readers |-> Stage(reads[r])]

(* Reads through the file keep the promise of CachedReads: whatever stores, *)
(* purges, failures and restarts do between the steps of a call, it gets an *)
(* answer that its own identity got before and that is recent enough, or a  *)
(* current one, or, after a 429 or 5xx and with the setting for it, an      *)
(* older one of its own, or an error; and where there is a cache mode       *)
(* "only" never asks the upstream.                                          *)
Implements == Promise!Spec
=============================================================================
