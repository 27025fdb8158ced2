---------------------------- MODULE ToolSession ----------------------------
(***************************************************************************)
(* One write tool at a time over the cached answers of its resource, with  *)
(* read tools called before, during and after it: do the paths that each   *)
(* handler of tools/*.go invalidates cover the GETs that show the record   *)
(* it has just changed?  Reads are whole here; their races with the        *)
(* invalidation are the subject of ResponseCache.                          *)
(***************************************************************************)
EXTENDS Naturals, ToolCatalog

CONSTANTS
    Characters, \* what ids consist of
    Ids         \* the ids of the records

(* An id is not empty, and no character is a part of a path by itself.     *)
ASSUME ToolSessionAssumption ==
    /\ Ids \subseteq Seq(Characters) \ {NoId}
    /\ {"/products", "/followers", "/mailMessages"} \intersect Characters = {}

VARIABLES
    family, \* the resource of the session
    env,    \* PIPEDRIVE_ALLOW_WRITE and PIPEDRIVE_ALLOW_DELETE
    held,   \* per GET: no entry, or one fetched before or after the last
            \* write that the upstream carried out
    call    \* the write call in progress

vars == <<family, env, held, call>>

Reads  == ReadsOf(family, Ids)
Writes == WritesOf(family, Ids)

Idle == [pc |-> "idle"]

Init ==
    /\ family \in Families
    /\ env \in [allowWrite : BOOLEAN, allowDelete : BOOLEAN]
    /\ held = [e \in Reads |-> "absent"]
    /\ call = Idle

(* A read tool that does not answer from the cache stores what it fetched. *)
Fetch(e) ==
    /\ held' = [held EXCEPT ![e] = "after"]
    /\ UNCHANGED <<family, env, call>>

(* A write tool passes its guard and its argument checks. *)
BeginWrite(w) ==
    /\ call.pc \in {"idle", "returned"}
    /\ Allowed(env, w.guard)
    /\ call' = [pc |-> "send", write |-> w]
    /\ UNCHANGED <<family, env, held>>

(* The upstream carries the write out. *)
CarryOut ==
    /\ call.pc = "send"
    /\ call' = [call EXCEPT !.pc = "carried"]
    /\ held' = [e \in Reads |-> IF held[e] = "absent" THEN "absent" ELSE "before"]
    /\ UNCHANGED <<family, env>>

(* DoJSON returns an error, the tool returns it and invalidates nothing. *)
RequestFails ==
    /\ call.pc \in {"send", "carried"}
    /\ call' = Idle
    /\ UNCHANGED <<family, env, held>>

(* Mutated Answer: the walk over the paths starts before the first. *)
AnswerFromZero ==
    /\ call.pc = "carried"
    /\ call' = [pc |-> "purge", write |-> call.write, step |-> 0]
    /\ UNCHANGED <<family, env, held>>

Answer ==
    /\ call.pc = "carried"
    /\ call' = [pc |-> "purge", write |-> call.write, step |-> 1]
    /\ UNCHANGED <<family, env, held>>

Purge ==
    /\ call.pc = "purge"
    /\ call.step \in DOMAIN call.write.purges
    /\ held' = [e \in Reads |->
                  IF e \in UnderPath(Reads, call.write.purges[call.step]) THEN "absent" ELSE held[e]]
    /\ call' = [call EXCEPT !.step = @ + 1]
    /\ UNCHANGED <<family, env>>

Return ==
    /\ call.pc = "purge"
    /\ call.step \notin DOMAIN call.write.purges
    /\ call' = [pc |-> "returned", write |-> call.write]
    /\ UNCHANGED <<family, env, held>>

Next ==
    \/ \E e \in Reads : Fetch(e)
    \/ \E w \in Writes : BeginWrite(w)
    \/ CarryOut
    \/ RequestFails
    \/ Answer
    \/ Purge
    \/ Return

Spec == Init /\ [][Next]_vars

----------------------------------------------------------------------------
(* What the upstream's answers show. *)

(* A change of a record shows in its own GET and in the lists, searches    *)
(* and archives of its collection; a change of a deal's products in their  *)
(* list and in the deal's record, as invalidateDealProductsCache notes;    *)
(* a change of followers in their list.                                    *)
Shows(e, w) ==
    LET p == w.path
    IN  IF Last(p) \in {"/products", "/followers"} /\ Len(p) > 1
        THEN e.path = p \/ (Last(p) = "/products" /\ e.path = Front(p))
        ELSE e.path = p \/ e.path \in {<<p[1]>>, <<p[1], "/search">>, <<p[1], "/archived">>}

TypeOK ==
    /\ family \in Families
    /\ env \in [allowWrite : BOOLEAN, allowDelete : BOOLEAN]
    /\ held \in [Reads -> {"absent", "before", "after"}]
    /\ call \in [pc : {"idle"}] \union [pc : {"send", "carried", "returned"}, write : Writes]
                 \union [pc : {"purge"}, write : Writes, step : 1 .. 7]

(* When a write tool has returned, no cached answer that shows the written *)
(* record is older than the write, in whatever version it was fetched,     *)
(* whatever was read meanwhile and whichever earlier writes were lost.     *)
WrittenRecordPurged ==
    call.pc = "returned" =>
        \A e \in Reads : Shows(e, call.write) => held[e] # "before"

(* "invalidateDealsCache conservatively invalidates ... every GET under     *)
(* /deals": after a tool of deals.go nothing cached under that path, for    *)
(* any deal, is older than the write.  The mail of a deal is left out: it   *)
(* is cached in the version v1-legacy, which no handler invalidates.        *)
DealsPurged ==
    (call.pc = "returned" /\ call.write \in DealsWrites(Ids)) =>
        \A e \in Reads :
            IsPrefix(<<"/deals">>, e.path) /\ Last(e.path) # "/mailMessages" => held[e] # "before"
============================================================================
