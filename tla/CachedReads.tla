---------------------------- MODULE CachedReads ----------------------------
(***************************************************************************)
(* What a caller of Client.CachedGet is promised, without the mechanism:   *)
(* there is no file, no entry, no key and no invalidation here, only calls, *)
(* the changes that the upstream has accepted and how old an answer may be. *)
(* ResponseCache implements this specification.                            *)
(***************************************************************************)
EXTENDS Naturals, Sequences

CONSTANTS
    Readers,    \* slots for read calls that are served at the same time
    Identities, \* the identities that calls are made with
    Docs,       \* the documents that calls ask for
    TTL,        \* [Docs -> Nat]: lifetime of a stored answer
    Timeout     \* the HTTP client's timeout

VARIABLES
    clock,  \* the time
    log,    \* the changes the upstream accepted: when, and to which documents
    config, \* whether the process has a cache, and may serve stale answers
    kept,   \* the answers of before that an identity may still be served again
    calls   \* the read calls, each a record of the stage it is in

vars == <<clock, log, config, kept, calls>>

(* An answer is told by the revision of the document that it shows. *)
Pairs == Identities \X Docs

Configs == [enabled : BOOLEAN, staleOn429 : BOOLEAN]

Modes == {"default", "bypass", "refresh", "only"}

(* A request fails with a 429 or 5xx, or in any other way. *)
Faults == {"overload", "other"}

(* The stages of a call. *)
Idle                    == [pc |-> "idle"]
Asked(i, d, m, t)       == [pc |-> "asked", id |-> i, doc |-> d, mode |-> m, now |-> t]
Sent(i, d)              == [pc |-> "sent", id |-> i, doc |-> d]
Answered(i, d, n)       == [pc |-> "answered", id |-> i, doc |-> d, rev |-> n]
Failed(i, d, f)         == [pc |-> "failed", id |-> i, doc |-> d, fault |-> f]
Body(how, i, d, who, n) == [pc |-> how, id |-> i, doc |-> d, owner |-> who, rev |-> n]
NoBody(how, i, d)       == [pc |-> how, id |-> i, doc |-> d]

Init ==
    /\ clock = 0
    /\ log = << >>
    /\ config \in Configs
    /\ kept = [p \in Pairs |-> {}]
    /\ calls = [r \in Readers |-> Idle]

(* The call of r goes from one stage to the next. *)
Becomes(r, c) ==
    /\ UNCHANGED <<clock, log, config>>
    /\ calls' = [calls EXCEPT ![r] = c]

(* What the identity of the call has kept of its document. *)
Own(c) == kept[<<c.id, c.doc>>]

----------------------------------------------------------------------------
(* A call looks into the cache first if there is one and its mode says so. *)
(* Without one, mode "only" asks the upstream as every mode does.           *)
Ask(r, i, d, m) ==
    /\ calls[r] = Idle
    /\ IF config.enabled /\ m \in {"default", "only"}
       THEN Becomes(r, Asked(i, d, m, clock))
       ELSE Becomes(r, Sent(i, d))
    /\ UNCHANGED kept

(* A body as of revision n is recent enough for a call that began at t:    *)
(* each change of the document it misses is younger than TTL and timeout.  *)
RecentEnough(d, n, t) ==
    \A k \in DOMAIN log :
        (k > n /\ d \in log[k].docs) => log[k].at + Timeout + TTL[d] > t

(* An answer of before to the same identity, no older than promised. *)
Hit(r) ==
    /\ calls[r].pc = "asked"
    /\ \E n \in Own(calls[r]) :
          /\ RecentEnough(calls[r].doc, n, calls[r].now)
          /\ Becomes(r, Body("hit", calls[r].id, calls[r].doc, calls[r].id, n))
    /\ UNCHANGED kept

(* A miss is the end of mode "only"; ... *)
Miss(r) ==
    /\ calls[r].pc = "asked"
    /\ calls[r].mode = "only"
    /\ Becomes(r, NoBody("miss", calls[r].id, calls[r].doc))
    /\ UNCHANGED kept

(* ... every other mode asks the upstream. *)
Forward(r) ==
    /\ calls[r].pc = "asked"
    /\ calls[r].mode # "only"
    /\ Becomes(r, Sent(calls[r].id, calls[r].doc))
    /\ UNCHANGED kept

(* The upstream answers, with everything it has accepted by then; ... *)
Answer(r) ==
    /\ calls[r].pc = "sent"
    /\ Becomes(r, Answered(calls[r].id, calls[r].doc, Len(log)))
    /\ UNCHANGED kept

(* ... it refuses, or the request or its answer is lost; ... *)
Fail(r, f) ==
    /\ \/ calls[r].pc = "sent"
       \/ calls[r].pc = "answered" /\ f = "other"
    /\ Becomes(r, Failed(calls[r].id, calls[r].doc, f))
    /\ UNCHANGED kept

(* ... or the answer arrives: a fresh reply was current during the call.   *)
(* It may be kept for the identity that gets it, for nobody else, and what *)
(* was kept for that identity may go.                                      *)
Reply(r) ==
    /\ calls[r].pc = "answered"
    /\ Becomes(r, Body("fresh", calls[r].id, calls[r].doc, calls[r].id, calls[r].rev))
    /\ \E answers \in SUBSET (Own(calls[r]) \union {calls[r].rev}) :
          kept' = [kept EXCEPT ![<<calls[r].id, calls[r].doc>>] = answers]

(* After an overload, and only then, a process that has a cache and is set *)
(* up to may serve an answer of before, of any age; ...                    *)
FallBack(r) ==
    /\ calls[r].pc = "failed"
    /\ calls[r].fault = "overload"
    /\ config.enabled /\ config.staleOn429
    /\ \E n \in Own(calls[r]) :
          Becomes(r, Body("stale", calls[r].id, calls[r].doc, calls[r].id, n))
    /\ UNCHANGED kept

(* ... otherwise the failure is an error. *)
GiveUp(r) ==
    /\ calls[r].pc = "failed"
    /\ Becomes(r, NoBody("error", calls[r].id, calls[r].doc))
    /\ UNCHANGED kept

End(r) ==
    /\ calls[r].pc \in {"hit", "fresh", "stale", "miss", "error"}
    /\ Becomes(r, Idle)
    /\ UNCHANGED kept

----------------------------------------------------------------------------
(* The upstream accepts a change, of a tool or of somebody else. *)
Change ==
    /\ \E D \in SUBSET Docs : log' = Append(log, [at |-> clock, docs |-> D])
    /\ UNCHANGED <<clock, config, kept, calls>>

Tick ==
    /\ clock' = clock + 1
    /\ UNCHANGED <<log, config, kept, calls>>

(* What is kept of some documents, for some identities, may go at any time. *)
Forget ==
    /\ \E gone \in SUBSET Pairs :
          kept' = [p \in Pairs |-> IF p \in gone THEN {} ELSE kept[p]]
    /\ UNCHANGED <<clock, log, config, calls>>

(* The process ends with its calls, and starts with another setup. *)
Interrupt ==
    /\ config' \in Configs
    /\ calls' = [r \in Readers |-> Idle]
    /\ UNCHANGED <<clock, log, kept>>

CallStep(r) ==
    \/ \E i \in Identities, d \in Docs, m \in Modes : Ask(r, i, d, m)
    \/ Hit(r) \/ Miss(r) \/ Forward(r)
    \/ Answer(r) \/ Reply(r)
    \/ \E f \in Faults : Fail(r, f)
    \/ FallBack(r) \/ GiveUp(r)
    \/ End(r)

Next ==
    \/ \E r \in Readers : CallStep(r)
    \/ Change
    \/ Tick
    \/ Forget
    \/ Interrupt

Spec == Init /\ [][Next]_vars
=============================================================================
