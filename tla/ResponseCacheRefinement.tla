---------------------- MODULE ResponseCacheRefinement ----------------------
(***************************************************************************)
(* ResponseCache implements CachedReads: every step of the detailed        *)
(* specification is a step of the abstract one, or none, when its calls    *)
(* are seen by their Stage and the file by what it has Kept for each       *)
(* caller.  The mapping needs three invariants: the types, the bounds that *)
(* make a hit recent enough, and the owners of bodies.                     *)
(***************************************************************************)
EXTENDS ResponseCacheProofs

----------------------------------------------------------------------------
(* What is kept. *)

LEMMA KeptType == Kept \in [Keys -> SUBSET {e.rev : e \in cache}]
BY DEF Kept, Get

(* A step that leaves the file alone leaves what is kept alone. *)
LEMMA NothingPut == ASSUME UNCHANGED cache PROVE UNCHANGED Kept
BY DEF Kept, Get

(* A step that deletes keys forgets what is kept of them, and no more. *)
LEMMA DeletingForgets ==
    ASSUME NEW scope, cache' = DeletePrefix(scope)
    PROVE  \E gone \in SUBSET Keys : Kept' = [k \in Keys |-> IF k \in gone THEN {} ELSE Kept[k]]
<1>1. ASSUME NEW k \in Keys PROVE Get(k)' = IF k \in scope THEN {} ELSE Get(k)
  BY DEF Get, DeletePrefix
<1>2. Kept' = [k \in Keys |-> IF k \in Keys \intersect scope THEN {} ELSE Kept[k]]
  BY <1>1 DEF Kept
<1> QED BY <1>2

(* A Put keeps the answer for its own key alone. *)
LEMMA PutKeeps ==
    ASSUME NEW k0 \in Keys, NEW e, e.key = k0, cache' = Put(k0, e)
    PROVE  Kept' = [Kept EXCEPT ![k0] = {e.rev}]
<1>1. ASSUME NEW k \in Keys PROVE Get(k)' = IF k = k0 THEN {e} ELSE Get(k)
  BY DEF Get, Put
<1>2. ASSUME NEW k \in Keys PROVE Kept'[k] = IF k = k0 THEN {e.rev} ELSE Kept[k]
  BY <1>1, <1>2 DEF Kept
<1> QED BY <1>2 DEF Kept

(* The stages that the steps below need, without the case distinction. *)
LEMMA Stages ==
    ASSUME NEW c
    PROVE  /\ c.pc = "idle" => Stage(c) = [pc |-> "idle"]
           /\ c.pc = "lookup" => Stage(c) =
                [pc |-> "asked", id |-> c.id, doc |-> c.doc, mode |-> c.mode, now |-> c.now]
           /\ c.pc = "send" => Stage(c) = [pc |-> "sent", id |-> c.id, doc |-> c.doc]
           /\ c.pc = "failed" => Stage(c) =
                [pc |-> "failed", id |-> c.id, doc |-> c.doc, fault |-> c.fault]
           /\ c.pc \in {"transit", "store"} => Stage(c) =
                [pc |-> "answered", id |-> c.id, doc |-> c.doc, rev |-> c.rev]
           /\ c.pc \in {"hit", "fresh", "stale"} => Stage(c) =
                [pc |-> c.pc, id |-> c.id, doc |-> c.doc, owner |-> c.owner, rev |-> c.rev]
           /\ c.pc \in {"miss", "error"} =>
                Stage(c) = [pc |-> c.pc, id |-> c.id, doc |-> c.doc]
BY DEF Stage, InFlight

Calls == [r \in Readers |-> Stage(reads[r])]

(* A step of one call moves its stage alone. *)
LEMMA OneMoves ==
    ASSUME NEW r \in Readers, \A q \in Readers : q # r => reads'[q] = reads[q]
    PROVE  Calls' = [Calls EXCEPT ![r] = Stage(reads'[r])]
<1>1. ASSUME NEW q \in Readers PROVE Calls'[q] = [Calls EXCEPT ![r] = Stage(reads'[r])][q]
  BY <1>1 DEF Calls
<1> QED BY <1>1 DEF Calls

(* A step that leaves every stage alone is invisible. *)
LEMMA NoneMoves ==
    ASSUME \A q \in Readers : Stage(reads'[q]) = Stage(reads[q])
    PROVE  Calls' = Calls
BY DEF Calls

(* The initial states map to initial states. *)
LEMMA InitMaps == Init => Promise!Init
<1> SUFFICES ASSUME Init PROVE Promise!Init
  OBVIOUS
<1>1. ASSUME NEW r \in Readers PROVE Stage(reads[r]) = [pc |-> "idle"]
  BY Stages DEF Init, NoRead
<1>2. [r \in Readers |-> Stage(reads[r])] = [r \in Readers |-> [pc |-> "idle"]]
  BY <1>1
<1>3. Kept = [k \in Keys |-> {}]
  <2>1. ASSUME NEW k \in Keys PROVE {e.rev : e \in Get(k)} = {}
    BY DEF Init, Get
  <2> QED BY <2>1 DEF Kept
<1> QED
  BY <1>2, <1>3 DEF Init, Keys, Promise!Init, Promise!Idle, Promise!Configs, Promise!Pairs

(* A step of a call that has begun. *)
LEMMA ReadStepMaps ==
    ASSUME TypeOK, FreshInv, OwnInv, OwnInv', NEW r \in Readers, ReadStep(r)
    PROVE  [Promise!Next]_Promise!vars
<1>0. /\ UNCHANGED <<clock, log, config>>
      /\ Len(log) \in Nat
      /\ reads[r] \in ReadCalls
      /\ reads \in [Readers -> ReadCalls]
  <2>1. UNCHANGED <<clock, log, config>>
    BY DEF ReadStep, LookupHit, LookupMiss, UpstreamAnswers, UpstreamFails, ReceiveUncached,
           Receive, Store, StoreFails, FallBack, GiveUp
  <2> QED BY <2>1 DEF TypeOK
<1>1. ASSUME NEW q \in Readers, q # r PROVE reads'[q] = reads[q]
  BY <1>0, <1>1 DEF ReadStep, LookupHit, LookupMiss, UpstreamAnswers, UpstreamFails,
       ReceiveUncached, Receive, Store, StoreFails, FallBack, GiveUp, Serve, Return
<1> DEFINE new == Stage(reads'[r])
           old == Stage(reads[r])
<1>2. Calls' = [Calls EXCEPT ![r] = new] /\ Calls[r] = old
  BY <1>1, OneMoves DEF Calls
<1>3. ASSUME UNCHANGED cache PROVE UNCHANGED Kept
  BY <1>3, NothingPut
<1>4. ASSUME NEW c, new = c PROVE Promise!Becomes(r, c)
  BY <1>0, <1>2, <1>4 DEF Promise!Becomes, Calls
<1>5. Promise!CallStep(r) => Promise!Next
  BY DEF Promise!Next
<1>6. Promise!CallStep(r) <=>
        \/ \E i \in Identities, d \in Docs, m \in Promise!Modes : Promise!Ask(r, i, d, m)
        \/ Promise!Hit(r) \/ Promise!Miss(r) \/ Promise!Forward(r)
        \/ Promise!Answer(r) \/ Promise!Reply(r)
        \/ \E f \in Promise!Faults : Promise!Fail(r, f)
        \/ Promise!FallBack(r) \/ Promise!GiveUp(r) \/ Promise!End(r)
  BY DEF Promise!CallStep
<1>7. CASE LookupHit(r)
  <2>1. PICK e \in Get(Key(reads[r].id, reads[r].doc)) :
          Unexpired(e, reads[r].now) /\ Serve(r, e, "hit")
    BY <1>7 DEF LookupHit
  <2>2. /\ reads'[r].pc = "hit"
        /\ reads'[r].rev = e.rev
        /\ reads'[r].id = reads[r].id
        /\ reads'[r].doc = reads[r].doc
        /\ reads'[r].now = reads[r].now
    BY <1>0, <2>1 DEF Serve, ReadCalls
  <2>3. reads'[r].owner = reads[r].id
    BY <2>2 DEF OwnInv, OwnRead
  <2>4. e.rev \in Kept[<<reads[r].id, reads[r].doc>>]
    <3>1. Key(reads[r].id, reads[r].doc) \in Keys
      BY <1>0 DEF ReadCalls, Key, Keys
    <3> QED BY <2>1, <3>1 DEF Kept, Key
  <2>5. Promise!RecentEnough(reads[r].doc, e.rev, reads[r].now)
    <3>1. ASSUME NEW n \in DOMAIN log, n > e.rev
          PROVE  log[n].at + Timeout + TTL[reads[r].doc] > reads[r].now
      <4>1. e \in cache /\ EntryFresh(e) /\ e.key[2] = reads[r].doc
        BY <2>1 DEF Get, Key, FreshInv
      <4>2. reads[r].now <= clock /\ e.expiresAt > reads[r].now
        BY <1>7, <2>1 DEF LookupHit, FreshInv, ReadFresh, Unexpired
      <4> QED BY <3>1, <4>1, <4>2, Numbers DEF EntryFresh
    <3> QED BY <3>1 DEF Promise!RecentEnough
  <2>6. new = [pc |-> "hit", id |-> reads[r].id, doc |-> reads[r].doc,
               owner |-> reads[r].id, rev |-> e.rev]
    BY <2>2, <2>3, Stages
  <2>7. old = [pc |-> "asked", id |-> reads[r].id, doc |-> reads[r].doc,
               mode |-> reads[r].mode, now |-> reads[r].now]
    BY <1>7, Stages DEF LookupHit
  <2>8. Promise!Becomes(r, Promise!Body("hit", reads[r].id, reads[r].doc, reads[r].id, e.rev))
    BY <1>4, <2>6 DEF Promise!Body
  <2>9. UNCHANGED Kept
    BY <1>3, <1>7 DEF LookupHit
  <2>10. Promise!Hit(r)
    BY <1>2, <2>4, <2>5, <2>7, <2>8, <2>9 DEF Promise!Hit, Promise!Own, Calls
  <2> QED BY <1>5, <1>6, <2>10
<1>8. CASE LookupMiss(r)
  <2>1. old = [pc |-> "asked", id |-> reads[r].id, doc |-> reads[r].doc,
               mode |-> reads[r].mode, now |-> reads[r].now]
    BY <1>8, Stages DEF LookupMiss
  <2>2. reads'[r].id = reads[r].id /\ reads'[r].doc = reads[r].doc
    BY <1>0, <1>8 DEF LookupMiss, ReadCalls
  <2>3. UNCHANGED Kept
    BY <1>3, <1>8 DEF LookupMiss
  <2>4. CASE reads[r].mode = "only"
    <3>1. reads'[r].pc = "miss"
      BY <1>0, <1>8, <2>4 DEF LookupMiss, ReadCalls
    <3>2. new = [pc |-> "miss", id |-> reads[r].id, doc |-> reads[r].doc]
      BY <2>2, <3>1, Stages
    <3>3. Promise!Becomes(r, Promise!NoBody("miss", reads[r].id, reads[r].doc))
      BY <1>4, <3>2 DEF Promise!NoBody
    <3>4. Promise!Miss(r)
      BY <1>2, <2>1, <2>3, <2>4, <3>3 DEF Promise!Miss, Calls
    <3> QED BY <1>5, <1>6, <3>4
  <2>5. CASE reads[r].mode # "only"
    <3>1. reads'[r].pc = "send"
      BY <1>0, <1>8, <2>5 DEF LookupMiss, ReadCalls
    <3>2. new = [pc |-> "sent", id |-> reads[r].id, doc |-> reads[r].doc]
      BY <2>2, <3>1, Stages
    <3>3. Promise!Becomes(r, Promise!Sent(reads[r].id, reads[r].doc))
      BY <1>4, <3>2 DEF Promise!Sent
    <3>4. Promise!Forward(r)
      BY <1>2, <2>1, <2>3, <2>5, <3>3 DEF Promise!Forward, Calls
    <3> QED BY <1>5, <1>6, <3>4
  <2> QED BY <2>4, <2>5
<1>9. CASE UpstreamAnswers(r)
  <2>1. old = [pc |-> "sent", id |-> reads[r].id, doc |-> reads[r].doc]
    BY <1>9, Stages DEF UpstreamAnswers
  <2>2. /\ reads'[r].pc = "transit"
        /\ reads'[r].rev = Len(log)
        /\ reads'[r].id = reads[r].id
        /\ reads'[r].doc = reads[r].doc
    BY <1>0, <1>9 DEF UpstreamAnswers, ReadCalls
  <2>3. new = [pc |-> "answered", id |-> reads[r].id, doc |-> reads[r].doc, rev |-> Len(log)]
    BY <2>2, Stages
  <2>4. Promise!Becomes(r, Promise!Answered(reads[r].id, reads[r].doc, Len(log)))
    BY <1>4, <2>3 DEF Promise!Answered
  <2>5. Promise!Answer(r)
    <3>1. UNCHANGED Kept
      BY <1>3, <1>9 DEF UpstreamAnswers
    <3> QED BY <1>2, <2>1, <2>4, <3>1 DEF Promise!Answer, Calls
  <2> QED BY <1>5, <1>6, <2>5
<1>10. ASSUME NEW f \in Faults, UpstreamFails(r, f) PROVE Promise!CallStep(r)
  <2>1. /\ reads'[r].pc = "failed"
        /\ reads'[r].id = reads[r].id
        /\ reads'[r].doc = reads[r].doc
        /\ reads'[r].fault = f
    BY <1>0, <1>10 DEF UpstreamFails, NoRead
  <2>2. new = [pc |-> "failed", id |-> reads[r].id, doc |-> reads[r].doc, fault |-> f]
    BY <2>1, Stages
  <2>3. Promise!Becomes(r, Promise!Failed(reads[r].id, reads[r].doc, f))
    BY <1>4, <2>2 DEF Promise!Failed
  <2>4. /\ old.pc = "sent" \/ (old.pc = "answered" /\ f = "other")
        /\ old.id = reads[r].id /\ old.doc = reads[r].doc
    BY <1>10, Stages DEF UpstreamFails
  <2>5. Promise!Fail(r, f)
    <3>1. UNCHANGED Kept
      BY <1>3, <1>10 DEF UpstreamFails
    <3> QED BY <1>2, <2>3, <2>4, <3>1 DEF Promise!Fail, Calls
  <2> QED BY <1>6, <2>5 DEF Faults, Promise!Faults
<1>11. CASE Receive(r)
  <2>1. reads'[r].pc = "store" /\ reads'[r].id = reads[r].id /\ reads'[r].doc = reads[r].doc
    BY <1>0, <1>11 DEF Receive, ReadCalls
  <2>2. reads'[r].rev = reads[r].rev /\ reads[r].pc = "transit"
    BY <1>0, <1>11 DEF Receive, ReadCalls
  <2>3. new = old
    BY <2>1, <2>2, Stages
  <2>4. Calls' = Calls
    BY <1>2, <2>3 DEF Calls
  <2>5. UNCHANGED Kept
    BY <1>3, <1>11 DEF Receive
  <2> QED BY <1>0, <2>4, <2>5 DEF Promise!vars, Calls
<1>12. CASE ReceiveUncached(r) \/ Store(r) \/ StoreFails(r)
  <2>1. reads[r].pc \in {"transit", "store"} /\ Return(r, "fresh")
    BY <1>12 DEF ReceiveUncached, Store, StoreFails
  <2>2. /\ reads'[r].pc = "fresh"
        /\ reads'[r].rev = reads[r].rev
        /\ reads'[r].id = reads[r].id
        /\ reads'[r].doc = reads[r].doc
    BY <1>0, <2>1 DEF Return, NoRead
  <2>3. reads'[r].owner = reads[r].id
    BY <2>2 DEF OwnInv, OwnRead
  <2>4. old = [pc |-> "answered", id |-> reads[r].id, doc |-> reads[r].doc, rev |-> reads[r].rev]
    BY <2>1, Stages
  <2>5. new = [pc |-> "fresh", id |-> reads[r].id, doc |-> reads[r].doc,
               owner |-> reads[r].id, rev |-> reads[r].rev]
    BY <2>2, <2>3, Stages
  <2>6. Promise!Becomes(r, Promise!Body("fresh", reads[r].id, reads[r].doc,
                                        reads[r].id, reads[r].rev))
    BY <1>4, <2>5 DEF Promise!Body
  <2>7. Promise!Reply(r)
    <3> DEFINE k0 == <<reads[r].id, reads[r].doc>>
    <3>1. k0 \in Keys /\ k0 = Key(reads[r].id, reads[r].doc)
      BY <1>0 DEF ReadCalls, Key, Keys
    <3>2. \E answers \in SUBSET (Kept[k0] \union {reads[r].rev}) :
             Kept' = [Kept EXCEPT ![k0] = answers]
      <4>1. CASE ReceiveUncached(r) \/ StoreFails(r)
        <5>1. Kept' = Kept
          BY <1>3, <4>1 DEF ReceiveUncached, StoreFails
        <5>2. [Kept EXCEPT ![k0] = Kept[k0]] = Kept
          BY KeptType, <3>1
        <5> QED BY <5>1, <5>2
      <4>2. CASE Store(r)
        <5> DEFINE e == NewEntry(reads[r], reads[r].stored)
        <5>1. e.key = k0 /\ e.rev = reads[r].rev
          BY <3>1 DEF NewEntry
        <5>2. cache' = Put(k0, e)
          BY <3>1, <4>2 DEF Store
        <5> HIDE DEF e, k0
        <5>3. Kept' = [Kept EXCEPT ![k0] = {reads[r].rev}]
          BY <3>1, <5>1, <5>2, PutKeeps
        <5> QED BY <5>3
      <4> QED BY <1>12, <4>1, <4>2
    <3>3. /\ Calls[r].pc = "answered"
          /\ Calls[r].id = reads[r].id
          /\ Calls[r].doc = reads[r].doc
          /\ Calls[r].rev = reads[r].rev
      BY <1>2, <2>4
    <3> HIDE DEF new, old
    <3> QED BY <2>6, <3>2, <3>3 DEF Promise!Reply, Promise!Own, Calls
  <2> QED BY <1>5, <1>6, <2>7
<1>13. CASE FallBack(r)
  <2>1. PICK e \in Get(Key(reads[r].id, reads[r].doc)) : Serve(r, e, "stale")
    BY <1>13 DEF FallBack
  <2>2. /\ reads'[r].pc = "stale"
        /\ reads'[r].rev = e.rev
        /\ reads'[r].id = reads[r].id
        /\ reads'[r].doc = reads[r].doc
    BY <1>0, <2>1 DEF Serve, ReadCalls
  <2>3. reads'[r].owner = reads[r].id
    BY <2>2 DEF OwnInv, OwnRead
  <2>4. e.rev \in Kept[<<reads[r].id, reads[r].doc>>]
    <3>1. Key(reads[r].id, reads[r].doc) \in Keys
      BY <1>0 DEF ReadCalls, Key, Keys
    <3> QED BY <2>1, <3>1 DEF Kept, Key
  <2>5. /\ old = [pc |-> "failed", id |-> reads[r].id, doc |-> reads[r].doc, fault |-> "overload"]
        /\ config.enabled /\ config.staleOn429
    BY <1>13, Stages DEF FallBack, MayFallBack
  <2>6. new = [pc |-> "stale", id |-> reads[r].id, doc |-> reads[r].doc,
               owner |-> reads[r].id, rev |-> e.rev]
    BY <2>2, <2>3, Stages
  <2>7. Promise!Becomes(r, Promise!Body("stale", reads[r].id, reads[r].doc, reads[r].id, e.rev))
    BY <1>4, <2>6 DEF Promise!Body
  <2>8. UNCHANGED Kept
    BY <1>3, <1>13 DEF FallBack
  <2>9. Promise!FallBack(r)
    BY <1>2, <2>4, <2>5, <2>7, <2>8 DEF Promise!FallBack, Promise!Own, Calls
  <2> QED BY <1>5, <1>6, <2>9
<1>14. CASE GiveUp(r)
  <2>1. reads'[r].pc = "error" /\ reads'[r].id = reads[r].id /\ reads'[r].doc = reads[r].doc
    BY <1>0, <1>14 DEF GiveUp, Return, NoRead
  <2>2. old.pc = "failed" /\ old.id = reads[r].id /\ old.doc = reads[r].doc
    BY <1>14, Stages DEF GiveUp
  <2>3. new = [pc |-> "error", id |-> reads[r].id, doc |-> reads[r].doc]
    BY <2>1, Stages
  <2>4. Promise!Becomes(r, Promise!NoBody("error", reads[r].id, reads[r].doc))
    BY <1>4, <2>3 DEF Promise!NoBody
  <2>5. Promise!GiveUp(r)
    <3>1. UNCHANGED Kept
      BY <1>3, <1>14 DEF GiveUp
    <3> QED BY <1>2, <2>2, <2>4, <3>1 DEF Promise!GiveUp, Calls
  <2> QED BY <1>5, <1>6, <2>5
<1> QED
  BY <1>5, <1>7, <1>8, <1>9, <1>10, <1>11, <1>12, <1>13, <1>14 DEF ReadStep

(* The beginning and the end of a call. *)
LEMMA BeginReadMaps ==
    ASSUME TypeOK, NEW r \in Readers, NEW i \in Identities, NEW d \in Docs,
           NEW m \in Modes, BeginRead(r, i, d, m)
    PROVE  Promise!Next
<1>1. UNCHANGED <<clock, log, config, Kept>> /\ reads \in [Readers -> ReadCalls]
  BY NothingPut DEF BeginRead, TypeOK
<1>2. Calls' = [Calls EXCEPT ![r] = Stage(reads'[r])]
  <2>1. \A q \in Readers : q # r => reads'[q] = reads[q]
    BY <1>1 DEF BeginRead
  <2> QED BY <2>1, OneMoves
<1>3. Calls[r] = [pc |-> "idle"]
  BY Stages DEF BeginRead, Calls
<1>4. m \in Promise!Modes
  BY DEF Modes, Promise!Modes
<1>5. CASE Uncached(m) \/ m = "refresh"
  <2>1. reads'[r].pc = "send" /\ reads'[r].id = i /\ reads'[r].doc = d
    BY <1>1, <1>5 DEF BeginRead, NoRead
  <2>2. Stage(reads'[r]) = [pc |-> "sent", id |-> i, doc |-> d]
    BY <2>1, Stages
  <2>3. Promise!Becomes(r, Promise!Sent(i, d))
    BY <1>1, <1>2, <2>2 DEF Promise!Becomes, Promise!Sent, Calls
  <2>4. ~(config.enabled /\ m \in {"default", "only"})
    BY <1>5 DEF Uncached
  <2>5. Promise!Ask(r, i, d, m)
    BY <1>1, <1>3, <2>3, <2>4 DEF Promise!Ask, Promise!Idle, Calls
  <2> QED BY <1>4, <2>5 DEF Promise!Next, Promise!CallStep
<1>6. CASE ~(Uncached(m) \/ m = "refresh")
  <2>1. /\ reads'[r].pc = "lookup"
        /\ reads'[r].id = i
        /\ reads'[r].doc = d
        /\ reads'[r].mode = m
        /\ reads'[r].now = clock
    BY <1>1, <1>6 DEF BeginRead, NoRead
  <2>2. Stage(reads'[r]) = [pc |-> "asked", id |-> i, doc |-> d, mode |-> m, now |-> clock]
    BY <2>1, Stages
  <2>3. Promise!Becomes(r, Promise!Asked(i, d, m, clock))
    BY <1>1, <1>2, <2>2 DEF Promise!Becomes, Promise!Asked, Calls
  <2>4. config.enabled /\ m \in {"default", "only"}
    BY <1>6 DEF Uncached, Modes
  <2>5. Promise!Ask(r, i, d, m)
    BY <1>1, <1>3, <2>3, <2>4 DEF Promise!Ask, Promise!Idle, Calls
  <2> QED BY <1>4, <2>5 DEF Promise!Next, Promise!CallStep
<1> QED BY <1>5, <1>6

LEMMA EndReadMaps ==
    ASSUME TypeOK, NEW r \in Readers, EndRead(r) PROVE Promise!Next
<1>1. UNCHANGED <<clock, log, config, Kept>> /\ reads \in [Readers -> ReadCalls]
  BY NothingPut DEF EndRead, TypeOK
<1>2. Calls' = [Calls EXCEPT ![r] = Stage(reads'[r])]
  <2>1. \A q \in Readers : q # r => reads'[q] = reads[q]
    BY <1>1 DEF EndRead
  <2> QED BY <2>1, OneMoves
<1>3. Stage(reads'[r]) = [pc |-> "idle"]
  BY <1>1, Stages DEF EndRead, NoRead
<1>4. Calls[r].pc \in {"hit", "fresh", "stale", "miss", "error"}
  <2>1. reads[r].pc \in Replies /\ Calls[r] = Stage(reads[r])
    BY DEF EndRead, Calls
  <2> QED BY <2>1, Stages DEF Replies
<1>5. Promise!End(r)
  BY <1>1, <1>2, <1>3, <1>4 DEF Promise!End, Promise!Becomes, Promise!Idle, Calls
<1> QED BY <1>5 DEF Promise!Next, Promise!CallStep

(* Deleting keys forgets answers. *)
LEMMA DeletionMaps ==
    ASSUME NEW scope, cache' = DeletePrefix(scope), Calls' = Calls,
           UNCHANGED <<clock, log, config>>
    PROVE  Promise!Next
<1>1. \E gone \in SUBSET Keys : Kept' = [k \in Keys |-> IF k \in gone THEN {} ELSE Kept[k]]
  BY DeletingForgets
<1>2. Promise!Forget
  BY <1>1 DEF Promise!Forget, Promise!Pairs, Keys, Calls
<1> QED BY <1>2 DEF Promise!Next

(* Writes are invisible to a reader, apart from the change itself and the  *)
(* answers that are forgotten.                                             *)
LEMMA WriteStepMaps ==
    ASSUME TypeOK, NEW w \in Writers, WriteStep(w)
    PROVE  [Promise!Next]_Promise!vars
<1>1. CASE UpstreamAccepts(w)
  <2>1. Changes[writes[w].kind] \in SUBSET Docs
    <3>1. writes[w].kind \in Kinds
      BY DEF TypeOK, WriteCalls
    <3> QED BY <3>1, ResponseCacheAssumption
  <2>2. log' = Append(log, [at |-> clock, docs |-> Changes[writes[w].kind]])
    BY <1>1 DEF UpstreamAccepts
  <2>3. UNCHANGED <<clock, config, reads, Kept>>
    BY <1>1, NothingPut DEF UpstreamAccepts
  <2>4. Promise!Change
    BY <2>1, <2>2, <2>3 DEF Promise!Change
  <2> QED BY <2>4 DEF Promise!Next
<1>2. CASE InvalidatePath(w)
  <2>1. ASSUME NEW q \in Readers PROVE Stage(reads'[q]) = Stage(reads[q])
    <3>1. reads'[q] \in {reads[q], [reads[q] EXCEPT !.late = TRUE]} /\ reads[q] \in ReadCalls
      BY <1>2 DEF InvalidatePath, TypeOK
    <3>2. /\ reads'[q].pc = reads[q].pc
          /\ reads'[q].id = reads[q].id
          /\ reads'[q].doc = reads[q].doc
          /\ reads'[q].mode = reads[q].mode
          /\ reads'[q].now = reads[q].now
          /\ reads'[q].owner = reads[q].owner
          /\ reads'[q].rev = reads[q].rev
      BY <3>1 DEF ReadCalls
    <3> QED BY <3>2 DEF Stage
  <2>2. UNCHANGED <<clock, log, config>>
    BY <1>2 DEF InvalidatePath
  <2>3. Calls' = Calls
    BY <2>1, NoneMoves
  <2>4. CASE UNCHANGED cache
    BY <2>2, <2>3, <2>4, NothingPut DEF Promise!vars, Calls
  <2>5. CASE \E scope : cache' = DeletePrefix(scope)
    BY <2>2, <2>3, <2>5, DeletionMaps
  <2> QED BY <1>2, <2>4, <2>5 DEF InvalidatePath
<1>3. CASE WriteFails(w) \/ WriteAnswered(w) \/ InvalidateFails(w) \/ EndWrite(w)
  <2>1. UNCHANGED <<clock, log, config, reads, cache>>
    BY <1>3 DEF WriteFails, WriteAnswered, InvalidateFails, EndWrite
  <2> QED BY <2>1, NothingPut DEF Promise!vars
<1> QED BY <1>1, <1>2, <1>3 DEF WriteStep

(* Every step maps to a step of CachedReads, or to none. *)
LEMMA StepMaps ==
    TypeOK /\ FreshInv /\ OwnInv /\ OwnInv' /\ [Next]_vars => [Promise!Next]_Promise!vars
<1> SUFFICES ASSUME TypeOK, FreshInv, OwnInv, OwnInv', [Next]_vars
             PROVE  [Promise!Next]_Promise!vars
  OBVIOUS
<1>1. ASSUME UNCHANGED <<clock, log, config, cache, reads>> PROVE UNCHANGED Promise!vars
  BY <1>1, NothingPut DEF Promise!vars
<1>2. CASE UNCHANGED vars
  BY <1>1, <1>2 DEF vars
<1>3. ASSUME NEW w \in Writers, NEW i \in Identities, NEW k \in Kinds, BeginWrite(w, i, k)
      PROVE  UNCHANGED Promise!vars
  BY <1>1, <1>3 DEF BeginWrite
<1>4. ASSUME NEW scope \in AdminScopes, AdminInvalidate(scope) PROVE Promise!Next
  <2>1. Calls' = Calls
    BY <1>4 DEF AdminInvalidate, Calls
  <2> QED BY <1>4, <2>1, DeletionMaps DEF AdminInvalidate
<1>5. ASSUME AdminClear PROVE Promise!Next
  <2>1. Calls' = Calls
    BY <1>5 DEF AdminClear, Calls
  <2>2. cache' = DeletePrefix(Keys)
    BY <1>5 DEF AdminClear, DeletePrefix, TypeOK, Entries
  <2> QED BY <1>5, <2>1, <2>2, DeletionMaps DEF AdminClear
<1>6. ASSUME NEW d \in Docs, OthersChange(d) PROVE Promise!Next
  <2>1. Promise!Change
    BY <1>6, NothingPut DEF OthersChange, Promise!Change
  <2> QED BY <2>1 DEF Promise!Next
<1>7. CASE Tick
  BY <1>7, NothingPut DEF Tick, Promise!Tick, Promise!Next
<1>8. CASE Restart
  <2>1. ASSUME NEW q \in Readers PROVE Stage(reads'[q]) = [pc |-> "idle"]
    BY <1>8, Stages DEF Restart, NoRead
  <2>2. Calls' = [r \in Readers |-> [pc |-> "idle"]]
    BY <2>1 DEF Calls
  <2>3. config' \in Promise!Configs /\ UNCHANGED <<clock, log, Kept>>
    BY <1>8, NothingPut DEF Restart, Promise!Configs
  <2>4. Promise!Interrupt
    BY <2>2, <2>3 DEF Promise!Interrupt, Promise!Idle, Calls
  <2> QED BY <2>4 DEF Promise!Next
<1> QED
  BY <1>2, <1>3, <1>4, <1>5, <1>6, <1>7, <1>8, ReadStepMaps, BeginReadMaps, EndReadMaps,
     WriteStepMaps DEF Next

(* The response cache implements the promise to its callers, for every     *)
(* number of calls, identities and documents, every TTL and timeout: hits   *)
(* are recent enough, fresh replies current, fallbacks the caller's own     *)
(* answers of before and given after an overload only, and mode "only"      *)
(* stays away from the upstream where there is a cache.                     *)
THEOREM KeepsPromise == Spec => Implements
<1>1. Init => TypeOK /\ FreshInv /\ OwnInv
  <2>1. Init => TypeOK
    BY Defaults DEF Init, TypeOK
  <2>2. Init => FreshInv /\ OwnInv
    BY DEF Init, NoRead, FreshInv, ReadFresh, OwnInv, OwnEntries, OwnRead, InFlight
  <2> QED BY <2>1, <2>2
<1> QED
  BY <1>1, TypeStep, FreshStep, OwnStep, InitMaps, StepMaps, PTL
  DEF Spec, Implements, Promise!Spec
============================================================================
