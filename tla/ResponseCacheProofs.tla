------------------------ MODULE ResponseCacheProofs ------------------------
(***************************************************************************)
(* Proofs about ResponseCache for every number of calls, identities and    *)
(* documents, every TTL and timeout, and unbounded time and changes.       *)
(***************************************************************************)
EXTENDS ResponseCache, TLAPS

(* The records of slots that no call uses are well formed. *)
LEMMA Defaults == NoRead \in ReadCalls /\ NoWrite \in WriteCalls
<1>1. (CHOOSE i \in Identities : TRUE) \in Identities
  BY ResponseCacheAssumption
<1>2. (CHOOSE d \in Docs : TRUE) \in Docs
  BY ResponseCacheAssumption
<1>3. (CHOOSE k \in Kinds : TRUE) \in Kinds
  BY ResponseCacheAssumption
<1> QED BY <1>1, <1>2, <1>3 DEF NoRead, NoWrite, ReadCalls, WriteCalls, Modes, Faults

(* Put keeps the bucket well formed, with one value per key. *)
LEMMA PutType ==
    ASSUME cache \subseteq Entries, \A e, f \in cache : e.key = f.key => e = f,
           NEW e \in Entries
    PROVE  /\ Put(e.key, e) \subseteq Entries
           /\ \A x, y \in Put(e.key, e) : x.key = y.key => x = y
BY DEF Put

(* Updates that keep the record of a write call well formed. *)
LEMMA WriteFields ==
    ASSUME NEW c \in WriteCalls, NEW n \in Nat
    PROVE  /\ [c EXCEPT !.pc = "transit", !.rev = n] \in WriteCalls
           /\ [c EXCEPT !.step = n] \in WriteCalls
           /\ [c EXCEPT !.step = n, !.lost = TRUE] \in WriteCalls
BY DEF WriteCalls

(* The type invariant is kept by every step of a read call. *)
LEMMA TypeReadStep ==
    ASSUME TypeOK, NEW r \in Readers, ReadStep(r) PROVE TypeOK'
<1> USE DEF TypeOK
<1>0. reads[r] \in ReadCalls
  OBVIOUS
<1>1. CASE LookupHit(r)
  <2>1. PICK e \in Get(Key(reads[r].id, reads[r].doc)) : Serve(r, e, "hit")
    BY <1>1 DEF LookupHit
  <2>2. e \in Entries
    BY <2>1 DEF Get
  <2>3. reads' \in [Readers -> ReadCalls]
    BY <1>0, <2>1, <2>2 DEF Serve, ReadCalls, Entries, Replies
  <2> QED BY <1>1, <2>3 DEF LookupHit
<1>2. CASE LookupMiss(r)
  <2>1. reads' \in [Readers -> ReadCalls]
    BY <1>0, <1>2 DEF LookupMiss, ReadCalls, Replies
  <2> QED BY <1>2, <2>1 DEF LookupMiss
<1>3. CASE UpstreamAnswers(r)
  <2>0. Len(log) \in Nat
    OBVIOUS
  <2>1. reads' \in [Readers -> ReadCalls]
    BY <1>0, <1>3, <2>0 DEF UpstreamAnswers, ReadCalls, InFlight
  <2> QED BY <1>3, <2>1 DEF UpstreamAnswers
<1>4. ASSUME NEW f \in Faults, UpstreamFails(r, f) PROVE TypeOK'
  <2>1. reads' \in [Readers -> ReadCalls]
    BY <1>0, <1>4, Defaults DEF UpstreamFails, NoRead, ReadCalls
  <2> QED BY <1>4, <2>1 DEF UpstreamFails
<1>5. ASSUME NEW p \in Replies, Return(r, p) PROVE reads' \in [Readers -> ReadCalls]
  BY <1>0, <1>5, Defaults DEF Return, NoRead, ReadCalls
<1>11. CASE ReceiveUncached(r)
  <2>1. reads' \in [Readers -> ReadCalls]
    BY <1>5, <1>11 DEF ReceiveUncached, Replies
  <2> QED BY <1>11, <2>1 DEF ReceiveUncached
<1>6. CASE Receive(r)
  <2>1. reads' \in [Readers -> ReadCalls]
    BY <1>0, <1>6 DEF Receive, ReadCalls, InFlight
  <2> QED BY <1>6, <2>1 DEF Receive
<1>7. CASE Store(r)
  <2> DEFINE e == NewEntry(reads[r], reads[r].stored)
  <2>1. reads' \in [Readers -> ReadCalls]
    BY <1>5, <1>7 DEF Store, Replies
  <2>2. e \in Entries /\ e.key = Key(reads[r].id, reads[r].doc)
    BY <1>0, ResponseCacheAssumption DEF NewEntry, ReadCalls, Entries, Key, Keys
  <2>3. cache' = Put(e.key, e)
    BY <1>7, <2>2 DEF Store
  <2>4. cache' \subseteq Entries /\ \A x, y \in cache' : x.key = y.key => x = y
    BY <2>2, <2>3, PutType
  <2> QED BY <1>7, <2>1, <2>4 DEF Store
<1>8. CASE StoreFails(r)
  <2>1. reads' \in [Readers -> ReadCalls]
    BY <1>5, <1>8 DEF StoreFails, Replies
  <2> QED BY <1>8, <2>1 DEF StoreFails
<1>9. CASE FallBack(r)
  <2>1. PICK e \in Get(Key(reads[r].id, reads[r].doc)) : Serve(r, e, "stale")
    BY <1>9 DEF FallBack
  <2>2. e \in Entries
    BY <2>1 DEF Get
  <2>3. reads' \in [Readers -> ReadCalls]
    BY <1>0, <2>1, <2>2 DEF Serve, ReadCalls, Entries, Replies
  <2> QED BY <1>9, <2>3 DEF FallBack
<1>10. CASE GiveUp(r)
  <2>1. reads' \in [Readers -> ReadCalls]
    BY <1>5, <1>10 DEF GiveUp, Replies
  <2> QED BY <1>10, <2>1 DEF GiveUp
<1> QED BY <1>1, <1>2, <1>3, <1>4, <1>6, <1>7, <1>8, <1>9, <1>10, <1>11 DEF ReadStep

(* It is kept by every step of a write call. *)
LEMMA TypeWriteStep ==
    ASSUME TypeOK, NEW w \in Writers, WriteStep(w) PROVE TypeOK'
<1> USE DEF TypeOK
<1>0. writes[w] \in WriteCalls /\ Len(log) + 1 \in Nat
  OBVIOUS
<1>1. CASE UpstreamAccepts(w)
  <2>1. Changes[writes[w].kind] \in SUBSET Docs
    BY <1>0, ResponseCacheAssumption DEF WriteCalls
  <2>2. log' \in Seq([at : Nat, docs : SUBSET Docs])
    BY <1>1, <2>1 DEF UpstreamAccepts
  <2>3. writes' = [writes EXCEPT ![w] = [@ EXCEPT !.pc = "transit", !.rev = Len(log) + 1]]
    BY <1>1 DEF UpstreamAccepts
  <2>4. [writes[w] EXCEPT !.pc = "transit", !.rev = Len(log) + 1] \in WriteCalls
    BY <1>0, WriteFields
  <2>5. writes' \in [Writers -> WriteCalls]
    BY <2>3, <2>4
  <2> QED BY <1>1, <2>2, <2>5 DEF UpstreamAccepts
<1>2. CASE WriteFails(w)
  BY <1>2, Defaults DEF WriteFails
<1>3. CASE WriteAnswered(w)
  <2>1. writes' \in [Writers -> WriteCalls]
    BY <1>0, <1>3 DEF WriteAnswered, WriteCalls
  <2> QED BY <1>3, <2>1 DEF WriteAnswered
<1>4. CASE InvalidatePath(w)
  <2>0. writes' = [writes EXCEPT ![w].step = writes[w].step + 1]
    BY <1>4 DEF InvalidatePath
  <2>1. [writes[w] EXCEPT !.step = writes[w].step + 1] \in WriteCalls
    <3>1. writes[w].step + 1 \in Nat
      BY <1>0 DEF WriteCalls
    <3> QED BY <1>0, <3>1, WriteFields
  <2>6. writes' \in [Writers -> WriteCalls]
    BY <2>0, <2>1
  <2>2. cache' \subseteq cache
    BY <1>4 DEF InvalidatePath, DeletePrefix
  <2>3. ASSUME NEW q \in Readers PROVE reads'[q] \in ReadCalls
    <3>1. reads[q] \in ReadCalls /\ reads'[q] \in {reads[q], [reads[q] EXCEPT !.late = TRUE]}
      BY <1>4 DEF InvalidatePath
    <3> QED BY <3>1 DEF ReadCalls
  <2>4. reads' = [q \in Readers |-> reads'[q]]
    BY <1>4 DEF InvalidatePath
  <2>5. reads' \in [Readers -> ReadCalls]
    BY <2>3, <2>4
  <2> QED BY <1>4, <2>2, <2>5, <2>6 DEF InvalidatePath
<1>5. CASE EndWrite(w)
  <2>1. floor' \in [Keys -> Nat]
    BY <1>0, <1>5 DEF EndWrite, WriteCalls
  <2> QED BY <1>5, <2>1, Defaults DEF EndWrite
<1>6. CASE InvalidateFails(w)
  <2>1. writes' = [writes EXCEPT ![w] = [@ EXCEPT !.step = writes[w].step + 1, !.lost = TRUE]]
    BY <1>6 DEF InvalidateFails
  <2>2. [writes[w] EXCEPT !.step = writes[w].step + 1, !.lost = TRUE] \in WriteCalls
    <3>1. writes[w].step + 1 \in Nat
      BY <1>0 DEF WriteCalls
    <3> QED BY <1>0, <3>1, WriteFields
  <2>3. writes' \in [Writers -> WriteCalls]
    BY <2>1, <2>2
  <2> QED BY <1>6, <2>3 DEF InvalidateFails
<1> QED BY <1>1, <1>2, <1>3, <1>4, <1>5, <1>6 DEF WriteStep

(* It is kept when a call begins or ends, and by the rest of the world. *)
LEMMA TypeBeginRead ==
    ASSUME TypeOK, NEW r \in Readers, NEW i \in Identities, NEW d \in Docs,
           NEW m \in Modes, BeginRead(r, i, d, m)
    PROVE  TypeOK'
<1> USE DEF TypeOK
<1>1. floor[Key(i, d)] \in Nat
  BY DEF Key, Keys
<1>2. CASE Uncached(m) \/ m = "refresh"
  <2>1. reads' = [reads EXCEPT ![r] =
          [NoRead EXCEPT !.pc = "send", !.id = i, !.doc = d, !.mode = m]]
    BY <1>2 DEF BeginRead
  <2>2. reads' \in [Readers -> ReadCalls]
    BY <2>1, Defaults DEF ReadCalls
  <2> QED BY <2>2 DEF BeginRead
<1>3. CASE ~(Uncached(m) \/ m = "refresh")
  <2>1. reads' = [reads EXCEPT ![r] =
          [NoRead EXCEPT !.pc = "lookup", !.id = i, !.doc = d, !.mode = m,
                         !.now = clock, !.floor = floor[Key(i, d)]]]
    BY <1>3 DEF BeginRead
  <2>2. reads' \in [Readers -> ReadCalls]
    BY <1>1, <2>1, Defaults DEF ReadCalls
  <2> QED BY <2>2 DEF BeginRead
<1> QED BY <1>2, <1>3

(* One property of every step: shared by the invariance proofs below. *)
LEMMA TypeStep == TypeOK /\ [Next]_vars => TypeOK'
<1> SUFFICES ASSUME TypeOK, [Next]_vars PROVE TypeOK'
  OBVIOUS
<1> USE DEF TypeOK
<1>1. ASSUME NEW r \in Readers, EndRead(r) PROVE TypeOK'
  BY <1>1, Defaults DEF EndRead
<1>2. ASSUME NEW w \in Writers, NEW i \in Identities, NEW k \in Kinds, BeginWrite(w, i, k)
      PROVE TypeOK'
  <2>1. writes' \in [Writers -> WriteCalls]
    BY <1>2, Defaults DEF BeginWrite, WriteCalls
  <2> QED BY <1>2, <2>1 DEF BeginWrite
<1>3. ASSUME NEW scope \in AdminScopes, AdminInvalidate(scope) PROVE TypeOK'
  BY <1>3 DEF AdminInvalidate, DeletePrefix
<1>4. CASE AdminClear
  BY <1>4 DEF AdminClear
<1>5. ASSUME NEW d \in Docs, OthersChange(d) PROVE TypeOK'
  BY <1>5 DEF OthersChange
<1>6. CASE Tick
  BY <1>6 DEF Tick
<1>7. CASE Restart
  BY <1>7, Defaults DEF Restart
<1>8. CASE UNCHANGED vars
  BY <1>8 DEF vars
<1> QED
  BY <1>1, <1>2, <1>3, <1>4, <1>5, <1>6, <1>7, <1>8, TypeReadStep, TypeWriteStep,
     TypeBeginRead DEF Next

(* Every variable keeps its shape, and the bucket holds at most one entry  *)
(* per key: what the handlers of cache.go and client.go may rely on.       *)
THEOREM Typing == Spec => []TypeOK
<1>1. Init => TypeOK
  BY Defaults DEF Init, TypeOK
<1> QED BY <1>1, TypeStep, PTL DEF Spec

----------------------------------------------------------------------------
(* Freshness.  An entry misses only changes made later than Timeout before *)
(* it was stamped; this follows the answer from the upstream to the file,  *)
(* which is what makes FreshnessBound inductive.                           *)

(* Every change after revision rev was made at time t or later. *)
ShownSince(rev, t) == \A n \in DOMAIN log : n > rev => log[n].at >= t

EntryFresh(e) ==
    /\ e.storedAt <= clock
    /\ e.expiresAt = e.storedAt + TTL[e.key[2]]
    /\ \A n \in DOMAIN log : n > e.rev => log[n].at + Timeout >= e.storedAt

ReadFresh(r) ==
    /\ reads[r].pc \in {"lookup", "hit"} => reads[r].now <= clock
    /\ reads[r].pc = "transit" =>
          /\ reads[r].at <= clock
          /\ clock <= reads[r].at + Timeout
          /\ ShownSince(reads[r].rev, reads[r].at)
    /\ reads[r].pc = "store" =>
          /\ reads[r].stored <= clock
          /\ \A n \in DOMAIN log :
                n > reads[r].rev => log[n].at + Timeout >= reads[r].stored
    /\ reads[r].pc = "hit" =>
          \A n \in DOMAIN log :
             n > reads[r].rev => log[n].at + Timeout + TTL[reads[r].doc] > reads[r].now

FreshInv ==
    /\ \A e \in cache : EntryFresh(e)
    /\ \A r \in Readers : ReadFresh(r)

(* The elements of a sequence are at natural indices, and of its type. *)
LEMMA SeqElement ==
    ASSUME NEW S, NEW s \in Seq(S), NEW n \in DOMAIN s
    PROVE  n \in Nat /\ n <= Len(s) /\ s[n] \in S
OBVIOUS

(* What TypeOK says about the numbers that the comparisons below use. *)
LEMMA Numbers ==
    ASSUME TypeOK
    PROVE  /\ clock \in Nat /\ Timeout \in Nat /\ Timeout > 0
           /\ \A n \in DOMAIN log : n \in Nat /\ log[n].at \in Nat
           /\ \A d \in Docs : TTL[d] \in Nat /\ TTL[d] > 0
           /\ \A e \in cache : /\ e.key[2] \in Docs /\ e.rev \in Nat
                               /\ e.storedAt \in Nat /\ e.expiresAt \in Nat
           /\ \A r \in Readers : /\ reads[r].doc \in Docs /\ reads[r].now \in Nat
                                 /\ reads[r].at \in Nat /\ reads[r].rev \in Nat
                                 /\ reads[r].stored \in Nat
<1>1. ASSUME NEW n \in DOMAIN log PROVE n \in Nat /\ log[n].at \in Nat
  <2>1. log \in Seq([at : Nat, docs : SUBSET Docs])
    BY DEF TypeOK
  <2>2. n \in Nat /\ log[n] \in [at : Nat, docs : SUBSET Docs]
    BY <1>1, <2>1, SeqElement
  <2> QED BY <2>2
<1>2. \A e \in cache : /\ e.key[2] \in Docs /\ e.rev \in Nat
                      /\ e.storedAt \in Nat /\ e.expiresAt \in Nat
  BY DEF TypeOK, Entries, Keys
<1>3. \A r \in Readers : /\ reads[r].doc \in Docs /\ reads[r].now \in Nat
                        /\ reads[r].at \in Nat /\ reads[r].rev \in Nat
                        /\ reads[r].stored \in Nat
  BY DEF TypeOK, ReadCalls
<1> QED BY <1>1, <1>2, <1>3, ResponseCacheAssumption DEF TypeOK

(* The upstream's log grows at its end only, with the present time. *)
LEMMA LogGrows ==
    ASSUME TypeOK, NEW D, log' = Append(log, [at |-> clock, docs |-> D])
    PROVE  /\ Len(log') = Len(log) + 1
           /\ \A n \in DOMAIN log' :
                 \/ n \in DOMAIN log /\ log'[n] = log[n]
                 \/ n = Len(log) + 1 /\ log'[n].at = clock
BY DEF TypeOK

(* A change of the upstream disturbs no bound: it is made now. *)
LEMMA FreshGrow ==
    ASSUME TypeOK, FreshInv, NEW D, log' = Append(log, [at |-> clock, docs |-> D]),
           UNCHANGED <<clock, cache, reads>>
    PROVE  FreshInv'
<1>1. ASSUME NEW e \in cache' PROVE EntryFresh(e)'
  BY <1>1, LogGrows, Numbers DEF FreshInv, EntryFresh
<1>2. ASSUME NEW r \in Readers PROVE ReadFresh(r)'
  <2>1. reads'[r] = reads[r] /\ clock' = clock /\ ReadFresh(r)
    BY DEF FreshInv
  <2>2. ASSUME NEW n \in DOMAIN log'
        PROVE  (n \in DOMAIN log /\ log'[n] = log[n]) \/ log'[n].at = clock
    BY <2>2, LogGrows
  <2>3. reads[r].pc = "transit" => ShownSince(reads[r].rev, reads[r].at)'
    BY <2>1, <2>2, Numbers DEF ReadFresh, ShownSince
  <2>4. reads[r].pc = "store" =>
          \A n \in DOMAIN log' : n > reads[r].rev => log'[n].at + Timeout >= reads[r].stored
    BY <2>1, <2>2, Numbers DEF ReadFresh
  <2>5. reads[r].pc = "hit" =>
          \A n \in DOMAIN log' :
             n > reads[r].rev => log'[n].at + Timeout + TTL[reads[r].doc] > reads[r].now
    <3>1. ASSUME reads[r].pc = "hit", NEW n \in DOMAIN log', n > reads[r].rev, log'[n].at = clock
          PROVE  log'[n].at + Timeout + TTL[reads[r].doc] > reads[r].now
      BY <2>1, <3>1, Numbers DEF ReadFresh
    <3> QED BY <2>1, <2>2, <3>1 DEF ReadFresh
  <2> QED BY <2>1, <2>3, <2>4, <2>5 DEF ReadFresh
<1> QED BY <1>1, <1>2 DEF FreshInv

(* Every step of a read call keeps the bounds. *)
LEMMA FreshReadStep ==
    ASSUME TypeOK, FreshInv, NEW r \in Readers, ReadStep(r) PROVE FreshInv'
<1>0. UNCHANGED <<clock, log>>
  BY DEF ReadStep, LookupHit, LookupMiss, UpstreamAnswers, UpstreamFails, ReceiveUncached,
         Receive, Store, StoreFails, FallBack, GiveUp
<1>1. ASSUME NEW q \in Readers, q # r PROVE ReadFresh(q)'
  <2>1. reads'[q] = reads[q]
    BY <1>1 DEF TypeOK, ReadStep, LookupHit, LookupMiss, UpstreamAnswers, UpstreamFails,
         ReceiveUncached, Receive, Store, StoreFails, FallBack, GiveUp, Serve, Return
  <2> QED BY <1>0, <2>1 DEF FreshInv, ReadFresh, ShownSince
<1>2. ASSUME NEW e \in cache' PROVE EntryFresh(e)'
  <2>1. CASE cache' = cache
    BY <1>0, <1>2, <2>1 DEF FreshInv, EntryFresh
  <2>2. CASE Store(r)
    <3>1. e \in cache \/ e = NewEntry(reads[r], reads[r].stored)
      BY <1>2, <2>2 DEF Store, Put
    <3>2. CASE e = NewEntry(reads[r], reads[r].stored)
      BY <1>0, <2>2, <3>2, Numbers DEF Store, NewEntry, Key, FreshInv, ReadFresh, EntryFresh
    <3> QED BY <1>0, <3>1, <3>2 DEF FreshInv, EntryFresh
  <2> QED
    BY <2>1, <2>2 DEF ReadStep, LookupHit, LookupMiss, UpstreamAnswers, UpstreamFails,
         ReceiveUncached, Receive, StoreFails, FallBack, GiveUp
<1>3. ReadFresh(r)'
  <2>0. reads \in [Readers -> ReadCalls] /\ reads[r] \in ReadCalls
    BY DEF TypeOK
  <2>1. CASE LookupHit(r)
    <3>1. PICK e \in Get(Key(reads[r].id, reads[r].doc)) :
            Unexpired(e, reads[r].now) /\ Serve(r, e, "hit")
      BY <2>1 DEF LookupHit
    <3>2. /\ reads'[r].pc = "hit" /\ reads'[r].rev = e.rev
          /\ reads'[r].now = reads[r].now /\ reads'[r].doc = reads[r].doc
      BY <2>0, <3>1 DEF Serve, ReadCalls
    <3>3. e \in cache /\ EntryFresh(e) /\ e.key[2] = reads[r].doc
      BY <3>1 DEF Get, Key, FreshInv
    <3>4. reads[r].now <= clock /\ e.expiresAt > reads[r].now
      BY <2>1, <3>1 DEF LookupHit, FreshInv, ReadFresh, Unexpired
    <3>5. ASSUME NEW n \in DOMAIN log, n > e.rev
          PROVE  log[n].at + Timeout + TTL[reads[r].doc] > reads[r].now
      BY <3>3, <3>4, <3>5, Numbers DEF EntryFresh
    <3> QED BY <1>0, <3>2, <3>4, <3>5 DEF ReadFresh
  <2>2. CASE LookupMiss(r)
    <3>1. reads'[r].pc \in {"miss", "send"}
      BY <2>0, <2>2 DEF LookupMiss, ReadCalls
    <3> QED BY <3>1 DEF ReadFresh
  <2>3. CASE UpstreamAnswers(r)
    <3>1. reads'[r].pc = "transit" /\ reads'[r].at = clock /\ reads'[r].rev = Len(log)
      BY <2>0, <2>3 DEF UpstreamAnswers, ReadCalls
    <3>2. ShownSince(Len(log), clock)
      BY DEF ShownSince, TypeOK
    <3> QED BY <1>0, <3>1, <3>2, Numbers DEF ReadFresh, ShownSince
  <2>4. CASE \E f \in Faults : UpstreamFails(r, f)
    <3>1. reads'[r].pc = "failed"
      BY <2>0, <2>4 DEF UpstreamFails, NoRead
    <3> QED BY <3>1 DEF ReadFresh
  <2>5. ASSUME NEW p \in {"fresh", "error"}, Return(r, p) PROVE ReadFresh(r)'
    <3>1. reads'[r].pc = p
      BY <2>0, <2>5 DEF Return, NoRead
    <3> QED BY <3>1 DEF ReadFresh
  <2>6. CASE ReceiveUncached(r) \/ Store(r) \/ StoreFails(r) \/ GiveUp(r)
    BY <2>5, <2>6 DEF ReceiveUncached, Store, StoreFails, GiveUp
  <2>7. CASE Receive(r)
    <3>1. reads'[r].pc = "store" /\ reads'[r].stored = clock /\ reads'[r].rev = reads[r].rev
      BY <2>0, <2>7 DEF Receive, ReadCalls
    <3>2. clock <= reads[r].at + Timeout /\ ShownSince(reads[r].rev, reads[r].at)
      BY <2>7 DEF Receive, FreshInv, ReadFresh
    <3>3. ASSUME NEW n \in DOMAIN log, n > reads[r].rev PROVE log[n].at + Timeout >= clock
      BY <3>2, <3>3, Numbers DEF ShownSince
    <3> QED BY <1>0, <3>1, <3>3, Numbers DEF ReadFresh
  <2>8. CASE FallBack(r)
    <3>1. reads'[r].pc = "stale"
      BY <2>0, <2>8 DEF FallBack, Serve, ReadCalls
    <3> QED BY <3>1 DEF ReadFresh
  <2> QED BY <2>1, <2>2, <2>3, <2>4, <2>6, <2>7, <2>8 DEF ReadStep
<1> QED BY <1>1, <1>2, <1>3 DEF FreshInv

(* Every step keeps the bounds. *)
LEMMA FreshStep == TypeOK /\ FreshInv /\ [Next]_vars => FreshInv'
<1> SUFFICES ASSUME TypeOK, FreshInv, [Next]_vars PROVE FreshInv'
  OBVIOUS
<1>1. ASSUME NEW r \in Readers, NEW i \in Identities, NEW d \in Docs, NEW m \in Modes,
             BeginRead(r, i, d, m)
      PROVE  FreshInv'
  <2>1. UNCHANGED <<clock, log, cache>>
    BY <1>1 DEF BeginRead
  <2>2. ASSUME NEW q \in Readers, q # r PROVE ReadFresh(q)'
    BY <1>1, <2>1, <2>2 DEF TypeOK, BeginRead, FreshInv, ReadFresh, ShownSince
  <2>3. reads'[r].pc = "send" \/ (reads'[r].pc = "lookup" /\ reads'[r].now = clock)
    BY <1>1 DEF TypeOK, BeginRead, NoRead
  <2>4. ReadFresh(r)'
    BY <2>1, <2>3, Numbers DEF ReadFresh
  <2> QED BY <2>1, <2>2, <2>4 DEF FreshInv, EntryFresh
<1>2. ASSUME NEW r \in Readers, EndRead(r) PROVE FreshInv'
  <2>1. UNCHANGED <<clock, log, cache>>
    BY <1>2 DEF EndRead
  <2>2. ASSUME NEW q \in Readers, q # r PROVE ReadFresh(q)'
    BY <1>2, <2>1, <2>2 DEF TypeOK, EndRead, FreshInv, ReadFresh, ShownSince
  <2>3. reads'[r].pc = "idle"
    BY <1>2 DEF TypeOK, EndRead, NoRead
  <2> QED BY <2>1, <2>2, <2>3 DEF FreshInv, EntryFresh, ReadFresh
<1>3. ASSUME NEW w \in Writers, NEW i \in Identities, NEW k \in Kinds, BeginWrite(w, i, k)
      PROVE  FreshInv'
  BY <1>3 DEF BeginWrite, FreshInv, EntryFresh, ReadFresh, ShownSince
<1>4. ASSUME NEW w \in Writers, WriteStep(w) PROVE FreshInv'
  <2>1. CASE UpstreamAccepts(w)
    BY <2>1, FreshGrow DEF UpstreamAccepts
  <2>2. CASE WriteFails(w) \/ WriteAnswered(w) \/ InvalidateFails(w) \/ EndWrite(w)
    BY <2>2 DEF WriteFails, WriteAnswered, InvalidateFails, EndWrite, FreshInv, EntryFresh, ReadFresh, ShownSince
  <2>3. CASE InvalidatePath(w)
    <3>1. UNCHANGED <<clock, log>> /\ cache' \subseteq cache
      BY <2>3 DEF InvalidatePath, DeletePrefix
    <3>2. ASSUME NEW q \in Readers PROVE ReadFresh(q)'
      <4>1. reads'[q] \in {reads[q], [reads[q] EXCEPT !.late = TRUE]} /\ reads[q] \in ReadCalls
        BY <2>3 DEF InvalidatePath, TypeOK
      <4>2. /\ reads'[q].pc = reads[q].pc /\ reads'[q].now = reads[q].now
            /\ reads'[q].at = reads[q].at /\ reads'[q].rev = reads[q].rev
            /\ reads'[q].stored = reads[q].stored /\ reads'[q].doc = reads[q].doc
        BY <4>1 DEF ReadCalls
      <4> QED BY <3>1, <4>2 DEF FreshInv, ReadFresh, ShownSince
    <3> QED BY <3>1, <3>2 DEF FreshInv, EntryFresh
  <2> QED BY <1>4, <2>1, <2>2, <2>3 DEF WriteStep
<1>5. ASSUME NEW scope \in AdminScopes, AdminInvalidate(scope) PROVE FreshInv'
  BY <1>5 DEF AdminInvalidate, DeletePrefix, FreshInv, EntryFresh, ReadFresh, ShownSince
<1>6. CASE AdminClear
  BY <1>6 DEF AdminClear, FreshInv, EntryFresh, ReadFresh, ShownSince
<1>7. ASSUME NEW d \in Docs, OthersChange(d) PROVE FreshInv'
  BY <1>7, FreshGrow DEF OthersChange
<1>8. CASE Tick
  <2>1. /\ clock' = clock + 1 /\ UNCHANGED <<log, cache, reads>>
        /\ \A r \in Readers : reads[r].pc = "transit" => clock < reads[r].at + Timeout
    BY <1>8 DEF Tick
  <2>2. ASSUME NEW e \in cache PROVE EntryFresh(e)'
    BY <2>1, Numbers DEF FreshInv, EntryFresh
  <2>3. ASSUME NEW r \in Readers PROVE ReadFresh(r)'
    BY <2>1, Numbers DEF FreshInv, ReadFresh, ShownSince
  <2> QED BY <2>1, <2>2, <2>3 DEF FreshInv
<1>9. CASE Restart
  <2>1. UNCHANGED <<clock, log, cache>> /\ \A r \in Readers : reads'[r].pc = "idle"
    BY <1>9 DEF Restart, NoRead
  <2> QED BY <2>1 DEF FreshInv, EntryFresh, ReadFresh
<1>10. CASE UNCHANGED vars
  BY <1>10 DEF vars, FreshInv, EntryFresh, ReadFresh, ShownSince
<1> QED
  BY <1>1, <1>2, <1>3, <1>4, <1>5, <1>6, <1>7, <1>8, <1>9, <1>10, FreshReadStep DEF Next

(* No hit ever shows a document as it was longer ago than TTL and timeout  *)
(* allow, for every TTL and timeout and every interleaving of calls,       *)
(* invalidations and restarts.                                             *)
THEOREM HitsAreFresh == Spec => []FreshnessBound
<1>1. Init => FreshInv
  BY DEF Init, NoRead, FreshInv, ReadFresh
<1>2. TypeOK /\ FreshInv => FreshnessBound
  BY DEF FreshInv, ReadFresh, FreshnessBound
<1> QED BY <1>1, <1>2, FreshStep, Typing, PTL DEF Spec

----------------------------------------------------------------------------
(* Own answers only. *)

OwnEntries == \A e \in cache : e.owner = e.key[1]
OwnRead(r) == reads[r].pc \in InFlight \union {"hit", "fresh", "stale"} =>
                 reads[r].owner = reads[r].id
OwnInv == OwnEntries /\ \A r \in Readers : OwnRead(r)

(* Every step of a read call keeps bodies with their identity. *)
LEMMA OwnReadStep ==
    ASSUME TypeOK, OwnInv, NEW r \in Readers, ReadStep(r) PROVE OwnInv'
<1>0. reads \in [Readers -> ReadCalls] /\ reads[r] \in ReadCalls
  BY DEF TypeOK
<1>1. ASSUME NEW q \in Readers, q # r PROVE OwnRead(q)'
  <2>1. reads'[q] = reads[q]
    BY <1>0, <1>1 DEF ReadStep, LookupHit, LookupMiss, UpstreamAnswers, UpstreamFails,
         ReceiveUncached, Receive, Store, StoreFails, FallBack, GiveUp, Serve, Return
  <2> QED BY <2>1 DEF OwnInv, OwnRead
<1>2. OwnEntries'
  <2>1. CASE Store(r)
    <3>1. ASSUME NEW e \in cache' PROVE e \in cache \/ e.owner = e.key[1]
      <4>1. e \in cache \/ e = NewEntry(reads[r], reads[r].stored)
        BY <2>1, <3>1 DEF Store, Put
      <4> QED BY <4>1 DEF NewEntry, Key
    <3> QED BY <3>1 DEF OwnInv, OwnEntries
  <2>2. CASE cache' = cache
    BY <2>2 DEF OwnInv, OwnEntries
  <2> QED
    BY <2>1, <2>2 DEF ReadStep, LookupHit, LookupMiss, UpstreamAnswers, UpstreamFails,
         ReceiveUncached, Receive, StoreFails, FallBack, GiveUp
<1>3. OwnRead(r)'
  <2>1. ASSUME NEW e \in Get(Key(reads[r].id, reads[r].doc)), NEW p \in {"hit", "stale"},
               Serve(r, e, p)
        PROVE  OwnRead(r)'
    <3>1. e.owner = reads[r].id
      BY DEF Get, Key, OwnInv, OwnEntries
    <3>2. reads'[r].owner = e.owner /\ reads'[r].id = reads[r].id
      BY <1>0, <2>1 DEF Serve, ReadCalls
    <3> QED BY <3>1, <3>2 DEF OwnRead
  <2>2. CASE LookupHit(r) \/ FallBack(r)
    BY <2>1, <2>2 DEF LookupHit, FallBack
  <2>3. CASE LookupMiss(r)
    BY <1>0, <2>3 DEF LookupMiss, ReadCalls, OwnRead, InFlight
  <2>4. CASE UpstreamAnswers(r)
    BY <1>0, <2>4 DEF UpstreamAnswers, ReadCalls, OwnRead
  <2>5. CASE \E f \in Faults : UpstreamFails(r, f)
    BY <1>0, <2>5 DEF UpstreamFails, NoRead, OwnRead, InFlight
  <2>6. CASE Receive(r)
    BY <1>0, <2>6 DEF Receive, ReadCalls, OwnInv, OwnRead, InFlight
  <2>7. CASE ReceiveUncached(r) \/ Store(r) \/ StoreFails(r)
    BY <1>0, <2>7 DEF ReceiveUncached, Store, StoreFails, Return, NoRead, OwnInv, OwnRead, InFlight
  <2>8. CASE GiveUp(r)
    BY <1>0, <2>8 DEF GiveUp, Return, NoRead, OwnRead, InFlight
  <2> QED BY <2>2, <2>3, <2>4, <2>5, <2>6, <2>7, <2>8 DEF ReadStep
<1> QED BY <1>1, <1>2, <1>3 DEF OwnInv

(* Every step does. *)
LEMMA OwnStep == TypeOK /\ OwnInv /\ [Next]_vars => OwnInv'
<1> SUFFICES ASSUME TypeOK, OwnInv, [Next]_vars PROVE OwnInv'
  OBVIOUS
<1>1. ASSUME cache' \subseteq cache,
             \A q \in Readers : \/ reads'[q].pc \in {"idle", "lookup", "send"}
                               \/ /\ reads'[q].pc = reads[q].pc
                                  /\ reads'[q].owner = reads[q].owner
                                  /\ reads'[q].id = reads[q].id
      PROVE  OwnInv'
  BY <1>1 DEF OwnInv, OwnEntries, OwnRead, InFlight
<1>2. ASSUME NEW r \in Readers, NEW i \in Identities, NEW d \in Docs, NEW m \in Modes,
             BeginRead(r, i, d, m)
      PROVE  OwnInv'
  <2>1. reads'[r].pc \in {"lookup", "send"} /\ cache' = cache
    BY <1>2 DEF TypeOK, BeginRead, NoRead
  <2>2. \A q \in Readers : q # r => reads'[q] = reads[q]
    BY <1>2 DEF TypeOK, BeginRead
  <2> QED BY <1>1, <2>1, <2>2
<1>3. ASSUME NEW r \in Readers, EndRead(r) PROVE OwnInv'
  BY <1>1, <1>3 DEF TypeOK, EndRead, NoRead
<1>4. ASSUME NEW w \in Writers, NEW i \in Identities, NEW k \in Kinds, BeginWrite(w, i, k)
      PROVE  OwnInv'
  BY <1>1, <1>4 DEF BeginWrite
<1>5. ASSUME NEW w \in Writers, WriteStep(w) PROVE OwnInv'
  <2>1. CASE InvalidatePath(w)
    <3>1. cache' \subseteq cache
      BY <2>1 DEF InvalidatePath, DeletePrefix
    <3>2. ASSUME NEW q \in Readers
          PROVE  /\ reads'[q].pc = reads[q].pc /\ reads'[q].owner = reads[q].owner
                 /\ reads'[q].id = reads[q].id
      <4>1. reads'[q] \in {reads[q], [reads[q] EXCEPT !.late = TRUE]} /\ reads[q] \in ReadCalls
        BY <2>1 DEF InvalidatePath, TypeOK
      <4> QED BY <4>1 DEF ReadCalls
    <3> QED BY <1>1, <3>1, <3>2
  <2>2. CASE ~InvalidatePath(w)
    BY <1>1, <1>5, <2>2 DEF WriteStep, UpstreamAccepts, WriteFails, WriteAnswered,
         InvalidateFails, EndWrite
  <2> QED BY <2>1, <2>2
<1>6. ASSUME NEW scope \in AdminScopes, AdminInvalidate(scope) PROVE OwnInv'
  BY <1>1, <1>6 DEF AdminInvalidate, DeletePrefix
<1>7. ASSUME NEW d \in Docs, OthersChange(d) PROVE OwnInv'
  BY <1>1, <1>7 DEF OthersChange
<1>8. CASE AdminClear \/ Tick
  BY <1>1, <1>8 DEF AdminClear, Tick
<1>9. CASE Restart
  BY <1>1, <1>9 DEF Restart, NoRead
<1>10. CASE UNCHANGED vars
  BY <1>1, <1>10 DEF vars
<1> QED
  BY <1>2, <1>3, <1>4, <1>5, <1>6, <1>7, <1>8, <1>9, <1>10, OwnReadStep DEF Next

(* No call ever gets a body that was answered to another identity. *)
THEOREM IdentitiesStayApart == Spec => []OwnAnswersOnly
<1>1. Init => OwnInv
  BY DEF Init, NoRead, OwnInv, OwnEntries, OwnRead, InFlight
<1>2. OwnInv => OwnAnswersOnly
  BY DEF OwnInv, OwnRead, OwnAnswersOnly
<1> QED BY <1>1, <1>2, OwnStep, Typing, PTL DEF Spec
-----------------
----------------------------------------------------------------------------
(* Read your writes.  While a write invalidates, what it has purged so far *)
(* stays free of older bodies: those in the cache are gone, and those under *)
(* way are marked late.  This carries the claim from one InvalidatePath to *)
(* the next until EndWrite raises the floor.                               *)

PurgedSoFar(w) == UNION {PurgeScope(writes[w].id, writes[w].kind, n) :
    n \in {m \in DOMAIN Purges[writes[w].kind] : m <= writes[w].step}}

EntrySeen(e) == ~e.late => e.rev >= floor[e.key]

ReadSeen(r) ==
    /\ reads[r].pc = "lookup" => reads[r].floor <= floor[Key(reads[r].id, reads[r].doc)]
    /\ (reads[r].pc \in InFlight /\ ~reads[r].late) =>
          reads[r].rev >= floor[Key(reads[r].id, reads[r].doc)]
    /\ (reads[r].pc = "hit" /\ ~reads[r].late) => reads[r].rev >= reads[r].floor

WriteSeen(w) ==
    /\ writes[w].pc \in {"send", "transit"} => writes[w].step = 0
    /\ writes[w].pc \in {"transit", "purge"} => writes[w].rev <= Len(log)
    /\ (writes[w].pc = "purge" /\ config.enabled /\ ~writes[w].lost) => \A k \in PurgedSoFar(w) :
          /\ \A e \in cache : (e.key = k /\ ~e.late) => e.rev >= writes[w].rev
          /\ \A r \in Readers :
                (/\ reads[r].pc \in InFlight /\ ~reads[r].late
                 /\ Key(reads[r].id, reads[r].doc) = k) => reads[r].rev >= writes[w].rev

FloorSeen == \A k \in Keys : floor[k] <= Len(log)

WriteInv ==
    /\ FloorSeen
    /\ \A e \in cache : EntrySeen(e)
    /\ \A r \in Readers : ReadSeen(r)
    /\ \A w \in Writers : WriteSeen(w)

(* A step that gives a read call no new claim to make. *)
Quiet(q) ==
    \/ reads'[q].pc \notin {"lookup", "hit"} \union InFlight
    \/ /\ reads'[q].pc = reads[q].pc \/ {reads[q].pc, reads'[q].pc} \subseteq InFlight
       /\ reads'[q].id = reads[q].id /\ reads'[q].doc = reads[q].doc
       /\ reads'[q].rev = reads[q].rev /\ reads'[q].floor = reads[q].floor
       /\ ~reads'[q].late => ~reads[q].late

(* What TypeOK says about the numbers compared here. *)
LEMMA SeenNumbers ==
    ASSUME TypeOK
    PROVE  /\ Len(log) \in Nat
           /\ \A k \in Keys : floor[k] \in Nat
           /\ \A e \in cache : e.key \in Keys /\ e.rev \in Nat
           /\ \A r \in Readers : /\ reads[r].rev \in Nat /\ reads[r].floor \in Nat
                                 /\ Key(reads[r].id, reads[r].doc) \in Keys
           /\ \A w \in Writers : /\ writes[w].rev \in Nat /\ writes[w].step \in Nat
                                 /\ writes[w].kind \in Kinds /\ writes[w].id \in Identities
<1>1. \A e \in cache : e.key \in Keys /\ e.rev \in Nat
  BY DEF TypeOK, Entries
<1>2. \A r \in Readers : /\ reads[r].rev \in Nat /\ reads[r].floor \in Nat
                        /\ Key(reads[r].id, reads[r].doc) \in Keys
  BY DEF TypeOK, ReadCalls, Key, Keys
<1>3. \A w \in Writers : /\ writes[w].rev \in Nat /\ writes[w].step \in Nat
                        /\ writes[w].kind \in Kinds /\ writes[w].id \in Identities
  BY DEF TypeOK, WriteCalls
<1> QED BY <1>1, <1>2, <1>3 DEF TypeOK

(* Quiet steps that store nothing disturb no claim. *)
LEMMA QuietSeen ==
    ASSUME TypeOK, WriteInv, UNCHANGED <<config, floor>>,
           Len(log') \in Nat, Len(log') >= Len(log), cache' \subseteq cache,
           \A q \in Readers : Quiet(q)
    PROVE  /\ FloorSeen'
           /\ \A e \in cache' : EntrySeen(e)'
           /\ \A r \in Readers : ReadSeen(r)'
           /\ \A w \in Writers : writes'[w] = writes[w] => WriteSeen(w)'
<1>1. FloorSeen'
  BY SeenNumbers DEF WriteInv, FloorSeen
<1>2. \A e \in cache' : EntrySeen(e)'
  BY DEF WriteInv, EntrySeen
<1>3. ASSUME NEW r \in Readers PROVE ReadSeen(r)'
  BY DEF WriteInv, ReadSeen, Quiet, InFlight
<1>4. ASSUME NEW w \in Writers, writes'[w] = writes[w] PROVE WriteSeen(w)'
  <2>1. PurgedSoFar(w)' = PurgedSoFar(w)
    BY <1>4 DEF PurgedSoFar
  <2>2. WriteSeen(w)
    BY DEF WriteInv
  <2>3. ASSUME NEW r \in Readers, reads'[r].pc \in InFlight, ~reads'[r].late
        PROVE  /\ reads[r].pc \in InFlight /\ ~reads[r].late
               /\ reads'[r].id = reads[r].id /\ reads'[r].doc = reads[r].doc
               /\ reads'[r].rev = reads[r].rev
    BY <2>3 DEF Quiet, InFlight
  <2>4. writes[w].pc \in {"transit", "purge"} => writes[w].rev <= Len(log')
    BY <2>2, SeenNumbers DEF WriteSeen
  <2> QED BY <1>4, <2>1, <2>2, <2>3, <2>4 DEF WriteSeen
<1> QED BY <1>1, <1>2, <1>3, <1>4
-----------------

(* Every step of a read call keeps the claims. *)
LEMMA SeenReadStep ==
    ASSUME TypeOK, WriteInv, NEW r \in Readers, ReadStep(r) PROVE WriteInv'
<1>0. /\ reads \in [Readers -> ReadCalls] /\ reads[r] \in ReadCalls
      /\ UNCHANGED <<log, config, writes, floor>>
      /\ Len(log) \in Nat /\ Len(log') >= Len(log)
  <2>1. /\ reads \in [Readers -> ReadCalls] /\ reads[r] \in ReadCalls
        /\ Len(log) \in Nat
    BY DEF TypeOK
  <2>2. UNCHANGED <<log, config, writes, floor>>
    BY DEF ReadStep, LookupHit, LookupMiss, UpstreamAnswers, UpstreamFails,
           ReceiveUncached, Receive, Store, StoreFails, FallBack, GiveUp
  <2> QED BY <2>1, <2>2
<1>1. ASSUME NEW q \in Readers, q # r PROVE reads'[q] = reads[q] /\ Quiet(q)
  <2>1. reads'[q] = reads[q]
    BY <1>0, <1>1 DEF ReadStep, LookupHit, LookupMiss, UpstreamAnswers, UpstreamFails,
         ReceiveUncached, Receive, Store, StoreFails, FallBack, GiveUp, Serve, Return
  <2> QED BY <2>1 DEF Quiet
<1>2. ASSUME cache' = cache, Quiet(r) PROVE WriteInv'
  <2>1. \A q \in Readers : Quiet(q)
    BY <1>1, <1>2
  <2> QED BY <1>0, <1>2, <2>1, QuietSeen DEF WriteInv
<1>3. CASE LookupHit(r)
  <2>1. PICK e \in Get(Key(reads[r].id, reads[r].doc)) : Serve(r, e, "hit")
    BY <1>3 DEF LookupHit
  <2>2. /\ reads'[r].pc = "hit" /\ reads'[r].rev = e.rev /\ reads'[r].late = e.late
        /\ reads'[r].floor = reads[r].floor /\ cache' = cache
    BY <1>0, <1>3, <2>1 DEF LookupHit, Serve, ReadCalls
  <2>3. e \in cache /\ e.key = Key(reads[r].id, reads[r].doc) /\ EntrySeen(e)
    BY <2>1 DEF Get, WriteInv
  <2>4. reads[r].floor <= floor[e.key]
    BY <1>3, <2>3 DEF LookupHit, WriteInv, ReadSeen
  <2>5. ~e.late => e.rev >= reads[r].floor
    BY <2>3, <2>4, SeenNumbers DEF EntrySeen
  <2>6. ReadSeen(r)'
    BY <2>2, <2>5 DEF ReadSeen, InFlight
  <2>7. ASSUME NEW q \in Readers, q # r PROVE ReadSeen(q)'
    BY <1>0, <1>1, <2>7 DEF WriteInv, ReadSeen
  <2>8. ASSUME NEW w \in Writers PROVE WriteSeen(w)'
    <3>1. ASSUME NEW q \in Readers, reads'[q].pc \in InFlight PROVE reads'[q] = reads[q]
      BY <1>1, <2>2, <3>1 DEF InFlight
    <3>2. WriteSeen(w) /\ writes' = writes /\ PurgedSoFar(w)' = PurgedSoFar(w)
      BY <1>0 DEF WriteInv, PurgedSoFar
    <3> QED BY <1>0, <2>2, <3>1, <3>2 DEF WriteSeen
  <2> QED BY <1>0, <2>2, <2>6, <2>7, <2>8 DEF WriteInv, FloorSeen, EntrySeen
<1>4. CASE UpstreamAnswers(r)
  <2>1. /\ reads'[r].pc = "transit" /\ reads'[r].rev = Len(log)
        /\ reads'[r].id = reads[r].id /\ reads'[r].doc = reads[r].doc /\ cache' = cache
    BY <1>0, <1>4 DEF UpstreamAnswers, ReadCalls
  <2>2. ReadSeen(r)'
    BY <1>0, <2>1, SeenNumbers DEF WriteInv, FloorSeen, ReadSeen
  <2>3. ASSUME NEW q \in Readers, q # r PROVE ReadSeen(q)'
    BY <1>0, <1>1, <2>3 DEF WriteInv, ReadSeen
  <2>4. ASSUME NEW w \in Writers PROVE WriteSeen(w)'
    <3>1. WriteSeen(w) /\ writes' = writes /\ PurgedSoFar(w)' = PurgedSoFar(w)
      BY <1>0 DEF WriteInv, PurgedSoFar
    <3>2. writes[w].pc = "purge" => reads'[r].rev >= writes[w].rev
      BY <1>0, <2>1, <3>1, SeenNumbers DEF WriteSeen
    <3> QED BY <1>0, <1>1, <2>1, <3>1, <3>2 DEF WriteSeen
  <2> QED BY <1>0, <2>1, <2>2, <2>3, <2>4 DEF WriteInv, FloorSeen, EntrySeen
<1>5. CASE LookupMiss(r)
  <2>1. reads'[r].pc \in {"miss", "send"} /\ cache' = cache
    BY <1>0, <1>5 DEF LookupMiss, ReadCalls
  <2> QED BY <1>2, <2>1 DEF Quiet, InFlight
<1>6. CASE \E f \in Faults : UpstreamFails(r, f)
  <2>1. reads'[r].pc = "failed" /\ cache' = cache
    BY <1>0, <1>6 DEF UpstreamFails, NoRead
  <2> QED BY <1>2, <2>1 DEF Quiet, InFlight
<1>7. CASE ReceiveUncached(r) \/ StoreFails(r) \/ GiveUp(r)
  <2>1. reads'[r].pc \in {"fresh", "error"} /\ cache' = cache
    BY <1>0, <1>7 DEF ReceiveUncached, StoreFails, GiveUp, Return, NoRead
  <2> QED BY <1>2, <2>1 DEF Quiet, InFlight
<1>8. CASE Receive(r)
  <2>1. /\ {reads[r].pc, reads'[r].pc} \subseteq InFlight /\ cache' = cache
        /\ reads'[r].id = reads[r].id /\ reads'[r].doc = reads[r].doc
        /\ reads'[r].rev = reads[r].rev /\ reads'[r].floor = reads[r].floor
        /\ reads'[r].late = reads[r].late
    BY <1>0, <1>8 DEF Receive, ReadCalls, InFlight
  <2> QED BY <1>2, <2>1 DEF Quiet
<1>9. CASE FallBack(r)
  <2>1. reads'[r].pc = "stale" /\ cache' = cache
    BY <1>0, <1>9 DEF FallBack, Serve, ReadCalls
  <2> QED BY <1>2, <2>1 DEF Quiet, InFlight
<1>10. CASE Store(r)
  <2> DEFINE new == NewEntry(reads[r], reads[r].stored)
  <2>1. /\ new.key = Key(reads[r].id, reads[r].doc)
        /\ new.rev = reads[r].rev /\ new.late = reads[r].late
    BY DEF NewEntry
  <2>2. \A e \in cache' : e \in cache \/ e = new
    BY <1>10 DEF Store, Put
  <2>3. reads[r].pc \in InFlight /\ reads'[r].pc = "fresh"
    BY <1>0, <1>10 DEF Store, Return, NoRead, InFlight
  <2>4. EntrySeen(new)
    BY <2>1, <2>3 DEF WriteInv, ReadSeen, EntrySeen
  <2>5. \A e \in cache' : EntrySeen(e)'
    BY <1>0, <2>2, <2>4 DEF WriteInv, EntrySeen
  <2>6. \A q \in Readers : ReadSeen(q)'
    BY <1>0, <1>1, <2>3 DEF WriteInv, ReadSeen, InFlight
  <2>7. ASSUME NEW w \in Writers PROVE WriteSeen(w)'
    <3>1. WriteSeen(w) /\ writes' = writes /\ PurgedSoFar(w)' = PurgedSoFar(w)
      BY <1>0 DEF WriteInv, PurgedSoFar
    <3>2. ASSUME NEW q \in Readers, reads'[q].pc \in InFlight PROVE reads'[q] = reads[q]
      BY <1>1, <2>3, <3>2 DEF InFlight
    <3>3. ASSUME writes[w].pc = "purge", config.enabled, ~writes[w].lost, NEW k \in PurgedSoFar(w),
                 new.key = k, ~new.late
          PROVE  new.rev >= writes[w].rev
      BY <2>1, <2>3, <3>1, <3>3 DEF WriteSeen
    <3> HIDE DEF new
    <3> QED BY <1>0, <2>2, <3>1, <3>2, <3>3 DEF WriteSeen
  <2> QED BY <1>0, <2>5, <2>6, <2>7 DEF WriteInv, FloorSeen
<1> QED BY <1>3, <1>4, <1>5, <1>6, <1>7, <1>8, <1>9, <1>10 DEF ReadStep
-----------------

(* After one InvalidatePath its scope makes no claim, and older scopes keep *)
(* theirs.                                                                  *)
LEMMA SeenInvalidatePath ==
    ASSUME TypeOK, WriteInv, NEW w \in Writers, InvalidatePath(w) PROVE WriteInv'
<1> DEFINE n     == writes[w].step + 1
           scope == PurgeScope(writes[w].id, writes[w].kind, n)
<1>1. /\ UNCHANGED <<log, config, floor>> /\ writes[w].pc = "purge"
      /\ cache' = IF config.enabled THEN DeletePrefix(scope) ELSE cache
      /\ n \in DOMAIN Purges[writes[w].kind]
  BY DEF InvalidatePath
<1>2. cache' \subseteq cache
  BY <1>1 DEF DeletePrefix
<1>3. ASSUME NEW q \in Readers
      PROVE  /\ Quiet(q) /\ reads'[q].pc = reads[q].pc
             /\ reads'[q].id = reads[q].id /\ reads'[q].doc = reads[q].doc
             /\ (reads[q].pc \in InFlight /\ Key(reads[q].id, reads[q].doc) \in scope) =>
                   reads'[q].late
  <2>1. reads[q] \in ReadCalls
    BY DEF TypeOK
  <2>2. reads'[q] = IF reads[q].pc \in InFlight /\ Key(reads[q].id, reads[q].doc) \in scope
                    THEN [reads[q] EXCEPT !.late = TRUE] ELSE reads[q]
    BY DEF InvalidatePath
  <2>3. [reads[q] EXCEPT !.late = TRUE].late
    BY <2>1 DEF ReadCalls
  <2>4. reads'[q] \in {reads[q], [reads[q] EXCEPT !.late = TRUE]}
    BY <2>2
  <2>5. /\ reads'[q].pc = reads[q].pc /\ reads'[q].id = reads[q].id
        /\ reads'[q].doc = reads[q].doc /\ reads'[q].rev = reads[q].rev
        /\ reads'[q].floor = reads[q].floor /\ ~reads'[q].late => ~reads[q].late
    BY <2>1, <2>3, <2>4 DEF ReadCalls
  <2> QED BY <2>2, <2>3, <2>5 DEF Quiet
<1>4. Len(log') \in Nat /\ Len(log') >= Len(log)
  BY <1>1 DEF TypeOK
<1>5. ASSUME NEW v \in Writers, v # w PROVE writes'[v] = writes[v]
  BY <1>5 DEF TypeOK, InvalidatePath
<1>6. /\ writes'[w].step = n /\ writes'[w].pc = "purge" /\ writes'[w].id = writes[w].id
      /\ writes'[w].kind = writes[w].kind /\ writes'[w].rev = writes[w].rev
      /\ writes'[w].lost = writes[w].lost
  BY DEF TypeOK, InvalidatePath, WriteCalls
<1>7. WriteSeen(w)'
  <2>1. writes[w].step \in Nat /\ \A m \in DOMAIN Purges[writes[w].kind] : m \in Nat
    <3>1. writes[w].step \in Nat /\ Purges[writes[w].kind] \in Seq(SUBSET Docs)
      BY SeenNumbers, ResponseCacheAssumption
    <3> QED BY <3>1, SeqElement
  <2>2. \A m \in DOMAIN Purges[writes[w].kind] : m <= n => m = n \/ m <= writes[w].step
    BY <2>1
  <2>3. PurgedSoFar(w)' \subseteq PurgedSoFar(w) \union scope
    BY <1>6, <2>2 DEF PurgedSoFar
  <2>4. WriteSeen(w)
    BY DEF WriteInv
  <2>5. ASSUME config.enabled, NEW k \in scope, NEW e \in cache' PROVE e.key # k
    BY <1>1, <2>5 DEF DeletePrefix
  <2>6. ASSUME NEW k \in scope, NEW q \in Readers, reads'[q].pc \in InFlight, ~reads'[q].late
        PROVE  Key(reads'[q].id, reads'[q].doc) # k
    BY <1>3, <2>6
  <2>7. ASSUME NEW q \in Readers, reads'[q].pc \in InFlight, ~reads'[q].late
        PROVE  ~reads[q].late /\ reads'[q].rev = reads[q].rev
    BY <1>3, <2>7 DEF Quiet, InFlight
  <2>8. ASSUME config.enabled, ~writes[w].lost, NEW k \in PurgedSoFar(w)'
        PROVE  /\ \A e \in cache' : (e.key = k /\ ~e.late) => e.rev >= writes[w].rev
               /\ \A r \in Readers :
                     (/\ reads'[r].pc \in InFlight /\ ~reads'[r].late
                      /\ Key(reads'[r].id, reads'[r].doc) = k) => reads'[r].rev >= writes[w].rev
    <3>1. CASE k \in scope
      BY <2>5, <2>6, <2>8, <3>1
    <3>2. CASE k \in PurgedSoFar(w)
      <4> HIDE DEF scope
      <4> QED BY <1>1, <1>2, <1>3, <2>4, <2>7, <2>8, <3>2 DEF WriteSeen
    <3> HIDE DEF scope
    <3> QED BY <2>3, <2>8, <3>1, <3>2
  <2>9. writes[w].rev <= Len(log)
    BY <1>1, <2>4 DEF WriteSeen
  <2>10. /\ writes'[w].pc = "purge" /\ writes'[w].rev = writes[w].rev
         /\ writes'[w].lost = writes[w].lost /\ config' = config /\ log' = log
    BY <1>1, <1>6
  <2> HIDE DEF scope, n
  <2> QED BY <2>8, <2>9, <2>10 DEF WriteSeen
<1>8. /\ FloorSeen'
      /\ \A e \in cache' : EntrySeen(e)'
      /\ \A r \in Readers : ReadSeen(r)'
      /\ \A v \in Writers : writes'[v] = writes[v] => WriteSeen(v)'
  BY <1>1, <1>2, <1>3, <1>4, QuietSeen
<1> QED BY <1>5, <1>7, <1>8 DEF WriteInv

(* When the last invalidation is done, its claims hold for the new floor. *)
LEMMA SeenEndWrite ==
    ASSUME TypeOK, WriteInv, NEW w \in Writers, EndWrite(w) PROVE WriteInv'
<1> DEFINE scope == Purged(writes[w].id, writes[w].kind)
<1>1. /\ UNCHANGED <<log, config, cache, reads>> /\ writes[w].pc = "purge"
      /\ writes' = [writes EXCEPT ![w] = NoWrite]
      /\ writes[w].step + 1 \notin DOMAIN Purges[writes[w].kind]
  BY DEF EndWrite
<1>2. scope = PurgedSoFar(w)
  <2>1. writes[w].step \in Nat /\ Purges[writes[w].kind] \in Seq(SUBSET Docs)
    BY SeenNumbers, ResponseCacheAssumption
  <2>2. \A m \in DOMAIN Purges[writes[w].kind] : m <= writes[w].step
    BY <1>1, <2>1
  <2> QED BY <2>2 DEF Purged, PurgedSoFar, PurgeScope
<1>3. ASSUME NEW k \in Keys
      PROVE  \/ floor'[k] = floor[k]
             \/ /\ config.enabled /\ ~writes[w].lost /\ k \in PurgedSoFar(w)
                /\ floor'[k] = writes[w].rev /\ floor[k] < writes[w].rev
  BY <1>2 DEF EndWrite
<1>4. WriteSeen(w)
  BY DEF WriteInv
<1>5. FloorSeen'
  BY <1>1, <1>3, <1>4 DEF WriteInv, FloorSeen, WriteSeen
<1>6. ASSUME NEW e \in cache PROVE EntrySeen(e)'
  <2>1. EntrySeen(e) /\ e.key \in Keys
    BY SeenNumbers DEF WriteInv
  <2> QED BY <1>1, <1>3, <1>4, <2>1 DEF EntrySeen, WriteSeen
<1>7. ASSUME NEW r \in Readers PROVE ReadSeen(r)'
  <2> DEFINE k == Key(reads[r].id, reads[r].doc)
  <2>1. ReadSeen(r) /\ k \in Keys /\ floor[k] \in Nat /\ reads[r].floor \in Nat
        /\ writes[w].rev \in Nat
    BY SeenNumbers DEF WriteInv
  <2>2. reads[r].pc = "lookup" => reads[r].floor <= floor'[k]
    BY <1>3, <2>1 DEF ReadSeen
  <2>3. (reads[r].pc \in InFlight /\ ~reads[r].late) => reads[r].rev >= floor'[k]
    BY <1>1, <1>3, <1>4, <2>1 DEF ReadSeen, WriteSeen
  <2> QED BY <1>1, <2>1, <2>2, <2>3 DEF ReadSeen
<1>8. ASSUME NEW v \in Writers PROVE WriteSeen(v)'
  <2>1. CASE v = w
    BY <1>1, <2>1 DEF TypeOK, WriteSeen, NoWrite
  <2>2. CASE v # w
    <3>1. writes'[v] = writes[v]
      BY <1>1, <2>2 DEF TypeOK
    <3> QED BY <1>1, <3>1 DEF WriteInv, WriteSeen, PurgedSoFar
  <2> QED BY <2>1, <2>2
<1> QED BY <1>1, <1>5, <1>6, <1>7, <1>8 DEF WriteInv

(* Every step keeps the claims. *)
LEMMA SeenStep == TypeOK /\ WriteInv /\ [Next]_vars => WriteInv'
<1> SUFFICES ASSUME TypeOK, WriteInv, [Next]_vars PROVE WriteInv'
  OBVIOUS
<1>0. Len(log) \in Nat /\ Len(log) >= Len(log) /\ \A q \in Readers : reads' = reads => Quiet(q)
  BY DEF TypeOK, Quiet
<1>1. ASSUME UNCHANGED <<log, config, floor, writes>>, cache' \subseteq cache,
             \A q \in Readers : Quiet(q)
      PROVE  WriteInv'
  BY <1>0, <1>1, QuietSeen DEF WriteInv
<1>2. ASSUME NEW r \in Readers, NEW i \in Identities, NEW d \in Docs, NEW m \in Modes,
             BeginRead(r, i, d, m)
      PROVE  WriteInv'
  <2>1. UNCHANGED <<log, config, cache, writes, floor>>
    BY <1>2 DEF BeginRead
  <2>2. ASSUME NEW q \in Readers, q # r PROVE reads'[q] = reads[q]
    BY <1>2, <2>2 DEF TypeOK, BeginRead
  <2>3. \/ reads'[r].pc = "send"
        \/ /\ reads'[r].pc = "lookup" /\ reads'[r].id = i /\ reads'[r].doc = d
           /\ reads'[r].floor = floor[Key(i, d)]
    BY <1>2 DEF TypeOK, BeginRead, NoRead
  <2>4. floor[Key(i, d)] \in Nat
    BY DEF TypeOK, Key, Keys
  <2>5. ReadSeen(r)' /\ reads'[r].pc \notin InFlight
    BY <2>1, <2>3, <2>4 DEF ReadSeen, InFlight
  <2>6. ASSUME NEW w \in Writers PROVE WriteSeen(w)'
    BY <2>1, <2>2, <2>5 DEF WriteInv, WriteSeen, PurgedSoFar
  <2>7. ASSUME NEW q \in Readers PROVE ReadSeen(q)'
    BY <2>1, <2>2, <2>5 DEF WriteInv, ReadSeen
  <2> QED BY <2>1, <2>6, <2>7 DEF WriteInv, FloorSeen, EntrySeen
<1>3. ASSUME NEW r \in Readers, EndRead(r) PROVE WriteInv'
  <2>1. UNCHANGED <<log, config, cache, writes, floor>> /\ reads'[r].pc = "idle"
    BY <1>3 DEF TypeOK, EndRead, NoRead
  <2>2. ASSUME NEW q \in Readers, q # r PROVE reads'[q] = reads[q]
    BY <1>3, <2>2 DEF TypeOK, EndRead
  <2> QED BY <1>1, <2>1, <2>2 DEF Quiet, InFlight
<1>4. ASSUME NEW w \in Writers, UNCHANGED <<config, cache, reads, floor>>,
             Len(log') \in Nat, Len(log') >= Len(log), WriteSeen(w)',
             \A v \in Writers : v # w => writes'[v] = writes[v]
      PROVE  WriteInv'
  BY <1>0, <1>4, QuietSeen DEF WriteInv
<1>5. ASSUME NEW w \in Writers, NEW i \in Identities, NEW k \in Kinds, BeginWrite(w, i, k)
      PROVE  WriteInv'
  <2>1. writes'[w].pc = "send" /\ writes'[w].step = 0
    BY <1>5 DEF TypeOK, BeginWrite, NoWrite
  <2>2. WriteSeen(w)'
    BY <2>1 DEF WriteSeen
  <2>3. \A v \in Writers : v # w => writes'[v] = writes[v]
    BY <1>5 DEF TypeOK, BeginWrite
  <2> QED BY <1>0, <1>4, <1>5, <2>2, <2>3 DEF BeginWrite
<1>6. ASSUME NEW w \in Writers, WriteStep(w) PROVE WriteInv'
  <2>0. writes[w] \in WriteCalls /\ WriteSeen(w)
    BY DEF TypeOK, WriteInv
  <2>1. CASE UpstreamAccepts(w)
    <3>1. Len(log') = Len(log) + 1
      BY <2>1 DEF TypeOK, UpstreamAccepts
    <3>2. writes'[w].pc = "transit" /\ writes'[w].step = writes[w].step
          /\ writes'[w].rev = Len(log) + 1
      BY <2>0, <2>1 DEF TypeOK, UpstreamAccepts, WriteCalls
    <3>3. WriteSeen(w)'
      BY <1>0, <2>0, <2>1, <3>1, <3>2 DEF UpstreamAccepts, WriteSeen
    <3>4. \A v \in Writers : v # w => writes'[v] = writes[v]
      BY <2>1 DEF TypeOK, UpstreamAccepts
    <3> QED BY <1>0, <1>4, <2>1, <3>1, <3>3, <3>4 DEF UpstreamAccepts
  <2>2. CASE WriteFails(w)
    <3>1. writes'[w].pc = "idle"
      BY <2>2 DEF TypeOK, WriteFails, NoWrite
    <3>2. WriteSeen(w)'
      BY <3>1 DEF WriteSeen
    <3>3. \A v \in Writers : v # w => writes'[v] = writes[v]
      BY <2>2 DEF TypeOK, WriteFails
    <3> QED BY <1>0, <1>4, <2>2, <3>2, <3>3 DEF WriteFails
  <2>3. CASE WriteAnswered(w)
    <3>1. /\ writes'[w].pc = "purge" /\ writes'[w].step = 0 /\ writes'[w].kind = writes[w].kind
          /\ writes'[w].rev = writes[w].rev /\ writes'[w].rev <= Len(log)
      BY <2>0, <2>3 DEF TypeOK, WriteAnswered, WriteCalls, WriteSeen
    <3>2. PurgedSoFar(w)' = {}
      <4>1. writes[w].kind \in Kinds /\ Purges[writes[w].kind] \in Seq(SUBSET Docs)
        BY SeenNumbers, ResponseCacheAssumption
      <4>2. \A m \in DOMAIN Purges[writes[w].kind] : ~(m <= 0)
        BY <4>1
      <4> QED BY <3>1, <4>2 DEF PurgedSoFar
    <3>3. WriteSeen(w)'
      BY <2>3, <3>1, <3>2 DEF WriteAnswered, WriteSeen
    <3>4. \A v \in Writers : v # w => writes'[v] = writes[v]
      BY <2>3 DEF TypeOK, WriteAnswered
    <3> QED BY <1>0, <1>4, <2>3, <3>3, <3>4 DEF WriteAnswered
  <2>4. CASE InvalidateFails(w)
    <3>1. /\ writes'[w].pc = "purge" /\ writes'[w].lost /\ writes'[w].rev = writes[w].rev
          /\ writes[w].rev <= Len(log)
      BY <2>0, <2>4 DEF TypeOK, InvalidateFails, WriteCalls, WriteSeen
    <3>2. WriteSeen(w)'
      BY <2>4, <3>1 DEF InvalidateFails, WriteSeen
    <3>3. \A v \in Writers : v # w => writes'[v] = writes[v]
      BY <2>4 DEF TypeOK, InvalidateFails
    <3> QED BY <1>0, <1>4, <2>4, <3>2, <3>3 DEF InvalidateFails
  <2> QED BY <1>6, <2>1, <2>2, <2>3, <2>4, SeenInvalidatePath, SeenEndWrite DEF WriteStep
<1>7. ASSUME NEW scope \in AdminScopes, AdminInvalidate(scope) PROVE WriteInv'
  BY <1>0, <1>1, <1>7 DEF AdminInvalidate, DeletePrefix
<1>8. CASE AdminClear
  BY <1>0, <1>1, <1>8 DEF AdminClear
<1>9. ASSUME NEW d \in Docs, OthersChange(d) PROVE WriteInv'
  <2>1. Len(log') = Len(log) + 1
    BY <1>9 DEF TypeOK, OthersChange
  <2> QED BY <1>0, <1>9, <2>1, QuietSeen DEF OthersChange, WriteInv
<1>10. CASE Tick
  BY <1>0, <1>1, <1>10 DEF Tick
<1>11. CASE Restart
  <2>1. /\ UNCHANGED <<log, cache, floor>>
        /\ \A q \in Readers : reads'[q].pc = "idle"
        /\ \A w \in Writers : writes'[w].pc = "idle"
    BY <1>11 DEF Restart, NoRead, NoWrite
  <2> QED BY <2>1 DEF WriteInv, FloorSeen, EntrySeen, ReadSeen, WriteSeen, InFlight
<1>12. CASE UNCHANGED vars
  BY <1>0, <1>1, <1>12 DEF vars
<1> QED
  BY <1>2, <1>3, <1>5, <1>6, <1>7, <1>8, <1>9, <1>10, <1>11, <1>12, SeenReadStep DEF Next

(* However reads, the steps of invalidations and restarts interleave, a hit *)
(* shows every write completed and invalidated before the call began,       *)
(* unless its body was under way during that invalidation.                  *)
THEOREM WritesAreSeen == Spec => []ReadYourWrites
<1>1. Init => WriteInv
  BY DEF Init, NoRead, NoWrite, WriteInv, FloorSeen, ReadSeen, WriteSeen, InFlight
<1>2. WriteInv => ReadYourWrites
  BY DEF WriteInv, ReadSeen, ReadYourWrites
<1> QED BY <1>1, <1>2, SeenStep, Typing, PTL DEF Spec
============================================================================
