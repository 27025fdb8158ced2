------------------------- MODULE BatchCreateProofs -------------------------
(***************************************************************************)
(* Proofs about Lifecycle and BatchCreate: any number of calls, and        *)
(* batches of any length.                                                  *)
(***************************************************************************)
EXTENDS BatchCreate, FiniteSetTheorems, TLAPS

(* The steps that move the process, those of serving a call included. *)
LifeNext ==
    \/ LifeStep
    \/ LifeEvent
    \/ \E c \in Calls : Arrive(c) \/ Enter(c) \/ Leave(c)

(* Close comes once, after the transport has ended, and it overtakes every *)
(* call that is still in service; nobody is killed before the exit.  A     *)
(* quiet end of streamable-http finds nobody in service.                   *)
LifeInv ==
    /\ phase \notin {"closed", "exited"} => cut = {} /\ cache # "closed"
    /\ cache = "closed" => InService \subseteq cut
    /\ phase # "exited" => \A c \in Calls : inside[c] # "killed"
    /\ (phase \in {"closing", "closed", "exited"} /\ env.transport = "streamable-http"
           /\ outcome = "ok") => (InService = {} /\ cut = {})

(* Every step of the process keeps the types. *)
LEMMA LifeTypes ==
    ASSUME LifeTypeOK, LifeNext PROVE LifeTypeOK'
<1> USE DEF LifeTypeOK
<1>1. CASE LifeStep
  <2>1. CASE BeginOpen
    BY <2>1 DEF BeginOpen, InService
  <2>2. CASE EndOpen \/ OpenTimesOut
    BY <2>2 DEF EndOpen, OpenTimesOut
  <2>3. CASE ListenReturns \/ ShutdownReturns \/ ShutdownTimesOut
    BY <2>3 DEF ListenReturns, ShutdownReturns, ShutdownTimesOut, Ends
  <2>4. CASE BeginShutdown
    BY <2>4 DEF BeginShutdown
  <2>5. CASE CloseCache
    BY <2>5 DEF CloseCache, InService
  <2>6. CASE Exit
    BY <2>6 DEF Exit
  <2> QED BY <1>1, <2>1, <2>2, <2>3, <2>4, <2>5, <2>6 DEF LifeStep
<1>2. CASE LifeEvent
  BY <1>2 DEF LifeEvent, Signal, StartFails, ListenFails, ListenReturns, Ends
<1>3. ASSUME NEW c \in Calls, Arrive(c) \/ Enter(c) \/ Leave(c) PROVE LifeTypeOK'
  BY <1>3 DEF Arrive, Enter, Leave
<1> QED BY <1>1, <1>2, <1>3 DEF LifeNext

(* Every step of the process keeps LifeInv. *)
LEMMA LifeInvariant ==
    ASSUME LifeTypeOK, LifeInv, LifeNext PROVE LifeInv'
<1> USE DEF LifeInv, InService
<1>1. CASE LifeStep
  <2>1. CASE BeginOpen \/ EndOpen \/ OpenTimesOut
    BY <2>1 DEF BeginOpen, EndOpen, OpenTimesOut
  <2>2. CASE ListenReturns
    BY <2>2 DEF ListenReturns, Ends
  <2>3. CASE ShutdownReturns
    BY <2>3 DEF ShutdownReturns, Ends
  <2>4. CASE ShutdownTimesOut
    BY <2>4 DEF ShutdownTimesOut, Ends
  <2>5. CASE BeginShutdown
    BY <2>5 DEF BeginShutdown
  <2>6. CASE CloseCache
    BY <2>6 DEF CloseCache
  <2>7. CASE Exit
    BY <2>7 DEF Exit, LifeTypeOK
  <2> QED BY <1>1, <2>1, <2>2, <2>3, <2>4, <2>5, <2>6, <2>7 DEF LifeStep
<1>2. CASE LifeEvent
  BY <1>2 DEF LifeEvent, Signal, StartFails, ListenFails, ListenReturns, Ends
<1>3. ASSUME NEW c \in Calls, Arrive(c) PROVE LifeInv'
  BY <1>3 DEF Arrive, LifeTypeOK
<1>4. ASSUME NEW c \in Calls, Enter(c) \/ Leave(c) PROVE LifeInv'
  BY <1>4 DEF Enter, Leave, LifeTypeOK
<1> QED BY <1>1, <1>2, <1>3, <1>4 DEF LifeNext

(* Every step of the composition is one of the process or leaves it alone. *)
LEMMA NextIsLife == ASSUME Next PROVE LifeNext \/ UNCHANGED lifeVars
<1>0. Batches \subseteq Calls /\ Lists \subseteq Calls
  BY BatchAssumption
<1>1. ASSUME NEW b \in Batches, BatchStep(b) PROVE LifeNext \/ UNCHANGED lifeVars
  BY <1>0, <1>1 DEF BatchStep, BeginBatch, GiveUp, RefuseBlank, Post, Create, Answered,
                    PostFails, Purge, PurgeFails, EndBatch, Record, LifeNext
<1>2. ASSUME NEW r \in Lists, ListStep(r) PROVE LifeNext \/ UNCHANGED lifeVars
  BY <1>0, <1>2 DEF ListStep, BeginList, AnswerList, Store, ListFails, EndList, LifeNext
<1>3. ASSUME NEW b \in Batches, Cancel(b) PROVE UNCHANGED lifeVars
  BY <1>3 DEF Cancel
<1> QED BY <1>1, <1>2, <1>3 DEF Next, Work, LifeNext

----------------------------------------------------------------------------
(* The loop over the items. *)

(* What is true of a batch between two of its steps.  Inside the loop there *)
(* is room for another result, and with stop_on_error no failure yet;      *)
(* after it there is a result for every item, or it was stopped.  An item  *)
(* is upstream if its result says so, and only if there is one that does   *)
(* not say blank, or its answer is still to come.                          *)
Loop(b) ==
    LET results == batch[b].results
        pc      == batch[b].pc
    IN  /\ pc = "idle" => results = << >>
        /\ Len(results) <= Items
        /\ pc \in {"loop", "post", "created"} => Len(results) < Items
        /\ pc \in {"loop", "post", "created"} /\ batch[b].stop =>
               \A i \in DOMAIN results : Good(results[i])
        /\ batch[b].stop =>
               \A i \in DOMAIN results : i + 1 \in DOMAIN results => Good(results[i])
        /\ pc \in {"purge", "reply"} => Len(results) = Items \/ batch[b].stop
        /\ pc = "created" => <<b, Index(b)>> \in created
        /\ \A i \in GoodItems(b) : <<b, i>> \in created
        /\ \A i \in 1 .. Items : <<b, i>> \in created =>
               \/ i \in DOMAIN results /\ results[i] # "blank"
               \/ pc = "created" /\ i = Index(b)
        /\ batch[b].succeeded = Cardinality(GoodItems(b))
        /\ batch[b].failed = Cardinality(DOMAIN results \ GoodItems(b))

(* A batch that has begun has been let in, and it leaves after its loop.   *)
Where(b) ==
    /\ batch[b].pc # "idle" => inside[b] \in {"in", "left", "killed"}
    /\ batch[b].pc \in {"loop", "post", "created", "purge"} => inside[b] # "left"

BatchInv == \A b \in Batches : Loop(b) /\ Where(b)

(* The indices of the good ones of a sequence of results. *)
Goods(Q) == {i \in DOMAIN Q : Good(Q[i])}

(* S is R and one more result, x. *)
Grown(R, S, x) ==
    LET n == Len(R) + 1
    IN  /\ DOMAIN S = DOMAIN R \union {n}
        /\ n \notin DOMAIN R
        /\ S[n] = x
        /\ \A i \in DOMAIN R : S[i] = R[i]
        /\ Goods(S) = IF Good(x) THEN Goods(R) \union {n} ELSE Goods(R)
        /\ Cardinality(Goods(S)) = IF Good(x) THEN Cardinality(Goods(R)) + 1
                                   ELSE Cardinality(Goods(R))
        /\ Cardinality(DOMAIN S \ Goods(S))
               = IF Good(x) THEN Cardinality(DOMAIN R \ Goods(R))
                 ELSE Cardinality(DOMAIN R \ Goods(R)) + 1

(* One more result: the good items, and how many there are. *)
LEMMA OneMore ==
    ASSUME NEW R \in Seq(Results), NEW x \in Results
    PROVE  Grown(R, Append(R, x), x)
<1> DEFINE S == Append(R, x)
           n == Len(R) + 1
<1>1. /\ DOMAIN R = 1 .. Len(R)
      /\ Len(R) \in Nat
      /\ DOMAIN S = 1 .. n
      /\ S[n] = x
      /\ \A i \in DOMAIN R : S[i] = R[i]
  OBVIOUS
<1>2. DOMAIN S = DOMAIN R \union {n} /\ n \notin DOMAIN R
  BY <1>1
<1>3. Goods(S) = IF Good(x) THEN Goods(R) \union {n} ELSE Goods(R)
  BY <1>1, <1>2 DEF Goods
<1>4. IsFiniteSet(DOMAIN R)
  BY <1>1, FS_Interval
<1>5. IsFiniteSet(Goods(R)) /\ IsFiniteSet(DOMAIN R \ Goods(R))
  BY <1>4, FS_Subset DEF Goods
<1>6. n \notin Goods(R) /\ n \notin DOMAIN R \ Goods(R)
  BY <1>2 DEF Goods
<1>7. Cardinality(Goods(S)) = IF Good(x) THEN Cardinality(Goods(R)) + 1
                              ELSE Cardinality(Goods(R))
  BY <1>3, <1>5, <1>6, FS_AddElement
<1>8. DOMAIN S \ Goods(S) = IF Good(x) THEN DOMAIN R \ Goods(R)
                            ELSE (DOMAIN R \ Goods(R)) \union {n}
  BY <1>2, <1>3, <1>6
<1>9. Cardinality(DOMAIN S \ Goods(S))
         = IF Good(x) THEN Cardinality(DOMAIN R \ Goods(R))
           ELSE Cardinality(DOMAIN R \ Goods(R)) + 1
  BY <1>5, <1>6, <1>8, FS_AddElement
<1> HIDE DEF S, n
<1>10. S = Append(R, x) /\ n = Len(R) + 1
  BY DEF S, n
<1> QED BY <1>1, <1>2, <1>3, <1>7, <1>9, <1>10 DEF Grown

(* The result of an item keeps a batch well formed. *)
LEMMA RecordType ==
    ASSUME NEW b \in Batches, NEW result \in Results, batch \in [Batches -> BatchCalls],
           Record(b, result)
    PROVE  /\ batch' \in [Batches -> BatchCalls]
           /\ batch'[b].pc = AfterItem(b, result)
           /\ batch'[b].stop = batch[b].stop
           /\ batch'[b].results = Append(batch[b].results, result)
           /\ batch'[b].succeeded
                  = IF Good(result) THEN batch[b].succeeded + 1 ELSE batch[b].succeeded
           /\ batch'[b].failed
                  = IF Good(result) THEN batch[b].failed ELSE batch[b].failed + 1
<1>1. AfterItem(b, result) \in {"loop", "purge", "reply"}
  BY DEF AfterItem
<1>2. batch[b] \in BatchCalls
  OBVIOUS
<1>3. /\ Append(batch[b].results, result) \in Seq(Results)
      /\ (IF Good(result) THEN batch[b].succeeded + 1 ELSE batch[b].succeeded) \in Nat
      /\ (IF Good(result) THEN batch[b].failed ELSE batch[b].failed + 1) \in Nat
  BY <1>2 DEF BatchCalls
<1> DEFINE next == [batch[b] EXCEPT !.pc = AfterItem(b, result),
                       !.results = Append(@, result),
                       !.succeeded = IF Good(result) THEN @ + 1 ELSE @,
                       !.failed = IF Good(result) THEN @ ELSE @ + 1]
<1>4. /\ next \in BatchCalls
      /\ next.pc = AfterItem(b, result)
      /\ next.stop = batch[b].stop
      /\ next.results = Append(batch[b].results, result)
      /\ next.succeeded = IF Good(result) THEN batch[b].succeeded + 1 ELSE batch[b].succeeded
      /\ next.failed = IF Good(result) THEN batch[b].failed ELSE batch[b].failed + 1
  BY <1>1, <1>2, <1>3 DEF BatchCalls
<1>5. batch' = [batch EXCEPT ![b] = next]
  BY DEF Record
<1> HIDE DEF next
<1>6. batch' \in [Batches -> BatchCalls] /\ batch'[b] = next
  BY <1>4, <1>5
<1> QED BY <1>4, <1>6

(* The result of an item keeps Loop, if it is true of the upstream. *)
LEMMA RecordLoop ==
    ASSUME TypeOK, NEW b \in Batches, NEW result \in Results, Loop(b), Record(b, result),
           batch[b].pc \in {"loop", "post", "created"},
           Good(result) => batch[b].pc = "created",
           result = "blank" => batch[b].pc = "loop"
    PROVE  Loop(b)'
<1> DEFINE R == batch[b].results
           S == batch'[b].results
           n == Len(R) + 1
<1>1. R \in Seq(Results) /\ batch[b].stop \in BOOLEAN /\ created' = created
  BY DEF TypeOK, BatchCalls, Record
<1>2. /\ S = Append(R, result)
      /\ batch'[b].pc = AfterItem(b, result)
      /\ batch'[b].stop = batch[b].stop
      /\ batch'[b].succeeded
             = IF Good(result) THEN batch[b].succeeded + 1 ELSE batch[b].succeeded
      /\ batch'[b].failed = IF Good(result) THEN batch[b].failed ELSE batch[b].failed + 1
  BY RecordType DEF TypeOK
<1>3. /\ Len(R) \in Nat
      /\ Len(S) = n
      /\ DOMAIN R = 1 .. Len(R)
      /\ DOMAIN S = 1 .. n
      /\ Items \in Nat
  BY <1>1, <1>2, BatchAssumption
<1>4. /\ DOMAIN S = DOMAIN R \union {n}
      /\ n \notin DOMAIN R
      /\ S[n] = result
      /\ \A i \in DOMAIN R : S[i] = R[i]
      /\ GoodItems(b)' = IF Good(result) THEN GoodItems(b) \union {n} ELSE GoodItems(b)
      /\ Cardinality(GoodItems(b)')
             = IF Good(result) THEN Cardinality(GoodItems(b)) + 1 ELSE Cardinality(GoodItems(b))
      /\ Cardinality(DOMAIN S \ GoodItems(b)')
             = IF Good(result) THEN Cardinality(DOMAIN R \ GoodItems(b))
               ELSE Cardinality(DOMAIN R \ GoodItems(b)) + 1
  <2>1. GoodItems(b) = Goods(R) /\ GoodItems(b)' = Goods(S)
    BY DEF GoodItems, Goods
  <2>2. Grown(R, S, result)
    BY <1>1, <1>2, OneMore
  <2> QED BY <2>1, <2>2 DEF Grown
<1>5. Len(R) < Items /\ Index(b) = n
  BY DEF Loop, Index
<1>6. \/ batch'[b].pc = "loop" /\ n < Items /\ (Good(result) \/ ~batch[b].stop)
      \/ batch'[b].pc \in {"purge", "reply"} /\ (n = Items \/ batch[b].stop)
  BY <1>2, <1>3, <1>5 DEF AfterItem
<1>7. batch[b].stop => \A i \in DOMAIN R : Good(R[i])
  BY DEF Loop
<1>8. Len(S) <= Items /\ (batch'[b].pc \in {"loop", "post", "created"} => Len(S) < Items)
  BY <1>3, <1>5, <1>6
<1>9. batch'[b].pc \in {"loop", "post", "created"} /\ batch'[b].stop =>
          \A i \in DOMAIN S : Good(S[i])
  BY <1>2, <1>4, <1>6, <1>7
<1>10. batch'[b].stop => \A i \in DOMAIN S : i + 1 \in DOMAIN S => Good(S[i])
  BY <1>2, <1>3, <1>4, <1>7
<1>11. batch'[b].pc \in {"purge", "reply"} => Len(S) = Items \/ batch'[b].stop
  BY <1>2, <1>3, <1>6
<1>12. \A i \in GoodItems(b)' : <<b, i>> \in created'
  BY <1>1, <1>4, <1>5 DEF Loop
<1>13. \A i \in 1 .. Items : <<b, i>> \in created' => i \in DOMAIN S /\ S[i] # "blank"
  <2> SUFFICES ASSUME NEW i \in 1 .. Items, <<b, i>> \in created
               PROVE  i \in DOMAIN S /\ S[i] # "blank"
    BY <1>1
  <2>1. \/ i \in DOMAIN R /\ R[i] # "blank"
        \/ batch[b].pc = "created" /\ i = n
    BY <1>5 DEF Loop
  <2> QED BY <1>4, <2>1
<1>14. /\ batch'[b].succeeded = Cardinality(GoodItems(b)')
       /\ batch'[b].failed = Cardinality(DOMAIN S \ GoodItems(b)')
  BY <1>2, <1>4 DEF Loop
<1>15. batch'[b].pc # "idle" /\ batch'[b].pc # "created"
  BY <1>6
<1> QED BY <1>8, <1>9, <1>10, <1>11, <1>12, <1>13, <1>14, <1>15 DEF Loop

----------------------------------------------------------------------------
(* Types. *)

(* What is not of the process keeps its types in every step of a batch. *)
LEMMA TypeBatchStep ==
    ASSUME TypeOK, BatchInv, NEW b \in Batches, BatchStep(b) \/ Cancel(b)
    PROVE  /\ created' \subseteq (Batches \X (1 .. Items))
           /\ entry' \in Bodies
           /\ batch' \in [Batches -> BatchCalls]
           /\ list' \in [Lists -> ListCalls]
<1> USE DEF TypeOK, ListCalls
<1>0. batch[b] \in BatchCalls
  OBVIOUS
<1>1. ASSUME NEW stop \in BOOLEAN, BeginBatch(b, stop)
      PROVE  UNCHANGED <<created, entry, list>> /\ batch' \in [Batches -> BatchCalls]
  <2>1. [batch[b] EXCEPT !.pc = "loop", !.stop = stop] \in BatchCalls
    BY <1>0 DEF BatchCalls
  <2> QED BY <1>1, <2>1 DEF BeginBatch
<1>2. CASE GiveUp(b) \/ Post(b) \/ PurgeFails(b) \/ Cancel(b)
  <2>1. UNCHANGED <<created, entry, list>>
    BY <1>2 DEF GiveUp, Post, PurgeFails, Cancel
  <2>2. batch' \in [Batches -> BatchCalls]
    <3>1. /\ [batch[b] EXCEPT !.pc = "error"] \in BatchCalls
          /\ [batch[b] EXCEPT !.pc = "post"] \in BatchCalls
          /\ [batch[b] EXCEPT !.pc = "reply", !.lost = TRUE] \in BatchCalls
          /\ [batch[b] EXCEPT !.cancelled = TRUE] \in BatchCalls
      BY <1>0 DEF BatchCalls
    <3> QED BY <1>2, <3>1 DEF GiveUp, Post, PurgeFails, Cancel
  <2> QED BY <2>1, <2>2
<1>3. CASE RefuseBlank(b) \/ Answered(b) \/ PostFails(b)
  <2>1. PICK result \in Results : Record(b, result)
    BY <1>3 DEF RefuseBlank, Answered, PostFails, Results
  <2>2. batch' \in [Batches -> BatchCalls]
    BY <2>1, RecordType
  <2> QED BY <2>1, <2>2 DEF Record
<1>4. CASE Purge(b)
  <2>1. batch' \in [Batches -> BatchCalls] /\ created' = created
    BY <1>0, <1>4 DEF Purge, BatchCalls
  <2>2. entry' \in Bodies
    BY <1>4 DEF Purge, DeleteList, NoList, Bodies
  <2>3. ASSUME NEW r \in Lists
        PROVE  [list[r] EXCEPT !.body.late = TRUE]
                   \in ListCalls
    <3>1. [list[r].body EXCEPT !.late = TRUE] \in Bodies
      BY DEF Bodies
    <3>2. [list[r] EXCEPT !.body.late = TRUE]
             = [list[r] EXCEPT !.body = [list[r].body EXCEPT !.late = TRUE]]
      OBVIOUS
    <3> QED BY <3>1, <3>2
  <2>4. list' \in [Lists -> ListCalls]
    <3>1. list' = [r \in Lists |-> IF list[r].pc = "transit"
                                    THEN [list[r] EXCEPT !.body.late = TRUE] ELSE list[r]]
      BY <1>4 DEF Purge, DeleteList
    <3> QED BY <2>3, <3>1
  <2> QED BY <2>1, <2>2, <2>4
<1>5. CASE EndBatch(b)
  BY <1>5 DEF EndBatch
<1>6. CASE \E stop \in BOOLEAN : BeginBatch(b, stop)
  BY <1>1, <1>6
<1>7. \/ \E stop \in BOOLEAN : BeginBatch(b, stop)
      \/ GiveUp(b) \/ Post(b) \/ PurgeFails(b) \/ Cancel(b)
      \/ RefuseBlank(b) \/ Answered(b) \/ PostFails(b)
      \/ Create(b) \/ Purge(b) \/ EndBatch(b)
  BY DEF BatchStep
<1>8. CASE Create(b)
  <2>1. [batch[b] EXCEPT !.pc = "created"] \in BatchCalls
    BY <1>0 DEF BatchCalls
  <2>2. batch' \in [Batches -> BatchCalls] /\ UNCHANGED <<entry, list>>
    BY <1>8, <2>1 DEF Create
  <2>3. batch[b].pc = "post" /\ created' = created \union {<<b, Index(b)>>}
    BY <1>8 DEF Create
  <2>4. Index(b) \in 1 .. Items
    <3>1. Len(batch[b].results) \in Nat
      BY <1>0 DEF BatchCalls
    <3>2. Len(batch[b].results) < Items
      BY <2>3 DEF BatchInv, Loop
    <3> QED BY <3>1, <3>2, BatchAssumption DEF Index
  <2> QED BY <2>2, <2>3, <2>4
<1> QED BY <1>2, <1>3, <1>4, <1>5, <1>6, <1>7, <1>8

(* The same for a list. *)
LEMMA TypeListStep ==
    ASSUME TypeOK, NEW r \in Lists, ListStep(r)
    PROVE  /\ UNCHANGED <<created, batch>>
           /\ entry' \in Bodies
           /\ list' \in [Lists -> ListCalls]
<1> USE DEF TypeOK, ListCalls
<1>1. NoList \in Bodies /\ Found(created, FALSE) \in Bodies /\ list[r].body \in Bodies
  BY DEF NoList, Found, Bodies
<1>2. CASE BeginList(r) \/ ListFails(r) \/ EndList(r)
  BY <1>1, <1>2 DEF BeginList, ListFails, EndList, Asking, Returning
<1>3. CASE AnswerList(r)
  BY <1>1, <1>3 DEF AnswerList
<1>4. CASE Store(r)
  BY <1>1, <1>4 DEF Store, Returning
<1> QED BY <1>2, <1>3, <1>4 DEF ListStep

LEMMA InitTypes == ASSUME Init PROVE TypeOK /\ LifeInv
<1>1. LifeTypeOK
  BY DEF Init, LifeInit, LifeTypeOK
<1>2. LifeInv
  BY DEF Init, LifeInit, LifeInv, InService
<1>3. NoList \in Bodies /\ Found({}, FALSE) \in Bodies
  BY DEF NoList, Found, Bodies
<1>4. NoBatch \in BatchCalls
  BY DEF NoBatch, BatchCalls
<1>5. NoRequest \in ListCalls
  BY <1>3 DEF NoRequest, ListCalls
<1>6. /\ created \subseteq (Batches \X (1 .. Items))
      /\ entry \in Bodies
      /\ batch \in [Batches -> BatchCalls]
      /\ list \in [Lists -> ListCalls]
  BY <1>3, <1>4, <1>5 DEF Init
<1> QED BY <1>1, <1>2, <1>6 DEF TypeOK

(* What is not of the process keeps its types in every step. *)
LEMMA TypeStep ==
    ASSUME TypeOK, BatchInv, [Next]_vars
    PROVE  /\ created' \subseteq (Batches \X (1 .. Items))
           /\ entry' \in Bodies
           /\ batch' \in [Batches -> BatchCalls]
           /\ list' \in [Lists -> ListCalls]
<1>1. CASE UNCHANGED <<created, entry, batch, list>>
  BY <1>1 DEF TypeOK
<1>2. CASE \E b \in Batches : BatchStep(b) \/ Cancel(b)
  BY <1>2, TypeBatchStep
<1>3. CASE \E r \in Lists : ListStep(r)
  BY <1>3, TypeListStep DEF TypeOK
<1> QED BY <1>1, <1>2, <1>3 DEF Next, Work, Rest, vars

(* The process keeps its invariant in every step of the composition. *)
LEMMA LifeKept ==
    ASSUME LifeTypeOK, LifeInv, [Next]_vars PROVE LifeTypeOK' /\ LifeInv'
<1>1. LifeNext \/ UNCHANGED lifeVars
  BY NextIsLife DEF vars
<1>2. CASE LifeNext
  BY <1>2, LifeTypes, LifeInvariant
<1>3. CASE UNCHANGED lifeVars
  BY <1>3 DEF lifeVars, LifeTypeOK, LifeInv, InService
<1> QED BY <1>1, <1>2, <1>3

----------------------------------------------------------------------------
(* What a batch reports is true. *)

(* A step that leaves the results of a batch and its activities alone      *)
(* keeps most of Loop; the rest depends on where the batch goes.           *)
LEMMA LoopMoves ==
    ASSUME NEW b \in Batches, Loop(b),
           batch'[b].results = batch[b].results,
           batch'[b].succeeded = batch[b].succeeded,
           batch'[b].failed = batch[b].failed,
           \A i : <<b, i>> \in created' <=> <<b, i>> \in created,
           batch'[b].stop = batch[b].stop \/ batch[b].results = << >>,
           \/ batch'[b].pc = batch[b].pc
           \/ batch'[b].pc = "error" /\ batch[b].pc # "created"
           \/ batch[b].pc = "idle" /\ batch'[b].pc = "loop" /\ 0 < Items
           \/ batch[b].pc = "loop" /\ batch'[b].pc = "post"
           \/ batch[b].pc = "purge" /\ batch'[b].pc = "reply",
           batch'[b].stop = batch[b].stop \/ batch[b].pc = "idle"
    PROVE  Loop(b)'
<1>1. GoodItems(b)' = GoodItems(b) /\ Index(b)' = Index(b)
  BY DEF GoodItems, Index
<1>2. Len(<< >>) = 0 /\ DOMAIN << >> = {}
  OBVIOUS
<1> QED BY <1>1, <1>2 DEF Loop

(* Every step of a batch keeps its own Loop. *)
LEMMA LoopStep ==
    ASSUME TypeOK, NEW b \in Batches, Loop(b), Where(b), BatchStep(b) \/ Cancel(b)
    PROVE  Loop(b)'
<1>0. batch \in [Batches -> BatchCalls] /\ batch[b] \in BatchCalls
  BY DEF TypeOK
<1>1. CASE \E stop \in BOOLEAN : BeginBatch(b, stop)
  <2>1. PICK stop \in BOOLEAN : BeginBatch(b, stop)
    BY <1>1
  <2>2. /\ batch'[b].pc = "loop"
        /\ batch'[b].results = batch[b].results
        /\ batch'[b].succeeded = batch[b].succeeded
        /\ batch'[b].failed = batch[b].failed
        /\ created' = created
    BY <1>0, <2>1 DEF BeginBatch, BatchCalls
  <2>3. batch[b].pc = "idle"
    BY <2>1 DEF BeginBatch, Enter, Where
  <2>4. batch[b].results = << >>
    BY <2>3 DEF Loop
  <2> QED BY <2>2, <2>3, <2>4, LoopMoves, BatchAssumption
<1>2. CASE GiveUp(b) \/ Post(b) \/ Purge(b) \/ PurgeFails(b)
  <2>1. /\ batch'[b].results = batch[b].results
        /\ batch'[b].succeeded = batch[b].succeeded
        /\ batch'[b].failed = batch[b].failed
        /\ batch'[b].stop = batch[b].stop
        /\ created' = created
    BY <1>0, <1>2 DEF GiveUp, Post, Purge, PurgeFails, BatchCalls
  <2>2. \/ batch'[b].pc = "error" /\ batch[b].pc # "created"
        \/ batch[b].pc = "loop" /\ batch'[b].pc = "post"
        \/ batch[b].pc = "purge" /\ batch'[b].pc = "reply"
    BY <1>0, <1>2 DEF GiveUp, Post, Purge, PurgeFails, BatchCalls
  <2> QED BY <2>1, <2>2, LoopMoves
<1>3. CASE EndBatch(b) \/ Cancel(b)
  <2>1. /\ batch'[b].pc = batch[b].pc
        /\ batch'[b].results = batch[b].results
        /\ batch'[b].succeeded = batch[b].succeeded
        /\ batch'[b].failed = batch[b].failed
        /\ batch'[b].stop = batch[b].stop
        /\ created' = created
    BY <1>0, <1>3 DEF EndBatch, Cancel, BatchCalls
  <2> QED BY <2>1, LoopMoves
<1>4. CASE RefuseBlank(b)
  BY <1>4, RecordLoop DEF RefuseBlank, Results, Good
<1>5. CASE Answered(b)
  BY <1>5, RecordLoop DEF Answered, Results, Good
<1>6. CASE PostFails(b)
  BY <1>6, RecordLoop DEF PostFails, Results, Good
<1>7. CASE Create(b)
  <2>1. /\ batch[b].pc = "post"
        /\ batch'[b].pc = "created"
        /\ batch'[b].results = batch[b].results
        /\ batch'[b].succeeded = batch[b].succeeded
        /\ batch'[b].failed = batch[b].failed
        /\ batch'[b].stop = batch[b].stop
        /\ created' = created \union {<<b, Index(b)>>}
    BY <1>0, <1>7 DEF Create, BatchCalls
  <2>2. GoodItems(b)' = GoodItems(b) /\ Index(b)' = Index(b)
    BY <2>1 DEF GoodItems, Index
  <2>3. \A i : <<b, i>> \in created' <=> <<b, i>> \in created \/ i = Index(b)
    BY <2>1
  <2> QED BY <2>1, <2>2, <2>3 DEF Loop
<1> QED BY <1>1, <1>2, <1>3, <1>4, <1>5, <1>6, <1>7 DEF BatchStep

(* The steps of another batch leave the Loop of a batch alone. *)
LEMMA LoopOthers ==
    ASSUME TypeOK, NEW b \in Batches, NEW q \in Batches, q # b, Loop(q),
           BatchStep(b) \/ Cancel(b)
    PROVE  batch'[q] = batch[q] /\ Loop(q)'
<1>1. batch'[q] = batch[q]
  <2>1. batch' = batch \/ \E f : batch' = [batch EXCEPT ![b] = f]
    BY DEF BatchStep, BeginBatch, GiveUp, RefuseBlank, Post, Create, Answered, PostFails,
           Purge, PurgeFails, EndBatch, Record, Cancel
  <2> QED BY <2>1 DEF TypeOK
<1>2. created' = created \/ created' = created \union {<<b, Index(b)>>}
  BY DEF BatchStep, BeginBatch, GiveUp, RefuseBlank, Post, Create, Answered, PostFails,
         Purge, PurgeFails, EndBatch, Record, Cancel
<1>3. \A i : <<q, i>> \in created' <=> <<q, i>> \in created
  BY <1>2
<1> QED BY <1>1, <1>3, LoopMoves

(* How the process and the calls move a call in and out. *)
LEMMA InsideMoves ==
    ASSUME LifeTypeOK, NEW c \in Calls, LifeNext
    PROVE  \/ inside'[c] = inside[c]
           \/ inside[c] = "new" /\ inside'[c] = "connecting"
           \/ inside[c] = "connecting" /\ inside'[c] = "in" /\ Enter(c)
           \/ inside[c] = "in" /\ inside'[c] = "left" /\ Leave(c)
           \/ inside[c] \in {"connecting", "in"} /\ inside'[c] = "killed" /\ Exit
<1> USE DEF LifeTypeOK
<1>1. CASE LifeStep
  BY <1>1 DEF LifeStep, BeginOpen, EndOpen, OpenTimesOut, ListenReturns, BeginShutdown,
              ShutdownReturns, ShutdownTimesOut, CloseCache, Exit, Ends, InService
<1>2. CASE LifeEvent
  BY <1>2 DEF LifeEvent, Signal, StartFails, ListenFails, ListenReturns, Ends
<1>3. ASSUME NEW d \in Calls, Arrive(d) \/ Enter(d) \/ Leave(d)
      PROVE  \/ inside'[c] = inside[c]
             \/ inside[c] = "new" /\ inside'[c] = "connecting"
             \/ inside[c] = "connecting" /\ inside'[c] = "in" /\ Enter(c)
             \/ inside[c] = "in" /\ inside'[c] = "left" /\ Leave(c)
  BY <1>3 DEF Arrive, Enter, Leave
<1> QED BY <1>1, <1>2, <1>3 DEF LifeNext

(* Where the calls are, and the one invariant of the loop, in every step. *)
LEMMA BatchStepInv ==
    ASSUME TypeOK, LifeInv, BatchInv, [Next]_vars PROVE BatchInv'
<1>0. /\ LifeTypeOK
      /\ \A q \in Batches : Loop(q) /\ Where(q)
      /\ Batches \subseteq Calls
      /\ \A r \in Lists : r \notin Batches
  BY BatchAssumption DEF TypeOK, BatchInv
<1>1. CASE UNCHANGED vars
  <2>1. created' = created /\ batch' = batch /\ inside' = inside
    BY <1>1 DEF vars, lifeVars
  <2>2. ASSUME NEW q \in Batches PROVE Loop(q)' /\ Where(q)'
    <3>1. Loop(q)'
      BY <1>0, <2>1, LoopMoves
    <3> QED BY <1>0, <2>1, <3>1 DEF Where
  <2> QED BY <2>2 DEF BatchInv
<1>2. CASE Next
  <2> SUFFICES ASSUME NEW q \in Batches PROVE Loop(q)' /\ Where(q)'
    BY DEF BatchInv
  <2>1. Loop(q) /\ Where(q)
    BY <1>0
  <2>2. CASE \E b \in Batches : BatchStep(b) \/ Cancel(b)
    <3>1. PICK b \in Batches : BatchStep(b) \/ Cancel(b)
      BY <2>2
    <3>2. CASE b = q
      <4>1. Loop(q)'
        BY <1>0, <2>1, <3>1, <3>2, LoopStep
      <4>2. batch \in [Batches -> BatchCalls] /\ batch[q] \in BatchCalls
            /\ inside \in [Calls -> {"new", "connecting", "in", "left", "killed"}]
        BY DEF TypeOK, LifeTypeOK
      <4>3. CASE \E stop \in BOOLEAN : BeginBatch(q, stop)
        BY <1>0, <4>1, <4>2, <4>3 DEF BeginBatch, Enter, Where
      <4>4. CASE GiveUp(q) \/ Post(q) \/ Create(q) \/ Purge(q) \/ PurgeFails(q) \/ Cancel(q)
        <5>1. UNCHANGED inside
          BY <4>4 DEF GiveUp, Post, Create, Purge, PurgeFails, Cancel, lifeVars
        <5>2. batch[q].pc \in {"loop", "post", "created", "purge"}
          BY <4>4 DEF GiveUp, Post, Create, Purge, PurgeFails, Cancel
        <5> QED BY <2>1, <4>1, <5>1, <5>2 DEF Where
      <4>5. CASE RefuseBlank(q) \/ Answered(q) \/ PostFails(q)
        <5>1. UNCHANGED inside
          BY <4>5 DEF RefuseBlank, Answered, PostFails, Record, lifeVars
        <5>2. batch[q].pc \in {"loop", "post", "created", "purge"}
          BY <4>5 DEF RefuseBlank, Answered, PostFails
        <5> QED BY <2>1, <4>1, <5>1, <5>2 DEF Where
      <4>6. CASE EndBatch(q)
        BY <1>0, <2>1, <4>1, <4>2, <4>6 DEF EndBatch, Leave, Where
      <4> QED BY <3>1, <3>2, <4>3, <4>4, <4>5, <4>6 DEF BatchStep
    <3>3. CASE b # q
      <4>1. batch'[q] = batch[q] /\ Loop(q)'
        BY <2>1, <3>1, <3>3, LoopOthers
      <4>2. inside'[q] = inside[q]
        BY <1>0, <3>1, <3>3 DEF BatchStep, BeginBatch, GiveUp, RefuseBlank, Post, Create,
           Answered, PostFails, Purge, PurgeFails, EndBatch, Record, Cancel, Enter, Leave, lifeVars,
           LifeTypeOK
      <4> QED BY <2>1, <4>1, <4>2 DEF Where
    <3> QED BY <3>2, <3>3
  <2>3. CASE \E r \in Lists : ListStep(r)
    <3>1. PICK r \in Lists : ListStep(r)
      BY <2>3
    <3>2. created' = created /\ batch' = batch
      BY <3>1, TypeListStep
    <3>3. inside'[q] = inside[q]
      BY <1>0, <3>1 DEF ListStep, BeginList, AnswerList, Store, ListFails, EndList, Enter,
         Leave, lifeVars, LifeTypeOK
    <3> QED BY <2>1, <3>2, <3>3, LoopMoves DEF Where
  <2>4. CASE (LifeStep \/ LifeEvent \/ \E c \in Calls : Arrive(c)) /\ Rest
    <3>1. created' = created /\ batch' = batch
      BY <2>4 DEF Rest
    <3>2. Loop(q)'
      BY <2>1, <3>1, LoopMoves
    <3>3. \/ inside'[q] = inside[q]
          \/ inside[q] = "new" /\ inside'[q] = "connecting"
          \/ inside[q] \in {"connecting", "in"} /\ inside'[q] = "killed"
      BY <1>0, <2>4 DEF LifeStep, BeginOpen, EndOpen, OpenTimesOut, ListenReturns,
         BeginShutdown, ShutdownReturns, ShutdownTimesOut, CloseCache, Exit, Ends, InService,
         LifeEvent, Signal, StartFails, ListenFails, Arrive, LifeTypeOK
    <3> QED BY <2>1, <3>1, <3>2, <3>3 DEF Where
  <2> QED BY <1>2, <2>2, <2>3, <2>4 DEF Next, Work
<1> QED BY <1>1, <1>2

----------------------------------------------------------------------------
(* What a batch reports is in the cached list, or the list is gone. *)

Reported(b) ==
    batch[b].pc = "reply" /\ ~batch[b].lost /\ b \notin cut /\ cache # "absent"
GoodSet(b)  == {<<b, i>> : i \in GoodItems(b)}

Shown(b) ==
    /\ entry.found /\ ~entry.late => GoodSet(b) \subseteq entry.shows
    /\ \A r \in Lists : list[r].pc = "transit" /\ ~list[r].body.late =>
           GoodSet(b) \subseteq list[r].body.shows

ListedInv == \A b \in Batches : Reported(b) => Shown(b)

(* A batch that Close has overtaken stays so, and so does a process        *)
(* without a cache.                                                        *)
LEMMA CutGrows ==
    ASSUME LifeTypeOK, LifeInv, LifeNext \/ UNCHANGED lifeVars
    PROVE  cut \subseteq cut' /\ (cache = "absent" => cache' = "absent")
<1>1. CASE LifeStep
  BY <1>1 DEF LifeInv, LifeStep, BeginOpen, EndOpen, OpenTimesOut, ListenReturns, BeginShutdown,
              ShutdownReturns, ShutdownTimesOut, CloseCache, Exit, Ends
<1>2. CASE LifeEvent
  BY <1>2 DEF LifeEvent, Signal, StartFails, ListenFails, ListenReturns, Ends
<1>3. CASE \E c \in Calls : Arrive(c) \/ Enter(c) \/ Leave(c)
  BY <1>3 DEF Arrive, Enter, Leave
<1> QED BY <1>1, <1>2, <1>3 DEF LifeNext, lifeVars

(* A deletion through an open cache takes the list, and marks the bodies   *)
(* on their way.                                                           *)
LEMMA DeletedShown ==
    ASSUME TypeOK, NEW b \in Batches, DeleteList, cache = "open" PROVE Shown(b)'
<1>1. entry' = NoList
  BY DEF DeleteList
<1>2. ASSUME NEW r \in Lists, list'[r].pc = "transit" PROVE list'[r].body.late
  <2>1. list[r] \in ListCalls
    BY DEF TypeOK
  <2>2. list[r].pc = "transit" /\ list'[r] = [list[r] EXCEPT !.body.late = TRUE]
    BY <1>2, <2>1 DEF DeleteList
  <2> QED BY <2>1, <2>2 DEF ListCalls, Bodies
<1> QED BY <1>1, <1>2 DEF Shown, NoList

(* A deletion shows no more than there was. *)
LEMMA DeleteKeepsShown ==
    ASSUME TypeOK, NEW b \in Batches, Shown(b), GoodSet(b)' = GoodSet(b), DeleteList
    PROVE  Shown(b)'
<1>1. CASE cache = "open"
  BY <1>1, DeletedShown
<1>2. CASE cache # "open"
  <2>1. entry' = entry
    BY <1>2 DEF DeleteList
  <2>2. ASSUME NEW r \in Lists, list'[r].pc = "transit", ~list'[r].body.late
        PROVE  FALSE
    <3>1. list[r] \in ListCalls
      BY DEF TypeOK
    <3>2. list[r].pc = "transit" /\ list'[r] = [list[r] EXCEPT !.body.late = TRUE]
      BY <2>2, <3>1 DEF DeleteList
    <3> QED BY <2>2, <3>1, <3>2 DEF ListCalls, Bodies
  <2> QED BY <2>1, <2>2 DEF Shown
<1> QED BY <1>1, <1>2

(* The steps of the lists keep what is shown: what they fetch shows what   *)
(* there is.                                                               *)
LEMMA ListKeepsShown ==
    ASSUME TypeOK, NEW b \in Batches, Loop(b), Shown(b), NEW r \in Lists, ListStep(r),
           GoodSet(b)' = GoodSet(b)
    PROVE  Shown(b)'
<1>0. list \in [Lists -> ListCalls]
  BY DEF TypeOK
<1>1. CASE BeginList(r) \/ ListFails(r) \/ EndList(r)
  <2>1. entry' = entry
    BY <1>1 DEF BeginList, ListFails, EndList
  <2>2. \A s \in Lists : list'[s] = list[s] \/ list'[s].pc # "transit"
    BY <1>0, <1>1 DEF BeginList, ListFails, EndList, Returning, Asking
  <2> QED BY <2>1, <2>2 DEF Shown
<1>2. CASE AnswerList(r)
  <2>1. GoodSet(b) \subseteq created
    BY DEF GoodSet, Loop
  <2>2. /\ entry' = entry
        /\ \A s \in Lists : list'[s] = list[s] \/ list'[s].body.shows = created
    BY <1>0, <1>2 DEF AnswerList, Found
  <2> QED BY <2>1, <2>2 DEF Shown
<1>3. CASE Store(r)
  <2>1. list[r].pc = "transit" /\ entry' \in {entry, list[r].body}
    BY <1>3 DEF Store
  <2>2. \A s \in Lists : list'[s] = list[s] \/ list'[s].pc # "transit"
    BY <1>0, <1>3 DEF Store, Returning
  <2> QED BY <2>1, <2>2 DEF Shown
<1> QED BY <1>1, <1>2, <1>3 DEF ListStep

(* A batch that goes from the loop to its reply has created nothing. *)
LEMMA NothingCreated ==
    ASSUME TypeOK, NEW b \in Batches, NEW result \in Results, Record(b, result), Loop(b)',
           AfterItem(b, result) = "reply"
    PROVE  GoodSet(b)' = {}
<1>1. /\ batch' \in [Batches -> BatchCalls]
      /\ batch'[b].succeeded
             = IF Good(result) THEN batch[b].succeeded + 1 ELSE batch[b].succeeded
  BY RecordType DEF TypeOK
<1>2. batch[b].succeeded \in Nat
  BY DEF TypeOK, BatchCalls
<1>3. ~Good(result) /\ batch[b].succeeded = 0
  BY <1>2 DEF AfterItem
<1>4. Cardinality(GoodItems(b)') = 0
  BY <1>1, <1>3 DEF Loop
<1>5. IsFiniteSet(GoodItems(b)')
  <2>1. batch'[b].results \in Seq(Results)
    BY <1>1 DEF BatchCalls
  <2>2. /\ Len(batch'[b].results) \in Nat
        /\ GoodItems(b)' \subseteq 1 .. Len(batch'[b].results)
    BY <2>1 DEF GoodItems
  <2>3. IsFiniteSet(1 .. Len(batch'[b].results))
    BY <2>2, FS_Interval
  <2> QED BY <2>2, <2>3, FS_Subset
<1>6. GoodItems(b)' = {}
  BY <1>4, <1>5, FS_EmptySet
<1> QED BY <1>6 DEF GoodSet

(* The invalidation of a batch that is not cut off is through an open      *)
(* cache.                                                                  *)
LEMMA PurgeOpens ==
    ASSUME TypeOK, LifeInv, NEW b \in Batches, Where(b), batch[b].pc = "purge",
           phase # "exited", b \notin cut, cache # "absent"
    PROVE  cache = "open"
<1>1. b \in Calls
  BY BatchAssumption
<1>2. inside[b] = "in"
  BY <1>1 DEF Where, LifeInv
<1>3. cache \notin {"unopened", "opening"}
  BY <1>1, <1>2 DEF TypeOK, LifeTypeOK
<1>4. cache # "closed"
  BY <1>1, <1>2 DEF LifeInv, InService
<1> QED BY <1>3, <1>4 DEF TypeOK, LifeTypeOK

(* What the steps of a batch do to the lists and their entry. *)
LEMMA BatchLeavesLists ==
    ASSUME NEW b \in Batches, BatchStep(b) \/ Cancel(b)
    PROVE  UNCHANGED <<entry, list>> \/ DeleteList
BY DEF BatchStep, BeginBatch, GiveUp, RefuseBlank, Post, Create, Answered, PostFails, Purge,
       PurgeFails, EndBatch, Record, Cancel

(* A batch's own steps, up to its reply. *)
LEMMA OwnStepShown ==
    ASSUME TypeOK, LifeInv, NEW b \in Batches, Loop(b), Where(b), Reported(b) => Shown(b),
           BatchStep(b) \/ Cancel(b), cut \subseteq cut', cache = "absent" => cache' = "absent",
           Reported(b)'
    PROVE  Shown(b)'
<1>0. batch \in [Batches -> BatchCalls] /\ batch[b] \in BatchCalls
  BY DEF TypeOK
<1>1. b \notin cut /\ cache # "absent" /\ batch'[b].pc = "reply"
  BY DEF Reported
<1>2. CASE (\E stop \in BOOLEAN : BeginBatch(b, stop)) \/ GiveUp(b) \/ Post(b) \/ Create(b)
  <2>1. batch'[b].pc # "reply"
    BY <1>0, <1>2 DEF BeginBatch, GiveUp, Post, Create, BatchCalls
  <2> QED BY <1>1, <2>1
<1>3. CASE Cancel(b)
  <2>1. batch'[b].pc # "reply"
    BY <1>0, <1>3 DEF Cancel, BatchCalls
  <2> QED BY <1>1, <2>1
<1>4. CASE RefuseBlank(b) \/ Answered(b) \/ PostFails(b)
  <2>1. PICK result \in Results : Record(b, result)
    BY <1>4 DEF RefuseBlank, Answered, PostFails, Results
  <2>2. AfterItem(b, result) = "reply"
    BY <1>1, <2>1, RecordType DEF TypeOK
  <2>3. Loop(b)'
    BY LoopStep
  <2>4. GoodSet(b)' = {}
    BY <2>1, <2>2, <2>3, NothingCreated
  <2> QED BY <2>4 DEF Shown
<1>5. CASE Purge(b)
  <2>1. batch[b].pc = "purge" /\ DeleteList /\ phase # "exited"
    BY <1>5 DEF Purge, BatchStep, Cancel
  <2>2. cache = "open"
    BY <1>1, <2>1, PurgeOpens
  <2> QED BY <2>1, <2>2, DeletedShown
<1>6. CASE EndBatch(b)
  <2>1. UNCHANGED <<entry, batch, list>>
    BY <1>6 DEF EndBatch
  <2>2. Shown(b)
    BY <1>1, <2>1 DEF Reported
  <2> QED BY <2>1, <2>2 DEF Shown, GoodSet, GoodItems
<1>7. CASE PurgeFails(b)
  <2>1. batch'[b].lost
    BY <1>0, <1>7 DEF PurgeFails, BatchCalls
  <2> QED BY <2>1 DEF Reported
<1> QED BY <1>2, <1>3, <1>4, <1>5, <1>6, <1>7 DEF BatchStep

LEMMA ListedStep ==
    ASSUME TypeOK, LifeInv, BatchInv, ListedInv, [Next]_vars PROVE ListedInv'
<1>1. /\ cut \subseteq cut'
      /\ cache = "absent" => cache' = "absent"
  BY NextIsLife, CutGrows DEF TypeOK, vars
<1> SUFFICES ASSUME NEW q \in Batches, Reported(q)' PROVE Shown(q)'
  BY DEF ListedInv
<1>2. Loop(q) /\ Where(q) /\ (Reported(q) => Shown(q))
  BY DEF BatchInv, ListedInv
<1>3. CASE UNCHANGED <<entry, batch, list>>
  <2>1. Shown(q)
    BY <1>1, <1>2, <1>3 DEF Reported
  <2> QED BY <1>3, <2>1 DEF Shown, GoodSet, GoodItems
<1>4. ASSUME NEW r \in Lists, ListStep(r) PROVE Shown(q)'
  <2>1. batch' = batch
    BY <1>4, TypeListStep
  <2>2. Shown(q) /\ GoodSet(q)' = GoodSet(q)
    BY <1>1, <1>2, <2>1 DEF Reported, GoodSet, GoodItems
  <2> QED BY <1>2, <1>4, <2>2, ListKeepsShown
<1>5. ASSUME NEW b \in Batches, BatchStep(b) \/ Cancel(b) PROVE Shown(q)'
  <2>1. CASE b = q
    BY <1>1, <1>2, <1>5, <2>1, OwnStepShown
  <2>2. CASE b # q
    <3>1. batch'[q] = batch[q]
      BY <1>2, <1>5, <2>2, LoopOthers
    <3>2. Shown(q) /\ GoodSet(q)' = GoodSet(q)
      BY <1>1, <1>2, <3>1 DEF Reported, GoodSet, GoodItems
    <3>3. UNCHANGED <<entry, list>> \/ DeleteList
      BY <1>5, BatchLeavesLists
    <3>4. CASE UNCHANGED <<entry, list>>
      BY <3>2, <3>4 DEF Shown
    <3>5. CASE DeleteList
      BY <3>2, <3>5, DeleteKeepsShown
    <3> QED BY <3>3, <3>4, <3>5
  <2> QED BY <2>1, <2>2
<1> QED BY <1>3, <1>4, <1>5 DEF Next, Work, Rest, vars

----------------------------------------------------------------------------
(* The theorems. *)

Inv == TypeOK /\ LifeInv /\ BatchInv /\ ListedInv

LEMMA InitInv == ASSUME Init PROVE Inv
<1>1. TypeOK /\ LifeInv
  BY InitTypes
<1>2. ASSUME NEW b \in Batches PROVE Loop(b) /\ Where(b)
  <2>1. batch[b] = NoBatch /\ created = {}
    BY DEF Init
  <2>2. Len(<< >>) = 0 /\ DOMAIN << >> = {}
    OBVIOUS
  <2>3. GoodItems(b) = {}
    BY <2>1, <2>2 DEF GoodItems, NoBatch
  <2>4. Cardinality({}) = 0 /\ {} \ {} = {}
    BY FS_EmptySet
  <2> QED BY <2>1, <2>2, <2>3, <2>4, BatchAssumption DEF Loop, Where, NoBatch
<1>3. BatchInv
  BY <1>2 DEF BatchInv
<1>4. ListedInv
  BY DEF Init, NoBatch, ListedInv, Reported
<1> QED BY <1>1, <1>3, <1>4 DEF Inv

LEMMA StepInv == ASSUME Inv, [Next]_vars PROVE Inv'
<1>1. TypeOK /\ LifeTypeOK /\ LifeInv /\ BatchInv /\ ListedInv
  BY DEF Inv, TypeOK
<1>2. LifeTypeOK' /\ LifeInv'
  BY <1>1, LifeKept
<1>3. TypeOK'
  BY <1>1, <1>2, TypeStep DEF TypeOK
<1>4. BatchInv' /\ ListedInv'
  BY <1>1, BatchStepInv, ListedStep
<1> QED BY <1>2, <1>3, <1>4 DEF Inv

LEMMA Invariance == Spec => []Inv
BY InitInv, StepInv, PTL DEF Spec

(* TypeOK holds: also, no call runs before the one opening of the cache is *)
(* over, whichever call began it.                                          *)
THEOREM Typing == Spec => []TypeOK
<1>1. Inv => TypeOK
  BY DEF Inv
<1> QED BY <1>1, Invariance, PTL

(* A quiet stop of streamable-http has cut nobody off. *)
THEOREM QuietStops == Spec => []QuietStopCutsNobody
<1>1. Inv => QuietStopCutsNobody
  BY DEF Inv, LifeInv, QuietStopCutsNobody
<1> QED BY <1>1, Invariance, PTL

(* ResultsTrue holds: what a batch of any length returns agrees with what  *)
(* there is upstream, whatever was refused, failed or lost its answer.     *)
THEOREM TrueResults == Spec => []ResultsTrue
<1>1. Inv => ResultsTrue
  <2> SUFFICES ASSUME Inv, NEW b \in Batches, Replied(b)
               PROVE  LET done == DOMAIN batch[b].results
                      IN  /\ \A i \in GoodItems(b) : <<b, i>> \in created
                          /\ \A i \in 1 .. Items : <<b, i>> \in created =>
                                 i \in done /\ batch[b].results[i] # "blank"
                          /\ batch[b].succeeded = Cardinality(GoodItems(b))
                          /\ batch[b].failed = Cardinality(done \ GoodItems(b))
                          /\ \/ done = 1 .. Items
                             \/ batch[b].stop
                          /\ batch[b].stop =>
                                 \A i \in done : i + 1 \in done => i \in GoodItems(b)
    BY DEF ResultsTrue
  <2>1. Loop(b) /\ batch[b].pc = "reply"
    BY DEF Inv, BatchInv, Replied
  <2>2. batch[b].results \in Seq(Results)
    BY DEF Inv, TypeOK, BatchCalls
  <2>3. DOMAIN batch[b].results = 1 .. Len(batch[b].results)
    BY <2>2
  <2> QED BY <2>1, <2>3 DEF Loop, GoodItems
<1> QED BY <1>1, Invariance, PTL

(* ReportedItemsListed holds: after the report the cached list shows what  *)
(* was created or is gone, but for a body fetched across the invalidation, *)
(* a batch that Close has overtaken, and an invalidation whose transaction *)
(* failed.                                                                 *)
THEOREM ReportsListed == Spec => []ReportedItemsListed
<1>1. Inv => ReportedItemsListed
  BY DEF Inv, ListedInv, Reported, Shown, GoodSet, ReportedItemsListed, Replied
<1> QED BY <1>1, Invariance, PTL
=============================================================================
