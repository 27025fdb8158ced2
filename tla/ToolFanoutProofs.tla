-------------------------- MODULE ToolFanoutProofs --------------------------
(***************************************************************************)
(* Proofs about ToolFanout: listings of any length, any number of slots of *)
(* the semaphore, any buckets.                                             *)
(***************************************************************************)
EXTENDS ToolFanout, RateLimiterProofs, SequenceTheorems

----------------------------------------------------------------------------
(* The calls and their goroutines. *)

GoodOf(c) == {k \in DOMAIN calls[c].needs : tasks[<<c, k>>] = "answer"}
BadOf(c)  == {k \in DOMAIN calls[c].needs : tasks[<<c, k>>] = "error"}

(* A call that has not begun needs nothing, one that is done has been left *)
(* by all its goroutines.  They are started in order, and the counters are *)
(* those of the goroutines that have ended so far.                         *)
CallInv(c) ==
    /\ calls[c].pc = "idle" => calls[c].needs = << >>
    /\ calls[c].pc = "done" => TasksOf(c) \subseteq ended
    /\ TasksOf(c) \subseteq Tasks
    /\ \A k \in DOMAIN calls[c].needs :
           tasks[<<c, k>>] # "none" <=> k <= Cardinality(Spawned(c))
    /\ calls[c].fetched = Cardinality(GoodOf(c))
    /\ calls[c].errors = {calls[c].needs[k] : k \in BadOf(c)}

(* Every goroutine belongs to a call. *)
OwnTasks == \A t \in Tasks : tasks[t] # "none" => \E c \in Calls : t \in TasksOf(c)

EndedInv == \A t \in ended : tasks[t] \in Outcomes

(* A slot of the semaphore for every goroutine that has not left it. *)
CapInv == Cardinality(Spawned(Mail) \ ended) <= Concurrency

FanInv ==
    /\ \A c \in Calls : CallInv(c)
    /\ OwnTasks
    /\ EndedInv
    /\ CapInv

LEMMA TasksFinite ==
    ASSUME TypeOK, NEW c \in Calls
    PROVE  /\ IsFiniteSet(DOMAIN calls[c].needs)
           /\ IsFiniteSet(TasksOf(c))
           /\ IsFiniteSet(Spawned(c))
           /\ IsFiniteSet(GoodOf(c))
           /\ Cardinality(Spawned(c)) \in Nat
<1>1. calls[c].needs \in Seq(Nat \ {0})
  BY DEF TypeOK, CallStates
<1>2. DOMAIN calls[c].needs = 1 .. Len(calls[c].needs) /\ Len(calls[c].needs) \in Nat
  BY <1>1
<1>3. IsFiniteSet(DOMAIN calls[c].needs)
  BY <1>2, FS_Interval
<1>4. IsFiniteSet(TasksOf(c))
  <2> DEFINE f == [k \in DOMAIN calls[c].needs |-> <<c, k>>]
  <2>1. f \in Surjection(DOMAIN calls[c].needs, TasksOf(c))
    BY DEF Surjection, TasksOf
  <2> QED BY <1>3, <2>1, FS_Surjection
<1>5. IsFiniteSet(Spawned(c))
  BY <1>4, FS_Subset DEF Spawned
<1>6. IsFiniteSet(GoodOf(c))
  BY <1>3, FS_Subset DEF GoodOf
<1> QED BY <1>3, <1>4, <1>5, <1>6, FS_CardinalityType

(* What CallInv can tell of a task. *)
Alike(x, y) ==
    /\ x = "none" <=> y = "none"
    /\ x = "answer" <=> y = "answer"
    /\ x = "error" <=> y = "error"

(* A call keeps CallInv while its goroutines stay alike and its counters   *)
(* stay as they are.                                                       *)
LEMMA CallFrame ==
    ASSUME NEW c \in Calls, CallInv(c), ended \subseteq ended',
           calls'[c].needs = calls[c].needs,
           calls'[c].fetched = calls[c].fetched,
           calls'[c].errors = calls[c].errors,
           \/ calls'[c].pc = calls[c].pc
           \/ calls'[c].pc = "done" /\ TasksOf(c) \subseteq ended,
           \A k \in DOMAIN calls[c].needs : Alike(tasks'[<<c, k>>], tasks[<<c, k>>])
    PROVE  CallInv(c)' /\ Spawned(c)' = Spawned(c) /\ TasksOf(c)' = TasksOf(c)
<1>1. TasksOf(c)' = TasksOf(c)
  BY DEF TasksOf
<1>2. Spawned(c)' = Spawned(c)
  <2>1. \A t \in TasksOf(c) : tasks'[t] # "none" <=> tasks[t] # "none"
    BY DEF TasksOf, Alike
  <2> QED BY <1>1, <2>1 DEF Spawned
<1>3. GoodOf(c)' = GoodOf(c) /\ BadOf(c)' = BadOf(c)
  BY DEF GoodOf, BadOf, Alike
<1>4. \A k \in DOMAIN calls'[c].needs :
          tasks'[<<c, k>>] # "none" <=> k <= Cardinality(Spawned(c)')
  BY <1>2 DEF CallInv, Alike
<1>5. TasksOf(c)' \subseteq Tasks
  BY <1>1 DEF CallInv
<1>6. calls'[c].errors = {calls'[c].needs[k] : k \in BadOf(c)'}
  BY <1>3 DEF CallInv
<1> QED BY <1>1, <1>2, <1>3, <1>4, <1>5, <1>6 DEF CallInv

(* Fewer goroutines in the semaphore: the cap is kept. *)
LEMMA CapKept ==
    ASSUME TypeOK, CapInv, Spawned(Mail)' = Spawned(Mail), ended \subseteq ended'
    PROVE  CapInv'
<1>1. Mail \in Calls
  BY DEF Calls
<1>2. IsFiniteSet(Spawned(Mail) \ ended)
  BY <1>1, TasksFinite, FS_Subset
<1>3. Spawned(Mail) \ ended' \subseteq Spawned(Mail) \ ended
  OBVIOUS
<1>4. Cardinality(Spawned(Mail) \ ended') <= Cardinality(Spawned(Mail) \ ended)
  BY <1>2, <1>3, FS_Subset
<1>5. /\ Cardinality(Spawned(Mail) \ ended') \in Nat
      /\ Cardinality(Spawned(Mail) \ ended) \in Nat
      /\ Concurrency \in Nat
  BY <1>2, <1>3, FS_Subset, FS_CardinalityType, ToolFanoutAssumption
<1> QED BY <1>4, <1>5 DEF CapInv

SameCounters(c) ==
    /\ calls'[c].pc = calls[c].pc
    /\ calls'[c].needs = calls[c].needs
    /\ calls'[c].fetched = calls[c].fetched
    /\ calls'[c].errors = calls[c].errors

(* A step that only moves goroutines between run, queued and sent. *)
LEMMA QuietStep ==
    ASSUME TypeOK, FanInv, ended' = ended,
           \A c \in Calls : SameCounters(c),
           \A t \in Tasks : Alike(tasks'[t], tasks[t])
    PROVE  FanInv'
<1>1. ASSUME NEW c \in Calls
      PROVE  CallInv(c)' /\ Spawned(c)' = Spawned(c) /\ TasksOf(c)' = TasksOf(c)
  <2>1. CallInv(c)
    BY DEF FanInv
  <2>2. \A k \in DOMAIN calls[c].needs : Alike(tasks'[<<c, k>>], tasks[<<c, k>>])
    BY <2>1 DEF CallInv, TasksOf
  <2> QED BY <2>1, <2>2, CallFrame DEF SameCounters
<1>2. OwnTasks'
  BY <1>1 DEF FanInv, OwnTasks, Alike
<1>3. EndedInv'
  BY DEF FanInv, EndedInv, Outcomes, Alike, TypeOK
<1>4. CapInv'
  BY <1>1, CapKept DEF FanInv, Calls
<1> QED BY <1>1, <1>2, <1>3, <1>4 DEF FanInv

(* A goroutine leaves its outcome. *)
LEMMA ConcludeStep ==
    ASSUME TypeOK, FanInv, NEW t \in Tasks, NEW outcome \in Outcomes,
           tasks[t] \in {"run", "queued", "sent"}, Conclude(t, outcome)
    PROVE  FanInv' /\ calls' \in [Calls -> CallStates]
<1>0. PICK c \in Calls : t \in TasksOf(c)
  BY DEF FanInv, OwnTasks
<1>1. PICK k \in DOMAIN calls[c].needs : t = <<c, k>>
  BY <1>0 DEF TasksOf
<1>2. /\ ended' = ended
      /\ tasks'[t] = outcome
      /\ \A u \in Tasks : u # t => tasks'[u] = tasks[u]
  BY DEF Conclude, TypeOK
<1>3. /\ calls[c] \in CallStates
      /\ calls[c].needs[k] \in Nat \ {0}
  BY <1>1 DEF TypeOK, CallStates
<1> DEFINE next == IF outcome = "error"
                   THEN [calls[c] EXCEPT !.errors = @ \union {calls[c].needs[k]}]
                   ELSE [calls[c] EXCEPT !.fetched = @ + 1]
<1>4. /\ next \in CallStates
      /\ next.pc = calls[c].pc
      /\ next.needs = calls[c].needs
      /\ next.errors = IF outcome = "error" THEN calls[c].errors \union {calls[c].needs[k]}
                       ELSE calls[c].errors
      /\ next.fetched = IF outcome = "error" THEN calls[c].fetched ELSE calls[c].fetched + 1
  <2>1. /\ calls[c].errors \union {calls[c].needs[k]} \in SUBSET (Nat \ {0})
        /\ calls[c].fetched + 1 \in Nat
    BY <1>3 DEF CallStates
  <2>2. CASE outcome = "error"
    <3>1. next = [calls[c] EXCEPT !.errors = @ \union {calls[c].needs[k]}]
      BY <2>2
    <3> HIDE DEF next
    <3> QED BY <1>3, <2>1, <2>2, <3>1 DEF CallStates
  <2>3. CASE outcome # "error"
    <3>1. next = [calls[c] EXCEPT !.fetched = @ + 1]
      BY <2>3
    <3> HIDE DEF next
    <3> QED BY <1>3, <2>1, <2>3, <3>1 DEF CallStates
  <2> QED BY <2>2, <2>3
<1>5. calls' = [calls EXCEPT ![c] = next]
  BY <1>1 DEF Conclude
<1> HIDE DEF next
<1>6. /\ calls' \in [Calls -> CallStates]
      /\ calls'[c] = next
      /\ \A d \in Calls : d # c => calls'[d] = calls[d]
  BY <1>4, <1>5 DEF TypeOK
<1>7. CallInv(c)
  BY DEF FanInv
<1>8. TasksOf(c)' = TasksOf(c) /\ t \in TasksOf(c)
  BY <1>1, <1>4, <1>6 DEF TasksOf
<1>9. \A u \in Tasks : tasks'[u] # "none" <=> tasks[u] # "none"
  BY <1>2 DEF Outcomes
<1>10. Spawned(c)' = Spawned(c)
  BY <1>7, <1>8, <1>9 DEF Spawned, CallInv
<1>11. \A j \in DOMAIN calls[c].needs : <<c, j>> \in Tasks /\ (j # k => <<c, j>> # t)
  BY <1>1, <1>7 DEF CallInv, TasksOf
<1>12. /\ GoodOf(c)' = IF outcome = "error" THEN GoodOf(c) ELSE GoodOf(c) \union {k}
       /\ BadOf(c)' = IF outcome = "error" THEN BadOf(c) \union {k} ELSE BadOf(c)
       /\ k \notin GoodOf(c)
  BY <1>1, <1>2, <1>4, <1>6, <1>11 DEF GoodOf, BadOf, Outcomes
<1>13. calls'[c].fetched = Cardinality(GoodOf(c)')
  <2>1. IsFiniteSet(GoodOf(c))
    BY TasksFinite
  <2>2. Cardinality(GoodOf(c)') = IF outcome = "error" THEN Cardinality(GoodOf(c))
                                  ELSE Cardinality(GoodOf(c)) + 1
    BY <1>12, <2>1, FS_AddElement
  <2> QED BY <1>4, <1>6, <1>7, <2>2 DEF CallInv
<1>14. calls'[c].errors = {calls'[c].needs[j] : j \in BadOf(c)'}
  BY <1>4, <1>6, <1>7, <1>12 DEF CallInv
<1>15. \A j \in DOMAIN calls'[c].needs :
           tasks'[<<c, j>>] # "none" <=> j <= Cardinality(Spawned(c)')
  BY <1>4, <1>6, <1>7, <1>9, <1>10, <1>11 DEF CallInv
<1>16. /\ TasksOf(c)' \subseteq Tasks
       /\ calls'[c].pc = "idle" => calls'[c].needs = << >>
       /\ calls'[c].pc = "done" => TasksOf(c)' \subseteq ended'
  BY <1>2, <1>4, <1>6, <1>7, <1>8 DEF CallInv
<1>17. CallInv(c)'
  BY <1>13, <1>14, <1>15, <1>16 DEF CallInv
<1>18. ASSUME NEW d \in Calls, d # c
       PROVE  CallInv(d)' /\ Spawned(d)' = Spawned(d) /\ TasksOf(d)' = TasksOf(d)
  <2>1. CallInv(d)
    BY DEF FanInv
  <2>2. \A j \in DOMAIN calls[d].needs : <<d, j>> \in Tasks /\ <<d, j>> # t
    BY <1>1, <1>18, <2>1 DEF CallInv, TasksOf
  <2>3. \A j \in DOMAIN calls[d].needs : Alike(tasks'[<<d, j>>], tasks[<<d, j>>])
    BY <1>2, <2>2 DEF Alike
  <2> QED BY <1>2, <1>6, <1>18, <2>1, <2>3, CallFrame
<1>19. \A d \in Calls : CallInv(d)' /\ Spawned(d)' = Spawned(d) /\ TasksOf(d)' = TasksOf(d)
  BY <1>8, <1>10, <1>17, <1>18
<1>20. OwnTasks'
  BY <1>9, <1>19 DEF FanInv, OwnTasks
<1>21. EndedInv'
  BY <1>2 DEF FanInv, EndedInv, TypeOK
<1>22. CapInv'
  BY <1>2, <1>19, CapKept DEF FanInv, Calls
<1> QED BY <1>6, <1>19, <1>20, <1>21, <1>22 DEF FanInv

(* The next goroutine is started: a new one, as they are started in order. *)
LEMMA SpawnStep ==
    ASSUME TypeOK, FanInv, NEW c \in Calls, Spawn(c)
    PROVE  /\ FanInv'
           /\ \E t \in Tasks : tasks[t] = "none" /\ tasks' = [tasks EXCEPT ![t] = "run"]
<1> DEFINE n == Cardinality(Spawned(c))
           t == <<c, n + 1>>
<1>1. n \in Nat /\ IsFiniteSet(Spawned(c))
  BY TasksFinite
<1>2. CallInv(c) /\ t \in TasksOf(c)
  BY DEF FanInv, Spawn
<1>3. t \in Tasks /\ n + 1 \in DOMAIN calls[c].needs
  BY <1>2 DEF CallInv, TasksOf
<1>4. tasks[t] = "none"
  BY <1>1, <1>2, <1>3 DEF CallInv
<1>5. /\ tasks' = [tasks EXCEPT ![t] = "run"]
      /\ UNCHANGED <<calls, ended>>
      /\ MaySpawn(c)
  BY DEF Spawn
<1>6. tasks'[t] = "run" /\ \A u \in Tasks : u # t => tasks'[u] = tasks[u]
  BY <1>3, <1>5 DEF TypeOK
<1>7. t \notin Spawned(c) /\ t \notin ended
  BY <1>4 DEF Spawned, FanInv, EndedInv, Outcomes
<1>8. TasksOf(c) \subseteq Tasks
  BY <1>2 DEF CallInv
<1>9. Spawned(c)' = Spawned(c) \union {t}
  <2>1. TasksOf(c)' = TasksOf(c)
    BY <1>5 DEF TasksOf
  <2> QED BY <1>2, <1>6, <1>8, <2>1 DEF Spawned
<1>10. Cardinality(Spawned(c)') = n + 1
  BY <1>1, <1>7, <1>9, FS_AddElement
<1>11. \A k \in DOMAIN calls[c].needs : <<c, k>> \in Tasks /\ k \in Nat
  BY <1>8 DEF TasksOf, TypeOK, CallStates
<1>12. GoodOf(c)' = GoodOf(c) /\ BadOf(c)' = BadOf(c)
  BY <1>4, <1>5, <1>6, <1>11 DEF GoodOf, BadOf
<1>13. \A k \in DOMAIN calls[c].needs : tasks'[<<c, k>>] # "none" <=> k <= n + 1
  <2> SUFFICES ASSUME NEW k \in DOMAIN calls[c].needs
               PROVE  tasks'[<<c, k>>] # "none" <=> k <= n + 1
    OBVIOUS
  <2>1. CASE k = n + 1
    BY <1>1, <1>6, <2>1
  <2>2. CASE k # n + 1
    <3>1. tasks'[<<c, k>>] = tasks[<<c, k>>]
      BY <1>6, <1>11, <2>2
    <3>2. tasks[<<c, k>>] # "none" <=> k <= n
      BY <1>2 DEF CallInv
    <3> QED BY <1>1, <1>11, <2>2, <3>1, <3>2
  <2> QED BY <2>1, <2>2
<1>14. CallInv(c)'
  <2>1. TasksOf(c)' \subseteq Tasks /\ (calls[c].pc = "done" => TasksOf(c)' \subseteq ended)
    BY <1>2, <1>5 DEF TasksOf, CallInv
  <2> HIDE DEF n, t
  <2>2. n + 1 = Cardinality(Spawned(c)')
    BY <1>10
  <2> QED BY <1>2, <1>5, <1>12, <1>13, <2>1, <2>2 DEF CallInv
<1>15. ASSUME NEW d \in Calls, d # c
       PROVE  CallInv(d)' /\ Spawned(d)' = Spawned(d) /\ TasksOf(d)' = TasksOf(d)
  <2>1. CallInv(d)
    BY DEF FanInv
  <2>2. \A j \in DOMAIN calls[d].needs : <<d, j>> \in Tasks /\ <<d, j>> # t
    BY <1>15, <2>1 DEF CallInv, TasksOf
  <2>3. \A j \in DOMAIN calls[d].needs : Alike(tasks'[<<d, j>>], tasks[<<d, j>>])
    BY <1>6, <2>2 DEF Alike
  <2> QED BY <1>5, <2>1, <2>3, CallFrame
<1>16. OwnTasks'
  <2>1. \A d \in Calls : TasksOf(d)' = TasksOf(d)
    BY <1>5 DEF TasksOf
  <2> QED BY <1>2, <1>6, <2>1 DEF FanInv, OwnTasks
<1>17. EndedInv'
  BY <1>5, <1>6, <1>7 DEF FanInv, EndedInv, TypeOK
<1>18. CapInv'
  <2>1. CASE c = Mail
    <3>1. Spawned(c)' \ ended = (Spawned(c) \ ended) \union {t}
      BY <1>7, <1>9
    <3>2. IsFiniteSet(Spawned(c) \ ended)
      BY <1>1, FS_Subset
    <3>3. Cardinality(Spawned(c)' \ ended) = Cardinality(Spawned(c) \ ended) + 1
      BY <1>7, <3>1, <3>2, FS_AddElement
    <3>4. Cardinality(Spawned(c) \ ended) \in Nat /\ Concurrency \in Nat
      BY <3>2, FS_CardinalityType, ToolFanoutAssumption
    <3>5. Cardinality(Spawned(c) \ ended) < Concurrency
      BY <1>5, <2>1 DEF MaySpawn
    <3> QED BY <1>5, <2>1, <3>3, <3>4, <3>5 DEF CapInv
  <2>2. CASE c # Mail
    BY <1>5, <1>15, <2>2 DEF FanInv, CapInv, Calls
  <2> QED BY <2>1, <2>2
<1> QED BY <1>3, <1>4, <1>5, <1>14, <1>15, <1>16, <1>17, <1>18 DEF FanInv

(* A call begins: whatever it needs, none of its goroutines has run.       *)
LEMMA BeginStep ==
    ASSUME TypeOK, FanInv, NEW c \in Calls, calls[c].pc = "idle", calls'[c].pc = "run",
           calls'[c].needs \in Seq(Nat \ {0}), TasksOf(c)' \subseteq Tasks,
           calls'[c].fetched = calls[c].fetched, calls'[c].errors = calls[c].errors,
           \A d \in Calls : d # c => calls'[d] = calls[d],
           UNCHANGED <<tasks, ended>>
    PROVE  FanInv'
<1>1. CallInv(c) /\ calls[c].needs = << >>
  BY DEF FanInv, CallInv
<1>2. DOMAIN calls[c].needs = {} /\ TasksOf(c) = {}
  BY <1>1 DEF TasksOf
<1>3. GoodOf(c) = {} /\ BadOf(c) = {} /\ Cardinality({}) = 0
  BY <1>2, FS_EmptySet DEF GoodOf, BadOf
<1>4. \A k \in DOMAIN calls'[c].needs : <<c, k>> \in Tasks /\ k \in Nat \ {0}
  BY DEF TasksOf
<1>5. \A k \in DOMAIN calls'[c].needs : tasks[<<c, k>>] = "none"
  <2> SUFFICES ASSUME NEW k \in DOMAIN calls'[c].needs, tasks[<<c, k>>] # "none"
               PROVE  FALSE
    OBVIOUS
  <2>1. PICK d \in Calls : <<c, k>> \in TasksOf(d)
    BY <1>4 DEF FanInv, OwnTasks
  <2>2. d = c
    BY <2>1 DEF TasksOf
  <2> QED BY <1>2, <2>1, <2>2
<1>6. Spawned(c) = {} /\ Spawned(c)' = {}
  BY <1>2, <1>5 DEF Spawned, TasksOf
<1>7. GoodOf(c)' = {} /\ BadOf(c)' = {}
  BY <1>5 DEF GoodOf, BadOf
<1>8. CallInv(c)'
  <2>1. calls'[c].fetched = Cardinality(GoodOf(c)')
    BY <1>1, <1>3, <1>7 DEF CallInv
  <2>2. calls'[c].errors = {calls'[c].needs[k] : k \in BadOf(c)'}
    BY <1>1, <1>3, <1>7 DEF CallInv
  <2>3. \A k \in DOMAIN calls'[c].needs :
            tasks'[<<c, k>>] # "none" <=> k <= Cardinality(Spawned(c)')
    BY <1>3, <1>4, <1>5, <1>6
  <2> QED BY <2>1, <2>2, <2>3 DEF CallInv
<1>9. ASSUME NEW d \in Calls, d # c
      PROVE  CallInv(d)' /\ Spawned(d)' = Spawned(d) /\ TasksOf(d)' = TasksOf(d)
  <2>1. CallInv(d)
    BY DEF FanInv
  <2>2. calls'[d] = calls[d]
    BY <1>9
  <2> QED BY <2>1, <2>2, CallFrame DEF Alike
<1>10. OwnTasks'
  <2> SUFFICES ASSUME NEW t \in Tasks, tasks[t] # "none"
               PROVE  \E d \in Calls : t \in TasksOf(d)'
    BY DEF OwnTasks
  <2>1. PICK d \in Calls : t \in TasksOf(d)
    BY DEF FanInv, OwnTasks
  <2> QED BY <1>2, <1>9, <2>1
<1>11. EndedInv'
  BY DEF FanInv, EndedInv
<1>12. \A d \in Calls : Spawned(d)' = Spawned(d)
  BY <1>6, <1>9
<1>13. CapInv'
  BY <1>12, CapKept DEF FanInv, Calls
<1> QED BY <1>8, <1>9, <1>10, <1>11, <1>13 DEF FanInv

(* A goroutine has ended, or a call of which all have. *)
LEMMA EndStep ==
    ASSUME TypeOK, FanInv, UNCHANGED tasks, ended \subseteq ended',
           \A t \in ended' : t \in Tasks /\ tasks[t] \in Outcomes,
           \A c \in Calls : \/ SameCounters(c)
                            \/ /\ calls'[c] = [calls[c] EXCEPT !.pc = "done"]
                               /\ TasksOf(c) \subseteq ended
    PROVE  FanInv'
<1>1. ASSUME NEW c \in Calls
      PROVE  CallInv(c)' /\ Spawned(c)' = Spawned(c) /\ TasksOf(c)' = TasksOf(c)
  <2>1. CallInv(c) /\ calls[c] \in CallStates
    BY DEF FanInv, TypeOK
  <2>2. CASE SameCounters(c)
    BY <2>1, <2>2, CallFrame DEF SameCounters, Alike
  <2>3. CASE calls'[c] = [calls[c] EXCEPT !.pc = "done"] /\ TasksOf(c) \subseteq ended
    <3>1. /\ calls'[c].pc = "done"
          /\ calls'[c].needs = calls[c].needs
          /\ calls'[c].fetched = calls[c].fetched
          /\ calls'[c].errors = calls[c].errors
      BY <2>1, <2>3 DEF CallStates
    <3> QED BY <2>1, <2>3, <3>1, CallFrame DEF Alike
  <2> QED BY <2>2, <2>3
<1>2. OwnTasks' /\ EndedInv'
  BY <1>1 DEF FanInv, OwnTasks, EndedInv
<1>3. CapInv'
  BY <1>1, CapKept DEF FanInv, Calls
<1> QED BY <1>1, <1>2, <1>3 DEF FanInv

----------------------------------------------------------------------------
(* The invariant. *)

Inv == TypeOK /\ Slots /\ FanInv

LEMMA InitInv == ASSUME Init PROVE Inv
<1>1. LimiterTypeOK /\ Slots
  <2>1. \A b \in Buckets : Full(b) \in Int
    BY Rates
  <2>2. \A j \in Buckets : [b \in 1 .. j |-> 0] \in [1 .. j -> Nat]
    OBVIOUS
  <2> QED BY <2>1, <2>2 DEF Init, LimiterInit, LimiterTypeOK, Slots, NotQueued
<1>2. NotBegun \in CallStates
  BY DEF NotBegun, CallStates
<1>3. TypeOK
  BY <1>1, <1>2 DEF Init, LimiterInit, TypeOK
<1>4. ASSUME NEW c \in Calls PROVE CallInv(c) /\ Spawned(c) = {}
  <2>1. calls[c] = NotBegun /\ DOMAIN calls[c].needs = {}
    BY DEF Init, NotBegun
  <2>2. TasksOf(c) = {} /\ GoodOf(c) = {} /\ BadOf(c) = {}
    BY <2>1 DEF TasksOf, GoodOf, BadOf
  <2>3. Cardinality({}) = 0
    BY FS_EmptySet
  <2>4. /\ calls[c].pc = "idle"
        /\ calls[c].needs = << >>
        /\ calls[c].fetched = 0
        /\ calls[c].errors = {}
    BY <2>1 DEF NotBegun
  <2> QED BY <2>1, <2>2, <2>3, <2>4 DEF CallInv, Spawned
<1>5. OwnTasks /\ EndedInv
  BY DEF Init, OwnTasks, EndedInv
<1>6. CapInv
  <2>1. Spawned(Mail) \ ended = {}
    BY <1>4 DEF Calls
  <2>2. Cardinality({}) = 0 /\ Concurrency \in Nat
    BY FS_EmptySet, ToolFanoutAssumption
  <2> QED BY <2>1, <2>2 DEF CapInv
<1> QED BY <1>1, <1>3, <1>4, <1>5, <1>6 DEF Inv, FanInv

(* What is kept of the messages that need a body, as far as max_bodies     *)
(* allows.                                                                 *)
LEMMA BeginMailInv ==
    ASSUME Inv, NEW listing \in Listings, NEW max \in MaxBodies, BeginMail(listing, max)
    PROVE  Inv'
<1> DEFINE all  == Needs(listing)
           kept == Kept(all, max)
<1>1. /\ all \in Seq(Nat \ {0})
      /\ {<<Mail, k>> : k \in DOMAIN all} \subseteq Tasks
      /\ max \in Nat
      /\ Mail \in Calls
  BY ToolFanoutAssumption DEF Calls
<1>2. /\ kept \in Seq(Nat \ {0})
      /\ DOMAIN kept \subseteq DOMAIN all
      /\ Len(all) - Len(kept) \in Nat
  <2> HIDE DEF all
  <2>1. Smaller(max, Len(all)) \in Nat /\ Smaller(max, Len(all)) <= Len(all)
    BY <1>1 DEF Smaller
  <2> QED BY <1>1, <2>1 DEF Kept
<1> DEFINE next == [calls[Mail] EXCEPT !.pc = "run", !.listing = listing, !.needs = kept,
                                       !.skipped = Len(all) - Len(kept)]
<1>3. /\ calls' = [calls EXCEPT ![Mail] = next]
      /\ calls[Mail].pc = "idle"
      /\ UNCHANGED <<limited, tasks, ended, limiterVars>>
  BY DEF BeginMail
<1> HIDE DEF all, kept
<1>4. calls[Mail] \in CallStates
  BY <1>1 DEF Inv, TypeOK
<1>5. /\ next \in CallStates
      /\ next.pc = "run"
      /\ next.needs = kept
      /\ next.fetched = calls[Mail].fetched
      /\ next.errors = calls[Mail].errors
  BY <1>2, <1>4 DEF CallStates
<1> HIDE DEF next
<1>6. /\ calls' \in [Calls -> CallStates]
      /\ calls'[Mail] = next
      /\ \A d \in Calls : d # Mail => calls'[d] = calls[d]
  BY <1>1, <1>3, <1>5 DEF Inv, TypeOK
<1>7. TasksOf(Mail)' \subseteq Tasks
  BY <1>1, <1>2, <1>5, <1>6 DEF TasksOf
<1>8. FanInv'
  BY <1>1, <1>2, <1>3, <1>5, <1>6, <1>7, BeginStep DEF Inv
<1> QED BY <1>3, <1>6, <1>8 DEF Inv, TypeOK, Slots, LimiterTypeOK, limiterVars

LEMMA BeginContextInv == ASSUME Inv, BeginContext PROVE Inv'
<1> DEFINE parts == [k \in 1 .. Parts |-> k]
           next  == [calls[Context] EXCEPT !.pc = "run", !.needs = parts]
<1>1. /\ calls' = [calls EXCEPT ![Context] = next]
      /\ calls[Context].pc = "idle"
      /\ UNCHANGED <<limited, tasks, ended, limiterVars>>
  BY DEF BeginContext
<1>2. Context \in Calls /\ calls[Context] \in CallStates
  BY DEF Inv, TypeOK, Calls
<1>3. parts \in Seq(Nat \ {0}) /\ DOMAIN parts = 1 .. Parts
  <2>1. Parts \in Nat /\ parts \in [1 .. Parts -> Nat \ {0}]
    BY ToolFanoutAssumption
  <2> QED BY <2>1, SeqDef
<1> HIDE DEF parts
<1>4. /\ next \in CallStates
      /\ next.pc = "run"
      /\ next.needs = parts
      /\ next.fetched = calls[Context].fetched
      /\ next.errors = calls[Context].errors
  BY <1>2, <1>3 DEF CallStates
<1> HIDE DEF next
<1>5. /\ calls' \in [Calls -> CallStates]
      /\ calls'[Context] = next
      /\ \A d \in Calls : d # Context => calls'[d] = calls[d]
  BY <1>1, <1>2, <1>4 DEF Inv, TypeOK
<1>6. TasksOf(Context)' \subseteq Tasks
  BY <1>3, <1>4, <1>5, ToolFanoutAssumption DEF TasksOf
<1>7. FanInv'
  BY <1>1, <1>2, <1>3, <1>4, <1>5, <1>6, BeginStep DEF Inv
<1> QED BY <1>1, <1>5, <1>7 DEF Inv, TypeOK, Slots, LimiterTypeOK, limiterVars

(* The steps of a goroutine up to its outcome, beside the limiter's.       *)
LEMMA UnqueuedInv ==
    ASSUME Inv, NEW t \in Tasks, NEW s \in {"queued", "sent"},
           tasks[t] \in {"run", "queued"}, tasks' = [tasks EXCEPT ![t] = s],
           UNCHANGED <<limited, calls, ended>>,
           LimiterTypeOK', Slots',
           queue'[t] = NotQueued <=> s = "sent",
           \A u \in Tasks : u # t => queue'[u] = queue[u]
    PROVE  Inv'
<1>1. tasks'[t] = s /\ \A u \in Tasks : u # t => tasks'[u] = tasks[u]
  BY DEF Inv, TypeOK
<1>2. TypeOK'
  BY <1>1 DEF Inv, TypeOK
<1>3. \A u \in Tasks : Alike(tasks'[u], tasks[u])
  BY <1>1 DEF Alike
<1>4. FanInv'
  BY <1>3, QuietStep DEF Inv, SameCounters
<1> QED BY <1>2, <1>4 DEF Inv

(* A goroutine ends with an outcome, out of the queue or without it.       *)
LEMMA OutcomeInv ==
    ASSUME Inv, NEW t \in Tasks, NEW outcome \in Outcomes,
           tasks[t] \in {"run", "queued", "sent"}, Conclude(t, outcome),
           LimiterTypeOK', Slots', queue'[t] = NotQueued,
           \A u \in Tasks : u # t => queue'[u] = queue[u]
    PROVE  Inv'
<1>1. FanInv' /\ calls' \in [Calls -> CallStates]
  BY ConcludeStep DEF Inv
<1>2. /\ tasks' = [tasks EXCEPT ![t] = outcome]
      /\ UNCHANGED <<limited, ended>>
  BY DEF Conclude
<1>3. tasks'[t] = outcome /\ \A u \in Tasks : u # t => tasks'[u] = tasks[u]
  BY <1>2 DEF Inv, TypeOK
<1>4. TypeOK'
  BY <1>1, <1>2, <1>3 DEF Inv, TypeOK, Outcomes
<1> QED BY <1>1, <1>4 DEF Inv

LEMMA LimiterUnchanged ==
    ASSUME Inv, UNCHANGED limiterVars PROVE LimiterTypeOK' /\ Slots' /\ queue' = queue
BY DEF Inv, TypeOK, LimiterTypeOK, Slots, limiterVars

LEMMA TaskStepInv == ASSUME Inv, NEW t \in Tasks, TaskStep(t) PROVE Inv'
<1>0. /\ TypeOK /\ LimiterTypeOK /\ Slots /\ FanInv
      /\ queue[t] # NotQueued <=> tasks[t] = "queued"
      /\ {"answer", "error"} = Outcomes
  BY DEF Inv, TypeOK, Outcomes
<1>1. CASE TakeCached(t) \/ RefusedByLimiter(t) \/ \E outcome \in Outcomes : Return(t, outcome)
  <2>1. PICK outcome \in Outcomes : Conclude(t, outcome)
    BY <1>0, <1>1 DEF TakeCached, RefusedByLimiter, Return
  <2>2. tasks[t] \in {"run", "sent"} /\ UNCHANGED limiterVars
    BY <1>1 DEF TakeCached, RefusedByLimiter, Return
  <2> QED BY <1>0, <2>1, <2>2, LimiterUnchanged, OutcomeInv
<1>2. CASE AskUnlimited(t)
  <2>1. /\ tasks[t] = "run"
        /\ tasks' = [tasks EXCEPT ![t] = "sent"]
        /\ UNCHANGED <<limited, calls, ended, limiterVars>>
    BY <1>2 DEF AskUnlimited
  <2> QED BY <1>0, <2>1, LimiterUnchanged, UnqueuedInv
<1>3. CASE AskLimited(t)
  <2>1. /\ tasks[t] = "run"
        /\ tasks' = [tasks EXCEPT ![t] = "queued"]
        /\ UNCHANGED <<limited, calls, ended>>
        /\ Queue(t, 1)
        /\ passed' = passed
    BY <1>3 DEF AskLimited, Wait
  <2> QED BY <1>0, <2>1, BucketsAre, PassTypes, QueueTypes, UnqueuedInv
<1>4. CASE QueueOn(t)
  <2>1. /\ tasks[t] = "queued"
        /\ UNCHANGED <<limited, calls, tasks, ended>>
        /\ queue[t].bucket \in Buckets
        /\ queue[t].bucket + 1 \in Buckets
        /\ Queue(t, queue[t].bucket + 1)
        /\ passed' = [passed EXCEPT ![queue[t].bucket] = Meters(queue[t].bucket)]
    BY <1>4 DEF QueueOn, NextBucket
  <2>2. tasks' = [tasks EXCEPT ![t] = "queued"]
    BY <1>0, <2>1 DEF TypeOK
  <2>3. PassedTypes'
    BY <1>0, <2>1, PassTypes
  <2> QED BY <1>0, <2>1, <2>2, <2>3, QueueTypes, UnqueuedInv
<1>5. CASE Send(t)
  <2>1. /\ tasks[t] = "queued"
        /\ tasks' = [tasks EXCEPT ![t] = "sent"]
        /\ UNCHANGED <<limited, calls, ended>>
        /\ Pass(t)
    BY <1>5 DEF Send
  <2> QED BY <1>0, <2>1, LeaveTypes, UnqueuedInv
<1>6. CASE LeaveQueue(t)
  <2>1. tasks[t] = "queued" /\ Cancel(t) /\ Conclude(t, "error")
    BY <1>6 DEF LeaveQueue
  <2> QED BY <1>0, <2>1, LeaveTypes, OutcomeInv
<1>7. CASE Finish(t)
  <2>1. /\ tasks[t] \in Outcomes
        /\ ended' = ended \union {t}
        /\ UNCHANGED <<limited, calls, tasks, limiterVars>>
    BY <1>7 DEF Finish
  <2>2. \A u \in ended' : u \in Tasks /\ tasks[u] \in Outcomes
    BY <1>0, <2>1 DEF FanInv, EndedInv, TypeOK
  <2>3. FanInv'
    BY <1>0, <2>1, <2>2, EndStep DEF SameCounters
  <2>4. TypeOK'
    BY <1>0, <2>1, LimiterUnchanged DEF TypeOK
  <2> QED BY <2>1, <2>3, <2>4, LimiterUnchanged DEF Inv
<1> QED BY <1>1, <1>2, <1>3, <1>4, <1>5, <1>6, <1>7 DEF TaskStep

LEMMA CallStepInv ==
    ASSUME Inv, NEW c \in Calls, CallStep(c) \/ ContextEnds(c) PROVE Inv'
<1>0. TypeOK /\ FanInv /\ calls[c] \in CallStates
  BY DEF Inv, TypeOK
<1>1. CASE Spawn(c)
  <2>1. PICK t \in Tasks : tasks[t] = "none" /\ tasks' = [tasks EXCEPT ![t] = "run"]
    BY <1>0, <1>1, SpawnStep
  <2>2. tasks'[t] = "run" /\ \A u \in Tasks : u # t => tasks'[u] = tasks[u]
    BY <1>0, <2>1 DEF TypeOK
  <2>3. UNCHANGED <<limited, calls, ended, limiterVars>>
    BY <1>1 DEF Spawn
  <2>4. TypeOK'
    BY <1>0, <2>1, <2>2, <2>3, LimiterUnchanged DEF TypeOK
  <2> QED BY <1>0, <1>1, <2>3, <2>4, LimiterUnchanged, SpawnStep DEF Inv
<1>2. CASE Join(c)
  <2>1. /\ TasksOf(c) \subseteq ended
        /\ calls' = [calls EXCEPT ![c].pc = "done"]
        /\ UNCHANGED <<limited, tasks, ended, limiterVars>>
    BY <1>2 DEF Join
  <2>2. [calls[c] EXCEPT !.pc = "done"] \in CallStates
    BY <1>0 DEF CallStates
  <2>3. /\ calls' \in [Calls -> CallStates]
        /\ calls'[c] = [calls[c] EXCEPT !.pc = "done"]
        /\ \A d \in Calls : d # c => calls'[d] = calls[d]
    BY <1>0, <2>1, <2>2 DEF TypeOK
  <2>4. \A u \in ended' : u \in Tasks /\ tasks[u] \in Outcomes
    BY <1>0, <2>1 DEF FanInv, EndedInv, TypeOK
  <2>5. FanInv'
    BY <1>0, <2>1, <2>3, <2>4, EndStep DEF SameCounters
  <2>6. TypeOK'
    BY <1>0, <2>1, <2>3, LimiterUnchanged DEF TypeOK
  <2> QED BY <2>1, <2>5, <2>6, LimiterUnchanged DEF Inv
<1>3. CASE ContextEnds(c)
  <2>1. /\ calls' = [calls EXCEPT ![c].cancelled = TRUE]
        /\ UNCHANGED <<limited, tasks, ended, limiterVars>>
    BY <1>3 DEF ContextEnds
  <2>2. [calls[c] EXCEPT !.cancelled = TRUE] \in CallStates
    BY <1>0 DEF CallStates
  <2>3. /\ calls' \in [Calls -> CallStates]
        /\ calls'[c] = [calls[c] EXCEPT !.cancelled = TRUE]
        /\ \A d \in Calls : d # c => calls'[d] = calls[d]
    BY <1>0, <2>1, <2>2 DEF TypeOK
  <2>4. \A d \in Calls : SameCounters(d)
    BY <1>0, <2>3 DEF SameCounters, CallStates
  <2>5. FanInv'
    BY <1>0, <2>1, <2>4, QuietStep DEF Alike
  <2>6. TypeOK'
    BY <1>0, <2>1, <2>3, LimiterUnchanged DEF TypeOK
  <2> QED BY <2>1, <2>5, <2>6, LimiterUnchanged DEF Inv
<1> QED BY <1>1, <1>2, <1>3 DEF CallStep

LEMMA TickInv == ASSUME Inv, Tick PROVE Inv'
<1>1. TypeOK /\ LimiterTypeOK /\ Slots /\ FanInv
  BY DEF Inv, TypeOK
<1>2. LimiterTick /\ UNCHANGED <<limited, calls, tasks, ended>>
  BY DEF Tick
<1>3. /\ LimiterTypeOK' /\ Slots'
      /\ \A u \in Tasks : queue'[u] = NotQueued <=> queue[u] = NotQueued
  BY <1>1, <1>2, TickTypes
<1>4. TypeOK'
  BY <1>1, <1>2, <1>3 DEF TypeOK
<1>5. FanInv'
  BY <1>1, <1>2, QuietStep DEF SameCounters, Alike
<1> QED BY <1>3, <1>4, <1>5 DEF Inv

LEMMA StutterInv == ASSUME Inv, UNCHANGED vars PROVE Inv'
<1>1. TypeOK' /\ Slots'
  BY DEF Inv, TypeOK, LimiterTypeOK, Slots, vars
<1>2. FanInv'
  BY QuietStep DEF Inv, vars, SameCounters, Alike
<1> QED BY <1>1, <1>2 DEF Inv

LEMMA Invariance == Spec => []Inv
<1>1. ASSUME Inv, [Next]_vars PROVE Inv'
  BY <1>1, BeginMailInv, BeginContextInv, TaskStepInv, CallStepInv, TickInv, StutterInv
     DEF Next
<1> QED BY <1>1, InitInv, PTL DEF Spec

----------------------------------------------------------------------------
(* The theorems. *)

(* TypeOK holds: also, a goroutine waits in the limiter exactly while it   *)
(* is queued: nobody who was cancelled or has been sent is still there.    *)
THEOREM Typing == Spec => []TypeOK
<1>1. Inv => TypeOK
  BY DEF Inv
<1> QED BY <1>1, Invariance, PTL

(* BackfillsCapped holds: whoever waits for a token or for an answer has a *)
(* slot of the semaphore.                                                  *)
THEOREM CapHolds == Spec => []BackfillsCapped
<1>1. Inv => BackfillsCapped
  <2> SUFFICES ASSUME Inv PROVE BackfillsCapped
    OBVIOUS
  <2> DEFINE asking == {t \in Tasks : t[1] = Mail /\ tasks[t] \in {"queued", "sent"}}
             slots  == Spawned(Mail) \ ended
  <2>1. TypeOK /\ FanInv /\ Mail \in Calls
    BY DEF Inv, Calls
  <2>2. ASSUME NEW t \in asking PROVE t \in slots
    <3>1. PICK c \in Calls : t \in TasksOf(c)
      BY <2>1, <2>2 DEF FanInv, OwnTasks
    <3>2. c = Mail
      BY <2>2, <3>1 DEF TasksOf
    <3>3. t \notin ended
      BY <2>1, <2>2 DEF FanInv, EndedInv, Outcomes
    <3> QED BY <2>2, <3>1, <3>2, <3>3 DEF Spawned
  <2>3. IsFiniteSet(slots)
    BY <2>1, TasksFinite, FS_Subset
  <2>4. asking \subseteq slots
    BY <2>2
  <2> HIDE DEF asking, slots
  <2>5. /\ Cardinality(asking) <= Cardinality(slots)
        /\ Cardinality(asking) \in Nat
        /\ Cardinality(slots) \in Nat
    BY <2>3, <2>4, FS_Subset, FS_CardinalityType
  <2>6. Cardinality(slots) <= Concurrency /\ Concurrency \in Nat
    BY <2>1, ToolFanoutAssumption DEF FanInv, CapInv, slots
  <2>7. Cardinality(asking) <= Concurrency
    BY <2>5, <2>6
  <2> QED BY <2>7 DEF BackfillsCapped, asking
<1> QED BY <1>1, Invariance, PTL

(* What a call has taken up of what it was asked for, and what it skips.   *)
Due(c) ==
    /\ calls[c].pc = "idle" => calls[c].skipped = 0
    /\ calls[c].pc # "idle" =>
           /\ c = Mail => calls[c].listing \in Listings
           /\ Len(calls[c].needs) + calls[c].skipped = Len(Asked(c))
           /\ \A k \in DOMAIN calls[c].needs :
                  k \in DOMAIN Asked(c) /\ calls[c].needs[k] = Asked(c)[k]

DueInv == \A c \in Calls : Due(c)

SameDue(c) ==
    /\ calls[c].pc = "idle" <=> calls'[c].pc = "idle"
    /\ calls'[c].listing = calls[c].listing
    /\ calls'[c].needs = calls[c].needs
    /\ calls'[c].skipped = calls[c].skipped

(* A call that goes on with what it has taken up. *)
LEMMA DueFrame ==
    ASSUME NEW c \in Calls, Due(c), \A d \in Calls : SameDue(d) PROVE Due(c)'
<1>1. Mail \in Calls
  BY DEF Calls
<1>2. Asked(c)' = Asked(c)
  BY <1>1 DEF Asked, SameDue
<1> QED BY <1>2 DEF Due, SameDue

(* Once a call has begun, its steps take up nothing else. *)
LEMMA DueKept ==
    ASSUME TypeOK, NEW c \in Calls,
           \/ \E d \in Calls : CallStep(d) \/ ContextEnds(d)
           \/ \E t \in Tasks : TaskStep(t) /\ \E d \in Calls : t \in TasksOf(d)
           \/ Tick \/ UNCHANGED vars
    PROVE  SameDue(c)
<1>0. calls \in [Calls -> CallStates]
  BY DEF TypeOK
<1>1. ASSUME NEW d \in Calls, CallStep(d) \/ ContextEnds(d) PROVE SameDue(c)
  <2>1. \/ calls' = calls
        \/ calls[d].pc = "run" /\ calls' = [calls EXCEPT ![d].pc = "done"]
        \/ calls' = [calls EXCEPT ![d].cancelled = TRUE]
    BY <1>1 DEF CallStep, Spawn, Join, ContextEnds
  <2>2. calls[c] \in CallStates
    BY <1>0
  <2>3. \/ calls'[c] = calls[c]
        \/ calls[c].pc = "run" /\ calls'[c] = [calls[c] EXCEPT !.pc = "done"]
        \/ calls'[c] = [calls[c] EXCEPT !.cancelled = TRUE]
    BY <1>0, <2>1
  <2> QED BY <2>2, <2>3 DEF SameDue, CallStates
<1>2. ASSUME NEW t \in Tasks, TaskStep(t), NEW d \in Calls, t \in TasksOf(d) PROVE SameDue(c)
  <2>1. t[1] = d
    BY <1>2 DEF TasksOf
  <2>2. calls' = calls \/ \E outcome \in Outcomes : Conclude(t, outcome)
    BY <1>2 DEF TaskStep, TakeCached, AskUnlimited, AskLimited, RefusedByLimiter, QueueOn,
                Send, LeaveQueue, Return, Finish, Outcomes
  <2>3. \/ calls' = calls
        \/ \E x : calls' = [calls EXCEPT ![d].errors = x]
        \/ \E x : calls' = [calls EXCEPT ![d].fetched = x]
    <3>1. CASE calls' = calls
      BY <3>1
    <3>2. ASSUME NEW outcome \in Outcomes, Conclude(t, outcome)
          PROVE  \/ \E x : calls' = [calls EXCEPT ![d].errors = x]
                 \/ \E x : calls' = [calls EXCEPT ![d].fetched = x]
      <4>1. CASE outcome = "error"
        BY <2>1, <3>2, <4>1 DEF Conclude
      <4>2. CASE outcome # "error"
        BY <2>1, <3>2, <4>2 DEF Conclude
      <4> QED BY <4>1, <4>2
    <3> QED BY <2>2, <3>1, <3>2
  <2>4. calls[c] \in CallStates
    BY <1>0
  <2>5. \/ calls'[c] = calls[c]
        \/ \E x : calls'[c] = [calls[c] EXCEPT !.errors = x]
        \/ \E x : calls'[c] = [calls[c] EXCEPT !.fetched = x]
    BY <1>0, <2>3
  <2> QED BY <2>4, <2>5 DEF SameDue, CallStates
<1>3. CASE Tick \/ UNCHANGED vars
  BY <1>3 DEF Tick, vars, SameDue
<1> QED BY <1>1, <1>2, <1>3

(* The mail call takes up the first messages in need, and skips the rest.  *)
LEMMA DueMail ==
    ASSUME Inv, DueInv, NEW listing \in Listings, NEW max \in MaxBodies,
           BeginMail(listing, max)
    PROVE  DueInv'
<1> DEFINE all  == Needs(listing)
           kept == Kept(all, max)
<1>1. all \in Seq(Nat \ {0}) /\ max \in Nat /\ Mail \in Calls
  BY ToolFanoutAssumption DEF Calls
<1>2. /\ DOMAIN kept \subseteq DOMAIN all
      /\ \A k \in DOMAIN kept : kept[k] = all[k]
      /\ Len(kept) + (Len(all) - Len(kept)) = Len(all)
  <2> HIDE DEF all
  <2>1. Smaller(max, Len(all)) \in Nat /\ Smaller(max, Len(all)) <= Len(all)
    BY <1>1 DEF Smaller
  <2> QED BY <1>1, <2>1 DEF Kept
<1>3. calls \in [Calls -> CallStates] /\ calls[Mail] \in CallStates
  BY <1>1 DEF Inv, TypeOK
<1>4. /\ calls'[Mail].pc = "run"
      /\ calls'[Mail].listing = listing
      /\ calls'[Mail].needs = kept
      /\ calls'[Mail].skipped = Len(all) - Len(kept)
      /\ \A d \in Calls : d # Mail => calls'[d] = calls[d]
  BY <1>1, <1>3 DEF BeginMail, CallStates
<1>5. Asked(Mail)' = all
  BY <1>4 DEF Asked
<1> HIDE DEF all, kept
<1>6. Due(Mail)'
  BY <1>2, <1>4, <1>5 DEF Due
<1>7. ASSUME NEW d \in Calls, d # Mail PROVE Due(d)'
  <2>1. Due(d) /\ calls'[d] = calls[d] /\ Asked(d)' = Asked(d)
    BY <1>4, <1>7 DEF DueInv, Asked
  <2> QED BY <1>7, <2>1 DEF Due
<1> QED BY <1>6, <1>7 DEF DueInv

(* context.get takes up all its parts. *)
LEMMA DueContext == ASSUME Inv, DueInv, BeginContext PROVE DueInv'
<1>1. Context \in Calls /\ Context # Mail /\ Parts \in Nat
  BY ToolFanoutAssumption DEF Calls, Context, Mail
<1>2. calls \in [Calls -> CallStates] /\ calls[Context] \in CallStates
  BY <1>1 DEF Inv, TypeOK
<1>3. /\ calls'[Context].needs = [k \in 1 .. Parts |-> k]
      /\ calls'[Context].skipped = calls[Context].skipped
      /\ calls[Context].pc = "idle"
      /\ \A d \in Calls : d # Context => calls'[d] = calls[d]
  BY <1>1, <1>2 DEF BeginContext, CallStates
<1>4. Asked(Context)' = [k \in 1 .. Parts |-> k]
  BY <1>1 DEF Asked
<1> DEFINE parts == [k \in 1 .. Parts |-> k]
<1>5. /\ parts \in Seq(Nat) /\ Len(parts) = Parts /\ DOMAIN parts = 1 .. Parts
      /\ \A k \in DOMAIN parts : parts[k] = k
  <2>1. parts \in [1 .. Parts -> Nat] /\ DOMAIN parts = 1 .. Parts
    OBVIOUS
  <2> QED BY <1>1, <2>1, SeqDef, LenProperties
<1>6. Due(Context)'
  <2>1. calls[Context].skipped = 0 /\ calls'[Context].pc = "run"
    BY <1>1, <1>2, <1>3 DEF DueInv, Due, BeginContext, CallStates
  <2>2. calls'[Context].needs = parts /\ Asked(Context)' = parts /\ Context # Mail
    BY <1>1, <1>3, <1>4
  <2> HIDE DEF parts
  <2> QED BY <1>1, <1>3, <1>5, <2>1, <2>2 DEF Due
<1>7. ASSUME NEW d \in Calls, d # Context PROVE Due(d)'
  <2>1. Due(d) /\ calls'[d] = calls[d] /\ Asked(d)' = Asked(d)
    <3>1. Due(d) /\ calls'[d] = calls[d]
      BY <1>3, <1>7 DEF DueInv
    <3>2. Mail \in Calls /\ calls'[Mail] = calls[Mail]
      BY <1>1, <1>3 DEF Calls
    <3> QED BY <3>1, <3>2 DEF Asked
  <2> QED BY <1>7, <2>1 DEF Due
<1> QED BY <1>6, <1>7 DEF DueInv

LEMMA DueInvariance == Spec => []DueInv
<1>1. ASSUME Init PROVE DueInv
  BY <1>1 DEF Init, NotBegun, DueInv, Due
<1>2. ASSUME Inv, DueInv, [Next]_vars PROVE DueInv'
  <2>1. TypeOK /\ FanInv
    BY <1>2 DEF Inv
  <2>2. ASSUME NEW listing \in Listings, NEW max \in MaxBodies, BeginMail(listing, max)
        PROVE  DueInv'
    BY <1>2, <2>2, DueMail
  <2>3. ASSUME BeginContext PROVE DueInv'
    BY <1>2, <2>3, DueContext
  <2>4. ASSUME NEW t \in Tasks, TaskStep(t) PROVE \E d \in Calls : t \in TasksOf(d)
    <3>1. tasks[t] # "none"
      BY <2>4 DEF TaskStep, TakeCached, AskUnlimited, AskLimited, RefusedByLimiter, QueueOn,
                  Send, LeaveQueue, Return, Finish, Outcomes
    <3> QED BY <2>1, <3>1 DEF FanInv, OwnTasks
  <2>5. ASSUME \/ \E d \in Calls : CallStep(d) \/ ContextEnds(d)
               \/ \E t \in Tasks : TaskStep(t)
               \/ Tick \/ UNCHANGED vars
        PROVE  DueInv'
    <3>1. \A c \in Calls : SameDue(c)
      BY <2>1, <2>4, <2>5, DueKept
    <3>2. \A c \in Calls : Due(c)
      BY <1>2 DEF DueInv
    <3> QED BY <3>1, <3>2, DueFrame DEF DueInv
  <2> QED BY <1>2, <2>2, <2>3, <2>5 DEF Next
<1> QED BY <1>1, <1>2, Invariance, PTL DEF Spec

(* AnswerAccounts holds: nothing of a call that is done runs any more, and *)
(* what was fetched, what failed and what was skipped is together what the *)
(* listing lacked, for every listing and every max_bodies.                 *)
THEOREM AccountsHold == Spec => []AnswerAccounts
<1>1. ASSUME Inv, DueInv, NEW c \in Calls, calls[c].pc = "done"
      PROVE  LET asked == Asked(c)
                 good  == {k \in DOMAIN asked : tasks[<<c, k>>] = "answer"}
                 bad   == {k \in DOMAIN asked : tasks[<<c, k>>] = "error"}
             IN  /\ \A t \in Tasks : t[1] = c => tasks[t] \in Outcomes \union {"none"}
                 /\ calls[c].fetched = Cardinality(good)
                 /\ calls[c].errors = {asked[k] : k \in bad}
                 /\ Cardinality(good) + Cardinality(bad) + calls[c].skipped = Len(asked)
  <2>1. TypeOK /\ CallInv(c) /\ EndedInv /\ OwnTasks /\ Due(c)
    BY <1>1 DEF Inv, FanInv, DueInv
  <2>2. \A t \in TasksOf(c) : tasks[t] \in Outcomes
    BY <1>1, <2>1 DEF CallInv, EndedInv
  <2>3. ASSUME NEW t \in Tasks, t[1] = c PROVE tasks[t] \in Outcomes \union {"none"}
    <3>1. CASE tasks[t] # "none"
      <4>1. PICK d \in Calls : t \in TasksOf(d)
        BY <2>1, <3>1 DEF OwnTasks
      <4>2. t[1] = d
        BY <4>1 DEF TasksOf
      <4> QED BY <2>2, <2>3, <4>1, <4>2
    <3> QED BY <3>1
  <2>4. ASSUME NEW k \in DOMAIN Asked(c), tasks[<<c, k>>] \in Outcomes
        PROVE  k \in DOMAIN calls[c].needs
    <3>1. <<c, k>> \in Tasks
      BY <1>1, <2>1, ToolFanoutAssumption DEF Due, Asked, Calls
    <3>2. PICK d \in Calls : <<c, k>> \in TasksOf(d)
      BY <2>1, <2>4, <3>1 DEF OwnTasks, Outcomes
    <3> QED BY <3>2 DEF TasksOf
  <2>5. /\ {k \in DOMAIN Asked(c) : tasks[<<c, k>>] = "answer"} = GoodOf(c)
        /\ {k \in DOMAIN Asked(c) : tasks[<<c, k>>] = "error"} = BadOf(c)
    BY <1>1, <2>1, <2>4 DEF Due, GoodOf, BadOf, Outcomes
  <2>6. /\ GoodOf(c) \union BadOf(c) = DOMAIN calls[c].needs
        /\ GoodOf(c) \intersect BadOf(c) = {}
    BY <2>2 DEF GoodOf, BadOf, TasksOf, Outcomes
  <2>7. Cardinality(GoodOf(c)) + Cardinality(BadOf(c)) = Len(calls[c].needs)
    <3>1. calls[c].needs \in Seq(Nat \ {0})
      BY <2>1 DEF TypeOK, CallStates
    <3>2. /\ DOMAIN calls[c].needs = 1 .. Len(calls[c].needs)
          /\ Len(calls[c].needs) \in Nat
      BY <3>1
    <3>3. /\ IsFiniteSet(DOMAIN calls[c].needs)
          /\ Cardinality(DOMAIN calls[c].needs) = Len(calls[c].needs)
      BY <3>2, FS_Interval
    <3>4. IsFiniteSet(GoodOf(c)) /\ IsFiniteSet(BadOf(c))
      BY <3>3, FS_Subset DEF GoodOf, BadOf
    <3>5. /\ Cardinality(GoodOf(c) \union BadOf(c))
                 = Cardinality(GoodOf(c)) + Cardinality(BadOf(c))
                       - Cardinality(GoodOf(c) \intersect BadOf(c))
          /\ Cardinality(GoodOf(c)) \in Nat /\ Cardinality(BadOf(c)) \in Nat
      BY <3>4, FS_Union, FS_CardinalityType
    <3>6. Cardinality(GoodOf(c) \intersect BadOf(c)) = 0
      BY <2>6, FS_EmptySet
    <3>7. Cardinality(GoodOf(c) \union BadOf(c)) = Len(calls[c].needs)
      BY <2>6, <3>3
    <3> QED BY <3>5, <3>6, <3>7
  <2>8. calls[c].fetched = Cardinality(GoodOf(c))
    BY <2>1 DEF CallInv
  <2>9. calls[c].errors = {Asked(c)[k] : k \in BadOf(c)}
    <3>1. \A k \in BadOf(c) : calls[c].needs[k] = Asked(c)[k]
      BY <1>1, <2>1 DEF Due, BadOf
    <3> QED BY <2>1, <3>1 DEF CallInv
  <2>10. Len(calls[c].needs) + calls[c].skipped = Len(Asked(c))
    BY <1>1, <2>1 DEF Due
  <2> QED BY <2>3, <2>5, <2>7, <2>8, <2>9, <2>10
<1>2. Inv /\ DueInv => AnswerAccounts
  BY <1>1 DEF AnswerAccounts
<1> QED BY <1>2, Invariance, DueInvariance, PTL

(* What a step of the goroutines does to the limiter. *)
LEMMA LimiterSteps ==
    ASSUME [Next]_vars
    PROVE  \/ \E t \in Tasks : Wait(t) \/ NextBucket(t) \/ Pass(t) \/ Cancel(t)
           \/ LimiterTick
           \/ UNCHANGED limiterVars
<1>1. ASSUME NEW listing \in Listings, NEW max \in MaxBodies, BeginMail(listing, max)
      PROVE  UNCHANGED limiterVars
  BY <1>1 DEF BeginMail
<1>2. ASSUME BeginContext PROVE UNCHANGED limiterVars
  BY <1>2 DEF BeginContext
<1>3. ASSUME NEW c \in Calls, CallStep(c) \/ ContextEnds(c) PROVE UNCHANGED limiterVars
  BY <1>3 DEF CallStep, Spawn, Join, ContextEnds
<1>4. ASSUME NEW t \in Tasks, TaskStep(t)
      PROVE  Wait(t) \/ NextBucket(t) \/ Pass(t) \/ Cancel(t) \/ UNCHANGED limiterVars
  BY <1>4 DEF TaskStep, TakeCached, AskUnlimited, AskLimited, RefusedByLimiter, QueueOn,
              Send, LeaveQueue, Return, Finish
<1>5. ASSUME UNCHANGED vars PROVE UNCHANGED limiterVars
  BY <1>5 DEF vars, limiterVars
<1> QED BY <1>1, <1>2, <1>3, <1>4, <1>5 DEF Next, Tick

(* SendsWithinLimits holds: however many goroutines of the two calls wait, *)
(* come late, are cancelled or have been delayed by another bucket, no     *)
(* bucket's burst and rate are exceeded by what is sent.                   *)
THEOREM LimitsHold == Spec => []SendsWithinLimits
<1>1. Init => LimiterInv
  BY LimiterStarts DEF Init
<1>2. ASSUME Inv, LimiterInv, [Next]_vars PROVE LimiterInv'
  <2>1. LimiterTypeOK
    BY <1>2 DEF Inv, TypeOK
  <2>2. ASSUME NEW t \in Tasks, Wait(t) \/ NextBucket(t) \/ Pass(t) \/ Cancel(t)
        PROVE  LimiterInv'
    BY <1>2, <2>1, <2>2, WaitKeeps, NextBucketKeeps, PassKeeps, CancelKeeps
  <2>3. CASE LimiterTick
    BY <1>2, <2>1, <2>3, TickKeeps
  <2>4. CASE UNCHANGED limiterVars
    BY <1>2, <2>4, LimiterRests
  <2> QED BY <1>2, <2>2, <2>3, <2>4, LimiterSteps
<1>3. LimiterInv => SendsWithinLimits
  BY InvGivesLimits
<1> QED BY <1>1, <1>2, <1>3, Invariance, PTL DEF Spec
=============================================================================
