------------------------- MODULE FieldOptionsProofs -------------------------
(***************************************************************************)
(* Proofs about FieldOptions, for any callers, labels and ids: calls of    *)
(* add_option that overlap never give two options one label, and a label   *)
(* that one of them has reported is lost to an overlap only.               *)
(***************************************************************************)
EXTENDS FieldOptions, SequenceTheorems, WellFoundedInduction, TLAPS

----------------------------------------------------------------------------
(* The merge, one label of the arguments at a time. *)

Merge(seen, acc, l) ==
    IF l \in LabelsOf(seen) \union ToSet(acc) THEN acc ELSE Append(acc, l)

(* The recursion by which FoldLeft merges the arguments whose places are   *)
(* in `places`.                                                            *)
Merges(iter, args, seen, places) ==
    iter = [s \in SUBSET places |->
              IF s = {} THEN << >> ELSE Merge(seen, iter[s \ {Max(s)}], args[Max(s)])]

LEMMA AddedByRecursion ==
    ASSUME NEW args, NEW seen, \E iter : Merges(iter, args, seen, DOMAIN args)
    PROVE  \E iter : /\ Merges(iter, args, seen, DOMAIN args)
                     /\ Added(args, seen) = iter[DOMAIN args]
<1>1. Added(args, seen) = (CHOOSE iter : Merges(iter, args, seen, DOMAIN args))[DOMAIN args]
  BY DEF Added, FoldLeft, MapThenFoldSet, Merges, Merge
<1> QED BY <1>1

(* A set of numbers has a least one, which stands here for induction. *)
LEMMA LeastNumber ==
    ASSUME NEW T, T \subseteq Nat, T # {}
    PROVE  \E x \in T : \A y \in T : x <= y
<1>1. PICK x \in T : \A y \in T : ~(<<y, x>> \in OpToRel(<, Nat))
  BY NatLessThanWellFounded, WFMin
<1>2. OpToRel(<, Nat) = {pair \in Nat \X Nat : pair[1] < pair[2]}
  BY DEF OpToRel
<1>3. ASSUME NEW y \in T PROVE x <= y
  <2>1. ~(y < x)
    BY <1>1, <1>2
  <2> QED BY <2>1
<1> QED BY <1>3

LEMMA MaxIsLast ==
    ASSUME NEW n \in Nat, NEW s \in SUBSET (1 .. n), n \in s
    PROVE  Max(s) = n
<1>1. \A x \in s : (\A y \in s : x >= y) <=> x = n
  OBVIOUS
<1> QED BY <1>1 DEF Max

(* A recursion over the places up to n goes on to the next one. *)
LEMMA MergesOneMore ==
    ASSUME NEW args, NEW seen, NEW n \in Nat,
           NEW f, Merges(f, args, seen, 1 .. n)
    PROVE  \E g : Merges(g, args, seen, 1 .. n + 1)
<1> DEFINE g == [s \in SUBSET (1 .. n + 1) |->
                   IF n + 1 \in s THEN Merge(seen, f[s \ {n + 1}], args[n + 1]) ELSE f[s]]
           Next1(h, s) ==
               IF s = {} THEN << >> ELSE Merge(seen, h[s \ {Max(s)}], args[Max(s)])
<1>1. \A s \in SUBSET (1 .. n) : f[s] = Next1(f, s)
  BY DEF Merges
<1>2. \A s \in SUBSET (1 .. n + 1) :
          /\ s \ {n + 1} \in SUBSET (1 .. n)
          /\ n + 1 \notin s => s \in SUBSET (1 .. n)
  OBVIOUS
<1>3. \A s \in SUBSET (1 .. n) : s \in SUBSET (1 .. n + 1) /\ n + 1 \notin s
  OBVIOUS
<1>4. \A s \in SUBSET (1 .. n + 1) :
          g[s] = IF n + 1 \in s THEN Merge(seen, f[s \ {n + 1}], args[n + 1]) ELSE f[s]
  OBVIOUS
<1>5. g = [s \in SUBSET (1 .. n + 1) |-> g[s]]
  OBVIOUS
<1> HIDE DEF g
<1>6. \A s \in SUBSET (1 .. n) : g[s] = f[s]
  BY <1>3, <1>4
<1>7. ASSUME NEW s \in SUBSET (1 .. n + 1) PROVE g[s] = Next1(g, s)
  <2>1. CASE n + 1 \in s
    <3>1. Max(s) = n + 1
      BY <2>1, MaxIsLast
    <3>2. g[s] = Merge(seen, g[s \ {n + 1}], args[n + 1])
      BY <1>2, <1>4, <1>6, <2>1
    <3>3. s # {}
      BY <2>1
    <3> QED BY <3>1, <3>2, <3>3, Zenon
  <2>2. CASE n + 1 \notin s
    <3>1. s \in SUBSET (1 .. n) /\ s \ {Max(s)} \in SUBSET (1 .. n)
      BY <1>2, <2>2
    <3>2. g[s] = f[s] /\ g[s \ {Max(s)}] = f[s \ {Max(s)}]
      BY <1>6, <3>1
    <3> QED BY <1>1, <3>1, <3>2
  <2> QED BY <2>1, <2>2
<1>8. g = [s \in SUBSET (1 .. n + 1) |-> Next1(g, s)]
  BY <1>5, <1>7
<1>9. Merges(g, args, seen, 1 .. n + 1)
  BY <1>8, Zenon DEF Merges
<1> QED BY <1>9

LEMMA MergesExist ==
    ASSUME NEW args, NEW seen, NEW n \in Nat
    PROVE  \E f : Merges(f, args, seen, 1 .. n)
<1> DEFINE Failing == {k \in Nat : ~\E f : Merges(f, args, seen, 1 .. k)}
<1> SUFFICES ASSUME Failing # {} PROVE FALSE
  OBVIOUS
<1>1. PICK k \in Failing : \A y \in Failing : k <= y
  BY LeastNumber
<1>2. CASE k = 0
  <2> DEFINE f == [s \in SUBSET (1 .. 0) |-> << >>]
  <2>1. \A s \in SUBSET (1 .. 0) : s = {}
    OBVIOUS
  <2>2. f = [s \in SUBSET (1 .. 0) |->
               IF s = {} THEN << >> ELSE Merge(seen, f[s \ {Max(s)}], args[Max(s)])]
    BY <2>1
  <2>3. Merges(f, args, seen, 1 .. 0)
    BY <2>2, Zenon DEF Merges
  <2> QED BY <1>1, <1>2, <2>3
<1>3. CASE k # 0
  <2>1. k - 1 \in Nat /\ k - 1 \notin Failing /\ (k - 1) + 1 = k
    BY <1>1, <1>3
  <2>2. PICK f : Merges(f, args, seen, 1 .. k - 1)
    BY <2>1
  <2>3. \E g : Merges(g, args, seen, 1 .. (k - 1) + 1)
    BY <2>1, <2>2, MergesOneMore, Zenon
  <2> QED BY <1>1, <2>1, <2>3
<1> QED BY <1>2, <1>3

(* Labels that can be added to `seen`: new ones, each of them once. *)
Fresh(added, seen) ==
    /\ added \in Seq(Labels)
    /\ \A n \in DOMAIN added : added[n] \notin LabelsOf(seen)
    /\ \A m, n \in DOMAIN added : added[m] = added[n] => m = n

LEMMA MergeKeepsFresh ==
    ASSUME NEW seen, NEW acc, NEW l \in Labels, Fresh(acc, seen)
    PROVE  Fresh(Merge(seen, acc, l), seen)
<1>1. CASE l \in LabelsOf(seen) \union ToSet(acc)
  BY <1>1 DEF Merge
<1>2. CASE l \notin LabelsOf(seen) \union ToSet(acc)
  <2> DEFINE n == Len(acc)
             longer == Append(acc, l)
  <2>1. acc \in Seq(Labels) /\ n \in Nat /\ DOMAIN acc = 1 .. n
    BY LenProperties DEF Fresh
  <2>2. /\ longer \in Seq(Labels) /\ DOMAIN longer = 1 .. n + 1
        /\ longer[n + 1] = l /\ \A i \in 1 .. n : longer[i] = acc[i]
    BY <2>1, AppendProperties, LenProperties
  <2>3. Merge(seen, acc, l) = longer
    BY <1>2 DEF Merge
  <2> HIDE DEF longer, n
  <2>4. \A i \in 1 .. n : acc[i] # l
    BY <1>2, <2>1 DEF ToSet
  <2>5. ASSUME NEW i \in 1 .. n + 1 PROVE longer[i] \notin LabelsOf(seen)
    BY <1>2, <2>1, <2>2 DEF Fresh
  <2>6. ASSUME NEW i \in 1 .. n + 1, NEW j \in 1 .. n + 1, longer[i] = longer[j]
        PROVE  i = j
    BY <2>1, <2>2, <2>4, <2>6 DEF Fresh
  <2> QED BY <2>2, <2>3, <2>5, <2>6 DEF Fresh
<1> QED BY <1>1, <1>2

LEMMA AddedIsFresh ==
    ASSUME NEW args \in Arguments, NEW seen
    PROVE  Fresh(Added(args, seen), seen)
<1> PICK n \in Nat : args \in [1 .. n -> Labels]
  BY FieldOptionsAssumption DEF Arguments
<1>1. PICK iter : Merges(iter, args, seen, 1 .. n) /\ Added(args, seen) = iter[1 .. n]
  <2>1. \E f : Merges(f, args, seen, DOMAIN args)
    BY MergesExist
  <2> QED BY <2>1, AddedByRecursion
<1>2. \A s \in SUBSET (1 .. n) :
          iter[s] = IF s = {} THEN << >> ELSE Merge(seen, iter[s \ {Max(s)}], args[Max(s)])
  BY <1>1 DEF Merges
<1>3. Fresh(iter[1 .. 0], seen)
  <2>1. 1 .. 0 = {} /\ {} \in SUBSET (1 .. n)
    OBVIOUS
  <2>2. Fresh(<< >>, seen)
    BY EmptySeq DEF Fresh
  <2> QED BY <1>2, <2>1, <2>2
<1>4. ASSUME NEW j \in 1 .. n, Fresh(iter[1 .. j - 1], seen) PROVE Fresh(iter[1 .. j], seen)
  <2> DEFINE s == 1 .. j
  <2>1. s \in SUBSET (1 .. n) /\ s # {} /\ j \in s /\ s \in SUBSET (1 .. j) /\ j \in Nat
    OBVIOUS
  <2>2. Max(s) = j
    BY <2>1, MaxIsLast
  <2>3. s \ {j} = 1 .. j - 1
    OBVIOUS
  <2> HIDE DEF s
  <2>4. iter[s] = Merge(seen, iter[1 .. j - 1], args[j])
    BY <1>2, <2>1, <2>2, <2>3
  <2>5. args[j] \in Labels
    OBVIOUS
  <2>6. Fresh(iter[s], seen)
    BY <1>4, <2>4, <2>5, MergeKeepsFresh
  <2> QED BY <2>6 DEF s
<1> DEFINE Failing == {j \in 0 .. n : ~Fresh(iter[1 .. j], seen)}
<1>5. ASSUME Failing # {} PROVE FALSE
  <2>1. PICK j \in Failing : \A y \in Failing : j <= y
    <3>1. Failing \subseteq Nat
      OBVIOUS
    <3> HIDE DEF Failing
    <3> QED BY <1>5, <3>1, LeastNumber
  <2>2. j # 0
    BY <1>3, <2>1
  <2>3. j \in 1 .. n /\ j - 1 \in 0 .. n /\ j - 1 \notin Failing
    BY <2>1, <2>2
  <2>4. Fresh(iter[1 .. j - 1], seen)
    BY <2>3
  <2> QED BY <1>4, <2>1, <2>3, <2>4
<1> QED BY <1>1, <1>5

(* The merge leaves no argument out. *)
Covers(added, seen, labels) == labels \subseteq LabelsOf(seen) \union ToSet(added)

LEMMA MergeCovers ==
    ASSUME NEW seen, NEW acc, NEW l \in Labels, NEW labels, Fresh(acc, seen),
           Covers(acc, seen, labels)
    PROVE  Covers(Merge(seen, acc, l), seen, labels \union {l})
<1>1. CASE l \in LabelsOf(seen) \union ToSet(acc)
  BY <1>1 DEF Merge, Covers
<1>2. CASE l \notin LabelsOf(seen) \union ToSet(acc)
  <2> DEFINE n == Len(acc)
             longer == Append(acc, l)
  <2>1. acc \in Seq(Labels) /\ n \in Nat /\ DOMAIN acc = 1 .. n
    BY LenProperties DEF Fresh
  <2>2. /\ DOMAIN longer = 1 .. n + 1
        /\ longer[n + 1] = l /\ \A i \in 1 .. n : longer[i] = acc[i]
    BY <2>1, AppendProperties, LenProperties
  <2>3. Merge(seen, acc, l) = longer
    BY <1>2 DEF Merge
  <2> HIDE DEF longer, n
  <2>4. ToSet(acc) \union {l} \subseteq ToSet(longer)
    BY <2>1, <2>2 DEF ToSet
  <2> QED BY <2>3, <2>4 DEF Covers
<1> QED BY <1>1, <1>2

LEMMA AddedCovers ==
    ASSUME NEW args \in Arguments, NEW seen
    PROVE  ToSet(args) \subseteq LabelsOf(seen) \union ToSet(Added(args, seen))
<1> PICK n \in Nat : args \in [1 .. n -> Labels]
  BY FieldOptionsAssumption DEF Arguments
<1>1. PICK iter : Merges(iter, args, seen, 1 .. n) /\ Added(args, seen) = iter[1 .. n]
  <2>1. \E f : Merges(f, args, seen, DOMAIN args)
    BY MergesExist
  <2> QED BY <2>1, AddedByRecursion
<1>2. \A s \in SUBSET (1 .. n) :
          iter[s] = IF s = {} THEN << >> ELSE Merge(seen, iter[s \ {Max(s)}], args[Max(s)])
  BY <1>1 DEF Merges
<1> DEFINE First(j) == {args[i] : i \in 1 .. j}
           Good(j) == Fresh(iter[1 .. j], seen) /\ Covers(iter[1 .. j], seen, First(j))
<1>3. Good(0)
  <2>1. 1 .. 0 = {} /\ {} \in SUBSET (1 .. n) /\ First(0) = {}
    OBVIOUS
  <2>2. Fresh(<< >>, seen) /\ Covers(<< >>, seen, {})
    BY EmptySeq DEF Fresh, Covers
  <2> QED BY <1>2, <2>1, <2>2
<1>4. ASSUME NEW j \in 1 .. n, Good(j - 1) PROVE Good(j)
  <2> DEFINE s == 1 .. j
  <2>1. s \in SUBSET (1 .. n) /\ s # {} /\ j \in s /\ s \in SUBSET (1 .. j) /\ j \in Nat
    OBVIOUS
  <2>2. Max(s) = j
    BY <2>1, MaxIsLast
  <2>3. s \ {j} = 1 .. j - 1
    OBVIOUS
  <2> HIDE DEF s
  <2>4. iter[s] = Merge(seen, iter[1 .. j - 1], args[j])
    BY <1>2, <2>1, <2>2, <2>3
  <2>5. args[j] \in Labels
    OBVIOUS
  <2>6. First(j) = First(j - 1) \union {args[j]}
    OBVIOUS
  <2> HIDE DEF First
  <2>7. Fresh(iter[s], seen)
    BY <1>4, <2>4, <2>5, MergeKeepsFresh
  <2>8. Covers(iter[s], seen, First(j))
    BY <1>4, <2>4, <2>5, <2>6, MergeCovers
  <2> QED BY <2>7, <2>8 DEF s
<1> DEFINE Failing == {j \in 0 .. n : ~Good(j)}
<1>5. ASSUME Failing # {} PROVE FALSE
  <2> HIDE DEF Good
  <2>1. PICK j \in Failing : \A y \in Failing : j <= y
    <3>1. Failing \subseteq Nat
      OBVIOUS
    <3> HIDE DEF Failing
    <3> QED BY <1>5, <3>1, LeastNumber
  <2>2. j # 0
    BY <1>3, <2>1
  <2>3. j \in 1 .. n /\ j - 1 \in 0 .. n /\ j - 1 \notin Failing
    BY <2>1, <2>2
  <2>4. Good(j - 1)
    BY <2>3
  <2> QED BY <1>4, <2>1, <2>3, <2>4
<1>6. Good(n)
  <2> HIDE DEF Good
  <2> QED BY <1>5
<1>7. ToSet(args) = First(n)
  BY DEF ToSet
<1> QED BY <1>1, <1>6, <1>7 DEF Covers

----------------------------------------------------------------------------
(* The calls. *)

Unique(opts) == \A o, p \in opts \ OtherItems : o.label = p.label => o = p

(* What a call has read had no label twice: the array that it sends        *)
(* replaces whatever the upstream has by then.                             *)
SeenUnique == \A c \in Callers : calls[c].pc \in {"put", "written"} => Unique(calls[c].seen)

(* Each label upstream has been read by a call that is about to write, or  *)
(* came after its GET.                                                     *)
NothingUnnoticed ==
    \A c \in Callers :
        calls[c].pc = "put" => LabelsOf(options) \subseteq LabelsOf(calls[c].seen) \union calls[c].missed

IInv == TypeOK /\ LabelsUnique /\ SeenUnique /\ NothingUnnoticed /\ ConfirmedLabelsKept

Items == Options \union OtherItems

CallTypes ==
    {Idle} \union [pc : {"get"}, args : Arguments]
      \union [pc : {"put", "written"}, args : Arguments, seen : SUBSET Items,
              missed : SUBSET Labels]

LEMMA LabelTypes == ASSUME NEW opts \in SUBSET Items PROVE LabelsOf(opts) \subseteq Labels
BY DEF LabelsOf, Items, Options

(* A step that moves one call and leaves the options alone. *)
LEMMA CallMoves ==
    ASSUME IInv, UNCHANGED <<hasOptions, options, nextId>>,
           confirmed' \subseteq Labels, confirmed' \subseteq LabelsOf(options),
           NEW c \in Callers, NEW r \in CallTypes,
           r.pc \in {"put", "written"} => Unique(r.seen),
           r.pc = "put" => LabelsOf(options) \subseteq LabelsOf(r.seen) \union r.missed,
           calls' = [calls EXCEPT ![c] = r]
    PROVE  IInv'
<1>1. calls \in [Callers -> CallTypes]
  BY DEF IInv, TypeOK, CallTypes, Items
<1>2. calls' \in [Callers -> CallTypes]
  BY <1>1
<1>3. TypeOK'
  BY <1>2 DEF IInv, TypeOK, CallTypes, Items
<1>4. ASSUME NEW d \in Callers PROVE calls'[d] = IF d = c THEN r ELSE calls[d]
  BY <1>1
<1>5. SeenUnique' /\ NothingUnnoticed'
  BY <1>4 DEF IInv, SeenUnique, NothingUnnoticed, LabelsOf
<1>6. LabelsUnique' /\ ConfirmedLabelsKept'
  BY DEF IInv, LabelsUnique, ConfirmedLabelsKept, LabelsOf
<1> QED BY <1>3, <1>5, <1>6 DEF IInv

LEMMA OptionsStart == ASSUME Init PROVE IInv
<1>1. TypeOK
  <2>1. options \subseteq Options \union OtherItems
    BY DEF Init, Options
  <2> QED BY <2>1 DEF Init, TypeOK
<1>2. LabelsUnique
  BY DEF Init, LabelsUnique
<1> QED BY <1>1, <1>2 DEF Init, IInv, SeenUnique, NothingUnnoticed, ConfirmedLabelsKept, Idle

LEMMA CallKeeps ==
    ASSUME IInv, NEW c \in Callers, NEW args \in Arguments, Call(c, args)
    PROVE  IInv'
<1> DEFINE r == [pc |-> "get", args |-> args]
<1>1. r \in CallTypes /\ r.pc = "get"
  BY DEF CallTypes
<1>2. confirmed' \subseteq Labels /\ confirmed' \subseteq LabelsOf(options)
  BY DEF Call, IInv, TypeOK, ConfirmedLabelsKept
<1> HIDE DEF r
<1> QED BY <1>1, <1>2, CallMoves DEF Call, r

LEMMA ReadFieldKeeps == ASSUME IInv, NEW c \in Callers, ReadField(c) PROVE IInv'
<1> DEFINE r == [pc |-> "put", args |-> calls[c].args, seen |-> options, missed |-> {}]
<1>1. calls[c].args \in Arguments
  BY DEF IInv, TypeOK, ReadField, Idle
<1>2. r \in CallTypes
  BY <1>1 DEF CallTypes, IInv, TypeOK, Items
<1>3. /\ r.pc \in {"put", "written"} => Unique(r.seen)
      /\ r.pc = "put" => LabelsOf(options) \subseteq LabelsOf(r.seen) \union r.missed
  BY DEF IInv, LabelsUnique, Unique
<1>4. calls' = [calls EXCEPT ![c] = r] /\ UNCHANGED <<hasOptions, options, nextId, confirmed>>
  BY DEF ReadField
<1>5. confirmed' \subseteq Labels /\ confirmed' \subseteq LabelsOf(options)
  BY <1>4 DEF IInv, TypeOK, ConfirmedLabelsKept
<1> HIDE DEF r
<1> QED BY <1>2, <1>3, <1>4, <1>5, CallMoves

(* A call that skips all its labels has found them upstream. *)
LEMMA SkipAllKeeps == ASSUME IInv, NEW c \in Callers, SkipAll(c) PROVE IInv'
<1>1. calls[c].args \in Arguments
  BY DEF IInv, TypeOK, SkipAll, Idle
<1>2. ToSet(calls[c].args) \subseteq LabelsOf(options)
  <2>1. ToSet(calls[c].args) \subseteq LabelsOf(options) \union ToSet(<< >>)
    BY <1>1, AddedCovers DEF SkipAll
  <2>2. ToSet(<< >>) = {}
    BY EmptySeq DEF ToSet
  <2> QED BY <2>1, <2>2
<1>3. LabelsOf(options) \subseteq Labels
  BY LabelTypes DEF IInv, TypeOK, Items
<1>4. confirmed' \subseteq Labels /\ confirmed' \subseteq LabelsOf(options)
  BY <1>2, <1>3 DEF SkipAll, IInv, ConfirmedLabelsKept
<1>5. Idle \in CallTypes /\ Idle.pc = "idle"
  BY DEF CallTypes, Idle
<1> QED BY <1>4, <1>5, CallMoves DEF SkipAll

LEMMA WriteFieldKeeps == ASSUME IInv, NEW c \in Callers, WriteField(c) PROVE IInv'
<1> PICK args \in Arguments, seen \in SUBSET Items, missed \in SUBSET Labels :
        calls[c] = [pc |-> "put", args |-> args, seen |-> seen, missed |-> missed]
  BY DEF IInv, TypeOK, WriteField, Idle, Items
<1> PICK added : added = Added(args, seen)
  OBVIOUS
<1> DEFINE new == {[id |-> nextId + n - 1, label |-> added[n]] : n \in DOMAIN added}
           Later(d) == CASE d = c -> [calls[d] EXCEPT !.pc = "written"]
                         [] d # c /\ calls[d].pc = "put" ->
                               [calls[d] EXCEPT !.missed =
                                  @ \union (LabelsOf(options') \ LabelsOf(calls[d].seen))]
                         [] OTHER -> calls[d]
<1>1. /\ options' = (seen \ OtherItems) \union new
      /\ nextId' = nextId + Len(added)
      /\ calls' = [d \in Callers |-> Later(d)]
      /\ confirmed' = (confirmed \ missed) \union ToSet(args)
      /\ hasOptions' = hasOptions
  BY DEF WriteField, Resent
<1>2. /\ added \in Seq(Labels) /\ Len(added) \in Nat /\ DOMAIN added = 1 .. Len(added)
      /\ \A n \in DOMAIN added : added[n] \in Labels /\ added[n] \notin LabelsOf(seen)
      /\ \A m, n \in DOMAIN added : added[m] = added[n] => m = n
  BY AddedIsFresh, LenProperties, ElementOfSeq DEF Fresh
<1>3. nextId \in Nat
  BY DEF IInv, TypeOK
<1>4. new \subseteq Options /\ new \intersect OtherItems = {}
  <2>1. ASSUME NEW n \in DOMAIN added PROVE nextId + n - 1 \in Nat /\ added[n] \in Labels
    BY <1>2, <1>3
  <2>2. new \subseteq Options
    BY <2>1 DEF Options
  <2> QED BY <2>2, FieldOptionsAssumption
<1>5. LabelsUnique'
  <2>1. Unique(seen)
    BY DEF IInv, SeenUnique
  <2>2. \A o \in seen \ OtherItems, p \in new : o.label # p.label
    BY <1>2 DEF LabelsOf
  <2>3. ASSUME NEW o \in new, NEW p \in new, o.label = p.label PROVE o = p
    <3>1. PICK m \in DOMAIN added : o = [id |-> nextId + m - 1, label |-> added[m]]
      OBVIOUS
    <3>2. PICK n \in DOMAIN added : p = [id |-> nextId + n - 1, label |-> added[n]]
      OBVIOUS
    <3>3. m = n
      BY <1>2, <2>3, <3>1, <3>2
    <3> QED BY <3>1, <3>2, <3>3
  <2> HIDE DEF new
  <2> QED BY <1>1, <2>1, <2>2, <2>3 DEF LabelsUnique, Unique
<1>6. LabelsOf(options') = LabelsOf(seen) \union ToSet(added) /\ options' \subseteq Items
  <2>1. {o.label : o \in new} = ToSet(added)
    <3>1. ASSUME NEW n \in DOMAIN added PROVE added[n] \in {o.label : o \in new}
      <4> DEFINE o == [id |-> nextId + n - 1, label |-> added[n]]
      <4>1. o \in new /\ o.label = added[n]
        OBVIOUS
      <4> HIDE DEF o, new
      <4> QED BY <4>1
    <3>2. ASSUME NEW o \in new PROVE o.label \in ToSet(added)
      <4>1. PICK n \in DOMAIN added : o = [id |-> nextId + n - 1, label |-> added[n]]
        OBVIOUS
      <4> QED BY <4>1 DEF ToSet
    <3> HIDE DEF new
    <3> QED BY <3>1, <3>2 DEF ToSet
  <2>2. options' \ OtherItems = (seen \ OtherItems) \union new
    BY <1>1, <1>4
  <2>3. options' \subseteq Items
    BY <1>1, <1>4 DEF Items
  <2> HIDE DEF new
  <2>4. {o.label : o \in (seen \ OtherItems) \union new}
          = {o.label : o \in seen \ OtherItems} \union {o.label : o \in new}
    OBVIOUS
  <2> QED BY <2>1, <2>2, <2>3, <2>4 DEF LabelsOf
<1>7. LabelsOf(options') \subseteq Labels
  BY <1>6, LabelTypes
<1>8. calls \in [Callers -> CallTypes]
  BY DEF IInv, TypeOK, CallTypes, Items
<1> HIDE DEF new
<1>9. Later(c) = [pc |-> "written", args |-> args, seen |-> seen, missed |-> missed]
  OBVIOUS
<1>10. ASSUME NEW d \in Callers, d # c, calls[d].pc = "put"
       PROVE  /\ Later(d) \in CallTypes /\ Later(d).pc = "put" /\ Later(d).seen = calls[d].seen
              /\ LabelsOf(options') \subseteq LabelsOf(calls[d].seen) \union Later(d).missed
  <2>1. PICK a \in Arguments, s \in SUBSET Items, x \in SUBSET Labels :
            calls[d] = [pc |-> "put", args |-> a, seen |-> s, missed |-> x]
    BY <1>8, <1>10 DEF CallTypes, Idle
  <2>2. Later(d) = [calls[d] EXCEPT !.missed =
                      @ \union (LabelsOf(options') \ LabelsOf(calls[d].seen))]
    BY <1>10
  <2>3. Later(d) = [pc |-> "put", args |-> a, seen |-> s,
                    missed |-> x \union (LabelsOf(options') \ LabelsOf(s))]
    <3> PICK news : news = LabelsOf(options') \ LabelsOf(s)
      OBVIOUS
    <3>1. calls[d].seen = s /\ calls[d].missed = x
      BY <2>1
    <3>2. Later(d) = [calls[d] EXCEPT !.missed = x \union news]
      BY <2>2, <3>1
    <3> HIDE DEF Later
    <3>3. Later(d) = [pc |-> "put", args |-> a, seen |-> s, missed |-> x \union news]
      BY <2>1, <3>2
    <3> QED BY <3>3
  <2> HIDE DEF Later
  <2> QED BY <1>7, <2>1, <2>3 DEF CallTypes
<1>11. ASSUME NEW d \in Callers, d # c, calls[d].pc # "put" PROVE Later(d) = calls[d]
  BY <1>11
<1> HIDE DEF Later
<1>12. ASSUME NEW d \in Callers PROVE Later(d) \in CallTypes
  BY <1>8, <1>9, <1>10, <1>11 DEF CallTypes
<1>13. confirmed' \subseteq LabelsOf(options')
  <2>1. LabelsOf(options) \subseteq LabelsOf(seen) \union missed
    BY DEF IInv, NothingUnnoticed
  <2>2. ToSet(args) \subseteq LabelsOf(seen) \union ToSet(added)
    BY AddedCovers
  <2>3. confirmed \subseteq LabelsOf(options)
    BY DEF IInv, ConfirmedLabelsKept
  <2> QED BY <1>1, <1>6, <2>1, <2>2, <2>3
<1>14. calls' \in [Callers -> CallTypes] /\ nextId' \in Nat
  BY <1>1, <1>2, <1>3, <1>12
<1>15. TypeOK'
  BY <1>1, <1>6, <1>7, <1>13, <1>14 DEF IInv, TypeOK, CallTypes, Items
<1>16. SeenUnique' /\ NothingUnnoticed'
  <2>1. ASSUME NEW d \in Callers, Later(d).pc \in {"put", "written"} PROVE Unique(Later(d).seen)
    BY <1>9, <1>10, <1>11, <2>1 DEF IInv, SeenUnique
  <2>2. ASSUME NEW d \in Callers, Later(d).pc = "put"
        PROVE  LabelsOf(options') \subseteq LabelsOf(Later(d).seen) \union Later(d).missed
    BY <1>9, <1>10, <1>11, <2>2
  <2> QED BY <1>1, <2>1, <2>2 DEF SeenUnique, NothingUnnoticed, LabelsOf
<1>17. ConfirmedLabelsKept'
  BY <1>13 DEF ConfirmedLabelsKept, LabelsOf
<1> QED BY <1>5, <1>15, <1>16, <1>17 DEF IInv

LEMMA CallEnds ==
    ASSUME IInv, NEW c \in Callers, Return(c) \/ Fail(c) \/ Refuse(c)
    PROVE  IInv'
<1>1. Idle \in CallTypes /\ Idle.pc = "idle"
  BY DEF CallTypes, Idle
<1>2. calls' = [calls EXCEPT ![c] = Idle] /\ UNCHANGED <<hasOptions, options, nextId, confirmed>>
  BY DEF Return, Fail, Refuse
<1>3. confirmed' \subseteq Labels /\ confirmed' \subseteq LabelsOf(options)
  BY <1>2 DEF IInv, TypeOK, ConfirmedLabelsKept
<1> QED BY <1>1, <1>2, <1>3, CallMoves

LEMMA OptionsStep == ASSUME IInv, [Next]_vars PROVE IInv'
<1>1. CASE UNCHANGED vars
  BY <1>1 DEF vars, IInv, TypeOK, LabelsUnique, SeenUnique, NothingUnnoticed, ConfirmedLabelsKept,
       LabelsOf
<1>2. CASE Next
  BY <1>2, CallKeeps, ReadFieldKeeps, SkipAllKeeps, WriteFieldKeeps, CallEnds DEF Next
<1> QED BY <1>1, <1>2

LEMMA OptionsInvariant == Spec => []IInv
BY OptionsStart, OptionsStep, PTL DEF Spec

----------------------------------------------------------------------------
(* Every variable keeps its type, whatever ids the upstream has given. *)
THEOREM OptionTypes == Spec => []TypeOK
BY OptionsInvariant, PTL DEF IInv

(* No two options ever have one label: addDealFieldOptions skips the       *)
(* labels it has read and those it has just added, and a PUT that overlaps *)
(* another one replaces its options, so that no label comes in twice.      *)
THEOREM LabelsStayUnique == Spec => []LabelsUnique
BY OptionsInvariant, PTL DEF IInv

(* A label that a call has reported is upstream for ever, or until a call  *)
(* whose GET came before that label writes: any number of calls, failures, *)
(* repetitions and labels.                                                 *)
THEOREM ConfirmedStay == Spec => []ConfirmedLabelsKept
BY OptionsInvariant, PTL DEF IInv
=============================================================================
