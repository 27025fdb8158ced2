-------------------------- MODULE MailPagingProofs --------------------------
(***************************************************************************)
(* Proofs about MailPaging, for any page size, cap, limits, number of      *)
(* items and of changes: whatever comes in, moves up, leaves or is flagged *)
(* between two pages, a call and a walk leave out at most one item for     *)
(* each that has left the listing.                                         *)
(***************************************************************************)
EXTENDS MailPaging, FiniteSetTheorems, SequenceTheorems, WellFoundedInduction, TLAPS

----------------------------------------------------------------------------
(* The loop over a page, one item at a time. *)

ScanItem(a, unread, s, m) ==
    IF Len(s.collected) >= HardCap(a) THEN s
    ELSE IF m < a.since THEN [s EXCEPT !.pastCutoff = TRUE]
    ELSE IF Wanted(a, unread, m) THEN [s EXCEPT !.collected = Append(@, m)]
    ELSE s

(* The recursion by which FoldLeft scans the items whose places are in     *)
(* `places`.                                                               *)
Scans(iter, a, unread, items, c, places) ==
    iter = [s \in SUBSET places |->
              IF s = {} THEN c ELSE ScanItem(a, unread, iter[s \ {Max(s)}], items[Max(s)])]

LEMMA ScanByRecursion ==
    ASSUME NEW a, NEW unread, NEW items, NEW c, \E iter : Scans(iter, a, unread, items, c, DOMAIN items)
    PROVE  \E iter : /\ Scans(iter, a, unread, items, c, DOMAIN items)
                     /\ Scan(a, unread, items, c) = iter[DOMAIN items]
<1>1. Scan(a, unread, items, c) = (CHOOSE iter : Scans(iter, a, unread, items, c, DOMAIN items))[DOMAIN items]
  BY DEF Scan, FoldLeft, MapThenFoldSet, Scans, ScanItem
<1> QED BY <1>1

(* A set of numbers has a least one, which stands here for induction. *)
LEMMA LeastNumber ==
    ASSUME NEW T, T \subseteq Nat, T # {}
    PROVE  \E x \in T : \A y \in T : x <= y
<1>1. PICK x \in T : \A y \in T : ~(<<y, x>> \in OpToRel(<, Nat))
  BY NatLessThanWellFounded, WFMin
<1>2. OpToRel(<, Nat) = {pair \in Nat \X Nat : pair[1] < pair[2]}
  BY DEF OpToRel
<1>3. ASSUME NEW y \in T PROVE x <= y
  <2>1. ~(y < x)
    BY <1>1, <1>2
  <2> QED BY <2>1
<1> QED BY <1>3

LEMMA MaxIsLast ==
    ASSUME NEW n \in Nat, NEW s \in SUBSET (1 .. n), n \in s
    PROVE  Max(s) = n
<1>1. \A x \in s : (\A y \in s : x >= y) <=> x = n
  OBVIOUS
<1> QED BY <1>1 DEF Max

(* A recursion over the places up to n goes on to the next one. *)
LEMMA ScansOneMore ==
    ASSUME NEW a, NEW unread, NEW items, NEW c, NEW n \in Nat,
           NEW f, Scans(f, a, unread, items, c, 1 .. n)
    PROVE  \E g : Scans(g, a, unread, items, c, 1 .. n + 1)
<1> DEFINE g == [s \in SUBSET (1 .. n + 1) |->
                   IF n + 1 \in s THEN ScanItem(a, unread, f[s \ {n + 1}], items[n + 1]) ELSE f[s]]
           Next1(h, s) == IF s = {} THEN c ELSE ScanItem(a, unread, h[s \ {Max(s)}], items[Max(s)])
<1>1. \A s \in SUBSET (1 .. n) : f[s] = Next1(f, s)
  BY DEF Scans
<1>2. \A s \in SUBSET (1 .. n + 1) :
          /\ s \ {n + 1} \in SUBSET (1 .. n)
          /\ n + 1 \notin s => s \in SUBSET (1 .. n)
  OBVIOUS
<1>3. \A s \in SUBSET (1 .. n) : s \in SUBSET (1 .. n + 1) /\ n + 1 \notin s
  OBVIOUS
<1>4. \A s \in SUBSET (1 .. n + 1) :
          g[s] = IF n + 1 \in s THEN ScanItem(a, unread, f[s \ {n + 1}], items[n + 1]) ELSE f[s]
  OBVIOUS
<1>5. g = [s \in SUBSET (1 .. n + 1) |-> g[s]]
  OBVIOUS
<1> HIDE DEF g
<1>6. \A s \in SUBSET (1 .. n) : g[s] = f[s]
  BY <1>3, <1>4
<1>7. ASSUME NEW s \in SUBSET (1 .. n + 1) PROVE g[s] = Next1(g, s)
  <2>1. CASE n + 1 \in s
    <3>1. Max(s) = n + 1
      BY <2>1, MaxIsLast
    <3>2. g[s] = ScanItem(a, unread, g[s \ {n + 1}], items[n + 1])
      BY <1>2, <1>4, <1>6, <2>1
    <3>3. s # {}
      BY <2>1
    <3> QED BY <3>1, <3>2, <3>3, Zenon
  <2>2. CASE n + 1 \notin s
    <3>1. s \in SUBSET (1 .. n) /\ s \ {Max(s)} \in SUBSET (1 .. n)
      BY <1>2, <2>2
    <3>2. g[s] = f[s] /\ g[s \ {Max(s)}] = f[s \ {Max(s)}]
      BY <1>6, <3>1
    <3> QED BY <1>1, <3>1, <3>2
  <2> QED BY <2>1, <2>2
<1>8. g = [s \in SUBSET (1 .. n + 1) |-> Next1(g, s)]
  BY <1>5, <1>7
<1>9. Scans(g, a, unread, items, c, 1 .. n + 1)
  BY <1>8, Zenon DEF Scans
<1> QED BY <1>9

LEMMA ScansExist ==
    ASSUME NEW a, NEW unread, NEW items, NEW c, NEW n \in Nat
    PROVE  \E f : Scans(f, a, unread, items, c, 1 .. n)
<1> DEFINE Failing == {k \in Nat : ~\E f : Scans(f, a, unread, items, c, 1 .. k)}
<1> SUFFICES ASSUME Failing # {} PROVE FALSE
  OBVIOUS
<1>1. PICK k \in Failing : \A y \in Failing : k <= y
  BY LeastNumber
<1>2. CASE k = 0
  <2> DEFINE f == [s \in SUBSET (1 .. 0) |-> c]
  <2>1. \A s \in SUBSET (1 .. 0) : s = {}
    OBVIOUS
  <2>2. f = [s \in SUBSET (1 .. 0) |->
               IF s = {} THEN c ELSE ScanItem(a, unread, f[s \ {Max(s)}], items[Max(s)])]
    BY <2>1
  <2>3. Scans(f, a, unread, items, c, 1 .. 0)
    BY <2>2, Zenon DEF Scans
  <2> QED BY <1>1, <1>2, <2>3
<1>3. CASE k # 0
  <2>1. k - 1 \in Nat /\ k - 1 \notin Failing /\ (k - 1) + 1 = k
    BY <1>1, <1>3
  <2>2. PICK f : Scans(f, a, unread, items, c, 1 .. k - 1)
    BY <2>1
  <2>3. \E g : Scans(g, a, unread, items, c, 1 .. (k - 1) + 1)
    BY <2>1, <2>2, ScansOneMore, Zenon
  <2> QED BY <1>1, <2>1, <2>3
<1> QED BY <1>2, <1>3

(* The states of the loop after each item. *)
ScanStates(states, a, unread, items, c, n) ==
    /\ states[0] = c
    /\ \A j \in 1 .. n : states[j] = ScanItem(a, unread, states[j - 1], items[j])

LEMMA ScanIsLastState ==
    ASSUME NEW a, NEW unread, NEW items, NEW c, NEW n \in Nat, DOMAIN items = 1 .. n
    PROVE  \E states : ScanStates(states, a, unread, items, c, n) /\ Scan(a, unread, items, c) = states[n]
<1>1. PICK iter : Scans(iter, a, unread, items, c, 1 .. n) /\ Scan(a, unread, items, c) = iter[1 .. n]
  <2>1. \E f : Scans(f, a, unread, items, c, DOMAIN items)
    BY ScansExist
  <2> QED BY <2>1, ScanByRecursion
<1> DEFINE states == [j \in 0 .. n |-> iter[1 .. j]]
<1>2. \A s \in SUBSET (1 .. n) :
          iter[s] = IF s = {} THEN c ELSE ScanItem(a, unread, iter[s \ {Max(s)}], items[Max(s)])
  BY <1>1 DEF Scans
<1>3. states[0] = c
  <2>1. 1 .. 0 = {} /\ {} \in SUBSET (1 .. n)
    OBVIOUS
  <2>2. states[0] = iter[1 .. 0]
    OBVIOUS
  <2> QED BY <1>2, <2>1, <2>2
<1>4. ASSUME NEW j \in 1 .. n PROVE states[j] = ScanItem(a, unread, states[j - 1], items[j])
  <2> DEFINE s == 1 .. j
  <2>1. s \in SUBSET (1 .. n) /\ s # {} /\ j \in s /\ s \in SUBSET (1 .. j) /\ j \in Nat
    OBVIOUS
  <2>2. Max(s) = j
    BY <2>1, MaxIsLast
  <2>3. s \ {j} = 1 .. j - 1
    OBVIOUS
  <2>4. states[j] = iter[s] /\ states[j - 1] = iter[1 .. j - 1]
    OBVIOUS
  <2> HIDE DEF s, states
  <2> QED BY <1>2, <2>1, <2>2, <2>3, <2>4
<1>5. states[n] = iter[1 .. n]
  OBVIOUS
<1> QED BY <1>1, <1>3, <1>4, <1>5 DEF ScanStates

----------------------------------------------------------------------------
(* What the loop keeps. *)

LEMMA AppendSet ==
    ASSUME NEW S, NEW q \in Seq(S), NEW x \in S
    PROVE  /\ Append(q, x) \in Seq(S) /\ Len(Append(q, x)) = Len(q) + 1
           /\ ToSet(Append(q, x)) = ToSet(q) \union {x}
<1> DEFINE n == Len(q)
           longer == Append(q, x)
<1>1. n \in Nat /\ DOMAIN q = 1 .. n
  BY LenProperties
<1>2. /\ longer \in Seq(S) /\ Len(longer) = n + 1 /\ DOMAIN longer = 1 .. n + 1
      /\ longer[n + 1] = x /\ \A i \in 1 .. n : longer[i] = q[i]
  BY <1>1, AppendProperties, LenProperties
<1> HIDE DEF longer, n
<1>3. 1 .. n + 1 = (1 .. n) \union {n + 1}
  BY <1>1
<1>4. ToSet(longer) = ToSet(q) \union {x}
  <2>1. ASSUME NEW y \in ToSet(longer) PROVE y \in ToSet(q) \union {x}
    BY <1>1, <1>2, <1>3 DEF ToSet
  <2>2. ASSUME NEW y \in ToSet(q) PROVE y \in ToSet(longer)
    BY <1>1, <1>2, <1>3 DEF ToSet
  <2>3. x \in ToSet(longer)
    BY <1>1, <1>2 DEF ToSet
  <2> QED BY <2>1, <2>2, <2>3
<1> QED BY <1>2, <1>4 DEF longer, n

LEMMA ElementsOfSeq == ASSUME NEW S, NEW q \in Seq(S) PROVE ToSet(q) \subseteq S
BY ElementOfSeq, LenProperties DEF ToSet

LEMMA ItemAppended ==
    ASSUME NEW q \in Seq(Times), NEW m \in Times
    PROVE  /\ Append(q, m) \in Seq(Times) /\ Len(Append(q, m)) = Len(q) + 1
           /\ ToSet(Append(q, m)) = ToSet(q) \union {m}
<1> DEFINE S == Times
<1>1. q \in Seq(S) /\ m \in S
  OBVIOUS
<1> HIDE DEF S
<1>2. /\ Append(q, m) \in Seq(S) /\ Len(Append(q, m)) = Len(q) + 1
      /\ ToSet(Append(q, m)) = ToSet(q) \union {m}
  BY <1>1, AppendSet
<1> QED BY <1>2 DEF S

(* The loop touches two fields of the call. *)
SameCall(s, c) ==
    /\ s \in Calls
    /\ s.pc = c.pc /\ s.args = c.args /\ s.start = c.start /\ s.cursor = c.cursor
    /\ s.more = c.more /\ s.next = c.next

(* After j items of a page: the cutoff was passed at one of them.  Below   *)
(* the cap none is left out that is wanted, and without filters, up to the *)
(* limit, none at all.  The cap is never passed.                           *)
Scanned(a, unread, c, items, s, j) ==
    /\ SameCall(s, c)
    /\ Len(c.collected) <= HardCap(a) => Len(s.collected) <= HardCap(a)
    /\ s.pastCutoff => \E i \in 1 .. j : items[i] < a.since
    /\ Len(s.collected) < HardCap(a) =>
           /\ ToSet(c.collected) \subseteq ToSet(s.collected)
           /\ \A i \in 1 .. j : Wanted(a, unread, items[i]) => items[i] \in ToSet(s.collected)
    /\ (~Filtered(a) /\ c.collected = << >> /\ j <= a.limit) =>
           /\ Len(s.collected) = j
           /\ \A i \in 1 .. j : items[i] \in ToSet(s.collected)

LEMMA CapTypes ==
    ASSUME NEW a \in Arguments
    PROVE  /\ HardCap(a) \in Nat \ {0} /\ PageLimit(a) \in Nat \ {0}
           /\ a.since \in Nat
           /\ ~Filtered(a) => /\ HardCap(a) = a.limit /\ PageLimit(a) = a.limit
                              /\ a.since = 0 /\ ~a.unreadOnly
<1>1. a.limit \in Nat \ {0} /\ a.since \in 0 .. MaxTime
  BY MailPagingAssumption DEF Arguments
<1> QED
  BY <1>1, MailPagingAssumption DEF HardCap, PageLimit, Filtered, Larger, Smaller

LEMMA ScanItemKeeps ==
    ASSUME NEW a \in Arguments, NEW unread, NEW c, NEW items, NEW j \in Nat \ {0},
           items[j] \in Times,
           NEW s, Scanned(a, unread, c, items, s, j - 1)
    PROVE  Scanned(a, unread, c, items, ScanItem(a, unread, s, items[j]), j)
<1> PICK m \in Times : m = items[j]
  OBVIOUS
<1> PICK t : t = ScanItem(a, unread, s, m)
  OBVIOUS
<1> SUFFICES Scanned(a, unread, c, items, t, j)
  OBVIOUS
<1> DEFINE got == s.collected
           l == Len(got)
<1>1. s \in Calls /\ got \in Seq(Times) /\ l \in Nat
  BY LenProperties DEF Scanned, SameCall, Calls
<1>2. /\ HardCap(a) \in Nat \ {0}
      /\ ~Filtered(a) => HardCap(a) = a.limit /\ a.since = 0 /\ Wanted(a, unread, m) /\ ~(m < a.since)
  <2>1. m \in Nat /\ m >= 0
    BY MailPagingAssumption DEF Times
  <2> QED BY <2>1, CapTypes DEF Wanted
<1>3. \A i \in 1 .. j : i \in 1 .. j - 1 \/ i = j
  OBVIOUS
<1>4. CASE l >= HardCap(a)
  <2>1. t = s
    BY <1>4 DEF ScanItem
  <2>2. ~(Filtered(a) = FALSE /\ c.collected = << >> /\ j <= a.limit)
    BY <1>1, <1>2, <1>4 DEF Scanned
  <2>3. ~(l < HardCap(a))
    BY <1>1, <1>2, <1>4
  <2> QED BY <2>1, <2>2, <2>3 DEF Scanned
<1>5. CASE ~(l >= HardCap(a)) /\ m < a.since
  <2>1. t = [s EXCEPT !.pastCutoff = TRUE]
    BY <1>5 DEF ScanItem
  <2>2. SameCall(t, c) /\ t.collected = got
    BY <1>1, <2>1 DEF Scanned, SameCall, Calls
  <2>3. ~Wanted(a, unread, m)
    <3>1. m \in Nat /\ a.since \in Nat
      BY CapTypes, MailPagingAssumption DEF Times
    <3> QED BY <1>5, <3>1 DEF Wanted
  <2>4. Filtered(a)
    BY <1>2, <1>5
  <2>5. \E i \in 1 .. j : items[i] < a.since
    BY <1>5
  <2>6. l < HardCap(a)
    BY <1>1, <1>2, <1>5
  <2>7. /\ ToSet(c.collected) \subseteq ToSet(t.collected)
        /\ \A i \in 1 .. j : Wanted(a, unread, items[i]) => items[i] \in ToSet(t.collected)
    BY <1>3, <2>2, <2>3, <2>6 DEF Scanned
  <2>8. Len(t.collected) <= HardCap(a)
    BY <1>1, <1>2, <2>2, <2>6
  <2> QED BY <2>2, <2>4, <2>5, <2>7, <2>8 DEF Scanned
<1>6. CASE ~(l >= HardCap(a)) /\ ~(m < a.since) /\ Wanted(a, unread, m)
  <2>1. t = [s EXCEPT !.collected = Append(got, m)]
    BY <1>6 DEF ScanItem
  <2>2. /\ Append(got, m) \in Seq(Times) /\ Len(Append(got, m)) = l + 1
        /\ ToSet(Append(got, m)) = ToSet(got) \union {m}
    <3>1. got \in Seq(Times) /\ m \in Times
      BY <1>1
    <3>2. /\ Append(got, m) \in Seq(Times) /\ Len(Append(got, m)) = Len(got) + 1
          /\ ToSet(Append(got, m)) = ToSet(got) \union {m}
      BY <3>1, ItemAppended
    <3> QED BY <3>2
  <2>3. SameCall(t, c) /\ t.collected = Append(got, m) /\ t.pastCutoff = s.pastCutoff
    BY <1>1, <2>1, <2>2 DEF Scanned, SameCall, Calls
  <2>4. l < HardCap(a)
    BY <1>1, <1>2, <1>6
  <2>5. /\ ToSet(c.collected) \subseteq ToSet(t.collected)
        /\ \A i \in 1 .. j : Wanted(a, unread, items[i]) => items[i] \in ToSet(t.collected)
    BY <1>3, <2>2, <2>3, <2>4 DEF Scanned
  <2>6. t.pastCutoff => \E i \in 1 .. j : items[i] < a.since
    BY <2>3 DEF Scanned
  <2>7. ASSUME ~Filtered(a), c.collected = << >>, j <= a.limit
        PROVE  /\ Len(t.collected) = j
               /\ \A i \in 1 .. j : items[i] \in ToSet(t.collected)
    <3>1. a.limit \in Nat
      BY MailPagingAssumption DEF Arguments
    <3>2. l = j - 1 /\ \A i \in 1 .. j - 1 : items[i] \in ToSet(got)
      BY <2>7, <3>1 DEF Scanned
    <3> HIDE DEF l, got
    <3> QED BY <1>3, <2>2, <2>3, <3>2
  <2>8. Len(t.collected) <= HardCap(a)
    BY <1>1, <1>2, <2>2, <2>3, <2>4
  <2> QED BY <2>3, <2>5, <2>6, <2>7, <2>8 DEF Scanned
<1>7. CASE ~(l >= HardCap(a)) /\ ~(m < a.since) /\ ~Wanted(a, unread, m)
  <2>1. t = s
    BY <1>7 DEF ScanItem
  <2>2. Filtered(a)
    BY <1>2, <1>7
  <2>3. l < HardCap(a)
    BY <1>1, <1>2, <1>7
  <2>4. \A i \in 1 .. j : Wanted(a, unread, items[i]) => items[i] \in ToSet(s.collected)
    BY <1>3, <1>7, <2>3 DEF Scanned
  <2> QED BY <2>1, <2>2, <2>4 DEF Scanned
<1> QED BY <1>4, <1>5, <1>6, <1>7

LEMMA ScanKeeps ==
    ASSUME NEW a \in Arguments, NEW unread, NEW c \in Calls, ~c.pastCutoff,
           NEW items, NEW n \in Nat, DOMAIN items = 1 .. n,
           \A j \in 1 .. n : items[j] \in Times
    PROVE  Scanned(a, unread, c, items, Scan(a, unread, items, c), n)
<1> PICK states : ScanStates(states, a, unread, items, c, n) /\ Scan(a, unread, items, c) = states[n]
  BY ScanIsLastState
<1> DEFINE Failing == {j \in 0 .. n : ~Scanned(a, unread, c, items, states[j], j)}
<1> SUFFICES ASSUME Failing # {} PROVE FALSE
  OBVIOUS
<1>1. PICK k \in Failing : \A y \in Failing : k <= y
  <2>1. Failing \subseteq Nat
    OBVIOUS
  <2> HIDE DEF Failing
  <2> QED BY <2>1, LeastNumber
<1>2. CASE k = 0
  <2>1. states[0] = c
    BY DEF ScanStates
  <2>2. Scanned(a, unread, c, items, c, 0)
    BY DEF Scanned, SameCall
  <2> QED BY <1>1, <1>2, <2>1, <2>2
<1>3. CASE k # 0
  <2>1. k \in 1 .. n /\ k - 1 \in 0 .. n /\ k - 1 \notin Failing
    BY <1>1, <1>3
  <2>2. Scanned(a, unread, c, items, states[k - 1], k - 1)
    BY <2>1
  <2>3. states[k] = ScanItem(a, unread, states[k - 1], items[k])
    BY <2>1 DEF ScanStates
  <2>4. k \in Nat \ {0} /\ items[k] \in Times
    BY <2>1
  <2>5. Scanned(a, unread, c, items, ScanItem(a, unread, states[k - 1], items[k]), k)
    BY <2>2, <2>4, ScanItemKeeps, Zenon
  <2> QED BY <1>1, <2>3, <2>5
<1> QED BY <1>2, <1>3


----------------------------------------------------------------------------
(* Listings: the offsets of their items, and their pages. *)

LEMMA ListingFinite ==
    ASSUME NEW S \in SUBSET Times
    PROVE  IsFiniteSet(S) /\ Cardinality(S) \in Nat
<1>1. IsFiniteSet(1 .. MaxTime)
  <2>1. 1 \in Int /\ MaxTime \in Int
    BY MailPagingAssumption
  <2> QED BY <2>1, FS_Interval
<1>2. IsFiniteSet(S)
  BY <1>1, FS_Subset DEF Times
<1> QED BY <1>2, FS_CardinalityType

LEMMA OffsetTypes ==
    ASSUME NEW L \in SUBSET Times, NEW m
    PROVE  /\ Above(L, m) \in Nat
           /\ m \in L => Above(L, m) < Cardinality(L)
<1> DEFINE before == {k \in L : k > m}
<1>1. before \in SUBSET L /\ before \in SUBSET Times
  OBVIOUS
<1>2. IsFiniteSet(L) /\ IsFiniteSet(before) /\ Cardinality(before) \in Nat /\ Cardinality(L) \in Nat
  BY <1>1, ListingFinite
<1>3. ASSUME m \in L PROVE Cardinality(before) < Cardinality(L)
  <2>1. before \in SUBSET (L \ {m})
    BY <1>3, MailPagingAssumption DEF Times
  <2>2. IsFiniteSet(L \ {m}) /\ Cardinality(L \ {m}) = Cardinality(L) - 1
    BY <1>2, <1>3, FS_RemoveElement
  <2>3. Cardinality(before) <= Cardinality(L \ {m})
    BY <2>1, <2>2, FS_Subset
  <2> HIDE DEF before
  <2> QED BY <1>2, <2>2, <2>3
<1> QED BY <1>2, <1>3 DEF Above

LEMMA LaterIsListedFirst ==
    ASSUME NEW L \in SUBSET Times, NEW m \in L, NEW k \in L, m < k
    PROVE  Above(L, k) < Above(L, m)
<1> DEFINE aboveM == {x \in L : x > m}
           aboveK == {x \in L : x > k}
<1>1. m \in Nat /\ k \in Nat /\ L \subseteq Nat
  BY MailPagingAssumption DEF Times
<1>2. aboveK \in SUBSET Times /\ aboveM \in SUBSET Times
  OBVIOUS
<1>3. /\ IsFiniteSet(aboveK) /\ Cardinality(aboveK) \in Nat
      /\ IsFiniteSet(aboveM) /\ Cardinality(aboveM) \in Nat
  BY <1>2, ListingFinite
<1>4. aboveK \union {k} \in SUBSET aboveM /\ k \notin aboveK
  <2>1. \A x \in L : x > k => x > m
    BY <1>1
  <2>2. k > m /\ ~(k > k)
    BY <1>1
  <2> QED BY <2>1, <2>2
<1> HIDE DEF aboveK, aboveM
<1>5. Cardinality(aboveK \union {k}) = Cardinality(aboveK) + 1
  BY <1>3, <1>4, FS_AddElement
<1>6. Cardinality(aboveK \union {k}) <= Cardinality(aboveM)
  BY <1>3, <1>4, FS_Subset
<1>7. Cardinality(aboveK) < Cardinality(aboveM)
  BY <1>3, <1>5, <1>6
<1> QED BY <1>7 DEF Above, aboveK, aboveM

LEMMA OneAtEachOffset ==
    ASSUME NEW L \in SUBSET Times, NEW m \in L, NEW k \in L, Above(L, m) = Above(L, k)
    PROVE  m = k
<1>1. m \in Nat /\ k \in Nat
  BY MailPagingAssumption DEF Times
<1>2. Above(L, m) \in Nat /\ Above(L, k) \in Nat
  BY OffsetTypes
<1>3. ~(m < k) /\ ~(k < m)
  BY <1>2, LaterIsListedFirst
<1> QED BY <1>1, <1>3

(* Every offset of a listing is that of an item: else its items would have *)
(* one offset too few.                                                     *)
LEMMA ItemAtOffset ==
    ASSUME NEW L \in SUBSET Times, NEW offset \in Nat, offset < Cardinality(L)
    PROVE  ItemAt(L, offset) \in L /\ Above(L, ItemAt(L, offset)) = offset
<1> PICK n \in Nat : n = Cardinality(L)
  BY ListingFinite
<1>1. \E m \in L : Above(L, m) = offset
  <2> SUFFICES ASSUME \A m \in L : Above(L, m) # offset PROVE FALSE
    OBVIOUS
  <2> DEFINE offsets == 0 .. n - 1
             f == [m \in L |-> Above(L, m)]
  <2>1. IsFiniteSet(offsets) /\ Cardinality(offsets) = n
    <3>1. 0 \in Int /\ n - 1 \in Int
      OBVIOUS
    <3>2. IsFiniteSet(offsets) /\ Cardinality(offsets) = IF 0 > n - 1 THEN 0 ELSE n - 1 - 0 + 1
      BY <3>1, FS_Interval
    <3> QED BY <3>2
  <2>2. offset \in offsets
    OBVIOUS
  <2>3. \A m \in L : Above(L, m) \in offsets
    BY OffsetTypes
  <2> HIDE DEF offsets
  <2>4. IsFiniteSet(offsets \ {offset}) /\ Cardinality(offsets \ {offset}) = n - 1
    BY <2>1, <2>2, FS_RemoveElement
  <2>5. f \in Injection(L, offsets \ {offset})
    <3>1. \A m \in L : Above(L, m) \in offsets \ {offset}
      BY <2>3
    <3>2. f \in [L -> offsets \ {offset}]
      BY <3>1
    <3>3. ASSUME NEW m \in L, NEW k \in L, f[m] = f[k] PROVE m = k
      BY <3>3, OneAtEachOffset
    <3> HIDE DEF f
    <3> QED BY <3>2, <3>3 DEF Injection, IsInjective
  <2>6. Cardinality(L) <= n - 1
    BY <2>4, <2>5, FS_Injection
  <2> QED BY <2>6
<1> QED BY <1>1 DEF ItemAt

(* The k items of a page: those from the offset to the end of the page.    *)
Paged(items, L, start, limit, k) ==
    /\ k <= limit
    /\ DOMAIN items = 1 .. k
    /\ \A p \in 1 .. k : items[p] \in L /\ Above(L, items[p]) = start + p - 1
    /\ \A m \in L : (start <= Above(L, m) /\ Above(L, m) < start + limit) =>
                        \E p \in 1 .. k : items[p] = m

LEMMA PageItems ==
    ASSUME NEW L \in SUBSET Times, NEW start \in Nat, NEW limit \in Nat \ {0}
    PROVE  \E k \in Nat : Paged(Page(L, start, limit), L, start, limit, k)
<1> PICK n \in Nat : n = Cardinality(L)
  BY ListingFinite
<1> PICK last : last = Smaller(limit, n - start)
  OBVIOUS
<1> PICK k \in Nat : k = IF last < 0 THEN 0 ELSE last
  BY DEF Smaller
<1> DEFINE page == [p \in 1 .. k |-> ItemAt(L, start + p - 1)]
<1>1. /\ last \in Int /\ last <= limit /\ last <= n - start
      /\ last = limit \/ last = n - start
  BY DEF Smaller
<1>2. 1 .. last = 1 .. k
  BY <1>1
<1>3. Page(L, start, limit) = page
  BY <1>2 DEF Page
<1>4. DOMAIN page = 1 .. k /\ \A p \in 1 .. k : page[p] = ItemAt(L, start + p - 1)
  OBVIOUS
<1> HIDE DEF page
<1>5. k <= limit
  BY <1>1
<1>6. ASSUME NEW p \in 1 .. k PROVE page[p] \in L /\ Above(L, page[p]) = start + p - 1
  <2>1. start + p - 1 \in Nat /\ start + p - 1 < Cardinality(L)
    BY <1>1
  <2> QED BY <1>4, <2>1, ItemAtOffset
<1>7. ASSUME NEW m \in L, start <= Above(L, m), Above(L, m) < start + limit
      PROVE  \E p \in 1 .. k : page[p] = m
  <2> PICK o \in Nat : o = Above(L, m) /\ o < n
    BY OffsetTypes
  <2>1. o - start + 1 \in 1 .. k
    BY <1>1, <1>7
  <2>2. page[o - start + 1] \in L /\ Above(L, page[o - start + 1]) = o
    BY <1>6, <2>1
  <2>3. page[o - start + 1] = m
    BY <2>2, OneAtEachOffset
  <2> QED BY <2>1, <2>3
<1> QED BY <1>3, <1>4, <1>5, <1>6, <1>7 DEF Paged

----------------------------------------------------------------------------
(* How the listing drifts while a walk goes on. *)

(* What one change does to the offsets of the items that stay. *)
Drifts(old, new) ==
    /\ old.left <= new.left
    /\ \A m \in old.listed \intersect new.listed :
           Above(old.listed, m) <= Above(new.listed, m) + (new.left - old.left)

LEMMA DriftIs ==
    ASSUME NEW old \in Versions, NEW new \in Versions, NEW d \in Nat, new.left = old.left + d,
           \A m \in old.listed \intersect new.listed :
               Above(old.listed, m) <= Above(new.listed, m) + d
    PROVE  Drifts(old, new)
<1>1. old.left \in Nat /\ new.left \in Nat
  BY DEF Versions
<1>2. old.left <= new.left /\ new.left - old.left = d
  BY <1>1
<1> QED BY <1>2 DEF Drifts

(* More items before m, or one less. *)
LEMMA OffsetsCompared ==
    ASSUME NEW L \in SUBSET Times, NEW K \in SUBSET Times, NEW m, NEW x
    PROVE  /\ {k \in L : k > m} \subseteq {k \in K : k > m} => Above(L, m) <= Above(K, m)
           /\ {k \in L : k > m} \subseteq {k \in K : k > m} \union {x} =>
                  Above(L, m) <= Above(K, m) + 1
<1> DEFINE l == {k \in L : k > m}
           j == {k \in K : k > m}
<1>1. l \in SUBSET Times /\ j \in SUBSET Times
  OBVIOUS
<1> HIDE DEF l, j
<1>2. IsFiniteSet(l) /\ Cardinality(l) \in Nat /\ IsFiniteSet(j) /\ Cardinality(j) \in Nat
  BY <1>1, ListingFinite
<1>3. l \subseteq j => Cardinality(l) <= Cardinality(j)
  BY <1>2, FS_Subset
<1>4. l \subseteq j \union {x} => Cardinality(l) <= Cardinality(j) + 1
  <2>1. /\ IsFiniteSet(j \union {x})
        /\ Cardinality(j \union {x}) = IF x \in j THEN Cardinality(j) ELSE Cardinality(j) + 1
    BY <1>2, FS_AddElement
  <2>2. l \subseteq j \union {x} => Cardinality(l) <= Cardinality(j \union {x})
    BY <2>1, FS_Subset
  <2> QED BY <1>2, <2>1, <2>2
<1> QED BY <1>3, <1>4 DEF Above, l, j

(* The steps of the upstream: a new version, to which the last one drifts. *)
LEMMA ThreadRises ==
    ASSUME NEW L \in SUBSET Times, NEW m \in L, NEW n \in Times, n \notin L, n > m,
           NEW k \in L, k # m
    PROVE  Above(L, k) <= Above((L \ {m}) \union {n}, k)
<1> DEFINE moved == (L \ {m}) \union {n}
<1>1. /\ L \subseteq Nat /\ m \in Nat /\ n \in Nat /\ k \in Nat
      /\ moved \in SUBSET Times
  BY MailPagingAssumption DEF Times
<1> DEFINE before == {x \in L : x > k}
           after  == {x \in moved : x > k}
<1>2. before \in SUBSET Times /\ after \in SUBSET Times
  BY <1>1
<1>3. IsFiniteSet(before) /\ Cardinality(before) \in Nat /\ IsFiniteSet(after)
  BY <1>2, ListingFinite
<1>4. CASE m > k
  <2>1. n > k
    BY <1>1, <1>4
  <2>2. after = (before \ {m}) \union {n} /\ m \in before /\ n \notin before \ {m}
    BY <1>4, <2>1
  <2> HIDE DEF before, after
  <2>3. IsFiniteSet(before \ {m}) /\ Cardinality(before \ {m}) = Cardinality(before) - 1
    BY <1>3, <2>2, FS_RemoveElement
  <2>4. Cardinality(after) = Cardinality(before \ {m}) + 1
    BY <2>2, <2>3, FS_AddElement
  <2>5. Cardinality(before) <= Cardinality(after)
    BY <1>3, <2>3, <2>4
  <2> QED BY <2>5 DEF Above, before, after
<1>5. CASE ~(m > k)
  <2>1. before \in SUBSET after
    BY <1>5
  <2> HIDE DEF before, after
  <2>2. Cardinality(before) <= Cardinality(after)
    BY <1>3, <2>1, FS_Subset
  <2> QED BY <2>2 DEF Above, before, after
<1> QED BY <1>4, <1>5

LEMMA UpstreamDrifts ==
    ASSUME Upstream, mailbox # << >>, mailbox \in Seq(Versions)
    PROVE  \E version \in Versions :
               /\ mailbox' = Append(mailbox, version)
               /\ Drifts(Latest, version)
               /\ UNCHANGED <<tool, call, walk>>
<1> PICK old : old = Latest
  OBVIOUS
<1> PICK L : L = old.listed
  OBVIOUS
<1>1. /\ old \in Versions /\ L \in SUBSET Times /\ old.unread \in SUBSET Times
      /\ old.left \in Nat
  <2>1. Len(mailbox) \in 1 .. Len(mailbox)
    BY EmptySeq, LenProperties
  <2>2. old \in Versions
    BY <2>1, ElementOfSeq DEF Latest
  <2> QED BY <2>2 DEF Versions
<1>2. \A m \in L : Above(L, m) \in Nat
  BY <1>1, OffsetTypes
<1>3. ASSUME NEW m \in Times, NEW flag \in BOOLEAN, ComeIn(m, flag)
      PROVE  \E version \in Versions : /\ mailbox' = Append(mailbox, version)
                                       /\ Drifts(old, version)
                                       /\ UNCHANGED <<tool, call, walk>>
  <2> DEFINE version == [old EXCEPT !.listed = L \union {m},
                                    !.unread = old.unread \union Flagged(m, flag)]
  <2>1. mailbox' = Append(mailbox, version) /\ UNCHANGED <<tool, call, walk>>
    BY <1>3 DEF ComeIn, Change
  <2>2. Flagged(m, flag) \in SUBSET Times
    BY DEF Flagged
  <2>3. /\ version \in Versions /\ version.listed = L \union {m}
        /\ version.listed \in SUBSET Times /\ version.left = old.left
    BY <1>1, <2>2 DEF Versions
  <2> HIDE DEF version
  <2>4. ASSUME NEW k \in L PROVE Above(L, k) <= Above(version.listed, k)
    <3>1. {x \in L : x > k} \subseteq {x \in version.listed : x > k}
      BY <2>3
    <3> QED BY <1>1, <2>3, <3>1, OffsetsCompared
  <2>5. \A k \in L : Above(version.listed, k) \in Nat
    BY <2>3, OffsetTypes
  <2>6. \A k \in L \intersect version.listed : Above(L, k) <= Above(version.listed, k) + 0
    BY <1>2, <2>4, <2>5
  <2>7. version.left = old.left + 0
    BY <1>1, <2>3
  <2>8. Drifts(old, version)
    BY <1>1, <2>3, <2>6, <2>7, DriftIs
  <2> QED BY <2>1, <2>3, <2>8
<1>4. ASSUME NEW m \in Times, NEW n \in Times, NEW flag \in BOOLEAN, Rise(m, n, flag)
      PROVE  \E version \in Versions : /\ mailbox' = Append(mailbox, version)
                                       /\ Drifts(old, version)
                                       /\ UNCHANGED <<tool, call, walk>>
  <2> DEFINE version == [old EXCEPT !.listed = (L \ {m}) \union {n},
                                    !.unread = (old.unread \ {m}) \union Flagged(n, flag)]
  <2>1. mailbox' = Append(mailbox, version) /\ UNCHANGED <<tool, call, walk>>
    BY <1>4 DEF Rise, Change
  <2>2. Flagged(n, flag) \in SUBSET Times
    BY DEF Flagged
  <2>3. /\ version \in Versions /\ version.listed = (L \ {m}) \union {n}
        /\ version.listed \in SUBSET Times /\ version.left = old.left
    BY <1>1, <2>2 DEF Versions
  <2> HIDE DEF version
  <2>4. m \in L /\ n \notin L /\ n > m
    BY <1>4 DEF Rise
  <2>5. ASSUME NEW k \in L \intersect version.listed
        PROVE  Above(L, k) <= Above(version.listed, k)
    <3>1. k # m
      BY <2>3, <2>4
    <3> QED BY <1>1, <2>3, <2>4, <3>1, ThreadRises
  <2>6. \A k \in L : Above(version.listed, k) \in Nat
    BY <2>3, OffsetTypes
  <2>7. \A k \in L \intersect version.listed : Above(L, k) <= Above(version.listed, k) + 0
    BY <1>2, <2>5, <2>6
  <2>8. version.left = old.left + 0
    BY <1>1, <2>3
  <2>9. Drifts(old, version)
    BY <1>1, <2>3, <2>7, <2>8, DriftIs
  <2> QED BY <2>1, <2>3, <2>9
<1>5. ASSUME NEW m \in Times, Leave(m)
      PROVE  \E version \in Versions : /\ mailbox' = Append(mailbox, version)
                                       /\ Drifts(old, version)
                                       /\ UNCHANGED <<tool, call, walk>>
  <2> DEFINE version == [old EXCEPT !.listed = L \ {m}, !.unread = old.unread \ {m},
                                    !.left = old.left + 1]
  <2>1. mailbox' = Append(mailbox, version) /\ UNCHANGED <<tool, call, walk>>
    BY <1>5 DEF Leave, Change
  <2>2. /\ version \in Versions /\ version.listed = L \ {m}
        /\ version.listed \in SUBSET Times /\ version.left = old.left + 1
    <3>1. L \ {m} \in SUBSET Times /\ old.unread \ {m} \in SUBSET Times /\ old.left + 1 \in Nat
      BY <1>1
    <3> QED BY <1>1, <3>1 DEF Versions
  <2> HIDE DEF version
  <2>3. ASSUME NEW k \in L PROVE Above(L, k) <= Above(version.listed, k) + 1
    <3>1. {x \in L : x > k} \subseteq {x \in version.listed : x > k} \union {m}
      BY <2>2
    <3> QED BY <1>1, <2>2, <3>1, OffsetsCompared
  <2>4. \A k \in L \intersect version.listed : Above(L, k) <= Above(version.listed, k) + 1
    BY <2>3
  <2>5. Drifts(old, version)
    BY <1>1, <2>2, <2>4, DriftIs
  <2> QED BY <2>1, <2>2, <2>5
<1>6. ASSUME NEW m \in Times, Flip(m)
      PROVE  \E version \in Versions : /\ mailbox' = Append(mailbox, version)
                                       /\ Drifts(old, version)
                                       /\ UNCHANGED <<tool, call, walk>>
  <2> DEFINE flags   == IF m \in old.unread THEN old.unread \ {m} ELSE old.unread \union {m}
             version == [old EXCEPT !.unread = flags]
  <2>1. mailbox' = Append(mailbox, version) /\ UNCHANGED <<tool, call, walk>>
    BY <1>6 DEF Flip, Change
  <2>2. /\ version \in Versions /\ version.listed = L /\ version.left = old.left
    BY <1>1 DEF Versions
  <2> HIDE DEF version
  <2>3. Drifts(old, version)
    BY <1>1, <1>2, <2>2 DEF Drifts
  <2> QED BY <2>1, <2>2, <2>3
<1> QED BY <1>3, <1>4, <1>5, <1>6 DEF Upstream

(* From one version to a later one, what is listed all the time moves      *)
(* towards the front by one place at most for each item that has left.     *)
Drift ==
    \A v, w \in 1 .. Len(mailbox) : v <= w =>
        /\ mailbox[v].left <= mailbox[w].left
        /\ \A m \in Lasting(v, w) :
               Above(mailbox[v].listed, m)
                   <= Above(mailbox[w].listed, m) + LeftBetween(v, w)

LEMMA VersionTypes ==
    ASSUME mailbox \in Seq(Versions), NEW v \in 1 .. Len(mailbox)
    PROVE  /\ Len(mailbox) \in Nat /\ v \in Nat
           /\ mailbox[v].listed \in SUBSET Times /\ mailbox[v].left \in Nat
<1>1. Len(mailbox) \in Nat
  BY LenProperties
<1>2. mailbox[v] \in Versions
  BY ElementOfSeq
<1> QED BY <1>1, <1>2 DEF Versions

LEMMA ChangeAppended ==
    ASSUME mailbox \in Seq(Versions), NEW version \in Versions,
           mailbox' = Append(mailbox, version)
    PROVE  /\ mailbox' \in Seq(Versions) /\ Len(mailbox') = Len(mailbox) + 1
           /\ Len(mailbox) \in Nat
           /\ mailbox'[Len(mailbox) + 1] = version
           /\ \A v, w \in 1 .. Len(mailbox) :
                  /\ mailbox'[v] = mailbox[v]
                  /\ Lasting(v, w)' = Lasting(v, w)
                  /\ LeftBetween(v, w)' = LeftBetween(v, w)
<1> PICK later : later = mailbox'
  OBVIOUS
<1>1. /\ later \in Seq(Versions) /\ Len(later) = Len(mailbox) + 1 /\ Len(mailbox) \in Nat
      /\ later[Len(mailbox) + 1] = version
      /\ \A v \in 1 .. Len(mailbox) : later[v] = mailbox[v]
  BY AppendProperties, LenProperties
<1>2. ASSUME NEW v \in 1 .. Len(mailbox), NEW w \in 1 .. Len(mailbox)
      PROVE  Lasting(v, w)' = Lasting(v, w) /\ LeftBetween(v, w)' = LeftBetween(v, w)
  <2>1. \A u \in v .. w : u \in 1 .. Len(mailbox)
    BY <1>1
  <2>2. \A u \in v .. w : later[u] = mailbox[u]
    BY <1>1, <2>1
  <2>3. Lasting(v, w)' = Lasting(v, w)
    BY <2>2 DEF Lasting
  <2> QED BY <1>1, <2>3 DEF LeftBetween
<1> QED BY <1>1, <1>2

LEMMA DriftGoesOn ==
    ASSUME Drift, mailbox \in Seq(Versions), mailbox # << >>, NEW version \in Versions,
           mailbox' = Append(mailbox, version), Drifts(Latest, version)
    PROVE  Drift'
<1> PICK last : last = Len(mailbox)
  OBVIOUS
<1> PICK later : later = mailbox'
  OBVIOUS
<1>1. /\ last \in Nat /\ Len(later) = last + 1 /\ later[last + 1] = version
      /\ \A v, w \in 1 .. last : /\ later[v] = mailbox[v]
                                 /\ Lasting(v, w)' = Lasting(v, w)
                                 /\ LeftBetween(v, w)' = LeftBetween(v, w)
  BY ChangeAppended
<1>2. last \in 1 .. last
  BY <1>1, EmptySeq, LenProperties
<1>3. later[last] = Latest /\ mailbox[last] = Latest
  BY <1>1, <1>2 DEF Latest
<1>4. /\ version.listed \in SUBSET Times /\ version.left \in Nat
      /\ Latest.listed \in SUBSET Times /\ Latest.left \in Nat
  BY <1>2, <1>3, VersionTypes DEF Versions
<1>5. ASSUME NEW v \in 1 .. last + 1, NEW w \in 1 .. last + 1, v <= w
      PROVE  /\ later[v].left <= later[w].left
             /\ \A m \in Lasting(v, w)' :
                    Above(later[v].listed, m)
                        <= Above(later[w].listed, m) + (later[w].left - later[v].left)
  <2>1. CASE w \in 1 .. last
    <3>1. v \in 1 .. last
      BY <1>1, <1>5, <2>1
    <3> QED BY <1>1, <1>5, <2>1, <3>1 DEF Drift, LeftBetween
  <2>2. CASE w = last + 1 /\ v = last + 1
    <3>1. \A m : Above(version.listed, m) \in Nat
      BY <1>4, OffsetTypes
    <3> QED BY <1>1, <1>4, <2>2, <3>1
  <2>3. CASE w = last + 1 /\ v # last + 1
    <3> PICK L : L = mailbox[v].listed
      OBVIOUS
    <3>1. v \in 1 .. last /\ v <= last
      BY <1>1, <2>3
    <3>2. later[v] = mailbox[v] /\ mailbox[v].left \in Nat /\ L \in SUBSET Times
      BY <1>1, <3>1, VersionTypes
    <3>3. /\ mailbox[v].left <= Latest.left
          /\ \A m \in Lasting(v, last) :
                 Above(L, m) <= Above(Latest.listed, m) + (Latest.left - mailbox[v].left)
      BY <1>2, <1>3, <3>1 DEF Drift, LeftBetween
    <3>4. /\ Latest.left <= version.left
          /\ \A m \in Latest.listed \intersect version.listed :
                 Above(Latest.listed, m) <= Above(version.listed, m) + (version.left - Latest.left)
      BY DEF Drifts
    <3>5. ASSUME NEW m \in Lasting(v, w)'
          PROVE  Above(L, m) <= Above(version.listed, m) + (version.left - mailbox[v].left)
      <4>1. \A u \in v .. last + 1 : m \in later[u].listed
        BY <2>3, <3>5 DEF Lasting
      <4>2. last \in v .. last + 1 /\ last + 1 \in v .. last + 1
            /\ \A u \in v .. last : u \in v .. last + 1 /\ u \in 1 .. last
        BY <1>1, <3>1
      <4>3. m \in Latest.listed /\ m \in version.listed
        BY <1>1, <1>3, <4>1, <4>2
      <4>4. m \in Lasting(v, last)
        BY <1>1, <1>4, <4>1, <4>2, <4>3 DEF Lasting
      <4>5. /\ Above(L, m) \in Nat /\ Above(Latest.listed, m) \in Nat
            /\ Above(version.listed, m) \in Nat
        BY <1>4, <3>2, OffsetTypes
      <4>6. /\ Above(L, m) <= Above(Latest.listed, m) + (Latest.left - mailbox[v].left)
            /\ Above(Latest.listed, m) <= Above(version.listed, m) + (version.left - Latest.left)
        BY <3>3, <3>4, <4>3, <4>4
      <4> HIDE DEF Above
      <4> QED BY <1>4, <3>2, <4>5, <4>6
    <3>6. mailbox[v].left <= version.left
      BY <1>4, <3>2, <3>3, <3>4
    <3> QED BY <1>1, <2>3, <3>2, <3>5, <3>6
  <2> QED BY <1>1, <2>1, <2>2, <2>3
<1> QED BY <1>1, <1>5 DEF Drift, LeftBetween

(* At version w of the listing the items R were missing in front of an     *)
(* offset.  At version n all that is missing, S, is in front of it too,    *)
(* and what was in front before was missing before.  Then the items that   *)
(* have come in front since are one for each that has left.                *)
Gap(v, w, n, offset, R, S) ==
    /\ v \in 1 .. Len(mailbox) /\ w \in 1 .. Len(mailbox) /\ n \in 1 .. Len(mailbox)
    /\ v <= w /\ w <= n
    /\ offset \in Nat
    /\ R \in SUBSET Times /\ Cardinality(R) <= LeftBetween(v, w)
    /\ S \in SUBSET Lasting(v, n)
    /\ \A m \in S : Above(mailbox[n].listed, m) < offset
    /\ \A m \in S : Above(mailbox[w].listed, m) < offset => m \in R

LEMMA GapGrows ==
    ASSUME Drift, mailbox \in Seq(Versions), NEW v, NEW w, NEW n, NEW offset, NEW R, NEW S,
           Gap(v, w, n, offset, R, S)
    PROVE  Cardinality(S) <= LeftBetween(v, n)
<1>0. /\ v \in 1 .. Len(mailbox) /\ w \in 1 .. Len(mailbox) /\ n \in 1 .. Len(mailbox)
      /\ v <= w /\ w <= n
      /\ offset \in Nat
      /\ R \in SUBSET Times /\ Cardinality(R) <= LeftBetween(v, w)
      /\ S \in SUBSET Lasting(v, n)
      /\ \A m \in S : Above(mailbox[n].listed, m) < offset
      /\ \A m \in S : Above(mailbox[w].listed, m) < offset => m \in R
  BY DEF Gap
<1> DEFINE crossed == {m \in S : ~(Above(mailbox[w].listed, m) < offset)}
<1> PICK d : d = LeftBetween(w, n)
  OBVIOUS
<1>1. /\ mailbox[v].left \in Nat /\ mailbox[w].left \in Nat /\ mailbox[n].left \in Nat
      /\ mailbox[w].listed \in SUBSET Times /\ mailbox[n].listed \in SUBSET Times
  BY <1>0, VersionTypes
<1>2. mailbox[v].left <= mailbox[w].left /\ mailbox[w].left <= mailbox[n].left
  BY <1>0 DEF Drift
<1>3. d \in Nat /\ LeftBetween(v, w) \in Nat /\ LeftBetween(v, n) = LeftBetween(v, w) + d
  BY <1>1, <1>2 DEF LeftBetween
<1>4. S \in SUBSET Times /\ S \subseteq Lasting(w, n) /\ S \subseteq mailbox[n].listed
  <2>1. w .. n \subseteq v .. n /\ n \in v .. n
    BY <1>0, VersionTypes
  <2> QED BY <1>0, <2>1 DEF Lasting
<1>5. S \in SUBSET (R \union crossed) /\ crossed \in SUBSET Times /\ crossed \subseteq S
  BY <1>0, <1>4
<1>6. \A m \in crossed : ~(Above(mailbox[w].listed, m) < offset)
  OBVIOUS
<1> HIDE DEF crossed
<1>7. Cardinality(crossed) <= d
  <2> DEFINE offsets == (offset - d) .. (offset - 1)
             f == [m \in crossed |-> Above(mailbox[n].listed, m)]
  <2>1. IsFiniteSet(offsets) /\ Cardinality(offsets) = d
    <3>1. offset - d \in Int /\ offset - 1 \in Int
      BY <1>0, <1>3
    <3>2. /\ IsFiniteSet(offsets)
          /\ Cardinality(offsets) = IF offset - d > offset - 1 THEN 0
                                    ELSE (offset - 1) - (offset - d) + 1
      BY <3>1, FS_Interval
    <3> QED BY <1>0, <1>3, <3>2
  <2>2. ASSUME NEW m \in crossed PROVE Above(mailbox[n].listed, m) \in offsets
    <3>1. Above(mailbox[w].listed, m) \in Nat /\ Above(mailbox[n].listed, m) \in Nat
      BY <1>1, OffsetTypes
    <3>2. Above(mailbox[w].listed, m) <= Above(mailbox[n].listed, m) + d
      BY <1>0, <1>4, <1>5 DEF Drift
    <3>3. Above(mailbox[n].listed, m) < offset /\ ~(Above(mailbox[w].listed, m) < offset)
      BY <1>0, <1>5, <1>6
    <3> QED BY <1>0, <1>3, <3>1, <3>2, <3>3
  <2> HIDE DEF offsets
  <2>3. f \in [crossed -> offsets]
    BY <2>2
  <2>4. ASSUME NEW m \in crossed, NEW k \in crossed, f[m] = f[k] PROVE m = k
    BY <1>1, <1>4, <1>5, <2>4, OneAtEachOffset
  <2> HIDE DEF f
  <2>5. f \in Injection(crossed, offsets)
    BY <2>3, <2>4 DEF Injection, IsInjective
  <2> QED BY <2>1, <2>5, FS_Injection
<1>8. /\ IsFiniteSet(R) /\ Cardinality(R) \in Nat
      /\ IsFiniteSet(crossed) /\ Cardinality(crossed) \in Nat
      /\ Cardinality(R \intersect crossed) \in Nat
  <2>1. R \intersect crossed \in SUBSET Times
    BY <1>0
  <2> QED BY <1>0, <1>5, <2>1, ListingFinite
<1>9. /\ IsFiniteSet(R \union crossed)
      /\ Cardinality(R \union crossed)
             = Cardinality(R) + Cardinality(crossed) - Cardinality(R \intersect crossed)
  BY <1>8, FS_Union
<1>10. Cardinality(S) <= Cardinality(R \union crossed) /\ Cardinality(S) \in Nat
  BY <1>4, <1>5, <1>9, FS_Subset, ListingFinite
<1> QED BY <1>0, <1>3, <1>7, <1>8, <1>9, <1>10

----------------------------------------------------------------------------
(* The end of a page. *)

(* A call that returns and reports whether there is more. *)
Returned(c, more, next) == [c EXCEPT !.pc = "returned", !.more = more, !.next = next]

LEMMA ReturnedWith ==
    ASSUME NEW c \in Calls, NEW more \in BOOLEAN, NEW next \in Nat, NEW r,
           r = Returned(c, more, next)
    PROVE  /\ r \in Calls /\ r.pc = "returned" /\ r.args = c.args /\ r.start = c.start
           /\ r.collected = c.collected /\ r.more = more /\ r.next = next
BY DEF Calls, Returned

LEMMA AfterPageCases ==
    ASSUME NEW a \in Arguments, NEW c \in Calls, c.pc = "page", NEW pageMore \in BOOLEAN,
           NEW pageNext \in Nat, NEW r, r = AfterPage(a, c, pageMore, pageNext)
    PROVE  /\ r \in Calls /\ r.args = c.args /\ r.start = c.start
           /\ r.collected = c.collected
           /\ r.pc \in {"page", "returned"}
           /\ r.pc = "page" => /\ Filtered(a) /\ Len(c.collected) < HardCap(a)
                               /\ ~c.pastCutoff /\ ~r.pastCutoff /\ r.cursor = pageNext
           /\ r.pc = "returned" =>
                  /\ (Filtered(a) /\ Len(c.collected) < HardCap(a)) => c.pastCutoff \/ ~pageMore
                  /\ ~Filtered(a) => r.more = pageMore /\ (pageMore => r.next = pageNext)
<1> DEFINE l == Len(c.collected)
<1> PICK next : next = IF pageMore THEN pageNext ELSE 0
  OBVIOUS
<1>0. next \in Nat
  OBVIOUS
<1>1. l \in Nat /\ HardCap(a) \in Nat
  BY CapTypes, LenProperties DEF Calls
<1>2. CASE l >= HardCap(a) /\ Filtered(a)
  <2>1. PICK more \in BOOLEAN : r = Returned(c, more, next)
    BY <1>2 DEF AfterPage, Returned
  <2>2. ~(l < HardCap(a))
    BY <1>1, <1>2
  <2>4. /\ r \in Calls /\ r.pc = "returned" /\ r.args = c.args /\ r.start = c.start
        /\ r.collected = c.collected
    BY <1>0, <2>1, ReturnedWith
  <2> QED BY <1>2, <2>2, <2>4
<1>3. CASE ~(l >= HardCap(a)) /\ Filtered(a) /\ ~c.pastCutoff /\ pageMore
  <2>1. r = [c EXCEPT !.cursor = pageNext]
    BY <1>3 DEF AfterPage
  <2>2. l < HardCap(a)
    BY <1>1, <1>3
  <2> HIDE DEF l
  <2> QED BY <1>3, <2>1, <2>2 DEF Calls, l
<1>4. CASE Filtered(a) /\ ~(l >= HardCap(a)) /\ (c.pastCutoff \/ ~pageMore)
  <2>1. CASE a.tool = Threads
    <3>1. r = [c EXCEPT !.pc = "returned"]
      BY <1>4, <2>1 DEF AfterPage
    <3>2. /\ r \in Calls /\ r.pc = "returned" /\ r.args = c.args /\ r.start = c.start
          /\ r.collected = c.collected
      BY <3>1 DEF Calls
    <3> QED BY <1>4, <3>2
  <2>2. CASE a.tool # Threads
    <3>1. r = Returned(c, pageMore, next)
      BY <1>4, <2>2 DEF AfterPage, Returned
    <3>3. /\ r \in Calls /\ r.pc = "returned" /\ r.args = c.args /\ r.start = c.start
          /\ r.collected = c.collected
      BY <1>0, <3>1, ReturnedWith
    <3> QED BY <1>4, <3>3
  <2> QED BY <2>1, <2>2
<1>5. CASE ~Filtered(a)
  <2>1. r = Returned(c, pageMore, next)
    BY <1>5 DEF AfterPage, Returned
  <2>3. /\ r \in Calls /\ r.pc = "returned" /\ r.args = c.args /\ r.start = c.start
        /\ r.collected = c.collected /\ r.more = pageMore
        /\ r.next = next
    BY <1>0, <2>1, ReturnedWith
  <2> QED BY <1>5, <2>3
<1> QED BY <1>2, <1>3, <1>4, <1>5

----------------------------------------------------------------------------
(* The inductive invariant. *)

(* Of what lasted from version v to version w, the items in front of an    *)
(* offset there.                                                           *)
InFront(v, w, offset) == {m \in Lasting(v, w) : Above(mailbox[w].listed, m) < offset}

(* Due, for any arguments, start and versions. *)
DueIn(a, start, v, w) ==
    {m \in Lasting(v, w) :
       /\ Above(mailbox[v].listed, m) >= start
       /\ \A u \in v .. w : Wanted(a, mailbox[u].unread, m)}

DueInFront(a, start, v, w, offset) ==
    {m \in DueIn(a, start, v, w) : Above(mailbox[w].listed, m) < offset}

(* The versions of the walk are in order; they are 0 before its first page *)
(* and when it has aged.                                                   *)
Walked ==
    /\ mailbox # << >>
    /\ walk.first <= walk.opened /\ walk.opened <= walk.newest /\ walk.newest <= Len(mailbox)
    /\ walk.first = 0 => walk.newest = 0
    /\ call.pc = "idle" => walk = NoWalk
    /\ (call.pc = "page" /\ ~walk.aged /\ walk.first = 0) => call.start = 0 /\ call.cursor = 0
    /\ (call.pc = "returned" /\ ~walk.aged) => walk.first > 0

(* Between two pages a call is not past the cutoff.  What it has left out  *)
(* in front of its cursor, or, without filters, what the walk has, is one  *)
(* item at most for each that has left.                                    *)
BetweenPages ==
    call.pc = "page" =>
        /\ ~call.pastCutoff
        /\ ~Filtered(call.args) => call.collected = << >>
        /\ (~Filtered(call.args) /\ ~walk.aged /\ walk.first > 0) =>
               Cardinality(InFront(walk.first, walk.newest, call.cursor) \ walk.got)
                   <= LeftBetween(walk.first, walk.newest)
        /\ (Filtered(call.args) /\ ~walk.aged /\ call.cursor # call.start) =>
               /\ walk.first > 0
               /\ Cardinality(DueInFront(call.args, call.start, walk.opened, walk.newest, call.cursor)
                                  \ ToSet(call.collected))
                      <= LeftBetween(walk.opened, walk.newest)

(* The same where the caller goes on. *)
BetweenCalls ==
    (call.pc = "returned" /\ ~Filtered(call.args) /\ call.more /\ ~walk.aged) =>
        Cardinality(InFront(walk.first, walk.newest, call.next) \ walk.got)
            <= LeftBetween(walk.first, walk.newest)

IInv ==
    /\ TypeOK /\ PlainWalkGaps /\ BelowCapGaps
    /\ Drift /\ Walked /\ BetweenPages /\ BetweenCalls

LEMMA DueIsDueIn == Due = DueIn(call.args, call.start, walk.opened, walk.newest)
BY DEF Due, DueIn

----------------------------------------------------------------------------
(* A page. *)

(* What the loop over one page of version n takes and passes over. *)
Taken(a, n, cursor, end, c) ==
    LET L      == mailbox[n].listed
        unread == mailbox[n].unread
    IN  /\ SameCall(c, call)
        /\ Len(c.collected) <= HardCap(a)
        /\ c.pastCutoff => \A m \in L : Above(L, m) >= end => ~Wanted(a, unread, m)
        /\ (Filtered(a) /\ Len(c.collected) < HardCap(a)) =>
               /\ ToSet(call.collected) \subseteq ToSet(c.collected)
               /\ \A m \in L : (/\ cursor <= Above(L, m) /\ Above(L, m) < end
                                /\ Wanted(a, unread, m)) => m \in ToSet(c.collected)
        /\ ~Filtered(a) =>
               \A m \in L : (cursor <= Above(L, m) /\ Above(L, m) < end) =>
                                m \in ToSet(c.collected)

LEMMA PageScanned ==
    ASSUME IInv, call.pc = "page", NEW n \in 1 .. Len(mailbox),
           NEW limit, limit = PageLimit(call.args), NEW c,
           c = Scan(call.args, mailbox[n].unread, Page(mailbox[n].listed, call.cursor, limit), call)
    PROVE  Taken(call.args, n, call.cursor, call.cursor + limit, c)
<1> PICK a : a = call.args
  OBVIOUS
<1> PICK cursor : cursor = call.cursor
  OBVIOUS
<1> PICK L : L = mailbox[n].listed
  OBVIOUS
<1> PICK unread : unread = mailbox[n].unread
  OBVIOUS
<1> PICK items : items = Page(L, cursor, limit)
  OBVIOUS
<1>1. /\ call \in Calls /\ mailbox \in Seq(Versions) /\ ~call.pastCutoff
      /\ Len(call.collected) <= HardCap(call.args)
      /\ ~Filtered(call.args) => call.collected = << >>
  BY DEF IInv, TypeOK, Idle, BetweenPages
<1>2. a \in Arguments /\ cursor \in Nat /\ L \in SUBSET Times
  BY <1>1, VersionTypes DEF Calls
<1>3. limit \in Nat \ {0} /\ a.since \in Nat /\ (~Filtered(a) => limit = a.limit)
  BY <1>2, CapTypes
<1>4. PICK k \in Nat : Paged(items, L, cursor, limit, k)
  BY <1>2, <1>3, PageItems
<1>5. Scanned(a, unread, call, items, c, k)
  <2>1. \A p \in 1 .. k : items[p] \in Times
    BY <1>2, <1>4 DEF Paged
  <2> QED BY <1>1, <1>2, <1>4, <2>1, ScanKeeps DEF Paged
<1>6. ASSUME c.pastCutoff, NEW m \in L, Above(L, m) >= cursor + limit
      PROVE  ~Wanted(a, unread, m)
  <2>1. PICK i \in 1 .. k : items[i] < a.since
    BY <1>5, <1>6 DEF Scanned
  <2> PICK x : x = items[i]
    OBVIOUS
  <2>2. x \in L /\ Above(L, x) = cursor + i - 1 /\ i <= limit
    BY <1>3, <1>4 DEF Paged
  <2>3. Above(L, x) < Above(L, m)
    <3>1. Above(L, m) \in Nat
      BY <1>2, OffsetTypes
    <3>2. cursor + i - 1 < cursor + limit
      BY <1>2, <1>3, <2>2
    <3> QED BY <1>2, <1>3, <1>6, <2>2, <3>1, <3>2
  <2>4. ~(x < m)
    <3>1. Above(L, x) \in Nat /\ Above(L, m) \in Nat
      BY <1>2, OffsetTypes
    <3>2. ~(Above(L, m) < Above(L, x))
      BY <2>3, <3>1
    <3> QED BY <1>2, <2>2, <3>2, LaterIsListedFirst
  <2>5. x \in Nat /\ m \in Nat
    BY <1>2, <2>2, MailPagingAssumption DEF Times
  <2>6. ~(m >= a.since)
    BY <1>3, <2>1, <2>4, <2>5
  <2> QED BY <2>6 DEF Wanted
<1>7. ASSUME Filtered(a), Len(c.collected) < HardCap(a)
      PROVE  /\ ToSet(call.collected) \subseteq ToSet(c.collected)
             /\ \A m \in L : (/\ cursor <= Above(L, m) /\ Above(L, m) < cursor + limit
                              /\ Wanted(a, unread, m)) => m \in ToSet(c.collected)
  <2>1. /\ ToSet(call.collected) \subseteq ToSet(c.collected)
        /\ \A i \in 1 .. k : Wanted(a, unread, items[i]) => items[i] \in ToSet(c.collected)
    BY <1>5, <1>7 DEF Scanned
  <2>2. ASSUME NEW m \in L, cursor <= Above(L, m), Above(L, m) < cursor + limit,
               Wanted(a, unread, m)
        PROVE  m \in ToSet(c.collected)
    <3>1. PICK i \in 1 .. k : items[i] = m
      BY <1>4, <2>2 DEF Paged
    <3> QED BY <2>1, <2>2, <3>1
  <2> QED BY <2>1, <2>2
<1>8. ASSUME ~Filtered(a)
      PROVE  \A m \in L : (cursor <= Above(L, m) /\ Above(L, m) < cursor + limit) =>
                              m \in ToSet(c.collected)
  <2>1. k <= a.limit /\ call.collected = << >>
    BY <1>1, <1>3, <1>4, <1>8 DEF Paged
  <2>2. \A i \in 1 .. k : items[i] \in ToSet(c.collected)
    BY <1>5, <1>8, <2>1 DEF Scanned
  <2> QED BY <1>4, <2>2 DEF Paged
<1>9. SameCall(c, call) /\ Len(c.collected) <= HardCap(a)
  BY <1>1, <1>5 DEF Scanned
<1> QED BY <1>6, <1>7, <1>8, <1>9 DEF Taken

LEMMA PageMoreIs ==
    ASSUME NEW L \in SUBSET Times, NEW cursor \in Nat, NEW limit \in Nat
    PROVE  /\ PageMore(L, cursor, limit) \in BOOLEAN
           /\ ~PageMore(L, cursor, limit) => \A m \in L : Above(L, m) < cursor + limit
<1>1. Cardinality(L) \in Nat
  BY ListingFinite
<1>2. \A m \in L : Above(L, m) \in Nat /\ Above(L, m) < Cardinality(L)
  BY OffsetTypes
<1> QED BY <1>1, <1>2 DEF PageMore

LEMMA NothingMissing ==
    ASSUME mailbox \in Seq(Versions), NEW n \in 1 .. Len(mailbox), NEW S, S = {}
    PROVE  Cardinality(S) <= LeftBetween(n, n)
<1>1. mailbox[n].left \in Nat
  BY VersionTypes
<1>2. Cardinality(S) = 0
  BY FS_EmptySet
<1> QED BY <1>1, <1>2 DEF LeftBetween

(* What a walk without filters has left out in front of the end of a page. *)
LEMMA PlainPage ==
    ASSUME IInv, call.pc = "page", ~walk.aged, ~Filtered(call.args),
           NEW n \in 1 .. Len(mailbox), n >= walk.newest,
           NEW end \in Nat, NEW got, walk.got \subseteq got,
           \A m \in mailbox[n].listed :
               (call.cursor <= Above(mailbox[n].listed, m) /\ Above(mailbox[n].listed, m) < end) =>
                   m \in got,
           NEW first, first = IF walk.first = 0 THEN n ELSE walk.first
    PROVE  Cardinality(InFront(first, n, end) \ got) <= LeftBetween(first, n)
<1> PICK S : S = InFront(first, n, end) \ got
  OBVIOUS
<1> PICK cursor : cursor = call.cursor
  OBVIOUS
<1>1. /\ mailbox \in Seq(Versions) /\ Len(mailbox) \in Nat /\ n \in Nat
      /\ cursor \in Nat /\ walk.first \in Nat /\ walk.newest \in Nat
      /\ mailbox[n].listed \in SUBSET Times
  BY VersionTypes DEF IInv, TypeOK, Idle, Calls, Walks
<1>2. \A m \in mailbox[n].listed : Above(mailbox[n].listed, m) \in Nat
  BY <1>1, OffsetTypes
<1>3. walk.first <= walk.newest /\ walk.newest <= Len(mailbox)
  BY <1>1 DEF IInv, TypeOK, Walks, Walked
<1>4. first \in 1 .. n
  BY <1>1, <1>3
<1>5. S \in SUBSET Lasting(first, n) /\ S \subseteq mailbox[n].listed /\ S \subseteq Times
  <2>1. n \in first .. n
    BY <1>1, <1>4
  <2> QED BY <2>1 DEF InFront, Lasting
<1>6. \A m \in S : Above(mailbox[n].listed, m) < cursor
  BY <1>1, <1>2, <1>5 DEF InFront
<1>7. CASE walk.first = 0
  <2>1. cursor = 0
    BY <1>7 DEF IInv, Walked
  <2>2. S = {}
    BY <1>2, <1>5, <1>6, <2>1
  <2> QED BY <1>1, <1>7, <2>2, NothingMissing
<1>8. CASE walk.first # 0
  <2> PICK R : R = InFront(first, walk.newest, cursor) \ walk.got
    OBVIOUS
  <2>1. first = walk.first /\ first > 0 /\ first \in Nat
    BY <1>1, <1>8
  <2>2. Cardinality(R) <= LeftBetween(first, walk.newest)
    BY <2>1 DEF IInv, BetweenPages
  <2>3. R \in SUBSET Times
    BY DEF InFront, Lasting
  <2>4. \A m \in S : Above(mailbox[walk.newest].listed, m) < cursor => m \in R
    <3>1. first .. walk.newest \subseteq first .. n
      BY <1>1, <2>1
    <3>2. S \subseteq Lasting(first, walk.newest)
      BY <1>5, <3>1 DEF Lasting
    <3> QED BY <3>2 DEF InFront
  <2> PICK w : w = walk.newest
    OBVIOUS
  <2>5. first \in 1 .. Len(mailbox) /\ w \in 1 .. Len(mailbox)
    BY <1>1, <1>3, <2>1
  <2>6. first <= w /\ w <= n
    BY <1>1, <1>3, <2>1
  <2>7. Drift
    BY DEF IInv
  <2>8. /\ Cardinality(R) <= LeftBetween(first, w)
        /\ \A m \in S : Above(mailbox[w].listed, m) < cursor => m \in R
    BY <2>2, <2>4
  <2>9. Cardinality(S) <= LeftBetween(first, n)
    <3>1. Gap(first, w, n, cursor, R, S)
      BY <1>1, <1>5, <1>6, <2>3, <2>5, <2>6, <2>8 DEF Gap
    <3> QED BY <1>1, <2>7, <3>1, GapGrows, Zenon
  <2> QED BY <2>9
<1> QED BY <1>7, <1>8

(* The same for what is due of a filtered call. *)
LEMMA FilteredPage ==
    ASSUME IInv, call.pc = "page", ~walk.aged, Filtered(call.args),
           NEW n \in 1 .. Len(mailbox), n >= walk.newest,
           NEW a, a = call.args, NEW start, start = call.start,
           NEW end \in Nat, NEW got, ToSet(call.collected) \subseteq got,
           \A m \in mailbox[n].listed :
               (/\ call.cursor <= Above(mailbox[n].listed, m) /\ Above(mailbox[n].listed, m) < end
                /\ Wanted(a, mailbox[n].unread, m)) => m \in got,
           NEW opened, opened = IF call.cursor = call.start THEN n ELSE walk.opened
    PROVE  Cardinality(DueInFront(a, start, opened, n, end) \ got) <= LeftBetween(opened, n)
<1> PICK S : S = DueInFront(a, start, opened, n, end) \ got
  OBVIOUS
<1> PICK cursor : cursor = call.cursor
  OBVIOUS
<1>1. /\ mailbox \in Seq(Versions) /\ Len(mailbox) \in Nat /\ n \in Nat
      /\ cursor \in Nat /\ start \in Nat
      /\ walk.first \in Nat /\ walk.opened \in Nat /\ walk.newest \in Nat
      /\ mailbox[n].listed \in SUBSET Times
  BY VersionTypes DEF IInv, TypeOK, Idle, Calls, Walks
<1>2. \A m \in mailbox[n].listed : Above(mailbox[n].listed, m) \in Nat
  BY <1>1, OffsetTypes
<1>3. /\ walk.first <= walk.opened /\ walk.opened <= walk.newest /\ walk.newest <= Len(mailbox)
      /\ cursor # start => walk.first > 0
  BY <1>1 DEF IInv, Walked, BetweenPages
<1>4. opened \in 1 .. n
  BY <1>1, <1>3
<1>5. /\ S \in SUBSET Lasting(opened, n) /\ S \subseteq mailbox[n].listed /\ S \subseteq Times
      /\ \A m \in S : Wanted(a, mailbox[n].unread, m)
  <2>1. n \in opened .. n
    BY <1>1, <1>4
  <2> QED BY <2>1 DEF DueInFront, DueIn, Lasting
<1>6. \A m \in S : Above(mailbox[n].listed, m) < cursor
  <2>1. \A m \in S : Above(mailbox[n].listed, m) < end /\ m \notin got
    BY DEF DueInFront
  <2> QED BY <1>1, <1>2, <1>5, <2>1
<1>7. CASE cursor = start
  <2>1. opened = n
    BY <1>7
  <2>2. \A m \in S : Above(mailbox[n].listed, m) >= start
    BY <2>1 DEF DueInFront, DueIn
  <2>3. S = {}
    BY <1>1, <1>2, <1>5, <1>6, <1>7, <2>2
  <2> QED BY <1>1, <2>1, <2>3, NothingMissing
<1>8. CASE cursor # start
  <2> PICK R : R = DueInFront(a, start, opened, walk.newest, cursor) \ ToSet(call.collected)
    OBVIOUS
  <2>1. opened = walk.opened
    BY <1>8
  <2>2. Cardinality(R) <= LeftBetween(opened, walk.newest)
    BY <1>8, <2>1 DEF IInv, BetweenPages
  <2>3. R \in SUBSET Times
    BY DEF DueInFront, DueIn, Lasting
  <2>4. \A m \in S : Above(mailbox[walk.newest].listed, m) < cursor => m \in R
    <3>1. opened .. walk.newest \subseteq opened .. n
      BY <1>1, <2>1
    <3>2. S \subseteq Lasting(opened, walk.newest)
      BY <1>5, <3>1 DEF Lasting
    <3>3. \A m \in S : /\ Above(mailbox[opened].listed, m) >= start
                       /\ \A u \in opened .. walk.newest : Wanted(a, mailbox[u].unread, m)
                       /\ m \notin got
      BY <3>1 DEF DueInFront, DueIn
    <3> QED BY <3>2, <3>3 DEF DueInFront, DueIn
  <2> PICK w : w = walk.newest
    OBVIOUS
  <2>5. opened \in 1 .. Len(mailbox) /\ w \in 1 .. Len(mailbox)
    BY <1>1, <1>3, <1>8, <2>1
  <2>6. opened <= w /\ w <= n
    BY <1>1, <1>3, <2>1
  <2>7. Drift
    BY DEF IInv
  <2>8. /\ Cardinality(R) <= LeftBetween(opened, w)
        /\ \A m \in S : Above(mailbox[w].listed, m) < cursor => m \in R
    BY <2>2, <2>4
  <2>9. Cardinality(S) <= LeftBetween(opened, n)
    <3>1. Gap(opened, w, n, cursor, R, S)
      BY <1>1, <1>5, <1>6, <2>3, <2>5, <2>6, <2>8 DEF Gap
    <3> QED BY <1>1, <2>7, <3>1, GapGrows, Zenon
  <2> QED BY <2>9
<1> QED BY <1>7, <1>8

(* What the walk remembers of a page of version n. *)
Remembered(w, n, returned) ==
    /\ w \in Walks
    /\ w.aged => w.first = 0 /\ w.opened = 0 /\ w.newest = 0
    /\ ~w.aged => /\ ~walk.aged /\ n >= walk.newest /\ w.newest = n
                  /\ w.first = IF walk.first = 0 THEN n ELSE walk.first
                  /\ w.opened = IF call.cursor = call.start THEN n ELSE walk.opened
                  /\ w.got = walk.got \union returned

LEMMA RememberIs ==
    ASSUME walk \in Walks, NEW n \in Nat, NEW returned \in SUBSET Times,
           NEW w, w = Remember(n, returned)
    PROVE  Remembered(w, n, returned)
<1>1. CASE walk.aged \/ n < walk.newest
  <2>1. w = [first |-> 0, opened |-> 0, newest |-> 0, aged |-> TRUE, got |-> {}]
    BY <1>1 DEF Remember, Aged, NoWalk
  <2> QED BY <2>1 DEF Walks, Remembered
<1>2. CASE ~(walk.aged \/ n < walk.newest)
  <2> PICK first \in Nat : first = IF walk.first = 0 THEN n ELSE walk.first
    BY DEF Walks
  <2> PICK opened \in Nat : opened = IF call.cursor = call.start THEN n ELSE walk.opened
    BY DEF Walks
  <2> PICK got \in SUBSET Times : got = walk.got \union returned
    BY DEF Walks
  <2>1. w = [walk EXCEPT !.first = first, !.opened = opened, !.newest = n, !.got = got]
    BY <1>2 DEF Remember
  <2>2. /\ w \in Walks /\ w.first = first /\ w.opened = opened /\ w.newest = n
        /\ w.got = got /\ w.aged = walk.aged
    BY <2>1 DEF Walks
  <2>3. n >= walk.newest
    BY <1>2 DEF Walks
  <2> QED BY <1>2, <2>2, <2>3 DEF Remembered
<1> QED BY <1>1, <1>2

(* All that a step that answers a page does. *)
Answered(n, a, start, cursor, end, pageMore, c, r, w) ==
    LET L      == mailbox[n].listed
        unread == mailbox[n].unread
    IN  /\ call.pc = "page" /\ call' = r /\ walk' = w
        /\ mailbox' = mailbox /\ tool' = tool
        /\ a = call.args /\ start = call.start /\ cursor = call.cursor
        /\ a \in Arguments /\ cursor \in Nat /\ start \in Nat /\ end \in Nat
        /\ pageMore \in BOOLEAN /\ (~pageMore => \A m \in L : Above(L, m) < end)
        /\ Taken(a, n, cursor, end, c)
        /\ r \in Calls /\ r.args = a /\ r.start = start /\ r.collected = c.collected
        /\ r.pc \in {"page", "returned"}
        /\ r.pc = "page" => /\ Filtered(a) /\ Len(c.collected) < HardCap(a)
                            /\ ~r.pastCutoff /\ r.cursor = end
        /\ r.pc = "returned" =>
               /\ (Filtered(a) /\ Len(c.collected) < HardCap(a)) => c.pastCutoff \/ ~pageMore
               /\ ~Filtered(a) => r.more = pageMore /\ (pageMore => r.next = end)
        /\ \E returned \in SUBSET Times :
               /\ Remembered(w, n, returned)
               /\ r.pc = "returned" => returned = ToSet(c.collected)

LEMMA AnsweredKeeps ==
    ASSUME IInv, NEW n \in 1 .. Len(mailbox), NEW a, NEW start, NEW cursor, NEW end,
           NEW pageMore, NEW c, NEW r, NEW w,
           Answered(n, a, start, cursor, end, pageMore, c, r, w)
    PROVE  IInv'
<1> PICK L : L = mailbox[n].listed
  OBVIOUS
<1> PICK unread : unread = mailbox[n].unread
  OBVIOUS
<1> PICK returned \in SUBSET Times :
           Remembered(w, n, returned) /\ (r.pc = "returned" => returned = ToSet(c.collected))
  BY DEF Answered
<1>1. /\ call.pc = "page" /\ call' = r /\ walk' = w
      /\ mailbox' = mailbox /\ tool' = tool
      /\ a = call.args /\ start = call.start /\ cursor = call.cursor
  BY DEF Answered
<1>2. /\ mailbox \in Seq(Versions) /\ Len(mailbox) \in Nat /\ n \in Nat
      /\ L \in SUBSET Times /\ call \in Calls /\ walk \in Walks
      /\ n >= 1 /\ n <= Len(mailbox)
  BY <1>1, VersionTypes DEF IInv, TypeOK, Idle
<1>3. a \in Arguments /\ cursor \in Nat /\ start \in Nat /\ end \in Nat
  BY DEF Answered
<1>4. pageMore \in BOOLEAN /\ (~pageMore => \A m \in L : Above(L, m) < end)
  BY DEF Answered
<1>5. /\ SameCall(c, call)
      /\ Len(c.collected) <= HardCap(a)
      /\ c.pastCutoff => \A m \in L : Above(L, m) >= end => ~Wanted(a, unread, m)
      /\ (Filtered(a) /\ Len(c.collected) < HardCap(a)) =>
             /\ ToSet(call.collected) \subseteq ToSet(c.collected)
             /\ \A m \in L : (/\ cursor <= Above(L, m) /\ Above(L, m) < end
                              /\ Wanted(a, unread, m)) => m \in ToSet(c.collected)
      /\ ~Filtered(a) =>
             \A m \in L : (cursor <= Above(L, m) /\ Above(L, m) < end) => m \in ToSet(c.collected)
  <2>1. Taken(a, n, cursor, end, c)
    BY DEF Answered
  <2> QED BY <2>1 DEF Taken
<1>7. /\ r \in Calls /\ r.args = a /\ r.start = start /\ r.collected = c.collected
      /\ r.pc \in {"page", "returned"}
      /\ r.pc = "page" => /\ Filtered(a) /\ Len(c.collected) < HardCap(a)
                          /\ ~r.pastCutoff /\ r.cursor = end
      /\ r.pc = "returned" =>
             /\ (Filtered(a) /\ Len(c.collected) < HardCap(a)) => c.pastCutoff \/ ~pageMore
             /\ ~Filtered(a) => r.more = pageMore /\ (pageMore => r.next = end)
  BY DEF Answered
<1>9. /\ w \in Walks
      /\ w.aged => w.first = 0 /\ w.opened = 0 /\ w.newest = 0
      /\ ~w.aged => /\ ~walk.aged /\ n >= walk.newest /\ w.newest = n
                    /\ w.first = IF walk.first = 0 THEN n ELSE walk.first
                    /\ w.opened = IF cursor = start THEN n ELSE walk.opened
                    /\ w.got = walk.got \union returned
  BY <1>1 DEF Remembered
<1>10. TypeOK'
  BY <1>1, <1>5, <1>7, <1>9 DEF IInv, TypeOK
<1>11. Drift'
  BY <1>1 DEF IInv, Drift, Lasting, LeftBetween
<1>12. Walked'
  <2>1. /\ mailbox # << >> /\ walk.first <= walk.opened /\ walk.opened <= walk.newest
        /\ walk.first = 0 => walk.newest = 0
        /\ walk.first \in Nat /\ walk.opened \in Nat /\ walk.newest \in Nat
        /\ ~walk.aged /\ walk.first = 0 => cursor = 0 /\ start = 0
    BY <1>1, <1>2 DEF IInv, Walked, Walks
  <2>2. CASE w.aged
    <3>1. w.first = 0 /\ w.opened = 0 /\ w.newest = 0
      BY <1>9, <2>2
    <3> QED BY <1>1, <1>2, <1>7, <2>1, <2>2, <3>1 DEF Walked
  <2>3. CASE ~w.aged
    <3>1. /\ ~walk.aged /\ n >= walk.newest /\ w.newest = n
          /\ w.first = IF walk.first = 0 THEN n ELSE walk.first
          /\ w.opened = IF cursor = start THEN n ELSE walk.opened
      BY <1>9, <2>3
    <3>2. /\ w.first <= w.opened /\ w.opened <= n /\ w.first > 0
          /\ w.newest <= Len(mailbox) /\ w.newest > 0
      <4> PICK first : first = walk.first
        OBVIOUS
      <4> PICK opened : opened = walk.opened
        OBVIOUS
      <4>1. /\ first \in Nat /\ opened \in Nat /\ first <= opened /\ opened <= n
        BY <1>2, <2>1, <3>1
      <4>2. CASE first = 0
        <5>1. w.first = n /\ w.opened = n
          BY <2>1, <3>1, <4>2
        <5> QED BY <1>2, <3>1, <5>1
      <4>3. CASE first # 0
        <5>1. w.first = first /\ (w.opened = n \/ w.opened = opened)
          BY <3>1, <4>3
        <5> QED BY <1>2, <3>1, <4>1, <4>3, <5>1
      <4> QED BY <4>2, <4>3
    <3>3. w.first <= w.opened /\ w.opened <= w.newest /\ w.first # 0
      BY <3>1, <3>2
    <3>4. r.pc # "idle"
      BY <1>7
    <3> QED BY <1>1, <2>1, <2>3, <3>2, <3>3, <3>4 DEF Walked
  <2> QED BY <2>2, <2>3
<1>13. ASSUME ~w.aged, ~Filtered(a)
       PROVE  r.pc = "returned" /\ Cardinality(InFront(w.first, n, end) \ w.got) <= LeftBetween(w.first, n)
  <2>1. r.pc = "returned"
    BY <1>7, <1>13
  <2> PICK got : got = w.got
    OBVIOUS
  <2> PICK first : first = w.first
    OBVIOUS
  <2>2. walk.got \subseteq got /\ ToSet(c.collected) \subseteq got
    BY <1>9, <1>13, <2>1
  <2>3. \A m \in L : (cursor <= Above(L, m) /\ Above(L, m) < end) => m \in got
    BY <1>5, <1>13, <2>2
  <2>4. ~walk.aged /\ n >= walk.newest /\ first = IF walk.first = 0 THEN n ELSE walk.first
    BY <1>9, <1>13
  <2>5. Cardinality(InFront(first, n, end) \ got) <= LeftBetween(first, n)
    BY <1>1, <1>3, <1>13, <2>2, <2>3, <2>4, PlainPage
  <2> QED BY <2>1, <2>5
<1>14. ASSUME ~w.aged, Filtered(a), Len(c.collected) < HardCap(a)
       PROVE  Cardinality(DueInFront(a, start, w.opened, n, end) \ ToSet(c.collected))
                  <= LeftBetween(w.opened, n)
  <2> PICK got : got = ToSet(c.collected)
    OBVIOUS
  <2> PICK opened : opened = w.opened
    OBVIOUS
  <2>1. ToSet(call.collected) \subseteq got
    BY <1>5, <1>14
  <2>2. \A m \in L : (/\ cursor <= Above(L, m) /\ Above(L, m) < end
                      /\ Wanted(a, unread, m)) => m \in got
    BY <1>5, <1>14
  <2>3. ~walk.aged /\ n >= walk.newest /\ opened = IF cursor = start THEN n ELSE walk.opened
    BY <1>9, <1>14
  <2>4. Cardinality(DueInFront(a, start, opened, n, end) \ got) <= LeftBetween(opened, n)
    BY <1>1, <1>3, <1>14, <2>1, <2>2, <2>3, FilteredPage
  <2> QED BY <2>4
<1>15. ASSUME ~w.aged PROVE w.first \in 1 .. n /\ w.opened \in 1 .. n
  <2>1. /\ w.first <= w.opened /\ w.opened <= w.newest /\ (w.first = 0 => w.newest = 0)
        /\ w.first \in Nat /\ w.opened \in Nat /\ w.newest \in Nat
    BY <1>1, <1>9, <1>12 DEF Walked, Walks
  <2>2. w.newest = n /\ n >= 1
    BY <1>2, <1>9, <1>15
  <2> QED BY <1>2, <2>1, <2>2
<1>16. PlainWalkGaps'
  <2>1. ASSUME r.pc = "returned", ~Filtered(a), ~r.more, ~w.aged
        PROVE  Cardinality(Lasting(w.first, w.newest) \ w.got) <= LeftBetween(w.first, w.newest)
    <3>1. \A m \in L : Above(L, m) < end
      BY <1>4, <1>7, <2>1
    <3>2. n \in w.first .. n
      BY <1>15, <2>1
    <3>3. InFront(w.first, n, end) = Lasting(w.first, n)
      BY <3>1, <3>2 DEF InFront, Lasting
    <3>4. w.newest = n
      BY <1>9, <2>1
    <3>5. Cardinality(InFront(w.first, n, end) \ w.got) <= LeftBetween(w.first, n)
      BY <1>13, <2>1
    <3> QED BY <3>3, <3>4, <3>5, Zenon
  <2>2. /\ Lasting(walk.first, walk.newest)' = Lasting(w.first, w.newest)
        /\ LeftBetween(walk.first, walk.newest)' = LeftBetween(w.first, w.newest)
    BY <1>1 DEF Lasting, LeftBetween
  <2> QED BY <1>1, <1>7, <2>1, <2>2 DEF PlainWalkGaps
<1>17. BelowCapGaps'
  <2>1. ASSUME r.pc = "returned", Filtered(a), ~w.aged, Len(c.collected) < HardCap(a)
        PROVE  Cardinality(DueIn(a, start, w.opened, n) \ ToSet(c.collected))
                   <= LeftBetween(w.opened, n)
    <3>1. n \in w.opened .. n
      BY <1>15, <2>1
    <3>2. \A m \in DueIn(a, start, w.opened, n) : m \in L /\ Wanted(a, unread, m)
      BY <3>1 DEF DueIn, Lasting
    <3>3. \A m \in DueIn(a, start, w.opened, n) : Above(L, m) < end
      <4>1. CASE c.pastCutoff
        <5>1. \A m \in L : Above(L, m) \in Nat
          BY <1>2, OffsetTypes
        <5>2. \A m \in L : Wanted(a, unread, m) => Above(L, m) < end
          BY <1>3, <1>5, <4>1, <5>1
        <5> QED BY <3>2, <5>2
      <4>2. CASE ~pageMore
        BY <1>4, <3>2, <4>2
      <4> QED BY <1>7, <2>1, <4>1, <4>2
    <3>4. DueInFront(a, start, w.opened, n, end) = DueIn(a, start, w.opened, n)
      BY <3>3 DEF DueInFront
    <3> QED BY <1>14, <2>1, <3>4
  <2>2. /\ Due' = DueIn(a, start, w.opened, w.newest)
        /\ LeftBetween(walk.opened, walk.newest)' = LeftBetween(w.opened, w.newest)
    BY <1>1, <1>7, Zenon DEF Due, DueIn, Lasting, LeftBetween
  <2>3. ~w.aged => w.newest = n
    BY <1>9
  <2> QED BY <1>1, <1>7, <2>1, <2>2, <2>3 DEF BelowCapGaps
<1>18. BetweenPages'
  <2>1. ASSUME r.pc = "page" PROVE ~r.pastCutoff /\ Filtered(a) /\ r.cursor = end /\ Len(c.collected) < HardCap(a)
    BY <1>7, <2>1
  <2>2. ASSUME r.pc = "page", ~w.aged
        PROVE  /\ w.first > 0
               /\ Cardinality(DueInFront(a, start, w.opened, w.newest, r.cursor)
                                  \ ToSet(r.collected)) <= LeftBetween(w.opened, w.newest)
    <3>0. w.newest = n
      BY <1>9, <2>2
    <3>1. w.first > 0
      BY <1>2, <1>15, <2>2
    <3>2. r.cursor = end /\ r.collected = c.collected
      BY <1>7, <2>1, <2>2
    <3>3. Cardinality(DueInFront(a, start, w.opened, n, end) \ ToSet(c.collected))
              <= LeftBetween(w.opened, n)
      BY <1>14, <2>1, <2>2
    <3> QED BY <3>0, <3>1, <3>2, <3>3, Zenon
  <2>3. DueInFront(call.args, call.start, walk.opened, walk.newest, call.cursor)'
            = DueInFront(a, start, w.opened, w.newest, r.cursor)
    BY <1>1, <1>7, Zenon DEF DueInFront, DueIn, Lasting
  <2>4. LeftBetween(walk.opened, walk.newest)' = LeftBetween(w.opened, w.newest)
    BY <1>1 DEF LeftBetween
  <2> QED BY <1>1, <1>7, <2>1, <2>2, <2>3, <2>4 DEF BetweenPages
<1>19. BetweenCalls'
  <2>1. ASSUME r.pc = "returned", ~Filtered(a), r.more, ~w.aged
        PROVE  Cardinality(InFront(w.first, w.newest, r.next) \ w.got)
                   <= LeftBetween(w.first, w.newest)
    <3>1. w.newest = n
      BY <1>9, <2>1
    <3>2. r.next = end
      BY <1>7, <2>1
    <3>3. Cardinality(InFront(w.first, n, end) \ w.got) <= LeftBetween(w.first, n)
      BY <1>13, <2>1
    <3> QED BY <3>1, <3>2, <3>3, Zenon
  <2>2. /\ InFront(walk.first, walk.newest, call.next)' = InFront(w.first, w.newest, r.next)
        /\ LeftBetween(walk.first, walk.newest)' = LeftBetween(w.first, w.newest)
    BY <1>1 DEF InFront, Lasting, LeftBetween
  <2> QED BY <1>1, <1>7, <2>1, <2>2 DEF BetweenCalls
<1> QED BY <1>10, <1>11, <1>12, <1>16, <1>17, <1>18, <1>19 DEF IInv

LEMMA ReceivePageKeeps == ASSUME IInv, NEW n \in 1 .. Len(mailbox), ReceivePage(n) PROVE IInv'
<1> PICK a : a = call.args
  OBVIOUS
<1> PICK limit : limit = PageLimit(a)
  OBVIOUS
<1> PICK cursor : cursor = call.cursor
  OBVIOUS
<1> PICK start : start = call.start
  OBVIOUS
<1> PICK L : L = mailbox[n].listed
  OBVIOUS
<1> PICK unread : unread = mailbox[n].unread
  OBVIOUS
<1> PICK c : c = Scan(a, unread, Page(L, cursor, limit), call)
  OBVIOUS
<1> PICK pageMore : pageMore = PageMore(L, cursor, limit)
  OBVIOUS
<1> PICK end : end = cursor + limit
  OBVIOUS
<1> PICK r : r = AfterPage(a, c, pageMore, end)
  OBVIOUS
<1> PICK returned : returned = IF r.pc = "returned" THEN ToSet(c.collected) ELSE {}
  OBVIOUS
<1> PICK w : w = Remember(n, returned)
  OBVIOUS
<1>1. /\ call.pc = "page" /\ call' = r /\ walk' = w
      /\ mailbox' = mailbox /\ tool' = tool
  BY DEF ReceivePage
<1>2. /\ mailbox \in Seq(Versions) /\ Len(mailbox) \in Nat /\ n \in Nat
      /\ L \in SUBSET Times /\ call \in Calls /\ walk \in Walks
      /\ n >= 1 /\ n <= Len(mailbox)
  BY <1>1, VersionTypes DEF IInv, TypeOK, Idle
<1>3. a \in Arguments /\ cursor \in Nat /\ start \in Nat /\ limit \in Nat \ {0} /\ end \in Nat
  <2>1. a \in Arguments /\ cursor \in Nat /\ start \in Nat
    BY <1>2 DEF Calls
  <2>2. limit \in Nat \ {0}
    BY <2>1, CapTypes
  <2> QED BY <2>1, <2>2
<1>4. pageMore \in BOOLEAN /\ (~pageMore => \A m \in L : Above(L, m) < end)
  BY <1>2, <1>3, PageMoreIs
<1>5. Taken(a, n, cursor, end, c)
  <2>1. Taken(a, n, cursor, cursor + limit, c)
    BY <1>1, PageScanned
  <2> QED BY <2>1
<1>6. c \in Calls /\ c.pc = "page" /\ c.args = a /\ c.start = start
  BY <1>1, <1>5 DEF SameCall, Taken
<1>7. /\ r \in Calls /\ r.args = a /\ r.start = start /\ r.collected = c.collected
      /\ r.pc \in {"page", "returned"}
      /\ r.pc = "page" => /\ Filtered(a) /\ Len(c.collected) < HardCap(a)
                          /\ ~r.pastCutoff /\ r.cursor = end
      /\ r.pc = "returned" =>
             /\ (Filtered(a) /\ Len(c.collected) < HardCap(a)) => c.pastCutoff \/ ~pageMore
             /\ ~Filtered(a) => r.more = pageMore /\ (pageMore => r.next = end)
  <2> HIDE DEF Filtered
  <2> QED BY <1>3, <1>4, <1>6, AfterPageCases
<1>8. returned \in SUBSET Times
  <2>1. c.collected \in Seq(Times)
    BY <1>6 DEF Calls
  <2>2. ToSet(c.collected) \subseteq Times
    BY <2>1, ElementsOfSeq
  <2> QED BY <2>2
<1>9. Remembered(w, n, returned)
  BY <1>2, <1>8, RememberIs
<1>10. Answered(n, a, start, cursor, end, pageMore, c, r, w)
  BY <1>1, <1>3, <1>4, <1>5, <1>7, <1>8, <1>9 DEF Answered
<1> QED BY <1>10, AnsweredKeeps

----------------------------------------------------------------------------
(* The other steps. *)

LEMMA PagingStarts == ASSUME Init PROVE IInv
<1> PICK listed \in Starts : \E unread \in SUBSET listed :
                mailbox = <<[listed |-> listed, unread |-> unread, left |-> 0]>>
  BY DEF Init
<1>1. PICK unread \in SUBSET listed :
          mailbox = <<[listed |-> listed, unread |-> unread, left |-> 0]>>
  OBVIOUS
<1> PICK version : version = [listed |-> listed, unread |-> unread, left |-> 0]
  OBVIOUS
<1>2. version \in Versions
  <2>1. listed \in SUBSET Times
    BY MailPagingAssumption DEF Times
  <2>2. unread \in SUBSET Times
    BY <2>1
  <2> QED BY <2>1, <2>2 DEF Versions
<1>3. mailbox = <<version>> /\ mailbox \in Seq(Versions) /\ Len(mailbox) = 1 /\ mailbox # << >>
  BY <1>1, <1>2
<1>4. walk = NoWalk /\ walk \in Walks /\ call = Idle /\ call.pc = "idle"
      /\ walk.first = 0 /\ walk.opened = 0 /\ walk.newest = 0
  BY DEF Init, NoWalk, Walks, Idle
<1>5. Drift
  <2>1. version.left \in Nat /\ mailbox[1] = version /\ version.listed \in SUBSET Times
    BY <1>2, <1>3 DEF Versions
  <2>2. \A m : Above(version.listed, m) \in Nat
    BY <2>1, OffsetTypes
  <2>3. \A v \in 1 .. Len(mailbox) : v = 1
    BY <1>3
  <2> QED BY <2>1, <2>2, <2>3 DEF Drift, LeftBetween
<1>6. Walked
  BY <1>3, <1>4 DEF Walked
<1> QED
  BY <1>3, <1>4, <1>5, <1>6 DEF Init, IInv, TypeOK, PlainWalkGaps, BelowCapGaps, BetweenPages, BetweenCalls

LEMMA NewCallIs ==
    ASSUME NEW a \in Arguments, NEW start \in Nat, NEW c, c = NewCall(a, start)
    PROVE  /\ c \in Calls /\ c.pc = "page" /\ c.args = a /\ c.start = start
           /\ c.cursor = start /\ c.collected = << >> /\ ~c.pastCutoff
           /\ Len(c.collected) <= HardCap(a)
<1>1. << >> \in Seq(Times) /\ Len(<< >>) = 0 /\ HardCap(a) \in Nat
  BY EmptySeq, CapTypes
<1> QED BY <1>1 DEF NewCall, Calls

LEMMA BeginWalkKeeps == ASSUME IInv, NEW a \in Arguments, BeginWalk(a) PROVE IInv'
<1> PICK c : c = NewCall(a, 0)
  OBVIOUS
<1>1. call' = c /\ UNCHANGED <<tool, mailbox, walk>> /\ call.pc = "idle"
  BY DEF BeginWalk
<1>2. /\ c \in Calls /\ c.pc = "page" /\ c.args = a /\ c.start = 0
      /\ c.cursor = 0 /\ c.collected = << >> /\ ~c.pastCutoff
      /\ Len(c.collected) <= HardCap(a)
  BY NewCallIs
<1>3. walk = NoWalk /\ walk.first = 0
  BY <1>1 DEF IInv, Walked, NoWalk
<1>4. TypeOK' /\ PlainWalkGaps' /\ BelowCapGaps' /\ BetweenCalls'
  BY <1>1, <1>2 DEF IInv, TypeOK, PlainWalkGaps, BelowCapGaps, BetweenCalls
<1>5. Drift'
  BY <1>1 DEF IInv, Drift, Lasting, LeftBetween
<1>6. Walked'
  BY <1>1, <1>2 DEF IInv, Walked
<1>7. BetweenPages'
  BY <1>1, <1>2, <1>3 DEF BetweenPages
<1> QED BY <1>4, <1>5, <1>6, <1>7 DEF IInv

LEMMA CallDropped == ASSUME IInv, PageFails \/ EndWalk PROVE IInv'
<1>1. call' = Idle /\ call'.pc = "idle" /\ UNCHANGED <<tool, mailbox>> /\ walk' = NoWalk
  BY DEF PageFails, EndWalk, Idle
<1>2. NoWalk \in Walks /\ NoWalk.first = 0 /\ NoWalk.opened = 0 /\ NoWalk.newest = 0
  BY DEF NoWalk, Walks
<1>3. Drift'
  BY <1>1 DEF IInv, Drift, Lasting, LeftBetween
<1>4. Len(mailbox) \in Nat
  BY LenProperties DEF IInv, TypeOK
<1>5. Walked'
  BY <1>1, <1>2, <1>4 DEF IInv, Walked
<1> QED
  BY <1>1, <1>2, <1>3, <1>5
     DEF IInv, TypeOK, PlainWalkGaps, BelowCapGaps, BetweenPages, BetweenCalls

LEMMA NextCallKeeps == ASSUME IInv, NextCall PROVE IInv'
<1>1. /\ call \in Calls /\ call.pc = "returned" /\ call.more
      /\ UNCHANGED <<tool, mailbox, walk>>
  BY DEF IInv, TypeOK, NextCall, Idle
<1> PICK a \in Arguments, start \in Nat : a = call.args /\ start = call.next
  BY <1>1 DEF Calls
<1> PICK c : c = NewCall(a, start)
  OBVIOUS
<1>2. call' = c
  BY DEF NextCall
<1>3. /\ c \in Calls /\ c.pc = "page" /\ c.args = a /\ c.start = start
      /\ c.cursor = start /\ c.collected = << >> /\ ~c.pastCutoff
      /\ Len(c.collected) <= HardCap(a)
  BY NewCallIs
<1>4. TypeOK' /\ PlainWalkGaps' /\ BelowCapGaps' /\ BetweenCalls'
  BY <1>1, <1>2, <1>3 DEF IInv, TypeOK, PlainWalkGaps, BelowCapGaps, BetweenCalls
<1>5. Drift'
  BY <1>1 DEF IInv, Drift, Lasting, LeftBetween
<1>6. ~walk.aged => walk.first # 0
  BY <1>1 DEF IInv, Walked
<1>7. Walked'
  BY <1>1, <1>2, <1>3, <1>6 DEF IInv, Walked
<1>8. (~Filtered(a) /\ ~walk.aged) =>
          Cardinality(InFront(walk.first, walk.newest, start) \ walk.got)
              <= LeftBetween(walk.first, walk.newest)
  BY <1>1 DEF IInv, BetweenCalls
<1>9. /\ InFront(walk.first, walk.newest, call.cursor)' = InFront(walk.first, walk.newest, start)
      /\ LeftBetween(walk.first, walk.newest)' = LeftBetween(walk.first, walk.newest)
  BY <1>1, <1>2, <1>3 DEF InFront, Lasting, LeftBetween
<1>10. BetweenPages'
  BY <1>1, <1>2, <1>3, <1>8, <1>9 DEF BetweenPages
<1> QED BY <1>4, <1>5, <1>7, <1>10 DEF IInv

(* A change of the listing does not touch the versions up to now. *)
LEMMA UpstreamKeeps == ASSUME IInv, Upstream PROVE IInv'
<1>1. mailbox \in Seq(Versions) /\ mailbox # << >> /\ Drift
  BY DEF IInv, TypeOK, Walked
<1>2. PICK version \in Versions : /\ mailbox' = Append(mailbox, version)
                                  /\ Drifts(Latest, version)
                                  /\ UNCHANGED <<tool, call, walk>>
  BY <1>1, UpstreamDrifts
<1>3. /\ mailbox' \in Seq(Versions) /\ Len(mailbox') = Len(mailbox) + 1
      /\ Len(mailbox) \in Nat
      /\ \A v, w \in 1 .. Len(mailbox) :
             /\ mailbox'[v] = mailbox[v]
             /\ Lasting(v, w)' = Lasting(v, w)
             /\ LeftBetween(v, w)' = LeftBetween(v, w)
  BY <1>1, <1>2, ChangeAppended
<1>4. Drift'
  BY <1>1, <1>2, DriftGoesOn
<1>5. TypeOK'
  BY <1>2, <1>3 DEF IInv, TypeOK
<1>6. /\ walk.first \in Nat /\ walk.opened \in Nat /\ walk.newest \in Nat
      /\ walk.first <= walk.opened /\ walk.opened <= walk.newest /\ walk.newest <= Len(mailbox)
  BY DEF IInv, TypeOK, Walks, Walked
<1>7. Walked'
  <2>1. mailbox' # << >> /\ walk.newest <= Len(mailbox')
    BY <1>3, <1>6, EmptySeq
  <2> QED BY <1>2, <2>1 DEF IInv, Walked
<1> PICK first \in Nat, opened \in Nat, newest \in Nat :
        first = walk.first /\ opened = walk.opened /\ newest = walk.newest
  BY <1>6
<1>8. ASSUME first > 0
      PROVE  /\ LeftBetween(first, newest)' = LeftBetween(first, newest)
             /\ LeftBetween(opened, newest)' = LeftBetween(opened, newest)
             /\ Lasting(first, newest)' = Lasting(first, newest)
             /\ Lasting(opened, newest)' = Lasting(opened, newest)
             /\ mailbox'[newest] = mailbox[newest] /\ mailbox'[opened] = mailbox[opened]
             /\ \A u \in opened .. newest : mailbox'[u] = mailbox[u]
  <2>1. /\ first \in 1 .. Len(mailbox) /\ opened \in 1 .. Len(mailbox)
        /\ newest \in 1 .. Len(mailbox)
        /\ \A u \in opened .. newest : u \in 1 .. Len(mailbox)
    BY <1>3, <1>6, <1>8
  <2> QED BY <1>3, <2>1
<1>9. ASSUME first > 0, NEW offset
      PROVE  InFront(first, newest, offset)' = InFront(first, newest, offset)
  BY <1>8, <1>9 DEF InFront
<1>10. ASSUME first > 0, NEW a, NEW start
       PROVE  DueIn(a, start, opened, newest)' = DueIn(a, start, opened, newest)
  BY <1>8, <1>10 DEF DueIn
<1>11. ASSUME first > 0, NEW a, NEW start, NEW offset
       PROVE  DueInFront(a, start, opened, newest, offset)'
                  = DueInFront(a, start, opened, newest, offset)
  BY <1>8, <1>10, <1>11 DEF DueInFront
<1>12. PlainWalkGaps'
  BY <1>2, <1>8 DEF IInv, PlainWalkGaps, Walked
<1>13. BelowCapGaps'
  <2> PICK a : a = call.args
    OBVIOUS
  <2> PICK start : start = call.start
    OBVIOUS
  <2>1. Due = DueIn(a, start, opened, newest)
    BY DueIsDueIn
  <2>2. Due' = DueIn(a, start, opened, newest)'
    BY <1>2 DEF Due, DueIn, Lasting
  <2>3. first > 0 => Due' = Due
    BY <1>10, <2>1, <2>2
  <2> HIDE DEF Due
  <2> QED BY <1>2, <1>8, <2>3 DEF IInv, BelowCapGaps, Walked
<1>14. BetweenPages'
  <2> PICK a : a = call.args
    OBVIOUS
  <2> PICK start : start = call.start
    OBVIOUS
  <2> PICK offset : offset = call.cursor
    OBVIOUS
  <2>1. first > 0 =>
            /\ InFront(walk.first, walk.newest, call.cursor)'
                   = InFront(walk.first, walk.newest, call.cursor)
            /\ LeftBetween(walk.first, walk.newest)' = LeftBetween(walk.first, walk.newest)
            /\ LeftBetween(walk.opened, walk.newest)' = LeftBetween(walk.opened, walk.newest)
    BY <1>2, <1>8, <1>9
  <2>2. first > 0 => DueInFront(a, start, opened, newest, offset)'
                         = DueInFront(a, start, opened, newest, offset)
    BY <1>11
  <2>3. DueInFront(call.args, call.start, walk.opened, walk.newest, call.cursor)'
            = DueInFront(a, start, opened, newest, offset)'
    BY <1>2, Zenon DEF DueInFront, DueIn, Lasting
  <2>4. first > 0 =>
            DueInFront(call.args, call.start, walk.opened, walk.newest, call.cursor)'
                = DueInFront(call.args, call.start, walk.opened, walk.newest, call.cursor)
    BY <2>2, <2>3
  <2> QED BY <1>2, <2>1, <2>4 DEF IInv, BetweenPages
<1>15. BetweenCalls'
  BY <1>2, <1>8, <1>9 DEF IInv, BetweenCalls, Walked
<1> QED BY <1>4, <1>5, <1>7, <1>12, <1>13, <1>14, <1>15 DEF IInv

LEMMA PagingStep == ASSUME IInv, [Next]_vars PROVE IInv'
<1>1. CASE UNCHANGED vars
  BY <1>1 DEF vars, IInv, TypeOK, PlainWalkGaps, BelowCapGaps, Due, Drift, Walked,
     BetweenPages, BetweenCalls, InFront, DueInFront, DueIn, Lasting, LeftBetween
<1>2. CASE Next
  BY <1>2, BeginWalkKeeps, ReceivePageKeeps, CallDropped, NextCallKeeps, UpstreamKeeps
     DEF Next, ReceiveSome
<1> QED BY <1>1, <1>2

LEMMA PagingInvariant == Spec => []IInv
BY PagingStarts, PagingStep, PTL DEF Spec

(* Every variable keeps its shape, what a call collects are items, and it  *)
(* never holds more of them than its cap.                                  *)
THEOREM PagingTypes == Spec => []TypeOK
BY PagingInvariant, PTL DEF IInv

(* A walk without filters that comes to its end has returned what was      *)
(* listed at all its pages, but for one item at most for each that left    *)
(* meanwhile, whatever comes in, moves up, leaves or is flagged between    *)
(* its pages, unless a page came from a cache entry older than one before. *)
THEOREM PlainWalksLeaveGaps == Spec => []PlainWalkGaps
BY PagingInvariant, PTL DEF IInv

(* A filtered call that returns fewer items than its cap has returned all  *)
(* that passed its filters at every page and lay behind its start, again   *)
(* but for one for each that left: the cutoff makes it miss none.          *)
THEOREM BelowCapsLeaveGaps == Spec => []BelowCapGaps
BY PagingInvariant, PTL DEF IInv
=============================================================================
