------------------------- MODULE RateLimiterProofs -------------------------
(***************************************************************************)
(* Proofs about RateLimiter, for any number of buckets and tasks: waiting  *)
(* for one bucket after the other keeps the limits of all of them.         *)
(*                                                                         *)
(* The tasks that wait for a bucket are seen as a function f: its domain   *)
(* are the tasks, f[t] is how long t still waits.  What happens at one     *)
(* bucket is stated about such functions first, and about the variables    *)
(* at the end.                                                             *)
(***************************************************************************)
EXTENDS RateLimiter, FiniteSets, FiniteSetTheorems, TLAPS

Waiting(f) == IsFiniteSet(DOMAIN f) /\ \A u \in DOMAIN f : f[u] \in Nat

(* Who waits n and longer, up to n, less than n, from m up to n. *)
From(f, n)    == {u \in DOMAIN f : n <= f[u]}
Upto(f, n)    == {u \in DOMAIN f : f[u] <= n}
Below(f, n)   == {u \in DOMAIN f : f[u] < n}
Span(f, m, n) == {u \in DOMAIN f : m <= f[u] /\ f[u] <= n}

(* A bucket with a token every E ticks and the level L lets those go who   *)
(* wait one by one, E ticks apart, and its debt covers all of them.        *)
Spaced(E, L, f) ==
    \A m \in Nat \ {0} :
        /\ From(f, m) # {} => m + E * (Cardinality(From(f, m)) - 1) <= -L
        /\ \A t \in DOMAIN f : m <= f[t] => m + E * (Cardinality(Span(f, m, f[t])) - 1) <= f[t]

(* What holds of the meter y of a bucket at its own end: it and those who  *)
(* wait are in what has left the bucket, which holds F ticks.              *)
Own(E, F, L, f, y) ==
    /\ y + E * Cardinality(DOMAIN f) <= F - L
    /\ \A t \in DOMAIN f : y + E * Cardinality(Upto(f, f[t])) <= F + f[t]

(* What holds of the meters x before and y behind a bucket, for a limit of *)
(* one request every D ticks.  Where the bucket is the slower one, those   *)
(* who had to wait are further apart than D, and the others are in x ...   *)
Slower(D, E, L, f, x, y) ==
    /\ y + D * Cardinality(DOMAIN f) <= Larger(x, D - L)
    /\ \A t \in DOMAIN f :
           /\ f[t] > 0 => y + D * Cardinality(Below(f, f[t])) <= Larger(x, D + f[t] - E)
           /\ y + D * Cardinality(Upto(f, f[t])) <= Larger(x, D + f[t])

(* ... and where it is the faster one, the wait is too short for x to      *)
(* forget those who wait.                                                  *)
Faster(D, F, L, f, x, y) ==
    /\ F - L <= x
    /\ y + D * Cardinality(DOMAIN f) <= x
    /\ \A m \in Nat : From(f, m) # {} => m + D * Cardinality(From(f, m)) <= x

----------------------------------------------------------------------------
(* The invariant of the limiter. *)

(* Bucket j with level L and those who wait in f, with the meters xs of    *)
(* the bucket before it and its own meters ys.                             *)
Stage(j, L, f, xs, ys) ==
    /\ L <= Full(j)
    /\ Waiting(f)
    /\ Spaced(Every[j], L, f)
    /\ \A b \in 1 .. j : ys[b] <= Full(b)
    /\ Own(Every[j], Full(j), L, f, ys[j])
    /\ \A b \in 1 .. j - 1 :
           /\ Every[b] <= Every[j] => Slower(Every[b], Every[j], L, f, xs[b], ys[b])
           /\ Every[j] <= Every[b] => Faster(Every[b], Full(j), L, f, xs[b], ys[b])

At(j)      == {t \in Tasks : queue[t].bucket = j}
WaitsAt(j) == [t \in At(j) |-> queue[t].left]

LimiterInv == \A j \in Buckets : Stage(j, level[j], WaitsAt(j), passed[j - 1], passed[j])

----------------------------------------------------------------------------
(* How those who wait change: w comes to wait d, t goes, all wait a tick.  *)

Comes(f, g, w, d) ==
    /\ w \notin DOMAIN f
    /\ DOMAIN g = DOMAIN f \union {w}
    /\ g[w] = d
    /\ \A u \in DOMAIN f : g[u] = f[u]

Goes(f, g, t) ==
    /\ t \in DOMAIN f
    /\ DOMAIN g = DOMAIN f \ {t}
    /\ \A u \in DOMAIN g : g[u] = f[u]

Ticks(f, g) ==
    /\ DOMAIN g = DOMAIN f
    /\ \A u \in DOMAIN f : f[u] > 0 /\ g[u] = f[u] - 1

LEMMA PartsCount ==
    ASSUME NEW f, Waiting(f), NEW S, NEW T, S \subseteq T, T \subseteq DOMAIN f
    PROVE  /\ Cardinality(S) \in Nat
           /\ Cardinality(S) <= Cardinality(T)
           /\ S # {} => Cardinality(S) >= 1
<1>1. IsFiniteSet(T) /\ IsFiniteSet(S)
  BY FS_Subset DEF Waiting
<1>2. Cardinality(S) <= Cardinality(T) /\ Cardinality(S) \in Nat
  BY <1>1, FS_Subset, FS_CardinalityType
<1>3. S # {} => Cardinality(S) # 0
  BY <1>1, FS_EmptySet
<1> QED BY <1>2, <1>3

LEMMA OneMore ==
    ASSUME NEW f, Waiting(f), NEW S, S \subseteq DOMAIN f, NEW w, w \notin DOMAIN f
    PROVE  Cardinality(S \union {w}) = Cardinality(S) + 1
BY FS_Subset, FS_AddElement DEF Waiting

LEMMA OneLess ==
    ASSUME NEW f, Waiting(f), NEW S, S \subseteq DOMAIN f, NEW t \in S
    PROVE  Cardinality(S \ {t}) = Cardinality(S) - 1
BY FS_Subset, FS_RemoveElement DEF Waiting

LEMMA StillWaiting ==
    ASSUME NEW f, NEW g, Waiting(f),
           \/ \E w : \E d \in Nat : Comes(f, g, w, d)
           \/ \E t : Goes(f, g, t)
           \/ Ticks(f, g)
    PROVE  Waiting(g)
<1>1. ASSUME NEW w, NEW d \in Nat, Comes(f, g, w, d) PROVE Waiting(g)
  BY <1>1, FS_AddElement DEF Comes, Waiting
<1>2. ASSUME NEW t, Goes(f, g, t) PROVE Waiting(g)
  BY <1>2, FS_Subset DEF Goes, Waiting
<1>3. CASE Ticks(f, g)
  BY <1>3 DEF Ticks, Waiting
<1> QED BY <1>1, <1>2, <1>3

(* Products are monotonic. *)
LEMMA Times ==
    ASSUME NEW a \in Nat, NEW b \in Nat, a <= b, NEW k \in Nat, NEW n \in Nat, k <= n
    PROVE  /\ a * k \in Nat
           /\ a * k <= a * n
           /\ a * k <= b * k
<1>1. PICK c \in Nat : b = a + c
  <2>1. b - a \in Nat /\ b = a + (b - a)
    OBVIOUS
  <2> QED BY <2>1
<1>2. PICK e \in Nat : n = k + e
  <2>1. n - k \in Nat /\ n = k + (n - k)
    OBVIOUS
  <2> QED BY <2>1
<1>3. a * k \in Nat /\ c * k \in Nat /\ a * e \in Nat
  OBVIOUS
<1>4. b * k = a * k + c * k /\ a * n = a * k + a * e
  BY <1>1, <1>2
<1> QED BY <1>3, <1>4

----------------------------------------------------------------------------
(* Spaced. *)

(* Who waits at a bucket that has a token waits for nothing. *)
LEMMA DebtCovers ==
    ASSUME NEW E \in Nat \ {0}, NEW L \in Int, NEW f, Waiting(f), Spaced(E, L, f)
    PROVE  \A u \in DOMAIN f : f[u] = 0 \/ f[u] <= -L
<1> SUFFICES ASSUME NEW u \in DOMAIN f, f[u] # 0 PROVE f[u] <= -L
  OBVIOUS
<1>1. f[u] \in Nat \ {0} /\ u \in From(f, f[u]) /\ From(f, f[u]) \subseteq DOMAIN f
  BY DEF Waiting, From
<1>2. Cardinality(From(f, f[u])) \in Nat /\ Cardinality(From(f, f[u])) >= 1
  BY <1>1, PartsCount
<1>3. f[u] + E * (Cardinality(From(f, f[u])) - 1) <= -L
  BY <1>1 DEF Spaced
<1>4. E * (Cardinality(From(f, f[u])) - 1) \in Nat
  BY <1>2, Times
<1> QED BY <1>1, <1>3, <1>4

(* Nobody else waits exactly as long as t. *)
LEMMA Distinct ==
    ASSUME NEW E \in Nat \ {0}, NEW L \in Int, NEW f, Waiting(f), Spaced(E, L, f),
           NEW t \in DOMAIN f, NEW u \in DOMAIN f, t # u, f[t] = f[u]
    PROVE  f[t] = 0
<1> SUFFICES ASSUME f[t] # 0 PROVE FALSE
  OBVIOUS
<1> DEFINE S == Span(f, f[t], f[t])
<1>1. f[t] \in Nat \ {0} /\ t \in S /\ u \in S /\ S \subseteq DOMAIN f
  BY DEF Waiting, Span
<1>2. Cardinality(S \ {t}) >= 1 /\ Cardinality(S) \in Nat
  BY <1>1, PartsCount
<1>3. Cardinality(S \ {t}) = Cardinality(S) - 1
  BY <1>1, OneLess
<1>4. f[t] + E * (Cardinality(S) - 1) <= f[t]
  BY <1>1 DEF Spaced
<1>5. E * 1 <= E * (Cardinality(S) - 1)
  BY <1>2, <1>3, Times
<1>6. E * (Cardinality(S) - 1) \in Nat
  BY <1>2, <1>3, Times
<1> QED BY <1>1, <1>4, <1>5, <1>6

(* Who comes goes last. *)
LEMMA LastOne ==
    ASSUME NEW E \in Nat \ {0}, NEW L \in Int, NEW f, Waiting(f), Spaced(E, L, f)
    PROVE  /\ Larger(0, E - L) \in Nat
           /\ Larger(0, E - L) >= E - L
           /\ \A u \in DOMAIN f :
                  /\ f[u] <= Larger(0, E - L)
                  /\ f[u] < Larger(0, E - L) \/ Larger(0, E - L) = 0
BY DebtCovers DEF Larger, Waiting

LEMMA SpacedComes ==
    ASSUME NEW E \in Nat \ {0}, NEW L \in Int, NEW f, NEW g, NEW w, Waiting(f),
           Spaced(E, L, f), Comes(f, g, w, Larger(0, E - L))
    PROVE  Spaced(E, L - E, g)
<1> DEFINE d == Larger(0, E - L)
<1> HIDE DEF d
<1>1. /\ d \in Nat
      /\ d >= E - L
      /\ d = 0 \/ d = E - L
      /\ \A u \in DOMAIN f : f[u] <= d /\ (f[u] < d \/ d = 0)
  BY LastOne DEF d, Larger
<1>2. Comes(f, g, w, d)
  BY DEF d
<1> SUFFICES ASSUME NEW m \in Nat \ {0}
             PROVE  /\ From(g, m) # {} =>
                           m + E * (Cardinality(From(g, m)) - 1) <= -(L - E)
                    /\ \A t \in DOMAIN g : m <= g[t] =>
                           m + E * (Cardinality(Span(g, m, g[t])) - 1) <= g[t]
  BY DEF Spaced
<1>3. From(f, m) \subseteq DOMAIN f /\ Cardinality(From(f, m)) \in Nat
  BY PartsCount DEF From
<1>4. From(f, m) # {} => m + E * (Cardinality(From(f, m)) - 1) <= -L
  BY DEF Spaced
<1>5. m <= d => /\ d = E - L
                /\ m + E * Cardinality(From(f, m)) <= d
  <2>1. CASE From(f, m) = {}
    BY <1>1, <2>1, FS_EmptySet
  <2>2. CASE From(f, m) # {}
    <3>1. E * (Cardinality(From(f, m)) - 1) = E * Cardinality(From(f, m)) - E
      BY <1>3
    <3>2. E * Cardinality(From(f, m)) \in Nat
      BY <1>3
    <3> QED BY <1>1, <1>4, <2>2, <3>1, <3>2
  <2> QED BY <2>1, <2>2
<1>6. m <= d => Cardinality(From(f, m) \union {w}) = Cardinality(From(f, m)) + 1
  BY <1>2, <1>3, OneMore DEF Comes
<1>7. From(g, m) # {} => m <= d /\ From(g, m) = From(f, m) \union {w}
  <2>1. From(g, m) # {} => m <= d
    BY <1>1, <1>2 DEF Comes, From, Waiting
  <2>2. m <= d => From(g, m) = From(f, m) \union {w}
    BY <1>1, <1>2 DEF Comes, From
  <2> QED BY <2>1, <2>2
<1>8. From(g, m) # {} => m + E * (Cardinality(From(g, m)) - 1) <= -(L - E)
  <2> SUFFICES ASSUME From(g, m) # {}
               PROVE  m + E * (Cardinality(From(g, m)) - 1) <= -(L - E)
    OBVIOUS
  <2>0. m <= d /\ Cardinality(From(g, m)) = Cardinality(From(f, m) \union {w})
    BY <1>7, Zenon
  <2>1. Cardinality(From(g, m)) - 1 = Cardinality(From(f, m))
    BY <1>3, <1>6, <2>0
  <2>2. m + E * Cardinality(From(f, m)) <= E - L
    BY <1>5, <1>7
  <2> QED BY <2>1, <2>2
<1>9. ASSUME NEW t \in DOMAIN g, m <= g[t]
      PROVE  m + E * (Cardinality(Span(g, m, g[t])) - 1) <= g[t]
  <2>1. CASE t = w
    <3>1. g[t] = d /\ Span(g, m, g[t]) = From(f, m) \union {w}
      BY <1>1, <1>2, <1>9, <2>1 DEF Comes, Span, From
    <3> QED BY <1>3, <1>5, <1>6, <1>9, <3>1
  <2>2. CASE t # w
    <3>1. t \in DOMAIN f /\ g[t] = f[t] /\ f[t] < d
      BY <1>1, <1>2, <1>9, <2>2 DEF Comes, Waiting
    <3>2. Span(g, m, g[t]) = Span(f, m, f[t])
      BY <1>1, <1>2, <3>1 DEF Comes, Span, Waiting
    <3> QED BY <1>9, <3>1, <3>2 DEF Spaced
  <2> QED BY <2>1, <2>2
<1> QED BY <1>8, <1>9

(* Who goes leaves the others as far apart as they were. *)
LEMMA SpacedGoes ==
    ASSUME NEW E \in Nat \ {0}, NEW L \in Int, NEW f, NEW g, NEW t, Waiting(f),
           Spaced(E, L, f), Goes(f, g, t)
    PROVE  Spaced(E, L, g)
<1> SUFFICES ASSUME NEW m \in Nat \ {0}
             PROVE  /\ From(g, m) # {} => m + E * (Cardinality(From(g, m)) - 1) <= -L
                    /\ \A u \in DOMAIN g : m <= g[u] =>
                           m + E * (Cardinality(Span(g, m, g[u])) - 1) <= g[u]
  BY DEF Spaced
<1>1. ASSUME NEW S, NEW T, S \subseteq T, T \subseteq DOMAIN f, S # {}, NEW n \in Int,
             m + E * (Cardinality(T) - 1) <= n
      PROVE  m + E * (Cardinality(S) - 1) <= n
  <2>1. /\ Cardinality(S) \in Nat /\ Cardinality(T) \in Nat
        /\ Cardinality(S) <= Cardinality(T) /\ Cardinality(S) >= 1
    BY <1>1, PartsCount
  <2>2. E * (Cardinality(S) - 1) <= E * (Cardinality(T) - 1)
    BY <2>1, Times
  <2>3. E * (Cardinality(S) - 1) \in Int /\ E * (Cardinality(T) - 1) \in Int
    BY <2>1
  <2> QED BY <1>1, <2>2, <2>3
<1>2. From(g, m) # {} => m + E * (Cardinality(From(g, m)) - 1) <= -L
  <2>1. From(g, m) \subseteq From(f, m) /\ From(f, m) \subseteq DOMAIN f
    BY DEF Goes, From
  <2>2. From(f, m) # {} => m + E * (Cardinality(From(f, m)) - 1) <= -L
    BY DEF Spaced
  <2>3. -L \in Int
    OBVIOUS
  <2> QED BY <1>1, <2>1, <2>2, <2>3
<1>3. ASSUME NEW u \in DOMAIN g, m <= g[u]
      PROVE  m + E * (Cardinality(Span(g, m, g[u])) - 1) <= g[u]
  <2>1. u \in DOMAIN f /\ g[u] = f[u] /\ f[u] \in Int
    BY DEF Goes, Waiting
  <2>2. /\ Span(g, m, g[u]) \subseteq Span(f, m, f[u]) /\ Span(f, m, f[u]) \subseteq DOMAIN f
        /\ u \in Span(g, m, g[u])
    BY <1>3, <2>1 DEF Goes, Span
  <2>3. m + E * (Cardinality(Span(f, m, f[u])) - 1) <= f[u]
    BY <1>3, <2>1 DEF Spaced
  <2> QED BY <1>1, <2>1, <2>2, <2>3
<1> QED BY <1>2, <1>3

(* The last one may take its token with it. *)
LEMMA SpacedReturned ==
    ASSUME NEW E \in Nat \ {0}, NEW L \in Int, NEW f, NEW g, NEW t, Waiting(f),
           Spaced(E, L, f), Goes(f, g, t), \A u \in DOMAIN f : f[u] <= f[t]
    PROVE  Spaced(E, L + E, g)
<1>1. Spaced(E, L, g)
  BY SpacedGoes
<1>2. ASSUME NEW m \in Nat \ {0}, From(g, m) # {}
      PROVE  m + E * (Cardinality(From(g, m)) - 1) <= -(L + E)
  <2>1. From(g, m) = From(f, m) \ {t} /\ From(f, m) \subseteq DOMAIN f
    BY DEF Goes, From
  <2>2. t \in From(f, m)
    BY <1>2, <2>1 DEF From, Goes, Waiting
  <2>3. Cardinality(From(g, m)) = Cardinality(From(f, m)) - 1 /\ Cardinality(From(f, m)) \in Nat
    BY <2>1, <2>2, OneLess, PartsCount
  <2>4. m + E * (Cardinality(From(f, m)) - 1) <= -L
    BY <2>2 DEF Spaced
  <2> QED BY <2>3, <2>4
<1> QED BY <1>1, <1>2 DEF Spaced

LEMMA SpacedTicks ==
    ASSUME NEW E \in Nat \ {0}, NEW L \in Int, NEW f, NEW g, Waiting(f),
           Spaced(E, L, f), Ticks(f, g), NEW F \in Nat
    PROVE  Spaced(E, Smaller(F, L + 1), g)
<1> SUFFICES ASSUME NEW m \in Nat \ {0}
             PROVE  /\ From(g, m) # {} =>
                           m + E * (Cardinality(From(g, m)) - 1) <= -Smaller(F, L + 1)
                    /\ \A t \in DOMAIN g : m <= g[t] =>
                           m + E * (Cardinality(Span(g, m, g[t])) - 1) <= g[t]
  BY DEF Spaced
<1>1. m + 1 \in Nat \ {0} /\ Smaller(F, L + 1) \in Int /\ Smaller(F, L + 1) <= L + 1
  BY DEF Smaller
<1>2. From(g, m) = From(f, m + 1) /\ Cardinality(From(f, m + 1)) \in Nat
  <2>1. From(g, m) = From(f, m + 1) /\ From(f, m + 1) \subseteq DOMAIN f
    BY DEF Ticks, From, Waiting
  <2> QED BY <2>1, PartsCount
<1>3. From(g, m) # {} => m + E * (Cardinality(From(g, m)) - 1) <= -Smaller(F, L + 1)
  <2>1. From(f, m + 1) # {} => m + 1 + E * (Cardinality(From(f, m + 1)) - 1) <= -L
    BY <1>1 DEF Spaced
  <2>2. E * (Cardinality(From(f, m + 1)) - 1) \in Int
    BY <1>2
  <2> QED BY <1>1, <1>2, <2>1, <2>2
<1>4. ASSUME NEW t \in DOMAIN g, m <= g[t]
      PROVE  m + E * (Cardinality(Span(g, m, g[t])) - 1) <= g[t]
  <2>1. t \in DOMAIN f /\ g[t] = f[t] - 1 /\ m + 1 <= f[t] /\ f[t] \in Nat
    BY <1>4 DEF Ticks, Waiting
  <2>2. Span(g, m, g[t]) = Span(f, m + 1, f[t])
    BY <2>1 DEF Ticks, Span, Waiting
  <2>3. m + 1 + E * (Cardinality(Span(f, m + 1, f[t])) - 1) <= f[t]
    BY <1>1, <2>1 DEF Spaced
  <2>4. Span(f, m + 1, f[t]) \subseteq DOMAIN f /\ Cardinality(Span(f, m + 1, f[t])) \in Nat
    BY PartsCount DEF Span
  <2>5. E * (Cardinality(Span(f, m + 1, f[t])) - 1) \in Int
    BY <2>4
  <2> QED BY <2>1, <2>2, <2>3, <2>5
<1> QED BY <1>3, <1>4

----------------------------------------------------------------------------
(* How many wait, before and after. *)

LEMMA Counts ==
    ASSUME NEW f, Waiting(f)
    PROVE  /\ Cardinality(DOMAIN f) \in Nat
           /\ \A n \in Nat : Cardinality(From(f, n)) \in Nat
           /\ \A u \in DOMAIN f :
                  /\ Cardinality(Upto(f, f[u])) \in Nat
                  /\ Cardinality(Below(f, f[u])) \in Nat
                  /\ Cardinality(Upto(f, f[u])) <= Cardinality(DOMAIN f)
                  /\ Cardinality(Below(f, f[u])) <= Cardinality(DOMAIN f)
BY PartsCount DEF Upto, Below, From

LEMMA CountsCome ==
    ASSUME NEW f, NEW g, NEW w, NEW d \in Nat, Waiting(f), Comes(f, g, w, d),
           \A u \in DOMAIN f : f[u] <= d /\ (f[u] < d \/ d = 0)
    PROVE  /\ Cardinality(DOMAIN g) = Cardinality(DOMAIN f) + 1
           /\ Cardinality(Upto(g, g[w])) = Cardinality(DOMAIN f) + 1
           /\ d > 0 => Cardinality(Below(g, g[w])) = Cardinality(DOMAIN f)
           /\ \A u \in DOMAIN f :
                  /\ Cardinality(Below(g, g[u])) = Cardinality(Below(f, f[u]))
                  /\ d > 0 => Cardinality(Upto(g, g[u])) = Cardinality(Upto(f, f[u]))
                  /\ d = 0 => Cardinality(Upto(g, g[u])) = Cardinality(DOMAIN f) + 1
<1>1. Cardinality(DOMAIN f \union {w}) = Cardinality(DOMAIN f) + 1
  BY OneMore DEF Comes
<1>2. DOMAIN g = DOMAIN f \union {w} /\ Upto(g, g[w]) = DOMAIN f \union {w}
  BY DEF Comes, Upto
<1>3. d > 0 => Below(g, g[w]) = DOMAIN f
  BY DEF Comes, Below
<1>4. ASSUME NEW u \in DOMAIN f
      PROVE  /\ Below(g, g[u]) = Below(f, f[u])
             /\ d > 0 => Upto(g, g[u]) = Upto(f, f[u])
             /\ d = 0 => Upto(g, g[u]) = DOMAIN f \union {w}
  BY DEF Comes, Below, Upto, Waiting
<1> QED BY <1>1, <1>2, <1>3, <1>4, Zenon

LEMMA CountsGo ==
    ASSUME NEW f, NEW g, NEW t, Waiting(f), Goes(f, g, t)
    PROVE  /\ Cardinality(DOMAIN g) = Cardinality(DOMAIN f) - 1
           /\ \A n \in Nat : Cardinality(From(g, n)) <= Cardinality(From(f, n))
           /\ \A u \in DOMAIN g :
                  /\ Cardinality(Upto(g, g[u])) <= Cardinality(Upto(f, f[u]))
                  /\ Cardinality(Below(g, g[u])) <= Cardinality(Below(f, f[u]))
                  /\ f[t] <= f[u] =>
                         Cardinality(Upto(g, g[u])) = Cardinality(Upto(f, f[u])) - 1
                  /\ f[t] < f[u] =>
                         Cardinality(Below(g, g[u])) = Cardinality(Below(f, f[u])) - 1
<1>1. Cardinality(DOMAIN g) = Cardinality(DOMAIN f) - 1
  <2>1. Cardinality(DOMAIN f \ {t}) = Cardinality(DOMAIN f) - 1
    BY OneLess DEF Goes
  <2> QED BY <2>1 DEF Goes
<1>2. ASSUME NEW n \in Nat PROVE Cardinality(From(g, n)) <= Cardinality(From(f, n))
  <2>1. From(g, n) \subseteq From(f, n) /\ From(f, n) \subseteq DOMAIN f
    BY DEF Goes, From
  <2> QED BY <2>1, PartsCount
<1>3. ASSUME NEW u \in DOMAIN g
      PROVE  /\ Cardinality(Upto(g, g[u])) <= Cardinality(Upto(f, f[u]))
             /\ f[t] <= f[u] => Cardinality(Upto(g, g[u])) = Cardinality(Upto(f, f[u])) - 1
  <2>1. Upto(g, g[u]) = Upto(f, f[u]) \ {t} /\ Upto(f, f[u]) \subseteq DOMAIN f
    BY DEF Goes, Upto
  <2>2. Upto(g, g[u]) \subseteq Upto(f, f[u])
    BY <2>1
  <2>3. f[t] <= f[u] => t \in Upto(f, f[u])
    BY DEF Goes, Upto
  <2>4. t \in Upto(f, f[u]) =>
            Cardinality(Upto(f, f[u]) \ {t}) = Cardinality(Upto(f, f[u])) - 1
    BY <2>1, OneLess
  <2>5. Cardinality(Upto(g, g[u])) = Cardinality(Upto(f, f[u]) \ {t})
    BY <2>1, Zenon
  <2> QED BY <2>1, <2>2, <2>3, <2>4, <2>5, PartsCount
<1>4. ASSUME NEW u \in DOMAIN g
      PROVE  /\ Cardinality(Below(g, g[u])) <= Cardinality(Below(f, f[u]))
             /\ f[t] < f[u] => Cardinality(Below(g, g[u])) = Cardinality(Below(f, f[u])) - 1
  <2>1. Below(g, g[u]) = Below(f, f[u]) \ {t} /\ Below(f, f[u]) \subseteq DOMAIN f
    BY DEF Goes, Below
  <2>2. Below(g, g[u]) \subseteq Below(f, f[u])
    BY <2>1
  <2>3. f[t] < f[u] => t \in Below(f, f[u])
    BY DEF Goes, Below
  <2>4. t \in Below(f, f[u]) =>
            Cardinality(Below(f, f[u]) \ {t}) = Cardinality(Below(f, f[u])) - 1
    BY <2>1, OneLess
  <2>5. Cardinality(Below(g, g[u])) = Cardinality(Below(f, f[u]) \ {t})
    BY <2>1, Zenon
  <2> QED BY <2>1, <2>2, <2>3, <2>4, <2>5, PartsCount
<1> QED BY <1>1, <1>2, <1>3, <1>4

LEMMA CountsTick ==
    ASSUME NEW f, NEW g, Waiting(f), Ticks(f, g)
    PROVE  /\ DOMAIN g = DOMAIN f
           /\ \A m \in Nat : From(g, m) = From(f, m + 1)
           /\ \A u \in DOMAIN g :
                  /\ g[u] = f[u] - 1 /\ f[u] \in Nat \ {0}
                  /\ Cardinality(Upto(g, g[u])) = Cardinality(Upto(f, f[u]))
                  /\ Cardinality(Below(g, g[u])) = Cardinality(Below(f, f[u]))
<1>1. DOMAIN g = DOMAIN f /\ \A m \in Nat : From(g, m) = From(f, m + 1)
  BY DEF Ticks, From, Waiting
<1>2. ASSUME NEW u \in DOMAIN g
      PROVE  /\ g[u] = f[u] - 1 /\ f[u] \in Nat \ {0}
             /\ Upto(g, g[u]) = Upto(f, f[u])
             /\ Below(g, g[u]) = Below(f, f[u])
  BY DEF Ticks, Upto, Below, Waiting
<1> QED BY <1>1, <1>2, Zenon

(* Before a tick, when everybody waits: how far apart, with the first one  *)
(* waiting one tick at least.                                              *)
LEMMA Apart ==
    ASSUME NEW E \in Nat \ {0}, NEW L \in Int, NEW f, Waiting(f), Spaced(E, L, f),
           \A u \in DOMAIN f : f[u] > 0
    PROVE  /\ Cardinality(DOMAIN f) = 0 \/ 1 + E * (Cardinality(DOMAIN f) - 1) <= -L
           /\ \A t \in DOMAIN f :
                  /\ 1 + E * (Cardinality(Upto(f, f[t])) - 1) <= f[t]
                  /\ 1 + E * Cardinality(Below(f, f[t])) <= f[t]
<1>1. Cardinality(DOMAIN f) = 0 \/ 1 + E * (Cardinality(DOMAIN f) - 1) <= -L
  <2>1. From(f, 1) = DOMAIN f
    BY DEF From, Waiting
  <2>2. Cardinality(From(f, 1)) = Cardinality(DOMAIN f)
    BY <2>1, Zenon
  <2>3. From(f, 1) # {} => 1 + E * (Cardinality(From(f, 1)) - 1) <= -L
    BY DEF Spaced
  <2>4. From(f, 1) = {} => Cardinality(From(f, 1)) = 0
    BY FS_EmptySet
  <2> QED BY <2>2, <2>3, <2>4
<1>2. ASSUME NEW t \in DOMAIN f
      PROVE  /\ 1 + E * (Cardinality(Upto(f, f[t])) - 1) <= f[t]
             /\ 1 + E * Cardinality(Below(f, f[t])) <= f[t]
  <2>1. Span(f, 1, f[t]) = Upto(f, f[t]) /\ f[t] \in Nat /\ f[t] >= 1
    BY DEF Span, Upto, Waiting
  <2>2. Cardinality(Span(f, 1, f[t])) = Cardinality(Upto(f, f[t]))
    BY <2>1, Zenon
  <2>3. 1 + E * (Cardinality(Upto(f, f[t])) - 1) <= f[t]
    BY <2>1, <2>2 DEF Spaced
  <2>4. /\ Below(f, f[t]) \subseteq Upto(f, f[t]) \ {t} /\ t \in Upto(f, f[t])
        /\ Upto(f, f[t]) \subseteq DOMAIN f
    BY <2>1 DEF Below, Upto, Waiting
  <2>5. Cardinality(Upto(f, f[t]) \ {t}) = Cardinality(Upto(f, f[t])) - 1
    BY <2>4, OneLess
  <2>6. /\ Cardinality(Below(f, f[t])) \in Nat /\ Cardinality(Upto(f, f[t])) \in Nat
        /\ Cardinality(Below(f, f[t])) <= Cardinality(Upto(f, f[t]) \ {t})
    BY <2>4, PartsCount
  <2>7. E * Cardinality(Below(f, f[t])) <= E * (Cardinality(Upto(f, f[t])) - 1)
    BY <2>5, <2>6, Times
  <2>8. E * Cardinality(Below(f, f[t])) \in Int /\ E * (Cardinality(Upto(f, f[t])) - 1) \in Int
    BY <2>6
  <2> QED BY <2>1, <2>3, <2>7, <2>8
<1> QED BY <1>1, <1>2

----------------------------------------------------------------------------
(* Own: the meter of a bucket at its own end. *)

LEMMA OwnComes ==
    ASSUME NEW E \in Nat \ {0}, NEW F \in Nat, NEW L \in Int, NEW f, NEW g, NEW w, Waiting(f),
           Spaced(E, L, f), Comes(f, g, w, Larger(0, E - L)),
           NEW y \in Nat, Own(E, F, L, f, y)
    PROVE  Own(E, F, L - E, g, y)
<1> DEFINE d == Larger(0, E - L)
           n == Cardinality(DOMAIN f)
<1>1. d \in Nat /\ d >= E - L /\ \A u \in DOMAIN f : f[u] <= d /\ (f[u] < d \/ d = 0)
  BY LastOne
<1> HIDE DEF d
<1>2. Comes(f, g, w, d)
  BY DEF d
<1>3. n \in Nat /\ Cardinality(DOMAIN g) = n + 1
  BY <1>1, <1>2, Counts, CountsCome
<1> HIDE DEF n
<1>4. E * (n + 1) = E * n + E /\ E * n \in Int
  BY <1>3
<1>5. y + E * n <= F - L
  BY DEF Own, n
<1>6. y + E * (n + 1) <= F - (L - E) /\ y + E * (n + 1) <= F + d
  BY <1>1, <1>4, <1>5
<1>7. ASSUME NEW t \in DOMAIN g
      PROVE  y + E * Cardinality(Upto(g, g[t])) <= F + g[t]
  <2>1. CASE t = w
    <3>1. Cardinality(Upto(g, g[t])) = n + 1 /\ g[t] = d
      BY <1>1, <1>2, <2>1, CountsCome DEF n, Comes
    <3> QED BY <1>6, <3>1
  <2>2. CASE t # w /\ d = 0
    <3>1. Cardinality(Upto(g, g[t])) = n + 1 /\ g[t] \in Nat
      BY <1>1, <1>2, <2>2, CountsCome DEF n, Comes, Waiting
    <3> QED BY <1>3, <1>4, <1>6, <2>2, <3>1
  <2>3. CASE t # w /\ d > 0
    <3>1. Cardinality(Upto(g, g[t])) = Cardinality(Upto(f, f[t])) /\ g[t] = f[t] /\ t \in DOMAIN f
      BY <1>1, <1>2, <2>3, CountsCome DEF Comes
    <3> QED BY <3>1 DEF Own
  <2> QED BY <1>1, <2>1, <2>2, <2>3
<1> QED BY <1>3, <1>6, <1>7 DEF Own

LEMMA OwnGoes ==
    ASSUME NEW E \in Nat \ {0}, NEW F \in Nat, NEW L \in Int, NEW f, NEW g, NEW t, Waiting(f),
           Goes(f, g, t), NEW y \in Nat, NEW z \in Nat,
           z = y \/ (z = y + E /\ f[t] = 0),
           Own(E, F, L, f, y)
    PROVE  Own(E, F, L, g, z)
<1>1. z + E * Cardinality(DOMAIN g) <= F - L
  <2>1. Cardinality(DOMAIN g) = Cardinality(DOMAIN f) - 1 /\ Cardinality(DOMAIN f) \in Nat
    BY Counts, CountsGo
  <2> QED BY <2>1 DEF Own
<1>2. ASSUME NEW u \in DOMAIN g
      PROVE  z + E * Cardinality(Upto(g, g[u])) <= F + g[u]
  <2>1. u \in DOMAIN f /\ g[u] = f[u] /\ f[u] \in Nat /\ f[t] \in Nat
    BY DEF Goes, Waiting
  <2>2. Cardinality(Upto(f, f[u])) \in Nat /\ Cardinality(Upto(g, g[u])) \in Nat
    BY <2>1, Counts, StillWaiting
  <2>3. y + E * Cardinality(Upto(f, f[u])) <= F + f[u]
    BY <2>1 DEF Own
  <2>4. CASE z = y
    <3>1. E * Cardinality(Upto(g, g[u])) <= E * Cardinality(Upto(f, f[u]))
      BY <2>2, CountsGo, Times
    <3>2. E * Cardinality(Upto(g, g[u])) \in Int /\ E * Cardinality(Upto(f, f[u])) \in Int
      BY <2>2
    <3> QED BY <2>1, <2>3, <2>4, <3>1, <3>2
  <2>5. CASE z = y + E /\ f[t] = 0
    <3>1. Cardinality(Upto(g, g[u])) = Cardinality(Upto(f, f[u])) - 1
      BY <2>1, <2>5, CountsGo
    <3> QED BY <2>1, <2>2, <2>3, <2>5, <3>1
  <2> QED BY <2>4, <2>5
<1> QED BY <1>1, <1>2 DEF Own

LEMMA OwnReturned ==
    ASSUME NEW E \in Nat \ {0}, NEW F \in Nat, NEW L \in Int, NEW f, NEW g, NEW t, Waiting(f),
           Goes(f, g, t), NEW y \in Nat, Own(E, F, L, f, y)
    PROVE  Own(E, F, L + E, g, y)
<1>1. Own(E, F, L, g, y)
  BY OwnGoes, Zenon
<1>2. Cardinality(DOMAIN g) = Cardinality(DOMAIN f) - 1 /\ Cardinality(DOMAIN f) \in Nat
  BY Counts, CountsGo
<1>3. y + E * Cardinality(DOMAIN g) <= F - (L + E)
  BY <1>2 DEF Own
<1> QED BY <1>1, <1>3 DEF Own

LEMMA OwnTicks ==
    ASSUME NEW E \in Nat \ {0}, NEW F \in Nat, NEW L \in Int, NEW f, NEW g, Waiting(f),
           Spaced(E, L, f), Ticks(f, g), NEW y \in Nat, Own(E, F, L, f, y), E <= F, L <= F
    PROVE  Own(E, F, Smaller(F, L + 1), g, Larger(0, y - 1))
<1>1. DOMAIN g = DOMAIN f /\ \A u \in DOMAIN f : f[u] > 0
  BY DEF Ticks
<1>2. Larger(0, y - 1) + E * Cardinality(DOMAIN g) <= F - Smaller(F, L + 1)
  <2> DEFINE n == Cardinality(DOMAIN f)
  <2>1. n \in Nat /\ y + E * n <= F - L
    BY Counts DEF Own
  <2>2. n = 0 \/ 1 + E * (n - 1) <= -L
    BY <1>1, Apart
  <2>3. Cardinality(DOMAIN g) = n
    BY <1>1, Zenon
  <2> HIDE DEF n
  <2>4. Larger(0, y - 1) + E * n <= F - Smaller(F, L + 1)
    <3>1. E * n \in Nat /\ E * (n - 1) = E * n - E
      BY <2>1
    <3>2. CASE y > 0
      BY <2>1, <3>1, <3>2 DEF Larger, Smaller
    <3>3. CASE y = 0 /\ n = 0
      BY <2>1, <3>3 DEF Larger, Smaller
    <3>4. CASE y = 0 /\ n # 0
      BY <2>1, <2>2, <3>1, <3>4 DEF Larger, Smaller
    <3> QED BY <3>2, <3>3, <3>4
  <2> QED BY <2>3, <2>4
<1>3. ASSUME NEW t \in DOMAIN g
      PROVE  Larger(0, y - 1) + E * Cardinality(Upto(g, g[t])) <= F + g[t]
  <2> DEFINE n == Cardinality(Upto(f, f[t]))
  <2>1. /\ t \in DOMAIN f /\ g[t] = f[t] - 1 /\ f[t] \in Nat \ {0}
        /\ Cardinality(Upto(g, g[t])) = n
    BY <1>1, CountsTick
  <2>2. n \in Nat /\ y + E * n <= F + f[t] /\ 1 + E * (n - 1) <= f[t]
    BY <1>1, <2>1, Counts, Apart DEF Own
  <2> HIDE DEF n
  <2>3. E * n \in Nat /\ E * (n - 1) = E * n - E
    BY <2>2
  <2> QED BY <2>1, <2>2, <2>3 DEF Larger
<1> QED BY <1>2, <1>3 DEF Own

----------------------------------------------------------------------------
(* Slower: behind a bucket that is slower than the limit. *)

LEMMA SlowerComes ==
    ASSUME NEW D \in Nat \ {0}, NEW E \in Nat \ {0}, NEW L \in Int, D <= E,
           NEW f, NEW g, NEW w, Waiting(f), Spaced(E, L, f),
           Comes(f, g, w, Larger(0, E - L)),
           NEW x \in Nat, NEW y \in Nat, Slower(D, E, L, f, x, y)
    PROVE  Slower(D, E, L - E, g, x + D, y)
<1> DEFINE d == Larger(0, E - L)
           n == Cardinality(DOMAIN f)
<1>1. d \in Nat /\ d >= E - L /\ \A u \in DOMAIN f : f[u] <= d /\ (f[u] < d \/ d = 0)
  BY LastOne
<1>0. d = 0 \/ d = E - L
  BY DEF Larger
<1> HIDE DEF d
<1>2. Comes(f, g, w, d)
  BY DEF d
<1>3. n \in Nat /\ Cardinality(DOMAIN g) = n + 1
  BY <1>1, <1>2, Counts, CountsCome
<1> HIDE DEF n
<1>4. D * (n + 1) = D * n + D /\ D * n \in Int
  BY <1>3
<1>5. y + D * n <= Larger(x, D - L)
  BY DEF Slower, n
<1>6. /\ y + D * (n + 1) <= Larger(x + D, D - (L - E))
      /\ y + D * (n + 1) <= Larger(x + D, D + d)
  BY <1>0, <1>1, <1>4, <1>5 DEF Larger
<1>7. ASSUME NEW t \in DOMAIN g
      PROVE  /\ g[t] > 0 => y + D * Cardinality(Below(g, g[t])) <= Larger(x + D, D + g[t] - E)
             /\ y + D * Cardinality(Upto(g, g[t])) <= Larger(x + D, D + g[t])
  <2>1. CASE t = w
    <3>1. Cardinality(Upto(g, g[t])) = n + 1 /\ g[t] = d
      BY <1>1, <1>2, <2>1, CountsCome DEF n, Comes
    <3>2. d > 0 => Cardinality(Below(g, g[t])) = n
      BY <1>1, <1>2, <2>1, CountsCome DEF n
    <3>3. d > 0 => y + D * n <= Larger(x + D, D + d - E)
      BY <1>0, <1>1, <1>4, <1>5 DEF Larger
    <3> QED BY <1>6, <3>1, <3>2, <3>3
  <2>2. CASE t # w /\ d = 0
    <3>1. t \in DOMAIN f /\ g[t] = f[t] /\ f[t] \in Nat /\ f[t] <= d
      BY <1>1, <1>2, <2>2 DEF Comes, Waiting
    <3>2. Cardinality(Upto(g, g[t])) = n + 1
      BY <1>1, <1>2, <2>2, <3>1, CountsCome DEF n
    <3>3. g[t] = 0
      BY <2>2, <3>1
    <3> QED BY <1>6, <2>2, <3>2, <3>3
  <2>3. CASE t # w /\ d > 0
    <3>1. /\ Cardinality(Upto(g, g[t])) = Cardinality(Upto(f, f[t]))
          /\ Cardinality(Below(g, g[t])) = Cardinality(Below(f, f[t]))
          /\ g[t] = f[t] /\ t \in DOMAIN f /\ f[t] \in Nat
      BY <1>1, <1>2, <2>3, CountsCome DEF Comes, Waiting
    <3> DEFINE k == Cardinality(Upto(f, f[t]))
               j == Cardinality(Below(f, f[t]))
    <3>2. /\ k \in Nat /\ j \in Nat
          /\ f[t] > 0 => y + D * j <= Larger(x, D + f[t] - E)
          /\ y + D * k <= Larger(x, D + f[t])
      BY <3>1, Counts DEF Slower
    <3> HIDE DEF k, j
    <3>3. D * k \in Int /\ D * j \in Int
      BY <3>2
    <3>4. /\ f[t] > 0 => y + D * j <= Larger(x + D, D + f[t] - E)
          /\ y + D * k <= Larger(x + D, D + f[t])
      BY <3>1, <3>2, <3>3 DEF Larger
    <3> QED BY <3>1, <3>4 DEF k, j
  <2> QED BY <1>1, <2>1, <2>2, <2>3
<1> QED BY <1>3, <1>6, <1>7 DEF Slower

LEMMA SlowerGoes ==
    ASSUME NEW D \in Nat \ {0}, NEW E \in Nat \ {0}, NEW L \in Int,
           NEW f, NEW g, NEW t, Waiting(f), Goes(f, g, t),
           NEW x \in Nat, NEW y \in Nat, NEW z \in Nat,
           z = y \/ (z = y + D /\ f[t] = 0),
           Slower(D, E, L, f, x, y)
    PROVE  Slower(D, E, L, g, x, z)
<1>1. z + D * Cardinality(DOMAIN g) <= Larger(x, D - L)
  <2> DEFINE n == Cardinality(DOMAIN f)
  <2>1. Cardinality(DOMAIN g) = n - 1 /\ n \in Nat /\ y + D * n <= Larger(x, D - L)
    BY Counts, CountsGo DEF Slower
  <2> HIDE DEF n
  <2>2. D * (n - 1) = D * n - D /\ D * n \in Int
    BY <2>1
  <2> QED BY <2>1, <2>2 DEF Larger
<1>2. ASSUME NEW u \in DOMAIN g
      PROVE  /\ g[u] > 0 => z + D * Cardinality(Below(g, g[u])) <= Larger(x, D + g[u] - E)
             /\ z + D * Cardinality(Upto(g, g[u])) <= Larger(x, D + g[u])
  <2>1. u \in DOMAIN f /\ g[u] = f[u] /\ f[u] \in Nat /\ f[t] \in Nat
    BY DEF Goes, Waiting
  <2> DEFINE k == Cardinality(Upto(f, f[u]))
             j == Cardinality(Below(f, f[u]))
             kg == Cardinality(Upto(g, g[u]))
             jg == Cardinality(Below(g, g[u]))
  <2>2. k \in Nat /\ j \in Nat /\ kg \in Nat /\ jg \in Nat
    BY <2>1, Counts, StillWaiting
  <2>3. /\ f[u] > 0 => y + D * j <= Larger(x, D + f[u] - E)
        /\ y + D * k <= Larger(x, D + f[u])
    BY <2>1 DEF Slower
  <2>4. /\ kg <= k /\ jg <= j
        /\ f[t] = 0 => kg = k - 1
        /\ f[t] = 0 /\ f[u] > 0 => jg = j - 1
    BY <2>1, CountsGo
  <2> HIDE DEF k, j, kg, jg
  <2>5. D * kg <= D * k /\ D * jg <= D * j
    BY <2>2, <2>4, Times
  <2>6. D * (k - 1) = D * k - D /\ D * (j - 1) = D * j - D
    BY <2>2
  <2>7. D * kg \in Int /\ D * k \in Int /\ D * jg \in Int /\ D * j \in Int
    BY <2>2
  <2>8. Larger(x, D + f[u]) \in Int /\ Larger(x, D + f[u] - E) \in Int
    BY <2>1 DEF Larger
  <2>9. CASE z = y
    BY <2>1, <2>3, <2>5, <2>7, <2>8, <2>9 DEF kg, jg
  <2>10. CASE z = y + D /\ f[t] = 0
    BY <2>1, <2>3, <2>4, <2>6, <2>7, <2>8, <2>10 DEF kg, jg
  <2> QED BY <2>9, <2>10
<1> QED BY <1>1, <1>2 DEF Slower

LEMMA SlowerReturned ==
    ASSUME NEW D \in Nat \ {0}, NEW E \in Nat \ {0}, NEW L \in Int,
           NEW f, NEW g, NEW t, Waiting(f), Spaced(E, L, f), Goes(f, g, t),
           f[t] > 0, \A u \in DOMAIN f : f[u] <= f[t],
           NEW x \in Nat, NEW y \in Nat, Slower(D, E, L, f, x, y)
    PROVE  Slower(D, E, L + E, g, x, y)
<1>1. Slower(D, E, L, g, x, y)
  BY SlowerGoes, Zenon
<1>2. y + D * Cardinality(DOMAIN g) <= Larger(x, D - (L + E))
  <2>1. t \in DOMAIN f /\ f[t] \in Nat /\ f[t] <= -L
    BY DebtCovers DEF Goes, Waiting
  <2>2. DOMAIN g = Below(f, f[t])
    <3>1. ASSUME NEW u \in DOMAIN f, u # t PROVE f[u] < f[t]
      BY <2>1, <3>1, Distinct DEF Waiting
    <3> QED BY <2>1, <3>1 DEF Goes, Below
  <2>3. Cardinality(DOMAIN g) = Cardinality(Below(f, f[t]))
    BY <2>2, Zenon
  <2> DEFINE j == Cardinality(Below(f, f[t]))
  <2>4. j \in Nat /\ y + D * j <= Larger(x, D + f[t] - E)
    BY <2>1, Counts DEF Slower
  <2> HIDE DEF j
  <2>5. D * j \in Int
    BY <2>4
  <2>6. y + D * j <= Larger(x, D - (L + E))
    BY <2>1, <2>4, <2>5 DEF Larger
  <2> QED BY <2>3, <2>6 DEF j
<1> QED BY <1>1, <1>2 DEF Slower

LEMMA SlowerTicks ==
    ASSUME NEW D \in Nat \ {0}, NEW E \in Nat \ {0}, NEW L \in Int, NEW F \in Nat, D <= E,
           NEW f, NEW g, Waiting(f), Spaced(E, L, f), Ticks(f, g),
           NEW x \in Nat, NEW y \in Nat, Slower(D, E, L, f, x, y)
    PROVE  Slower(D, E, Smaller(F, L + 1), g, Larger(0, x - 1), Larger(0, y - 1))
<1>1. DOMAIN g = DOMAIN f /\ \A u \in DOMAIN f : f[u] > 0
  BY DEF Ticks
<1>2. Larger(0, y - 1) + D * Cardinality(DOMAIN g) <= Larger(Larger(0, x - 1), D - Smaller(F, L + 1))
  <2> DEFINE n == Cardinality(DOMAIN f)
  <2>1. /\ n \in Nat /\ y + D * n <= Larger(x, D - L)
        /\ n = 0 \/ 1 + E * (n - 1) <= -L
        /\ Cardinality(DOMAIN g) = n
    <3>1. Cardinality(DOMAIN g) = n
      BY <1>1, Zenon
    <3> QED BY <1>1, <3>1, Counts, Apart DEF Slower
  <2> HIDE DEF n
  <2>2. n # 0 => D * (n - 1) <= E * (n - 1)
    BY <2>1, Times
  <2>3. D * (n - 1) = D * n - D /\ D * n \in Nat /\ E * (n - 1) \in Int
    BY <2>1
  <2>4. Larger(0, y - 1) + D * n <= Larger(Larger(0, x - 1), D - Smaller(F, L + 1))
    <3>1. CASE y > 0
      BY <2>1, <2>3, <3>1 DEF Larger, Smaller
    <3>2. CASE y = 0 /\ n = 0
      BY <2>1, <2>3, <3>2 DEF Larger, Smaller
    <3>3. CASE y = 0 /\ n # 0
      BY <2>1, <2>2, <2>3, <3>3 DEF Larger, Smaller
    <3> QED BY <3>1, <3>2, <3>3
  <2> QED BY <2>1, <2>4
<1>3. ASSUME NEW t \in DOMAIN g
      PROVE  /\ g[t] > 0 => Larger(0, y - 1) + D * Cardinality(Below(g, g[t]))
                              <= Larger(Larger(0, x - 1), D + g[t] - E)
             /\ Larger(0, y - 1) + D * Cardinality(Upto(g, g[t]))
                    <= Larger(Larger(0, x - 1), D + g[t])
  <2> DEFINE k == Cardinality(Upto(f, f[t]))
             j == Cardinality(Below(f, f[t]))
  <2>1. /\ t \in DOMAIN f /\ g[t] = f[t] - 1 /\ f[t] \in Nat \ {0}
        /\ Cardinality(Upto(g, g[t])) = k /\ Cardinality(Below(g, g[t])) = j
    BY <1>1, CountsTick
  <2>2. /\ k \in Nat /\ j \in Nat
        /\ y + D * j <= Larger(x, D + f[t] - E)
        /\ y + D * k <= Larger(x, D + f[t])
        /\ 1 + E * (k - 1) <= f[t]
        /\ 1 + E * j <= f[t]
        /\ k >= 1
    <3>1. t \in Upto(f, f[t]) /\ Upto(f, f[t]) \subseteq DOMAIN f
      BY <2>1 DEF Upto
    <3>2. k >= 1
      BY <3>1, PartsCount
    <3> QED BY <1>1, <2>1, <3>2, Counts, Apart DEF Slower
  <2> HIDE DEF k, j
  <2>3. D * (k - 1) <= E * (k - 1) /\ (j # 0 => D * (j - 1) <= E * (j - 1))
    BY <2>2, Times
  <2>4. /\ D * (k - 1) = D * k - D /\ D * (j - 1) = D * j - D /\ E * (j - 1) = E * j - E
        /\ D * k \in Nat /\ D * j \in Nat /\ E * (k - 1) \in Int /\ E * j \in Int
        /\ j = 0 => D * j = 0
    BY <2>2
  <2>5. Larger(0, y - 1) + D * j <= Larger(Larger(0, x - 1), D + g[t] - E)
    <3>1. CASE y > 0
      BY <2>1, <2>2, <2>4, <3>1 DEF Larger
    <3>2. CASE y = 0
      BY <2>1, <2>2, <2>3, <2>4, <3>2 DEF Larger
    <3> QED BY <3>1, <3>2
  <2>6. Larger(0, y - 1) + D * k <= Larger(Larger(0, x - 1), D + g[t])
    <3>1. CASE y > 0
      BY <2>1, <2>2, <2>4, <3>1 DEF Larger
    <3>2. CASE y = 0
      BY <2>1, <2>2, <2>3, <2>4, <3>2 DEF Larger
    <3> QED BY <3>1, <3>2
  <2> QED BY <2>1, <2>5, <2>6
<1> QED BY <1>2, <1>3 DEF Slower

----------------------------------------------------------------------------
(* Faster: behind a bucket that is faster than the limit.  F is what the   *)
(* bucket holds.                                                           *)

LEMMA FasterComes ==
    ASSUME NEW D \in Nat \ {0}, NEW E \in Nat \ {0}, NEW F \in Nat, NEW L \in Int, E <= D, E <= F,
           NEW f, NEW g, NEW w, Waiting(f), Spaced(E, L, f),
           Comes(f, g, w, Larger(0, E - L)),
           NEW x \in Nat, NEW y \in Nat, Faster(D, F, L, f, x, y)
    PROVE  Faster(D, F, L - E, g, x + D, y)
<1> DEFINE d == Larger(0, E - L)
<1>1. d \in Nat /\ d >= E - L /\ \A u \in DOMAIN f : f[u] <= d /\ (f[u] < d \/ d = 0)
  BY LastOne
<1>2. d = 0 \/ d = E - L
  BY DEF Larger
<1> HIDE DEF d
<1>3. Comes(f, g, w, d)
  BY DEF d
<1>4. F - (L - E) <= x + D
  BY DEF Faster
<1>5. y + D * Cardinality(DOMAIN g) <= x + D
  <2> DEFINE n == Cardinality(DOMAIN f)
  <2>1. n \in Nat /\ Cardinality(DOMAIN g) = n + 1 /\ y + D * n <= x
    BY <1>1, <1>3, Counts, CountsCome DEF Faster
  <2> HIDE DEF n
  <2>2. D * (n + 1) = D * n + D /\ D * n \in Int
    BY <2>1
  <2> QED BY <2>1, <2>2
<1>6. ASSUME NEW m \in Nat, From(g, m) # {}
      PROVE  m + D * Cardinality(From(g, m)) <= x + D
  <2> DEFINE n == Cardinality(From(f, m))
  <2>1. n \in Nat /\ From(f, m) \subseteq DOMAIN f
    BY PartsCount DEF From
  <2>2. n = 0 \/ m + D * n <= x
    <3>1. From(f, m) # {} => m + D * n <= x
      BY DEF Faster
    <3>2. From(f, m) = {} => n = 0
      BY FS_EmptySet
    <3> QED BY <3>1, <3>2
  <2>3. m <= d
    BY <1>1, <1>3, <1>6 DEF Comes, From, Waiting
  <2>4. m <= x
    <3>1. F - L <= x
      BY DEF Faster
    <3> QED BY <1>1, <1>2, <2>3, <3>1
  <2>5. From(g, m) = From(f, m) \union {w}
    BY <1>3, <2>3 DEF Comes, From
  <2>6. Cardinality(From(f, m) \union {w}) = n + 1
    BY <1>3, <2>1, OneMore DEF Comes
  <2>7. Cardinality(From(g, m)) = n + 1
    BY <2>5, <2>6, Zenon
  <2> HIDE DEF n
  <2>8. D * (n + 1) = D * n + D /\ D * n \in Int /\ (n = 0 => D * n = 0)
    BY <2>1
  <2> QED BY <2>2, <2>4, <2>7, <2>8
<1> QED BY <1>4, <1>5, <1>6 DEF Faster

LEMMA FasterGoes ==
    ASSUME NEW D \in Nat \ {0}, NEW F \in Nat, NEW L \in Int,
           NEW f, NEW g, NEW t, Waiting(f), Goes(f, g, t),
           NEW x \in Nat, NEW y \in Nat, NEW z \in Nat,
           z = y \/ z = y + D,
           Faster(D, F, L, f, x, y)
    PROVE  Faster(D, F, L, g, x, z)
<1>1. z + D * Cardinality(DOMAIN g) <= x
  <2> DEFINE n == Cardinality(DOMAIN f)
  <2>1. Cardinality(DOMAIN g) = n - 1 /\ n \in Nat /\ y + D * n <= x
    BY Counts, CountsGo DEF Faster
  <2> HIDE DEF n
  <2>2. D * (n - 1) = D * n - D /\ D * n \in Int
    BY <2>1
  <2> QED BY <2>1, <2>2
<1>2. ASSUME NEW m \in Nat, From(g, m) # {}
      PROVE  m + D * Cardinality(From(g, m)) <= x
  <2>1. From(g, m) \subseteq From(f, m) /\ From(f, m) \subseteq DOMAIN f
    BY DEF Goes, From
  <2>2. /\ Cardinality(From(g, m)) \in Nat /\ Cardinality(From(f, m)) \in Nat
        /\ Cardinality(From(g, m)) <= Cardinality(From(f, m))
    BY <2>1, PartsCount
  <2>3. m + D * Cardinality(From(f, m)) <= x
    BY <1>2, <2>1 DEF Faster
  <2>4. D * Cardinality(From(g, m)) <= D * Cardinality(From(f, m))
    BY <2>2, Times
  <2>5. D * Cardinality(From(g, m)) \in Int /\ D * Cardinality(From(f, m)) \in Int
    BY <2>2
  <2> QED BY <2>3, <2>4, <2>5
<1> QED BY <1>1, <1>2 DEF Faster

LEMMA FasterReturned ==
    ASSUME NEW D \in Nat \ {0}, NEW E \in Nat \ {0}, NEW F \in Nat, NEW L \in Int,
           NEW f, NEW g, NEW t, Waiting(f), Goes(f, g, t),
           NEW x \in Nat, NEW y \in Nat, Faster(D, F, L, f, x, y)
    PROVE  Faster(D, F, L + E, g, x, y)
<1>1. Faster(D, F, L, g, x, y)
  BY FasterGoes, Zenon
<1>2. F - (L + E) <= x
  BY DEF Faster
<1> QED BY <1>1, <1>2 DEF Faster

LEMMA FasterTicks ==
    ASSUME NEW D \in Nat \ {0}, NEW F \in Nat, NEW L \in Int, L <= F,
           NEW f, NEW g, Waiting(f), Ticks(f, g),
           NEW x \in Nat, NEW y \in Nat, Faster(D, F, L, f, x, y)
    PROVE  Faster(D, F, Smaller(F, L + 1), g, Larger(0, x - 1), Larger(0, y - 1))
<1>1. F - Smaller(F, L + 1) <= Larger(0, x - 1)
  BY DEF Faster, Smaller, Larger
<1>2. Larger(0, y - 1) + D * Cardinality(DOMAIN g) <= Larger(0, x - 1)
  <2> DEFINE n == Cardinality(DOMAIN f)
  <2>1. n \in Nat /\ y + D * n <= x
    BY Counts DEF Faster
  <2>2. n = 0 \/ 1 + D * n <= x
    <3>1. From(f, 1) = DOMAIN f
      BY DEF From, Ticks, Waiting
    <3>2. Cardinality(From(f, 1)) = n
      BY <3>1, Zenon
    <3>3. From(f, 1) = {} => Cardinality(From(f, 1)) = 0
      BY FS_EmptySet
    <3>4. From(f, 1) # {} => 1 + D * Cardinality(From(f, 1)) <= x
      BY DEF Faster
    <3> QED BY <3>2, <3>3, <3>4
  <2>3. Cardinality(DOMAIN g) = n
    BY Zenon DEF Ticks
  <2> HIDE DEF n
  <2>4. D * n \in Nat /\ (n = 0 => D * n = 0)
    BY <2>1
  <2>5. Larger(0, y - 1) + D * n <= Larger(0, x - 1)
    <3>1. CASE y > 0
      BY <2>1, <2>4, <3>1 DEF Larger
    <3>2. CASE y = 0
      BY <2>1, <2>2, <2>4, <3>2 DEF Larger
    <3> QED BY <3>1, <3>2
  <2> QED BY <2>3, <2>5
<1>3. ASSUME NEW m \in Nat, From(g, m) # {}
      PROVE  m + D * Cardinality(From(g, m)) <= Larger(0, x - 1)
  <2>1. From(g, m) = From(f, m + 1) /\ m + 1 \in Nat
    BY CountsTick
  <2>2. From(f, m + 1) # {}
    BY <1>3, <2>1
  <2>3. Cardinality(From(g, m)) = Cardinality(From(f, m + 1))
    BY <2>1, Zenon
  <2> DEFINE n == Cardinality(From(f, m + 1))
  <2>4. n \in Nat /\ m + 1 + D * n <= x
    BY <2>1, <2>2, Counts DEF Faster
  <2> HIDE DEF n
  <2>5. D * n \in Nat
    BY <2>4
  <2>6. m + D * n <= Larger(0, x - 1)
    BY <2>4, <2>5 DEF Larger
  <2> QED BY <2>3, <2>6 DEF n
<1> QED BY <1>1, <1>2, <1>3 DEF Faster

----------------------------------------------------------------------------
(* Who has waited long enough may pass without breaking a limit.           *)

LEMMA MayPass ==
    ASSUME NEW D \in Nat \ {0}, NEW f, Waiting(f), NEW t \in DOMAIN f, f[t] = 0, NEW y \in Nat
    PROVE  /\ \A F \in Nat, L \in Int : Own(D, F, L, f, y) => y + D <= F
           /\ \A E \in Nat, L \in Int, x \in Nat :
                  Slower(D, E, L, f, x, y) => y + D <= x \/ y + D <= D
           /\ \A F \in Nat, L \in Int, x \in Nat : Faster(D, F, L, f, x, y) => y + D <= x
<1> DEFINE k == Cardinality(Upto(f, f[t]))
           n == Cardinality(DOMAIN f)
<1>1. t \in Upto(f, f[t]) /\ Upto(f, f[t]) \subseteq DOMAIN f
  BY DEF Upto
<1>2. k \in Nat /\ k >= 1 /\ n \in Nat /\ n >= 1
  BY <1>1, PartsCount
<1>3. D * 1 <= D * k /\ D * 1 <= D * n /\ D * k \in Nat /\ D * n \in Nat
  BY <1>2, Times
<1>4. ASSUME NEW F \in Nat, NEW L \in Int, Own(D, F, L, f, y) PROVE y + D <= F
  <2>1. y + D * k <= F
    BY <1>4 DEF Own
  <2> QED BY <1>3, <2>1
<1>5. ASSUME NEW E \in Nat, NEW L \in Int, NEW x \in Nat, Slower(D, E, L, f, x, y)
      PROVE  y + D <= x \/ y + D <= D
  <2>1. y + D * k <= x \/ y + D * k <= D
    BY <1>5 DEF Slower, Larger
  <2> QED BY <1>3, <2>1
<1>6. ASSUME NEW F \in Nat, NEW L \in Int, NEW x \in Nat, Faster(D, F, L, f, x, y)
      PROVE  y + D <= x
  <2>1. y + D * n <= x
    BY <1>6 DEF Faster
  <2> QED BY <1>3, <2>1
<1> QED BY <1>4, <1>5, <1>6

----------------------------------------------------------------------------
(* The stages. *)

LEMMA BucketsAre == Buckets = 1 .. Len(Every) /\ 1 \in Buckets /\ 0 \notin Buckets /\ Len(Every) \in Nat
BY RateLimiterAssumption DEF Buckets

LEMMA Rates ==
    ASSUME NEW b \in Buckets
    PROVE  Every[b] \in Nat \ {0} /\ Full(b) \in Nat /\ Every[b] <= Full(b)
<1>1. Every[b] \in Nat \ {0} /\ Burst[b] \in Nat \ {0}
  BY RateLimiterAssumption DEF Buckets
<1>2. Every[b] * 1 <= Every[b] * Burst[b]
  BY <1>1, Times
<1>3. Full(b) = Every[b] * Burst[b]
  BY <1>1 DEF Full
<1> QED BY <1>1, <1>2, <1>3

LEMMA Upstream ==
    ASSUME NEW j \in Buckets
    PROVE  j \in 1 .. j /\ \A b \in 1 .. j : b \in Buckets
BY BucketsAre

LEMMA StageComes ==
    ASSUME NEW j \in Buckets, NEW L \in Int, NEW f, NEW g, NEW w, NEW xs, NEW zs, NEW ys,
           \A b \in 1 .. j : ys[b] \in Nat,
           \A b \in 1 .. j - 1 : xs[b] \in Nat /\ zs[b] = xs[b] + Every[b],
           Comes(f, g, w, Larger(0, Every[j] - L)),
           Stage(j, L, f, xs, ys)
    PROVE  Stage(j, L - Every[j], g, zs, ys)
<1>1. Every[j] \in Nat \ {0} /\ Full(j) \in Nat /\ Every[j] <= Full(j) /\ ys[j] \in Nat
  BY Rates, Upstream
<1>2. L <= Full(j) /\ Waiting(f) /\ Spaced(Every[j], L, f) /\ Own(Every[j], Full(j), L, f, ys[j])
  BY DEF Stage
<1>3. Waiting(g)
  <2>1. Larger(0, Every[j] - L) \in Nat
    BY <1>1 DEF Larger
  <2> QED BY <1>2, <2>1, StillWaiting
<1>4. Spaced(Every[j], L - Every[j], g)
  BY <1>1, <1>2, SpacedComes
<1>5. Own(Every[j], Full(j), L - Every[j], g, ys[j])
  BY <1>1, <1>2, OwnComes
<1>6. ASSUME NEW b \in 1 .. j - 1
      PROVE  /\ Every[b] <= Every[j] => Slower(Every[b], Every[j], L - Every[j], g, zs[b], ys[b])
             /\ Every[j] <= Every[b] => Faster(Every[b], Full(j), L - Every[j], g, zs[b], ys[b])
  <2>1. /\ Every[b] \in Nat \ {0} /\ b \in 1 .. j /\ ys[b] \in Nat
        /\ xs[b] \in Nat /\ zs[b] = xs[b] + Every[b]
    BY BucketsAre, Rates
  <2>2. Every[b] <= Every[j] =>
            Slower(Every[b], Every[j], L - Every[j], g, xs[b] + Every[b], ys[b])
    BY <1>1, <1>2, <2>1, SlowerComes DEF Stage
  <2>3. Every[j] <= Every[b] =>
            Faster(Every[b], Full(j), L - Every[j], g, xs[b] + Every[b], ys[b])
    BY <1>1, <1>2, <2>1, FasterComes DEF Stage
  <2> QED BY <2>1, <2>2, <2>3
<1>7. L - Every[j] <= Full(j)
  BY <1>1, <1>2
<1> QED BY <1>3, <1>4, <1>5, <1>6, <1>7 DEF Stage

LEMMA StageGoes ==
    ASSUME NEW j \in Buckets, NEW L \in Int, NEW f, NEW g, NEW t, NEW xs, NEW ys, NEW zs,
           \A b \in 1 .. j : ys[b] \in Nat,
           \A b \in 1 .. j - 1 : xs[b] \in Nat /\ xs[b] <= Full(b),
           Goes(f, g, t),
           \/ \A b \in 1 .. j : zs[b] = ys[b]
           \/ f[t] = 0 /\ \A b \in 1 .. j : zs[b] = ys[b] + Every[b],
           Stage(j, L, f, xs, ys)
    PROVE  Stage(j, L, g, xs, zs)
<1>1. Every[j] \in Nat \ {0} /\ Full(j) \in Nat /\ Every[j] <= Full(j)
  BY Rates
<1>2. L <= Full(j) /\ Waiting(f) /\ Spaced(Every[j], L, f) /\ Own(Every[j], Full(j), L, f, ys[j])
  BY DEF Stage
<1>3. Waiting(g)
  BY <1>2, StillWaiting
<1>4. Spaced(Every[j], L, g)
  BY <1>1, <1>2, SpacedGoes
<1>5. ASSUME NEW b \in 1 .. j
      PROVE  /\ b \in Buckets /\ Every[b] \in Nat \ {0} /\ ys[b] \in Nat /\ zs[b] \in Nat
             /\ zs[b] = ys[b] \/ (zs[b] = ys[b] + Every[b] /\ f[t] = 0)
  BY BucketsAre, Rates
<1>6. Own(Every[j], Full(j), L, g, zs[j])
  <2>1. /\ ys[j] \in Nat /\ zs[j] \in Nat
        /\ zs[j] = ys[j] \/ (zs[j] = ys[j] + Every[j] /\ f[t] = 0)
    BY <1>5, Upstream
  <2> QED BY <1>1, <1>2, <2>1, OwnGoes
<1>7. ASSUME NEW b \in 1 .. j - 1
      PROVE  /\ Every[b] <= Every[j] => Slower(Every[b], Every[j], L, g, xs[b], zs[b])
             /\ Every[j] <= Every[b] => Faster(Every[b], Full(j), L, g, xs[b], zs[b])
  <2>1. b \in 1 .. j /\ xs[b] \in Nat
    BY BucketsAre
  <2>2. /\ Every[b] \in Nat \ {0} /\ ys[b] \in Nat /\ zs[b] \in Nat
        /\ zs[b] = ys[b] \/ (zs[b] = ys[b] + Every[b] /\ f[t] = 0)
    BY <1>5, <2>1
  <2>3. Every[b] <= Every[j] => Slower(Every[b], Every[j], L, g, xs[b], zs[b])
    BY <1>1, <1>2, <2>1, <2>2, SlowerGoes DEF Stage
  <2>4. Every[j] <= Every[b] => Faster(Every[b], Full(j), L, g, xs[b], zs[b])
    BY <1>1, <1>2, <2>1, <2>2, FasterGoes DEF Stage
  <2> QED BY <2>3, <2>4
<1>8. ASSUME NEW b \in 1 .. j PROVE zs[b] <= Full(b)
  <2>1. CASE zs[b] = ys[b]
    BY <2>1 DEF Stage
  <2>2. CASE f[t] = 0 /\ zs[b] = ys[b] + Every[b]
    <3>1. t \in DOMAIN f
      BY DEF Goes
    <3>2. CASE b = j
      BY <1>1, <1>2, <1>5, <2>2, <3>1, <3>2, MayPass
    <3>3. CASE b # j
      <4>1. b \in 1 .. j - 1 /\ xs[b] \in Nat /\ xs[b] <= Full(b)
        BY <3>3, BucketsAre
      <4>2. Every[b] \in Nat \ {0} /\ Full(b) \in Nat /\ Every[b] <= Full(b) /\ ys[b] \in Nat
        BY <1>5, Rates
      <4>3. CASE Every[b] <= Every[j]
        <5>1. Slower(Every[b], Every[j], L, f, xs[b], ys[b])
          BY <4>1, <4>3 DEF Stage
        <5>2. ys[b] + Every[b] <= xs[b] \/ ys[b] + Every[b] <= Every[b]
          BY <1>1, <1>2, <2>2, <3>1, <4>1, <4>2, <5>1, MayPass
        <5> QED BY <2>2, <4>1, <4>2, <5>2
      <4>4. CASE Every[j] <= Every[b]
        <5>1. Faster(Every[b], Full(j), L, f, xs[b], ys[b])
          BY <4>1, <4>4 DEF Stage
        <5>2. ys[b] + Every[b] <= xs[b]
          BY <1>1, <1>2, <2>2, <3>1, <4>1, <4>2, <5>1, MayPass
        <5> QED BY <2>2, <4>1, <4>2, <5>2
      <4> QED BY <1>1, <4>2, <4>3, <4>4
    <3> QED BY <3>2, <3>3
  <2> QED BY <1>5, <2>1, <2>2
<1> QED BY <1>2, <1>3, <1>4, <1>6, <1>7, <1>8 DEF Stage

LEMMA StageReturned ==
    ASSUME NEW j \in Buckets, NEW L \in Int, NEW f, NEW g, NEW t, NEW xs, NEW ys,
           \A b \in 1 .. j : ys[b] \in Nat,
           \A b \in 1 .. j - 1 : xs[b] \in Nat,
           Goes(f, g, t), f[t] > 0, \A u \in DOMAIN f : f[u] <= f[t],
           Stage(j, L, f, xs, ys)
    PROVE  Stage(j, L + Every[j], g, xs, ys)
<1>1. Every[j] \in Nat \ {0} /\ Full(j) \in Nat /\ ys[j] \in Nat
  BY Rates, Upstream
<1>2. L <= Full(j) /\ Waiting(f) /\ Spaced(Every[j], L, f) /\ Own(Every[j], Full(j), L, f, ys[j])
  BY DEF Stage
<1>3. Waiting(g)
  BY <1>2, StillWaiting
<1>4. Spaced(Every[j], L + Every[j], g)
  BY <1>1, <1>2, SpacedReturned
<1>5. Own(Every[j], Full(j), L + Every[j], g, ys[j])
  BY <1>1, <1>2, OwnReturned
<1>6. ASSUME NEW b \in 1 .. j - 1
      PROVE  /\ Every[b] <= Every[j] => Slower(Every[b], Every[j], L + Every[j], g, xs[b], ys[b])
             /\ Every[j] <= Every[b] => Faster(Every[b], Full(j), L + Every[j], g, xs[b], ys[b])
  <2>1. Every[b] \in Nat \ {0} /\ ys[b] \in Nat /\ xs[b] \in Nat
    BY BucketsAre, Rates
  <2>2. Every[b] <= Every[j] => Slower(Every[b], Every[j], L + Every[j], g, xs[b], ys[b])
    BY <1>1, <1>2, <2>1, SlowerReturned DEF Stage
  <2>3. Every[j] <= Every[b] => Faster(Every[b], Full(j), L + Every[j], g, xs[b], ys[b])
    BY <1>1, <1>2, <2>1, FasterReturned DEF Stage
  <2> QED BY <2>2, <2>3
<1>7. L + Every[j] <= Full(j)
  <2>1. Cardinality(DOMAIN g) \in Nat /\ ys[j] + Every[j] * Cardinality(DOMAIN g) <= Full(j) - (L + Every[j])
    BY <1>3, <1>5, Counts DEF Own
  <2>2. Every[j] * Cardinality(DOMAIN g) \in Nat
    BY <1>1, <2>1
  <2> QED BY <1>1, <2>1, <2>2
<1> QED BY <1>3, <1>4, <1>5, <1>6, <1>7 DEF Stage

LEMMA StageTicks ==
    ASSUME NEW j \in Buckets, NEW L \in Int, NEW f, NEW g, NEW xs, NEW ys, NEW vs, NEW zs,
           \A b \in 1 .. j : ys[b] \in Nat /\ zs[b] = Larger(0, ys[b] - 1),
           \A b \in 1 .. j - 1 : xs[b] \in Nat /\ vs[b] = Larger(0, xs[b] - 1),
           Ticks(f, g),
           Stage(j, L, f, xs, ys)
    PROVE  Stage(j, Smaller(Full(j), L + 1), g, vs, zs)
<1>1. /\ Every[j] \in Nat \ {0} /\ Full(j) \in Nat /\ Every[j] <= Full(j)
      /\ ys[j] \in Nat /\ zs[j] = Larger(0, ys[j] - 1)
  BY Rates, Upstream
<1>2. L <= Full(j) /\ Waiting(f) /\ Spaced(Every[j], L, f) /\ Own(Every[j], Full(j), L, f, ys[j])
  BY DEF Stage
<1>3. Waiting(g)
  BY <1>2, StillWaiting
<1>4. Spaced(Every[j], Smaller(Full(j), L + 1), g)
  BY <1>1, <1>2, SpacedTicks
<1>5. Own(Every[j], Full(j), Smaller(Full(j), L + 1), g, zs[j])
  BY <1>1, <1>2, OwnTicks
<1>6. ASSUME NEW b \in 1 .. j - 1
      PROVE  /\ Every[b] <= Every[j] =>
                    Slower(Every[b], Every[j], Smaller(Full(j), L + 1), g, vs[b], zs[b])
             /\ Every[j] <= Every[b] =>
                    Faster(Every[b], Full(j), Smaller(Full(j), L + 1), g, vs[b], zs[b])
  <2>1. /\ Every[b] \in Nat \ {0} /\ ys[b] \in Nat /\ xs[b] \in Nat
        /\ zs[b] = Larger(0, ys[b] - 1) /\ vs[b] = Larger(0, xs[b] - 1)
    BY BucketsAre, Rates
  <2>2. Every[b] <= Every[j] =>
            Slower(Every[b], Every[j], Smaller(Full(j), L + 1), g, vs[b], zs[b])
    <3> SUFFICES ASSUME Every[b] <= Every[j]
                 PROVE  Slower(Every[b], Every[j], Smaller(Full(j), L + 1), g, vs[b], zs[b])
      OBVIOUS
    <3>1. Slower(Every[b], Every[j], L, f, xs[b], ys[b])
      BY DEF Stage
    <3>2. Slower(Every[b], Every[j], Smaller(Full(j), L + 1), g, Larger(0, xs[b] - 1), Larger(0, ys[b] - 1))
      BY <1>1, <1>2, <2>1, <3>1, SlowerTicks
    <3> QED BY <2>1, <3>2
  <2>3. Every[j] <= Every[b] =>
            Faster(Every[b], Full(j), Smaller(Full(j), L + 1), g, vs[b], zs[b])
    <3> SUFFICES ASSUME Every[j] <= Every[b]
                 PROVE  Faster(Every[b], Full(j), Smaller(Full(j), L + 1), g, vs[b], zs[b])
      OBVIOUS
    <3>1. Faster(Every[b], Full(j), L, f, xs[b], ys[b])
      BY DEF Stage
    <3>2. Faster(Every[b], Full(j), Smaller(Full(j), L + 1), g, Larger(0, xs[b] - 1), Larger(0, ys[b] - 1))
      BY <1>1, <1>2, <2>1, <3>1, FasterTicks
    <3> QED BY <2>1, <3>2
  <2> QED BY <2>2, <2>3
<1>7. Smaller(Full(j), L + 1) <= Full(j)
  BY <1>1 DEF Smaller
<1>8. ASSUME NEW b \in 1 .. j PROVE zs[b] <= Full(b)
  <2>1. ys[b] <= Full(b) /\ Full(b) \in Nat
    BY Rates, Upstream DEF Stage
  <2> QED BY <2>1 DEF Larger
<1> QED BY <1>3, <1>4, <1>5, <1>6, <1>7, <1>8 DEF Stage

----------------------------------------------------------------------------
(* The actions of the limiter. *)

LEMMA Bounds ==
    ASSUME LimiterTypeOK, NEW j \in Buckets
    PROVE  /\ level[j] \in Int
           /\ passed[j] \in [1 .. j -> Nat]
           /\ \A b \in 1 .. j : passed[j][b] \in Nat
           /\ \A b \in 1 .. j - 1 : j - 1 \in Buckets /\ b \in 1 .. j - 1 /\ passed[j - 1][b] \in Nat
<1>1. level[j] \in Int /\ passed[j] \in [1 .. j -> Nat]
  BY DEF LimiterTypeOK
<1>2. ASSUME NEW b \in 1 .. j - 1 PROVE j - 1 \in Buckets /\ passed[j - 1][b] \in Nat
  <2>1. j - 1 \in Buckets
    BY BucketsAre
  <2>2. passed[j - 1] \in [1 .. j - 1 -> Nat]
    BY <2>1 DEF LimiterTypeOK
  <2> QED BY <2>1, <2>2
<1> QED BY <1>1, <1>2

(* Those who wait, when t queues up for b ... *)
LEMMA QueueMoves ==
    ASSUME LimiterTypeOK, NEW t \in Tasks, NEW b \in Buckets, Queue(t, b), queue[t].bucket # b
    PROVE  /\ Comes(WaitsAt(b), WaitsAt(b)', t, Larger(0, Every[b] - level[b]))
           /\ \A j \in Buckets \ {b} :
                  /\ queue[t].bucket # j => WaitsAt(j)' = WaitsAt(j)
                  /\ queue[t].bucket = j => Goes(WaitsAt(j), WaitsAt(j)', t)
           /\ level'[b] = level[b] - Every[b]
           /\ \A j \in Buckets \ {b} : level'[j] = level[j]
<1>1. /\ queue'[t] = [bucket |-> b, left |-> Larger(0, Every[b] - level[b])]
      /\ \A u \in Tasks : u # t => queue'[u] = queue[u]
  BY DEF Queue, Delay, LimiterTypeOK
<1>2. Comes(WaitsAt(b), WaitsAt(b)', t, Larger(0, Every[b] - level[b]))
  BY <1>1 DEF Comes, WaitsAt, At
<1>3. ASSUME NEW j \in Buckets \ {b}, queue[t].bucket # j PROVE WaitsAt(j)' = WaitsAt(j)
  <2>1. At(j)' = At(j) /\ t \notin At(j)
    BY <1>1, <1>3 DEF At
  <2> QED BY <1>1, <2>1 DEF WaitsAt, At
<1>4. ASSUME NEW j \in Buckets \ {b}, queue[t].bucket = j PROVE Goes(WaitsAt(j), WaitsAt(j)', t)
  BY <1>1, <1>4 DEF Goes, WaitsAt, At
<1>5. level'[b] = level[b] - Every[b] /\ \A j \in Buckets \ {b} : level'[j] = level[j]
  BY DEF Queue, LimiterTypeOK
<1> QED BY <1>2, <1>3, <1>4, <1>5

(* ... and when it leaves the limiter. *)
LEMMA LeaveMoves ==
    ASSUME LimiterTypeOK, NEW t \in Tasks, queue' = [queue EXCEPT ![t] = NotQueued]
    PROVE  \A j \in Buckets :
               /\ queue[t].bucket # j => WaitsAt(j)' = WaitsAt(j)
               /\ queue[t].bucket = j => Goes(WaitsAt(j), WaitsAt(j)', t)
<1>1. queue'[t].bucket = 0 /\ \A u \in Tasks : u # t => queue'[u] = queue[u]
  BY DEF NotQueued, LimiterTypeOK
<1>2. ASSUME NEW j \in Buckets, queue[t].bucket # j PROVE WaitsAt(j)' = WaitsAt(j)
  <2>1. At(j)' = At(j) /\ t \notin At(j)
    BY <1>1, <1>2, BucketsAre DEF At
  <2> QED BY <1>1, <2>1 DEF WaitsAt, At
<1>3. ASSUME NEW j \in Buckets, queue[t].bucket = j PROVE Goes(WaitsAt(j), WaitsAt(j)', t)
  BY <1>1, <1>3, BucketsAre DEF Goes, WaitsAt, At
<1> QED BY <1>2, <1>3

(* What passes bucket i shows on its own meters only. *)
LEMMA PassMoves ==
    ASSUME LimiterTypeOK, NEW i \in Buckets, passed' = [passed EXCEPT ![i] = Meters(i)]
    PROVE  /\ \A b \in 1 .. i : passed'[i][b] = passed[i][b] + Every[b]
           /\ \A j \in Buckets \ {i} : passed'[j] = passed[j]
BY DEF Meters, LimiterTypeOK

(* A stage that nothing has happened to. *)
LEMMA StageKept ==
    ASSUME LimiterTypeOK, LimiterInv, NEW j \in Buckets,
           level'[j] = level[j], WaitsAt(j)' = WaitsAt(j), passed'[j] = passed[j],
           j - 1 \in Buckets => passed'[j - 1] = passed[j - 1]
    PROVE  Stage(j, level'[j], WaitsAt(j)', passed'[j - 1], passed'[j])
<1>1. Stage(j, level[j], WaitsAt(j), passed[j - 1], passed[j])
  BY DEF LimiterInv
<1>2. \A b \in 1 .. j - 1 : passed'[j - 1][b] = passed[j - 1][b]
  BY Bounds
<1> QED BY <1>1, <1>2 DEF Stage

LEMMA WaitKeeps ==
    ASSUME LimiterTypeOK, LimiterInv, NEW t \in Tasks, Wait(t)
    PROVE  LimiterInv'
<1> SUFFICES ASSUME NEW j \in Buckets
             PROVE  Stage(j, level'[j], WaitsAt(j)', passed'[j - 1], passed'[j])
  BY DEF LimiterInv
<1>1. queue[t].bucket = 0 /\ Queue(t, 1) /\ passed' = passed /\ 1 \in Buckets /\ 0 \notin Buckets
  BY BucketsAre DEF Wait, NotQueued
<1>2. CASE j = 1
  <2>1. Comes(WaitsAt(1), WaitsAt(1)', t, Larger(0, Every[1] - level[1])) /\ level'[1] = level[1] - Every[1]
    BY <1>1, QueueMoves
  <2>2. Stage(1, level[1], WaitsAt(1), passed[0], passed[1])
    BY <1>1 DEF LimiterInv
  <2>3. level[1] \in Int /\ \A b \in 1 .. 1 : passed[1][b] \in Nat
    BY <1>1, Bounds
  <2>4. Stage(1, level[1] - Every[1], WaitsAt(1)', passed[0], passed[1])
    BY <1>1, <2>1, <2>2, <2>3, StageComes
  <2> QED BY <1>1, <1>2, <2>1, <2>4
<1>3. CASE j # 1
  BY <1>1, <1>3, QueueMoves, StageKept
<1> QED BY <1>2, <1>3

LEMMA NextBucketKeeps ==
    ASSUME LimiterTypeOK, LimiterInv, NEW t \in Tasks, NextBucket(t)
    PROVE  LimiterInv'
<1> SUFFICES ASSUME NEW j \in Buckets
             PROVE  Stage(j, level'[j], WaitsAt(j)', passed'[j - 1], passed'[j])
  BY DEF LimiterInv
<1>0. PICK i \in Buckets : queue[t].bucket = i
  BY DEF NextBucket
<1>1. /\ i \in Buckets /\ i + 1 \in Buckets /\ i + 1 # i /\ (i + 1) - 1 = i
      /\ queue[t].bucket = i /\ queue[t].left = 0 /\ Queue(t, i + 1)
      /\ passed' = [passed EXCEPT ![i] = Meters(i)]
  BY <1>0, BucketsAre DEF NextBucket
<1>2. /\ \A b \in 1 .. i : passed'[i][b] = passed[i][b] + Every[b]
      /\ \A k \in Buckets \ {i} : passed'[k] = passed[k]
  BY <1>1, PassMoves
<1>3. /\ Comes(WaitsAt(i + 1), WaitsAt(i + 1)', t, Larger(0, Every[i + 1] - level[i + 1]))
      /\ Goes(WaitsAt(i), WaitsAt(i)', t)
      /\ \A k \in Buckets : k # i /\ k # i + 1 => WaitsAt(k)' = WaitsAt(k)
      /\ level'[i + 1] = level[i + 1] - Every[i + 1]
      /\ \A k \in Buckets \ {i + 1} : level'[k] = level[k]
  <2>0. PICK b \in Buckets : b = i + 1
    BY <1>1
  <2>1. b \in Buckets /\ Queue(t, b) /\ queue[t].bucket # b /\ i \in Buckets \ {b}
    BY <1>1, <2>0
  <2>2. /\ Comes(WaitsAt(b), WaitsAt(b)', t, Larger(0, Every[b] - level[b]))
        /\ \A k \in Buckets \ {b} :
               /\ queue[t].bucket # k => WaitsAt(k)' = WaitsAt(k)
               /\ queue[t].bucket = k => Goes(WaitsAt(k), WaitsAt(k)', t)
        /\ level'[b] = level[b] - Every[b]
        /\ \A k \in Buckets \ {b} : level'[k] = level[k]
    BY <2>1, QueueMoves
  <2>3. /\ Goes(WaitsAt(i), WaitsAt(i)', t)
        /\ \A k \in Buckets : k # i /\ k # b => WaitsAt(k)' = WaitsAt(k)
    BY <1>1, <2>1, <2>2
  <2> QED BY <2>0, <2>2, <2>3
<1>4. Stage(j, level[j], WaitsAt(j), passed[j - 1], passed[j])
  BY DEF LimiterInv
<1>5. level[j] \in Int /\ \A b \in 1 .. j : passed[j][b] \in Nat
  BY Bounds
<1>6. \A b \in 1 .. j - 1 : passed[j - 1][b] \in Nat /\ passed[j - 1][b] <= Full(b)
  BY Bounds DEF LimiterInv, Stage
<1>7. WaitsAt(i)[t] = 0
  BY <1>1 DEF WaitsAt, At
<1>8. CASE j = i
  <2>1. j - 1 \in Buckets => passed'[j - 1] = passed[j - 1]
    BY <1>2, <1>8, BucketsAre
  <2>5. /\ Goes(WaitsAt(j), WaitsAt(j)', t) /\ WaitsAt(j)[t] = 0
        /\ \A b \in 1 .. j : passed'[j][b] = passed[j][b] + Every[b]
    BY <1>2, <1>3, <1>7, <1>8
  <2>2. Stage(j, level[j], WaitsAt(j)', passed[j - 1], passed'[j])
    BY <1>4, <1>5, <1>6, <2>5, StageGoes
  <2>3. \A b \in 1 .. j - 1 : passed'[j - 1][b] = passed[j - 1][b]
    BY <2>1, Bounds
  <2>4. level'[j] = level[j]
    BY <1>1, <1>3, <1>8
  <2> QED BY <2>2, <2>3, <2>4 DEF Stage
<1>9. CASE j = i + 1
  <2>1. j - 1 = i /\ passed'[j] = passed[j]
    BY <1>1, <1>2, <1>9
  <2>2. \A b \in 1 .. j - 1 : passed'[j - 1][b] = passed[j - 1][b] + Every[b]
    BY <1>2, <2>1
  <2>4. Comes(WaitsAt(j), WaitsAt(j)', t, Larger(0, Every[j] - level[j]))
    BY <1>3, <1>9
  <2>3. Stage(j, level[j] - Every[j], WaitsAt(j)', passed'[j - 1], passed[j])
    BY <1>4, <1>5, <1>6, <2>2, <2>4, StageComes
  <2> QED BY <1>3, <1>9, <2>1, <2>3
<1>10. CASE j # i /\ j # i + 1
  <2>1. j - 1 \in Buckets => passed'[j - 1] = passed[j - 1]
    BY <1>1, <1>2, <1>10, BucketsAre
  <2> QED BY <1>2, <1>3, <1>10, <2>1, StageKept
<1> QED BY <1>8, <1>9, <1>10

LEMMA PassKeeps ==
    ASSUME LimiterTypeOK, LimiterInv, NEW t \in Tasks, Pass(t)
    PROVE  LimiterInv'
<1> SUFFICES ASSUME NEW j \in Buckets
             PROVE  Stage(j, level'[j], WaitsAt(j)', passed'[j - 1], passed'[j])
  BY DEF LimiterInv
<1> DEFINE n == Len(Every)
<1>1. /\ n \in Buckets /\ queue[t].bucket = n /\ queue[t].left = 0
      /\ queue' = [queue EXCEPT ![t] = NotQueued] /\ level' = level
      /\ passed' = [passed EXCEPT ![n] = Meters(n)]
  BY BucketsAre DEF Pass
<1>2. /\ \A b \in 1 .. n : passed'[n][b] = passed[n][b] + Every[b]
      /\ \A k \in Buckets \ {n} : passed'[k] = passed[k]
  BY <1>1, PassMoves
<1>3. /\ Goes(WaitsAt(n), WaitsAt(n)', t)
      /\ \A k \in Buckets : k # n => WaitsAt(k)' = WaitsAt(k)
  BY <1>1, LeaveMoves
<1>4. j - 1 \in Buckets => passed'[j - 1] = passed[j - 1]
  BY <1>2, BucketsAre
<1>5. CASE j = n
  <2>1. level[j] \in Int /\ \A b \in 1 .. j : passed[j][b] \in Nat
    BY Bounds
  <2>2. \A b \in 1 .. j - 1 : passed[j - 1][b] \in Nat /\ passed[j - 1][b] <= Full(b)
    BY Bounds DEF LimiterInv, Stage
  <2>3. WaitsAt(j)[t] = 0
    BY <1>1, <1>5 DEF WaitsAt, At
  <2>4. Stage(j, level[j], WaitsAt(j), passed[j - 1], passed[j])
    BY DEF LimiterInv
  <2>5. Stage(j, level[j], WaitsAt(j)', passed[j - 1], passed'[j])
    BY <1>2, <1>3, <1>5, <2>1, <2>2, <2>3, <2>4, StageGoes
  <2>6. \A b \in 1 .. j - 1 : passed'[j - 1][b] = passed[j - 1][b]
    BY <1>4, Bounds
  <2> QED BY <1>1, <2>5, <2>6 DEF Stage
<1>6. CASE j # n
  BY <1>1, <1>2, <1>3, <1>4, <1>6, StageKept
<1> QED BY <1>5, <1>6

LEMMA CancelKeeps ==
    ASSUME LimiterTypeOK, LimiterInv, NEW t \in Tasks, Cancel(t)
    PROVE  LimiterInv'
<1> SUFFICES ASSUME NEW j \in Buckets
             PROVE  Stage(j, level'[j], WaitsAt(j)', passed'[j - 1], passed'[j])
  BY DEF LimiterInv
<1> DEFINE last == \A u \in Tasks : queue[u].bucket = queue[t].bucket => queue[u].left <= queue[t].left
<1>0. PICK i \in Buckets : queue[t].bucket = i
  BY DEF Cancel
<1>1. /\ i \in Buckets /\ queue' = [queue EXCEPT ![t] = NotQueued] /\ passed' = passed
      /\ level' = IF queue[t].left > 0 /\ last THEN [level EXCEPT ![i] = @ + Every[i]] ELSE level
  BY <1>0 DEF Cancel
<1>2. /\ Goes(WaitsAt(i), WaitsAt(i)', t)
      /\ \A k \in Buckets : k # i => WaitsAt(k)' = WaitsAt(k)
  BY <1>0, <1>1, LeaveMoves
<1>3. level[j] \in Int /\ \A b \in 1 .. j : passed[j][b] \in Nat
  BY Bounds
<1>4. \A b \in 1 .. j - 1 : passed[j - 1][b] \in Nat /\ passed[j - 1][b] <= Full(b)
  BY Bounds DEF LimiterInv, Stage
<1>5. Stage(j, level[j], WaitsAt(j), passed[j - 1], passed[j])
  BY DEF LimiterInv
<1>6. CASE j = i /\ queue[t].left > 0 /\ last
  <2>1. WaitsAt(j)[t] > 0 /\ \A u \in DOMAIN WaitsAt(j) : WaitsAt(j)[u] <= WaitsAt(j)[t]
    BY <1>0, <1>6 DEF WaitsAt, At
  <2>4. Goes(WaitsAt(j), WaitsAt(j)', t)
    BY <1>2, <1>6
  <2>2. Stage(j, level[j] + Every[j], WaitsAt(j)', passed[j - 1], passed[j])
    BY <1>3, <1>4, <1>5, <2>1, <2>4, StageReturned
  <2>3. level'[j] = level[j] + Every[j]
    BY <1>1, <1>6 DEF LimiterTypeOK
  <2> QED BY <1>1, <2>2, <2>3
<1>7. CASE j = i /\ ~(queue[t].left > 0 /\ last)
  <2>2. Goes(WaitsAt(j), WaitsAt(j)', t)
    BY <1>2, <1>7
  <2>1. Stage(j, level[j], WaitsAt(j)', passed[j - 1], passed[j])
    BY <1>3, <1>4, <1>5, <2>2, StageGoes
  <2> QED BY <1>1, <1>7, <2>1
<1>8. CASE j # i
  <2>1. level'[j] = level[j]
    BY <1>1, <1>8 DEF LimiterTypeOK
  <2> QED BY <1>1, <1>2, <1>8, <2>1, StageKept
<1> QED BY <1>6, <1>7, <1>8

LEMMA TickKeeps ==
    ASSUME LimiterTypeOK, LimiterInv, LimiterTick
    PROVE  LimiterInv'
<1> SUFFICES ASSUME NEW j \in Buckets
             PROVE  Stage(j, level'[j], WaitsAt(j)', passed'[j - 1], passed'[j])
  BY DEF LimiterInv
<1>1. level[j] \in Int /\ \A b \in 1 .. j : passed[j][b] \in Nat
  BY Bounds
<1>2. level'[j] = Smaller(Full(j), level[j] + 1)
  BY DEF LimiterTick
<1>3. \A b \in 1 .. j : passed'[j][b] = Larger(0, passed[j][b] - 1)
  BY DEF LimiterTick
<1>4. \A b \in 1 .. j - 1 :
          /\ passed[j - 1][b] \in Nat
          /\ passed'[j - 1][b] = Larger(0, passed[j - 1][b] - 1)
  BY Bounds DEF LimiterTick
<1>5. Ticks(WaitsAt(j), WaitsAt(j)')
  <2>1. \A u \in Tasks : /\ queue[u] \in [bucket : Nat, left : Nat]
                         /\ queue'[u] = [queue[u] EXCEPT !.left = Larger(0, @ - 1)]
    BY DEF LimiterTick, LimiterTypeOK
  <2>2. \A u \in Tasks : queue'[u].bucket = queue[u].bucket
    BY <2>1
  <2>3. At(j)' = At(j)
    BY <2>2 DEF At
  <2>4. ASSUME NEW u \in At(j) PROVE queue[u].left > 0 /\ queue'[u].left = queue[u].left - 1
    <3>1. u \in Tasks /\ queue[u].bucket = j
      BY DEF At
    <3>2. queue[u].left > 0
      BY <3>1 DEF LimiterTick
    <3>3. queue[u].left \in Nat /\ queue'[u].left = Larger(0, queue[u].left - 1)
      BY <2>1, <3>1
    <3> QED BY <3>2, <3>3 DEF Larger
  <2> QED BY <2>3, <2>4 DEF Ticks, WaitsAt
<1>6. Stage(j, level[j], WaitsAt(j), passed[j - 1], passed[j])
  BY DEF LimiterInv
<1> QED BY <1>1, <1>2, <1>3, <1>4, <1>5, <1>6, StageTicks

LEMMA LimiterRests ==
    ASSUME LimiterInv, UNCHANGED limiterVars
    PROVE  LimiterInv'
<1>1. \A j \in Buckets : WaitsAt(j)' = WaitsAt(j)
  BY DEF limiterVars, WaitsAt, At
<1> QED BY <1>1 DEF LimiterInv, limiterVars

LEMMA LimiterStarts ==
    ASSUME LimiterInit PROVE LimiterInv
<1> SUFFICES ASSUME NEW j \in Buckets
             PROVE  Stage(j, level[j], WaitsAt(j), passed[j - 1], passed[j])
  BY DEF LimiterInv
<1>1. At(j) = {} /\ DOMAIN WaitsAt(j) = {}
  BY BucketsAre DEF LimiterInit, NotQueued, At, WaitsAt
<1>2. \A n, m : /\ From(WaitsAt(j), n) = {} /\ Upto(WaitsAt(j), n) = {}
                /\ Below(WaitsAt(j), n) = {} /\ Span(WaitsAt(j), m, n) = {}
  BY <1>1 DEF From, Upto, Below, Span
<1>3. IsFiniteSet(DOMAIN WaitsAt(j)) /\ Cardinality(DOMAIN WaitsAt(j)) = 0
  BY <1>1, FS_EmptySet
<1>4. level[j] = Full(j) /\ Full(j) \in Nat /\ Every[j] \in Nat \ {0}
  BY Rates DEF LimiterInit
<1>5. \A b \in 1 .. j : passed[j][b] = 0 /\ Full(b) \in Nat /\ Every[b] \in Nat \ {0}
  BY Rates, Upstream DEF LimiterInit
<1>6. \A b \in 1 .. j - 1 : passed[j - 1][b] = 0 /\ b \in 1 .. j
  BY BucketsAre DEF LimiterInit
<1>7. Waiting(WaitsAt(j)) /\ Spaced(Every[j], level[j], WaitsAt(j))
  BY <1>1, <1>2, <1>3 DEF Waiting, Spaced
<1>8. Own(Every[j], Full(j), level[j], WaitsAt(j), passed[j][j])
  BY <1>1, <1>3, <1>4, <1>5, Upstream DEF Own
<1>9. ASSUME NEW b \in 1 .. j - 1
      PROVE  /\ Every[b] <= Every[j] =>
                    Slower(Every[b], Every[j], level[j], WaitsAt(j), passed[j - 1][b], passed[j][b])
             /\ Every[j] <= Every[b] =>
                    Faster(Every[b], Full(j), level[j], WaitsAt(j), passed[j - 1][b], passed[j][b])
  <2>1. /\ Every[b] * 0 = 0 /\ passed[j - 1][b] = 0 /\ passed[j][b] = 0
        /\ Every[b] \in Nat \ {0}
    BY <1>5, <1>6
  <2>2. Slower(Every[b], Every[j], level[j], WaitsAt(j), passed[j - 1][b], passed[j][b])
    BY <1>1, <1>3, <1>4, <2>1 DEF Slower, Larger
  <2>3. Faster(Every[b], Full(j), level[j], WaitsAt(j), passed[j - 1][b], passed[j][b])
    BY <1>2, <1>3, <1>4, <2>1 DEF Faster
  <2> QED BY <2>2, <2>3
<1>10. level[j] <= Full(j) /\ \A b \in 1 .. j : passed[j][b] <= Full(b)
  BY <1>4, <1>5
<1> QED BY <1>7, <1>8, <1>9, <1>10 DEF Stage

(* The limiter's promise, from its invariant. *)
LEMMA InvGivesLimits == LimiterInv => SendsWithinLimits
BY BucketsAre DEF LimiterInv, Stage, SendsWithinLimits

----------------------------------------------------------------------------
(* The types of the limiter. *)

(* Who is not queued waits for nothing; who is waits for a bucket. *)
Slots == \A t \in Tasks : queue[t] = NotQueued \/ queue[t].bucket \in Buckets

PassedTypes == DOMAIN passed = Buckets /\ \A j \in Buckets : passed[j] \in [1 .. j -> Nat]

(* To pass a bucket keeps the types of the meters. *)
LEMMA PassTypes ==
    ASSUME LimiterTypeOK, NEW i \in Buckets,
           passed' = passed \/ passed' = [passed EXCEPT ![i] = Meters(i)]
    PROVE  PassedTypes'
<1>1. Meters(i) \in [1 .. i -> Nat]
  <2>1. \A b \in 1 .. i : passed[i][b] \in Nat /\ Every[b] \in Nat
    BY Bounds, Rates, Upstream
  <2>2. \A b \in 1 .. i : passed[i][b] + Every[b] \in Nat
    BY <2>1
  <2> QED BY <2>2 DEF Meters
<1>2. PassedTypes
  BY DEF LimiterTypeOK, PassedTypes
<1> QED BY <1>1, <1>2 DEF PassedTypes

(* To queue for a bucket keeps the types of the limiter. *)
LEMMA QueueTypes ==
    ASSUME LimiterTypeOK, Slots, NEW t \in Tasks, NEW b \in Buckets, Queue(t, b), PassedTypes'
    PROVE  /\ LimiterTypeOK'
           /\ Slots'
           /\ queue'[t] # NotQueued
           /\ \A u \in Tasks : u # t => queue'[u] = queue[u]
<1>1. Every[b] \in Nat \ {0} /\ level[b] \in Int /\ b \in Nat /\ b # 0
  BY Rates, BucketsAre, RateLimiterAssumption DEF LimiterTypeOK, Buckets
<1>2. Delay(b) \in Nat
  BY <1>1 DEF Delay, Larger
<1>3. level' \in [Buckets -> Int]
  BY <1>1 DEF Queue, LimiterTypeOK
<1>4. [bucket |-> b, left |-> Delay(b)] \in [bucket : Nat, left : Nat]
  BY <1>1, <1>2
<1>5. /\ queue' \in [Tasks -> [bucket : Nat, left : Nat]]
      /\ queue'[t] = [bucket |-> b, left |-> Delay(b)]
      /\ \A u \in Tasks : u # t => queue'[u] = queue[u]
  BY <1>4 DEF Queue, LimiterTypeOK
<1>6. queue'[t] # NotQueued /\ queue'[t].bucket \in Buckets
  BY <1>1, <1>5 DEF NotQueued
<1> QED BY <1>3, <1>5, <1>6 DEF LimiterTypeOK, PassedTypes, Slots

(* So does to leave the queue, with the token or without. *)
LEMMA LeaveTypes ==
    ASSUME LimiterTypeOK, Slots, NEW t \in Tasks, Pass(t) \/ Cancel(t)
    PROVE  /\ LimiterTypeOK'
           /\ Slots'
           /\ queue'[t] = NotQueued
           /\ \A u \in Tasks : u # t => queue'[u] = queue[u]
<1>1. NotQueued \in [bucket : Nat, left : Nat]
  BY DEF NotQueued
<1>2. /\ queue' \in [Tasks -> [bucket : Nat, left : Nat]]
      /\ queue'[t] = NotQueued
      /\ \A u \in Tasks : u # t => queue'[u] = queue[u]
  BY <1>1 DEF Pass, Cancel, LimiterTypeOK
<1>3. level' \in [Buckets -> Int]
  <2>1. \A b \in Buckets : [level EXCEPT ![b] = @ + Every[b]] \in [Buckets -> Int]
    BY Rates DEF LimiterTypeOK
  <2> QED BY <2>1 DEF Pass, Cancel, LimiterTypeOK
<1>4. PassedTypes'
  <2>1. Len(Every) \in Buckets
    BY BucketsAre
  <2> QED BY <2>1, PassTypes DEF Pass, Cancel
<1> QED BY <1>2, <1>3, <1>4 DEF LimiterTypeOK, PassedTypes, Slots

(* A tick moves nobody in or out of the queue. *)
LEMMA TickTypes ==
    ASSUME LimiterTypeOK, Slots, LimiterTick
    PROVE  /\ LimiterTypeOK'
           /\ Slots'
           /\ \A u \in Tasks : queue'[u] = NotQueued <=> queue[u] = NotQueued
<1>1. level' \in [Buckets -> Int]
  BY Rates DEF LimiterTick, LimiterTypeOK, Smaller
<1>2. PassedTypes'
  <2>1. ASSUME NEW j \in Buckets PROVE passed'[j] \in [1 .. j -> Nat]
    <3>1. \A b \in 1 .. j : Larger(0, passed[j][b] - 1) \in Nat
      BY Bounds DEF Larger
    <3>2. passed'[j] = [b \in 1 .. j |-> Larger(0, passed[j][b] - 1)]
      BY DEF LimiterTick
    <3> QED BY <3>1, <3>2
  <2> QED BY <2>1 DEF LimiterTick, PassedTypes
<1>3. ASSUME NEW u \in Tasks
      PROVE  /\ queue'[u] \in [bucket : Nat, left : Nat]
             /\ queue'[u].bucket = queue[u].bucket
             /\ queue[u] = NotQueued => queue'[u] = NotQueued
  <2>1. queue[u] \in [bucket : Nat, left : Nat]
    BY DEF LimiterTypeOK
  <2>2. queue'[u] = [queue[u] EXCEPT !.left = Larger(0, @ - 1)]
    BY DEF LimiterTick
  <2> QED BY <2>1, <2>2 DEF Larger, NotQueued
<1>4. queue' \in [Tasks -> [bucket : Nat, left : Nat]]
  BY <1>3 DEF LimiterTick
<1>5. ASSUME NEW u \in Tasks PROVE queue[u].bucket \in Buckets => queue'[u] # NotQueued
  BY <1>3, BucketsAre DEF NotQueued
<1> QED BY <1>1, <1>2, <1>3, <1>4, <1>5 DEF LimiterTypeOK, PassedTypes, Slots
=============================================================================
