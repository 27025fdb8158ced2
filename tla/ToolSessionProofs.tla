------------------------- MODULE ToolSessionProofs -------------------------
(***************************************************************************)
(* Proofs about ToolSession, for any set of ids: the catalog of what each  *)
(* tool reads, writes and invalidates leaves no GET out that shows the     *)
(* written record, and so no session ends with such a GET from before the  *)
(* write.                                                                  *)
(***************************************************************************)
EXTENDS ToolSession, SequenceTheorems, TLAPS

Words ==
    {"/", "/search", "/archived", "/products", "/followers", "/mailMessages",
     "/deals", "/persons", "/organizations", "/leads", "/activities", "/notes",
     "/filters", "/webhooks", "/users", "/pipelines", "/stages", "/dealFields",
     "/activityTypes"}

Parts == Characters \union Words
Paths == Seq(Parts)

(* An invalidated path reaches a cached GET. *)
Reaches(purge, e) == e.version = purge.version /\ IsPrefix(purge.path, e.path)

Covered(purges, e) == \E k \in DOMAIN purges : Reaches(purges[k], e)

----------------------------------------------------------------------------
(* Paths. *)

LEMMA PrefixOfSelf == ASSUME NEW p \in Paths PROVE IsPrefix(p, p)
BY DEF IsPrefix, Paths

LEMMA PrefixIsFirst ==
    ASSUME NEW c \in Parts, NEW p \in Paths, p # << >>, p[1] = c
    PROVE  IsPrefix(<<c>>, p)
<1>1. Len(p) \in Nat \ {0}
  BY EmptySeq DEF Paths
<1>2. SubSeq(<<c>>, 1, 1) = SubSeq(p, 1, 1)
  <2>1. /\ SubSeq(p, 1, 1) \in Paths /\ Len(SubSeq(p, 1, 1)) = 1 /\ SubSeq(p, 1, 1)[1] = p[1]
    BY <1>1, SubSeqProperties, ElementOfSeq DEF Paths
  <2>2. <<c>>[1] = c /\ \A n \in 1 .. 1 : <<c>>[n] \in Parts
    OBVIOUS
  <2>3. /\ SubSeq(<<c>>, 1, 1) \in Paths /\ Len(SubSeq(<<c>>, 1, 1)) = 1
        /\ SubSeq(<<c>>, 1, 1)[1] = <<c>>[1]
    BY <2>2, SubSeqProperties DEF Paths
  <2> QED BY <2>1, <2>2, <2>3, SeqEqual DEF Paths
<1>3. Len(<<c>>) = 1
  OBVIOUS
<1> QED BY <1>1, <1>2, <1>3 DEF IsPrefix

(* What the path of a record looks like, ... *)
LEMMA ItemPath ==
    ASSUME NEW c \in Parts, NEW i \in Ids
    PROVE  /\ Item(c, i) \in Paths
           /\ Len(Item(c, i)) \in Nat /\ Len(Item(c, i)) >= 3
           /\ Item(c, i)[1] = c
           /\ Last(Item(c, i)) \notin {"/products", "/followers", "/mailMessages"}
<1>1. i \in Seq(Characters) /\ i \in Paths /\ i # << >>
  BY ToolSessionAssumption, SeqMonotonic DEF NoId, Paths, Parts
<1>5. <<c, "/">> \in Paths /\ Len(<<c, "/">>) = 2
  <2>1. "/" \in Parts
    BY DEF Parts, Words
  <2> QED BY <2>1 DEF Paths
<1>2. Len(i) \in Nat \ {0} /\ i[Len(i)] \in Characters
  BY <1>1, EmptySeq, ElementOfSeq
<1>3. /\ Item(c, i) \in Paths
      /\ Len(Item(c, i)) = 2 + Len(i)
      /\ \A n \in 1 .. 2 + Len(i) :
             Item(c, i)[n] = IF n <= 2 THEN <<c, "/">>[n] ELSE i[n - 2]
  BY <1>1, <1>5, ConcatProperties DEF Item, Paths
<1>4. Last(Item(c, i)) = i[Len(i)]
  BY <1>2, <1>3 DEF Last
<1> QED BY <1>2, <1>3, <1>4, ToolSessionAssumption

(* ... and the path of what belongs to it. *)
LEMMA BelowPath ==
    ASSUME NEW c \in Parts, NEW i \in Ids, NEW sub \in Parts
    PROVE  /\ Below(c, i, sub) \in Paths
           /\ Len(Below(c, i, sub)) \in Nat /\ Len(Below(c, i, sub)) >= 4
           /\ Below(c, i, sub)[1] = c
           /\ Last(Below(c, i, sub)) = sub
           /\ Front(Below(c, i, sub)) = Item(c, i)
<1> DEFINE p == Item(c, i)
<1>1. p \in Paths /\ Len(p) \in Nat /\ Len(p) >= 3 /\ p[1] = c
  BY ItemPath
<1>2. Below(c, i, sub) = Append(p, sub)
  BY DEF Below
<1> HIDE DEF p
<1>3. /\ Append(p, sub) \in Paths
      /\ Len(Append(p, sub)) = Len(p) + 1
      /\ Append(p, sub)[Len(p) + 1] = sub
      /\ Append(p, sub)[1] = c
  BY <1>1, AppendProperties DEF Paths
<1>4. Front(Append(p, sub)) = p
  <2>1. SubSeq(Append(p, sub), 1, Len(p)) = p
    BY <1>1 DEF Paths
  <2> QED BY <1>1, <1>3, <2>1 DEF Front
<1> QED BY <1>1, <1>2, <1>3, <1>4 DEF Last, p

----------------------------------------------------------------------------
(* What is invalidated. *)

Endpoints == [version : {V1, V2, V1Legacy}, path : Paths]

LEMMA EndpointType ==
    ASSUME NEW v \in {V1, V2, V1Legacy}, NEW p \in Paths
    PROVE  /\ Endpoint(v, p) \in Endpoints
           /\ Endpoint(v, p).version = v
           /\ Endpoint(v, p).path = p
BY DEF Endpoint, Endpoints

LEMMA ShortPath ==
    ASSUME NEW c \in Parts, NEW d \in Parts
    PROVE  /\ <<c>> # << >> /\ <<c, d>> # << >>
           /\ <<c>> \in Paths /\ Len(<<c>>) = 1 /\ Last(<<c>>) = c /\ <<c>>[1] = c
           /\ <<c, d>> \in Paths /\ Len(<<c, d>>) = 2 /\ Last(<<c, d>>) = d /\ <<c, d>>[1] = c
BY DEF Last, Paths

LEMMA BothAre ==
    ASSUME NEW p \in Paths
    PROVE  /\ BothVersions(p) \in Seq(Endpoints)
           /\ Len(BothVersions(p)) = 2
           /\ BothVersions(p)[1] = Endpoint(V2, p)
           /\ BothVersions(p)[2] = Endpoint(V1, p)
<1>1. Endpoint(V1, p) \in Endpoints /\ Endpoint(V2, p) \in Endpoints
  BY EndpointType
<1> QED BY <1>1 DEF BothVersions

Has(seq, x) == \E n \in DOMAIN seq : seq[n] = x

(* The part of a concatenation in the middle. *)
LEMMA Middle ==
    ASSUME NEW S, NEW q \in Seq(S), NEW r \in Seq(S), NEW t \in Seq(S),
           NEW all, all = q \o r \o t
    PROVE  /\ all \in Seq(S)
           /\ Len(all) = Len(q) + Len(r) + Len(t)
           /\ \A k \in DOMAIN r : Has(all, r[k])
<1> DEFINE m == Len(q)
           n == Len(r)
           l == Len(t)
<1>1. m \in Nat /\ n \in Nat /\ l \in Nat /\ DOMAIN r = 1 .. n
  BY LenProperties
<1>2. /\ q \o r \in Seq(S) /\ Len(q \o r) = m + n
      /\ \A k \in 1 .. m + n : (q \o r)[k] = IF k <= m THEN q[k] ELSE r[k - m]
  BY ConcatProperties
<1>3. /\ all \in Seq(S) /\ Len(all) = Len(q \o r) + l
      /\ \A k \in 1 .. Len(q \o r) + l :
             all[k] = IF k <= Len(q \o r) THEN (q \o r)[k] ELSE t[k - Len(q \o r)]
  BY <1>2, ConcatProperties
<1>4. DOMAIN all = 1 .. m + n + l
  <2>1. DOMAIN all = 1 .. Len(all)
    BY <1>3, LenProperties
  <2> QED BY <1>2, <1>3, <2>1
<1>5. ASSUME NEW k \in 1 .. n PROVE m + k \in DOMAIN all /\ all[m + k] = r[k]
  <2> HIDE DEF m, n, l
  <2>1. m + k \in 1 .. m + n /\ m + k \in 1 .. m + n + l /\ ~(m + k <= m) /\ (m + k) - m = k
        /\ m + k <= m + n
    BY <1>1
  <2>2. (q \o r)[m + k] = r[k]
    BY <1>2, <2>1
  <2>3. all[m + k] = (q \o r)[m + k]
    BY <1>2, <1>3, <2>1
  <2> QED BY <1>4, <2>1, <2>2, <2>3
<1> HIDE DEF m, n, l
<1> QED BY <1>1, <1>2, <1>3, <1>5 DEF m, n, l, Has

(* The invalidate functions of the v2 resources: the record, the lists of  *)
(* its collection in both versions, and some more.                         *)
LEMMA CollectionPurges ==
    ASSUME NEW c \in Parts, NEW id \in Ids \union {NoId},
           NEW more \in Seq(Endpoints), NEW l \in 0 .. 2, Len(more) = l,
           NEW w, w.purges = PurgeItem(c, id) \o BothVersions(<<c>>) \o more
    PROVE  /\ w.purges \in Seq(Endpoints)
           /\ Len(w.purges) \in 0 .. 6
           /\ \A v \in {V1, V2} : Has(w.purges, Endpoint(v, <<c>>))
<1> DEFINE item == PurgeItem(c, id)
           both == BothVersions(<<c>>)
           purges == w.purges
           m == Len(item)
<1>1. item \in Seq(Endpoints) /\ m \in 0 .. 2
  <2>1. CASE id = NoId
    BY <2>1, EmptySeq DEF PurgeItem
  <2>2. CASE id # NoId
    BY <2>2, ItemPath, BothAre DEF PurgeItem
  <2> QED BY <2>1, <2>2
<1>2. /\ both \in Seq(Endpoints) /\ Len(both) = 2 /\ DOMAIN both = 1 .. Len(both)
      /\ both[1] = Endpoint(V2, <<c>>) /\ both[2] = Endpoint(V1, <<c>>)
  BY ShortPath, BothAre, LenProperties
<1> HIDE DEF item, both
<1>0. purges = item \o both \o more
  BY DEF item, both
<1> HIDE DEF purges, m
<1>3. /\ purges \in Seq(Endpoints)
      /\ Len(purges) = Len(item) + Len(both) + Len(more)
      /\ \A k \in DOMAIN both : Has(purges, both[k])
  <2>1. item \in Seq(Endpoints) /\ both \in Seq(Endpoints)
    BY <1>1, <1>2
  <2>2. purges \in Seq(Endpoints)
    BY <1>0, <2>1, Middle, Zenon
  <2>3. Len(purges) = Len(item) + Len(both) + Len(more)
    <3> DEFINE front == item \o both
    <3>1. front \in Seq(Endpoints) /\ Len(front) = Len(item) + Len(both) /\ purges = front \o more
      BY <1>0, <2>1, ConcatProperties
    <3> HIDE DEF front
    <3>2. Len(front \o more) = Len(front) + Len(more)
      BY <3>1, ConcatProperties
    <3> QED BY <3>1, <3>2
  <2>4. \A k \in DOMAIN both : Has(purges, both[k])
    BY <1>0, <2>1, Middle, Zenon
  <2> QED BY <2>2, <2>3, <2>4
<1>4. Len(purges) \in 0 .. 6
  <2>1. Len(purges) = m + 2 + l
    BY <1>2, <1>3 DEF m
  <2>2. m + 2 + l \in 0 .. 6
    BY <1>1
  <2> QED BY <2>1, <2>2
<1>5. 1 \in DOMAIN both /\ 2 \in DOMAIN both
  BY <1>2
<1>6. \A v \in {V1, V2} : Has(purges, Endpoint(v, <<c>>))
  BY <1>2, <1>3, <1>5
<1> QED BY <1>3, <1>4, <1>6 DEF purges, item, both

(* The lists' path reaches every GET of the collection. *)
LEMMA ListsPathCovers ==
    ASSUME NEW c \in Parts, NEW e \in Endpoints, e.path # << >>, e.path[1] = c,
           NEW purges, Has(purges, Endpoint(e.version, <<c>>))
    PROVE  Covered(purges, e)
<1>1. /\ Endpoint(e.version, <<c>>).version = e.version
      /\ Endpoint(e.version, <<c>>).path = <<c>>
  BY DEF Endpoint
<1>2. e.path \in Paths
  BY DEF Endpoints
<1> QED BY <1>1, <1>2, PrefixIsFirst DEF Covered, Reaches, Has

----------------------------------------------------------------------------
(* What shows a written record. *)

LEMMA CollectionShows ==
    ASSUME NEW c \in Parts, c # "/mailMessages", NEW e \in Endpoints, NEW w,
           w.path = <<c>> \/ \E i \in Ids : w.path = Item(c, i),
           Shows(e, w)
    PROVE  e.path # << >> /\ e.path[1] = c /\ Last(e.path) # "/mailMessages"
<1> DEFINE p == w.path
<1>3. "/search" \in Parts /\ "/archived" \in Parts
  BY DEF Parts, Words
<1>4. \A q \in {<<c>>, <<c, "/search">>, <<c, "/archived">>} :
          q # << >> /\ q[1] = c /\ Last(q) # "/mailMessages"
  <2>1. <<c>> # << >> /\ <<c>>[1] = c /\ Last(<<c>>) = c
    BY <1>3, ShortPath
  <2>2. ASSUME NEW d \in Parts PROVE <<c, d>> # << >> /\ <<c, d>>[1] = c /\ Last(<<c, d>>) = d
    BY ShortPath
  <2> QED BY <1>3, <2>1, <2>2
<1>1. CASE p = <<c>>
  <2>1. Len(p) = 1 /\ p[1] = c
    BY <1>1
  <2>2. e.path = p \/ e.path \in {<<c>>, <<c, "/search">>, <<c, "/archived">>}
    BY <2>1 DEF Shows
  <2> QED BY <1>1, <1>4, <2>2
<1>2. CASE \E i \in Ids : p = Item(c, i)
  <2>1. PICK i \in Ids : p = Item(c, i)
    BY <1>2
  <2>2. /\ p \in Paths /\ Len(p) >= 3 /\ p[1] = c
        /\ Last(p) \notin {"/products", "/followers", "/mailMessages"}
    BY <2>1, ItemPath
  <2>4. e.path = p \/ e.path \in {<<c>>, <<c, "/search">>, <<c, "/archived">>}
    BY <2>2 DEF Shows
  <2>6. p # << >>
    BY <2>2
  <2> QED BY <1>4, <2>2, <2>4, <2>6
<1> QED BY <1>1, <1>2

LEMMA SubShows ==
    ASSUME NEW c \in Parts, NEW i \in Ids, NEW sub \in {"/products", "/followers"},
           NEW e, NEW w, w.path = Below(c, i, sub), Shows(e, w)
    PROVE  \/ e.path = Below(c, i, sub)
           \/ sub = "/products" /\ e.path = Item(c, i)
<1>1. sub \in Parts
  BY DEF Parts, Words
<1>2. /\ Last(w.path) = sub /\ Len(w.path) \in Nat /\ Len(w.path) >= 4
      /\ Front(w.path) = Item(c, i)
  BY <1>1, BelowPath
<1> QED BY <1>2 DEF Shows

----------------------------------------------------------------------------
(* The catalog. *)

(* Among the GETs in S, those that show a write are reached by the paths   *)
(* invalidated after it, of which there are six at most.                   *)
Fits(w, S) ==
    /\ w.purges \in Seq(Endpoints)
    /\ Len(w.purges) \in 0 .. 6
    /\ \A e \in S : Shows(e, w) => Covered(w.purges, e)

(* The GETs of a version, and a deal's mail. *)
Versioned(versions) == {e \in Endpoints : e.version \in versions \/ Last(e.path) = "/mailMessages"}

LEMMA CollectionFits ==
    ASSUME NEW c \in Parts, c # "/mailMessages", NEW w, NEW versions,
           w.path = <<c>> \/ \E i \in Ids : w.path = Item(c, i),
           w.purges \in Seq(Endpoints), Len(w.purges) \in 0 .. 6,
           \A v \in versions : Has(w.purges, Endpoint(v, <<c>>))
    PROVE  Fits(w, Versioned(versions))
<1> SUFFICES ASSUME NEW e \in Versioned(versions), Shows(e, w) PROVE Covered(w.purges, e)
  BY DEF Fits
<1>1. e \in Endpoints
  BY DEF Versioned
<1>2. e.path # << >> /\ e.path[1] = c /\ Last(e.path) # "/mailMessages"
  BY <1>1, CollectionShows
<1>3. e.version \in versions
  BY <1>2 DEF Versioned
<1> QED BY <1>1, <1>2, <1>3, ListsPathCovers

(* Deals, persons, organizations and products. *)
LEMMA SearchedFits ==
    ASSUME NEW c \in Parts, c # "/mailMessages", NEW id \in Ids \union {NoId}, NEW w,
           w.path = <<c>> \/ \E i \in Ids : w.path = Item(c, i),
           w.purges = PurgeItem(c, id) \o BothVersions(<<c>>) \o BothVersions(<<c, "/search">>)
    PROVE  Fits(w, Versioned({V1, V2}))
<1> DEFINE more == BothVersions(<<c, "/search">>)
<1>1. more \in Seq(Endpoints) /\ Len(more) = 2
  <2>1. "/search" \in Parts
    BY DEF Parts, Words
  <2> QED BY <2>1, ShortPath, BothAre
<1> HIDE DEF more
<1>2. w.purges = PurgeItem(c, id) \o BothVersions(<<c>>) \o more
  BY DEF more
<1>3. /\ w.purges \in Seq(Endpoints) /\ Len(w.purges) \in 0 .. 6
      /\ \A v \in {V1, V2} : Has(w.purges, Endpoint(v, <<c>>))
  <2>1. 2 \in 0 .. 2
    OBVIOUS
  <2> QED BY <1>1, <1>2, <2>1, CollectionPurges, Zenon
<1> QED BY <1>3, CollectionFits

LEMMA ActivitiesFits ==
    ASSUME NEW id \in Ids \union {NoId}, NEW w,
           w.path = <<"/activities">> \/ \E i \in Ids : w.path = Item("/activities", i),
           w.purges = InvalidateActivities(id)
    PROVE  Fits(w, Versioned({V1, V2}))
<1>1. "/activities" \in Parts
  BY DEF Parts, Words
<1>2. w.purges = PurgeItem("/activities", id) \o BothVersions(<<"/activities">>) \o << >>
  <2>1. /\ PurgeItem("/activities", id) \in Seq(Endpoints)
        /\ BothVersions(<<"/activities">>) \in Seq(Endpoints)
    BY <1>1, EmptySeq, ItemPath, ShortPath, BothAre DEF PurgeItem
  <2> QED BY <2>1, ConcatProperties, ConcatEmptySeq DEF InvalidateActivities
<1>3. << >> \in Seq(Endpoints) /\ Len(<< >>) = 0
  BY EmptySeq
<1>4. /\ w.purges \in Seq(Endpoints) /\ Len(w.purges) \in 0 .. 6
      /\ \A v \in {V1, V2} : Has(w.purges, Endpoint(v, <<"/activities">>))
  <2>1. 0 \in 0 .. 2
    OBVIOUS
  <2> QED BY <1>1, <1>2, <1>3, <2>1, CollectionPurges, Zenon
<1> QED BY <1>1, <1>4, CollectionFits

LEMMA PairBehind ==
    ASSUME NEW S, NEW a \in S, NEW b \in S, NEW d \in S, NEW q, q = <<a>> \o <<b, d>>
    PROVE  q \in Seq(S) /\ Len(q) \in 0 .. 6 /\ Has(q, b)
<1> DEFINE tail == <<b, d>>
           n == Len(q)
<1>1. <<a>> \in Seq(S) /\ Len(<<a>>) = 1 /\ tail \in Seq(S) /\ Len(tail) = 2 /\ tail[1] = b
  OBVIOUS
<1> HIDE DEF tail
<1>2. q = <<a>> \o tail
  BY DEF tail
<1>3. /\ q \in Seq(S) /\ n = Len(<<a>>) + Len(tail)
      /\ \A k \in 1 .. Len(<<a>>) + Len(tail) :
             q[k] = IF k <= Len(<<a>>) THEN <<a>>[k] ELSE tail[k - Len(<<a>>)]
  BY <1>1, <1>2, ConcatProperties
<1>4. DOMAIN q = 1 .. n
  BY <1>3, LenProperties
<1> HIDE DEF n
<1>5. n = 3 /\ q[2] = b
  BY <1>1, <1>3
<1>6. n \in 0 .. 6 /\ 2 \in DOMAIN q
  BY <1>4, <1>5
<1> QED BY <1>3, <1>5, <1>6, Zenon DEF Has, n

LEMMA LeadsFits ==
    ASSUME NEW id \in Ids \union {NoId}, NEW w,
           w.path = <<"/leads">> \/ \E i \in Ids : w.path = Item("/leads", i),
           w.purges = InvalidateLeads(id)
    PROVE  Fits(w, Versioned({V1}))
<1> DEFINE lists  == Endpoint(V1, <<"/leads">>)
           search == Endpoint(V1, <<"/leads", "/search">>)
<1>1. /\ "/leads" \in Parts /\ "/search" \in Parts
      /\ lists \in Endpoints /\ search \in Endpoints
      /\ \A i \in Ids : Endpoint(V1, Item("/leads", i)) \in Endpoints
  <2>1. "/leads" \in Parts /\ "/search" \in Parts
    BY DEF Parts, Words
  <2> QED BY <2>1, ShortPath, ItemPath, EndpointType
<1> HIDE DEF search
<1>2. CASE id = NoId
  <2>1. w.purges = <<lists, search>>
    BY <1>1, <1>2, ConcatEmptySeq DEF InvalidateLeads, search
  <2>2. /\ w.purges \in Seq(Endpoints) /\ Len(w.purges) \in 0 .. 6
        /\ Has(w.purges, lists)
    BY <1>1, <2>1 DEF Has
  <2> QED BY <1>1, <2>2, CollectionFits
<1>3. CASE id \in Ids
  <2> DEFINE item == Endpoint(V1, Item("/leads", id))
  <2> HIDE DEF item
  <2>1. w.purges = <<item>> \o <<lists, search>>
    BY <1>3, ToolSessionAssumption DEF InvalidateLeads, search, item
  <2>4. item \in Endpoints
    BY <1>1, <1>3 DEF item
  <2>3. /\ w.purges \in Seq(Endpoints) /\ Len(w.purges) \in 0 .. 6
        /\ Has(w.purges, lists)
    BY <1>1, <2>1, <2>4, PairBehind, Zenon
  <2> QED BY <1>1, <2>3, CollectionFits
<1> QED BY <1>2, <1>3

(* Notes, filters, webhooks and the options of a field. *)
LEMMA ListedFits ==
    ASSUME NEW c \in Parts, c # "/mailMessages", NEW w,
           w.path = <<c>> \/ \E i \in Ids : w.path = Item(c, i),
           w.purges = <<Endpoint(V1, <<c>>)>>
    PROVE  Fits(w, Versioned({V1}))
<1> DEFINE lists == Endpoint(V1, <<c>>)
<1>1. lists \in Endpoints
  BY ShortPath, EndpointType
<1>2. /\ w.purges \in Seq(Endpoints) /\ Len(w.purges) \in 0 .. 6
      /\ Has(w.purges, lists)
  BY <1>1 DEF Has
<1> QED BY <1>2, CollectionFits

(* What belongs to a record. *)
LEMMA SubFits ==
    ASSUME NEW c \in Parts, NEW i \in Ids, NEW sub \in {"/products", "/followers"}, NEW w,
           w.path = Below(c, i, sub),
           \/ w.purges = <<Endpoint(V2, Below(c, i, sub))>> /\ sub = "/followers"
           \/ w.purges = <<Endpoint(V2, Below(c, i, sub)), Endpoint(V2, Item(c, i))>>
    PROVE  Fits(w, Versioned({V2}))
<1> DEFINE own  == Endpoint(V2, Below(c, i, sub))
           item == Endpoint(V2, Item(c, i))
<1>1. /\ Below(c, i, sub) \in Paths /\ Item(c, i) \in Paths
      /\ Last(Below(c, i, sub)) # "/mailMessages" /\ Last(Item(c, i)) # "/mailMessages"
  <2>1. sub \in Parts
    BY DEF Parts, Words
  <2> QED BY <2>1, BelowPath, ItemPath
<1>2. /\ own \in Endpoints /\ own.version = V2 /\ own.path = Below(c, i, sub)
      /\ item \in Endpoints /\ item.version = V2 /\ item.path = Item(c, i)
  BY <1>1, EndpointType
<1> HIDE DEF own, item
<1>3. \/ w.purges = <<own>> /\ sub = "/followers"
      \/ w.purges = <<own, item>>
  BY DEF own, item
<1>4. /\ w.purges \in Seq(Endpoints) /\ Len(w.purges) \in 0 .. 6
      /\ Has(w.purges, own) /\ (sub = "/products" => Has(w.purges, item))
  <2>1. CASE w.purges = <<own>> /\ sub = "/followers"
    BY <1>2, <2>1 DEF Has
  <2>2. CASE w.purges = <<own, item>>
    BY <1>2, <2>2 DEF Has
  <2> QED BY <1>3, <2>1, <2>2
<1>5. ASSUME NEW e \in Versioned({V2}), Shows(e, w) PROVE Covered(w.purges, e)
  <2>1. \/ e.path = Below(c, i, sub)
        \/ sub = "/products" /\ e.path = Item(c, i)
    BY <1>5, SubShows
  <2>2. e.version = V2
    BY <1>1, <2>1 DEF Versioned
  <2>3. PICK q \in {own, item} : Has(w.purges, q) /\ q.path = e.path
    BY <1>2, <1>4, <2>1
  <2>4. Reaches(q, e)
    BY <1>1, <1>2, <2>1, <2>2, <2>3, PrefixOfSelf DEF Reaches
  <2> QED BY <2>3, <2>4 DEF Covered, Has
<1> QED BY <1>4, <1>5 DEF Fits

(* The GETs of the catalog. *)
LEMMA ReadsAre ==
    ASSUME NEW e
    PROVE  /\ e \in ReadsOf("deals", Ids) => e \in Versioned({V2})
           /\ e \in ReadsOf("persons", Ids) => e \in Versioned({V2})
           /\ e \in ReadsOf("organizations", Ids) => e \in Versioned({V2})
           /\ e \in ReadsOf("products", Ids) => e \in Versioned({V2})
           /\ e \in ReadsOf("activities", Ids) => e \in Versioned({V2})
           /\ e \in ReadsOf("leads", Ids) => e \in Versioned({V1})
           /\ e \in ReadsOf("notes", Ids) => e \in Versioned({V1})
           /\ e \in ReadsOf("filters", Ids) => e \in Versioned({V1})
           /\ e \in ReadsOf("webhooks", Ids) => e \in Versioned({V1})
<1>1. Words \subseteq Parts
  BY DEF Parts
<1>2. ASSUME NEW v \in {V1, V2}, NEW p \in Paths PROVE Endpoint(v, p) \in Versioned({v})
  BY EndpointType DEF Versioned
<1>3. ASSUME NEW c \in Words, NEW d \in Words
      PROVE  <<c>> \in Paths /\ <<c, d>> \in Paths
  BY <1>1, ShortPath
<1>4. ASSUME NEW c \in Words, NEW i \in Ids, NEW sub \in Words
      PROVE  Item(c, i) \in Paths /\ Below(c, i, sub) \in Paths /\ Last(Below(c, i, sub)) = sub
  BY <1>1, ItemPath, BelowPath
<1>5. ASSUME NEW c \in Words, NEW d \in Words, NEW v \in {V1, V2},
             \E p \in {<<c>>, <<c, d>>, <<c, "/search">>} \union {Item(c, i) : i \in Ids} :
                 e = Endpoint(v, p)
      PROVE  e \in Versioned({v})
  <2>1. "/search" \in Words
    BY DEF Words
  <2> QED BY <1>2, <1>3, <1>4, <1>5, <2>1
<1>6. ASSUME NEW c \in Words, e \in FollowersReads(c, Ids) PROVE e \in Versioned({V2})
  <2>1. "/followers" \in Words
    BY DEF Words
  <2> QED BY <1>2, <1>4, <1>6, <2>1 DEF FollowersReads
<1>7. ASSUME e \in ReadsOf("deals", Ids) PROVE e \in Versioned({V2})
  <2>1. {"/deals", "/archived", "/products", "/mailMessages"} \subseteq Words
    BY DEF Words
  <2>2. CASE e \in DealsReads(Ids)
    BY <1>5, <2>1, <2>2 DEF DealsReads
  <2>3. CASE e \in DealProductsReads(Ids)
    <3>1. PICK i \in Ids : e = Endpoint(V2, Below("/deals", i, "/products"))
      BY <2>3 DEF DealProductsReads
    <3>2. Below("/deals", i, "/products") \in Paths
      BY <1>4, <2>1
    <3> QED BY <1>2, <3>1, <3>2
  <2>4. CASE e \in DealMailReads(Ids)
    <3>1. PICK i \in Ids : e = Endpoint(V1Legacy, Below("/deals", i, "/mailMessages"))
      BY <2>4 DEF DealMailReads
    <3> QED BY <1>4, <2>1, <3>1, EndpointType DEF Versioned
  <2>5. CASE e \in FollowersReads("/deals", Ids)
    BY <1>6, <2>1, <2>5
  <2> QED BY <1>7, <2>2, <2>3, <2>4, <2>5 DEF ReadsOf
<1>8. ASSUME e \in ReadsOf("persons", Ids) PROVE e \in Versioned({V2})
  <2>1. "/persons" \in Words
    BY DEF Words
  <2>2. CASE e \in PersonsReads(Ids)
    BY <1>5, <2>1, <2>2 DEF PersonsReads
  <2>3. CASE e \in FollowersReads("/persons", Ids)
    BY <1>6, <2>1, <2>3
  <2> QED BY <1>8, <2>2, <2>3 DEF ReadsOf
<1>9. ASSUME e \in ReadsOf("organizations", Ids) PROVE e \in Versioned({V2})
  <2>1. "/organizations" \in Words
    BY DEF Words
  <2>2. CASE e \in OrganizationsReads(Ids)
    BY <1>5, <2>1, <2>2 DEF OrganizationsReads
  <2>3. CASE e \in FollowersReads("/organizations", Ids)
    BY <1>6, <2>1, <2>3
  <2> QED BY <1>9, <2>2, <2>3 DEF ReadsOf
<1>10. e \in ReadsOf("products", Ids) => e \in Versioned({V2})
  <2>1. "/products" \in Words
    BY DEF Words
  <2> QED BY <1>5, <2>1 DEF ReadsOf, ProductsReads
<1>11. e \in ReadsOf("activities", Ids) => e \in Versioned({V2})
  <2>1. "/activities" \in Words
    BY DEF Words
  <2> QED BY <1>5, <2>1 DEF ReadsOf, ActivitiesReads
<1>12. e \in ReadsOf("leads", Ids) => e \in Versioned({V1})
  <2>1. "/leads" \in Words
    BY DEF Words
  <2> QED BY <1>5, <2>1 DEF ReadsOf, LeadsReads
<1>13. /\ e \in ReadsOf("notes", Ids) => e \in Versioned({V1})
       /\ e \in ReadsOf("filters", Ids) => e \in Versioned({V1})
       /\ e \in ReadsOf("webhooks", Ids) => e \in Versioned({V1})
  <2>1. {"/notes", "/filters", "/webhooks"} \subseteq Words
    BY DEF Words
  <2> QED BY <1>5, <2>1 DEF ReadsOf, NotesReads, FiltersReads, WebhooksReads
<1> QED BY <1>7, <1>8, <1>9, <1>10, <1>11, <1>12, <1>13

LEMMA DealsLists ==
    ASSUME NEW w \in DealsWrites(Ids), NEW v \in {V1, V2}
    PROVE  Has(w.purges, Endpoint(v, <<"/deals">>))
<1> DEFINE more == BothVersions(<<"/deals", "/search">>)
<1>1. "/deals" \in Parts /\ "/search" \in Parts
  BY DEF Parts, Words
<1>2. PICK id \in Ids \union {NoId} : w.purges = InvalidateDeals(id)
  BY DEF DealsWrites, Write
<1>3. more \in Seq(Endpoints) /\ Len(more) = 2
  BY <1>1, ShortPath, BothAre
<1> HIDE DEF more
<1>4. w.purges = PurgeItem("/deals", id) \o BothVersions(<<"/deals">>) \o more
  BY <1>2 DEF InvalidateDeals, more
<1>5. 2 \in 0 .. 2
  OBVIOUS
<1> QED BY <1>1, <1>3, <1>4, <1>5, CollectionPurges, Zenon

LEMMA DealsCatalog ==
    ASSUME NEW w \in DealsWrites(Ids)
    PROVE  Fits(w, Versioned({V1, V2}))
<1>1. "/deals" \in Parts
  BY DEF Parts, Words
<1>2. PICK id \in Ids \union {NoId} :
          /\ w.path = <<"/deals">> \/ \E i \in Ids : w.path = Item("/deals", i)
          /\ w.purges = InvalidateDeals(id)
  BY DEF DealsWrites, Write
<1> QED BY <1>1, <1>2, SearchedFits DEF InvalidateDeals

LEMMA PersonsCatalog ==
    ASSUME NEW w \in PersonsWrites(Ids)
    PROVE  Fits(w, Versioned({V1, V2}))
<1>1. "/persons" \in Parts
  BY DEF Parts, Words
<1>2. PICK id \in Ids \union {NoId} :
          /\ w.path = <<"/persons">> \/ \E i \in Ids : w.path = Item("/persons", i)
          /\ w.purges = InvalidatePersons(id)
  BY DEF PersonsWrites, Write
<1> QED BY <1>1, <1>2, SearchedFits DEF InvalidatePersons

LEMMA OrganizationsCatalog ==
    ASSUME NEW w \in OrganizationsWrites(Ids)
    PROVE  Fits(w, Versioned({V1, V2}))
<1>1. "/organizations" \in Parts
  BY DEF Parts, Words
<1>2. PICK id \in Ids \union {NoId} :
          /\ w.path = <<"/organizations">> \/ \E i \in Ids : w.path = Item("/organizations", i)
          /\ w.purges = InvalidateOrganizations(id)
  BY DEF OrganizationsWrites, Write
<1> QED BY <1>1, <1>2, SearchedFits DEF InvalidateOrganizations

LEMMA ProductsCatalog ==
    ASSUME NEW w \in ProductsWrites(Ids)
    PROVE  Fits(w, Versioned({V1, V2}))
<1>1. "/products" \in Parts
  BY DEF Parts, Words
<1>2. PICK id \in Ids \union {NoId} :
          /\ w.path = <<"/products">> \/ \E i \in Ids : w.path = Item("/products", i)
          /\ w.purges = InvalidateProducts(id)
  BY DEF ProductsWrites, Write
<1> QED BY <1>1, <1>2, SearchedFits DEF InvalidateProducts

LEMMA SubCatalog ==
    ASSUME NEW c \in {"/deals", "/persons", "/organizations"}, NEW w,
           w \in DealProductsWrites(Ids) \/ w \in FollowersWrites(c, Ids)
    PROVE  Fits(w, Versioned({V2}))
<1>1. c \in Parts /\ "/deals" \in Parts
  BY DEF Parts, Words
<1>2. CASE w \in DealProductsWrites(Ids)
  <2>1. PICK i \in Ids : /\ w.path = Below("/deals", i, "/products")
                         /\ w.purges = InvalidateDealProducts(i)
    BY <1>2 DEF DealProductsWrites, Write
  <2> QED BY <1>1, <2>1, SubFits DEF InvalidateDealProducts
<1>3. CASE w \in FollowersWrites(c, Ids)
  <2>1. PICK i \in Ids : /\ w.path = Below(c, i, "/followers")
                         /\ w.purges = <<Endpoint(V2, Below(c, i, "/followers"))>>
    BY <1>3 DEF FollowersWrites, Write
  <2> QED BY <1>1, <2>1, SubFits
<1> QED BY <1>2, <1>3

LEMMA ListedCatalog ==
    ASSUME NEW w
    PROVE  /\ w \in ActivitiesWrites(Ids) => Fits(w, Versioned({V1, V2}))
           /\ w \in LeadsWrites(Ids) => Fits(w, Versioned({V1}))
           /\ w \in NotesWrites(Ids) \union FiltersWrites(Ids) \union WebhooksWrites(Ids) =>
                  Fits(w, Versioned({V1}))
<1>1. {"/notes", "/filters", "/webhooks"} \subseteq Parts
  BY DEF Parts, Words
<1>2. ASSUME w \in ActivitiesWrites(Ids) PROVE Fits(w, Versioned({V1, V2}))
  <2>1. PICK id \in Ids \union {NoId} :
            /\ w.path = <<"/activities">> \/ \E i \in Ids : w.path = Item("/activities", i)
            /\ w.purges = InvalidateActivities(id)
    BY <1>2 DEF ActivitiesWrites, Write
  <2> QED BY <2>1, ActivitiesFits
<1>3. ASSUME w \in LeadsWrites(Ids) PROVE Fits(w, Versioned({V1}))
  <2>1. PICK id \in Ids \union {NoId} :
            /\ w.path = <<"/leads">> \/ \E i \in Ids : w.path = Item("/leads", i)
            /\ w.purges = InvalidateLeads(id)
    BY <1>3 DEF LeadsWrites, Write
  <2> QED BY <2>1, LeadsFits
<1>4. ASSUME w \in NotesWrites(Ids) \union FiltersWrites(Ids) \union WebhooksWrites(Ids)
      PROVE  Fits(w, Versioned({V1}))
  <2>1. PICK c \in {"/notes", "/filters", "/webhooks"} :
            /\ w.path = <<c>> \/ \E i \in Ids : w.path = Item(c, i)
            /\ w.purges = <<Endpoint(V1, <<c>>)>>
    BY <1>4 DEF NotesWrites, FiltersWrites, WebhooksWrites, Write
  <2> QED BY <1>1, <2>1, ListedFits
<1> QED BY <1>2, <1>3, <1>4

(* The one writer among the metadata changes a field of the deals. *)
LEMMA ContextCatalog ==
    ASSUME NEW w \in DealFieldsWrites(Ids)
    PROVE  Fits(w, ContextReads)
<1>1. PICK i \in Ids : /\ w.path = Item("/dealFields", i)
                       /\ w.purges = <<Endpoint(V1, <<"/dealFields">>)>>
  BY DEF DealFieldsWrites, Write
<1>2. "/dealFields" \in Parts
  BY DEF Parts, Words
<1>3. Fits(w, Versioned({V1}))
  BY <1>1, <1>2, ListedFits
<1>4. ASSUME NEW e \in ContextReads, Shows(e, w) PROVE e \in Versioned({V1})
  <2>1. PICK c \in {"/users", "/pipelines", "/stages", "/dealFields", "/activityTypes"},
             v \in {V1, V2} :
            e = Endpoint(v, <<c>>) /\ (c = "/dealFields" => v = V1)
    BY DEF ContextReads
  <2>2. c \in Parts
    BY DEF Parts, Words
  <2>3. e \in Endpoints /\ e.path = <<c>> /\ e.version = v /\ <<c>>[1] = c
    <3>1. <<c>> \in Paths /\ <<c>>[1] = c
      BY <2>2, ShortPath
    <3>2. v \in {V1, V2, V1Legacy}
      OBVIOUS
    <3> QED BY <2>1, <3>1, <3>2, EndpointType
  <2>4. e.path[1] = "/dealFields"
    BY <1>1, <1>2, <1>4, <2>3, CollectionShows
  <2> QED BY <2>1, <2>3, <2>4 DEF Versioned
<1> QED BY <1>3, <1>4 DEF Fits

(* Every write tool invalidates paths that reach each GET of its resource  *)
(* that shows what it has written.                                         *)
LEMMA CatalogFits ==
    ASSUME NEW f \in Families, NEW w \in WritesOf(f, Ids)
    PROVE  Fits(w, ReadsOf(f, Ids))
<1>1. \A S, T : Fits(w, S) /\ T \subseteq S => Fits(w, T)
  BY DEF Fits
<1>2. /\ Versioned({V2}) \subseteq Versioned({V1, V2})
      /\ Versioned({V1}) \subseteq Versioned({V1, V2})
  BY DEF Versioned
<1>3. CASE f = "deals"
  <2>1. \/ w \in DealsWrites(Ids)
        \/ w \in DealProductsWrites(Ids) \/ w \in FollowersWrites("/deals", Ids)
    BY <1>3 DEF WritesOf
  <2>2. Fits(w, Versioned({V2}))
    BY <1>1, <1>2, <2>1, DealsCatalog, SubCatalog
  <2>3. ReadsOf(f, Ids) \subseteq Versioned({V2})
    BY <1>3, ReadsAre
  <2> QED BY <1>1, <2>2, <2>3
<1>4. CASE f = "persons"
  <2>1. w \in PersonsWrites(Ids) \/ w \in FollowersWrites("/persons", Ids)
    BY <1>4 DEF WritesOf
  <2>2. Fits(w, Versioned({V2}))
    BY <1>1, <1>2, <2>1, PersonsCatalog, SubCatalog
  <2>3. ReadsOf(f, Ids) \subseteq Versioned({V2})
    BY <1>4, ReadsAre
  <2> QED BY <1>1, <2>2, <2>3
<1>5. CASE f = "organizations"
  <2>1. w \in OrganizationsWrites(Ids) \/ w \in FollowersWrites("/organizations", Ids)
    BY <1>5 DEF WritesOf
  <2>2. Fits(w, Versioned({V2}))
    BY <1>1, <1>2, <2>1, OrganizationsCatalog, SubCatalog
  <2>3. ReadsOf(f, Ids) \subseteq Versioned({V2})
    BY <1>5, ReadsAre
  <2> QED BY <1>1, <2>2, <2>3
<1>6. CASE f \in {"products", "activities"}
  <2>1. w \in ProductsWrites(Ids) \/ w \in ActivitiesWrites(Ids)
    BY <1>6 DEF WritesOf
  <2>2. Fits(w, Versioned({V1, V2}))
    BY <2>1, ProductsCatalog, ListedCatalog
  <2>3. ReadsOf(f, Ids) \subseteq Versioned({V2})
    BY <1>6, ReadsAre
  <2> QED BY <1>1, <1>2, <2>2, <2>3
<1>7. CASE f \in {"leads", "notes", "filters", "webhooks"}
  <2>1. \/ w \in LeadsWrites(Ids)
        \/ w \in NotesWrites(Ids) \union FiltersWrites(Ids) \union WebhooksWrites(Ids)
    BY <1>7 DEF WritesOf
  <2>2. Fits(w, Versioned({V1}))
    BY <2>1, ListedCatalog
  <2>3. ReadsOf(f, Ids) \subseteq Versioned({V1})
    BY <1>7, ReadsAre
  <2> QED BY <1>1, <2>2, <2>3
<1>8. CASE f = "context"
  BY <1>8, ContextCatalog DEF WritesOf, ReadsOf
<1> QED BY <1>3, <1>4, <1>5, <1>6, <1>7, <1>8 DEF Families

----------------------------------------------------------------------------
(* The session. *)

(* What a write must not leave behind: what shows the written record, and, *)
(* after a tool of deals.go, whatever lies under /deals but the mail.      *)
Claimed(e, w) ==
    \/ Shows(e, w)
    \/ w \in DealsWrites(Ids) /\ IsPrefix(<<"/deals">>, e.path) /\ Last(e.path) # "/mailMessages"

(* While a call walks over its paths, an answer from before the write that *)
(* must not stay lies under a path that the walk has still to come to: a   *)
(* read in between stores an answer from after the write, and no path of   *)
(* the walk is skipped.                                                    *)
StillToPurge ==
    call.pc = "purge" =>
        \A e \in Reads :
            Claimed(e, call.write) /\ held[e] = "before" =>
                \E k \in DOMAIN call.write.purges :
                    k >= call.step /\ Reaches(call.write.purges[k], e)

(* And when it has returned, none is left. *)
ClaimedPurged ==
    call.pc = "returned" =>
        \A e \in Reads : Claimed(e, call.write) => held[e] # "before"

IInv == TypeOK /\ StillToPurge /\ ClaimedPurged

(* Every cached GET but the mail of a deal is of a version of the API that *)
(* the paths of InvalidateDeals are purged in.                             *)
LEMMA ReadVersions ==
    ASSUME TypeOK, NEW e \in Reads, Last(e.path) # "/mailMessages"
    PROVE  e.version \in {V1, V2}
<1>1. CASE family = "context"
  <2>1. e \in ContextReads
    BY <1>1 DEF Reads, ReadsOf
  <2> QED BY <2>1 DEF ContextReads, Endpoint
<1>2. CASE family # "context"
  <2>1. ReadsOf(family, Ids) \subseteq Versioned({V1}) \union Versioned({V2})
    BY <1>2, ReadsAre DEF TypeOK, Families
  <2> QED BY <2>1 DEF Reads, Versioned
<1> QED BY <1>1, <1>2

LEMMA DealsPathCovers ==
    ASSUME TypeOK, NEW w \in DealsWrites(Ids), NEW e \in Reads,
           IsPrefix(<<"/deals">>, e.path), Last(e.path) # "/mailMessages"
    PROVE  Covered(w.purges, e)
<1>1. Has(w.purges, Endpoint(e.version, <<"/deals">>))
  BY DealsLists, ReadVersions
<1>2. /\ Endpoint(e.version, <<"/deals">>).version = e.version
      /\ Endpoint(e.version, <<"/deals">>).path = <<"/deals">>
  BY DEF Endpoint
<1> QED BY <1>1, <1>2 DEF Covered, Reaches, Has

LEMMA WritesFit ==
    ASSUME TypeOK, NEW w \in Writes
    PROVE  /\ DOMAIN w.purges = 1 .. Len(w.purges)
           /\ Len(w.purges) \in 0 .. 6
           /\ \A e \in Reads : Claimed(e, w) => Covered(w.purges, e)
<1>1. Fits(w, Reads)
  BY CatalogFits DEF TypeOK, Writes, Reads
<1>2. ASSUME NEW e \in Reads, Claimed(e, w) PROVE Covered(w.purges, e)
  BY <1>1, <1>2, DealsPathCovers DEF Fits, Claimed
<1> QED BY <1>1, <1>2, LenProperties DEF Fits

(* The calls by how far they have come. *)
LEMMA CallCases ==
    ASSUME TypeOK
    PROVE  /\ call.pc \in {"idle", "send", "carried", "purge", "returned"}
           /\ call.pc = "idle" => call = Idle
           /\ call.pc \in {"send", "carried", "returned"} =>
                  call = [pc |-> call.pc, write |-> call.write] /\ call.write \in Writes
           /\ call.pc = "purge" =>
                  /\ call = [pc |-> "purge", write |-> call.write, step |-> call.step]
                  /\ call.write \in Writes /\ call.step \in 1 .. 7
BY DEF TypeOK, Idle

LEMMA SessionStarts == ASSUME Init PROVE IInv
BY DEF Init, IInv, TypeOK, StillToPurge, ClaimedPurged, Idle

LEMMA FetchKeeps == ASSUME IInv, NEW x \in Reads, Fetch(x) PROVE IInv'
<1>1. /\ Reads' = Reads /\ Writes' = Writes /\ call' = call
      /\ held \in [Reads -> {"absent", "before", "after"}]
      /\ held' = [held EXCEPT ![x] = "after"]
  BY DEF IInv, TypeOK, Fetch, Reads, Writes
<1>2. TypeOK'
  BY <1>1 DEF IInv, TypeOK, Fetch
<1>3. \A e \in Reads : held'[e] = "before" => held[e] = "before"
  BY <1>1
<1> QED BY <1>1, <1>2, <1>3 DEF IInv, StillToPurge, ClaimedPurged

LEMMA BeginWriteKeeps == ASSUME IInv, NEW w \in Writes, BeginWrite(w) PROVE IInv'
BY DEF IInv, TypeOK, BeginWrite, Reads, Writes, StillToPurge, ClaimedPurged

LEMMA CarryOutKeeps == ASSUME IInv, CarryOut PROVE IInv'
<1>1. call.write \in Writes /\ call' = [pc |-> "carried", write |-> call.write]
  BY CallCases DEF IInv, CarryOut
<1>2. Reads' = Reads /\ Writes' = Writes
  BY DEF CarryOut, Reads, Writes
<1>3. held' \in [Reads -> {"absent", "before", "after"}]
  BY DEF CarryOut
<1> QED BY <1>1, <1>2, <1>3 DEF IInv, TypeOK, CarryOut, StillToPurge, ClaimedPurged

LEMMA RequestFailsKeeps == ASSUME IInv, RequestFails PROVE IInv'
BY DEF IInv, TypeOK, RequestFails, Idle, Reads, Writes, StillToPurge, ClaimedPurged

LEMMA AnswerKeeps == ASSUME IInv, Answer PROVE IInv'
<1>1. /\ call.write \in Writes
      /\ call' = [pc |-> "purge", write |-> call.write, step |-> 1]
  BY CallCases DEF IInv, Answer
<1>2. Reads' = Reads /\ Writes' = Writes /\ held' = held
  BY DEF Answer, Reads, Writes
<1>3. TypeOK'
  BY <1>1, <1>2 DEF IInv, TypeOK, Answer
<1>4. StillToPurge'
  <2>1. ASSUME NEW e \in Reads, Claimed(e, call.write)
        PROVE  \E k \in DOMAIN call.write.purges : k >= 1 /\ Reaches(call.write.purges[k], e)
    BY <1>1, <2>1, WritesFit DEF IInv, Covered
  <2> QED BY <1>1, <1>2, <2>1 DEF StillToPurge
<1> QED BY <1>1, <1>3, <1>4 DEF IInv, ClaimedPurged

LEMMA PurgeKeeps == ASSUME IInv, Purge PROVE IInv'
<1> PICK w \in Writes, n \in 1 .. 7 : call = [pc |-> "purge", write |-> w, step |-> n]
  BY CallCases DEF IInv, Purge
<1>1. /\ n \in 1 .. 6 /\ n \in DOMAIN w.purges /\ DOMAIN w.purges \subseteq Nat
      /\ call' = [pc |-> "purge", write |-> w, step |-> n + 1]
  BY WritesFit DEF IInv, Purge
<1>2. Reads' = Reads /\ Writes' = Writes
  BY DEF Purge, Reads, Writes
<1>3. /\ held \in [Reads -> {"absent", "before", "after"}]
      /\ held' = [e \in Reads |->
                    IF e \in UnderPath(Reads, w.purges[n]) THEN "absent" ELSE held[e]]
  BY DEF IInv, TypeOK, Purge
<1>4. TypeOK'
  <2>1. held' \in [Reads -> {"absent", "before", "after"}]
    BY <1>3
  <2> QED BY <1>1, <1>2, <2>1 DEF IInv, TypeOK, Purge
<1>5. StillToPurge'
  <2>1. ASSUME NEW e \in Reads, Claimed(e, w), held'[e] = "before"
        PROVE  \E k \in DOMAIN w.purges : k >= n + 1 /\ Reaches(w.purges[k], e)
    <3>1. ~Reaches(w.purges[n], e) /\ held[e] = "before"
      BY <1>3, <2>1 DEF UnderPath, Reaches
    <3>2. PICK k \in DOMAIN w.purges : k >= n /\ Reaches(w.purges[k], e)
      BY <2>1, <3>1 DEF IInv, StillToPurge
    <3> QED BY <1>1, <3>1, <3>2
  <2> QED BY <1>1, <1>2, <2>1 DEF StillToPurge
<1> QED BY <1>1, <1>4, <1>5 DEF IInv, ClaimedPurged

LEMMA ReturnKeeps == ASSUME IInv, Return PROVE IInv'
<1> PICK w \in Writes, n \in 1 .. 7 : call = [pc |-> "purge", write |-> w, step |-> n]
  BY CallCases DEF IInv, Return
<1>1. /\ n \notin DOMAIN w.purges /\ DOMAIN w.purges = 1 .. Len(w.purges)
      /\ Len(w.purges) \in 0 .. 6
      /\ call' = [pc |-> "returned", write |-> w]
  BY WritesFit DEF IInv, Return
<1>2. Reads' = Reads /\ Writes' = Writes /\ held' = held
  BY DEF Return, Reads, Writes
<1>3. TypeOK'
  BY <1>1, <1>2 DEF IInv, TypeOK, Return
<1>4. ASSUME NEW e \in Reads, Claimed(e, w) PROVE held[e] # "before"
  <2>1. SUFFICES ASSUME held[e] = "before" PROVE FALSE
    OBVIOUS
  <2>2. PICK k \in DOMAIN w.purges : k >= n
    BY <1>4, <2>1 DEF IInv, StillToPurge
  <2> HIDE DEF IInv
  <2> DEFINE l == Len(w.purges)
  <2> HIDE DEF l
  <2>3. l \in 0 .. 6 /\ k \in 1 .. l /\ n \notin 1 .. l
    BY <1>1, <2>2 DEF l
  <2> QED BY <2>2, <2>3
<1> QED BY <1>1, <1>2, <1>3, <1>4 DEF IInv, StillToPurge, ClaimedPurged

LEMMA SessionStep == ASSUME IInv, [Next]_vars PROVE IInv'
<1>1. CASE UNCHANGED vars
  BY <1>1 DEF vars, IInv, TypeOK, StillToPurge, ClaimedPurged, Reads, Writes
<1>2. CASE Next
  BY <1>2, FetchKeeps, BeginWriteKeeps, CarryOutKeeps, RequestFailsKeeps, AnswerKeeps,
     PurgeKeeps, ReturnKeeps DEF Next
<1> QED BY <1>1, <1>2

LEMMA SessionInvariant == Spec => []IInv
BY SessionStarts, SessionStep, PTL DEF Spec

(* Every variable keeps its type, whatever tools are called: in particular *)
(* no walk goes beyond the six paths that the longest invalidation has.    *)
THEOREM SessionTypes == Spec => []TypeOK
BY SessionInvariant, PTL DEF IInv

(* When a write tool has returned, no cached answer that shows the written *)
(* record is older than the write: for every tool of the catalog, any ids, *)
(* any reads in between and any earlier writes whose answers were lost.    *)
THEOREM WritesPurge == Spec => []WrittenRecordPurged
<1>1. IInv => WrittenRecordPurged
  BY DEF IInv, ClaimedPurged, Claimed, WrittenRecordPurged
<1> QED BY <1>1, SessionInvariant, PTL

(* After a tool of deals.go nothing under /deals, for any deal, is older   *)
(* than the write, apart from the mail.                                    *)
THEOREM DealsWritesPurge == Spec => []DealsPurged
<1>1. IInv => DealsPurged
  BY DEF IInv, ClaimedPurged, Claimed, DealsPurged
<1> QED BY <1>1, SessionInvariant, PTL
=============================================================================
