-------------------------- MODULE MCResponseCache --------------------------
(***************************************************************************)
(* Small instances of ResponseCache, and what the documentation says of    *)
(* the cache modes and of the stale fallback.                              *)
(***************************************************************************)
EXTENDS ResponseCache, TLC

Symmetry == Permutations(Readers)

(* One write that changes everything and invalidates in one step. *)
ChangesAll == [k \in Kinds |-> Docs]
PurgesAll  == [k \in Kinds |-> <<Docs>>]
TTLOne     == [d \in Docs |-> 1]

(* cache.invalidate is given the whole version, or one identity's keys. *)
AdminAny == {Keys} \union {{i} \X Docs : i \in Identities}

(* The products of a deal and the tool that changes one of them, with the  *)
(* paths that the tool catalog has: both name GET /deals/{id}/products, and *)
(* another call may come between the two.                                   *)
Catalog == INSTANCE ToolCatalog

ProductDocs    == {Catalog!Endpoint("v2", Catalog!Below("/deals", <<"1">>, "/products"))}
                     \intersect Catalog!ReadsOf("deals", {<<"1">>})
ProductKinds   == {"deals.products.update"}
ProductChanges == [k \in ProductKinds |-> ProductDocs]
ProductPurges  == [k \in ProductKinds |->
                     [n \in DOMAIN Catalog!InvalidateDealProducts(<<"1">>) |->
                        Catalog!UnderPath(ProductDocs, Catalog!InvalidateDealProducts(<<"1">>)[n])]]
AdminNone      == {}
AdminOne       == {{i} \X Docs : i \in {CHOOSE j \in Identities : TRUE}}

----------------------------------------------------------------------------
(* What the documentation says. *)

(* "Skip cache entirely for this call": a call with the mode bypass returns *)
(* what the upstream answered, or an error, never a cached body.  The       *)
(* bypass branch of CachedGet falls back to a stale entry nevertheless.     *)
BypassSkipsCache ==
    \A r \in Readers : reads[r].mode = "bypass" => reads[r].pc \notin {"hit", "stale"}

(* "Return cache miss error if nothing is cached": a call with the mode     *)
(* only has a cached body or the miss error to return, and no reason to ask *)
(* the upstream.  Without a cache, CachedGet asks it for every mode.        *)
OnlyNeverAsks ==
    \A r \in Readers : reads[r].mode = "only" => reads[r].pc \notin {"send"} \union InFlight

(* PIPEDRIVE_CACHE_STALE_TTL. *)
StaleTTL == 1

(* "Max age for stale fallback": no body older than that is served as a    *)
(* stale fallback.  The setting is parsed, and staleFallback does not look *)
(* at it.                                                                  *)
StaleAgeBound ==
    [][\A r \in Readers : FallBack(r) =>
          \A e \in Get(Key(reads[r].id, reads[r].doc)) : clock - e.storedAt <= StaleTTL]_vars
============================================================================
