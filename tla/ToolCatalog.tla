---------------------------- MODULE ToolCatalog ----------------------------
(***************************************************************************)
(* The tools (tools/*.go) as the cache sees them: the GETs their handlers  *)
(* put through Client.CachedGet, and, for the handlers that write, the     *)
(* request and the paths invalidated after it.  A path is the sequence of  *)
(* its parts, so that "starts with" is IsPrefix; numeric ids are sequences *)
(* of digits ("/deals/1" is a prefix of "/deals/12" in the code).  Query   *)
(* parameters only add a hash behind the path and are left out.            *)
(***************************************************************************)
EXTENDS Sequences, SequencesExt

V1 == "v1"
V2 == "v2"
V1Legacy == "v1-legacy"

Endpoint(version, path) == [version |-> version, path |-> path]

Item(collection, id) == <<collection, "/">> \o id
Below(collection, id, sub) == Append(Item(collection, id), sub)

(* Client.InvalidatePath: the endpoints whose key starts with version,     *)
(* identity, method and path.                                              *)
UnderPath(endpoints, purge) ==
    {e \in endpoints : e.version = purge.version /\ IsPrefix(purge.path, e.path)}

(* The id of a record that is not known yet: 0, or "" for leads. *)
NoId == << >>

(* A write handler.  ensureToolAllowed checks its guard, and its request   *)
(* changes the record under `path`.                                        *)
Write(tool, guard, path, purges) ==
    [tool |-> tool, guard |-> guard, path |-> path, purges |-> purges]

Allowed(env, guard) ==
    CASE guard = "read"   -> TRUE
      [] guard = "write"  -> env.allowWrite
      [] guard = "delete" -> env.allowWrite /\ env.allowDelete

----------------------------------------------------------------------------
(* Helpers shared by the invalidate functions of the v2 resources. *)

BothVersions(path) == <<Endpoint(V2, path), Endpoint(V1, path)>>

PurgeItem(collection, id) ==
    IF id = NoId THEN << >> ELSE BothVersions(Item(collection, id))

(* deals.go *)
DealsReads(ids) ==
    {Endpoint(V2, p) : p \in {<<"/deals">>, <<"/deals", "/archived">>, <<"/deals", "/search">>}
                             \union {Item("/deals", i) : i \in ids}}

(* Mutated invalidateDealsCache: the searches' and lists' v2 path is gone. *)
InvalidateDealsV1Lists(id) == PurgeItem("/deals", id) \o <<Endpoint(V1, <<"/deals">>)>>

InvalidateDeals(id) ==
    PurgeItem("/deals", id) \o BothVersions(<<"/deals">>) \o BothVersions(<<"/deals", "/search">>)

DealsWrites(ids) ==
    {Write("deals.create", "write", <<"/deals">>, InvalidateDeals(NoId))}
    \union {Write(t, "write", Item("/deals", i), InvalidateDeals(i)) :
              t \in {"deals.update", "deals.archive", "deals.unarchive"}, i \in ids}
    \union {Write("deals.delete", "delete", Item("/deals", i), InvalidateDeals(i)) : i \in ids}

(* deal_products.go *)
DealProductsReads(ids) == {Endpoint(V2, Below("/deals", i, "/products")) : i \in ids}

InvalidateDealProducts(id) ==
    <<Endpoint(V2, Below("/deals", id, "/products")), Endpoint(V2, Item("/deals", id))>>

DealProductsWrites(ids) ==
    {Write(t, "write", Below("/deals", i, "/products"), InvalidateDealProducts(i)) :
       t \in {"deals.products.attach", "deals.products.update", "deals.products.detach"},
       i \in ids}

(* followers.go, for deals, persons and organizations *)
FollowersReads(resource, ids) == {Endpoint(V2, Below(resource, i, "/followers")) : i \in ids}

FollowersWrites(resource, ids) ==
    {Write(t, "write", Below(resource, i, "/followers"),
           <<Endpoint(V2, Below(resource, i, "/followers"))>>) :
       t \in {"followers.add", "followers.remove"}, i \in ids}

(* persons.go *)
PersonsReads(ids) ==
    {Endpoint(V2, p) : p \in {<<"/persons">>, <<"/persons", "/search">>}
                             \union {Item("/persons", i) : i \in ids}}

InvalidatePersons(id) ==
    PurgeItem("/persons", id) \o BothVersions(<<"/persons">>)
        \o BothVersions(<<"/persons", "/search">>)

PersonsWrites(ids) ==
    {Write("persons.create", "write", <<"/persons">>, InvalidatePersons(NoId))}
    \union {Write("persons.update", "write", Item("/persons", i), InvalidatePersons(i)) : i \in ids}
    \union {Write("persons.delete", "delete", Item("/persons", i), InvalidatePersons(i)) : i \in ids}

(* organizations.go *)
OrganizationsReads(ids) ==
    {Endpoint(V2, p) : p \in {<<"/organizations">>, <<"/organizations", "/search">>}
                             \union {Item("/organizations", i) : i \in ids}}

InvalidateOrganizations(id) ==
    PurgeItem("/organizations", id) \o BothVersions(<<"/organizations">>)
        \o BothVersions(<<"/organizations", "/search">>)

OrganizationsWrites(ids) ==
    {Write("organizations.create", "write", <<"/organizations">>, InvalidateOrganizations(NoId))}
    \union {Write("organizations.update", "write", Item("/organizations", i),
                  InvalidateOrganizations(i)) : i \in ids}
    \union {Write("organizations.delete", "delete", Item("/organizations", i),
                  InvalidateOrganizations(i)) : i \in ids}

(* products.go *)
ProductsReads(ids) ==
    {Endpoint(V2, p) : p \in {<<"/products">>, <<"/products", "/search">>}
                             \union {Item("/products", i) : i \in ids}}

InvalidateProducts(id) ==
    PurgeItem("/products", id) \o BothVersions(<<"/products">>)
        \o BothVersions(<<"/products", "/search">>)

ProductsWrites(ids) ==
    {Write("products.create", "write", <<"/products">>, InvalidateProducts(NoId))}
    \union {Write("products.update", "write", Item("/products", i), InvalidateProducts(i)) : i \in ids}
    \union {Write("products.delete", "delete", Item("/products", i), InvalidateProducts(i)) : i \in ids}

(* leads.go: only v1 has leads *)
LeadsReads(ids) ==
    {Endpoint(V1, p) : p \in {<<"/leads">>, <<"/leads", "/search">>}
                             \union {Item("/leads", i) : i \in ids}}

InvalidateLeads(id) ==
    (IF id = NoId THEN << >> ELSE <<Endpoint(V1, Item("/leads", id))>>)
        \o <<Endpoint(V1, <<"/leads">>), Endpoint(V1, <<"/leads", "/search">>)>>

LeadsWrites(ids) ==
    {Write("leads.create", "write", <<"/leads">>, InvalidateLeads(NoId))}
    \union {Write("leads.update", "write", Item("/leads", i), InvalidateLeads(i)) : i \in ids}
    \union {Write("leads.delete", "delete", Item("/leads", i), InvalidateLeads(i)) : i \in ids}

(* activities.go and activities_batch.go *)
ActivitiesReads(ids) ==
    {Endpoint(V2, p) : p \in {<<"/activities">>} \union {Item("/activities", i) : i \in ids}}

InvalidateActivities(id) == PurgeItem("/activities", id) \o BothVersions(<<"/activities">>)

ActivitiesWrites(ids) ==
    {Write(t, "write", <<"/activities">>, InvalidateActivities(NoId)) :
       t \in {"activities.create", "activities.batch_create"}}
    \union {Write("activities.update", "write", Item("/activities", i),
                  InvalidateActivities(i)) : i \in ids}
    \union {Write("activities.delete", "delete", Item("/activities", i),
                  InvalidateActivities(i)) : i \in ids}

(* notes.go, filters.go, webhooks.go: v1 collections with a list only *)
NotesReads == {Endpoint(V1, <<"/notes">>)}
NotesWrites(ids) ==
    {Write("notes.create", "write", <<"/notes">>, <<Endpoint(V1, <<"/notes">>)>>)}
    \union {Write("notes.update", "write", Item("/notes", i), <<Endpoint(V1, <<"/notes">>)>>) : i \in ids}

FiltersReads == {Endpoint(V1, <<"/filters">>)}
FiltersWrites(ids) ==
    {Write("filters.create", "write", <<"/filters">>, <<Endpoint(V1, <<"/filters">>)>>)}
    \union {Write("filters.update", "write", Item("/filters", i),
                  <<Endpoint(V1, <<"/filters">>)>>) : i \in ids}

WebhooksReads == {Endpoint(V1, <<"/webhooks">>)}
WebhooksWrites(ids) ==
    {Write("webhooks.create", "write", <<"/webhooks">>, <<Endpoint(V1, <<"/webhooks">>)>>)}
    \union {Write("webhooks.delete", "delete", Item("/webhooks", i),
                  <<Endpoint(V1, <<"/webhooks">>)>>) : i \in ids}

(* context.go and deal_fields.go: the metadata, one option writer *)
ContextReads ==
    {Endpoint(V1, <<"/users">>), Endpoint(V2, <<"/pipelines">>), Endpoint(V2, <<"/stages">>),
     Endpoint(V1, <<"/dealFields">>), Endpoint(V1, <<"/activityTypes">>)}

DealFieldsWrites(ids) ==
    {Write("deal_fields.add_option", "write", Item("/dealFields", i),
           <<Endpoint(V1, <<"/dealFields">>)>>) : i \in ids}

(* mailbox.go: the mail of a deal lies under /deals, in the legacy version *)
DealMailReads(ids) == {Endpoint(V1Legacy, Below("/deals", i, "/mailMessages")) : i \in ids}

----------------------------------------------------------------------------
(* The tools by the resource whose cached answers they touch. *)

Families == {"deals", "persons", "organizations", "products", "leads", "activities",
             "notes", "filters", "webhooks", "context"}

ReadsOf(family, ids) ==
    CASE family = "deals"         -> DealsReads(ids) \union DealProductsReads(ids)
                                       \union FollowersReads("/deals", ids)
                                       \union DealMailReads(ids)
      [] family = "persons"       -> PersonsReads(ids) \union FollowersReads("/persons", ids)
      [] family = "organizations" -> OrganizationsReads(ids)
                                       \union FollowersReads("/organizations", ids)
      [] family = "products"      -> ProductsReads(ids)
      [] family = "leads"         -> LeadsReads(ids)
      [] family = "activities"    -> ActivitiesReads(ids)
      [] family = "notes"         -> NotesReads
      [] family = "filters"       -> FiltersReads
      [] family = "webhooks"      -> WebhooksReads
      [] family = "context"       -> ContextReads

WritesOf(family, ids) ==
    CASE family = "deals"         -> DealsWrites(ids) \union DealProductsWrites(ids)
                                       \union FollowersWrites("/deals", ids)
      [] family = "persons"       -> PersonsWrites(ids) \union FollowersWrites("/persons", ids)
      [] family = "organizations" -> OrganizationsWrites(ids)
                                       \union FollowersWrites("/organizations", ids)
      [] family = "products"      -> ProductsWrites(ids)
      [] family = "leads"         -> LeadsWrites(ids)
      [] family = "activities"    -> ActivitiesWrites(ids)
      [] family = "notes"         -> NotesWrites(ids)
      [] family = "filters"       -> FiltersWrites(ids)
      [] family = "webhooks"      -> WebhooksWrites(ids)
      [] family = "context"       -> DealFieldsWrites(ids)
============================================================================
