--------------------------- MODULE AdminPolicyList ---------------------------
(***************************************************************************)
(* The offset lists of the admin API: the CORS policies, rate-limit         *)
(* policies and runtime profiles of a tenant, and the control nodes         *)
(* (handlers.rs, tenant_scope.rs, admin_service.rs, repository.rs,          *)
(* pagination.rs), while administrators upsert, register and delete rows.   *)
(* One page is two statements, a COUNT and a SELECT, and every page is a    *)
(* request of its own.  A row is its place in the list's order: that of a    *)
(* policy is its key, that of a node its region and then its id, so a node   *)
(* has one place in each region.  The lists share no state, so each          *)
(* behaviour looks at one.                                                  *)
(***************************************************************************)
EXTENDS Integers, FiniteSets

CONSTANTS
    Tenant,    \* tenants
    Reader,    \* clients that page through a list
    ListSize,  \* validated_offset_params: rows on a page
    NodeCount, \* nodes there are: the places of a region
    MaxRow,    \* bound of the model: places in a list
    None

VARIABLES
    owner,   \* the list looked at: the policies of a tenant, or the nodes
    table,   \* its rows
    listing  \* each reader's listing

vars == <<owner, table, listing>>

Permission == {"tenant.admin", "platform.read", "control-plane"}
Principal == [tenant : Tenant, permissions : SUBSET Permission]
Row == 1..MaxRow
Owner == Tenant \cup {"nodes"}

\* total: what COUNT returned for the page, None before it ran.  History: `start`,
\* the rows at the first COUNT that have not moved since; `got`, the rows received;
\* `shifted`, a row was inserted between the COUNT and the SELECT of the page;
\* `left`, a row left the list or moved to a later place.
Listing == [page : Nat, total : Nat \cup {None},
            status : {"open", "done"}, start : SUBSET Row, got : SUBSET Row,
            shifted : BOOLEAN, left : BOOLEAN]

TypeOK ==
    /\ owner \in Owner
    /\ table \subseteq Row
    /\ listing \in [Reader -> Listing \cup {None}]

Init ==
    /\ owner \in Owner
    /\ table = {}
    /\ listing = [c \in Reader |-> None]

-----------------------------------------------------------------------------
(* tenant_scope.rs *)

RequireTenantAdmin(caller) == "tenant.admin" \in caller.permissions
RequireControlPlane(caller) == "control-plane" \in caller.permissions

\* The tenant whose rows are listed, None if another one was asked for.
ResolveListTenantId(caller, requested) ==
    IF "platform.read" \in caller.permissions
    THEN IF requested # None THEN requested ELSE caller.tenant
    ELSE IF requested \in {None, caller.tenant} THEN caller.tenant ELSE None

\* Platform readers may write to every tenant.
RequireUpsertTenantId(caller, tenant) ==
    "platform.read" \in caller.permissions \/ tenant = caller.tenant

-----------------------------------------------------------------------------
(* Reading a list. *)

Open(c) ==
    /\ listing[c] = None
    /\ listing' = [listing EXCEPT ![c] =
          [page |-> 1, total |-> None, status |-> "open", start |-> table, got |-> {}, shifted |-> FALSE, left |-> FALSE]]
    /\ UNCHANGED table

ListPolicies(c, caller, requested) ==
    /\ RequireTenantAdmin(caller)
    /\ ResolveListTenantId(caller, requested) = owner
    /\ Open(c)

ListControlNodes(c, caller) == RequireControlPlane(caller) /\ owner = "nodes" /\ Open(c)

Asked(c) == listing[c] # None /\ listing[c].status = "open"

CountRows(c) ==
    /\ Asked(c) /\ listing[c].total = None
    /\ listing' = [listing EXCEPT ![c].total = Cardinality(table),
                                  ![c].shifted = FALSE]
    /\ UNCHANGED table

\* The rows that come first in the order of the list.
Ahead(rows, x) == Cardinality({y \in rows : y < x})

\* Broken variant: the offset is that of the page after.
SelectedLate(rows, page) ==
    {x \in rows : page * ListSize <= Ahead(rows, x) /\ Ahead(rows, x) < (page + 1) * ListSize}

\* ORDER BY ... LIMIT page_size OFFSET (page - 1) * page_size
Selected(rows, page) ==
    {x \in rows : (page - 1) * ListSize <= Ahead(rows, x) /\ Ahead(rows, x) < page * ListSize}

\* offset_list_page_data: the count says whether there is a page after this one.
HasMore(page, total) == page * ListSize < total

SelectPage(c) ==
    LET l == listing[c]
        more == HasMore(l.page, l.total) IN
    /\ Asked(c) /\ l.total # None
    /\ listing' = [listing EXCEPT ![c] =
          [l EXCEPT !.got = @ \cup Selected(table, l.page),
                    !.page = IF more THEN @ + 1 ELSE @,
                    !.total = None,
                    !.status = IF more THEN "open" ELSE "done"]]
    /\ UNCHANGED table

-----------------------------------------------------------------------------
(* Writing. *)

Insert(row) ==
    /\ row \notin table
    /\ table' = table \cup {row}
    /\ listing' = [c \in Reader |->
          IF Asked(c) /\ listing[c].total # None
          THEN [listing[c] EXCEPT !.shifted = TRUE] ELSE listing[c]]

\* The rows behind it move one place forward.
Remove(row) ==
    /\ row \in table
    /\ table' = table \ {row}
    /\ listing' = [c \in Reader |->
          IF Asked(c) THEN [listing[c] EXCEPT !.left = TRUE] ELSE listing[c]]

\* The rows between the two places move one place, back if the row moved forward.
Move(from, to) ==
    /\ from \in table /\ to \notin table
    /\ table' = (table \ {from}) \cup {to}
    /\ listing' = [c \in Reader |->
          IF Asked(c)
          THEN [listing[c] EXCEPT !.start = @ \ {from}, !.left = @ \/ from < to]
          ELSE listing[c]]

\* upsert_cors_policy, upsert_rate_limit_policy and upsert_tenant_runtime_profile;
\* one of an existing row keeps its place in the list.
UpsertPolicy(caller, row) ==
    /\ owner \in Tenant
    /\ RequireTenantAdmin(caller)
    /\ RequireUpsertTenantId(caller, owner)
    /\ Insert(row)

\* The places of one node, by region.
PlacesOf(row) == {x \in Row : x % NodeCount = row % NodeCount}

\* register_control_node: a node that is new, or comes from another environment,
\* enters the list; one that is registered again takes the place of its new region.
RegisterNode(caller, row) ==
    /\ RequireControlPlane(caller)
    /\ owner = "nodes"
    /\ \/ PlacesOf(row) \cap table = {} /\ Insert(row)
       \/ \E from \in PlacesOf(row) : Move(from, row)

\* ... or leaves the list, if its environment is no longer the one listed.
RegisterNodeElsewhere(caller, row) ==
    /\ RequireControlPlane(caller)
    /\ owner = "nodes"
    /\ Remove(row)

\* Only control nodes are ever deleted.
DeleteNode(caller, row) ==
    /\ RequireControlPlane(caller)
    /\ owner = "nodes"
    /\ Remove(row)

Next ==
    /\ \/ \E c \in Reader, caller \in Principal :
             \/ \E requested \in Tenant \cup {None} : ListPolicies(c, caller, requested)
             \/ ListControlNodes(c, caller)
       \/ \E c \in Reader : CountRows(c) \/ SelectPage(c)
       \/ \E caller \in Principal, row \in Row :
             \/ UpsertPolicy(caller, row) \/ RegisterNode(caller, row)
             \/ RegisterNodeElsewhere(caller, row) \/ DeleteNode(caller, row)
    /\ UNCHANGED owner

Spec == Init /\ [][Next]_vars

-----------------------------------------------------------------------------
\* A listing that came to its end has every row that was there at its first page,
\* although upserts, and nodes registered again in an earlier region, move rows to
\* later pages between the requests.  Left out are the nodes that moved, and the
\* listings in which a row overtook the COUNT of the last page and pushed one off
\* it, or a node that was deleted or registered again, in a later region or
\* another environment, moved one to a page already read (repository.rs
\* list_cors_policies_postgres, list_control_nodes_postgres and the other lists).
OffsetListingComplete ==
    \A c \in Reader :
        LET l == listing[c] IN
        (l # None /\ l.status = "done" /\ ~l.shifted /\ ~l.left) => l.start \subseteq l.got

\* The rows of a listing that are ahead of its next page have been received, and
\* a count that no row overtook still is the number of rows.
PagesSoFar(l) ==
    /\ (l.status = "open" /\ ~l.left) =>
          /\ l.start \subseteq table
          /\ \A x \in l.start : Ahead(table, x) < (l.page - 1) * ListSize => x \in l.got
          /\ (l.total # None /\ ~l.shifted) => l.total = Cardinality(table)
    /\ (l.status = "done" /\ ~l.shifted /\ ~l.left) => l.start \subseteq l.got

\* The inductive invariant.
IInv ==
    /\ TypeOK
    /\ \A c \in Reader : listing[c] # None => PagesSoFar(listing[c])

=============================================================================
