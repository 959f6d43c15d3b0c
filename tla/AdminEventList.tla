---------------------------- MODULE AdminEventList ----------------------------
(***************************************************************************)
(* The audit and security event lists of the admin API: the permission gate *)
(* of the route (policies.rs), the tenant scope of the handler              *)
(* (tenant_scope.rs) and keyset paging (handlers.rs, repository.rs,         *)
(* pagination.rs) while events are written and purged.  A client asks for   *)
(* page after page; every page is a request of its own.                     *)
(***************************************************************************)
EXTENDS Integers, FiniteSetsExt

CONSTANTS
    Tenant,    \* tenants
    Client,    \* clients that page through a list
    PageSize,  \* validated_keyset_page_size
    MaxId,     \* bound of the model: events
    None

VARIABLES
    lastId,   \* the last id handed out
    writing,  \* events whose INSERT has its id and is not committed yet
    events,   \* committed rows
    session   \* each client's listing

vars == <<lastId, writing, events, session>>

List == {"audit", "security"}
Permission == {"tenant.admin", "platform.read", "control-plane"}
Event == [id : 1..MaxId, tenant : Tenant \cup {None}]

Principal == [tenant : Tenant, permissions : SUBSET Permission]
Query == [list : List, tenant : Tenant \cup {None}]

\* cursor 0 asks for the first page.  History: `start`, the rows in scope at the
\* first page; `got`, the rows received; `twice`, a row was received again.
Session == [caller : Principal, query : Query, cursor : 0..MaxId,
            status : {"open", "done", "forbidden"},
            start : SUBSET Event, got : SUBSET Event, twice : BOOLEAN]

TypeOK ==
    /\ lastId \in 0..MaxId
    /\ writing \subseteq Event /\ events \subseteq Event
    /\ session \in [Client -> Session \cup {None}]

Init == lastId = 0 /\ writing = {} /\ events = {} /\ session = [c \in Client |-> None]

-------------------------------------------------------------------------------
(* Who may see what. *)

\* manifest.rs: the permission of the route.
RequiredPermission(list) == IF list = "audit" THEN "tenant.admin" ELSE "control-plane"

\* ManifestAuthorizationPolicy::authorize looks at the required permission only,
\* not at the alternates of the audit route (platform.read).
Authorize(caller, list) == RequiredPermission(list) \in caller.permissions

\* Broken variant: the requested tenant is not compared with the caller's.
AuditScopeUnchecked(caller, requested) ==
    IF "tenant.admin" \notin caller.permissions THEN {}
    ELSE IF requested # None THEN {requested}
    ELSE IF "platform.read" \in caller.permissions THEN Tenant \cup {None}
    ELSE {caller.tenant}

\* resolve_audit_event_list_scope: the tenants whose rows are listed, {} for an error.
AuditScope(caller, requested) ==
    IF "tenant.admin" \notin caller.permissions THEN {}
    ELSE IF "platform.read" \in caller.permissions
         THEN IF requested # None THEN {requested} ELSE Tenant \cup {None}
    ELSE IF requested \in {None, caller.tenant} THEN {caller.tenant} ELSE {}

\* resolve_security_event_list_scope.
SecurityScope(caller, requested) ==
    IF "control-plane" \notin caller.permissions THEN {}
    ELSE IF requested # None THEN {requested} ELSE Tenant \cup {None}

Scope(caller, query) ==
    IF ~Authorize(caller, query.list) THEN {}
    ELSE IF query.list = "audit" THEN AuditScope(caller, query.tenant)
    ELSE SecurityScope(caller, query.tenant)

-------------------------------------------------------------------------------
(* Paging. *)

InScope(scope) == {e \in events : e.tenant \in scope}

\* WHERE tenant_id = ... AND id < cursor
AfterCursor(scope, cursor) == {e \in InScope(scope) : cursor = 0 \/ e.id < cursor}

\* The n rows with the largest ids (ORDER BY id DESC LIMIT n).
Above(rows, e) == {f \in rows : f.id > e.id}
Newest(rows, n) == {e \in rows : Cardinality(Above(rows, e)) < n}

\* Broken variant: LIMIT page_size.
FetchedPageOnly(rows) == Newest(rows, PageSize)

Fetched(rows) == Newest(rows, PageSize + 1)

\* from_limit_plus_one and next_cursor_from_last_id.
NextPage(c) ==
    LET s == session[c]
        scope == Scope(s.caller, s.query)
        rows == Fetched(AfterCursor(scope, s.cursor))
        more == Cardinality(rows) > PageSize
        items == Newest(rows, PageSize)
    IN /\ s # None
       /\ s.status = "open"
       /\ session' = [session EXCEPT ![c] =
             IF scope = {} THEN [s EXCEPT !.status = "forbidden"]
             ELSE [s EXCEPT !.cursor = IF more THEN Min({e.id : e \in items}) ELSE @,
                            !.status = IF more THEN "open" ELSE "done",
                            !.start = IF s.cursor = 0 THEN InScope(scope) ELSE @,
                            !.got = @ \cup items,
                            !.twice = @ \/ items \cap s.got # {}]]
       /\ UNCHANGED <<lastId, writing, events>>

StartListing(c, caller, query) ==
    /\ session[c] = None
    /\ session' = [session EXCEPT ![c] =
          [caller |-> caller, query |-> query, cursor |-> 0, status |-> "open",
           start |-> {}, got |-> {}, twice |-> FALSE]]
    /\ UNCHANGED <<lastId, writing, events>>

-------------------------------------------------------------------------------
(* Emitters: ids are handed out in order and committed in any order. *)

StartInsert(tenant) ==
    /\ lastId < MaxId
    /\ lastId' = lastId + 1
    /\ writing' = writing \cup {[id |-> lastId + 1, tenant |-> tenant]}
    /\ UNCHANGED <<events, session>>

CommitInsert(e) ==
    /\ e \in writing
    /\ writing' = writing \ {e}
    /\ events' = events \cup {e}
    /\ UNCHANGED <<lastId, session>>

\* The throttled purge: the rows up to some age.
Purge(id) ==
    /\ \E e \in events : e.id <= id
    /\ events' = {e \in events : e.id > id}
    /\ UNCHANGED <<lastId, writing, session>>

Next ==
    \/ \E c \in Client :
          NextPage(c) \/ \E caller \in Principal, query \in Query : StartListing(c, caller, query)
    \/ \E tenant \in Tenant \cup {None} : StartInsert(tenant)
    \/ \E e \in writing : CommitInsert(e)
    \/ \E id \in 1..MaxId : Purge(id)

Spec == Init /\ [][Next]_vars

-------------------------------------------------------------------------------
Sessions == {session[c] : c \in {d \in Client : session[d] # None}}

\* A tenant admin without platform read never receives rows of another tenant
\* or of none, and nobody receives security events without the control-plane
\* permission (tenant_scope.rs, AuditEventListScope and SecurityEventListScope).
TenantIsolation ==
    \A s \in Sessions : \A e \in s.got :
        /\ s.query.list = "audit" =>
              ("platform.read" \in s.caller.permissions \/ e.tenant = s.caller.tenant)
        /\ s.query.list = "security" => "control-plane" \in s.caller.permissions

\* A listing that came to its end returned every row that was in its scope at
\* the first page and still exists, and no listing returns a row twice, although
\* events were committed, out of id order, and purged between the pages
\* (pagination.rs RepoKeysetPage).
CompleteListing ==
    \A s \in Sessions :
        /\ ~s.twice
        /\ s.status = "done" => (s.start \cap events) \subseteq s.got

\* Ids are handed out in order; a row is being written or committed, not both.
RowsAreWritten ==
    /\ IsFiniteSet(events)
    /\ events \cap writing = {}
    /\ \A e \in events \cup writing : e.id <= lastId

\* What a listing has and where it goes on: everything it started with, down to
\* the cursor, as far as it still exists.
PagesSoFar(s) ==
    /\ \A e \in s.start \cup s.got : e.tenant \in Scope(s.caller, s.query)
    /\ ~s.twice
    /\ s.start \cap writing = {}
    /\ \A e \in s.start : e.id <= lastId
    /\ (s.status = "open" /\ s.cursor = 0) => s.got = {}
    /\ (s.status = "open" /\ s.cursor # 0) =>
          /\ \A e \in s.got : e.id >= s.cursor
          /\ \A e \in s.start \cap events : e.id >= s.cursor => e \in s.got
    /\ s.status = "done" => (s.start \cap events) \subseteq s.got

\* The inductive invariant.
IInv ==
    /\ TypeOK
    /\ RowsAreWritten
    /\ \A c \in Client : session[c] # None => PagesSoFar(session[c])

===============================================================================
