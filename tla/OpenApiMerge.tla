----------------------------- MODULE OpenApiMerge -----------------------------
(***************************************************************************)
(* The merge of the OpenAPI documents of several owners into one            *)
(* (sdkwork-web-contract openapi_merge.rs).                                 *)
(*                                                                         *)
(* A document is [version, shaped, entries]: version is [text, line, patch],*)
(* shaped says that every part has the JSON type the merge expects, and     *)
(* entries maps a key to its JSON value.  A key is [section, path, name]:   *)
(* the section decides what happens when two documents have the same key.   *)
(* The merge state is [ok, version, entries], with entries [owner, value];  *)
(* ok is FALSE once a document was refused.                                 *)
(***************************************************************************)
EXTENDS Naturals, Sequences, SequencesExt

CONSTANTS
    NoDocument,  \* the version of a merge before its first document
    Conflict     \* a merge that was refused

\* What happens to a key of each section that is there already: "unique" refuses
\* it, "equal" refuses another value, "first" keeps what is there; requirements
\* ("union") are keys of their own.

\* The title is the combined one; the version and description are the first.
MergeInfo == [infoField |-> "equal", infoVersion |-> "first", infoExtension |-> "first"]

\* An operation belongs to one owner; the other fields of a path item are shared.
PathRules == [operation |-> "unique", pathItem |-> "equal"]

\* Components by name, whatever they say; extensions must agree.
ComponentRules == [component |-> "first", componentExtension |-> "equal"]

MergeTags == [tag |-> "equal"]

\* Servers by URL.
MergeServers == [server |-> "first"]

MergeSecurity == [security |-> "union"]

MergeWebhooks == [webhook |-> "equal"]

MergeTopLevelValue == [topLevel |-> "equal", documentExtension |-> "first"]

Rule(section) ==
    LET rules == CHOOSE r \in {MergeInfo, PathRules, ComponentRules, MergeTags, MergeServers, MergeSecurity,
                               MergeWebhooks, MergeTopLevelValue} : section \in DOMAIN r
    IN rules[section]

OwnedEntries(owner, entries) == [k \in DOMAIN entries |-> [owner |-> owner, value |-> entries[k]]]

-------------------------------------------------------------------------------
\* Versions: the text, and the line (major.minor) and patch it parses to.  A patch
\* that is missing or not a number is 0 ("3.1" and "3.1.0" have one rank); a
\* version that does not parse is the line of its own text, with patch 0.

OpenApiSameMinorLine(left, right) == left.line = right.line

OpenApiVersionRank(version) == version.patch

\* Broken variant: the last document decides.
LastVersion(existing, version) == version

\* The higher patch of one line; of equal patches the text that was first.
MergeOpenApiVersion(existing, version) ==
    IF existing = NoDocument \/ OpenApiVersionRank(version) > OpenApiVersionRank(existing)
    THEN version ELSE existing

-------------------------------------------------------------------------------
\* Entries.

MergePaths(merged, entries) ==
    \A k \in DOMAIN entries \cap DOMAIN merged : Rule(k.section) # "unique"

MergeCompatibleValue(merged, entries) ==
    \A k \in DOMAIN entries \cap DOMAIN merged : Rule(k.section) = "equal" => merged[k].value = entries[k]

\* Where both have a key, the first definition stays.
FirstOf(first, second) ==
    [k \in DOMAIN first \cup DOMAIN second |-> IF k \in DOMAIN first THEN first[k] ELSE second[k]]

MergeComponents(merged, owner, entries) == FirstOf(merged, OwnedEntries(owner, entries))

\* Every part is the object, array or string it must be.
WellShaped(document) == document.shaped

MergeDocument(merged, owner, document) ==
    IF /\ merged.ok /\ WellShaped(document)
       /\ merged.version = NoDocument \/ OpenApiSameMinorLine(merged.version, document.version)
       /\ MergePaths(merged.entries, document.entries)
       /\ MergeCompatibleValue(merged.entries, document.entries)
    THEN [ok |-> TRUE, version |-> MergeOpenApiVersion(merged.version, document.version),
          entries |-> MergeComponents(merged.entries, owner, document.entries)]
    ELSE [merged EXCEPT !.ok = FALSE]

\* The merge after each of the contributions, a sequence of [owner, document].
MergedUpTo(contributions) ==
    LET merged[n \in 0..Len(contributions)] ==
            IF n = 0 THEN [ok |-> TRUE, version |-> NoDocument, entries |-> <<>>]
            ELSE MergeDocument(merged[n - 1], contributions[n].owner, contributions[n].document)
    IN merged

\* The combined document with the owner each entry came from.
MergeOwnedDocuments(contributions) == MergedUpTo(contributions)[Len(contributions)]

\* The document without the owners; no document at all is refused.
Materialize(merged) ==
    IF ~merged.ok \/ merged.version = NoDocument THEN Conflict
    ELSE [version |-> merged.version, shaped |-> TRUE,
          entries |-> [k \in DOMAIN merged.entries |-> merged.entries[k].value]]

MergeOpenApiDocuments(contributions) == Materialize(MergeOwnedDocuments(contributions))

===============================================================================
