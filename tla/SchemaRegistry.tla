---------------------------- MODULE SchemaRegistry ----------------------------
(***************************************************************************)
(* Composition of an application's table registry from its own tables and   *)
(* the registries of the modules it depends on, and of its frontend         *)
(* contract from fragments (sdkwork-web-schema-registry).  Files come and   *)
(* go between two compositions.                                             *)
(*                                                                         *)
(* A table is a function from the keys its YAML declares to their values;   *)
(* "table" is its name.                                                     *)
(***************************************************************************)
EXTENDS Integers, Sequences, SequencesExt, FiniteSetsExt

CONSTANTS
    Module,      \* dependency modules, in the order of their ids
    ModuleOrder, \* the order a dependency declares, by module
    Registries,  \* what the registry of a module can hold: sequences of tables
    AppTables,   \* what the application's own registry can hold
    Require,     \* require_dependency_registries
    Fragments,   \* frontend fragments: functions from sections to content
    MaxFragments,
    MissingFile, Invalid

VARIABLES
    files,     \* the registry of each module, or MissingFile
    app,       \* the application's own tables, inline and from its fragments
    composed,  \* the registry composed last, or Invalid
    index,     \* the fragments the frontend index lists
    frontend   \* the contract compiled last, or Invalid

vars == <<files, app, composed, index, frontend>>

MetadataKeys == {"schema", "version", "source", "rule"}
ListSections == {"frontend_models", "frontend_operations", "routes"}
MappingSections == {"x_response_entities"}

Declared(table, key, default) == IF key \in DOMAIN table THEN table[key] ELSE default

\* A mapping with further entries, which replace those of the same key.
Insert(mapping, entries) ==
    [k \in DOMAIN mapping \cup DOMAIN entries |-> IF k \in DOMAIN entries THEN entries[k] ELSE mapping[k]]

-------------------------------------------------------------------------------
\* compose_schema_registry

\* By the order they declare, then by id.
ParseRegistryDependencies(modules) ==
    LET Before(i, j) == \/ ModuleOrder[modules[i]] < ModuleOrder[modules[j]]
                        \/ ModuleOrder[modules[i]] = ModuleOrder[modules[j]] /\ i < j
        sorted == CHOOSE p \in Bijection(DOMAIN modules, DOMAIN modules) :
                    \A i, j \in DOMAIN modules : i < j => Before(p[i], p[j])
    IN [i \in DOMAIN modules |-> modules[sorted[i]]]

AnnotateTable(table, module) ==
    Insert(table, IF module = MissingFile THEN [imported |-> FALSE]
                  ELSE [imported |-> TRUE, generated_by_this_project |-> FALSE, imported_from_module |-> module])

TableName(table) == table["table"]

\* Only the keys are compared, not what they say.
NormalizeTable(table) == DOMAIN table \ {"imported", "imported_from_module"}

TableMatches(left, right) == NormalizeTable(left) = NormalizeTable(right)

\* The tables of one module, which no module before it may have declared.
AddTables(tables, m) ==
    LET names == [i \in DOMAIN files[m] |-> TableName(files[m][i])] IN
    IF \/ tables = Invalid \/ \E i \in DOMAIN names : names[i] \in DOMAIN tables
       \/ ~IsInjective(names)
    THEN Invalid
    ELSE Insert(tables, [n \in Range(names) |->
                            AnnotateTable(files[m][CHOOSE i \in DOMAIN names : names[i] = n], m)])

LoadedUpTo(order) ==
    LET loaded[n \in 0..Len(order)] ==
            IF n = 0 THEN <<>>
            ELSE IF files[order[n]] # MissingFile THEN AddTables(loaded[n - 1], order[n])
            ELSE IF Require THEN Invalid ELSE loaded[n - 1]
    IN loaded

\* The tables of every module that has a registry, by name; Invalid when a
\* registry is missed or two modules declare one table.
LoadDependencyTables == LoadedUpTo(ParseRegistryDependencies(Module))[Len(Module)]

\* A table of a dependency may be repeated only as what it is.
ValidateAssemblyTables(dependencies, tables) ==
    \A i \in DOMAIN tables : TableName(tables[i]) \in DOMAIN dependencies =>
        \/ Declared(tables[i], "imported", FALSE)
        \/ ~Declared(tables[i], "generated_by_this_project", TRUE) /\ ~Declared(tables[i], "system_of_record", TRUE)
        \/ Declared(tables[i], "source_refs", <<>>) # <<>>

\* Broken variant: the application's definition replaces the one that is there.
MergeTableLast(effective, table) ==
    IF effective = Invalid THEN Invalid
    ELSE IF TableName(table) \in DOMAIN effective /\ ~TableMatches(effective[TableName(table)], table) THEN Invalid
    ELSE Insert(effective, [n \in {TableName(table)} |-> AnnotateTable(table, MissingFile)])

\* A table that is already there keeps its first definition.
MergeTable(effective, table) ==
    IF effective = Invalid THEN Invalid
    ELSE IF TableName(table) \in DOMAIN effective
    THEN IF TableMatches(effective[TableName(table)], table) THEN effective ELSE Invalid
    ELSE Insert(effective, [n \in {TableName(table)} |-> AnnotateTable(table, MissingFile)])

EffectiveUpTo(dependencies) ==
    LET effective[n \in 0..Len(app)] ==
            IF n = 0 THEN dependencies ELSE MergeTable(effective[n - 1], app[n])
    IN effective

ComposeSchemaRegistry ==
    LET dependencies == LoadDependencyTables IN
    IF dependencies = Invalid \/ ~ValidateAssemblyTables(dependencies, app) THEN Invalid
    ELSE EffectiveUpTo(dependencies)[Len(app)]

Compose ==
    /\ composed' = ComposeSchemaRegistry
    /\ UNCHANGED <<files, app, index, frontend>>

-------------------------------------------------------------------------------
\* compose_frontend_field_contract

\* Metadata is the index's own; lists grow; a mapping key or another section may
\* come from one fragment only.
MergeFragment(compiled, fragment) ==
    LET sections == DOMAIN fragment \ MetadataKeys
        Other == sections \ (ListSections \cup MappingSections)
    IN IF \/ compiled = Invalid
          \/ \E s \in sections \cap MappingSections : DOMAIN compiled[s] \cap DOMAIN fragment[s] # {}
          \/ Other \cap DOMAIN compiled # {}
       THEN Invalid
       ELSE Insert(compiled, [s \in sections |->
                CASE s \in ListSections -> compiled[s] \o fragment[s]
                  [] s \in MappingSections -> Insert(compiled[s], fragment[s])
                  [] OTHER -> fragment[s]])

CompiledUpTo(fragments) ==
    LET compiled[n \in 0..Len(fragments)] ==
            IF n = 0 THEN [s \in ListSections \cup MappingSections |-> <<>>]
            ELSE MergeFragment(compiled[n - 1], fragments[n])
    IN compiled

\* The index must list fragments, each once.
ComposeFrontendFieldContract(fragments) ==
    IF fragments = <<>> \/ ~IsInjective(fragments) THEN Invalid
    ELSE CompiledUpTo(fragments)[Len(fragments)]

ComposeFrontend ==
    /\ frontend' = ComposeFrontendFieldContract(index)
    /\ UNCHANGED <<files, app, composed, index>>

-------------------------------------------------------------------------------
\* The files change; what was composed before is out of date.

EditFile ==
    /\ \E m \in Range(Module), tables \in Registries \cup {MissingFile} : files' = [files EXCEPT ![m] = tables]
    /\ composed' = Invalid
    /\ UNCHANGED <<app, index, frontend>>

EditIndex ==
    /\ \E list \in SeqOf(Fragments, MaxFragments) : index' = list
    /\ frontend' = Invalid
    /\ UNCHANGED <<files, app, composed>>

Init ==
    /\ files \in [Range(Module) -> Registries \cup {MissingFile}]
    /\ app \in AppTables
    /\ composed = Invalid /\ index = <<>> /\ frontend = Invalid

Next == Compose \/ ComposeFrontend \/ EditFile \/ EditIndex

-------------------------------------------------------------------------------
\* Properties.

\* The entries the first fragments list in a section.
ListedUpTo(fragments, s) ==
    LET listed[n \in 0..Len(fragments)] ==
            IF n = 0 THEN 0 ELSE listed[n - 1] + Len(Declared(fragments[n], s, <<>>))
    IN listed

\* The tables this project generates and those its dependencies own are told
\* apart: whatever the application declares itself, a table of a registry that is
\* there appears in the composed registry as its module defines it, marked as
\* imported from it, and never as generated here; and a compiled contract has
\* every list entry of its fragments (composer.rs, frontend.rs).
OwnersKeepTheirTables ==
    /\ composed # Invalid => \A m \in Range(Module) : files[m] # MissingFile =>
        \A i \in DOMAIN files[m] :
            LET table == composed[TableName(files[m][i])] IN
            /\ Declared(table, "imported_from_module", MissingFile) = m
            /\ ~Declared(table, "generated_by_this_project", TRUE)
            /\ \A k \in DOMAIN files[m][i] \ {"imported", "imported_from_module", "generated_by_this_project"} :
                table[k] = files[m][i][k]
    /\ composed # Invalid => \A i \in DOMAIN app : TableName(app[i]) \in DOMAIN composed
    /\ frontend # Invalid => \A s \in ListSections :
        Len(frontend[s]) = ListedUpTo(index, s)[Len(index)]

-------------------------------------------------------------------------------
\* The inductive invariant: what was composed last is what the files still say.

TypeOK ==
    /\ files \in [Range(Module) -> Registries \cup {MissingFile}]
    /\ app \in AppTables
    /\ index \in SeqOf(Fragments, MaxFragments)

ComposedIsCurrent == composed # Invalid => composed = ComposeSchemaRegistry

FrontendIsCurrent == frontend # Invalid => frontend = ComposeFrontendFieldContract(index)

IInv == TypeOK /\ ComposedIsCurrent /\ FrontendIsCurrent

===============================================================================
