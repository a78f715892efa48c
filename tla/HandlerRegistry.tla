---------------------------- MODULE HandlerRegistry ----------------------------
(***************************************************************************)
(* The registry of semantic handlers and the contexts and editors that     *)
(* take copies of it (bethkit-semantic/src/handler.rs, context.rs).        *)
(*                                                                         *)
(* A handler is replaced whole: whoever installs a resolver or a table     *)
(* registers new instances of all handlers that use it, and an instance    *)
(* that uses two settings must be given both each time one changes.  A     *)
(* client calls the setters in any order, registers handlers of its own in *)
(* between, makes contexts, which install the table of their package, and  *)
(* opens editors, which install the load order of the source.              *)
(***************************************************************************)
EXTENDS Naturals

CONSTANTS
    LinkHandlers,      \* handlers that use the form link resolver alone
    ServiceHandlers,   \* handlers that have a resolver of their own
    PlainHandlers,     \* handlers without settings
    Resolvers,
    Tables,            \* condition function tables
    LoadOrders,
    CustomIds,         \* the handlers that the client replaces by its own
    Versions,          \* the versions of the client's own handlers
    MaxCalls,          \* the calls of a behaviour
    Packages,          \* schema packages
    Decoders,          \* the versions of the registered decoders
    Contexts,          \* names for contexts and editors
    Editors,
    None

TableHandlers == {"select.ctda_parameter", "format.ctda_function"}
Condition == "format.ctda_condition"
OffsetHandlers == {"migrate.remove_offset_data", "migrate.remove_worldspace_offset_data"}
Worldspace == "migrate.worldspace_after_load"
SortInfo == "edit.sort_info_group"
NamedHandlers == TableHandlers \cup OffsetHandlers \cup {Condition, Worldspace, SortInfo}

BuiltinIds == LinkHandlers \cup ServiceHandlers \cup PlainHandlers \cup NamedHandlers

ASSUME HandlerSetsAreDisjoint ==
    /\ LinkHandlers \cap (ServiceHandlers \cup PlainHandlers \cup NamedHandlers) = {}
    /\ ServiceHandlers \cap (PlainHandlers \cup NamedHandlers) = {}
    /\ PlainHandlers \cap NamedHandlers = {}

VARIABLES
    registry,     \* the client's registry
    configured,   \* what the client has set last, for each setting
    contexts,     \* contexts[c]: None or a context
    editors,      \* editors[e]: None or the handlers of an editor
    calls

registryVars == <<registry, configured, contexts, editors, calls>>

-----------------------------------------------------------------------------

\* An instance of a handler: the client's own, or built in with its settings.
Plain ==
    [custom |-> FALSE, version |-> 1, resolver |-> None, table |-> None,
     enabled |-> FALSE, loadOrder |-> None]

Custom(version) == [Plain EXCEPT !.custom = TRUE, !.version = version]

\* register for several handlers: each instance replaces the one of its id.
Register(reg, ids, instance) ==
    [reg EXCEPT !.handlers =
        [id \in DOMAIN reg.handlers \cup ids |->
            IF id \in ids THEN instance ELSE reg.handlers[id]]]

\* set_resource_hash_resolver, set_next_object_id_resolver,
\* set_wwise_guid_resolver.
SetService(reg, id, resolver) == Register(reg, {id}, [Plain EXCEPT !.resolver = resolver])

SetRemoveOffsetData(reg, enabled) ==
    LET flagged == [Plain EXCEPT !.enabled = enabled]
        set == [reg EXCEPT !.removeOffsetData = enabled]
    IN  Register(set, OffsetHandlers \cup {Worldspace}, flagged)

SetSortInfo(reg, enabled) ==
    Register([reg EXCEPT !.sortInfo = enabled], {SortInfo}, [Plain EXCEPT !.enabled = enabled])

SetWorldspaceSourceFileLoadOrder(reg, loadOrder) ==
    Register(reg, {Worldspace},
             [Plain EXCEPT !.enabled = reg.removeOffsetData, !.loadOrder = loadOrder])

SetFormLinkResolver(reg, resolver) ==
    LET set == [reg EXCEPT !.resolver = resolver]
        linked == Register(set, LinkHandlers, [Plain EXCEPT !.resolver = resolver])
    IN  Register(linked, {Condition},
                 [Plain EXCEPT !.table = reg.table, !.resolver = resolver])

\* Mutant: the condition formatter gets the table without the resolver.
SetTableOnly(reg, table) ==
    LET set == [reg EXCEPT !.table = table] IN
    Register(set, TableHandlers \cup {Condition}, [Plain EXCEPT !.table = table])

SetConditionFunctionTable(reg, table) ==
    LET set == [reg EXCEPT !.table = table]
        tabled == Register(set, TableHandlers, [Plain EXCEPT !.table = table])
    IN  Register(tabled, {Condition},
                 [Plain EXCEPT !.table = table, !.resolver = reg.resolver])

\* builtin: every handler without its settings, then the two options.
NewRegistry ==
    [handlers |-> [id \in {} |-> Plain], table |-> None, resolver |-> None,
     removeOffsetData |-> FALSE, sortInfo |-> FALSE]

Builtin ==
    SetSortInfo(SetRemoveOffsetData(Register(NewRegistry, BuiltinIds, Plain), TRUE), TRUE)

Require(reg, id, minimum) ==
    id \in DOMAIN reg.handlers /\ reg.handlers[id].version >= minimum

-----------------------------------------------------------------------------

\* What is configured before any call.
Defaults ==
    [resolver |-> None, table |-> None, removeOffsetData |-> TRUE, sortInfo |-> TRUE,
     loadOrder |-> None, services |-> [id \in ServiceHandlers |-> None]]

\* new_with_handlers: the registry with the package's own table, if it has one,
\* when the package's requirements are met.
Installed(reg, package) ==
    IF package.table = None THEN reg ELSE SetConditionFunctionTable(reg, package.table)

MeetsRequirements(reg, package) ==
    /\ package.worldspaces => Require(reg, "migrate.remove_worldspace_offset_data", 1)
    /\ \A d \in DOMAIN package.decoders :
           d \in DOMAIN Decoders /\ Decoders[d] >= package.decoders[d]
    /\ \A id \in DOMAIN package.handlers : Require(reg, id, package.handlers[id])

InstalledSettings(settings, package) ==
    IF package.table = None THEN settings ELSE [settings EXCEPT !.table = package.table]

Init ==
    /\ registry = Builtin
    /\ configured = Defaults
    /\ contexts = [c \in Contexts |-> None]
    /\ editors = [e \in Editors |-> None]
    /\ calls = 0

\* The client's calls on its registry.
RegisterCustom(id, version) ==
    /\ registry' = Register(registry, {id}, Custom(version))
    /\ UNCHANGED <<configured, contexts, editors>>

ConfigureService(id, resolver) ==
    /\ registry' = SetService(registry, id, resolver)
    /\ configured' = [configured EXCEPT !.services[id] = resolver]
    /\ UNCHANGED <<contexts, editors>>

ConfigureResolver(resolver) ==
    /\ registry' = SetFormLinkResolver(registry, resolver)
    /\ configured' = [configured EXCEPT !.resolver = resolver]
    /\ UNCHANGED <<contexts, editors>>

ConfigureTable(table) ==
    /\ registry' = SetConditionFunctionTable(registry, table)
    /\ configured' = [configured EXCEPT !.table = table]
    /\ UNCHANGED <<contexts, editors>>

ConfigureRemoval(enabled) ==
    /\ registry' = SetRemoveOffsetData(registry, enabled)
    /\ configured' = [configured EXCEPT !.removeOffsetData = enabled]
    /\ UNCHANGED <<contexts, editors>>

ConfigureSorting(enabled) ==
    /\ registry' = SetSortInfo(registry, enabled)
    /\ configured' = [configured EXCEPT !.sortInfo = enabled]
    /\ UNCHANGED <<contexts, editors>>

\* A context takes a copy of a registry; a refused one is not made.
MakeContext(c, package, reg, settings) ==
    /\ MeetsRequirements(Installed(reg, package), package)
    /\ contexts' = [contexts EXCEPT ![c] =
           [package |-> package, registry |-> Installed(reg, package),
            configured |-> InstalledSettings(settings, package)]]
    /\ UNCHANGED <<registry, configured, editors>>

NewContext(c, package) == MakeContext(c, package, registry, configured)

\* edit_info_previous makes a context of the same package that sorts nothing.
SortlessContext(c, d) ==
    /\ contexts[d] # None
    /\ MakeContext(c, contexts[d].package, SetSortInfo(contexts[d].registry, FALSE),
                   [contexts[d].configured EXCEPT !.sortInfo = FALSE])

\* An editor takes the handlers of its context, with the load order of the
\* source file if the caller knows it.
OpenEditor(e, c, loadOrder) ==
    /\ contexts[c] # None
    /\ editors' = [editors EXCEPT ![e] =
           [package |-> contexts[c].package,
            registry |-> IF loadOrder = None THEN contexts[c].registry
                         ELSE SetWorldspaceSourceFileLoadOrder(contexts[c].registry, loadOrder),
            configured |-> [contexts[c].configured EXCEPT !.loadOrder = loadOrder]]]
    /\ UNCHANGED <<registry, configured, contexts>>

Call ==
    \/ \E id \in CustomIds, version \in Versions : RegisterCustom(id, version)
    \/ \E id \in ServiceHandlers, resolver \in Resolvers : ConfigureService(id, resolver)
    \/ \E resolver \in Resolvers : ConfigureResolver(resolver)
    \/ \E table \in Tables : ConfigureTable(table)
    \/ \E enabled \in BOOLEAN : ConfigureRemoval(enabled)
    \/ \E enabled \in BOOLEAN : ConfigureSorting(enabled)
    \/ \E c \in Contexts, package \in Packages : NewContext(c, package)
    \/ \E c, d \in Contexts : SortlessContext(c, d)
    \/ \E e \in Editors, c \in Contexts, loadOrder \in LoadOrders \cup {None} :
           OpenEditor(e, c, loadOrder)

RegistryNext ==
    /\ calls < MaxCalls
    /\ calls' = calls + 1
    /\ Call

RegistrySpec == Init /\ [][RegistryNext]_registryVars

-----------------------------------------------------------------------------

\* The instance of a built-in handler under the given settings.
Expected(id, settings) ==
    [custom |-> FALSE,
     version |-> 1,
     resolver |-> IF id \in LinkHandlers \cup {Condition} THEN settings.resolver
                  ELSE IF id \in ServiceHandlers THEN settings.services[id]
                  ELSE None,
     table |-> IF id \in TableHandlers \cup {Condition} THEN settings.table ELSE None,
     enabled |-> IF id \in OffsetHandlers \cup {Worldspace} THEN settings.removeOffsetData
                 ELSE IF id = SortInfo THEN settings.sortInfo
                 ELSE FALSE,
     loadOrder |-> IF id = Worldspace THEN settings.loadOrder ELSE None]

\* Every built-in instance in the registry has the settings.
Follows(reg, settings) ==
    \A id \in BuiltinIds :
        ~reg.handlers[id].custom => reg.handlers[id] = Expected(id, settings)

\* Whatever the order of the calls, every built-in handler of the registry, of
\* a context and of an editor has the settings that were made last, its
\* package's table before any other, and the load order of its own source
\* (the setters, handler.rs:1456-1654; RecordEditor::new, editor.rs:101).
HandlersFollowTheirSettings ==
    /\ Follows(registry, configured)
    /\ \A c \in Contexts :
           contexts[c] # None => Follows(contexts[c].registry, contexts[c].configured)
    /\ \A e \in Editors :
           editors[e] # None => Follows(editors[e].registry, editors[e].configured)

\* The handlers that a package requires are there in a version that will do.
MeetsVersions(reg, package, except) ==
    \A id \in DOMAIN package.handlers \ except :
        id \in DOMAIN reg.handlers /\ reg.handlers[id].version >= package.handlers[id]

\* A context keeps the handlers its package requires, in the version that it
\* requires, whichever were registered, replaced or set before; so does an
\* editor, but for the worldspace handler that its load order replaces.
RequirementsStayMet ==
    /\ \A c \in Contexts :
           contexts[c] # None => MeetsVersions(contexts[c].registry, contexts[c].package, {})
    /\ \A e \in Editors :
           editors[e] # None =>
               MeetsVersions(editors[e].registry, editors[e].package,
                             IF editors[e].configured.loadOrder = None THEN {} ELSE {Worldspace})

\* What a client has configured, and what its packages require, holds in every
\* copy of the registry that it has made since.
RegistryIsConsistent == HandlersFollowTheirSettings /\ RequirementsStayMet
=============================================================================
