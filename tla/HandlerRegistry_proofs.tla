------------------------- MODULE HandlerRegistry_proofs -------------------------
(***************************************************************************)
(* Proofs about HandlerRegistry for every set of handlers, settings and    *)
(* packages.                                                               *)
(***************************************************************************)
EXTENDS HandlerRegistry, TLAPS

\* What a setting, an instance, a registry and its configuration may be.
Ids == BuiltinIds \cup CustomIds
ResolverValues == Resolvers \cup {None}
TableValues == Tables \cup {None} \cup {package.table : package \in Packages}

Instances ==
    [custom : BOOLEAN, version : Versions \cup {1}, resolver : ResolverValues,
     table : TableValues, enabled : BOOLEAN, loadOrder : LoadOrders \cup {None}]

Registries ==
    [handlers : UNION {[BuiltinIds \cup ids -> Instances] : ids \in SUBSET CustomIds},
     table : TableValues, resolver : ResolverValues,
     removeOffsetData : BOOLEAN, sortInfo : BOOLEAN]

Settings ==
    [resolver : ResolverValues, table : TableValues, removeOffsetData : BOOLEAN,
     sortInfo : BOOLEAN, loadOrder : LoadOrders \cup {None},
     services : [ServiceHandlers -> ResolverValues]]

Copies == [package : Packages, registry : Registries, configured : Settings]

\* The registry, every context and every editor is of its type.
TypeOK ==
    /\ registry \in Registries
    /\ configured \in Settings
    /\ contexts \in [Contexts -> Copies \cup {None}]
    /\ editors \in [Editors -> Copies \cup {None}]

\* What a later setter reads from a registry is what was configured, and its
\* built-in instances have the settings.
Settled(reg, settings) ==
    /\ reg.table = settings.table
    /\ reg.resolver = settings.resolver
    /\ reg.removeOffsetData = settings.removeOffsetData
    /\ reg.sortInfo = settings.sortInfo
    /\ Follows(reg, settings)

(***************************************************************************)
(* The inductive invariant: the registry and all contexts are settled, and *)
(* none of them has a load order, which only an editor is given.           *)
(***************************************************************************)
Inv ==
    /\ TypeOK
    /\ Settled(registry, configured) /\ configured.loadOrder = None
    /\ \A c \in Contexts : contexts[c] # None =>
           /\ Settled(contexts[c].registry, contexts[c].configured)
           /\ contexts[c].configured.loadOrder = None
    /\ \A e \in Editors : editors[e] # None =>
           Settled(editors[e].registry, editors[e].configured)
    /\ RequirementsStayMet

-----------------------------------------------------------------------------
\* Registering an instance keeps the type of a registry.
LEMMA RegisterTyped ==
    ASSUME NEW reg \in Registries, NEW ids \in SUBSET Ids, NEW instance \in Instances
    PROVE  Register(reg, ids, instance) \in Registries
<1>. DEFINE handlers == [id \in DOMAIN reg.handlers \cup ids |->
                            IF id \in ids THEN instance ELSE reg.handlers[id]]
<1>1. PICK own \in SUBSET CustomIds : reg.handlers \in [BuiltinIds \cup own -> Instances]
  BY DEF Registries
<1>2. DOMAIN handlers = BuiltinIds \cup (own \cup (ids \cap CustomIds))
  BY <1>1 DEF Ids
<1>3. handlers \in [BuiltinIds \cup (own \cup (ids \cap CustomIds)) -> Instances]
  BY <1>1, <1>2
<1>4. handlers \in UNION {[BuiltinIds \cup more -> Instances] : more \in SUBSET CustomIds}
  BY <1>3
<1>5. [reg EXCEPT !.handlers = handlers] \in Registries
  BY <1>4 DEF Registries
<1>. QED
  BY <1>5 DEF Register

\* It gives the instance to the named handlers and leaves everything else.
LEMMA RegisterReplaces ==
    ASSUME NEW reg \in Registries, NEW ids, NEW instance
    PROVE  /\ Register(reg, ids, instance).table = reg.table
           /\ Register(reg, ids, instance).resolver = reg.resolver
           /\ Register(reg, ids, instance).removeOffsetData = reg.removeOffsetData
           /\ Register(reg, ids, instance).sortInfo = reg.sortInfo
           /\ \A id \in BuiltinIds \cap ids :
                  Register(reg, ids, instance).handlers[id] = instance
           /\ \A id \in BuiltinIds \ ids :
                  Register(reg, ids, instance).handlers[id] = reg.handlers[id]
<1>. DEFINE handlers == [id \in DOMAIN reg.handlers \cup ids |->
                            IF id \in ids THEN instance ELSE reg.handlers[id]]
<1>1. PICK own \in SUBSET CustomIds : reg.handlers \in [BuiltinIds \cup own -> Instances]
  BY DEF Registries
<1>2. /\ \A id \in BuiltinIds \cap ids : handlers[id] = instance
      /\ \A id \in BuiltinIds \ ids : handlers[id] = reg.handlers[id]
  BY <1>1
<1>3. /\ [reg EXCEPT !.handlers = handlers].handlers = handlers
      /\ [reg EXCEPT !.handlers = handlers].table = reg.table
      /\ [reg EXCEPT !.handlers = handlers].resolver = reg.resolver
      /\ [reg EXCEPT !.handlers = handlers].removeOffsetData = reg.removeOffsetData
      /\ [reg EXCEPT !.handlers = handlers].sortInfo = reg.sortInfo
  BY DEF Registries
<1>. QED
  BY <1>2, <1>3 DEF Register

\* A handler that is not named keeps its instance, a client's own included.
LEMMA RegisterKeepsOthers ==
    ASSUME NEW reg \in Registries, NEW ids, NEW instance
    PROVE  /\ DOMAIN reg.handlers \subseteq DOMAIN Register(reg, ids, instance).handlers
           /\ \A id \in DOMAIN reg.handlers \ ids :
                  Register(reg, ids, instance).handlers[id] = reg.handlers[id]
<1>. DEFINE handlers == [id \in DOMAIN reg.handlers \cup ids |->
                            IF id \in ids THEN instance ELSE reg.handlers[id]]
<1>1. [reg EXCEPT !.handlers = handlers].handlers = handlers
  BY DEF Registries
<1>2. /\ DOMAIN reg.handlers \subseteq DOMAIN handlers
      /\ \A id \in DOMAIN reg.handlers \ ids : handlers[id] = reg.handlers[id]
  OBVIOUS
<1>. HIDE DEF handlers
<1>3. Register(reg, ids, instance).handlers = handlers
  BY <1>1 DEF Register, handlers
<1>. QED
  BY <1>2, <1>3

-----------------------------------------------------------------------------
\* Each setter keeps a registry settled: it registers new instances of all
\* handlers that have the setting, with the settings they already had.

\* One registration: the new instances have the new settings, and the other
\* handlers have none of the settings that changed.
LEMMA OneRegistrationFollows ==
    ASSUME NEW set \in Registries, NEW settings, Follows(set, settings),
           NEW ids \in SUBSET BuiltinIds, NEW one, NEW now,
           \A id \in ids : one = Expected(id, now),
           \A id \in BuiltinIds \ ids : Expected(id, now) = Expected(id, settings)
    PROVE  Follows(Register(set, ids, one), now)
<1>1. /\ \A id \in BuiltinIds \cap ids : Register(set, ids, one).handlers[id] = one
      /\ \A id \in BuiltinIds \ ids :
             Register(set, ids, one).handlers[id] = set.handlers[id]
  BY RegisterReplaces
<1>. QED
  BY <1>1, Zenon DEF Follows

\* Two of them, as a resolver and a table take.
LEMMA TwoRegistrationsFollow ==
    ASSUME NEW set \in Registries, NEW settings, Follows(set, settings),
           NEW ids \in SUBSET BuiltinIds, NEW one \in Instances,
           NEW id2 \in BuiltinIds \ ids, NEW two, NEW now,
           \A id \in ids : one = Expected(id, now),
           two = Expected(id2, now),
           \A id \in BuiltinIds \ (ids \cup {id2}) : Expected(id, now) = Expected(id, settings)
    PROVE  Follows(Register(Register(set, ids, one), {id2}, two), now)
<1>1. Register(set, ids, one) \in Registries
  BY RegisterTyped DEF Ids
<1>2. /\ \A id \in BuiltinIds \cap ids : Register(set, ids, one).handlers[id] = one
      /\ \A id \in BuiltinIds \ ids :
             Register(set, ids, one).handlers[id] = set.handlers[id]
  BY RegisterReplaces
<1>. DEFINE after == Register(Register(set, ids, one), {id2}, two)
<1>3. /\ after.handlers[id2] = two
      /\ \A id \in BuiltinIds \ {id2} :
             after.handlers[id] = Register(set, ids, one).handlers[id]
  BY <1>1, RegisterReplaces
<1>. HIDE DEF after
<1>4. ASSUME NEW id \in BuiltinIds, ~after.handlers[id].custom
      PROVE  after.handlers[id] = Expected(id, now)
  <2>1. CASE id = id2
    BY <2>1, <1>3
  <2>2. CASE id \in ids
    BY <2>2, <1>2, <1>3
  <2>3. CASE id \in BuiltinIds \ (ids \cup {id2})
    BY <2>3, <1>2, <1>3, <1>4, Zenon DEF Follows
  <2>. QED
    BY <2>1, <2>2, <2>3
<1>. QED
  BY <1>4 DEF Follows, after

\* The instances that the setters register, and those that are expected.
Instance(resolver, table, enabled, loadOrder) ==
    [custom |-> FALSE, version |-> 1, resolver |-> resolver, table |-> table,
     enabled |-> enabled, loadOrder |-> loadOrder]

\* Two instances with the same fields are the same.
LEMMA SameInstance ==
    ASSUME NEW x \in Instances, NEW y \in Instances,
           x.custom = y.custom, x.version = y.version, x.resolver = y.resolver,
           x.table = y.table, x.enabled = y.enabled, x.loadOrder = y.loadOrder
    PROVE  x = y
BY DEF Instances

\* A built-in instance is what it was configured with.
LEMMA InstanceOfItsSettings ==
    ASSUME NEW x \in Instances, x.custom = FALSE, x.version = 1
    PROVE  x = Instance(x.resolver, x.table, x.enabled, x.loadOrder)
<1>. DEFINE y == Instance(x.resolver, x.table, x.enabled, x.loadOrder)
<1>1. y \in Instances
  BY DEF Instance, Instances
<1>2. /\ y.custom = x.custom /\ y.version = x.version /\ y.resolver = x.resolver
      /\ y.table = x.table /\ y.enabled = x.enabled /\ y.loadOrder = x.loadOrder
  BY DEF Instance
<1>. HIDE DEF y
<1>3. x = y
  BY <1>1, <1>2, SameInstance
<1>. QED
  BY <1>3 DEF y

\* What the setters make of a fresh handler, as instances of the settings.
LEMMA RegisteredInstances ==
    ASSUME NEW resolver \in ResolverValues, NEW table \in TableValues,
           NEW enabled \in BOOLEAN, NEW loadOrder \in LoadOrders \cup {None}
    PROVE  /\ Instance(resolver, table, enabled, loadOrder) \in Instances
           /\ Plain = Instance(None, None, FALSE, None)
           /\ [Plain EXCEPT !.resolver = resolver] = Instance(resolver, None, FALSE, None)
           /\ [Plain EXCEPT !.table = table] = Instance(None, table, FALSE, None)
           /\ [Plain EXCEPT !.table = table, !.resolver = resolver]
                  = Instance(resolver, table, FALSE, None)
           /\ [Plain EXCEPT !.enabled = enabled] = Instance(None, None, enabled, None)
           /\ [Plain EXCEPT !.enabled = enabled, !.loadOrder = loadOrder]
                  = Instance(None, None, enabled, loadOrder)
<1>1. \A r \in ResolverValues, t \in TableValues, e \in BOOLEAN, l \in LoadOrders \cup {None} :
          Instance(r, t, e, l) \in Instances
  BY DEF Instance, Instances
<1>2. None \in ResolverValues /\ None \in TableValues
  BY DEF ResolverValues, TableValues
<1>3. [Plain EXCEPT !.resolver = resolver] = Instance(resolver, None, FALSE, None)
  <2>. DEFINE x == [Plain EXCEPT !.resolver = resolver]
  <2>1. /\ x \in Instances /\ x.custom = FALSE /\ x.version = 1
        /\ x.resolver = resolver /\ x.table = None
        /\ x.enabled = FALSE /\ x.loadOrder = None
    BY <1>2 DEF Plain, Instances
  <2>. HIDE DEF x
  <2>2. x = Instance(resolver, None, FALSE, None)
    BY <2>1, InstanceOfItsSettings
  <2>. QED
    BY <2>2 DEF x
<1>4. [Plain EXCEPT !.table = table] = Instance(None, table, FALSE, None)
  <2>. DEFINE x == [Plain EXCEPT !.table = table]
  <2>1. /\ x \in Instances /\ x.custom = FALSE /\ x.version = 1
        /\ x.resolver = None /\ x.table = table
        /\ x.enabled = FALSE /\ x.loadOrder = None
    BY <1>2 DEF Plain, Instances
  <2>. HIDE DEF x
  <2>2. x = Instance(None, table, FALSE, None)
    BY <2>1, InstanceOfItsSettings
  <2>. QED
    BY <2>2 DEF x
<1>5. [Plain EXCEPT !.table = table, !.resolver = resolver] = Instance(resolver, table, FALSE, None)
  <2>. DEFINE x == [Plain EXCEPT !.table = table, !.resolver = resolver]
  <2>1. /\ x \in Instances /\ x.custom = FALSE /\ x.version = 1
        /\ x.resolver = resolver /\ x.table = table
        /\ x.enabled = FALSE /\ x.loadOrder = None
    BY <1>2 DEF Plain, Instances
  <2>. HIDE DEF x
  <2>2. x = Instance(resolver, table, FALSE, None)
    BY <2>1, InstanceOfItsSettings
  <2>. QED
    BY <2>2 DEF x
<1>6. [Plain EXCEPT !.enabled = enabled] = Instance(None, None, enabled, None)
  <2>. DEFINE x == [Plain EXCEPT !.enabled = enabled]
  <2>1. /\ x \in Instances /\ x.custom = FALSE /\ x.version = 1
        /\ x.resolver = None /\ x.table = None
        /\ x.enabled = enabled /\ x.loadOrder = None
    BY <1>2 DEF Plain, Instances
  <2>. HIDE DEF x
  <2>2. x = Instance(None, None, enabled, None)
    BY <2>1, InstanceOfItsSettings
  <2>. QED
    BY <2>2 DEF x
<1>7. [Plain EXCEPT !.enabled = enabled, !.loadOrder = loadOrder]
          = Instance(None, None, enabled, loadOrder)
  <2>. DEFINE x == [Plain EXCEPT !.enabled = enabled, !.loadOrder = loadOrder]
  <2>1. /\ x \in Instances /\ x.custom = FALSE /\ x.version = 1
        /\ x.resolver = None /\ x.table = None
        /\ x.enabled = enabled /\ x.loadOrder = loadOrder
    BY <1>2 DEF Plain, Instances
  <2>. HIDE DEF x
  <2>2. x = Instance(None, None, enabled, loadOrder)
    BY <2>1, InstanceOfItsSettings
  <2>. QED
    BY <2>2 DEF x
<1>8. Plain = Instance(None, None, FALSE, None)
  BY DEF Plain, Instance
<1>. QED
  BY <1>1, <1>3, <1>4, <1>5, <1>6, <1>7, <1>8

\* What RegistryIsConsistent expects of each kind of handler.
LEMMA ExpectedInstances ==
    ASSUME NEW s
    PROVE  /\ \A id \in LinkHandlers : Expected(id, s) = Instance(s.resolver, None, FALSE, None)
           /\ \A id \in ServiceHandlers :
                  Expected(id, s) = Instance(s.services[id], None, FALSE, None)
           /\ \A id \in PlainHandlers : Expected(id, s) = Plain
           /\ \A id \in TableHandlers : Expected(id, s) = Instance(None, s.table, FALSE, None)
           /\ Expected(Condition, s) = Instance(s.resolver, s.table, FALSE, None)
           /\ \A id \in OffsetHandlers :
                  Expected(id, s) = Instance(None, None, s.removeOffsetData, None)
           /\ Expected(Worldspace, s) = Instance(None, None, s.removeOffsetData, s.loadOrder)
           /\ Expected(SortInfo, s) = Instance(None, None, s.sortInfo, None)
<1>1. ASSUME NEW id \in LinkHandlers \cup ServiceHandlers \cup PlainHandlers
      PROVE  /\ id \notin TableHandlers /\ id \notin OffsetHandlers
             /\ id # Condition /\ id # Worldspace /\ id # SortInfo
  BY HandlerSetsAreDisjoint DEF NamedHandlers
<1>2. ASSUME NEW id \in LinkHandlers
      PROVE  Expected(id, s) = Instance(s.resolver, None, FALSE, None)
  BY <1>1 DEF Expected, Instance
<1>3. ASSUME NEW id \in ServiceHandlers
      PROVE  Expected(id, s) = Instance(s.services[id], None, FALSE, None)
  BY <1>1, HandlerSetsAreDisjoint DEF Expected, Instance
<1>4. ASSUME NEW id \in PlainHandlers
      PROVE  Expected(id, s) = Plain
  BY <1>1, HandlerSetsAreDisjoint DEF Expected, Plain
<1>5. ASSUME NEW id \in NamedHandlers
      PROVE  id \notin LinkHandlers /\ id \notin ServiceHandlers
  BY HandlerSetsAreDisjoint
<1>6. ASSUME NEW id \in TableHandlers
      PROVE  Expected(id, s) = Instance(None, s.table, FALSE, None)
  BY <1>5 DEF Expected, Instance, NamedHandlers, TableHandlers, OffsetHandlers,
             Condition, Worldspace, SortInfo
<1>7. Expected(Condition, s) = Instance(s.resolver, s.table, FALSE, None)
  BY DEF Expected, Instance, TableHandlers, OffsetHandlers, Condition, Worldspace, SortInfo
<1>8. ASSUME NEW id \in OffsetHandlers
      PROVE  Expected(id, s) = Instance(None, None, s.removeOffsetData, None)
  BY <1>5 DEF Expected, Instance, NamedHandlers, TableHandlers, OffsetHandlers,
             Condition, Worldspace, SortInfo
<1>9. Expected(Worldspace, s) = Instance(None, None, s.removeOffsetData, s.loadOrder)
  BY <1>5 DEF Expected, Instance, NamedHandlers, TableHandlers, OffsetHandlers,
             Condition, Worldspace, SortInfo
<1>10. Expected(SortInfo, s) = Instance(None, None, s.sortInfo, None)
  BY <1>5 DEF Expected, Instance, NamedHandlers, TableHandlers, OffsetHandlers,
             Condition, Worldspace, SortInfo
<1>. QED
  BY <1>2, <1>3, <1>4, <1>6, <1>7, <1>8, <1>9, <1>10

\* set_form_link_resolver.
LEMMA ResolverIsInstalled ==
    ASSUME NEW reg \in Registries, NEW settings \in Settings, Settled(reg, settings),
           NEW resolver \in ResolverValues
    PROVE  /\ SetFormLinkResolver(reg, resolver) \in Registries
           /\ [settings EXCEPT !.resolver = resolver] \in Settings
           /\ Settled(SetFormLinkResolver(reg, resolver), [settings EXCEPT !.resolver = resolver])
<1>. DEFINE set == [reg EXCEPT !.resolver = resolver]
            one == Instance(resolver, None, FALSE, None)
            two == Instance(resolver, reg.table, FALSE, None)
            now == [settings EXCEPT !.resolver = resolver]
            after == Register(Register(set, LinkHandlers, one), {Condition}, two)
<1>1. SetFormLinkResolver(reg, resolver) = after
  BY RegisteredInstances DEF SetFormLinkResolver, Registries, ResolverValues, TableValues
<1>2. /\ set \in Registries /\ set.handlers = reg.handlers
      /\ set.table = now.table /\ set.resolver = now.resolver
      /\ set.removeOffsetData = now.removeOffsetData /\ set.sortInfo = now.sortInfo
  BY DEF Registries, Settings, Settled
<1>3. /\ now \in Settings /\ now.resolver = resolver /\ now.table = settings.table
      /\ now.removeOffsetData = settings.removeOffsetData /\ now.sortInfo = settings.sortInfo
      /\ now.loadOrder = settings.loadOrder /\ now.services = settings.services
  BY DEF Settings
<1>4. one \in Instances /\ two \in Instances
  BY RegisteredInstances DEF Registries, ResolverValues, TableValues
<1>5. LinkHandlers \in SUBSET BuiltinIds /\ Condition \in BuiltinIds \ LinkHandlers
  BY HandlerSetsAreDisjoint DEF BuiltinIds, NamedHandlers, TableHandlers, Condition
<1>6. two = Expected(Condition, now) /\ \A id \in LinkHandlers : one = Expected(id, now)
  BY <1>3, ExpectedInstances DEF Settled
<1>7. \A id \in BuiltinIds \ (LinkHandlers \cup {Condition}) :
          Expected(id, now) = Expected(id, settings)
  BY <1>3 DEF Expected
<1>8. Follows(set, settings)
  BY <1>2 DEF Settled, Follows
<1>. HIDE DEF set, one, two, now
<1>9. Follows(after, now)
  BY <1>2, <1>4, <1>5, <1>6, <1>7, <1>8, TwoRegistrationsFollow
<1>10. Register(set, LinkHandlers, one) \in Registries
  BY <1>2, <1>4, <1>5, RegisterTyped DEF Ids
<1>11. after \in Registries
  BY <1>10, <1>4, <1>5, RegisterTyped DEF Ids
<1>12. /\ after.table = now.table /\ after.resolver = now.resolver
       /\ after.removeOffsetData = now.removeOffsetData /\ after.sortInfo = now.sortInfo
  BY <1>2, <1>10, RegisterReplaces
<1>13. Settled(after, now)
  BY <1>9, <1>12 DEF Settled
<1>. QED
  BY <1>1, <1>3, <1>11, <1>13 DEF now

\* set_condition_function_table.
LEMMA TableIsInstalled ==
    ASSUME NEW reg \in Registries, NEW settings \in Settings, Settled(reg, settings),
           NEW table \in TableValues
    PROVE  /\ SetConditionFunctionTable(reg, table) \in Registries
           /\ [settings EXCEPT !.table = table] \in Settings
           /\ Settled(SetConditionFunctionTable(reg, table), [settings EXCEPT !.table = table])
<1>. DEFINE set == [reg EXCEPT !.table = table]
            one == Instance(None, table, FALSE, None)
            two == Instance(reg.resolver, table, FALSE, None)
            now == [settings EXCEPT !.table = table]
            after == Register(Register(set, TableHandlers, one), {Condition}, two)
<1>1. SetConditionFunctionTable(reg, table) = after
  BY RegisteredInstances DEF SetConditionFunctionTable, Registries, ResolverValues, TableValues
<1>2. /\ set \in Registries /\ set.handlers = reg.handlers
      /\ set.table = now.table /\ set.resolver = now.resolver
      /\ set.removeOffsetData = now.removeOffsetData /\ set.sortInfo = now.sortInfo
  BY DEF Registries, Settings, Settled
<1>3. /\ now \in Settings /\ now.resolver = settings.resolver /\ now.table = table
      /\ now.removeOffsetData = settings.removeOffsetData /\ now.sortInfo = settings.sortInfo
      /\ now.loadOrder = settings.loadOrder /\ now.services = settings.services
  BY DEF Settings
<1>4. one \in Instances /\ two \in Instances
  BY RegisteredInstances DEF Registries, ResolverValues, TableValues
<1>5. TableHandlers \in SUBSET BuiltinIds /\ Condition \in BuiltinIds \ TableHandlers
  BY HandlerSetsAreDisjoint DEF BuiltinIds, NamedHandlers, TableHandlers, Condition
<1>6. two = Expected(Condition, now) /\ \A id \in TableHandlers : one = Expected(id, now)
  <2>1. now.table = table /\ now.resolver = reg.resolver
    BY <1>3 DEF Settled
  <2>2. /\ Expected(Condition, now) = Instance(now.resolver, now.table, FALSE, None)
        /\ \A id \in TableHandlers : Expected(id, now) = Instance(None, now.table, FALSE, None)
    <3>. HIDE DEF now
    <3>. QED
      BY ExpectedInstances, Zenon
  <2>. HIDE DEF now
  <2>. QED
    BY <2>1, <2>2
<1>7. \A id \in BuiltinIds \ (TableHandlers \cup {Condition}) :
          Expected(id, now) = Expected(id, settings)
  BY <1>3 DEF Expected
<1>8. Follows(set, settings)
  BY <1>2 DEF Settled, Follows
<1>. HIDE DEF set, one, two, now
<1>9. Follows(after, now)
  BY <1>2, <1>4, <1>5, <1>6, <1>7, <1>8, TwoRegistrationsFollow
<1>10. Register(set, TableHandlers, one) \in Registries
  BY <1>2, <1>4, <1>5, RegisterTyped DEF Ids
<1>11. after \in Registries
  BY <1>10, <1>4, <1>5, RegisterTyped DEF Ids
<1>12. /\ after.table = now.table /\ after.resolver = now.resolver
       /\ after.removeOffsetData = now.removeOffsetData /\ after.sortInfo = now.sortInfo
  BY <1>2, <1>10, RegisterReplaces
<1>13. Settled(after, now)
  BY <1>9, <1>12 DEF Settled
<1>. QED
  BY <1>1, <1>3, <1>11, <1>13 DEF now

\* set_remove_offset_data, before a load order is given.
LEMMA RemovalIsConfigured ==
    ASSUME NEW reg \in Registries, NEW settings \in Settings, Settled(reg, settings),
           NEW enabled \in BOOLEAN, settings.loadOrder = None
    PROVE  /\ SetRemoveOffsetData(reg, enabled) \in Registries
           /\ [settings EXCEPT !.removeOffsetData = enabled] \in Settings
           /\ Settled(SetRemoveOffsetData(reg, enabled), [settings EXCEPT !.removeOffsetData = enabled])
<1>. DEFINE set == [reg EXCEPT !.removeOffsetData = enabled]
            one == Instance(None, None, enabled, None)
            now == [settings EXCEPT !.removeOffsetData = enabled]
            after == Register(set, OffsetHandlers \cup {Worldspace}, one)
<1>1. SetRemoveOffsetData(reg, enabled) = after
  BY RegisteredInstances DEF SetRemoveOffsetData, ResolverValues, TableValues
<1>2. /\ set \in Registries /\ set.handlers = reg.handlers
      /\ set.table = now.table /\ set.resolver = now.resolver
      /\ set.removeOffsetData = now.removeOffsetData /\ set.sortInfo = now.sortInfo
  BY DEF Registries, Settings, Settled
<1>3. /\ now \in Settings
      /\ now.resolver = settings.resolver
      /\ now.table = settings.table
      /\ now.removeOffsetData = enabled
      /\ now.sortInfo = settings.sortInfo
      /\ now.loadOrder = settings.loadOrder
      /\ now.services = settings.services
  BY DEF Settings, ResolverValues
<1>4. one \in Instances
  BY RegisteredInstances DEF Registries, ResolverValues, TableValues
<1>5. OffsetHandlers \cup {Worldspace} \in SUBSET BuiltinIds
  BY DEF BuiltinIds, NamedHandlers
<1>6. \A id \in OffsetHandlers \cup {Worldspace} : one = Expected(id, now)
  <2>1. now.removeOffsetData = enabled /\ now.loadOrder = None
    BY <1>3
  <2>2. /\ \A id \in OffsetHandlers :
              Expected(id, now) = Instance(None, None, now.removeOffsetData, None)
        /\ Expected(Worldspace, now) = Instance(None, None, now.removeOffsetData, now.loadOrder)
    <3>. HIDE DEF now
    <3>. QED
      BY ExpectedInstances, Zenon
  <2>. HIDE DEF now
  <2>. QED
    BY <2>1, <2>2
<1>7. ASSUME NEW id \in BuiltinIds \ (OffsetHandlers \cup {Worldspace})
      PROVE  Expected(id, now) = Expected(id, settings)
  <2>. HIDE DEF now
  <2>1. id \notin OffsetHandlers \cup {Worldspace}
    OBVIOUS
  <2>. QED
    BY <1>3, <2>1 DEF Expected
<1>8. Follows(set, settings)
  BY <1>2 DEF Settled, Follows
<1>. HIDE DEF set, one, now
<1>9. Follows(after, now)
  BY <1>2, <1>5, <1>6, <1>7, <1>8, OneRegistrationFollows
<1>10. after \in Registries
  BY <1>2, <1>4, <1>5, RegisterTyped DEF Ids
<1>11. /\ after.table = now.table /\ after.resolver = now.resolver
       /\ after.removeOffsetData = now.removeOffsetData /\ after.sortInfo = now.sortInfo
  BY <1>2, RegisterReplaces
<1>12. Settled(after, now)
  BY <1>9, <1>11 DEF Settled
<1>. QED
  BY <1>1, <1>3, <1>10, <1>12 DEF now

\* set_sort_info_groups.
LEMMA SortingIsConfigured ==
    ASSUME NEW reg \in Registries, NEW settings \in Settings, Settled(reg, settings),
           NEW enabled \in BOOLEAN
    PROVE  /\ SetSortInfo(reg, enabled) \in Registries
           /\ [settings EXCEPT !.sortInfo = enabled] \in Settings
           /\ Settled(SetSortInfo(reg, enabled), [settings EXCEPT !.sortInfo = enabled])
<1>. DEFINE set == [reg EXCEPT !.sortInfo = enabled]
            one == Instance(None, None, enabled, None)
            now == [settings EXCEPT !.sortInfo = enabled]
            after == Register(set, {SortInfo}, one)
<1>1. SetSortInfo(reg, enabled) = after
  BY RegisteredInstances DEF SetSortInfo, ResolverValues, TableValues
<1>2. /\ set \in Registries /\ set.handlers = reg.handlers
      /\ set.table = now.table /\ set.resolver = now.resolver
      /\ set.removeOffsetData = now.removeOffsetData /\ set.sortInfo = now.sortInfo
  BY DEF Registries, Settings, Settled
<1>3. /\ now \in Settings
      /\ now.resolver = settings.resolver
      /\ now.table = settings.table
      /\ now.removeOffsetData = settings.removeOffsetData
      /\ now.sortInfo = enabled
      /\ now.loadOrder = settings.loadOrder
      /\ now.services = settings.services
  BY DEF Settings, ResolverValues
<1>4. one \in Instances
  BY RegisteredInstances DEF Registries, ResolverValues, TableValues
<1>5. {SortInfo} \in SUBSET BuiltinIds
  BY DEF BuiltinIds, NamedHandlers
<1>6. \A id \in {SortInfo} : one = Expected(id, now)
  BY <1>3, ExpectedInstances DEF Settled
<1>7. \A id \in BuiltinIds \ ({SortInfo}) : Expected(id, now) = Expected(id, settings)
  BY <1>3 DEF Expected
<1>8. Follows(set, settings)
  BY <1>2 DEF Settled, Follows
<1>. HIDE DEF set, one, now
<1>9. Follows(after, now)
  BY <1>2, <1>5, <1>6, <1>7, <1>8, OneRegistrationFollows
<1>10. after \in Registries
  BY <1>2, <1>4, <1>5, RegisterTyped DEF Ids
<1>11. /\ after.table = now.table /\ after.resolver = now.resolver
       /\ after.removeOffsetData = now.removeOffsetData /\ after.sortInfo = now.sortInfo
  BY <1>2, RegisterReplaces
<1>12. Settled(after, now)
  BY <1>9, <1>11 DEF Settled
<1>. QED
  BY <1>1, <1>3, <1>10, <1>12 DEF now

\* set_resource_hash_resolver and the other two.
LEMMA ServiceIsConfigured ==
    ASSUME NEW reg \in Registries, NEW settings \in Settings, Settled(reg, settings),
           NEW service \in ServiceHandlers, NEW resolver \in ResolverValues
    PROVE  /\ SetService(reg, service, resolver) \in Registries
           /\ [settings EXCEPT !.services[service] = resolver] \in Settings
           /\ Settled(SetService(reg, service, resolver), [settings EXCEPT !.services[service] = resolver])
<1>. DEFINE set == reg
            one == Instance(resolver, None, FALSE, None)
            now == [settings EXCEPT !.services[service] = resolver]
            after == Register(set, {service}, one)
<1>1. SetService(reg, service, resolver) = after
  BY RegisteredInstances DEF SetService, ResolverValues, TableValues
<1>2. /\ set \in Registries /\ set.handlers = reg.handlers
      /\ set.table = now.table /\ set.resolver = now.resolver
      /\ set.removeOffsetData = now.removeOffsetData /\ set.sortInfo = now.sortInfo
  BY DEF Registries, Settings, Settled
<1>3. /\ now \in Settings
      /\ now.resolver = settings.resolver
      /\ now.table = settings.table
      /\ now.removeOffsetData = settings.removeOffsetData
      /\ now.sortInfo = settings.sortInfo
      /\ now.loadOrder = settings.loadOrder
      /\ \A id \in ServiceHandlers : now.services[id] = IF id = service THEN resolver ELSE settings.services[id]
  BY DEF Settings, ResolverValues
<1>4. one \in Instances
  BY RegisteredInstances DEF Registries, ResolverValues, TableValues
<1>5. {service} \in SUBSET BuiltinIds
  BY DEF BuiltinIds, NamedHandlers
<1>6. one = Expected(service, now)
  <2>1. now.services[service] = resolver
    BY <1>3
  <2>. HIDE DEF now
  <2>. QED
    BY <2>1, ExpectedInstances
<1>7. \A id \in BuiltinIds \ ({service}) : Expected(id, now) = Expected(id, settings)
  BY <1>3 DEF Expected
<1>8. Follows(set, settings)
  BY <1>2 DEF Settled, Follows
<1>. HIDE DEF set, one, now
<1>9. Follows(after, now)
  BY <1>2, <1>5, <1>6, <1>7, <1>8, OneRegistrationFollows
<1>10. after \in Registries
  BY <1>2, <1>4, <1>5, RegisterTyped DEF Ids
<1>11. /\ after.table = now.table /\ after.resolver = now.resolver
       /\ after.removeOffsetData = now.removeOffsetData /\ after.sortInfo = now.sortInfo
  BY <1>2, RegisterReplaces
<1>12. Settled(after, now)
  BY <1>9, <1>11 DEF Settled
<1>. QED
  BY <1>1, <1>3, <1>10, <1>12 DEF now

\* set_worldspace_source_file_load_order.
LEMMA LoadOrderIsInstalled ==
    ASSUME NEW reg \in Registries, NEW settings \in Settings, Settled(reg, settings),
           NEW loadOrder \in LoadOrders
    PROVE  /\ SetWorldspaceSourceFileLoadOrder(reg, loadOrder) \in Registries
           /\ [settings EXCEPT !.loadOrder = loadOrder] \in Settings
           /\ Settled(SetWorldspaceSourceFileLoadOrder(reg, loadOrder), [settings EXCEPT !.loadOrder = loadOrder])
<1>. DEFINE set == reg
            one == Instance(None, None, reg.removeOffsetData, loadOrder)
            now == [settings EXCEPT !.loadOrder = loadOrder]
            after == Register(set, {Worldspace}, one)
<1>1. SetWorldspaceSourceFileLoadOrder(reg, loadOrder) = after
  BY RegisteredInstances DEF SetWorldspaceSourceFileLoadOrder, Registries, ResolverValues, TableValues
<1>2. /\ set \in Registries /\ set.handlers = reg.handlers
      /\ set.table = now.table /\ set.resolver = now.resolver
      /\ set.removeOffsetData = now.removeOffsetData /\ set.sortInfo = now.sortInfo
  BY DEF Registries, Settings, Settled
<1>3. /\ now \in Settings
      /\ now.resolver = settings.resolver
      /\ now.table = settings.table
      /\ now.removeOffsetData = settings.removeOffsetData
      /\ now.sortInfo = settings.sortInfo
      /\ now.loadOrder = loadOrder
      /\ now.services = settings.services
  BY DEF Settings, ResolverValues
<1>4. one \in Instances
  BY RegisteredInstances DEF Registries, ResolverValues, TableValues
<1>5. {Worldspace} \in SUBSET BuiltinIds
  BY DEF BuiltinIds, NamedHandlers
<1>6. \A id \in {Worldspace} : one = Expected(id, now)
  BY <1>3, ExpectedInstances DEF Settled
<1>7. \A id \in BuiltinIds \ ({Worldspace}) : Expected(id, now) = Expected(id, settings)
  BY <1>3 DEF Expected
<1>8. Follows(set, settings)
  BY <1>2 DEF Settled, Follows
<1>. HIDE DEF set, one, now
<1>9. Follows(after, now)
  BY <1>2, <1>5, <1>6, <1>7, <1>8, OneRegistrationFollows
<1>10. after \in Registries
  BY <1>2, <1>4, <1>5, RegisterTyped DEF Ids
<1>11. /\ after.table = now.table /\ after.resolver = now.resolver
       /\ after.removeOffsetData = now.removeOffsetData /\ after.sortInfo = now.sortInfo
  BY <1>2, RegisterReplaces
<1>12. Settled(after, now)
  BY <1>9, <1>11 DEF Settled
<1>. QED
  BY <1>1, <1>3, <1>10, <1>12 DEF now

\* A handler of the client's own is registered.
LEMMA CustomIsRegistered ==
    ASSUME NEW reg \in Registries, NEW settings \in Settings, Settled(reg, settings),
           NEW id \in CustomIds, NEW version \in Versions
    PROVE  /\ Register(reg, {id}, Custom(version)) \in Registries
           /\ Settled(Register(reg, {id}, Custom(version)), settings)
<1>. DEFINE own == Custom(version)
            after == Register(reg, {id}, own)
<1>1. own \in Instances /\ own.custom = TRUE
  BY DEF Custom, Plain, Instances, ResolverValues, TableValues
<1>. HIDE DEF own
<1>2. after \in Registries
  BY <1>1, RegisterTyped DEF Ids
<1>3. /\ \A x \in BuiltinIds \cap {id} : after.handlers[x] = own
      /\ \A x \in BuiltinIds \ {id} : after.handlers[x] = reg.handlers[x]
      /\ after.table = reg.table /\ after.resolver = reg.resolver
      /\ after.removeOffsetData = reg.removeOffsetData /\ after.sortInfo = reg.sortInfo
  BY RegisterReplaces
<1>. HIDE DEF after
<1>4. ASSUME NEW x \in BuiltinIds, ~after.handlers[x].custom
      PROVE  after.handlers[x] = Expected(x, settings)
  <2>1. CASE x = id
    BY <1>1, <1>3, <1>4, <2>1
  <2>2. CASE x # id
    <3>1. after.handlers[x] = reg.handlers[x]
      BY <1>3, <2>2
    <3>. QED
      BY <1>4, <3>1, Zenon DEF Settled, Follows
  <2>. QED
    BY <2>1, <2>2
<1>5. Settled(after, settings)
  BY <1>3, <1>4 DEF Settled, Follows
<1>. QED
  BY <1>2, <1>5 DEF after, own

\* Two settings with the same fields are the same.
LEMMA SameSettings ==
    ASSUME NEW x \in Settings, NEW y \in Settings,
           x.resolver = y.resolver, x.table = y.table, x.loadOrder = y.loadOrder,
           x.removeOffsetData = y.removeOffsetData, x.sortInfo = y.sortInfo,
           x.services = y.services
    PROVE  x = y
BY DEF Settings

\* The registry that the builder gives has the defaults.
LEMMA BuiltinIsSettled == Builtin \in Registries /\ Defaults \in Settings /\ Settled(Builtin, Defaults)
<1>. DEFINE base == Register(NewRegistry, BuiltinIds, Plain)
            bare == [Defaults EXCEPT !.removeOffsetData = FALSE, !.sortInfo = FALSE]
            handlers == [id \in BuiltinIds |-> Plain]
<1>1. /\ base = [NewRegistry EXCEPT !.handlers = handlers]
      /\ base.handlers = handlers /\ base.table = None /\ base.resolver = None
      /\ base.removeOffsetData = FALSE /\ base.sortInfo = FALSE
  <2>1. [id \in DOMAIN NewRegistry.handlers \cup BuiltinIds |->
            IF id \in BuiltinIds THEN Plain ELSE NewRegistry.handlers[id]] = handlers
    BY DEF NewRegistry
  <2>. HIDE DEF handlers
  <2>2. base = [NewRegistry EXCEPT !.handlers = handlers]
    BY <2>1 DEF Register
  <2>. QED
    BY <2>2 DEF NewRegistry
<1>2. Plain \in Instances
  BY DEF Plain, Instances, ResolverValues, TableValues
<1>3. handlers \in UNION {[BuiltinIds \cup ids -> Instances] : ids \in SUBSET CustomIds}
  <2>1. handlers \in [BuiltinIds \cup {} -> Instances]
    BY <1>2
  <2>. QED
    BY <2>1
<1>4. base \in Registries
  <2>. HIDE DEF handlers, base
  <2>. QED
    BY <1>1, <1>3 DEF Registries, ResolverValues, TableValues, NewRegistry
<1>5. Defaults \in Settings /\ bare \in Settings
  BY DEF Defaults, Settings, ResolverValues, TableValues
<1>6. /\ bare.resolver = None /\ bare.table = None /\ bare.removeOffsetData = FALSE
      /\ bare.sortInfo = FALSE /\ bare.loadOrder = None
      /\ \A id \in ServiceHandlers : bare.services[id] = None
  BY DEF Defaults
<1>7. Settled(base, bare)
  <2>1. \A id \in BuiltinIds : base.handlers[id] = Plain
    BY <1>1
  <2>. HIDE DEF bare, base
  <2>2. Plain = Instance(None, None, FALSE, None)
    BY DEF Plain, Instance
  <2>3. /\ \A id \in ServiceHandlers : Expected(id, bare) = Plain
        /\ \A id \in LinkHandlers \cup PlainHandlers : Expected(id, bare) = Plain
        /\ \A id \in NamedHandlers : Expected(id, bare) = Plain
    BY <1>6, <2>2, ExpectedInstances DEF NamedHandlers
  <2>4. Follows(base, bare)
    BY <2>1, <2>3 DEF Follows, BuiltinIds
  <2>. QED
    BY <1>1, <1>6, <2>4 DEF Settled
<1>8. /\ SetRemoveOffsetData(base, TRUE) \in Registries
      /\ [bare EXCEPT !.removeOffsetData = TRUE] \in Settings
      /\ Settled(SetRemoveOffsetData(base, TRUE), [bare EXCEPT !.removeOffsetData = TRUE])
  <2>. HIDE DEF bare, base
  <2>. QED
    BY <1>4, <1>5, <1>6, <1>7, RemovalIsConfigured
<1>9. /\ Builtin \in Registries
      /\ Settled(Builtin, [[bare EXCEPT !.removeOffsetData = TRUE] EXCEPT !.sortInfo = TRUE])
  <2>. DEFINE reg == SetRemoveOffsetData(base, TRUE)
              set == [bare EXCEPT !.removeOffsetData = TRUE]
  <2>. HIDE DEF reg, set
  <2>1. /\ SetSortInfo(reg, TRUE) \in Registries
        /\ Settled(SetSortInfo(reg, TRUE), [set EXCEPT !.sortInfo = TRUE])
    BY <1>8, SortingIsConfigured DEF reg, set
  <2>. QED
    BY <2>1 DEF Builtin, reg, set
<1>10. [[bare EXCEPT !.removeOffsetData = TRUE] EXCEPT !.sortInfo = TRUE] = Defaults
  <2>. DEFINE set == [[bare EXCEPT !.removeOffsetData = TRUE] EXCEPT !.sortInfo = TRUE]
  <2>1. set \in Settings
    BY <1>5 DEF Settings
  <2>2. /\ set.resolver = Defaults.resolver /\ set.table = Defaults.table
        /\ set.removeOffsetData = Defaults.removeOffsetData /\ set.sortInfo = Defaults.sortInfo
        /\ set.loadOrder = Defaults.loadOrder /\ set.services = Defaults.services
    BY DEF Defaults
  <2>. HIDE DEF set
  <2>3. set = Defaults
    BY <1>5, <2>1, <2>2, SameSettings
  <2>. QED
    BY <2>3 DEF set
<1>. QED
  BY <1>5, <1>9, <1>10

-----------------------------------------------------------------------------
\* The conjuncts of the invariant that are about copies.
ContextsSettled ==
    \A c \in Contexts : contexts[c] # None =>
        /\ Settled(contexts[c].registry, contexts[c].configured)
        /\ contexts[c].configured.loadOrder = None
        /\ MeetsVersions(contexts[c].registry, contexts[c].package, {})

EditorsSettled ==
    \A e \in Editors : editors[e] # None =>
        /\ Settled(editors[e].registry, editors[e].configured)
        /\ MeetsVersions(editors[e].registry, editors[e].package,
                         IF editors[e].configured.loadOrder = None THEN {} ELSE {Worldspace})

\* The parts of the invariant, one for each step that disturbs them.
LEMMA InvParts ==
    Inv <=> /\ TypeOK
            /\ Settled(registry, configured) /\ configured.loadOrder = None
            /\ ContextsSettled /\ EditorsSettled
BY DEF Inv, ContextsSettled, EditorsSettled, RequirementsStayMet

\* A registry with the built-in handlers satisfies the invariant.
LEMMA InitInv == Init => Inv
<1>. SUFFICES ASSUME Init PROVE Inv
  OBVIOUS
<1>1. TypeOK
  BY BuiltinIsSettled DEF Init, TypeOK
<1>2. Settled(registry, configured) /\ configured.loadOrder = None
  BY BuiltinIsSettled DEF Init, Defaults
<1>3. ContextsSettled /\ EditorsSettled
  BY DEF Init, ContextsSettled, EditorsSettled
<1>. QED
  BY <1>1, <1>2, <1>3, InvParts

\* A call of the client changes its own registry alone.
LEMMA ConfiguringKeepsInv ==
    ASSUME Inv, registry' \in Registries, configured' \in Settings,
           Settled(registry', configured'), configured'.loadOrder = None,
           UNCHANGED <<contexts, editors>>
    PROVE  Inv'
BY InvParts DEF Inv, TypeOK, RequirementsStayMet

\* The registry of a context: the package's table is installed as if it had
\* been configured.
LEMMA InstalledIsSettled ==
    ASSUME NEW reg \in Registries, NEW settings \in Settings, Settled(reg, settings),
           settings.loadOrder = None, NEW package \in Packages
    PROVE  /\ Installed(reg, package) \in Registries
           /\ InstalledSettings(settings, package) \in Settings
           /\ Settled(Installed(reg, package), InstalledSettings(settings, package))
           /\ InstalledSettings(settings, package).loadOrder = None
<1>1. CASE package.table = None
  BY <1>1 DEF Installed, InstalledSettings
<1>2. CASE package.table # None
  <2>1. package.table \in TableValues
    BY DEF TableValues
  <2>2. [settings EXCEPT !.table = package.table].loadOrder = None
    BY DEF Settings
  <2>. QED
    BY <1>2, <2>1, <2>2, TableIsInstalled DEF Installed, InstalledSettings
<1>. QED
  BY <1>1, <1>2

\* Require asks for at least what MeetsVersions does.
LEMMA RequirementsAreMet ==
    ASSUME NEW reg, NEW package, MeetsRequirements(reg, package)
    PROVE  MeetsVersions(reg, package, {})
BY DEF MeetsRequirements, MeetsVersions, Require

\* A context made from a settled registry is settled, also after its package
\* has set the tables it needs (SemanticContext::new).
LEMMA MakeContextKeepsInv ==
    ASSUME Inv, NEW c \in Contexts, NEW package \in Packages,
           NEW reg \in Registries, NEW settings \in Settings,
           Settled(reg, settings), settings.loadOrder = None,
           MakeContext(c, package, reg, settings)
    PROVE  Inv'
<1>. DEFINE made == [package |-> package, registry |-> Installed(reg, package),
                     configured |-> InstalledSettings(settings, package)]
<1>1. /\ Installed(reg, package) \in Registries
      /\ InstalledSettings(settings, package) \in Settings
      /\ Settled(Installed(reg, package), InstalledSettings(settings, package))
      /\ InstalledSettings(settings, package).loadOrder = None
  BY InstalledIsSettled
<1>2. MeetsVersions(Installed(reg, package), package, {})
  BY RequirementsAreMet DEF MakeContext
<1>3. made \in Copies
  BY <1>1 DEF Copies
<1>4. /\ made.package = package /\ made.registry = Installed(reg, package)
      /\ made.configured = InstalledSettings(settings, package)
  OBVIOUS
<1>5. /\ contexts' = [contexts EXCEPT ![c] = made]
      /\ UNCHANGED <<registry, configured, editors>>
  BY DEF MakeContext
<1>. HIDE DEF made
<1>6. TypeOK'
  BY <1>3, <1>5 DEF Inv, TypeOK
<1>7. ContextsSettled'
  <2>. SUFFICES ASSUME NEW d \in Contexts, contexts'[d] # None
                PROVE  /\ Settled(contexts'[d].registry, contexts'[d].configured)
                       /\ contexts'[d].configured.loadOrder = None
                       /\ MeetsVersions(contexts'[d].registry, contexts'[d].package, {})
    BY DEF ContextsSettled
  <2>1. CASE d = c
    <3>1. contexts'[d] = made
      BY <1>5, <2>1 DEF Inv, TypeOK
    <3>. QED
      BY <1>1, <1>2, <1>4, <3>1
  <2>2. CASE d # c
    <3>1. contexts'[d] = contexts[d]
      BY <1>5, <2>2 DEF Inv, TypeOK
    <3>. QED
      BY <3>1, InvParts DEF ContextsSettled
  <2>. QED
    BY <2>1, <2>2
<1>8. EditorsSettled' /\ Settled(registry', configured') /\ configured'.loadOrder = None
  BY <1>5, InvParts DEF EditorsSettled
<1>. QED
  BY <1>6, <1>7, <1>8, InvParts DEF Inv, RequirementsStayMet, ContextsSettled, EditorsSettled

\* edit_info_previous: the copy of a context that sorts nothing.
LEMMA SortlessContextKeepsInv ==
    ASSUME Inv, NEW c \in Contexts, NEW d \in Contexts, SortlessContext(c, d)
    PROVE  Inv'
<1>. DEFINE copy == contexts[d]
<1>1. copy \in Copies
  BY DEF SortlessContext, Inv, TypeOK
<1>2. Settled(copy.registry, copy.configured) /\ copy.configured.loadOrder = None
  BY InvParts DEF SortlessContext, ContextsSettled
<1>3. copy.package \in Packages /\ copy.registry \in Registries /\ copy.configured \in Settings
  BY <1>1 DEF Copies
<1>. DEFINE reg == SetSortInfo(copy.registry, FALSE)
            settings == [copy.configured EXCEPT !.sortInfo = FALSE]
<1>4. MakeContext(c, copy.package, reg, settings)
  BY DEF SortlessContext
<1>5. settings.loadOrder = None
  BY <1>2, <1>3 DEF Settings
<1>. HIDE DEF copy
<1>6. reg \in Registries /\ settings \in Settings /\ Settled(reg, settings)
  BY <1>2, <1>3, SortingIsConfigured
<1>. HIDE DEF reg, settings
<1>. QED
  BY <1>3, <1>4, <1>5, <1>6, MakeContextKeepsInv

\* RecordEditor::new: the load order of the source replaces the worldspace
\* handler, and nothing else.
LEMMA OpenEditorKeepsInv ==
    ASSUME Inv, NEW e \in Editors, NEW c \in Contexts, NEW loadOrder \in LoadOrders \cup {None},
           OpenEditor(e, c, loadOrder)
    PROVE  Inv'
<1>. DEFINE source == contexts[c]
            reg == IF loadOrder = None THEN source.registry
                   ELSE SetWorldspaceSourceFileLoadOrder(source.registry, loadOrder)
            settings == [source.configured EXCEPT !.loadOrder = loadOrder]
            opened == [package |-> source.package, registry |-> reg, configured |-> settings]
            replaced == IF loadOrder = None THEN {} ELSE {Worldspace}
<1>1. editors' = [editors EXCEPT ![e] = opened] /\ UNCHANGED <<registry, configured, contexts>>
  BY DEF OpenEditor
<1>2. source \in Copies
  BY DEF OpenEditor, Inv, TypeOK
<1>3. /\ Settled(source.registry, source.configured) /\ source.configured.loadOrder = None
      /\ MeetsVersions(source.registry, source.package, {})
  BY InvParts DEF OpenEditor, ContextsSettled
<1>. HIDE DEF source
<1>4. source.package \in Packages /\ source.registry \in Registries /\ source.configured \in Settings
  BY <1>2 DEF Copies
<1>5. reg \in Registries /\ settings \in Settings /\ Settled(reg, settings)
  <2>1. CASE loadOrder = None
    <3>1. settings \in Settings
      BY <1>4 DEF Settings
    <3>2. settings = source.configured
      <4>1. /\ settings.resolver = source.configured.resolver
            /\ settings.table = source.configured.table
            /\ settings.removeOffsetData = source.configured.removeOffsetData
            /\ settings.sortInfo = source.configured.sortInfo
            /\ settings.services = source.configured.services
            /\ settings.loadOrder = source.configured.loadOrder
        BY <1>3, <1>4, <2>1 DEF Settings
      <4>. HIDE DEF settings
      <4>. QED
        BY <1>4, <3>1, <4>1, SameSettings
    <3>. QED
      BY <1>3, <1>4, <2>1, <3>2
  <2>2. CASE loadOrder # None
    BY <1>3, <1>4, <2>2, LoadOrderIsInstalled
  <2>. QED
    BY <2>1, <2>2
<1>6. settings.loadOrder = loadOrder
  BY <1>4 DEF Settings
<1>7. MeetsVersions(reg, source.package, replaced)
  <2>1. CASE loadOrder = None
    BY <1>3, <2>1
  <2>2. CASE loadOrder # None
    <3>. DEFINE flagged == [Plain EXCEPT !.enabled = source.registry.removeOffsetData,
                                         !.loadOrder = loadOrder]
    <3>1. reg = Register(source.registry, {Worldspace}, flagged)
      BY <2>2 DEF SetWorldspaceSourceFileLoadOrder
    <3>2. /\ DOMAIN source.registry.handlers \subseteq DOMAIN reg.handlers
          /\ \A id \in DOMAIN source.registry.handlers \ {Worldspace} :
                 reg.handlers[id] = source.registry.handlers[id]
      BY <1>4, <3>1, RegisterKeepsOthers
    <3>. HIDE DEF reg
    <3>. QED
      BY <1>3, <2>2, <3>2 DEF MeetsVersions
  <2>. QED
    BY <2>1, <2>2
<1>8. opened \in Copies
  BY <1>4, <1>5 DEF Copies
<1>9. opened.package = source.package /\ opened.registry = reg /\ opened.configured = settings
  OBVIOUS
<1>. HIDE DEF reg, settings, opened
<1>10. TypeOK'
  BY <1>1, <1>8 DEF Inv, TypeOK
<1>11. EditorsSettled'
  <2>. SUFFICES ASSUME NEW f \in Editors, editors'[f] # None
                PROVE  /\ Settled(editors'[f].registry, editors'[f].configured)
                       /\ MeetsVersions(editors'[f].registry, editors'[f].package,
                              IF editors'[f].configured.loadOrder = None
                              THEN {} ELSE {Worldspace})
    BY DEF EditorsSettled
  <2>1. CASE f = e
    <3>1. editors'[f] = opened
      BY <1>1, <2>1 DEF Inv, TypeOK
    <3>. QED
      BY <1>5, <1>6, <1>7, <1>9, <3>1
  <2>2. CASE f # e
    <3>1. editors'[f] = editors[f]
      BY <1>1, <2>2 DEF Inv, TypeOK
    <3>. QED
      BY <3>1, InvParts DEF EditorsSettled
  <2>. QED
    BY <2>1, <2>2
<1>12. ContextsSettled' /\ Settled(registry', configured') /\ configured'.loadOrder = None
  BY <1>1, InvParts DEF ContextsSettled
<1>. QED
  BY <1>10, <1>11, <1>12, InvParts DEF Inv, RequirementsStayMet, ContextsSettled, EditorsSettled

-----------------------------------------------------------------------------
\* Every call keeps the invariant.
LEMMA StepKeepsInv == Inv /\ [RegistryNext]_registryVars => Inv'
<1>. SUFFICES ASSUME Inv, [RegistryNext]_registryVars PROVE Inv'
  OBVIOUS
<1>. USE DEF ResolverValues, TableValues
<1>1. /\ registry \in Registries /\ configured \in Settings
      /\ Settled(registry, configured) /\ configured.loadOrder = None
  BY InvParts DEF TypeOK
<1>2. ASSUME NEW id \in CustomIds, NEW version \in Versions, RegisterCustom(id, version)
      PROVE  Inv'
  BY <1>1, <1>2, CustomIsRegistered, ConfiguringKeepsInv DEF RegisterCustom
<1>3. ASSUME NEW id \in ServiceHandlers, NEW resolver \in Resolvers, ConfigureService(id, resolver)
      PROVE  Inv'
  <2>1. [configured EXCEPT !.services[id] = resolver].loadOrder = None
    BY <1>1 DEF Settings
  <2>. QED
    BY <1>1, <1>3, <2>1, ServiceIsConfigured, ConfiguringKeepsInv DEF ConfigureService
<1>4. ASSUME NEW resolver \in Resolvers, ConfigureResolver(resolver)
      PROVE  Inv'
  <2>1. [configured EXCEPT !.resolver = resolver].loadOrder = None
    BY <1>1 DEF Settings
  <2>. QED
    BY <1>1, <1>4, <2>1, ResolverIsInstalled, ConfiguringKeepsInv DEF ConfigureResolver
<1>5. ASSUME NEW table \in Tables, ConfigureTable(table)
      PROVE  Inv'
  <2>1. [configured EXCEPT !.table = table].loadOrder = None
    BY <1>1 DEF Settings
  <2>. QED
    BY <1>1, <1>5, <2>1, TableIsInstalled, ConfiguringKeepsInv DEF ConfigureTable
<1>6. ASSUME NEW enabled \in BOOLEAN, ConfigureRemoval(enabled)
      PROVE  Inv'
  <2>1. [configured EXCEPT !.removeOffsetData = enabled].loadOrder = None
    BY <1>1 DEF Settings
  <2>. QED
    BY <1>1, <1>6, <2>1, RemovalIsConfigured, ConfiguringKeepsInv DEF ConfigureRemoval
<1>7. ASSUME NEW enabled \in BOOLEAN, ConfigureSorting(enabled)
      PROVE  Inv'
  <2>1. [configured EXCEPT !.sortInfo = enabled].loadOrder = None
    BY <1>1 DEF Settings
  <2>. QED
    BY <1>1, <1>7, <2>1, SortingIsConfigured, ConfiguringKeepsInv DEF ConfigureSorting
<1>8. ASSUME NEW c \in Contexts, NEW package \in Packages, NewContext(c, package)
      PROVE  Inv'
  BY <1>1, <1>8, MakeContextKeepsInv DEF NewContext
<1>9. ASSUME NEW c \in Contexts, NEW d \in Contexts, SortlessContext(c, d)
      PROVE  Inv'
  BY <1>9, SortlessContextKeepsInv
<1>10. ASSUME NEW e \in Editors, NEW c \in Contexts, NEW loadOrder \in LoadOrders \cup {None},
              OpenEditor(e, c, loadOrder)
       PROVE  Inv'
  BY <1>10, OpenEditorKeepsInv
<1>11. CASE UNCHANGED registryVars
  BY <1>11 DEF registryVars, Inv, TypeOK, RequirementsStayMet
<1>. QED
  BY <1>2, <1>3, <1>4, <1>5, <1>6, <1>7, <1>8, <1>9, <1>10, <1>11 DEF RegistryNext, Call

\* The inductive invariant holds after any sequence of calls.
THEOREM InvHolds == RegistrySpec => []Inv
<1>. QED
  BY InitInv, StepKeepsInv, PTL DEF RegistrySpec

\* Every instance, setting, context and editor is of its type: an identifier
\* keeps one handler, a copy is always a whole registry (handler.rs register).
THEOREM TypeCorrect == RegistrySpec => []TypeOK
<1>1. Inv => TypeOK
  BY DEF Inv
<1>. QED
  BY <1>1, InvHolds, PTL

\* After any sequence of calls every built-in handler of the registry, of each
\* context and of each editor has the settings that were made last, whichever
\* handlers the client replaces, and a copy keeps what its package requires
\* (the setters of handler.rs:1456-1654, SemanticContext::new_with_handlers and
\* RecordEditor::new).
THEOREM Consistent == RegistrySpec => []RegistryIsConsistent
<1>1. Inv => RegistryIsConsistent
  BY DEF Inv, RegistryIsConsistent, HandlersFollowTheirSettings, Settled
<1>. QED
  BY <1>1, InvHolds, PTL
=============================================================================
