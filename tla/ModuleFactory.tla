---------------------------- MODULE ModuleFactory ----------------------------
(***************************************************************************)
(* The module system: a factory loads a plugin when the first module of    *)
(* its type is made and unloads it with the last one.                      *)
(*                                                                         *)
(*   tc_new_module, tc_del_module, tc_load_module, tc_unload_module,       *)
(*   tc_del_module_factory, tc_compare_modules      libtc/tcmodule.c       *)
(***************************************************************************)
EXTENDS Integers, FiniteSets

CONSTANTS Handlers,  \* TC_FACTORY_MAX_HANDLERS
          Types,     \* class and name of a module, as "encode:lavc"
          Handles    \* the memory of modules

ASSUME FactoryAssumption == Handlers \in Nat /\ IsFiniteSet(Handles)

Slots == 0 .. Handlers - 1

VARIABLES done,       \* the slots whose descriptor is DONE, the others are FREE
          type,       \* desc->type
          refs,       \* desc->ref_count
          modules,    \* the modules that exist
          klass,      \* module->klass->id
          instance,   \* module->instance.id
          plugins,    \* factory->descriptor_count
          instances,  \* factory->instance_count
          alive       \* whether the factory exists

descriptors == <<done, type, refs>>
handles     == <<modules, klass, instance>>
facvars     == <<descriptors, handles, plugins, instances, alive>>

FactoryInit ==
    /\ done = {} /\ type \in [Slots -> Types]
    /\ refs = [s \in Slots |-> 0]
    /\ modules = {}
    /\ klass = [h \in Handles |-> 0] /\ instance = [h \in Handles |-> 0]
    /\ plugins = 0 /\ instances = 0
    /\ alive = TRUE

\* Mutant: a slot keeps its type when its plugin is gone.
KnownBefore(t) == {s \in Slots : type[s] = t}

\* find_by_modtype()
Known(t) == {s \in done : type[s] = t}

\* find_first_free_descriptor()
FirstFree(s) == s \in Slots \ done /\ \A u \in Slots \ done : s <= u

\* tc_load_module(), where nothing fails.
LoadPlugin(t, s) ==
    /\ FirstFree(s)
    /\ done' = done \cup {s}
    /\ type' = [type EXCEPT ![s] = t]
    /\ plugins' = plugins + 1

\* A module h of the plugin in slot s, which had n modules.
MakeModule(h, s, n) ==
    /\ modules' = modules \cup {h}
    /\ klass' = [klass EXCEPT ![h] = s]
    /\ instance' = [instance EXCEPT ![h] = instances + 1]
    /\ refs' = [refs EXCEPT ![s] = n + 1]
    /\ instances' = instances + 1

\* tc_new_module() with a plugin that is loaded.
NewModule(t, h) ==
    /\ alive /\ h \notin modules
    /\ \E s \in Known(t) : MakeModule(h, s, refs[s])
    /\ UNCHANGED <<done, type, plugins, alive>>

\* tc_new_module() with a plugin that is not.
NewModuleLoads(t, h) ==
    /\ alive /\ h \notin modules /\ Known(t) = {}
    /\ \E s \in Slots : LoadPlugin(t, s) /\ MakeModule(h, s, 0)
    /\ UNCHANGED alive

\* The module cannot be initialised: the plugin that was loaded for it stays.
NewModuleFails(t) ==
    /\ alive /\ Known(t) = {}
    /\ \E s \in Slots : LoadPlugin(t, s) /\ refs' = [refs EXCEPT ![s] = 0]
    /\ UNCHANGED <<handles, instances, alive>>

\* Mutant: the plugin goes with its last but one module.
UnloadsEarly(s) == refs[s] <= 2

\* Whether the plugin goes with the module that is deleted.
Unloads(s) == refs[s] = 1

\* tc_del_module(), tc_unload_module().  A failure in the module's fini method
\* changes nothing.
DelModule(h) ==
    LET s == klass[h]
    IN /\ alive /\ h \in modules
       /\ modules' = modules \ {h}
       /\ instances' = instances - 1
       /\ refs' = [refs EXCEPT ![s] = @ - 1]
       /\ IF Unloads(s) THEN done' = done \ {s} /\ plugins' = plugins - 1
                        ELSE UNCHANGED <<done, plugins>>
       /\ UNCHANGED <<type, klass, instance, alive>>

\* tc_del_module_factory(): descriptors are finalised up to the first in use,
\* and the factory is released when there was none.
DelFactory ==
    /\ alive
    /\ done' = {s \in done : \E u \in 0 .. s : refs[u] > 0}
    /\ alive' = FALSE
    /\ UNCHANGED <<type, refs, handles, plugins, instances>>

FactoryNext ==
    \/ \E t \in Types, h \in Handles : NewModule(t, h) \/ NewModuleLoads(t, h)
    \/ \E t \in Types : NewModuleFails(t)
    \/ \E h \in Handles : DelModule(h)
    \/ DelFactory

FactorySpec == FactoryInit /\ [][FactoryNext]_facvars

-----------------------------------------------------------------------------
(* Properties.                                                              *)

FactoryTypeOK ==
    /\ done \subseteq Slots /\ type \in [Slots -> Types]
    /\ refs \in [Slots -> Int]
    /\ modules \subseteq Handles
    /\ klass \in [Handles -> Int] /\ instance \in [Handles -> Int]
    /\ plugins \in Int /\ instances \in Int
    /\ alive \in BOOLEAN

Of(s) == {h \in modules : klass[h] = s}

\* A plugin is unloaded exactly when its last module goes: each ref_count is the
\* number of the modules of its plugin, and tc_plugin_count and
\* tc_instance_count tell what is there.
CountsAreReferences ==
    /\ \A s \in Slots : refs[s] = Cardinality(Of(s))
    /\ alive => plugins = Cardinality(done)
    /\ instances = Cardinality(modules)

\* No module outlives the code of its plugin.
LoadedWhileUsed == \A h \in modules : klass[h] \in done

\* The assertions of tc_compare_modules: two modules of the same type have the
\* same class, as no plugin is loaded twice.
SameTypeSameClass ==
    \A g, h \in modules : type[klass[g]] = type[klass[h]] => klass[g] = klass[h]

FactorySafe == LoadedWhileUsed /\ SameTypeSameClass

\* tc_compare_modules tells two modules apart by their instance number.  Not an
\* invariant: the number is the count of the modules alive, so the one made after a
\* deletion may have the number of another.
InstancesApart ==
    \A g, h \in modules : instance[g] = instance[h] => g = h
=============================================================================
