---------------------------- MODULE PandaPlugins ----------------------------
(***************************************************************************)
(* The plugin manager, qemu/panda_plugin.c: the array of plugins, the      *)
(* callback lists, and unloading, which a request only asks for and the    *)
(* CPU loop (qemu/cpu-exec.c) carries out between two blocks.              *)
(*                                                                         *)
(* Everything here runs with the global mutex held.  A walk over a         *)
(* callback list is not atomic, for what the callbacks do: they load,      *)
(* unload, enable and disable plugins and register callbacks.  Monitor     *)
(* commands come between blocks.                                           *)
(*                                                                         *)
(* panda_cbs[t] is the sequence of linked entries; stale[t] says that the  *)
(* head pointer still points at an entry that was unlinked and freed.      *)
(* Following it has no defined outcome.                                    *)
(***************************************************************************)
EXTENDS Naturals, Sequences, FiniteSetsExt

CONSTANTS
    Plugins,            \* plugin files
    Types,              \* callback types
    Registers,          \* Registers[p]: types init_plugin of p registers for
    MAX_PANDA_PLUGINS,
    MaxEntries          \* bound: entries of a list

ASSUME PluginAssumption ==
    /\ Registers \in [Plugins -> SUBSET Types]
    /\ MAX_PANDA_PLUGINS \in Nat /\ MaxEntries \in Nat
    /\ "none" \notin Types     \* it stands for no type, in NoWalk

VARIABLES
    panda_plugins,
    panda_plugins_loaded,      \* names panda_load_plugin has been given
    panda_plugin_to_unload,
    panda_plugins_to_unload,   \* the indices that are flagged
    panda_cbs,
    stale,
    walk,                      \* where the walk over a list stands
    at,                        \* what the CPU thread is doing
    wanted,                    \* history: plugins an unload was asked for
    patient,                   \* history: no unload was asked for while another
                               \* was pending
    failed                     \* history: plugins whose init_plugin failed

unloads == <<panda_plugin_to_unload, panda_plugins_to_unload, wanted, patient>>
lists == <<panda_cbs, stale>>
vars == <<panda_plugins, panda_plugins_loaded, failed, unloads, lists, walk, at>>

nb_panda_plugins == Len(panda_plugins)

NoWalk == [type |-> "none", pos |-> 0, owner |-> "none"]

\* Between two blocks, or in a callback.
Running == at \in {"run", "walk"}

(***************************************************************************)
(* Callback lists.                                                         *)
(***************************************************************************)

\* A new entry becomes the head of its list; a walk keeps its place.
Registered(p, types) ==
    /\ panda_cbs' = [t \in Types |->
          IF t \in types THEN <<[owner |-> p, enabled |-> TRUE]>> \o panda_cbs[t]
          ELSE panda_cbs[t]]
    /\ walk' = IF walk.type \in types THEN [walk EXCEPT !.pos = @ + 1] ELSE walk

Fits(types) == \A t \in types : Len(panda_cbs[t]) < MaxEntries

Undefined == at' = "undefined"

panda_register_callback(p, t) ==
    /\ at = "walk" /\ walk.owner = p
    /\ Fits({t})
    /\ \/ stale[t] /\ Undefined /\ UNCHANGED <<lists, walk>>
       \/ ~stale[t] /\ Registered(p, {t}) /\ UNCHANGED <<stale, at>>
    /\ UNCHANGED <<panda_plugins, panda_plugins_loaded, failed, unloads>>

\* The loop of panda_unregister_callbacks over one list: what is linked after
\* entry i was looked at.
Unlinked(list, p) ==
    LET kept[i \in 0 .. Len(list)] ==
          IF i = 0 THEN <<>>
          ELSE IF list[i].owner = p THEN kept[i - 1]
          ELSE Append(kept[i - 1], list[i])
    IN  kept[Len(list)]

\* Unlinking the first of several entries leaves the head pointer at it.
panda_unregister_callbacks(p) ==
    /\ panda_cbs' = [t \in Types |-> Unlinked(panda_cbs[t], p)]
    /\ stale' = [t \in Types |->
          Unlinked(panda_cbs[t], p) # <<>> /\ Head(panda_cbs[t]).owner = p]

\* Enabling and disabling walk all lists.
SetEnabled(p, b) ==
    /\ Running
    /\ \/ (\E t \in Types : stale[t]) /\ Undefined /\ UNCHANGED panda_cbs
       \/ /\ \A t \in Types : ~stale[t]
          /\ panda_cbs' = [t \in Types |-> [i \in DOMAIN panda_cbs[t] |->
                IF panda_cbs[t][i].owner = p
                THEN [panda_cbs[t][i] EXCEPT !.enabled = b] ELSE panda_cbs[t][i]]]
          /\ UNCHANGED at
    /\ UNCHANGED <<panda_plugins, panda_plugins_loaded, failed, unloads, stale, walk>>

panda_enable_plugin(p) == SetEnabled(p, TRUE)
panda_disable_plugin(p) == SetEnabled(p, FALSE)

\* The next enabled entry after place i, 0 if there is none.
panda_cb_list_next(t, i) ==
    LET after == {j \in i + 1 .. Len(panda_cbs[t]) : panda_cbs[t][j].enabled}
    IN  IF after = {} THEN 0 ELSE Min(after)

StandAt(t, i) == walk' = [type |-> t, pos |-> i, owner |-> panda_cbs[t][i].owner]

\* The callbacks of a type are called, from the head on.
BeginWalk(t) ==
    /\ at = "run" /\ panda_cbs[t] # <<>>
    /\ \/ stale[t] /\ Undefined /\ UNCHANGED walk
       \/ ~stale[t] /\ at' = "walk" /\ StandAt(t, 1)
    /\ UNCHANGED <<panda_plugins, panda_plugins_loaded, failed, unloads, lists>>

StepWalk ==
    /\ at = "walk"
    /\ LET i == panda_cb_list_next(walk.type, walk.pos) IN
       \/ i = 0 /\ at' = "run" /\ walk' = NoWalk
       \/ i # 0 /\ StandAt(walk.type, i) /\ UNCHANGED at
    /\ UNCHANGED <<panda_plugins, panda_plugins_loaded, failed, unloads, lists>>

(***************************************************************************)
(* Loading.  A name that was given before is taken as loaded and nothing   *)
(* happens.  init_plugin registers callbacks, and then may still fail.     *)
(***************************************************************************)

\* init_fn registers for these types; the answer leads to at'.
InitPlugin(p, types, next) ==
    \/ (\E t \in types : stale[t]) /\ Undefined /\ UNCHANGED <<panda_cbs, walk>>
    \/ (\A t \in types : ~stale[t]) /\ at' = next /\ Registered(p, types)

\* The name was not given before.
NotLoaded(p) == p \notin panda_plugins_loaded

\* next is what becomes of the process when the load fails.
Load(p, next) ==
    /\ Running
    /\ NotLoaded(p)
    /\ panda_plugins_loaded' = panda_plugins_loaded \cup {p}
    /\ Fits(Registers[p])
    /\ \/ /\ Cardinality(panda_plugins_loaded) = MAX_PANDA_PLUGINS
          /\ Undefined
          /\ UNCHANGED <<panda_plugins, panda_cbs, walk, failed>>
       \/ /\ Cardinality(panda_plugins_loaded) < MAX_PANDA_PLUGINS
          /\ \/ /\ InitPlugin(p, Registers[p], at)
                /\ panda_plugins' = Append(panda_plugins, p)
                /\ UNCHANGED failed
             \/ /\ at' = next
                /\ UNCHANGED <<panda_plugins, panda_cbs, walk, failed>>
             \/ /\ \E types \in SUBSET Registers[p] : InitPlugin(p, types, next)
                /\ failed' = failed \cup {p}
                /\ UNCHANGED panda_plugins
    /\ UNCHANGED <<unloads, stale>>

panda_load_plugin(p) == Load(p, at)
panda_require(p) == Load(p, "aborted")

(***************************************************************************)
(* Unloading.                                                              *)
(***************************************************************************)

\* panda_delete_plugin; the length of the memmove is negative, and has no
\* defined outcome, when i is past the end.
panda_delete_plugin(i) ==
    panda_plugins' = SubSeq(panda_plugins, 1, i)
                       \o SubSeq(panda_plugins, i + 2, Len(panda_plugins))

\* panda_do_unload_plugin, for index i.
panda_do_unload_plugin_registered(i, next) ==
    \/ /\ i >= nb_panda_plugins \/ \E t \in Types : stale[t]
       /\ Undefined
       /\ UNCHANGED <<panda_plugins, lists>>
    \/ /\ i < nb_panda_plugins /\ \A t \in Types : ~stale[t]
       /\ panda_delete_plugin(i)
       /\ at' = next
       /\ UNCHANGED lists
panda_do_unload_plugin(i, next) ==
    \/ /\ i >= nb_panda_plugins \/ \E t \in Types : stale[t]
       /\ Undefined
       /\ UNCHANGED <<panda_plugins, lists>>
    \/ /\ i < nb_panda_plugins /\ \A t \in Types : ~stale[t]
       /\ panda_unregister_callbacks(panda_plugins[i + 1])
       /\ panda_delete_plugin(i)
       /\ at' = next

\* unload_plugin <idx>, or panda_unload_plugin by a plugin: a request.
panda_unload_plugin_idx_now(i) ==
    /\ Running /\ i \in 0 .. nb_panda_plugins - 1
    /\ panda_do_unload_plugin(i, at)
    /\ wanted' = wanted \cup {panda_plugins[i + 1]}
    /\ UNCHANGED <<panda_plugins_loaded, failed, panda_plugin_to_unload,
                   panda_plugins_to_unload, patient, walk>>
panda_unload_plugin_idx(i) ==
    /\ Running /\ i \in 0 .. nb_panda_plugins - 1
    /\ panda_plugin_to_unload' = TRUE
    /\ panda_plugins_to_unload' = panda_plugins_to_unload \cup {i}
    /\ patient' = (patient /\ panda_plugins_to_unload = {})
    /\ wanted' = wanted \cup {panda_plugins[i + 1]}
    /\ UNCHANGED <<panda_plugins, panda_plugins_loaded, failed, lists, walk, at>>

\* The CPU loop, between two blocks: the flag is cleared, then the flagged
\* indices are unloaded in ascending order.
BeginUnload_cleared ==
    /\ at = "run" /\ panda_plugin_to_unload
    /\ at' = "unload" /\ panda_plugin_to_unload' = FALSE
    /\ panda_plugins_to_unload' = {}
    /\ UNCHANGED <<panda_plugins, panda_plugins_loaded, failed, wanted, patient, lists, walk>>
BeginUnload ==
    /\ at = "run" /\ panda_plugin_to_unload
    /\ at' = "unload" /\ panda_plugin_to_unload' = FALSE
    /\ UNCHANGED <<panda_plugins, panda_plugins_loaded, failed, panda_plugins_to_unload,
                   wanted, patient, lists, walk>>

StepUnload_flagged ==
    /\ at = "unload"
    /\ \/ /\ panda_plugins_to_unload = {} /\ at' = "run"
          /\ UNCHANGED <<panda_plugins, lists>>
       \/ /\ panda_plugins_to_unload # {}
          /\ panda_do_unload_plugin(Min(panda_plugins_to_unload), "unload")
    /\ UNCHANGED <<panda_plugins_loaded, failed, unloads, walk>>
StepUnload ==
    /\ at = "unload"
    /\ \/ /\ panda_plugins_to_unload = {} /\ at' = "run"
          /\ UNCHANGED <<panda_plugins, panda_plugins_to_unload, lists>>
       \/ /\ panda_plugins_to_unload # {}
          /\ panda_do_unload_plugin(Min(panda_plugins_to_unload), "unload")
          /\ panda_plugins_to_unload' =
                panda_plugins_to_unload \ {Min(panda_plugins_to_unload)}
    /\ UNCHANGED <<panda_plugins_loaded, failed, panda_plugin_to_unload, wanted,
                   patient, walk>>

\* main, after main_loop: panda_cleanup unloads all plugins, the last one first.
panda_cleanup ==
    /\ at = "run" /\ at' = "exit"
    /\ UNCHANGED <<panda_plugins, panda_plugins_loaded, failed, unloads, lists, walk>>

panda_unload_plugins ==
    /\ at = "exit"
    /\ \/ nb_panda_plugins = 0 /\ at' = "exited" /\ UNCHANGED <<panda_plugins, lists>>
       \/ nb_panda_plugins > 0 /\ panda_do_unload_plugin(nb_panda_plugins - 1, "exit")
    /\ UNCHANGED <<panda_plugins_loaded, failed, unloads, walk>>

Init ==
    /\ panda_plugins = <<>> /\ panda_plugins_loaded = {}
    /\ panda_plugin_to_unload = FALSE /\ panda_plugins_to_unload = {}
    /\ panda_cbs = [t \in Types |-> <<>>] /\ stale = [t \in Types |-> FALSE]
    /\ walk = NoWalk /\ at = "run" /\ wanted = {}
    /\ patient = TRUE /\ failed = {}

\* The process is over.
Over == at \in {"exited", "aborted", "undefined"} /\ UNCHANGED vars

Next ==
    \/ \E p \in Plugins :
          \/ panda_load_plugin(p)
          \/ panda_require(p)
          \/ panda_enable_plugin(p)
          \/ panda_disable_plugin(p)
    \/ \E p \in Plugins, t \in Types : panda_register_callback(p, t)
    \/ \E i \in 0 .. MAX_PANDA_PLUGINS - 1 : panda_unload_plugin_idx(i)
    \/ \E t \in Types : BeginWalk(t)
    \/ StepWalk
    \/ BeginUnload
    \/ StepUnload
    \/ panda_cleanup
    \/ panda_unload_plugins
    \/ Over

Spec == Init /\ [][Next]_vars

\* Callbacks return, the guest runs on from block to block, and main finishes.
FairSpec ==
    /\ Spec
    /\ WF_vars(StepWalk) /\ SF_vars(BeginUnload) /\ WF_vars(StepUnload)
    /\ WF_vars(panda_unload_plugins)

(***************************************************************************)
(* Properties.                                                             *)
(***************************************************************************)

Loaded == Range(panda_plugins)
panda_cb_list == [owner : Plugins, enabled : BOOLEAN]

\* Every variable has its type; no plugin is in the array twice.
TypeOK ==
    /\ panda_plugins \in Seq(Plugins) /\ IsInjective(panda_plugins)
    /\ Loaded \subseteq panda_plugins_loaded
    /\ panda_plugins_loaded \subseteq Plugins
    /\ panda_plugin_to_unload \in BOOLEAN
    /\ panda_plugins_to_unload \subseteq 0 .. MAX_PANDA_PLUGINS - 1
    /\ panda_cbs \in [Types -> Seq(panda_cb_list)]
    /\ stale \in [Types -> BOOLEAN]
    /\ walk \in [type : Types, pos : 1 .. MaxEntries, owner : Plugins] \cup {NoWalk}
    /\ at \in {"run", "walk", "unload", "exit", "exited", "aborted", "undefined"}
    /\ wanted \subseteq Plugins /\ failed \subseteq panda_plugins_loaded
    /\ patient \in BOOLEAN

\* The types hold, and every callback belongs to a plugin that is loaded:
\* panda_do_unload_plugin takes a plugin's entries out of all lists before it
\* closes the plugin.  (A plugin whose init_plugin fails is closed with its
\* callbacks in the lists.)
CallbacksLive ==
    /\ TypeOK
    /\ \A t \in Types : \A i \in DOMAIN panda_cbs[t] :
        panda_cbs[t][i].owner \in Loaded \cup failed

\* No entry is unlinked while a walk stands on it, whatever callbacks ask for:
\* unloading waits for the CPU loop.
WalkSafe ==
    at = "walk" =>
        /\ walk.pos \in DOMAIN panda_cbs[walk.type]
        /\ panda_cbs[walk.type][walk.pos].owner = walk.owner

\* With the two, inductive: the lists stay within their bound, a walk is over
\* before the CPU loop or main unloads, and while unloads are asked for one at a
\* time there is at most one flagged index, that of a plugin that is wanted (until
\* main unloads all of them).
PluginInv ==
    /\ CallbacksLive /\ WalkSafe
    /\ \A t \in Types : Len(panda_cbs[t]) <= MaxEntries
    /\ IF at = "walk" THEN walk.type \in Types
       ELSE at \in {"run", "unload", "exit"} => walk = NoWalk
    /\ patient =>
        /\ \A i, j \in panda_plugins_to_unload : i = j
        /\ \A i \in panda_plugins_to_unload :
              /\ at \in {"run", "walk", "unload"} => i < nb_panda_plugins
              /\ i < nb_panda_plugins => panda_plugins[i + 1] \in wanted

\* While unloads are asked for one at a time, the CPU loop unloads only plugins
\* whose index an unload_plugin gave.
UnloadsRequested ==
    [][at = "unload" /\ patient => Loaded \ Loaded' \subseteq wanted]_vars

\* While unloads are asked for one at a time, a plugin that is to be unloaded is
\* unloaded, unless the process ends first or behaves in an undefined way.
UnloadHappens ==
    \A p \in Plugins :
        (p \in wanted /\ p \in Loaded) ~>
            (p \notin Loaded \/ ~patient \/ at \in {"exited", "aborted", "undefined"})
=============================================================================
