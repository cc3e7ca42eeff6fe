---- MODULE Instrumenter ----
(***************************************************************************)
(* The instrumenter (instrumenter.js, with init and use of proxy.js): which *)
(* plugins are registered, and which modules their instrumentations have    *)
(* patched, while modules are loaded, plugins fail, and init() and use()    *)
(* come in any order.                                                       *)
(*                                                                          *)
(* One call runs to its end.  A plugin whose patch throws half way is       *)
(* unpatched and forgotten in the same call, so it is not seen in between.  *)
(***************************************************************************)
EXTENDS Naturals

CONSTANTS
    Plugin,     \* the plugins of ./plugins
    Instr,      \* their instrumentations
    Module,     \* module files that may be loaded
    Core,       \* those that are part of Node, which require.cache never holds
    Owner,      \* the plugin of an instrumentation
    Wants       \* the modules whose name, file and version it is for

ASSUME InstrumenterAssumption ==
    /\ Core \subseteq Module
    /\ Owner \in [Instr -> Plugin]
    /\ Wants \in [Instr -> SUBSET Module]

VARIABLES
    enabled,       \* _enabled, that is: init() was called
    config,        \* _plugins: whether a plugin is registered, and switched off
    names,         \* _names: the plugins that were registered at the last reload
    instrumented,  \* _instrumented, as pairs
    layers,        \* how often the methods of a module are wrapped
    hooked,        \* the plugins whose packages some require hook is for
    seen,          \* the modules that were hooked since the last reload
    loaded,        \* the modules that were required
    unfit,         \* the pairs whose patch throws: not the API it expects
    lacks,         \* the modules whose package misses a file of the plugin
    unpatched      \* unpatch() was called (history)

packages == <<unfit, lacks>>
vars == <<enabled, config, names, instrumented, layers, hooked, seen, loaded,
          packages, unpatched>>

Pairs == {x \in Instr \X Module : x[2] \in Wants[x[1]]}
Of(x) == Owner[x[1]]

\* The plugins in _plugins.
Registered == {p \in Plugin : config[p] # "none"}

----------------------------------------------------------------------------

\* Mutant of Untried: nobody remembers what is patched.
UntriedOrNot(pairs) == pairs

\* _patch leaves alone a module that it was called for.
Untried(pairs) == pairs \ instrumented

\* Mutants of GivenUp: only what was just patched, or everything.
GivenUpNew(failing, new) == {x \in new : Of(x) \in failing}
GivenUpAll(failing, new) ==
    IF failing = {} THEN {} ELSE instrumented \cup new

\* _fail: what is unpatched when these plugins have failed.
GivenUp(failing, new) == {x \in instrumented \cup new : Of(x) \in failing}

\* unpatch takes away one layer, if there is one.
Without(n) == IF n = 0 THEN 0 ELSE n - 1

\* _patch of the new pairs for the plugins of configuration conf, and _fail of
\* the plugins that fail.
Patched(conf, new, failing) ==
    /\ config' = [p \in Plugin |-> IF p \in failing THEN "none" ELSE conf[p]]
    /\ instrumented' = {x \in instrumented \cup new : Of(x) \notin failing}
    /\ layers' = [x \in Pairs |->
           LET n == IF x \in new THEN layers[x] + 1 ELSE layers[x] IN
           IF x \in GivenUp(failing, new) THEN Without(n) ELSE n]

\* _set and _load: plugins are registered, and the modules that are loaded
\* already are patched.  on is not read.
Set(plugins, on) ==
    LET new == IF ~enabled' THEN {}
               ELSE Untried({x \in Pairs : Of(x) \in plugins /\ x[2] \in loaded \ Core})
    IN Patched([p \in Plugin |-> IF p \in plugins THEN on ELSE config[p]],
               new, {Of(x) : x \in new \cap unfit})

\* Mutant of Reload: the modules that a hook has seen are not shown again.
ReloadOnce ==
    IF ~enabled' THEN UNCHANGED <<names, hooked, seen>>
    ELSE /\ names' = {p \in Plugin : config'[p] # "none"}
         /\ hooked' = hooked \cup names'
         /\ seen' = seen

\* reload: a new hook, which is shown each module once more.
Reload ==
    IF ~enabled' THEN UNCHANGED <<names, hooked, seen>>
    ELSE /\ names' = {p \in Plugin : config'[p] # "none"}
         /\ hooked' = hooked \cup names'
         /\ seen' = {}

\* tracer.use(): also before init() and for a plugin that has failed.
Use(p, on) ==
    /\ UNCHANGED enabled
    /\ Set({p}, on)
    /\ Reload
    /\ UNCHANGED <<loaded, packages, unpatched>>

\* The same with a name that is no plugin.
UseUnknown ==
    /\ UNCHANGED <<enabled, config, instrumented, layers>>
    /\ Reload
    /\ UNCHANGED <<loaded, packages, unpatched>>

\* tracer.init(), which does it once: the plugins that are wanted (all, none or
\* those of SIGNALFX_ENABLED_PLUGINS) and not yet registered are.
InitTracer(plugins) ==
    /\ ~enabled
    /\ enabled' = TRUE
    /\ Set(plugins \ Registered, "on")
    /\ Reload
    /\ UNCHANGED <<loaded, packages, unpatched>>

\* The same with a name in SIGNALFX_ENABLED_PLUGINS that is no plugin: init()
\* catches the error, and what comes after it is not done.
InitMisspelt(plugins) ==
    /\ ~enabled
    /\ enabled' = TRUE
    /\ Set(plugins \ Registered, "on")
    /\ UNCHANGED <<names, hooked, seen, loaded, packages, unpatched>>

\* Mutant of Refusing: nobody looks for the files.
RefusingNobody(m) == {}

\* _validate: the registered plugins, also those that are switched off, that
\* miss a file in the package of m.
Refusing(m) ==
    {p \in Registered : <<p, m>> \in lacks}

\* hookModule.
HookModule(m) ==
    IF \A x \in Pairs : x[2] = m => Of(x) \notin names
    THEN UNCHANGED <<config, instrumented, layers>>
    ELSE LET new == Untried({x \in Pairs : /\ x[2] = m
                                           /\ config[Of(x)] = "on"
                                           /\ Of(x) \notin Refusing(m)})
         IN Patched(config, new, Refusing(m) \cup {Of(x) : x \in new \cap unfit})

\* The application requires a module; the newest hook calls hookModule the
\* first time, whether the module is new or not.
Require(m) ==
    /\ loaded' = loaded \cup {m}
    /\ IF m \notin seen /\ \E x \in Pairs : x[2] = m /\ Of(x) \in hooked
       THEN HookModule(m) /\ seen' = seen \cup {m}
       ELSE UNCHANGED <<config, instrumented, layers, seen>>
    /\ UNCHANGED <<enabled, names, hooked, packages, unpatched>>

\* unpatch: _instrumented keeps what it has.
Unpatch ==
    /\ layers' = [x \in Pairs |-> IF x \in instrumented THEN Without(layers[x]) ELSE layers[x]]
    /\ config' = [p \in Plugin |-> "none"]
    /\ unpatched' = TRUE
    /\ UNCHANGED <<enabled, names, instrumented, hooked, seen, loaded, packages>>

----------------------------------------------------------------------------

Init ==
    /\ enabled = FALSE
    /\ config = [p \in Plugin |-> "none"]
    /\ names = {} /\ hooked = {} /\ seen = {}
    /\ instrumented = {}
    /\ layers = [x \in Pairs |-> 0]
    /\ loaded \in SUBSET Module
    /\ unfit \in SUBSET Pairs
    /\ lacks \in SUBSET {<<Of(x), x[2]>> : x \in Pairs}
    /\ unpatched = FALSE

Next ==
    \/ Unpatch \/ UseUnknown
    \/ \E p \in Plugin, on \in {"on", "off"} : Use(p, on)
    \/ \E plugins \in SUBSET Plugin : InitTracer(plugins) \/ InitMisspelt(plugins)
    \/ \E m \in Module : Require(m)

Spec == Init /\ [][Next]_vars

----------------------------------------------------------------------------
\* Properties.

\* Every variable has its type, and what is wrapped is remembered.
TypeOK ==
    /\ enabled \in BOOLEAN /\ unpatched \in BOOLEAN
    /\ config \in [Plugin -> {"none", "on", "off"}]
    /\ names \subseteq Plugin /\ hooked \subseteq Plugin
    /\ seen \subseteq Module /\ loaded \subseteq Module
    /\ unfit \subseteq Pairs /\ lacks \subseteq Plugin \X Module
    /\ instrumented \subseteq Pairs
    /\ layers \in [Pairs -> Nat]
    /\ \A x \in Pairs : layers[x] > 0 => x \in instrumented

\* No method is wrapped twice by one instrumentation, whatever the order of
\* init(), use(), failures and the hooks that pile up: it would make two spans
\* of each call.
WrappedOnce == \A x \in Pairs : layers[x] <= 1

\* Nothing is left of a plugin that is not registered: a plugin that fails with
\* one of its modules is undone in all of them.
NothingLeft == \A x \in Pairs : layers[x] > 0 => config[Of(x)] # "none"

\* A module loses its instrumentation only with its plugin: one plugin's failure
\* touches no other.
FailsAlone ==
    [][\A x \in Pairs : layers'[x] < layers[x] => config'[Of(x)] = "none"]_vars

\* A module that the hook has seen is patched by every plugin that is for it,
\* registered and switched on; and no plugin that misses a file in its package
\* is registered.
SeenIsPatched ==
    ~unpatched => \A x \in Pairs : x[2] \in seen /\ config[Of(x)] # "none"
        => /\ config[Of(x)] = "on" => layers[x] = 1
           /\ <<Of(x), x[2]>> \notin lacks

\* What test/instrumenter.spec.js says, "should not patch disabled plugins":
\* no step patches a module for a plugin that is switched off.
DisabledNotPatched ==
    [][\A x \in Pairs : layers'[x] > layers[x] => config'[Of(x)] = "on"]_vars
====
