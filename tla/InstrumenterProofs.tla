---- MODULE InstrumenterProofs ----
(***************************************************************************)
(* What Instrumenter keeps, for any plugins, instrumentations and modules,  *)
(* and whatever modules do not fit.                                         *)
(***************************************************************************)
EXTENDS Instrumenter, TLAPS

\* What is remembered is wrapped, until unpatch.
Kept == ~unpatched => \A x \in instrumented : layers[x] = 1

\* Before init() there is no hook, and from the first hook on each plugin that
\* is registered is one that hookModule knows by name.
Hooks ==
    /\ ~enabled => seen = {} /\ hooked = {}
    /\ hooked # {} => Registered \subseteq names

IInv == TypeOK /\ WrappedOnce /\ NothingLeft /\ Kept /\ Hooks /\ SeenIsPatched

\* What patch and fail change.
Patches == TypeOK /\ WrappedOnce /\ NothingLeft /\ Kept

----------------------------------------------------------------------------

\* A pair's plugin is a plugin.
LEMMA OwnerType == \A x \in Pairs : Of(x) \in Plugin
BY InstrumenterAssumption DEF Pairs, Of

\* _patch with _fail: what it keeps, what it takes away and what it adds.
LEMMA PatchedKeeps ==
    ASSUME Patches, unpatched' = unpatched,
           NEW conf \in [Plugin -> {"none", "on", "off"}],
           NEW new \in SUBSET Pairs, NEW failing,
           \A x \in new : conf[Of(x)] # "none" /\ x \notin instrumented,
           \A p \in Plugin : config[p] # "none" => conf[p] # "none",
           Patched(conf, new, failing)
    PROVE  /\ config' \in [Plugin -> {"none", "on", "off"}]
           /\ instrumented' \subseteq Pairs
           /\ layers' \in [Pairs -> Nat]
           /\ \A x \in Pairs : layers'[x] > 0 => x \in instrumented'
           /\ WrappedOnce' /\ NothingLeft' /\ Kept'
           /\ \A x \in Pairs : layers'[x] < layers[x] => config'[Of(x)] = "none"
           /\ \A x \in new : Of(x) \notin failing => layers'[x] = 1
<1>1. config' \in [Plugin -> {"none", "on", "off"}]
  BY DEF Patched
<1>2. instrumented' \subseteq Pairs
  BY DEF Patched, Patches, TypeOK
<1>3. \A x \in Pairs : layers[x] \in {0, 1}
  BY DEF Patches, TypeOK, WrappedOnce
<1>4. \A x \in new : layers[x] = 0
  BY <1>3 DEF Patches, TypeOK
<1>5. \A x \in Pairs : Of(x) \in failing => config'[Of(x)] = "none"
  BY OwnerType DEF Patched
<1>6. \A x \in Pairs : Of(x) \notin failing => config'[Of(x)] = conf[Of(x)]
  BY OwnerType DEF Patched
<1>7. \A x \in Pairs : layers'[x] =
          LET n == IF x \in new THEN layers[x] + 1 ELSE layers[x] IN
          IF x \in GivenUp(failing, new) THEN Without(n) ELSE n
  BY DEF Patched
<1>8. \A x \in Pairs : x \in GivenUp(failing, new) => layers'[x] = 0
  <2>1. SUFFICES ASSUME NEW x \in Pairs, x \in GivenUp(failing, new)
                 PROVE  layers'[x] = 0
    OBVIOUS
  <2>2. CASE x \in new
    BY <1>4, <1>7, <2>1, <2>2 DEF Without
  <2>3. CASE x \notin new
    BY <1>3, <1>7, <2>1, <2>3 DEF Without
  <2> QED BY <2>2, <2>3
<1>9. \A x \in Pairs : x \notin GivenUp(failing, new) =>
          layers'[x] = IF x \in new THEN 1 ELSE layers[x]
  BY <1>4, <1>7
<1>10. \A x \in Pairs : layers'[x] \in {0, 1}
  BY <1>3, <1>8, <1>9
<1>11. layers' \in [Pairs -> Nat]
  <2>1. DOMAIN layers' = Pairs /\ layers' = [x \in Pairs |-> layers'[x]]
    BY DEF Patched
  <2> QED BY <1>10, <2>1
<1>12. \A x \in Pairs : layers'[x] > 0 =>
           /\ x \notin GivenUp(failing, new)
           /\ x \in new \/ layers[x] > 0
  BY <1>8, <1>9
<1>13. \A x \in Pairs : layers[x] > 0 => x \in instrumented
  BY DEF Patches, TypeOK
<1>14. \A x \in Pairs : layers'[x] > 0 => x \in instrumented' /\ Of(x) \notin failing
  BY <1>12, <1>13 DEF Patched, GivenUp
<1>15. WrappedOnce'
  BY <1>10 DEF WrappedOnce
<1>16. NothingLeft'
  BY <1>6, <1>12, <1>14, OwnerType DEF NothingLeft, Patches
<1>17. Kept'
  <2>1. SUFFICES ASSUME ~unpatched, NEW x \in instrumented'
                 PROVE  layers'[x] = 1
    BY DEF Kept
  <2>2. x \in Pairs /\ x \in instrumented \cup new /\ x \notin GivenUp(failing, new)
    BY <1>2, <2>1 DEF Patched, GivenUp
  <2> QED BY <1>9, <2>1, <2>2 DEF Patches, Kept
<1>18. \A x \in Pairs : layers'[x] < layers[x] => config'[Of(x)] = "none"
  <2>1. SUFFICES ASSUME NEW x \in Pairs, x \notin GivenUp(failing, new)
                 PROVE  ~(layers'[x] < layers[x])
    BY <1>5 DEF GivenUp
  <2> QED BY <1>3, <1>4, <1>9, <2>1
<1>19. \A x \in new : Of(x) \notin failing => layers'[x] = 1
  BY <1>9 DEF GivenUp
<1> QED BY <1>1, <1>2, <1>11, <1>14, <1>15, <1>16, <1>17, <1>18, <1>19

\* The same for _set with _load.
LEMMA SetKeeps ==
    ASSUME Patches, unpatched' = unpatched, enabled' \in BOOLEAN,
           NEW plugins \in SUBSET Plugin, NEW on \in {"on", "off"},
           Set(plugins, on)
    PROVE  /\ config' \in [Plugin -> {"none", "on", "off"}]
           /\ instrumented' \subseteq Pairs
           /\ layers' \in [Pairs -> Nat]
           /\ \A x \in Pairs : layers'[x] > 0 => x \in instrumented'
           /\ WrappedOnce' /\ NothingLeft' /\ Kept'
           /\ \A x \in Pairs : layers'[x] < layers[x] => config'[Of(x)] = "none"
<1> DEFINE conf == [p \in Plugin |-> IF p \in plugins THEN on ELSE config[p]]
           new  == IF ~enabled' THEN {}
                   ELSE Untried({x \in Pairs : Of(x) \in plugins /\ x[2] \in loaded \ Core})
<1>1. conf \in [Plugin -> {"none", "on", "off"}]
  BY DEF Patches, TypeOK
<1>2. new \in SUBSET Pairs /\ \A x \in new : x \notin instrumented /\ Of(x) \in plugins
  BY DEF Untried
<1>3. \A x \in new : conf[Of(x)] # "none" /\ x \notin instrumented
  BY <1>2
<1>4. \A p \in Plugin : config[p] # "none" => conf[p] # "none"
  OBVIOUS
<1>5. Patched(conf, new, {Of(x) : x \in new \cap unfit})
  BY DEF Set
<1> HIDE DEF conf, new
<1> QED BY <1>1, <1>2, <1>3, <1>4, <1>5, PatchedKeeps

\* The same for hookModule, and what it does for the module.
LEMMA HookKeeps ==
    ASSUME Patches, unpatched' = unpatched, NEW m \in Module, HookModule(m)
    PROVE  /\ config' \in [Plugin -> {"none", "on", "off"}]
           /\ \A p \in Plugin : config'[p] \in {"none", config[p]}
           /\ instrumented' \subseteq Pairs
           /\ layers' \in [Pairs -> Nat]
           /\ \A x \in Pairs : layers'[x] > 0 => x \in instrumented'
           /\ WrappedOnce' /\ NothingLeft' /\ Kept'
           /\ \A x \in Pairs : layers'[x] < layers[x] => config'[Of(x)] = "none"
           /\ \A x \in Pairs : /\ x[2] = m /\ ~unpatched /\ config'[Of(x)] # "none"
                               /\ Of(x) \in names
                  => /\ config'[Of(x)] = "on" => layers'[x] = 1
                     /\ <<Of(x), x[2]>> \notin lacks
<1>1. CASE \A x \in Pairs : x[2] = m => Of(x) \notin names
  <2>1. UNCHANGED <<config, instrumented, layers>>
    BY <1>1 DEF HookModule
  <2>2. \A x \in Pairs : ~(layers[x] < layers[x])
    BY DEF Patches, TypeOK
  <2> QED BY <1>1, <2>1, <2>2
          DEF Patches, TypeOK, WrappedOnce, NothingLeft, Kept
<1>2. CASE \E x \in Pairs : x[2] = m /\ Of(x) \in names
  <2> DEFINE new == Untried({x \in Pairs : /\ x[2] = m
                                           /\ config[Of(x)] = "on"
                                           /\ Of(x) \notin Refusing(m)})
             failing == Refusing(m) \cup {Of(x) : x \in new \cap unfit}
  <2>1. Patched(config, new, failing)
    BY <1>2 DEF HookModule
  <2>2. new \in SUBSET Pairs
    BY DEF Untried
  <2>3. \A x \in new : config[Of(x)] # "none" /\ x \notin instrumented
    BY DEF Untried
  <2>4. config \in [Plugin -> {"none", "on", "off"}]
    BY DEF Patches, TypeOK
  <2>5. /\ config' \in [Plugin -> {"none", "on", "off"}]
        /\ instrumented' \subseteq Pairs
        /\ layers' \in [Pairs -> Nat]
        /\ \A x \in Pairs : layers'[x] > 0 => x \in instrumented'
        /\ WrappedOnce' /\ NothingLeft' /\ Kept'
        /\ \A x \in Pairs : layers'[x] < layers[x] => config'[Of(x)] = "none"
        /\ \A x \in new : Of(x) \notin failing => layers'[x] = 1
    <3> HIDE DEF new, failing
    <3> QED BY <2>1, <2>2, <2>3, <2>4, PatchedKeeps
  <2>6. \A p \in Plugin : config'[p] = IF p \in failing THEN "none" ELSE config[p]
    BY <2>1 DEF Patched
  <2>7. ASSUME NEW x \in Pairs, x[2] = m, ~unpatched, config'[Of(x)] # "none"
        PROVE  /\ config'[Of(x)] = "on" => layers'[x] = 1
               /\ <<Of(x), x[2]>> \notin lacks
    <3>1. Of(x) \in Plugin /\ Of(x) \notin failing /\ config[Of(x)] = config'[Of(x)]
      BY <2>6, <2>7, OwnerType
    <3>2. Of(x) \notin Refusing(m)
      BY <3>1
    <3>3. <<Of(x), x[2]>> \notin lacks
      BY <2>7, <3>1, <3>2 DEF Refusing, Registered
    <3>4. ASSUME config'[Of(x)] = "on"
          PROVE  layers'[x] = 1
      <4>1. CASE x \in new
        BY <2>5, <3>1, <4>1
      <4>2. CASE x \notin new
        <5>1. x \in instrumented
          BY <2>7, <3>1, <3>2, <3>4, <4>2 DEF Untried
        <5>2. x \in instrumented'
          BY <2>1, <3>1, <5>1 DEF Patched
        <5> QED BY <2>5, <2>7, <5>2 DEF Kept
      <4> QED BY <4>1, <4>2
    <3> QED BY <3>3, <3>4
  <2> HIDE DEF new, failing
  <2> QED BY <2>5, <2>6, <2>7
<1> QED BY <1>1, <1>2

----------------------------------------------------------------------------

\* The first state.
LEMMA IInvInit == Init => IInv
<1> SUFFICES ASSUME Init PROVE IInv
  OBVIOUS
<1>1. \A x \in Pairs : <<Of(x), x[2]>> \in Plugin \X Module
  BY OwnerType DEF Pairs
<1>2. lacks \subseteq Plugin \X Module
  <2>1. lacks \subseteq {<<Of(x), x[2]>> : x \in Pairs}
    BY DEF Init
  <2>2. ASSUME NEW y \in lacks
        PROVE  y \in Plugin \X Module
    <3>1. PICK x \in Pairs : y = <<Of(x), x[2]>>
      BY <2>1
    <3> QED BY <1>1, <3>1
  <2> QED BY <2>2
<1>3. TypeOK
  <2>1. layers \in [Pairs -> Nat] /\ \A x \in Pairs : layers[x] = 0
    BY DEF Init
  <2>2. config \in [Plugin -> {"none", "on", "off"}]
    BY DEF Init
  <2>3. /\ names \subseteq Plugin /\ hooked \subseteq Plugin
        /\ seen \subseteq Module /\ loaded \subseteq Module
        /\ unfit \subseteq Pairs /\ instrumented \subseteq Pairs
    BY DEF Init
  <2>4. enabled \in BOOLEAN /\ unpatched \in BOOLEAN
    BY DEF Init
  <2> QED BY <1>2, <2>1, <2>2, <2>3, <2>4 DEF TypeOK
<1>4. WrappedOnce /\ NothingLeft /\ Kept
  BY DEF Init, WrappedOnce, NothingLeft, Kept
<1>5. Hooks /\ SeenIsPatched
  BY DEF Init, Hooks, SeenIsPatched
<1> QED BY <1>3, <1>4, <1>5 DEF IInv

\* Each step keeps the invariant, and takes instrumentation only from the
\* modules of a plugin that is given up.
LEMMA IInvStep ==
    ASSUME IInv, [Next]_vars
    PROVE  /\ IInv'
           /\ \A x \in Pairs : layers'[x] < layers[x] => config'[Of(x)] = "none"
<1> USE DEF IInv
<1>0. Patches
  BY DEF Patches
<1>1. ASSUME NEW p \in Plugin, NEW on \in {"on", "off"}, Use(p, on)
      PROVE  /\ IInv'
             /\ \A x \in Pairs : layers'[x] < layers[x] => config'[Of(x)] = "none"
  <2>1. /\ unpatched' = unpatched /\ enabled' = enabled /\ enabled' \in BOOLEAN
        /\ {p} \in SUBSET Plugin
    BY <1>1 DEF Use, TypeOK
  <2>2. /\ config' \in [Plugin -> {"none", "on", "off"}]
        /\ instrumented' \subseteq Pairs
        /\ layers' \in [Pairs -> Nat]
        /\ \A x \in Pairs : layers'[x] > 0 => x \in instrumented'
        /\ WrappedOnce' /\ NothingLeft' /\ Kept'
        /\ \A x \in Pairs : layers'[x] < layers[x] => config'[Of(x)] = "none"
    BY <1>0, <1>1, <2>1, SetKeeps DEF Use
  <2>3. seen' = {} /\ (~enabled => hooked' = {}) /\ (enabled => names' = Registered')
    BY <1>1, <2>1 DEF Use, Reload, Hooks, Registered
  <2>4. names' \subseteq Plugin /\ hooked' \subseteq Plugin
    BY <1>1 DEF Use, Reload, TypeOK
  <2>5. TypeOK'
    BY <1>1, <2>1, <2>2, <2>3, <2>4 DEF Use, TypeOK, packages
  <2>6. Hooks' /\ SeenIsPatched'
    BY <2>1, <2>3 DEF Hooks, SeenIsPatched
  <2> QED BY <2>2, <2>5, <2>6
<1>2. ASSUME UseUnknown
      PROVE  /\ IInv'
             /\ \A x \in Pairs : layers'[x] < layers[x] => config'[Of(x)] = "none"
  <2>1. \A x \in Pairs : ~(layers[x] < layers[x])
    BY DEF TypeOK
  <2>2. seen' = {} /\ (~enabled => hooked' = {}) /\ (enabled => names' = Registered')
    BY <1>2 DEF UseUnknown, Reload, Hooks, Registered
  <2>3. TypeOK'
    BY <1>2, <2>2 DEF UseUnknown, Reload, TypeOK, packages
  <2>4. Hooks' /\ SeenIsPatched'
    BY <1>2, <2>2 DEF UseUnknown, Hooks, SeenIsPatched
  <2> QED BY <1>2, <2>1, <2>3, <2>4 DEF UseUnknown, WrappedOnce, NothingLeft, Kept
<1>3. ASSUME NEW plugins \in SUBSET Plugin, InitTracer(plugins) \/ InitMisspelt(plugins)
      PROVE  /\ IInv'
             /\ \A x \in Pairs : layers'[x] < layers[x] => config'[Of(x)] = "none"
  <2>1. /\ unpatched' = unpatched /\ ~enabled /\ enabled' = TRUE
        /\ plugins \ Registered \in SUBSET Plugin /\ seen = {} /\ hooked = {}
    BY <1>3 DEF InitTracer, InitMisspelt, Hooks
  <2>2. /\ config' \in [Plugin -> {"none", "on", "off"}]
        /\ instrumented' \subseteq Pairs
        /\ layers' \in [Pairs -> Nat]
        /\ \A x \in Pairs : layers'[x] > 0 => x \in instrumented'
        /\ WrappedOnce' /\ NothingLeft' /\ Kept'
        /\ \A x \in Pairs : layers'[x] < layers[x] => config'[Of(x)] = "none"
    BY <1>0, <1>3, <2>1, SetKeeps DEF InitTracer, InitMisspelt
  <2>3. seen' = {} /\ (hooked' = {} \/ names' = Registered')
    BY <1>3, <2>1 DEF InitTracer, InitMisspelt, Reload, Registered
  <2>4. names' \subseteq Plugin /\ hooked' \subseteq Plugin
    BY <1>3, <2>1 DEF InitTracer, InitMisspelt, Reload, TypeOK
  <2>5. TypeOK'
    BY <1>3, <2>1, <2>2, <2>3, <2>4 DEF InitTracer, InitMisspelt, TypeOK, packages
  <2>6. Hooks' /\ SeenIsPatched'
    BY <2>1, <2>3 DEF Hooks, SeenIsPatched
  <2> QED BY <2>2, <2>5, <2>6
<1>4. ASSUME NEW m \in Module, Require(m)
      PROVE  /\ IInv'
             /\ \A x \in Pairs : layers'[x] < layers[x] => config'[Of(x)] = "none"
  <2>1. UNCHANGED <<enabled, names, hooked, packages, unpatched>> /\ loaded' = loaded \cup {m}
    BY <1>4 DEF Require
  <2>2. CASE m \notin seen /\ \E x \in Pairs : x[2] = m /\ Of(x) \in hooked
    <3>1. HookModule(m) /\ seen' = seen \cup {m} /\ unpatched' = unpatched
      BY <1>4, <2>2 DEF Require
    <3>2. /\ config' \in [Plugin -> {"none", "on", "off"}]
          /\ \A p \in Plugin : config'[p] \in {"none", config[p]}
          /\ instrumented' \subseteq Pairs
          /\ layers' \in [Pairs -> Nat]
          /\ \A x \in Pairs : layers'[x] > 0 => x \in instrumented'
          /\ WrappedOnce' /\ NothingLeft' /\ Kept'
          /\ \A x \in Pairs : layers'[x] < layers[x] => config'[Of(x)] = "none"
          /\ \A x \in Pairs : /\ x[2] = m /\ ~unpatched /\ config'[Of(x)] # "none"
                              /\ Of(x) \in names
                 => /\ config'[Of(x)] = "on" => layers'[x] = 1
                    /\ <<Of(x), x[2]>> \notin lacks
      BY <1>0, <3>1, HookKeeps
    <3>3. TypeOK'
      BY <2>1, <3>1, <3>2 DEF TypeOK, packages
    <3>4. hooked # {} /\ enabled /\ Registered' \subseteq Registered
      BY <2>2, <3>2 DEF Hooks, Registered
    <3>5. Hooks' /\ Registered' \subseteq names
      BY <2>1, <3>4 DEF Hooks, TypeOK
    <3>6. ASSUME ~unpatched, NEW x \in Pairs, x[2] \in seen', config'[Of(x)] # "none"
          PROVE  /\ config'[Of(x)] = "on" => layers'[x] = 1
                 /\ <<Of(x), x[2]>> \notin lacks
      <4>1. Of(x) \in names /\ Of(x) \in Plugin /\ config'[Of(x)] = config[Of(x)]
        BY <3>2, <3>5, <3>6, OwnerType DEF Registered
      <4>2. CASE x[2] = m
        BY <3>2, <3>6, <4>1, <4>2
      <4>3. CASE x[2] # m
        <5>1. x[2] \in seen
          BY <3>1, <3>6, <4>3
        <5>2. /\ config[Of(x)] = "on" => layers[x] = 1
              /\ <<Of(x), x[2]>> \notin lacks
          BY <3>6, <4>1, <5>1 DEF SeenIsPatched
        <5>3. ~(layers'[x] < layers[x]) /\ layers'[x] \in Nat /\ layers[x] \in Nat
          BY <3>2, <3>6 DEF TypeOK
        <5>4. layers'[x] <= 1
          BY <3>2 DEF WrappedOnce
        <5> QED BY <4>1, <5>2, <5>3, <5>4
      <4> QED BY <4>2, <4>3
    <3>7. SeenIsPatched'
      BY <2>1, <3>6 DEF SeenIsPatched, packages
    <3> QED BY <3>2, <3>3, <3>5, <3>7
  <2>3. CASE ~(m \notin seen /\ \E x \in Pairs : x[2] = m /\ Of(x) \in hooked)
    <3>1. UNCHANGED <<config, instrumented, layers, seen>>
      BY <1>4, <2>3 DEF Require
    <3>2. \A x \in Pairs : ~(layers[x] < layers[x])
      BY DEF TypeOK
    <3>3. TypeOK'
      BY <2>1, <3>1 DEF TypeOK, packages
    <3> QED BY <2>1, <3>1, <3>2, <3>3
            DEF WrappedOnce, NothingLeft, Kept, Hooks, SeenIsPatched, Registered, packages
  <2> QED BY <2>2, <2>3
<1>5. ASSUME Unpatch
      PROVE  /\ IInv'
             /\ \A x \in Pairs : layers'[x] < layers[x] => config'[Of(x)] = "none"
  <2>1. config' = [p \in Plugin |-> "none"] /\ unpatched'
    BY <1>5 DEF Unpatch
  <2>2. \A x \in Pairs : layers'[x] = 0
    BY <1>5 DEF Unpatch, TypeOK, WrappedOnce, Without
  <2>3. layers' \in [Pairs -> Nat]
    <3>1. layers' = [x \in Pairs |-> layers'[x]]
      BY <1>5 DEF Unpatch
    <3> QED BY <2>2, <3>1
  <2>4. TypeOK'
    BY <1>5, <2>1, <2>2, <2>3 DEF Unpatch, TypeOK, packages
  <2>5. Registered' = {}
    BY <2>1 DEF Registered
  <2>6. Hooks'
    BY <1>5, <2>5 DEF Unpatch, Hooks
  <2> QED BY <2>1, <2>2, <2>4, <2>6, OwnerType
          DEF WrappedOnce, NothingLeft, Kept, SeenIsPatched
<1>6. ASSUME UNCHANGED vars
      PROVE  /\ IInv'
             /\ \A x \in Pairs : layers'[x] < layers[x] => config'[Of(x)] = "none"
  <2>1. \A x \in Pairs : ~(layers[x] < layers[x])
    BY DEF TypeOK
  <2> QED BY <1>6, <2>1
          DEF vars, packages, TypeOK, WrappedOnce, NothingLeft, Kept, Hooks, SeenIsPatched, Registered
<1> QED BY <1>1, <1>2, <1>3, <1>4, <1>5, <1>6 DEF Next

\* The invariant holds always.
THEOREM Invariance == Spec => []IInv
<1>1. IInv /\ [Next]_vars => IInv'
  BY IInvStep
<1> QED BY IInvInit, <1>1, PTL DEF Spec

\* Type correctness: in particular what is wrapped is remembered, so that it
\* can be unwrapped.
THEOREM TypeCorrect == Spec => []TypeOK
<1>1. IInv => TypeOK
  BY DEF IInv
<1> QED BY <1>1, Invariance, PTL

\* No call is wrapped twice by one instrumentation (_patch).
THEOREM NeverWrappedTwice == Spec => []WrappedOnce
<1>1. IInv => WrappedOnce
  BY DEF IInv
<1> QED BY <1>1, Invariance, PTL

\* Nothing is left of a plugin that failed or was unpatched (_fail, unpatch).
THEOREM FailsWholly == Spec => []NothingLeft
<1>1. IInv => NothingLeft
  BY DEF IInv
<1> QED BY <1>1, Invariance, PTL

\* What a hook has seen is patched by the plugins that are switched on, and
\* refused by those that miss a file (hookModule, reload).
THEOREM HookCovers == Spec => []SeenIsPatched
<1>1. IInv => SeenIsPatched
  BY DEF IInv
<1> QED BY <1>1, Invariance, PTL

\* A plugin that fails takes the instrumentation of no other with it (_fail).
THEOREM FailsOnItsOwn == Spec => FailsAlone
<1>1. IInv /\ [Next]_vars =>
        [\A x \in Pairs : layers'[x] < layers[x] => config'[Of(x)] = "none"]_vars
  BY IInvStep
<1> QED BY <1>1, Invariance, PTL DEF FailsAlone, Spec
====
