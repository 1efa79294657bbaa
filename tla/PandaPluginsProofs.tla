------------------------- MODULE PandaPluginsProofs -------------------------
(***************************************************************************)
(* Proofs about PandaPlugins, for every set of plugins and of callback     *)
(* types, whatever the plugins register for.                               *)
(***************************************************************************)
EXTENDS PandaPlugins, WellFoundedInduction, TLAPS

(***************************************************************************)
(* The operators on lists.                                                 *)
(***************************************************************************)

\* A nonempty set of naturals has a least element, and Min finds it.
LEMMA LeastIndex ==
    ASSUME NEW S, S \subseteq Nat, S # {}
    PROVE  Min(S) \in S /\ \A m \in S : Min(S) <= m
<1>1. PICK n \in S : \A m \in S : <<m, n>> \notin OpToRel(<, Nat)
  BY WFMin, NatLessThanWellFounded, Zenon
<1>2. \A m \in S : ~(m < n)
  BY <1>1, ZenonT(30) DEF OpToRel
<1>3. \A m \in S : n <= m
  BY <1>2
<1> QED
  BY <1>3, Zenon DEF Min

\* The loop of panda_unregister_callbacks, stopped after entry n: h[i] is what is
\* linked after entry i.
Loop(list, p, n, h) ==
    h = [i \in 0 .. n |->
          IF i = 0 THEN <<>>
          ELSE IF list[i].owner = p THEN h[i - 1]
          ELSE Append(h[i - 1], list[i])]

\* Every prefix of the loop has a result.
LEMMA LoopRuns ==
    ASSUME NEW list, NEW p, NEW len \in Nat
    PROVE  \E h : Loop(list, p, len, h)
<1> DEFINE bad == {n \in 0 .. len : ~\E h : Loop(list, p, n, h)}
<1> SUFFICES ASSUME bad # {} PROVE FALSE
  OBVIOUS
<1> DEFINE n == Min(bad)
<1>1. n \in bad /\ \A m \in bad : n <= m
  BY LeastIndex, bad \subseteq Nat
<1> HIDE DEF n
<1>2. CASE n = 0
  <2>1. Loop(list, p, 0, [i \in 0 .. 0 |-> <<>>])
    BY DEF Loop
  <2> QED
    BY <1>1, <1>2, <2>1
<1>3. CASE n # 0
  <2>1. n - 1 \in 0 .. len /\ n \in Nat /\ n - 1 \notin bad
    BY <1>1, <1>3
  <2>2. PICK h : Loop(list, p, n - 1, h)
    BY <2>1
  <2> DEFINE next == IF list[n].owner = p THEN h[n - 1] ELSE Append(h[n - 1], list[n])
             g == [i \in 0 .. n |-> IF i = n THEN next ELSE h[i]]
  <2>3. \A i \in 0 .. n - 1 :
           h[i] = IF i = 0 THEN <<>>
                  ELSE IF list[i].owner = p THEN h[i - 1]
                  ELSE Append(h[i - 1], list[i])
    BY <2>1, <2>2, Zenon DEF Loop
  <2>4. \A i \in 0 .. n - 1 : g[i] = h[i] /\ i # n
    BY <2>1
  <2>5. ASSUME NEW i \in 0 .. n
        PROVE  g[i] = IF i = 0 THEN <<>>
                      ELSE IF list[i].owner = p THEN g[i - 1]
                      ELSE Append(g[i - 1], list[i])
    <3>1. CASE i = n
      <4>1. g[i] = next /\ g[i - 1] = h[n - 1] /\ i # 0
        BY <1>3, <2>1, <2>4, <3>1
      <4> HIDE DEF g
      <4> QED
        BY <3>1, <4>1
    <3>2. CASE i # n
      <4>1. i \in 0 .. n - 1 /\ (i # 0 => i - 1 \in 0 .. n - 1)
        BY <2>1, <3>2
      <4> HIDE DEF g
      <4> QED
        BY <2>3, <2>4, <4>1
    <3> QED
      BY <3>1, <3>2
  <2>6. Loop(list, p, n, g)
    <3>1. g = [i \in 0 .. n |-> g[i]]
      OBVIOUS
    <3> HIDE DEF g
    <3> QED
      BY <2>5, <3>1, Zenon DEF Loop
  <2> QED
    BY <1>1, <2>6
<1> QED
  BY <1>2, <1>3

\* What is linked after entry i are at most i of the list's entries, none of p.
LEMMA LoopKeeps ==
    ASSUME NEW S, NEW list \in Seq(S), NEW p, NEW h, Loop(list, p, Len(list), h)
    PROVE  \A i \in 0 .. Len(list) :
              h[i] \in Seq({e \in S : e.owner # p}) /\ Len(h[i]) <= i
<1> DEFINE T == {e \in S : e.owner # p}
           bad == {i \in 0 .. Len(list) : ~(h[i] \in Seq(T) /\ Len(h[i]) <= i)}
<1> SUFFICES ASSUME bad # {} PROVE FALSE
  OBVIOUS
<1> DEFINE n == Min(bad)
<1>1. n \in bad /\ \A m \in bad : n <= m
  BY LeastIndex, bad \subseteq Nat, Zenon
<1> HIDE DEF n
<1>2. h[n] = IF n = 0 THEN <<>>
             ELSE IF list[n].owner = p THEN h[n - 1]
             ELSE Append(h[n - 1], list[n])
  BY <1>1, Zenon DEF Loop
<1>5. n \in 0 .. Len(list) /\ ~(h[n] \in Seq(T) /\ Len(h[n]) <= n)
  BY <1>1
<1>3. CASE n = 0
  <2>1. h[n] = <<>>
    BY <1>2, <1>3
  <2> HIDE DEF T
  <2> QED
    BY <1>3, <1>5, <2>1
<1>4. CASE n # 0
  <2>1. n - 1 \in 0 .. Len(list) /\ n - 1 \notin bad /\ n \in Nat /\ n \in 1 .. Len(list)
    BY <1>1, <1>4
  <2>2. h[n - 1] \in Seq(T) /\ Len(h[n - 1]) <= n - 1
    BY <2>1
  <2>3. CASE list[n].owner = p
    BY <1>2, <1>4, <1>5, <2>1, <2>2, <2>3
  <2>4. CASE list[n].owner # p
    <3>1. list[n] \in T
      BY <2>1, <2>4
    <3> HIDE DEF T
    <3>2. /\ Append(h[n - 1], list[n]) \in Seq(T)
          /\ Len(Append(h[n - 1], list[n])) = Len(h[n - 1]) + 1
      BY <2>2, <3>1
    <3>3. h[n] = Append(h[n - 1], list[n])
      BY <1>2, <1>4, <2>4
    <3>4. Len(h[n - 1]) \in Nat
      BY <2>2
    <3> QED
      BY <1>5, <2>1, <2>2, <3>2, <3>3, <3>4
  <2> QED
    BY <2>3, <2>4
<1> QED
  BY <1>3, <1>4

\* The entries that are not of plugin p.
Others(S, p) == {e \in S : e.owner # p}

\* After panda_unregister_callbacks a list has only entries it had before, and
\* none of the plugin.
LEMMA UnlinkedEntries ==
    ASSUME NEW S, NEW list \in Seq(S), NEW p
    PROVE  /\ Unlinked(list, p) \in Seq(Others(S, p))
           /\ Len(Unlinked(list, p)) <= Len(list)
<1> DEFINE P(h) == Loop(list, p, Len(list), h)
           f == CHOOSE h : P(h)
<1>1. \E h : P(h)
  <2>1. Len(list) \in Nat
    OBVIOUS
  <2> QED
    BY <2>1, LoopRuns, Zenon
<1>2. P(f)
  <2> HIDE DEF P
  <2> QED
    BY <1>1
<1>3. Unlinked(list, p) = f[Len(list)]
  BY DEF Unlinked, Loop
<1> HIDE DEF f
<1> QED
  BY <1>2, <1>3, LoopKeeps DEF Others

\* A sequence without its k-th element.
Without(s, k) == SubSeq(s, 1, k - 1) \o SubSeq(s, k + 1, Len(s))

\* panda_delete_plugin takes one plugin out of the array and keeps the others.
LEMMA RemovedElement ==
    ASSUME NEW S, NEW s \in Seq(S), NEW k \in 1 .. Len(s)
    PROVE  /\ Without(s, k) \in Seq(S)
           /\ Len(Without(s, k)) = Len(s) - 1
           /\ \A i \in 1 .. Len(s) - 1 : Without(s, k)[i] = IF i < k THEN s[i] ELSE s[i + 1]
           /\ IsInjective(s) => /\ IsInjective(Without(s, k))
                                /\ Range(Without(s, k)) = Range(s) \ {s[k]}
<1> DEFINE r == Without(s, k)
<1>1. /\ r \in Seq(S) /\ Len(r) = Len(s) - 1
      /\ \A i \in 1 .. Len(s) - 1 : r[i] = IF i < k THEN s[i] ELSE s[i + 1]
  <2> DEFINE a == SubSeq(s, 1, k - 1)
             b == SubSeq(s, k + 1, Len(s))
  <2>1. a \in Seq(S) /\ Len(a) = k - 1 /\ \A i \in 1 .. k - 1 : a[i] = s[i]
    OBVIOUS
  <2>2. b \in Seq(S) /\ Len(b) = Len(s) - k /\ \A i \in 1 .. Len(s) - k : b[i] = s[k + i]
    OBVIOUS
  <2>3. r = a \o b
    BY DEF Without
  <2> HIDE DEF a, b, r
  <2>4. r \in Seq(S) /\ Len(r) = Len(s) - 1
    BY <2>1, <2>2, <2>3
  <2>5. ASSUME NEW i \in 1 .. Len(s) - 1 PROVE r[i] = IF i < k THEN s[i] ELSE s[i + 1]
    <3>1. CASE i < k
      BY <2>1, <2>2, <2>3, <3>1
    <3>2. CASE i >= k
      <4>1. r[i] = b[i - (k - 1)] /\ i - (k - 1) \in 1 .. Len(s) - k
        BY <2>1, <2>2, <2>3, <3>2
      <4>2. b[i - (k - 1)] = s[k + (i - (k - 1))] /\ k + (i - (k - 1)) = i + 1
        BY <2>2, <4>1
      <4> QED
        BY <3>2, <4>1, <4>2
    <3> QED
      BY <3>1, <3>2
  <2> QED
    BY <2>4, <2>5
<1>2. DOMAIN r = 1 .. Len(s) - 1 /\ DOMAIN s = 1 .. Len(s) /\ Len(s) \in Nat
  BY <1>1
<1> HIDE DEF r
<1>3. ASSUME IsInjective(s) PROVE IsInjective(r)
  <2>1. \A i, j \in 1 .. Len(s) : s[i] = s[j] => i = j
    BY <1>2, <1>3 DEF IsInjective
  <2>2. ASSUME NEW i \in 1 .. Len(s) - 1, NEW j \in 1 .. Len(s) - 1, r[i] = r[j] PROVE i = j
    <3>1. /\ i \in 1 .. Len(s) /\ i + 1 \in 1 .. Len(s)
          /\ j \in 1 .. Len(s) /\ j + 1 \in 1 .. Len(s)
      BY <1>2
    <3>2. /\ r[i] = IF i < k THEN s[i] ELSE s[i + 1]
          /\ r[j] = IF j < k THEN s[j] ELSE s[j + 1]
      BY <1>1
    <3> HIDE DEF r
    <3>3. /\ s[i] = s[j] => i = j
          /\ s[i] = s[j + 1] => i = j + 1
          /\ s[i + 1] = s[j] => i + 1 = j
          /\ s[i + 1] = s[j + 1] => i + 1 = j + 1
      BY <2>1, <3>1, Zenon
    <3>4. /\ i < k /\ j < k => i = j
          /\ i < k /\ ~(j < k) => i = j + 1
          /\ ~(i < k) /\ j < k => i + 1 = j
          /\ ~(i < k) /\ ~(j < k) => i + 1 = j + 1
      BY <2>2, <3>2, <3>3, Zenon
    <3> QED
      BY <1>2, <3>4
  <2> QED
    BY <1>2, <2>2 DEF IsInjective
<1>4. ASSUME IsInjective(s) PROVE Range(r) = Range(s) \ {s[k]}
  <2>1. ASSUME NEW i \in 1 .. Len(s) - 1 PROVE r[i] \in Range(s) /\ r[i] # s[k]
    <3>1. \A a, b \in 1 .. Len(s) : s[a] = s[b] => a = b
      BY <1>2, <1>4 DEF IsInjective
    <3>2. i \in 1 .. Len(s) /\ i + 1 \in 1 .. Len(s) /\ (i < k => i # k) /\ (i >= k => i + 1 # k)
      BY <1>2
    <3>3. r[i] = IF i < k THEN s[i] ELSE s[i + 1]
      BY <1>1
    <3>4. r[i] # s[k]
      BY <3>1, <3>2, <3>3
    <3>5. r[i] \in Range(s)
      BY <1>2, <3>2, <3>3 DEF Range
    <3> QED
      BY <3>4, <3>5
  <2>2. ASSUME NEW i \in 1 .. Len(s), s[i] # s[k] PROVE s[i] \in Range(r)
    <3>1. CASE i < k
      BY <1>1, <1>2, <3>1 DEF Range
    <3>2. CASE i > k
      <4>1. i - 1 \in 1 .. Len(s) - 1 /\ r[i - 1] = s[i]
        BY <1>1, <1>2, <3>2
      <4> QED
        BY <1>2, <4>1 DEF Range
    <3> QED
      BY <2>2, <3>1, <3>2
  <2> QED
    BY <1>2, <2>1, <2>2 DEF Range
<1> QED
  BY <1>1, <1>3, <1>4 DEF r

(***************************************************************************)
(* The parts of the invariant.                                             *)
(***************************************************************************)

\* The entries that belong to plugins of S.
Live(S) == {e \in panda_cb_list : e.owner \in S}

\* Callback lists whose entries belong to plugins of S.
LEMMA LiveLists ==
    ASSUME NEW cbs, NEW S
    PROVE  cbs \in [Types -> Seq(Live(S))]
            <=> /\ cbs \in [Types -> Seq(panda_cb_list)]
                /\ \A t \in Types : \A i \in DOMAIN cbs[t] : cbs[t][i].owner \in S
<1>1. ASSUME cbs \in [Types -> Seq(Live(S))], NEW t \in Types
      PROVE  /\ cbs[t] \in Seq(panda_cb_list)
             /\ \A i \in DOMAIN cbs[t] : cbs[t][i].owner \in S
  <2>1. cbs[t] \in Seq(Live(S))
    BY <1>1
  <2>2. \A i \in 1 .. Len(cbs[t]) : cbs[t][i] \in panda_cb_list /\ cbs[t][i].owner \in S
    BY <2>1 DEF Live
  <2>3. DOMAIN cbs[t] = 1 .. Len(cbs[t]) /\ Len(cbs[t]) \in Nat
    BY <2>1
  <2> QED
    BY <2>1, <2>2, <2>3
<1>2. ASSUME cbs \in [Types -> Seq(panda_cb_list)], NEW t \in Types,
             \A i \in DOMAIN cbs[t] : cbs[t][i].owner \in S
      PROVE  cbs[t] \in Seq(Live(S))
  <2>1. cbs[t] \in Seq(panda_cb_list)
    BY <1>2
  <2>2. DOMAIN cbs[t] = 1 .. Len(cbs[t]) /\ Len(cbs[t]) \in Nat
    BY <2>1
  <2>3. \A i \in 1 .. Len(cbs[t]) : cbs[t][i] \in Live(S)
    BY <1>2, <2>1, <2>2 DEF Live
  <2> QED
    BY <2>1, <2>2, <2>3
<1> QED
  BY <1>1, <1>2

\* The invariant, part by part: the array of plugins, the callback lists, the walk
\* over one of them, and what is to be unloaded.
ArrayInv ==
    /\ panda_plugins \in Seq(Plugins) /\ IsInjective(panda_plugins)
    /\ Loaded \subseteq panda_plugins_loaded
    /\ panda_plugins_loaded \subseteq Plugins
    /\ failed \subseteq panda_plugins_loaded

ListsInv ==
    /\ panda_cbs \in [Types -> Seq(Live(Loaded \cup failed))]
    /\ \A t \in Types : Len(panda_cbs[t]) <= MaxEntries
    /\ stale \in [Types -> BOOLEAN]

Place == [type : Types, pos : 1 .. MaxEntries, owner : Plugins]

WalkInv ==
    /\ at \in {"run", "walk", "unload", "exit", "exited", "aborted", "undefined"}
    /\ walk \in Place \cup {NoWalk}
    /\ at = "walk" =>
        /\ walk.type \in Types
        /\ walk.pos \in 1 .. Len(panda_cbs[walk.type])
        /\ panda_cbs[walk.type][walk.pos].owner = walk.owner
    /\ at \in {"run", "unload", "exit"} => walk = NoWalk

Flagged ==
    /\ \A i, j \in panda_plugins_to_unload : i = j
    /\ \A i \in panda_plugins_to_unload :
          /\ at \in {"run", "walk", "unload"} => i < nb_panda_plugins
          /\ i < nb_panda_plugins => panda_plugins[i + 1] \in wanted

UnloadInv ==
    /\ panda_plugin_to_unload \in BOOLEAN /\ patient \in BOOLEAN
    /\ panda_plugins_to_unload \subseteq 0 .. MAX_PANDA_PLUGINS - 1
    /\ wanted \subseteq Plugins
    /\ patient => Flagged

\* The parts make up the invariant.
LEMMA PluginInvParts ==
    PluginInv <=> ArrayInv /\ ListsInv /\ WalkInv /\ UnloadInv
<1>1. panda_cbs \in [Types -> Seq(panda_cb_list)] =>
        \A t \in Types : DOMAIN panda_cbs[t] = 1 .. Len(panda_cbs[t])
  OBVIOUS
<1>2. panda_cbs \in [Types -> Seq(Live(Loaded \cup failed))]
        <=> /\ panda_cbs \in [Types -> Seq(panda_cb_list)]
            /\ \A t \in Types : \A i \in DOMAIN panda_cbs[t] :
                  panda_cbs[t][i].owner \in Loaded \cup failed
  BY LiveLists, Zenon
<1> QED
  BY <1>1, <1>2, Zenon
     DEF PluginInv, CallbacksLive, TypeOK, WalkSafe, ArrayInv, ListsInv, WalkInv, Place,
         UnloadInv, Flagged

LEMMA PluginInvPartsNext ==
    PluginInv' <=> ArrayInv' /\ ListsInv' /\ WalkInv' /\ UnloadInv'
<1>1. panda_cbs' \in [Types -> Seq(panda_cb_list)] =>
        \A t \in Types : DOMAIN panda_cbs'[t] = 1 .. Len(panda_cbs'[t])
  OBVIOUS
<1>2. panda_cbs' \in [Types -> Seq(Live(Loaded' \cup failed'))]
        <=> /\ panda_cbs' \in [Types -> Seq(panda_cb_list)]
            /\ \A t \in Types : \A i \in DOMAIN panda_cbs'[t] :
                  panda_cbs'[t][i].owner \in Loaded' \cup failed'
  BY LiveLists, Zenon
<1> QED
  BY <1>1, <1>2, Zenon
     DEF PluginInv, CallbacksLive, TypeOK, WalkSafe, ArrayInv, ListsInv, WalkInv, Place,
         UnloadInv, Flagged

(***************************************************************************)
(* The steps.                                                              *)
(***************************************************************************)

LEMMA InitPlugins == Init => PluginInv
<1> SUFFICES ASSUME Init PROVE PluginInv
  OBVIOUS
<1> USE PluginAssumption DEF Init
<1>1. Loaded = {}
  BY DEF Loaded, Range
<1>2. ArrayInv
  BY <1>1 DEF ArrayInv, IsInjective
<1>3. ListsInv
  BY DEF ListsInv
<1>4. WalkInv
  BY Zenon DEF WalkInv
<1>5. UnloadInv
  BY Zenon DEF UnloadInv, Flagged
<1> QED
  BY <1>2, <1>3, <1>4, <1>5, PluginInvParts

\* A step that leaves the array, the lists and the walk alone: a load that finds no
\* file, what follows a stale head pointer, the CPU loop between two blocks.
LEMMA QuietStep ==
    ASSUME PluginInv,
           UNCHANGED <<panda_plugins, panda_cbs, stale, walk, wanted, patient>>,
           \/ at' = at \/ at' \in {"aborted", "undefined", "exited"}
           \/ (at \in {"run", "unload"} /\ at' \in {"run", "unload", "exit"}),
           panda_plugins_to_unload' \subseteq panda_plugins_to_unload,
           panda_plugin_to_unload' \in BOOLEAN,
           panda_plugins_loaded \subseteq panda_plugins_loaded',
           panda_plugins_loaded' \subseteq Plugins,
           failed \subseteq failed', failed' \subseteq panda_plugins_loaded'
    PROVE  PluginInv'
<1>1. ArrayInv /\ ListsInv /\ WalkInv /\ UnloadInv
  BY PluginInvParts
<1>2. Loaded' = Loaded
  BY DEF Loaded
<1>3. ArrayInv'
  BY <1>1, <1>2, Zenon DEF ArrayInv
<1>4. ListsInv'
  <2>1. panda_cbs' \in [Types -> Seq(panda_cb_list)]
    BY <1>1, LiveLists DEF ListsInv
  <2>2. \A t \in Types : \A i \in DOMAIN panda_cbs[t] :
            panda_cbs[t][i].owner \in Loaded' \cup failed'
    BY <1>1, <1>2, LiveLists DEF ListsInv
  <2>3. panda_cbs' \in [Types -> Seq(Live(Loaded' \cup failed'))]
    BY <2>1, <2>2, LiveLists
  <2> QED
    BY <1>1, <2>3, Zenon DEF ListsInv
<1>5. WalkInv'
  BY <1>1, Zenon DEF WalkInv, Place, NoWalk
<1>6. UnloadInv'
  <2>1. patient => Flagged'
    BY <1>1, Zenon DEF UnloadInv, Flagged, nb_panda_plugins
  <2> QED
    BY <1>1, <2>1, Zenon DEF UnloadInv
<1> QED
  BY <1>3, <1>4, <1>5, <1>6, PluginInvPartsNext

\* A walk whose place is counted one entry further from the head.
LEMMA PlaceMoves ==
    ASSUME NEW w \in Place
    PROVE  LET v == [w EXCEPT !.pos = w.pos + 1]
           IN  /\ v \in [type : Types, pos : Nat, owner : Plugins]
               /\ v.type = w.type /\ v.pos = w.pos + 1 /\ v.owner = w.owner
BY PluginAssumption DEF Place

\* A step that registers callbacks of p, a plugin that is loaded then or whose
\* init_plugin failed.
LEMMA RegisterStep ==
    ASSUME PluginInv, Running,
           NEW p \in Plugins, NEW types \in SUBSET Types, Fits(types), Registered(p, types),
           UNCHANGED <<stale, unloads>>,
           at' = at \/ at' = "aborted",
           ArrayInv',
           Loaded \subseteq Loaded', failed \subseteq failed', p \in Loaded' \cup failed',
           panda_plugins' = panda_plugins \/ panda_plugins' = Append(panda_plugins, p)
    PROVE  PluginInv'
<1>1. ArrayInv /\ ListsInv /\ WalkInv /\ UnloadInv
  BY PluginInvParts
<1> DEFINE S == Live(Loaded \cup failed)
           T == Live(Loaded' \cup failed')
           e == [owner |-> p, enabled |-> TRUE]
<1>2. e \in T
  BY DEF Live, panda_cb_list
<1>3. S \subseteq T
  BY DEF Live
<1> HIDE DEF S, T, e
<1>4. panda_cbs \in [Types -> Seq(T)]
  <2>1. panda_cbs \in [Types -> Seq(S)]
    BY <1>1, Zenon DEF ListsInv, S
  <2> QED
    BY <1>3, <2>1
<1>5. ASSUME NEW t \in Types
      PROVE  /\ panda_cbs'[t] \in Seq(T)
             /\ Len(panda_cbs'[t]) <= MaxEntries
             /\ t \notin types => panda_cbs'[t] = panda_cbs[t]
             /\ t \in types =>
                 /\ Len(panda_cbs'[t]) = Len(panda_cbs[t]) + 1
                 /\ \A i \in 1 .. Len(panda_cbs[t]) : panda_cbs'[t][i + 1] = panda_cbs[t][i]
  <2>1. panda_cbs[t] \in Seq(T) /\ Len(panda_cbs[t]) <= MaxEntries
    BY <1>1, <1>4 DEF ListsInv
  <2>2. panda_cbs'[t] = IF t \in types THEN <<e>> \o panda_cbs[t] ELSE panda_cbs[t]
    BY Zenon DEF Registered, e
  <2>3. t \in types => Len(panda_cbs[t]) < MaxEntries
    BY DEF Fits
  <2>4. MaxEntries \in Nat /\ Len(panda_cbs[t]) \in Nat
    BY <2>1, PluginAssumption
  <2>5. CASE t \in types
    <3>1. /\ <<e>> \o panda_cbs[t] \in Seq(T)
          /\ Len(<<e>> \o panda_cbs[t]) = Len(panda_cbs[t]) + 1
          /\ \A i \in 1 .. Len(panda_cbs[t]) : (<<e>> \o panda_cbs[t])[i + 1] = panda_cbs[t][i]
      BY <1>2, <2>1
    <3>2. panda_cbs'[t] = <<e>> \o panda_cbs[t]
      BY <2>2, <2>5
    <3> QED
      BY <2>3, <2>4, <2>5, <3>1, <3>2
  <2>6. CASE t \notin types
    BY <2>1, <2>2, <2>6
  <2> QED
    BY <2>5, <2>6
<1>6. ListsInv'
  <2>1. panda_cbs' = [t \in Types |-> panda_cbs'[t]]
    BY Zenon DEF Registered
  <2>2. panda_cbs' \in [Types -> Seq(T)]
    BY <1>5, <2>1
  <2> QED
    BY <1>1, <1>5, <2>2, Zenon DEF ListsInv, T
<1>7. WalkInv'
  <2>1. CASE at = "run"
    <3>1. walk = NoWalk /\ walk.type \notin types
      BY <1>1, <2>1, PluginAssumption DEF WalkInv, NoWalk
    <3>2. walk' = walk
      BY <3>1, Zenon DEF Registered
    <3> QED
      BY <2>1, <3>1, <3>2, Zenon DEF WalkInv, NoWalk
  <2>2. CASE at = "walk"
    <3>1. /\ walk.type \in Types
          /\ walk.pos \in 1 .. Len(panda_cbs[walk.type])
          /\ panda_cbs[walk.type][walk.pos].owner = walk.owner
      BY <1>1, <2>2, Zenon DEF WalkInv
    <3>2. walk # NoWalk
      BY <3>1, PluginAssumption DEF NoWalk
    <3>3. walk \in Place
      BY <1>1, <3>2, Zenon DEF WalkInv
    <3>4. CASE walk.type \in types
      <4>1. /\ walk' \in [type : Types, pos : Nat, owner : Plugins]
            /\ walk'.type = walk.type /\ walk'.pos = walk.pos + 1 /\ walk'.owner = walk.owner
        <5>1. walk' = [walk EXCEPT !.pos = walk.pos + 1]
          BY <3>4, Zenon DEF Registered
        <5> QED
          BY <5>1, <3>3, PlaceMoves
      <4>2. Len(panda_cbs'[walk.type]) = Len(panda_cbs[walk.type]) + 1
        BY <1>5, <3>1, <3>4
      <4>3. /\ panda_cbs'[walk.type][walk.pos + 1] = panda_cbs[walk.type][walk.pos]
            /\ Len(panda_cbs'[walk.type]) <= MaxEntries
        BY <1>5, <3>1, <3>4
      <4>4. Len(panda_cbs[walk.type]) \in Nat
        BY <1>4, <3>1
      <4>5. walk.pos + 1 \in 1 .. Len(panda_cbs'[walk.type]) /\ walk.pos + 1 \in 1 .. MaxEntries
        BY <3>1, <4>2, <4>3, <4>4, PluginAssumption
      <4>6. walk' \in Place
        BY <4>1, <4>5 DEF Place
      <4> QED
        BY <2>2, <3>1, <4>1, <4>3, <4>5, <4>6, Zenon DEF WalkInv
    <3>5. CASE walk.type \notin types
      <4>1. walk' = walk /\ panda_cbs'[walk.type] = panda_cbs[walk.type]
        BY <1>5, <3>1, <3>5, Zenon DEF Registered
      <4> QED
        BY <2>2, <3>1, <3>3, <4>1, Zenon DEF WalkInv
    <3> QED
      BY <3>4, <3>5
  <2> QED
    BY <2>1, <2>2 DEF Running
<1>8. UnloadInv'
  <2>1. ASSUME patient PROVE Flagged'
    <3>1. Flagged /\ panda_plugins \in Seq(Plugins) /\ panda_plugins_to_unload \subseteq Nat
      BY <1>1, <2>1 DEF UnloadInv, ArrayInv
    <3>2. \A i \in panda_plugins_to_unload : i < nb_panda_plugins
      BY <3>1, Zenon DEF Flagged, Running
    <3>3. \A i \in panda_plugins_to_unload :
            i < nb_panda_plugins' /\ panda_plugins'[i + 1] = panda_plugins[i + 1]
      BY <3>1, <3>2 DEF nb_panda_plugins
    <3> QED
      BY <3>1, <3>2, <3>3, Zenon DEF Flagged, unloads
  <2> QED
    BY <1>1, <2>1, Zenon DEF UnloadInv, unloads
<1> QED
  BY <1>6, <1>7, <1>8, PluginInvPartsNext

\* A callback registers another one.
LEMMA RegisterCallback ==
    ASSUME PluginInv, NEW p \in Plugins, NEW t \in Types, panda_register_callback(p, t)
    PROVE  PluginInv'
<1>1. ArrayInv /\ ListsInv /\ WalkInv /\ UnloadInv
  BY PluginInvParts
<1>2. UNCHANGED <<panda_plugins, panda_plugins_loaded, failed, unloads>> /\ Loaded' = Loaded
  BY Zenon DEF panda_register_callback, Loaded
<1>3. CASE stale[t] /\ Undefined /\ UNCHANGED <<lists, walk>>
  <2>1. UNCHANGED <<panda_plugins, panda_cbs, stale, walk, wanted, patient>> /\ at' = "undefined"
    BY <1>2, <1>3, Zenon DEF Undefined, lists, unloads
  <2> QED
    BY <1>1, <1>2, <2>1, QuietStep DEF ArrayInv, UnloadInv, unloads
<1>4. CASE ~stale[t] /\ Registered(p, {t}) /\ UNCHANGED <<stale, at>>
  <2>1. at = "walk" /\ walk.owner = p /\ Fits({t})
    BY Zenon DEF panda_register_callback
  <2>2. p \in Loaded \cup failed
    <3>1. /\ walk.type \in Types
          /\ walk.pos \in 1 .. Len(panda_cbs[walk.type])
          /\ panda_cbs[walk.type][walk.pos].owner = p
      BY <1>1, <2>1, Zenon DEF WalkInv
    <3>2. panda_cbs[walk.type] \in Seq(Live(Loaded \cup failed))
      BY <1>1, <3>1, Zenon DEF ListsInv
    <3>3. panda_cbs[walk.type][walk.pos] \in Live(Loaded \cup failed)
      BY <3>1, <3>2
    <3> QED
      BY <3>1, <3>3 DEF Live
  <2>3. ArrayInv'
    BY <1>1, <1>2, Zenon DEF ArrayInv
  <2>4. {t} \in SUBSET Types /\ Running /\ UNCHANGED <<stale, unloads>>
    BY <1>2, <1>4, <2>1, Zenon DEF Running
  <2> QED
    BY <1>2, <1>4, <2>1, <2>2, <2>3, <2>4, RegisterStep
<1> QED
  BY <1>3, <1>4, Zenon DEF panda_register_callback

\* A function on 1 .. n is a sequence of length n.
LEMMA IsSequence ==
    ASSUME NEW S, NEW n \in Nat, NEW f, f = [i \in 1 .. n |-> f[i]],
           \A i \in 1 .. n : f[i] \in S
    PROVE  f \in Seq(S) /\ Len(f) = n
<1>1. f \in [1 .. n -> S]
  BY Zenon
<1> QED
  BY <1>1

\* Enabling or disabling the entries of a plugin moves none of them.
LEMMA SetEnabledStep ==
    ASSUME PluginInv, NEW p \in Plugins, NEW b \in BOOLEAN, SetEnabled(p, b)
    PROVE  PluginInv'
<1>1. ArrayInv /\ ListsInv /\ WalkInv /\ UnloadInv
  BY PluginInvParts
<1>2. /\ UNCHANGED <<panda_plugins, panda_plugins_loaded, failed, unloads, stale, walk>>
      /\ Loaded' = Loaded
  BY Zenon DEF SetEnabled, Loaded
<1>3. CASE Undefined /\ UNCHANGED panda_cbs
  <2>1. UNCHANGED <<panda_plugins, panda_cbs, stale, walk, wanted, patient>> /\ at' = "undefined"
    BY <1>2, <1>3, Zenon DEF Undefined, unloads
  <2> QED
    BY <1>1, <1>2, <2>1, QuietStep DEF ArrayInv, UnloadInv, unloads
<1> DEFINE set(t) == [i \in DOMAIN panda_cbs[t] |->
                        IF panda_cbs[t][i].owner = p
                        THEN [panda_cbs[t][i] EXCEPT !.enabled = b] ELSE panda_cbs[t][i]]
<1>4. CASE panda_cbs' = [t \in Types |-> set(t)] /\ UNCHANGED at
  <2> DEFINE S == Live(Loaded \cup failed)
  <2>1. \A e \in S : /\ [e EXCEPT !.enabled = b] \in S
                     /\ [e EXCEPT !.enabled = b].owner = e.owner
    BY DEF Live, panda_cb_list
  <2>2. panda_cbs \in [Types -> Seq(S)]
    BY <1>1, Zenon DEF ListsInv
  <2> HIDE DEF S
  <2>3. ASSUME NEW t \in Types
        PROVE  /\ set(t) \in Seq(S)
               /\ Len(set(t)) = Len(panda_cbs[t])
               /\ \A i \in 1 .. Len(panda_cbs[t]) : set(t)[i].owner = panda_cbs[t][i].owner
    <3>1. /\ DOMAIN panda_cbs[t] = 1 .. Len(panda_cbs[t]) /\ Len(panda_cbs[t]) \in Nat
          /\ \A i \in 1 .. Len(panda_cbs[t]) : panda_cbs[t][i] \in S
      BY <2>2
    <3>2. /\ DOMAIN set(t) = 1 .. Len(panda_cbs[t])
          /\ \A i \in 1 .. Len(panda_cbs[t]) :
                set(t)[i] \in S /\ set(t)[i].owner = panda_cbs[t][i].owner
      BY <2>1, <3>1, Zenon
    <3>3. set(t) = [i \in 1 .. Len(panda_cbs[t]) |-> set(t)[i]]
      BY <3>1
    <3> HIDE DEF set
    <3> QED
      BY <3>1, <3>2, <3>3, IsSequence, Zenon
  <2>4. \A t \in Types : panda_cbs'[t] = set(t)
    BY <1>4, Zenon
  <2>5. panda_cbs' \in [Types -> Seq(S)]
    <3> HIDE DEF set
    <3> QED
      BY <1>4, <2>3
  <2> HIDE DEF set
  <2>6. ListsInv'
    BY <1>1, <1>2, <2>3, <2>4, <2>5, Zenon DEF ListsInv, S
  <2>7. WalkInv'
    BY <1>1, <1>2, <1>4, <2>3, <2>4, Zenon DEF WalkInv, Place, NoWalk
  <2>8. ArrayInv' /\ UnloadInv'
    BY <1>1, <1>2, <1>4, Zenon DEF ArrayInv, UnloadInv, Flagged, unloads, nb_panda_plugins
  <2> QED
    BY <2>6, <2>7, <2>8, PluginInvPartsNext
<1> QED
  BY <1>3, <1>4, Zenon DEF SetEnabled

\* A walk moves to an entry of its list.
LEMMA StandAtStep ==
    ASSUME PluginInv, NEW t \in Types, NEW i \in 1 .. Len(panda_cbs[t]), StandAt(t, i),
           UNCHANGED <<panda_plugins, panda_plugins_loaded, failed, unloads, lists>>,
           at \in {"run", "walk"}, at' = "walk"
    PROVE  PluginInv'
<1>1. ArrayInv /\ ListsInv /\ WalkInv /\ UnloadInv
  BY PluginInvParts
<1>2. Loaded' = Loaded
  BY DEF Loaded
<1>3. panda_cbs[t][i] \in panda_cb_list
  <2>1. panda_cbs[t] \in Seq(Live(Loaded \cup failed))
    BY <1>1, Zenon DEF ListsInv
  <2>2. panda_cbs[t][i] \in Live(Loaded \cup failed)
    BY <2>1
  <2> QED
    BY <2>2 DEF Live
<1>4. i \in 1 .. MaxEntries
  <2>1. Len(panda_cbs[t]) <= MaxEntries /\ Len(panda_cbs[t]) \in Nat
    BY <1>1 DEF ListsInv
  <2> QED
    BY <2>1, PluginAssumption
<1>5. walk' \in Place /\ walk'.type = t /\ walk'.pos = i /\ walk'.owner = panda_cbs[t][i].owner
  BY <1>3, <1>4 DEF StandAt, Place, panda_cb_list
<1>6. WalkInv'
  BY <1>5, Zenon DEF WalkInv, lists
<1>7. ArrayInv' /\ ListsInv' /\ UnloadInv'
  BY <1>1, <1>2, Zenon
     DEF ArrayInv, ListsInv, UnloadInv, Flagged, unloads, lists, nb_panda_plugins
<1> QED
  BY <1>6, <1>7, PluginInvPartsNext

\* The callbacks of a type are called.
LEMMA WalkStep ==
    ASSUME PluginInv, StepWalk \/ \E t \in Types : BeginWalk(t)
    PROVE  PluginInv'
<1>1. ArrayInv /\ ListsInv /\ WalkInv /\ UnloadInv
  BY PluginInvParts
<1>2. /\ UNCHANGED <<panda_plugins, panda_plugins_loaded, failed, unloads, lists>>
      /\ UNCHANGED <<panda_plugins, panda_cbs, stale, wanted, patient>>
      /\ UNCHANGED <<panda_plugin_to_unload, panda_plugins_to_unload>>
      /\ Loaded' = Loaded
  BY Zenon DEF StepWalk, BeginWalk, Loaded, unloads, lists
<1>3. ASSUME NEW t \in Types, BeginWalk(t) PROVE PluginInv'
  <2>1. CASE Undefined /\ UNCHANGED walk
    <3>1. at' = "undefined"
      BY <2>1 DEF Undefined
    <3> QED
      BY <1>1, <1>2, <2>1, <3>1, QuietStep DEF ArrayInv, UnloadInv, unloads
  <2>2. CASE at' = "walk" /\ StandAt(t, 1)
    <3>1. panda_cbs[t] \in Seq(Live(Loaded \cup failed)) /\ panda_cbs[t] # <<>> /\ at = "run"
      BY <1>1, <1>3, Zenon DEF ListsInv, BeginWalk
    <3>2. 1 \in 1 .. Len(panda_cbs[t])
      BY <3>1
    <3> QED
      BY <1>2, <2>2, <3>1, <3>2, StandAtStep
  <2> QED
    BY <1>3, <2>1, <2>2, Zenon DEF BeginWalk
<1>4. ASSUME StepWalk PROVE PluginInv'
  <2> DEFINE i == panda_cb_list_next(walk.type, walk.pos)
             after == {j \in walk.pos + 1 .. Len(panda_cbs[walk.type]) :
                         panda_cbs[walk.type][j].enabled}
  <2>1. at = "walk"
    BY <1>4 DEF StepWalk
  <2>2. /\ walk.type \in Types /\ walk.pos \in Nat
        /\ Len(panda_cbs[walk.type]) \in Nat
    <3>1. walk.type \in Types /\ walk.pos \in 1 .. Len(panda_cbs[walk.type])
      BY <1>1, <2>1, Zenon DEF WalkInv
    <3>2. panda_cbs[walk.type] \in Seq(Live(Loaded \cup failed))
      BY <1>1, <3>1, Zenon DEF ListsInv
    <3> QED
      BY <3>1, <3>2
  <2>3. i = 0 \/ i \in 1 .. Len(panda_cbs[walk.type])
    <3>1. after \subseteq Nat /\ after \subseteq 1 .. Len(panda_cbs[walk.type])
      BY <2>2
    <3>2. i = IF after = {} THEN 0 ELSE Min(after)
      BY Zenon DEF panda_cb_list_next
    <3> HIDE DEF after, i
    <3> QED
      BY <3>1, <3>2, LeastIndex, Zenon
  <2>4. CASE at' = "run" /\ walk' = NoWalk
    <3>1. WalkInv'
      BY <2>4, Zenon DEF WalkInv
    <3>2. ArrayInv' /\ ListsInv'
      BY <1>1, <1>2, Zenon DEF ArrayInv, ListsInv
    <3>3. Flagged => Flagged'
      BY <1>2, <2>1, Zenon DEF Flagged, unloads, nb_panda_plugins
    <3>4. UnloadInv'
      BY <1>1, <1>2, <3>3, Zenon DEF UnloadInv
    <3> QED
      BY <3>1, <3>2, <3>4, PluginInvPartsNext
  <2>5. CASE i # 0 /\ StandAt(walk.type, i) /\ UNCHANGED at
    <3> HIDE DEF i
    <3> QED
      BY <1>2, <2>1, <2>2, <2>3, <2>5, StandAtStep
  <2> QED
    BY <1>4, <2>4, <2>5, Zenon DEF StepWalk
<1> QED
  BY <1>3, <1>4

\* A plugin that is appended to the array was not in it.
LEMMA AppendedPlugin ==
    ASSUME NEW s \in Seq(Plugins), NEW p \in Plugins
    PROVE  /\ Append(s, p) \in Seq(Plugins)
           /\ Range(Append(s, p)) = Range(s) \cup {p}
           /\ IsInjective(s) /\ p \notin Range(s) => IsInjective(Append(s, p))
<1> DEFINE r == Append(s, p)
<1>1. /\ r \in Seq(Plugins) /\ Len(r) = Len(s) + 1 /\ Len(s) \in Nat
      /\ r[Len(s) + 1] = p /\ \A i \in 1 .. Len(s) : r[i] = s[i]
  OBVIOUS
<1>2. DOMAIN s = 1 .. Len(s) /\ DOMAIN r = 1 .. Len(s) + 1
  BY <1>1
<1> HIDE DEF r
<1>3. Range(r) = Range(s) \cup {p}
  BY <1>1, <1>2 DEF Range
<1>4. ASSUME IsInjective(s), p \notin Range(s) PROVE IsInjective(r)
  <2>1. \A i \in 1 .. Len(s) : s[i] # p
    BY <1>2, <1>4, Zenon DEF Range
  <2>2. \A i, j \in 1 .. Len(s) : s[i] = s[j] => i = j
    BY <1>2, <1>4, Zenon DEF IsInjective
  <2>3. ASSUME NEW i \in 1 .. Len(s) + 1, NEW j \in 1 .. Len(s) + 1, r[i] = r[j] PROVE i = j
    <3>1. CASE i \in 1 .. Len(s) /\ j \in 1 .. Len(s)
      BY <1>1, <2>2, <2>3, <3>1, Zenon
    <3>2. CASE i = Len(s) + 1 /\ j \in 1 .. Len(s)
      BY <1>1, <2>1, <2>3, <3>2, Zenon
    <3>3. CASE i \in 1 .. Len(s) /\ j = Len(s) + 1
      BY <1>1, <2>1, <2>3, <3>3, Zenon
    <3> QED
      BY <1>1, <3>1, <3>2, <3>3
  <2> QED
    BY <1>2, <2>3, Zenon DEF IsInjective
<1> QED
  BY <1>1, <1>3, <1>4 DEF r

\* A plugin is loaded, or its load fails; next is at or "aborted".
LEMMA LoadStep ==
    ASSUME PluginInv, NEW p \in Plugins, NEW next, next = at \/ next = "aborted", Load(p, next)
    PROVE  PluginInv'
<1>1. ArrayInv /\ ListsInv /\ WalkInv /\ UnloadInv
  BY PluginInvParts
<1>2. /\ Running /\ p \notin panda_plugins_loaded /\ Fits(Registers[p])
      /\ panda_plugins_loaded' = panda_plugins_loaded \cup {p}
      /\ UNCHANGED <<stale, unloads>>
      /\ UNCHANGED <<stale, wanted, patient, panda_plugin_to_unload, panda_plugins_to_unload>>
  BY Zenon DEF Load, NotLoaded, unloads
<1>3. /\ Loaded \subseteq panda_plugins_loaded /\ panda_plugins_loaded \subseteq Plugins
      /\ failed \subseteq panda_plugins_loaded
      /\ panda_plugins \in Seq(Plugins) /\ IsInjective(panda_plugins)
      /\ panda_plugin_to_unload \in BOOLEAN
  BY <1>1, Zenon DEF ArrayInv, UnloadInv
<1>4. Registers[p] \in SUBSET Types
  BY PluginAssumption
<1>5. ASSUME at' \in {at, "aborted", "undefined"},
             UNCHANGED <<panda_plugins, panda_cbs, walk>>,
             failed' = failed \/ failed' = failed \cup {p}
      PROVE  PluginInv'
  BY <1>2, <1>3, <1>5, QuietStep
<1>6. CASE Undefined /\ UNCHANGED <<panda_plugins, panda_cbs, walk, failed>>
  BY <1>5, <1>6 DEF Undefined
<1>7. CASE /\ InitPlugin(p, Registers[p], at)
           /\ panda_plugins' = Append(panda_plugins, p)
           /\ UNCHANGED failed
  <2>1. /\ panda_plugins' \in Seq(Plugins) /\ IsInjective(panda_plugins')
        /\ Loaded' = Loaded \cup {p}
    BY <1>2, <1>3, <1>7, AppendedPlugin DEF Loaded
  <2>2. ArrayInv'
    BY <1>2, <1>3, <1>7, <2>1 DEF ArrayInv
  <2>3. CASE at' = at /\ Registered(p, Registers[p])
    BY <1>2, <1>4, <1>7, <2>1, <2>2, <2>3, RegisterStep
  <2>4. CASE Undefined /\ UNCHANGED <<panda_cbs, walk>>
    <3>1. ListsInv'
      <4>1. \A t \in Types : \A i \in DOMAIN panda_cbs[t] :
                panda_cbs[t][i].owner \in Loaded' \cup failed'
        BY <1>1, <1>7, <2>1, LiveLists DEF ListsInv
      <4>2. panda_cbs' \in [Types -> Seq(Live(Loaded' \cup failed'))]
        BY <1>1, <2>4, <4>1, LiveLists DEF ListsInv
      <4> QED
        BY <1>1, <1>2, <2>4, <4>2, Zenon DEF ListsInv
    <3>2. WalkInv'
      BY <1>1, <2>4, Zenon DEF WalkInv, Undefined, Place, NoWalk
    <3>3. ASSUME patient PROVE Flagged'
      <4>1. Flagged /\ panda_plugins_to_unload \subseteq Nat
        BY <1>1, <3>3 DEF UnloadInv
      <4>2. \A i \in panda_plugins_to_unload : i < nb_panda_plugins
        BY <1>2, <4>1, Zenon DEF Flagged, Running
      <4>3. \A i \in panda_plugins_to_unload :
              i < nb_panda_plugins' /\ panda_plugins'[i + 1] = panda_plugins[i + 1]
        BY <1>3, <1>7, <4>1, <4>2 DEF nb_panda_plugins
      <4> QED
        BY <1>2, <4>1, <4>2, <4>3, Zenon DEF Flagged
    <3>4. UnloadInv'
      BY <1>1, <1>2, <3>3, Zenon DEF UnloadInv
    <3> QED
      BY <2>2, <3>1, <3>2, <3>4, PluginInvPartsNext
  <2> QED
    BY <1>7, <2>3, <2>4, Zenon DEF InitPlugin
<1>8. CASE at' = next /\ UNCHANGED <<panda_plugins, panda_cbs, walk, failed>>
  BY <1>5, <1>8
<1>9. CASE /\ \E types \in SUBSET Registers[p] : InitPlugin(p, types, next)
           /\ failed' = failed \cup {p}
           /\ UNCHANGED panda_plugins
  <2>1. PICK types \in SUBSET Registers[p] : InitPlugin(p, types, next)
    BY <1>9
  <2>2. Loaded' = Loaded
    BY <1>9 DEF Loaded
  <2>3. CASE Undefined /\ UNCHANGED <<panda_cbs, walk>>
    BY <1>5, <1>9, <2>3 DEF Undefined
  <2>4. CASE at' = next /\ Registered(p, types)
    <3>1. ArrayInv'
      BY <1>2, <1>3, <1>9, <2>2 DEF ArrayInv
    <3>2. types \in SUBSET Types /\ Fits(types)
      BY <1>2, <1>4, <2>1 DEF Fits
    <3> QED
      BY <1>2, <1>9, <2>2, <2>4, <3>1, <3>2, RegisterStep
  <2> QED
    BY <2>1, <2>3, <2>4, Zenon DEF InitPlugin
<1> QED
  BY <1>6, <1>7, <1>8, <1>9, Zenon DEF Load

\* An unload is asked for.
LEMMA RequestStep ==
    ASSUME PluginInv, NEW i \in 0 .. MAX_PANDA_PLUGINS - 1, panda_unload_plugin_idx(i)
    PROVE  PluginInv'
<1>1. ArrayInv /\ ListsInv /\ WalkInv /\ UnloadInv
  BY PluginInvParts
<1> USE DEF panda_unload_plugin_idx
<1>2. Loaded' = Loaded
  BY DEF Loaded
<1>3. i \in 0 .. nb_panda_plugins - 1 /\ panda_plugins \in Seq(Plugins) /\ nb_panda_plugins \in Nat
  BY <1>1 DEF ArrayInv, nb_panda_plugins
<1>4. i < nb_panda_plugins /\ panda_plugins[i + 1] \in Plugins
  BY <1>3 DEF nb_panda_plugins
<1>5. ArrayInv' /\ ListsInv' /\ WalkInv'
  BY <1>1, <1>2, Zenon DEF ArrayInv, ListsInv, WalkInv, Place, NoWalk, lists
<1>6. patient' \in BOOLEAN /\ (patient' => panda_plugins_to_unload = {})
  BY Zenon
<1>7. ASSUME patient' PROVE Flagged'
  <2>1. panda_plugins_to_unload' = {i}
    BY <1>6, <1>7, Zenon
  <2>2. nb_panda_plugins' = nb_panda_plugins
    BY DEF nb_panda_plugins
  <2> QED
    BY <1>4, <2>1, <2>2, Zenon DEF Flagged
<1>8. UnloadInv'
  BY <1>1, <1>4, <1>6, <1>7, Zenon DEF UnloadInv
<1> QED
  BY <1>5, <1>8, PluginInvPartsNext

\* A plugin is unloaded: its entries leave the lists with it, and the others stay
\* with their plugins.
LEMMA DoUnload ==
    ASSUME PluginInv, NEW i \in Nat, i < nb_panda_plugins,
           at \in {"unload", "exit"}, at' = at,
           panda_unregister_callbacks(panda_plugins[i + 1]), panda_delete_plugin(i),
           UNCHANGED <<panda_plugins_loaded, failed, walk>>
    PROVE  /\ ArrayInv' /\ ListsInv' /\ WalkInv'
           /\ Loaded' = Loaded \ {panda_plugins[i + 1]}
           /\ nb_panda_plugins' = nb_panda_plugins - 1 /\ nb_panda_plugins \in Nat
           /\ \A j \in Nat : j < i => panda_plugins'[j + 1] = panda_plugins[j + 1]
<1>1. ArrayInv /\ ListsInv /\ WalkInv /\ UnloadInv
  BY PluginInvParts
<1> DEFINE p == panda_plugins[i + 1]
           S == Live(Loaded \cup failed)
           T == Live(Loaded' \cup failed')
<1>2. panda_plugins \in Seq(Plugins) /\ IsInjective(panda_plugins) /\ i + 1 \in 1 .. Len(panda_plugins)
  BY <1>1 DEF ArrayInv, nb_panda_plugins
<1>3. /\ panda_plugins' \in Seq(Plugins) /\ IsInjective(panda_plugins')
      /\ Len(panda_plugins') = Len(panda_plugins) - 1 /\ Len(panda_plugins) \in Nat
      /\ Loaded' = Loaded \ {p}
      /\ panda_plugins' = Without(panda_plugins, i + 1)
  <2>1. panda_plugins' = Without(panda_plugins, i + 1)
    <3>1. (i + 1) - 1 = i /\ (i + 1) + 1 = i + 2
      OBVIOUS
    <3> QED
      BY <3>1, Zenon DEF panda_delete_plugin, Without
  <2>2. /\ panda_plugins' \in Seq(Plugins) /\ IsInjective(panda_plugins')
        /\ Len(panda_plugins') = Len(panda_plugins) - 1
        /\ Range(panda_plugins') = Range(panda_plugins) \ {p}
    BY <1>2, <2>1, RemovedElement, ZenonT(30)
  <2>3. Len(panda_plugins) \in Nat
    BY <1>2
  <2>4. Loaded' = Range(panda_plugins') /\ Loaded = Range(panda_plugins)
    BY DEF Loaded
  <2> HIDE DEF p
  <2> QED
    BY <2>1, <2>2, <2>3, <2>4
<1>4. ASSUME NEW j \in Nat, j < i PROVE panda_plugins'[j + 1] = panda_plugins[j + 1]
  <2>1. j + 1 \in 1 .. Len(panda_plugins) - 1 /\ j + 1 < i + 1
    BY <1>2, <1>4
  <2> QED
    BY <1>2, <1>3, <2>1, RemovedElement, SMTT(30)
<1>5. ArrayInv'
  BY <1>1, <1>3 DEF ArrayInv
<1>6. {e \in S : e.owner # p} \subseteq T
  BY <1>3 DEF Live
<1>7. panda_cbs \in [Types -> Seq(S)]
  BY <1>1, Zenon DEF ListsInv
<1> HIDE DEF S, T, p
<1>8. ASSUME NEW t \in Types
      PROVE  panda_cbs'[t] \in Seq(T) /\ Len(panda_cbs'[t]) <= MaxEntries
  <2>1. panda_cbs'[t] = Unlinked(panda_cbs[t], p)
    BY Zenon DEF panda_unregister_callbacks, p
  <2>2. panda_cbs[t] \in Seq(S) /\ Len(panda_cbs[t]) <= MaxEntries
    BY <1>1, <1>7 DEF ListsInv
  <2> DEFINE U == Others(S, p)
  <2>3. panda_cbs'[t] \in Seq(U) /\ Len(panda_cbs'[t]) <= Len(panda_cbs[t])
    BY <2>1, <2>2, UnlinkedEntries, Zenon
  <2>4. U \subseteq T
    BY <1>6 DEF Others
  <2> HIDE DEF U
  <2>5. panda_cbs'[t] \in Seq(T) /\ Len(panda_cbs'[t]) \in Nat /\ Len(panda_cbs[t]) \in Nat
    BY <2>2, <2>3, <2>4
  <2> QED
    BY <2>2, <2>3, <2>5, PluginAssumption
<1>9. ListsInv'
  <2>1. panda_cbs' = [t \in Types |-> panda_cbs'[t]]
    BY Zenon DEF panda_unregister_callbacks
  <2>2. panda_cbs' \in [Types -> Seq(T)]
    BY <1>8, <2>1
  <2>3. stale' \in [Types -> BOOLEAN]
    BY Zenon DEF panda_unregister_callbacks
  <2> QED
    BY <1>8, <2>2, <2>3, Zenon DEF ListsInv, T
<1>10. WalkInv'
  BY <1>1, Zenon DEF WalkInv, Place, NoWalk
<1> QED
  BY <1>3, <1>4, <1>5, <1>9, <1>10 DEF p, nb_panda_plugins

\* The CPU loop unloads the plugin at the lowest flagged index.
LEMMA UnloadStep ==
    ASSUME PluginInv, StepUnload
    PROVE  /\ PluginInv'
           /\ patient => Loaded \ Loaded' \subseteq wanted
<1>1. ArrayInv /\ ListsInv /\ WalkInv /\ UnloadInv
  BY PluginInvParts
<1> DEFINE i == Min(panda_plugins_to_unload)
<1>2. /\ at = "unload"
      /\ UNCHANGED <<panda_plugins_loaded, failed, panda_plugin_to_unload, wanted, patient, walk>>
  BY Zenon DEF StepUnload
<1>3. CASE /\ panda_plugins_to_unload = {} /\ at' = "run"
           /\ UNCHANGED <<panda_plugins, panda_plugins_to_unload, lists>>
  <2>1. Loaded' = Loaded
    BY <1>3 DEF Loaded
  <2>2. UNCHANGED <<panda_plugins, panda_cbs, stale, walk, wanted, patient>>
    BY <1>2, <1>3, Zenon DEF lists
  <2>3. PluginInv'
    BY <1>1, <1>2, <1>3, <2>2, QuietStep DEF ArrayInv, UnloadInv
  <2> QED
    BY <2>1, <2>3
<1>4. CASE /\ panda_plugins_to_unload # {}
           /\ panda_do_unload_plugin(i, "unload")
           /\ panda_plugins_to_unload' = panda_plugins_to_unload \ {i}
  <2>1. panda_plugins_to_unload \subseteq Nat
    BY <1>1 DEF UnloadInv
  <2>2. i \in panda_plugins_to_unload /\ i \in Nat
    BY <1>4, <2>1, LeastIndex, Zenon
  <2> HIDE DEF i
  <2>3. CASE Undefined /\ UNCHANGED <<panda_plugins, lists>>
    <3>1. Loaded' = Loaded
      BY <2>3 DEF Loaded
    <3>2. UNCHANGED <<panda_plugins, panda_cbs, stale, walk, wanted, patient>> /\ at' = "undefined"
      BY <1>2, <2>3, Zenon DEF lists, Undefined
    <3>3. PluginInv'
      BY <1>1, <1>2, <1>4, <3>2, QuietStep DEF ArrayInv, UnloadInv
    <3> QED
      BY <3>1, <3>3
  <2>4. CASE /\ i < nb_panda_plugins
             /\ panda_unregister_callbacks(panda_plugins[i + 1])
             /\ panda_delete_plugin(i)
             /\ at' = "unload"
    <3>1. /\ ArrayInv' /\ ListsInv' /\ WalkInv'
          /\ Loaded' = Loaded \ {panda_plugins[i + 1]}
      BY <1>2, <2>2, <2>4, DoUnload
    <3>2. ASSUME patient PROVE panda_plugins[i + 1] \in wanted /\ Flagged'
      <4>1. Flagged
        BY <1>1, <3>2 DEF UnloadInv
      <4>2. panda_plugins_to_unload' = {}
        BY <1>4, <2>2, <4>1 DEF Flagged
      <4> QED
        BY <2>2, <2>4, <4>1, <4>2, Zenon DEF Flagged
    <3>3. UnloadInv'
      BY <1>1, <1>2, <1>4, <3>2, Zenon DEF UnloadInv
    <3> QED
      BY <3>1, <3>2, <3>3, PluginInvPartsNext
  <2> QED
    BY <1>4, <2>3, <2>4, Zenon DEF panda_do_unload_plugin
<1> QED
  BY <1>3, <1>4, Zenon DEF StepUnload

\* main unloads the last plugin of the array.
LEMMA CleanupStep ==
    ASSUME PluginInv, panda_unload_plugins
    PROVE  PluginInv'
<1>1. ArrayInv /\ ListsInv /\ WalkInv /\ UnloadInv
  BY PluginInvParts
<1> DEFINE i == nb_panda_plugins - 1
<1>2. /\ at = "exit" /\ UNCHANGED <<panda_plugins_loaded, failed, unloads, walk>>
      /\ UNCHANGED <<panda_plugin_to_unload, panda_plugins_to_unload, wanted, patient>>
  BY Zenon DEF panda_unload_plugins, unloads
<1>3. ASSUME at' \in {"exited", "undefined"}, UNCHANGED <<panda_plugins, lists>> PROVE PluginInv'
  <2>1. UNCHANGED <<panda_plugins, panda_cbs, stale, walk, wanted, patient>>
    BY <1>2, <1>3, Zenon DEF lists
  <2> QED
    BY <1>1, <1>2, <1>3, <2>1, QuietStep DEF ArrayInv, UnloadInv
<1>4. CASE at' = "exited" /\ UNCHANGED <<panda_plugins, lists>>
  BY <1>3, <1>4
<1>5. CASE nb_panda_plugins > 0 /\ panda_do_unload_plugin(i, "exit")
  <2>1. i \in Nat /\ i < nb_panda_plugins
    BY <1>1, <1>5 DEF ArrayInv, nb_panda_plugins
  <2> HIDE DEF i
  <2>2. CASE Undefined /\ UNCHANGED <<panda_plugins, lists>>
    BY <1>3, <2>2 DEF Undefined
  <2>3. CASE /\ panda_unregister_callbacks(panda_plugins[i + 1])
             /\ panda_delete_plugin(i)
             /\ at' = "exit"
    <3>1. /\ ArrayInv' /\ ListsInv' /\ WalkInv'
          /\ nb_panda_plugins' = nb_panda_plugins - 1 /\ nb_panda_plugins \in Nat
          /\ \A j \in Nat : j < i => panda_plugins'[j + 1] = panda_plugins[j + 1]
      BY <1>2, <2>1, <2>3, DoUnload
    <3>2. ASSUME patient PROVE Flagged'
      <4>1. Flagged /\ panda_plugins_to_unload \subseteq Nat
        BY <1>1, <3>2 DEF UnloadInv
      <4>2. ASSUME NEW j \in panda_plugins_to_unload, j < nb_panda_plugins'
            PROVE  j < nb_panda_plugins /\ panda_plugins'[j + 1] = panda_plugins[j + 1]
        BY <3>1, <4>1, <4>2 DEF i
      <4>3. at' \notin {"run", "walk", "unload"}
        BY <2>3
      <4> QED
        BY <1>2, <4>1, <4>2, <4>3, Zenon DEF Flagged
    <3>3. UnloadInv'
      BY <1>1, <1>2, <3>2, Zenon DEF UnloadInv
    <3> QED
      BY <3>1, <3>3, PluginInvPartsNext
  <2> QED
    BY <1>5, <2>2, <2>3, Zenon DEF panda_do_unload_plugin
<1> QED
  BY <1>4, <1>5, Zenon DEF panda_unload_plugins

\* The CPU loop begins to unload, main_loop returns, the process is over, or
\* nothing happens.
LEMMA QuietActions ==
    ASSUME PluginInv, BeginUnload \/ panda_cleanup \/ Over \/ UNCHANGED vars
    PROVE  PluginInv'
<1>1. ArrayInv /\ ListsInv /\ WalkInv /\ UnloadInv
  BY PluginInvParts
<1>2. /\ UNCHANGED <<panda_plugins, panda_cbs, stale, walk, wanted, patient>>
      /\ UNCHANGED <<panda_plugins_loaded, failed, panda_plugins_to_unload>>
      /\ \/ at' = at
         \/ at = "run" /\ at' \in {"unload", "exit"}
  BY Zenon DEF BeginUnload, panda_cleanup, Over, vars, unloads, lists
<1>3. panda_plugin_to_unload' \in BOOLEAN
  BY <1>1, Zenon DEF BeginUnload, panda_cleanup, Over, vars, unloads, UnloadInv
<1> QED
  BY <1>1, <1>2, <1>3, QuietStep DEF ArrayInv, UnloadInv

LEMMA PluginStep ==
    ASSUME PluginInv, [Next]_vars
    PROVE  PluginInv'
<1>1. ASSUME NEW p \in Plugins, panda_load_plugin(p) \/ panda_require(p) PROVE PluginInv'
  BY <1>1, LoadStep DEF panda_load_plugin, panda_require
<1>2. ASSUME NEW p \in Plugins, panda_enable_plugin(p) \/ panda_disable_plugin(p)
      PROVE  PluginInv'
  BY <1>2, SetEnabledStep, Zenon DEF panda_enable_plugin, panda_disable_plugin
<1>3. ASSUME NEW p \in Plugins, NEW t \in Types, panda_register_callback(p, t) PROVE PluginInv'
  BY <1>3, RegisterCallback
<1>4. ASSUME NEW i \in 0 .. MAX_PANDA_PLUGINS - 1, panda_unload_plugin_idx(i) PROVE PluginInv'
  BY <1>4, RequestStep
<1>5. CASE StepWalk \/ \E t \in Types : BeginWalk(t)
  BY <1>5, WalkStep
<1>6. CASE StepUnload
  BY <1>6, UnloadStep
<1>7. CASE panda_unload_plugins
  BY <1>7, CleanupStep
<1>8. CASE BeginUnload \/ panda_cleanup \/ Over \/ UNCHANGED vars
  BY <1>8, QuietActions
<1> QED
  BY <1>1, <1>2, <1>3, <1>4, <1>5, <1>6, <1>7, <1>8, Zenon DEF Next

(***************************************************************************)
(* The theorems.                                                           *)
(***************************************************************************)

\* PluginInv is an invariant of the plugin manager, whatever the plugins do.
THEOREM PluginInvariance == Spec => []PluginInv
<1>1. PluginInv /\ [Next]_vars => PluginInv'
  BY PluginStep
<1> QED
  BY InitPlugins, <1>1, PTL DEF Spec

\* Every entry of a callback list belongs to a plugin that is loaded, or whose
\* init_plugin failed: panda_do_unload_plugin leaves none behind.
THEOREM CallbacksAreLive == Spec => []CallbacksLive
<1>1. PluginInv => CallbacksLive
  BY DEF PluginInv
<1> QED
  BY PluginInvariance, <1>1, PTL

\* The entry a walk stands on stays linked, at the place the walk has for it,
\* whatever the callbacks that it calls ask for.
THEOREM WalksAreSafe == Spec => []WalkSafe
<1>1. PluginInv => WalkSafe
  BY DEF PluginInv
<1> QED
  BY PluginInvariance, <1>1, PTL

\* While unloads are asked for one at a time, the CPU loop unloads only plugins an
\* unload was asked for.
THEOREM OnlyWantedAreUnloaded == Spec => UnloadsRequested
<1> DEFINE A == at = "unload" /\ patient => Loaded \ Loaded' \subseteq wanted
<1>1. ASSUME PluginInv, Next, at = "unload" PROVE StepUnload \/ UNCHANGED vars
  BY <1>1, Zenon
     DEF Next, panda_load_plugin, panda_require, Load, panda_enable_plugin, panda_disable_plugin,
         SetEnabled, panda_register_callback, panda_unload_plugin_idx, Running, BeginWalk,
         StepWalk, BeginUnload, panda_cleanup, panda_unload_plugins, Over
<1>2. ASSUME UNCHANGED vars PROVE A
  BY <1>2 DEF vars, Loaded
<1>3. PluginInv /\ [Next]_vars => [A]_vars
  BY <1>1, <1>2, UnloadStep
<1> HIDE DEF A
<1>4. Spec => [][A]_vars
  BY PluginInvariance, <1>3, PTL DEF Spec
<1> QED
  BY <1>4 DEF A, UnloadsRequested

=============================================================================
