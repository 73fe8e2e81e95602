------------------------- MODULE KbInstantiateProofs -------------------------
(***************************************************************************)
(* Proofs about KbInstantiate: what references lead to, what the walk knows   *)
(* of the nodes it has gone through, how deep it can be, what it stores and    *)
(* what it frees.                                                           *)
(***************************************************************************)
EXTENDS KbInstantiate, KbSequences

Dependency == [id : Id \cup {Missing}, kind : Kinds]

(* What a list of nodes means, apart from the walk.                          *)
Deps == [id \in Id |-> node_find_dependent_jobs(id)]
Reach == [id \in Id |-> Reachable(id)]
Good == {id \in Id : WellFormed(id)}
Handled == {id \in Id : ~Unhandled(id)}

LEMMA SameConfig ==
    ASSUME UNCHANGED config
    PROVE  UNCHANGED <<Deps, Reach, Good, Handled>>
<1>1. Deps' = Deps
    BY DEF Deps, node_find_dependent_jobs, Unhandled, HandlersOf
<1>2. Reach' = Reach
    BY DEF Reach, Reachable, Refs
<1>3. Handled' = Handled
    BY DEF Handled, Unhandled, HandlersOf
<1>4. Good' = Good
    BY DEF Good, WellFormed, Unhandled, HandlersOf, Reachable, Refs
<1>5. QED  BY <1>1, <1>2, <1>3, <1>4

LEMMA IdFinite == ASSUME config \in Configs PROVE IsFiniteSet(Id)
<1>1. config.order \in Seq(Id) /\ Range(config.order) = Id
    BY ConfigsAssumption DEF Config
<1>2. config.order \in Surjection(1..Len(config.order), Id)
    BY <1>1 DEF Surjection, Range
<1>3. IsFiniteSet(1..Len(config.order))
    BY <1>1, FS_Interval
<1>4. QED  BY <1>2, <1>3, FS_Surjection
-----------------------------------------------------------------------------
LEMMA Handlers ==
    ASSUME config \in Configs, NEW signal
    PROVE  /\ HandlersOf(signal) \in Seq(Id)
           /\ Range(HandlersOf(signal)) = {h \in Id : signal \in config.handles[h]}
<1> DEFINE order == config.order
           picked == [i \in DOMAIN order |-> IF signal \in config.handles[order[i]] THEN <<order[i]>> ELSE <<>>]
<1>1. order \in Seq(Id) /\ Range(order) = Id
    BY ConfigsAssumption DEF Config
<1>2. picked \in Seq(Seq(Id))
  <2>1. \A i \in DOMAIN order : picked[i] \in Seq(Id)
      BY <1>1
  <2>2. DOMAIN picked = 1..Len(order) /\ Len(order) \in Nat
      BY <1>1
  <2>3. picked \in [1..Len(order) -> Seq(Id)]
      BY <2>1, <2>2
  <2> HIDE DEF picked
  <2>4. QED  BY <2>2, <2>3
<1>3. DOMAIN picked = DOMAIN order
    OBVIOUS
<1>4. \A i \in DOMAIN order : Range(picked[i]) = IF signal \in config.handles[order[i]] THEN {order[i]} ELSE {}
    BY RangeOfShort
<1>5. UNION {Range(picked[i]) : i \in DOMAIN picked} = {h \in Id : signal \in config.handles[h]}
  <2> HIDE DEF picked
  <2>1. ASSUME NEW h \in Id, signal \in config.handles[h]
        PROVE  \E i \in DOMAIN picked : h \in Range(picked[i])
    <3>1. PICK i \in DOMAIN order : order[i] = h
        BY <1>1 DEF Range
    <3>2. h \in Range(picked[i])
        BY <1>4, <2>1, <3>1
    <3>3. QED  BY <1>3, <3>1, <3>2
  <2>2. ASSUME NEW i \in DOMAIN picked, NEW h \in Range(picked[i])
        PROVE  h \in Id /\ signal \in config.handles[h]
    <3>1. i \in DOMAIN order /\ order[i] \in Id
        BY <1>1, <1>3
    <3>2. QED  BY <1>4, <2>2, <3>1
  <2>3. QED  BY <2>1, <2>2
<1>6. HandlersOf(signal) = FlattenSeq(picked)
    BY DEF HandlersOf
<1>7. QED
  <2> HIDE DEF picked
  <2>1. QED  BY <1>2, <1>5, <1>6, FlattenSeqRange

LEMMA Kinded ==
    ASSUME NEW ids \in Seq(Id \cup {Missing}), NEW kind \in Kinds
    PROVE  /\ AsKind(ids, kind) \in Seq(Dependency)
           /\ {d.id : d \in Range(AsKind(ids, kind))} = Range(ids)
<1> DEFINE s == AsKind(ids, kind)
<1>1. DOMAIN s = DOMAIN ids /\ \A i \in DOMAIN ids : s[i] = [id |-> ids[i], kind |-> kind]
    BY DEF AsKind
<1>2. DOMAIN ids = 1..Len(ids) /\ \A i \in DOMAIN ids : ids[i] \in Id \cup {Missing}
    OBVIOUS
<1>3. s \in Seq(Dependency)
    BY <1>1, <1>2 DEF AsKind, Dependency
<1> HIDE DEF s
<1>4. {d.id : d \in Range(s)} = Range(ids)
    BY <1>1 DEF Range
<1>5. QED  BY <1>3, <1>4 DEF s

(* The dependencies of a node are the references it has, unless a signal it   *)
(* emits is not handled.                                                    *)
LEMMA Dependencies ==
    ASSUME config \in Configs, NEW id \in Id
    PROVE  /\ Deps[id] \in Seq(Dependency)
           /\ id \notin Handled => Deps[id] = <<>>
           /\ id \in Handled => {d.id : d \in Range(Deps[id])} = Refs(id)
<1> DEFINE emits == config.emits[id]
           each == [i \in DOMAIN emits |-> HandlersOf(emits[i])]
           jobs == AsKind(config.jobs[id], "JOB")
           handlers == AsKind(FlattenSeq(each), "HANDLER")
<1>1. emits \in Seq(Signals) /\ config.jobs[id] \in Seq(Id \cup {Missing})
    BY ConfigsAssumption DEF Config
<1>2. \A i \in DOMAIN emits : /\ HandlersOf(emits[i]) \in Seq(Id)
                              /\ Range(HandlersOf(emits[i])) = {h \in Id : emits[i] \in config.handles[h]}
    BY Handlers
<1>3. each \in Seq(Seq(Id)) /\ DOMAIN each = DOMAIN emits
    BY <1>1, <1>2
<1>31. DOMAIN each = DOMAIN emits /\ \A i \in DOMAIN emits : each[i] = HandlersOf(emits[i])
    OBVIOUS
<1>4. UNION {Range(each[i]) : i \in DOMAIN each} = {h \in Id : config.handles[h] \cap Range(emits) # {}}
  <2> HIDE DEF each
  <2>1. ASSUME NEW h \in Id, NEW i \in DOMAIN emits, emits[i] \in config.handles[h]
        PROVE  \E j \in DOMAIN each : h \in Range(each[j])
    <3>1. h \in Range(each[i])
        BY <1>2, <1>31, <2>1
    <3>2. QED  BY <1>31, <3>1
  <2>2. ASSUME NEW i \in DOMAIN each, NEW h \in Range(each[i])
        PROVE  h \in Id /\ config.handles[h] \cap Range(emits) # {}
    <3>1. i \in DOMAIN emits /\ h \in Id /\ emits[i] \in config.handles[h]
        BY <1>2, <1>31, <2>2
    <3>2. emits[i] \in Range(emits)
        BY <3>1 DEF Range
    <3>3. QED  BY <3>1, <3>2
  <2>3. {h \in Id : config.handles[h] \cap Range(emits) # {}}
          = {h \in Id : \E i \in DOMAIN emits : emits[i] \in config.handles[h]}
      BY DEF Range
  <2>4. QED  BY <2>1, <2>2, <2>3
<1>5. /\ FlattenSeq(each) \in Seq(Id)
      /\ Range(FlattenSeq(each)) = {h \in Id : config.handles[h] \cap Range(emits) # {}}
  <2> HIDE DEF each
  <2>1. QED  BY <1>3, <1>4, FlattenSeqRange
<1>6. FlattenSeq(each) \in Seq(Id \cup {Missing})
  <2> HIDE DEF each
  <2>1. QED  BY <1>5
<1>7. jobs \in Seq(Dependency) /\ {d.id : d \in Range(jobs)} = Range(config.jobs[id])
    BY <1>1, Kinded DEF Kinds
<1>8. /\ handlers \in Seq(Dependency)
      /\ {d.id : d \in Range(handlers)} = {h \in Id : config.handles[h] \cap Range(emits) # {}}
  <2> HIDE DEF each
  <2>1. QED  BY <1>5, <1>6, Kinded DEF Kinds
<1>9. Deps[id] = IF id \in Handled THEN jobs \o handlers ELSE <<>>
    BY DEF Deps, Handled, node_find_dependent_jobs
<1> HIDE DEF jobs, handlers
<1>10. jobs \o handlers \in Seq(Dependency) /\ Range(jobs \o handlers) = Range(jobs) \cup Range(handlers)
    BY <1>7, <1>8, ConcatRange
<1>11. {d.id : d \in Range(jobs \o handlers)} = Refs(id)
    BY <1>7, <1>8, <1>10 DEF Refs
<1>12. QED  BY <1>9, <1>10, <1>11
-----------------------------------------------------------------------------
(* What one more reference leads to, and the function Reachable is defined by. *)
Near(S) == S \cup UNION {Refs(x) : x \in S \cap Id}
Closed(S) == \A x \in S \cap Id : Refs(x) \subseteq S
Spreads(f, id, n) == f = [k \in 0..n |-> IF k = 0 THEN {id} ELSE Near(f[k - 1])]

LEMMA SpreadsSteps ==
    ASSUME NEW f, NEW id, NEW n \in Nat, Spreads(f, id, n)
    PROVE  f[0] = {id} /\ \A k \in 1..n : f[k] = Near(f[k - 1])
<1> DEFINE g == [k \in 0..n |-> IF k = 0 THEN {id} ELSE Near(f[k - 1])]
<1>1. g[0] = {id} /\ \A k \in 1..n : g[k] = Near(f[k - 1])
    OBVIOUS
<1>2. f = g
    BY DEF Spreads
<1> HIDE DEF g
<1>3. QED  BY <1>1, <1>2

LEMMA SpreadsExists ==
    ASSUME NEW id, NEW n \in Nat
    PROVE  \E f : Spreads(f, id, n)
<1> DEFINE N == {m \in Nat : \E f : Spreads(f, id, m)}
<1>1. 0 \in N
  <2> DEFINE g == [k \in 0..0 |-> {id}]
  <2>1. g = [k \in 0..0 |-> IF k = 0 THEN {id} ELSE Near(g[k - 1])]
      OBVIOUS
  <2>2. Spreads(g, id, 0)
      BY <2>1 DEF Spreads
  <2>3. QED  BY <2>2
<1>2. ASSUME NEW m \in N PROVE m + 1 \in N
  <2>1. PICK f : Spreads(f, id, m)
      OBVIOUS
  <2>2. m \in Nat
      OBVIOUS
  <2>3. f[0] = {id} /\ \A k \in 1..m : f[k] = Near(f[k - 1])
      BY <2>1, <2>2, SpreadsSteps
  <2> DEFINE g == [k \in 0..(m + 1) |-> IF k = 0 THEN {id} ELSE Near(f[k - 1])]
  <2>4. \A k \in 0..m : f[k] = g[k]
    <3>1. \A k \in 0..m : g[k] = IF k = 0 THEN {id} ELSE Near(f[k - 1])
        BY <2>2
    <3> HIDE DEF g
    <3>2. QED  BY <2>2, <2>3, <3>1
  <2> HIDE DEF g
  <2>5. \A k \in 0..(m + 1) : k # 0 => f[k - 1] = g[k - 1]
      BY <2>2, <2>4
  <2>6. g = [k \in 0..(m + 1) |-> IF k = 0 THEN {id} ELSE Near(g[k - 1])]
      BY <2>2, <2>5 DEF g
  <2>7. Spreads(g, id, m + 1)
      BY <2>6 DEF Spreads
  <2>8. QED  BY <2>2, <2>7
<1>3. N = Nat
  <2> N \in SUBSET Nat
      OBVIOUS
  <2> HIDE DEF N
  <2>1. QED  BY <1>1, <1>2, Induction
<1>4. QED  BY <1>3

LEMMA ReachableUnfolds ==
    ASSUME config \in Configs, NEW id
    PROVE  \E f : Spreads(f, id, Cardinality(Id)) /\ Reachable(id) = f[Cardinality(Id)]
<1> DEFINE n == Cardinality(Id)
           f == CHOOSE g : Spreads(g, id, n)
<1>1. n \in Nat
    BY IdFinite, FS_CardinalityType
<1>2. Spreads(f, id, n)
    BY <1>1, SpreadsExists
<1>3. Reachable(id) = f[n]
    BY DEF Reachable, Spreads, Near
<1>4. QED  BY <1>2, <1>3

(* What id leads to is the least set that contains it and what its elements    *)
(* refer to: as many rounds as there are nodes are enough, since each one adds *)
(* an element or nothing ever after.                                        *)
LEMMA ReachableLeast ==
    ASSUME config \in Configs, NEW id, NEW S, id \in S, Closed(S)
    PROVE  Reachable(id) \subseteq S
<1> DEFINE n == Cardinality(Id)
<1>1. n \in Nat
    BY IdFinite, FS_CardinalityType
<1>2. PICK f : Spreads(f, id, n) /\ Reachable(id) = f[n]
    BY ReachableUnfolds
<1> HIDE DEF n
<1>3. f[0] = {id} /\ \A k \in 1..n : f[k] = Near(f[k - 1])
    BY <1>1, <1>2, SpreadsSteps
<1> DEFINE N == {k \in Nat : k <= n => f[k] \subseteq S}
<1>4. 0 \in N
    BY <1>3
<1>5. ASSUME NEW k \in N PROVE k + 1 \in N
  <2> SUFFICES ASSUME k + 1 <= n PROVE f[k + 1] \subseteq S
      OBVIOUS
  <2>1. f[k] \subseteq S /\ k \in Nat
      BY <1>1
  <2>2. k + 1 \in 1..n /\ (k + 1) - 1 = k
      BY <1>1, <2>1
  <2>3. f[k + 1] = Near(f[(k + 1) - 1])
      BY <1>3, <2>2
  <2>4. f[k + 1] = Near(f[k])
      BY <2>2, <2>3
  <2>5. QED  BY <2>1, <2>4 DEF Near, Closed
<1>6. N = Nat
  <2> N \in SUBSET Nat
      OBVIOUS
  <2> HIDE DEF N
  <2>1. QED  BY <1>4, <1>5, Induction
<1>7. QED  BY <1>1, <1>2, <1>6

LEMMA RefsType ==
    ASSUME config \in Configs, NEW id \in Id
    PROVE  Refs(id) \subseteq Id \cup {Missing}
<1>1. config.jobs[id] \in Seq(Id \cup {Missing})
    BY ConfigsAssumption DEF Config
<1>2. QED  BY <1>1 DEF Refs, Range

LEMMA ReachableClosed ==
    ASSUME config \in Configs, NEW id \in Id \cup {Missing}
    PROVE  id \in Reachable(id) /\ Closed(Reachable(id))
<1> DEFINE n == Cardinality(Id)
           U == Id \cup {Missing}
<1>1. n \in Nat /\ IsFiniteSet(U) /\ Cardinality(U) = n + 1
    BY IdFinite, FS_CardinalityType, FS_AddElement, ConfigsAssumption
<1>2. PICK f : Spreads(f, id, n) /\ Reachable(id) = f[n]
    BY ReachableUnfolds
<1>3. Closed(U)
    BY RefsType DEF Closed
<1>4. id \in U
    OBVIOUS
<1> HIDE DEF n, U
<1>5. f[0] = {id} /\ \A k \in 1..n : f[k] = Near(f[k - 1])
    BY <1>1, <1>2, SpreadsSteps
<1> DEFINE Enough(k) == /\ id \in f[k] /\ f[k] \subseteq U
                        /\ Closed(f[k]) \/ Cardinality(f[k]) >= k + 1
           N == {k \in Nat : k <= n => Enough(k)}
<1>6. 0 \in N
  <2>1. Cardinality({id}) = 1
      BY FS_Singleton
  <2>2. f[0] = {id} /\ {id} \subseteq U
      BY <1>4, <1>5
  <2>3. Cardinality(f[0]) >= 0 + 1
      BY <2>1, <2>2
  <2>4. Enough(0)
      BY <2>2, <2>3
  <2>5. QED  BY <2>4
<1>7. ASSUME NEW k \in N PROVE k + 1 \in N
  <2> SUFFICES ASSUME k + 1 <= n PROVE Enough(k + 1)
      OBVIOUS
  <2>1. Enough(k) /\ k \in Nat
      BY <1>1
  <2>2. k + 1 \in 1..n /\ (k + 1) - 1 = k
      BY <1>1, <2>1
  <2>3. f[k + 1] = Near(f[(k + 1) - 1])
      BY <1>5, <2>2
  <2>4. f[k + 1] = Near(f[k])
      BY <2>2, <2>3
  <2>5. id \in f[k + 1] /\ f[k] \subseteq f[k + 1] /\ f[k + 1] \subseteq U
      BY <1>3, <2>1, <2>4 DEF Near, Closed
  <2>6. CASE Closed(f[k])
    <3>1. f[k + 1] = f[k]
        BY <2>4, <2>6 DEF Near, Closed
    <3>2. QED  BY <2>1, <2>6, <3>1
  <2>7. CASE ~Closed(f[k])
    <3>1. f[k + 1] # f[k]
        BY <2>4, <2>7 DEF Near, Closed
    <3>2. IsFiniteSet(f[k]) /\ IsFiniteSet(f[k + 1])
        BY <1>1, <2>1, <2>5, FS_Subset
    <3>3. Cardinality(f[k]) <= Cardinality(f[k + 1]) /\ Cardinality(f[k]) # Cardinality(f[k + 1])
        BY <2>5, <3>1, <3>2, FS_Subset
    <3>4. Cardinality(f[k]) \in Nat /\ Cardinality(f[k + 1]) \in Nat
        BY <3>2, FS_CardinalityType
    <3>5. Cardinality(f[k]) >= k + 1
        BY <2>1, <2>7
    <3>6. Cardinality(f[k + 1]) >= (k + 1) + 1
        BY <2>1, <3>3, <3>4, <3>5
    <3>7. QED  BY <2>5, <3>6
  <2>8. QED  BY <2>6, <2>7
<1>8. N = Nat
  <2> N \in SUBSET Nat
      OBVIOUS
  <2> HIDE DEF N
  <2>1. QED  BY <1>6, <1>7, Induction
<1>9. Enough(n)
    BY <1>1, <1>8
<1>10. Closed(f[n])
  <2> SUFFICES ASSUME Cardinality(f[n]) >= n + 1 PROVE Closed(f[n])
      BY <1>9
  <2>1. f[n] \in SUBSET U
      BY <1>9
  <2>2. IsFiniteSet(f[n]) /\ Cardinality(f[n]) <= Cardinality(U) /\ (Cardinality(U) = Cardinality(f[n]) => U = f[n])
      BY <1>1, <2>1, FS_Subset
  <2>3. Cardinality(f[n]) \in Nat
      BY <2>2, FS_CardinalityType
  <2>4. Cardinality(U) = Cardinality(f[n])
      BY <1>1, <2>2, <2>3
  <2>5. QED  BY <1>3, <2>2, <2>4
<1>11. QED  BY <1>2, <1>9, <1>10

LEMMA LeadsOn ==
    ASSUME config \in Configs, NEW id \in Id
    PROVE  /\ id \in Reach[id]
           /\ \A x \in Reach[id] \cap Id : \A d \in Range(Deps[x]) : d.id \in Reach[id]
<1>1. id \in Reach[id] /\ Closed(Reach[id])
    BY ReachableClosed DEF Reach
<1>2. ASSUME NEW x \in Reach[id] \cap Id, NEW d \in Range(Deps[x]) PROVE d.id \in Reach[id]
  <2>1. x \in Handled
      BY <1>2, Dependencies, RangeOfShort
  <2>2. d.id \in Refs(x)
      BY <1>2, <2>1, Dependencies
  <2>3. QED  BY <1>1, <1>2, <2>2 DEF Closed
<1>3. QED  BY <1>1, <1>2

(* A node is well formed if all it depends on is.                             *)
LEMMA GoodFromBelow ==
    ASSUME config \in Configs, NEW id \in Handled, \A d \in Range(Deps[id]) : d.id \in Good
    PROVE  id \in Good
<1> DEFINE S == {id} \cup UNION {Reachable(y) : y \in Refs(id)}
<1>1. id \in Id /\ ~Unhandled(id)
    BY DEF Handled
<1>2. \A y \in Refs(id) : y \in Id /\ WellFormed(y)
    BY <1>1, Dependencies DEF Good
<1>3. \A y \in Refs(id) : y \in Reachable(y) /\ Closed(Reachable(y))
    BY <1>2, ReachableClosed
<1>4. Closed(S)
    BY <1>3 DEF Closed
<1>5. Reachable(id) \subseteq S
  <2> HIDE DEF S
  <2>1. id \in S
      BY DEF S
  <2>2. QED  BY <1>4, <2>1, ReachableLeast
<1>6. Missing \notin Reachable(id)
    BY <1>1, <1>2, <1>5, ConfigsAssumption DEF WellFormed
<1>7. \A x \in Reachable(id) : ~Unhandled(x)
    BY <1>1, <1>2, <1>5 DEF WellFormed
<1>8. ASSUME NEW x \in Reachable(id), NEW y \in Refs(x) PROVE x \notin Reachable(y)
  <2>1. CASE x = id
    <3>1. WellFormed(y)
        BY <1>2, <1>8, <2>1
    <3>2. QED  BY <1>8, <2>1, <3>1 DEF WellFormed
  <2>2. CASE x # id
    <3>1. PICK z \in Refs(id) : x \in Reachable(z)
        BY <1>5, <1>8, <2>2
    <3>2. QED  BY <1>2, <1>8, <3>1 DEF WellFormed
  <2>3. QED  BY <2>1, <2>2
<1>9. QED  BY <1>1, <1>6, <1>7, <1>8 DEF Good, WellFormed

(* The three ways not to be.                                                *)
LEMMA BadAbove ==
    ASSUME config \in Configs, NEW id \in Id
    PROVE  /\ Reach[id] \cap Id \subseteq Handled \/ id \notin Good
           /\ Missing \in Reach[id] => id \notin Good
           /\ \A x \in Reach[id] \cap Id : \A d \in Range(Deps[x]) :
                d.id \in Id /\ x \in Reach[d.id] => id \notin Good
<1>1. Reach[id] \cap Id \subseteq Handled \/ id \notin Good
    BY DEF Reach, Good, Handled, WellFormed
<1>2. Missing \in Reach[id] => id \notin Good
    BY DEF Reach, Good, WellFormed
<1>3. ASSUME NEW x \in Reach[id] \cap Id, NEW d \in Range(Deps[x]), d.id \in Id, x \in Reach[d.id]
      PROVE  id \notin Good
  <2>1. x \in Handled
      BY <1>3, Dependencies, RangeOfShort
  <2>2. d.id \in Refs(x)
      BY <1>3, <2>1, Dependencies
  <2>3. QED  BY <1>3, <2>2 DEF Reach, Good, WellFormed
<1>4. QED  BY <1>1, <1>2, <1>3
-----------------------------------------------------------------------------
(* The calls in progress are of nodes that exist, each but the last for a     *)
(* dependency of the one before it, the first for the next entrypoint.        *)
Ids == [k \in DOMAIN stack |-> inst[stack[k].node].id]

Calls ==
    /\ \A k \in DOMAIN stack :
         /\ stack[k].node \in DOMAIN inst
         /\ stack[k].deps = Deps[Ids[k]]
         /\ stack[k].at \in 1..(Len(stack[k].deps) + 1)
    /\ \A k \in 1..(Len(stack) - 1) :
         /\ stack[k].at > 1
         /\ stack[k].deps[stack[k].at - 1].id = Ids[k + 1]
    /\ stack # <<>> \/ failing => rootsDone < Len(config.entries)
    /\ stack # <<>> => Ids[1] = config.entries[rootsDone + 1]

NoneTwice == \A i, j \in DOMAIN stack : i < j /\ Ids[i] = Ids[j] => j = i + 1

(* Without an error, all that has been gone through is well formed ...         *)
Cleared(k) ==
    /\ Ids[k] \in Handled
    /\ \A j \in 1..(stack[k].at - 1) :
         /\ stack[k].deps[j].id \in Id
         /\ k = Len(stack) \/ j < stack[k].at - 1 => stack[k].deps[j].id \in Good

GoodSoFar ==
    errors = 0 =>
        /\ ~failing
        /\ \A i \in 1..rootsDone : config.entries[i] \in Good
        /\ \A k \in DOMAIN stack : Cleared(k)

(* ... and an error is some entrypoint's.                                   *)
BadAtRoot == errors > 0 => \E i \in DOMAIN config.entries : config.entries[i] \notin Good

Inv ==
    /\ TypeOK /\ config \in Configs
    /\ Calls /\ NoneTwice /\ GoodSoFar /\ BadAtRoot

LEMMA DepsType ==
    ASSUME config \in Configs
    PROVE  /\ \A id \in Id : Deps[id] \in Seq(Dependency)
           /\ config.entries \in Seq(Id)
BY Dependencies, ConfigsAssumption DEF Config

LEMMA InvInit == Init => Inv
<1> SUFFICES ASSUME Init PROVE Inv
    OBVIOUS
<1>1. config.entries \in Seq(Id) /\ config \in Config
    BY ConfigsAssumption DEF Init, Config
<1>2. TypeOK
  <2>1. rootsDone \in 0..Len(config.entries) /\ errors \in Nat
      BY <1>1 DEF Init
  <2>2. stack \in Seq(Frame) /\ inst \in Seq(Instance)
      BY DEF Init
  <2>3. trees \in Seq(DOMAIN inst)
      BY DEF Init
  <2>4. failing \in BOOLEAN /\ undefined \in BOOLEAN
      BY DEF Init
  <2>5. QED  BY <1>1, <2>1, <2>2, <2>3, <2>4 DEF TypeOK
<1>3. Calls /\ NoneTwice /\ GoodSoFar /\ BadAtRoot
    BY <1>1 DEF Init, Calls, NoneTwice, GoodSoFar, BadAtRoot
<1>4. QED  BY <1>2, <1>3 DEF Init, Inv
-----------------------------------------------------------------------------
(* The stack without the call on top, and with that call moved on.            *)
LEMMA Popped ==
    ASSUME stack \in Seq(Frame), stack # <<>>
    PROVE  /\ Below \in Seq(Frame) /\ Len(Below) = Len(stack) - 1
           /\ \A k \in 1..(Len(stack) - 1) : Below[k] = stack[k]
BY DEF Below

LEMMA MovedOn ==
    ASSUME stack \in Seq(Frame), stack # <<>>
    PROVE  /\ Advanced \in Seq(Frame) /\ Len(Advanced) = Len(stack)
           /\ \A k \in 1..(Len(stack) - 1) : Advanced[k] = stack[k]
           /\ Advanced[Len(stack)] = [Top EXCEPT !.at = @ + 1]
<1>1. Below \in Seq(Frame) /\ Len(Below) = Len(stack) - 1 /\ \A k \in 1..(Len(stack) - 1) : Below[k] = stack[k]
    BY Popped
<1>2. Top \in Frame
    BY DEF Top
<1>3. [Top EXCEPT !.at = @ + 1] \in Frame
  <2>1. ASSUME NEW D, NEW f \in [node : Nat, deps : D, at : Nat]
        PROVE  [f EXCEPT !.at = @ + 1] \in [node : Nat, deps : D, at : Nat]
      OBVIOUS
  <2>2. QED  BY <1>2, <2>1 DEF Frame
<1> DEFINE new == [Top EXCEPT !.at = @ + 1]
<1> HIDE DEF new
<1>4. /\ Append(Below, new) \in Seq(Frame) /\ Len(Append(Below, new)) = Len(stack)
      /\ \A k \in 1..(Len(stack) - 1) : Append(Below, new)[k] = stack[k]
      /\ Append(Below, new)[Len(stack)] = new
    BY <1>1, <1>3 DEF new
<1>5. QED  BY <1>4 DEF new, Advanced

(* Nodes are added and deleted, but never become other nodes.                *)
IdsKept == DOMAIN inst \subseteq DOMAIN inst' /\ \A x \in DOMAIN inst : inst'[x].id = inst[x].id

LEMMA DeleteType ==
    ASSUME inst \in Seq(Instance), NEW n, Delete(n)
    PROVE  inst' \in Seq(Instance) /\ DOMAIN inst' = DOMAIN inst /\ undefined' \in BOOLEAN /\ IdsKept
<1> DEFINE after(x) == IF x \notin Reached(n) THEN inst[x]
                       ELSE [inst[x] EXCEPT !.live = FALSE, !.linked = @ /\ inst[x].kind = "HANDLER"]
<1>1. inst' = [x \in DOMAIN inst |-> after(x)]
    BY DEF Delete
<1>2. \A x \in DOMAIN inst : after(x) \in Instance /\ after(x).id = inst[x].id
  <2> SUFFICES ASSUME NEW x \in DOMAIN inst PROVE after(x) \in Instance /\ after(x).id = inst[x].id
      OBVIOUS
  <2>1. inst[x] \in Instance
      OBVIOUS
  <2>2. \A i \in Instance : \A b \in BOOLEAN :
          /\ [i EXCEPT !.live = FALSE, !.linked = b] \in Instance
          /\ [i EXCEPT !.live = FALSE, !.linked = b].id = i.id
      BY DEF Instance
  <2>3. \A i \in Instance : \A b \in BOOLEAN : (i.linked /\ b) \in BOOLEAN
      OBVIOUS
  <2>4. QED  BY <2>1, <2>2, <2>3
<1> HIDE DEF after
<1>3. DOMAIN inst = 1..Len(inst) /\ Len(inst) \in Nat
    OBVIOUS
<1>4. inst' \in [1..Len(inst) -> Instance]
    BY <1>1, <1>2, <1>3
<1>5. inst' \in Seq(Instance) /\ DOMAIN inst' = DOMAIN inst
    BY <1>3, <1>4
<1>6. IdsKept
    BY <1>1, <1>2 DEF IdsKept
<1>7. undefined' \in BOOLEAN
    BY DEF Delete
<1>8. QED  BY <1>5, <1>6, <1>7

LEMMA EnterType ==
    ASSUME TypeOK, config \in Configs,
           NEW id \in Id, NEW parent \in Nat, NEW kind \in Kinds, NEW callers \in Seq(Frame),
           Enter(id, parent, kind, callers)
    PROVE  /\ inst' \in Seq(Instance) /\ Len(inst') = Len(inst) + 1 /\ IdsKept
           /\ inst'[Len(inst) + 1].id = id
           /\ stack' = Append(callers, [node |-> Len(inst) + 1, deps |-> Deps[id], at |-> 1])
           /\ stack' \in Seq(Frame)
           /\ errors' = (IF id \in Handled THEN errors ELSE errors + 1) /\ errors' \in Nat
           /\ undefined' \in BOOLEAN
<1> DEFINE i == [id |-> id, parent |-> parent, kind |-> kind, live |-> TRUE, linked |-> parent # 0]
           f == [node |-> Len(inst) + 1, deps |-> Deps[id], at |-> 1]
<1>1. inst \in Seq(Instance) /\ errors \in Nat
    BY DEF TypeOK
<1>2. i \in Instance /\ i.id = id
  <2>1. \A b \in BOOLEAN : /\ [id |-> id, parent |-> parent, kind |-> kind, live |-> TRUE, linked |-> b] \in Instance
                           /\ [id |-> id, parent |-> parent, kind |-> kind, live |-> TRUE, linked |-> b].id = id
      BY DEF Instance
  <2>2. (parent # 0) \in BOOLEAN
      OBVIOUS
  <2>3. QED  BY <2>1, <2>2
<1>3. Deps[id] \in Seq(Dependency)
    BY DepsType
<1>4. f \in Frame
    BY <1>1, <1>3 DEF Frame, Dependency
<1>5. inst' = Append(inst, i) /\ stack' = Append(callers, f)
    BY DEF Enter, Deps
<1> HIDE DEF i, f
<1>6. inst' \in Seq(Instance) /\ Len(inst') = Len(inst) + 1 /\ inst'[Len(inst) + 1] = i
    BY <1>1, <1>2, <1>5
<1>7. \A x \in DOMAIN inst : x \in DOMAIN inst' /\ inst'[x] = inst[x]
    BY <1>1, <1>2, <1>5
<1>8. stack' \in Seq(Frame)
    BY <1>4, <1>5
<1>9. errors' = (IF id \in Handled THEN errors ELSE errors + 1)
    BY DEF Enter, Handled
<1>10. undefined' \in BOOLEAN
    BY DEF Enter, Overruns
<1>11. QED  BY <1>1, <1>2, <1>5, <1>6, <1>7, <1>8, <1>9, <1>10 DEF IdsKept, f
-----------------------------------------------------------------------------
(* Every action by what it does to the stack.                                *)
LEMMA Facts ==
    ASSUME Inv, stack # <<>>
    PROVE  /\ stack \in Seq(Frame) /\ inst \in Seq(Instance) /\ errors \in Nat
           /\ Len(stack) \in DOMAIN stack /\ Top = stack[Len(stack)] /\ Top \in Frame
           /\ Top.node \in DOMAIN inst
           /\ \A k \in DOMAIN stack : Ids[k] \in Id
<1>1. stack \in Seq(Frame) /\ inst \in Seq(Instance) /\ errors \in Nat
    BY DEF Inv, TypeOK
<1>2. Len(stack) \in DOMAIN stack /\ Top = stack[Len(stack)] /\ Top \in Frame
    BY <1>1 DEF Top
<1>3. \A k \in DOMAIN stack : stack[k].node \in DOMAIN inst
    BY DEF Inv, Calls
<1>4. \A n \in DOMAIN inst : inst[n].id \in Id
  <2>1. \A n \in DOMAIN inst : inst[n] \in Instance
      BY <1>1
  <2>2. \A i \in Instance : i.id \in Id
      BY DEF Instance
  <2>3. QED  BY <2>1, <2>2
<1>5. \A k \in DOMAIN stack : Ids[k] \in Id
    BY <1>3, <1>4 DEF Ids
<1>6. QED  BY <1>1, <1>2, <1>3, <1>5

LEMMA DepFacts ==
    ASSUME Inv, InLoop
    PROVE  /\ Top.at \in DOMAIN Top.deps /\ Dep \in Dependency
           /\ Dep \in Range(Deps[Ids[Len(stack)]])
<1>1. stack # <<>> /\ Top.at <= Len(Top.deps)
    BY DEF InLoop
<1>2. Top \in Frame /\ Top = stack[Len(stack)] /\ Len(stack) \in DOMAIN stack /\ Ids[Len(stack)] \in Id
    BY <1>1, Facts
<1>3. Top.deps = Deps[Ids[Len(stack)]] /\ Top.at \in 1..(Len(Top.deps) + 1)
    BY <1>2 DEF Inv, Calls
<1>4. Deps[Ids[Len(stack)]] \in Seq(Dependency)
    BY <1>2, DepsType DEF Inv
<1>5. Top.at \in DOMAIN Top.deps
    BY <1>1, <1>3, <1>4
<1>6. QED  BY <1>3, <1>4, <1>5 DEF Dep, Range

LEMMA SeqGrows ==
    ASSUME NEW S, NEW T, S \subseteq T, NEW s \in Seq(S)
    PROVE  s \in Seq(T)
OBVIOUS

LEMMA TypeStep == Inv /\ Next => TypeOK' /\ IdsKept /\ UNCHANGED config
<1> SUFFICES ASSUME Inv, Next PROVE TypeOK' /\ IdsKept /\ UNCHANGED config
    OBVIOUS
<1>1. TypeOK /\ config \in Configs
    BY DEF Inv
<1>2. config.entries \in Seq(Id)
    BY <1>1, DepsType
<1>3. inst' = inst => IdsKept
    BY DEF IdsKept
<1>4. CASE StartRoot
  <2>1. config.entries[rootsDone + 1] \in Id
      BY <1>1, <1>2, <1>4 DEF StartRoot, TypeOK
  <2>2. <<>> \in Seq(Frame) /\ 0 \in Nat /\ "NONE" \in Kinds
      BY DEF Kinds
  <2>3. Enter(config.entries[rootsDone + 1], 0, "NONE", <<>>)
      BY <1>4 DEF StartRoot
  <2>4. /\ inst' \in Seq(Instance) /\ Len(inst') = Len(inst) + 1 /\ IdsKept
        /\ stack' \in Seq(Frame) /\ errors' \in Nat /\ undefined' \in BOOLEAN
      BY <1>1, <2>1, <2>2, <2>3, EnterType
  <2>5. UNCHANGED <<config, rootsDone, failing, trees>>
      BY <1>4 DEF StartRoot
  <2>6. trees' \in Seq(DOMAIN inst')
      BY <1>1, <2>4, <2>5, SeqGrows DEF IdsKept, TypeOK
  <2>7. QED  BY <1>1, <2>4, <2>5, <2>6 DEF TypeOK
<1>5. CASE MissingReference
  <2>1. stack # <<>> /\ stack' = Advanced
      BY <1>5 DEF MissingReference, InLoop
  <2>2. stack' \in Seq(Frame)
      BY <1>1, <2>1, MovedOn DEF TypeOK
  <2>3. errors' \in Nat
      BY <1>1, <1>5 DEF MissingReference, TypeOK
  <2>4. UNCHANGED <<config, rootsDone, inst, failing, trees, undefined>>
      BY <1>5 DEF MissingReference
  <2>5. QED  BY <1>1, <1>3, <2>2, <2>3, <2>4 DEF TypeOK
<1>6. CASE CycleFound \/ ChildFailed
  <2>1. stack # <<>> /\ stack' = Below /\ Delete(Top.node) /\ errors' = errors + 1
      BY <1>6 DEF CycleFound, ChildFailed, InLoop
  <2>2. stack' \in Seq(Frame)
      BY <1>1, <2>1, Popped DEF TypeOK
  <2>3. inst' \in Seq(Instance) /\ DOMAIN inst' = DOMAIN inst /\ undefined' \in BOOLEAN /\ IdsKept
      BY <1>1, <2>1, DeleteType DEF TypeOK
  <2>4. errors' \in Nat
      BY <1>1, <2>1 DEF TypeOK
  <2>5. failing' \in BOOLEAN /\ UNCHANGED <<config, rootsDone, trees>>
      BY <1>1, <1>6 DEF CycleFound, ChildFailed, TypeOK
  <2>6. QED  BY <1>1, <2>2, <2>3, <2>4, <2>5 DEF TypeOK
<1>7. CASE Descend
  <2>1. stack # <<>> /\ InLoop /\ Dep.id \in Id /\ Enter(Dep.id, Top.node, Dep.kind, Advanced)
      BY <1>7 DEF Descend, InLoop
  <2>2. Dep.kind \in Kinds
      BY <2>1, DepFacts DEF Dependency
  <2>3. Top.node \in Nat /\ Advanced \in Seq(Frame)
      BY <2>1, Facts, MovedOn DEF Frame
  <2>4. /\ inst' \in Seq(Instance) /\ Len(inst') = Len(inst) + 1 /\ IdsKept
        /\ stack' \in Seq(Frame) /\ errors' \in Nat /\ undefined' \in BOOLEAN
      BY <1>1, <2>1, <2>2, <2>3, EnterType
  <2>5. UNCHANGED <<config, rootsDone, failing, trees>>
      BY <1>7 DEF Descend
  <2>6. trees' \in Seq(DOMAIN inst')
      BY <1>1, <2>4, <2>5, SeqGrows DEF IdsKept, TypeOK
  <2>7. QED  BY <1>1, <2>4, <2>5, <2>6 DEF TypeOK
<1>8. CASE ReturnNode
  <2>1. stack # <<>> /\ stack' = Below
      BY <1>8 DEF ReturnNode
  <2>2. stack' \in Seq(Frame)
      BY <1>1, <2>1, Popped DEF TypeOK
  <2>3. trees' \in Seq(DOMAIN inst)
    <3>1. CASE trees' = trees
        BY <1>1, <3>1 DEF TypeOK
    <3>2. CASE trees' = Append(trees, Top.node)
        BY <1>1, <2>1, <3>2, Facts DEF TypeOK
    <3>3. QED  BY <1>8, <3>1, <3>2 DEF ReturnNode
  <2>4. rootsDone' \in 0..Len(config.entries)
    <3>1. rootsDone' = rootsDone \/ rootsDone' = rootsDone + 1
        BY <1>8 DEF ReturnNode
    <3>2. rootsDone < Len(config.entries)
        BY <2>1 DEF Inv, Calls
    <3>3. QED  BY <1>1, <1>2, <3>1, <3>2 DEF TypeOK
  <2>5. UNCHANGED <<config, inst, failing, errors, undefined>>
      BY <1>8 DEF ReturnNode
  <2>6. QED  BY <1>1, <1>3, <2>2, <2>3, <2>4, <2>5 DEF TypeOK
<1>9. CASE RootFailed
  <2>1. rootsDone' = rootsDone + 1 /\ rootsDone < Len(config.entries)
      BY <1>9 DEF RootFailed, Inv, Calls
  <2>2. rootsDone' \in 0..Len(config.entries)
      BY <1>1, <1>2, <2>1 DEF TypeOK
  <2>3. failing' \in BOOLEAN /\ UNCHANGED <<config, stack, inst, errors, trees, undefined>>
      BY <1>9 DEF RootFailed
  <2>4. QED  BY <1>1, <1>3, <2>2, <2>3 DEF TypeOK
<1>10. QED  BY <1>4, <1>5, <1>6, <1>7, <1>8, <1>9 DEF Next

(* A step that ends a call, ...                                             *)
LEMMA PopShape ==
    ASSUME Inv, stack # <<>>, IdsKept, stack' = Below
    PROVE  /\ Len(stack') = Len(stack) - 1 /\ DOMAIN stack' = 1..(Len(stack) - 1)
           /\ \A k \in 1..(Len(stack) - 1) : stack'[k] = stack[k] /\ Ids'[k] = Ids[k]
<1>1. stack \in Seq(Frame) /\ \A k \in DOMAIN stack : stack[k].node \in DOMAIN inst
    BY DEF Inv, TypeOK, Calls
<1>2. /\ stack' \in Seq(Frame) /\ Len(stack') = Len(stack) - 1
      /\ \A k \in 1..(Len(stack) - 1) : stack'[k] = stack[k]
    BY <1>1, Popped
<1>3. DOMAIN stack' = 1..(Len(stack) - 1) /\ DOMAIN stack = 1..Len(stack)
    BY <1>1, <1>2
<1>4. ASSUME NEW k \in 1..(Len(stack) - 1) PROVE Ids'[k] = Ids[k]
  <2>1. k \in DOMAIN stack /\ k \in DOMAIN stack' /\ stack'[k] = stack[k]
      BY <1>1, <1>2, <1>3, <1>4
  <2>2. stack[k].node \in DOMAIN inst
      BY <1>1, <2>1
  <2>3. QED  BY <2>1, <2>2 DEF Ids, IdsKept
<1>5. QED  BY <1>2, <1>3, <1>4

(* ... one that goes on to the next dependency ...                          *)
LEMMA MoveShape ==
    ASSUME Inv, stack # <<>>, IdsKept, stack' = Advanced
    PROVE  /\ DOMAIN stack' = DOMAIN stack /\ Len(stack') = Len(stack)
           /\ \A k \in DOMAIN stack : /\ Ids'[k] = Ids[k]
                                      /\ stack'[k].node = stack[k].node /\ stack'[k].deps = stack[k].deps
                                      /\ stack'[k].at = IF k = Len(stack) THEN stack[k].at + 1 ELSE stack[k].at
<1>1. stack \in Seq(Frame) /\ \A k \in DOMAIN stack : stack[k].node \in DOMAIN inst
    BY DEF Inv, TypeOK, Calls
<1>2. /\ stack' \in Seq(Frame) /\ Len(stack') = Len(stack)
      /\ \A k \in 1..(Len(stack) - 1) : stack'[k] = stack[k]
      /\ stack'[Len(stack)] = [Top EXCEPT !.at = @ + 1]
    BY <1>1, MovedOn
<1>3. DOMAIN stack' = 1..Len(stack) /\ DOMAIN stack = 1..Len(stack) /\ Len(stack) \in Nat
    BY <1>1, <1>2
<1>4. Top \in Frame /\ Top = stack[Len(stack)]
    BY Facts
<1>5. ASSUME NEW D, NEW f \in [node : Nat, deps : D, at : Nat]
      PROVE  /\ [f EXCEPT !.at = @ + 1].node = f.node /\ [f EXCEPT !.at = @ + 1].deps = f.deps
             /\ [f EXCEPT !.at = @ + 1].at = f.at + 1
    OBVIOUS
<1>6. LET new == stack'[Len(stack)]
          old == stack[Len(stack)]
      IN  new.node = old.node /\ new.deps = old.deps /\ new.at = old.at + 1
    BY <1>2, <1>4, <1>5 DEF Frame
<1>7. ASSUME NEW k \in DOMAIN stack
      PROVE  /\ stack'[k].node = stack[k].node /\ stack'[k].deps = stack[k].deps
             /\ stack'[k].at = IF k = Len(stack) THEN stack[k].at + 1 ELSE stack[k].at
  <2>1. CASE k = Len(stack)
      BY <1>6, <2>1
  <2>2. CASE k # Len(stack)
    <3>1. stack'[k] = stack[k]
        BY <1>2, <1>3, <2>2
    <3>2. QED  BY <2>2, <3>1
  <2>3. QED  BY <2>1, <2>2
<1>8. ASSUME NEW k \in DOMAIN stack PROVE Ids'[k] = Ids[k]
    BY <1>1, <1>3, <1>7 DEF Ids, IdsKept
<1>9. QED  BY <1>2, <1>3, <1>7, <1>8

(* ... and calls itself for it.                                             *)
LEMMA PushShape ==
    ASSUME Inv, Descend
    PROVE  /\ Len(stack') = Len(stack) + 1 /\ DOMAIN stack' = 1..(Len(stack) + 1)
           /\ \A k \in 1..Len(stack) :
                /\ Ids'[k] = Ids[k]
                /\ stack'[k].node = stack[k].node /\ stack'[k].deps = stack[k].deps
                /\ stack'[k].at = IF k = Len(stack) THEN stack[k].at + 1 ELSE stack[k].at
           /\ Ids'[Len(stack) + 1] = Dep.id
           /\ stack'[Len(stack) + 1] = [node |-> Len(inst) + 1, deps |-> Deps[Dep.id], at |-> 1]
           /\ inst' \in Seq(Instance) /\ Len(inst) + 1 \in DOMAIN inst' /\ IdsKept
           /\ errors' = IF Dep.id \in Handled THEN errors ELSE errors + 1
<1> DEFINE new == [node |-> Len(inst) + 1, deps |-> Deps[Dep.id], at |-> 1]
<1>1. stack # <<>> /\ InLoop /\ Dep.id \in Id /\ Enter(Dep.id, Top.node, Dep.kind, Advanced)
    BY DEF Descend, InLoop
<1>2. stack \in Seq(Frame) /\ inst \in Seq(Instance) /\ Top \in Frame /\ Top = stack[Len(stack)]
    BY <1>1, Facts
<1>3. /\ Advanced \in Seq(Frame) /\ Len(Advanced) = Len(stack)
      /\ \A k \in 1..(Len(stack) - 1) : Advanced[k] = stack[k]
      /\ Advanced[Len(stack)] = [Top EXCEPT !.at = @ + 1]
    BY <1>1, <1>2, MovedOn
<1>4. Dep.kind \in Kinds /\ Top.node \in Nat
    BY <1>1, <1>2, DepFacts DEF Dependency, Frame
<1>5. /\ inst' \in Seq(Instance) /\ Len(inst') = Len(inst) + 1 /\ IdsKept
      /\ inst'[Len(inst) + 1].id = Dep.id
      /\ stack' = Append(Advanced, new) /\ stack' \in Seq(Frame)
      /\ errors' = IF Dep.id \in Handled THEN errors ELSE errors + 1
    BY <1>1, <1>3, <1>4, EnterType DEF Inv
<1> HIDE DEF new
<1>6. /\ Len(stack') = Len(stack) + 1 /\ DOMAIN stack' = 1..(Len(stack) + 1)
      /\ \A k \in 1..Len(stack) : stack'[k] = Advanced[k]
      /\ stack'[Len(stack) + 1] = new
    BY <1>2, <1>3, <1>5
<1>7. ASSUME NEW D, NEW f \in [node : Nat, deps : D, at : Nat]
      PROVE  /\ [f EXCEPT !.at = @ + 1].node = f.node /\ [f EXCEPT !.at = @ + 1].deps = f.deps
             /\ [f EXCEPT !.at = @ + 1].at = f.at + 1
    OBVIOUS
<1>8. Len(stack) \in 1..Len(stack) /\ DOMAIN stack = 1..Len(stack)
    BY <1>1, <1>2
<1>9. LET up == stack'[Len(stack)]
          old == stack[Len(stack)]
      IN  up.node = old.node /\ up.deps = old.deps /\ up.at = old.at + 1
  <2>1. stack'[Len(stack)] = [Top EXCEPT !.at = @ + 1]
      BY <1>3, <1>6, <1>8
  <2>2. QED  BY <1>2, <1>7, <2>1 DEF Frame
<1>10. ASSUME NEW k \in 1..Len(stack)
      PROVE  /\ stack'[k].node = stack[k].node /\ stack'[k].deps = stack[k].deps
             /\ stack'[k].at = IF k = Len(stack) THEN stack[k].at + 1 ELSE stack[k].at
  <2>1. CASE k = Len(stack)
      BY <1>9, <2>1
  <2>2. CASE k # Len(stack)
    <3>1. stack'[k] = stack[k]
        BY <1>2, <1>3, <1>6, <2>2
    <3>2. QED  BY <2>2, <3>1
  <2>3. QED  BY <2>1, <2>2
<1>11. ASSUME NEW k \in 1..Len(stack) PROVE Ids'[k] = Ids[k]
  <2>1. k \in DOMAIN stack /\ k \in DOMAIN stack' /\ stack[k].node \in DOMAIN inst
      BY <1>2, <1>6, <1>8 DEF Inv, Calls
  <2>2. QED  BY <1>5, <1>10, <2>1 DEF Ids, IdsKept
<1>12. Len(stack) + 1 \in DOMAIN stack'
    BY <1>2, <1>6
<1>13. stack'[Len(stack) + 1].node = Len(inst) + 1
    BY <1>6 DEF new
<1>14. Ids'[Len(stack) + 1] = Dep.id
    BY <1>5, <1>12, <1>13 DEF Ids
<1>15. Len(inst) + 1 \in DOMAIN inst'
    BY <1>2, <1>5
<1>16. QED  BY <1>5, <1>6, <1>10, <1>11, <1>14, <1>15 DEF new
-----------------------------------------------------------------------------
(* What is left of the stack is as it was.                                  *)
LEMMA PopCalls ==
    ASSUME Inv, stack # <<>>, IdsKept, UNCHANGED Deps, stack' = Below
    PROVE  /\ \A k \in DOMAIN stack' :
                /\ stack'[k].node \in DOMAIN inst'
                /\ stack'[k].deps = Deps'[Ids'[k]]
                /\ stack'[k].at \in 1..(Len(stack'[k].deps) + 1)
           /\ \A k \in 1..(Len(stack') - 1) :
                /\ stack'[k].at > 1
                /\ stack'[k].deps[stack'[k].at - 1].id = Ids'[k + 1]
           /\ stack' # <<>> => Ids'[1] = Ids[1]
<1>1. Calls /\ stack \in Seq(Frame)
    BY DEF Inv, TypeOK
<1>2. \A n \in DOMAIN inst : n \in DOMAIN inst'
    BY DEF IdsKept
<1>3. ASSUME NEW k \in DOMAIN stack'
      PROVE  /\ stack'[k].node \in DOMAIN inst'
             /\ stack'[k].deps = Deps'[Ids'[k]]
             /\ stack'[k].at \in 1..(Len(stack'[k].deps) + 1)
  <2>1. k \in DOMAIN stack /\ stack'[k] = stack[k] /\ Ids'[k] = Ids[k]
      BY <1>1, PopShape
  <2>2. QED  BY <1>1, <1>2, <2>1 DEF Calls
<1>4. ASSUME NEW k \in 1..(Len(stack') - 1)
      PROVE  stack'[k].at > 1 /\ stack'[k].deps[stack'[k].at - 1].id = Ids'[k + 1]
  <2>1. k \in 1..(Len(stack) - 1) /\ k + 1 \in 1..(Len(stack) - 1)
      BY <1>1, PopShape
  <2>2. stack'[k] = stack[k] /\ Ids'[k + 1] = Ids[k + 1]
      BY <2>1, PopShape
  <2>3. QED  BY <1>1, <2>1, <2>2 DEF Calls
<1>5. ASSUME stack' # <<>> PROVE Ids'[1] = Ids[1]
  <2>1. stack' \in Seq(Frame)
      BY <1>1, Popped
  <2>2. 1 \in 1..(Len(stack) - 1)
      BY <1>1, <1>5, <2>1, PopShape
  <2>3. QED  BY <2>2, PopShape
<1>6. QED  BY <1>3, <1>4, <1>5

LEMMA CallsStep == Inv /\ Next => Calls'
<1> SUFFICES ASSUME Inv, Next PROVE Calls'
    OBVIOUS
<1>1. TypeOK /\ config \in Configs /\ Calls /\ stack \in Seq(Frame) /\ inst \in Seq(Instance)
    BY DEF Inv, TypeOK
<1>2. TypeOK' /\ IdsKept /\ UNCHANGED config /\ UNCHANGED Deps
    BY TypeStep, SameConfig
<1>3. \A n \in DOMAIN inst : n \in DOMAIN inst'
    BY <1>2 DEF IdsKept
<1>4. CASE StartRoot
  <2> DEFINE id == config.entries[rootsDone + 1]
             new == [node |-> Len(inst) + 1, deps |-> Deps[id], at |-> 1]
  <2>1. id \in Id /\ rootsDone < Len(config.entries)
      BY <1>1, <1>4, DepsType DEF StartRoot, TypeOK
  <2>2. Enter(id, 0, "NONE", <<>>) /\ UNCHANGED rootsDone
      BY <1>4 DEF StartRoot
  <2>3. <<>> \in Seq(Frame) /\ 0 \in Nat /\ "NONE" \in Kinds
      BY DEF Kinds
  <2> HIDE DEF id
  <2>4. /\ inst' \in Seq(Instance) /\ Len(inst') = Len(inst) + 1 /\ inst'[Len(inst) + 1].id = id
        /\ stack' = Append(<<>>, new)
      BY <1>1, <2>1, <2>2, <2>3, EnterType
  <2>5. DOMAIN stack' = {1} /\ Len(stack') = 1 /\ stack'[1] = new
      BY <2>4
  <2>6. Ids'[1] = id
      BY <2>4, <2>5 DEF Ids
  <2>7. Len(inst) + 1 \in DOMAIN inst'
      BY <1>1, <2>4
  <2>8. Deps[id] \in Seq(Dependency)
      BY <1>1, <2>1, DepsType
  <2>9. new.at \in 1..(Len(new.deps) + 1)
      BY <2>8
  <2>10. QED  BY <1>2, <2>1, <2>2, <2>5, <2>6, <2>7, <2>9 DEF Calls, id
<1>5. CASE MissingReference
  <2>1. stack # <<>> /\ InLoop /\ stack' = Advanced /\ UNCHANGED <<rootsDone, failing>>
      BY <1>5 DEF MissingReference, InLoop
  <2>2. Top.at \in DOMAIN Top.deps /\ Top = stack[Len(stack)]
      BY <2>1, DepFacts, Facts
  <2>3. stack[Len(stack)].at <= Len(stack[Len(stack)].deps)
      BY <2>1, <2>2 DEF InLoop
  <2>4. \A k \in DOMAIN stack' :
          /\ stack'[k].node \in DOMAIN inst'
          /\ stack'[k].deps = Deps'[Ids'[k]]
          /\ stack'[k].at \in 1..(Len(stack'[k].deps) + 1)
    <3> SUFFICES ASSUME NEW k \in DOMAIN stack
                 PROVE  /\ stack'[k].node \in DOMAIN inst'
                        /\ stack'[k].deps = Deps'[Ids'[k]]
                        /\ stack'[k].at \in 1..(Len(stack'[k].deps) + 1)
        BY <1>2, <2>1, MoveShape
    <3>1. /\ Ids'[k] = Ids[k] /\ stack'[k].node = stack[k].node /\ stack'[k].deps = stack[k].deps
          /\ stack'[k].at = IF k = Len(stack) THEN stack[k].at + 1 ELSE stack[k].at
        BY <1>2, <2>1, MoveShape
    <3>2. /\ stack[k].node \in DOMAIN inst /\ stack[k].deps = Deps[Ids[k]]
          /\ stack[k].at \in 1..(Len(stack[k].deps) + 1)
        BY <1>1 DEF Calls
    <3>3. Ids[k] \in Id /\ Deps[Ids[k]] \in Seq(Dependency)
        BY <1>1, <2>1, Facts, DepsType
    <3>4. QED  BY <1>2, <1>3, <2>3, <3>1, <3>2, <3>3
  <2>5. ASSUME NEW k \in 1..(Len(stack') - 1)
        PROVE  stack'[k].at > 1 /\ stack'[k].deps[stack'[k].at - 1].id = Ids'[k + 1]
    <3>1. k \in 1..(Len(stack) - 1) /\ k \in DOMAIN stack /\ k + 1 \in DOMAIN stack /\ k # Len(stack)
      <4>1. Len(stack') = Len(stack)
          BY <1>2, <2>1, MoveShape
      <4>2. QED  BY <1>1, <4>1
    <3>2. stack'[k].at = stack[k].at /\ stack'[k].deps = stack[k].deps /\ Ids'[k + 1] = Ids[k + 1]
        BY <1>2, <2>1, <3>1, MoveShape
    <3>3. QED  BY <1>1, <3>1, <3>2 DEF Calls
  <2>6. Ids'[1] = Ids[1]
      BY <1>1, <1>2, <2>1, MoveShape
  <2>7. QED  BY <1>1, <1>2, <2>1, <2>4, <2>5, <2>6 DEF Calls
<1>6. CASE CycleFound \/ ChildFailed
  <2>1. stack # <<>> /\ stack' = Below /\ failing' /\ UNCHANGED rootsDone
      BY <1>6 DEF CycleFound, ChildFailed, InLoop
  <2>2. QED  BY <1>1, <1>2, <2>1, PopCalls DEF Calls
<1>7. CASE Descend
  <2>1. stack # <<>> /\ InLoop /\ Dep.id \in Id /\ UNCHANGED <<rootsDone, failing>>
      BY <1>7 DEF Descend, InLoop
  <2>2. Top.at \in DOMAIN Top.deps /\ Top = stack[Len(stack)] /\ Dep = Top.deps[Top.at]
      BY <2>1, DepFacts, Facts DEF Dep
  <2>3. stack[Len(stack)].at <= Len(stack[Len(stack)].deps)
      BY <2>1, <2>2 DEF InLoop
  <2>4. Deps[Dep.id] \in Seq(Dependency)
      BY <1>1, <2>1, DepsType
  <2>5. \A k \in DOMAIN stack' :
          /\ stack'[k].node \in DOMAIN inst'
          /\ stack'[k].deps = Deps'[Ids'[k]]
          /\ stack'[k].at \in 1..(Len(stack'[k].deps) + 1)
    <3> SUFFICES ASSUME NEW k \in DOMAIN stack'
                 PROVE  /\ stack'[k].node \in DOMAIN inst'
                        /\ stack'[k].deps = Deps'[Ids'[k]]
                        /\ stack'[k].at \in 1..(Len(stack'[k].deps) + 1)
        OBVIOUS
    <3>1. CASE k = Len(stack) + 1
        BY <1>2, <1>7, <2>4, <3>1, PushShape
    <3>2. CASE k # Len(stack) + 1
      <4>1. k \in 1..Len(stack) /\ k \in DOMAIN stack
          BY <1>1, <1>7, <3>2, PushShape
      <4>2. /\ Ids'[k] = Ids[k] /\ stack'[k].node = stack[k].node /\ stack'[k].deps = stack[k].deps
            /\ stack'[k].at = IF k = Len(stack) THEN stack[k].at + 1 ELSE stack[k].at
          BY <1>7, <4>1, PushShape
      <4>3. /\ stack[k].node \in DOMAIN inst /\ stack[k].deps = Deps[Ids[k]]
            /\ stack[k].at \in 1..(Len(stack[k].deps) + 1)
          BY <1>1, <4>1 DEF Calls
      <4>4. Ids[k] \in Id /\ Deps[Ids[k]] \in Seq(Dependency)
          BY <1>1, <2>1, <4>1, Facts, DepsType
      <4>5. QED  BY <1>2, <1>3, <2>3, <4>2, <4>3, <4>4
    <3>3. QED  BY <3>1, <3>2
  <2>6. ASSUME NEW k \in 1..(Len(stack') - 1)
        PROVE  stack'[k].at > 1 /\ stack'[k].deps[stack'[k].at - 1].id = Ids'[k + 1]
    <3>1. k \in 1..Len(stack) /\ Len(stack) \in Nat
        BY <1>1, <1>7, PushShape
    <3>2. CASE k = Len(stack)
      <4>1. stack'[k].at = Top.at + 1 /\ stack'[k].deps = Top.deps /\ Top.at \in Nat \ {0}
          BY <1>1, <1>7, <2>2, <3>1, <3>2, PushShape DEF Calls
      <4>2. (Top.at + 1) - 1 = Top.at
          BY <4>1
      <4>3. QED  BY <1>7, <2>2, <3>2, <4>1, <4>2, PushShape
    <3>3. CASE k # Len(stack)
      <4>1. k \in 1..(Len(stack) - 1) /\ k + 1 \in 1..Len(stack)
          BY <3>1, <3>3
      <4>2. stack'[k].at = stack[k].at /\ stack'[k].deps = stack[k].deps /\ Ids'[k + 1] = Ids[k + 1]
          BY <1>7, <3>1, <3>3, <4>1, PushShape
      <4>3. QED  BY <1>1, <4>1, <4>2 DEF Calls
    <3>4. QED  BY <3>2, <3>3
  <2>7. stack' # <<>> /\ Ids'[1] = Ids[1]
      BY <1>1, <1>7, <2>1, PushShape
  <2>8. QED  BY <1>1, <1>2, <2>1, <2>5, <2>6, <2>7 DEF Calls
<1>8. CASE ReturnNode
  <2>1. stack # <<>> /\ stack' = Below /\ ~failing /\ UNCHANGED failing
      BY <1>8 DEF ReturnNode
  <2>2. Below # <<>> => UNCHANGED rootsDone
      BY <1>8 DEF ReturnNode
  <2>3. QED  BY <1>1, <1>2, <2>1, <2>2, PopCalls DEF Calls
<1>9. CASE RootFailed
  <2>1. stack = <<>> /\ stack' = <<>> /\ ~failing'
      BY <1>9 DEF RootFailed
  <2>2. QED  BY <1>2, <2>1 DEF Calls
<1>10. QED  BY <1>4, <1>5, <1>6, <1>7, <1>8, <1>9 DEF Next

(* A call is made only for a node that is not being gone through, other than   *)
(* the one that makes it.                                                   *)
LEMMA NoneTwiceStep == Inv /\ Next => NoneTwice'
<1> SUFFICES ASSUME Inv, Next, NEW i \in DOMAIN stack', NEW j \in DOMAIN stack', i < j, Ids'[i] = Ids'[j]
             PROVE  j = i + 1
    BY DEF NoneTwice
<1>1. stack \in Seq(Frame) /\ NoneTwice
    BY DEF Inv, TypeOK
<1>2. TypeOK' /\ IdsKept /\ stack' \in Seq(Frame)
    BY TypeStep DEF TypeOK
<1>3. CASE StartRoot
  <2>1. Len(stack') = 1
      BY <1>3 DEF StartRoot, Enter
  <2>2. QED  BY <1>2, <2>1
<1>4. CASE MissingReference
    BY <1>1, <1>2, <1>4, MoveShape DEF MissingReference, InLoop, NoneTwice
<1>5. CASE CycleFound \/ ChildFailed \/ ReturnNode
  <2>1. stack # <<>> /\ stack' = Below
      BY <1>5 DEF CycleFound, ChildFailed, ReturnNode, InLoop
  <2>2. i \in DOMAIN stack /\ j \in DOMAIN stack /\ Ids'[i] = Ids[i] /\ Ids'[j] = Ids[j]
      BY <1>1, <1>2, <2>1, PopShape
  <2>3. QED  BY <1>1, <2>2 DEF NoneTwice
<1>6. CASE Descend
  <2>1. stack # <<>> /\ ~HasAncestor(Dep.id)
      BY <1>6 DEF Descend, InLoop
  <2>2. i \in 1..Len(stack) /\ Ids'[i] = Ids[i] /\ Len(stack) \in Nat
      BY <1>1, <1>2, <1>6, PushShape
  <2>3. CASE j # Len(stack) + 1
    <3>1. DOMAIN stack' = 1..(Len(stack) + 1)
        BY <1>6, PushShape
    <3>2. j \in 1..Len(stack)
        BY <2>2, <2>3, <3>1
    <3>3. j \in DOMAIN stack /\ i \in DOMAIN stack
        BY <1>1, <2>2, <3>2
    <3>4. Ids'[j] = Ids[j]
        BY <1>6, <3>2, PushShape
    <3>5. QED  BY <1>1, <2>2, <3>3, <3>4 DEF NoneTwice
  <2>4. CASE j = Len(stack) + 1
    <3>1. Ids[i] = Dep.id
        BY <1>6, <2>2, <2>4, PushShape
    <3>2. ASSUME i # Len(stack) PROVE FALSE
      <4>1. i \in 1..(Len(stack) - 1) /\ i \in DOMAIN stack
          BY <1>1, <2>2, <3>2
      <4>2. i \in DOMAIN Below /\ Below[i] = stack[i]
          BY <1>1, <2>1, <4>1, Popped
      <4>3. IdOf(Below[i]) = Dep.id
          BY <3>1, <4>1, <4>2 DEF Ids, IdOf
      <4>4. QED  BY <2>1, <4>2, <4>3 DEF HasAncestor
    <3>3. QED  BY <2>4, <3>2
  <2>5. QED  BY <2>3, <2>4
<1>7. CASE RootFailed
    BY <1>1, <1>7 DEF RootFailed
<1>8. QED  BY <1>3, <1>4, <1>5, <1>6, <1>7 DEF Next
-----------------------------------------------------------------------------
LEMMA GoodStep == Inv /\ Next => GoodSoFar'
<1> SUFFICES ASSUME Inv, Next, errors' = 0
             PROVE  /\ ~failing'
                    /\ \A i \in 1..rootsDone' : config'.entries[i] \in Good'
                    /\ \A k \in DOMAIN stack' : Cleared(k)'
    BY DEF GoodSoFar
<1>1. /\ TypeOK /\ config \in Configs /\ Calls
      /\ stack \in Seq(Frame) /\ errors \in Nat /\ rootsDone \in Nat
    BY DEF Inv, TypeOK
<1>2. IdsKept /\ UNCHANGED config /\ UNCHANGED <<Deps, Good, Handled>>
    BY TypeStep, SameConfig
<1>3. errors = 0
    BY <1>1 DEF Next, StartRoot, MissingReference, CycleFound, Descend, ChildFailed, ReturnNode, RootFailed, Enter
<1>4. /\ ~failing
      /\ \A i \in 1..rootsDone : config.entries[i] \in Good
      /\ \A k \in DOMAIN stack : Cleared(k)
    BY <1>3 DEF Inv, GoodSoFar
<1>5. ~MissingReference /\ ~CycleFound /\ ~ChildFailed /\ ~RootFailed
    BY <1>1, <1>4 DEF MissingReference, CycleFound, ChildFailed, RootFailed
<1>6. CASE StartRoot
  <2> DEFINE id == config.entries[rootsDone + 1]
  <2>1. id \in Id
      BY <1>1, <1>6, DepsType DEF StartRoot, TypeOK
  <2>2. Enter(id, 0, "NONE", <<>>) /\ UNCHANGED <<rootsDone, failing>>
      BY <1>6 DEF StartRoot
  <2>3. <<>> \in Seq(Frame) /\ 0 \in Nat /\ "NONE" \in Kinds
      BY DEF Kinds
  <2> HIDE DEF id
  <2>4. /\ inst' \in Seq(Instance) /\ Len(inst') = Len(inst) + 1 /\ inst'[Len(inst) + 1].id = id
        /\ stack' = Append(<<>>, [node |-> Len(inst) + 1, deps |-> Deps[id], at |-> 1])
        /\ errors' = IF id \in Handled THEN errors ELSE errors + 1
      BY <1>1, <2>1, <2>2, <2>3, EnterType
  <2>5. DOMAIN stack' = {1} /\ Ids'[1] = id /\ stack'[1].at = 1
      BY <2>4 DEF Ids
  <2>6. id \in Handled
      BY <1>3, <2>4
  <2>7. \A k \in DOMAIN stack' : Cleared(k)'
      BY <1>2, <2>5, <2>6 DEF Cleared
  <2>8. QED  BY <1>2, <1>4, <2>2, <2>7
<1>7. CASE Descend
  <2>1. InLoop /\ stack # <<>> /\ Dep.id \in Id /\ UNCHANGED <<rootsDone, failing>>
      BY <1>7 DEF Descend, InLoop
  <2>2. Dep.id \in Handled
      BY <1>3, <1>7, PushShape
  <2>3. Top.at \in DOMAIN Top.deps /\ Top = stack[Len(stack)] /\ Dep = Top.deps[Top.at]
      BY <2>1, DepFacts, Facts DEF Dep
  <2>4. ASSUME NEW k \in DOMAIN stack' PROVE Cleared(k)'
    <3>1. CASE k = Len(stack) + 1
        BY <1>2, <1>7, <2>2, <3>1, PushShape DEF Cleared
    <3>2. CASE k # Len(stack) + 1
      <4>1. k \in 1..Len(stack) /\ k \in DOMAIN stack /\ k # Len(stack')
          BY <1>1, <1>7, <3>2, PushShape
      <4>2. /\ Ids'[k] = Ids[k] /\ stack'[k].deps = stack[k].deps
            /\ stack'[k].at = IF k = Len(stack) THEN stack[k].at + 1 ELSE stack[k].at
          BY <1>7, <4>1, PushShape
      <4>3. stack[k].at \in Nat \ {0}
          BY <1>1, <4>1 DEF Calls
      <4>4. Ids[k] \in Handled /\ \A j \in 1..(stack[k].at - 1) :
              /\ stack[k].deps[j].id \in Id
              /\ k = Len(stack) \/ j < stack[k].at - 1 => stack[k].deps[j].id \in Good
          BY <1>4, <4>1 DEF Cleared
      <4>5. ASSUME NEW j \in 1..(stack'[k].at - 1)
            PROVE  /\ stack[k].deps[j].id \in Id
                   /\ j < stack'[k].at - 1 => stack[k].deps[j].id \in Good
        <5>1. CASE k # Len(stack)
            BY <4>2, <4>4, <5>1
        <5>2. CASE k = Len(stack) /\ j = stack[k].at
            BY <2>1, <2>3, <4>2, <4>3, <5>2
        <5>3. CASE k = Len(stack) /\ j # stack[k].at
          <6>1. j \in 1..(stack[k].at - 1)
              BY <4>2, <4>3, <5>3
          <6>2. QED  BY <4>4, <5>3, <6>1
        <5>4. QED  BY <5>1, <5>2, <5>3
      <4>6. QED  BY <1>2, <4>1, <4>2, <4>4, <4>5 DEF Cleared
    <3>3. QED  BY <3>1, <3>2
  <2>5. QED  BY <1>2, <1>4, <2>1, <2>4
<1>8. CASE ReturnNode
  <2> DEFINE n == Len(stack)
  <2>1. stack # <<>> /\ stack' = Below /\ UNCHANGED failing /\ Top.at > Len(Top.deps)
      BY <1>8 DEF ReturnNode
  <2>2. n \in DOMAIN stack /\ Top = stack[n] /\ Ids[n] \in Id
      BY <2>1, Facts
  <2>3. Deps[Ids[n]] \in Seq(Dependency) /\ stack[n].deps = Deps[Ids[n]] /\ stack[n].at \in 1..(Len(stack[n].deps) + 1)
      BY <1>1, <2>2, DepsType DEF Calls
  <2>4. Cleared(n)
      BY <1>4, <2>2
  <2>5. Ids[n] \in Good
    <3>1. ASSUME NEW d \in Range(Deps[Ids[n]]) PROVE d.id \in Good
      <4>1. PICK j \in DOMAIN Deps[Ids[n]] : d = Deps[Ids[n]][j]
          BY DEF Range
      <4>2. j \in 1..(stack[n].at - 1)
          BY <2>1, <2>2, <2>3, <4>1
      <4>3. QED  BY <2>3, <2>4, <4>1, <4>2 DEF Cleared
    <3>2. Ids[n] \in Handled
        BY <2>4 DEF Cleared
    <3>3. QED  BY <1>1, <3>1, <3>2, GoodFromBelow
  <2>6. ASSUME NEW k \in DOMAIN stack' PROVE Cleared(k)'
    <3>1. k \in 1..(n - 1) /\ k \in DOMAIN stack /\ stack'[k] = stack[k] /\ Ids'[k] = Ids[k] /\ n \in Nat
        BY <1>1, <1>2, <2>1, PopShape
    <3>2. Ids[k] \in Handled /\ \A j \in 1..(stack[k].at - 1) :
            /\ stack[k].deps[j].id \in Id
            /\ j < stack[k].at - 1 => stack[k].deps[j].id \in Good
        BY <1>4, <3>1 DEF Cleared
    <3>3. ASSUME NEW j \in 1..(stack[k].at - 1), k = Len(stack') PROVE stack[k].deps[j].id \in Good
      <4>1. k + 1 = n
          BY <1>1, <1>2, <2>1, <3>1, <3>3, PopShape
      <4>2. stack[k].deps[stack[k].at - 1].id = Ids[n] /\ stack[k].at \in Nat
          BY <1>1, <3>1, <4>1 DEF Calls
      <4>3. QED  BY <2>5, <3>2, <4>2
    <3>4. QED  BY <1>2, <3>1, <3>2, <3>3 DEF Cleared
  <2>7. ASSUME NEW i \in 1..rootsDone' PROVE config.entries[i] \in Good
    <3>1. CASE Below # <<>>
        BY <1>4, <1>8, <2>7, <3>1 DEF ReturnNode
    <3>2. CASE Below = <<>>
      <4>1. rootsDone' = rootsDone + 1
          BY <1>8, <3>2 DEF ReturnNode
      <4>2. n = 1
          BY <1>1, <2>1, <3>2, Popped
      <4>3. config.entries[rootsDone + 1] \in Good
          BY <1>1, <2>1, <2>5, <4>2 DEF Calls
      <4>4. QED  BY <1>1, <1>4, <2>7, <4>1, <4>3
    <3>3. QED  BY <3>1, <3>2
  <2>8. QED  BY <1>2, <1>4, <2>1, <2>6, <2>7
<1>9. QED  BY <1>5, <1>6, <1>7, <1>8 DEF Next
-----------------------------------------------------------------------------
(* Every call in progress is for something the calls below it lead to.         *)
LEMMA OnePath ==
    ASSUME Inv, NEW i \in DOMAIN stack, NEW k \in DOMAIN stack, i <= k
    PROVE  Ids[k] \in Reach[Ids[i]]
<1>1. stack \in Seq(Frame) /\ config \in Configs /\ Calls /\ stack # <<>>
    BY DEF Inv, TypeOK
<1>2. DOMAIN stack = 1..Len(stack) /\ Len(stack) \in Nat /\ i \in Nat
    BY <1>1
<1>3. \A j \in DOMAIN stack : Ids[j] \in Id
    BY <1>1, Facts
<1> DEFINE N == {m \in Nat : i + m <= Len(stack) => Ids[i + m] \in Reach[Ids[i]]}
<1>4. 0 \in N
  <2>1. i + 0 = i
      BY <1>2
  <2>2. QED  BY <1>1, <1>3, <2>1, LeadsOn
<1>5. ASSUME NEW m \in N PROVE m + 1 \in N
  <2> SUFFICES ASSUME i + (m + 1) <= Len(stack) PROVE Ids[i + (m + 1)] \in Reach[Ids[i]]
      OBVIOUS
  <2> DEFINE j == i + m
             d == stack[j].deps[stack[j].at - 1]
  <2>1. j \in 1..(Len(stack) - 1) /\ j \in DOMAIN stack /\ i + (m + 1) = j + 1 /\ j <= Len(stack)
      BY <1>2
  <2>2. Ids[j] \in Reach[Ids[i]] /\ Ids[j] \in Id
      BY <1>3, <2>1
  <2> HIDE DEF j
  <2>3. d.id = Ids[j + 1] /\ stack[j].deps = Deps[Ids[j]] /\ stack[j].at \in 2..(Len(stack[j].deps) + 1)
    <3>1. d.id = Ids[j + 1] /\ stack[j].at > 1
        BY <1>1, <2>1 DEF Calls
    <3>2. stack[j].deps = Deps[Ids[j]] /\ stack[j].at \in 1..(Len(stack[j].deps) + 1)
        BY <1>1, <2>1 DEF Calls
    <3> HIDE DEF d
    <3>3. QED  BY <3>1, <3>2
  <2>4. Deps[Ids[j]] \in Seq(Dependency)
      BY <1>1, <2>2, DepsType
  <2>5. stack[j].at - 1 \in DOMAIN Deps[Ids[j]]
      BY <2>3, <2>4
  <2>6. d \in Range(Deps[Ids[j]])
      BY <2>3, <2>5 DEF Range
  <2>7. d.id \in Reach[Ids[i]]
      BY <1>1, <1>3, <2>2, <2>6, LeadsOn
  <2>8. QED  BY <2>1, <2>3, <2>7
<1>6. N = Nat
  <2> N \in SUBSET Nat
      OBVIOUS
  <2> HIDE DEF N
  <2>1. QED  BY <1>4, <1>5, Induction
<1>7. k - i \in N
    BY <1>2, <1>6
<1>8. i + (k - i) = k /\ k <= Len(stack)
    BY <1>2
<1>9. QED  BY <1>7, <1>8

LEMMA BadStep == Inv /\ Next => BadAtRoot'
<1> SUFFICES ASSUME Inv, Next PROVE BadAtRoot'
    OBVIOUS
<1> DEFINE root == config.entries[rootsDone + 1]
<1>1. /\ TypeOK /\ config \in Configs /\ Calls /\ BadAtRoot
      /\ stack \in Seq(Frame) /\ errors \in Nat /\ rootsDone \in Nat
    BY DEF Inv, TypeOK
<1>2. UNCHANGED config /\ UNCHANGED Good
    BY TypeStep, SameConfig
<1>3. ASSUME errors' = errors \/ errors > 0 PROVE BadAtRoot'
    BY <1>1, <1>2, <1>3 DEF BadAtRoot
<1>4. ASSUME rootsDone < Len(config.entries), root \notin Good PROVE BadAtRoot'
  <2>1. rootsDone + 1 \in DOMAIN config.entries
      BY <1>1, <1>4, DepsType
  <2>2. QED  BY <1>2, <1>4, <2>1 DEF BadAtRoot
<1>5. ASSUME stack # <<>>
      PROVE  /\ rootsDone < Len(config.entries) /\ root = Ids[1] /\ root \in Id
             /\ \A k \in DOMAIN stack : Ids[k] \in Reach[root] \cap Id
  <2>1. 1 \in DOMAIN stack /\ root = Ids[1] /\ rootsDone < Len(config.entries)
      BY <1>1, <1>5 DEF Calls
  <2>2. \A k \in DOMAIN stack : 1 <= k
      BY <1>1
  <2>3. \A k \in DOMAIN stack : Ids[k] \in Id
      BY <1>5, Facts
  <2> HIDE DEF root
  <2>4. QED  BY <2>1, <2>2, <2>3, OnePath
<1>6. CASE StartRoot
  <2>1. root \in Id /\ rootsDone < Len(config.entries)
      BY <1>1, <1>6, DepsType DEF StartRoot, TypeOK
  <2>2. Enter(root, 0, "NONE", <<>>)
      BY <1>6 DEF StartRoot
  <2>3. <<>> \in Seq(Frame) /\ 0 \in Nat /\ "NONE" \in Kinds
      BY DEF Kinds
  <2> HIDE DEF root
  <2>4. errors' = IF root \in Handled THEN errors ELSE errors + 1
      BY <1>1, <2>1, <2>2, <2>3, EnterType
  <2>5. CASE root \in Handled
      BY <1>3, <2>4, <2>5
  <2>6. CASE root \notin Handled
    <3>1. root \in Reach[root]
        BY <1>1, <2>1, LeadsOn
    <3>2. root \notin Good
        BY <1>1, <2>1, <2>6, <3>1, BadAbove
    <3>3. QED  BY <1>4, <2>1, <3>2
  <2>7. QED  BY <2>5, <2>6
<1>7. CASE InLoop /\ (MissingReference \/ CycleFound \/ Descend)
  <2> DEFINE n == Len(stack)
             id == Ids[n]
  <2>1. stack # <<>>
      BY <1>7 DEF InLoop
  <2>2. n \in DOMAIN stack /\ id \in Reach[root] \cap Id /\ root \in Id /\ rootsDone < Len(config.entries)
      BY <1>5, <2>1, Facts
  <2>3. Dep \in Range(Deps[id]) /\ Dep.id \in Id \cup {Missing}
      BY <1>7, DepFacts DEF Dependency
  <2> HIDE DEF root
  <2>4. Dep.id \in Reach[root]
      BY <1>1, <2>2, <2>3, LeadsOn
  <2>5. CASE MissingReference
    <3>1. Dep.id = Missing
        BY <2>3, <2>5 DEF MissingReference
    <3>2. root \notin Good
        BY <1>1, <2>2, <2>4, <3>1, BadAbove
    <3>3. QED  BY <1>4, <2>2, <3>2
  <2>6. CASE CycleFound
    <3>1. PICK k \in DOMAIN Below : IdOf(Below[k]) = Dep.id
        BY <2>6 DEF CycleFound, HasAncestor
    <3>2. /\ k \in 1..(n - 1) /\ k \in DOMAIN stack /\ k + 1 \in DOMAIN stack /\ k + 1 <= n
          /\ Below[k] = stack[k]
        BY <1>1, <2>1, Popped
    <3>3. Ids[k] = Dep.id
        BY <3>1, <3>2 DEF Ids, IdOf
    <3> DEFINE d == stack[k].deps[stack[k].at - 1]
    <3>4. d.id = Ids[k + 1] /\ stack[k].deps = Deps[Ids[k]] /\ stack[k].at \in 2..(Len(stack[k].deps) + 1)
        BY <1>1, <3>2 DEF Calls
    <3>5. Ids[k] \in Reach[root] \cap Id /\ Ids[k + 1] \in Id
        BY <1>5, <2>1, <3>2
    <3>6. Deps[Ids[k]] \in Seq(Dependency)
        BY <1>1, <3>5, DepsType
    <3>7. stack[k].at - 1 \in DOMAIN Deps[Ids[k]]
        BY <3>4, <3>6
    <3>8. d \in Range(Deps[Ids[k]])
        BY <3>4, <3>7 DEF Range
    <3>9. id \in Reach[Ids[k + 1]]
        BY <2>2, <3>2, OnePath
    <3>10. Ids[k] \in Reach[Ids[k + 1]]
        BY <1>1, <2>2, <2>3, <3>3, <3>5, <3>9, LeadsOn
    <3> HIDE DEF d
    <3>11. root \notin Good
        BY <1>1, <2>2, <3>4, <3>5, <3>8, <3>10, BadAbove
    <3>12. QED  BY <1>4, <2>2, <3>11
  <2>7. CASE Descend
    <3>1. Dep.id \in Id /\ errors' = IF Dep.id \in Handled THEN errors ELSE errors + 1
        BY <2>7, PushShape DEF Descend
    <3>2. CASE Dep.id \in Handled
        BY <1>3, <3>1, <3>2
    <3>3. CASE Dep.id \notin Handled
      <4>1. root \notin Good
          BY <1>1, <2>2, <2>4, <3>1, <3>3, BadAbove
      <4>2. QED  BY <1>4, <2>2, <4>1
    <3>4. QED  BY <3>2, <3>3
  <2>8. QED  BY <1>7, <2>5, <2>6, <2>7
<1>8. CASE ChildFailed
  <2>1. errors # 0
      BY <1>8 DEF ChildFailed, Inv, GoodSoFar
  <2>2. QED  BY <1>1, <1>3, <2>1
<1>9. CASE ReturnNode \/ RootFailed
    BY <1>3, <1>9 DEF ReturnNode, RootFailed
<1>10. QED  BY <1>6, <1>7, <1>8, <1>9 DEF Next, MissingReference, CycleFound, Descend
-----------------------------------------------------------------------------
LEMMA InvStep == Inv /\ [Next]_vars => Inv'
<1> SUFFICES ASSUME Inv, [Next]_vars PROVE Inv'
    OBVIOUS
<1>1. CASE Next
  <2>1. TypeOK' /\ config' \in Configs
      BY <1>1, TypeStep DEF Inv
  <2>2. Calls' /\ NoneTwice' /\ GoodSoFar' /\ BadAtRoot'
      BY <1>1, CallsStep, NoneTwiceStep, GoodStep, BadStep
  <2>3. QED  BY <2>1, <2>2 DEF Inv
<1>2. CASE UNCHANGED vars
  <2>1. UNCHANGED <<config, rootsDone, stack, inst, failing, errors, trees, undefined>>
      BY <1>2 DEF vars
  <2>2. UNCHANGED <<Deps, Good, Handled>> /\ UNCHANGED Ids
      BY <2>1, SameConfig DEF Ids
  <2>3. TypeOK' /\ config' \in Configs
      BY <2>1 DEF Inv, TypeOK
  <2>4. Calls' /\ NoneTwice' /\ BadAtRoot'
      BY <2>1, <2>2 DEF Inv, Calls, NoneTwice, BadAtRoot
  <2>5. GoodSoFar'
      BY <2>1, <2>2 DEF Inv, GoodSoFar, Cleared
  <2>6. QED  BY <2>3, <2>4, <2>5 DEF Inv
<1>3. QED  BY <1>1, <1>2

LEMMA Invariance == Spec => []Inv
<1>1. QED  BY InvInit, InvStep, PTL DEF Spec

(* node_instantiate only ever refers to nodes it has made: the frames of the  *)
(* recursion, the parents and the trees it stores are all in the list of      *)
(* runtime nodes, and the loop over the entrypoints stays within the array.   *)
THEOREM TypeCorrect == Spec => []TypeOK
<1>1. Inv => TypeOK
    BY DEF Inv
<1>2. QED  BY <1>1, Invariance, PTL

(* When kbnode_instantiate has been through all entrypoints, *errors is 0 if   *)
(* and only if every entrypoint leads to handled signals and nodes that exist *)
(* and never back to where it came from, although the walk only compares a    *)
(* reference with the IDs above it and stops below the first failure: no      *)
(* cycle, missing ID or lost signal gets by, and no sound tree is refused.    *)
THEOREM ErrorsExactly == Spec => []ErrorsIffIllFormed
<1>1. Inv => ErrorsIffIllFormed
  <2> SUFFICES ASSUME Inv, Finished
               PROVE  errors = 0 <=> \A i \in DOMAIN config.entries : WellFormed(config.entries[i])
      BY DEF ErrorsIffIllFormed
  <2>1. config.entries \in Seq(Id) /\ errors \in Nat /\ rootsDone = Len(config.entries)
      BY DepsType DEF Inv, TypeOK, Finished
  <2>2. DOMAIN config.entries = 1..Len(config.entries) /\ \A i \in DOMAIN config.entries : config.entries[i] \in Id
      BY <2>1
  <2>3. \A i \in DOMAIN config.entries : WellFormed(config.entries[i]) <=> config.entries[i] \in Good
      BY <2>2 DEF Good
  <2>4. errors = 0 => \A i \in DOMAIN config.entries : config.entries[i] \in Good
      BY <2>1, <2>2 DEF Inv, GoodSoFar
  <2>5. errors # 0 => \E i \in DOMAIN config.entries : config.entries[i] \notin Good
      BY <2>1 DEF Inv, BadAtRoot
  <2>6. QED  BY <2>3, <2>4, <2>5
<1>2. QED  BY <1>1, Invariance, PTL

(* The recursion of node_instantiate is at most twice as deep as there are    *)
(* nodes, whatever they refer to: node_findparent misses only a node that     *)
(* refers to itself, and only once.                                         *)
THEOREM DepthBounded == Spec => []BoundedDepth
<1>1. Inv => BoundedDepth
  <2> SUFFICES ASSUME Inv PROVE BoundedDepth
      OBVIOUS
  <2> DEFINE c == Cardinality(Id)
  <2>1. stack \in Seq(Frame) /\ Len(stack) \in Nat /\ DOMAIN stack = 1..Len(stack) /\ NoneTwice
      BY DEF Inv, TypeOK
  <2>2. \A k \in DOMAIN stack : Ids[k] = IdOf(stack[k])
      BY DEF Ids, IdOf
  <2>3. IsFiniteSet(Id) /\ c \in Nat
      BY IdFinite, FS_CardinalityType DEF Inv
  <2> HIDE DEF c
  <2>4. ASSUME Len(stack) > 2 * c PROVE FALSE
    <3> DEFINE odd == [m \in 1..(c + 1) |-> Ids[2 * m - 1]]
    <3>1. \A m \in 1..(c + 1) : 2 * m - 1 \in DOMAIN stack
        BY <2>1, <2>3, <2>4
    <3>2. stack # <<>>
        BY <2>1, <2>3, <2>4
    <3>3. odd \in [1..(c + 1) -> Id]
        BY <3>1, <3>2, Facts
    <3>4. IsFiniteSet(1..(c + 1)) /\ Cardinality(1..(c + 1)) = c + 1
        BY <2>3, FS_Interval
    <3>5. c < c + 1
        BY <2>3
    <3> HIDE DEF odd
    <3>6. PICK m, n \in 1..(c + 1) : m # n /\ odd[m] = odd[n]
        BY <2>3, <3>3, <3>4, <3>5, FS_PigeonHole DEF c
    <3>7. Ids[2 * m - 1] = Ids[2 * n - 1]
        BY <3>6 DEF odd
    <3>8. CASE m < n
      <4>1. 2 * m - 1 < 2 * n - 1 /\ 2 * n - 1 # (2 * m - 1) + 1
          BY <2>3, <3>8
      <4>2. QED  BY <2>1, <3>1, <3>7, <4>1 DEF NoneTwice
    <3>9. CASE n < m
      <4>1. 2 * n - 1 < 2 * m - 1 /\ 2 * m - 1 # (2 * n - 1) + 1
          BY <2>3, <3>9
      <4>2. QED  BY <2>1, <3>1, <3>7, <4>1 DEF NoneTwice
    <3>10. QED  BY <2>3, <3>6, <3>8, <3>9
  <2>5. Len(stack) <= 2 * c
      BY <2>1, <2>3, <2>4
  <2>6. \A i, j \in DOMAIN stack : i < j /\ IdOf(stack[i]) = IdOf(stack[j]) => j = i + 1
      BY <2>1, <2>2 DEF NoneTwice
  <2>7. QED  BY <2>5, <2>6 DEF BoundedDepth, c
<1>2. QED  BY <1>1, Invariance, PTL
-----------------------------------------------------------------------------
(* The trees.  The children of every runtime node, and the nodes none of      *)
(* whose children was deleted without being taken out of its list.           *)
Kids == [n \in Nat |-> Children(n)]
Tended == {n \in Nat : \A x \in DOMAIN inst : inst[x].linked /\ inst[x].parent = n => inst[x].live}
Open == {stack[k].node : k \in DOMAIN stack}

(* Nodes are below older ones; those of the calls in progress are on one path  *)
(* down from a root that is not stored yet.                                 *)
Planted ==
    /\ \A x \in DOMAIN inst : inst[x].parent < x /\ (inst[x].linked => inst[x].parent # 0)
    /\ \A k \in DOMAIN stack :
         /\ inst[stack[k].node].live
         /\ inst[stack[k].node].parent = IF k = 1 THEN 0 ELSE stack[k - 1].node
    /\ \A i, j \in DOMAIN stack : i < j => stack[i].node < stack[j].node
    /\ \A r \in DOMAIN trees : /\ inst[trees[r]].live /\ inst[trees[r]].parent = 0
                               /\ trees[r] \notin Open

(* A call has made the children up to where it is in its list, and a node      *)
(* nobody works on has all of them, other than the one whose child failed: it   *)
(* goes next.                                                               *)
Grown ==
    /\ \A k \in DOMAIN stack : ~(failing /\ k = Len(stack)) =>
         /\ stack[k].node \in Tended
         /\ Kids[stack[k].node] = Existing(SubSeq(stack[k].deps, 1, stack[k].at - 1))
    /\ \A n \in DOMAIN inst \ Open : inst[n].live => n \in Tended /\ Kids[n] = Existing(Deps[inst[n].id])

Whole == Inv /\ Planted /\ Grown

(* The function Reached is defined by exists.                                *)
Spans(f, n) == f = [x \in DOMAIN inst |-> x = n \/ (x > n /\ inst[x].linked /\ f[inst[x].parent])]

LEMMA SpansExists ==
    ASSUME inst \in Seq(Instance), Planted, NEW n
    PROVE  \E f : Spans(f, n)
<1> DEFINE All == DOMAIN inst
           Holds(x, S) == x = n \/ (x > n /\ inst[x].linked /\ inst[x].parent \in S)
           B == {x \in All : \A S \in SUBSET All : (\A y \in All : Holds(y, S) => y \in S) => x \in S}
           f == [x \in All |-> x \in B]
<1>1. ASSUME NEW x \in All, Holds(x, B) PROVE x \in B
    BY <1>1
<1>2. ASSUME NEW x \in B PROVE Holds(x, B)
  <2> DEFINE S == {y \in B : Holds(y, B)}
  <2>1. S \in SUBSET All
      OBVIOUS
  <2>2. ASSUME NEW y \in All, Holds(y, S) PROVE y \in S
    <3>1. Holds(y, B)
        BY <2>2
    <3>2. QED  BY <1>1, <3>1
  <2>3. x \in S
      BY <1>2, <2>1, <2>2
  <2>4. QED  BY <2>3
<1>3. \A x \in All : inst[x].linked => inst[x].parent \in All
  <2>1. ASSUME NEW x \in All, inst[x].linked PROVE inst[x].parent \in All
    <3>1. inst[x] \in Instance /\ inst[x].parent < x /\ inst[x].parent # 0 /\ x \in 1..Len(inst)
        BY <2>1 DEF Planted
    <3>2. inst[x].parent \in Nat
        BY <3>1 DEF Instance
    <3>3. QED  BY <3>1, <3>2
  <2>2. QED  BY <2>1
<1> HIDE DEF B
<1>4. \A x \in All : (x \in B) = (x = n \/ (x > n /\ inst[x].linked /\ inst[x].parent \in B))
    BY <1>1, <1>2
<1>5. \A x \in All : (x = n \/ (x > n /\ inst[x].linked /\ inst[x].parent \in B))
                       = (x = n \/ (x > n /\ inst[x].linked /\ f[inst[x].parent]))
    BY <1>3
<1>6. f = [x \in All |-> x = n \/ (x > n /\ inst[x].linked /\ f[inst[x].parent])]
    BY <1>4, <1>5, Zenon
<1>7. QED  BY <1>6 DEF Spans

LEMMA ReachedUnfolds ==
    ASSUME inst \in Seq(Instance), Planted, NEW n \in Nat
    PROVE  /\ Reached(n) \subseteq DOMAIN inst
           /\ \A x \in Reached(n) : /\ x \in Nat /\ x >= n
                                    /\ x # n => inst[x].linked /\ inst[x].parent \in Reached(n)
           /\ n \in DOMAIN inst => n \in Reached(n)
           /\ \A x \in DOMAIN inst : inst[x].linked /\ inst[x].parent \in Reached(n) => x \in Reached(n)
<1> DEFINE f == CHOOSE g : Spans(g, n)
<1>1. Spans(f, n)
    BY SpansExists
<1>2. Reached(n) = {x \in DOMAIN inst : f[x]}
    BY DEF Reached, Spans
<1> HIDE DEF f
<1>3. f = [x \in DOMAIN inst |-> x = n \/ (x > n /\ inst[x].linked /\ f[inst[x].parent])]
    BY <1>1 DEF Spans
<1>4. \A x \in DOMAIN inst : f[x] <=> x = n \/ (x > n /\ inst[x].linked /\ f[inst[x].parent])
    BY <1>3
<1>5. ASSUME NEW x \in DOMAIN inst
      PROVE  /\ x \in Nat /\ inst[x].parent \in Nat /\ inst[x].parent < x
             /\ inst[x].linked => inst[x].parent \in DOMAIN inst
  <2>1. inst[x] \in Instance /\ x \in 1..Len(inst) /\ inst[x].parent < x /\ (inst[x].linked => inst[x].parent # 0)
      BY DEF Planted
  <2>2. inst[x].parent \in Nat
      BY <2>1 DEF Instance
  <2>3. QED  BY <2>1, <2>2
<1>6. \A x \in Reached(n) : x >= n
    BY <1>2, <1>4, <1>5
<1>7. \A x \in Reached(n) : x # n => inst[x].linked /\ inst[x].parent \in Reached(n)
    BY <1>2, <1>4, <1>5
<1>8. n \in DOMAIN inst => n \in Reached(n)
    BY <1>2, <1>4
<1>9. ASSUME NEW x \in DOMAIN inst, inst[x].linked, inst[x].parent \in Reached(n) PROVE x \in Reached(n)
  <2>1. x > n /\ f[inst[x].parent]
      BY <1>2, <1>5, <1>6, <1>9
  <2>2. QED  BY <1>2, <1>4, <1>9, <2>1
<1>10. QED  BY <1>2, <1>5, <1>6, <1>7, <1>8, <1>9

(* One dependency more.                                                     *)
LEMMA ExistingGrows ==
    ASSUME NEW deps \in Seq(Dependency), NEW k \in 1..Len(deps)
    PROVE  Existing(SubSeq(deps, 1, k)) =
             Existing(SubSeq(deps, 1, k - 1)) \o (IF deps[k].id \in Id THEN <<deps[k]>> ELSE <<>>)
<1> DEFINE piece(d) == IF d.id \in Id THEN <<d>> ELSE <<>>
           pieces(m) == [i \in 1..m |-> piece(deps[i])]
<1>1. \A d \in Dependency : piece(d) \in Seq(Dependency)
    OBVIOUS
<1>2. \A i \in 1..Len(deps) : deps[i] \in Dependency
    OBVIOUS
<1> HIDE DEF piece
<1>3. ASSUME NEW m \in 0..Len(deps)
      PROVE  /\ pieces(m) \in Seq(Seq(Dependency)) /\ Len(pieces(m)) = m
             /\ \A i \in 1..m : pieces(m)[i] = piece(deps[i])
             /\ Existing(SubSeq(deps, 1, m)) = FlattenSeq(pieces(m))
  <2>1. m \in Nat /\ \A i \in 1..m : piece(deps[i]) \in Seq(Dependency)
      BY <1>1, <1>2
  <2>2. pieces(m) \in Seq(Seq(Dependency)) /\ Len(pieces(m)) = m /\ \A i \in 1..m : pieces(m)[i] = piece(deps[i])
      BY <2>1
  <2>3. DOMAIN SubSeq(deps, 1, m) = 1..m /\ \A i \in 1..m : SubSeq(deps, 1, m)[i] = deps[i]
      OBVIOUS
  <2>4. [i \in DOMAIN SubSeq(deps, 1, m) |-> piece(SubSeq(deps, 1, m)[i])] = pieces(m)
      BY <2>3
  <2>5. Existing(SubSeq(deps, 1, m)) = FlattenSeq([i \in DOMAIN SubSeq(deps, 1, m) |-> piece(SubSeq(deps, 1, m)[i])])
      BY DEF Existing, piece
  <2>6. QED  BY <2>2, <2>4, <2>5
<1> HIDE DEF pieces
<1>4. k \in 0..Len(deps) /\ k - 1 \in 0..Len(deps) /\ k = (k - 1) + 1 /\ k \in 1..k
    OBVIOUS
<1>5. \A i \in 1..(k - 1) : pieces(k)[i] = pieces(k - 1)[i]
    BY <1>3, <1>4
<1>6. FlattenSeq(pieces(k)) = FlattenSeq(pieces(k - 1)) \o pieces(k)[k]
  <2>1. /\ pieces(k) \in Seq(Seq(Dependency)) /\ pieces(k - 1) \in Seq(Seq(Dependency))
        /\ Len(pieces(k)) = k /\ Len(pieces(k - 1)) = k - 1
      BY <1>3, <1>4
  <2>2. QED  BY <1>4, <1>5, <2>1, FlattenGrows
<1>7. pieces(k)[k] = piece(deps[k])
    BY <1>3, <1>4
<1>8. QED  BY <1>3, <1>4, <1>6, <1>7 DEF piece

LEMMA ExistingEnds ==
    ASSUME NEW deps \in Seq(Dependency)
    PROVE  Existing(SubSeq(deps, 1, 0)) = <<>> /\ SubSeq(deps, 1, Len(deps)) = deps
<1>1. SubSeq(deps, 1, 0) = <<>> /\ SubSeq(deps, 1, 0) \in Seq(Dependency)
    OBVIOUS
<1>2. ASSUME NEW none \in Seq(Dependency), none = <<>> PROVE Existing(none) = <<>>
  <2>1. [i \in DOMAIN none |-> IF none[i].id \in Id THEN <<none[i]>> ELSE <<>>] = <<>>
      BY <1>2
  <2>2. Existing(none) = FlattenSeq(<<>>)
      BY <2>1 DEF Existing
  <2>3. FlattenSeq(<<>>) = <<>>
      BY DEF FlattenSeq
  <2>4. QED  BY <2>2, <2>3
<1>3. SubSeq(deps, 1, Len(deps)) = deps
    OBVIOUS
<1>4. QED  BY <1>1, <1>2, <1>3

LEMMA ExistingType ==
    ASSUME NEW deps \in Seq(Dependency), NEW k \in 0..Len(deps)
    PROVE  Existing(SubSeq(deps, 1, k)) \in Seq(Dependency)
<1> DEFINE some == SubSeq(deps, 1, k)
           pieces == [i \in DOMAIN some |-> IF some[i].id \in Id THEN <<some[i]>> ELSE <<>>]
<1>1. some \in Seq(Dependency)
    OBVIOUS
<1> HIDE DEF some
<1>2. DOMAIN some = 1..Len(some) /\ Len(some) \in Nat
    BY <1>1
<1>3. pieces \in [1..Len(some) -> Seq(Dependency)]
  <2>1. \A i \in DOMAIN some : (IF some[i].id \in Id THEN <<some[i]>> ELSE <<>>) \in Seq(Dependency)
      BY <1>1
  <2>2. QED  BY <1>2, <2>1
<1>4. Existing(some) = FlattenSeq(pieces)
    BY DEF Existing
<1> HIDE DEF pieces
<1>5. pieces \in Seq(Seq(Dependency))
    BY <1>2, <1>3
<1>6. QED  BY <1>4, <1>5, FlattenSeqRange DEF some

(* The children of n as the pieces Children puts together.                   *)
Piece(node, n) ==
    IF node.linked /\ node.parent = n THEN <<[id |-> node.id, kind |-> node.kind]>> ELSE <<>>
Pieces(nodes, n) == [x \in DOMAIN nodes |-> Piece(nodes[x], n)]

LEMMA PiecesType ==
    ASSUME NEW nodes \in Seq(Instance), NEW n \in Nat
    PROVE  /\ Pieces(nodes, n) \in Seq(Seq(Dependency)) /\ Len(Pieces(nodes, n)) = Len(nodes)
           /\ DOMAIN Pieces(nodes, n) = DOMAIN nodes
           /\ \A x \in DOMAIN nodes : Pieces(nodes, n)[x] = Piece(nodes[x], n)
<1>1. \A x \in DOMAIN nodes : Piece(nodes[x], n) \in Seq(Dependency)
  <2> SUFFICES ASSUME NEW x \in DOMAIN nodes PROVE Piece(nodes[x], n) \in Seq(Dependency)
      OBVIOUS
  <2> DEFINE child == [id |-> nodes[x].id, kind |-> nodes[x].kind]
  <2>1. child \in Dependency
    <3>1. nodes[x] \in Instance
        OBVIOUS
    <3>2. QED  BY <3>1 DEF Instance, Dependency
  <2> HIDE DEF child
  <2>2. <<child>> \in Seq(Dependency) /\ <<>> \in Seq(Dependency)
      BY <2>1
  <2>3. Piece(nodes[x], n) \in {<<child>>, <<>>}
      BY DEF Piece, child
  <2>4. QED  BY <2>2, <2>3
<1>2. DOMAIN nodes = 1..Len(nodes) /\ Len(nodes) \in Nat
    OBVIOUS
<1>3. Pieces(nodes, n) = [x \in 1..Len(nodes) |-> Piece(nodes[x], n)]
    BY <1>2 DEF Pieces
<1>4. QED  BY <1>1, <1>2, <1>3

LEMMA NoKids ==
    ASSUME inst \in Seq(Instance), NEW n \in Nat, \A x \in DOMAIN inst : inst[x].parent # n
    PROVE  Kids[n] = <<>> /\ n \in Tended
<1> DEFINE pieces == Pieces(inst, n)
<1>1. /\ pieces \in Seq(Seq(Dependency)) /\ DOMAIN pieces = DOMAIN inst
      /\ \A x \in DOMAIN inst : pieces[x] = Piece(inst[x], n)
    BY PiecesType
<1>2. Kids[n] = FlattenSeq(pieces)
    BY DEF Kids, Children, Pieces, Piece
<1> HIDE DEF pieces
<1>3. \A x \in DOMAIN pieces : Range(pieces[x]) = {}
  <2>1. \A x \in DOMAIN pieces : pieces[x] = <<>>
      BY <1>1 DEF Piece
  <2>2. QED  BY <2>1, RangeOfShort
<1>4. Range(FlattenSeq(pieces)) = {} /\ FlattenSeq(pieces) \in Seq(Dependency)
  <2>1. /\ Range(FlattenSeq(pieces)) = UNION {Range(pieces[x]) : x \in DOMAIN pieces}
        /\ FlattenSeq(pieces) \in Seq(Dependency)
      BY <1>1, FlattenSeqRange
  <2>2. QED  BY <1>3, <2>1
<1>5. ASSUME NEW s \in Seq(Dependency), Range(s) = {} PROVE s = <<>>
  <2>1. \A i \in DOMAIN s : s[i] \in Range(s)
      BY DEF Range
  <2>2. DOMAIN s = {}
      BY <1>5, <2>1
  <2>3. QED  BY <2>2
<1>6. n \in Tended
    BY DEF Tended
<1>7. QED  BY <1>2, <1>4, <1>5, <1>6

(* A node more is a child more of its parent ...                            *)
LEMMA KidsAdded ==
    ASSUME inst \in Seq(Instance), inst' \in Seq(Instance), Len(inst') = Len(inst) + 1,
           \A x \in DOMAIN inst : inst'[x] = inst[x], inst'[Len(inst) + 1].live, NEW n \in Nat
    PROVE  /\ Kids'[n] = Kids[n] \o Piece(inst'[Len(inst) + 1], n)
           /\ n \in Tended => n \in Tended'
<1> DEFINE old == Pieces(inst, n)
           new == Pieces(inst', n)
<1>1. /\ old \in Seq(Seq(Dependency)) /\ Len(old) = Len(inst)
      /\ \A x \in DOMAIN inst : old[x] = Piece(inst[x], n)
    BY PiecesType
<1>2. /\ new \in Seq(Seq(Dependency)) /\ Len(new) = Len(inst')
      /\ \A x \in DOMAIN inst' : new[x] = Piece(inst'[x], n)
    BY PiecesType
<1>3. Kids[n] = FlattenSeq(old) /\ Kids'[n] = FlattenSeq(new)
    BY DEF Kids, Children, Pieces, Piece
<1> HIDE DEF old, new
<1>4. DOMAIN inst = 1..Len(inst) /\ DOMAIN inst' = DOMAIN inst \cup {Len(inst) + 1} /\ Len(inst) \in Nat
    OBVIOUS
<1>5. Len(new) = Len(old) + 1 /\ \A x \in 1..Len(old) : new[x] = old[x]
    BY <1>1, <1>2, <1>4
<1>6. FlattenSeq(new) = FlattenSeq(old) \o new[Len(new)]
    BY <1>1, <1>2, <1>5, FlattenGrows
<1>7. new[Len(new)] = Piece(inst'[Len(inst) + 1], n)
    BY <1>2, <1>4
<1>8. n \in Tended => n \in Tended'
    BY <1>4 DEF Tended
<1>9. QED  BY <1>3, <1>6, <1>7, <1>8

(* ... and what is deleted with a node are the children of nodes that go with  *)
(* it, apart from itself.                                                   *)
LEMMA DeleteInst ==
    ASSUME inst \in Seq(Instance), NEW n, Delete(n)
    PROVE  /\ DOMAIN inst' = DOMAIN inst
           /\ \A x \in DOMAIN inst :
                /\ inst'[x].parent = inst[x].parent /\ (inst'[x].linked => inst[x].linked)
                /\ IF x \in Reached(n) THEN ~inst'[x].live ELSE inst'[x] = inst[x]
<1>1. /\ DOMAIN inst' = DOMAIN inst
      /\ \A x \in DOMAIN inst :
           inst'[x] = IF x \notin Reached(n) THEN inst[x]
                      ELSE [inst[x] EXCEPT !.live = FALSE, !.linked = @ /\ inst[x].kind = "HANDLER"]
    BY DEF Delete
<1>2. ASSUME NEW i \in Instance, NEW b
      PROVE  LET j == [i EXCEPT !.live = FALSE, !.linked = b]
             IN  j.parent = i.parent /\ j.linked = b /\ j.live = FALSE
    BY DEF Instance
<1>3. ASSUME NEW x \in DOMAIN inst, x \in Reached(n)
      PROVE  inst'[x].parent = inst[x].parent /\ (inst'[x].linked => inst[x].linked) /\ ~inst'[x].live
  <2> DEFINE b == inst[x].linked /\ inst[x].kind = "HANDLER"
  <2>1. inst[x] \in Instance
      OBVIOUS
  <2>2. inst'[x] = [inst[x] EXCEPT !.live = FALSE, !.linked = b]
      BY <1>1, <1>3
  <2>3. b => inst[x].linked
      OBVIOUS
  <2> HIDE DEF b
  <2>4. inst'[x].parent = inst[x].parent /\ inst'[x].linked = b /\ inst'[x].live = FALSE
      BY <1>2, <2>1, <2>2
  <2>5. QED  BY <2>3, <2>4
<1>4. ASSUME NEW x \in DOMAIN inst, x \notin Reached(n) PROVE inst'[x] = inst[x]
    BY <1>1, <1>4
<1>5. QED  BY <1>1, <1>3, <1>4

LEMMA KidsKept ==
    ASSUME inst \in Seq(Instance), inst' \in Seq(Instance), Planted, NEW top \in DOMAIN inst, Delete(top),
           NEW n \in Nat, n \notin Reached(top), inst[top].parent # n
    PROVE  Kids'[n] = Kids[n] /\ (n \in Tended => n \in Tended')
<1>1. /\ DOMAIN inst' = DOMAIN inst
      /\ \A x \in DOMAIN inst :
           /\ inst'[x].parent = inst[x].parent /\ (inst'[x].linked => inst[x].linked)
           /\ x \notin Reached(top) => inst'[x] = inst[x]
    BY DeleteInst
<1>2. top \in Nat
    OBVIOUS
<1>3. ASSUME NEW x \in DOMAIN inst, inst[x].parent = n PROVE inst'[x] = inst[x]
  <2>1. x \notin Reached(top)
      BY <1>2, <1>3, ReachedUnfolds
  <2>2. QED  BY <1>1, <2>1
<1> DEFINE old == Pieces(inst, n)
           new == Pieces(inst', n)
<1>4. /\ old \in Seq(Seq(Dependency)) /\ Len(old) = Len(inst) /\ DOMAIN old = DOMAIN inst
      /\ \A x \in DOMAIN inst : old[x] = Piece(inst[x], n)
    BY PiecesType
<1>5. /\ new \in Seq(Seq(Dependency)) /\ Len(new) = Len(inst')
      /\ \A x \in DOMAIN inst' : new[x] = Piece(inst'[x], n)
    BY PiecesType
<1>6. Kids[n] = FlattenSeq(old) /\ Kids'[n] = FlattenSeq(new)
    BY DEF Kids, Children, Pieces, Piece
<1> HIDE DEF old, new
<1>7. ASSUME NEW x \in DOMAIN inst PROVE new[x] = old[x]
  <2>1. new[x] = Piece(inst'[x], n) /\ old[x] = Piece(inst[x], n)
      BY <1>1, <1>4, <1>5
  <2>2. CASE inst[x].parent = n
      BY <1>3, <2>1, <2>2
  <2>3. CASE inst[x].parent # n
      BY <1>1, <2>1, <2>3 DEF Piece
  <2>4. QED  BY <2>2, <2>3
<1>8. Len(inst') = Len(inst) /\ DOMAIN inst = 1..Len(inst)
    BY <1>1
<1>9. Len(new) = Len(old) /\ \A x \in 1..Len(old) : old[x] = new[x]
    BY <1>4, <1>5, <1>7, <1>8
<1>10. old = new
    BY <1>4, <1>5, <1>9, SameSequence
<1>11. n \in Tended => n \in Tended'
    BY <1>1, <1>3 DEF Tended
<1>12. QED  BY <1>6, <1>10, <1>11

LEMMA EnterInst ==
    ASSUME TypeOK, NEW id \in Id, NEW parent \in Nat, NEW kind \in Kinds, NEW callers,
           Enter(id, parent, kind, callers)
    PROVE  /\ \A x \in DOMAIN inst : inst'[x] = inst[x]
           /\ DOMAIN inst' = DOMAIN inst \cup {Len(inst) + 1}
           /\ inst'[Len(inst) + 1].id = id /\ inst'[Len(inst) + 1].parent = parent
           /\ inst'[Len(inst) + 1].kind = kind /\ inst'[Len(inst) + 1].live
           /\ inst'[Len(inst) + 1].linked <=> parent # 0
<1> DEFINE i == [id |-> id, parent |-> parent, kind |-> kind, live |-> TRUE, linked |-> parent # 0]
<1>1. inst \in Seq(Instance) /\ inst' = Append(inst, i)
    BY DEF TypeOK, Enter
<1>2. i.id = id /\ i.parent = parent /\ i.kind = kind /\ i.live /\ (i.linked <=> parent # 0)
    OBVIOUS
<1> HIDE DEF i
<1>3. inst'[Len(inst) + 1] = i /\ DOMAIN inst' = DOMAIN inst \cup {Len(inst) + 1}
    BY <1>1
<1>4. \A x \in DOMAIN inst : inst'[x] = inst[x]
    BY <1>1
<1>5. QED  BY <1>2, <1>3, <1>4

(* What is known of the calls in progress.                                   *)
LEMMA OpenFacts ==
    ASSUME Whole
    PROVE  /\ inst \in Seq(Instance) /\ Open \subseteq DOMAIN inst /\ DOMAIN inst = 1..Len(inst) /\ Len(inst) \in Nat
           /\ \A k \in DOMAIN stack : stack[k].node \in DOMAIN inst /\ stack[k].node \in Open
           /\ \A r \in DOMAIN trees : trees[r] \in DOMAIN inst
           /\ DOMAIN stack = 1..Len(stack) /\ Len(stack) \in Nat
           /\ \A x \in DOMAIN inst : inst[x].id \in Id /\ inst[x].parent \in Nat
<1>1. inst \in Seq(Instance) /\ trees \in Seq(DOMAIN inst) /\ stack \in Seq(Frame)
    BY DEF Whole, Inv, TypeOK
<1>2. \A k \in DOMAIN stack : stack[k].node \in DOMAIN inst /\ stack[k].node \in Open
    BY DEF Whole, Inv, Calls, Open
<1>3. \A r \in DOMAIN trees : trees[r] \in DOMAIN inst
    BY <1>1
<1>4. \A x \in DOMAIN inst : inst[x].id \in Id /\ inst[x].parent \in Nat
  <2>1. \A x \in DOMAIN inst : inst[x] \in Instance
      BY <1>1
  <2>2. \A i \in Instance : i.id \in Id /\ i.parent \in Nat
      BY DEF Instance
  <2>3. QED  BY <2>1, <2>2
<1>5. QED  BY <1>1, <1>2, <1>3, <1>4 DEF Open

LEMMA PlantedStep == Whole /\ Next => Planted'
<1> SUFFICES ASSUME Whole, Next PROVE Planted'
    OBVIOUS
<1>1. Inv /\ Planted /\ TypeOK /\ config \in Configs /\ stack \in Seq(Frame) /\ TypeOK' /\ IdsKept
    BY TypeStep DEF Whole, Inv, TypeOK
<1>2. /\ inst \in Seq(Instance) /\ Open \subseteq DOMAIN inst /\ DOMAIN inst = 1..Len(inst) /\ Len(inst) \in Nat
      /\ \A k \in DOMAIN stack : stack[k].node \in DOMAIN inst /\ stack[k].node \in Open
      /\ \A r \in DOMAIN trees : trees[r] \in DOMAIN inst
      /\ DOMAIN stack = 1..Len(stack) /\ Len(stack) \in Nat
      /\ \A x \in DOMAIN inst : inst[x].id \in Id /\ inst[x].parent \in Nat
    BY OpenFacts
<1>3. /\ \A x \in DOMAIN inst : inst[x].parent < x /\ (inst[x].linked => inst[x].parent # 0)
      /\ \A k \in DOMAIN stack :
           /\ inst[stack[k].node].live
           /\ inst[stack[k].node].parent = IF k = 1 THEN 0 ELSE stack[k - 1].node
      /\ \A i, j \in DOMAIN stack : i < j => stack[i].node < stack[j].node
      /\ \A r \in DOMAIN trees : /\ inst[trees[r]].live /\ inst[trees[r]].parent = 0
                                 /\ trees[r] \notin Open
    BY <1>1 DEF Planted
<1>4. CASE StartRoot
  <2> DEFINE id == config.entries[rootsDone + 1]
  <2>1. id \in Id
      BY <1>1, <1>4, DepsType DEF StartRoot, TypeOK
  <2>2. <<>> \in Seq(Frame) /\ 0 \in Nat /\ "NONE" \in Kinds
      BY DEF Kinds
  <2>3. Enter(id, 0, "NONE", <<>>) /\ trees' = trees
      BY <1>4 DEF StartRoot
  <2> HIDE DEF id
  <2>4. /\ \A x \in DOMAIN inst : inst'[x] = inst[x]
        /\ DOMAIN inst' = DOMAIN inst \cup {Len(inst) + 1}
        /\ inst'[Len(inst) + 1].parent = 0 /\ inst'[Len(inst) + 1].live /\ ~inst'[Len(inst) + 1].linked
      BY <1>1, <2>1, <2>2, <2>3, EnterInst
  <2>5. stack' = Append(<<>>, [node |-> Len(inst) + 1, deps |-> Deps[id], at |-> 1])
      BY <1>1, <2>1, <2>2, <2>3, EnterType
  <2>6. DOMAIN stack' = {1} /\ stack'[1].node = Len(inst) + 1
      BY <2>5
  <2>7. Open' = {Len(inst) + 1}
      BY <2>6 DEF Open
  <2>8. \A x \in DOMAIN inst' : inst'[x].parent < x /\ (inst'[x].linked => inst'[x].parent # 0)
      BY <1>2, <1>3, <2>4
  <2>9. \A r \in DOMAIN trees' : inst'[trees'[r]].live /\ inst'[trees'[r]].parent = 0 /\ trees'[r] \notin Open'
      BY <1>2, <1>3, <2>3, <2>4, <2>7
  <2>10. QED  BY <2>4, <2>6, <2>8, <2>9 DEF Planted
<1>5. CASE MissingReference
  <2>1. stack # <<>> /\ stack' = Advanced /\ UNCHANGED <<inst, trees>>
      BY <1>5 DEF MissingReference, InLoop
  <2>2. DOMAIN stack' = DOMAIN stack /\ \A k \in DOMAIN stack : stack'[k].node = stack[k].node
      BY <1>1, <2>1, MoveShape
  <2>3. Open' = Open
      BY <2>2 DEF Open
  <2>4. \A k \in DOMAIN stack : k # 1 => k - 1 \in DOMAIN stack
      BY <1>2
  <2>5. \A k \in DOMAIN stack : stack'[k].node = stack[k].node /\ (k # 1 => stack'[k - 1].node = stack[k - 1].node)
      BY <2>2, <2>4
  <2>6. QED  BY <1>3, <2>1, <2>2, <2>3, <2>5 DEF Planted
<1>6. CASE CycleFound \/ ChildFailed
  <2> DEFINE top == stack[Len(stack)].node
  <2>1. stack # <<>> /\ stack' = Below /\ Delete(Top.node) /\ trees' = trees
      BY <1>6 DEF CycleFound, ChildFailed, InLoop
  <2>2. /\ DOMAIN stack' = 1..(Len(stack) - 1) /\ \A k \in 1..(Len(stack) - 1) : stack'[k] = stack[k]
        /\ Top = stack[Len(stack)] /\ Len(stack) \in DOMAIN stack
      BY <1>1, <2>1, PopShape, Facts
  <2>3. Delete(top) /\ top \in DOMAIN inst /\ top \in Nat /\ top \in Open
      BY <1>2, <2>1, <2>2
  <2>4. /\ DOMAIN inst' = DOMAIN inst
        /\ \A x \in DOMAIN inst :
             /\ inst'[x].parent = inst[x].parent /\ (inst'[x].linked => inst[x].linked)
             /\ x \notin Reached(top) => inst'[x] = inst[x]
      BY <1>2, <2>3, DeleteInst
  <2>5. \A x \in Reached(top) : x >= top /\ (x # top => inst[x].linked)
      BY <1>1, <1>2, <2>3, ReachedUnfolds
  <2>6. ASSUME NEW k \in 1..(Len(stack) - 1)
        PROVE  k \in DOMAIN stack /\ stack[k].node \in DOMAIN inst /\ stack[k].node \in Nat /\ stack[k].node < top
    <3>1. k \in DOMAIN stack /\ k < Len(stack)
        BY <1>2
    <3>2. stack[k].node \in DOMAIN inst /\ stack[k].node < top
        BY <1>2, <1>3, <2>2, <3>1
    <3> HIDE DEF top
    <3>3. QED  BY <1>2, <3>1, <3>2
  <2> HIDE DEF top
  <2>7. ASSUME NEW k \in 1..(Len(stack) - 1)
        PROVE  stack[k].node \in DOMAIN inst /\ inst'[stack[k].node] = inst[stack[k].node]
    <3>1. stack[k].node \in DOMAIN inst /\ stack[k].node \in Nat /\ stack[k].node < top
        BY <2>6
    <3>2. ~(stack[k].node >= top)
        BY <2>3, <3>1
    <3>3. QED  BY <2>4, <2>5, <3>1, <3>2
  <2>8. \A r \in DOMAIN trees : inst'[trees[r]] = inst[trees[r]]
      BY <1>2, <1>3, <2>3, <2>4, <2>5
  <2>9. Open' \subseteq Open
      BY <2>2, <2>6 DEF Open
  <2>10. \A k \in DOMAIN stack' : k # 1 => k - 1 \in DOMAIN stack' /\ stack'[k - 1] = stack[k - 1]
      BY <1>2, <2>2
  <2>11. \A k \in DOMAIN stack' :
           /\ inst'[stack'[k].node].live
           /\ inst'[stack'[k].node].parent = IF k = 1 THEN 0 ELSE stack'[k - 1].node
      BY <1>3, <2>2, <2>6, <2>7, <2>10
  <2>12. \A i, j \in DOMAIN stack' : i < j => stack'[i].node < stack'[j].node
      BY <1>3, <2>2, <2>6
  <2>13. \A x \in DOMAIN inst' : inst'[x].parent < x /\ (inst'[x].linked => inst'[x].parent # 0)
      BY <1>3, <2>4
  <2>14. \A r \in DOMAIN trees' : inst'[trees'[r]].live /\ inst'[trees'[r]].parent = 0 /\ trees'[r] \notin Open'
      BY <1>3, <2>1, <2>8, <2>9
  <2>15. QED  BY <2>11, <2>12, <2>13, <2>14 DEF Planted
<1>7. CASE Descend
  <2> DEFINE n == Len(stack)
             new == Len(inst) + 1
  <2>1. stack # <<>> /\ InLoop /\ Dep.id \in Id /\ Enter(Dep.id, Top.node, Dep.kind, Advanced) /\ trees' = trees
      BY <1>7 DEF Descend, InLoop
  <2>2. n \in DOMAIN stack /\ Top = stack[n] /\ Top.node \in DOMAIN inst /\ Dep.kind \in Kinds /\ Top.node \in Nat
      BY <1>1, <1>2, <2>1, Facts, DepFacts DEF Dependency
  <2>3. /\ \A x \in DOMAIN inst : inst'[x] = inst[x]
        /\ DOMAIN inst' = DOMAIN inst \cup {new}
        /\ inst'[new].parent = Top.node /\ inst'[new].live
      BY <1>1, <2>1, <2>2, EnterInst
  <2>4. /\ DOMAIN stack' = 1..(n + 1) /\ \A k \in 1..n : stack'[k].node = stack[k].node
        /\ stack'[n + 1].node = new
    <3>1. /\ DOMAIN stack' = 1..(n + 1) /\ \A k \in 1..n : stack'[k].node = stack[k].node
          /\ stack'[n + 1] = [node |-> new, deps |-> Deps[Dep.id], at |-> 1]
        BY <1>1, <1>7, PushShape
    <3>2. QED  BY <3>1
  <2>5. DOMAIN stack' = DOMAIN stack \cup {n + 1} /\ n \in Nat \ {0} /\ new \in Nat
      BY <1>2, <2>2, <2>4
  <2>6. Open' = Open \cup {new}
      BY <1>2, <2>4, <2>5 DEF Open
  <2> HIDE DEF n, new
  <2>7. \A x \in DOMAIN inst : x < new
      BY <1>2 DEF new
  <2>8. \A x \in DOMAIN inst' : inst'[x].parent < x /\ (inst'[x].linked => inst'[x].parent # 0)
      BY <1>2, <1>3, <2>2, <2>3, <2>7
  <2>9. \A k \in DOMAIN stack' :
          /\ inst'[stack'[k].node].live
          /\ inst'[stack'[k].node].parent = IF k = 1 THEN 0 ELSE stack'[k - 1].node
    <3>1. CASE n + 1 = 1
        BY <2>5, <3>1
    <3>2. inst'[stack'[n + 1].node].live /\ inst'[stack'[n + 1].node].parent = stack'[(n + 1) - 1].node
        BY <1>2, <2>2, <2>3, <2>4, <2>5 DEF n
    <3>3. ASSUME NEW k \in DOMAIN stack
          PROVE  /\ inst'[stack'[k].node].live
                 /\ inst'[stack'[k].node].parent = IF k = 1 THEN 0 ELSE stack'[k - 1].node
      <4>1. stack'[k].node = stack[k].node /\ stack[k].node \in DOMAIN inst
          BY <1>2, <2>4 DEF n
      <4>2. k # 1 => stack'[k - 1].node = stack[k - 1].node
          BY <1>2, <2>4 DEF n
      <4>3. QED  BY <1>3, <2>3, <4>1, <4>2
    <3>4. n + 1 # 1
        BY <2>5
    <3>5. QED  BY <2>5, <3>2, <3>3, <3>4
  <2>10. ASSUME NEW i \in DOMAIN stack', NEW j \in DOMAIN stack', i < j PROVE stack'[i].node < stack'[j].node
    <3>1. i \in DOMAIN stack /\ stack'[i].node = stack[i].node /\ stack[i].node \in DOMAIN inst
        BY <1>2, <2>4, <2>10 DEF n
    <3>2. CASE j = n + 1
        BY <2>4, <2>7, <3>1, <3>2
    <3>3. CASE j \in DOMAIN stack
        BY <1>2, <1>3, <2>4, <2>10, <3>1, <3>3 DEF n
    <3>4. QED  BY <2>5, <3>2, <3>3
  <2>11. \A r \in DOMAIN trees' : inst'[trees'[r]].live /\ inst'[trees'[r]].parent = 0 /\ trees'[r] \notin Open'
    <3>1. ASSUME NEW r \in DOMAIN trees
          PROVE  inst'[trees[r]].live /\ inst'[trees[r]].parent = 0 /\ trees[r] \notin Open'
      <4>1. trees[r] \in DOMAIN inst /\ trees[r] # new
          BY <1>2, <2>7
      <4>2. QED  BY <1>3, <2>3, <2>6, <4>1
    <3>2. QED  BY <2>1, <3>1
  <2>12. QED  BY <2>8, <2>9, <2>10, <2>11 DEF Planted
<1>8. CASE ReturnNode
  <2>1. stack # <<>> /\ stack' = Below /\ UNCHANGED inst
      BY <1>8 DEF ReturnNode
  <2>2. /\ DOMAIN stack' = 1..(Len(stack) - 1) /\ \A k \in 1..(Len(stack) - 1) : stack'[k] = stack[k]
        /\ Top = stack[Len(stack)] /\ Len(stack) \in DOMAIN stack
      BY <1>1, <2>1, PopShape, Facts
  <2>3. Open' \subseteq Open
      BY <1>2, <2>2 DEF Open
  <2>4. \A k \in DOMAIN stack' : k \in DOMAIN stack /\ (k # 1 => k - 1 \in DOMAIN stack' /\ stack'[k - 1] = stack[k - 1])
      BY <1>2, <2>2
  <2>5. \A k \in DOMAIN stack' :
           /\ inst'[stack'[k].node].live
           /\ inst'[stack'[k].node].parent = IF k = 1 THEN 0 ELSE stack'[k - 1].node
      BY <1>3, <2>1, <2>2, <2>4
  <2>6. \A i, j \in DOMAIN stack' : i < j => stack'[i].node < stack'[j].node
      BY <1>3, <2>2, <2>4
  <2>7. ASSUME NEW r \in DOMAIN trees'
        PROVE  inst'[trees'[r]].live /\ inst'[trees'[r]].parent = 0 /\ trees'[r] \notin Open'
    <3>1. CASE r \in DOMAIN trees /\ trees'[r] = trees[r]
        BY <1>3, <2>1, <2>3, <3>1
    <3>2. CASE Below = <<>> /\ trees'[r] = Top.node
      <4>1. Len(stack) = 1 /\ DOMAIN stack' = {}
          BY <1>1, <1>2, <2>1, <2>2, <3>2
      <4>2. Open' = {}
          BY <4>1 DEF Open
      <4>3. QED  BY <1>3, <2>1, <2>2, <3>2, <4>1, <4>2
    <3>3. CASE trees' = trees
        BY <2>7, <3>1, <3>3
    <3>4. CASE Below = <<>> /\ trees' = Append(trees, Top.node)
      <4>1. trees \in Seq(DOMAIN inst)
          BY <1>1 DEF TypeOK
      <4>2. (r \in DOMAIN trees /\ trees'[r] = trees[r]) \/ trees'[r] = Top.node
          BY <2>7, <3>4, <4>1
      <4>3. QED  BY <3>1, <3>2, <3>4, <4>2
    <3>5. QED  BY <1>8, <3>3, <3>4 DEF ReturnNode
  <2>8. QED  BY <1>3, <2>1, <2>5, <2>6, <2>7 DEF Planted
<1>9. CASE RootFailed
  <2>1. UNCHANGED <<stack, inst, trees>>
      BY <1>9 DEF RootFailed
  <2>2. Open' = Open
      BY <2>1 DEF Open
  <2>3. QED  BY <1>3, <2>1, <2>2 DEF Planted
<1>10. QED  BY <1>4, <1>5, <1>6, <1>7, <1>8, <1>9 DEF Next

(* The list of the call on top, and what it makes of its next dependency.      *)
LEMMA TopDeps ==
    ASSUME Inv, stack # <<>>
    PROVE  /\ Top.deps \in Seq(Dependency) /\ Top.deps = Deps[inst[Top.node].id]
           /\ Top.at \in 1..(Len(Top.deps) + 1)
<1>1. Len(stack) \in DOMAIN stack /\ Top = stack[Len(stack)] /\ \A k \in DOMAIN stack : Ids[k] \in Id
    BY Facts
<1>2. Top.deps = Deps[Ids[Len(stack)]] /\ Top.at \in 1..(Len(Top.deps) + 1)
    BY <1>1 DEF Inv, Calls
<1>3. Ids[Len(stack)] = inst[Top.node].id
    BY <1>1 DEF Ids
<1>4. Deps[Ids[Len(stack)]] \in Seq(Dependency)
    BY <1>1, DepsType DEF Inv
<1>5. QED  BY <1>2, <1>3, <1>4

LEMMA GrownStep == Whole /\ Next => Grown'
<1> SUFFICES ASSUME Whole, Next PROVE Grown'
    OBVIOUS
<1>1. Inv /\ Planted /\ TypeOK /\ config \in Configs /\ stack \in Seq(Frame) /\ TypeOK' /\ IdsKept /\ UNCHANGED Deps
    BY TypeStep, SameConfig DEF Whole, Inv, TypeOK
<1>2. /\ inst \in Seq(Instance) /\ Open \subseteq DOMAIN inst /\ DOMAIN inst = 1..Len(inst) /\ Len(inst) \in Nat
      /\ \A k \in DOMAIN stack : stack[k].node \in DOMAIN inst /\ stack[k].node \in Open
      /\ DOMAIN stack = 1..Len(stack) /\ Len(stack) \in Nat
      /\ \A x \in DOMAIN inst : inst[x].id \in Id /\ inst[x].parent \in Nat
    BY OpenFacts
<1>3. /\ \A x \in DOMAIN inst : inst[x].parent < x
      /\ \A k \in DOMAIN stack : inst[stack[k].node].parent = IF k = 1 THEN 0 ELSE stack[k - 1].node
      /\ \A i, j \in DOMAIN stack : i < j => stack[i].node < stack[j].node
    BY <1>1 DEF Planted
<1>4. /\ \A k \in DOMAIN stack : ~(failing /\ k = Len(stack)) =>
           /\ stack[k].node \in Tended
           /\ Kids[stack[k].node] = Existing(SubSeq(stack[k].deps, 1, stack[k].at - 1))
      /\ \A n \in DOMAIN inst \ Open : inst[n].live => n \in Tended /\ Kids[n] = Existing(Deps[inst[n].id])
    BY DEF Whole, Grown
<1>5. ASSUME UNCHANGED inst PROVE UNCHANGED <<Kids, Tended>>
    BY <1>5 DEF Kids, Children, Tended
<1>6. inst' \in Seq(Instance)
    BY <1>1 DEF TypeOK
(* A new node, which has no children yet, below a node or by itself.           *)
<1>7. ASSUME NEW id \in Id, NEW parent \in Nat, NEW kind \in Kinds, NEW callers \in Seq(Frame),
             Enter(id, parent, kind, callers), parent \in Open \cup {0}
      PROVE  LET new == Len(inst) + 1
                 child == [id |-> id, kind |-> kind]
             IN  /\ DOMAIN inst' = DOMAIN inst \cup {new} /\ \A n \in DOMAIN inst : inst'[n] = inst[n]
                 /\ \A n \in DOMAIN inst : n \in Tended => n \in Tended'
                 /\ \A n \in DOMAIN inst : n # parent => Kids'[n] = Kids[n]
                 /\ parent # 0 => Kids'[parent] = Kids[parent] \o <<child>>
                 /\ new \in Tended' /\ Kids'[new] = <<>>
  <2> DEFINE new == Len(inst) + 1
             node == inst'[new]
             child == [id |-> id, kind |-> kind]
  <2>1. /\ DOMAIN inst' = DOMAIN inst \cup {new} /\ \A n \in DOMAIN inst : inst'[n] = inst[n]
        /\ node.id = id /\ node.parent = parent /\ node.kind = kind /\ node.live /\ (node.linked <=> parent # 0)
      BY <1>1, <1>7, EnterInst
  <2>2. Len(inst') = Len(inst) + 1
      BY <1>1, <1>7, EnterType
  <2>3. \A n \in Nat : Kids'[n] = Kids[n] \o Piece(node, n) /\ (n \in Tended => n \in Tended')
      BY <1>2, <1>6, <2>1, <2>2, KidsAdded
  <2>4. new \in Nat /\ parent # new /\ \A x \in DOMAIN inst : inst[x].parent # new
      BY <1>2, <1>3, <1>7
  <2>5. Kids[new] = <<>> /\ new \in Tended
      BY <1>2, <2>4, NoKids
  <2> HIDE DEF new, node
  <2>6. \A n : n # parent => Piece(node, n) = <<>>
      BY <2>1 DEF Piece
  <2>7. parent # 0 => Piece(node, parent) = <<child>>
      BY <2>1 DEF Piece
  <2>8. \A n \in Nat : Kids[n] \in Seq(Dependency)
    <3>1. ASSUME NEW n \in Nat PROVE Kids[n] \in Seq(Dependency)
      <4>1. Pieces(inst, n) \in Seq(Seq(Dependency))
          BY <1>2, PiecesType
      <4>2. FlattenSeq(Pieces(inst, n)) \in Seq(Dependency)
          BY <4>1, FlattenSeqRange
      <4>3. Kids[n] = FlattenSeq(Pieces(inst, n))
          BY DEF Kids, Children, Pieces, Piece
      <4>4. QED  BY <4>2, <4>3
    <3>2. QED  BY <3>1
  <2>9. \A n \in Nat : n # parent => Kids'[n] = Kids[n]
    <3>1. \A s \in Seq(Dependency) : s \o <<>> = s
        OBVIOUS
    <3>2. QED  BY <2>3, <2>6, <2>8, <3>1
  <2> HIDE DEF child
  <2>10. \A n \in DOMAIN inst : n \in Nat
      BY <1>2
  <2>11. new \in Tended' /\ Kids'[new] = <<>>
      BY <2>3, <2>4, <2>5, <2>9
  <2>12. parent # 0 => Kids'[parent] = Kids[parent] \o <<child>>
      BY <2>3, <2>7
  <2>13. /\ \A n \in DOMAIN inst : n \in Tended => n \in Tended'
         /\ \A n \in DOMAIN inst : n # parent => Kids'[n] = Kids[n]
      BY <2>3, <2>9, <2>10
  <2>14. QED  BY <2>1, <2>11, <2>12, <2>13 DEF new, child
<1>8. CASE StartRoot
  <2> DEFINE id == config.entries[rootsDone + 1]
             new == Len(inst) + 1
  <2>1. id \in Id
      BY <1>1, <1>8, DepsType DEF StartRoot, TypeOK
  <2>2. <<>> \in Seq(Frame) /\ 0 \in Nat /\ "NONE" \in Kinds
      BY DEF Kinds
  <2>3. Enter(id, 0, "NONE", <<>>) /\ stack = <<>>
      BY <1>8 DEF StartRoot
  <2> HIDE DEF id
  <2>4. /\ DOMAIN inst' = DOMAIN inst \cup {new} /\ \A n \in DOMAIN inst : inst'[n] = inst[n]
        /\ \A n \in DOMAIN inst : n \in Tended => n \in Tended'
        /\ \A n \in DOMAIN inst : n # 0 => Kids'[n] = Kids[n]
        /\ new \in Tended' /\ Kids'[new] = <<>>
      BY <1>7, <2>1, <2>2, <2>3
  <2>5. stack' = Append(<<>>, [node |-> new, deps |-> Deps[id], at |-> 1])
      BY <1>1, <2>1, <2>2, <2>3, EnterType
  <2>6. DOMAIN stack' = {1} /\ stack'[1].node = new /\ stack'[1].deps = Deps[id] /\ stack'[1].at = 1
      BY <2>5
  <2>7. Open' = {new} /\ Open = {}
      BY <2>3, <2>6 DEF Open
  <2>8. Existing(SubSeq(Deps[id], 1, 0)) = <<>>
      BY <1>1, <2>1, DepsType, ExistingEnds
  <2>9. \A k \in DOMAIN stack' :
           /\ stack'[k].node \in Tended'
           /\ Kids'[stack'[k].node] = Existing(SubSeq(stack'[k].deps, 1, stack'[k].at - 1))
    <3>1. stack'[1].at - 1 = 0
        BY <2>6
    <3>2. QED  BY <2>4, <2>6, <2>8, <3>1
  <2>10. \A n \in DOMAIN inst' \ Open' : inst'[n].live => n \in Tended' /\ Kids'[n] = Existing(Deps'[inst'[n].id])
    <3>1. \A n \in DOMAIN inst : n # 0
        BY <1>2
    <3>2. QED  BY <1>1, <1>4, <2>4, <2>7, <3>1
  <2>11. QED  BY <2>9, <2>10 DEF Grown
<1>9. CASE MissingReference
  <2> DEFINE n == Len(stack)
  <2>1. stack # <<>> /\ InLoop /\ stack' = Advanced /\ UNCHANGED <<inst, failing>> /\ Dep.id \notin Id /\ ~failing
      BY <1>9 DEF MissingReference, InLoop
  <2>2. /\ DOMAIN stack' = DOMAIN stack
        /\ \A k \in DOMAIN stack : /\ stack'[k].node = stack[k].node /\ stack'[k].deps = stack[k].deps
                                   /\ stack'[k].at = IF k = n THEN stack[k].at + 1 ELSE stack[k].at
      BY <1>1, <2>1, MoveShape
  <2>3. Open' = Open /\ UNCHANGED <<Kids, Tended>>
      BY <1>5, <2>1, <2>2 DEF Open
  <2>4. Top = stack[n] /\ Top.deps \in Seq(Dependency) /\ Top.at \in DOMAIN Top.deps /\ Top.at \in 1..Len(Top.deps)
      BY <1>1, <2>1, Facts, TopDeps, DepFacts
  <2>5. Existing(SubSeq(Top.deps, 1, Top.at)) = Existing(SubSeq(Top.deps, 1, Top.at - 1))
    <3> DEFINE before == Existing(SubSeq(Top.deps, 1, Top.at - 1))
    <3>1. Existing(SubSeq(Top.deps, 1, Top.at)) = before \o <<>>
        BY <2>1, <2>4, ExistingGrows DEF Dep
    <3>2. before \in Seq(Dependency)
        BY <2>4, ExistingType
    <3> HIDE DEF before
    <3>3. before \o <<>> = before
        BY <3>2
    <3>4. QED  BY <3>1, <3>3 DEF before
  <2>6. ASSUME NEW k \in DOMAIN stack
        PROVE  Existing(SubSeq(stack'[k].deps, 1, stack'[k].at - 1)) = Existing(SubSeq(stack[k].deps, 1, stack[k].at - 1))
    <3>1. CASE k = n
      <4>1. stack'[k].deps = Top.deps /\ stack'[k].at = Top.at + 1 /\ stack[k] = Top
          BY <2>2, <2>4, <3>1
      <4>2. (Top.at + 1) - 1 = Top.at
          BY <2>4
      <4>3. QED  BY <2>5, <4>1, <4>2
    <3>2. CASE k # n
        BY <2>2, <3>2
    <3>3. QED  BY <3>1, <3>2
  <2>7. \A k \in DOMAIN stack' :
           /\ stack'[k].node \in Tended'
           /\ Kids'[stack'[k].node] = Existing(SubSeq(stack'[k].deps, 1, stack'[k].at - 1))
      BY <1>4, <2>1, <2>2, <2>3, <2>6
  <2>8. QED  BY <1>1, <1>4, <2>1, <2>3, <2>7 DEF Grown
<1>10. CASE CycleFound \/ ChildFailed
  <2> DEFINE top == stack[Len(stack)].node
  <2>1. stack # <<>> /\ stack' = Below /\ Delete(Top.node) /\ failing'
      BY <1>10 DEF CycleFound, ChildFailed, InLoop
  <2>2. /\ Len(stack') = Len(stack) - 1 /\ DOMAIN stack' = 1..(Len(stack) - 1)
        /\ \A k \in 1..(Len(stack) - 1) : stack'[k] = stack[k]
        /\ Top = stack[Len(stack)] /\ Len(stack) \in DOMAIN stack
      BY <1>1, <2>1, PopShape, Facts
  <2>3. Delete(top) /\ top \in DOMAIN inst /\ top \in Nat /\ top \in Reached(top)
    <3>1. Delete(top) /\ top \in DOMAIN inst /\ top \in Nat
        BY <1>2, <2>1, <2>2
    <3>2. QED  BY <1>1, <1>2, <3>1, ReachedUnfolds
  <2>4. /\ DOMAIN inst' = DOMAIN inst
        /\ \A x \in DOMAIN inst : IF x \in Reached(top) THEN ~inst'[x].live ELSE inst'[x] = inst[x]
      BY <1>2, <2>3, DeleteInst
  <2>5. \A x \in Reached(top) : x >= top
      BY <1>1, <1>2, <2>3, ReachedUnfolds
  <2>6. inst[top].parent = IF Len(stack) = 1 THEN 0 ELSE stack[Len(stack) - 1].node
      BY <1>3, <2>2
  <2>7. ASSUME NEW k \in 1..(Len(stack) - 1)
        PROVE  k \in DOMAIN stack /\ k # Len(stack) /\ stack[k].node \in Nat /\ stack[k].node < top
    <3>1. k \in DOMAIN stack /\ k < Len(stack) /\ k # Len(stack)
        BY <1>2
    <3>2. stack[k].node \in DOMAIN inst /\ stack[k].node < top
        BY <1>2, <1>3, <2>2, <3>1
    <3> HIDE DEF top
    <3>3. QED  BY <1>2, <3>1, <3>2
  <2> HIDE DEF top
  <2>8. \A n \in Nat : n \notin Reached(top) /\ inst[top].parent # n =>
          Kids'[n] = Kids[n] /\ (n \in Tended => n \in Tended')
      BY <1>1, <1>2, <1>6, <2>3, KidsKept
  <2>9. ASSUME NEW k \in DOMAIN stack', k # Len(stack')
        PROVE  /\ stack'[k].node \in Tended'
               /\ Kids'[stack'[k].node] = Existing(SubSeq(stack'[k].deps, 1, stack'[k].at - 1))
    <3>1. /\ k \in DOMAIN stack /\ k # Len(stack) /\ stack'[k] = stack[k]
          /\ stack[k].node \in Nat /\ stack[k].node < top
        BY <2>2, <2>7
    <3>2. stack[k].node \notin Reached(top)
      <4>1. ~(stack[k].node >= top)
          BY <2>3, <3>1
      <4>2. QED  BY <2>5, <4>1
    <3>3. inst[top].parent # stack[k].node
      <4>1. k \in Nat /\ k >= 1 /\ k < Len(stack) - 1 /\ Len(stack) - 1 \in 1..(Len(stack) - 1)
          BY <1>2, <2>2, <2>9
      <4>2. stack[k].node < stack[Len(stack) - 1].node /\ stack[Len(stack) - 1].node \in Nat
          BY <1>3, <2>7, <3>1, <4>1
      <4>3. Len(stack) # 1
          BY <1>2, <4>1
      <4>4. QED  BY <2>6, <3>1, <4>2, <4>3
    <3>4. QED  BY <1>4, <2>8, <3>1, <3>2, <3>3
  <2>10. ASSUME NEW n \in DOMAIN inst' \ Open', inst'[n].live
         PROVE  n \in Tended' /\ Kids'[n] = Existing(Deps'[inst'[n].id])
    <3>1. n \in DOMAIN inst /\ n \notin Reached(top) /\ inst'[n] = inst[n] /\ n \in Nat /\ n # 0 /\ n # top
        BY <1>2, <2>3, <2>4, <2>10
    <3>2. \A k \in 1..(Len(stack) - 1) : n # stack[k].node
        BY <2>2, <2>10 DEF Open
    <3>3. n \notin Open
        BY <1>2, <3>1, <3>2 DEF Open, top
    <3>4. inst[top].parent # n
      <4>1. Len(stack) = 1 \/ Len(stack) - 1 \in 1..(Len(stack) - 1)
          BY <1>2, <2>2
      <4>2. QED  BY <2>6, <3>1, <3>2, <4>1
    <3>5. QED  BY <1>1, <1>4, <2>8, <2>10, <3>1, <3>3, <3>4
  <2>11. QED  BY <2>1, <2>9, <2>10 DEF Grown
<1>11. CASE Descend
  <2> DEFINE n == Len(stack)
             new == Len(inst) + 1
  <2>1. /\ stack # <<>> /\ InLoop /\ Dep.id \in Id /\ Enter(Dep.id, Top.node, Dep.kind, Advanced)
        /\ failing' = failing /\ ~failing
      BY <1>11 DEF Descend, InLoop
  <2>2. /\ n \in DOMAIN stack /\ Top = stack[n] /\ Top.node \in DOMAIN inst /\ Top.node \in Open
        /\ Top.node \in Nat /\ Top.node # 0
        /\ Dep \in Dependency /\ Top.deps \in Seq(Dependency) /\ Top.at \in 1..Len(Top.deps)
    <3>1. n \in DOMAIN stack /\ Top = stack[n]
        BY <1>1, <2>1, Facts
    <3>2. Top.node \in DOMAIN inst /\ Top.node \in Open /\ Top.node \in Nat /\ Top.node # 0
        BY <1>2, <3>1
    <3>3. Dep \in Dependency /\ Top.at \in DOMAIN Top.deps /\ Top.deps \in Seq(Dependency)
        BY <1>1, <2>1, DepFacts, TopDeps
    <3>4. QED  BY <3>1, <3>2, <3>3
  <2>3. Dep.kind \in Kinds /\ [id |-> Dep.id, kind |-> Dep.kind] = Dep
      BY <2>2 DEF Dependency
  <2>4. Advanced \in Seq(Frame)
      BY <1>1, <2>1, MovedOn
  <2>5. /\ DOMAIN inst' = DOMAIN inst \cup {new} /\ \A m \in DOMAIN inst : inst'[m] = inst[m]
        /\ \A m \in DOMAIN inst : m \in Tended => m \in Tended'
        /\ \A m \in DOMAIN inst : m # Top.node => Kids'[m] = Kids[m]
        /\ Kids'[Top.node] = Kids[Top.node] \o <<Dep>>
        /\ new \in Tended' /\ Kids'[new] = <<>>
    <3> DEFINE child == [id |-> Dep.id, kind |-> Dep.kind]
    <3>1. /\ DOMAIN inst' = DOMAIN inst \cup {new} /\ \A m \in DOMAIN inst : inst'[m] = inst[m]
          /\ \A m \in DOMAIN inst : m \in Tended => m \in Tended'
          /\ \A m \in DOMAIN inst : m # Top.node => Kids'[m] = Kids[m]
          /\ Kids'[Top.node] = Kids[Top.node] \o <<child>>
          /\ new \in Tended' /\ Kids'[new] = <<>>
        BY <1>7, <2>1, <2>2, <2>3, <2>4
    <3>2. child = Dep
        BY <2>3
    <3> HIDE DEF child
    <3>3. QED  BY <3>1, <3>2
  <2>6. /\ Len(stack') = n + 1 /\ DOMAIN stack' = 1..(n + 1)
        /\ \A k \in 1..n : /\ stack'[k].node = stack[k].node /\ stack'[k].deps = stack[k].deps
                           /\ stack'[k].at = IF k = n THEN stack[k].at + 1 ELSE stack[k].at
        /\ stack'[n + 1].node = new /\ stack'[n + 1].deps = Deps[Dep.id] /\ stack'[n + 1].at = 1
    <3>1. /\ Len(stack') = n + 1 /\ DOMAIN stack' = 1..(n + 1)
          /\ \A k \in 1..n : /\ stack'[k].node = stack[k].node /\ stack'[k].deps = stack[k].deps
                             /\ stack'[k].at = IF k = n THEN stack[k].at + 1 ELSE stack[k].at
          /\ stack'[n + 1] = [node |-> new, deps |-> Deps[Dep.id], at |-> 1]
        BY <1>1, <1>11, PushShape
    <3>2. QED  BY <3>1
  <2>7. DOMAIN stack' = DOMAIN stack \cup {n + 1} /\ DOMAIN stack = 1..n
    <3>1. DOMAIN stack = 1..n /\ n \in Nat
        BY <1>2
    <3> HIDE DEF n
    <3>2. QED  BY <2>6, <3>1
  <2>8. Open' = Open \cup {new}
    <3> HIDE DEF n, new
    <3>1. \A k \in DOMAIN stack : stack'[k].node = stack[k].node
        BY <2>6, <2>7
    <3>2. Open' = {stack'[k].node : k \in DOMAIN stack} \cup {stack'[n + 1].node}
        BY <2>7 DEF Open
    <3>3. {stack'[k].node : k \in DOMAIN stack} = Open
        BY <3>1 DEF Open
    <3>4. QED  BY <2>6, <3>2, <3>3
  <2>9. Existing(SubSeq(Top.deps, 1, Top.at)) = Existing(SubSeq(Top.deps, 1, Top.at - 1)) \o <<Dep>>
      BY <2>1, <2>2, ExistingGrows DEF Dep
  <2>10. Existing(SubSeq(Deps[Dep.id], 1, 0)) = <<>>
      BY <1>1, <2>1, DepsType, ExistingEnds
  <2> HIDE DEF n, new
  <2>11. ASSUME NEW k \in DOMAIN stack'
         PROVE  /\ stack'[k].node \in Tended'
                /\ Kids'[stack'[k].node] = Existing(SubSeq(stack'[k].deps, 1, stack'[k].at - 1))
    <3>1. CASE k = n + 1
      <4>1. stack'[k].at - 1 = 0
          BY <2>6, <3>1
      <4>2. QED  BY <2>5, <2>6, <2>10, <3>1, <4>1
    <3>2. CASE k = n
      <4>1. stack'[k].node = Top.node /\ stack'[k].deps = Top.deps /\ stack'[k].at = Top.at + 1
          BY <2>2, <2>6, <2>7, <3>2
      <4>2. (Top.at + 1) - 1 = Top.at
          BY <2>2
      <4>3. Top.node \in Tended /\ Kids[Top.node] = Existing(SubSeq(Top.deps, 1, Top.at - 1))
          BY <1>4, <2>1, <2>2
      <4>4. QED  BY <2>2, <2>5, <2>9, <4>1, <4>2, <4>3
    <3>3. CASE k \in DOMAIN stack /\ k # n
      <4>1. stack'[k].node = stack[k].node /\ stack'[k].deps = stack[k].deps /\ stack'[k].at = stack[k].at
          BY <2>6, <2>7, <3>3
      <4>2. stack[k].node \in DOMAIN inst /\ stack[k].node # Top.node
        <5>1. k < n
            BY <1>2, <2>7, <3>3 DEF n
        <5>2. stack[k].node < Top.node /\ stack[k].node \in DOMAIN inst /\ stack[k].node \in Nat
            BY <1>2, <1>3, <2>2, <3>3, <5>1
        <5>3. QED  BY <2>2, <5>2
      <4>3. QED  BY <1>4, <2>1, <2>5, <3>3, <4>1, <4>2
    <3>4. QED  BY <2>7, <3>1, <3>2, <3>3
  <2>12. ASSUME NEW m \in DOMAIN inst' \ Open', inst'[m].live
         PROVE  m \in Tended' /\ Kids'[m] = Existing(Deps'[inst'[m].id])
    <3>1. m \in DOMAIN inst \ Open /\ m # Top.node /\ inst'[m] = inst[m]
        BY <2>2, <2>5, <2>8, <2>12
    <3>2. QED  BY <1>1, <1>4, <2>5, <2>12, <3>1
  <2>13. QED  BY <2>11, <2>12 DEF Grown
<1>12. CASE ReturnNode
  <2> DEFINE n == Len(stack)
  <2>1. stack # <<>> /\ stack' = Below /\ UNCHANGED <<inst, failing>> /\ ~failing /\ Top.at > Len(Top.deps)
      BY <1>12 DEF ReturnNode
  <2>2. /\ DOMAIN stack' = 1..(n - 1) /\ \A k \in 1..(n - 1) : stack'[k] = stack[k]
        /\ Top = stack[n] /\ n \in DOMAIN stack
      BY <1>1, <2>1, PopShape, Facts
  <2>3. UNCHANGED <<Kids, Tended>>
      BY <1>5, <2>1
  <2>4. Top.node \in Tended /\ Kids[Top.node] = Existing(Deps[inst[Top.node].id])
    <3>1. Top.deps \in Seq(Dependency) /\ Top.deps = Deps[inst[Top.node].id] /\ Top.at \in 1..(Len(Top.deps) + 1)
        BY <1>1, <2>1, TopDeps
    <3>2. Top.at - 1 = Len(Top.deps)
        BY <2>1, <3>1
    <3>3. Top.node \in Tended /\ Kids[Top.node] = Existing(SubSeq(Top.deps, 1, Top.at - 1))
        BY <1>4, <2>1, <2>2
    <3>4. QED  BY <3>1, <3>2, <3>3, ExistingEnds
  <2>5. \A k \in DOMAIN stack' : k \in DOMAIN stack /\ stack'[k] = stack[k]
      BY <1>2, <2>2
  <2>6. ASSUME NEW m \in DOMAIN inst \ Open', inst[m].live
        PROVE  m \in Tended /\ Kids[m] = Existing(Deps[inst[m].id])
    <3>1. CASE m = Top.node
        BY <2>4, <3>1
    <3>2. CASE m # Top.node
      <4>1. m \notin Open
        <5>1. ASSUME NEW k \in DOMAIN stack PROVE m # stack[k].node
          <6>1. CASE k = n
              BY <2>2, <3>2, <6>1
          <6>2. CASE k # n
            <7>1. k \in DOMAIN stack' /\ stack'[k] = stack[k]
                BY <1>2, <2>2, <6>2
            <7>2. QED  BY <2>6, <7>1 DEF Open
          <6>3. QED  BY <6>1, <6>2
        <5>2. QED  BY <5>1 DEF Open
      <4>2. QED  BY <1>4, <2>6, <4>1
    <3>3. QED  BY <3>1, <3>2
  <2>7. QED  BY <1>1, <1>4, <2>1, <2>3, <2>5, <2>6 DEF Grown
<1>13. CASE RootFailed
  <2>1. UNCHANGED <<stack, inst>> /\ stack = <<>>
      BY <1>13 DEF RootFailed
  <2>2. Open' = Open /\ UNCHANGED <<Kids, Tended>>
      BY <1>5, <2>1 DEF Open
  <2>3. DOMAIN stack' = {}
      BY <2>1
  <2>4. QED  BY <1>1, <1>4, <2>1, <2>2, <2>3 DEF Grown
<1>14. QED  BY <1>8, <1>9, <1>10, <1>11, <1>12, <1>13 DEF Next

LEMMA WholeInit == Init => Whole
<1> SUFFICES ASSUME Init PROVE Whole
    OBVIOUS
<1>1. inst = <<>> /\ stack = <<>> /\ trees = <<>>
    BY DEF Init
<1>2. QED  BY <1>1, InvInit DEF Whole, Planted, Grown

LEMMA WholeStep == Whole /\ [Next]_vars => Whole'
<1> SUFFICES ASSUME Whole, [Next]_vars PROVE Whole'
    OBVIOUS
<1>1. Inv'
    BY InvStep DEF Whole
<1>2. CASE Next
    BY <1>1, <1>2, PlantedStep, GrownStep DEF Whole
<1>3. CASE UNCHANGED vars
  <2>1. UNCHANGED <<config, stack, inst, failing, trees>>
      BY <1>3 DEF vars
  <2>2. UNCHANGED <<Deps, Open, Kids, Tended>>
      BY <2>1, SameConfig DEF Open, Kids, Children, Tended
  <2>3. QED  BY <1>1, <2>1, <2>2 DEF Whole, Planted, Grown
<1>4. QED  BY <1>2, <1>3

(* A tree that kbnode_instantiate stores is whole, even if *errors counts what  *)
(* happened in others: node_del takes nothing out of it, and below each of its  *)
(* nodes there is one for each job and handler that exists, once and in their   *)
(* order, although the nodes below are made, and deleted, call by call.       *)
THEOREM StoredTreesComplete == Spec => []TreesAreComplete
<1>1. Whole => TreesAreComplete
  <2> SUFFICES ASSUME Whole, Finished, NEW r \in DOMAIN trees, NEW n \in Reached(trees[r])
               PROVE  inst[n].live /\ Children(n) = Existing(node_find_dependent_jobs(inst[n].id))
      BY DEF TreesAreComplete
  <2> DEFINE root == trees[r]
             Dead == {x \in Reached(root) : ~inst[x].live}
  <2>1. /\ inst \in Seq(Instance) /\ root \in DOMAIN inst /\ Planted
        /\ \A x \in DOMAIN inst : x \in Nat /\ inst[x].id \in Id /\ inst[x].parent \in Nat
      BY OpenFacts DEF Whole
  <2>2. inst[root].live /\ \A x \in DOMAIN inst : inst[x].parent < x
      BY <2>1 DEF Planted
  <2> HIDE DEF root
  <2>3. /\ Reached(root) \subseteq DOMAIN inst
        /\ \A x \in Reached(root) : x # root => inst[x].linked /\ inst[x].parent \in Reached(root)
      BY <2>1, ReachedUnfolds
  <2>4. \A x \in DOMAIN inst : inst[x].live => x \in Tended /\ Kids[x] = Existing(Deps[inst[x].id])
    <3>1. Open = {} /\ ~failing
        BY DEF Finished, Open
    <3>2. QED  BY <3>1 DEF Whole, Grown
  <2>5. Dead = {}
    <3> SUFFICES ASSUME Dead # {} PROVE FALSE
        OBVIOUS
    <3>1. Dead \in SUBSET Nat
        BY <2>1, <2>3
    <3>2. PICK x \in Dead : \A y \in Dead : x <= y
        BY <3>1, LeastNumber
    <3>3. x # root /\ x \in DOMAIN inst /\ inst[x].linked /\ inst[x].parent \in Reached(root) /\ ~inst[x].live
        BY <2>2, <2>3, <3>2
    <3>4. inst[x].parent < x /\ inst[x].parent \in Nat /\ x \in Nat
        BY <2>1, <2>2, <3>3
    <3>5. inst[inst[x].parent].live
        BY <3>2, <3>3, <3>4
    <3>6. inst[x].parent \in Tended
        BY <2>3, <2>4, <3>3, <3>5
    <3>7. QED  BY <3>3, <3>6 DEF Tended
  <2>6. n \in DOMAIN inst /\ inst[n].live /\ n \in Nat /\ inst[n].id \in Id
      BY <2>1, <2>3, <2>5 DEF root
  <2>7. Kids[n] = Existing(Deps[inst[n].id])
      BY <2>4, <2>6
  <2>8. QED  BY <2>6, <2>7 DEF Kids, Deps
<1>2. QED  BY <1>1, WholeInit, WholeStep, PTL DEF Spec
-----------------------------------------------------------------------------
(* What is freed twice.                                                     *)
Crowded == {id \in Id : Overruns(id)}

(* A dead node that is still in a list is a handler.                          *)
Unlisted == \A x \in DOMAIN inst : inst[x].linked /\ ~inst[x].live => inst[x].kind = "HANDLER"

Freed == Whole /\ Unlisted /\ JobsFreedOnce

LEMMA DeleteKinds ==
    ASSUME inst \in Seq(Instance), NEW n, Delete(n)
    PROVE  \A x \in DOMAIN inst :
             /\ inst'[x].kind = inst[x].kind
             /\ x \in Reached(n) => (inst'[x].linked <=> inst[x].linked /\ inst[x].kind = "HANDLER")
<1>1. \A x \in DOMAIN inst :
        inst'[x] = IF x \notin Reached(n) THEN inst[x]
                   ELSE [inst[x] EXCEPT !.live = FALSE, !.linked = @ /\ inst[x].kind = "HANDLER"]
    BY DEF Delete
<1>2. ASSUME NEW i \in Instance, NEW b
      PROVE  LET j == [i EXCEPT !.live = FALSE, !.linked = b] IN j.kind = i.kind /\ j.linked = b
    BY DEF Instance
<1>3. ASSUME NEW x \in DOMAIN inst, x \in Reached(n)
      PROVE  inst'[x].kind = inst[x].kind /\ (inst'[x].linked <=> inst[x].linked /\ inst[x].kind = "HANDLER")
  <2> DEFINE b == inst[x].linked /\ inst[x].kind = "HANDLER"
  <2>1. inst[x] \in Instance
      OBVIOUS
  <2>2. inst'[x] = [inst[x] EXCEPT !.live = FALSE, !.linked = b]
      BY <1>1, <1>3
  <2> HIDE DEF b
  <2>3. inst'[x].kind = inst[x].kind /\ inst'[x].linked = b
      BY <1>2, <2>1, <2>2
  <2>4. QED  BY <2>3 DEF b
<1>4. QED  BY <1>1, <1>3

LEMMA FreedInit == Init => Freed
<1> SUFFICES ASSUME Init PROVE Freed
    OBVIOUS
<1>1. inst = <<>> /\ undefined = FALSE
    BY DEF Init
<1>2. QED  BY <1>1, WholeInit DEF Freed, Unlisted, JobsFreedOnce

(* A call that begins overruns its own array, if any.                         *)
LEMMA EnterOverruns ==
    ASSUME TypeOK, config \in Configs, UNCHANGED config, ~failing', Unlisted,
           NEW id \in Id, NEW parent \in Nat, NEW kind \in Kinds, NEW callers \in Seq(Frame),
           Enter(id, parent, kind, callers)
    PROVE  Unlisted' /\ JobsFreedOnce'
<1> DEFINE f == [node |-> Len(inst) + 1, deps |-> Deps[id], at |-> 1]
<1>1. /\ \A x \in DOMAIN inst : inst'[x] = inst[x]
      /\ DOMAIN inst' = DOMAIN inst \cup {Len(inst) + 1}
      /\ inst'[Len(inst) + 1].id = id /\ inst'[Len(inst) + 1].live
    BY EnterInst
<1>2. Unlisted'
    BY <1>1 DEF Unlisted
<1>3. stack' = Append(callers, f) /\ stack' \in Seq(Frame)
    BY EnterType
<1>4. f.node = Len(inst) + 1
    OBVIOUS
<1> HIDE DEF f
<1>5. stack' # <<>> /\ stack'[Len(stack')] = f
    BY <1>3
<1>6. IdOf(Top)' = id
    BY <1>1, <1>4, <1>5 DEF IdOf, Top
<1>7. Crowded' = Crowded
    BY DEF Crowded, Overruns, Entries, node_find_dependent_jobs, Unhandled, HandlersOf
<1>8. undefined' => id \in Crowded
    BY DEF Enter, Crowded
<1>9. undefined' => Overruns(IdOf(Top))'
    BY <1>6, <1>7, <1>8 DEF Crowded
<1>10. JobsFreedOnce'
    BY <1>5, <1>9 DEF JobsFreedOnce
<1>11. QED  BY <1>2, <1>10

LEMMA FreedStep == Freed /\ [Next]_vars => Freed'
<1> SUFFICES ASSUME Freed, [Next]_vars PROVE Freed'
    OBVIOUS
<1>1. Whole /\ Whole' /\ Unlisted
    BY WholeStep DEF Freed
<1>2. Inv /\ Planted /\ TypeOK /\ config \in Configs /\ inst \in Seq(Instance)
    BY <1>1 DEF Whole, Inv, TypeOK
<1>3. CASE UNCHANGED vars
  <2>1. UNCHANGED <<config, stack, inst, failing, undefined>>
      BY <1>3 DEF vars
  <2>2. UNCHANGED <<Crowded, Unlisted>>
      BY <2>1 DEF Unlisted, Crowded, Overruns, Entries, node_find_dependent_jobs, Unhandled, HandlersOf
  <2>3. JobsFreedOnce'
      BY <2>1 DEF Freed, JobsFreedOnce, Overruns, Entries, node_find_dependent_jobs, Unhandled, HandlersOf, IdOf, Top
  <2>4. QED  BY <1>1, <2>2, <2>3 DEF Freed
<1>4. CASE Next
  <2>1. ~undefined /\ UNCHANGED config
      BY <1>2, <1>4, TypeStep DEF Next
  <2>2. CASE UNCHANGED <<inst, undefined>>
    <3>1. ~undefined' /\ Unlisted'
        BY <1>1, <2>1, <2>2 DEF Unlisted
    <3>2. QED  BY <1>1, <3>1 DEF Freed, JobsFreedOnce
  <2>3. CASE StartRoot
    <3>1. config.entries[rootsDone + 1] \in Id
        BY <1>2, <2>3, DepsType DEF StartRoot, TypeOK
    <3>2. <<>> \in Seq(Frame) /\ 0 \in Nat /\ "NONE" \in Kinds
        BY DEF Kinds
    <3>3. Enter(config.entries[rootsDone + 1], 0, "NONE", <<>>) /\ ~failing'
        BY <2>3 DEF StartRoot
    <3>4. Unlisted' /\ JobsFreedOnce'
        BY <1>1, <1>2, <2>1, <3>1, <3>2, <3>3, EnterOverruns
    <3>5. QED  BY <1>1, <3>4 DEF Freed
  <2>4. CASE Descend
    <3>1. stack # <<>> /\ InLoop /\ Dep.id \in Id /\ Enter(Dep.id, Top.node, Dep.kind, Advanced) /\ ~failing'
        BY <2>4 DEF Descend, InLoop
    <3>2. Dep.kind \in Kinds
        BY <1>2, <3>1, DepFacts DEF Dependency
    <3>3. Top.node \in Nat /\ Advanced \in Seq(Frame)
        BY <1>2, <3>1, Facts, MovedOn DEF Frame
    <3>4. Unlisted' /\ JobsFreedOnce'
        BY <1>1, <1>2, <2>1, <3>1, <3>2, <3>3, EnterOverruns
    <3>5. QED  BY <1>1, <3>4 DEF Freed
  <2>5. CASE CycleFound \/ ChildFailed
    <3> DEFINE top == Top.node
    <3>1. stack # <<>> /\ Delete(top) /\ failing'
        BY <2>5 DEF CycleFound, ChildFailed, InLoop
    <3>2. top \in DOMAIN inst /\ top \in Nat /\ inst[top].live
      <4>1. Len(stack) \in DOMAIN stack /\ Top = stack[Len(stack)] /\ Top.node \in DOMAIN inst
          BY <1>2, <3>1, Facts
      <4>2. QED  BY <1>2, <4>1 DEF Planted
    <3> HIDE DEF top
    <3>3. /\ Reached(top) \subseteq DOMAIN inst
          /\ \A x \in Reached(top) : x # top => inst[x].linked
        BY <1>2, <3>2, ReachedUnfolds
    <3>4. /\ DOMAIN inst' = DOMAIN inst
          /\ \A x \in DOMAIN inst : IF x \in Reached(top) THEN ~inst'[x].live ELSE inst'[x] = inst[x]
        BY <1>2, <3>1, DeleteInst
    <3>5. \A x \in DOMAIN inst :
            /\ inst'[x].kind = inst[x].kind
            /\ x \in Reached(top) => (inst'[x].linked <=> inst[x].linked /\ inst[x].kind = "HANDLER")
        BY <1>2, <3>1, DeleteKinds
    <3>6. Unlisted'
        BY <1>1, <3>4, <3>5 DEF Unlisted
    <3>7. ASSUME undefined'
          PROVE  \E x \in DOMAIN inst' : inst'[x].kind = "HANDLER" /\ inst'[x].linked /\ ~inst'[x].live
      <4>1. PICK x \in Reached(top) : ~inst[x].live
          BY <3>1, <3>7 DEF Delete
      <4>2. x \in DOMAIN inst /\ inst[x].linked /\ inst[x].kind = "HANDLER"
          BY <1>1, <3>2, <3>3, <4>1 DEF Unlisted
      <4>3. QED  BY <3>4, <3>5, <4>1, <4>2
    <3>8. JobsFreedOnce'
        BY <3>1, <3>7 DEF JobsFreedOnce
    <3>9. QED  BY <1>1, <3>6, <3>8 DEF Freed
  <2>6. MissingReference \/ ReturnNode \/ RootFailed => UNCHANGED <<inst, undefined>>
      BY DEF MissingReference, ReturnNode, RootFailed
  <2>7. QED  BY <1>4, <2>2, <2>3, <2>4, <2>5, <2>6 DEF Next
<1>5. QED  BY <1>3, <1>4

(* A failure that goes up the tree deletes the nodes of each call it ends, with *)
(* all below them: a job is in no list any more when its parent is deleted, so  *)
(* it is freed once.  Only a handler that failed (kbnode.c:269) is not.        *)
THEOREM FailureFreesOnce == Spec => []JobsFreedOnce
<1>1. Freed => JobsFreedOnce
    BY DEF Freed
<1>2. QED  BY <1>1, FreedInit, FreedStep, PTL DEF Spec
=============================================================================
